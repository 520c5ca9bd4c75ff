----------------------------- MODULE MCSettings -----------------------------
(* Two operations at a time, three in all, over two providers with a key    *)
(* each, one agent, one remote server and a second search provider; the    *)
(* seed is one provider that is switched off, and an older row where it is *)
(* on may be there instead.                                                *)
EXTENDS Settings

CONSTANTS o1, o2, k1, k2, m1, note

MCOps == {o1, o2}
OpSymmetry == Permutations(MCOps)
MCKeys == {k1, k2}
MCProviderIds == {"local", "cloud"}
MCAgentIds == {"guide"}
MCSearchIds == {"duckduckgo", "searxng"}
MCMcpIds == {"files"}
MCToolIds == GateTools \cup {"write_note", "http_request", "mcp_call"}
MCModeIds == {"ask", "plan", "agent"}

Gate == [modes |-> {}, mutates |-> FALSE, approval |-> "always_allow"]
Acts(rule) == [modes |-> {}, mutates |-> TRUE, approval |-> rule]
MCTools == [t \in MCToolIds \ {"ask_user"} |->
  IF t \in GateTools THEN Gate
  ELSE IF t = "http_request" THEN [Acts("requires_approval") EXCEPT !.modes = {"ask", "agent"}]
  ELSE Acts("requires_approval")]

MCOverrides == {NoMap, [provider |-> "cloud"], [provider |-> "local", model |-> m1]}

MCHostPrompts == [global |-> None, perMode |-> NoMap, dynamic |-> note,
                  user |-> None, skills |-> None]
Local(on) == <<[id |-> "local", model |-> m1, key |-> k1, learned |-> NoMap,
                overrides |-> NoMap, active |-> on]>>
MCSeedProviders == Local(FALSE)

MCPatches == {
  [providers |-> <<[id |-> "cloud", model |-> m1, key |-> k2]>>],
  [providers |-> <<[id |-> "cloud", model |-> m1, active |-> FALSE],
                   [id |-> "local", model |-> m1, key |-> None]>>, default |-> "cloud"],
  [providers |-> <<[id |-> "local", model |-> m1, overrides |-> (m1 :> None)]>>],
  [providers |-> <<[id |-> "local", model |-> m1, active |-> FALSE, overrides |-> (m1 :> 8)]>>],
  [removeProviders |-> {"local"}],
  [default |-> "cloud"],
  [default |-> None],
  [approvals |-> ("write_note" :> "always_allow"), perMode |-> ("ask" :> note)],
  [approvals |-> ("mcp_call" :> "requires_approval" @@ "propose_plan" :> "always_allow")],
  [approvals |-> ("propose_plan" :> "requires_approval")],
  AddMcp("files", None),
  [mcp |-> <<[id |-> "files", permissions |-> [default |-> "always_allow", tools |-> NoMap]]>>],
  AddSearch([searchDefault |-> "duckduckgo"], "searxng", "searxng", note, k1)
    @@ [removeSearch |-> {"duckduckgo"}],
  [searchDefault |-> "searxng"],
  [agents |-> <<[id |-> "guide", soul |-> note]>>],
  [compaction |-> [strategy |-> "off"], removeProviders |-> {"cloud"}] }

MCListings == {NoMap, m1 :> (<<"card", "n_ctx_train">> :> 8 @@ <<"meta", "n_ctx">> :> 4)}

MCOldRows == {None, [providers |-> Local(TRUE), default |-> "local",
                     agents |-> <<[id |-> "guide", label |-> None, soul |-> note]>>,
                     activeAgent |-> "guide"]}
=============================================================================
