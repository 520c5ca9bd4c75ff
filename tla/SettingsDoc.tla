---------------------------- MODULE SettingsDoc ----------------------------
(***************************************************************************)
(* The settings document and the functions on it: core/settings-store.ts,  *)
(* with the shapes of protocol/settings.ts, core/model-catalog.ts and      *)
(* core/provider-override.ts.  Everything here is pure; Settings says when *)
(* the harness calls it.                                                   *)
(*                                                                         *)
(* An object with optional fields is a function whose domain is the set of *)
(* fields that were sent.  A list keyed by id is a sequence, because a     *)
(* JavaScript Map keeps insertion order and the order picks defaults.      *)
(* Labels, urls, timeouts and capability flags follow the rule of the      *)
(* optional field beside them and are left out.                            *)
(***************************************************************************)
EXTENDS Naturals, Sequences, FiniteSets, SequencesExt

CONSTANTS None,          \* null, undefined, or a credential that is not set
          ProviderIds, AgentIds, SearchIds, McpIds,
          Keys,          \* credentials
          Models,        \* model ids
          Windows,       \* context window sizes
          PromptTexts,   \* prompt texts and souls; None is the empty text
          ModeIds, ToolIds,
          RemoteTools    \* names of the tools behind an MCP server

Rules == {"always_allow", "requires_approval"}
NoMap == << >>
PartialMaps(D, R) == UNION {[d -> R] : d \in SUBSET D}

(* The object spread {...base, ...changes}, and an object with one field.  *)
Spread(base, changes) ==
  [x \in DOMAIN base \cup DOMAIN changes |-> IF x \in DOMAIN changes THEN changes[x] ELSE base[x]]
Only(field, value) == [x \in {field} |-> value]

(* The entries of s that are in S, in their order.                         *)
Filter(s, S) ==
  LET upTo[i \in 0..Len(s)] ==
        IF i = 0 THEN << >> ELSE IF s[i] \in S THEN Append(upTo[i - 1], s[i]) ELSE upTo[i - 1]
  IN  upTo[Len(s)]

(***************************************************************************)
(* Shapes.                                                                 *)
(***************************************************************************)
Provider == [id : ProviderIds, model : Models, key : Keys \cup {None},
             learned : PartialMaps(Models, Windows),
             overrides : PartialMaps(Models, Windows), active : BOOLEAN]
Agent == [id : AgentIds, label : PromptTexts \cup {None}, soul : PromptTexts \cup {None},
          active : BOOLEAN]
SearchProvider == [id : SearchIds, kind : {"duckduckgo", "searxng"},
                   url : PromptTexts \cup {None}, key : Keys \cup {None}]
Permissions == [default : Rules, tools : PartialMaps(RemoteTools, Rules)]
McpServer == [id : McpIds, enabled : BOOLEAN, key : Keys \cup {None},
              permissions : Permissions]
CompactionSettings == [strategy : {"rolling", "drop", "off"}, target : 1..100, keep : Nat \ {0}]

(* What the browser gets of a provider, and the status bar of the default. *)
PublicProvider == [id : ProviderIds, model : Models, hasKey : BOOLEAN,
                   learned : PartialMaps(Models, Windows),
                   overrides : PartialMaps(Models, Windows), active : BOOLEAN]
ProviderSnapshot == [id : ProviderIds, model : Models, window : Windows \cup {None}]

(* None is no object, no id and no window.                                 *)
ASSUME NoneAssumption ==
  /\ None \notin Provider \cup Agent \cup SearchProvider \cup McpServer
  /\ None \notin PublicProvider \cup ProviderSnapshot
  /\ None \notin ProviderIds \cup AgentIds \cup SearchIds \cup McpIds /\ None \notin Windows

Ids(list) == {list[i].id : i \in DOMAIN list}
Keyed(list) == \A i, j \in DOMAIN list : list[i].id = list[j].id => i = j

StoredSettings ==
  [providers : Seq(Provider), default : ProviderIds \cup {None},
   global : PromptTexts \cup {None}, perMode : PartialMaps(ModeIds, PromptTexts \cup {None}),
   approvals : PartialMaps(ToolIds, Rules), askUser : BOOLEAN, maxRounds : Nat \ {0},
   agents : Seq(Agent), search : Seq(SearchProvider), searchDefault : SearchIds \cup {None},
   mcp : Seq(McpServer), compaction : CompactionSettings]

IsSettings(s) ==
  /\ s \in StoredSettings
  /\ Keyed(s.providers) /\ Keyed(s.agents) /\ Keyed(s.search) /\ Keyed(s.mcp)

DefaultCompaction == [strategy |-> "rolling", target |-> 75, keep |-> 16]
DefaultPermissions == [default |-> "requires_approval", tools |-> NoMap]

Empty == [providers |-> << >>, default |-> None, global |-> None, perMode |-> NoMap,
          approvals |-> NoMap, askUser |-> TRUE, maxRounds |-> 12, agents |-> << >>,
          search |-> << >>, searchDefault |-> None, mcp |-> << >>,
          compaction |-> DefaultCompaction]

(* The first entry of a list with an id, or None. *)
Find(list, id) ==
  LET at == {i \in DOMAIN list : list[i].id = id}
  IN  IF at = {} THEN None ELSE list[Min(at)]

Sent(u, field, old) == IF field \in DOMAIN u THEN u[field] ELSE old

(* A document whose defaults are there, and whether the provider's is on.  *)
Sound(s) ==
  /\ IsSettings(s)
  /\ s.default # None => s.default \in Ids(s.providers)
  /\ s.searchDefault # None => s.searchDefault \in Ids(s.search)
DefaultIsOn(s) == s.default # None => Find(s.providers, s.default).active

(***************************************************************************)
(* A patch: every field may be missing, and in an entry that is written    *)
(* all but those that are named first.                                     *)
(***************************************************************************)
IsProviderWrite(w) ==
  /\ w.id \in ProviderIds /\ w.model \in Models
  /\ Sent(w, "key", None) \in Keys \cup {None} /\ Sent(w, "active", TRUE) \in BOOLEAN
  /\ Sent(w, "learned", NoMap) \in PartialMaps(Models, Windows)
  /\ Sent(w, "overrides", NoMap) \in PartialMaps(Models, Windows \cup {None})

IsAgentWrite(w) ==
  /\ w.id \in AgentIds /\ w.soul \in PromptTexts \cup {None}
  /\ Sent(w, "label", None) \in PromptTexts \cup {None} /\ Sent(w, "active", TRUE) \in BOOLEAN

IsSearchWrite(w) ==
  /\ w.id \in SearchIds /\ w.kind \in {"duckduckgo", "searxng"}
  /\ Sent(w, "url", None) \in PromptTexts \cup {None} /\ Sent(w, "key", None) \in Keys \cup {None}

IsMcpWrite(w) ==
  /\ w.id \in McpIds /\ Sent(w, "enabled", TRUE) \in BOOLEAN
  /\ Sent(w, "key", None) \in Keys \cup {None}
  /\ "permissions" \in DOMAIN w => w.permissions \in Permissions

IsWrite(kind, w) ==
  CASE kind = "provider" -> IsProviderWrite(w)
    [] kind = "agent"    -> IsAgentWrite(w)
    [] kind = "search"   -> IsSearchWrite(w)
    [] kind = "mcp"      -> IsMcpWrite(w)
AreWrites(kind, list) == list \in Seq(Range(list)) /\ \A i \in DOMAIN list : IsWrite(kind, list[i])

IsPatch(u) ==
  /\ AreWrites("provider", Sent(u, "providers", << >>)) /\ AreWrites("agent", Sent(u, "agents", << >>))
  /\ AreWrites("search", Sent(u, "search", << >>)) /\ AreWrites("mcp", Sent(u, "mcp", << >>))
  /\ Sent(u, "default", None) \in ProviderIds \cup {None}
  /\ Sent(u, "searchDefault", None) \in SearchIds \cup {None}
  /\ Sent(u, "global", None) \in PromptTexts \cup {None}
  /\ Sent(u, "perMode", NoMap) \in PartialMaps(ModeIds, PromptTexts \cup {None})
  /\ Sent(u, "approvals", NoMap) \in PartialMaps(ToolIds, Rules)
  /\ Sent(u, "askUser", TRUE) \in BOOLEAN /\ Sent(u, "maxRounds", 1) \in Nat \ {0}
  /\ Spread(DefaultCompaction, Sent(u, "compaction", NoMap)) \in CompactionSettings

(***************************************************************************)
(* Filling in a row that an older version wrote: missing fields get their  *)
(* defaults, and the agent the old activeAgentId names becomes active.     *)
(***************************************************************************)
MigrateAgents(raw) ==
  LET chosen == Sent(raw, "activeAgent", None)
  IN  [i \in DOMAIN Sent(raw, "agents", << >>) |->
         Spread([active |-> chosen # None /\ chosen = raw.agents[i].id], raw.agents[i])]

Normalize(raw) ==
  LET full == Spread(Empty, raw)
  IN  [f \in DOMAIN Empty |->
         CASE f = "agents"     -> MigrateAgents(raw)
           [] f = "providers"  -> [i \in DOMAIN full.providers |->
                                     Spread([active |-> TRUE], full.providers[i])]
           [] f = "compaction" -> Spread(DefaultCompaction, full.compaction)
           [] OTHER            -> full[f]]

(* Whether the row still looks like one nobody has written: everything but *)
(* the compaction settings and the search default is compared.             *)
IsPristine(s) ==
  \A f \in DOMAIN Empty \ {"compaction", "searchDefault"} : s[f] = Empty[f]

(***************************************************************************)
(* One entry written over the one of the same id, or over nothing.         *)
(***************************************************************************)
Kept(w, field, current, default) ==
  Sent(w, field, IF current = None THEN default ELSE current[field])

(* A null in a written override map takes that model's override away. *)
CompactOverrides(map) == [m \in {x \in DOMAIN map : map[x] # None} |-> map[m]]

(* Mutant: a key that is not sent is a key that is cleared.                *)
UpsertProviderAnew(current, w) ==
  [id |-> w.id, model |-> w.model, key |-> Sent(w, "key", None),
   learned |-> Kept(w, "learned", current, NoMap), overrides |-> NoMap, active |-> TRUE]

UpsertProvider(current, w) ==
  [id        |-> w.id,
   model     |-> w.model,
   key       |-> Kept(w, "key", current, None),
   learned   |-> Kept(w, "learned", current, NoMap),
   overrides |-> CompactOverrides(Kept(w, "overrides", current, NoMap)),
   active    |-> Kept(w, "active", current, TRUE)]

(* An agent's label is the one field that is dropped when it is not sent. *)
UpsertAgent(current, w) ==
  [id     |-> w.id,
   label  |-> Sent(w, "label", None),
   soul   |-> w.soul,
   active |-> Kept(w, "active", current, TRUE)]

UpsertSearch(current, w) ==
  [id   |-> w.id,
   kind |-> w.kind,
   url  |-> Kept(w, "url", current, None),
   key  |-> Kept(w, "key", current, None)]

UpsertMcp(current, w) ==
  [id          |-> w.id,
   enabled     |-> Kept(w, "enabled", current, TRUE),
   permissions |-> Kept(w, "permissions", current, DefaultPermissions),
   key         |-> Kept(w, "key", current, None)]

(* Removals first, then the writes in their order; a Map keeps the place   *)
(* of an entry that is overwritten and appends one that is new.            *)
Put(list, entry) ==
  IF entry.id \in Ids(list)
  THEN [i \in DOMAIN list |-> IF list[i].id = entry.id THEN entry ELSE list[i]]
  ELSE Append(list, entry)

Upsert(kind, current, w) ==
  CASE kind = "provider" -> UpsertProvider(current, w)
    [] kind = "agent"    -> UpsertAgent(current, w)
    [] kind = "search"   -> UpsertSearch(current, w)
    [] kind = "mcp"      -> UpsertMcp(current, w)

UpsertNamed(kind, list, removed, writes) ==
  LET upTo[i \in 0..Len(writes)] ==
        IF i = 0 THEN Filter(list, {e \in Range(list) : e.id \notin removed})
        ELSE Put(upTo[i - 1], Upsert(kind, Find(upTo[i - 1], writes[i].id), writes[i]))
  IN  upTo[Len(writes)]

(***************************************************************************)
(* The two defaults.                                                       *)
(***************************************************************************)
FirstActive(list) ==
  LET at == {i \in DOMAIN list : list[i].active}
  IN  IF at = {} THEN None ELSE list[Min(at)].id

FirstId(list) == IF list = << >> THEN None ELSE list[1].id

WantedDefault(s, u, list) ==
  IF "default" \in DOMAIN u THEN u.default
  ELSE IF s.default # None THEN IF s.default \in Ids(list) THEN s.default ELSE FirstActive(list)
  ELSE IF FirstActive(list) # None THEN FirstActive(list) ELSE FirstId(list)

(* A default that is named becomes active; one that is switched off moves. *)
Activated(u, list) ==
  [i \in DOMAIN list |->
     IF Sent(u, "default", None) = list[i].id THEN [list[i] EXCEPT !.active = TRUE] ELSE list[i]]

(* Mutant: the default stays where it is.                                  *)
NextDefaultStays(wanted, list) == wanted

NextDefault(wanted, list) ==
  IF wanted # None /\ ~Find(list, wanted).active THEN FirstActive(list) ELSE wanted

NextSearchDefault(s, u, list) ==
  IF "searchDefault" \in DOMAIN u THEN u.searchDefault
  ELSE IF s.searchDefault \in Ids(list) THEN s.searchDefault ELSE FirstId(list)

(***************************************************************************)
(* A patch.  It throws when it names a default that is not there after it. *)
(***************************************************************************)
PatchedProviders(s, u) ==
  UpsertNamed("provider", s.providers, Sent(u, "removeProviders", {}), Sent(u, "providers", << >>))
PatchedSearch(s, u) ==
  UpsertNamed("search", s.search, Sent(u, "removeSearch", {}), Sent(u, "search", << >>))

PatchThrows(s, u) ==
  \/ Sent(u, "default", None) \notin Ids(PatchedProviders(s, u)) \cup {None}
  \/ Sent(u, "searchDefault", None) \notin Ids(PatchedSearch(s, u)) \cup {None}

ApplySettingsUpdate(s, u) ==
  LET plain == PatchedProviders(s, u)
      list  == Activated(u, plain)
  IN  [providers     |-> list,
       default       |-> NextDefault(WantedDefault(s, u, plain), list),
       global        |-> Sent(u, "global", s.global),
       perMode       |-> Spread(s.perMode, Sent(u, "perMode", NoMap)),
       approvals     |-> Spread(s.approvals, Sent(u, "approvals", NoMap)),
       askUser       |-> Sent(u, "askUser", s.askUser),
       maxRounds     |-> Sent(u, "maxRounds", s.maxRounds),
       agents        |-> UpsertNamed("agent", s.agents, Sent(u, "removeAgents", {}),
                                     Sent(u, "agents", << >>)),
       search        |-> PatchedSearch(s, u),
       searchDefault |-> NextSearchDefault(s, u, PatchedSearch(s, u)),
       mcp           |-> UpsertNamed("mcp", s.mcp, Sent(u, "removeMcp", {}), Sent(u, "mcp", << >>)),
       compaction    |-> Spread(s.compaction, Sent(u, "compaction", NoMap))]

(***************************************************************************)
(* What leaves the harness: whether a credential is set, never which.      *)
(***************************************************************************)
Redacted(list) ==
  [i \in DOMAIN list |-> [f \in (DOMAIN list[i] \ {"key"}) \cup {"hasKey"} |->
     IF f = "hasKey" THEN list[i].key # None ELSE list[i][f]]]

PublicSettings(s, approvals) ==
  [s EXCEPT !.providers = Redacted(s.providers), !.search = Redacted(s.search),
            !.mcp = Redacted(s.mcp), !.approvals = approvals]

(***************************************************************************)
(* Model windows.  A card of /v1/models is a function from the places a    *)
(* host may state a window to what it states there; a value that is no     *)
(* positive integer is 0.  Of the runtime names only n_ctx prefers the     *)
(* meta object; the training ceiling is the last resort; a generation cap  *)
(* is no place at all.                                                     *)
(***************************************************************************)
Layers(metaFirst) == IF metaFirst THEN <<"meta", "card", "info", "metadata">>
                                  ELSE <<"card", "meta", "info", "metadata">>
Places ==
  [i \in 1..4 |-> <<Layers(TRUE)[i], "n_ctx">>]
    \o [i \in 1..4 |-> <<Layers(FALSE)[i], "runtime">>]
    \o << <<"status", "args">> >>
    \o [i \in 1..4 |-> <<Layers(TRUE)[i], "n_ctx_train">>]

WindowOfCard(card) ==
  LET at == {i \in DOMAIN Places : Places[i] \in DOMAIN card /\ card[Places[i]] > 0}
  IN  IF at = {} THEN None ELSE card[Places[Min(at)]]

(* The windows a listing teaches: those of the cards that state one. *)
Learn(old, cards) ==
  Spread(old, [m \in {x \in DOMAIN cards : WindowOfCard(cards[x]) # None} |-> WindowOfCard(cards[m])])

(***************************************************************************)
(* Which profile and model a turn calls: turn over session over settings,  *)
(* field by field; an override that sets nothing is none.                  *)
(***************************************************************************)
(* Mutant: the session wins over the request.                              *)
SelectSessionFirst(s, session, turn) ==
  LET over == Spread(turn, session)
      p    == Find(s.providers, Sent(over, "provider", s.default))
  IN  IF p = None THEN None ELSE [profile |-> p, model |-> Sent(over, "model", p.model)]

SelectProvider(s, session, turn) ==
  LET over == Spread(session, turn)
      p    == Find(s.providers, Sent(over, "provider", s.default))
  IN  IF p = None THEN None ELSE [profile |-> p, model |-> Sent(over, "model", p.model)]

Without(record, field) == [f \in DOMAIN record \ {field} |-> record[f]]
SetSessionProvider(record, provider) ==
  IF provider = NoMap THEN Without(record, "provider") ELSE Spread(record, [provider |-> provider])
SetSessionAgent(record, agentId) ==
  IF agentId = None THEN Without(record, "agent") ELSE Spread(record, [agent |-> agentId])
=============================================================================
