----------------------------- MODULE ToolPolicy -----------------------------
(***************************************************************************)
(* What a mode offers, what a call needs and what a prompt is made of:     *)
(* core/modes.ts, tools.ts, mcp-permissions.ts, agents.ts, prompts.ts and  *)
(* the functions of core/harness.ts that put them together with the        *)
(* settings document.                                                      *)
(*                                                                         *)
(* A tool is [modes, mutates, approval]: the modes it is pinned to (empty: *)
(* the mode decides by `mutates`) and the rule it was registered with.     *)
(***************************************************************************)
EXTENDS SettingsDoc

CONSTANTS Tools,         \* the registry: tool id -> [modes, mutates, approval]
          HostPrompts    \* the host's: [global, perMode, dynamic, user, skills]

GateTools == {"request_mode_switch", "propose_plan", "ask_user", "load_skill", "report_progress"}

ToolSpecs(ids) ==
  [ids -> [modes : SUBSET ModeIds, mutates : BOOLEAN, approval : Rules]]

ASSUME PolicyAssumption ==
  /\ Tools \in ToolSpecs(DOMAIN Tools) /\ DOMAIN Tools \subseteq ToolIds
  /\ GateTools \subseteq ToolIds
  /\ \A t \in DOMAIN Tools \cap GateTools : Tools[t].approval = "always_allow" /\ ~Tools[t].mutates

(***************************************************************************)
(* The tools of a mode.  An explicit list of modes wins; otherwise a tool  *)
(* that mutates is for the mode that acts; gate tools are in every mode.   *)
(***************************************************************************)
SelectTools(mode, allowMutating, extra) ==
  {t \in DOMAIN Tools :
     \/ mode \in Tools[t].modes
     \/ Tools[t].modes = {} /\ (allowMutating \/ ~Tools[t].mutates)
     \/ t \in GateTools \cup extra}

ToolNamesFor(mode) ==
  SelectTools(mode, mode = "agent", IF mode = "plan" THEN {"propose_plan"} ELSE {})

(***************************************************************************)
(* Approval.  EffectiveApprovals is what the settings page and the tool    *)
(* catalog show; ToolApprovalRule is what a call meets.                    *)
(***************************************************************************)
(* Mutant: the registry's rules, whatever was saved.                       *)
RegistryApprovals(s) ==
  [t \in DOMAIN Tools \cup DOMAIN s.approvals \cup GateTools |->
     IF t \in GateTools THEN "always_allow" ELSE Tools[t].approval]

EffectiveApprovals(s) ==
  [t \in DOMAIN Tools \cup DOMAIN s.approvals \cup GateTools |->
     IF t \in GateTools THEN "always_allow"
     ELSE IF t \in DOMAIN s.approvals THEN s.approvals[t] ELSE Tools[t].approval]

McpCallApproval(server, tool) ==
  LET p == IF server = None THEN DefaultPermissions ELSE server.permissions
  IN  IF tool \in DOMAIN p.tools THEN p.tools[tool] ELSE p.default

(* Whether a call of http_request only reads, and which remote tool of     *)
(* which server mcp_call names, is in the call's arguments.                *)
CallArgs == [reads : BOOLEAN, server : McpIds, tool : RemoteTools]

ToolApprovalRule(s, t, args) ==
  IF t \notin DOMAIN Tools THEN "requires_approval"
  ELSE IF t \in GateTools THEN "always_allow"
  ELSE IF t = "http_request" THEN IF args.reads THEN "always_allow" ELSE "requires_approval"
  ELSE IF t = "mcp_call" THEN McpCallApproval(Find(s.mcp, args.server), args.tool)
  ELSE Sent(s.approvals, t, Tools[t].approval)

ToolCatalog(s, mode) ==
  [t \in DOMAIN Tools |->
     [available |-> t \in ToolNamesFor(mode), approval |-> EffectiveApprovals(s)[t]]]

(* A patch may not name a tool that is not registered, nor gate a gate.    *)
ApprovalsRejected(u) ==
  \E t \in DOMAIN Sent(u, "approvals", NoMap) :
    t \notin DOMAIN Tools \/ (t \in GateTools /\ u.approvals[t] # "always_allow")

(***************************************************************************)
(* The system prompt: sections in a fixed order, the empty ones dropped.   *)
(***************************************************************************)
PromptsFor(s) ==
  [global  |-> IF s.global = None THEN HostPrompts.global ELSE s.global,
   perMode |-> Spread(HostPrompts.perMode, s.perMode),
   dynamic |-> HostPrompts.dynamic, user |-> HostPrompts.user, skills |-> HostPrompts.skills]

(* A session pins one agent, active or not; without a pin there is none.   *)
SoulOf(s, agentId) ==
  IF agentId \notin Ids(s.agents) THEN None ELSE Find(s.agents, agentId).soul

(* The servers that are enabled are named, reachable or not.               *)
McpSnapshot(s) ==
  LET enabled == Filter(s.mcp, {server \in Range(s.mcp) : server.enabled})
  IN  IF enabled = << >> THEN None ELSE [i \in DOMAIN enabled |-> enabled[i].id]

ComposePrompt(s, mode, agentId) ==
  LET p == PromptsFor(s)
      all == <<<<"global", p.global>>, <<"mode", mode>>, <<"perMode", Sent(p.perMode, mode, None)>>,
               <<"soul", SoulOf(s, agentId)>>, <<"user", p.user>>, <<"mcp", McpSnapshot(s)>>,
               <<"dynamic", p.dynamic>>, <<"skills", p.skills>>>>
  IN  Filter(all, {section \in Range(all) : section[2] # None})
=============================================================================
