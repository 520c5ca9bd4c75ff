------------------------------ MODULE Sessions ------------------------------
(***************************************************************************)
(* Sessions from their creation to their end, and what people let their    *)
(* tools do meanwhile: the routes of server/routes.ts behind the guard of  *)
(* server/auth.ts, createSession and deleteSession of core/harness.ts, the *)
(* session and memory stores, and the gated calls of core/turn-loop.ts,    *)
(* with the memory tools as the tools that are called.                     *)
(*                                                                         *)
(* Requests, and the turns of several sessions, interleave at every await. *)
(* A read-modify-write under a session's lock is one step, which is what   *)
(* SessionCache shows.  Plans are decided in one step here; TurnGates has  *)
(* the steps in between, the other gates, and restarts.  So is a patch of  *)
(* the rules of the tools; Settings has its load and its put.              *)
(***************************************************************************)
EXTENDS Grants, FiniteSets

CONSTANTS Requests,     \* calls of the routes
          Actors,       \* who calls: resolveActor's results
          Can,          \* the capabilities of each of them
          Fields,       \* what a person sets of a session: its mode, agent, provider
          Values,       \* the values of a field
          Default,      \* the value of each in a new session
          AgentMode,    \* the value of the mode that plan approval writes
          Existing,     \* the sessions there are at first
          MemoryIds,    \* ids of memory rows
          Texts,        \* user profiles
          Edits,        \* edits of memory that people make: [of, to]
          FirstRules,   \* the rules of the tools at first, stored or their own
          Nobody,       \* an actor that is not authenticated
          Gone,         \* no row for this id
          MaxTurns,     \* bound: turns started ...
          MaxLive,      \* ... and live at a time
          MaxGates      \* bound: calls of all turns

Capabilities == {"chat", "read", "decide", "administer", "*"}
ToolRules == {"always_allow", "requires_approval"}

ASSUME SessionsAssumption ==
  /\ Can \in [Actors -> SUBSET Capabilities] /\ Nobody \notin Actors
  /\ "mode" \in Fields /\ {Default, AgentMode} \subseteq Values
  /\ Existing \subseteq Ids
  /\ MaxTurns \in Nat /\ MaxLive \in Nat /\ MaxGates \in Nat
  /\ \A c \in Calls : \/ c.tool = "write_user" /\ c.args \in Texts
                      \/ c.tool = "forget" /\ c.args \in MemoryIds
                      \/ c.tool = "remember"
  /\ FirstRules \in [Tools -> ToolRules]
  /\ Edits \subseteq [of : {"user"}, to : Texts] \cup [of : {"upsert", "delete"}, to : MemoryIds]

VARIABLES records,   \* the rows of the session store, or Gone
          grants,    \* the grant store
          memory,    \* the memory store: [user, rows]
          rules,     \* the rule in force for each tool: the settings', or its own
          turn,      \* the live turn of each session
          req,       \* the requests
          turns, gates,   \* counters for the bounds
          made,      \* history: the ids that were given out
          lastSet,   \* history: the last value a sanctioned writer wrote
          allowed,   \* history: what people let tools do, as standing permits ...
          owed       \* history: ... and as single runs of a call

storeVars == <<records, grants, memory, rules>>
boundVars == <<turns, gates>>
historyVars == <<made, lastSet, allowed, owed>>
vars == <<storeVars, turn, req, boundVars, historyVars>>

Pins == [Fields -> Values]
FirstPins == [f \in Fields |-> Default]
GateIds == 1..MaxGates
Rows == [id : GateIds, call : Calls]
Records == [workspace : Workspaces \cup {None}, pins : Pins,
            approvals : SUBSET Rows, plan : Rows \cup {None}]

ASSUME AbsentAssumption == Gone \notin Records /\ None \notin Rows \cup Calls

(* A turn: where it is, the gated call it works on, whether as a plan's    *)
(* step, how its gate was settled and whether it runs on a single receipt. *)
Idle == [at |-> "idle"]

NewRecord(ws, pins) ==
  [workspace |-> ws, pins |-> pins, approvals |-> {}, plan |-> None]

Exists(s) == records[s] # Gone
Query(s) == [session |-> s, workspace |-> turn[s].workspace]

-----------------------------------------------------------------------------
(* The guard.                                                              *)

(* Mutant: the plan routes and the settings of memory need what chat needs. *)
RequiredForChat(kind) == IF kind = "decide" THEN "decide" ELSE "chat"

(* The capability each route names.                                        *)
Required(kind) ==
  CASE kind \in {"create", "delete", "set", "cancel"} -> "chat"
    [] kind \in {"decide", "plan"}                    -> "decide"
    [] kind \in {"memory", "rule"}                     -> "administer"

HasCapability(actor, capability) == Can[actor] \cap {capability, "*"} # {}

(* What may be asked: of sessions that were made, of gates that were shown. *)
Bodies ==
  [kind : {"delete", "cancel"}, on : made]
    \cup [kind : {"set"}, on : made, field : Fields, value : Values]
    \cup [kind : {"decide"}, on : made, gate : 1..gates, decision : Decisions]
    \cup [kind : {"plan"}, on : made, approve : BOOLEAN]
    \cup [kind : {"memory"}, edit : Edits]
    \cup [kind : {"rule"}, tool : Tools, rule : ToolRules]

Done == [step |-> "done"]
Reply(q) == req' = [req EXCEPT ![q] = Done]

(* A request comes in: 401 for nobody, 403 without the capability.  What a *)
(* live turn is at the time is remembered for a cancel.                    *)
Arrive(q) ==
  /\ req[q].step = "new"
  /\ \E actor \in Actors \cup {Nobody}, body \in Bodies :
       IF actor # Nobody /\ HasCapability(actor, Required(body.kind))
       THEN req' = [req EXCEPT ![q] =
                      [step |-> "admitted", by |-> actor, body |-> body,
                       met |-> IF body.kind = "cancel" /\ turn[body.on] # Idle
                               THEN turn[body.on].number ELSE 0]]
       ELSE Reply(q)
  /\ UNCHANGED <<storeVars, turn, boundVars, historyVars>>

At(q, step, kind) == req[q].step = step /\ req[q].body.kind = kind
Step(q, step) == req' = [req EXCEPT ![q].step = step]
Body(q) == req[q].body

-----------------------------------------------------------------------------
(* The session routes.                                                     *)

(* createSession, by its route or by a send that names no session: a fresh *)
(* id, the mode that was asked for, no turn and nothing pending.           *)
Create ==
  /\ \E actor \in Actors : HasCapability(actor, Required("create"))
  /\ \E s \in Ids \ made, ws \in Workspaces \cup {None}, mode \in Values :
       LET pins == [FirstPins EXCEPT !["mode"] = mode]
       IN  /\ records' = [records EXCEPT ![s] = NewRecord(ws, pins)]
           /\ made' = made \cup {s} /\ lastSet' = [lastSet EXCEPT ![s] = pins]
  /\ UNCHANGED <<grants, memory, rules, turn, req, boundVars, allowed, owed>>

(* deleteSession: the row goes, then the session's grants; an id without a *)
(* row is a 404.  The live turn is not told.                               *)
DeleteRow(q) ==
  /\ At(q, "admitted", "delete")
  /\ IF Exists(Body(q).on) THEN Step(q, "clearing") ELSE Reply(q)
  /\ records' = [records EXCEPT ![Body(q).on] = Gone]
  /\ UNCHANGED <<grants, memory, rules, turn, boundVars, historyVars>>

DeleteGrants(q) ==
  /\ req[q].step = "clearing"
  /\ grants' = ClearSession(grants, Body(q).on)
  /\ Reply(q)
  /\ UNCHANGED <<records, memory, rules, turn, boundVars, historyVars>>

(* Mutant: the record is written as the request found it.                  *)
WriteBack(s, field, value) == records' =
  [records EXCEPT ![s] =
     IF @ = Gone THEN [NewRecord(None, lastSet[s]) EXCEPT !.pins[field] = value]
     ELSE [@ EXCEPT !.pins[field] = value]]

(* setSessionMode, setSessionAgent, setSessionProvider on the row as it is *)
(* now; the row decides its workspace.                                     *)
SetPin(s, field, value) == records' =
  [records EXCEPT ![s] = IF @ = Gone THEN Gone ELSE [@ EXCEPT !.pins[field] = value]]

(* set-mode, set-agent and set-provider: a value the settings do not know  *)
(* is a 400, a session that is gone a 404.                                 *)
Set(q) ==
  /\ At(q, "admitted", "set")
  /\ \/ UNCHANGED <<records, lastSet>>
     \/ LET b == Body(q)
        IN  /\ SetPin(b.on, b.field, b.value)
            /\ lastSet' = IF Exists(b.on) THEN [lastSet EXCEPT ![b.on][b.field] = b.value]
                          ELSE lastSet
  /\ Reply(q)
  /\ UNCHANGED <<grants, memory, rules, turn, boundVars, made, allowed, owed>>

-----------------------------------------------------------------------------
(* The memory routes.                                                      *)

SetUser(text) == memory' = [memory EXCEPT !.user = text]
UpsertRow(id) == memory' = [memory EXCEPT !.rows = @ \cup {id}]
DeleteMemory(id) == memory' = [memory EXCEPT !.rows = @ \ {id}]

EditMemory(q) ==
  /\ At(q, "admitted", "memory")
  /\ LET e == Body(q).edit
     IN  CASE e.of = "user"   -> SetUser(e.to)
           [] e.of = "upsert" -> UpsertRow(e.to)
           [] e.of = "delete" -> DeleteMemory(e.to)
  /\ Reply(q)
  /\ UNCHANGED <<records, grants, rules, turn, boundVars, historyVars>>

(* PATCH /settings with a rule for a tool (updateSettings): the other      *)
(* tools keep theirs.                                                      *)
SetRule(q) ==
  /\ At(q, "admitted", "rule")
  /\ rules' = [rules EXCEPT ![Body(q).tool] = Body(q).rule]
  /\ Reply(q)
  /\ UNCHANGED <<records, grants, memory, turn, boundVars, historyVars>>

-----------------------------------------------------------------------------
(* The routes that meet the live turn.  Each looks the session up first.   *)

Find(q) ==
  /\ req[q].step = "admitted" /\ Body(q).kind \in {"cancel", "decide", "plan"}
  /\ IF Exists(Body(q).on) THEN Step(q, "found")
     ELSE IF Body(q).kind = "cancel" THEN Step(q, "done") ELSE Reply(q)
  /\ UNCHANGED <<storeVars, turn, boundVars, historyVars>>

(* cancel: the waiters of the session are rejected, the turn is told, and  *)
(* the answer waits for its end.                                           *)
Told(t) ==
  IF t = Idle THEN t
  ELSE [t EXCEPT !.aborted = TRUE,
                 !.verdict = IF t.at = "waiting" /\ @ = "none" THEN "rejected" ELSE @]

Cancel(q) ==
  /\ At(q, "found", "cancel")
  /\ LET s == Body(q).on
     IN  /\ turn' = [turn EXCEPT ![s] = Told(@)]
         /\ req' = [req EXCEPT ![q].step = IF turn[s] = Idle THEN "done" ELSE "ending",
                               ![q].met = IF turn[s] = Idle THEN 0 ELSE turn[s].number]
  /\ UNCHANGED <<storeVars, boundVars, historyVars>>

Ended(q) ==
  /\ req[q].step = "ending"
  /\ ~(turn[Body(q).on] # Idle /\ turn[Body(q).on].number = req[q].met)
  /\ Step(q, "done")
  /\ UNCHANGED <<storeVars, turn, boundVars, historyVars>>

(* What a decision lets tools do, apart from how it is stored.             *)
Permit(decision, q, tool) ==
  CASE decision = "allow_session"   -> [scope |-> "session", id |-> q.session, tool |-> tool]
    [] decision = "allow_workspace" /\ q.workspace # None ->
         [scope |-> "workspace", id |-> q.workspace, tool |-> tool]
    [] OTHER -> [scope |-> "anywhere", id |-> None, tool |-> tool]

(* decideToolApproval: a pending row and an open waiter, or a 404.         *)
Decide(q) ==
  /\ At(q, "found", "decide")
  /\ LET s == Body(q).on
         d == Body(q).decision
         t == turn[s]
         open == /\ Exists(s) /\ \E r \in records[s].approvals : r.id = Body(q).gate
                 /\ t # Idle /\ t.at = "waiting" /\ t.gate = Body(q).gate /\ t.verdict = "none"
     IN  IF open
         THEN /\ turn' = [turn EXCEPT ![s].verdict = d]
              /\ allowed' = IF d \in {"deny", "allow_once"} THEN allowed
                            ELSE allowed \cup {Permit(d, Query(s), t.call.tool)}
              /\ owed' = IF d = "allow_once" THEN owed (+) SetToBag({<<s, t.call>>}) ELSE owed
         ELSE UNCHANGED <<turn, allowed, owed>>
  /\ Reply(q)
  /\ UNCHANGED <<storeVars, boundVars, made, lastSet>>

(* decidePlan, under the session's lock: approval mints a receipt for the  *)
(* step of the plan and writes the mode; the row is cleared, and whoever   *)
(* waits is told.                                                          *)
DecidePlan(q) ==
  /\ At(q, "found", "plan")
  /\ LET s == Body(q).on
         yes == Body(q).approve
         t == turn[s]
         step == records[s].plan.call
     IN  IF ~Exists(s) \/ records[s].plan = None
         THEN UNCHANGED <<records, grants, turn, lastSet, owed>>
         ELSE /\ grants' = IF yes
                           THEN AddGrant(grants,
                                  GrantForDecision("allow_once", [session |-> s, workspace |-> None],
                                                   step))
                           ELSE grants
              /\ records' = [records EXCEPT ![s].plan = None,
                                            ![s].pins["mode"] = IF yes THEN AgentMode ELSE @]
              /\ lastSet' = [lastSet EXCEPT ![s]["mode"] = IF yes THEN AgentMode ELSE @]
              /\ owed' = IF yes THEN owed (+) SetToBag({<<s, step>>}) ELSE owed
              /\ turn' = IF t # Idle /\ t.at = "waiting" /\ t.gate = records[s].plan.id
                              /\ t.verdict = "none"
                         THEN [turn EXCEPT ![s].verdict = IF yes THEN "allow_once" ELSE "deny"]
                         ELSE turn
  /\ Reply(q)
  /\ UNCHANGED <<memory, rules, boundVars, made, allowed>>

RequestStep(q) ==
  \/ DeleteRow(q) \/ DeleteGrants(q) \/ Set(q) \/ EditMemory(q) \/ SetRule(q)
  \/ Find(q) \/ Cancel(q) \/ Ended(q) \/ Decide(q) \/ DecidePlan(q)

-----------------------------------------------------------------------------
(* The turn.                                                               *)

GoTo(s, at) == turn' = [turn EXCEPT ![s].at = at]
NextCall(s) == turn' = [turn EXCEPT ![s].at = "calls", ![s].call = None, ![s].plan = FALSE,
                                    ![s].gate = 0, ![s].verdict = "none"]
EndTurn(s) == turn' = [turn EXCEPT ![s] = Idle]

(* runTurn: executeTurn loads the record, and without one it is over at    *)
(* once.  The mode of the send is written as soon as it has.               *)
Begin(s) ==
  /\ turn[s] = Idle /\ Exists(s) /\ turns < MaxTurns
  /\ Cardinality({i \in Ids : turn[i] # Idle}) < MaxLive
  /\ turns' = turns + 1
  /\ turn' = [turn EXCEPT ![s] =
                [at |-> "pinning", number |-> turns + 1, aborted |-> FALSE,
                 workspace |-> records[s].workspace, loaded |-> records[s].pins,
                 call |-> None, plan |-> FALSE, gate |-> 0, verdict |-> "none"]]
  /\ UNCHANGED <<storeVars, req, gates, historyVars>>

PinMode(s) ==
  /\ turn[s].at = "pinning"
  /\ IF Exists(s)
     THEN \E m \in Values :
            /\ SetPin(s, "mode", m) /\ lastSet' = [lastSet EXCEPT ![s]["mode"] = m]
            /\ GoTo(s, "calls")
     ELSE EndTurn(s) /\ UNCHANGED <<records, lastSet>>
  /\ UNCHANGED <<grants, memory, rules, req, boundVars, made, allowed, owed>>

(* Mutant: a turn writes what it loaded into the row again.                *)
PersistLoaded(s, approvals, plan) == records' =
  [records EXCEPT ![s] = [@ EXCEPT !.approvals = approvals, !.plan = plan, !.pins = turn[s].loaded]]

(* persist: what the turn owns goes into the row as it is now.             *)
Persist(s, approvals, plan) == records' =
  [records EXCEPT ![s] = [@ EXCEPT !.approvals = approvals, !.plan = plan]]

(* The head of the loop over calls: a turn that was told stops, any other  *)
(* takes a call, as a plan's step or to carry it out, or ends.             *)
Stop(s) ==
  /\ turn[s].at = "calls"
  /\ EndTurn(s)
  /\ UNCHANGED <<storeVars, req, boundVars, historyVars>>

(* toolApprovalRule: the rule of the tool as it is now.  A call of a tool  *)
(* that is always allowed asks nobody; a plan is a gate of its own.        *)
Take(s) ==
  /\ turn[s].at = "calls" /\ ~turn[s].aborted /\ gates < MaxGates
  /\ gates' = gates + 1
  /\ \E c \in Calls, plan \in BOOLEAN :
       LET asks == rules[c.tool] = "requires_approval"
       IN  turn' = [turn EXCEPT ![s].at = IF plan THEN "asking"
                                          ELSE IF asks THEN "checking" ELSE "running",
                                ![s].call = c, ![s].plan = plan, ![s].gate = gates + 1,
                                ![s].verdict = IF plan \/ asks THEN "none" ELSE "unasked"]
  /\ UNCHANGED <<storeVars, req, turns, historyVars>>

(* resolveGrant: a receipt is spent, or a standing grant is looked for.    *)
Check(s) ==
  /\ turn[s].at = "checking"
  /\ LET spent == ConsumeOnce(grants, Query(s), turn[s].call)
     IN  /\ grants' = spent.left
         /\ turn' = [turn EXCEPT ![s].at = IF spent.found THEN "running" ELSE "listing",
                                 ![s].verdict = IF spent.found THEN "allow_once" ELSE @]
  /\ UNCHANGED <<records, memory, rules, req, boundVars, historyVars>>

List(s) ==
  /\ turn[s].at = "listing"
  /\ GoTo(s, IF HasStanding(grants, Query(s), turn[s].call.tool) THEN "running" ELSE "asking")
  /\ UNCHANGED <<storeVars, req, boundVars, historyVars>>

(* The gate goes into the record and a waiter opens; a turn that was told  *)
(* is rejected at once.  Without a record the turn throws, and is over.    *)
Ask(s) ==
  /\ turn[s].at = "asking"
  /\ IF Exists(s)
     THEN LET row == [id |-> turn[s].gate, call |-> turn[s].call]
              old == records[s]
          IN  /\ Persist(s, IF turn[s].plan THEN old.approvals ELSE old.approvals \cup {row},
                            IF turn[s].plan THEN row ELSE old.plan)
              /\ turn' = [turn EXCEPT ![s].at = "waiting",
                                      ![s].verdict = IF turn[s].aborted THEN "rejected" ELSE @]
     ELSE EndTurn(s) /\ UNCHANGED records
  /\ UNCHANGED <<grants, memory, rules, req, boundVars, historyVars>>

(* The waiter is settled.  The row of a tool approval is removed, if there *)
(* still is a record to remove it from; a plan's result is stored.  A turn *)
(* that was rejected is over, its plan left in the record.                 *)
Resume(s) ==
  /\ turn[s].at = "waiting" /\ turn[s].verdict # "none"
  /\ IF ~turn[s].plan /\ Exists(s)
     THEN Persist(s, {r \in records[s].approvals : r.id # turn[s].gate}, records[s].plan)
     ELSE UNCHANGED records
  /\ IF turn[s].verdict = "rejected" \/ (turn[s].plan /\ ~Exists(s)) THEN EndTurn(s)
     ELSE IF turn[s].plan THEN NextCall(s)
     ELSE GoTo(s, IF turn[s].verdict = "deny" THEN "storing" ELSE "granting")
  /\ UNCHANGED <<grants, memory, rules, req, boundVars, historyVars>>

(* The decision's grant is stored, and one that was for this call only is  *)
(* spent again.                                                            *)
StoreGrant(s) ==
  /\ turn[s].at = "granting"
  /\ grants' = AddGrant(grants, GrantForDecision(turn[s].verdict, Query(s), turn[s].call))
  /\ GoTo(s, IF turn[s].verdict = "allow_once" THEN "spending" ELSE "running")
  /\ UNCHANGED <<records, memory, rules, req, boundVars, historyVars>>

Spend(s) ==
  /\ turn[s].at = "spending"
  /\ grants' = ConsumeOnce(grants, Query(s), turn[s].call).left
  /\ GoTo(s, "running")
  /\ UNCHANGED <<records, memory, rules, req, boundVars, historyVars>>

(* The handlers of write_user, remember and forget.                        *)
Run(s) ==
  /\ turn[s].at = "running"
  /\ LET c == turn[s].call
     IN  CASE c.tool = "write_user" -> SetUser(c.args)
           [] c.tool = "forget"     -> DeleteMemory(c.args)
           [] c.tool = "remember"   ->
                IF memory.rows = MemoryIds THEN UNCHANGED memory
                ELSE \E id \in MemoryIds \ memory.rows : UpsertRow(id)
  /\ owed' = IF turn[s].verdict = "allow_once"
             THEN owed (-) SetToBag({<<s, turn[s].call>>}) ELSE owed
  /\ GoTo(s, "storing")
  /\ UNCHANGED <<records, grants, rules, req, boundVars, made, lastSet, allowed>>

(* The result is stored, which needs the record.                           *)
StoreResult(s) ==
  /\ turn[s].at = "storing"
  /\ IF Exists(s) THEN Persist(s, records[s].approvals, records[s].plan) /\ NextCall(s)
     ELSE EndTurn(s) /\ UNCHANGED records
  /\ UNCHANGED <<grants, memory, rules, req, boundVars, historyVars>>

TurnStep(s) ==
  \/ PinMode(s) \/ Stop(s) \/ Take(s) \/ Check(s) \/ List(s) \/ Ask(s) \/ Resume(s)
  \/ StoreGrant(s) \/ Spend(s) \/ Run(s) \/ StoreResult(s)

-----------------------------------------------------------------------------
Init ==
  /\ made = Existing
  /\ lastSet = [s \in Ids |-> FirstPins]
  /\ \E place \in [made -> Workspaces \cup {None}] :
       records = [s \in Ids |-> IF s \in made THEN NewRecord(place[s], lastSet[s]) ELSE Gone]
  /\ grants = NoGrants
  /\ memory = [user |-> None, rows |-> MemoryIds]
  /\ rules = FirstRules
  /\ turn = [s \in Ids |-> Idle]
  /\ req = [q \in Requests |-> [step |-> "new"]]
  /\ turns = 0 /\ gates = 0
  /\ allowed = {} /\ owed = EmptyBag

Next ==
  \/ Create
  \/ \E q \in Requests : Arrive(q) \/ RequestStep(q)
  \/ \E s \in Ids : Begin(s) \/ TurnStep(s)

Spec == Init /\ [][Next]_vars

-----------------------------------------------------------------------------
(* What may run: a person who may decide allowed this tool to this session, *)
(* to its workspace or everywhere, or allowed this very call once more     *)
(* than it has run.  A decision of another session or workspace, or about  *)
(* other arguments, is not enough (grants.ts:11-13 and :138-144).          *)
Covered(s) ==
  LET q == Query(s)
      c == turn[s].call
  IN  \/ \E p \in allowed : /\ p.tool = c.tool
                            /\ p.scope = "session"   => p.id = q.session
                            /\ p.scope = "workspace" => p.id = q.workspace
      \/ BagIn(<<s, c>>, owed)

(* The tool was to ask nobody when the call was taken (harness.ts:464).    *)
Unasked(s) == turn[s].verdict = "unasked"

(* Whatever runs is covered, but for the calls of a tool that the settings *)
(* let run without asking at the moment the call was taken.                *)
RunsAreCovered ==
  \A s \in Ids : turn[s] # Idle /\ turn[s].at = "running" => Covered(s) \/ Unasked(s)

(* What a session is set to is what was last asked for and accepted, by a  *)
(* route, a send or a plan's approval, whatever its turn wrote meanwhile   *)
(* (applyTurnPatch, mode-pinning.ts).                                      *)
PinsAreLastSet == \A s \in Ids : Exists(s) => records[s].pins = lastSet[s]

(* A session that was deleted is gone: nothing that was under way for it   *)
(* writes its row again (withSessionLock around every read-modify-write).  *)
DeletedStaysGone ==
  [][\A s \in made : ~Exists(s) => records'[s] = Gone]_vars

(* Memory changes by a memory request of an administrator, or by the tool  *)
(* call of a turn, which a person who may decide let run or which an       *)
(* administrator's rule lets run unasked; and only a settings request of   *)
(* an administrator changes the rules (auth.ts:64-71, turn-loop.ts:1465).  *)
AdministeredBy(q, kind) ==
  /\ At(q, "admitted", kind) /\ req'[q] = Done
  /\ HasCapability(req[q].by, "administer")
LetRun(s) ==
  /\ turn[s] # Idle /\ turn[s].at = "running"
  /\ Covered(s) \/ Unasked(s)

MemoryIsGuarded ==
  [][/\ memory' # memory =>
          (\E q \in Requests : AdministeredBy(q, "memory")) \/ (\E s \in Ids : LetRun(s))
     /\ rules' # rules => \E q \in Requests : AdministeredBy(q, "rule")]_vars
=============================================================================
