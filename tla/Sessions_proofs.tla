-------------------------- MODULE Sessions_proofs --------------------------
(***************************************************************************)
(* What holds of Sessions for every set of sessions, workspaces, people,   *)
(* requests and calls: none runs that nobody allowed, what is set          *)
(* stays set, what is deleted stays deleted.                               *)
(*                                                                         *)
(* The invariant follows a permission on its way: a decision gives it to   *)
(* the waiting turn, the turn puts it into the store as a grant, and a     *)
(* call takes it out again.  A receipt is at one place at a time, and the  *)
(* places together never hold more than people gave.                       *)
(***************************************************************************)
EXTENDS Sessions, TLAPS

-----------------------------------------------------------------------------
(* Types.                                                                  *)
Places == {"pinning", "calls", "checking", "listing", "asking", "waiting", "storing",
           "granting", "spending", "running"}
Verdicts == Decisions \cup {"none", "rejected", "unasked"}

Turns == [at : Places, number : Nat, aborted : BOOLEAN, workspace : Workspaces \cup {None},
          loaded : Pins, call : Calls \cup {None}, plan : BOOLEAN, gate : Nat,
          verdict : Verdicts]

AllBodies ==
  [kind : {"delete", "cancel"}, on : Ids]
    \cup [kind : {"set"}, on : Ids, field : Fields, value : Values]
    \cup [kind : {"decide"}, on : Ids, gate : GateIds, decision : Decisions]
    \cup [kind : {"plan"}, on : Ids, approve : BOOLEAN]
    \cup [kind : {"memory"}, edit : Edits]
    \cup [kind : {"rule"}, tool : Tools, rule : ToolRules]
Asked == [step : {"admitted", "found", "clearing", "ending", "done"}, by : Actors,
          body : AllBodies, met : Nat]

RecordTypes ==
  /\ records \in [Ids -> Records \cup {Gone}] /\ lastSet \in [Ids -> Pins] /\ made \subseteq Ids
TurnTypes == turn \in [Ids -> Turns \cup {Idle}] /\ gates \in 0..MaxGates /\ turns \in Nat
RequestTypes == req \in [Requests -> Asked \cup [step : {"new", "done"}]]
Grantings == [scope : {"session", "workspace", "global"}, scopeId : Ids \cup Workspaces \cup {None},
              tool : Tools, digest : Calls \cup {None}]
IsBag(B, S) == B \in [DOMAIN B -> Nat \ {0}] /\ DOMAIN B \subseteq S
GrantTypes == IsBag(grants, Grantings) /\ IsBag(owed, Ids \X Calls)

(* A turn that is on its way with a call has one.                          *)
CallIsTaken ==
  \A s \in Ids : turn[s] # Idle /\ turn[s].at \notin {"pinning", "calls"} =>
    turn[s].call \in Calls /\ turn[s].gate \in GateIds

Types == RecordTypes /\ TurnTypes /\ RequestTypes /\ GrantTypes /\ CallIsTaken

-----------------------------------------------------------------------------
(* What has passed the guard may do what it asks for.                      *)
AskedMay == \A q \in Requests : req[q].step = "admitted" =>
              HasCapability(req[q].by, Required(req[q].body.kind))

(* Gates are numbered as they open, and a plan in the record under the     *)
(* number of the turn's gate is the one that turn waits for.               *)
GatesAreNumbered ==
  \A s \in Ids :
    /\ turn[s] # Idle => turn[s].gate <= gates
    /\ Exists(s) /\ records[s].plan # None =>
         /\ records[s].plan.id <= gates
         /\ turn[s] # Idle /\ turn[s].gate = records[s].plan.id => turn[s].plan

(* Who gave a standing grant allowed the tool; a receipt is a session's.   *)
PermitOf(g) ==
  [scope |-> IF g.scope = "global" THEN "anywhere" ELSE g.scope, id |-> g.scopeId,
   tool |-> g.tool]
GrantsAreAllowed ==
  \A g \in DOMAIN grants :
    IF g.digest = None THEN PermitOf(g) \in allowed /\ (g.scope = "global" => g.scopeId = None)
    ELSE g.scope = "session" /\ g.tool = g.digest.tool

(* A turn that was let go by a standing decision carries it to the store.  *)
Carries(s, verdicts, places) ==
  turn[s] # Idle /\ ~turn[s].plan /\ turn[s].verdict \in verdicts /\ turn[s].at \in places
Standing == {"allow_session", "allow_workspace", "allow_always"}
CarriedIsAllowed(s) ==
  Carries(s, Standing, {"waiting", "granting"}) =>
    Permit(turn[s].verdict, Query(s), turn[s].call.tool) \in allowed

(* Receipts: those in the store and the one the turn holds are owed.       *)
Copies(e, B) == IF e \in DOMAIN B THEN B[e] ELSE 0
Receipt(s, c) == Grant("session", s, c.tool, c)
Held(s, c) ==
  IF turn[s] # Idle /\ turn[s].call = c /\ Carries(s, {"allow_once"}, {"waiting", "granting", "running"})
  THEN 1 ELSE 0
ReceiptsAreOwed(s) ==
  \A c \in Calls :
    Copies(Receipt(s, c), grants) + Held(s, c) <= Copies(<<s, c>>, owed)
SpendingIsOwed(s) ==
  turn[s] # Idle /\ turn[s].at = "spending" =>
    turn[s].verdict = "allow_once" /\ <<s, turn[s].call>> \in DOMAIN owed
RunIsCovered(s) == turn[s] # Idle /\ turn[s].at = "running" => Covered(s) \/ Unasked(s)

(* What a turn does not do as a plan's step, and when it has a verdict.    *)
Verdict ==
  \A s \in Ids : turn[s] # Idle =>
    /\ turn[s].plan => turn[s].at \in {"asking", "waiting"}
    /\ turn[s].at \in {"checking", "listing", "asking"} => turn[s].verdict = "none"
    /\ turn[s].at = "granting" => turn[s].verdict \in Decisions \ {"deny"}
    /\ turn[s].verdict = "unasked" => turn[s].at \in {"running", "storing"}

Permitted(s) ==
  CarriedIsAllowed(s) /\ ReceiptsAreOwed(s) /\ SpendingIsOwed(s) /\ RunIsCovered(s)

Permissions == GrantTypes /\ GrantsAreAllowed /\ \A s \in Ids : Permitted(s)

-----------------------------------------------------------------------------
(* Which actions change the records, the turns and the grants.             *)
RecordsChange ==
  \/ Create
  \/ \E q \in Requests : DeleteRow(q) \/ Set(q) \/ DecidePlan(q)
  \/ \E s \in Ids : PinMode(s) \/ Ask(s) \/ Resume(s) \/ StoreResult(s)

LEMMA RecordFrame ==
  ASSUME [Next]_vars
  PROVE  RecordsChange \/ UNCHANGED <<records, lastSet, made>>
<1>1. CASE Create \/ UNCHANGED vars
  BY <1>1 DEF RecordsChange, vars, storeVars, historyVars
<1>2. ASSUME NEW q \in Requests, Arrive(q) \/ RequestStep(q)
      PROVE  RecordsChange \/ UNCHANGED <<records, lastSet, made>>
  <2>1. CASE DeleteRow(q) \/ Set(q) \/ DecidePlan(q)
    BY <2>1 DEF RecordsChange
  <2>2. CASE Arrive(q) \/ DeleteGrants(q) \/ EditMemory(q) \/ SetRule(q) \/ Find(q)
    BY <2>2 DEF storeVars, historyVars, Arrive, DeleteGrants, EditMemory, SetRule, Find
  <2>3. CASE Cancel(q) \/ Ended(q) \/ Decide(q)
    BY <2>3 DEF storeVars, historyVars, Cancel, Ended, Decide
  <2> QED BY <1>2, <2>1, <2>2, <2>3 DEF RequestStep
<1>3. ASSUME NEW s \in Ids, Begin(s) \/ TurnStep(s)
      PROVE  RecordsChange \/ UNCHANGED <<records, lastSet, made>>
  <2>1. CASE PinMode(s) \/ Ask(s) \/ Resume(s) \/ StoreResult(s)
    BY <2>1 DEF RecordsChange
  <2>2. CASE Begin(s) \/ Stop(s)
    BY <2>2 DEF storeVars, historyVars, Begin, Stop
  <2>3. CASE Take(s) \/ Check(s)
    <3>1. UNCHANGED records /\ UNCHANGED historyVars
      BY <2>3, Zenon DEF storeVars, Take, Check
    <3> QED BY <3>1 DEF historyVars
  <2>4. CASE List(s) \/ StoreGrant(s) \/ Spend(s) \/ Run(s)
    BY <2>4 DEF storeVars, historyVars, List, StoreGrant, Spend, Run
  <2> QED BY <1>3, <2>1, <2>2, <2>3, <2>4 DEF TurnStep
<1> QED BY <1>1, <1>2, <1>3 DEF Next

TurnsChange ==
  \/ \E q \in Requests : Cancel(q) \/ Decide(q) \/ DecidePlan(q)
  \/ \E s \in Ids : Begin(s) \/ TurnStep(s)

LEMMA TurnFrame ==
  ASSUME [Next]_vars
  PROVE  TurnsChange \/ UNCHANGED <<turn, turns, gates>>
<1>1. CASE Create \/ UNCHANGED vars
  BY <1>1 DEF vars, boundVars, Create
<1>2. ASSUME NEW q \in Requests, Arrive(q) \/ RequestStep(q)
      PROVE  TurnsChange \/ UNCHANGED <<turn, turns, gates>>
  <2>1. CASE Cancel(q) \/ Decide(q) \/ DecidePlan(q)
    BY <2>1 DEF TurnsChange
  <2>2. CASE Arrive(q) \/ DeleteRow(q) \/ DeleteGrants(q) \/ Set(q)
    BY <2>2 DEF boundVars, Arrive, DeleteRow, DeleteGrants, Set
  <2>3. CASE EditMemory(q) \/ SetRule(q) \/ Find(q) \/ Ended(q)
    BY <2>3 DEF boundVars, EditMemory, SetRule, Find, Ended
  <2> QED BY <1>2, <2>1, <2>2, <2>3 DEF RequestStep
<1> QED BY <1>1, <1>2 DEF Next, TurnsChange

GrantsChange ==
  \/ \E q \in Requests : DeleteGrants(q) \/ Decide(q) \/ DecidePlan(q)
  \/ \E s \in Ids : Check(s) \/ StoreGrant(s) \/ Spend(s) \/ Run(s)

LEMMA GrantFrame ==
  ASSUME [Next]_vars
  PROVE  GrantsChange \/ UNCHANGED <<grants, owed, allowed>>
<1>1. CASE Create \/ UNCHANGED vars
  BY <1>1 DEF vars, storeVars, historyVars, Create
<1>2. ASSUME NEW q \in Requests, Arrive(q) \/ RequestStep(q)
      PROVE  GrantsChange \/ UNCHANGED <<grants, owed, allowed>>
  <2>1. CASE DeleteGrants(q) \/ Decide(q) \/ DecidePlan(q)
    BY <2>1 DEF GrantsChange
  <2>2. CASE Arrive(q) \/ DeleteRow(q) \/ EditMemory(q) \/ SetRule(q)
    BY <2>2 DEF storeVars, historyVars, Arrive, DeleteRow, EditMemory, SetRule
  <2>3. CASE Set(q)
    BY <2>3 DEF Set
  <2>4. CASE Find(q) \/ Cancel(q) \/ Ended(q)
    BY <2>4 DEF storeVars, historyVars, Find, Cancel, Ended
  <2> QED BY <1>2, <2>1, <2>2, <2>3, <2>4 DEF RequestStep
<1>3. ASSUME NEW s \in Ids, Begin(s) \/ TurnStep(s)
      PROVE  GrantsChange \/ UNCHANGED <<grants, owed, allowed>>
  <2>1. CASE Check(s) \/ StoreGrant(s) \/ Spend(s) \/ Run(s)
    BY <2>1 DEF GrantsChange
  <2>2. CASE Begin(s) \/ Stop(s) \/ Take(s)
    BY <2>2 DEF storeVars, historyVars, Begin, Stop, Take
  <2>3. CASE PinMode(s)
    BY <2>3, Zenon DEF PinMode
  <2>4. CASE List(s) \/ Ask(s) \/ Resume(s) \/ StoreResult(s)
    BY <2>4 DEF storeVars, historyVars, List, Ask, Resume, StoreResult
  <2> QED BY <1>3, <2>1, <2>2, <2>3, <2>4 DEF TurnStep
<1> QED BY <1>1, <1>2, <1>3 DEF Next

-----------------------------------------------------------------------------
(* Types: the records.                                                     *)
LEMMA PersistTypes ==
  ASSUME RecordTypes, NEW s \in Ids, Exists(s),
         NEW approvals \in SUBSET Rows, NEW plan \in Rows \cup {None},
         Persist(s, approvals, plan)
  PROVE  /\ records' \in [Ids -> Records \cup {Gone}]
         /\ records'[s].pins = records[s].pins /\ records'[s] # Gone
         /\ records'[s].plan = plan
         /\ \A i \in Ids \ {s} : records'[i] = records[i]
<1>1. records[s] \in Records
  BY DEF RecordTypes, Exists
<1>2. [records[s] EXCEPT !.approvals = approvals, !.plan = plan] \in Records
  BY <1>1 DEF Records
<1> QED
  BY <1>1, <1>2, AbsentAssumption DEF Persist, RecordTypes, Records

LEMMA SetPinTypes ==
  ASSUME RecordTypes, NEW s \in Ids, NEW field \in Fields, NEW value \in Values,
         SetPin(s, field, value)
  PROVE  /\ records' \in [Ids -> Records \cup {Gone}]
         /\ ~Exists(s) => records' = records
         /\ Exists(s) => /\ records'[s] # Gone
                         /\ records'[s].pins = [records[s].pins EXCEPT ![field] = value]
                         /\ records'[s].plan = records[s].plan
         /\ \A i \in Ids \ {s} : records'[i] = records[i]
<1>1. CASE ~Exists(s)
  BY <1>1 DEF SetPin, RecordTypes, Exists
<1>2. CASE Exists(s)
  <2>1. records[s] \in Records
    BY <1>2 DEF RecordTypes, Exists
  <2>2. [records[s].pins EXCEPT ![field] = value] \in Pins
    BY <2>1 DEF Records, Pins
  <2>3. [records[s] EXCEPT !.pins[field] = value] \in Records
    BY <2>1, <2>2 DEF Records
  <2> QED
    BY <1>2, <2>1, <2>3, AbsentAssumption DEF SetPin, RecordTypes, Records, Exists
<1> QED
  BY <1>1, <1>2

LEMMA NewRecordTypes ==
  ASSUME NEW ws \in Workspaces \cup {None}, NEW pins \in Pins
  PROVE  NewRecord(ws, pins) \in Records /\ NewRecord(ws, pins) # Gone
BY AbsentAssumption DEF NewRecord, Records

LEMMA FirstPinsTypes == FirstPins \in Pins
BY SessionsAssumption DEF FirstPins, Pins

LEMMA BodyTypes ==
  ASSUME RequestTypes, NEW q \in Requests,
         req[q].step \in {"admitted", "found", "clearing", "ending"}
  PROVE  /\ req[q] \in Asked /\ Body(q) \in AllBodies
         /\ Body(q).kind \in {"delete", "cancel", "set", "decide", "plan"} => Body(q).on \in Ids
         /\ Body(q).kind = "set" => Body(q).field \in Fields /\ Body(q).value \in Values
         /\ Body(q).kind = "decide" => Body(q).gate \in GateIds /\ Body(q).decision \in Decisions
         /\ Body(q).kind = "plan" => Body(q).approve \in BOOLEAN
         /\ Body(q).kind = "memory" => Body(q).edit \in Edits
<1>1. req[q] \in Asked
  BY DEF RequestTypes, Asked
<1>2. Body(q) \in AllBodies
  BY <1>1 DEF Asked, Body
<1> QED
  BY <1>1, <1>2 DEF AllBodies

LEMMA ModeTypes ==
  ASSUME NEW pins \in Pins, NEW m \in Values
  PROVE  [pins EXCEPT !["mode"] = m] \in Pins
BY SessionsAssumption DEF Pins

LEMMA RecordTypesStep ==
  ASSUME Types, [Next]_vars
  PROVE  RecordTypes'
<1> USE DEF Types
<1>1. CASE Create
  <2>1. PICK s \in Ids \ made, ws \in Workspaces \cup {None}, mode \in Values :
          LET pins == [FirstPins EXCEPT !["mode"] = mode]
          IN  /\ records' = [records EXCEPT ![s] = NewRecord(ws, pins)]
              /\ made' = made \cup {s} /\ lastSet' = [lastSet EXCEPT ![s] = pins]
    BY <1>1 DEF Create
  <2> DEFINE pins == [FirstPins EXCEPT !["mode"] = mode]
  <2>2. pins \in Pins
    BY FirstPinsTypes, ModeTypes
  <2>3. NewRecord(ws, pins) \in Records
    BY <2>2, NewRecordTypes
  <2> QED
    BY <2>1, <2>2, <2>3 DEF RecordTypes
<1>2. ASSUME NEW q \in Requests, DeleteRow(q) PROVE RecordTypes'
  <2>1. Body(q).on \in Ids
    BY <1>2, BodyTypes DEF DeleteRow, At, Body
  <2> QED
    BY <1>2, <2>1 DEF DeleteRow, RecordTypes, historyVars
<1>3. ASSUME NEW q \in Requests, Set(q) PROVE RecordTypes'
  <2>1. Body(q).on \in Ids /\ Body(q).field \in Fields /\ Body(q).value \in Values
    BY <1>3, BodyTypes DEF Set, At, Body
  <2>2. CASE UNCHANGED <<records, lastSet>>
    BY <1>3, <2>2 DEF Set, RecordTypes
  <2>3. CASE /\ SetPin(Body(q).on, Body(q).field, Body(q).value)
             /\ lastSet' = IF Exists(Body(q).on)
                           THEN [lastSet EXCEPT ![Body(q).on][Body(q).field] = Body(q).value]
                           ELSE lastSet
    <3>1. records' \in [Ids -> Records \cup {Gone}]
      BY <2>1, <2>3, SetPinTypes
    <3>2. [lastSet[Body(q).on] EXCEPT ![Body(q).field] = Body(q).value] \in Pins
      BY <2>1 DEF RecordTypes, Pins
    <3>3. lastSet' \in [Ids -> Pins]
      BY <2>1, <2>3, <3>2 DEF RecordTypes
    <3> QED
      BY <1>3, <3>1, <3>3 DEF Set, RecordTypes
  <2> QED
    BY <1>3, <2>2, <2>3 DEF Set
<1>4. ASSUME NEW q \in Requests, DecidePlan(q) PROVE RecordTypes'
  <2> DEFINE s == Body(q).on
  <2>1. s \in Ids
    BY <1>4, BodyTypes DEF DecidePlan, At, Body
  <2>2. CASE ~Exists(s) \/ records[s].plan = None
    BY <1>4, <2>2 DEF DecidePlan, RecordTypes
  <2>3. CASE ~(~Exists(s) \/ records[s].plan = None)
    <3> DEFINE mode(old) == IF Body(q).approve THEN AgentMode ELSE old
    <3>1. records[s] \in Records /\ lastSet[s] \in Pins /\ "mode" \in Fields
      BY <2>1, <2>3, SessionsAssumption DEF RecordTypes, Exists
    <3>2. \A p \in Pins : mode(p["mode"]) \in Values
      BY SessionsAssumption DEF Pins
    <3>3. \A p \in Pins : [p EXCEPT !["mode"] = mode(p["mode"])] \in Pins
      BY <3>2, ModeTypes
    <3>4. [records[s] EXCEPT !.plan = None, !.pins["mode"] = mode(@)] \in Records
      BY <3>1, <3>3 DEF Records
    <3>5. records' \in [Ids -> Records \cup {Gone}]
      BY <1>4, <2>1, <2>3, <3>4 DEF DecidePlan, RecordTypes
    <3>6. lastSet' \in [Ids -> Pins]
      BY <1>4, <2>1, <2>3, <3>1, <3>3 DEF DecidePlan, RecordTypes
    <3> QED
      BY <1>4, <3>5, <3>6 DEF DecidePlan, RecordTypes
  <2> QED
    BY <2>2, <2>3
<1>5. ASSUME NEW s \in Ids, PinMode(s) PROVE RecordTypes'
  <2>1. CASE ~Exists(s)
    BY <1>5, <2>1 DEF PinMode, RecordTypes
  <2>2. CASE Exists(s)
    <3>1. PICK m \in Values : SetPin(s, "mode", m) /\ lastSet' = [lastSet EXCEPT ![s]["mode"] = m]
      BY <1>5, <2>2 DEF PinMode
    <3>2. records' \in [Ids -> Records \cup {Gone}]
      BY <3>1, SetPinTypes, SessionsAssumption
    <3>3. lastSet' \in [Ids -> Pins]
      BY <3>1, ModeTypes DEF RecordTypes
    <3> QED
      BY <1>5, <3>2, <3>3 DEF PinMode, RecordTypes
  <2> QED
    BY <2>1, <2>2
<1>6. ASSUME NEW s \in Ids, Ask(s) \/ Resume(s) \/ StoreResult(s) PROVE RecordTypes'
  <2>1. UNCHANGED <<lastSet, made>>
    BY <1>6 DEF Ask, Resume, StoreResult, historyVars
  <2>2. CASE UNCHANGED records
    BY <2>1, <2>2 DEF RecordTypes
  <2>3. CASE ~UNCHANGED records
    <3>1. Exists(s) /\ records[s] \in Records
      BY <1>6, <2>3 DEF Ask, Resume, StoreResult, RecordTypes, Exists
    <3>2. PICK approvals \in SUBSET Rows, plan \in Rows \cup {None} : Persist(s, approvals, plan)
      <4>1. CASE Ask(s)
        <5>1. [id |-> turn[s].gate, call |-> turn[s].call] \in Rows
          BY <4>1 DEF Ask, CallIsTaken, Rows, Idle
        <5> QED
          BY <3>1, <4>1, <5>1 DEF Ask, Records
      <4>2. CASE Resume(s)
        <5>1. {r \in records[s].approvals : r.id # turn[s].gate} \in SUBSET Rows
          BY <3>1 DEF Records
        <5> QED
          BY <2>3, <3>1, <4>2, <5>1 DEF Resume, Records
      <4>3. CASE StoreResult(s)
        BY <3>1, <4>3 DEF StoreResult, Records
      <4> QED
        BY <1>6, <4>1, <4>2, <4>3
    <3> QED
      BY <2>1, <3>1, <3>2, PersistTypes DEF RecordTypes
  <2> QED
    BY <2>2, <2>3
<1>7. CASE UNCHANGED <<records, lastSet, made>>
  BY <1>7 DEF RecordTypes
<1> QED
  BY <1>1, <1>2, <1>3, <1>4, <1>5, <1>6, <1>7, RecordFrame DEF RecordsChange

-----------------------------------------------------------------------------
(* Types: the turns.                                                       *)
LEMMA TurnIsRecord ==
  ASSUME TurnTypes, NEW s \in Ids
  PROVE  turn[s] # Idle <=> turn[s] \in Turns
BY DEF TurnTypes, Turns, Idle, Places

LEMMA NextCallTypes ==
  ASSUME TurnTypes, NEW s \in Ids, turn[s] # Idle, NextCall(s)
  PROVE  /\ turn' \in [Ids -> Turns \cup {Idle}]
         /\ turn'[s] = [turn[s] EXCEPT !.at = "calls", !.call = None, !.plan = FALSE, !.gate = 0,
                                       !.verdict = "none"]
         /\ \A i \in Ids \ {s} : turn'[i] = turn[i]
<1>1. turn[s] \in Turns
  BY TurnIsRecord
<1>2. [turn[s] EXCEPT !.at = "calls", !.call = None, !.plan = FALSE, !.gate = 0,
                      !.verdict = "none"] \in Turns
  BY <1>1 DEF Turns, Places, Verdicts
<1> QED
  BY <1>1, <1>2 DEF NextCall, TurnTypes

LEMMA BeginTypes ==
  ASSUME RecordTypes, TurnTypes, NEW s \in Ids, Begin(s)
  PROVE  /\ turn' \in [Ids -> Turns \cup {Idle}]
         /\ turn'[s] \in Turns /\ turn'[s].at = "pinning" /\ turn'[s].gate = 0
         /\ ~turn'[s].plan /\ turn'[s].verdict = "none"
         /\ \A i \in Ids \ {s} : turn'[i] = turn[i]
<1> DEFINE u == [at |-> "pinning", number |-> turns + 1, aborted |-> FALSE,
                 workspace |-> records[s].workspace, loaded |-> records[s].pins,
                 call |-> None, plan |-> FALSE, gate |-> 0, verdict |-> "none"]
<1>1. records[s] \in Records
  BY DEF RecordTypes, Begin, Exists
<1>2. u \in Turns
  BY <1>1 DEF Turns, Places, Verdicts, Records, TurnTypes
<1> QED
  BY <1>2 DEF Begin, TurnTypes

LEMMA TurnTypesStep ==
  ASSUME Types, [Next]_vars
  PROVE  TurnTypes' /\ CallIsTaken'
<1> USE DEF Types
<1>1. ASSUME NEW q \in Requests, Cancel(q) PROVE TurnTypes' /\ CallIsTaken'
  <2>1. Body(q).on \in Ids
    BY <1>1, BodyTypes DEF Cancel, At, Body
  <2>2. Told(turn[Body(q).on]) \in Turns \cup {Idle}
    BY <2>1 DEF Told, TurnTypes, Turns, Verdicts
  <2>3. turn' = [turn EXCEPT ![Body(q).on] = Told(@)] /\ UNCHANGED <<turns, gates>>
    BY <1>1 DEF Cancel, boundVars
  <2>4. TurnTypes'
    BY <2>1, <2>2, <2>3 DEF TurnTypes
  <2>5. CallIsTaken'
    BY <2>1, <2>3 DEF CallIsTaken, Told, TurnTypes, Turns
  <2> QED
    BY <2>4, <2>5
<1>2. ASSUME NEW q \in Requests, NEW v \in Verdicts, NEW s \in Ids, turn[s] # Idle,
             turn' = [turn EXCEPT ![s].verdict = v], UNCHANGED <<turns, gates>>
      PROVE  TurnTypes' /\ CallIsTaken'
  <2>1. turn[s] \in Turns
    BY <1>2, TurnIsRecord
  <2>2. [turn[s] EXCEPT !.verdict = v] \in Turns
    BY <2>1 DEF Turns
  <2> QED
    BY <1>2, <2>1, <2>2 DEF TurnTypes, CallIsTaken, Turns
<1>3. ASSUME NEW q \in Requests, Decide(q) PROVE TurnTypes' /\ CallIsTaken'
  <2>1. Body(q).on \in Ids /\ Body(q).decision \in Verdicts
    BY <1>3, BodyTypes DEF Decide, At, Body, Verdicts
  <2>2. CASE UNCHANGED turn
    BY <1>3, <2>2 DEF Decide, boundVars, TurnTypes, CallIsTaken
  <2>3. CASE turn[Body(q).on] # Idle
             /\ turn' = [turn EXCEPT ![Body(q).on].verdict = Body(q).decision]
    BY <1>2, <1>3, <2>1, <2>3 DEF Decide, boundVars
  <2> QED
    BY <1>3, <2>2, <2>3 DEF Decide
<1>4. ASSUME NEW q \in Requests, DecidePlan(q) PROVE TurnTypes' /\ CallIsTaken'
  <2>1. Body(q).on \in Ids
    BY <1>4, BodyTypes DEF DecidePlan, At, Body
  <2>2. CASE UNCHANGED turn
    BY <1>4, <2>2 DEF DecidePlan, boundVars, TurnTypes, CallIsTaken
  <2>3. CASE turn[Body(q).on] # Idle
             /\ \E v \in {"allow_once", "deny"} : turn' = [turn EXCEPT ![Body(q).on].verdict = v]
    BY <1>2, <1>4, <2>1, <2>3 DEF DecidePlan, boundVars, Verdicts, Decisions
  <2> QED
    BY <1>4, <2>2, <2>3 DEF DecidePlan
<1>5. ASSUME NEW s \in Ids, Begin(s) PROVE TurnTypes' /\ CallIsTaken'
  <2>1. TurnTypes'
    <3>1. turn' \in [Ids -> Turns \cup {Idle}]
      BY <1>5, BeginTypes
    <3>2. turns' = turns + 1 /\ gates' = gates
      BY <1>5 DEF Begin
    <3> QED
      BY <3>1, <3>2 DEF TurnTypes
  <2>2. turn'[s].at = "pinning"
    BY <1>5, BeginTypes
  <2>3. \A i \in Ids \ {s} : turn'[i] = turn[i]
    BY <1>5, BeginTypes
  <2>4. CallIsTaken'
    BY <2>2, <2>3 DEF CallIsTaken
  <2> QED
    BY <2>1, <2>4
<1>6. ASSUME NEW s \in Ids, EndTurn(s), UNCHANGED <<turns, gates>> PROVE TurnTypes' /\ CallIsTaken'
  BY <1>6 DEF EndTurn, TurnTypes, CallIsTaken
<1>7. ASSUME NEW s \in Ids, turn[s] # Idle, NextCall(s), UNCHANGED <<turns, gates>>
      PROVE  TurnTypes' /\ CallIsTaken'
  <2>1. TurnTypes'
    BY <1>7, NextCallTypes DEF TurnTypes
  <2>2. turn'[s].at = "calls"
    BY <1>7, NextCallTypes, TurnIsRecord DEF Turns
  <2> QED
    BY <1>7, <2>1, <2>2, NextCallTypes DEF CallIsTaken
<1>8. ASSUME NEW s \in Ids, turn[s] # Idle, NEW at \in Places, NEW v \in Verdicts,
             turn' = [turn EXCEPT ![s].at = at, ![s].verdict = v],
             at = "calls" \/ turn[s].at \notin {"pinning", "calls"}, UNCHANGED <<turns, gates>>
      PROVE  TurnTypes' /\ CallIsTaken'
  <2>1. turn[s] \in Turns
    BY <1>8, TurnIsRecord
  <2>2. [turn[s] EXCEPT !.at = at, !.verdict = v] \in Turns
    BY <2>1 DEF Turns
  <2> QED
    BY <1>8, <2>1, <2>2 DEF TurnTypes, CallIsTaken, Turns
<1>9. ASSUME NEW s \in Ids, turn[s] # Idle, NEW at \in Places, GoTo(s, at),
             at = "calls" \/ turn[s].at \notin {"pinning", "calls"}, UNCHANGED <<turns, gates>>
      PROVE  TurnTypes' /\ CallIsTaken'
  <2>1. turn[s] \in Turns
    BY <1>9, TurnIsRecord
  <2>2. [turn[s] EXCEPT !.at = at] \in Turns
    BY <2>1 DEF Turns
  <2> QED
    BY <1>9, <2>1, <2>2 DEF TurnTypes, CallIsTaken, Turns, GoTo
<1>10. ASSUME NEW s \in Ids, Take(s) PROVE TurnTypes' /\ CallIsTaken'
  <2>1. PICK c \in Calls, plan \in BOOLEAN, at \in {"asking", "checking", "running"},
             v \in {"none", "unasked"} :
          turn' = [turn EXCEPT ![s].at = at, ![s].call = c, ![s].plan = plan,
                               ![s].gate = gates + 1, ![s].verdict = v]
    <3>1. PICK c \in Calls, plan \in BOOLEAN :
            LET asks == rules[c.tool] = "requires_approval"
            IN  turn' = [turn EXCEPT ![s].at = IF plan THEN "asking"
                                               ELSE IF asks THEN "checking" ELSE "running",
                                     ![s].call = c, ![s].plan = plan, ![s].gate = gates + 1,
                                     ![s].verdict = IF plan \/ asks THEN "none" ELSE "unasked"]
      BY <1>10 DEF Take
    <3>2. CASE plan
      BY <3>1, <3>2
    <3>3. CASE ~plan /\ rules[c.tool] = "requires_approval"
      BY <3>1, <3>3
    <3>4. CASE ~plan /\ rules[c.tool] # "requires_approval"
      BY <3>1, <3>4
    <3> QED
      BY <3>2, <3>3, <3>4
  <2> DEFINE u == [turn[s] EXCEPT !.at = at, !.call = c, !.plan = plan, !.gate = gates + 1,
                               !.verdict = v]
  <2>2. turn[s] \in Turns
    BY <1>10, TurnIsRecord DEF Take, Idle
  <2>3. gates + 1 \in GateIds /\ gates' = gates + 1 /\ turns' = turns
    BY <1>10, SessionsAssumption DEF Take, TurnTypes, GateIds
  <2>8. at \in Places /\ gates + 1 \in Nat /\ v \in Verdicts
    BY <2>3, SessionsAssumption DEF Places, Verdicts, GateIds
  <2>4. u \in Turns
    BY <2>2, <2>8 DEF Turns
  <2>5. turn' = [turn EXCEPT ![s] = u]
    BY <2>1
  <2>6. TurnTypes'
    BY <2>3, <2>4, <2>5, SessionsAssumption DEF TurnTypes, GateIds
  <2>7. u.call \in Calls /\ u.gate \in GateIds
    BY <2>2, <2>3 DEF Turns
  <2> QED
    BY <2>5, <2>6, <2>7 DEF CallIsTaken, TurnTypes
<1>11. ASSUME NEW s \in Ids, PinMode(s) \/ Stop(s) \/ Check(s) \/ List(s) \/ Ask(s) \/ Resume(s)
                             \/ StoreGrant(s) \/ Spend(s) \/ Run(s) \/ StoreResult(s)
       PROVE  TurnTypes' /\ CallIsTaken'
  <2>a. turn[s].at # "idle"
    BY <1>11 DEF PinMode, Stop, Check, List, Ask, Resume, StoreGrant, Spend, Run, StoreResult
  <2>b. UNCHANGED <<turns, gates>>
    BY <1>11 DEF PinMode, Stop, Check, List, Ask, Resume, StoreGrant, Spend, Run, StoreResult,
       boundVars
  <2>1. turn[s] # Idle /\ turn[s] \in Turns /\ UNCHANGED <<turns, gates>>
    BY <2>a, <2>b, TurnIsRecord DEF Idle
  <2>2. turn[s].verdict \in Verdicts /\ "allow_once" \in Verdicts /\ "rejected" \in Verdicts
    BY <2>1 DEF Turns, Verdicts, Decisions
  <2>3. CASE PinMode(s)
    BY <1>6, <1>9, <2>1, <2>3 DEF PinMode, Places
  <2>4. CASE Stop(s)
    BY <1>6, <2>1, <2>4 DEF Stop
  <2>5. CASE Check(s)
    <3>1. PICK at \in {"running", "listing"}, v \in Verdicts :
            turn' = [turn EXCEPT ![s].at = at, ![s].verdict = v]
      BY <2>1, <2>2, <2>5 DEF Check, TurnTypes
    <3> QED
      BY <1>8, <2>1, <2>5, <3>1 DEF Check, Places
  <2>6. CASE List(s)
    BY <1>9, <2>1, <2>6 DEF List, Places
  <2>7. CASE Ask(s)
    <3>1. CASE EndTurn(s)
      BY <1>6, <2>1, <3>1
    <3>2. CASE turn' = [turn EXCEPT ![s].at = "waiting",
                                    ![s].verdict = IF turn[s].aborted THEN "rejected" ELSE @]
      <4>1. PICK v \in Verdicts : turn' = [turn EXCEPT ![s].at = "waiting", ![s].verdict = v]
        BY <2>1, <2>2, <3>2 DEF TurnTypes
      <4> QED
        BY <1>8, <2>1, <2>7, <4>1 DEF Ask, Places
    <3> QED
      BY <2>7, <3>1, <3>2 DEF Ask
  <2>8. CASE Resume(s)
    <3>1. CASE EndTurn(s)
      BY <1>6, <2>1, <3>1
    <3>2. CASE NextCall(s)
      BY <1>7, <2>1, <3>2
    <3>3. CASE \E at \in {"storing", "granting"} : GoTo(s, at)
      BY <1>9, <2>1, <2>8, <3>3 DEF Resume, Places
    <3> QED
      BY <2>8, <3>1, <3>2, <3>3 DEF Resume
  <2>9. CASE StoreGrant(s)
    BY <1>9, <2>1, <2>9 DEF StoreGrant, Places
  <2>10. CASE Spend(s)
    BY <1>9, <2>1, <2>10 DEF Spend, Places
  <2>11. CASE Run(s)
    BY <1>9, <2>1, <2>11 DEF Run, Places
  <2>12. CASE StoreResult(s)
    BY <1>6, <1>7, <2>1, <2>12 DEF StoreResult
  <2> QED
    BY <1>11, <2>3, <2>4, <2>5, <2>6, <2>7, <2>8, <2>9, <2>10, <2>11, <2>12
<1>12. CASE UNCHANGED <<turn, turns, gates>>
  BY <1>12 DEF TurnTypes, CallIsTaken
<1> QED
  BY <1>1, <1>3, <1>4, <1>5, <1>10, <1>11, <1>12, TurnFrame DEF TurnsChange, TurnStep

-----------------------------------------------------------------------------
(* Types: the requests; what passed the guard keeps its body and its name. *)
LEMMA RequestTypesStep ==
  ASSUME Types, AskedMay, [Next]_vars
  PROVE  RequestTypes' /\ AskedMay'
<1> USE DEF Types
<1>1. ASSUME NEW q \in Requests, Arrive(q) PROVE RequestTypes' /\ AskedMay'
  <2>1. PICK actor \in Actors \cup {Nobody}, body \in Bodies :
          IF actor # Nobody /\ HasCapability(actor, Required(body.kind))
          THEN req' = [req EXCEPT ![q] =
                         [step |-> "admitted", by |-> actor, body |-> body,
                          met |-> IF body.kind = "cancel" /\ turn[body.on] # Idle
                                  THEN turn[body.on].number ELSE 0]]
          ELSE Reply(q)
    BY <1>1 DEF Arrive
  <2>2. CASE Reply(q)
    BY <2>2 DEF Reply, Done, RequestTypes, AskedMay
  <2>3. CASE ~Reply(q)
    <3> DEFINE met == IF body.kind = "cancel" /\ turn[body.on] # Idle
                      THEN turn[body.on].number ELSE 0
               new == [step |-> "admitted", by |-> actor, body |-> body, met |-> met]
    <3>1. actor \in Actors /\ HasCapability(actor, Required(body.kind)) /\ req' = [req EXCEPT ![q] = new]
      BY <2>1, <2>3
    <3>2. body \in AllBodies
      BY SessionsAssumption DEF Bodies, AllBodies, RecordTypes, TurnTypes, GateIds
    <3>3. met \in Nat
      <4>1. CASE body.kind = "cancel" /\ turn[body.on] # Idle
        <5>1. body.on \in Ids
          BY <3>2, <4>1 DEF AllBodies
        <5>2. turn[body.on] \in Turns
          BY <4>1, <5>1, TurnIsRecord
        <5> QED
          BY <4>1, <5>2 DEF Turns
      <4>2. CASE ~(body.kind = "cancel" /\ turn[body.on] # Idle)
        BY <4>2
      <4> QED
        BY <4>1, <4>2
    <3> HIDE DEF met
    <3>4. new \in Asked
      BY <3>1, <3>2, <3>3 DEF Asked
    <3>5. RequestTypes'
      BY <3>1, <3>4 DEF RequestTypes
    <3>6. AskedMay'
      BY <3>1 DEF AskedMay, RequestTypes
    <3> QED
      BY <3>5, <3>6
  <2> QED
    BY <2>2, <2>3
<1>2. ASSUME NEW q \in Requests, Reply(q) PROVE RequestTypes' /\ AskedMay'
  BY <1>2 DEF Reply, Done, RequestTypes, AskedMay
<1>3. ASSUME NEW q \in Requests, req[q] \in Asked, NEW step \in {"found", "clearing", "ending", "done"},
             NEW met \in Nat, req' = [req EXCEPT ![q].step = step, ![q].met = met]
      PROVE  RequestTypes' /\ AskedMay'
  <2>1. [req[q] EXCEPT !.step = step, !.met = met] \in Asked
    BY <1>3 DEF Asked
  <2> QED
    BY <1>3, <2>1 DEF RequestTypes, AskedMay, Asked
<1>4. ASSUME NEW q \in Requests, req[q] \in Asked, NEW step \in {"found", "clearing", "ending", "done"},
             Step(q, step)
      PROVE  RequestTypes' /\ AskedMay'
  <2>1. [req[q] EXCEPT !.step = step] \in Asked
    BY <1>4 DEF Asked
  <2> QED
    BY <1>4, <2>1 DEF RequestTypes, AskedMay, Asked, Step
<1>5. ASSUME NEW q \in Requests, RequestStep(q) PROVE RequestTypes' /\ AskedMay'
  <2>1. CASE DeleteRow(q)
    BY <1>2, <1>4, <2>1, BodyTypes DEF DeleteRow, At
  <2>2. CASE DeleteGrants(q) \/ Set(q) \/ EditMemory(q) \/ SetRule(q) \/ Decide(q) \/ DecidePlan(q)
    BY <1>2, <2>2 DEF DeleteGrants, Set, EditMemory, SetRule, Decide, DecidePlan
  <2>3. CASE Find(q)
    BY <1>2, <1>4, <2>3, BodyTypes DEF Find
  <2>4. CASE Cancel(q)
    <3>1. req[q] \in Asked /\ Body(q).on \in Ids
      BY <2>4, BodyTypes DEF Cancel, At, Body
    <3>2. turn[Body(q).on] # Idle => turn[Body(q).on].number \in Nat
      BY <3>1, TurnIsRecord DEF Turns
    <3>3. PICK step \in {"ending", "done"}, met \in Nat :
            req' = [req EXCEPT ![q].step = step, ![q].met = met]
      BY <2>4, <3>2 DEF Cancel
    <3> QED
      BY <1>3, <3>1, <3>3
  <2>5. CASE Ended(q)
    BY <1>4, <2>5, BodyTypes DEF Ended
  <2> QED
    BY <1>5, <2>1, <2>2, <2>3, <2>4, <2>5 DEF RequestStep
<1>6. CASE UNCHANGED req
  BY <1>6 DEF RequestTypes, AskedMay
<1>7. ASSUME NEW s \in Ids, Begin(s) \/ TurnStep(s) PROVE UNCHANGED req
  BY <1>7 DEF Begin, TurnStep, PinMode, Stop, Take, Check, List, Ask, Resume, StoreGrant, Spend,
     Run, StoreResult
<1> QED
  BY <1>1, <1>5, <1>6, <1>7 DEF Next, vars, Create

-----------------------------------------------------------------------------
(* Bags: one more, one less, and some left out.                            *)
LEMMA BagAddsOne ==
  ASSUME NEW S, NEW B, IsBag(B, S), NEW e \in S
  PROVE  /\ IsBag(B (+) SetToBag({e}), S)
         /\ DOMAIN (B (+) SetToBag({e})) = DOMAIN B \cup {e}
         /\ \A x : Copies(x, B (+) SetToBag({e})) = Copies(x, B) + (IF x = e THEN 1 ELSE 0)
<1> DEFINE C == B (+) SetToBag({e})
<1>1. C = [x \in DOMAIN B \cup {e} |-> (IF x \in DOMAIN B THEN B[x] ELSE 0)
                                         + (IF x \in {e} THEN 1 ELSE 0)]
  BY DEF (+), SetToBag
<1> HIDE DEF C
<1>2. \A x \in DOMAIN B : B[x] \in Nat \ {0}
  BY DEF IsBag
<1>3. DOMAIN C = DOMAIN B \cup {e}
  BY <1>1
<1>4. \A x \in DOMAIN C : /\ C[x] = Copies(x, B) + (IF x = e THEN 1 ELSE 0)
                          /\ C[x] \in Nat \ {0}
  BY <1>1, <1>2 DEF Copies
<1>5. IsBag(C, S)
  <2>1. C = [x \in DOMAIN C |-> C[x]]
    BY <1>1
  <2> QED
    BY <1>3, <1>4, <2>1 DEF IsBag
<1>6. \A x : Copies(x, C) = Copies(x, B) + (IF x = e THEN 1 ELSE 0)
  BY <1>3, <1>4 DEF Copies
<1> QED
  BY <1>3, <1>5, <1>6 DEF C

LEMMA BagDropsOne ==
  ASSUME NEW S, NEW B, IsBag(B, S), NEW e \in DOMAIN B
  PROVE  /\ IsBag(B (-) SetToBag({e}), S)
         /\ DOMAIN (B (-) SetToBag({e})) \subseteq DOMAIN B
         /\ \A x : Copies(x, B (-) SetToBag({e})) = Copies(x, B) - (IF x = e THEN 1 ELSE 0)
<1> DEFINE Left == [x \in DOMAIN B |-> IF x \in {e} THEN B[x] - 1 ELSE B[x]]
           C == B (-) SetToBag({e})
<1>1. C = [x \in {d \in DOMAIN Left : Left[d] > 0} |-> Left[x]]
  <2>1. Left = [x \in DOMAIN B |-> IF x \in DOMAIN SetToBag({e}) THEN B[x] - SetToBag({e})[x]
                                   ELSE B[x]]
    BY DEF SetToBag
  <2> QED
    BY <2>1 DEF (-)
<1> HIDE DEF C
<1>2. \A x \in DOMAIN B : B[x] \in Nat \ {0}
  BY DEF IsBag
<1>3. DOMAIN Left = DOMAIN B /\ \A x \in DOMAIN B : Left[x] = B[x] - (IF x = e THEN 1 ELSE 0)
  BY <1>2
<1> HIDE DEF Left
<1>4. \A x \in DOMAIN C : x \in DOMAIN B /\ C[x] = Left[x] /\ C[x] \in Nat \ {0}
  BY <1>1, <1>2, <1>3
<1>5. \A x \in DOMAIN B \ DOMAIN C : x = e /\ B[x] = 1
  BY <1>1, <1>2, <1>3
<1>6. IsBag(C, S)
  <2>1. C = [x \in DOMAIN C |-> C[x]]
    BY <1>1
  <2> QED
    BY <1>4, <2>1 DEF IsBag
<1>7. \A x : Copies(x, C) = Copies(x, B) - (IF x = e THEN 1 ELSE 0)
  BY <1>2, <1>3, <1>4, <1>5 DEF Copies
<1> QED
  BY <1>4, <1>6, <1>7 DEF C

LEMMA BagKeepsSome ==
  ASSUME NEW S, NEW B, IsBag(B, S), NEW K, K \subseteq DOMAIN B
  PROVE  /\ IsBag([x \in K |-> B[x]], S)
         /\ \A x : Copies(x, [y \in K |-> B[y]]) <= Copies(x, B)
<1>1. \A x \in DOMAIN B : B[x] \in Nat \ {0}
  BY DEF IsBag
<1> QED
  BY <1>1 DEF IsBag, Copies

LEMMA CopiesAreCounted ==
  ASSUME NEW S, NEW B, IsBag(B, S), NEW x
  PROVE  Copies(x, B) \in Nat /\ (x \in DOMAIN B <=> Copies(x, B) > 0)
BY DEF IsBag, Copies

-----------------------------------------------------------------------------
(* The grant store.                                                        *)
Decided == Decisions \ {"deny"}

LEMMA GrantForDecisionTypes ==
  ASSUME NEW q \in Queries, NEW call \in Calls, NEW d \in Decided
  PROVE  LET g == GrantForDecision(d, q, call)
         IN  /\ g \in Grantings
             /\ d = "allow_once" => g = Receipt(q.session, call)
             /\ d # "allow_once" => g.digest = None /\ PermitOf(g) = Permit(d, q, call.tool)
             /\ g.scope = "global" => g.scopeId = None
<1>1. call.tool \in Tools /\ q.session \in Ids /\ q.workspace \in Workspaces \cup {None}
  BY DEF Tools, Queries
<1>2. CASE d = "allow_once"
  BY <1>1, <1>2 DEF GrantForDecision, Grant, Grantings, Receipt
<1>3. CASE d = "allow_session"
  BY <1>1, <1>3 DEF GrantForDecision, Grant, Grantings, PermitOf, Permit
<1>4. CASE d \in {"allow_workspace", "allow_always"}
  BY <1>1, <1>4 DEF GrantForDecision, Grant, Grantings, PermitOf, Permit
<1> QED
  BY <1>2, <1>3, <1>4 DEF Decided, Decisions

LEMMA AddGrantTypes ==
  ASSUME NEW store, IsBag(store, Grantings), NEW g \in Grantings
  PROVE  /\ IsBag(AddGrant(store, g), Grantings)
         /\ DOMAIN AddGrant(store, g) = DOMAIN store \cup {g}
         /\ \A x : x # g => Copies(x, AddGrant(store, g)) = Copies(x, store)
         /\ Copies(g, AddGrant(store, g)) <= Copies(g, store) + 1
         /\ g.digest # None => Copies(g, AddGrant(store, g)) = Copies(g, store) + 1
<1>0. \A x : Copies(x, store) \in Nat
  BY CopiesAreCounted
<1>1. CASE g.digest = None /\ BagIn(g, store)
  <2>1. AddGrant(store, g) = store /\ g \in DOMAIN store
    BY <1>1 DEF AddGrant, BagIn, BagToSet
  <2>2. DOMAIN store = DOMAIN store \cup {g}
    BY <2>1
  <2>3. Copies(g, store) <= Copies(g, store) + 1
    BY <1>0
  <2>4. g.digest = None
    BY <1>1
  <2> QED
    BY <2>1, <2>2, <2>3, <2>4
<1>2. CASE ~(g.digest = None /\ BagIn(g, store))
  <2>0. /\ IsBag(store (+) SetToBag({g}), Grantings)
        /\ DOMAIN (store (+) SetToBag({g})) = DOMAIN store \cup {g}
        /\ \A x : Copies(x, store (+) SetToBag({g})) = Copies(x, store) + (IF x = g THEN 1 ELSE 0)
    BY BagAddsOne
  <2> DEFINE more == store (+) SetToBag({g})
  <2>1. AddGrant(store, g) = more
    BY <1>2 DEF AddGrant
  <2>2. /\ IsBag(more, Grantings) /\ DOMAIN more = DOMAIN store \cup {g}
        /\ \A x : Copies(x, more) = Copies(x, store) + (IF x = g THEN 1 ELSE 0)
    BY <2>0
  <2> HIDE DEF more
  <2>3. \A x : x # g => Copies(x, more) = Copies(x, store)
    BY <1>0, <2>2
  <2>4. Copies(g, more) = Copies(g, store) + 1
    BY <2>2
  <2> QED
    BY <1>0, <2>1, <2>2, <2>3, <2>4
<1> QED
  BY <1>1, <1>2

(* Receipts are found by their session alone, whatever the workspace.      *)
ReceiptsAreOfSessions(store) ==
  \A g \in DOMAIN store : g.digest # None => g.scope = "session" /\ g.tool = g.digest.tool

LEMMA ConsumeTypes ==
  ASSUME NEW store, IsBag(store, Grantings), ReceiptsAreOfSessions(store),
         NEW q \in Queries, NEW call \in Calls
  PROVE  LET spent == ConsumeOnce(store, q, call)
             r     == Receipt(q.session, call)
         IN  /\ IsBag(spent.left, Grantings) /\ DOMAIN spent.left \subseteq DOMAIN store
             /\ spent.found <=> r \in DOMAIN store
             /\ spent.found \in BOOLEAN
             /\ \A x : x # r => Copies(x, spent.left) = Copies(x, store)
             /\ spent.found => Copies(r, spent.left) = Copies(r, store) - 1
             /\ ~spent.found => spent.left = store
<1> DEFINE r == Receipt(q.session, call)
           found == Receipts(store, q, call)
<1>1. ASSUME NEW g \in found PROVE g = r
  <2>1. g \in Grantings /\ g.digest = call /\ g.digest # None
    BY <1>1, AbsentAssumption DEF Receipts, BagToSet, IsBag
  <2>2. g.scope = "session" /\ g.tool = call.tool
    BY <1>1, <2>1 DEF ReceiptsAreOfSessions, Receipts, BagToSet
  <2>3. g.scopeId = q.session
    BY <1>1, <2>2 DEF Receipts, ScopePredicate
  <2> QED
    BY <2>1, <2>2, <2>3 DEF Grantings, Receipt, Grant
<1>2. r \in DOMAIN store => r \in found
  BY DEF Receipts, Receipt, Grant, ScopePredicate, BagToSet
<1>3. found \subseteq DOMAIN store
  BY DEF Receipts, BagToSet
<1>4. CASE found = {}
  <2>1. ConsumeOnce(store, q, call) = [found |-> FALSE, left |-> store]
    BY <1>4 DEF ConsumeOnce
  <2> QED
    BY <1>2, <1>4, <2>1
<1>5. CASE found # {}
  <2>1. found = {r}
    BY <1>1, <1>5
  <2>2. (CHOOSE g \in found : TRUE) = r
    BY <2>1
  <2>3. ConsumeOnce(store, q, call) = [found |-> TRUE, left |-> store (-) SetToBag({r})]
    BY <1>5, <2>2 DEF ConsumeOnce
  <2>4. r \in DOMAIN store
    BY <1>3, <2>1
  <2>5. \A x : Copies(x, store) \in Nat
    BY CopiesAreCounted
  <2> QED
    BY <2>3, <2>4, <2>5, BagDropsOne
<1> QED
  BY <1>4, <1>5

LEMMA ClearTypes ==
  ASSUME NEW store, IsBag(store, Grantings), NEW id
  PROVE  /\ IsBag(ClearSession(store, id), Grantings)
         /\ DOMAIN ClearSession(store, id) \subseteq DOMAIN store
         /\ \A x : Copies(x, ClearSession(store, id)) <= Copies(x, store)
<1> DEFINE K == {g \in BagToSet(store) : ~(g.scope = "session" /\ g.scopeId = id)}
<1>1. K \subseteq DOMAIN store /\ ClearSession(store, id) = [g \in K |-> store[g]]
  BY DEF BagToSet, ClearSession
<1> HIDE DEF K
<1> QED
  BY <1>1, BagKeepsSome

-----------------------------------------------------------------------------
(* The turn by itself: its verdicts and the numbers of its gates.          *)
Untouched(s) == \A i \in Ids \ {s} : turn'[i] = turn[i]

(* A turn changes in one of these ways.                                    *)
Moved(s, places, verdicts) ==
  /\ turn'[s] # Idle /\ turn'[s].at \in places /\ turn'[s].verdict \in verdicts
  /\ turn'[s].call = turn[s].call /\ turn'[s].plan = turn[s].plan
  /\ turn'[s].gate = turn[s].gate /\ turn'[s].workspace = turn[s].workspace

LEMMA GoToMoves ==
  ASSUME TurnTypes, NEW s \in Ids, turn[s] # Idle, NEW at \in Places, GoTo(s, at)
  PROVE  Moved(s, {at}, {turn[s].verdict}) /\ Untouched(s)
<1>1. turn[s] \in Turns
  BY TurnIsRecord
<1> QED
  BY <1>1 DEF GoTo, Moved, Untouched, TurnTypes, Turns, Idle, Places

LEMMA VerdictMoves ==
  ASSUME TurnTypes, NEW s \in Ids, turn[s] # Idle, NEW at \in Places, NEW v,
         turn' = [turn EXCEPT ![s].at = at, ![s].verdict = v]
  PROVE  Moved(s, {at}, {v}) /\ Untouched(s)
<1>1. turn[s] \in Turns
  BY TurnIsRecord
<1> QED
  BY <1>1 DEF Moved, Untouched, TurnTypes, Turns, Idle, Places

LEMMA AnswerMoves ==
  ASSUME TurnTypes, NEW s \in Ids, turn[s] # Idle, NEW v,
         turn' = [turn EXCEPT ![s].verdict = v]
  PROVE  Moved(s, {turn[s].at}, {v}) /\ Untouched(s)
<1>1. turn[s] \in Turns
  BY TurnIsRecord
<1> QED
  BY <1>1 DEF Moved, Untouched, TurnTypes, Turns, Idle, Places

LEMMA EndMoves ==
  ASSUME TurnTypes, NEW s \in Ids, EndTurn(s)
  PROVE  turn'[s] = Idle /\ Untouched(s)
BY DEF EndTurn, Untouched, TurnTypes

LEMMA NextCallMoves ==
  ASSUME TurnTypes, NEW s \in Ids, turn[s] # Idle, NextCall(s)
  PROVE  /\ turn'[s] # Idle /\ turn'[s].at = "calls" /\ ~turn'[s].plan
         /\ turn'[s].gate = 0 /\ turn'[s].verdict = "none" /\ Untouched(s)
<1>1. turn[s] \in Turns
  BY TurnIsRecord
<1>2. /\ turn'[s].at = "calls" /\ ~turn'[s].plan /\ turn'[s].gate = 0
      /\ turn'[s].verdict = "none" /\ Untouched(s)
  BY <1>1, NextCallTypes DEF Untouched, Turns
<1> QED
  BY <1>2 DEF Idle

LEMMA BeginMoves ==
  ASSUME RecordTypes, TurnTypes, NEW s \in Ids, Begin(s)
  PROVE  /\ turn'[s] # Idle /\ turn'[s].at = "pinning" /\ ~turn'[s].plan
         /\ turn'[s].gate = 0 /\ turn'[s].verdict = "none" /\ Untouched(s)
<1>1. turn'[s] \in Turns /\ turn'[s] # Idle
  BY BeginTypes DEF Turns, Idle, Places
<1> QED
  BY <1>1, BeginTypes DEF Untouched

LEMMA TakeMoves ==
  ASSUME TurnTypes, NEW s \in Ids, Take(s)
  PROVE  /\ turn'[s] # Idle /\ turn'[s].plan \in BOOLEAN
         /\ \/ /\ turn'[s].at = IF turn'[s].plan THEN "asking" ELSE "checking"
               /\ turn'[s].verdict = "none"
            \/ turn'[s].at = "running" /\ turn'[s].verdict = "unasked" /\ ~turn'[s].plan
         /\ turn'[s].gate = gates + 1 /\ gates' = gates + 1 /\ Untouched(s)
<1>1. PICK c \in Calls, plan \in BOOLEAN, at \in Places, v \in {"none", "unasked"} :
        /\ turn' = [turn EXCEPT ![s].at = at, ![s].call = c, ![s].plan = plan,
                                ![s].gate = gates + 1, ![s].verdict = v]
        /\ \/ at = (IF plan THEN "asking" ELSE "checking") /\ v = "none"
           \/ at = "running" /\ v = "unasked" /\ ~plan
  <2>1. PICK c \in Calls, plan \in BOOLEAN :
          LET asks == rules[c.tool] = "requires_approval"
          IN  turn' = [turn EXCEPT ![s].at = IF plan THEN "asking"
                                             ELSE IF asks THEN "checking" ELSE "running",
                                   ![s].call = c, ![s].plan = plan, ![s].gate = gates + 1,
                                   ![s].verdict = IF plan \/ asks THEN "none" ELSE "unasked"]
    BY DEF Take
  <2>2. CASE plan
    BY <2>1, <2>2 DEF Places
  <2>3. CASE ~plan /\ rules[c.tool] = "requires_approval"
    BY <2>1, <2>3 DEF Places
  <2>4. CASE ~plan /\ rules[c.tool] # "requires_approval"
    BY <2>1, <2>4 DEF Places
  <2> QED BY <2>2, <2>3, <2>4
<1>2. turn[s] # Idle
  BY DEF Take, Idle
<1>3. turn[s] \in Turns
  BY <1>2, TurnIsRecord
<1> DEFINE u == [turn[s] EXCEPT !.at = at, !.call = c, !.plan = plan, !.gate = gates + 1,
                             !.verdict = v]
<1>4. turn'[s] = u /\ Untouched(s)
  BY <1>1 DEF TurnTypes, Untouched
<1>5. u.at = at /\ u.plan = plan /\ u.gate = gates + 1 /\ u.verdict = v
  BY <1>3 DEF Turns
<1>6. u # Idle
  BY <1>1, <1>5 DEF Idle
<1> QED
  BY <1>1, <1>4, <1>5, <1>6 DEF Take

(* Every step of a turn, and every step upon it, is one of these.          *)
Restarted(s) ==
  /\ turn'[s] # Idle /\ turn'[s].at \in {"calls", "pinning"} /\ ~turn'[s].plan
  /\ turn'[s].gate = 0 /\ turn'[s].verdict = "none"

Advanced(s) ==
  \/ /\ turn[s].at = "waiting" /\ Moved(s, {"waiting"}, Decisions)
     /\ \E q \in Requests : Decide(q) \/ DecidePlan(q)
  \/ turn[s].at = "waiting" /\ Moved(s, {"waiting"}, {turn[s].verdict, "rejected"})
  \/ turn[s].at # "waiting" /\ Moved(s, {turn[s].at}, {turn[s].verdict})
  \/ PinMode(s) /\ Moved(s, {"calls"}, {turn[s].verdict})
  \/ Check(s) /\ Moved(s, {"running"}, {"allow_once"})
  \/ Check(s) /\ Moved(s, {"listing"}, {turn[s].verdict})
  \/ List(s) /\ Moved(s, {"running", "asking"}, {turn[s].verdict})
  \/ Ask(s) /\ Moved(s, {"waiting"}, {turn[s].verdict, "rejected"})
  \/ Resume(s) /\ ~turn[s].plan /\ Moved(s, {"storing", "granting"}, {turn[s].verdict})
  \/ StoreGrant(s) /\ Moved(s, {"spending", "running"}, {turn[s].verdict})
  \/ Spend(s) /\ Moved(s, {"running"}, {turn[s].verdict})
  \/ Run(s) /\ Moved(s, {"storing"}, {turn[s].verdict})

TurnMove(s) ==
  /\ Untouched(s)
  /\ \/ Take(s)
     \/ /\ gates' = gates
        /\ turn'[s] = Idle \/ Restarted(s) \/ (turn[s] # Idle /\ Advanced(s))

LEMMA StepMovesTurn ==
  ASSUME Types, [Next]_vars
  PROVE  UNCHANGED <<turn, gates>> \/ \E s \in Ids : TurnMove(s)
<1> USE DEF Types
<1>1. ASSUME NEW q \in Requests, Cancel(q) PROVE \E s \in Ids : TurnMove(s)
  <2> DEFINE s == Body(q).on
  <2>1. s \in Ids
    BY <1>1, BodyTypes DEF Cancel, At, Body
  <2>2. turn' = [turn EXCEPT ![s] = Told(@)] /\ gates' = gates
    BY <1>1 DEF Cancel, boundVars
  <2> HIDE DEF s
  <2>3. turn'[s] = Told(turn[s]) /\ Untouched(s)
    BY <2>1, <2>2 DEF TurnTypes, Untouched
  <2>4. CASE turn[s] = Idle
    BY <2>1, <2>2, <2>3, <2>4 DEF Told, TurnMove
  <2>5. CASE turn[s] # Idle
    <3>1. turn[s] \in Turns
      BY <2>1, <2>5, TurnIsRecord
    <3>2. /\ turn'[s].at = turn[s].at /\ turn'[s].call = turn[s].call
          /\ turn'[s].plan = turn[s].plan /\ turn'[s].gate = turn[s].gate
          /\ turn'[s].workspace = turn[s].workspace
          /\ turn'[s].verdict = IF turn[s].at = "waiting" /\ turn[s].verdict = "none"
                                THEN "rejected" ELSE turn[s].verdict
      BY <2>3, <2>5, <3>1 DEF Told, Turns
    <3>3. turn'[s] # Idle /\ turn[s].verdict \in Verdicts
      BY <3>1, <3>2 DEF Turns, Idle, Places
    <3>4. Advanced(s)
      BY <3>2, <3>3 DEF Advanced, Moved, Verdicts
    <3> QED
      BY <2>1, <2>2, <2>3, <2>5, <3>4 DEF TurnMove
  <2> QED
    BY <2>4, <2>5
<1>2. ASSUME NEW s \in Ids, turn[s] # Idle, turn[s].at = "waiting", NEW v \in Decisions,
             turn' = [turn EXCEPT ![s].verdict = v], gates' = gates,
             \E q \in Requests : Decide(q) \/ DecidePlan(q)
      PROVE  \E i \in Ids : TurnMove(i)
  <2>1. Moved(s, {turn[s].at}, {v}) /\ Untouched(s)
    BY <1>2, AnswerMoves
  <2>2. Moved(s, {"waiting"}, Decisions)
    BY <1>2, <2>1 DEF Moved
  <2> QED
    BY <1>2, <2>1, <2>2 DEF TurnMove, Advanced
<1>3. ASSUME NEW q \in Requests, Decide(q)
      PROVE  UNCHANGED <<turn, gates>> \/ \E s \in Ids : TurnMove(s)
  <2>1. Body(q).on \in Ids /\ Body(q).decision \in Decisions
    BY <1>3, BodyTypes DEF Decide, At, Body
  <2> QED
    BY <1>2, <1>3, <2>1 DEF Decide, boundVars
<1>4. ASSUME NEW q \in Requests, DecidePlan(q)
      PROVE  UNCHANGED <<turn, gates>> \/ \E s \in Ids : TurnMove(s)
  <2>1. Body(q).on \in Ids /\ "allow_once" \in Decisions /\ "deny" \in Decisions
    BY <1>4, BodyTypes DEF DecidePlan, At, Body, Decisions
  <2> QED
    BY <1>2, <1>4, <2>1 DEF DecidePlan, boundVars
<1>5. ASSUME NEW s \in Ids, Begin(s) PROVE TurnMove(s)
  <2>1. gates' = gates
    BY <1>5 DEF Begin
  <2>2. /\ turn'[s] # Idle /\ turn'[s].at = "pinning" /\ ~turn'[s].plan
        /\ turn'[s].gate = 0 /\ turn'[s].verdict = "none" /\ Untouched(s)
    BY <1>5, BeginMoves
  <2> QED
    BY <2>1, <2>2 DEF TurnMove, Restarted
<1>6. ASSUME NEW s \in Ids, Take(s) PROVE TurnMove(s)
  BY <1>6, TakeMoves DEF TurnMove
<1>7. ASSUME NEW s \in Ids, PinMode(s) \/ Stop(s) \/ Check(s) \/ List(s) \/ Ask(s) \/ Resume(s)
                             \/ StoreGrant(s) \/ Spend(s) \/ Run(s) \/ StoreResult(s)
      PROVE  TurnMove(s)
  <2>1. turn[s].at # "idle"
    BY <1>7 DEF PinMode, Stop, Check, List, Ask, Resume, StoreGrant, Spend, Run, StoreResult
  <2>2. gates' = gates
    BY <1>7 DEF PinMode, Stop, Check, List, Ask, Resume, StoreGrant, Spend, Run, StoreResult,
       boundVars
  <2>3. turn[s] # Idle /\ turn[s] \in Turns
    BY <2>1, TurnIsRecord DEF Idle
  <2>4. CASE EndTurn(s)
    BY <2>2, <2>4, EndMoves DEF TurnMove
  <2>5. CASE NextCall(s)
    BY <2>2, <2>3, <2>5, NextCallMoves DEF TurnMove, Restarted
  <2>6. ASSUME NEW at \in Places, GoTo(s, at), NEW v \in {turn[s].verdict}
        PROVE  Moved(s, {at}, {v}) /\ Untouched(s)
    BY <2>3, <2>6, GoToMoves
  <2>7. ASSUME NEW at \in Places, NEW v, turn' = [turn EXCEPT ![s].at = at, ![s].verdict = v]
        PROVE  Moved(s, {at}, {v}) /\ Untouched(s)
    BY <2>3, <2>7, VerdictMoves
  <2>8. CASE PinMode(s)
    BY <2>2, <2>3, <2>4, <2>6, <2>8 DEF PinMode, TurnMove, Advanced, Places
  <2>9. CASE Stop(s)
    BY <2>4, <2>9 DEF Stop
  <2>10. CASE Check(s)
    <3> DEFINE spent == ConsumeOnce(grants, Query(s), turn[s].call)
    <3>1. turn' = [turn EXCEPT ![s].at = IF spent.found THEN "running" ELSE "listing",
                                 ![s].verdict = IF spent.found THEN "allow_once" ELSE @]
      BY <2>10 DEF Check
    <3> HIDE DEF spent
    <3>2. CASE spent.found
      <4>1. turn' = [turn EXCEPT ![s].at = "running", ![s].verdict = "allow_once"]
        BY <3>1, <3>2
      <4> QED
        BY <2>2, <2>3, <2>7, <2>10, <4>1 DEF TurnMove, Advanced, Places
    <3>3. CASE ~spent.found
      <4>1. turn' = [turn EXCEPT ![s].at = "listing", ![s].verdict = turn[s].verdict]
        BY <2>3, <3>1, <3>3 DEF TurnTypes, Turns
      <4> QED
        BY <2>2, <2>3, <2>7, <2>10, <4>1 DEF TurnMove, Advanced, Places
    <3> QED
      BY <3>2, <3>3
  <2>11. CASE List(s)
    <3>1. PICK at \in {"running", "asking"} : GoTo(s, at)
      BY <2>11 DEF List
    <3>2. Moved(s, {at}, {turn[s].verdict}) /\ Untouched(s)
      BY <2>6, <3>1 DEF Places
    <3>3. Moved(s, {"running", "asking"}, {turn[s].verdict})
      BY <3>2 DEF Moved
    <3> QED
      BY <2>2, <2>3, <2>11, <3>2, <3>3 DEF TurnMove, Advanced
  <2>12. CASE Ask(s)
    <3>1. CASE ~EndTurn(s)
      <4>1. PICK v \in {turn[s].verdict, "rejected"} :
              turn' = [turn EXCEPT ![s].at = "waiting", ![s].verdict = v]
        BY <2>3, <2>12, <3>1 DEF Ask, TurnTypes, Turns
      <4>2. Moved(s, {"waiting"}, {v}) /\ Untouched(s)
        BY <2>7, <4>1 DEF Places
      <4>3. Moved(s, {"waiting"}, {turn[s].verdict, "rejected"})
        BY <4>2 DEF Moved
      <4> QED
        BY <2>2, <2>3, <2>12, <4>2, <4>3 DEF TurnMove, Advanced
    <3> QED
      BY <2>4, <3>1
  <2>13. CASE Resume(s)
    <3>1. CASE ~EndTurn(s) /\ ~NextCall(s)
      <4>1. ~turn[s].plan /\ \E at \in {"storing", "granting"} : GoTo(s, at)
        BY <2>13, <3>1 DEF Resume
      <4>2. PICK at \in {"storing", "granting"} : GoTo(s, at)
        BY <4>1
      <4>3. Moved(s, {at}, {turn[s].verdict}) /\ Untouched(s)
        BY <2>6, <4>2 DEF Places
      <4>4. Moved(s, {"storing", "granting"}, {turn[s].verdict})
        BY <4>3 DEF Moved
      <4> QED
        BY <2>2, <2>3, <2>13, <4>1, <4>3, <4>4 DEF TurnMove, Advanced
    <3> QED
      BY <2>4, <2>5, <3>1
  <2>14. CASE StoreGrant(s)
    <3>1. PICK at \in {"spending", "running"} : GoTo(s, at)
      BY <2>14 DEF StoreGrant
    <3>2. Moved(s, {at}, {turn[s].verdict}) /\ Untouched(s)
      BY <2>6, <3>1 DEF Places
    <3>3. Moved(s, {"spending", "running"}, {turn[s].verdict})
      BY <3>2 DEF Moved
    <3> QED
      BY <2>2, <2>3, <2>14, <3>2, <3>3 DEF TurnMove, Advanced
  <2>15. CASE Spend(s)
    BY <2>2, <2>3, <2>6, <2>15 DEF Spend, TurnMove, Advanced, Places
  <2>16. CASE Run(s)
    BY <2>2, <2>3, <2>6, <2>16 DEF Run, TurnMove, Advanced, Places
  <2>17. CASE StoreResult(s)
    BY <2>4, <2>5, <2>17 DEF StoreResult
  <2> QED
    BY <1>7, <2>8, <2>9, <2>10, <2>11, <2>12, <2>13, <2>14, <2>15, <2>16, <2>17
<1> QED
  BY <1>1, <1>3, <1>4, <1>5, <1>6, <1>7, TurnFrame DEF TurnsChange, TurnStep

LEMMA VerdictStep ==
  ASSUME Types, Verdict, [Next]_vars
  PROVE  Verdict'
<1> USE DEF Types
<1>1. CASE UNCHANGED <<turn, gates>>
  BY <1>1 DEF Verdict
<1>2. ASSUME NEW s \in Ids, TurnMove(s) PROVE Verdict'
  <2> DEFINE Good == turn'[s] # Idle =>
               /\ turn'[s].plan => turn'[s].at \in {"asking", "waiting"}
               /\ turn'[s].at \in {"checking", "listing", "asking"} => turn'[s].verdict = "none"
               /\ turn'[s].at = "granting" => turn'[s].verdict \in Decisions \ {"deny"}
               /\ turn'[s].verdict = "unasked" => turn'[s].at \in {"running", "storing"}
  <2>5. SUFFICES Good
    <3>1. \A i \in Ids \ {s} : turn'[i] = turn[i]
      BY <1>2 DEF TurnMove, Untouched
    <3> QED
      BY <3>1 DEF Verdict
  <2>1. CASE Take(s)
    BY <2>1, TakeMoves
  <2>2. CASE turn'[s] = Idle \/ Restarted(s)
    BY <2>2 DEF Restarted
  <2>3. CASE turn[s] # Idle /\ Advanced(s)
    <3>1. /\ turn[s].plan => turn[s].at \in {"asking", "waiting"}
          /\ turn[s].at \in {"checking", "listing", "asking"} => turn[s].verdict = "none"
          /\ turn[s].at = "granting" => turn[s].verdict \in Decisions \ {"deny"}
          /\ turn[s].verdict = "unasked" => turn[s].at \in {"running", "storing"}
      BY <2>3 DEF Verdict
    <3>2. CASE \/ turn[s].at = "waiting" /\ Moved(s, {"waiting"}, Decisions)
               \/ turn[s].at = "waiting" /\ Moved(s, {"waiting"}, {turn[s].verdict, "rejected"})
      BY <3>1, <3>2 DEF Moved, Decisions
    <3>3. CASE turn[s].at # "waiting" /\ Moved(s, {turn[s].at}, {turn[s].verdict})
      BY <3>1, <3>3 DEF Moved
    <3>4. CASE Resume(s) /\ ~turn[s].plan /\ Moved(s, {"storing", "granting"}, {turn[s].verdict})
      <4>1. turn'[s].at = IF turn[s].verdict = "deny" THEN "storing" ELSE "granting"
        <5>1. turn[s].verdict # "rejected"
          BY <3>4, EndMoves DEF Resume, Moved
        <5>2. GoTo(s, IF turn[s].verdict = "deny" THEN "storing" ELSE "granting")
          BY <3>4, <5>1, EndMoves DEF Resume, Moved
        <5> QED
          BY <2>3, <5>2, TurnIsRecord DEF GoTo, TurnTypes, Turns
      <4>2. turn[s].verdict \in Decisions
        <5>1. turn[s].verdict \notin {"none", "rejected", "unasked"}
          BY <3>1, <3>4, EndMoves DEF Resume, Moved
        <5>2. turn[s].verdict \in Verdicts
          BY <2>3, TurnIsRecord DEF Turns
        <5> QED
          BY <5>1, <5>2 DEF Verdicts
      <4> QED
        BY <3>4, <4>1, <4>2 DEF Moved, Decisions
    <3>5. CASE \/ PinMode(s) /\ Moved(s, {"calls"}, {turn[s].verdict})
               \/ Check(s) /\ Moved(s, {"running"}, {"allow_once"})
               \/ Check(s) /\ Moved(s, {"listing"}, {turn[s].verdict})
               \/ List(s) /\ Moved(s, {"running", "asking"}, {turn[s].verdict})
               \/ Ask(s) /\ Moved(s, {"waiting"}, {turn[s].verdict, "rejected"})
               \/ StoreGrant(s) /\ Moved(s, {"spending", "running"}, {turn[s].verdict})
               \/ Spend(s) /\ Moved(s, {"running"}, {turn[s].verdict})
               \/ Run(s) /\ Moved(s, {"storing"}, {turn[s].verdict})
      BY <3>1, <3>5 DEF Moved, PinMode, Check, List, Ask, StoreGrant, Spend, Run
    <3> QED
      BY <2>3, <3>2, <3>3, <3>4, <3>5 DEF Advanced
  <2> QED
    BY <1>2, <2>1, <2>2, <2>3 DEF TurnMove
<1> QED
  BY <1>1, <1>2, StepMovesTurn

(* A plan in the record was there before, or the turn has just asked.      *)
LEMMA PlanStep ==
  ASSUME Types, [Next]_vars, NEW s \in Ids, Exists(s)', records'[s].plan # None
  PROVE  \/ Exists(s) /\ records'[s].plan = records[s].plan
         \/ Ask(s) /\ turn[s].plan /\ records'[s].plan.id = turn[s].gate
<1> USE DEF Types
<1>1. CASE Create
  <2>1. PICK i \in Ids \ made, ws \in Workspaces \cup {None}, mode \in Values :
          records' = [records EXCEPT ![i] = NewRecord(ws, [FirstPins EXCEPT !["mode"] = mode])]
    BY <1>1 DEF Create
  <2>2. NewRecord(ws, [FirstPins EXCEPT !["mode"] = mode]).plan = None
    BY DEF NewRecord
  <2> QED
    BY <2>1, <2>2 DEF RecordTypes, Exists
<1>2. ASSUME NEW q \in Requests, DeleteRow(q) PROVE Exists(s) /\ records'[s].plan = records[s].plan
  BY <1>2 DEF DeleteRow, RecordTypes, Exists
<1>3. ASSUME NEW q \in Requests, Set(q) PROVE Exists(s) /\ records'[s].plan = records[s].plan
  <2>1. Body(q).on \in Ids /\ Body(q).field \in Fields /\ Body(q).value \in Values
    BY <1>3, BodyTypes DEF Set, At, Body
  <2>2. CASE UNCHANGED records
    BY <2>2 DEF Exists
  <2>3. CASE SetPin(Body(q).on, Body(q).field, Body(q).value)
    BY <2>1, <2>3, SetPinTypes DEF Exists
  <2> QED
    BY <1>3, <2>2, <2>3 DEF Set
<1>4. ASSUME NEW q \in Requests, DecidePlan(q) PROVE Exists(s) /\ records'[s].plan = records[s].plan
  <2>1. Body(q).on \in Ids
    BY <1>4, BodyTypes DEF DecidePlan, At, Body
  <2>2. CASE UNCHANGED records
    BY <2>2 DEF Exists
  <2>3. CASE ~UNCHANGED records
    <3>1. PICK m : /\ records' = [records EXCEPT ![Body(q).on].plan = None, ![Body(q).on].pins["mode"] = m]
                   /\ Exists(Body(q).on)
      BY <1>4, <2>3 DEF DecidePlan
    <3>2. records[Body(q).on] \in Records
      BY <2>1, <3>1 DEF RecordTypes, Exists
    <3>3. records'[Body(q).on].plan = None
      BY <2>1, <3>1, <3>2 DEF RecordTypes, Records
    <3> QED
      BY <2>1, <3>1, <3>3 DEF RecordTypes, Exists
  <2> QED
    BY <2>2, <2>3
<1>5. ASSUME NEW i \in Ids, PinMode(i) PROVE Exists(s) /\ records'[s].plan = records[s].plan
  <2>1. CASE UNCHANGED records
    BY <2>1 DEF Exists
  <2>2. CASE \E m \in Values : SetPin(i, "mode", m)
    BY <2>2, SetPinTypes, SessionsAssumption DEF Exists
  <2> QED
    BY <1>5, <2>1, <2>2 DEF PinMode
<1>6. ASSUME NEW i \in Ids, Resume(i) \/ StoreResult(i)
      PROVE  Exists(s) /\ records'[s].plan = records[s].plan
  <2>1. CASE UNCHANGED records
    BY <2>1 DEF Exists
  <2>2. CASE ~UNCHANGED records
    <3>1. Exists(i) /\ records[i] \in Records
      BY <1>6, <2>2 DEF Resume, StoreResult, RecordTypes, Exists
    <3>2. PICK approvals \in SUBSET Rows : Persist(i, approvals, records[i].plan)
      <4>1. {r \in records[i].approvals : r.id # turn[i].gate} \in SUBSET Rows
        BY <3>1 DEF Records
      <4> QED
        BY <1>6, <2>2, <3>1, <4>1 DEF Resume, StoreResult, Records
    <3> QED
      BY <3>1, <3>2, PersistTypes DEF Records, Exists
  <2> QED
    BY <2>1, <2>2
<1>7. ASSUME NEW i \in Ids, Ask(i)
      PROVE  \/ Exists(s) /\ records'[s].plan = records[s].plan
             \/ Ask(s) /\ turn[s].plan /\ records'[s].plan.id = turn[s].gate
  <2>1. CASE UNCHANGED records
    BY <2>1 DEF Exists
  <2>2. CASE ~UNCHANGED records
    <3> DEFINE row == [id |-> turn[i].gate, call |-> turn[i].call]
    <3>1. Exists(i) /\ records[i] \in Records
      BY <1>7, <2>2 DEF Ask, RecordTypes, Exists
    <3>2. row \in Rows
      BY <1>7 DEF Ask, CallIsTaken, Rows, Idle
    <3>3. PICK approvals \in SUBSET Rows :
            Persist(i, approvals, IF turn[i].plan THEN row ELSE records[i].plan)
      <4> DEFINE A == IF turn[i].plan THEN records[i].approvals ELSE records[i].approvals \cup {row}
      <4>1. Persist(i, A, IF turn[i].plan THEN row ELSE records[i].plan)
        BY <1>7, <2>2, <3>1 DEF Ask
      <4>2. records[i].approvals \in SUBSET Rows
        BY <3>1 DEF Records
      <4>3. A \in SUBSET Rows
        BY <3>2, <4>2
      <4> QED
        BY <4>1, <4>3
    <3>4. CASE turn[i].plan
      <4>1. /\ records'[i].plan = row
            /\ \A j \in Ids \ {i} : records'[j] = records[j]
        BY <3>1, <3>2, <3>3, <3>4, PersistTypes
      <4>2. CASE i = s
        BY <1>7, <3>4, <4>1, <4>2
      <4>3. CASE i # s
        BY <4>1, <4>3 DEF Exists
      <4> QED
        BY <4>2, <4>3
    <3>5. CASE ~turn[i].plan
      BY <3>1, <3>3, <3>5, PersistTypes DEF Records, Exists
    <3> QED
      BY <3>4, <3>5
  <2> QED
    BY <2>1, <2>2
<1>8. CASE UNCHANGED <<records, lastSet, made>>
  BY <1>8 DEF Exists
<1> QED
  BY <1>1, <1>2, <1>3, <1>4, <1>5, <1>6, <1>7, <1>8, RecordFrame DEF RecordsChange

LEMMA GatesStep ==
  ASSUME Types, GatesAreNumbered, [Next]_vars
  PROVE  GatesAreNumbered'
<1> USE DEF Types
<1>1. TurnTypes' /\ RecordTypes'
  BY TurnTypesStep, RecordTypesStep
<1>2. gates \in Nat /\ gates' \in Nat /\ gates <= gates'
  <2>1. gates \in Nat /\ gates' \in Nat
    BY <1>1, SessionsAssumption DEF TurnTypes
  <2>2. gates' = gates \/ gates' = gates + 1
    BY StepMovesTurn, TakeMoves DEF TurnMove
  <2> QED
    BY <2>1, <2>2
<1> SUFFICES ASSUME NEW s \in Ids
             PROVE  /\ turn'[s] # Idle => turn'[s].gate <= gates'
                    /\ Exists(s)' /\ records'[s].plan # None =>
                         /\ records'[s].plan.id <= gates'
                         /\ turn'[s] # Idle /\ turn'[s].gate = records'[s].plan.id => turn'[s].plan
  BY DEF GatesAreNumbered
<1>3. turn[s] # Idle => turn[s].gate \in Nat /\ turn[s].gate <= gates
  BY TurnIsRecord DEF GatesAreNumbered, Turns
<1>4. \/ turn'[s] = turn[s]
      \/ Take(s) /\ turn'[s].gate = gates + 1 /\ gates' = gates + 1
      \/ turn'[s] = Idle
      \/ Restarted(s)
      \/ turn[s] # Idle /\ turn'[s].gate = turn[s].gate /\ turn'[s].plan = turn[s].plan
  BY StepMovesTurn, TakeMoves DEF TurnMove, Untouched, Advanced, Moved
<1>5. turn'[s] # Idle => turn'[s].gate <= gates'
  BY <1>2, <1>3, <1>4 DEF Restarted
<1>6. ASSUME Exists(s)', records'[s].plan # None
      PROVE  /\ records'[s].plan.id <= gates'
             /\ turn'[s] # Idle /\ turn'[s].gate = records'[s].plan.id => turn'[s].plan
  <2>1. records'[s].plan.id \in GateIds
    BY <1>1, <1>6 DEF RecordTypes, Exists, Records, Rows
  <2>2. records'[s].plan.id \in Nat /\ records'[s].plan.id > 0
    BY <2>1, SessionsAssumption DEF GateIds
  <2>3. CASE Exists(s) /\ records'[s].plan = records[s].plan
    <3>1. records[s].plan.id <= gates
      BY <1>6, <2>3 DEF GatesAreNumbered
    <3>2. turn[s] # Idle /\ turn[s].gate = records[s].plan.id => turn[s].plan
      BY <1>6, <2>3 DEF GatesAreNumbered
    <3>3. records'[s].plan.id <= gates'
      BY <1>2, <2>2, <2>3, <3>1
    <3>4. ASSUME turn'[s] # Idle, turn'[s].gate = records'[s].plan.id PROVE turn'[s].plan
      <4>1. CASE turn'[s] = turn[s]
        BY <2>3, <3>2, <3>4, <4>1
      <4>2. turn'[s].gate # gates + 1 /\ ~Restarted(s)
        BY <1>2, <2>2, <2>3, <3>1, <3>4 DEF Restarted
      <4>3. CASE turn[s] # Idle /\ turn'[s].gate = turn[s].gate /\ turn'[s].plan = turn[s].plan
        BY <2>3, <3>2, <3>4, <4>3
      <4> QED
        BY <1>4, <3>4, <4>1, <4>2, <4>3
    <3> QED
      BY <3>3, <3>4
  <2>4. CASE Ask(s) /\ turn[s].plan /\ records'[s].plan.id = turn[s].gate
    <3>1. turn[s] # Idle /\ ~Take(s)
      BY <2>4 DEF Ask, Take, Idle
    <3>2. records'[s].plan.id <= gates'
      BY <1>2, <1>3, <2>2, <2>4, <3>1
    <3>3. ASSUME turn'[s] # Idle, turn'[s].gate = records'[s].plan.id PROVE turn'[s].plan
      <4>1. ~Restarted(s)
        BY <2>2, <3>3 DEF Restarted
      <4>2. turn'[s] = turn[s] \/ turn'[s].plan = turn[s].plan
        BY <1>4, <3>1, <3>3, <4>1
      <4> QED
        BY <2>4, <4>2
    <3> QED
      BY <3>2, <3>3
  <2> QED
    BY <1>6, <2>3, <2>4, PlanStep
<1> QED
  BY <1>5, <1>6

-----------------------------------------------------------------------------
(* Permissions.  A turn that goes on as it was, or that holds nothing, and *)
(* a store that takes no more than is owed in addition.                    *)
Same(s) ==
  /\ turn[s] # Idle
  /\ \/ Moved(s, {turn[s].at}, {turn[s].verdict})
     \/ turn[s].at \in {"waiting", "granting"} /\ Moved(s, {"waiting", "granting"}, {turn[s].verdict})
EmptyHanded(s) ==
  \/ turn'[s] = Idle
  \/ turn'[s].at \in Places \ {"waiting", "granting", "spending", "running"}
  \/ turn'[s].at = "waiting" /\ (turn'[s].plan \/ turn'[s].verdict \notin Decisions \ {"deny"})
  \/ turn'[s].at = "running" /\ turn'[s].verdict = "unasked"
Quiet(s) == turn'[s] = turn[s] \/ Same(s) \/ EmptyHanded(s)

LEMMA BagsCount ==
  ASSUME GrantTypes
  PROVE  \A x : Copies(x, grants) \in Nat /\ Copies(x, owed) \in Nat
BY CopiesAreCounted DEF GrantTypes

LEMMA OwedStays ==
  ASSUME GrantTypes, GrantTypes', NEW x, Copies(x, owed) <= Copies(x, owed')
  PROVE  x \in DOMAIN owed => x \in DOMAIN owed'
BY CopiesAreCounted DEF GrantTypes, Copies

LEMMA QuietKeeps ==
  ASSUME GrantTypes, GrantTypes', NEW s \in Ids, Permitted(s), Quiet(s), allowed \subseteq allowed',
         \A c \in Calls :
           /\ Copies(Receipt(s, c), grants') + Copies(<<s, c>>, owed)
                <= Copies(Receipt(s, c), grants) + Copies(<<s, c>>, owed')
           /\ Copies(<<s, c>>, owed) <= Copies(<<s, c>>, owed'),
         turn[s] # Idle /\ turn[s].at \in {"spending", "running"} => turn[s].call \in Calls
  PROVE  Permitted(s)'
<1>1. ASSUME NEW c \in Calls
      PROVE  /\ Copies(Receipt(s, c), grants) \in Nat /\ Copies(Receipt(s, c), grants') \in Nat
             /\ Copies(<<s, c>>, owed) \in Nat /\ Copies(<<s, c>>, owed') \in Nat
             /\ Held(s, c) \in 0..1
  BY BagsCount, CopiesAreCounted DEF Held, GrantTypes
<1>2. ASSUME NEW c \in Calls, Held(s, c)' <= Held(s, c)
      PROVE  Copies(Receipt(s, c), grants') + Held(s, c)' <= Copies(<<s, c>>, owed')
  <2>1. Copies(Receipt(s, c), grants) + Held(s, c) <= Copies(<<s, c>>, owed)
    BY DEF Permitted, ReceiptsAreOwed
  <2>2. Held(s, c)' \in 0..1
    BY DEF Held
  <2> HIDE DEF Held, Copies
  <2> QED
    BY <1>1, <1>2, <2>1, <2>2
<1>3. CASE EmptyHanded(s)
  <2>1. \A c \in Calls : Held(s, c)' = 0
    BY <1>3 DEF EmptyHanded, Held, Carries, Decisions
  <2>2. ReceiptsAreOwed(s)'
    BY <1>1, <1>2, <2>1 DEF ReceiptsAreOwed
  <2>3. CarriedIsAllowed(s)' /\ SpendingIsOwed(s)' /\ RunIsCovered(s)'
    BY <1>3 DEF EmptyHanded, CarriedIsAllowed, SpendingIsOwed, RunIsCovered, Unasked, Carries,
       Standing, Decisions
  <2> QED
    BY <2>2, <2>3 DEF Permitted
<1>4. CASE turn'[s] = turn[s] \/ Same(s)
  <2>1. turn[s] # Idle =>
          /\ turn'[s].call = turn[s].call /\ turn'[s].plan = turn[s].plan
          /\ turn'[s].workspace = turn[s].workspace /\ turn'[s].verdict = turn[s].verdict
          /\ turn'[s].at = turn[s].at \/ {turn'[s].at, turn[s].at} \subseteq {"waiting", "granting"}
    BY <1>4 DEF Same, Moved
  <2>2. turn[s] = Idle => turn'[s] = Idle
    BY <1>4 DEF Same
  <2>3. ASSUME NEW c \in Calls PROVE Held(s, c)' <= Held(s, c)
    BY <2>1, <2>2 DEF Held, Carries
  <2>4. ReceiptsAreOwed(s)'
    BY <1>2, <2>3 DEF ReceiptsAreOwed
  <2>5. CarriedIsAllowed(s)'
    BY <2>1, <2>2 DEF Permitted, CarriedIsAllowed, Carries, Query
  <2>6. turn[s] # Idle /\ turn[s].at \in {"spending", "running"} /\ <<s, turn[s].call>> \in DOMAIN owed
          => <<s, turn[s].call>> \in DOMAIN owed'
    BY OwedStays
  <2>7. SpendingIsOwed(s)'
    BY <2>1, <2>2, <2>6 DEF Permitted, SpendingIsOwed
  <2>8. RunIsCovered(s)'
    BY <2>1, <2>2, <2>6 DEF Permitted, RunIsCovered, Covered, Unasked, Query, BagIn, BagToSet
  <2> QED
    BY <2>4, <2>5, <2>7, <2>8 DEF Permitted
<1> QED
  BY <1>3, <1>4 DEF Quiet

LEMMA StepIsQuiet ==
  ASSUME Types, Verdict, [Next]_vars, NEW s \in Ids
  PROVE  \/ Quiet(s)
         \/ \E q \in Requests : Decide(q) \/ DecidePlan(q)
         \/ List(s) /\ Moved(s, {"running"}, {turn[s].verdict})
         \/ Check(s) \/ StoreGrant(s) \/ Spend(s)
<1>1. CASE turn' = turn
  BY <1>1 DEF Quiet
<1>2. ASSUME NEW i \in Ids, TurnMove(i), i # s PROVE Quiet(s)
  BY <1>2 DEF TurnMove, Untouched, Quiet
<1>3. CASE TurnMove(s)
  <2> USE DEF Quiet, Places
  <2>1. CASE Take(s)
    BY <2>1, TakeMoves DEF Types, EmptyHanded
  <2>2. CASE turn'[s] = Idle \/ Restarted(s)
    BY <2>2 DEF EmptyHanded, Restarted
  <2>3. CASE turn[s] # Idle /\ Advanced(s)
    <3>1. CASE turn[s].at = "waiting" /\ Moved(s, {"waiting"}, {turn[s].verdict, "rejected"})
      <4>1. CASE turn'[s].verdict = "rejected"
        BY <3>1, <4>1 DEF EmptyHanded, Moved, Decisions
      <4> QED
        BY <2>3, <3>1, <4>1 DEF Same, Moved
    <3>2. CASE turn[s].at # "waiting" /\ Moved(s, {turn[s].at}, {turn[s].verdict})
      BY <2>3, <3>2 DEF Same
    <3>3. CASE PinMode(s) /\ Moved(s, {"calls"}, {turn[s].verdict})
      BY <3>3 DEF EmptyHanded, Moved
    <3>4. CASE List(s) /\ Moved(s, {"running", "asking"}, {turn[s].verdict})
      BY <3>4 DEF EmptyHanded, Moved
    <3>5. CASE Ask(s) /\ Moved(s, {"waiting"}, {turn[s].verdict, "rejected"})
      <4>1. turn[s].verdict = "none"
        BY <2>3, <3>5 DEF Verdict, Ask
      <4> QED
        BY <3>5, <4>1 DEF EmptyHanded, Moved, Decisions
    <3>6. CASE Resume(s) /\ ~turn[s].plan /\ Moved(s, {"storing", "granting"}, {turn[s].verdict})
      BY <2>3, <3>6 DEF EmptyHanded, Same, Moved, Resume
    <3>7. CASE Run(s) /\ Moved(s, {"storing"}, {turn[s].verdict})
      BY <3>7 DEF EmptyHanded, Moved
    <3> QED
      BY <2>3, <3>1, <3>2, <3>3, <3>4, <3>5, <3>6, <3>7 DEF Advanced
  <2> QED
    BY <1>3, <2>1, <2>2, <2>3 DEF TurnMove
<1> QED
  BY <1>1, <1>2, <1>3, StepMovesTurn

(* What only takes from the store, or leaves it alone, and moves quietly.  *)
LEMMA QuietStep ==
  ASSUME Types, Permissions, GrantTypes', NEW s \in Ids, Quiet(s), owed' = owed,
         allowed' = allowed,
         \A c \in Calls : Copies(Receipt(s, c), grants') <= Copies(Receipt(s, c), grants)
  PROVE  Permitted(s)'
<1>1. ASSUME NEW c \in Calls
      PROVE  /\ Copies(Receipt(s, c), grants) \in Nat /\ Copies(Receipt(s, c), grants') \in Nat
             /\ Copies(<<s, c>>, owed) \in Nat /\ Copies(<<s, c>>, owed') = Copies(<<s, c>>, owed)
  <2>1. IsBag(grants, Grantings) /\ IsBag(owed, Ids \X Calls) /\ IsBag(grants', Grantings)
    BY DEF GrantTypes, Types, IsBag
  <2> QED
    BY <2>1, CopiesAreCounted DEF Copies
<1> QED
  BY <1>1, QuietKeeps DEF Types, Permissions, CallIsTaken

LEMMA ReceiptsDiffer ==
  ASSUME NEW s, NEW c, NEW i, NEW d, Receipt(s, c) = Receipt(i, d)
  PROVE  s = i /\ c = d
BY DEF Receipt, Grant

LEMMA TurnQueries ==
  ASSUME TurnTypes, NEW s \in Ids, turn[s] # Idle
  PROVE  Query(s) \in Queries /\ Query(s).session = s /\ Query(s).workspace = turn[s].workspace
BY TurnIsRecord DEF Query, Queries, Turns

LEMMA GrantsAreOfSessions ==
  ASSUME GrantsAreAllowed
  PROVE  ReceiptsAreOfSessions(grants)
BY DEF GrantsAreAllowed, ReceiptsAreOfSessions

(* Steps that leave the store and what is allowed alone: only a standing   *)
(* grant lets a call go.                                                   *)
LEMMA UncountedStep ==
  ASSUME Types, Verdict, Permissions, [Next]_vars, UNCHANGED <<grants, owed, allowed>>,
         ~\E q \in Requests : Decide(q) \/ DecidePlan(q),
         ~\E s \in Ids : Check(s) \/ StoreGrant(s) \/ Spend(s)
  PROVE  Permissions'
<1>1. GrantTypes' /\ GrantsAreAllowed'
  BY DEF Permissions, GrantTypes, GrantsAreAllowed, PermitOf
<1>2. ASSUME NEW s \in Ids PROVE Permitted(s)'
  <2>1. CASE Quiet(s)
    <3>1. \A c \in Calls : Copies(Receipt(s, c), grants') <= Copies(Receipt(s, c), grants)
      BY BagsCount DEF Types
    <3> QED
      BY <1>1, <2>1, <3>1, QuietStep
  <2>2. CASE List(s) /\ Moved(s, {"running"}, {turn[s].verdict})
    <3> DEFINE q == Query(s)
               c == turn[s].call
    <3>1. turn[s] # Idle /\ turn[s].verdict = "none"
      BY <2>2 DEF Verdict, List, Idle
    <3>2. HasStanding(grants, q, c.tool)
      BY <2>2, <3>1, TurnIsRecord DEF List, GoTo, Moved, TurnTypes, Types, Turns
    <3>3. PICK g \in DOMAIN grants : g.tool = c.tool /\ g.digest = None /\ MatchesScope(g, q)
      BY <3>2 DEF HasStanding, ListGrants, BagToSet
    <3>4. PermitOf(g) \in allowed /\ g \in Grantings
      BY <3>3 DEF Permissions, GrantsAreAllowed, Types, GrantTypes, IsBag
    <3>5. q = Query(s)' /\ c = turn'[s].call /\ turn'[s].verdict = "none"
      BY <2>2, <3>1 DEF Moved, Query
    <3>6. /\ PermitOf(g).tool = c.tool
          /\ PermitOf(g).scope = "session" => PermitOf(g).id = q.session
          /\ PermitOf(g).scope = "workspace" => PermitOf(g).id = q.workspace
      BY <3>3, <3>4 DEF PermitOf, MatchesScope, Grantings
    <3>7. Covered(s)'
      BY <3>4, <3>5, <3>6 DEF Covered
    <3>8. \A d \in Calls : Held(s, d)' = 0 /\ Held(s, d) = 0
      BY <3>1, <3>5 DEF Held, Carries
    <3>9. ReceiptsAreOwed(s)'
      BY <3>8 DEF Permissions, Permitted, ReceiptsAreOwed
    <3>10. turn'[s].at = "running"
      BY <2>2 DEF Moved
    <3> QED
      BY <3>7, <3>9, <3>10 DEF Permitted, CarriedIsAllowed, SpendingIsOwed, RunIsCovered, Carries
  <2> QED
    BY <2>1, <2>2, StepIsQuiet
<1> QED
  BY <1>1, <1>2 DEF Permissions

LEMMA DeleteGrantsStep ==
  ASSUME Types, Permissions, NEW q \in Requests, DeleteGrants(q)
  PROVE  Permissions'
<1> DEFINE id == Body(q).on
<1>1. /\ grants' = ClearSession(grants, id) /\ turn' = turn /\ owed' = owed /\ allowed' = allowed
  BY DEF DeleteGrants, historyVars
<1>2. IsBag(grants, Grantings)
  BY DEF Types, GrantTypes
<1>3. /\ IsBag(grants', Grantings) /\ DOMAIN grants' \subseteq DOMAIN grants
      /\ \A x : Copies(x, grants') <= Copies(x, grants)
  BY <1>1, <1>2, ClearTypes DEF Copies
<1>4. GrantTypes' /\ GrantsAreAllowed'
  BY <1>1, <1>3 DEF Permissions, GrantTypes, GrantsAreAllowed, PermitOf, Types
<1>5. ASSUME NEW s \in Ids PROVE Permitted(s)'
  BY <1>1, <1>3, <1>4, QuietStep DEF Quiet
<1> QED
  BY <1>4, <1>5 DEF Permissions

(* A session whose turn is untouched loses nothing when more is allowed or *)
(* owed, or when another's grants change.                                  *)
LEMMA OtherSession ==
  ASSUME Types, Permissions, GrantTypes', NEW s \in Ids, Quiet(s), allowed \subseteq allowed',
         \A c \in Calls :
           /\ Copies(Receipt(s, c), grants') <= Copies(Receipt(s, c), grants)
           /\ Copies(<<s, c>>, owed) <= Copies(<<s, c>>, owed')
  PROVE  Permitted(s)'
<1>1. ASSUME NEW c \in Calls
      PROVE  Copies(Receipt(s, c), grants') + Copies(<<s, c>>, owed)
                <= Copies(Receipt(s, c), grants) + Copies(<<s, c>>, owed')
  <2>1. /\ Copies(Receipt(s, c), grants) \in Nat /\ Copies(Receipt(s, c), grants') \in Nat
        /\ Copies(<<s, c>>, owed) \in Nat /\ Copies(<<s, c>>, owed') \in Nat
    <3>1. IsBag(grants, Grantings) /\ IsBag(owed, Ids \X Calls)
          /\ IsBag(grants', Grantings) /\ IsBag(owed', Ids \X Calls)
      BY DEF GrantTypes, Types, IsBag
    <3> QED
      BY <3>1, CopiesAreCounted DEF Copies
  <2> QED
    BY <2>1
<1> QED
  BY <1>1, QuietKeeps DEF Types, Permissions, CallIsTaken

LEMMA DecideStep ==
  ASSUME Types, Verdict, Permissions, NEW q \in Requests, Decide(q)
  PROVE  Permissions'
<1>1. PICK s \in Ids, d \in Decisions : s = Body(q).on /\ d = Body(q).decision
  BY BodyTypes DEF Decide, At, Body, Types
<1>2. grants' = grants
  BY DEF Decide, storeVars
<1>3. CASE UNCHANGED <<turn, allowed, owed>>
  <2>1. GrantTypes' /\ GrantsAreAllowed'
    BY <1>2, <1>3 DEF Permissions, GrantTypes, GrantsAreAllowed, PermitOf, Types
  <2>2. \A x : Copies(x, grants') <= Copies(x, grants)
    BY <1>2, BagsCount DEF Types, Copies
  <2>3. ASSUME NEW i \in Ids PROVE Permitted(i)'
    BY <1>3, <2>1, <2>2, QuietStep DEF Quiet
  <2> QED
    BY <2>1, <2>3 DEF Permissions
<1>4. CASE ~UNCHANGED <<turn, allowed, owed>>
  <2>0. turn[s] # Idle /\ turn[s].at = "waiting" /\ turn[s].verdict = "none"
    BY <1>1, <1>4 DEF Decide
  <2>c. PICK c \in Calls : c = turn[s].call
    BY <1>1, <2>0 DEF Types, CallIsTaken
  <2>1. /\ turn[s] # Idle /\ turn[s].at = "waiting" /\ turn[s].verdict = "none"
        /\ turn' = [turn EXCEPT ![s].verdict = d]
        /\ allowed' = IF d \in {"deny", "allow_once"} THEN allowed
                      ELSE allowed \cup {Permit(d, Query(s), c.tool)}
        /\ owed' = IF d = "allow_once" THEN owed (+) SetToBag({<<s, c>>}) ELSE owed
    BY <1>1, <1>4, <2>c DEF Decide
  <2>2. Moved(s, {"waiting"}, {d}) /\ Untouched(s)
    BY <2>1, AnswerMoves DEF Types, Moved
  <2>3. /\ IsBag(owed', Ids \X Calls) /\ allowed \subseteq allowed'
        /\ \A x : Copies(x, owed') =
             Copies(x, owed) + (IF d = "allow_once" /\ x = <<s, c>> THEN 1 ELSE 0)
    <3>1. IsBag(owed, Ids \X Calls) /\ <<s, c>> \in Ids \X Calls
      BY <1>1, <2>2 DEF Types, GrantTypes
    <3>2. CASE d = "allow_once"
      <4> DEFINE more == owed (+) SetToBag({<<s, c>>})
      <4>1. /\ IsBag(more, Ids \X Calls)
            /\ \A x : Copies(x, more) = Copies(x, owed) + (IF x = <<s, c>> THEN 1 ELSE 0)
        BY <3>1, BagAddsOne
      <4>2. owed' = more /\ allowed' = allowed
        BY <2>1, <3>2
      <4> HIDE DEF more
      <4> QED
        BY <3>2, <4>1, <4>2
    <3>3. CASE d # "allow_once"
      <4>1. \A x : Copies(x, owed) \in Nat
        BY BagsCount DEF Types
      <4> QED
        BY <2>1, <3>1, <3>3, <4>1 DEF Copies
    <3> QED
      BY <3>2, <3>3
  <2>4. GrantTypes' /\ GrantsAreAllowed'
    BY <1>2, <2>3 DEF Permissions, GrantTypes, GrantsAreAllowed, PermitOf, Types, IsBag
  <2>5. \A x : /\ Copies(x, grants') = Copies(x, grants) /\ Copies(x, grants) \in Nat
               /\ Copies(x, owed) \in Nat /\ Copies(x, owed) <= Copies(x, owed')
    <3>1. \A x : Copies(x, grants') = Copies(x, grants)
      BY <1>2 DEF Copies
    <3> QED
      BY <2>3, <3>1, BagsCount DEF Types
  <2>6. ASSUME NEW i \in Ids, i # s PROVE Permitted(i)'
    <3>1. Quiet(i)
      BY <2>2, <2>6 DEF Untouched, Quiet
    <3> QED
      BY <2>3, <2>4, <2>5, <3>1, OtherSession
  <2>7. CASE d = "deny"
    <3>1. Quiet(s)
      BY <2>2, <2>7 DEF Quiet, EmptyHanded, Moved
    <3>2. Permitted(s)'
      BY <1>1, <2>3, <2>4, <2>5, <3>1, OtherSession
    <3> QED
      BY <2>4, <2>6, <3>2 DEF Permissions
  <2>8. CASE d # "deny"
    <3>1. /\ turn'[s].at = "waiting" /\ turn'[s].verdict = d /\ turn'[s].call = c
          /\ Query(s)' = Query(s)
      BY <2>c, <2>2 DEF Moved, Query
    <3>2. ASSUME NEW e \in Calls
          PROVE  Held(s, e) = 0 /\ Held(s, e)' <= IF d = "allow_once" /\ e = c THEN 1 ELSE 0
      BY <2>1, <3>1 DEF Held, Carries
    <3>3. ReceiptsAreOwed(s)'
      <4> SUFFICES ASSUME NEW e \in Calls
                   PROVE  Copies(Receipt(s, e), grants') + Held(s, e)' <= Copies(<<s, e>>, owed')
        BY DEF ReceiptsAreOwed
      <4>1. Copies(Receipt(s, e), grants) <= Copies(<<s, e>>, owed)
        BY <1>1, <2>5, <3>2 DEF Permissions, Permitted, ReceiptsAreOwed
      <4>2. Held(s, e)' \in 0..1
        BY DEF Held
      <4>3. Copies(<<s, e>>, owed') =
              Copies(<<s, e>>, owed) + (IF d = "allow_once" /\ e = c THEN 1 ELSE 0)
        BY <2>3
      <4>4. CASE d = "allow_once" /\ e = c
        BY <2>5, <3>2, <4>1, <4>2, <4>3, <4>4
      <4>5. CASE ~(d = "allow_once" /\ e = c)
        BY <2>5, <3>2, <4>1, <4>2, <4>3, <4>5
      <4> QED
        BY <4>4, <4>5
    <3>4. CarriedIsAllowed(s)'
      <4>1. d \in Standing => Permit(d, Query(s), c.tool) \in allowed'
        BY <2>1 DEF Standing
      <4> QED
        BY <3>1, <4>1 DEF CarriedIsAllowed, Carries
    <3>5. Permitted(s)'
      BY <3>1, <3>3, <3>4 DEF Permitted, SpendingIsOwed, RunIsCovered
    <3> QED
      BY <2>4, <2>6, <3>5 DEF Permissions
  <2> QED
    BY <2>7, <2>8
<1> QED
  BY <1>3, <1>4

(* The receipt of a plan goes to the store, and the turn that waits for    *)
(* the plan holds none: its gate has the number of the plan.               *)
LEMMA DecidePlanStep ==
  ASSUME Types, GatesAreNumbered, Permissions, NEW q \in Requests, DecidePlan(q)
  PROVE  Permissions'
<1> DEFINE s == Body(q).on
           yes == Body(q).approve
           step == records[s].plan.call
           r == Receipt(s, step)
<1>1. s \in Ids
  BY BodyTypes DEF DecidePlan, At, Body, Types
<1>2. allowed' = allowed
  BY DEF DecidePlan
<1>3. \A x : Copies(x, grants) \in Nat /\ Copies(x, owed) \in Nat
  BY BagsCount DEF Types
<1>4. CASE UNCHANGED <<grants, turn, owed>>
  <2>1. GrantTypes' /\ GrantsAreAllowed'
    BY <1>2, <1>4 DEF Permissions, GrantTypes, GrantsAreAllowed, PermitOf, Types
  <2>2. \A x : Copies(x, grants') <= Copies(x, grants)
    BY <1>3, <1>4 DEF Copies
  <2>3. ASSUME NEW i \in Ids PROVE Permitted(i)'
    BY <1>2, <1>4, <2>1, <2>2, QuietStep DEF Quiet
  <2> QED
    BY <2>1, <2>3 DEF Permissions
<1>5. CASE ~UNCHANGED <<grants, turn, owed>>
  <2>1. Exists(s) /\ records[s].plan # None
    BY <1>5 DEF DecidePlan
  <2>2. step \in Calls
    BY <1>1, <2>1 DEF Types, RecordTypes, Exists, Records, Rows
  <2>3. /\ grants' = IF yes THEN AddGrant(grants, r) ELSE grants
        /\ owed' = IF yes THEN owed (+) SetToBag({<<s, step>>}) ELSE owed
        /\ \/ turn' = turn
           \/ /\ turn[s] # Idle /\ turn[s].at = "waiting" /\ turn[s].gate = records[s].plan.id
              /\ \E v : turn' = [turn EXCEPT ![s].verdict = v]
    BY <2>1 DEF DecidePlan, GrantForDecision, Receipt
  <2> HIDE DEF s, yes, step
  <2>4. r \in Grantings /\ r.digest = step /\ r.scope = "session" /\ r.tool = step.tool /\ step # None
    BY <1>1, <2>2, AbsentAssumption DEF Receipt, Grant, Grantings, Tools
  <2>5. /\ IsBag(grants', Grantings) /\ DOMAIN grants' \subseteq DOMAIN grants \cup {r}
        /\ \A x : Copies(x, grants') = Copies(x, grants) + (IF yes /\ x = r THEN 1 ELSE 0)
    <3>1. IsBag(grants, Grantings)
      BY DEF Types, GrantTypes
    <3>2. CASE yes
      <4>1. /\ IsBag(grants', Grantings) /\ DOMAIN grants' = DOMAIN grants \cup {r}
            /\ \A x : x # r => Copies(x, grants') = Copies(x, grants)
            /\ Copies(r, grants') = Copies(r, grants) + 1
        BY <2>3, <2>4, <3>1, <3>2, AddGrantTypes DEF Copies
      <4> QED
        BY <1>3, <3>2, <4>1
    <3>3. CASE ~yes
      BY <1>3, <2>3, <3>1, <3>3 DEF Copies
    <3> QED
      BY <3>2, <3>3
  <2>6. /\ IsBag(owed', Ids \X Calls)
        /\ \A x : Copies(x, owed') = Copies(x, owed) + (IF yes /\ x = <<s, step>> THEN 1 ELSE 0)
    <3>1. IsBag(owed, Ids \X Calls) /\ <<s, step>> \in Ids \X Calls
      BY <1>1, <2>2 DEF Types, GrantTypes
    <3>2. CASE yes
      <4> DEFINE more == owed (+) SetToBag({<<s, step>>})
      <4>1. /\ IsBag(more, Ids \X Calls)
            /\ \A x : Copies(x, more) = Copies(x, owed) + (IF x = <<s, step>> THEN 1 ELSE 0)
        BY <3>1, BagAddsOne
      <4>2. owed' = more
        BY <2>3, <3>2
      <4> HIDE DEF more
      <4> QED
        BY <3>2, <4>1, <4>2
    <3>3. CASE ~yes
      BY <1>3, <2>3, <3>1, <3>3 DEF Copies
    <3> QED
      BY <3>2, <3>3
  <2>7. GrantTypes'
    BY <2>5, <2>6 DEF GrantTypes, IsBag
  <2>8. GrantsAreAllowed'
    BY <1>2, <2>4, <2>5 DEF Permissions, GrantsAreAllowed, PermitOf
  <2>9. ASSUME NEW i \in Ids PROVE Permitted(i)'
    <3>1. Quiet(i)
      <4>1. CASE turn' = turn
        BY <4>1 DEF Quiet
      <4>2. CASE turn' # turn
        <5>1. PICK v : turn[s] # Idle /\ turn[s].at = "waiting" /\ turn[s].gate = records[s].plan.id
                       /\ turn' = [turn EXCEPT ![s].verdict = v]
          BY <2>3, <4>2
        <5>2. Moved(s, {"waiting"}, {v}) /\ Untouched(s)
          BY <1>1, <5>1, AnswerMoves DEF Types, Moved
        <5>3. turn[s].plan
          BY <1>1, <2>1, <5>1 DEF GatesAreNumbered
        <5> QED
          BY <5>2, <5>3 DEF Quiet, EmptyHanded, Moved, Untouched
      <4> QED
        BY <4>1, <4>2
    <3>2. ASSUME NEW c \in Calls
          PROVE  /\ Copies(Receipt(i, c), grants') + Copies(<<i, c>>, owed)
                      <= Copies(Receipt(i, c), grants) + Copies(<<i, c>>, owed')
                 /\ Copies(<<i, c>>, owed) <= Copies(<<i, c>>, owed')
      <4>1. Receipt(i, c) = r <=> <<i, c>> = <<s, step>>
        BY ReceiptsDiffer
      <4> HIDE DEF r
      <4> QED
        BY <1>3, <2>5, <2>6, <4>1
    <3> QED
      BY <1>2, <2>7, <3>1, <3>2, QuietKeeps DEF Types, Permissions, CallIsTaken
  <2> QED
    BY <2>7, <2>8, <2>9 DEF Permissions
<1> QED
  BY <1>4, <1>5

(* A receipt that is found goes from the store to the turn.                *)
LEMMA CheckStep ==
  ASSUME Types, Verdict, Permissions, NEW s \in Ids, Check(s)
  PROVE  Permissions'
<1> DEFINE c == turn[s].call
           spent == ConsumeOnce(grants, Query(s), c)
           r == Receipt(s, c)
<1>1. /\ turn[s] # Idle /\ turn[s].at = "checking" /\ turn[s] \in Turns /\ c \in Calls
      /\ turn[s].verdict = "none" /\ ~turn[s].plan
  BY TurnIsRecord DEF Check, Idle, Types, CallIsTaken, Verdict
<1>2. /\ Query(s) \in Queries /\ Query(s).session = s
  BY <1>1, TurnQueries DEF Types
<1>3. /\ grants' = spent.left /\ owed' = owed /\ allowed' = allowed
      /\ turn' = [turn EXCEPT ![s].at = IF spent.found THEN "running" ELSE "listing",
                              ![s].verdict = IF spent.found THEN "allow_once" ELSE @]
  BY DEF Check, historyVars
<1>4. IsBag(grants, Grantings) /\ ReceiptsAreOfSessions(grants)
  BY GrantsAreOfSessions DEF Types, GrantTypes, Permissions
<1>5. /\ IsBag(grants', Grantings) /\ DOMAIN grants' \subseteq DOMAIN grants
      /\ \A x : x # r => Copies(x, grants') = Copies(x, grants)
      /\ spent.found => r \in DOMAIN grants /\ Copies(r, grants') = Copies(r, grants) - 1
      /\ ~spent.found => grants' = grants
  BY <1>1, <1>2, <1>3, <1>4, ConsumeTypes DEF Copies
<1> HIDE DEF spent, c
<1>6. \A x : Copies(x, grants) \in Nat /\ Copies(x, owed) \in Nat /\ Copies(x, owed') = Copies(x, owed)
  BY <1>3, BagsCount DEF Types, Copies
<1>7. \A x : Copies(x, grants') <= Copies(x, grants)
  <2>1. Copies(r, grants') <= Copies(r, grants)
    <3>1. Copies(r, grants) <= Copies(r, grants) /\ Copies(r, grants) - 1 <= Copies(r, grants)
      BY <1>6
    <3> QED
      BY <1>5, <3>1 DEF Copies
  <2> QED
    BY <1>5, <1>6, <2>1
<1>8. GrantTypes' /\ GrantsAreAllowed'
  BY <1>3, <1>5 DEF Permissions, GrantTypes, GrantsAreAllowed, PermitOf, Types
<1>9. ASSUME NEW i \in Ids, Quiet(i) PROVE Permitted(i)'
  BY <1>3, <1>7, <1>8, <1>9, QuietStep
<1>10. CASE ~spent.found
  <2>1. turn' = [turn EXCEPT ![s].at = "listing", ![s].verdict = turn[s].verdict]
    BY <1>1, <1>3, <1>10 DEF Types, TurnTypes, Turns
  <2>2. Moved(s, {"listing"}, {turn[s].verdict}) /\ Untouched(s)
    BY <1>1, <2>1, VerdictMoves DEF Types, Places
  <2>3. \A i \in Ids : Quiet(i)
    BY <2>2 DEF Quiet, EmptyHanded, Moved, Untouched, Places
  <2> QED
    BY <1>8, <1>9, <2>3 DEF Permissions
<1>11. CASE spent.found
  <2>1. turn' = [turn EXCEPT ![s].at = "running", ![s].verdict = "allow_once"]
    BY <1>3, <1>11
  <2>2. Moved(s, {"running"}, {"allow_once"}) /\ Untouched(s)
    BY <1>1, <2>1, VerdictMoves DEF Types, Places
  <2>3. \A i \in Ids \ {s} : Permitted(i)'
    BY <1>9, <2>2 DEF Quiet, Untouched
  <2>4. ReceiptsAreOwed(s)'
    <3> SUFFICES ASSUME NEW d \in Calls
                 PROVE  Copies(Receipt(s, d), grants') + Held(s, d)' <= Copies(<<s, d>>, owed')
      BY DEF ReceiptsAreOwed
    <3>1. Copies(Receipt(s, d), grants) + Held(s, d) <= Copies(<<s, d>>, owed)
      BY DEF Permissions, Permitted, ReceiptsAreOwed
    <3>2. Held(s, d) = 0 /\ Held(s, d)' = IF d = c THEN 1 ELSE 0
      BY <1>1, <2>2 DEF Held, Carries, Moved, c
    <3>3. CASE d = c
      BY <1>5, <1>6, <1>11, <3>1, <3>2, <3>3
    <3>4. CASE d # c
      <4>1. Receipt(s, d) # r
        BY <3>4, ReceiptsDiffer
      <4> QED
        BY <1>5, <1>6, <3>1, <3>2, <3>4, <4>1
    <3> QED
      BY <3>3, <3>4
  <2>5. RunIsCovered(s)'
    <3>1. Copies(r, grants) >= 1
      BY <1>4, <1>5, <1>6, <1>11, CopiesAreCounted
    <3>2. Copies(r, grants) + Held(s, c) <= Copies(<<s, c>>, owed) /\ Held(s, c) \in 0..1
      BY <1>1 DEF Permissions, Permitted, ReceiptsAreOwed, Held, c
    <3>3. Copies(<<s, c>>, owed) # 0
      BY <1>6, <3>1, <3>2
    <3>4. <<s, c>> \in DOMAIN owed'
      BY <1>3, <3>3 DEF Copies
    <3> QED
      BY <2>2, <3>4 DEF RunIsCovered, Covered, BagIn, BagToSet, Moved, c
  <2>6. Permitted(s)'
    BY <2>2, <2>4, <2>5 DEF Permitted, CarriedIsAllowed, SpendingIsOwed, Carries, Moved
  <2> QED
    BY <1>8, <2>3, <2>6 DEF Permissions
<1> QED
  BY <1>10, <1>11

(* What a person allowed covers the call of the turn that was let go.      *)
LEMMA PermitCovers ==
  ASSUME TurnTypes, NEW s \in Ids, turn[s] # Idle, NEW d \in Standing,
         Permit(d, Query(s), turn[s].call.tool) \in allowed
  PROVE  Covered(s)
<1> DEFINE p == Permit(d, Query(s), turn[s].call.tool)
<1>1. /\ p.tool = turn[s].call.tool
      /\ p.scope = "session" => p.id = Query(s).session
      /\ p.scope = "workspace" => p.id = Query(s).workspace
  BY DEF Permit, Standing
<1> QED
  BY <1>1 DEF Covered

(* The turn's receipt goes to the store, or its standing grant.            *)
LEMMA StoreGrantStep ==
  ASSUME Types, Verdict, Permissions, NEW s \in Ids, StoreGrant(s)
  PROVE  Permissions'
<1> DEFINE c == turn[s].call
           v == turn[s].verdict
           g == GrantForDecision(v, Query(s), c)
           r == Receipt(s, c)
<1>1. /\ turn[s] # Idle /\ turn[s].at = "granting" /\ turn[s] \in Turns /\ c \in Calls
      /\ v \in Decided /\ ~turn[s].plan
  BY TurnIsRecord DEF StoreGrant, Idle, Types, CallIsTaken, Verdict, Decided
<1>2. /\ Query(s) \in Queries /\ Query(s).session = s
  BY <1>1, TurnQueries DEF Types
<1>3. /\ grants' = AddGrant(grants, g) /\ owed' = owed /\ allowed' = allowed
  BY DEF StoreGrant, historyVars
<1>4. /\ g \in Grantings
      /\ v = "allow_once" => g = r
      /\ v # "allow_once" => g.digest = None /\ PermitOf(g) = Permit(v, Query(s), c.tool)
      /\ g.scope = "global" => g.scopeId = None
  BY <1>1, <1>2, GrantForDecisionTypes
<1>5. \A x : Copies(x, grants) \in Nat /\ Copies(x, owed) \in Nat /\ Copies(x, owed') = Copies(x, owed)
  BY <1>3, BagsCount DEF Types, Copies
<1>6. IsBag(grants, Grantings)
  BY DEF Types, GrantTypes
<1>7. /\ IsBag(grants', Grantings) /\ DOMAIN grants' = DOMAIN grants \cup {g}
      /\ \A x : x # g => Copies(x, grants') = Copies(x, grants)
      /\ Copies(g, grants') <= Copies(g, grants) + 1
  <2> HIDE DEF g
  <2> QED
    BY <1>3, <1>4, <1>6, AddGrantTypes
<1>8. GrantTypes'
  BY <1>3, <1>7 DEF Types, GrantTypes
<1>9. Permitted(s)
  BY DEF Permissions
<1>10. \A i \in Ids \ {s} : turn'[i] = turn[i]
  BY <1>1, GoToMoves DEF StoreGrant, Untouched, Types, Places
<1>11. r.digest = c /\ r.scope = "session" /\ r.tool = c.tool /\ c # None
  BY <1>1, AbsentAssumption DEF Receipt, Grant
<1>12. v # "allow_once" => g # Receipt(s, c) /\ \A i \in Ids, d \in Calls : g # Receipt(i, d)
  <2>1. \A i \in Ids, d \in Calls : Receipt(i, d).digest # None
    BY AbsentAssumption DEF Receipt, Grant
  <2> QED
    BY <1>1, <1>4, <2>1
<1> HIDE DEF c, v, g
<1>13. ASSUME NEW i \in Ids, i # s PROVE Permitted(i)'
  <2>1. \A d \in Calls : Receipt(i, d) # g
    BY <1>4, <1>12, <1>13, ReceiptsDiffer
  <2>2. \A d \in Calls : Copies(Receipt(i, d), grants') <= Copies(Receipt(i, d), grants)
    BY <1>5, <1>7, <2>1
  <2> QED
    BY <1>3, <1>8, <1>10, <1>13, <2>2, QuietStep DEF Quiet
<1>14. CASE v = "allow_once"
  <2>1. GoTo(s, "spending")
    BY <1>14 DEF StoreGrant, v
  <2>2. Moved(s, {"spending"}, {v})
    BY <1>1, <2>1, GoToMoves DEF Types, Places, v
  <2>3. GrantsAreAllowed'
    BY <1>3, <1>4, <1>7, <1>11, <1>14 DEF Permissions, GrantsAreAllowed, PermitOf
  <2>4. \A d \in Calls : Held(s, d)' = 0 /\ Held(s, d) = IF d = c THEN 1 ELSE 0
    BY <1>1, <1>14, <2>2 DEF Held, Carries, Moved, c, v
  <2>5. \A d \in Calls : Copies(Receipt(s, d), grants) + Held(s, d) <= Copies(<<s, d>>, owed)
    BY <1>9 DEF Permitted, ReceiptsAreOwed
  <2>6. ReceiptsAreOwed(s)'
    <3> SUFFICES ASSUME NEW d \in Calls
                 PROVE  Copies(Receipt(s, d), grants') + Held(s, d)' <= Copies(<<s, d>>, owed')
      BY DEF ReceiptsAreOwed
    <3>0. Copies(Receipt(s, d), grants') \in Nat
      BY <1>8, CopiesAreCounted DEF GrantTypes, Copies
    <3>1. CASE d = c
      BY <1>4, <1>5, <1>7, <1>14, <2>4, <2>5, <3>0, <3>1
    <3>2. CASE d # c
      <4>1. Receipt(s, d) # g
        BY <1>4, <1>14, <3>2, ReceiptsDiffer
      <4> QED
        BY <1>5, <1>7, <2>4, <2>5, <3>2, <4>1
    <3> QED
      BY <3>1, <3>2
  <2>7. <<s, c>> \in DOMAIN owed'
    <3>1. Copies(<<s, c>>, owed) # 0
      BY <1>1, <1>5, <2>4, <2>5
    <3> QED
      BY <1>3, <3>1 DEF Copies
  <2>8. Permitted(s)'
    BY <1>14, <2>2, <2>6, <2>7
    DEF Permitted, CarriedIsAllowed, SpendingIsOwed, RunIsCovered, Carries, Moved, c, v
  <2> QED
    BY <1>8, <1>13, <2>3, <2>8 DEF Permissions
<1>15. CASE v # "allow_once"
  <2>1. v \in Standing
    BY <1>1, <1>15 DEF Decided, Decisions, Standing
  <2>2. GoTo(s, "running")
    BY <1>15 DEF StoreGrant, v
  <2>3. Moved(s, {"running"}, {v})
    BY <1>1, <2>2, GoToMoves DEF Types, Places, v
  <2>4. Permit(v, Query(s), c.tool) \in allowed
    BY <1>1, <1>9, <2>1 DEF Permitted, CarriedIsAllowed, Carries, c, v
  <2>5. GrantsAreAllowed'
    BY <1>3, <1>4, <1>7, <1>15, <2>4 DEF Permissions, GrantsAreAllowed, PermitOf
  <2>6. Covered(s)'
    <3>1. Covered(s)
      BY <1>1, <2>1, <2>4, PermitCovers DEF Types, c
    <3> QED
      BY <1>3, <2>3, <3>1 DEF Covered, Query, Moved, c
  <2>7. \A d \in Calls : Held(s, d)' = 0 /\ Held(s, d) = 0
    BY <1>1, <1>15, <2>3 DEF Held, Carries, Moved, v
  <2>8. \A d \in Calls : Copies(Receipt(s, d), grants) + Held(s, d) <= Copies(<<s, d>>, owed)
    BY <1>9 DEF Permitted, ReceiptsAreOwed
  <2>9. ReceiptsAreOwed(s)'
    <3>1. \A d \in Calls : Copies(Receipt(s, d), grants') = Copies(Receipt(s, d), grants)
      BY <1>7, <1>12, <1>15
    <3> QED
      BY <1>5, <2>7, <2>8, <3>1 DEF ReceiptsAreOwed
  <2>10. Permitted(s)'
    BY <2>3, <2>6, <2>9 DEF Permitted, CarriedIsAllowed, SpendingIsOwed, RunIsCovered, Carries, Moved
  <2> QED
    BY <1>8, <1>13, <2>5, <2>10 DEF Permissions
<1> QED
  BY <1>14, <1>15

(* The receipt is taken out again, or was revoked: it is owed either way.  *)
LEMMA SpendStep ==
  ASSUME Types, Verdict, Permissions, NEW s \in Ids, Spend(s)
  PROVE  Permissions'
<1> DEFINE c == turn[s].call
           spent == ConsumeOnce(grants, Query(s), c)
           r == Receipt(s, c)
<1>1. /\ turn[s] # Idle /\ turn[s].at = "spending" /\ turn[s] \in Turns /\ c \in Calls
      /\ turn[s].verdict = "allow_once" /\ ~turn[s].plan /\ <<s, c>> \in DOMAIN owed
  BY TurnIsRecord
  DEF Spend, Idle, Types, CallIsTaken, Verdict, Permissions, Permitted, SpendingIsOwed
<1>2. /\ Query(s) \in Queries /\ Query(s).session = s
  BY <1>1, TurnQueries DEF Types
<1>3. /\ grants' = spent.left /\ owed' = owed /\ allowed' = allowed
  BY DEF Spend, historyVars
<1>4. Moved(s, {"running"}, {"allow_once"}) /\ Untouched(s)
  BY <1>1, GoToMoves DEF Spend, Types, Places, Moved
<1>5. IsBag(grants, Grantings) /\ ReceiptsAreOfSessions(grants)
  BY GrantsAreOfSessions DEF Types, GrantTypes, Permissions
<1>6. /\ IsBag(grants', Grantings) /\ DOMAIN grants' \subseteq DOMAIN grants
      /\ \A x : x # r => Copies(x, grants') = Copies(x, grants)
      /\ \/ Copies(r, grants') = Copies(r, grants) - 1
         \/ r \notin DOMAIN grants /\ grants' = grants
  BY <1>1, <1>2, <1>3, <1>5, ConsumeTypes DEF Copies
<1> HIDE DEF spent, c
<1>7. \A x : Copies(x, grants) \in Nat /\ Copies(x, owed) \in Nat /\ Copies(x, owed') = Copies(x, owed)
  BY <1>3, BagsCount DEF Types, Copies
<1>8. GrantTypes' /\ GrantsAreAllowed'
  BY <1>3, <1>6 DEF Permissions, GrantTypes, GrantsAreAllowed, PermitOf, Types
<1>9. ASSUME NEW i \in Ids, i # s PROVE Permitted(i)'
  <2>1. \A d \in Calls : Copies(Receipt(i, d), grants') <= Copies(Receipt(i, d), grants)
    BY <1>6, <1>7, <1>9, ReceiptsDiffer
  <2> QED
    BY <1>3, <1>4, <1>8, <1>9, <2>1, QuietStep DEF Quiet, Untouched
<1>10. ReceiptsAreOwed(s)'
  <2> SUFFICES ASSUME NEW d \in Calls
               PROVE  Copies(Receipt(s, d), grants') + Held(s, d)' <= Copies(<<s, d>>, owed')
    BY DEF ReceiptsAreOwed
  <2>1. Copies(Receipt(s, d), grants) + Held(s, d) <= Copies(<<s, d>>, owed)
    BY DEF Permissions, Permitted, ReceiptsAreOwed
  <2>2. Held(s, d) = 0 /\ Held(s, d)' = IF d = c THEN 1 ELSE 0
    BY <1>1, <1>4 DEF Held, Carries, Moved, c
  <2>3. CASE d = c
    <3>1. CASE Copies(r, grants') = Copies(r, grants) - 1
      BY <1>7, <2>1, <2>2, <2>3, <3>1
    <3>2. CASE r \notin DOMAIN grants /\ grants' = grants
      <4>1. Copies(r, grants') = 0
        BY <3>2 DEF Copies
      <4>2. Copies(<<s, c>>, owed) > 0
        BY <1>1, CopiesAreCounted DEF Types, GrantTypes
      <4> QED
        BY <1>7, <2>2, <2>3, <4>1, <4>2
    <3> QED
      BY <1>6, <3>1, <3>2
  <2>4. CASE d # c
    <3>1. Receipt(s, d) # r
      BY <2>4, ReceiptsDiffer
    <3> QED
      BY <1>6, <1>7, <2>1, <2>2, <2>4, <3>1
  <2> QED
    BY <2>3, <2>4
<1>11. RunIsCovered(s)'
  BY <1>1, <1>3, <1>4 DEF RunIsCovered, Covered, BagIn, BagToSet, Moved, c
<1>12. Permitted(s)'
  BY <1>4, <1>10, <1>11 DEF Permitted, CarriedIsAllowed, SpendingIsOwed, Carries, Moved
<1> QED
  BY <1>8, <1>9, <1>12 DEF Permissions

(* A call that runs on a receipt pays what was owed for it.                *)
LEMMA RunStep ==
  ASSUME Types, Verdict, Permissions, NEW s \in Ids, Run(s)
  PROVE  Permissions'
<1> DEFINE c == turn[s].call
           once == turn[s].verdict = "allow_once"
<1>1. /\ turn[s] # Idle /\ turn[s].at = "running" /\ turn[s] \in Turns /\ c \in Calls /\ ~turn[s].plan
  BY TurnIsRecord DEF Run, Idle, Types, CallIsTaken, Verdict
<1>2. /\ grants' = grants /\ allowed' = allowed
      /\ owed' = IF once THEN owed (-) SetToBag({<<s, c>>}) ELSE owed
  BY DEF Run
<1>3. Moved(s, {"storing"}, {turn[s].verdict}) /\ Untouched(s)
  BY <1>1, GoToMoves DEF Run, Types, Places
<1>4. \A x : /\ Copies(x, grants') = Copies(x, grants) /\ Copies(x, grants) \in Nat
             /\ Copies(x, owed) \in Nat
  BY <1>2, BagsCount DEF Types, Copies
<1>5. IsBag(owed, Ids \X Calls)
  BY DEF Types, GrantTypes
<1>6. \A d \in Calls :
        /\ Copies(Receipt(s, d), grants) + Held(s, d) <= Copies(<<s, d>>, owed)
        /\ Held(s, d) = (IF once /\ d = c THEN 1 ELSE 0) /\ Held(s, d)' = 0
  BY <1>1, <1>3 DEF Permissions, Permitted, ReceiptsAreOwed, Held, Carries, Moved
<1> HIDE DEF c, once
<1>7. /\ IsBag(owed', Ids \X Calls)
      /\ \A x : Copies(x, owed') = Copies(x, owed) - (IF once /\ x = <<s, c>> THEN 1 ELSE 0)
  <2>1. CASE once
    <3>1. Copies(<<s, c>>, owed) > 0
      BY <1>1, <1>4, <1>6, <2>1
    <3>2. <<s, c>> \in DOMAIN owed
      BY <3>1, <1>5, CopiesAreCounted
    <3> QED
      BY <1>2, <1>5, <2>1, <3>2, BagDropsOne DEF Copies
  <2>2. CASE ~once
    BY <1>2, <1>4, <1>5, <2>2 DEF Copies
  <2> QED
    BY <2>1, <2>2
<1>8. GrantTypes' /\ GrantsAreAllowed'
  BY <1>2, <1>7 DEF Permissions, GrantTypes, GrantsAreAllowed, PermitOf, Types
<1>9. ASSUME NEW i \in Ids, i # s PROVE Permitted(i)'
  <2>1. Quiet(i)
    BY <1>3, <1>9 DEF Quiet, Untouched
  <2>2. ASSUME NEW d \in Calls
        PROVE  /\ Copies(Receipt(i, d), grants') <= Copies(Receipt(i, d), grants)
               /\ Copies(<<i, d>>, owed) <= Copies(<<i, d>>, owed')
    BY <1>4, <1>7, <1>9
  <2> QED
    BY <1>2, <1>8, <2>1, <2>2, OtherSession
<1>10. ReceiptsAreOwed(s)'
  <2> SUFFICES ASSUME NEW d \in Calls
               PROVE  Copies(Receipt(s, d), grants') + Held(s, d)' <= Copies(<<s, d>>, owed')
    BY DEF ReceiptsAreOwed
  <2> QED
    BY <1>4, <1>6, <1>7
<1>11. Permitted(s)'
  BY <1>3, <1>10 DEF Permitted, CarriedIsAllowed, SpendingIsOwed, RunIsCovered, Carries, Moved
<1> QED
  BY <1>8, <1>9, <1>11 DEF Permissions

-----------------------------------------------------------------------------
(* Every step, and the start.                                              *)
LEMMA PermissionsStep ==
  ASSUME Types, GatesAreNumbered, Verdict, Permissions, [Next]_vars
  PROVE  Permissions'
<1>1. CASE \E q \in Requests : DeleteGrants(q)
  BY <1>1, DeleteGrantsStep
<1>2. CASE \E q \in Requests : Decide(q)
  BY <1>2, DecideStep
<1>3. CASE \E q \in Requests : DecidePlan(q)
  BY <1>3, DecidePlanStep
<1>4. CASE \E s \in Ids : Check(s)
  BY <1>4, CheckStep
<1>5. CASE \E s \in Ids : StoreGrant(s)
  BY <1>5, StoreGrantStep
<1>6. CASE \E s \in Ids : Spend(s)
  BY <1>6, SpendStep
<1>7. CASE \E s \in Ids : Run(s)
  BY <1>7, RunStep
<1> QED
  BY <1>1, <1>2, <1>3, <1>4, <1>5, <1>6, <1>7, GrantFrame, UncountedStep DEF GrantsChange

SessionsInv == Types /\ AskedMay /\ GatesAreNumbered /\ Verdict /\ Permissions

LEMMA SessionsInvInit ==
  ASSUME Init
  PROVE  SessionsInv
<1>1. RecordTypes
  <2>1. FirstPins \in Pins
    BY FirstPinsTypes
  <2>2. PICK place \in [made -> Workspaces \cup {None}] :
          records = [s \in Ids |-> IF s \in made THEN NewRecord(place[s], lastSet[s]) ELSE Gone]
    BY DEF Init
  <2>3. ASSUME NEW s \in Ids, s \in made PROVE NewRecord(place[s], lastSet[s]) \in Records
    BY <2>1, <2>3, NewRecordTypes DEF Init
  <2>4. made \subseteq Ids /\ lastSet \in [Ids -> Pins]
    BY <2>1, SessionsAssumption DEF Init
  <2> QED
    BY <2>2, <2>3, <2>4 DEF RecordTypes
<1>2. TurnTypes /\ RequestTypes /\ CallIsTaken /\ AskedMay /\ Verdict
  BY SessionsAssumption DEF Init, TurnTypes, RequestTypes, CallIsTaken, AskedMay, Verdict
<1>3. \A x : x \notin DOMAIN grants /\ x \notin DOMAIN owed
  BY DEF Init, NoGrants, EmptyBag, SetToBag
<1>4. GrantTypes /\ GrantsAreAllowed
  BY <1>3 DEF GrantTypes, GrantsAreAllowed, IsBag, Init, NoGrants, EmptyBag, SetToBag
<1>5. GatesAreNumbered
  BY DEF Init, GatesAreNumbered, Exists, NewRecord
<1>6. \A s \in Ids : Permitted(s)
  BY <1>3 DEF Init, Permitted, CarriedIsAllowed, ReceiptsAreOwed, SpendingIsOwed, RunIsCovered,
     Carries, Held, Copies
<1> QED
  BY <1>1, <1>2, <1>4, <1>5, <1>6 DEF SessionsInv, Types, Permissions

LEMMA SessionsInvStep ==
  ASSUME SessionsInv, [Next]_vars
  PROVE  SessionsInv'
<1> USE DEF SessionsInv
<1>1. RecordTypes' /\ TurnTypes' /\ CallIsTaken' /\ RequestTypes' /\ AskedMay'
  BY RecordTypesStep, TurnTypesStep, RequestTypesStep DEF Types
<1>2. GatesAreNumbered' /\ Verdict' /\ Permissions'
  BY GatesStep, VerdictStep, PermissionsStep
<1> QED
  BY <1>1, <1>2 DEF Types, Permissions

LEMMA SessionsInvHolds == Spec => []SessionsInv
BY SessionsInvInit, SessionsInvStep, PTL DEF Spec

(* Records, turns, requests and the store stay what their types say: no    *)
(* step writes a row, a gate or a count that the code could not have.      *)
THEOREM SessionsTypes == Spec => []Types
<1>1. SessionsInv => Types
  BY DEF SessionsInv
<1> QED
  BY <1>1, SessionsInvHolds, PTL

(* A call runs only if a person who may decide allowed the tool, or this   *)
(* very call once more than it has run, or if the rule of the tool let it  *)
(* run without asking when it was taken (grants.ts:11-13 and :138-144,     *)
(* turn-loop.ts:1465).                                                     *)
THEOREM RunsAreAllowed == Spec => []RunsAreCovered
<1>1. SessionsInv => RunsAreCovered
  BY DEF SessionsInv, Permissions, Permitted, RunIsCovered, RunsAreCovered
<1> QED
  BY <1>1, SessionsInvHolds, PTL

-----------------------------------------------------------------------------
(* What happens to a row: it is new, it goes, or what it is set to changes *)
(* as the person's choice does.                                            *)
SetAsChosen(s) ==
  \/ records'[s].pins = records[s].pins /\ lastSet'[s] = lastSet[s]
  \/ \E f \in Fields, v \in Values :
       /\ records'[s].pins = [records[s].pins EXCEPT ![f] = v]
       /\ lastSet'[s] = [lastSet[s] EXCEPT ![f] = v]

LEMMA RowStep ==
  ASSUME Types, [Next]_vars, NEW s \in Ids
  PROVE  \/ s \notin made /\ records'[s].pins = lastSet'[s]
         \/ records'[s] = Gone
         \/ Exists(s) /\ SetAsChosen(s)
<1> DEFINE Good == \/ s \notin made /\ records'[s].pins = lastSet'[s]
                   \/ records'[s] = Gone
                   \/ Exists(s) /\ SetAsChosen(s)
<1> USE DEF Types
<1>1. ASSUME records'[s] = records[s], lastSet'[s] = lastSet[s] PROVE Good
  BY <1>1 DEF Exists, SetAsChosen
<1>2. CASE Create
  <2>1. PICK i, ws, pins :
          /\ i \in Ids \ made
          /\ records' = [records EXCEPT ![i] = NewRecord(ws, pins)]
          /\ lastSet' = [lastSet EXCEPT ![i] = pins]
    BY <1>2 DEF Create
  <2>2. CASE i = s
    BY <2>1, <2>2 DEF RecordTypes, NewRecord
  <2>3. CASE i # s
    BY <1>1, <2>1, <2>3 DEF RecordTypes
  <2> QED
    BY <2>2, <2>3
<1>3. ASSUME NEW q \in Requests, DeleteRow(q) PROVE Good
  <2>1. lastSet' = lastSet /\ records' = [records EXCEPT ![Body(q).on] = Gone]
    BY <1>3 DEF DeleteRow, historyVars
  <2> QED
    BY <1>1, <2>1 DEF RecordTypes
<1>4. ASSUME NEW i \in Ids, NEW f \in Fields, NEW v \in Values, SetPin(i, f, v),
             lastSet' = IF Exists(i) THEN [lastSet EXCEPT ![i][f] = v] ELSE lastSet
      PROVE  Good
  <2>1. CASE ~Exists(i) \/ i # s
    BY <1>1, <1>4, <2>1, SetPinTypes DEF RecordTypes
  <2>2. CASE Exists(i) /\ i = s
    <3>1. records'[s].pins = [records[s].pins EXCEPT ![f] = v]
      BY <1>4, <2>2, SetPinTypes
    <3>2. lastSet' = [lastSet EXCEPT ![s][f] = v]
      BY <1>4, <2>2
    <3>3. lastSet'[s] = [lastSet[s] EXCEPT ![f] = v]
      BY <3>2 DEF RecordTypes
    <3> QED
      BY <2>2, <3>1, <3>3 DEF SetAsChosen
  <2> QED
    BY <2>1, <2>2
<1>5. ASSUME NEW q \in Requests, Set(q) PROVE Good
  <2>1. Body(q).on \in Ids /\ Body(q).field \in Fields /\ Body(q).value \in Values
    BY <1>5, BodyTypes DEF Set, At, Body
  <2> QED
    BY <1>1, <1>4, <1>5, <2>1 DEF Set
<1>6. ASSUME NEW i \in Ids, PinMode(i) PROVE Good
  <2>1. "mode" \in Fields
    BY SessionsAssumption
  <2> QED
    BY <1>1, <1>4, <1>6, <2>1 DEF PinMode
<1>7. ASSUME NEW q \in Requests, DecidePlan(q) PROVE Good
  <2> DEFINE i == Body(q).on
             m == IF Body(q).approve THEN AgentMode ELSE records[i].pins["mode"]
  <2>1. i \in Ids
    BY <1>7, BodyTypes DEF DecidePlan, At, Body
  <2>2. CASE UNCHANGED <<records, lastSet>>
    BY <1>1, <2>2
  <2>3. CASE ~UNCHANGED <<records, lastSet>>
    <3>1. /\ Exists(i)
          /\ records' = [records EXCEPT ![i].plan = None,
                                        ![i].pins["mode"] = IF Body(q).approve THEN AgentMode ELSE @]
          /\ lastSet' = [lastSet EXCEPT ![i]["mode"] = IF Body(q).approve THEN AgentMode ELSE @]
      BY <1>7, <2>3 DEF DecidePlan
    <3>2. records[i] \in Records /\ "mode" \in Fields
      BY <2>1, <3>1, SessionsAssumption DEF RecordTypes, Exists
    <3>3. /\ records'[i].pins = IF Body(q).approve THEN [records[i].pins EXCEPT !["mode"] = AgentMode]
                                ELSE records[i].pins
          /\ lastSet'[i] = IF Body(q).approve THEN [lastSet[i] EXCEPT !["mode"] = AgentMode]
                           ELSE lastSet[i]
      <4>1. records[i].pins \in Pins /\ lastSet[i] \in Pins
        BY <2>1, <3>2 DEF Records, RecordTypes
      <4>2. CASE Body(q).approve
        BY <2>1, <3>1, <3>2, <4>1, <4>2 DEF RecordTypes, Records
      <4>3. CASE ~Body(q).approve
        BY <2>1, <3>1, <3>2, <4>1, <4>3 DEF RecordTypes, Records, Pins
      <4> QED
        BY <4>2, <4>3
    <3>4. CASE i = s
      BY <3>1, <3>2, <3>3, <3>4, SessionsAssumption DEF SetAsChosen
    <3>5. CASE i # s
      BY <1>1, <2>1, <3>1, <3>5 DEF RecordTypes
    <3> QED
      BY <3>4, <3>5
  <2> QED
    BY <2>2, <2>3
<1>8. ASSUME NEW i \in Ids, Ask(i) \/ Resume(i) \/ StoreResult(i) PROVE Good
  <2>1. lastSet' = lastSet
    BY <1>8 DEF Ask, Resume, StoreResult, historyVars
  <2>2. CASE UNCHANGED records
    BY <1>1, <2>1, <2>2
  <2>3. CASE ~UNCHANGED records
    <3>1. PICK a, p : Exists(i) /\ Persist(i, a, p)
      BY <1>8, <2>3 DEF Ask, Resume, StoreResult
    <3>2. records[i] \in Records
      BY <3>1 DEF RecordTypes, Exists
    <3>3. records'[i].pins = records[i].pins /\ \A j \in Ids \ {i} : records'[j] = records[j]
      BY <3>1, <3>2 DEF Persist, RecordTypes, Records
    <3>4. CASE i = s
      BY <2>1, <3>1, <3>3, <3>4 DEF SetAsChosen
    <3> QED
      BY <1>1, <2>1, <3>3, <3>4
  <2> QED
    BY <2>2, <2>3
<1>9. CASE UNCHANGED <<records, lastSet, made>>
  BY <1>1, <1>9
<1> QED
  BY <1>2, <1>3, <1>5, <1>6, <1>7, <1>8, <1>9, RecordFrame DEF RecordsChange

LEMMA PinsStep ==
  ASSUME Types, PinsAreLastSet, [Next]_vars
  PROVE  PinsAreLastSet'
<1> SUFFICES ASSUME NEW s \in Ids, Exists(s)' PROVE records'[s].pins = lastSet'[s]
  BY DEF PinsAreLastSet
<1>1. CASE s \notin made /\ records'[s].pins = lastSet'[s]
  BY <1>1
<1>2. CASE Exists(s) /\ SetAsChosen(s)
  <2>1. records[s].pins = lastSet[s]
    BY <1>2 DEF PinsAreLastSet
  <2>2. CASE records'[s].pins = records[s].pins /\ lastSet'[s] = lastSet[s]
    BY <2>1, <2>2
  <2>3. ASSUME NEW f \in Fields, NEW v \in Values,
               records'[s].pins = [records[s].pins EXCEPT ![f] = v],
               lastSet'[s] = [lastSet[s] EXCEPT ![f] = v]
        PROVE  records'[s].pins = lastSet'[s]
    BY <2>1, <2>3
  <2> QED
    BY <1>2, <2>2, <2>3 DEF SetAsChosen
<1> QED
  BY <1>1, <1>2, RowStep DEF Exists

(* A session keeps what was last asked for, whatever its turn writes and   *)
(* whichever routes and decisions interleave (applyTurnPatch).             *)
THEOREM PinsStay == Spec => []PinsAreLastSet
<1>1. Init => PinsAreLastSet
  BY DEF Init, PinsAreLastSet, Exists, NewRecord
<1>2. SessionsInv /\ PinsAreLastSet /\ [Next]_vars => PinsAreLastSet'
  BY PinsStep DEF SessionsInv
<1> QED
  BY <1>1, <1>2, SessionsInvHolds, PTL DEF Spec

(* No step writes the row of a session that was deleted.                   *)
THEOREM DeletedIsGone == Spec => DeletedStaysGone
<1>1. SessionsInv /\ [Next]_vars => [\A s \in made : ~Exists(s) => records'[s] = Gone]_vars
  BY RowStep DEF SessionsInv, Types, RecordTypes
<1> QED
  BY <1>1, SessionsInvHolds, PTL DEF Spec, DeletedStaysGone

LEMMA MemoryFrame ==
  ASSUME [Next]_vars
  PROVE  /\ \/ UNCHANGED memory
            \/ \E q \in Requests : EditMemory(q)
            \/ \E s \in Ids : Run(s)
         /\ UNCHANGED rules \/ \E q \in Requests : SetRule(q)
BY DEF Next, RequestStep, TurnStep, vars, storeVars, Create, Arrive, DeleteRow, DeleteGrants, Set,
       EditMemory, SetRule, Find, Cancel, Ended, Decide, DecidePlan, Begin, PinMode, Stop, Take,
       Check, List, Ask, Resume, StoreGrant, Spend, Run, StoreResult

(* Memory changes by an administrator's memory request, or by a call that  *)
(* was allowed or needed no permission under the rules of the tools, which *)
(* only an administrator changes (builtin-memory-tools.ts, auth.ts:64-71,  *)
(* turn-loop.ts:1465).                                                     *)
THEOREM MemoryIsSafe == Spec => MemoryIsGuarded
<1> DEFINE Asking(kind) == \E q \in Requests : AdministeredBy(q, kind)
           Calling == \E s \in Ids : LetRun(s)
<1>1. ASSUME SessionsInv, NEW q \in Requests, NEW kind \in {"memory", "rule"},
             At(q, "admitted", kind), Reply(q)
      PROVE  AdministeredBy(q, kind)
  <2>1. req'[q] = Done
    BY <1>1 DEF Reply, SessionsInv, Types, RequestTypes
  <2>2. HasCapability(req[q].by, "administer")
    BY <1>1 DEF At, SessionsInv, AskedMay, Required
  <2> QED
    BY <1>1, <2>1, <2>2 DEF AdministeredBy
<1>2. ASSUME NEW q \in Requests
      PROVE  /\ EditMemory(q) => At(q, "admitted", "memory") /\ Reply(q)
             /\ SetRule(q) => At(q, "admitted", "rule") /\ Reply(q)
  BY DEF EditMemory, SetRule
<1>3. ASSUME SessionsInv, NEW s \in Ids, Run(s) PROVE LetRun(s)
  <2>1. turn[s] # Idle /\ turn[s].at = "running"
    BY <1>3 DEF Run, Idle
  <2> QED
    BY <1>3, <2>1 DEF SessionsInv, Permissions, Permitted, RunIsCovered, LetRun
<1>4. ASSUME SessionsInv, [Next]_vars
      PROVE  /\ memory' # memory => Asking("memory") \/ Calling
             /\ rules' # rules => Asking("rule")
  BY <1>1, <1>2, <1>3, <1>4, MemoryFrame
<1>5. SessionsInv /\ [Next]_vars =>
        [/\ memory' # memory => Asking("memory") \/ Calling
         /\ rules' # rules => Asking("rule")]_vars
  BY <1>4
<1> QED
  BY <1>5, SessionsInvHolds, PTL DEF Spec, MemoryIsGuarded
=============================================================================
