----------------------------- MODULE TurnGates -----------------------------
(***************************************************************************)
(* How a turn waits for people: the gates and tool calls of executeTurn,   *)
(* the routes that decide them (core/src/turn-loop.ts), the waiters they   *)
(* meet at (core/src/gate-waiters.ts), and the grants they leave behind    *)
(* (core/src/grants.ts), for one session and one gated call.               *)
(*                                                                         *)
(* A gate exists twice: as a pending row of the stored record, which the   *)
(* routes look up and a restart keeps, and as a waiter in memory, which    *)
(* holds the turn.  The turn and each route call are processes that        *)
(* interleave at every await.  Turns come one after the other, which is    *)
(* what TurnAdmission shows, and a locked read-modify-write of the record  *)
(* is one step, which is what SessionCache shows; a plan or mode-switch    *)
(* decision holds the record's lock over several.                          *)
(***************************************************************************)
EXTENDS Naturals, FiniteSets

CONSTANTS Decisions,    \* calls of the decision routes
          Modes,        \* mode ids; plan approval writes "agent"
          MaxTurns,     \* bound: turns started
          MaxGates,     \* bound: gated calls of all turns
          MaxCrashes,   \* bound: restarts of the process
          NoGate,       \* no gate
          NoCall        \* the record's lock is free

ASSUME GatesAssumption ==
  /\ "agent" \in Modes
  /\ MaxTurns \in Nat /\ MaxGates \in Nat /\ MaxCrashes \in Nat
  /\ NoCall \notin Decisions

Kinds == {"tool", "plan", "mode_switch", "ask_user"}
Gates == [kind : Kinds, id : 1..MaxGates]

ASSUME NoGateAssumption == NoGate \notin Gates

VARIABLES at,         \* where the live turn is in executeTurn
          aborted,    \* its signal
          gate,       \* the gate of the call it works on, or NoGate
          answer,     \* how its waiter was settled
          snapshot,   \* the pending rows and mode it read last
          waiters,    \* the open waiters of the registry
          rows,       \* record.pending
          mode,       \* record.mode
          receipts,   \* one-shot receipts stored for the gated call
          standing,   \* whether a standing grant covers the tool
          lock,       \* the decision whose section holds the record
          stage,      \* where a decision call is
          deciding,   \* the gate a decision call found pending
          verdict,    \* what it decides
          turns, opened, crashes,   \* counters for the bounds
          lastMode,   \* history: the mode the last sanctioned writer wrote
          accepted,   \* history: the gates whose approval was accepted
          minted,     \* history: the plans that receipts were minted for, by whom
          ran         \* history: the gated calls that ran

turnVars == <<at, aborted, gate, answer, snapshot>>
recordVars == <<rows, mode>>
grantVars == <<receipts, standing>>
decisionVars == <<lock, stage, deciding, verdict>>
boundVars == <<turns, opened, crashes>>
historyVars == <<lastMode, accepted, minted, ran>>
vars == <<turnVars, waiters, recordVars, grantVars, decisionVars, boundVars, historyVars>>

Unread == [rows |-> {}, mode |-> "agent"]   \* no snapshot is in scope

Places == {"idle", "pinning", "preparing", "round", "streaming", "calls", "checking",
           "listing", "reading", "raising", "waiting", "clearing", "removing", "granting",
           "spending", "invoking", "running", "finishing", "ending"}
Verdicts == {"approve", "allow_session", "deny"}   \* approve: allow_once, or an answer
Answers == Verdicts \cup {"none", "rejected"}
DecisionStages == {"new", "found", "minting", "moding", "clearing", "resolving",
                   "accepted", "refused", "lost"}

TypeOK ==
  /\ at \in Places /\ aborted \in BOOLEAN
  /\ gate \in Gates \cup {NoGate} /\ answer \in Answers
  /\ snapshot \in [rows : SUBSET Gates, mode : Modes]
  /\ waiters \subseteq Gates /\ rows \subseteq Gates /\ mode \in Modes
  /\ receipts \in Nat /\ standing \in BOOLEAN
  /\ lock \in Decisions \cup {NoCall}
  /\ stage \in [Decisions -> DecisionStages]
  /\ deciding \in [Decisions -> Gates \cup {NoGate}]
  /\ verdict \in [Decisions -> Verdicts]
  /\ turns \in 0..MaxTurns /\ opened \in 0..MaxGates /\ crashes \in 0..MaxCrashes
  /\ lastMode \in Modes /\ accepted \subseteq Gates
  /\ minted \subseteq Gates \X Decisions /\ ran \subseteq Gates

Init ==
  /\ at = "idle" /\ aborted = FALSE /\ gate = NoGate /\ answer = "none"
  /\ mode \in Modes /\ lastMode = mode
  /\ snapshot = Unread
  /\ waiters = {} /\ rows = {}
  /\ receipts = 0 /\ standing = FALSE
  /\ lock = NoCall
  /\ stage = [d \in Decisions |-> "new"]
  /\ deciding = [d \in Decisions |-> NoGate]
  /\ verdict = [d \in Decisions |-> "deny"]
  /\ turns = 0 /\ opened = 0 /\ crashes = 0
  /\ accepted = {} /\ minted = {} /\ ran = {}

-----------------------------------------------------------------------------
(* The turn.                                                               *)

RecordFree == lock = NoCall
GoTo(place) == at' = place

(* executeTurn loads the record of the session ...                         *)
BeginTurn ==
  /\ at = "idle" /\ turns < MaxTurns /\ RecordFree
  /\ GoTo("pinning") /\ turns' = turns + 1
  /\ UNCHANGED <<aborted, gate, answer, snapshot, waiters, recordVars, grantVars,
                 decisionVars, opened, crashes, historyVars>>

(* ... and writes the mode of the send into it.                            *)
PinMode ==
  /\ at = "pinning" /\ RecordFree
  /\ \E m \in Modes : mode' = m /\ lastMode' = m
  /\ GoTo("preparing")
  /\ UNCHANGED <<aborted, gate, answer, snapshot, waiters, rows, grantVars, decisionVars,
                 boundVars, accepted, minted, ran>>

(* It pins the turn, picks the provider and stores the user's messages;    *)
(* with no provider, or when a reference fails to resolve, it is over.     *)
Prepare ==
  /\ at = "preparing" /\ RecordFree
  /\ \E next \in {"round", "ending"} : GoTo(next)
  /\ UNCHANGED <<aborted, gate, answer, snapshot, waiters, recordVars, grantVars,
                 decisionVars, boundVars, historyVars>>

(* The head of the loop: a turn told to stop stops here.                   *)
StartRound ==
  /\ at = "round"
  /\ GoTo(IF aborted THEN "finishing" ELSE "streaming")
  /\ UNCHANGED <<aborted, gate, answer, snapshot, waiters, recordVars, grantVars,
                 decisionVars, boundVars, historyVars>>

(* The provider's stream ends: cancelled, or with an answer or a failure,  *)
(* which is stored and ends the turn, or with tool calls, which are stored *)
(* and carried out.  An abort that no stream event meets goes unnoticed,   *)
(* and a stream that runs into its timeout counts as cancelled.            *)
StreamEnds ==
  /\ at = "streaming"
  /\ \/ GoTo("finishing")
     \/ RecordFree /\ \E next \in {"ending", "calls"} : GoTo(next)
  /\ UNCHANGED <<aborted, gate, answer, snapshot, waiters, recordVars, grantVars,
                 decisionVars, boundVars, historyVars>>

(* The head of the loop over the tool calls of a round.  A call that needs *)
(* nobody, or is refused at once, runs and comes back here.                *)
CallsOver ==
  /\ at = "calls"
  /\ GoTo(IF aborted THEN "finishing" ELSE "round")
  /\ UNCHANGED <<aborted, gate, answer, snapshot, waiters, recordVars, grantVars,
                 decisionVars, boundVars, historyVars>>

TakeCall(kind) ==
  /\ at = "calls" /\ ~aborted
  /\ opened < MaxGates
  /\ opened' = opened + 1
  /\ gate' = [kind |-> kind, id |-> opened + 1]
  /\ GoTo(IF kind = "tool" THEN "checking" ELSE "reading")
  /\ UNCHANGED <<aborted, answer, snapshot, waiters, recordVars, grantVars, decisionVars,
                 turns, crashes, historyVars>>

(* resolveGrant: a receipt is spent if there is one ...                    *)
ConsumeReceipt ==
  /\ at = "checking"
  /\ IF receipts > 0
     THEN receipts' = receipts - 1 /\ GoTo("invoking")
     ELSE UNCHANGED receipts /\ GoTo("listing")
  /\ UNCHANGED <<aborted, gate, answer, snapshot, waiters, recordVars, standing,
                 decisionVars, boundVars, historyVars>>

(* ... and a standing grant looked for if not.                             *)
ListGrants ==
  /\ at = "listing"
  /\ GoTo(IF standing THEN "invoking" ELSE "reading")
  /\ UNCHANGED <<aborted, gate, answer, snapshot, waiters, recordVars, grantVars,
                 decisionVars, boundVars, historyVars>>

(* Every gate reads the record, outside the record's lock ...              *)
ReadRecord ==
  /\ at \in {"reading", "clearing"} /\ RecordFree
  /\ snapshot' = [rows |-> rows, mode |-> mode]
  /\ GoTo(IF at = "reading" THEN "raising" ELSE "removing")
  /\ UNCHANGED <<aborted, gate, answer, waiters, recordVars, grantVars, decisionVars,
                 boundVars, historyVars>>

(* The rows with a gate added: there is one slot for each kind, and a list *)
(* for tool approvals.                                                     *)
With(old, g) == {r \in old : r.kind = "tool" \/ r.kind # g.kind} \cup {g}

(* Mutant: the rows of the snapshot are stored as they were.               *)
StorePendingStale(new) == rows' = snapshot.rows /\ UNCHANGED mode

(* persist(): only the fields the turn owns, and never the mode.           *)
StorePending(new) == rows' = new /\ UNCHANGED mode

(* Mutant: a waiter that opens after the abort waits.                      *)
RaiseGateDeaf ==
  /\ at = "raising" /\ RecordFree
  /\ StorePending(With(snapshot.rows, gate))
  /\ answer' = "none" /\ waiters' = waiters \cup {gate}
  /\ GoTo("waiting") /\ snapshot' = Unread
  /\ UNCHANGED <<aborted, gate, grantVars, decisionVars, boundVars, historyVars>>

(* ... then writes the rows it read back with its own, opens the waiter    *)
(* and waits (awaitApproval, runPlanGate, runModeSwitchGate and            *)
(* runAskUserGate alike).  Nobody's decision gets in between, for a route  *)
(* has to read the record first.  A signal already aborted rejects the     *)
(* waiter at once.                                                         *)
RaiseGate ==
  /\ at = "raising" /\ RecordFree
  /\ StorePending(With(snapshot.rows, gate))
  /\ IF aborted
     THEN answer' = "rejected" /\ UNCHANGED waiters
     ELSE answer' = "none" /\ waiters' = waiters \cup {gate}
  /\ GoTo("waiting") /\ snapshot' = Unread
  /\ UNCHANGED <<aborted, gate, grantVars, decisionVars, boundVars, historyVars>>

(* The turn resumes.  A tool approval takes its row away however it ended, *)
(* an answer to the user's question does; the rows of the other gates are  *)
(* cleared by the decision or by finishCancelled.                          *)
Resume ==
  /\ at = "waiting" /\ answer # "none"
  /\ GoTo(CASE gate.kind = "tool" -> "clearing"
            [] answer = "rejected" -> "finishing"
            [] gate.kind = "ask_user" -> "clearing"
            [] OTHER -> "calls")
  /\ UNCHANGED <<aborted, gate, answer, snapshot, waiters, recordVars, grantVars,
                 decisionVars, boundVars, historyVars>>

RemoveRow ==
  /\ at = "removing" /\ RecordFree
  /\ IF gate \in snapshot.rows
     THEN StorePending(snapshot.rows \ {gate})
     ELSE UNCHANGED recordVars
  /\ GoTo(CASE answer = "rejected" -> "finishing"
            [] gate.kind = "tool" /\ answer # "deny" -> "granting"
            [] OTHER -> "calls")
  /\ snapshot' = Unread
  /\ UNCHANGED <<aborted, gate, answer, waiters, grantVars, decisionVars, boundVars,
                 historyVars>>

(* awaitApproval records the grant the decision implies ...                *)
RecordGrant ==
  /\ at = "granting"
  /\ IF answer = "approve"
     THEN receipts' = receipts + 1 /\ UNCHANGED standing /\ GoTo("spending")
     ELSE standing' = TRUE /\ UNCHANGED receipts /\ GoTo("invoking")
  /\ UNCHANGED <<aborted, gate, answer, snapshot, waiters, recordVars, decisionVars,
                 boundVars, historyVars>>

(* Mutant: the receipt just written is left behind.                        *)
SpendNothing ==
  /\ at = "spending"
  /\ GoTo("invoking")
  /\ UNCHANGED <<aborted, gate, answer, snapshot, waiters, recordVars, grantVars,
                 decisionVars, boundVars, historyVars>>

(* ... and spends the receipt of an allow_once itself.                     *)
SpendOwnReceipt ==
  /\ at = "spending"
  /\ receipts' = IF receipts > 0 THEN receipts - 1 ELSE 0
  /\ GoTo("invoking")
  /\ UNCHANGED <<aborted, gate, answer, snapshot, waiters, recordVars, standing,
                 decisionVars, boundVars, historyVars>>

(* invokeTool calls the handler, also when the signal is aborted by now.   *)
InvokeTool ==
  /\ at = "invoking"
  /\ GoTo("running") /\ ran' = ran \cup {gate}
  /\ UNCHANGED <<aborted, gate, answer, snapshot, waiters, recordVars, grantVars,
                 decisionVars, boundVars, lastMode, accepted, minted>>

(* The handler returns or fails, which is a result like any other, unless  *)
(* it fails after the abort, or with an AbortError of its own.             *)
ToolReturns ==
  /\ at = "running"
  /\ \/ RecordFree /\ GoTo("calls")
     \/ GoTo("finishing")
  /\ UNCHANGED <<aborted, gate, answer, snapshot, waiters, recordVars, grantVars,
                 decisionVars, boundVars, historyVars>>

(* finishCancelled stores what was produced and clears every pending row.  *)
FinishCancelled ==
  /\ at = "finishing" /\ RecordFree
  /\ StorePending({})
  /\ GoTo("ending")
  /\ UNCHANGED <<aborted, gate, answer, snapshot, waiters, grantVars, decisionVars,
                 boundVars, historyVars>>

(* The terminal event is taken and runTurn's finally block runs.           *)
EndTurn ==
  /\ at = "ending"
  /\ GoTo("idle") /\ aborted' = FALSE /\ gate' = NoGate /\ answer' = "none"
  /\ waiters' = {}
  /\ UNCHANGED <<snapshot, recordVars, grantVars, decisionVars, boundVars, historyVars>>

TurnStep ==
  \/ PinMode \/ Prepare \/ StartRound \/ StreamEnds \/ CallsOver
  \/ \E kind \in Kinds : TakeCall(kind)
  \/ ConsumeReceipt \/ ListGrants \/ ReadRecord \/ RaiseGate \/ Resume \/ RemoveRow
  \/ RecordGrant \/ SpendOwnReceipt \/ InvokeTool \/ ToolReturns
  \/ FinishCancelled \/ EndTurn

-----------------------------------------------------------------------------
(* What others do to the turn and the session.                             *)

(* cancel(), of the operator or a follow-up, or the request's own signal.  *)
Cancel ==
  /\ at # "idle"
  /\ aborted' = TRUE
  /\ waiters' = {}
  /\ answer' = IF waiters # {} THEN "rejected" ELSE answer
  /\ UNCHANGED <<at, gate, snapshot, recordVars, grantVars, decisionVars, boundVars,
                 historyVars>>

(* setMode: an explicit choice of the person.                              *)
SetMode(m) ==
  /\ RecordFree
  /\ mode' = m /\ lastMode' = m
  /\ UNCHANGED <<turnVars, waiters, rows, grantVars, decisionVars, boundVars, accepted,
                 minted, ran>>

(* The process dies and starts again: what is not stored is gone.          *)
Crash ==
  /\ crashes < MaxCrashes
  /\ crashes' = crashes + 1
  /\ at' = "idle" /\ aborted' = FALSE /\ gate' = NoGate /\ answer' = "none"
  /\ waiters' = {} /\ lock' = NoCall /\ snapshot' = Unread
  /\ stage' = [d \in Decisions |->
                 IF stage[d] \in {"new", "accepted", "refused"} THEN stage[d] ELSE "lost"]
  /\ UNCHANGED <<recordVars, grantVars, deciding, verdict, turns, opened, historyVars>>

-----------------------------------------------------------------------------
(* The decision routes.                                                    *)

Reach(d, where) == stage' = [stage EXCEPT ![d] = where]
Names(d, g, v) ==
  deciding' = [deciding EXCEPT ![d] = g] /\ verdict' = [verdict EXCEPT ![d] = v]

(* Nothing of the kind is pending: GateNotFoundError.                      *)
NothingPending(d) ==
  /\ stage[d] = "new" /\ RecordFree
  /\ \E kind \in Kinds : \A r \in rows : r.kind # kind
  /\ Reach(d, "refused")
  /\ UNCHANGED <<turnVars, waiters, recordVars, grantVars, lock, deciding, verdict,
                 boundVars, historyVars>>

(* decideToolApproval and answerAskUser look the row up, with no lock ...  *)
FindRow(d) ==
  /\ stage[d] = "new" /\ RecordFree
  /\ \E g \in rows, v \in Verdicts :
       /\ g.kind \in {"tool", "ask_user"} /\ (g.kind = "ask_user" => v = "approve")
       /\ Names(d, g, v)
  /\ Reach(d, "found")
  /\ UNCHANGED <<turnVars, waiters, recordVars, grantVars, lock, boundVars, historyVars>>

(* resolve(): the waiter, if it is open, is settled once.                  *)
Deliver(d) ==
  IF deciding[d] \in waiters
  THEN /\ waiters' = waiters \ {deciding[d]}
       /\ answer' = verdict[d]
       /\ accepted' = IF verdict[d] = "deny" THEN accepted ELSE accepted \cup {deciding[d]}
       /\ Reach(d, "accepted")
  ELSE Reach(d, "refused") /\ UNCHANGED <<waiters, answer, accepted>>

(* ... then settle the waiter.                                             *)
SettleFound(d) ==
  /\ stage[d] = "found"
  /\ Deliver(d)
  /\ UNCHANGED <<at, aborted, gate, snapshot, recordVars, grantVars, lock, deciding,
                 verdict, boundVars, lastMode, minted, ran>>

AfterFinding(g, v) ==
  CASE v = "deny" -> "clearing" [] g.kind = "plan" -> "minting" [] OTHER -> "moding"

(* Mutant: the section runs without the lock (a store with no cache).      *)
EnterUnlocked(d) ==
  /\ stage[d] = "new"
  /\ \E g \in rows, v \in {"approve", "deny"} :
       /\ g.kind \in {"plan", "mode_switch"}
       /\ Names(d, g, v)
       /\ Reach(d, AfterFinding(g, v))
  /\ UNCHANGED <<turnVars, waiters, recordVars, grantVars, lock, boundVars, historyVars>>

(* decidePlan and decideModeSwitch take the record's lock and then look up *)
(* whatever row of the kind is pending ...                                 *)
EnterSection(d) ==
  /\ stage[d] = "new" /\ RecordFree
  /\ \E g \in rows, v \in {"approve", "deny"} :
       /\ g.kind \in {"plan", "mode_switch"}
       /\ Names(d, g, v)
       /\ Reach(d, AfterFinding(g, v))
  /\ lock' = d
  /\ UNCHANGED <<turnVars, waiters, recordVars, grantVars, boundVars, historyVars>>

(* ... mint the receipt of the plan's step (a plan here names one call) ...*)
MintReceipt(d) ==
  /\ stage[d] = "minting"
  /\ receipts' = receipts + 1
  /\ minted' = minted \cup {<<deciding[d], d>>}
  /\ Reach(d, "moding")
  /\ UNCHANGED <<turnVars, waiters, recordVars, standing, lock, deciding, verdict,
                 boundVars, lastMode, accepted, ran>>

(* ... write the mode ...                                                  *)
WriteMode(d) ==
  /\ stage[d] = "moding"
  /\ \E m \in Modes :
       /\ deciding[d].kind = "plan" => m = "agent"
       /\ mode' = m /\ lastMode' = m
  /\ Reach(d, "clearing")
  /\ UNCHANGED <<turnVars, waiters, rows, grantVars, lock, deciding, verdict, boundVars,
                 accepted, minted, ran>>

(* ... clear the row ...                                                   *)
ClearRow(d) ==
  /\ stage[d] = "clearing"
  /\ rows' = {r \in rows : r.kind # deciding[d].kind}
  /\ Reach(d, "resolving")
  /\ UNCHANGED <<turnVars, waiters, mode, grantVars, lock, deciding, verdict, boundVars,
                 historyVars>>

(* ... and only then settle the waiter, which may be gone by now: the      *)
(* caller is told there is no such gate.                                   *)
SettleLocked(d) ==
  /\ stage[d] = "resolving"
  /\ Deliver(d)
  /\ lock' = NoCall
  /\ UNCHANGED <<at, aborted, gate, snapshot, recordVars, grantVars, deciding, verdict,
                 boundVars, lastMode, minted, ran>>

Proceed(d) ==
  SettleFound(d) \/ MintReceipt(d) \/ WriteMode(d) \/ ClearRow(d) \/ SettleLocked(d)

Next ==
  \/ BeginTurn \/ TurnStep \/ Cancel \/ Crash
  \/ \E m \in Modes : SetMode(m)
  \/ \E d \in Decisions : NothingPending(d) \/ FindRow(d) \/ EnterSection(d) \/ Proceed(d)

Spec == Init /\ [][Next]_vars

(* The turn's awaits return: the store's, the provider's, which has a      *)
(* timeout and the signal, and the handler's, which has the signal.  A     *)
(* route call that has begun goes on.  Nobody has to decide a gate.        *)
FairSpec ==
  /\ Spec
  /\ WF_vars(TurnStep)
  /\ \A d \in Decisions : WF_vars(Proceed(d))

-----------------------------------------------------------------------------
(* A waiter that is open is the one the live turn waits at, unanswered,    *)
(* and the turn has not been told to stop: a decision can only ever resume *)
(* the very call it was asked about.                                       *)
WaiterHoldsTheTurn ==
  \A g \in waiters : at = "waiting" /\ gate = g /\ answer = "none" /\ ~aborted

(* A turn never waits at a gate nobody can find: an open waiter has its    *)
(* pending row, but for the moment in which the decision that cleared the  *)
(* row is about to settle the waiter.                                      *)
OpenGateIsPending ==
  \A g \in waiters :
    g \in rows \/ \E d \in Decisions : stage[d] = "resolving" /\ deciding[d] = g

Approved(kind) == {g \in accepted : g.kind = kind}

(* While no standing grant covers the tool, a gated call only runs on an   *)
(* approval of its own or on a receipt of an approved plan, each of which  *)
(* serves once: also when turns are cancelled or the process restarts      *)
(* between the steps of an approval.                                       *)
RunsAreAuthorized ==
  ~standing =>
    Cardinality(ran) + receipts <= Cardinality(Approved("tool")) + Cardinality(minted)

(* But for a restart, a plan's receipts are minted once, however many      *)
(* people approve it at a time.                                            *)
PlanMintsOnce ==
  crashes = 0 => \A p, q \in minted : p[1] = q[1] => p = q

(* The session's mode is what the last of its sanctioned writers wrote:    *)
(* the send, the person, an approved plan or mode switch.  No turn that    *)
(* stores its output meanwhile reverts it.                                 *)
ModeIsLastWritten == mode = lastMode

(* What TurnAdmission takes for granted of the turn it admits.             *)
Life == INSTANCE TurnLife WITH
  told <- aborted,
  life <- CASE at = "idle" -> "none"
            [] at = "ending" -> "ending"
            [] waiters # {} -> "waiting"
            [] OTHER -> "working"

ImplementsTurnLife == Life!Spec

(* A turn told to stop is over in the end, wherever the abort meets it.    *)
CancelEndsTurn == aborted ~> at = "idle"

(* "Cancel aborts every waiter for a session so a late decision cannot     *)
(* execute work after the turn has ended" (gate-waiters.ts): the gated     *)
(* calls that ran were approved by decisions that were accepted, and by    *)
(* none that came after the cancel and was refused.                        *)
LateDecisionExecutesNothing ==
  ~standing => Cardinality(ran) <= Cardinality(Approved("tool") \cup Approved("plan"))
=============================================================================
