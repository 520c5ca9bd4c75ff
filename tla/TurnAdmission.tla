--------------------------- MODULE TurnAdmission ---------------------------
(***************************************************************************)
(* How turns of one session are admitted, replaced and cancelled: runTurn  *)
(* and cancel of createTurnController (core/src/turn-loop.ts).  Every Map  *)
(* of the controller is keyed by the session id and no step reads another  *)
(* session's entry, so one session is the general case.                    *)
(*                                                                         *)
(* A send is one runTurn call.  It queues its messages, cancels the turn   *)
(* that is live, if any, waits for it to finish, stands in the chain of    *)
(* start locks (SessionLock) and, at the head of it, takes everything that *)
(* is queued as one turn.  What the turn does meanwhile is executeTurn's;  *)
(* here it only works, waits at a human gate, and ends.                    *)
(*                                                                         *)
(* JavaScript runs each stretch between two awaits without interruption:   *)
(* each action is one such stretch.                                        *)
(***************************************************************************)
EXTENDS Naturals, Sequences

CONSTANTS Sends,      \* the runTurn calls
          Cancels,    \* the operator's calls of cancel()
          Session,    \* the session they are all for
          NoCall      \* undefined: no live turn, no promise to await

ASSUME AdmissionAssumption ==
  /\ NoCall \notin Sends
  /\ Sends \cap Cancels = {}

VARIABLES phase, tails, previous, ticket, arrivals,   \* the chain of startLocks
          queue,      \* queues.get(session)
          live,       \* live.get(session): the send that started the turn
          stage,      \* how far a send or a cancel has come
          awaits,     \* the turn whose `finished` promise a call awaits
          aborted,    \* handle.controller.signal.aborted
          reason,     \* handle.reason
          finished,   \* handle.finished is resolved
          gate,       \* whether a gate waiter of the session is open
          batch,      \* the sends a turn was started with
          sent,       \* history: the sends in the order they were queued
          past        \* history: the batches of the turns that are over

lockVars == <<phase, tails, previous, ticket, arrivals>>
handleVars == <<aborted, reason, finished>>
historyVars == <<sent, past>>
vars == <<lockVars, queue, live, stage, awaits, handleVars, gate, batch, historyVars>>

Lock == INSTANCE SessionLock WITH
  Calls <- Sends,
  Sessions <- {Session},
  SessionOf <- [s \in Sends |-> Session],
  DropsTail <- FALSE

SendStages == {"new", "replacing", "starting", "running", "ending", "empty", "returned"}
CancelStages == {"new", "cancelling", "returned"}

CallTypes ==
  /\ stage \in [Sends \cup Cancels -> SendStages \cup CancelStages]
  /\ \A s \in Sends : stage[s] \in SendStages
  /\ \A k \in Cancels : stage[k] \in CancelStages
  /\ awaits \in [Sends \cup Cancels -> Sends \cup {NoCall}]

TurnTypes ==
  /\ live \in Sends \cup {NoCall}
  /\ aborted \in [Sends -> BOOLEAN]
  /\ reason \in [Sends -> {"none", "operator", "follow_up"}]
  /\ finished \in [Sends -> BOOLEAN]
  /\ gate \in BOOLEAN

QueueTypes ==
  /\ queue \in Seq(Sends)
  /\ sent \in Seq(Sends)
  /\ batch \in [Sends -> Seq(Sends)]
  /\ past \in Seq(Seq(Sends))

TypeOK == Lock!LockTypeOK /\ CallTypes /\ TurnTypes /\ QueueTypes

Init ==
  /\ Lock!LockInit
  /\ queue = <<>>
  /\ live = NoCall
  /\ stage = [x \in Sends \cup Cancels |-> "new"]
  /\ awaits = [x \in Sends \cup Cancels |-> NoCall]
  /\ aborted = [s \in Sends |-> FALSE]
  /\ reason = [s \in Sends |-> "none"]
  /\ finished = [s \in Sends |-> FALSE]
  /\ gate = FALSE
  /\ batch = [s \in Sends |-> <<>>]
  /\ sent = <<>>
  /\ past = <<>>

-----------------------------------------------------------------------------
GoTo(x, where) == stage' = [stage EXCEPT ![x] = where]

(* Mutant: the turn is told why it should stop, but not to stop.           *)
AbortLiveNotSignalled(why) ==
  /\ reason' = [reason EXCEPT ![live] = why]
  /\ UNCHANGED <<aborted, gate, finished>>

(* cancel(), up to its await: note the reason, reject the session's gate   *)
(* waiters, abort the turn.  A later cancel overwrites the reason.         *)
AbortLive(why) ==
  /\ reason' = [reason EXCEPT ![live] = why]
  /\ gate' = FALSE
  /\ aborted' = [aborted EXCEPT ![live] = TRUE]
  /\ UNCHANGED finished

(* runTurn, up to its first await: queue, and replace the live turn ...    *)
SendDuringTurn(s) ==
  /\ stage[s] = "new"
  /\ live # NoCall
  /\ queue' = Append(queue, s)
  /\ sent' = Append(sent, s)
  /\ AbortLive("follow_up")
  /\ awaits' = [awaits EXCEPT ![s] = live]
  /\ GoTo(s, "replacing")
  /\ UNCHANGED <<lockVars, live, batch, past>>

(* ... or, with no live turn, stand in line for the start lock at once.    *)
SendWhenIdle(s) ==
  /\ stage[s] = "new"
  /\ live = NoCall
  /\ queue' = Append(queue, s)
  /\ sent' = Append(sent, s)
  /\ Lock!Enqueue(s)
  /\ GoTo(s, "starting")
  /\ UNCHANGED <<live, awaits, handleVars, gate, batch, past>>

(* The replaced turn has finished: stand in line for the start lock.       *)
Replaced(s) ==
  /\ stage[s] = "replacing"
  /\ finished[awaits[s]]
  /\ Lock!Enqueue(s)
  /\ GoTo(s, "starting")
  /\ UNCHANGED <<queue, live, awaits, handleVars, gate, batch, historyVars>>

(* Mutant of the drain: the queue is not emptied.                          *)
DrainKeeping(s) == batch' = [batch EXCEPT ![s] = queue] /\ UNCHANGED queue

(* Every queued send becomes part of one request, first come first.        *)
Drain(s) == batch' = [batch EXCEPT ![s] = queue] /\ queue' = <<>>

(* `await previous` returns and the queue is not empty: take it, go live.  *)
StartTurn(s) ==
  /\ stage[s] = "starting"
  /\ queue # <<>>
  /\ Lock!Enter(s)
  /\ Drain(s)
  /\ live' = s
  /\ GoTo(s, "running")
  /\ UNCHANGED <<awaits, handleVars, gate, historyVars>>

(* "Another concurrent starter already drained including this request."    *)
StartEmpty(s) ==
  /\ stage[s] = "starting"
  /\ queue = <<>>
  /\ Lock!Enter(s)
  /\ GoTo(s, "empty")
  /\ UNCHANGED <<queue, live, awaits, handleVars, gate, batch, historyVars>>

ReturnEmpty(s) ==
  /\ stage[s] = "empty"
  /\ Lock!Leave(s)
  /\ GoTo(s, "returned")
  /\ UNCHANGED <<queue, live, awaits, handleVars, gate, batch, historyVars>>

-----------------------------------------------------------------------------
(* The turn that runs.                                                     *)

(* A builtin gate or a tool approval suspends the turn.  A waiter opened   *)
(* after the abort rejects at once, so only a turn not aborted waits.      *)
OpenGate(s) ==
  /\ stage[s] = "running"
  /\ ~gate /\ ~aborted[s]
  /\ gate' = TRUE
  /\ UNCHANGED <<lockVars, queue, live, stage, awaits, handleVars, batch, historyVars>>

(* The person decides; the turn goes on.                                   *)
Decide ==
  /\ gate
  /\ gate' = FALSE
  /\ UNCHANGED <<lockVars, queue, live, stage, awaits, handleVars, batch, historyVars>>

(* The starter's own request signal fires: the listener rejects the gate   *)
(* waiters and aborts, with no reason noted.  Before the turn is live, and *)
(* for a send another starter drained, nobody listens to it.               *)
RequestAborted(s) ==
  /\ live = s
  /\ gate' = FALSE
  /\ aborted' = [aborted EXCEPT ![s] = TRUE]
  /\ UNCHANGED <<lockVars, queue, live, stage, awaits, reason, finished, batch,
                 historyVars>>

(* executeTurn has decided its last event and waits for it to be taken.    *)
(* It ends by itself or because of the abort, but never while it waits at  *)
(* a gate.                                                                 *)
DecideTerminal(s) ==
  /\ stage[s] = "running"
  /\ ~gate
  /\ GoTo(s, "ending")
  /\ UNCHANGED <<lockVars, queue, live, awaits, handleVars, gate, batch, historyVars>>

(* The finally blocks, once the terminal event has been taken.             *)
EndTurn(s) ==
  /\ stage[s] = "ending"
  /\ Lock!Leave(s)
  /\ gate' = FALSE
  /\ live' = NoCall
  /\ finished' = [finished EXCEPT ![s] = TRUE]
  /\ past' = Append(past, batch[s])
  /\ GoTo(s, "returned")
  /\ UNCHANGED <<queue, awaits, aborted, reason, batch, sent>>

-----------------------------------------------------------------------------
(* The operator's cancel().                                                *)

CancelLive(k) ==
  /\ stage[k] = "new"
  /\ live # NoCall
  /\ AbortLive("operator")
  /\ awaits' = [awaits EXCEPT ![k] = live]
  /\ GoTo(k, "cancelling")
  /\ UNCHANGED <<lockVars, queue, live, batch, historyVars>>

(* With no live turn only orphaned waiters are dropped: a send that is     *)
(* still queued or starting is not cancelled.                              *)
CancelNothing(k) ==
  /\ stage[k] = "new"
  /\ live = NoCall
  /\ gate' = FALSE
  /\ GoTo(k, "returned")
  /\ UNCHANGED <<lockVars, queue, live, awaits, handleVars, batch, historyVars>>

CancelReturns(k) ==
  /\ stage[k] = "cancelling"
  /\ finished[awaits[k]]
  /\ GoTo(k, "returned")
  /\ UNCHANGED <<lockVars, queue, live, awaits, handleVars, gate, batch, historyVars>>

-----------------------------------------------------------------------------
Admit(s) == Replaced(s) \/ StartTurn(s) \/ StartEmpty(s) \/ ReturnEmpty(s)
Finish(s) == DecideTerminal(s) \/ EndTurn(s)

Next ==
  \/ \E s \in Sends : SendDuringTurn(s) \/ SendWhenIdle(s) \/ Admit(s)
                     \/ OpenGate(s) \/ RequestAborted(s) \/ Finish(s)
  \/ Decide
  \/ \E k \in Cancels : CancelLive(k) \/ CancelNothing(k) \/ CancelReturns(k)

Spec == Init /\ [][Next]_vars

(* Resumed code runs, and a turn that is not waiting for a person ends:    *)
(* rounds are capped, a provider call has a timeout and the abort signal,  *)
(* and the tools are given the signal.  Nobody has to decide a gate.       *)
Fairness ==
  /\ \A s \in Sends : WF_vars(Admit(s)) /\ WF_vars(Finish(s))
  /\ \A k \in Cancels : WF_vars(CancelReturns(k))

FairSpec == Spec /\ Fairness

-----------------------------------------------------------------------------
Contains(q, s) == \E i \in DOMAIN q : q[i] = s

(* One turn is live at a time, it is the one whose executeTurn runs, and   *)
(* it is behind the start lock.                                            *)
OneLiveTurn ==
  /\ \A s \in Sends : stage[s] \in {"running", "ending"} <=> live = s
  /\ \A s \in Sends : stage[s] \in {"running", "ending", "empty"} <=> phase[s] = "inside"
  /\ Lock!MutualExclusion

(* The sends the live turn answers.                                        *)
Running == IF live = NoCall THEN <<>> ELSE batch[live]

(* A request whose stream ends without a turn of its own had its messages  *)
(* taken by another starter: an empty stream never means a dropped send.   *)
EmptyStreamWasDrained ==
  \A s \in Sends :
    (stage[s] \in {"empty", "returned"} /\ batch[s] = <<>>) =>
      \/ Contains(Running, s)
      \/ \E i \in DOMAIN past : Contains(past[i], s)

(* A gate waiter is only open while a turn that has not been told to stop  *)
(* is live: nothing a person decides afterwards can resume it.             *)
GateNeedsLiveTurn == gate => live # NoCall /\ ~aborted[live]

(* Whoever awaited a turn's end goes on only when it has released the live *)
(* slot, so a follow-up never starts beside the turn it replaces.          *)
WaiterSeesEnd ==
  \A x \in Sends \cup Cancels :
    (awaits[x] # NoCall /\ stage[x] \notin {"replacing", "cancelling"}) =>
      live # awaits[x] /\ phase[awaits[x]] = "left"

(* The controller is the serial service of SerialTurns.                    *)
Serial == INSTANCE SerialTurns WITH
  inbox <- queue,
  current <- Running

ImplementsSerialTurns == Serial!Spec

(* What it shows its turns is the life TurnGates gives them.               *)
ToldNow == live # NoCall /\ aborted[live]

LifeNow ==
  IF live = NoCall THEN "none"
  ELSE IF stage[live] = "ending" THEN "ending"
  ELSE IF gate THEN "waiting" ELSE "working"

Life == INSTANCE TurnLife WITH told <- ToldNow, life <- LifeNow

ImplementsTurnLife == Life!Spec

(* Every send is taken by a turn in the end, even when the live turn waits *)
(* at a gate nobody decides: the send itself cancels it.                   *)
EverySendIsTaken == \A s \in Sends : Contains(queue, s) ~> ~Contains(queue, s)

(* cancel() returns.                                                       *)
EveryCancelReturns == \A k \in Cancels : stage[k] = "cancelling" ~> stage[k] = "returned"
=============================================================================
