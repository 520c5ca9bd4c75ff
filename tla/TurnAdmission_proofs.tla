------------------------ MODULE TurnAdmission_proofs ------------------------
(***************************************************************************)
(* Proofs about TurnAdmission, for any number of sends and cancels: one    *)
(* turn is live at a time, nothing a person decides reaches a turn that    *)
(* was told to stop, no send is lost, and the controller implements        *)
(* SerialTurns.                                                            *)
(***************************************************************************)
EXTENDS TurnAdmission, TLAPS

LockProofs == INSTANCE SessionLock_proofs WITH
  Calls <- Sends,
  Sessions <- {Session},
  SessionOf <- [s \in Sends |-> Session],
  DropsTail <- FALSE

-----------------------------------------------------------------------------
(* The start locks.                                                        *)

LEMMA LockConstants == LockProofs!LockAssumption
BY AdmissionAssumption DEF LockProofs!LockAssumption

LEMMA SameLockSteps ==
  ASSUME NEW s \in Sends
  PROVE  /\ Lock!Enqueue(s) => LockProofs!Enqueue(s)
         /\ Lock!Enter(s) => LockProofs!Enter(s)
         /\ Lock!Leave(s) => LockProofs!Leave(s)
BY DEF Lock!Enqueue, LockProofs!Enqueue, Lock!Enter, LockProofs!Enter, Lock!Settled,
       LockProofs!Settled, Lock!Leave, LockProofs!Leave, Lock!TailAfter, LockProofs!TailAfter

(* Every step is a step of the lock or leaves it alone.                    *)
LEMMA StepOfLock == ASSUME [Next]_vars PROVE [LockProofs!LockNext]_lockVars
<1>1. ASSUME NEW s \in Sends PROVE
        (SendDuringTurn(s) \/ OpenGate(s) \/ RequestAborted(s) \/ DecideTerminal(s))
        => UNCHANGED lockVars
  BY DEF SendDuringTurn, OpenGate, RequestAborted, DecideTerminal
<1>2. ASSUME NEW k \in Cancels PROVE
        (CancelLive(k) \/ CancelNothing(k) \/ CancelReturns(k)) => UNCHANGED lockVars
  BY DEF CancelLive, CancelNothing, CancelReturns
<1>3. Decide \/ UNCHANGED vars => UNCHANGED lockVars
  BY DEF Decide, vars
<1>4. ASSUME NEW s \in Sends PROVE
        (SendWhenIdle(s) \/ Admit(s) \/ EndTurn(s)) => LockProofs!LockNext
  BY SameLockSteps DEF SendWhenIdle, Admit, Replaced, StartTurn, StartEmpty, ReturnEmpty,
                       EndTurn,
                       LockProofs!LockNext
<1>. QED  BY <1>1, <1>2, <1>3, <1>4 DEF Next, Finish

LEMMA AdmissionLockSpec == Spec => LockProofs!LockSpec
<1>1. Init => LockProofs!LockInit
  BY DEF Init, Lock!LockInit, LockProofs!LockInit
<1>2. [Next]_vars => [LockProofs!LockNext]_(LockProofs!lockVars)
  BY StepOfLock DEF lockVars, LockProofs!lockVars
<1>. QED  BY <1>1, <1>2, PTL DEF Spec, LockProofs!LockSpec

LEMMA ChainTypes ==
  LockProofs!ChainInv => Lock!LockTypeOK /\ Lock!MutualExclusion
<1>1. LockProofs!ChainInv => LockProofs!MutualExclusion
  BY LockProofs!ChainExcludes, LockConstants
<1>. QED
  BY <1>1 DEF LockProofs!ChainInv, LockProofs!LockTypeOK, Lock!LockTypeOK, LockProofs!Phases,
              Lock!Phases, LockProofs!MutualExclusion, Lock!MutualExclusion

(* What the steps of the lock do to the phases.                            *)
LEMMA LockPhases ==
  ASSUME Lock!LockTypeOK, NEW s \in Sends
  PROVE  /\ Lock!Enqueue(s) => phase[s] = "idle" /\ phase' = [phase EXCEPT ![s] = "queued"]
         /\ Lock!Enter(s) => phase[s] = "queued" /\ phase' = [phase EXCEPT ![s] = "inside"]
         /\ Lock!Leave(s) => phase[s] = "inside" /\ phase' = [phase EXCEPT ![s] = "left"]
BY DEF Lock!Enqueue, Lock!Enter, Lock!Leave

-----------------------------------------------------------------------------
(* The inductive invariant.                                                *)

(* Where a send is tells where it stands in the chain.                     *)
StagesFollowLock ==
  \A s \in Sends :
    /\ stage[s] \in {"new", "replacing"} => phase[s] = "idle"
    /\ stage[s] = "starting" => phase[s] = "queued"
    /\ stage[s] \in {"running", "ending", "empty"} => phase[s] = "inside"
    /\ stage[s] = "returned" => phase[s] = "left"

LiveIsRunning ==
  \A s \in Sends : stage[s] \in {"running", "ending"} <=> live = s

(* The promise a call awaits is that of the live turn or of one that is    *)
(* over, and it is resolved when the call has gone on.                     *)
AwaitsLiveOrOver ==
  /\ \A s \in Sends : finished[s] => phase[s] = "left"
  /\ \A x \in Sends \cup Cancels :
       awaits[x] # NoCall =>
         /\ live = awaits[x] \/ finished[awaits[x]]
         /\ stage[x] \notin {"replacing", "cancelling"} => finished[awaits[x]]

Taken(s) == Contains(Running, s) \/ \E i \in DOMAIN past : Contains(past[i], s)

(* A send that has queued is in the queue or in a turn, and it is not in   *)
(* the queue any more when its own starter has been through the lock.      *)
SendsKept ==
  \A s \in Sends :
    /\ stage[s] = "new" => ~Contains(queue, s) /\ ~Taken(s)
    /\ stage[s] # "new" => Contains(queue, s) \/ Taken(s)
    /\ stage[s] \in {"running", "ending", "empty", "returned"} => ~Contains(queue, s)
    /\ stage[s] \in {"running", "ending"} => batch[s] # <<>>

AdmissionInv ==
  /\ TypeOK
  /\ StagesFollowLock
  /\ LiveIsRunning
  /\ GateNeedsLiveTurn
  /\ AwaitsLiveOrOver
  /\ SendsKept

LEMMA AdmissionInit == Init => AdmissionInv
<1> SUFFICES ASSUME Init PROVE AdmissionInv
  OBVIOUS
<1> USE AdmissionAssumption DEF Init
<1>1. Lock!LockTypeOK
  BY DEF Lock!LockInit, Lock!LockTypeOK, Lock!Phases
<1>2. CallTypes /\ TurnTypes /\ QueueTypes
  <2>1. CallTypes
    BY DEF CallTypes, SendStages, CancelStages
  <2>2. TurnTypes
    BY DEF TurnTypes
  <2>3. QueueTypes
    BY DEF QueueTypes
  <2>. QED  BY <2>1, <2>2, <2>3
<1>3. StagesFollowLock
  BY DEF StagesFollowLock, Lock!LockInit
<1>4. LiveIsRunning /\ GateNeedsLiveTurn
  BY DEF LiveIsRunning, GateNeedsLiveTurn
<1>5. AwaitsLiveOrOver
  BY DEF AwaitsLiveOrOver
<1>6. SendsKept
  <2>1. ASSUME NEW s \in Sends PROVE stage[s] = "new" /\ ~Contains(queue, s) /\ ~Taken(s)
    <3>1. DOMAIN queue = {} /\ DOMAIN Running = {} /\ DOMAIN past = {}
      BY DEF Running
    <3>. QED  BY <3>1 DEF Contains, Taken
  <2>. QED  BY <2>1 DEF SendsKept
<1>. QED  BY <1>1, <1>2, <1>3, <1>4, <1>5, <1>6 DEF AdmissionInv, TypeOK, CallTypes,
    TurnTypes, QueueTypes

LEMMA ContainsAppend ==
  ASSUME NEW q \in Seq(Sends), NEW s \in Sends, NEW x \in Sends
  PROVE  Contains(Append(q, s), x) <=> Contains(q, x) \/ x = s
<1>1. DOMAIN Append(q, s) = 1..(Len(q) + 1) /\ DOMAIN q = 1..Len(q) /\ Len(q) \in Nat
  OBVIOUS
<1>2. \A i \in 1..Len(q) : Append(q, s)[i] = q[i]
  OBVIOUS
<1>3. Append(q, s)[Len(q) + 1] = s
  OBVIOUS
<1>. QED  BY <1>1, <1>2, <1>3 DEF Contains

LEMMA OneMoreBatch ==
  ASSUME NEW n \in Nat, NEW p, NEW q, NEW b, NEW x,
         DOMAIN p = 1..n, DOMAIN q = 1..(n + 1), \A i \in 1..n : q[i] = p[i], q[n + 1] = b
  PROVE  (\E i \in DOMAIN q : Contains(q[i], x))
         <=> (\E i \in DOMAIN p : Contains(p[i], x)) \/ Contains(b, x)
<1>1. ASSUME NEW i \in DOMAIN q, Contains(q[i], x)
      PROVE  (\E j \in DOMAIN p : Contains(p[j], x)) \/ Contains(b, x)
  <2>1. CASE i = n + 1
    BY <1>1, <2>1
  <2>2. CASE i \in 1..n
    BY <1>1, <2>2
  <2>. QED  BY <2>1, <2>2
<1>2. ASSUME NEW i \in DOMAIN p, Contains(p[i], x)
      PROVE  \E j \in DOMAIN q : Contains(q[j], x)
  <2>1. i \in DOMAIN q /\ q[i] = p[i]
    OBVIOUS
  <2>. QED  BY <2>1, <1>2, Zenon
<1>3. ASSUME Contains(b, x) PROVE \E j \in DOMAIN q : Contains(q[j], x)
  <2>1. (n + 1) \in DOMAIN q /\ q[n + 1] = b
    OBVIOUS
  <2>. QED  BY <2>1, <1>3
<1>. QED  BY <1>1, <1>2, <1>3

LEMMA PastAppend ==
  ASSUME NEW p \in Seq(Seq(Sends)), NEW b \in Seq(Sends), NEW x \in Sends
  PROVE  (\E i \in DOMAIN Append(p, b) : Contains(Append(p, b)[i], x))
         <=> (\E i \in DOMAIN p : Contains(p[i], x)) \/ Contains(b, x)
<1>1. DOMAIN Append(p, b) = 1..(Len(p) + 1) /\ DOMAIN p = 1..Len(p) /\ Len(p) \in Nat
  OBVIOUS
<1>2. \A i \in 1..Len(p) : Append(p, b)[i] = p[i]
  OBVIOUS
<1>3. Append(p, b)[Len(p) + 1] = b
  OBVIOUS
<1> HIDE DEF Contains
<1>. QED  BY <1>1, <1>2, <1>3, OneMoreBatch

(* A send that queues is kept, and so are the others.                      *)
LEMMA QueueingKeeps ==
  ASSUME AdmissionInv, NEW s \in Sends, stage[s] = "new",
         queue' = Append(queue, s), stage'[s] \in {"replacing", "starting"},
         stage' = [stage EXCEPT ![s] = stage'[s]],
         UNCHANGED <<live, batch, past>>
  PROVE  SendsKept'
<1>1. Running' = Running
  BY DEF Running
<1>2. \A x \in Sends : Taken(x)' <=> Taken(x)
  BY <1>1 DEF Taken
<1>3. \A x \in Sends : Contains(queue', x) <=> Contains(queue, x) \/ x = s
  BY ContainsAppend DEF AdmissionInv, TypeOK, CallTypes, TurnTypes, QueueTypes
<1>4. \A x \in Sends : x # s => stage'[x] = stage[x]
  BY DEF AdmissionInv, TypeOK, CallTypes, TurnTypes, QueueTypes
<1>. QED  BY <1>2, <1>3, <1>4 DEF AdmissionInv, SendsKept

(* A step that moves no batch and queues nothing keeps the sends too.      *)
LEMMA SendsStay ==
  ASSUME AdmissionInv, UNCHANGED <<queue, live, batch, past>>,
         \A s \in Sends :
           \/ stage'[s] = stage[s]
           \/ stage[s] # "new" /\ stage'[s] = "starting"
           \/ stage[s] # "new" /\ stage'[s] = "empty" /\ queue = <<>>
           \/ stage[s] = "empty" /\ stage'[s] = "returned"
           \/ stage[s] = "running" /\ stage'[s] = "ending"
  PROVE  SendsKept'
<1>1. Running' = Running
  BY DEF Running
<1>2. \A s \in Sends : Taken(s)' <=> Taken(s)
  BY <1>1 DEF Taken
<1>3. \A s \in Sends : Contains(queue', s) <=> Contains(queue, s)
  OBVIOUS
<1>4. queue = <<>> => \A s \in Sends : ~Contains(queue, s)
  <2>1. queue = <<>> => DOMAIN queue = {}
    OBVIOUS
  <2>. QED  BY <2>1 DEF Contains
<1>. QED  BY <1>2, <1>3, <1>4 DEF AdmissionInv, SendsKept

LEMMA SendDuringTurnKeeps ==
  ASSUME AdmissionInv, Lock!LockTypeOK', NEW s \in Sends, SendDuringTurn(s)
  PROVE  AdmissionInv'
<1>1. /\ stage[s] = "new" /\ live \in Sends
      /\ queue' = Append(queue, s) /\ sent' = Append(sent, s)
      /\ stage' = [stage EXCEPT ![s] = "replacing"]
      /\ awaits' = [awaits EXCEPT ![s] = live]
      /\ aborted' = [aborted EXCEPT ![live] = TRUE]
      /\ reason' = [reason EXCEPT ![live] = "follow_up"]
      /\ gate' = FALSE
      /\ UNCHANGED <<phase, live, finished, batch, past>>
  BY DEF SendDuringTurn, AbortLive, GoTo, lockVars, AdmissionInv, TypeOK, CallTypes,
         TurnTypes, QueueTypes
<1>2. CallTypes'
  BY <1>1, AdmissionAssumption DEF AdmissionInv, TypeOK, CallTypes, TurnTypes, QueueTypes,
                                   SendStages, CancelStages
<1>3. TurnTypes'
  BY <1>1 DEF AdmissionInv, TypeOK, CallTypes, TurnTypes, QueueTypes
<1>4. QueueTypes'
  BY <1>1 DEF AdmissionInv, TypeOK, CallTypes, TurnTypes, QueueTypes
<1>5. StagesFollowLock'
  BY <1>1, AdmissionAssumption DEF AdmissionInv, TypeOK, CallTypes, TurnTypes, QueueTypes,
                                   StagesFollowLock, Lock!LockTypeOK
<1>6. LiveIsRunning' /\ GateNeedsLiveTurn'
  BY <1>1, AdmissionAssumption DEF AdmissionInv, TypeOK, CallTypes, TurnTypes, QueueTypes,
                                   LiveIsRunning, GateNeedsLiveTurn, StagesFollowLock,
              AwaitsLiveOrOver, Lock!LockTypeOK
<1>7. AwaitsLiveOrOver'
  BY <1>1, AdmissionAssumption DEF AdmissionInv, TypeOK, CallTypes, TurnTypes, QueueTypes,
                                   AwaitsLiveOrOver, StagesFollowLock, LiveIsRunning,
                                       Lock!LockTypeOK
<1>8. SendsKept'
  BY <1>1, QueueingKeeps DEF AdmissionInv, TypeOK, CallTypes, TurnTypes, QueueTypes
<1>. QED  BY <1>2, <1>3, <1>4, <1>5, <1>6, <1>7, <1>8 DEF AdmissionInv, TypeOK

LEMMA SendWhenIdleKeeps ==
  ASSUME AdmissionInv, Lock!LockTypeOK', NEW s \in Sends, SendWhenIdle(s)
  PROVE  AdmissionInv'
<1>1. /\ stage[s] = "new"
      /\ queue' = Append(queue, s) /\ sent' = Append(sent, s)
      /\ stage' = [stage EXCEPT ![s] = "starting"]
      /\ phase[s] = "idle" /\ phase' = [phase EXCEPT ![s] = "queued"]
      /\ UNCHANGED <<live, awaits, aborted, reason, finished, gate, batch, past>>
  BY LockPhases DEF SendWhenIdle, GoTo, handleVars, AdmissionInv, TypeOK, CallTypes,
                    TurnTypes, QueueTypes
<1>2. CallTypes'
  BY <1>1, AdmissionAssumption DEF AdmissionInv, TypeOK, CallTypes, TurnTypes, QueueTypes,
                                   SendStages, CancelStages
<1>3. TurnTypes'
  BY <1>1 DEF AdmissionInv, TypeOK, CallTypes, TurnTypes, QueueTypes
<1>4. QueueTypes'
  BY <1>1 DEF AdmissionInv, TypeOK, CallTypes, TurnTypes, QueueTypes
<1>5. StagesFollowLock'
  BY <1>1, AdmissionAssumption DEF AdmissionInv, TypeOK, CallTypes, TurnTypes, QueueTypes,
                                   StagesFollowLock, Lock!LockTypeOK
<1>6. LiveIsRunning' /\ GateNeedsLiveTurn'
  BY <1>1, AdmissionAssumption DEF AdmissionInv, TypeOK, CallTypes, TurnTypes, QueueTypes,
                                   LiveIsRunning, GateNeedsLiveTurn, StagesFollowLock,
              AwaitsLiveOrOver, Lock!LockTypeOK
<1>7. AwaitsLiveOrOver'
  BY <1>1, AdmissionAssumption DEF AdmissionInv, TypeOK, CallTypes, TurnTypes, QueueTypes,
                                   AwaitsLiveOrOver, StagesFollowLock, LiveIsRunning,
                                       Lock!LockTypeOK
<1>8. SendsKept'
  BY <1>1, QueueingKeeps DEF AdmissionInv, TypeOK, CallTypes, TurnTypes, QueueTypes
<1>. QED  BY <1>2, <1>3, <1>4, <1>5, <1>6, <1>7, <1>8 DEF AdmissionInv, TypeOK

LEMMA ReplacedKeeps ==
  ASSUME AdmissionInv, Lock!LockTypeOK', NEW s \in Sends, Replaced(s)
  PROVE  AdmissionInv'
<1>1. /\ stage[s] = "replacing" /\ finished[awaits[s]]
      /\ stage' = [stage EXCEPT ![s] = "starting"]
      /\ phase[s] = "idle" /\ phase' = [phase EXCEPT ![s] = "queued"]
      /\ UNCHANGED <<queue, live, awaits, aborted, reason, finished, gate, batch, sent, past>>
  BY LockPhases DEF Replaced, GoTo, handleVars, historyVars, AdmissionInv, TypeOK, CallTypes,
                    TurnTypes, QueueTypes
<1>2. CallTypes'
  BY <1>1, AdmissionAssumption DEF AdmissionInv, TypeOK, CallTypes, TurnTypes, QueueTypes,
                                   SendStages, CancelStages
<1>3. TurnTypes'
  BY <1>1 DEF AdmissionInv, TypeOK, CallTypes, TurnTypes, QueueTypes
<1>4. QueueTypes'
  BY <1>1 DEF AdmissionInv, TypeOK, CallTypes, TurnTypes, QueueTypes
<1>5. StagesFollowLock'
  BY <1>1, AdmissionAssumption DEF AdmissionInv, TypeOK, CallTypes, TurnTypes, QueueTypes,
                                   StagesFollowLock, Lock!LockTypeOK
<1>6. LiveIsRunning' /\ GateNeedsLiveTurn'
  BY <1>1, AdmissionAssumption DEF AdmissionInv, TypeOK, CallTypes, TurnTypes, QueueTypes,
                                   LiveIsRunning, GateNeedsLiveTurn, StagesFollowLock,
              AwaitsLiveOrOver, Lock!LockTypeOK
<1>7. AwaitsLiveOrOver'
  BY <1>1, AdmissionAssumption DEF AdmissionInv, TypeOK, CallTypes, TurnTypes, QueueTypes,
                                   AwaitsLiveOrOver, StagesFollowLock, LiveIsRunning,
                                       Lock!LockTypeOK
<1>8. SendsKept'
  BY <1>1, SendsStay, AdmissionAssumption DEF AdmissionInv, TypeOK, CallTypes, TurnTypes,
      QueueTypes
<1>. QED  BY <1>2, <1>3, <1>4, <1>5, <1>6, <1>7, <1>8 DEF AdmissionInv, TypeOK

LEMMA StartEmptyKeeps ==
  ASSUME AdmissionInv, Lock!LockTypeOK', NEW s \in Sends, StartEmpty(s)
  PROVE  AdmissionInv'
<1>1. /\ stage[s] = "starting" /\ queue = <<>>
      /\ stage' = [stage EXCEPT ![s] = "empty"]
      /\ phase[s] = "queued" /\ phase' = [phase EXCEPT ![s] = "inside"]
      /\ UNCHANGED <<queue, live, awaits, aborted, reason, finished, gate, batch, sent, past>>
  BY LockPhases DEF StartEmpty, GoTo, handleVars, historyVars, AdmissionInv, TypeOK,
                    CallTypes, TurnTypes, QueueTypes
<1>2. CallTypes'
  BY <1>1, AdmissionAssumption DEF AdmissionInv, TypeOK, CallTypes, TurnTypes, QueueTypes,
                                   SendStages, CancelStages
<1>3. TurnTypes'
  BY <1>1 DEF AdmissionInv, TypeOK, CallTypes, TurnTypes, QueueTypes
<1>4. QueueTypes'
  BY <1>1 DEF AdmissionInv, TypeOK, CallTypes, TurnTypes, QueueTypes
<1>5. StagesFollowLock'
  BY <1>1, AdmissionAssumption DEF AdmissionInv, TypeOK, CallTypes, TurnTypes, QueueTypes,
                                   StagesFollowLock, Lock!LockTypeOK
<1>6. LiveIsRunning' /\ GateNeedsLiveTurn'
  BY <1>1, AdmissionAssumption DEF AdmissionInv, TypeOK, CallTypes, TurnTypes, QueueTypes,
                                   LiveIsRunning, GateNeedsLiveTurn, StagesFollowLock,
              AwaitsLiveOrOver, Lock!LockTypeOK
<1>7. AwaitsLiveOrOver'
  BY <1>1, AdmissionAssumption DEF AdmissionInv, TypeOK, CallTypes, TurnTypes, QueueTypes,
                                   AwaitsLiveOrOver, StagesFollowLock, LiveIsRunning,
                                       Lock!LockTypeOK
<1>8. SendsKept'
  BY <1>1, SendsStay, AdmissionAssumption DEF AdmissionInv, TypeOK, CallTypes, TurnTypes,
      QueueTypes
<1>. QED  BY <1>2, <1>3, <1>4, <1>5, <1>6, <1>7, <1>8 DEF AdmissionInv, TypeOK

LEMMA ReturnEmptyKeeps ==
  ASSUME AdmissionInv, Lock!LockTypeOK', NEW s \in Sends, ReturnEmpty(s)
  PROVE  AdmissionInv'
<1>1. /\ stage[s] = "empty"
      /\ stage' = [stage EXCEPT ![s] = "returned"]
      /\ phase[s] = "inside" /\ phase' = [phase EXCEPT ![s] = "left"]
      /\ UNCHANGED <<queue, live, awaits, aborted, reason, finished, gate, batch, sent, past>>
  BY LockPhases DEF ReturnEmpty, GoTo, handleVars, historyVars, AdmissionInv, TypeOK,
                    CallTypes, TurnTypes, QueueTypes
<1>2. CallTypes'
  BY <1>1, AdmissionAssumption DEF AdmissionInv, TypeOK, CallTypes, TurnTypes, QueueTypes,
                                   SendStages, CancelStages
<1>3. TurnTypes'
  BY <1>1 DEF AdmissionInv, TypeOK, CallTypes, TurnTypes, QueueTypes
<1>4. QueueTypes'
  BY <1>1 DEF AdmissionInv, TypeOK, CallTypes, TurnTypes, QueueTypes
<1>5. StagesFollowLock'
  BY <1>1, AdmissionAssumption DEF AdmissionInv, TypeOK, CallTypes, TurnTypes, QueueTypes,
                                   StagesFollowLock, Lock!LockTypeOK
<1>6. LiveIsRunning' /\ GateNeedsLiveTurn'
  BY <1>1, AdmissionAssumption DEF AdmissionInv, TypeOK, CallTypes, TurnTypes, QueueTypes,
                                   LiveIsRunning, GateNeedsLiveTurn, StagesFollowLock,
              AwaitsLiveOrOver, Lock!LockTypeOK
<1>7. AwaitsLiveOrOver'
  BY <1>1, AdmissionAssumption DEF AdmissionInv, TypeOK, CallTypes, TurnTypes, QueueTypes,
                                   AwaitsLiveOrOver, StagesFollowLock, LiveIsRunning,
                                       Lock!LockTypeOK
<1>8. SendsKept'
  BY <1>1, SendsStay, AdmissionAssumption DEF AdmissionInv, TypeOK, CallTypes, TurnTypes,
      QueueTypes
<1>. QED  BY <1>2, <1>3, <1>4, <1>5, <1>6, <1>7, <1>8 DEF AdmissionInv, TypeOK

LEMMA OpenGateKeeps ==
  ASSUME AdmissionInv, Lock!LockTypeOK', NEW s \in Sends, OpenGate(s)
  PROVE  AdmissionInv'
<1>1. /\ stage[s] = "running" /\ ~aborted[s] /\ gate' = TRUE
      /\ UNCHANGED <<phase, stage, queue, live, awaits, aborted, reason, finished, batch,
          sent, past>>
  BY DEF OpenGate, handleVars, historyVars, lockVars
<1>2. CallTypes'
  BY <1>1, AdmissionAssumption DEF AdmissionInv, TypeOK, CallTypes, TurnTypes, QueueTypes,
                                   SendStages, CancelStages
<1>3. TurnTypes'
  BY <1>1 DEF AdmissionInv, TypeOK, CallTypes, TurnTypes, QueueTypes
<1>4. QueueTypes'
  BY <1>1 DEF AdmissionInv, TypeOK, CallTypes, TurnTypes, QueueTypes
<1>5. StagesFollowLock'
  BY <1>1, AdmissionAssumption DEF AdmissionInv, TypeOK, CallTypes, TurnTypes, QueueTypes,
                                   StagesFollowLock, Lock!LockTypeOK
<1>6. LiveIsRunning' /\ GateNeedsLiveTurn'
  BY <1>1, AdmissionAssumption DEF AdmissionInv, TypeOK, CallTypes, TurnTypes, QueueTypes,
                                   LiveIsRunning, GateNeedsLiveTurn, StagesFollowLock,
              AwaitsLiveOrOver, Lock!LockTypeOK
<1>7. AwaitsLiveOrOver'
  BY <1>1, AdmissionAssumption DEF AdmissionInv, TypeOK, CallTypes, TurnTypes, QueueTypes,
                                   AwaitsLiveOrOver, StagesFollowLock, LiveIsRunning,
                                       Lock!LockTypeOK
<1>8. SendsKept'
  BY <1>1, SendsStay, AdmissionAssumption DEF AdmissionInv, TypeOK, CallTypes, TurnTypes,
      QueueTypes
<1>. QED  BY <1>2, <1>3, <1>4, <1>5, <1>6, <1>7, <1>8 DEF AdmissionInv, TypeOK

LEMMA RequestAbortedKeeps ==
  ASSUME AdmissionInv, Lock!LockTypeOK', NEW s \in Sends, RequestAborted(s)
  PROVE  AdmissionInv'
<1>1. /\ live = s /\ gate' = FALSE
      /\ aborted' = [aborted EXCEPT ![s] = TRUE]
      /\ UNCHANGED <<phase, stage, queue, live, awaits, reason, finished, batch, sent, past>>
  BY DEF RequestAborted, historyVars, lockVars
<1>2. CallTypes'
  BY <1>1, AdmissionAssumption DEF AdmissionInv, TypeOK, CallTypes, TurnTypes, QueueTypes,
                                   SendStages, CancelStages
<1>3. TurnTypes'
  BY <1>1 DEF AdmissionInv, TypeOK, CallTypes, TurnTypes, QueueTypes
<1>4. QueueTypes'
  BY <1>1 DEF AdmissionInv, TypeOK, CallTypes, TurnTypes, QueueTypes
<1>5. StagesFollowLock'
  BY <1>1, AdmissionAssumption DEF AdmissionInv, TypeOK, CallTypes, TurnTypes, QueueTypes,
                                   StagesFollowLock, Lock!LockTypeOK
<1>6. LiveIsRunning' /\ GateNeedsLiveTurn'
  BY <1>1, AdmissionAssumption DEF AdmissionInv, TypeOK, CallTypes, TurnTypes, QueueTypes,
                                   LiveIsRunning, GateNeedsLiveTurn, StagesFollowLock,
              AwaitsLiveOrOver, Lock!LockTypeOK
<1>7. AwaitsLiveOrOver'
  BY <1>1, AdmissionAssumption DEF AdmissionInv, TypeOK, CallTypes, TurnTypes, QueueTypes,
                                   AwaitsLiveOrOver, StagesFollowLock, LiveIsRunning,
                                       Lock!LockTypeOK
<1>8. SendsKept'
  BY <1>1, SendsStay, AdmissionAssumption DEF AdmissionInv, TypeOK, CallTypes, TurnTypes,
      QueueTypes
<1>. QED  BY <1>2, <1>3, <1>4, <1>5, <1>6, <1>7, <1>8 DEF AdmissionInv, TypeOK

LEMMA DecideTerminalKeeps ==
  ASSUME AdmissionInv, Lock!LockTypeOK', NEW s \in Sends, DecideTerminal(s)
  PROVE  AdmissionInv'
<1>1. /\ stage[s] = "running"
      /\ stage' = [stage EXCEPT ![s] = "ending"]
      /\ UNCHANGED <<phase, queue, live, awaits, aborted, reason, finished, gate, batch,
          sent, past>>
  BY DEF DecideTerminal, GoTo, handleVars, historyVars, lockVars
<1>2. CallTypes'
  BY <1>1, AdmissionAssumption DEF AdmissionInv, TypeOK, CallTypes, TurnTypes, QueueTypes,
                                   SendStages, CancelStages
<1>3. TurnTypes'
  BY <1>1 DEF AdmissionInv, TypeOK, CallTypes, TurnTypes, QueueTypes
<1>4. QueueTypes'
  BY <1>1 DEF AdmissionInv, TypeOK, CallTypes, TurnTypes, QueueTypes
<1>5. StagesFollowLock'
  BY <1>1, AdmissionAssumption DEF AdmissionInv, TypeOK, CallTypes, TurnTypes, QueueTypes,
                                   StagesFollowLock, Lock!LockTypeOK
<1>6. LiveIsRunning' /\ GateNeedsLiveTurn'
  BY <1>1, AdmissionAssumption DEF AdmissionInv, TypeOK, CallTypes, TurnTypes, QueueTypes,
                                   LiveIsRunning, GateNeedsLiveTurn, StagesFollowLock,
              AwaitsLiveOrOver, Lock!LockTypeOK
<1>7. AwaitsLiveOrOver'
  BY <1>1, AdmissionAssumption DEF AdmissionInv, TypeOK, CallTypes, TurnTypes, QueueTypes,
                                   AwaitsLiveOrOver, StagesFollowLock, LiveIsRunning,
                                       Lock!LockTypeOK
<1>8. SendsKept'
  BY <1>1, SendsStay, AdmissionAssumption DEF AdmissionInv, TypeOK, CallTypes, TurnTypes,
      QueueTypes
<1>. QED  BY <1>2, <1>3, <1>4, <1>5, <1>6, <1>7, <1>8 DEF AdmissionInv, TypeOK

LEMMA DecideKeeps ==
  ASSUME AdmissionInv, Lock!LockTypeOK', Decide
  PROVE  AdmissionInv'
<1>1. /\ gate /\ gate' = FALSE
      /\ UNCHANGED <<phase, stage, queue, live, awaits, aborted, reason, finished, batch,
          sent, past>>
  BY DEF Decide, handleVars, historyVars, lockVars
<1>2. CallTypes'
  BY <1>1, AdmissionAssumption DEF AdmissionInv, TypeOK, CallTypes, TurnTypes, QueueTypes,
                                   SendStages, CancelStages
<1>3. TurnTypes'
  BY <1>1 DEF AdmissionInv, TypeOK, CallTypes, TurnTypes, QueueTypes
<1>4. QueueTypes'
  BY <1>1 DEF AdmissionInv, TypeOK, CallTypes, TurnTypes, QueueTypes
<1>5. StagesFollowLock'
  BY <1>1, AdmissionAssumption DEF AdmissionInv, TypeOK, CallTypes, TurnTypes, QueueTypes,
                                   StagesFollowLock, Lock!LockTypeOK
<1>6. LiveIsRunning' /\ GateNeedsLiveTurn'
  BY <1>1, AdmissionAssumption DEF AdmissionInv, TypeOK, CallTypes, TurnTypes, QueueTypes,
                                   LiveIsRunning, GateNeedsLiveTurn, StagesFollowLock,
              AwaitsLiveOrOver, Lock!LockTypeOK
<1>7. AwaitsLiveOrOver'
  BY <1>1, AdmissionAssumption DEF AdmissionInv, TypeOK, CallTypes, TurnTypes, QueueTypes,
                                   AwaitsLiveOrOver, StagesFollowLock, LiveIsRunning,
                                       Lock!LockTypeOK
<1>8. SendsKept'
  BY <1>1, SendsStay, AdmissionAssumption DEF AdmissionInv, TypeOK, CallTypes, TurnTypes,
      QueueTypes
<1>. QED  BY <1>2, <1>3, <1>4, <1>5, <1>6, <1>7, <1>8 DEF AdmissionInv, TypeOK

LEMMA CancelLiveKeeps ==
  ASSUME AdmissionInv, Lock!LockTypeOK', NEW k \in Cancels, CancelLive(k)
  PROVE  AdmissionInv'
<1>1. /\ stage[k] = "new" /\ live \in Sends
      /\ stage' = [stage EXCEPT ![k] = "cancelling"]
      /\ awaits' = [awaits EXCEPT ![k] = live]
      /\ aborted' = [aborted EXCEPT ![live] = TRUE]
      /\ reason' = [reason EXCEPT ![live] = "operator"]
      /\ gate' = FALSE
      /\ UNCHANGED <<phase, queue, live, finished, batch, sent, past>>
  BY DEF CancelLive, AbortLive, GoTo, historyVars, lockVars, AdmissionInv, TypeOK, CallTypes,
         TurnTypes, QueueTypes
<1>2. CallTypes'
  BY <1>1, AdmissionAssumption DEF AdmissionInv, TypeOK, CallTypes, TurnTypes, QueueTypes,
                                   SendStages, CancelStages
<1>3. TurnTypes'
  BY <1>1 DEF AdmissionInv, TypeOK, CallTypes, TurnTypes, QueueTypes
<1>4. QueueTypes'
  BY <1>1 DEF AdmissionInv, TypeOK, CallTypes, TurnTypes, QueueTypes
<1>5. StagesFollowLock'
  BY <1>1, AdmissionAssumption DEF AdmissionInv, TypeOK, CallTypes, TurnTypes, QueueTypes,
                                   StagesFollowLock, Lock!LockTypeOK
<1>6. LiveIsRunning' /\ GateNeedsLiveTurn'
  BY <1>1, AdmissionAssumption DEF AdmissionInv, TypeOK, CallTypes, TurnTypes, QueueTypes,
                                   LiveIsRunning, GateNeedsLiveTurn, StagesFollowLock,
              AwaitsLiveOrOver, Lock!LockTypeOK
<1>7. AwaitsLiveOrOver'
  BY <1>1, AdmissionAssumption DEF AdmissionInv, TypeOK, CallTypes, TurnTypes, QueueTypes,
                                   AwaitsLiveOrOver, StagesFollowLock, LiveIsRunning,
                                       Lock!LockTypeOK
<1>8. SendsKept'
  BY <1>1, SendsStay, AdmissionAssumption DEF AdmissionInv, TypeOK, CallTypes, TurnTypes,
      QueueTypes
<1>. QED  BY <1>2, <1>3, <1>4, <1>5, <1>6, <1>7, <1>8 DEF AdmissionInv, TypeOK

LEMMA CancelNothingKeeps ==
  ASSUME AdmissionInv, Lock!LockTypeOK', NEW k \in Cancels, CancelNothing(k)
  PROVE  AdmissionInv'
<1>1. /\ stage[k] = "new" /\ live = NoCall /\ gate' = FALSE
      /\ stage' = [stage EXCEPT ![k] = "returned"]
      /\ UNCHANGED <<phase, queue, live, awaits, aborted, reason, finished, batch, sent, past>>
  BY DEF CancelNothing, GoTo, handleVars, historyVars, lockVars
<1>2. CallTypes'
  BY <1>1, AdmissionAssumption DEF AdmissionInv, TypeOK, CallTypes, TurnTypes, QueueTypes,
                                   SendStages, CancelStages
<1>3. TurnTypes'
  BY <1>1 DEF AdmissionInv, TypeOK, CallTypes, TurnTypes, QueueTypes
<1>4. QueueTypes'
  BY <1>1 DEF AdmissionInv, TypeOK, CallTypes, TurnTypes, QueueTypes
<1>5. StagesFollowLock'
  BY <1>1, AdmissionAssumption DEF AdmissionInv, TypeOK, CallTypes, TurnTypes, QueueTypes,
                                   StagesFollowLock, Lock!LockTypeOK
<1>6. LiveIsRunning' /\ GateNeedsLiveTurn'
  BY <1>1, AdmissionAssumption DEF AdmissionInv, TypeOK, CallTypes, TurnTypes, QueueTypes,
                                   LiveIsRunning, GateNeedsLiveTurn, StagesFollowLock,
              AwaitsLiveOrOver, Lock!LockTypeOK
<1>7. AwaitsLiveOrOver'
  BY <1>1, AdmissionAssumption DEF AdmissionInv, TypeOK, CallTypes, TurnTypes, QueueTypes,
                                   AwaitsLiveOrOver, StagesFollowLock, LiveIsRunning,
                                       Lock!LockTypeOK
<1>8. SendsKept'
  BY <1>1, SendsStay, AdmissionAssumption DEF AdmissionInv, TypeOK, CallTypes, TurnTypes,
      QueueTypes
<1>. QED  BY <1>2, <1>3, <1>4, <1>5, <1>6, <1>7, <1>8 DEF AdmissionInv, TypeOK

LEMMA CancelReturnsKeeps ==
  ASSUME AdmissionInv, Lock!LockTypeOK', NEW k \in Cancels, CancelReturns(k)
  PROVE  AdmissionInv'
<1>1. /\ stage[k] = "cancelling" /\ finished[awaits[k]]
      /\ stage' = [stage EXCEPT ![k] = "returned"]
      /\ UNCHANGED <<phase, queue, live, awaits, aborted, reason, finished, gate, batch,
          sent, past>>
  BY DEF CancelReturns, GoTo, handleVars, historyVars, lockVars
<1>2. CallTypes'
  BY <1>1, AdmissionAssumption DEF AdmissionInv, TypeOK, CallTypes, TurnTypes, QueueTypes,
                                   SendStages, CancelStages
<1>3. TurnTypes'
  BY <1>1 DEF AdmissionInv, TypeOK, CallTypes, TurnTypes, QueueTypes
<1>4. QueueTypes'
  BY <1>1 DEF AdmissionInv, TypeOK, CallTypes, TurnTypes, QueueTypes
<1>5. StagesFollowLock'
  BY <1>1, AdmissionAssumption DEF AdmissionInv, TypeOK, CallTypes, TurnTypes, QueueTypes,
                                   StagesFollowLock, Lock!LockTypeOK
<1>6. LiveIsRunning' /\ GateNeedsLiveTurn'
  BY <1>1, AdmissionAssumption DEF AdmissionInv, TypeOK, CallTypes, TurnTypes, QueueTypes,
                                   LiveIsRunning, GateNeedsLiveTurn, StagesFollowLock,
              AwaitsLiveOrOver, Lock!LockTypeOK
<1>7. AwaitsLiveOrOver'
  BY <1>1, AdmissionAssumption DEF AdmissionInv, TypeOK, CallTypes, TurnTypes, QueueTypes,
                                   AwaitsLiveOrOver, StagesFollowLock, LiveIsRunning,
                                       Lock!LockTypeOK
<1>8. SendsKept'
  BY <1>1, SendsStay, AdmissionAssumption DEF AdmissionInv, TypeOK, CallTypes, TurnTypes,
      QueueTypes
<1>. QED  BY <1>2, <1>3, <1>4, <1>5, <1>6, <1>7, <1>8 DEF AdmissionInv, TypeOK

(* The start lock lets a starter in only when no turn is live: it takes    *)
(* the whole queue as its batch.                                           *)
LEMMA NoneLiveAtStart ==
  ASSUME AdmissionInv, Lock!MutualExclusion', NEW s \in Sends, StartTurn(s)
  PROVE  live = NoCall /\ ~gate
<1>1. phase[s] = "queued" /\ phase' = [phase EXCEPT ![s] = "inside"]
  BY LockPhases DEF StartTurn, AdmissionInv, TypeOK
<1>2. SUFFICES ASSUME live \in Sends PROVE FALSE
  BY DEF AdmissionInv, TypeOK, TurnTypes, GateNeedsLiveTurn
<1>3. phase[live] = "inside"
  BY <1>2 DEF AdmissionInv, LiveIsRunning, StagesFollowLock
<1>4. phase'[live] = "inside" /\ phase'[s] = "inside" /\ live # s
  BY <1>1, <1>2, <1>3 DEF AdmissionInv, TypeOK, Lock!LockTypeOK
<1>. QED  BY <1>2, <1>4 DEF Lock!MutualExclusion

LEMMA StartTurnKeeps ==
  ASSUME AdmissionInv, Lock!LockTypeOK', Lock!MutualExclusion', NEW s \in Sends, StartTurn(s)
  PROVE  AdmissionInv'
<1>1. /\ stage[s] = "starting" /\ stage' = [stage EXCEPT ![s] = "running"]
      /\ phase[s] = "queued" /\ phase' = [phase EXCEPT ![s] = "inside"]
      /\ queue # <<>> /\ queue' = <<>> /\ batch' = [batch EXCEPT ![s] = queue]
      /\ live = NoCall /\ live' = s /\ ~gate
      /\ UNCHANGED <<awaits, aborted, reason, finished, gate, sent, past>>
  BY LockPhases, NoneLiveAtStart DEF StartTurn, Drain, GoTo, handleVars, historyVars,
                                     AdmissionInv, TypeOK
<1>2. CallTypes'
  BY <1>1, AdmissionAssumption DEF AdmissionInv, TypeOK, CallTypes, TurnTypes, QueueTypes,
                                   SendStages, CancelStages
<1>3. TurnTypes'
  BY <1>1 DEF AdmissionInv, TypeOK, CallTypes, TurnTypes, QueueTypes
<1>4. QueueTypes'
  BY <1>1 DEF AdmissionInv, TypeOK, CallTypes, TurnTypes, QueueTypes
<1>5. StagesFollowLock'
  BY <1>1 DEF AdmissionInv, TypeOK, CallTypes, TurnTypes, QueueTypes, StagesFollowLock,
              Lock!LockTypeOK
<1>6. LiveIsRunning' /\ GateNeedsLiveTurn'
  BY <1>1, AdmissionAssumption DEF AdmissionInv, TypeOK, CallTypes, TurnTypes, QueueTypes,
                                   LiveIsRunning, GateNeedsLiveTurn
<1>7. AwaitsLiveOrOver'
  BY <1>1, AdmissionAssumption DEF AdmissionInv, TypeOK, CallTypes, TurnTypes, QueueTypes,
                                   AwaitsLiveOrOver, Lock!LockTypeOK
<1>8. SendsKept'
  <2>1. Running' = queue /\ Running = <<>>
    BY <1>1, AdmissionAssumption DEF Running, AdmissionInv, TypeOK, CallTypes, TurnTypes,
                                     QueueTypes
  <2>2. \A x \in Sends : ~Contains(<<>>, x)
    <3>1. DOMAIN <<>> = {}
      OBVIOUS
    <3>. QED  BY <3>1 DEF Contains
  <2>3. \A x \in Sends : Taken(x)' <=> Contains(queue, x) \/ Taken(x)
    BY <1>1, <2>1, <2>2 DEF Taken
  <2>4. \A x \in Sends : ~Contains(queue, x)'
    BY <1>1, <2>2
  <2>5. /\ \A x \in Sends : x # s => stage'[x] = stage[x] /\ batch'[x] = batch[x]
        /\ stage'[s] = "running" /\ batch'[s] # <<>>
    BY <1>1 DEF AdmissionInv, TypeOK, CallTypes, TurnTypes, QueueTypes
  <2>. QED  BY <1>1, <2>3, <2>4, <2>5 DEF AdmissionInv, SendsKept
<1>. QED  BY <1>2, <1>3, <1>4, <1>5, <1>6, <1>7, <1>8 DEF AdmissionInv, TypeOK

LEMMA EndTurnKeeps ==
  ASSUME AdmissionInv, Lock!LockTypeOK', NEW s \in Sends, EndTurn(s)
  PROVE  AdmissionInv'
<1>1. /\ stage[s] = "ending" /\ stage' = [stage EXCEPT ![s] = "returned"]
      /\ phase[s] = "inside" /\ phase' = [phase EXCEPT ![s] = "left"]
      /\ finished' = [finished EXCEPT ![s] = TRUE]
      /\ past' = Append(past, batch[s])
      /\ live = s /\ live' = NoCall /\ gate' = FALSE
      /\ UNCHANGED <<queue, awaits, aborted, reason, batch, sent>>
  BY LockPhases DEF EndTurn, GoTo, AdmissionInv, TypeOK, LiveIsRunning
<1>2. CallTypes'
  BY <1>1, AdmissionAssumption DEF AdmissionInv, TypeOK, CallTypes, TurnTypes, QueueTypes,
                                   SendStages, CancelStages
<1>3. TurnTypes'
  BY <1>1 DEF AdmissionInv, TypeOK, CallTypes, TurnTypes, QueueTypes
<1>4. QueueTypes'
  BY <1>1 DEF AdmissionInv, TypeOK, CallTypes, TurnTypes, QueueTypes
<1>5. StagesFollowLock'
  BY <1>1 DEF AdmissionInv, TypeOK, CallTypes, TurnTypes, QueueTypes, StagesFollowLock,
              Lock!LockTypeOK
<1>6. LiveIsRunning' /\ GateNeedsLiveTurn'
  BY <1>1, AdmissionAssumption DEF AdmissionInv, TypeOK, CallTypes, TurnTypes, QueueTypes,
                                   LiveIsRunning, GateNeedsLiveTurn
<1>7. AwaitsLiveOrOver'
  BY <1>1, AdmissionAssumption DEF AdmissionInv, TypeOK, CallTypes, TurnTypes, QueueTypes,
                                   AwaitsLiveOrOver, Lock!LockTypeOK
<1>8. SendsKept'
  <2>1. Running' = <<>> /\ Running = batch[s]
    BY <1>1, AdmissionAssumption DEF Running, AdmissionInv, TypeOK, CallTypes, TurnTypes,
                                     QueueTypes
  <2>2. \A x \in Sends : ~Contains(<<>>, x)
    <3>1. DOMAIN <<>> = {}
      OBVIOUS
    <3>. QED  BY <3>1 DEF Contains
  <2>3. \A x \in Sends : Taken(x)' <=> Taken(x)
    <3>1. batch[s] \in Seq(Sends) /\ past \in Seq(Seq(Sends))
      BY DEF AdmissionInv, TypeOK, CallTypes, TurnTypes, QueueTypes
    <3>2. ASSUME NEW x \in Sends
          PROVE  (\E i \in DOMAIN past' : Contains(past'[i], x))
                 <=> (\E i \in DOMAIN past : Contains(past[i], x)) \/ Contains(batch[s], x)
      <4> DEFINE p == Append(past, batch[s])
      <4>1. (\E i \in DOMAIN p : Contains(p[i], x))
            <=> (\E i \in DOMAIN past : Contains(past[i], x)) \/ Contains(batch[s], x)
        BY <3>1, PastAppend, Zenon
      <4>2. past' = p
        BY <1>1
      <4> HIDE DEF p
      <4>. QED  BY <4>1, <4>2
    <3>3. \A x \in Sends : ~Contains(Running', x) /\ (Contains(Running,
        x) <=> Contains(batch[s], x))
      BY <2>1, <2>2
    <3>. QED  BY <3>2, <3>3 DEF Taken
  <2>4. \A x \in Sends : Contains(queue, x)' <=> Contains(queue, x)
    BY <1>1
  <2>5. \A x \in Sends : x # s => stage'[x] = stage[x]
    BY <1>1 DEF AdmissionInv, TypeOK, CallTypes, TurnTypes, QueueTypes
  <2>6. stage'[s] = "returned"
    BY <1>1 DEF AdmissionInv, TypeOK, CallTypes, TurnTypes, QueueTypes
  <2>. QED  BY <1>1, <2>3, <2>4, <2>5, <2>6 DEF AdmissionInv, SendsKept
<1>. QED  BY <1>2, <1>3, <1>4, <1>5, <1>6, <1>7, <1>8 DEF AdmissionInv, TypeOK

LEMMA StutterKeeps == ASSUME AdmissionInv, UNCHANGED vars PROVE AdmissionInv'
BY DEF vars, lockVars, handleVars, historyVars, AdmissionInv, TypeOK, CallTypes, TurnTypes,
       QueueTypes, Lock!LockTypeOK,
       StagesFollowLock, LiveIsRunning, GateNeedsLiveTurn, AwaitsLiveOrOver, SendsKept, Taken,
       Running, Contains

LEMMA AdmissionStep ==
  ASSUME AdmissionInv, Lock!LockTypeOK', Lock!MutualExclusion', [Next]_vars
  PROVE  AdmissionInv'
<1>1. ASSUME NEW s \in Sends, SendDuringTurn(s) \/ SendWhenIdle(s) PROVE AdmissionInv'
  BY <1>1, SendDuringTurnKeeps, SendWhenIdleKeeps
<1>2. ASSUME NEW s \in Sends, Admit(s) PROVE AdmissionInv'
  BY <1>2, ReplacedKeeps, StartTurnKeeps, StartEmptyKeeps, ReturnEmptyKeeps DEF Admit
<1>3. ASSUME NEW s \in Sends, OpenGate(s) \/ RequestAborted(s) PROVE AdmissionInv'
  BY <1>3, OpenGateKeeps, RequestAbortedKeeps
<1>4. ASSUME NEW s \in Sends, Finish(s) PROVE AdmissionInv'
  BY <1>4, DecideTerminalKeeps, EndTurnKeeps DEF Finish
<1>5. CASE Decide
  BY <1>5, DecideKeeps
<1>6. ASSUME NEW k \in Cancels, CancelLive(k) \/ CancelNothing(k) \/ CancelReturns(k)
      PROVE  AdmissionInv'
  BY <1>6, CancelLiveKeeps, CancelNothingKeeps, CancelReturnsKeeps
<1>7. CASE UNCHANGED vars
  BY <1>7, StutterKeeps
<1>. QED  BY <1>1, <1>2, <1>3, <1>4, <1>5, <1>6, <1>7 DEF Next

LEMMA AdmissionCorrect == Spec => [](AdmissionInv /\ Lock!MutualExclusion)
<1>1. LockProofs!LockSpec => []LockProofs!ChainInv
  BY LockProofs!ChainCorrect, LockConstants
<1>2. AdmissionInv /\ LockProofs!ChainInv' /\ [Next]_vars => AdmissionInv'
  <2>1. LockProofs!ChainInv' => (Lock!LockTypeOK /\ Lock!MutualExclusion)'
    BY ChainTypes, PTL
  <2>. QED  BY <2>1, AdmissionStep
<1>. QED  BY <1>1, <1>2, ChainTypes, AdmissionInit, AdmissionLockSpec, PTL DEF Spec

-----------------------------------------------------------------------------
(* Every variable of the controller keeps its type.                        *)
THEOREM AdmissionTypes == Spec => []TypeOK
BY AdmissionCorrect, PTL DEF AdmissionInv

(* At most one turn of a session is live, it is the one whose executeTurn  *)
(* runs, and it is behind the start lock, for any number of sends.         *)
THEOREM OneTurnIsLive == Spec => []OneLiveTurn
<1>1. AdmissionInv /\ Lock!MutualExclusion => OneLiveTurn
  BY DEF AdmissionInv, TypeOK, CallTypes, SendStages, StagesFollowLock, LiveIsRunning,
         OneLiveTurn
<1>. QED  BY <1>1, AdmissionCorrect, PTL

(* No gate waiter is left that could resume a turn told to stop: neither   *)
(* a cancel, nor a follow-up, nor the request's own signal leaves one.     *)
THEOREM GatesAreOfLiveTurns == Spec => []GateNeedsLiveTurn
BY AdmissionCorrect, PTL DEF AdmissionInv

(* A replaced or cancelled turn has given up the live slot and the start   *)
(* lock before whoever replaced or cancelled it goes on.                   *)
THEOREM WaitersSeeTheEnd == Spec => []WaiterSeesEnd
<1>1. AdmissionInv => WaiterSeesEnd
  <2> SUFFICES ASSUME AdmissionInv, NEW x \in Sends \cup Cancels, awaits[x] # NoCall,
                      stage[x] \notin {"replacing", "cancelling"}
               PROVE  live # awaits[x] /\ phase[awaits[x]] = "left"
    BY DEF WaiterSeesEnd
  <2>1. awaits[x] \in Sends /\ phase[awaits[x]] = "left"
    BY DEF AdmissionInv, TypeOK, CallTypes, AwaitsLiveOrOver
  <2>. QED  BY <2>1 DEF AdmissionInv, StagesFollowLock, LiveIsRunning
<1>. QED  BY <1>1, AdmissionCorrect, PTL

(* A runTurn stream that ends empty belongs to a send another starter has  *)
(* taken into its turn: no send is dropped.                                *)
THEOREM NoSendIsDropped == Spec => []EmptyStreamWasDrained
<1>1. AdmissionInv => EmptyStreamWasDrained
  BY DEF AdmissionInv, SendsKept, Taken, EmptyStreamWasDrained
<1>. QED  BY <1>1, AdmissionCorrect, PTL

-----------------------------------------------------------------------------
(* The controller implements SerialTurns: a queued send arrives, the start *)
(* of a turn begins, its end ends, and every other step is invisible.      *)

LEMMA ArrivedIsTaken ==
  ASSUME NEW s \in Sends
  PROVE  Serial!Arrived(s) <=> Contains(queue, s) \/ Taken(s)
BY DEF Serial!Arrived, Serial!Contains, Contains, Taken

LEMMA QueueingArrives ==
  ASSUME AdmissionInv, NEW s \in Sends, SendDuringTurn(s) \/ SendWhenIdle(s)
  PROVE  Serial!Arrive(s)
<1>1. stage[s] = "new" /\ queue' = Append(queue, s) /\ UNCHANGED <<live, batch, past>>
  BY DEF SendDuringTurn, SendWhenIdle
<1>2. Running' = Running
  BY <1>1 DEF Running
<1>3. ~Serial!Arrived(s)
  BY <1>1, ArrivedIsTaken DEF AdmissionInv, SendsKept
<1>. QED  BY <1>1, <1>2, <1>3 DEF Serial!Arrive

LEMMA StartBegins ==
  ASSUME AdmissionInv, Lock!MutualExclusion', NEW s \in Sends, StartTurn(s)
  PROVE  Serial!Begin
<1>1. live = NoCall /\ live' = s /\ s # NoCall
  BY NoneLiveAtStart, AdmissionAssumption DEF StartTurn
<1>2. queue # <<>> /\ queue' = <<>> /\ batch' = [batch EXCEPT ![s] = queue] /\ past' = past
  BY DEF StartTurn, Drain, historyVars
<1>3. Running = <<>> /\ Running' = queue
  BY <1>1, <1>2 DEF Running, AdmissionInv, TypeOK, QueueTypes
<1>. QED  BY <1>2, <1>3 DEF Serial!Begin

LEMMA EndEnds ==
  ASSUME AdmissionInv, NEW s \in Sends, EndTurn(s)
  PROVE  Serial!End
<1>1. live = s /\ live' = NoCall /\ s # NoCall /\ batch[s] # <<>>
  BY AdmissionAssumption DEF EndTurn, AdmissionInv, LiveIsRunning, SendsKept
<1>2. Running = batch[s] /\ Running' = <<>>
  BY <1>1 DEF Running
<1>3. past' = Append(past, batch[s]) /\ queue' = queue
  BY DEF EndTurn
<1>. QED  BY <1>1, <1>2, <1>3 DEF Serial!End

LEMMA OtherStepsAreInvisible ==
  ASSUME UNCHANGED <<queue, live, batch, past>>
  PROVE  UNCHANGED Serial!turnsVars
BY DEF Serial!turnsVars, Running

(* Seen from outside the controller is the serial service of SerialTurns:  *)
(* sends arrive in the inbox, a turn takes all of it at once when none is  *)
(* under way, and ends (runTurn, drainFollowUps).                          *)
THEOREM ControllerIsSerial == Spec => ImplementsSerialTurns
<1>1. Init => Serial!Init
  BY DEF Init, Serial!Init, Running
<1>2. AdmissionInv /\ Lock!MutualExclusion' /\ [Next]_vars => [Serial!Next]_(Serial!turnsVars)
  <2> SUFFICES ASSUME AdmissionInv, Lock!MutualExclusion', [Next]_vars
               PROVE  Serial!Next \/ UNCHANGED Serial!turnsVars
    OBVIOUS
  <2>1. ASSUME NEW s \in Sends, SendDuringTurn(s) \/ SendWhenIdle(s) PROVE Serial!Next
    BY <2>1, QueueingArrives DEF Serial!Next
  <2>2. ASSUME NEW s \in Sends, StartTurn(s) PROVE Serial!Next
    BY <2>2, StartBegins DEF Serial!Next
  <2>3. ASSUME NEW s \in Sends, EndTurn(s) PROVE Serial!Next
    BY <2>3, EndEnds DEF Serial!Next
  <2>4. ASSUME NEW s \in Sends, Replaced(s) \/ StartEmpty(s) \/ ReturnEmpty(s)
        PROVE  UNCHANGED <<queue, live, batch, past>>
    BY <2>4 DEF Replaced, StartEmpty, ReturnEmpty, historyVars
  <2>5. ASSUME NEW s \in Sends, OpenGate(s) \/ RequestAborted(s) \/ DecideTerminal(s)
        PROVE  UNCHANGED <<queue, live, batch, past>>
    BY <2>5 DEF OpenGate, RequestAborted, DecideTerminal, historyVars
  <2>6. ASSUME NEW k \in Cancels, CancelLive(k) \/ CancelNothing(k) \/ CancelReturns(k)
        PROVE  UNCHANGED <<queue, live, batch, past>>
    BY <2>6 DEF CancelLive, CancelNothing, CancelReturns, historyVars
  <2>7. Decide \/ UNCHANGED vars => UNCHANGED <<queue, live, batch, past>>
    BY DEF Decide, vars, historyVars
  <2>. QED
    BY <2>1, <2>2, <2>3, <2>4, <2>5, <2>6, <2>7, OtherStepsAreInvisible DEF Next, Admit, Finish
<1>. QED  BY <1>1, <1>2, AdmissionCorrect, PTL DEF Spec, ImplementsSerialTurns, Serial!Spec

(* A call that has not gone live has not been told to stop.                *)
FreshIsUntold ==
  \A s \in Sends : stage[s] \in {"new", "replacing", "starting", "empty"} => ~aborted[s]

LEMMA FreshKept ==
  ASSUME AdmissionInv, FreshIsUntold, [Next]_vars
  PROVE  FreshIsUntold'
<1> USE DEF AdmissionInv, TypeOK, CallTypes, TurnTypes, LiveIsRunning, FreshIsUntold, GoTo
<1>1. ASSUME NEW s \in Sends, SendDuringTurn(s) PROVE FreshIsUntold'
  BY <1>1 DEF SendDuringTurn, AbortLive
<1>2. ASSUME NEW k \in Cancels, CancelLive(k) PROVE FreshIsUntold'
  BY <1>2, AdmissionAssumption DEF CancelLive, AbortLive
<1>3. ASSUME NEW s \in Sends, RequestAborted(s) PROVE FreshIsUntold'
  BY <1>3 DEF RequestAborted
<1>4. ASSUME NEW s \in Sends,
             SendWhenIdle(s) \/ Admit(s) \/ OpenGate(s) \/ Finish(s)
      PROVE  FreshIsUntold'
  BY <1>4 DEF SendWhenIdle, Admit, Replaced, StartTurn, StartEmpty, ReturnEmpty, OpenGate,
              Finish, DecideTerminal, EndTurn, handleVars
<1>5. ASSUME NEW k \in Cancels, CancelNothing(k) \/ CancelReturns(k) PROVE FreshIsUntold'
  BY <1>5, AdmissionAssumption DEF CancelNothing, CancelReturns, handleVars
<1>6. CASE Decide \/ UNCHANGED vars
  BY <1>6 DEF Decide, vars, handleVars
<1>. QED  BY <1>1, <1>2, <1>3, <1>4, <1>5, <1>6 DEF Next

(* What the controller shows, in each of the states of the live turn.      *)
LEMMA LifeNowIs ==
  /\ live = NoCall => LifeNow = "none"
  /\ (live # NoCall /\ stage[live] = "ending") => LifeNow = "ending"
  /\ (live # NoCall /\ stage[live] # "ending" /\ gate) => LifeNow = "waiting"
  /\ (live # NoCall /\ stage[live] # "ending" /\ ~gate) => LifeNow = "working"
BY DEF LifeNow

LEMMA LifeNowIsNext ==
  /\ live' = NoCall => LifeNow' = "none"
  /\ (live' # NoCall /\ stage'[live'] = "ending") => LifeNow' = "ending"
  /\ (live' # NoCall /\ stage'[live'] # "ending" /\ gate') => LifeNow' = "waiting"
  /\ (live' # NoCall /\ stage'[live'] # "ending" /\ ~gate') => LifeNow' = "working"
BY DEF LifeNow

LEMMA ToldNowIsNext == ToldNow' = (live' # NoCall /\ aborted'[live'])
BY DEF ToldNow

(* Telling the live turn to stop wakes it if it waits, whoever tells it    *)
(* and whatever call that moves on.                                        *)
LEMMA TellingIsTell ==
  ASSUME TurnTypes, live # NoCall, live' = live, gate' = FALSE,
         aborted' = [aborted EXCEPT ![live] = TRUE], stage'[live] = stage[live]
  PROVE  Life!Tell
<1> USE DEF TurnTypes
<1>1. ToldNow' = TRUE
  BY ToldNowIsNext
<1>2. CASE stage[live] = "ending"
  BY <1>1, <1>2, LifeNowIs, LifeNowIsNext DEF Life!Tell
<1>3. CASE stage[live] # "ending" /\ gate
  BY <1>1, <1>3, LifeNowIs, LifeNowIsNext DEF Life!Tell
<1>4. CASE stage[live] # "ending" /\ ~gate
  BY <1>1, <1>4, LifeNowIs, LifeNowIsNext DEF Life!Tell
<1>. QED  BY <1>2, <1>3, <1>4 DEF TurnTypes

(* What the turn shows does not change while nothing it is made of does.   *)
LEMMA SameLife ==
  ASSUME live' = live, gate' = gate, aborted' = aborted,
         live # NoCall => (stage'[live] = "ending") = (stage[live] = "ending")
  PROVE  UNCHANGED Life!lifeVars
BY DEF Life!lifeVars, LifeNow, ToldNow

LEMMA StepOfLife ==
  ASSUME AdmissionInv, FreshIsUntold, Lock!MutualExclusion', [Next]_vars
  PROVE  [Life!Next]_(Life!lifeVars)
<1> USE AdmissionAssumption
    DEF AdmissionInv, TypeOK, CallTypes, TurnTypes, LiveIsRunning, GateNeedsLiveTurn, GoTo
<1>0. live # NoCall => live \in Sends /\ stage[live] \in {"running", "ending"}
  OBVIOUS
<1>1. ASSUME NEW s \in Sends, SendDuringTurn(s) PROVE Life!Tell
  BY <1>0, <1>1, TellingIsTell DEF SendDuringTurn, AbortLive
<1>2. ASSUME NEW k \in Cancels, CancelLive(k) PROVE Life!Tell
  BY <1>0, <1>2, TellingIsTell DEF CancelLive, AbortLive
<1>3. ASSUME NEW s \in Sends, RequestAborted(s) PROVE Life!Tell
  BY <1>0, <1>3, TellingIsTell DEF RequestAborted
<1>4. ASSUME NEW s \in Sends, StartTurn(s) PROVE Life!Start
  <2>1. live = NoCall
    BY <1>4, NoneLiveAtStart
  <2>2. live' = s /\ stage'[s] = "running" /\ ~gate' /\ s # NoCall /\ ~aborted'[s]
    BY <1>4, <2>1 DEF StartTurn, FreshIsUntold, handleVars
  <2>. QED  BY <2>1, <2>2, LifeNowIs, LifeNowIsNext, ToldNowIsNext DEF Life!Start
<1>5. ASSUME NEW s \in Sends, OpenGate(s) PROVE Life!Wait
  <2>1. live = s /\ live' = s /\ stage' = stage /\ aborted' = aborted /\ gate' /\ ~gate
        /\ ~aborted[s] /\ stage[s] # "ending" /\ s # NoCall
    BY <1>5 DEF OpenGate, handleVars
  <2>2. ~ToldNow /\ ToldNow' = ToldNow
    BY <2>1, ToldNowIsNext DEF ToldNow
  <2>. QED  BY <2>1, <2>2, LifeNowIs, LifeNowIsNext DEF Life!Wait
<1>6. CASE Decide
  <2>1. live # NoCall /\ live' = live /\ stage' = stage /\ aborted' = aborted
        /\ gate /\ gate' = FALSE
    BY <1>6 DEF Decide, handleVars
  <2>2. ToldNow' = ToldNow
    BY <2>1 DEF ToldNow
  <2>3. CASE stage[live] = "ending"
    BY <2>1, <2>2, <2>3, LifeNowIs, LifeNowIsNext DEF Life!lifeVars
  <2>4. CASE stage[live] # "ending"
    BY <2>1, <2>2, <2>4, LifeNowIs, LifeNowIsNext DEF Life!GoOn, Life!Next
  <2>. QED  BY <2>3, <2>4 DEF Life!Next
<1>7. ASSUME NEW s \in Sends, DecideTerminal(s) PROVE Life!Decide
  <2>1. live = s /\ live' = s /\ s # NoCall /\ stage[s] # "ending" /\ ~gate
        /\ stage'[s] = "ending" /\ aborted' = aborted
    BY <1>7 DEF DecideTerminal, handleVars
  <2>2. ToldNow' = ToldNow
    BY <2>1 DEF ToldNow
  <2>. QED  BY <2>1, <2>2, LifeNowIs, LifeNowIsNext DEF Life!Decide
<1>8. ASSUME NEW s \in Sends, EndTurn(s) PROVE Life!End
  <2>1. live = s /\ live' = NoCall /\ s # NoCall /\ stage[s] = "ending"
    BY <1>8 DEF EndTurn
  <2>. QED  BY <2>1, LifeNowIs, LifeNowIsNext, ToldNowIsNext DEF Life!End
<1>9. ASSUME NEW s \in Sends,
             SendWhenIdle(s) \/ Replaced(s) \/ StartEmpty(s) \/ ReturnEmpty(s)
      PROVE  UNCHANGED Life!lifeVars
  <2>1. s # live
    BY <1>9 DEF SendWhenIdle, Replaced, StartEmpty, ReturnEmpty
  <2>2. live' = live /\ gate' = gate /\ aborted' = aborted
    BY <1>9 DEF SendWhenIdle, Replaced, StartEmpty, ReturnEmpty, handleVars
  <2>3. live # NoCall => stage'[live] = stage[live]
    BY <1>9, <2>1 DEF SendWhenIdle, Replaced, StartEmpty, ReturnEmpty
  <2>. QED  BY <2>2, <2>3, SameLife
<1>10. ASSUME NEW k \in Cancels, CancelNothing(k) \/ CancelReturns(k)
       PROVE  UNCHANGED Life!lifeVars
  <2>1. live' = live /\ aborted' = aborted /\ gate' = gate
    BY <1>10 DEF CancelNothing, CancelReturns, handleVars
  <2>2. live # NoCall => stage'[live] = stage[live]
    BY <1>0, <1>10 DEF CancelNothing, CancelReturns
  <2>. QED  BY <2>1, <2>2, SameLife
<1>11. CASE UNCHANGED vars
  BY <1>11, SameLife DEF vars, handleVars
<1>. QED
  BY <1>1, <1>2, <1>3, <1>4, <1>5, <1>6, <1>7, <1>8, <1>9, <1>10, <1>11
  DEF Next, Admit, Finish, Life!Next

(* The controller gives each turn the life TurnGates shows executeTurn to  *)
(* lead: fresh and untold when it goes live, told before it is replaced or *)
(* cancelled, and not waiting for a person from then on.                   *)
THEOREM ControllerAdmitsLives == Spec => ImplementsTurnLife
<1>1. Init => Life!Init /\ FreshIsUntold
  BY LifeNowIs DEF Init, Life!Init, FreshIsUntold, ToldNow
<1>2. Spec => [](AdmissionInv /\ Lock!MutualExclusion)
  BY AdmissionCorrect
<1>3. Spec => []FreshIsUntold
  BY <1>1, <1>2, FreshKept, PTL DEF Spec
<1>4. AdmissionInv /\ FreshIsUntold /\ Lock!MutualExclusion' /\ [Next]_vars
      => [Life!Next]_(Life!lifeVars)
  BY StepOfLife
<1>. QED  BY <1>1, <1>2, <1>3, <1>4, PTL DEF Spec, ImplementsTurnLife, Life!Spec
=============================================================================
