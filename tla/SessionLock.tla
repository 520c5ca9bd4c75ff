---------------------------- MODULE SessionLock ----------------------------
(***************************************************************************)
(* The promise-chain lock.  Two places of the repository serialize work    *)
(* per session with the same construction and no lock object at all:       *)
(*                                                                         *)
(*   - CachedSessionStore.runExclusive (core/src/session-cache.ts), whose  *)
(*     chain is `tails` and which forgets a settled tail;                  *)
(*   - runTurn (core/src/turn-loop.ts), whose chain is `startLocks` and    *)
(*     which never forgets one.                                            *)
(*                                                                         *)
(* A call reads the tail promise of its session, makes                     *)
(* previous.then(() => ours) the new tail, awaits `previous`, runs its     *)
(* section and resolves `ours`.  A promise is named here by the call that  *)
(* made it; it is settled once that call has left its section, because the *)
(* call only ran after everything before it in the chain was settled.      *)
(***************************************************************************)
EXTENDS Naturals

CONSTANTS Calls,        \* the runExclusive / runTurn calls, each made once
          Sessions,     \* the session ids
          SessionOf,    \* the session a call is for
          NoCall,       \* no promise in the map: Promise.resolve() is awaited
          DropsTail     \* TRUE for session-cache.ts, FALSE for turn-loop.ts

ASSUME LockAssumption ==
  /\ SessionOf \in [Calls -> Sessions]
  /\ NoCall \notin Calls
  /\ DropsTail \in BOOLEAN

VARIABLES phase,        \* where a call is: idle, queued, inside, left
          tails,        \* the Map from a session to its tail promise
          previous,     \* the promise a call awaits, captured as it queued
          ticket,       \* history: the place of a call in its session's line
          arrivals      \* history: how many calls a session has queued

lockVars == <<phase, tails, previous, ticket, arrivals>>

Phases == {"idle", "queued", "inside", "left"}

LockTypeOK ==
  /\ phase \in [Calls -> Phases]
  /\ tails \in [Sessions -> Calls \cup {NoCall}]
  /\ previous \in [Calls -> Calls \cup {NoCall}]
  /\ ticket \in [Calls -> Nat]
  /\ arrivals \in [Sessions -> Nat]

LockInit ==
  /\ phase = [c \in Calls |-> "idle"]
  /\ tails = [s \in Sessions |-> NoCall]
  /\ previous = [c \in Calls |-> NoCall]
  /\ ticket = [c \in Calls |-> 0]
  /\ arrivals = [s \in Sessions |-> 0]

-----------------------------------------------------------------------------
Queued(c) == phase[c] \in {"queued", "inside", "left"}
Settled(p) == p # NoCall => phase[p] = "left"

(* Mutant: the tail is read but the new promise is never stored.            *)
EnqueueUnlinked(c) ==
  /\ phase[c] = "idle"
  /\ phase' = [phase EXCEPT ![c] = "queued"]
  /\ previous' = [previous EXCEPT ![c] = tails[SessionOf[c]]]
  /\ ticket' = [ticket EXCEPT ![c] = arrivals[SessionOf[c]] + 1]
  /\ arrivals' = [arrivals EXCEPT ![SessionOf[c]] = @ + 1]
  /\ UNCHANGED tails

(* Mutant: the call awaits the promise it has just made.                   *)
EnqueueAwaitsItself(c) ==
  /\ phase[c] = "idle"
  /\ phase' = [phase EXCEPT ![c] = "queued"]
  /\ previous' = [previous EXCEPT ![c] = c]
  /\ tails' = [tails EXCEPT ![SessionOf[c]] = c]
  /\ ticket' = [ticket EXCEPT ![c] = arrivals[SessionOf[c]] + 1]
  /\ arrivals' = [arrivals EXCEPT ![SessionOf[c]] = @ + 1]

(* Up to `await previous`: no await separates the read of the tail from the *)
(* write of the new one.                                                    *)
Enqueue(c) ==
  LET s == SessionOf[c]
  IN  /\ phase[c] = "idle"
      /\ phase' = [phase EXCEPT ![c] = "queued"]
      /\ previous' = [previous EXCEPT ![c] = tails[s]]
      /\ tails' = [tails EXCEPT ![s] = c]
      /\ ticket' = [ticket EXCEPT ![c] = arrivals[s] + 1]
      /\ arrivals' = [arrivals EXCEPT ![s] = @ + 1]

(* `await previous` returns.                                                *)
Enter(c) ==
  /\ phase[c] = "queued"
  /\ Settled(previous[c])
  /\ phase' = [phase EXCEPT ![c] = "inside"]
  /\ UNCHANGED <<tails, previous, ticket, arrivals>>

(* Mutant of the finally block: the tail is never forgotten.               *)
TailNeverDropped(c) == tails

(* The tail promise is forgotten only by the call that made it.             *)
TailAfter(c) ==
  LET s == SessionOf[c]
  IN  IF DropsTail /\ tails[s] = c THEN [tails EXCEPT ![s] = NoCall] ELSE tails

(* The finally block, reached whether the section returned or threw.        *)
Leave(c) ==
  /\ phase[c] = "inside"
  /\ phase' = [phase EXCEPT ![c] = "left"]
  /\ tails' = TailAfter(c)
  /\ UNCHANGED <<previous, ticket, arrivals>>

LockNext == \E c \in Calls : Enqueue(c) \/ Enter(c) \/ Leave(c)

LockSpec == LockInit /\ [][LockNext]_lockVars

(* `await previous` resumes once it can, and a section returns or throws:   *)
(* a section of session-cache.ts only awaits the store behind it.           *)
LockFairness == \A c \in Calls : WF_lockVars(Enter(c)) /\ WF_lockVars(Leave(c))

FairLockSpec == LockSpec /\ LockFairness

-----------------------------------------------------------------------------
(* At most one section of a session runs at a time (the lock of            *)
(* session-cache.ts, the start lock of turn-loop.ts), although nothing but *)
(* the order of two Map accesses and the settling of promises enforces it. *)
MutualExclusion ==
  \A c, d \in Calls :
    (phase[c] = "inside" /\ phase[d] = "inside" /\ SessionOf[c] = SessionOf[d]) => c = d

(* Calls of one session that have queued, d before c.                      *)
Before(d, c) ==
  /\ SessionOf[d] = SessionOf[c]
  /\ Queued(d)
  /\ ticket[d] < ticket[c]

(* What makes MutualExclusion inductive: tickets are distinct; the promise *)
(* a call awaits is the one just before its own, or everything before it   *)
(* has left; the tail is the last promise made, or every call has left;    *)
(* and a call goes in only behind calls that have all left.                *)
TicketsDistinct ==
  \A c, d \in Calls :
    (Queued(c) /\ Queued(d) /\ SessionOf[c] = SessionOf[d] /\ ticket[c] = ticket[d]) => c = d

TicketsIssued ==
  \A c \in Calls : Queued(c) => ticket[c] \in 1..arrivals[SessionOf[c]]

AwaitsPredecessor ==
  \A c \in Calls : Queued(c) =>
    IF previous[c] = NoCall
    THEN \A d \in Calls : Before(d, c) => phase[d] = "left"
    ELSE /\ Before(previous[c], c)
         /\ ticket[previous[c]] = ticket[c] - 1

TailIsLast ==
  \A s \in Sessions :
    IF tails[s] = NoCall
    THEN \A d \in Calls : (SessionOf[d] = s /\ Queued(d)) => phase[d] = "left"
    ELSE /\ SessionOf[tails[s]] = s
         /\ Queued(tails[s])
         /\ ticket[tails[s]] = arrivals[s]

InsideIsFirst ==
  \A c, d \in Calls : (phase[c] \in {"inside", "left"} /\ Before(d, c)) => phase[d] = "left"

ChainInv ==
  /\ LockTypeOK
  /\ TicketsDistinct
  /\ TicketsIssued
  /\ AwaitsPredecessor
  /\ TailIsLast
  /\ InsideIsFirst

(* "Drop settled tails so the map does not grow without bound for idle     *)
(* ids": an idle session keeps no entry (session-cache.ts only).           *)
IdleSessionHasNoTail ==
  DropsTail =>
    \A s \in Sessions :
      tails[s] # NoCall =>
        \E c \in Calls : SessionOf[c] = s /\ phase[c] \in {"queued", "inside"}

(* The line of a session: its calls from the first that has not left, in   *)
(* the order in which they came.                                           *)
Holds(c, s, n) == SessionOf[c] = s /\ Queued(c) /\ ticket[c] = n
HaveLeft(s, n) ==
  \A c \in Calls : SessionOf[c] = s /\ Queued(c) /\ ticket[c] <= n => phase[c] = "left"

Gone(s) ==
  CHOOSE n \in 0..arrivals[s] : HaveLeft(s, n) /\ (n = arrivals[s] \/ ~HaveLeft(s, n + 1))
Holder(s, n) == CHOOSE c \in Calls : Holds(c, s, n)
LineOf(s) == [i \in 1..(arrivals[s] - Gone(s)) |-> Holder(s, Gone(s) + i)]
SomeoneInside(s) == \E c \in Calls : SessionOf[c] = s /\ phase[c] = "inside"

Fifo == INSTANCE FifoLock WITH
  line <- [s \in Sessions |-> LineOf(s)],
  busy <- [s \in Sessions |-> SomeoneInside(s)]

(* The chain of promises is a first-come-first-served lock: whatever calls *)
(* come and go between the awaits, the first in line is let in when nobody *)
(* is inside, and it alone leaves (runExclusive, startLocks).              *)
ImplementsFifoLock == Fifo!Spec

(* No call waits forever: the chain has no cycle and no lost wake-up.      *)
EveryCallGetsIn == \A c \in Calls : phase[c] = "queued" ~> phase[c] = "left"
=============================================================================
