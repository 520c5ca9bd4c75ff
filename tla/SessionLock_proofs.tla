------------------------- MODULE SessionLock_proofs -------------------------
(***************************************************************************)
(* Proofs about the promise-chain lock, for every set of calls and of      *)
(* sessions.  The argument is the one of a ticket lock: tickets are given  *)
(* out in the order of the chain, the promise a call awaits is that of the *)
(* ticket just before its own, and so a call that gets in has only calls   *)
(* that left before it.                                                    *)
(***************************************************************************)
EXTENDS SessionLock, SequenceTheorems, TLAPS

(* The chain starts empty.                                                 *)
LEMMA ChainInit == LockInit => ChainInv
<1>1. SUFFICES ASSUME LockInit PROVE ChainInv
  OBVIOUS
<1>2. LockTypeOK
  BY <1>1, LockAssumption DEF LockInit, LockTypeOK, Phases
<1>3. TicketsDistinct /\ TicketsIssued /\ AwaitsPredecessor /\ TailIsLast /\ InsideIsFirst
  BY <1>1, LockAssumption
  DEF LockInit, TicketsDistinct, TicketsIssued, AwaitsPredecessor, TailIsLast,
      InsideIsFirst, Queued, Before
<1>. QED  BY <1>2, <1>3 DEF ChainInv

(* A call that queues takes the next ticket and awaits the last promise    *)
(* made, which is that of the ticket before.                               *)
LEMMA ChainEnqueue ==
  ASSUME ChainInv, NEW c \in Calls, Enqueue(c)
  PROVE  ChainInv'
<1> DEFINE s == SessionOf[c]
<1>1. /\ LockTypeOK /\ TicketsDistinct /\ TicketsIssued
      /\ AwaitsPredecessor /\ TailIsLast /\ InsideIsFirst
  BY DEF ChainInv
<1>2. /\ s \in Sessions
      /\ phase[c] = "idle"
      /\ phase' = [phase EXCEPT ![c] = "queued"]
      /\ previous' = [previous EXCEPT ![c] = tails[s]]
      /\ tails' = [tails EXCEPT ![s] = c]
      /\ ticket' = [ticket EXCEPT ![c] = arrivals[s] + 1]
      /\ arrivals' = [arrivals EXCEPT ![s] = @ + 1]
  BY LockAssumption DEF Enqueue
<1>3. LockTypeOK'
  BY <1>1, <1>2, LockAssumption DEF LockTypeOK, Phases
<1>4. /\ arrivals[s] \in Nat
      /\ arrivals'[s] = arrivals[s] + 1
      /\ \A x \in Sessions : x # s => arrivals'[x] = arrivals[x]
      /\ \A x \in Sessions : arrivals[x] \in Nat
      /\ ticket'[c] = arrivals[s] + 1
      /\ phase'[c] = "queued"
      /\ previous'[c] = tails[s]
      /\ tails'[s] = c
      /\ \A x \in Sessions : x # s => tails'[x] = tails[x]
      /\ \A d \in Calls : d # c =>
           ticket'[d] = ticket[d] /\ phase'[d] = phase[d] /\ previous'[d] = previous[d]
      /\ \A d \in Calls : ticket[d] \in Nat
      /\ \A d \in Calls : SessionOf[d] \in Sessions
  BY <1>1, <1>2, LockAssumption DEF LockTypeOK
<1>5. \A d \in Calls : (d # c /\ Queued(d) /\ SessionOf[d] = s) => ticket[d] \in 1..arrivals[s]
  BY <1>1 DEF TicketsIssued
<1>6. \A d \in Calls : Queued(d)' <=> (d = c \/ Queued(d))
  BY <1>4 DEF Queued
<1>7. ~Queued(c)
  BY <1>2 DEF Queued
<1>8. \A d, e \in Calls : Queued(e) => (Before(d, e)' <=> Before(d, e))
  <2>1. SUFFICES ASSUME NEW d \in Calls, NEW e \in Calls, Queued(e)
                 PROVE  Before(d, e)' <=> Before(d, e)
    OBVIOUS
  <2>2. e # c /\ ticket'[e] = ticket[e]
    BY <2>1, <1>4, <1>7
  <2>3. CASE d = c
    <3>1. ~Before(d, e)
      BY <2>3, <1>7 DEF Before
    <3>2. ASSUME SessionOf[e] = s PROVE ticket[e] <= arrivals[s]
      BY <3>2, <2>1, <2>2, <1>5, <1>4
    <3>3. ~Before(d, e)'
      BY <3>2, <2>2, <2>3, <1>4 DEF Before
    <3>. QED  BY <3>1, <3>3
  <2>4. CASE d # c
    BY <2>1, <2>2, <2>4, <1>4, <1>6 DEF Before
  <2>. QED  BY <2>3, <2>4
<1>9. \A d \in Calls : (SessionOf[d] = s /\ Queued(d)) => Before(d, c)'
  BY <1>4, <1>5, <1>6, <1>7 DEF Before
<1>10. \A d \in Calls : Before(d, c)' => SessionOf[d] = s /\ Queued(d) /\ d # c
  BY <1>4, <1>6 DEF Before
<1>11. TicketsDistinct'
  BY <1>1, <1>4, <1>5, <1>6 DEF TicketsDistinct
<1>12. TicketsIssued'
  <2>1. SUFFICES ASSUME NEW d \in Calls, Queued(d)'
                 PROVE  ticket'[d] \in 1..arrivals'[SessionOf[d]]
    BY DEF TicketsIssued
  <2>2. CASE d = c
    BY <2>2, <1>4
  <2>3. CASE d # c
    <3>1. ticket[d] \in 1..arrivals[SessionOf[d]]
      BY <2>1, <2>3, <1>1, <1>6 DEF TicketsIssued
    <3>2. arrivals'[SessionOf[d]] >= arrivals[SessionOf[d]]
      BY <1>4
    <3>. QED  BY <3>1, <3>2, <2>3, <1>4
  <2>. QED  BY <2>2, <2>3
<1>13. AwaitsPredecessor'
  <2>1. SUFFICES ASSUME NEW e \in Calls, Queued(e)'
                 PROVE  IF previous'[e] = NoCall
                        THEN \A d \in Calls : Before(d, e)' => phase'[d] = "left"
                        ELSE /\ Before(previous[e], e)'
                             /\ ticket'[previous'[e]] = ticket'[e] - 1
    BY DEF AwaitsPredecessor
  <2>2. CASE e = c
    <3>1. CASE tails[s] = NoCall
      BY <3>1, <2>2, <1>1, <1>2, <1>4, <1>10 DEF TailIsLast
    <3>2. CASE tails[s] # NoCall
      <4>1. PICK p \in Calls : p = tails[s]
        BY <3>2, <1>1, <1>2 DEF LockTypeOK
      <4>2. SessionOf[p] = s /\ Queued(p) /\ ticket[p] = arrivals[s]
        BY <4>1, <3>2, <1>1, <1>2 DEF TailIsLast
      <4>3. p # c /\ previous'[e] = p
        BY <4>1, <4>2, <2>2, <1>4, <1>7
      <4>4. Before(p, c)'
        BY <4>2, <1>9
      <4>5. Before(previous[e], e)'
        BY <4>3, <4>4, <2>2 DEF Before
      <4>. QED  BY <4>1, <4>2, <4>3, <4>5, <2>2, <3>2, <1>4
    <3>. QED  BY <3>1, <3>2
  <2>3. CASE e # c
    <3>1. Queued(e) /\ previous'[e] = previous[e] /\ ticket'[e] = ticket[e]
      BY <2>1, <2>3, <1>4, <1>6
    <3>2. CASE previous[e] = NoCall
      <4>1. ASSUME NEW d \in Calls, Before(d, e)' PROVE phase'[d] = "left"
        <5>1. Before(d, e)
          BY <4>1, <3>1, <1>8
        <5>2. phase[d] = "left" /\ d # c
          BY <5>1, <3>1, <3>2, <1>1, <1>7 DEF AwaitsPredecessor, Before
        <5>. QED  BY <5>2, <1>4
      <4>. QED  BY <4>1, <3>1, <3>2
    <3>3. CASE previous[e] # NoCall
      <4>1. previous[e] \in Calls
        BY <3>3, <1>1 DEF LockTypeOK
      <4>2. Before(previous[e], e) /\ ticket[previous[e]] = ticket[e] - 1
        BY <3>1, <3>3, <1>1 DEF AwaitsPredecessor
      <4>3. previous[e] # c
        BY <4>2, <1>7 DEF Before
      <4>4. Before(previous[e], e)'
        BY <4>1, <4>2, <4>3, <3>1, <1>4, <1>6 DEF Before
      <4>. QED  BY <4>1, <4>2, <4>3, <4>4, <3>1, <3>3, <1>4
    <3>. QED  BY <3>2, <3>3
  <2>. QED  BY <2>2, <2>3
<1>14. TailIsLast'
  <2>1. SUFFICES ASSUME NEW x \in Sessions
                 PROVE  IF tails'[x] = NoCall
                        THEN \A d \in Calls : (SessionOf[d] = x /\ Queued(d)') => phase'[d] = "left"
                        ELSE /\ SessionOf[tails'[x]] = x
                             /\ Queued(tails[x])'
                             /\ ticket'[tails'[x]] = arrivals'[x]
    BY DEF TailIsLast
  <2>2. CASE x = s
    BY <2>2, <1>4, LockAssumption DEF Queued
  <2>3. CASE x # s
    <3>1. tails'[x] = tails[x] /\ arrivals'[x] = arrivals[x]
      BY <2>3, <1>4
    <3>2. CASE tails[x] = NoCall
      BY <3>1, <3>2, <2>3, <1>1, <1>4, <1>6 DEF TailIsLast
    <3>3. CASE tails[x] # NoCall
      <4>1. /\ tails[x] \in Calls
            /\ SessionOf[tails[x]] = x
            /\ Queued(tails[x])
            /\ ticket[tails[x]] = arrivals[x]
        BY <3>3, <1>1 DEF TailIsLast, LockTypeOK
      <4>2. tails[x] # c
        BY <4>1, <1>7
      <4>. QED  BY <4>1, <4>2, <3>1, <3>3, <1>4 DEF Queued
    <3>. QED  BY <3>2, <3>3
  <2>. QED  BY <2>2, <2>3
<1>15. InsideIsFirst'
  <2>1. SUFFICES ASSUME NEW e \in Calls, NEW d \in Calls,
                        phase'[e] \in {"inside", "left"}, Before(d, e)'
                 PROVE  phase'[d] = "left"
    BY DEF InsideIsFirst
  <2>2. e # c /\ phase[e] \in {"inside", "left"}
    BY <2>1, <1>4
  <2>3. Before(d, e)
    BY <2>1, <2>2, <1>8 DEF Queued
  <2>4. phase[d] = "left" /\ d # c
    BY <2>2, <2>3, <1>1, <1>7 DEF InsideIsFirst, Before
  <2>. QED  BY <2>4, <1>4
<1>. QED  BY <1>3, <1>11, <1>12, <1>13, <1>14, <1>15 DEF ChainInv

(* A call gets in once the promise it awaits is settled, so every call     *)
(* before it has left.                                                     *)
LEMMA ChainEnter ==
  ASSUME ChainInv, NEW c \in Calls, Enter(c)
  PROVE  ChainInv'
<1>1. /\ LockTypeOK /\ TicketsDistinct /\ TicketsIssued
      /\ AwaitsPredecessor /\ TailIsLast /\ InsideIsFirst
  BY DEF ChainInv
<1>2. /\ phase[c] = "queued"
      /\ Settled(previous[c])
      /\ phase' = [phase EXCEPT ![c] = "inside"]
      /\ tails' = tails /\ previous' = previous /\ ticket' = ticket /\ arrivals' = arrivals
  BY DEF Enter
<1>3. /\ phase'[c] = "inside"
      /\ \A d \in Calls : d # c => phase'[d] = phase[d]
      /\ \A d \in Calls : Queued(d)' <=> Queued(d)
      /\ \A d \in Calls : phase'[d] = "left" <=> phase[d] = "left"
  BY <1>1, <1>2 DEF LockTypeOK, Queued
<1>4. \A d, e \in Calls : Before(d, e)' <=> Before(d, e)
  BY <1>2, <1>3 DEF Before
<1>5. LockTypeOK'
  BY <1>1, <1>2 DEF LockTypeOK, Phases
<1>6. TicketsDistinct'
  BY <1>1, <1>2, <1>3 DEF TicketsDistinct
<1>7. TicketsIssued'
  BY <1>1, <1>2, <1>3 DEF TicketsIssued
<1>8. AwaitsPredecessor'
  BY <1>1, <1>2, <1>3, <1>4 DEF AwaitsPredecessor, LockTypeOK, Before
<1>9. TailIsLast'
  BY <1>1, <1>2, <1>3 DEF TailIsLast, LockTypeOK
<1>10. \A d \in Calls : Before(d, c) => phase[d] = "left"
  <2>1. SUFFICES ASSUME NEW d \in Calls, Before(d, c) PROVE phase[d] = "left"
    OBVIOUS
  <2>2. Queued(c)
    BY <1>2 DEF Queued
  <2>3. CASE previous[c] = NoCall
    BY <2>1, <2>2, <2>3, <1>1 DEF AwaitsPredecessor
  <2>4. CASE previous[c] # NoCall
    <3> DEFINE p == previous[c]
    <3>1. p \in Calls /\ phase[p] = "left"
      BY <2>4, <1>1, <1>2 DEF LockTypeOK, Settled
    <3>2. Before(p, c) /\ ticket[p] = ticket[c] - 1
      BY <2>2, <2>4, <1>1 DEF AwaitsPredecessor
    <3>3. ticket[d] \in Nat /\ ticket[p] \in Nat /\ ticket[c] \in Nat
      BY <3>1, <1>1 DEF LockTypeOK
    <3>4. ticket[d] <= ticket[p]
      BY <2>1, <3>2, <3>3 DEF Before
    <3>5. CASE ticket[d] = ticket[p]
      BY <3>5, <3>1, <3>2, <2>1, <1>1 DEF TicketsDistinct, Before
    <3>6. CASE ticket[d] < ticket[p]
      <4>1. Before(d, p)
        BY <3>2, <3>6, <2>1 DEF Before
      <4>. QED  BY <4>1, <3>1, <1>1 DEF InsideIsFirst
    <3>. QED  BY <3>3, <3>4, <3>5, <3>6
  <2>. QED  BY <2>3, <2>4
<1>11. InsideIsFirst'
  <2>1. SUFFICES ASSUME NEW e \in Calls, NEW d \in Calls,
                        phase'[e] \in {"inside", "left"}, Before(d, e)'
                 PROVE  phase'[d] = "left"
    BY DEF InsideIsFirst
  <2>2. phase[d] = "left"
    BY <2>1, <1>1, <1>3, <1>4, <1>10 DEF InsideIsFirst
  <2>. QED  BY <2>2, <1>3
<1>. QED  BY <1>5, <1>6, <1>7, <1>8, <1>9, <1>11 DEF ChainInv

(* A call leaves behind calls that have all left; if its promise was still *)
(* the tail, nothing queued after it, so the tail may be forgotten.        *)
LEMMA ChainLeave ==
  ASSUME ChainInv, NEW c \in Calls, Leave(c)
  PROVE  ChainInv'
<1>1. /\ LockTypeOK /\ TicketsDistinct /\ TicketsIssued
      /\ AwaitsPredecessor /\ TailIsLast /\ InsideIsFirst
  BY DEF ChainInv
<1> DEFINE s == SessionOf[c]
<1>2. /\ phase[c] = "inside"
      /\ phase' = [phase EXCEPT ![c] = "left"]
      /\ tails' = TailAfter(c)
      /\ previous' = previous /\ ticket' = ticket /\ arrivals' = arrivals
      /\ s \in Sessions
  BY LockAssumption DEF Leave
<1>3. /\ phase'[c] = "left"
      /\ \A d \in Calls : d # c => phase'[d] = phase[d]
      /\ \A d \in Calls : Queued(d)' <=> Queued(d)
      /\ \A d \in Calls : phase[d] = "left" => phase'[d] = "left"
      /\ \A d \in Calls : phase'[d] \in {"inside", "left"} => phase[d] \in {"inside", "left"}
  BY <1>1, <1>2 DEF LockTypeOK, Queued
<1>4. \A d, e \in Calls : Before(d, e)' <=> Before(d, e)
  BY <1>2, <1>3 DEF Before
<1>5. LockTypeOK'
  BY <1>1, <1>2, LockAssumption DEF LockTypeOK, Phases, TailAfter
<1>6. TicketsDistinct'
  BY <1>1, <1>2, <1>3 DEF TicketsDistinct
<1>7. TicketsIssued'
  BY <1>1, <1>2, <1>3 DEF TicketsIssued
<1>8. AwaitsPredecessor'
  BY <1>1, <1>2, <1>3, <1>4 DEF AwaitsPredecessor, LockTypeOK, Before
<1>9. \A x \in Sessions :
        tails'[x] = IF x = s /\ DropsTail /\ tails[s] = c THEN NoCall ELSE tails[x]
  BY <1>1, <1>2 DEF TailAfter, LockTypeOK
<1>10. tails[s] = c => \A d \in Calls : (SessionOf[d] = s /\ Queued(d)) => phase'[d] = "left"
  <2>1. SUFFICES ASSUME tails[s] = c, NEW d \in Calls, SessionOf[d] = s, Queued(d), d # c
                 PROVE  phase[d] = "left"
    BY <1>3
  <2>2. ticket[c] = arrivals[s] /\ Queued(c)
    BY <2>1, <1>1, <1>2, LockAssumption DEF TailIsLast
  <2>3. ticket[d] \in 1..arrivals[s] /\ arrivals[s] \in Nat
    BY <2>1, <1>1, <1>2 DEF TicketsIssued, LockTypeOK
  <2>4. ticket[d] # ticket[c]
    BY <2>1, <2>2, <1>1 DEF TicketsDistinct
  <2>5. Before(d, c)
    BY <2>1, <2>2, <2>3, <2>4 DEF Before
  <2>. QED  BY <2>5, <1>1, <1>2 DEF InsideIsFirst
<1>11. TailIsLast'
  <2>1. SUFFICES ASSUME NEW x \in Sessions
                 PROVE  IF tails'[x] = NoCall
                        THEN \A d \in Calls : (SessionOf[d] = x /\ Queued(d)') => phase'[d] = "left"
                        ELSE /\ SessionOf[tails'[x]] = x
                             /\ Queued(tails[x])'
                             /\ ticket'[tails'[x]] = arrivals'[x]
    BY DEF TailIsLast
  <2>2. CASE x = s /\ DropsTail /\ tails[s] = c
    BY <2>2, <1>3, <1>9, <1>10
  <2>3. CASE ~(x = s /\ DropsTail /\ tails[s] = c)
    <3>1. tails'[x] = tails[x]
      BY <2>3, <1>9
    <3>2. CASE tails[x] = NoCall
      BY <3>1, <3>2, <1>1, <1>3 DEF TailIsLast
    <3>3. CASE tails[x] # NoCall
      BY <3>1, <3>3, <1>1, <1>2, <1>3 DEF TailIsLast, LockTypeOK
    <3>. QED  BY <3>2, <3>3
  <2>. QED  BY <2>2, <2>3
<1>12. InsideIsFirst'
  BY <1>1, <1>3, <1>4 DEF InsideIsFirst
<1>. QED  BY <1>5, <1>6, <1>7, <1>8, <1>11, <1>12 DEF ChainInv

(* The chain invariant holds in every reachable state.                     *)
THEOREM ChainCorrect == LockSpec => []ChainInv
<1>1. ChainInv /\ [LockNext]_lockVars => ChainInv'
  <2> SUFFICES ASSUME ChainInv, [LockNext]_lockVars PROVE ChainInv'
    OBVIOUS
  <2>1. ASSUME NEW c \in Calls, Enqueue(c) PROVE ChainInv'
    BY <2>1, ChainEnqueue
  <2>2. ASSUME NEW c \in Calls, Enter(c) PROVE ChainInv'
    BY <2>2, ChainEnter
  <2>3. ASSUME NEW c \in Calls, Leave(c) PROVE ChainInv'
    BY <2>3, ChainLeave
  <2>4. CASE UNCHANGED lockVars
    BY <2>4
    DEF lockVars, ChainInv, LockTypeOK, TicketsDistinct, TicketsIssued, AwaitsPredecessor,
        TailIsLast, InsideIsFirst, Queued, Before
  <2>. QED  BY <2>1, <2>2, <2>3, <2>4 DEF LockNext
<1>. QED  BY <1>1, ChainInit, PTL DEF LockSpec

(* Two calls inside would each be behind the other.                        *)
LEMMA ChainExcludes == ChainInv => MutualExclusion
<1>1. SUFFICES ASSUME ChainInv, NEW c \in Calls, NEW d \in Calls,
                      phase[c] = "inside", phase[d] = "inside", SessionOf[c] = SessionOf[d],
                      c # d
               PROVE  FALSE
  BY DEF MutualExclusion
<1>2. ticket[c] # ticket[d]
  BY <1>1 DEF ChainInv, TicketsDistinct, Queued
<1>3. Before(c, d) \/ Before(d, c)
  BY <1>1, <1>2 DEF ChainInv, LockTypeOK, Before, Queued
<1>. QED  BY <1>1, <1>3 DEF ChainInv, InsideIsFirst

(* At most one section of a session runs at a time, however many calls     *)
(* there are and in whatever order they arrive.                            *)
THEOREM SectionsExclude == LockSpec => []MutualExclusion
BY ChainCorrect, ChainExcludes, PTL

(* A session with no call in its line keeps no tail, so the map of tails   *)
(* is bounded by the sessions in use.                                      *)
THEOREM IdleTailsDropped == LockSpec => []IdleSessionHasNoTail
<1> DEFINE LiveTail == DropsTail =>
             \A s \in Sessions : tails[s] # NoCall => phase[tails[s]] \in {"queued", "inside"}
<1>1. LockInit => LiveTail
  BY DEF LockInit
<1>2. ChainInv /\ LiveTail /\ [LockNext]_lockVars => LiveTail'
  <2> SUFFICES ASSUME ChainInv, LiveTail, [LockNext]_lockVars, DropsTail,
                      NEW s \in Sessions, tails'[s] # NoCall
               PROVE  phase'[tails'[s]] \in {"queued", "inside"}
    BY LockAssumption
  <2> USE LockAssumption DEF ChainInv, LockTypeOK
  <2>1. ASSUME NEW c \in Calls, Enqueue(c) PROVE phase'[tails'[s]] \in {"queued", "inside"}
    BY <2>1 DEF Enqueue
  <2>2. ASSUME NEW c \in Calls, Enter(c) PROVE phase'[tails'[s]] \in {"queued", "inside"}
    BY <2>2 DEF Enter
  <2>3. ASSUME NEW c \in Calls, Leave(c) PROVE phase'[tails'[s]] \in {"queued", "inside"}
    <3>1. tails[s] # NoCall /\ tails'[s] = tails[s]
      BY <2>3 DEF Leave, TailAfter
    <3>2. tails[s] # c
      BY <2>3, <3>1 DEF Leave, TailAfter, TailIsLast
    <3>. QED  BY <2>3, <3>1, <3>2 DEF Leave
  <2>4. CASE UNCHANGED lockVars
    BY <2>4 DEF lockVars
  <2>. QED  BY <2>1, <2>2, <2>3, <2>4 DEF LockNext
<1>3. ChainInv /\ LiveTail => IdleSessionHasNoTail
  BY DEF ChainInv, LockTypeOK, TailIsLast, IdleSessionHasNoTail
<1>. QED  BY <1>1, <1>2, <1>3, ChainCorrect, PTL DEF LockSpec

-----------------------------------------------------------------------------
(* The line.  Every ticket given out is held by a call, and those that     *)
(* have left hold the first ones.                                          *)
LeftUpTo(s, n) ==
  \A c \in Calls : SessionOf[c] = s /\ Queued(c) => (phase[c] = "left" <=> ticket[c] <= n)

TicketsTaken == \A s \in Sessions : \A n \in 1..arrivals[s] : \E c \in Calls : Holds(c, s, n)
LeftInOrder == \A s \in Sessions : \E n \in 0..arrivals[s] : LeftUpTo(s, n)
LineInv == ChainInv /\ TicketsTaken /\ LeftInOrder

LEMMA LineInit == LockInit => LineInv
<1> SUFFICES ASSUME LockInit PROVE LineInv
  OBVIOUS
<1>1. TicketsTaken
  BY DEF LockInit, TicketsTaken
<1>2. ASSUME NEW s \in Sessions PROVE 0 \in 0..arrivals[s] /\ LeftUpTo(s, 0)
  BY LockAssumption DEF LockInit, LeftUpTo, Queued
<1> QED BY <1>1, <1>2, ChainInit DEF LineInv, LeftInOrder

(* What a step does to the calls and to the numbers.                       *)
LEMMA LineEnqueue ==
  ASSUME LineInv, NEW c \in Calls, Enqueue(c)
  PROVE  /\ \A d \in Calls : \A s, n : Holds(d, s, n) => Holds(d, s, n)'
         /\ \E k \in Nat : arrivals[SessionOf[c]] = k /\ Holds(c, SessionOf[c], k + 1)'
         /\ arrivals' = [arrivals EXCEPT ![SessionOf[c]] = @ + 1]
         /\ \A s \in Sessions : \A n \in 0..arrivals[s] : LeftUpTo(s, n) => LeftUpTo(s, n)'
<1> USE LockAssumption DEF LineInv, ChainInv, LockTypeOK
<1>1. /\ phase[c] = "idle" /\ phase' = [phase EXCEPT ![c] = "queued"]
      /\ ticket' = [ticket EXCEPT ![c] = arrivals[SessionOf[c]] + 1]
      /\ arrivals' = [arrivals EXCEPT ![SessionOf[c]] = @ + 1]
  BY DEF Enqueue
<1>2. \A d \in Calls : \A s, n : Holds(d, s, n) => Holds(d, s, n)'
  BY <1>1 DEF Holds, Queued
<1>3. PICK k \in Nat : arrivals[SessionOf[c]] = k
  OBVIOUS
<1>5. Holds(c, SessionOf[c], k + 1)'
  BY <1>1, <1>3 DEF Holds, Queued
<1>4. ASSUME NEW s \in Sessions, NEW n \in 0..arrivals[s], LeftUpTo(s, n) PROVE LeftUpTo(s, n)'
  BY <1>1, <1>4 DEF LeftUpTo, Queued
<1> QED BY <1>1, <1>2, <1>3, <1>4, <1>5

LEMMA LineEnter ==
  ASSUME LineInv, NEW c \in Calls, Enter(c)
  PROVE  /\ \A d \in Calls : \A s, n : Holds(d, s, n)' <=> Holds(d, s, n)
         /\ UNCHANGED arrivals
         /\ \A s, n : LeftUpTo(s, n) => LeftUpTo(s, n)'
<1> USE LockAssumption DEF LineInv, ChainInv, LockTypeOK
<1>1. /\ phase[c] = "queued" /\ phase' = [phase EXCEPT ![c] = "inside"]
      /\ UNCHANGED <<ticket, arrivals>>
  BY DEF Enter
<1>2. \A d \in Calls : (Queued(d)' <=> Queued(d)) /\ (phase'[d] = "left" <=> phase[d] = "left")
  BY <1>1 DEF Queued
<1> QED BY <1>1, <1>2 DEF Holds, LeftUpTo

LEMMA LineLeave ==
  ASSUME LineInv, NEW c \in Calls, Leave(c)
  PROVE  /\ \A d \in Calls : \A s, n : Holds(d, s, n)' <=> Holds(d, s, n)
         /\ UNCHANGED arrivals
         /\ \A s, n : s # SessionOf[c] /\ LeftUpTo(s, n) => LeftUpTo(s, n)'
         /\ \A n \in 0..arrivals[SessionOf[c]] : LeftUpTo(SessionOf[c], n) =>
              /\ n + 1 \in 0..arrivals[SessionOf[c]] /\ LeftUpTo(SessionOf[c], n + 1)'
<1> USE LockAssumption DEF LineInv, ChainInv, LockTypeOK
<1>1. /\ phase[c] = "inside" /\ phase' = [phase EXCEPT ![c] = "left"]
      /\ UNCHANGED <<ticket, arrivals>>
  BY DEF Leave
<1>2. \A d \in Calls : (Queued(d)' <=> Queued(d)) /\ (d # c => (phase'[d] = "left" <=> phase[d] = "left"))
  BY <1>1 DEF Queued
<1>3. \A d \in Calls : \A s, n : Holds(d, s, n)' <=> Holds(d, s, n)
  BY <1>1, <1>2 DEF Holds
<1>4. \A s, n : s # SessionOf[c] /\ LeftUpTo(s, n) => LeftUpTo(s, n)'
  BY <1>1, <1>2 DEF LeftUpTo
<1>5. ASSUME NEW n \in 0..arrivals[SessionOf[c]], LeftUpTo(SessionOf[c], n)
      PROVE  n + 1 \in 0..arrivals[SessionOf[c]] /\ LeftUpTo(SessionOf[c], n + 1)'
  <2>1. /\ SessionOf[c] \in Sessions /\ Queued(c) /\ arrivals[SessionOf[c]] \in Nat /\ n \in Nat
        /\ ticket[c] \in 1..arrivals[SessionOf[c]] /\ ticket[c] > n
    BY <1>1, <1>5 DEF Queued, TicketsIssued, LeftUpTo
  <2>2. ticket[c] = n + 1
    <3> SUFFICES ASSUME ticket[c] > n + 1 PROVE FALSE
      BY <2>1
    <3>1. n + 1 \in 1..arrivals[SessionOf[c]]
      BY <2>1
    <3>2. PICK d \in Calls : Holds(d, SessionOf[c], n + 1)
      BY <2>1, <3>1 DEF TicketsTaken
    <3>3. Before(d, c) /\ phase[d] # "left"
      BY <1>5, <2>1, <3>2 DEF Holds, Before, LeftUpTo
    <3> QED BY <1>1, <3>3 DEF InsideIsFirst
  <2>3. ASSUME NEW d \in Calls, SessionOf[d] = SessionOf[c], Queued(d), d # c
        PROVE  phase'[d] = "left" <=> ticket[d] <= n + 1
    <3>1. ticket[d] # n + 1 /\ ticket[d] \in Nat
      BY <2>1, <2>2, <2>3 DEF TicketsDistinct
    <3>2. phase[d] = "left" <=> ticket[d] <= n
      BY <1>5, <2>3 DEF LeftUpTo
    <3> QED BY <1>2, <2>1, <2>3, <3>1, <3>2
  <2>4. phase'[c] = "left" /\ ticket[c] <= n + 1
    BY <1>1, <2>1, <2>2
  <2> QED BY <1>1, <1>2, <2>1, <2>2, <2>3, <2>4 DEF LeftUpTo
<1> QED BY <1>1, <1>3, <1>4, <1>5

LEMMA LineKept == LineInv /\ [LockNext]_lockVars => LineInv'
<1> SUFFICES ASSUME LineInv, [LockNext]_lockVars PROVE LineInv'
  OBVIOUS
<1> USE LockAssumption DEF ChainInv, LockTypeOK
<1>1. ChainInv'
  <2>1. CASE UNCHANGED lockVars
    BY <2>1
    DEF lockVars, LineInv, TicketsDistinct, TicketsIssued, AwaitsPredecessor,
        TailIsLast, InsideIsFirst, Queued, Before
  <2> QED BY <2>1, ChainEnqueue, ChainEnter, ChainLeave DEF LockNext, LineInv
<1>2. ASSUME NEW c \in Calls, Enqueue(c) PROVE TicketsTaken' /\ LeftInOrder'
  <2>1. /\ \A d \in Calls : \A s, n : Holds(d, s, n) => Holds(d, s, n)'
        /\ \E k \in Nat : arrivals[SessionOf[c]] = k /\ Holds(c, SessionOf[c], k + 1)'
        /\ arrivals' = [arrivals EXCEPT ![SessionOf[c]] = @ + 1]
        /\ \A s \in Sessions : \A n \in 0..arrivals[s] : LeftUpTo(s, n) => LeftUpTo(s, n)'
    BY <1>2, LineEnqueue
  <2>2. ASSUME NEW s \in Sessions, NEW n \in 1..arrivals'[s] PROVE \E d \in Calls : Holds(d, s, n)'
    <3>1. CASE n \in 1..arrivals[s]
      BY <2>1, <3>1 DEF LineInv, TicketsTaken
    <3>2. CASE n \notin 1..arrivals[s]
      <4>1. s = SessionOf[c] /\ n = arrivals[s] + 1
        BY <2>1, <2>2, <3>2 DEF LineInv
      <4> QED BY <2>1, <4>1
    <3> QED BY <3>1, <3>2
  <2>3. ASSUME NEW s \in Sessions PROVE \E n \in 0..arrivals'[s] : LeftUpTo(s, n)'
    <3>1. PICK n \in 0..arrivals[s] : LeftUpTo(s, n)
      BY DEF LineInv, LeftInOrder
    <3>2. n \in 0..arrivals'[s] /\ LeftUpTo(s, n)'
      BY <2>1, <3>1 DEF LineInv
    <3> QED BY <3>2
  <2> QED BY <2>2, <2>3 DEF TicketsTaken, LeftInOrder
<1>3. ASSUME NEW c \in Calls, Enter(c) PROVE TicketsTaken' /\ LeftInOrder'
  BY <1>3, LineEnter DEF LineInv, TicketsTaken, LeftInOrder
<1>4. ASSUME NEW c \in Calls, Leave(c) PROVE TicketsTaken' /\ LeftInOrder'
  <2>1. TicketsTaken'
    BY <1>4, LineLeave DEF LineInv, TicketsTaken
  <2>2. ASSUME NEW s \in Sessions PROVE \E n \in 0..arrivals'[s] : LeftUpTo(s, n)'
    BY <1>4, LineLeave DEF LineInv, LeftInOrder
  <2> QED BY <2>1, <2>2 DEF LeftInOrder
<1>5. CASE UNCHANGED lockVars
  <2>1. /\ \A d \in Calls : \A s, n : Holds(d, s, n)' <=> Holds(d, s, n)
        /\ \A s, n : LeftUpTo(s, n)' <=> LeftUpTo(s, n)
        /\ UNCHANGED arrivals
    BY <1>5 DEF lockVars, Holds, LeftUpTo, Queued
  <2>2. TicketsTaken'
    BY <2>1 DEF LineInv, TicketsTaken
  <2>3. ASSUME NEW s \in Sessions PROVE \E n \in 0..arrivals'[s] : LeftUpTo(s, n)'
    <3>1. PICK n \in 0..arrivals[s] : LeftUpTo(s, n)
      BY DEF LineInv, LeftInOrder
    <3> QED BY <2>1, <3>1
  <2> QED BY <1>1, <2>2, <2>3 DEF LeftInOrder, LineInv
<1> QED BY <1>1, <1>2, <1>3, <1>4, <1>5 DEF LineInv, LockNext

(* The line is that of the tickets above those of the calls that left.     *)
LEMMA HolderIs ==
  ChainInv => \A c \in Calls : \A s \in Sessions : \A n \in Nat : Holds(c, s, n) => Holder(s, n) = c
<1> SUFFICES ASSUME ChainInv, NEW c \in Calls, NEW s \in Sessions, NEW n \in Nat, Holds(c, s, n)
             PROVE  Holder(s, n) = c
  OBVIOUS
<1>1. \A d \in Calls : Holds(d, s, n) => d = c
  BY DEF ChainInv, TicketsDistinct, Holds
<1> QED BY <1>1 DEF Holder

LEMMA GoneIs ==
  LineInv => \A s \in Sessions : \A n \in 0..arrivals[s] : LeftUpTo(s, n) => Gone(s) = n
<1> SUFFICES ASSUME LineInv, NEW s \in Sessions, NEW n \in 0..arrivals[s], LeftUpTo(s, n)
             PROVE  Gone(s) = n
  OBVIOUS
<1>1. arrivals[s] \in Nat /\ \A c \in Calls : Queued(c) => ticket[c] \in Nat
  BY DEF LineInv, ChainInv, LockTypeOK
<1>2. \A m \in 1..arrivals[s] : \E c \in Calls : Holds(c, s, m)
  BY DEF LineInv, TicketsTaken
<1>3. \A m \in 0..arrivals[s] : HaveLeft(s, m) <=> m <= n
  <2> SUFFICES ASSUME NEW m \in 0..arrivals[s] PROVE HaveLeft(s, m) <=> m <= n
    OBVIOUS
  <2>1. CASE m <= n
    BY <1>1, <2>1 DEF HaveLeft, LeftUpTo
  <2>2. CASE m > n
    <3>1. m \in 1..arrivals[s]
      BY <1>1, <2>2
    <3>2. PICK c \in Calls : Holds(c, s, m)
      BY <1>2, <3>1
    <3>3. phase[c] # "left"
      BY <1>1, <2>2, <3>2 DEF Holds, LeftUpTo
    <3> QED BY <1>1, <2>2, <3>2, <3>3 DEF Holds, HaveLeft
  <2> QED BY <1>1, <2>1, <2>2
<1>4. \A m \in 0..arrivals[s] :
        (HaveLeft(s, m) /\ (m = arrivals[s] \/ ~HaveLeft(s, m + 1))) <=> m = n
  <2> SUFFICES ASSUME NEW m \in 0..arrivals[s]
               PROVE  (HaveLeft(s, m) /\ (m = arrivals[s] \/ ~HaveLeft(s, m + 1))) <=> m = n
    OBVIOUS
  <2>1. HaveLeft(s, m) <=> m <= n
    BY <1>3
  <2>2. m # arrivals[s] => (HaveLeft(s, m + 1) <=> m + 1 <= n)
    BY <1>1, <1>3
  <2> QED BY <1>1, <2>1, <2>2
<1> QED BY <1>4 DEF Gone

LEMMA LineIs ==
  LineInv => \A s \in Sessions : \A n \in 0..arrivals[s] : LeftUpTo(s, n) =>
               LineOf(s) = [i \in 1..(arrivals[s] - n) |-> Holder(s, n + i)]
<1> SUFFICES ASSUME LineInv, NEW s \in Sessions, NEW n \in 0..arrivals[s], LeftUpTo(s, n)
             PROVE  LineOf(s) = [i \in 1..(arrivals[s] - n) |-> Holder(s, n + i)]
  OBVIOUS
<1>1. Gone(s) = n
  BY GoneIs
<1> QED BY <1>1 DEF LineOf

(* A row of calls, as the line is before and after a step.                 *)
LEMMA RowIs ==
  ASSUME NEW k \in Nat, NEW f, f = [i \in 1..k |-> f[i]], \A i \in 1..k : f[i] \in Calls
  PROVE  f \in Seq(Calls) /\ Len(f) = k
OBVIOUS

IsLine(line, s, n) ==
  /\ line \in Seq(Calls) /\ Len(line) = arrivals[s] - n
  /\ \A i \in 1..(arrivals[s] - n) : Holds(line[i], s, n + i) /\ line[i] \in Calls

LinesAreRows ==
  \A s \in Sessions : \A n \in 0..arrivals[s] : LeftUpTo(s, n) => IsLine(LineOf(s), s, n)

LEMMA LineTyped == LineInv => LinesAreRows
<1> SUFFICES ASSUME LineInv, NEW s \in Sessions, NEW n \in 0..arrivals[s], LeftUpTo(s, n)
             PROVE  IsLine(LineOf(s), s, n)
  BY DEF LinesAreRows
<1>1. arrivals[s] \in Nat /\ n \in Nat /\ arrivals[s] - n \in Nat
  BY DEF LineInv, ChainInv, LockTypeOK
<1>2. LineOf(s) = [i \in 1..(arrivals[s] - n) |-> Holder(s, n + i)]
  BY LineIs
<1>3. ASSUME NEW i \in 1..(arrivals[s] - n)
      PROVE  Holds(LineOf(s)[i], s, n + i) /\ LineOf(s)[i] \in Calls
  <2>1. n + i \in 1..arrivals[s] /\ n + i \in Nat
    BY <1>1
  <2>2. PICK c \in Calls : Holds(c, s, n + i)
    BY <2>1 DEF LineInv, TicketsTaken
  <2>3. Holder(s, n + i) = c
    BY <2>1, <2>2, HolderIs DEF LineInv
  <2> QED BY <1>2, <2>2, <2>3
<1>4. LineOf(s) \in Seq(Calls) /\ Len(LineOf(s)) = arrivals[s] - n
  <2>1. LineOf(s) = [i \in 1..(arrivals[s] - n) |-> LineOf(s)[i]]
    BY <1>2
  <2> QED BY <1>1, <1>3, <2>1, RowIs
<1> QED BY <1>3, <1>4 DEF IsLine

(* A step that leaves a session alone leaves its line alone.               *)
LEMMA SameLine ==
  ASSUME LineInv, LineInv', NEW s \in Sessions, NEW n \in 0..arrivals[s],
         LeftUpTo(s, n), LeftUpTo(s, n)', arrivals'[s] = arrivals[s],
         \A d \in Calls : \A m : Holds(d, s, m) => Holds(d, s, m)'
  PROVE  LineOf(s)' = LineOf(s)
<1>1. IsLine(LineOf(s), s, n)
  BY LineTyped DEF LinesAreRows
<1>2. IsLine(LineOf(s), s, n)'
  <2>1. LinesAreRows'
    BY LineTyped, PTL
  <2> QED BY <2>1 DEF LinesAreRows
<1>3. \A c, d \in Calls : \A m : Holds(c, s, m)' /\ Holds(d, s, m)' => c = d
  BY DEF LineInv, ChainInv, TicketsDistinct, Holds
<1>4. \A i \in 1..(arrivals[s] - n) : LineOf(s)'[i] = LineOf(s)[i]
  BY <1>1, <1>2, <1>3 DEF IsLine
<1> QED BY <1>1, <1>2, <1>4, SeqEqual DEF IsLine

LEMMA JoinsLine ==
  ASSUME LineInv, LineInv', NEW c \in Calls, Enqueue(c)
  PROVE  Fifo!Join(c)
<1>1. PICK s \in Sessions : s = SessionOf[c]
  BY LockAssumption
<1>2. PICK k \in Nat : arrivals[s] = k
  BY <1>1 DEF LineInv, ChainInv, LockTypeOK
<1>3. /\ \A d \in Calls : \A x, n : Holds(d, x, n) => Holds(d, x, n)'
      /\ Holds(c, s, k + 1)'
      /\ arrivals' = [arrivals EXCEPT ![s] = @ + 1]
      /\ \A x \in Sessions : \A n \in 0..arrivals[x] : LeftUpTo(x, n) => LeftUpTo(x, n)'
  BY <1>1, <1>2, LineEnqueue
<1>4. arrivals'[s] = k + 1 /\ \A x \in Sessions : x # s => arrivals'[x] = arrivals[x]
  BY <1>2, <1>3 DEF LineInv, ChainInv, LockTypeOK
<1>5. PICK n \in 0..arrivals[s] : LeftUpTo(s, n)
  BY DEF LineInv, LeftInOrder
<1>6. IsLine(LineOf(s), s, n)
  BY <1>5, LineTyped DEF LinesAreRows
<1>7. IsLine(LineOf(s), s, n)'
  <2>1. LinesAreRows'
    BY LineTyped, PTL
  <2>2. n \in 0..arrivals'[s] /\ LeftUpTo(s, n)'
    BY <1>2, <1>3, <1>4, <1>5
  <2> QED BY <2>1, <2>2 DEF LinesAreRows
<1>8. LineOf(s)' = Append(LineOf(s), c)
  <2>1. \A e, d \in Calls : \A m : Holds(e, s, m)' /\ Holds(d, s, m)' => e = d
    BY DEF LineInv, ChainInv, TicketsDistinct, Holds
  <2>2. /\ Append(LineOf(s), c) \in Seq(Calls) /\ Len(Append(LineOf(s), c)) = k + 1 - n
        /\ LineOf(s)' \in Seq(Calls) /\ Len(LineOf(s)') = k + 1 - n
        /\ Len(LineOf(s)) = k - n /\ LineOf(s) \in Seq(Calls)
    BY <1>2, <1>4, <1>6, <1>7, AppendProperties DEF IsLine
  <2>3. ASSUME NEW i \in 1..(k + 1 - n) PROVE LineOf(s)'[i] = Append(LineOf(s), c)[i]
    <3>1. Holds(LineOf(s)[i], s, n + i)' /\ LineOf(s)'[i] \in Calls
      BY <1>4, <1>7 DEF IsLine
    <3>2. CASE i = k + 1 - n
      <4>1. n + i = k + 1 /\ Append(LineOf(s), c)[i] = c
        BY <1>2, <2>2, <3>2
      <4> QED BY <1>3, <2>1, <3>1, <4>1
    <3>3. CASE i # k + 1 - n
      <4>1. i \in 1..(k - n) /\ Append(LineOf(s), c)[i] = LineOf(s)[i]
        BY <1>2, <2>2, <3>3
      <4>2. Holds(LineOf(s)[i], s, n + i) /\ LineOf(s)[i] \in Calls
        BY <1>2, <1>6, <4>1 DEF IsLine
      <4> QED BY <1>3, <2>1, <3>1, <4>1, <4>2
    <3> QED BY <3>2, <3>3
  <2> QED BY <2>2, <2>3, SeqEqual
<1>9. \A x \in Sessions : x # s => LineOf(x)' = LineOf(x)
  <2> SUFFICES ASSUME NEW x \in Sessions, x # s PROVE LineOf(x)' = LineOf(x)
    OBVIOUS
  <2>1. PICK m \in 0..arrivals[x] : LeftUpTo(x, m)
    BY DEF LineInv, LeftInOrder
  <2> QED BY <1>3, <1>4, <2>1, SameLine
<1>10. ~Fifo!Standing(c)
  <2>1. ~Queued(c)
    BY DEF Enqueue, Queued
  <2>2. DOMAIN LineOf(s) = 1..(arrivals[s] - n)
    BY <1>6 DEF IsLine
  <2>3. \A i \in DOMAIN LineOf(s) : LineOf(s)[i] # c
    BY <1>6, <2>1, <2>2 DEF IsLine, Holds
  <2> QED BY <1>1, <2>3 DEF Fifo!Standing
<1>11. \A x \in Sessions : SomeoneInside(x)' = SomeoneInside(x)
  BY DEF Enqueue, SomeoneInside, LineInv, ChainInv, LockTypeOK
<1> QED BY <1>1, <1>8, <1>9, <1>10, <1>11 DEF Fifo!Join

LEMMA EntersLine ==
  ASSUME LineInv, LineInv', NEW c \in Calls, Enter(c)
  PROVE  Fifo!Admit(SessionOf[c])
<1>1. PICK s \in Sessions : s = SessionOf[c]
  BY LockAssumption
<1>2. /\ \A d \in Calls : \A x, n : Holds(d, x, n) => Holds(d, x, n)'
      /\ UNCHANGED arrivals
      /\ \A x, n : LeftUpTo(x, n) => LeftUpTo(x, n)'
  BY LineEnter
<1>3. \A x \in Sessions : LineOf(x)' = LineOf(x)
  <2> SUFFICES ASSUME NEW x \in Sessions PROVE LineOf(x)' = LineOf(x)
    OBVIOUS
  <2>1. PICK m \in 0..arrivals[x] : LeftUpTo(x, m)
    BY DEF LineInv, LeftInOrder
  <2> QED BY <1>2, <2>1, SameLine
<1>4. /\ phase[c] = "queued" /\ phase'[c] = "inside"
      /\ \A d \in Calls : d # c => phase'[d] = phase[d]
  BY DEF Enter, LineInv, ChainInv, LockTypeOK
<1>5. MutualExclusion'
  <2>1. ChainInv'
    BY DEF LineInv
  <2> QED BY <2>1, ChainExcludes, PTL
<1>6. ~SomeoneInside(s)
  BY <1>1, <1>4, <1>5 DEF SomeoneInside, MutualExclusion
<1>7. \A x \in Sessions : SomeoneInside(x)' = IF x = s THEN TRUE ELSE SomeoneInside(x)
  BY <1>1, <1>4 DEF SomeoneInside
<1>8. LineOf(s) # << >>
  <2>1. PICK n \in 0..arrivals[s] : LeftUpTo(s, n)
    BY DEF LineInv, LeftInOrder
  <2>2. IsLine(LineOf(s), s, n)
    BY <2>1, LineTyped DEF LinesAreRows
  <2>3. ticket[c] \in 1..arrivals[s] /\ ~(ticket[c] <= n) /\ arrivals[s] \in Nat
    BY <1>1, <1>4, <2>1 DEF LineInv, ChainInv, LockTypeOK, TicketsIssued, LeftUpTo, Queued
  <2>4. Len(LineOf(s)) # 0
    BY <2>2, <2>3 DEF IsLine
  <2> QED BY <2>4
<1> QED BY <1>1, <1>3, <1>6, <1>7, <1>8 DEF Fifo!Admit

LEMMA LeavesLine ==
  ASSUME LineInv, LineInv', NEW c \in Calls, Leave(c)
  PROVE  Fifo!Release(SessionOf[c])
<1>1. PICK s \in Sessions : s = SessionOf[c]
  BY LockAssumption
<1>2. /\ \A d \in Calls : \A x, n : Holds(d, x, n) => Holds(d, x, n)'
      /\ UNCHANGED arrivals
      /\ \A x, n : x # s /\ LeftUpTo(x, n) => LeftUpTo(x, n)'
      /\ \A n \in 0..arrivals[s] : LeftUpTo(s, n) =>
           n + 1 \in 0..arrivals[s] /\ LeftUpTo(s, n + 1)'
  BY <1>1, LineLeave
<1>3. \A x \in Sessions : x # s => LineOf(x)' = LineOf(x)
  <2> SUFFICES ASSUME NEW x \in Sessions, x # s PROVE LineOf(x)' = LineOf(x)
    OBVIOUS
  <2>1. PICK m \in 0..arrivals[x] : LeftUpTo(x, m)
    BY DEF LineInv, LeftInOrder
  <2> QED BY <1>2, <2>1, SameLine
<1>4. PICK n \in 0..arrivals[s] : LeftUpTo(s, n)
  BY DEF LineInv, LeftInOrder
<1>5. PICK m \in 0..arrivals'[s] : m = n + 1 /\ LeftUpTo(s, m)'
  BY <1>2, <1>4
<1>6. IsLine(LineOf(s), s, n)
  BY <1>4, LineTyped DEF LinesAreRows
<1>7. IsLine(LineOf(s), s, m)'
  <2>1. LinesAreRows'
    BY LineTyped, PTL
  <2> QED BY <1>5, <2>1 DEF LinesAreRows
<1>8. LineOf(s)' = Tail(LineOf(s))
  <2>1. \A e, d \in Calls : \A k : Holds(e, s, k)' /\ Holds(d, s, k)' => e = d
    BY DEF LineInv, ChainInv, TicketsDistinct, Holds
  <2>2. arrivals[s] \in Nat /\ arrivals'[s] = arrivals[s] /\ n + 1 <= arrivals[s]
    BY <1>2, <1>4 DEF LineInv, ChainInv, LockTypeOK
  <2>3. LineOf(s) \in Seq(Calls) /\ Len(LineOf(s)) = arrivals[s] - n /\ LineOf(s) # << >>
    BY <1>6, <2>2 DEF IsLine
  <2>4. /\ Tail(LineOf(s)) \in Seq(Calls) /\ Len(Tail(LineOf(s))) = arrivals[s] - m
        /\ \A i \in 1..(arrivals[s] - m) : Tail(LineOf(s))[i] = LineOf(s)[i + 1]
    BY <1>5, <2>2, <2>3, HeadTailProperties
  <2>5. LineOf(s)' \in Seq(Calls) /\ Len(LineOf(s)') = arrivals[s] - m
    BY <1>7, <2>2 DEF IsLine
  <2>6. ASSUME NEW i \in 1..(arrivals[s] - m) PROVE LineOf(s)'[i] = Tail(LineOf(s))[i]
    <3>1. Holds(LineOf(s)[i], s, m + i)' /\ LineOf(s)'[i] \in Calls
      BY <1>7, <2>2 DEF IsLine
    <3>2. Tail(LineOf(s))[i] = LineOf(s)[i + 1] /\ i + 1 \in 1..(arrivals[s] - n) /\ n + (i + 1) = m + i
      <4>1. Tail(LineOf(s))[i] = LineOf(s)[i + 1]
        BY <2>4, Zenon
      <4>2. PICK top \in Nat : top = arrivals[s]
        BY <2>2
      <4>3. n \in Nat /\ m = n + 1 /\ i \in 1..(top - m)
        BY <1>5, <4>2
      <4>4. i + 1 \in 1..(top - n) /\ n + (i + 1) = m + i
        BY <4>3
      <4> QED BY <4>1, <4>2, <4>4
    <3>3. Holds(LineOf(s)[i + 1], s, m + i) /\ LineOf(s)[i + 1] \in Calls
      <4>1. Holds(LineOf(s)[i + 1], s, n + (i + 1)) /\ LineOf(s)[i + 1] \in Calls
        BY <1>6, <3>2 DEF IsLine
      <4> QED BY <3>2, <4>1
    <3> QED BY <1>2, <2>1, <3>1, <3>2, <3>3
  <2> QED BY <2>4, <2>5, <2>6, SeqEqual
<1>9. /\ phase[c] = "inside" /\ phase'[c] = "left"
      /\ \A d \in Calls : d # c => phase'[d] = phase[d]
  BY DEF Leave, LineInv, ChainInv, LockTypeOK
<1>10. MutualExclusion
  BY ChainExcludes DEF LineInv
<1>11. SomeoneInside(s) /\ \A x \in Sessions : SomeoneInside(x)' = IF x = s THEN FALSE ELSE SomeoneInside(x)
  BY <1>1, <1>9, <1>10 DEF SomeoneInside, MutualExclusion
<1> QED BY <1>1, <1>3, <1>8, <1>11 DEF Fifo!Release

(* The chain of promises is a first-come-first-served lock: a call joins   *)
(* the end of its session's line with the await, the first in line is let  *)
(* in when nobody is inside, and it alone leaves (runExclusive, the start  *)
(* locks of runTurn), whatever calls come and whatever tails are dropped.  *)
THEOREM LockIsFifo == LockSpec => ImplementsFifoLock
<1>1. LockInit => Fifo!Init
  <2> SUFFICES ASSUME LockInit PROVE Fifo!Init
    OBVIOUS
  <2>1. LineInv /\ \A s \in Sessions : ~SomeoneInside(s) /\ arrivals[s] = 0
    BY LineInit, LockAssumption DEF LockInit, SomeoneInside
  <2>2. ASSUME NEW s \in Sessions PROVE LineOf(s) = << >>
    <3>1. PICK n \in 0..arrivals[s] : LeftUpTo(s, n)
      BY <2>1 DEF LineInv, LeftInOrder
    <3>2. IsLine(LineOf(s), s, n)
      BY <2>1, <3>1, LineTyped DEF LinesAreRows
    <3>3. LineOf(s) \in Seq(Calls) /\ Len(LineOf(s)) = 0
      BY <2>1, <3>1, <3>2 DEF IsLine
    <3> QED BY <3>3, EmptySeq
  <2>3. [s \in Sessions |-> LineOf(s)] = [s \in Sessions |-> << >>]
    BY <2>2, Zenon
  <2>4. [s \in Sessions |-> SomeoneInside(s)] = [s \in Sessions |-> FALSE]
    <3>1. \A s \in Sessions : SomeoneInside(s) = FALSE
      BY <2>1 DEF SomeoneInside
    <3> QED BY <3>1, Zenon
  <2> QED BY <2>3, <2>4, Zenon DEF Fifo!Init
<1>2. LineInv /\ LineInv' /\ [LockNext]_lockVars => [Fifo!Next]_(Fifo!fifoVars)
  <2> SUFFICES ASSUME LineInv, LineInv', [LockNext]_lockVars
               PROVE  [Fifo!Next]_(Fifo!fifoVars)
    OBVIOUS
  <2>1. ASSUME NEW c \in Calls, Enqueue(c) PROVE Fifo!Next
    BY <2>1, JoinsLine DEF Fifo!Next
  <2>2. ASSUME NEW c \in Calls, Enter(c) PROVE Fifo!Next
    BY <2>2, EntersLine, LockAssumption DEF Fifo!Next
  <2>3. ASSUME NEW c \in Calls, Leave(c) PROVE Fifo!Next
    BY <2>3, LeavesLine, LockAssumption DEF Fifo!Next
  <2>4. CASE UNCHANGED lockVars
    BY <2>4 DEF lockVars, Fifo!fifoVars, LineOf, Gone, Holder, Holds, HaveLeft, SomeoneInside, Queued
  <2> QED BY <2>1, <2>2, <2>3, <2>4 DEF LockNext
<1> QED BY <1>1, <1>2, LineInit, LineKept, PTL DEF LockSpec, ImplementsFifoLock, Fifo!Spec
=============================================================================
