------------------------------ MODULE FifoLock ------------------------------
(***************************************************************************)
(* What a per-session lock promises: the calls of a session stand in one   *)
(* line, the head of the line is let in when nobody is inside, and leaves  *)
(* the line when it is done.  SessionLock implements it.                   *)
(***************************************************************************)
EXTENDS Sequences

CONSTANTS Calls, Sessions, SessionOf

VARIABLES line,   \* the calls of each session that have not left, in order
          busy    \* whether the head of the line is inside

fifoVars == <<line, busy>>

Standing(c) == \E i \in DOMAIN line[SessionOf[c]] : line[SessionOf[c]][i] = c

Init ==
  /\ line = [s \in Sessions |-> <<>>]
  /\ busy = [s \in Sessions |-> FALSE]

Join(c) ==
  /\ ~Standing(c)
  /\ line' = [line EXCEPT ![SessionOf[c]] = Append(@, c)]
  /\ UNCHANGED busy

Admit(s) ==
  /\ line[s] # <<>>
  /\ ~busy[s]
  /\ busy' = [busy EXCEPT ![s] = TRUE]
  /\ UNCHANGED line

Release(s) ==
  /\ busy[s]
  /\ busy' = [busy EXCEPT ![s] = FALSE]
  /\ line' = [line EXCEPT ![s] = Tail(@)]

Next ==
  \/ \E c \in Calls : Join(c)
  \/ \E s \in Sessions : Admit(s) \/ Release(s)

Spec == Init /\ [][Next]_fifoVars
=============================================================================
