---------------------------- MODULE SerialTurns ----------------------------
(***************************************************************************)
(* What the turn controller promises the senders of one session: sends     *)
(* wait in an inbox, one turn runs at a time, and a turn that begins takes *)
(* everything in the inbox, in order.  TurnAdmission implements it.        *)
(***************************************************************************)
EXTENDS Sequences

CONSTANT Sends

VARIABLES inbox,     \* the sends no turn has taken yet
          current,   \* the sends of the turn that runs, or <<>>
          past       \* the sends of the turns that are over, one batch each

turnsVars == <<inbox, current, past>>

Contains(q, s) == \E i \in DOMAIN q : q[i] = s
Arrived(s) ==
  \/ Contains(inbox, s)
  \/ Contains(current, s)
  \/ \E i \in DOMAIN past : Contains(past[i], s)

Init == inbox = <<>> /\ current = <<>> /\ past = <<>>

Arrive(s) ==
  /\ ~Arrived(s)
  /\ inbox' = Append(inbox, s)
  /\ UNCHANGED <<current, past>>

Begin ==
  /\ current = <<>>
  /\ inbox # <<>>
  /\ current' = inbox
  /\ inbox' = <<>>
  /\ UNCHANGED past

End ==
  /\ current # <<>>
  /\ past' = Append(past, current)
  /\ current' = <<>>
  /\ UNCHANGED inbox

Next == (\E s \in Sends : Arrive(s)) \/ Begin \/ End

Spec == Init /\ [][Next]_turnsVars
=============================================================================
