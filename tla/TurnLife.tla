------------------------------ MODULE TurnLife ------------------------------
(***************************************************************************)
(* The life of the turns of one session, as the part that admits and       *)
(* cancels turns (TurnAdmission) and the part that carries one out         *)
(* (TurnGates) agree on it: a turn works, waits for a person unless it has *)
(* been told to stop, goes on at once when it is told, and ends only after *)
(* a last event that it decides while it is not waiting.                   *)
(***************************************************************************)
VARIABLES life,   \* none, working, waiting, ending
          told    \* whether the turn has been told to stop

lifeVars == <<life, told>>

Init == life = "none" /\ told = FALSE

Start == life = "none" /\ life' = "working" /\ told' = FALSE

Wait == life = "working" /\ ~told /\ life' = "waiting" /\ UNCHANGED told

GoOn == life = "waiting" /\ life' = "working" /\ UNCHANGED told

Tell ==
  /\ life # "none"
  /\ told' = TRUE
  /\ life' = IF life = "waiting" THEN "working" ELSE life

Decide == life = "working" /\ life' = "ending" /\ UNCHANGED told

End == life = "ending" /\ life' = "none" /\ told' = FALSE

(* The process dies, and the turn with it.                                 *)
Die == life' = "none" /\ told' = FALSE

Next == Start \/ Wait \/ GoOn \/ Tell \/ Decide \/ End \/ Die

Spec == Init /\ [][Next]_lifeVars
=============================================================================
