-------------------------- MODULE SessionRegister --------------------------
(***************************************************************************)
(* What a session store with a lock promises its callers: every get,       *)
(* upsert, delete and read-modify-write section takes effect on the stored *)
(* record in one instant between its call and its return, or fails with no *)
(* effect.  SessionCache implements it.                                    *)
(***************************************************************************)
CONSTANTS Calls, Sessions, SessionOf, OpOf, NoRecord

(* A record is told apart by the writes it carries.                        *)
Records == [writes : SUBSET Calls]
Fresh == [writes |-> {}]
Stored == Records \cup {NoRecord}

VARIABLES rec,      \* the record of each session
          status,   \* idle, called, returned
          outcome   \* what a call will answer, once it has taken effect

registerVars == <<rec, status, outcome>>

NotYet == [kind |-> "none", seen |-> NoRecord]
Failed == [kind |-> "failed", seen |-> NoRecord]
Read(r) == [kind |-> "read", seen |-> r]
Written == [kind |-> "written", seen |-> NoRecord]

Init ==
  /\ rec \in [Sessions -> {Fresh, NoRecord}]
  /\ status = [c \in Calls |-> "idle"]
  /\ outcome = [c \in Calls |-> NotYet]

Call(c) ==
  /\ status[c] = "idle"
  /\ status' = [status EXCEPT ![c] = "called"]
  /\ UNCHANGED <<rec, outcome>>

Active(c) == status[c] = "called" /\ outcome[c] = NotYet

Takes(c, result) == outcome' = [outcome EXCEPT ![c] = result] /\ UNCHANGED status
Writes(c, r) == rec' = [rec EXCEPT ![SessionOf[c]] = r]

Get(c) ==
  /\ Active(c) /\ OpOf[c] = "get"
  /\ Takes(c, Read(rec[SessionOf[c]]))
  /\ UNCHANGED rec

Upsert(c) ==
  /\ Active(c) /\ OpOf[c] = "upsert"
  /\ Takes(c, Written)
  /\ Writes(c, [writes |-> {c}])

(* The record that is written back is the one of this very instant.        *)
Modify(c) ==
  /\ Active(c) /\ OpOf[c] = "modify"
  /\ rec[SessionOf[c]] # NoRecord
  /\ Takes(c, Written)
  /\ Writes(c, [writes |-> rec[SessionOf[c]].writes \cup {c}])

Delete(c) ==
  /\ Active(c) /\ OpOf[c] = "delete"
  /\ Takes(c, Written)
  /\ Writes(c, NoRecord)

Fail(c) == Active(c) /\ Takes(c, Failed) /\ UNCHANGED rec

Return(c) ==
  /\ status[c] = "called"
  /\ outcome[c] # NotYet
  /\ status' = [status EXCEPT ![c] = "returned"]
  /\ UNCHANGED <<rec, outcome>>

Next ==
  \E c \in Calls :
    Call(c) \/ Get(c) \/ Upsert(c) \/ Modify(c) \/ Delete(c) \/ Fail(c) \/ Return(c)

Spec == Init /\ [][Next]_registerVars
=============================================================================
