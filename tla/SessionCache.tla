---------------------------- MODULE SessionCache ----------------------------
(***************************************************************************)
(* CachedSessionStore (core/src/session-cache.ts): an LRU write-through    *)
(* cache over a durable SessionStore, every operation of which runs in a   *)
(* section of the per-session lock (SessionLock).  An operation is one     *)
(* call; "modify" is the read-modify-write section the harness runs under  *)
(* withSessionLock: a nested get, then a nested upsert of the changed      *)
(* record, both of which re-enter the lock without queueing.               *)
(*                                                                         *)
(* Each await of the durable store is a point where other calls run: the   *)
(* store answers in one step and the cache acts on the answer in another.  *)
(* The store may throw, in which case it has changed nothing.              *)
(***************************************************************************)
EXTENDS Naturals, Sequences

CONSTANTS Calls, Sessions, SessionOf, NoCall,
          OpOf,         \* the operation of a call: get, upsert, modify, delete
          NoRecord,     \* null: no such row, or no such cache entry
          MaxEntries,   \* options.maxEntries
          HasTtl        \* whether options.ttlMs is given

Ops == {"get", "upsert", "modify", "delete"}
Records == [writes : SUBSET Calls]   \* a record is told apart by the writes it carries
Fresh == [writes |-> {}]
Stored == Records \cup {NoRecord}

ASSUME CacheAssumption ==
  /\ SessionOf \in [Calls -> Sessions]
  /\ OpOf \in [Calls -> Ops]
  /\ NoCall \notin Calls
  /\ NoRecord \notin Records
  /\ MaxEntries \in Nat \ {0}
  /\ HasTtl \in BOOLEAN

VARIABLES phase, tails, previous, ticket, arrivals,   \* the lock
          durable,   \* the rows of the inner store
          cached,    \* the cached copy of each session, or NoRecord
          recency,   \* the sessions with an entry, least recently used first
          step,      \* where a call is inside its section
          seen,      \* the record a call has read
          result     \* none, ok or thrown

lockVars == <<phase, tails, previous, ticket, arrivals>>
cacheVars == <<cached, recency>>
vars == <<lockVars, durable, cacheVars, step, seen, result>>

Lock == INSTANCE SessionLock WITH DropsTail <- TRUE

Steps == {"start", "reading", "filling", "writing", "storing", "deleting", "done"}

(* A process starts with an empty cache over whatever rows there are.      *)
Init ==
  /\ Lock!LockInit
  /\ durable \in [Sessions -> {Fresh, NoRecord}]
  /\ cached = [s \in Sessions |-> NoRecord]
  /\ recency = <<>>
  /\ step = [c \in Calls |-> "start"]
  /\ seen = [c \in Calls |-> NoRecord]
  /\ result = [c \in Calls |-> "none"]

-----------------------------------------------------------------------------
(* The section of a call.                                                  *)

Inside(c) == phase[c] = "inside"
At(c, where) == Inside(c) /\ step[c] = where
GoTo(c, where) == step' = [step EXCEPT ![c] = where]
Finish(c, how) == GoTo(c, "done") /\ result' = [result EXCEPT ![c] = how]

HasEntry(s) == cached[s] # NoRecord
Others(s) == SelectSeq(recency, LAMBDA x : x # s)
Drop(s) == cached' = [cached EXCEPT ![s] = NoRecord] /\ recency' = Others(s)

(* evictIfNeeded drops the oldest entries over the limit.  Only the        *)
(* sessions this call holds itself are passed over; here that is just its  *)
(* own, which is the youngest.                                             *)
Victims(order) ==
  {order[i] : i \in {j \in DOMAIN order : j + MaxEntries <= Len(order)}}

(* Mutant: put() leaves an entry that is already there as it was.          *)
PutUnlessPresent(s, r) ==
  LET order == Append(Others(s), s)
      gone == Victims(order)
  IN  /\ recency' = SelectSeq(order, LAMBDA x : x \notin gone)
      /\ cached' = [x \in Sessions |->
                      IF x = s THEN (IF HasEntry(s) THEN cached[s] ELSE r)
                      ELSE IF x \in gone THEN NoRecord ELSE cached[x]]

(* put(): the entry becomes the youngest and the victims go.               *)
Put(s, r) ==
  LET order == Append(Others(s), s)
      gone == Victims(order)
  IN  /\ recency' = SelectSeq(order, LAMBDA x : x \notin gone)
      /\ cached' = [x \in Sessions |->
                      IF x = s THEN r ELSE IF x \in gone THEN NoRecord ELSE cached[x]]

(* What a call does once it has its record: a get returns it, a modify     *)
(* goes on to write it back, changed.                                      *)
AfterRead(c) ==
  IF OpOf[c] = "get" THEN Finish(c, "ok") ELSE GoTo(c, "writing") /\ UNCHANGED result

(* get(): a fresh entry is served and becomes the youngest ...             *)
Hit(c) ==
  LET s == SessionOf[c]
  IN  /\ At(c, "start") /\ OpOf[c] \in {"get", "modify"}
      /\ HasEntry(s)
      /\ recency' = Append(Others(s), s)
      /\ seen' = [seen EXCEPT ![c] = cached[s]]
      /\ AfterRead(c)
      /\ UNCHANGED <<lockVars, durable, cached>>

(* ... and an absent or expired one, which peek() drops, is loaded.        *)
Miss(c) ==
  LET s == SessionOf[c]
  IN  /\ At(c, "start") /\ OpOf[c] \in {"get", "modify"}
      /\ HasEntry(s) => HasTtl
      /\ Drop(s)
      /\ GoTo(c, "reading")
      /\ UNCHANGED <<lockVars, durable, seen, result>>

(* The inner store answers the load.                                       *)
InnerGet(c) ==
  /\ At(c, "reading")
  /\ seen' = [seen EXCEPT ![c] = durable[SessionOf[c]]]
  /\ GoTo(c, "filling")
  /\ UNCHANGED <<lockVars, durable, cacheVars, result>>

(* The cache takes the loaded row in; a modify of an unknown session       *)
(* throws.                                                                 *)
Fill(c) ==
  LET s == SessionOf[c]
  IN  /\ At(c, "filling")
      /\ IF seen[c] = NoRecord
         THEN Drop(s) /\ Finish(c, IF OpOf[c] = "get" THEN "ok" ELSE "thrown")
         ELSE Put(s, seen[c]) /\ AfterRead(c)
      /\ UNCHANGED <<lockVars, durable, seen>>

(* What upsert hands to the inner store.                                   *)
NewRecord(c) ==
  [writes |-> IF OpOf[c] = "modify" THEN seen[c].writes \cup {c} ELSE {c}]

(* upsert(), the write: the inner store commits it ...                     *)
InnerUpsert(c) ==
  /\ \/ At(c, "start") /\ OpOf[c] = "upsert"
     \/ At(c, "writing")
  /\ durable' = [durable EXCEPT ![SessionOf[c]] = NewRecord(c)]
  /\ GoTo(c, "storing")
  /\ UNCHANGED <<lockVars, cacheVars, seen, result>>

(* ... and only then is the copy cached.                                   *)
StoreCopy(c) ==
  /\ At(c, "storing")
  /\ Put(SessionOf[c], NewRecord(c))
  /\ Finish(c, "ok")
  /\ UNCHANGED <<lockVars, durable, seen>>

(* Mutant: delete() forgets the entry.                                     *)
KeepForDelete(c) ==
  /\ At(c, "start") /\ OpOf[c] = "delete"
  /\ GoTo(c, "deleting")
  /\ UNCHANGED <<lockVars, durable, cacheVars, seen, result>>

(* delete(): the entry goes first ...                                      *)
DropForDelete(c) ==
  /\ At(c, "start") /\ OpOf[c] = "delete"
  /\ Drop(SessionOf[c])
  /\ GoTo(c, "deleting")
  /\ UNCHANGED <<lockVars, durable, seen, result>>

(* ... then the row.                                                       *)
InnerDelete(c) ==
  /\ At(c, "deleting")
  /\ durable' = [durable EXCEPT ![SessionOf[c]] = NoRecord]
  /\ Finish(c, "ok")
  /\ UNCHANGED <<lockVars, cacheVars, seen>>

(* The inner store throws instead, and the section with it.                *)
InnerThrows(c) ==
  /\ \/ At(c, "reading")
     \/ At(c, "start") /\ OpOf[c] = "upsert"
     \/ At(c, "writing")
     \/ At(c, "deleting")
  /\ Finish(c, "thrown")
  /\ UNCHANGED <<lockVars, durable, cacheVars, seen>>

(* clearCache(), which takes no lock.                                      *)
ClearCache ==
  /\ cached' = [s \in Sessions |-> NoRecord]
  /\ recency' = <<>>
  /\ UNCHANGED <<lockVars, durable, step, seen, result>>

-----------------------------------------------------------------------------
(* The lock around it.                                                     *)

CallStore(c) == Lock!Enqueue(c) /\ UNCHANGED <<durable, cacheVars, step, seen, result>>

EnterSection(c) == Lock!Enter(c) /\ UNCHANGED <<durable, cacheVars, step, seen, result>>

LeaveSection(c) ==
  /\ step[c] = "done"
  /\ Lock!Leave(c)
  /\ UNCHANGED <<durable, cacheVars, step, seen, result>>

Section(c) ==
  \/ Hit(c) \/ Miss(c) \/ InnerGet(c) \/ Fill(c)
  \/ InnerUpsert(c) \/ StoreCopy(c)
  \/ DropForDelete(c) \/ InnerDelete(c)
  \/ InnerThrows(c)

Next ==
  \/ \E c \in Calls : CallStore(c) \/ EnterSection(c) \/ Section(c) \/ LeaveSection(c)
  \/ ClearCache

Spec == Init /\ [][Next]_vars

-----------------------------------------------------------------------------
(* A cached copy is the stored row, except while the section that wrote    *)
(* the row has not cached it yet: no eviction, expiry, failed write or     *)
(* delete by another call leaves an old copy behind.                       *)
Coherent ==
  \A s \in Sessions :
    HasEntry(s) =>
      \/ cached[s] = durable[s]
      \/ \E c \in Calls : SessionOf[c] = s /\ At(c, "storing")

(* The store behaves as a register per session: every operation takes      *)
(* effect in one instant, and a modify writes back what was stored at that *)
(* instant, so no write is lost.  A get takes effect when it hits or when  *)
(* the row is read, a write when the row is written.                       *)
EffectOf(c) ==
  CASE result[c] = "thrown" -> [kind |-> "failed", seen |-> NoRecord]
    [] OpOf[c] = "get" /\ (step[c] = "filling" \/ result[c] = "ok")
                            -> [kind |-> "read", seen |-> seen[c]]
    [] OpOf[c] # "get" /\ (step[c] = "storing" \/ result[c] = "ok")
                            -> [kind |-> "written", seen |-> NoRecord]
    [] OTHER                -> [kind |-> "none", seen |-> NoRecord]

StatusOf(c) ==
  CASE phase[c] = "idle" -> "idle" [] phase[c] = "left" -> "returned" [] OTHER -> "called"

Register == INSTANCE SessionRegister WITH
  rec <- durable,
  status <- [c \in Calls |-> StatusOf(c)],
  outcome <- [c \in Calls |-> EffectOf(c)]

ImplementsRegister == Register!Spec

(* The sections use the lock as SessionLock says.                          *)
UsesLock == Lock!LockSpec
=============================================================================
