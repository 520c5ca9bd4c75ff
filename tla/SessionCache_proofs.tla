------------------------ MODULE SessionCache_proofs ------------------------
(***************************************************************************)
(* Proofs about SessionCache, for every number of calls, sessions and      *)
(* entries: the operations use the lock as SessionLock says, and with it   *)
(* no cached copy is ever older than its row.                              *)
(***************************************************************************)
EXTENDS SessionCache, TLAPS

LockProofs == INSTANCE SessionLock_proofs WITH DropsTail <- TRUE

-----------------------------------------------------------------------------
(* The lock.                                                               *)

LEMMA LockConstants == LockProofs!LockAssumption
BY CacheAssumption DEF LockProofs!LockAssumption

(* A call takes a step of the lock or does not touch it.                   *)
LEMMA StepOfLock == ASSUME [Next]_vars PROVE [LockProofs!LockNext]_lockVars
<1>1. ASSUME NEW c \in Calls, Section(c) PROVE UNCHANGED lockVars
  BY <1>1 DEF Section, Hit, Miss, InnerGet, Fill, InnerUpsert, StoreCopy, DropForDelete,
              InnerDelete, InnerThrows, lockVars
<1>2. ClearCache => UNCHANGED lockVars
  BY DEF ClearCache
<1>3. UNCHANGED vars => UNCHANGED lockVars
  BY DEF vars
<1>4. ASSUME NEW c \in Calls PROVE CallStore(c) => LockProofs!Enqueue(c)
  BY DEF CallStore, Lock!Enqueue, LockProofs!Enqueue
<1>5. ASSUME NEW c \in Calls PROVE EnterSection(c) => LockProofs!Enter(c)
  BY DEF EnterSection, Lock!Enter, LockProofs!Enter, Lock!Settled, LockProofs!Settled
<1>6. ASSUME NEW c \in Calls PROVE LeaveSection(c) => LockProofs!Leave(c)
  BY DEF LeaveSection, Lock!Leave, LockProofs!Leave, Lock!TailAfter, LockProofs!TailAfter
<1>. QED
  BY <1>1, <1>2, <1>3, <1>4, <1>5, <1>6 DEF Next, LockProofs!LockNext

(* The calls on the store queue for, enter and leave their sections as     *)
(* callers of the lock do, whatever happens inside the sections.           *)
THEOREM CacheUsesLock == Spec => UsesLock
<1>1. Init => Lock!LockInit
  BY DEF Init
<1>2. [Next]_vars => [Lock!LockNext]_(Lock!lockVars)
  <2>1. LockProofs!LockNext => Lock!LockNext
    BY DEF LockProofs!LockNext, LockProofs!Enqueue, LockProofs!Enter, LockProofs!Leave,
           LockProofs!Settled, LockProofs!TailAfter,
           Lock!LockNext, Lock!Enqueue, Lock!Enter, Lock!Leave, Lock!Settled, Lock!TailAfter
  <2>. QED  BY <2>1, StepOfLock DEF lockVars, Lock!lockVars
<1>. QED  BY <1>1, <1>2, PTL DEF Spec, UsesLock, Lock!LockSpec

LEMMA CacheLockSpec == Spec => LockProofs!LockSpec
<1>1. Init => LockProofs!LockInit
  BY DEF Init, Lock!LockInit, LockProofs!LockInit
<1>2. [Next]_vars => [LockProofs!LockNext]_(LockProofs!lockVars)
  BY StepOfLock DEF lockVars, LockProofs!lockVars
<1>. QED  BY <1>1, <1>2, PTL DEF Spec, LockProofs!LockSpec

-----------------------------------------------------------------------------
(* Coherence.  What a section knows between the store's answer and its own *)
(* use of it: the row it has read or written is still the row, and a       *)
(* delete has left no copy.  Other sections of the session could disturb   *)
(* this; the lock keeps them out.                                          *)

CacheTypes ==
  /\ durable \in [Sessions -> Stored]
  /\ cached \in [Sessions -> Stored]
  /\ step \in [Calls -> Steps]
  /\ seen \in [Calls -> Stored]

StepsOfSections ==
  \A c \in Calls :
    /\ step[c] # "start" => phase[c] \in {"inside", "left"}
    /\ phase[c] = "left" => step[c] = "done"

WritesWhatItRead ==
  \A c \in Calls : (step[c] \in {"writing",
      "storing"} /\ OpOf[c] = "modify") => seen[c] \in Records

RowUnderSection ==
  \A c \in Calls :
    /\ step[c] = "filling" => seen[c] = durable[SessionOf[c]]
    /\ step[c] = "storing" => durable[SessionOf[c]] = NewRecord(c)
    /\ step[c] = "deleting" => ~HasEntry(SessionOf[c])

CacheInv ==
  /\ CacheTypes
  /\ StepsOfSections
  /\ WritesWhatItRead
  /\ RowUnderSection
  /\ Coherent

LEMMA CacheInit == Init => CacheInv
BY CacheAssumption
DEF Init, Lock!LockInit, CacheInv, CacheTypes, StepsOfSections, WritesWhatItRead,
    RowUnderSection,
    Coherent, Steps, Stored, Records, Fresh, HasEntry

(* Two calls of one session are never both between start and done.         *)
LEMMA OneSection ==
  ASSUME CacheInv, LockProofs!MutualExclusion,
         NEW c \in Calls, NEW d \in Calls, Inside(c),
         SessionOf[c] = SessionOf[d], step[d] \notin {"start", "done"}
  PROVE  c = d
BY DEF CacheInv, CacheTypes, StepsOfSections, LockProofs!MutualExclusion, Inside

LEMMA WrittenIsRecord ==
  ASSUME CacheInv, NEW c \in Calls,
         step[c] \in {"writing", "storing"} \/ OpOf[c] = "upsert"
  PROVE  NewRecord(c) \in Records
BY DEF CacheInv, CacheTypes, WritesWhatItRead, NewRecord, Records

(* A section that stores a row in the cache, whatever it evicts.           *)
LEMMA PutIsCoherent ==
  ASSUME CacheInv, LockProofs!MutualExclusion, NEW c \in Calls,
         Inside(c), step[c] \in {"filling", "storing"},
         NEW r \in Records, r = durable[SessionOf[c]],
         Put(SessionOf[c], r), step' \in [Calls -> Steps],
         step' = [step EXCEPT ![c] = step'[c]], step'[c] \in {"writing", "done"},
         step'[c] = "writing" => seen[c] \in Records,
         UNCHANGED <<phase, durable, seen>>
  PROVE  CacheInv'
<1> DEFINE s == SessionOf[c]
<1>1. s \in Sessions
  BY CacheAssumption
<1>2. cached' \in [Sessions -> Stored] /\ cached'[s] = r
      /\ \A x \in Sessions \ {s} : cached'[x] \in {cached[x], NoRecord}
  BY <1>1 DEF Put, CacheInv, CacheTypes, Stored
<1>3. CacheTypes'
  BY <1>2 DEF CacheInv, CacheTypes
<1>4. StepsOfSections'
  BY DEF CacheInv, StepsOfSections, CacheTypes, Inside
<1>5. WritesWhatItRead'
  BY DEF CacheInv, WritesWhatItRead, CacheTypes
<1>6. RowUnderSection'
  <2> SUFFICES ASSUME NEW d \in Calls
               PROVE  /\ step'[d] = "filling" => seen[d] = durable[SessionOf[d]]
                      /\ step'[d] = "storing" => durable[SessionOf[d]] = NewRecord(d)
                      /\ step'[d] = "deleting" => cached'[SessionOf[d]] = NoRecord
    BY DEF RowUnderSection, HasEntry, NewRecord
  <2>1. SessionOf[d] \in Sessions
    BY CacheAssumption
  <2>2. CASE d = c
    BY <2>2
  <2>3. CASE d # c
    <3>1. step'[d] = step[d]
      BY <2>3 DEF CacheInv, CacheTypes
    <3>2. step[d] = "deleting" => SessionOf[d] # s
      BY <2>3, OneSection
    <3>. QED  BY <2>1, <3>1, <3>2, <1>2 DEF CacheInv, RowUnderSection, HasEntry
  <2>. QED  BY <2>2, <2>3
<1>7. Coherent'
  <2> SUFFICES ASSUME NEW x \in Sessions, cached'[x] # NoRecord, cached'[x] # durable[x]
               PROVE  \E d \in Calls : SessionOf[d] = x /\ phase[d] = "inside" /\ step'[d] = "storing"
    BY DEF Coherent, HasEntry, At, Inside
  <2>1. x # s /\ cached'[x] = cached[x]
    BY <1>2
  <2>2. PICK d \in Calls : SessionOf[d] = x /\ phase[d] = "inside" /\ step[d] = "storing"
    BY <2>1 DEF CacheInv, Coherent, HasEntry, At, Inside
  <2>3. step'[d] = "storing"
    BY <2>1, <2>2 DEF CacheInv, CacheTypes
  <2>. QED  BY <2>2, <2>3
<1>. QED  BY <1>3, <1>4, <1>5, <1>6, <1>7 DEF CacheInv

LEMMA HitKeeps == ASSUME CacheInv, NEW c \in Calls, Hit(c) PROVE CacheInv'
<1>1. SessionOf[c] \in Sessions
  BY CacheAssumption
<1>2. seen' = [seen EXCEPT ![c] = cached[SessionOf[c]]] /\ cached[SessionOf[c]] \in Records
  BY <1>1 DEF Hit, HasEntry, CacheInv, CacheTypes, Stored
<1>3. step' \in {[step EXCEPT ![c] = "done"], [step EXCEPT ![c] = "writing"]}
  BY DEF Hit, AfterRead, Finish, GoTo
<1>4. UNCHANGED <<phase, durable, cached>> /\ At(c, "start")
  BY DEF Hit, lockVars
<1>. QED
  BY <1>1, <1>2, <1>3, <1>4
  DEF CacheInv, CacheTypes, Steps, Stored, StepsOfSections, WritesWhatItRead, RowUnderSection,
      Coherent, HasEntry, At, Inside, NewRecord

(* Forgetting a copy never makes another one stale.                        *)
LEMMA DropKeeps ==
  ASSUME CacheInv, NEW c \in Calls, Drop(SessionOf[c]), Inside(c),
         NEW where \in {"reading", "deleting", "done"},
         step[c] \in {"start", "filling"}, step' = [step EXCEPT ![c] = where],
         UNCHANGED <<phase, durable, seen>>
  PROVE  CacheInv'
<1>1. SessionOf[c] \in Sessions
  BY CacheAssumption
<1>. QED
  BY <1>1
  DEF CacheInv, CacheTypes, Steps, Stored, StepsOfSections, WritesWhatItRead, RowUnderSection,
      Coherent, HasEntry, At, Inside, NewRecord, Drop

LEMMA InnerGetKeeps == ASSUME CacheInv, NEW c \in Calls, InnerGet(c) PROVE CacheInv'
<1>1. SessionOf[c] \in Sessions
  BY CacheAssumption
<1>. QED
  BY <1>1
  DEF CacheInv, CacheTypes, Steps, Stored, StepsOfSections, WritesWhatItRead, RowUnderSection,
      Coherent, HasEntry, At, Inside, NewRecord, InnerGet, GoTo, lockVars, cacheVars

LEMMA FillKeeps ==
  ASSUME CacheInv, LockProofs!MutualExclusion, NEW c \in Calls, Fill(c)
  PROVE  CacheInv'
<1>1. SessionOf[c] \in Sessions /\ Inside(c) /\ step[c] = "filling"
  BY CacheAssumption DEF Fill, At
<1>2. UNCHANGED <<phase, durable, seen>>
  BY DEF Fill, lockVars
<1>3. CASE seen[c] = NoRecord
  <2>1. Drop(SessionOf[c]) /\ step' = [step EXCEPT ![c] = "done"]
    BY <1>3 DEF Fill, Finish, GoTo
  <2>. QED  BY <1>1, <1>2, <2>1, DropKeeps
<1>4. CASE seen[c] # NoRecord
  <2>1. Put(SessionOf[c], seen[c])
    BY <1>4 DEF Fill
  <2>2. step' \in {[step EXCEPT ![c] = "done"], [step EXCEPT ![c] = "writing"]}
    BY <1>4 DEF Fill, AfterRead, Finish, GoTo
  <2>3. seen[c] \in Records /\ seen[c] = durable[SessionOf[c]]
    BY <1>1, <1>4 DEF CacheInv, CacheTypes, Stored, RowUnderSection
  <2>4. /\ step' \in [Calls -> Steps] /\ step'[c] \in {"writing", "done"}
        /\ step' = [step EXCEPT ![c] = step'[c]]
    BY <2>2 DEF CacheInv, CacheTypes, Steps
  <2>. QED  BY <1>1, <1>2, <2>1, <2>3, <2>4, PutIsCoherent
<1>. QED  BY <1>3, <1>4

LEMMA InnerUpsertKeeps ==
  ASSUME CacheInv, LockProofs!MutualExclusion, NEW c \in Calls, InnerUpsert(c)
  PROVE  CacheInv'
<1>1. SessionOf[c] \in Sessions /\ Inside(c)
  BY CacheAssumption DEF InnerUpsert, At
<1>2. NewRecord(c) \in Records
  BY WrittenIsRecord DEF InnerUpsert, At
<1>3. /\ durable' = [durable EXCEPT ![SessionOf[c]] = NewRecord(c)]
      /\ step' = [step EXCEPT ![c] = "storing"]
      /\ UNCHANGED <<phase, cached, seen>>
      /\ (step[c] = "start" /\ OpOf[c] = "upsert") \/ step[c] = "writing"
  BY DEF InnerUpsert, GoTo, At, lockVars, cacheVars
<1>4. ASSUME NEW d \in Calls, d # c, step[d] \notin {"start", "done"}
      PROVE  SessionOf[d] # SessionOf[c]
  BY <1>1, <1>4, OneSection
<1>5. CacheTypes' /\ StepsOfSections' /\ WritesWhatItRead'
  BY <1>1, <1>2, <1>3
  DEF CacheInv, CacheTypes, Steps, Stored, StepsOfSections, WritesWhatItRead, Inside
<1>6. RowUnderSection'
  <2> SUFFICES ASSUME NEW d \in Calls
               PROVE  /\ step'[d] = "filling" => seen[d] = durable'[SessionOf[d]]
                      /\ step'[d] = "storing" => durable'[SessionOf[d]] = NewRecord(d)
                      /\ step'[d] = "deleting" => ~HasEntry(SessionOf[d])
    BY <1>3 DEF RowUnderSection, HasEntry, NewRecord
  <2>1. SessionOf[d] \in Sessions
    BY CacheAssumption
  <2>2. CASE d = c
    BY <1>1, <1>3, <2>2 DEF CacheInv, CacheTypes
  <2>3. CASE d # c
    BY <1>1, <1>3, <1>4, <2>1, <2>3 DEF CacheInv, CacheTypes, RowUnderSection
  <2>. QED  BY <2>2, <2>3
<1>7. Coherent'
  BY <1>1, <1>3 DEF CacheInv, CacheTypes, Coherent, HasEntry, At, Inside
<1>. QED  BY <1>5, <1>6, <1>7 DEF CacheInv

LEMMA StoreCopyKeeps ==
  ASSUME CacheInv, LockProofs!MutualExclusion, NEW c \in Calls, StoreCopy(c)
  PROVE  CacheInv'
<1>1. SessionOf[c] \in Sessions /\ Inside(c) /\ step[c] = "storing"
  BY CacheAssumption DEF StoreCopy, At
<1>2. NewRecord(c) \in Records /\ NewRecord(c) = durable[SessionOf[c]]
  BY <1>1, WrittenIsRecord DEF CacheInv, RowUnderSection
<1>3. /\ Put(SessionOf[c], NewRecord(c)) /\ step' = [step EXCEPT ![c] = "done"]
      /\ UNCHANGED <<phase, durable, seen>>
  BY DEF StoreCopy, Finish, GoTo, lockVars
<1>4. step' \in [Calls -> Steps] /\ step'[c] = "done"
  BY <1>3 DEF CacheInv, CacheTypes, Steps
<1>. QED  BY <1>1, <1>2, <1>3, <1>4, PutIsCoherent

LEMMA InnerDeleteKeeps ==
  ASSUME CacheInv, LockProofs!MutualExclusion, NEW c \in Calls, InnerDelete(c)
  PROVE  CacheInv'
<1>1. SessionOf[c] \in Sessions /\ Inside(c) /\ step[c] = "deleting"
  BY CacheAssumption DEF InnerDelete, At
<1>2. /\ durable' = [durable EXCEPT ![SessionOf[c]] = NoRecord]
      /\ step' = [step EXCEPT ![c] = "done"]
      /\ UNCHANGED <<phase, cached, seen>>
  BY DEF InnerDelete, Finish, GoTo, lockVars, cacheVars
<1>3. ASSUME NEW d \in Calls, d # c, step[d] \notin {"start", "done"}
      PROVE  SessionOf[d] # SessionOf[c]
  BY <1>1, <1>3, OneSection
<1>4. CacheTypes' /\ StepsOfSections' /\ WritesWhatItRead'
  BY <1>1, <1>2
  DEF CacheInv, CacheTypes, Steps, Stored, StepsOfSections, WritesWhatItRead, Inside
<1>5. RowUnderSection'
  <2> SUFFICES ASSUME NEW d \in Calls, step'[d] \in {"filling", "storing", "deleting"}
               PROVE  /\ step'[d] = "filling" => seen[d] = durable'[SessionOf[d]]
                      /\ step'[d] = "storing" => durable'[SessionOf[d]] = NewRecord(d)
                      /\ step'[d] = "deleting" => ~HasEntry(SessionOf[d])
    BY <1>2 DEF RowUnderSection, HasEntry, NewRecord
  <2>1. SessionOf[d] \in Sessions /\ d # c /\ step'[d] = step[d]
    BY <1>2, CacheAssumption DEF CacheInv, CacheTypes
  <2>. QED  BY <1>2, <1>3, <2>1 DEF CacheInv, CacheTypes, RowUnderSection
<1>6. Coherent'
  <2>1. ~HasEntry(SessionOf[c])
    BY <1>1 DEF CacheInv, RowUnderSection
  <2>. QED  BY <1>1, <1>2, <2>1 DEF CacheInv, CacheTypes, Coherent, HasEntry, At, Inside
<1>. QED  BY <1>4, <1>5, <1>6 DEF CacheInv

LEMMA InnerThrowsKeeps == ASSUME CacheInv, NEW c \in Calls, InnerThrows(c) PROVE CacheInv'
BY DEF InnerThrows, Finish, GoTo, lockVars, cacheVars,
       CacheInv, CacheTypes, Steps, StepsOfSections, WritesWhatItRead, RowUnderSection,
       Coherent, HasEntry, At, Inside, NewRecord

LEMMA ClearCacheKeeps == ASSUME CacheInv, ClearCache PROVE CacheInv'
BY CacheAssumption
   DEF ClearCache, lockVars,
       CacheInv, CacheTypes, Stored, StepsOfSections, WritesWhatItRead, RowUnderSection,
       Coherent, HasEntry, At, Inside, NewRecord

(* Queueing, entering and leaving move no record.                          *)
LEMMA LockStepKeeps ==
  ASSUME CacheInv, Lock!LockTypeOK, NEW c \in Calls,
         CallStore(c) \/ EnterSection(c) \/ LeaveSection(c)
  PROVE  CacheInv'
<1>1. UNCHANGED <<durable, cached, step, seen>>
  BY DEF CallStore, EnterSection, LeaveSection, cacheVars
<1>2. PICK p \in {"queued", "inside", "left"} : phase' = [phase EXCEPT ![c] = p]
  BY DEF CallStore, EnterSection, LeaveSection, Lock!Enqueue, Lock!Enter, Lock!Leave
<1>3. /\ p = "queued" => phase[c] = "idle"
      /\ p = "inside" => phase[c] = "queued"
      /\ p = "left" => phase[c] = "inside" /\ step[c] = "done"
  BY <1>2 DEF CallStore, EnterSection, LeaveSection, Lock!Enqueue, Lock!Enter, Lock!Leave,
              Lock!LockTypeOK
<1>4. \A d \in Calls : phase'[d] = IF d = c THEN p ELSE phase[d]
  BY <1>2 DEF Lock!LockTypeOK
<1>5. StepsOfSections'
  BY <1>1, <1>3, <1>4 DEF CacheInv, StepsOfSections
<1>6. Coherent'
  BY <1>1, <1>3, <1>4 DEF CacheInv, Coherent, HasEntry, At, Inside
<1>. QED
  BY <1>1, <1>5, <1>6
  DEF CacheInv, CacheTypes, WritesWhatItRead, RowUnderSection, HasEntry, NewRecord

(* What the lock guarantees the sections.                                  *)
Guarded == Lock!LockTypeOK /\ LockProofs!MutualExclusion

LEMMA GuardedByLock == Spec => []Guarded
<1>1. LockProofs!LockSpec => []LockProofs!ChainInv
  BY LockProofs!ChainCorrect, LockConstants
<1>2. LockProofs!ChainInv => Guarded
  <2>1. LockProofs!ChainInv => LockProofs!MutualExclusion
    BY LockProofs!ChainExcludes, LockConstants
  <2>. QED
    BY <2>1 DEF LockProofs!ChainInv, LockProofs!LockTypeOK, Lock!LockTypeOK,
                LockProofs!Phases, Lock!Phases, Guarded
<1>. QED  BY <1>1, <1>2, CacheLockSpec, PTL

LEMMA CacheInvKept == ASSUME CacheInv, Guarded, [Next]_vars PROVE CacheInv'
<1>1. Lock!LockTypeOK /\ LockProofs!MutualExclusion
  BY DEF Guarded
<1>2. ASSUME NEW c \in Calls,
    CallStore(c) \/ EnterSection(c) \/ LeaveSection(c) PROVE CacheInv'
  BY <1>1, <1>2, LockStepKeeps
<1>3. ASSUME NEW c \in Calls, Hit(c) PROVE CacheInv'
  BY <1>3, HitKeeps
<1>4. ASSUME NEW c \in Calls, Miss(c) PROVE CacheInv'
  BY <1>4, DropKeeps DEF Miss, At, GoTo, lockVars
<1>5. ASSUME NEW c \in Calls, InnerGet(c) PROVE CacheInv'
  BY <1>5, InnerGetKeeps
<1>6. ASSUME NEW c \in Calls, Fill(c) PROVE CacheInv'
  BY <1>1, <1>6, FillKeeps
<1>7. ASSUME NEW c \in Calls, InnerUpsert(c) PROVE CacheInv'
  BY <1>1, <1>7, InnerUpsertKeeps
<1>8. ASSUME NEW c \in Calls, StoreCopy(c) PROVE CacheInv'
  BY <1>1, <1>8, StoreCopyKeeps
<1>9. ASSUME NEW c \in Calls, DropForDelete(c) PROVE CacheInv'
  BY <1>9, DropKeeps DEF DropForDelete, At, GoTo, lockVars
<1>10. ASSUME NEW c \in Calls, InnerDelete(c) PROVE CacheInv'
  BY <1>1, <1>10, InnerDeleteKeeps
<1>11. ASSUME NEW c \in Calls, InnerThrows(c) PROVE CacheInv'
  BY <1>11, InnerThrowsKeeps
<1>12. CASE ClearCache
  BY <1>12, ClearCacheKeeps
<1>13. CASE UNCHANGED vars
  BY <1>13
  DEF vars, lockVars, cacheVars, CacheInv, CacheTypes, StepsOfSections, WritesWhatItRead,
      RowUnderSection, Coherent, HasEntry, At, Inside, NewRecord
<1>. QED
  BY <1>2, <1>3, <1>4, <1>5, <1>6, <1>7, <1>8, <1>9, <1>10, <1>11, <1>12, <1>13
  DEF Next, Section

LEMMA CacheInvariant == Spec => []CacheInv
<1>1. CacheInv /\ Guarded /\ [Next]_vars => CacheInv'
  BY CacheInvKept
<1>. QED  BY <1>1, CacheInit, GuardedByLock, PTL DEF Spec

(* No interleaving of reads, writes, deletes, failures, expiries and       *)
(* evictions leaves a cached copy that is not the stored row, but for the  *)
(* moment in which the section that wrote the row is about to cache it.    *)
THEOREM CacheCoherent == Spec => []Coherent
<1>1. CacheInv => Coherent
  BY DEF CacheInv
<1>. QED  BY <1>1, CacheInvariant, PTL

-----------------------------------------------------------------------------
(* The register.  What the refinement needs beyond coherence: a result     *)
(* means that the section is done, a section takes the steps of its own    *)
(* operation, and what a modify is about to write back is what it changes. *)

ResultsFit ==
  /\ result \in [Calls -> {"none", "ok", "thrown"}]
  /\ \A c \in Calls :
       /\ result[c] # "none" <=> step[c] = "done"
       /\ step[c] \in {"reading", "filling"} => OpOf[c] \in {"get", "modify"}
       /\ step[c] = "writing" => OpOf[c] = "modify" /\ seen[c] = durable[SessionOf[c]]
       /\ step[c] = "storing" => OpOf[c] \in {"upsert", "modify"}
       /\ step[c] = "deleting" => OpOf[c] = "delete"

(* A step of a section is a step of the one call.                          *)
LEMMA SectionIsOwn ==
  ASSUME CacheTypes, ResultsFit, NEW c \in Calls, Section(c)
  PROVE  /\ UNCHANGED phase /\ Inside(c) /\ step[c] # "done"
         /\ \A d \in Calls \ {c} : UNCHANGED <<step[d], seen[d], result[d]>>
         /\ \A s \in Sessions \ {SessionOf[c]} : durable'[s] = durable[s]
<1> USE DEF CacheTypes, ResultsFit, At, Finish, GoTo, AfterRead, lockVars
<1>1. Hit(c) \/ Miss(c) \/ InnerGet(c) =>
         /\ UNCHANGED <<phase, durable>> /\ Inside(c) /\ step[c] # "done"
         /\ \A d \in Calls \ {c} : UNCHANGED <<step[d], seen[d], result[d]>>
  BY DEF Hit, Miss, InnerGet
<1>2. Fill(c) \/ StoreCopy(c) \/ DropForDelete(c) \/ InnerThrows(c) =>
         /\ UNCHANGED <<phase, durable>> /\ Inside(c) /\ step[c] # "done"
         /\ \A d \in Calls \ {c} : UNCHANGED <<step[d], seen[d], result[d]>>
  BY DEF Fill, StoreCopy, DropForDelete, InnerThrows
<1>3. InnerUpsert(c) \/ InnerDelete(c) =>
         /\ UNCHANGED phase /\ Inside(c) /\ step[c] # "done"
         /\ \A d \in Calls \ {c} : UNCHANGED <<step[d], seen[d], result[d]>>
         /\ \A s \in Sessions \ {SessionOf[c]} : durable'[s] = durable[s]
  BY DEF InnerUpsert, InnerDelete
<1>. QED  BY <1>1, <1>2, <1>3 DEF Section

(* A hit finds the row: no other section of the session is storing one.    *)
LEMMA HitFindsRow ==
  ASSUME CacheInv, LockProofs!MutualExclusion, NEW c \in Calls, Hit(c)
  PROVE  seen' = [seen EXCEPT ![c] = durable[SessionOf[c]]]
<1>1. SessionOf[c] \in Sessions /\ Inside(c) /\ step[c] = "start"
  BY CacheAssumption DEF Hit, At
<1>2. ASSUME NEW d \in Calls, SessionOf[d] = SessionOf[c], step[d] = "storing" PROVE FALSE
  <2>1. c = d
    BY <1>1, <1>2, OneSection
  <2>. QED  BY <1>1, <1>2, <2>1
<1>3. cached[SessionOf[c]] = durable[SessionOf[c]]
  BY <1>1, <1>2 DEF Hit, CacheInv, Coherent, At
<1>. QED  BY <1>3 DEF Hit

LEMMA ResultsInit == Init => ResultsFit
BY DEF Init, ResultsFit

LEMMA ResultsKept ==
  ASSUME CacheInv, LockProofs!MutualExclusion, ResultsFit, [Next]_vars
  PROVE  ResultsFit'
<1>1. ASSUME NEW c \in Calls, Section(c) PROVE ResultsFit'
  <2>1. /\ UNCHANGED phase /\ Inside(c) /\ step[c] # "done"
        /\ \A d \in Calls \ {c} : UNCHANGED <<step[d], seen[d], result[d]>>
        /\ \A s \in Sessions \ {SessionOf[c]} : durable'[s] = durable[s]
    BY <1>1, SectionIsOwn DEF CacheInv
  <2>2. ASSUME NEW d \in Calls \ {c}, step[d] = "writing"
        PROVE  durable'[SessionOf[d]] = durable[SessionOf[d]]
    <3>1. SessionOf[d] # SessionOf[c]
      BY <2>1, <2>2, OneSection
    <3>. QED  BY <2>1, <3>1, CacheAssumption
  <2>3. result' \in [Calls -> {"none", "ok", "thrown"}]
    BY <1>1 DEF Section, Hit, Miss, InnerGet, Fill, InnerUpsert, StoreCopy, DropForDelete,
                InnerDelete, InnerThrows, AfterRead, Finish, GoTo, ResultsFit
  <2>4. /\ result'[c] # "none" <=> step'[c] = "done"
        /\ step'[c] \in {"reading", "filling"} => OpOf[c] \in {"get", "modify"}
        /\ step'[c] = "writing" => OpOf[c] = "modify" /\ seen'[c] = durable'[SessionOf[c]]
        /\ step'[c] = "storing" => OpOf[c] \in {"upsert", "modify"}
        /\ step'[c] = "deleting" => OpOf[c] = "delete"
    <3> USE DEF CacheInv, CacheTypes, ResultsFit, At, GoTo, Finish, AfterRead
    <3>1. CASE Hit(c)
      <4>1. seen'[c] = durable'[SessionOf[c]]
        BY <3>1, HitFindsRow DEF Hit
      <4>. QED  BY <3>1, <4>1 DEF Hit
    <3>2. CASE Miss(c) \/ InnerGet(c)
      BY <3>2 DEF Miss, InnerGet
    <3>3. CASE Fill(c)
      BY <3>3 DEF Fill, RowUnderSection
    <3>4. CASE InnerUpsert(c) \/ StoreCopy(c)
      BY <3>4 DEF InnerUpsert, StoreCopy
    <3>5. CASE DropForDelete(c) \/ InnerDelete(c) \/ InnerThrows(c)
      BY <3>5 DEF DropForDelete, InnerDelete, InnerThrows
    <3>. QED  BY <1>1, <3>1, <3>2, <3>3, <3>4, <3>5 DEF Section
  <2>. QED  BY <2>1, <2>2, <2>3, <2>4 DEF ResultsFit
<1>2. ASSUME \/ ClearCache \/ UNCHANGED vars
             \/ \E c \in Calls : CallStore(c) \/ EnterSection(c) \/ LeaveSection(c)
      PROVE  ResultsFit'
  <2>1. UNCHANGED <<durable, step, seen, result>>
    BY <1>2 DEF ClearCache, vars, CallStore, EnterSection, LeaveSection
  <2>. QED  BY <2>1 DEF ResultsFit
<1>. QED  BY <1>1, <1>2 DEF Next

(* What a step means to the register: only the call that takes it can have *)
(* an outcome it had not.                                                  *)
LEMMA OutcomeOfStep ==
  ASSUME CacheTypes, ResultsFit, NEW c \in Calls, Section(c),
         NEW e, EffectOf(c)' = e
  PROVE  /\ [d \in Calls |-> StatusOf(d)]' = [d \in Calls |-> StatusOf(d)]
         /\ [d \in Calls |-> EffectOf(d)]' = [[d \in Calls |-> EffectOf(d)] EXCEPT ![c] = e]
         /\ StatusOf(c) = "called"
<1>1. UNCHANGED phase /\ Inside(c)
  BY SectionIsOwn
<1>2. \A d \in Calls : StatusOf(d)' = StatusOf(d)
  BY <1>1 DEF StatusOf
<1>3. ASSUME NEW d \in Calls \ {c} PROVE EffectOf(d)' = EffectOf(d)
  <2>1. UNCHANGED <<step[d], seen[d], result[d]>>
    BY SectionIsOwn
  <2>. QED  BY <2>1 DEF EffectOf
<1>4. StatusOf(c) = "called"
  BY <1>1 DEF StatusOf, Inside
<1>. QED  BY <1>2, <1>3, <1>4

LEMMA RegisterActs ==
  ASSUME CacheTypes, ResultsFit, NEW c \in Calls, Section(c),
         EffectOf(c) = Register!NotYet,
         \/ /\ OpOf[c] = "get" /\ UNCHANGED durable
            /\ EffectOf(c)' = Register!Read(durable[SessionOf[c]])
         \/ /\ OpOf[c] = "upsert" /\ EffectOf(c)' = Register!Written
            /\ durable' = [durable EXCEPT ![SessionOf[c]] = [writes |-> {c}]]
         \/ /\ OpOf[c] = "modify" /\ EffectOf(c)' = Register!Written
            /\ durable[SessionOf[c]] # NoRecord
            /\ durable' = [durable EXCEPT ![SessionOf[c]] =
                             [writes |-> durable[SessionOf[c]].writes \cup {c}]]
         \/ /\ OpOf[c] = "delete" /\ EffectOf(c)' = Register!Written
            /\ durable' = [durable EXCEPT ![SessionOf[c]] = NoRecord]
         \/ EffectOf(c)' = Register!Failed /\ UNCHANGED durable
  PROVE  Register!Next
<1> DEFINE Outcome == [d \in Calls |-> EffectOf(d)]
           Status == [d \in Calls |-> StatusOf(d)]
<1>1. /\ Status' = Status /\ Status[c] = "called"
      /\ Outcome' = [Outcome EXCEPT ![c] = EffectOf(c)'] /\ Outcome[c] = Register!NotYet
  BY OutcomeOfStep
<1>. QED
  BY <1>1 DEF Register!Next, Register!Get, Register!Upsert, Register!Modify, Register!Delete,
              Register!Fail, Register!Active, Register!Takes, Register!Writes

LEMMA RegisterStutters ==
  ASSUME CacheTypes, ResultsFit, NEW c \in Calls, Section(c), UNCHANGED durable,
         EffectOf(c)' = EffectOf(c)
  PROVE  UNCHANGED Register!registerVars
BY OutcomeOfStep DEF Register!registerVars

(* Before the store has answered, a call has no outcome.                   *)
LEMMA NoEffectYet ==
  ASSUME ResultsFit, NEW c \in Calls, step[c] \notin {"filling", "storing", "done"}
  PROVE  EffectOf(c) = Register!NotYet
BY DEF ResultsFit, EffectOf, Register!NotYet

LEMMA SectionImplements ==
  ASSUME CacheInv, LockProofs!MutualExclusion, ResultsFit, ResultsFit',
         NEW c \in Calls, Section(c)
  PROVE  [Register!Next]_(Register!registerVars)
<1> USE DEF At, GoTo, Finish, AfterRead
<1>1. /\ step \in [Calls -> Steps] /\ seen \in [Calls -> Stored]
      /\ result \in [Calls -> {"none", "ok", "thrown"}] /\ CacheTypes
  BY DEF CacheInv, CacheTypes, ResultsFit
<1>2. CASE Hit(c)
  <2>1. seen'[c] = durable[SessionOf[c]] /\ UNCHANGED durable
    BY <1>1, <1>2, HitFindsRow DEF Hit
  <2>2. EffectOf(c) = Register!NotYet /\ result[c] = "none"
    BY <1>2, NoEffectYet DEF Hit, ResultsFit
  <2>3. CASE OpOf[c] = "get"
    <3>1. step'[c] = "done" /\ result'[c] = "ok"
      BY <1>1, <1>2, <2>3 DEF Hit
    <3>2. EffectOf(c)' = Register!Read(durable[SessionOf[c]])
      BY <2>1, <2>3, <3>1 DEF EffectOf, Register!Read
    <3>. QED  BY <1>1, <2>1, <2>2, <2>3, <3>2, RegisterActs
  <2>4. CASE OpOf[c] # "get"
    <3>1. step'[c] = "writing" /\ result'[c] = "none"
      BY <1>1, <1>2, <2>2, <2>4 DEF Hit
    <3>2. EffectOf(c)' = EffectOf(c)
      BY <2>2, <2>4, <3>1 DEF EffectOf, Register!NotYet
    <3>. QED  BY <1>1, <2>1, <3>2, RegisterStutters
  <2>. QED  BY <2>3, <2>4
<1>3. CASE Miss(c) \/ DropForDelete(c)
  <2>1. UNCHANGED <<durable, result>> /\ step[c] = "start"
        /\ step'[c] \in {"reading", "deleting"}
    BY <1>1, <1>3 DEF Miss, DropForDelete
  <2>2. EffectOf(c) = Register!NotYet /\ result[c] = "none"
    BY <2>1, NoEffectYet DEF ResultsFit
  <2>3. EffectOf(c)' = EffectOf(c)
    BY <2>1, <2>2 DEF EffectOf, Register!NotYet
  <2>. QED  BY <1>1, <2>1, <2>3, RegisterStutters
<1>4. CASE InnerGet(c)
  <2>1. /\ UNCHANGED <<durable, result>> /\ step[c] = "reading" /\ step'[c] = "filling"
        /\ seen'[c] = durable[SessionOf[c]]
    BY <1>1, <1>4 DEF InnerGet
  <2>2. EffectOf(c) = Register!NotYet /\ result[c] = "none"
    BY <2>1, NoEffectYet DEF ResultsFit
  <2>3. CASE OpOf[c] = "get"
    <3>1. EffectOf(c)' = Register!Read(durable[SessionOf[c]])
      BY <2>1, <2>2, <2>3 DEF EffectOf, Register!Read
    <3>. QED  BY <1>1, <2>1, <2>2, <2>3, <3>1, RegisterActs
  <2>4. CASE OpOf[c] # "get"
    <3>1. EffectOf(c)' = EffectOf(c)
      BY <2>1, <2>2, <2>4 DEF EffectOf, Register!NotYet
    <3>. QED  BY <1>1, <2>1, <3>1, RegisterStutters
  <2>. QED  BY <2>3, <2>4
<1>5. CASE Fill(c)
  <2>1. UNCHANGED <<durable, seen>> /\ step[c] = "filling" /\ result[c] = "none"
        /\ OpOf[c] \in {"get", "modify"}
    BY <1>5 DEF Fill, ResultsFit
  <2>2. CASE OpOf[c] = "get"
    <3>1. result'[c] = "ok"
      BY <1>1, <1>5, <2>2 DEF Fill
    <3>2. EffectOf(c)' = EffectOf(c)
      BY <2>1, <2>2, <3>1 DEF EffectOf
    <3>. QED  BY <1>1, <2>1, <3>2, RegisterStutters
  <2>3. CASE OpOf[c] = "modify" /\ seen[c] = NoRecord
    <3>1. result'[c] = "thrown" /\ step'[c] = "done"
      BY <1>1, <1>5, <2>3 DEF Fill
    <3>2. EffectOf(c)' = Register!Failed /\ EffectOf(c) = Register!NotYet
      BY <2>1, <2>3, <3>1 DEF EffectOf, Register!Failed, Register!NotYet
    <3>. QED  BY <1>1, <2>1, <3>2, RegisterActs
  <2>4. CASE OpOf[c] = "modify" /\ seen[c] # NoRecord
    <3>1. step'[c] = "writing" /\ result'[c] = "none"
      BY <1>1, <1>5, <2>1, <2>4 DEF Fill
    <3>2. EffectOf(c)' = EffectOf(c)
      BY <2>1, <2>4, <3>1 DEF EffectOf
    <3>. QED  BY <1>1, <2>1, <3>2, RegisterStutters
  <2>. QED  BY <2>1, <2>2, <2>3, <2>4
<1>6. CASE InnerUpsert(c)
  <2>1. /\ step[c] \in {"start", "writing"} /\ step'[c] = "storing" /\ UNCHANGED result
        /\ OpOf[c] \in {"upsert", "modify"}
        /\ durable' = [durable EXCEPT ![SessionOf[c]] = NewRecord(c)]
    BY <1>1, <1>6 DEF InnerUpsert, ResultsFit
  <2>2. EffectOf(c) = Register!NotYet /\ result[c] = "none"
    BY <2>1, NoEffectYet DEF ResultsFit
  <2>3. EffectOf(c)' = Register!Written
    BY <2>1, <2>2 DEF EffectOf, Register!Written
  <2>4. CASE OpOf[c] = "upsert"
    <3>1. NewRecord(c) = [writes |-> {c}]
      BY <2>4 DEF NewRecord
    <3>. QED  BY <1>1, <2>1, <2>2, <2>3, <2>4, <3>1, RegisterActs
  <2>5. CASE OpOf[c] = "modify"
    <3>1. step[c] = "writing" /\ seen[c] = durable[SessionOf[c]]
      BY <1>6, <2>5 DEF InnerUpsert, ResultsFit
    <3>2. durable[SessionOf[c]] # NoRecord
      BY <2>5, <3>1, CacheAssumption DEF CacheInv, WritesWhatItRead
    <3>3. NewRecord(c) = [writes |-> durable[SessionOf[c]].writes \cup {c}]
      BY <2>5, <3>1 DEF NewRecord
    <3>. QED  BY <1>1, <2>1, <2>2, <2>3, <2>5, <3>2, <3>3, RegisterActs
  <2>. QED  BY <2>1, <2>4, <2>5
<1>7. CASE StoreCopy(c)
  <2>1. /\ UNCHANGED durable /\ step[c] = "storing" /\ result[c] = "none"
        /\ step'[c] = "done" /\ result'[c] = "ok" /\ OpOf[c] \in {"upsert", "modify"}
    BY <1>1, <1>7 DEF StoreCopy, ResultsFit
  <2>2. EffectOf(c)' = EffectOf(c)
    BY <2>1 DEF EffectOf
  <2>. QED  BY <1>1, <2>1, <2>2, RegisterStutters
<1>8. CASE InnerDelete(c)
  <2>1. /\ step[c] = "deleting" /\ result'[c] = "ok" /\ OpOf[c] = "delete"
        /\ durable' = [durable EXCEPT ![SessionOf[c]] = NoRecord]
    BY <1>1, <1>8 DEF InnerDelete, ResultsFit
  <2>2. EffectOf(c) = Register!NotYet /\ EffectOf(c)' = Register!Written
    BY <2>1, NoEffectYet DEF EffectOf, Register!Written
  <2>. QED  BY <1>1, <2>1, <2>2, RegisterActs
<1>9. CASE InnerThrows(c)
  <2>1. /\ step[c] \notin {"filling", "storing", "done"} /\ UNCHANGED durable
        /\ step'[c] = "done" /\ result'[c] = "thrown"
    BY <1>1, <1>9 DEF InnerThrows
  <2>2. EffectOf(c) = Register!NotYet /\ EffectOf(c)' = Register!Failed
    BY <2>1, NoEffectYet DEF EffectOf, Register!Failed
  <2>. QED  BY <1>1, <2>1, <2>2, RegisterActs
<1>. QED  BY <1>2, <1>3, <1>4, <1>5, <1>6, <1>7, <1>8, <1>9 DEF Section

(* Queueing is the call and leaving the return; what else happens outside  *)
(* the sections is nothing to the register.                                *)
LEMMA LockStepImplements ==
  ASSUME CacheTypes, Lock!LockTypeOK, ResultsFit, NEW c \in Calls,
         CallStore(c) \/ EnterSection(c) \/ LeaveSection(c)
  PROVE  [Register!Next]_(Register!registerVars)
<1> DEFINE Outcome == [d \in Calls |-> EffectOf(d)]
           Status == [d \in Calls |-> StatusOf(d)]
<1>1. UNCHANGED <<durable, step, seen, result>>
  BY DEF CallStore, EnterSection, LeaveSection
<1>2. Outcome' = Outcome
  BY <1>1 DEF EffectOf
<1>3. CASE CallStore(c)
  <2>1. phase[c] = "idle" /\ phase' = [phase EXCEPT ![c] = "queued"]
    BY <1>3 DEF CallStore, Lock!Enqueue
  <2>2. Status[c] = "idle" /\ Status' = [Status EXCEPT ![c] = "called"]
    BY <2>1 DEF StatusOf, Lock!LockTypeOK
  <2>. QED  BY <1>1, <1>2, <2>2 DEF Register!Next, Register!Call
<1>4. CASE EnterSection(c)
  <2>1. phase[c] = "queued" /\ phase' = [phase EXCEPT ![c] = "inside"]
    BY <1>4 DEF EnterSection, Lock!Enter
  <2>2. Status' = Status
    BY <2>1 DEF StatusOf, Lock!LockTypeOK
  <2>. QED  BY <1>1, <1>2, <2>2 DEF Register!registerVars
<1>5. CASE LeaveSection(c)
  <2>1. phase[c] = "inside" /\ phase' = [phase EXCEPT ![c] = "left"] /\ step[c] = "done"
    BY <1>5 DEF LeaveSection, Lock!Leave
  <2>2. Status[c] = "called" /\ Status' = [Status EXCEPT ![c] = "returned"]
    BY <2>1 DEF StatusOf, Lock!LockTypeOK
  <2>3. result[c] \in {"ok", "thrown"}
    BY <2>1 DEF ResultsFit
  <2>4. Outcome[c] # Register!NotYet
    BY <2>3 DEF EffectOf, Register!NotYet
  <2>. QED  BY <1>1, <1>2, <2>2, <2>4 DEF Register!Next, Register!Return
<1>. QED  BY <1>3, <1>4, <1>5

(* The cached store is a register per session: every get, upsert, delete   *)
(* and locked read-modify-write takes effect in one instant between its    *)
(* call and its return, or fails with none, however calls interleave at    *)
(* the awaits of the store behind and whatever is evicted, expired or      *)
(* cleared (session-cache.ts).                                             *)
THEOREM CacheIsARegister == Spec => ImplementsRegister
<1>1. Init => Register!Init
  BY DEF Init, Lock!LockInit, Register!Init, StatusOf, EffectOf, Register!NotYet, Fresh,
         Register!Fresh
<1>2. Spec => []ResultsFit
  <2>1. Guarded /\ CacheInv /\ ResultsFit /\ [Next]_vars => ResultsFit'
    BY ResultsKept DEF Guarded
  <2>. QED  BY <2>1, ResultsInit, CacheInvariant, GuardedByLock, PTL DEF Spec
<1>3. Guarded /\ CacheInv /\ ResultsFit /\ ResultsFit' /\ [Next]_vars
      => [Register!Next]_(Register!registerVars)
  <2> SUFFICES ASSUME Guarded, CacheInv, ResultsFit, ResultsFit', [Next]_vars
               PROVE  [Register!Next]_(Register!registerVars)
    OBVIOUS
  <2>1. ASSUME NEW c \in Calls, Section(c) PROVE [Register!Next]_(Register!registerVars)
    BY <2>1, SectionImplements DEF Guarded
  <2>2. ASSUME NEW c \in Calls, CallStore(c) \/ EnterSection(c) \/ LeaveSection(c)
        PROVE  [Register!Next]_(Register!registerVars)
    BY <2>2, LockStepImplements DEF Guarded, CacheInv
  <2>3. ASSUME ClearCache \/ UNCHANGED vars PROVE UNCHANGED Register!registerVars
    BY <2>3 DEF ClearCache, vars, lockVars, Register!registerVars, StatusOf, EffectOf
  <2>. QED  BY <2>1, <2>2, <2>3 DEF Next
<1>. QED
  BY <1>1, <1>2, <1>3, CacheInvariant, GuardedByLock, PTL
  DEF Spec, ImplementsRegister, Register!Spec
=============================================================================
