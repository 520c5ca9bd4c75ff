--------------------------- MODULE Harness_proofs ---------------------------
(***************************************************************************)
(* What the harness reads on its way to a turn: what holds of Compaction   *)
(* for every thread, batch, setting and budget, and of Settings for every  *)
(* document, patch, seed and listing.                                      *)
(***************************************************************************)
EXTENDS Compaction, Settings, SequenceTheorems, WellFoundedInduction, TLAPS

(* Both the stored state and the one a call goes by.                       *)
Accounts(state) ==
  \A i \in 1..state.through :
    thread[i] # "result" => i \in state.held \cup state.dropped

(* A call goes by what it loaded, or by what it makes of it; meanwhile the *)
(* stored state can only have been reset.                                  *)
Ahead ==
  at \in {"summarizing", "saving"} =>
    /\ next.through >= compaction.through
    /\ compaction.held \subseteq next.held

HasBatch == at = "summarizing" => Batch(next) # {}

Answerable(messages) ==
  \A i \in DOMAIN messages : messages[i] = "result" => IsAnswered(messages, i)

CompactionInv ==
  /\ TypeOK /\ Accounts(compaction) /\ Accounts(next) /\ Ahead /\ HasBatch
  /\ Answerable(thread) /\ Answerable(sent)

-----------------------------------------------------------------------------
(* Operators.                                                              *)

(* A set of naturals that is not empty has a least element.                *)
LEMMA MinIsLeast ==
  ASSUME NEW S \in SUBSET Nat, S # {}
  PROVE  Min(S) \in S /\ \A x \in S : Min(S) <= x
<1>1. \E x \in S : \A y \in S : ~(<<y, x>> \in OpToRel(<, Nat))
  BY NatLessThanWellFounded, WFMin
<1>2. PICK x \in S : \A y \in S : ~(<<y, x>> \in OpToRel(<, Nat))
  BY <1>1
<1>3. ASSUME NEW y \in S PROVE x <= y
  <2>1. x \in Nat /\ y \in Nat
    OBVIOUS
  <2>2. y < x => <<y, x>> \in OpToRel(<, Nat)
    BY <2>1 DEF OpToRel
  <2>3. ~(y < x)
    BY <1>2, <2>2, Zenon
  <2>. QED  BY <2>1, <2>3
<1>4. \A y \in S : x <= y
  BY <1>3
<1>5. \E z \in S : \A y \in S : z <= y
  BY <1>4
<1>. QED  BY <1>5 DEF Min

LEMMA MinOfTwo ==
  ASSUME NEW a \in Nat, NEW b \in Nat
  PROVE  Min({a, b}) = IF a <= b THEN a ELSE b
<1>. Min({a, b}) \in {a, b} /\ Min({a, b}) <= a /\ Min({a, b}) <= b
  BY MinIsLeast
<1>. QED  OBVIOUS

LEMMA MaxOfRange ==
  ASSUME NEW a \in Nat, NEW b \in Nat, a..b # {}
  PROVE  Max(a..b) = b
BY DEF Max

(* From i to the place found there are results, and there is none at it.   *)
LEMMA AfterResultsIs ==
  ASSUME NEW messages \in Seq(Messages), NEW i \in 1..(Len(messages) + 1)
  PROVE  LET a == AfterResults(messages, i)
         IN  /\ a \in i..(Len(messages) + 1)
             /\ a <= Len(messages) => messages[a] # "result"
             /\ \A j \in i..(a - 1) : messages[j] = "result"
<1>. DEFINE S == {j \in i..Len(messages) : messages[j] # "result"} \cup {Len(messages) + 1}
<1>1. S \in SUBSET Nat /\ S # {}
  OBVIOUS
<1>2. AfterResults(messages, i) = Min(S)
  BY DEF AfterResults
<1>. DEFINE a == AfterResults(messages, i)
<1>3. a \in S /\ \A x \in S : a <= x
  BY <1>1, <1>2, MinIsLeast
<1>. HIDE DEF a
<1>4. a \in i..(Len(messages) + 1) /\ (a <= Len(messages) => messages[a] # "result")
  BY <1>3
<1>5. \A j \in i..(a - 1) : messages[j] = "result"
  <2>. SUFFICES ASSUME NEW j \in i..(a - 1), messages[j] # "result" PROVE FALSE
    OBVIOUS
  <2>1. j \in i..Len(messages)
    BY <1>4
  <2>. QED  BY <1>3, <1>4, <2>1
<1>. QED  BY <1>4, <1>5 DEF a

LEMMA AlignThroughIs ==
  ASSUME NEW messages \in Seq(Messages), NEW through \in 0..Len(messages)
  PROVE  /\ AlignThrough(messages, through) \in through..Len(messages)
         /\ \A j \in (through + 1)..AlignThrough(messages, through) : messages[j] = "result"
<1>. DEFINE a == AfterResults(messages, through + 1)
<1>1. /\ a \in (through + 1)..(Len(messages) + 1)
      /\ \A j \in (through + 1)..(a - 1) : messages[j] = "result"
  BY AfterResultsIs
<1>2. AlignThrough(messages, through) = a - 1
  BY DEF AlignThrough
<1>. QED  BY <1>1, <1>2

LEMMA KeepFromIs ==
  ASSUME NEW messages \in Seq(Messages), NEW keepRecent \in Nat
  PROVE  KeepFrom(messages, keepRecent) \in 0..Len(messages)
BY AlignThroughIs DEF KeepFrom

LEMMA SnapEndIs ==
  ASSUME NEW messages \in Seq(Messages), NEW end \in Nat, NEW keepFrom \in 0..Len(messages)
  PROVE  SnapEnd(messages, end, keepFrom) \in 0..keepFrom
<1>. DEFINE last == Min({end, keepFrom})
<1>1. last \in 0..keepFrom
  BY MinOfTwo
<1>2. AlignThrough(messages, last) \in 0..Len(messages)
  BY <1>1, AlignThroughIs
<1>3. Min({keepFrom, AlignThrough(messages, last)}) \in 0..keepFrom
  BY <1>2, MinOfTwo
<1>. QED  BY <1>1, <1>3 DEF SnapEnd

(* A batch is a range: what comes between it and the cursor is results.    *)
LEMMA BatchIs ==
  ASSUME CompactionAssumption, TypeOK,
         NEW state \in States, state.through <= Len(thread), Batch(state) # {}
  PROVE  LET end == Max(Batch(state))
         IN  /\ end \in Nat /\ end > state.through /\ end <= Len(thread)
             /\ Batch(state) \in SUBSET (1..end)
             /\ \A i \in (state.through + 1)..end : i \in Batch(state) \/ thread[i] = "result"
<1>. DEFINE through == AlignThrough(thread, state.through)
            keepFrom == KeepFrom(thread, settings.keepRecent)
            end == SnapEnd(thread, Min({keepFrom, through + COMPACT_BATCH}), keepFrom)
<1>1. thread \in Seq(Messages) /\ settings.keepRecent \in Nat /\ COMPACT_BATCH \in Nat
      /\ state.through \in 0..Len(thread)
  <2>1. thread \in Seq(Messages) /\ settings.keepRecent \in KeepRecents
    BY DEF TypeOK, Settings
  <2>2. KeepRecents \subseteq Nat /\ COMPACT_BATCH \in Nat
    BY DEF CompactionAssumption
  <2>3. settings.keepRecent \in Nat
    BY <2>1, <2>2, Zenon
  <2>4. state.through \in Nat
    BY DEF States
  <2>5. Len(thread) \in Nat
    BY <2>1
  <2>6. state.through \in 0..Len(thread)
    BY <2>4, <2>5
  <2>. QED  BY <2>1, <2>2, <2>3, <2>6
<1>2. /\ through \in state.through..Len(thread)
      /\ \A j \in (state.through + 1)..through : thread[j] = "result"
  BY <1>1, AlignThroughIs
<1>3. keepFrom \in 0..Len(thread)
  BY <1>1, KeepFromIs
<1>4. Min({keepFrom, through + COMPACT_BATCH}) \in Nat
  <2>. HIDE DEF keepFrom, through
  <2>1. keepFrom \in Nat /\ through + COMPACT_BATCH \in Nat
    BY <1>1, <1>2, <1>3
  <2>. QED  BY <2>1, MinOfTwo
<1>5. end \in 0..Len(thread)
  <2>. HIDE DEF keepFrom
  <2>1. end \in 0..keepFrom
    BY <1>1, <1>3, <1>4, SnapEndIs
  <2>. QED  BY <1>1, <1>3, <2>1
<1>6. Batch(state) = (through + 1)..end
  BY DEF Batch
<1>. HIDE DEF through, end
<1>. DEFINE n == Len(thread)
            cursor == state.through
<1>7. n \in Nat /\ cursor \in 0..n /\ through \in cursor..n /\ end \in 0..n
  BY <1>1, <1>2, <1>5
<1>. HIDE DEF n, cursor
<1>8. (through + 1)..end # {}
  BY <1>6
<1>9. through < end /\ cursor < end /\ end <= n /\ end \in Nat /\ through \in Nat /\ cursor \in Nat
  BY <1>7, <1>8
<1>10. Max(Batch(state)) = end
  BY <1>6, <1>8, <1>9, MaxOfRange
<1>11. Batch(state) \in SUBSET (1..end)
  <2>1. (through + 1)..end \subseteq 1..end
    BY <1>9
  <2>. QED  BY <1>6, <2>1
<1>12. ASSUME NEW i \in (cursor + 1)..end PROVE i \in Batch(state) \/ thread[i] = "result"
  <2>1. i \in (cursor + 1)..through \/ i \in (through + 1)..end
    BY <1>9
  <2>. QED  BY <1>2, <1>6, <2>1, Zenon DEF cursor
<1>13. \A i \in (cursor + 1)..end : i \in Batch(state) \/ thread[i] = "result"
  BY <1>12
<1>. QED  BY <1>9, <1>10, <1>11, <1>13, Zenon DEF n, cursor

(* What is let through is an end of the thread that begins with no result. *)
IsEnd(out, messages) ==
  \E from \in 1..(Len(messages) + 1) :
    /\ out = SubSeq(messages, from, Len(messages))
    /\ from <= Len(messages) => messages[from] # "result"

LEMMA TruncateContextIs ==
  ASSUME CompactionAssumption, NEW messages \in Seq(Messages),
         NEW systemTokens, NEW target
  PROVE  IsEnd(TruncateContext(messages, systemTokens, target), messages)
<1>. DEFINE n == Len(messages)
            newest == IF n > MaxMessages THEN n - MaxMessages + 1 ELSE 1
            S == {i \in newest..(n + 1) :
                    i >= n \/ systemTokens + Tokens(messages, i) <= target}
            fitting == IF target = NoWindow THEN newest ELSE Min(S)
<1>1. n \in Nat /\ newest \in 1..(n + 1)
  BY DEF CompactionAssumption
<1>2. n + 1 \in S /\ S \in SUBSET Nat
  BY <1>1
<1>3. Min(S) \in S
  BY <1>2, MinIsLeast
<1>4. fitting \in 1..(n + 1)
  BY <1>1, <1>3
<1>5. TruncateContext(messages, systemTokens, target)
        = SubSeq(messages, AfterResults(messages, fitting), n)
  BY DEF TruncateContext
<1>. HIDE DEF fitting
<1>6. /\ AfterResults(messages, fitting) \in 1..(n + 1)
      /\ AfterResults(messages, fitting) <= n => messages[AfterResults(messages, fitting)] # "result"
  BY <1>1, <1>4, AfterResultsIs
<1>. QED  BY <1>5, <1>6 DEF IsEnd

LEMMA EndOfEnd ==
  ASSUME NEW messages \in Seq(Messages), NEW start \in 1..(Len(messages) + 1), NEW out,
         IsEnd(out, SubSeq(messages, start, Len(messages)))
  PROVE  IsEnd(out, messages)
<1>. DEFINE n == Len(messages)
            tail == SubSeq(messages, start, n)
            size == n - start + 1
<1>1. n \in Nat /\ start \in 1..(n + 1) /\ \A i \in start..n : messages[i] \in Messages
  OBVIOUS
<1>2. n \in Nat /\ start \in 1..(n + 1) /\ size \in Nat
  BY <1>1
<1>3. /\ tail \in Seq(Messages)
      /\ Len(tail) = IF start <= n THEN size ELSE 0
      /\ \A i \in 1..size : tail[i] = messages[start + i - 1]
  BY <1>1, SubSeqProperties
<1>. HIDE DEF tail
<1>4. Len(tail) = size
  <2>1. Len(tail) = IF start <= n THEN size ELSE 0
    BY <1>3
  <2>. HIDE DEF n
  <2>. QED  BY <1>2, <2>1
<1>5. PICK from \in 1..(Len(tail) + 1) :
        out = SubSeq(tail, from, Len(tail)) /\ (from <= Len(tail) => tail[from] # "result")
  BY DEF IsEnd, tail
<1>6. out = SubSeq(tail, from, size) /\ (from <= size => tail[from] # "result")
  BY <1>4, <1>5
<1>7. from \in 1..(size + 1)
  BY <1>4
<1>. DEFINE place == start + from - 1
<1>8. place \in 1..(n + 1) /\ (place <= n <=> from <= size)
  <2>. HIDE DEF n
  <2>. QED  BY <1>2, <1>7
<1>9. CASE from <= size
  <2>1. /\ start \in 1..n /\ n \in 1..n /\ from \in 1..size /\ size \in 1..size
        /\ start + size - 1 = n
    <3>. HIDE DEF n
    <3>. QED  BY <1>2, <1>7, <1>9
  <2>2. SubSeq(tail, from, size) = SubSeq(messages, place, start + size - 1)
    BY <2>1, SubSeqOfSubSeq DEF tail
  <2>3. out = SubSeq(messages, place, n)
    BY <1>6, <2>1, <2>2, Zenon
  <2>4. messages[place] # "result"
    BY <1>3, <1>6, <1>9, <2>1
  <2>. QED  BY <1>8, <2>3, <2>4 DEF IsEnd
<1>10. CASE from > size
  <2>1. from \in Int /\ size \in Int /\ place \in Int /\ n \in Int /\ n < place /\ size < from
    <3>. HIDE DEF n
    <3>. QED  BY <1>2, <1>7, <1>10
  <2>2. SubSeq(tail, from, size) = <<>> /\ SubSeq(messages, place, n) = <<>>
    BY <2>1, SubSeqEmpty
  <2>3. out = SubSeq(messages, place, n)
    BY <1>6, <2>2, Zenon
  <2>4. ~(place <= n)
    BY <1>8, <1>10, <2>1
  <2>. QED  BY <1>8, <2>3, <2>4 DEF IsEnd
<1>11. from <= size \/ from > size
  BY <1>2, <1>7
<1>. QED  BY <1>9, <1>10, <1>11, Zenon

LEMMA OutboundIs ==
  ASSUME CompactionAssumption, TypeOK,
         NEW state \in States, state.through <= Len(thread)
  PROVE  IsEnd(Outbound(state), thread)
<1>. DEFINE start == AlignThrough(thread, state.through) + 1
            verbatim == SubSeq(thread, start, Len(thread))
            systemTokens == SystemSize + (IF state.held # {} THEN SummarySize ELSE 0)
<1>1. thread \in Seq(Messages) /\ Len(thread) \in Nat
  BY DEF TypeOK
<1>2. start \in 1..(Len(thread) + 1)
  <2>1. state.through \in 0..Len(thread)
    BY <1>1 DEF States
  <2>. QED  BY <1>1, <2>1, AlignThroughIs
<1>. HIDE DEF start
<1>3. verbatim \in Seq(Messages)
  <2>1. \A i \in start..Len(thread) : thread[i] \in Messages
    BY <1>1, <1>2
  <2>. QED  BY <1>1, <1>2, <2>1, SubSeqProperties
<1>. HIDE DEF verbatim
<1>4. IsEnd(TruncateContext(verbatim, systemTokens, settings.target), verbatim)
  BY <1>3, TruncateContextIs
<1>5. Outbound(state) = TruncateContext(verbatim, systemTokens, settings.target)
  BY DEF Outbound, verbatim, start
<1>6. IsEnd(Outbound(state), SubSeq(thread, start, Len(thread)))
  BY <1>4, <1>5 DEF verbatim
<1>. QED  BY <1>1, <1>2, <1>6, EndOfEnd

(* An end of an answerable thread that begins with no result is answerable.*)
LEMMA EndIsAnswerable ==
  ASSUME NEW messages \in Seq(Messages), Answerable(messages), NEW out, IsEnd(out, messages)
  PROVE  out \in Seq(Messages) /\ Answerable(out)
<1>1. PICK from \in 1..(Len(messages) + 1) :
        /\ out = SubSeq(messages, from, Len(messages))
        /\ from <= Len(messages) => messages[from] # "result"
  BY DEF IsEnd
<1>2. Len(messages) \in Nat /\ \A i \in from..Len(messages) : messages[i] \in Messages
  OBVIOUS
<1>3. /\ out \in Seq(Messages)
      /\ Len(out) = IF from <= Len(messages) THEN Len(messages) - from + 1 ELSE 0
      /\ \A i \in 1..(Len(messages) - from + 1) : out[i] = messages[from + i - 1]
  BY <1>1, <1>2, SubSeqProperties
<1>4. ASSUME NEW i \in DOMAIN out, out[i] = "result" PROVE IsAnswered(out, i)
  <2>1. /\ i \in 1..(Len(messages) - from + 1) /\ from <= Len(messages)
        /\ Len(out) = Len(messages) - from + 1
        /\ messages[from] # "result"
    BY <1>1, <1>2, <1>3
  <2>. DEFINE place == from + i - 1
  <2>2. place \in DOMAIN messages /\ messages[place] = "result"
    BY <1>2, <1>3, <1>4, <2>1
  <2>3. PICK call \in 1..(place - 1) :
          /\ messages[call] = "calls"
          /\ \A j \in (call + 1)..place : messages[j] = "result"
    BY <2>2 DEF Answerable, IsAnswered
  <2>4. call >= from
    <3>. SUFFICES ASSUME call < from PROVE FALSE
      BY <2>3
    <3>1. from \in (call + 1)..place
      BY <2>1, <2>3
    <3>. QED  BY <2>1, <2>3, <3>1
  <2>. DEFINE c == call - from + 1
  <2>5. c \in 1..(i - 1) /\ out[c] = "calls"
    <3>1. c \in 1..(i - 1) /\ c \in 1..(Len(messages) - from + 1) /\ from + c - 1 = call
      BY <1>2, <2>1, <2>3, <2>4
    <3>2. out[c] = messages[from + c - 1]
      BY <1>3, <3>1
    <3>. QED  BY <2>3, <3>1, <3>2
  <2>6. ASSUME NEW j \in (c + 1)..i PROVE out[j] = "result"
    <3>1. j \in 1..(Len(messages) - from + 1) /\ from + j - 1 \in (call + 1)..place
      BY <2>1, <2>3, <2>4, <2>6
    <3>. QED  BY <1>3, <2>3, <3>1
  <2>. QED  BY <2>5, <2>6 DEF IsAnswered
<1>. QED  BY <1>3, <1>4 DEF Answerable

(* Adding a text, or calls with results, keeps a thread answerable.        *)
LEMMA GrowthIsAnswerable ==
  ASSUME TypeOK, Answerable(thread), Grow
  PROVE  /\ thread' \in Seq(Messages) /\ Len(thread') >= Len(thread)
         /\ \A i \in 1..Len(thread) : thread'[i] = thread[i]
         /\ Answerable(thread')
<1>. DEFINE n == Len(thread)
<1>1. thread \in Seq(Messages) /\ n \in Nat
  BY DEF TypeOK
<1>2. ASSUME NEW i \in 1..n, thread'[i] = "result", \A j \in 1..n : thread'[j] = thread[j]
      PROVE  IsAnswered(thread', i)
  <2>1. i \in DOMAIN thread /\ thread[i] = "result"
    BY <1>1, <1>2
  <2>2. PICK call \in 1..(i - 1) :
          thread[call] = "calls" /\ \A j \in (call + 1)..i : thread[j] = "result"
    BY <2>1 DEF Answerable, IsAnswered
  <2>. QED  BY <1>1, <1>2, <2>2 DEF IsAnswered
<1>3. CASE thread' = Append(thread, "text")
  <2>1. /\ thread' \in Seq(Messages) /\ Len(thread') = n + 1
        /\ \A i \in 1..n : thread'[i] = thread[i]
        /\ thread'[n + 1] = "text"
    BY <1>1, <1>3 DEF Messages
  <2>2. ASSUME NEW i \in DOMAIN thread', thread'[i] = "result" PROVE i \in 1..n
    BY <1>1, <2>1, <2>2
  <2>. QED  BY <1>1, <1>2, <2>1, <2>2 DEF Answerable
<1>4. ASSUME NEW k \in 0..MaxResults, thread' = Append(thread, "calls") \o [i \in 1..k |-> "result"]
      PROVE  /\ thread' \in Seq(Messages) /\ Len(thread') >= n
             /\ \A i \in 1..n : thread'[i] = thread[i]
             /\ Answerable(thread')
  <2>. DEFINE results == [i \in 1..k |-> "result"]
  <2>1. k \in Nat
    OBVIOUS
  <2>2. results \in Seq(Messages) /\ Len(results) = k
    BY <2>1 DEF Messages
  <2>3. /\ Append(thread, "calls") \in Seq(Messages) /\ Len(Append(thread, "calls")) = n + 1
        /\ \A i \in 1..n : Append(thread, "calls")[i] = thread[i]
        /\ Append(thread, "calls")[n + 1] = "calls"
    BY <1>1 DEF Messages
  <2>4. /\ thread' \in Seq(Messages) /\ Len(thread') = n + 1 + k
        /\ \A i \in 1..n : thread'[i] = thread[i]
        /\ thread'[n + 1] = "calls"
        /\ \A i \in (n + 2)..(n + 1 + k) : thread'[i] = "result"
    BY <1>1, <1>4, <2>1, <2>2, <2>3
  <2>5. ASSUME NEW i \in DOMAIN thread', thread'[i] = "result" PROVE IsAnswered(thread', i)
    <3>1. CASE i \in 1..n
      BY <1>2, <2>4, <2>5, <3>1
    <3>2. CASE i \in (n + 2)..(n + 1 + k)
      BY <1>1, <2>1, <2>4, <3>2 DEF IsAnswered
    <3>3. i # n + 1
      BY <2>4, <2>5
    <3>. QED  BY <1>1, <2>1, <2>4, <3>1, <3>2, <3>3
  <2>. QED  BY <1>1, <2>1, <2>4, <2>5 DEF Answerable
<1>5. thread' = Append(thread, "text")
      \/ \E k \in 0..MaxResults : thread' = Append(thread, "calls") \o [i \in 1..k |-> "result"]
  BY DEF Grow
<1>. QED  BY <1>3, <1>4, <1>5 DEF TypeOK

LEMMA NoSettingsIsOff ==
  ASSUME CompactionAssumption
  PROVE  NoSettings \in Settings
<1>1. PICK keepRecent \in KeepRecents : TRUE
  BY DEF CompactionAssumption
<1>2. [strategy |-> "off", keepRecent |-> keepRecent, target |-> NoWindow] \in Settings
  BY DEF Settings
<1>3. \E s \in Settings : s.strategy = "off"
  BY <1>2
<1>. QED  BY <1>3 DEF NoSettings

(* Folding a batch, into the summary or away, leaves nothing out.          *)
LEMMA FoldAccounts ==
  ASSUME CompactionAssumption, TypeOK,
         NEW state \in States, state.through <= Len(thread), Accounts(state), Batch(state) # {},
         NEW new \in {[through |-> Max(Batch(state)), held |-> state.held \cup text,
                       dropped |-> state.dropped \cup (Batch(state) \ text)] :
                         text \in SUBSET Batch(state)}
  PROVE  /\ new \in States /\ new.through <= Len(thread) /\ Accounts(new)
         /\ new.through >= state.through /\ state.held \subseteq new.held
<1>. DEFINE end == Max(Batch(state))
<1>1. /\ end \in Nat /\ end > state.through /\ end <= Len(thread)
      /\ Batch(state) \in SUBSET (1..end)
      /\ \A i \in (state.through + 1)..end : i \in Batch(state) \/ thread[i] = "result"
  BY BatchIs
<1>2. PICK text \in SUBSET Batch(state) :
        new = [through |-> end, held |-> state.held \cup text,
               dropped |-> state.dropped \cup (Batch(state) \ text)]
  OBVIOUS
<1>. HIDE DEF end
<1>3. new.through = end /\ new.held = state.held \cup text
      /\ new.dropped = state.dropped \cup (Batch(state) \ text)
  BY <1>2
<1>4. state.through \in Nat /\ state.held \in SUBSET Nat /\ state.dropped \in SUBSET Nat
  BY DEF States
<1>5. new \in States
  <2>1. Batch(state) \in SUBSET Nat
    BY <1>1
  <2>. QED  BY <1>1, <1>2, <1>4, <2>1 DEF States
<1>6. ASSUME NEW i \in 1..end, thread[i] # "result"
      PROVE  i \in new.held \cup new.dropped
  <2>1. CASE i \in 1..state.through
    BY <1>3, <1>6, <2>1 DEF Accounts
  <2>2. CASE i \in (state.through + 1)..end
    <3>1. i \in Batch(state)
      BY <1>1, <1>6, <2>2
    <3>. QED  BY <1>3, <3>1
  <2>. QED  BY <1>1, <1>4, <2>1, <2>2
<1>7. Accounts(new)
  BY <1>3, <1>6 DEF Accounts
<1>. QED  BY <1>1, <1>3, <1>4, <1>5, <1>7

(* The two ways a batch is folded.                                         *)
LEMMA DropFolds ==
  ASSUME CompactionAssumption, CompactionInv, LoadAndDrop
  PROVE  /\ next' \in States /\ next'.through <= Len(thread) /\ Accounts(next')
         /\ next'.through >= compaction.through /\ compaction.held \subseteq next'.held
<1>1. /\ compaction \in States /\ compaction.through <= Len(thread)
      /\ Accounts(compaction) /\ TypeOK /\ Batch(compaction) # {}
  BY DEF CompactionInv, TypeOK, LoadAndDrop, Folds
<1>2. next' = [through |-> Max(Batch(compaction)), held |-> compaction.held \cup {},
               dropped |-> compaction.dropped \cup (Batch(compaction) \ {})]
  <2>1. /\ compaction.held \cup {} = compaction.held
        /\ Batch(compaction) \ {} = Batch(compaction)
    OBVIOUS
  <2>. QED  BY <2>1 DEF LoadAndDrop
<1>3. {} \in SUBSET Batch(compaction)
  OBVIOUS
<1>. QED  BY <1>1, <1>2, <1>3, FoldAccounts

LEMMA SummaryFolds ==
  ASSUME CompactionAssumption, CompactionInv, Summarized
  PROVE  /\ next' \in States /\ next'.through <= Len(thread) /\ Accounts(next')
         /\ next'.through >= next.through /\ next.held \subseteq next'.held
<1>1. /\ next \in States /\ next.through <= Len(thread)
      /\ Accounts(next) /\ TypeOK /\ Batch(next) # {}
  BY DEF CompactionInv, TypeOK, Summarized, HasBatch
<1>2. PICK text \in Texts(Batch(next)) :
        next' = [through |-> Max(Batch(next)), held |-> next.held \cup text,
                 dropped |-> next.dropped \cup (Batch(next) \ text)]
  BY DEF Summarized
<1>3. text \in SUBSET Batch(next)
  BY <1>2 DEF Texts
<1>. QED  BY <1>1, <1>2, <1>3, FoldAccounts

(* What a call lets through is of the thread's messages, and answerable.   *)
LEMMA OutboundIsAnswerable ==
  ASSUME CompactionAssumption, CompactionInv,
         NEW state \in States, state.through <= Len(thread)
  PROVE  Outbound(state) \in Seq(Messages) /\ Answerable(Outbound(state))
<1>1. TypeOK /\ thread \in Seq(Messages) /\ Answerable(thread)
  BY DEF CompactionInv, TypeOK
<1>. QED  BY <1>1, OutboundIs, EndIsAnswerable

LEMMA NoStateIs == NoState \in States /\ NoState.through = 0 /\ NoState.held = {}
BY DEF NoState, States

-----------------------------------------------------------------------------
(* The invariant.                                                          *)

LEMMA InitInv ==
  ASSUME CompactionAssumption, Init
  PROVE  CompactionInv
<1>1. TypeOK
  <2>1. thread \in Seq(Messages) /\ Len(thread) = 0 /\ sent \in Seq(Messages)
    BY DEF Init
  <2>. QED  BY <2>1, NoStateIs, NoSettingsIsOff DEF Init, TypeOK
<1>2. Accounts(compaction) /\ Accounts(next)
  BY NoStateIs DEF Init, Accounts
<1>3. Answerable(thread) /\ Answerable(sent)
  BY DEF Init, Answerable
<1>. QED  BY <1>1, <1>2, <1>3 DEF Init, CompactionInv, Ahead, HasBatch

(* A call that ends, its state saved or not.                               *)
LEMMA ReturnKeepsInv ==
  ASSUME CompactionAssumption, CompactionInv, UNCHANGED thread,
         compaction' \in {compaction, next},
         at' = "idle", settings' = NoSettings, next' = NoState,
         sent' \in Seq(Messages), Answerable(sent')
  PROVE  CompactionInv'
<1>1. TypeOK'
  BY NoStateIs, NoSettingsIsOff DEF CompactionInv, TypeOK
<1>2. Accounts(compaction)' /\ Accounts(next)'
  BY NoStateIs DEF CompactionInv, Accounts
<1>3. Answerable(thread)' /\ Answerable(sent)'
  BY DEF CompactionInv, Answerable, IsAnswered
<1>. QED  BY <1>1, <1>2, <1>3 DEF CompactionInv, Ahead, HasBatch

LEMMA NextInv ==
  ASSUME CompactionAssumption, CompactionInv, [Next]_vars
  PROVE  CompactionInv'
<1>. USE CompactionAssumption, CompactionInv
<1>0. TypeOK /\ compaction \in States /\ compaction.through <= Len(thread)
      /\ next \in States /\ next.through <= Len(thread)
      /\ thread \in Seq(Messages) /\ Answerable(thread)
  BY DEF CompactionInv, TypeOK
<1>1. CASE Grow
  <2>1. /\ thread' \in Seq(Messages) /\ Len(thread') >= Len(thread)
        /\ \A i \in 1..Len(thread) : thread'[i] = thread[i]
        /\ Answerable(thread')
    BY <1>0, <1>1, GrowthIsAnswerable
  <2>2. UNCHANGED <<compaction, at, settings, next>> /\ at = "idle" /\ sent' = <<>>
    BY <1>1 DEF Grow
  <2>3. TypeOK'
    <3>1. \A state \in {compaction, next} : state.through <= Len(thread')
      BY <1>0, <2>1 DEF States
    <3>2. sent' \in Seq(Messages)
      BY <2>2
    <3>. QED  BY <1>0, <2>1, <2>2, <3>1, <3>2 DEF TypeOK
  <2>4. Accounts(compaction)' /\ Accounts(next)'
    <3>. SUFFICES ASSUME NEW state \in {compaction, next}
                  PROVE  \A i \in 1..state.through :
                           thread'[i] # "result" => i \in state.held \cup state.dropped
      BY <2>2 DEF Accounts
    <3>1. Accounts(state)
      BY DEF CompactionInv
    <3>2. 1..state.through \subseteq 1..Len(thread)
      BY <1>0 DEF States
    <3>. QED  BY <2>1, <3>1, <3>2 DEF Accounts
  <2>5. Answerable(thread)' /\ Answerable(sent)'
    BY <2>1, <2>2 DEF Answerable, IsAnswered
  <2>. QED  BY <2>2, <2>3, <2>4, <2>5 DEF CompactionInv, Ahead, HasBatch
<1>2. CASE TruncateOnly
  <2>1. /\ sent' = TruncateContext(thread, SystemSize, NoWindow)
        /\ at' = "idle" /\ settings' = NoSettings /\ next' = NoState
        /\ UNCHANGED <<thread, compaction>>
    BY <1>2 DEF TruncateOnly, Return
  <2>2. sent' \in Seq(Messages) /\ Answerable(sent')
    BY <1>0, <2>1, TruncateContextIs, EndIsAnswerable
  <2>. QED  BY <2>1, <2>2, ReturnKeepsInv
<1>3. CASE ReadSettings
  <2>1. /\ settings' \in Settings /\ at' = "loading" /\ sent' = <<>>
        /\ UNCHANGED <<thread, compaction, next>>
    BY <1>3 DEF ReadSettings
  <2>2. TypeOK'
    BY <1>0, <2>1 DEF TypeOK
  <2>. QED  BY <2>1, <2>2 DEF CompactionInv, Ahead, HasBatch, Accounts, Answerable, IsAnswered
<1>4. CASE LoadAndKeep
  <2>1. /\ sent' = Outbound(compaction)
        /\ at' = "idle" /\ settings' = NoSettings /\ next' = NoState
        /\ UNCHANGED <<thread, compaction>>
    BY <1>4 DEF LoadAndKeep, Return
  <2>. QED  BY <1>0, <2>1, OutboundIsAnswerable, ReturnKeepsInv
<1>5. CASE LoadAndDrop
  <2>1. /\ next' \in States /\ next'.through <= Len(thread) /\ Accounts(next')
        /\ next'.through >= compaction.through /\ compaction.held \subseteq next'.held
    BY <1>5, DropFolds
  <2>2. at' = "saving" /\ UNCHANGED <<thread, compaction, settings, sent>>
    BY <1>5 DEF LoadAndDrop
  <2>3. TypeOK'
    BY <1>0, <2>1, <2>2 DEF TypeOK
  <2>. QED  BY <2>1, <2>2, <2>3 DEF CompactionInv, Ahead, HasBatch, Accounts, Answerable, IsAnswered
<1>6. CASE LoadAndSummarize
  <2>1. /\ next' = compaction /\ at' = "summarizing"
        /\ UNCHANGED <<thread, compaction, settings, sent>>
        /\ Batch(compaction) # {}
    BY <1>6 DEF LoadAndSummarize, Folds
  <2>2. TypeOK'
    BY <1>0, <2>1 DEF TypeOK
  <2>3. HasBatch'
    BY <2>1 DEF HasBatch, Batch
  <2>4. Ahead'
    BY <1>0, <2>1 DEF Ahead, States
  <2>. QED  BY <2>1, <2>2, <2>3, <2>4 DEF CompactionInv, Accounts, Answerable, IsAnswered
<1>7. CASE Summarized
  <2>1. /\ next' \in States /\ next'.through <= Len(thread) /\ Accounts(next')
        /\ next'.through >= next.through /\ next.held \subseteq next'.held
    BY <1>7, SummaryFolds
  <2>2. /\ at = "summarizing" /\ at' = "saving"
        /\ UNCHANGED <<thread, compaction, settings, sent>>
    BY <1>7 DEF Summarized
  <2>3. TypeOK'
    BY <1>0, <2>1, <2>2 DEF TypeOK
  <2>4. Ahead'
    BY <1>0, <2>1, <2>2 DEF CompactionInv, Ahead, States
  <2>. QED  BY <2>1, <2>2, <2>3, <2>4 DEF CompactionInv, HasBatch, Accounts, Answerable, IsAnswered
<1>8. CASE NoSummary
  <2>1. /\ sent' = Outbound(next)
        /\ at' = "idle" /\ settings' = NoSettings /\ next' = NoState
        /\ UNCHANGED <<thread, compaction>>
    BY <1>8 DEF NoSummary, Return
  <2>. QED  BY <1>0, <2>1, OutboundIsAnswerable, ReturnKeepsInv
<1>9. CASE SaveState
  <2>1. /\ sent' = Outbound(next) /\ compaction' = next
        /\ at' = "idle" /\ settings' = NoSettings /\ next' = NoState
        /\ UNCHANGED thread
    BY <1>9 DEF SaveState, Return
  <2>. QED  BY <1>0, <2>1, OutboundIsAnswerable, ReturnKeepsInv
<1>10. CASE Abandon
  <2>1. /\ at' = "idle" /\ settings' = NoSettings /\ next' = NoState
        /\ UNCHANGED <<thread, compaction, sent>>
    BY <1>10 DEF Abandon
  <2>2. sent' \in Seq(Messages) /\ Answerable(sent')
    BY <2>1 DEF CompactionInv, TypeOK
  <2>. QED  BY <2>1, <2>2, ReturnKeepsInv
<1>11. CASE Reset
  <2>1. compaction' = NoState /\ UNCHANGED <<thread, at, settings, next, sent>>
    BY <1>11 DEF Reset
  <2>2. TypeOK'
    BY <1>0, <2>1, NoStateIs DEF TypeOK
  <2>3. Accounts(compaction)'
    BY <2>1, NoStateIs DEF Accounts
  <2>4. Ahead'
    BY <1>0, <2>1, NoStateIs DEF Ahead, States
  <2>5. HasBatch'
    BY <2>1 DEF CompactionInv, HasBatch, Batch
  <2>. QED  BY <2>1, <2>2, <2>3, <2>4, <2>5 DEF CompactionInv, Accounts, Answerable, IsAnswered
<1>12. CASE UNCHANGED vars
  <2>1. UNCHANGED <<thread, compaction, at, settings, next, sent>>
    BY <1>12 DEF vars
  <2>2. TypeOK' /\ Ahead'
    BY <2>1 DEF CompactionInv, TypeOK, Ahead
  <2>3. HasBatch'
    BY <2>1 DEF CompactionInv, HasBatch, Batch
  <2>. QED  BY <2>1, <2>2, <2>3 DEF CompactionInv, Accounts, Answerable, IsAnswered
<1>. QED
  BY <1>1, <1>2, <1>3, <1>4, <1>5, <1>6, <1>7, <1>8, <1>9, <1>10, <1>11, <1>12 DEF Next, Call

(* CompactionInv holds throughout: what the theorems rest on.              *)
THEOREM InvAlways == Spec => []CompactionInv
<1>1. Init => CompactionInv
  BY InitInv, CompactionAssumption
<1>2. CompactionInv /\ [Next]_vars => CompactionInv'
  BY NextInv, CompactionAssumption
<1>. QED  BY <1>1, <1>2, PTL DEF Spec

-----------------------------------------------------------------------------
(* What it is for.                                                         *)

(* The types of the compactor's state; a cursor is within the thread.      *)
THEOREM CompactionTypes == Spec => []TypeOK
<1>1. CompactionInv => TypeOK
  BY DEF CompactionInv
<1>. QED  BY <1>1, InvAlways, PTL

(* truncateContext: the model is never sent a result without the message   *)
(* that made the call, wherever the batch and the budget cut.              *)
THEOREM NoOrphanIsSent == Spec => []SentIsAnswerable
<1>1. CompactionInv => SentIsAnswerable
  BY DEF CompactionInv, Answerable, SentIsAnswerable
<1>. QED  BY <1>1, InvAlways, PTL

(* createRollingCompactor: what is behind the cursor is in the summary or  *)
(* was left out of it knowingly, results aside.                            *)
THEOREM NoTextIsSkipped == Spec => []TextIsAccounted
<1>1. CompactionInv => TextIsAccounted
  BY DEF CompactionInv, Accounts, TextIsAccounted
<1>. QED  BY <1>1, InvAlways, PTL

(* saveState never moves the cursor back, whatever was reset or changed    *)
(* since the state was loaded.                                             *)
THEOREM CursorNeverGoesBack == Spec => CursorAdvances
<1>. DEFINE Advances == compaction' # NoState =>
                          /\ compaction'.through >= compaction.through
                          /\ compaction.held \subseteq compaction'.held
<1>1. CompactionInv /\ [Next]_vars => [Advances]_vars
  <2>. SUFFICES ASSUME CompactionInv, Next, compaction' # compaction, compaction' # NoState
                PROVE  Advances
    <3>1. CompactionInv => compaction.through >= compaction.through
      BY DEF CompactionInv, TypeOK, States
    <3>. QED  BY <3>1
  <2>1. SaveState
    BY DEF Next, Call, Grow, TruncateOnly, ReadSettings, LoadAndKeep, LoadAndDrop,
           LoadAndSummarize, Summarized, NoSummary, Abandon, Reset
  <2>. QED  BY <2>1 DEF SaveState, CompactionInv, Ahead
<1>. QED  BY <1>1, InvAlways, PTL DEF Spec, CursorAdvances

-----------------------------------------------------------------------------
(***************************************************************************)
(* The settings: lists.  What holds at 0 and is passed on up to n holds    *)
(* at n, which is how the two recursive functions on lists are unrolled.   *)
(***************************************************************************)
LEMMA CountUp ==
  ASSUME NEW n \in Nat, NEW T, 0 \in T, \A i \in 1..n : i - 1 \in T => i \in T
  PROVE  \A i \in 0..n : i \in T
<1> DEFINE R == {i \in 0..n : i \notin T}
<1> SUFFICES ASSUME R # {} PROVE FALSE
  OBVIOUS
<1>1. R \in SUBSET Nat
  OBVIOUS
<1>2. PICK m : m \in R /\ \A x \in R : m <= x
  <2> HIDE DEF R
  <2> QED BY <1>1, MinIsLeast
<1>3. m \in 1..n /\ m - 1 \in 0..n
  BY <1>2
<1>4. m - 1 \in T
  BY <1>2, <1>3
<1> QED BY <1>2, <1>3, <1>4

(* f counts a filter up to n.                                              *)
Sifts(f, s, S, i) == f[i] = IF s[i] \in S THEN Append(f[i - 1], s[i]) ELSE f[i - 1]
Sifting(f, s, S, n) ==
  f = [i \in 0..n |-> IF i = 0 THEN << >>
                      ELSE IF s[i] \in S THEN Append(f[i - 1], s[i]) ELSE f[i - 1]]

LEMMA SiftingAt ==
  ASSUME NEW f, NEW s, NEW S, NEW n \in Nat, Sifting(f, s, S, n)
  PROVE  f[0] = << >> /\ \A i \in 1..n : Sifts(f, s, S, i)
<1> DEFINE h == [i \in 0..n |-> IF i = 0 THEN << >>
                      ELSE IF s[i] \in S THEN Append(f[i - 1], s[i]) ELSE f[i - 1]]
<1>1. f = h
  BY Zenon DEF Sifting
<1>2. h[0] = << >>
  BY 0 \in 0..n
<1>3. ASSUME NEW i \in 1..n PROVE h[i] = IF s[i] \in S THEN Append(f[i - 1], s[i]) ELSE f[i - 1]
  BY i \in 0..n, i # 0
<1> HIDE DEF h
<1> QED BY <1>1, <1>2, <1>3 DEF Sifts

LEMMA SiftingExists ==
  ASSUME NEW s, NEW S, NEW n \in Nat
  PROVE  \E f : Sifting(f, s, S, n)
<1> DEFINE T == {m \in 0..n : \E f : Sifting(f, s, S, m)}
<1>1. 0 \in T
  <2> DEFINE f == [i \in 0..0 |-> << >>]
  <2>1. f = [i \in 0..0 |-> IF i = 0 THEN << >>
                      ELSE IF s[i] \in S THEN Append(f[i - 1], s[i]) ELSE f[i - 1]]
    OBVIOUS
  <2>2. Sifting(f, s, S, 0)
    BY <2>1, Zenon DEF Sifting
  <2> QED BY <2>2
<1>2. ASSUME NEW m \in 1..n, m - 1 \in T PROVE m \in T
  <2>1. PICK f : Sifting(f, s, S, m - 1)
    BY <1>2
  <2> DEFINE step(x, i) == IF i = 0 THEN << >>
                           ELSE IF s[i] \in S THEN Append(x[i - 1], s[i]) ELSE x[i - 1]
             g == [i \in 0..m |-> step(f, i)]
  <2>2. \A i \in 0..m : g[i] = step(f, i)
    BY Zenon
  <2>3. f[0] = << >> /\ \A i \in 1..(m - 1) : Sifts(f, s, S, i)
    BY <2>1, SiftingAt
  <2>4. \A i \in 0..(m - 1) : g[i] = f[i]
    <3> SUFFICES ASSUME NEW i \in 0..(m - 1) PROVE step(f, i) = f[i]
      BY <2>2
    <3> QED BY <2>3 DEF Sifts
  <2>5. \A i \in 0..m : g[i] = step(g, i)
    <3> HIDE DEF g
    <3> SUFFICES ASSUME NEW i \in 0..m, i # 0 PROVE g[i - 1] = f[i - 1]
      BY <2>2
    <3> QED BY <2>4
  <2>6. Sifting(g, s, S, m)
    <3>1. g = [i \in 0..m |-> g[i]]
      BY Zenon
    <3> HIDE DEF g
    <3>2. [i \in 0..m |-> g[i]] = [i \in 0..m |-> step(g, i)]
      BY <2>5, Zenon
    <3> QED BY <3>1, <3>2, Zenon DEF Sifting
  <2> HIDE DEF g
  <2> QED BY <2>6
<1> HIDE DEF T
<1>3. n \in T
  BY <1>1, <1>2, CountUp
<1> QED BY <1>3 DEF T

LEMMA FilterIsLast ==
  ASSUME NEW E, NEW s \in Seq(E), NEW S
  PROVE  \E f : /\ f[0] = << >> /\ Filter(s, S) = f[Len(s)]
                /\ \A i \in 1..Len(s) : Sifts(f, s, S, i)
<1> DEFINE f == CHOOSE f : Sifting(f, s, S, Len(s))
<1>1. Sifting(f, s, S, Len(s))
  BY SiftingExists, LenProperties
<1>2. Filter(s, S) = f[Len(s)]
  BY DEF Filter, Sifting
<1> HIDE DEF f
<1> QED BY <1>1, <1>2, SiftingAt, LenProperties

(* The filter's list holds the entries of s in S and nothing else.         *)
LEMMA FilterIs ==
  ASSUME NEW E, NEW s \in Seq(E), NEW S
  PROVE  /\ Filter(s, S) \in Seq(E)
         /\ \A x \in DOMAIN Filter(s, S) :
              Filter(s, S)[x] \in S /\ \E k \in DOMAIN s : Filter(s, S)[x] = s[k]
         /\ \A k \in DOMAIN s : s[k] \in S => \E x \in DOMAIN Filter(s, S) : Filter(s, S)[x] = s[k]
         /\ Keyed(s) => Keyed(Filter(s, S))
<1>1. PICK f : /\ f[0] = << >> /\ Filter(s, S) = f[Len(s)]
               /\ \A i \in 1..Len(s) : Sifts(f, s, S, i)
  BY FilterIsLast
<1> DEFINE From(i, x) == f[i][x] \in S /\ \E k \in 1..i : f[i][x] = s[k]
           Has(i, k) == s[k] \in S => \E x \in DOMAIN f[i] : f[i][x] = s[k]
           Good(i) == /\ f[i] \in Seq(E) /\ \A x \in DOMAIN f[i] : From(i, x)
                      /\ \A k \in 1..i : Has(i, k)
                      /\ Keyed(s) => Keyed(f[i])
           T == {i \in 0..Len(s) : Good(i)}
<1>2. Len(s) \in Nat /\ DOMAIN s = 1..Len(s) /\ \A k \in 1..Len(s) : s[k] \in E
  OBVIOUS
<1>3. Good(0)
  BY <1>1 DEF Keyed
<1>4. ASSUME NEW i \in 1..Len(s), Good(i - 1) PROVE Good(i)
  <2>1. Sifts(f, s, S, i)
    BY <1>1
  <2>2. CASE s[i] \notin S
    <3>1. f[i] = f[i - 1]
      BY <2>1, <2>2 DEF Sifts
    <3>2. \A x \in DOMAIN f[i] : From(i, x)
      BY <1>4, <3>1
    <3>3. \A k \in 1..i : Has(i, k)
      BY <1>4, <2>2, <3>1
    <3> QED BY <1>4, <3>1, <3>2, <3>3
  <2>3. CASE s[i] \in S
    <3>1. f[i] = Append(f[i - 1], s[i]) /\ s[i] \in E
      BY <1>2, <2>1, <2>3 DEF Sifts
    <3>2. /\ f[i] \in Seq(E) /\ DOMAIN f[i] = 1..(Len(f[i - 1]) + 1) /\ Len(f[i - 1]) \in Nat
          /\ DOMAIN f[i - 1] = 1..Len(f[i - 1])
          /\ \A x \in DOMAIN f[i - 1] : x \in DOMAIN f[i] /\ f[i][x] = f[i - 1][x]
          /\ Len(f[i - 1]) + 1 \in DOMAIN f[i] /\ f[i][Len(f[i - 1]) + 1] = s[i]
      BY <1>4, <3>1
    <3> HIDE <3>1
    <3>3. \A x \in DOMAIN f[i] : From(i, x)
      <4> SUFFICES ASSUME NEW x \in DOMAIN f[i] PROVE From(i, x)
        OBVIOUS
      <4>1. CASE x \in DOMAIN f[i - 1]
        BY <1>4, <3>2, <4>1
      <4>2. CASE x = Len(f[i - 1]) + 1
        BY <2>3, <3>2, <4>2
      <4> QED BY <3>2, <4>1, <4>2
    <3>4. \A k \in 1..i : Has(i, k)
      <4> SUFFICES ASSUME NEW k \in 1..i, s[k] \in S PROVE \E x \in DOMAIN f[i] : f[i][x] = s[k]
        OBVIOUS
      <4>1. CASE k = i
        BY <3>2, <4>1
      <4>2. CASE k # i
        <5>1. PICK x \in DOMAIN f[i - 1] : f[i - 1][x] = s[k]
          BY <1>4, <4>2, k \in 1..(i - 1)
        <5> QED BY <3>2, <5>1
      <4> QED BY <4>1, <4>2
    <3>5. ASSUME Keyed(s) PROVE Keyed(f[i])
      <4>1. \A x \in DOMAIN f[i - 1] : f[i - 1][x].id # s[i].id
        <5> SUFFICES ASSUME NEW x \in DOMAIN f[i - 1], f[i - 1][x].id = s[i].id PROVE FALSE
          OBVIOUS
        <5>1. PICK k \in 1..(i - 1) : f[i - 1][x] = s[k]
          BY <1>4
        <5> QED BY <1>2, <3>5, <5>1 DEF Keyed
      <4>2. Keyed(f[i - 1])
        BY <1>4, <3>5
      <4> SUFFICES ASSUME NEW x \in DOMAIN f[i], NEW y \in DOMAIN f[i], f[i][x].id = f[i][y].id
                   PROVE  x = y
        BY DEF Keyed
      <4>3. (x \in DOMAIN f[i - 1] \/ x = Len(f[i - 1]) + 1) /\ (y \in DOMAIN f[i - 1] \/ y = Len(f[i - 1]) + 1)
        BY <3>2
      <4>4. CASE x \in DOMAIN f[i - 1] /\ y \in DOMAIN f[i - 1]
        BY <3>2, <4>2, <4>4 DEF Keyed
      <4>5. ASSUME NEW z \in DOMAIN f[i - 1] PROVE f[i][z].id # f[i][Len(f[i - 1]) + 1].id
        BY <3>2, <4>1
      <4> QED BY <4>3, <4>4, <4>5
    <3> QED BY <3>2, <3>3, <3>4, <3>5
  <2> QED BY <2>2, <2>3
<1>5. \A i \in 0..Len(s) : i \in T
  <2>1. 0 \in T
    BY <1>2, <1>3
  <2>2. \A i \in 1..Len(s) : i - 1 \in T => i \in T
    <3> SUFFICES ASSUME NEW i \in 1..Len(s), i - 1 \in T PROVE i \in T
      OBVIOUS
    <3>1. Good(i - 1)
      OBVIOUS
    <3> QED BY <1>2, <1>4, <3>1, i \in 0..Len(s)
  <2> HIDE DEF T
  <2> QED BY <1>2, <2>1, <2>2, CountUp
<1>6. Good(Len(s))
  BY <1>2, <1>5
<1> HIDE DEF Good
<1>7. Good(Len(s)) => /\ f[Len(s)] \in Seq(E) /\ \A x \in DOMAIN f[Len(s)] : From(Len(s), x)
                      /\ \A k \in 1..Len(s) : Has(Len(s), k)
                      /\ Keyed(s) => Keyed(f[Len(s)])
  BY DEF Good
<1> QED BY <1>1, <1>2, <1>6, <1>7

(* Find: the entry with the id, if the list has it once, and else none.    *)
LEMMA FindIs ==
  ASSUME NEW E, NEW list \in Seq(E), NEW id
  PROVE  /\ id \notin Ids(list) => Find(list, id) = None
         /\ id \in Ids(list) => \E i \in DOMAIN list : list[i].id = id /\ Find(list, id) = list[i]
         /\ Keyed(list) => \A i \in DOMAIN list : list[i].id = id => Find(list, id) = list[i]
<1> DEFINE hits == {i \in DOMAIN list : list[i].id = id}
<1>1. DOMAIN list = 1..Len(list) /\ Len(list) \in Nat
  OBVIOUS
<1>2. hits = {} <=> id \notin Ids(list)
  BY DEF Ids
<1>3. Find(list, id) = IF hits = {} THEN None ELSE list[Min(hits)]
  BY DEF Find
<1>4. hits # {} => Min(hits) \in hits
  <2>1. hits \in SUBSET Nat
    BY <1>1
  <2> HIDE DEF hits
  <2> QED BY <2>1, MinIsLeast
<1>5. ASSUME Keyed(list), NEW i \in DOMAIN list, list[i].id = id PROVE Find(list, id) = list[i]
  <2>1. i \in hits /\ Min(hits) \in hits
    BY <1>4, <1>5
  <2>2. Min(hits) = i
    <3>1. Min(hits) \in DOMAIN list /\ list[Min(hits)].id = list[i].id
      BY <1>5, <2>1
    <3> HIDE DEF hits
    <3> QED BY <1>5, <3>1 DEF Keyed
  <2> HIDE DEF hits
  <2> QED BY <1>3, <2>1, <2>2
<1>6. id \in Ids(list) => \E i \in DOMAIN list : list[i].id = id /\ Find(list, id) = list[i]
  <2> SUFFICES ASSUME id \in Ids(list)
               PROVE  \E i \in DOMAIN list : list[i].id = id /\ Find(list, id) = list[i]
    OBVIOUS
  <2>1. Min(hits) \in hits /\ Find(list, id) = list[Min(hits)]
    BY <1>2, <1>3, <1>4
  <2>2. Min(hits) \in DOMAIN list /\ list[Min(hits)].id = id
    BY <2>1
  <2> QED BY <2>1, <2>2
<1> QED BY <1>2, <1>3, <1>5, <1>6

(* Put: the entry is there, alone with its id, and the others stay.        *)
LEMMA PutIs ==
  ASSUME NEW E, NEW list \in Seq(E), Keyed(list), NEW entry \in E
  PROVE  /\ Put(list, entry) \in Seq(E) /\ Keyed(Put(list, entry))
         /\ Ids(Put(list, entry)) = Ids(list) \cup {entry.id}
         /\ Find(Put(list, entry), entry.id) = entry
         /\ \A id : id # entry.id => Find(Put(list, entry), id) = Find(list, id)
<1> DEFINE new == Put(list, entry)
           n == Len(list)
<1>1. n \in Nat /\ DOMAIN list = 1..n /\ \A i \in 1..n : list[i] \in E
  OBVIOUS
<1>2. PICK k \in 1..(n + 1) :
        /\ new \in Seq(E) /\ DOMAIN new = (DOMAIN list) \cup {k} /\ new[k] = entry
        /\ \A i \in DOMAIN list : i # k => new[i] = list[i] /\ list[i].id # entry.id
        /\ k \in DOMAIN list => list[k].id = entry.id
  <2>1. CASE entry.id \in Ids(list)
    <3>1. PICK k \in DOMAIN list : list[k].id = entry.id
      BY <2>1 DEF Ids
    <3>2. new = [i \in DOMAIN list |-> IF list[i].id = entry.id THEN entry ELSE list[i]]
      BY <2>1 DEF Put
    <3>3. \A i \in DOMAIN list : i # k => list[i].id # entry.id
      BY <3>1 DEF Keyed
    <3>4. new \in Seq(E)
      BY <1>1, <3>2, IsASeq
    <3>5. DOMAIN new = DOMAIN list /\ new[k] = entry /\ \A i \in DOMAIN list : i # k => new[i] = list[i]
      BY <3>1, <3>2, <3>3
    <3> HIDE DEF new
    <3> QED BY <1>1, <3>1, <3>3, <3>4, <3>5
  <2>2. CASE entry.id \notin Ids(list)
    <3>1. new = Append(list, entry)
      BY <2>2 DEF Put
    <3>2. \A i \in DOMAIN list : list[i].id # entry.id
      BY <2>2 DEF Ids
    <3>3. /\ new \in Seq(E) /\ DOMAIN new = 1..(n + 1) /\ new[n + 1] = entry
          /\ \A i \in DOMAIN list : new[i] = list[i]
      BY <1>1, <3>1
    <3>4. 1..(n + 1) = (1..n) \cup {n + 1} /\ n + 1 \notin DOMAIN list /\ n + 1 \in 1..(n + 1)
      BY <1>1
    <3> HIDE DEF new
    <3> QED BY <1>1, <3>2, <3>3, <3>4
  <2> QED BY <2>1, <2>2
<1> HIDE DEF new
<1>3. Keyed(new)
  BY <1>2 DEF Keyed
<1>4. Ids(new) = Ids(list) \cup {entry.id}
  <2>1. \A i \in DOMAIN new : new[i].id \in Ids(list) \cup {entry.id}
    BY <1>2 DEF Ids
  <2>2. \A i \in DOMAIN list : list[i].id \in Ids(new)
    BY <1>2 DEF Ids
  <2>3. entry.id \in Ids(new)
    BY <1>2 DEF Ids
  <2> QED BY <2>1, <2>2, <2>3 DEF Ids
<1>5. Find(new, entry.id) = entry
  BY <1>2, <1>3, FindIs
<1>6. ASSUME NEW id, id # entry.id PROVE Find(new, id) = Find(list, id)
  <2>1. CASE id \notin Ids(list)
    BY <1>2, <1>4, <1>6, <2>1, FindIs
  <2>2. CASE id \in Ids(list)
    <3>1. PICK i \in DOMAIN list : list[i].id = id /\ Find(list, id) = list[i]
      BY <2>2, FindIs
    <3>2. i # k /\ i \in DOMAIN new /\ new[i] = list[i]
      BY <1>2, <1>6, <3>1
    <3> QED BY <1>2, <1>3, <3>1, <3>2, FindIs
  <2> QED BY <2>1, <2>2
<1> QED BY <1>2, <1>3, <1>4, <1>5, <1>6 DEF new

-----------------------------------------------------------------------------
(***************************************************************************)
(* The settings: writes.  An entry that is written is typed, whatever was  *)
(* there before.                                                           *)
(***************************************************************************)
Kinds == {"provider", "agent", "search", "mcp"}
Entries(kind) ==
  CASE kind = "provider" -> Provider
    [] kind = "agent"    -> Agent
    [] kind = "search"   -> SearchProvider
    [] kind = "mcp"      -> McpServer

LEMMA PartialMapIs ==
  ASSUME NEW D, NEW R, NEW f
  PROVE  f \in PartialMaps(D, R) <=> f \in [DOMAIN f -> R] /\ DOMAIN f \subseteq D
BY DEF PartialMaps

LEMMA NoMapIs == ASSUME NEW D, NEW R PROVE NoMap \in PartialMaps(D, R)
<1>1. NoMap \in [{} -> R]
  BY DEF NoMap
<1> QED BY <1>1 DEF PartialMaps

LEMMA CompactTyped ==
  ASSUME NEW f \in PartialMaps(Models, Windows \cup {None})
  PROVE  CompactOverrides(f) \in PartialMaps(Models, Windows)
<1>1. f \in [DOMAIN f -> Windows \cup {None}] /\ DOMAIN f \subseteq Models
  BY PartialMapIs
<1>2. CompactOverrides(f) \in [{x \in DOMAIN f : f[x] # None} -> Windows]
  BY <1>1 DEF CompactOverrides
<1> QED BY <1>1, <1>2, PartialMapIs

LEMMA ProviderTyped ==
  ASSUME NEW current \in Provider \cup {None}, NEW w, IsProviderWrite(w)
  PROVE  UpsertProvider(current, w) \in Provider
<1> DEFINE maps == PartialMaps(Models, Windows)
<1>1. current # None => /\ current.key \in Keys \cup {None} /\ current.learned \in maps
                        /\ current.overrides \in maps /\ current.active \in BOOLEAN
  BY DEF Provider
<1>2. NoMap \in maps /\ NoMap \in PartialMaps(Models, Windows \cup {None})
  BY NoMapIs
<1>3. Kept(w, "key", current, None) \in Keys \cup {None}
  BY <1>1 DEF Kept, Sent, IsProviderWrite
<1>4. Kept(w, "learned", current, NoMap) \in maps
  BY <1>1, <1>2 DEF Kept, Sent, IsProviderWrite
<1>5. Kept(w, "active", current, TRUE) \in BOOLEAN
  BY <1>1 DEF Kept, Sent, IsProviderWrite
<1>6. Kept(w, "overrides", current, NoMap) \in PartialMaps(Models, Windows \cup {None})
  <2>1. \A f \in maps : f \in PartialMaps(Models, Windows \cup {None})
    <3> SUFFICES ASSUME NEW f \in maps PROVE f \in PartialMaps(Models, Windows \cup {None})
      OBVIOUS
    <3>1. f \in [DOMAIN f -> Windows] /\ DOMAIN f \subseteq Models
      BY PartialMapIs
    <3>2. f \in [DOMAIN f -> Windows \cup {None}]
      BY <3>1
    <3> QED BY <3>1, <3>2, PartialMapIs
  <2> HIDE DEF maps
  <2> QED BY <1>1, <1>2, <2>1 DEF Kept, Sent, IsProviderWrite
<1>7. CompactOverrides(Kept(w, "overrides", current, NoMap)) \in maps
  BY <1>6, CompactTyped
<1> HIDE DEF maps
<1> QED BY <1>3, <1>4, <1>5, <1>7 DEF UpsertProvider, Provider, IsProviderWrite, maps

LEMMA AgentTyped ==
  ASSUME NEW current \in Agent \cup {None}, NEW w, IsAgentWrite(w)
  PROVE  UpsertAgent(current, w) \in Agent
<1>1. Kept(w, "active", current, TRUE) \in BOOLEAN
  BY DEF Kept, Sent, Agent, IsAgentWrite
<1> QED BY <1>1 DEF UpsertAgent, Agent, IsAgentWrite

LEMMA SearchTyped ==
  ASSUME NEW current \in SearchProvider \cup {None}, NEW w, IsSearchWrite(w)
  PROVE  UpsertSearch(current, w) \in SearchProvider
<1>1. Kept(w, "url", current, None) \in PromptTexts \cup {None}
  BY DEF Kept, Sent, SearchProvider, IsSearchWrite
<1>2. Kept(w, "key", current, None) \in Keys \cup {None}
  BY DEF Kept, Sent, SearchProvider, IsSearchWrite
<1> QED BY <1>1, <1>2 DEF UpsertSearch, SearchProvider, IsSearchWrite

LEMMA McpTyped ==
  ASSUME NEW current \in McpServer \cup {None}, NEW w, IsMcpWrite(w)
  PROVE  UpsertMcp(current, w) \in McpServer
<1>1. Kept(w, "enabled", current, TRUE) \in BOOLEAN
  BY DEF Kept, Sent, McpServer, IsMcpWrite
<1>2. Kept(w, "key", current, None) \in Keys \cup {None}
  BY DEF Kept, Sent, McpServer, IsMcpWrite
<1>3. DefaultPermissions \in Permissions
  BY NoMapIs DEF DefaultPermissions, Permissions, Rules
<1>4. Kept(w, "permissions", current, DefaultPermissions) \in Permissions
  BY <1>3 DEF Kept, Sent, McpServer, IsMcpWrite
<1> QED BY <1>1, <1>2, <1>4 DEF UpsertMcp, McpServer, IsMcpWrite

LEMMA UpsertTyped ==
  ASSUME NEW kind \in Kinds, NEW current \in Entries(kind) \cup {None}, NEW w, IsWrite(kind, w)
  PROVE  Upsert(kind, current, w) \in Entries(kind) /\ Upsert(kind, current, w).id = w.id
<1>1. CASE kind = "provider"
  <2>1. Entries(kind) = Provider /\ IsProviderWrite(w) /\ Upsert(kind, current, w) = UpsertProvider(current, w)
    BY <1>1 DEF Entries, IsWrite, Upsert
  <2>2. UpsertProvider(current, w).id = w.id
    BY DEF UpsertProvider
  <2> QED BY <2>1, <2>2, ProviderTyped
<1>2. CASE kind = "agent"
  <2>1. Entries(kind) = Agent /\ IsAgentWrite(w) /\ Upsert(kind, current, w) = UpsertAgent(current, w)
    BY <1>2 DEF Entries, IsWrite, Upsert
  <2>2. UpsertAgent(current, w).id = w.id
    BY DEF UpsertAgent
  <2> QED BY <2>1, <2>2, AgentTyped
<1>3. CASE kind = "search"
  <2>1. Entries(kind) = SearchProvider /\ IsSearchWrite(w) /\ Upsert(kind, current, w) = UpsertSearch(current, w)
    BY <1>3 DEF Entries, IsWrite, Upsert
  <2>2. UpsertSearch(current, w).id = w.id
    BY DEF UpsertSearch
  <2> QED BY <2>1, <2>2, SearchTyped
<1>4. CASE kind = "mcp"
  <2>1. Entries(kind) = McpServer /\ IsMcpWrite(w) /\ Upsert(kind, current, w) = UpsertMcp(current, w)
    BY <1>4 DEF Entries, IsWrite, Upsert
  <2>2. UpsertMcp(current, w).id = w.id
    BY DEF UpsertMcp
  <2> QED BY <2>1, <2>2, McpTyped
<1> QED BY <1>1, <1>2, <1>3, <1>4 DEF Kinds

(* f counts the writes of a list up to n.                                  *)
Writes(f, kind, writes, i) ==
  f[i] = Put(f[i - 1], Upsert(kind, Find(f[i - 1], writes[i].id), writes[i]))
Writing(f, kind, start, writes, n) ==
  f = [i \in 0..n |->
         IF i = 0 THEN start
         ELSE Put(f[i - 1], Upsert(kind, Find(f[i - 1], writes[i].id), writes[i]))]

LEMMA WritingAt ==
  ASSUME NEW f, NEW kind, NEW start, NEW writes, NEW n \in Nat, Writing(f, kind, start, writes, n)
  PROVE  f[0] = start /\ \A i \in 1..n : Writes(f, kind, writes, i)
<1> DEFINE h == [i \in 0..n |->
         IF i = 0 THEN start
         ELSE Put(f[i - 1], Upsert(kind, Find(f[i - 1], writes[i].id), writes[i]))]
<1>1. f = h
  BY Zenon DEF Writing
<1>2. h[0] = start
  BY 0 \in 0..n
<1>3. ASSUME NEW i \in 1..n
      PROVE  h[i] = Put(f[i - 1], Upsert(kind, Find(f[i - 1], writes[i].id), writes[i]))
  BY i \in 0..n, i # 0
<1> HIDE DEF h
<1> QED BY <1>1, <1>2, <1>3 DEF Writes

LEMMA WritingExists ==
  ASSUME NEW kind, NEW start, NEW writes, NEW n \in Nat
  PROVE  \E f : Writing(f, kind, start, writes, n)
<1> DEFINE T == {m \in 0..n : \E f : Writing(f, kind, start, writes, m)}
<1>1. 0 \in T
  <2> DEFINE f == [i \in 0..0 |-> start]
  <2>1. f = [i \in 0..0 |->
         IF i = 0 THEN start
         ELSE Put(f[i - 1], Upsert(kind, Find(f[i - 1], writes[i].id), writes[i]))]
    OBVIOUS
  <2>2. Writing(f, kind, start, writes, 0)
    BY <2>1, Zenon DEF Writing
  <2> QED BY <2>2
<1>2. ASSUME NEW m \in 1..n, m - 1 \in T PROVE m \in T
  <2>1. PICK f : Writing(f, kind, start, writes, m - 1)
    BY <1>2
  <2> DEFINE step(x, i) == IF i = 0 THEN start
                ELSE Put(x[i - 1], Upsert(kind, Find(x[i - 1], writes[i].id), writes[i]))
             g == [i \in 0..m |-> step(f, i)]
  <2>2. \A i \in 0..m : g[i] = step(f, i)
    BY Zenon
  <2>3. f[0] = start /\ \A i \in 1..(m - 1) : Writes(f, kind, writes, i)
    BY <2>1, WritingAt
  <2>4. \A i \in 0..(m - 1) : g[i] = f[i]
    <3> SUFFICES ASSUME NEW i \in 0..(m - 1) PROVE step(f, i) = f[i]
      BY <2>2
    <3> QED BY <2>3 DEF Writes
  <2>5. \A i \in 0..m : g[i] = step(g, i)
    <3> HIDE DEF g
    <3> SUFFICES ASSUME NEW i \in 0..m, i # 0 PROVE g[i - 1] = f[i - 1]
      BY <2>2
    <3> QED BY <2>4
  <2>6. Writing(g, kind, start, writes, m)
    <3>1. g = [i \in 0..m |-> g[i]]
      BY Zenon
    <3>2. [i \in 0..m |-> g[i]] = [i \in 0..m |-> step(g, i)]
      BY <2>5, Zenon
    <3> QED BY <3>1, <3>2, Zenon DEF Writing
  <2> HIDE DEF g
  <2> QED BY <2>6
<1> HIDE DEF T
<1>3. n \in T
  BY <1>1, <1>2, CountUp
<1> QED BY <1>3 DEF T

LEMMA UpsertNamedIsLast ==
  ASSUME NEW kind, NEW list, NEW removed, NEW writes, writes \in Seq(Range(writes))
  PROVE  \E f : /\ f[0] = Filter(list, {e \in Range(list) : e.id \notin removed})
                /\ UpsertNamed(kind, list, removed, writes) = f[Len(writes)]
                /\ \A i \in 1..Len(writes) : Writes(f, kind, writes, i)
<1> DEFINE start == Filter(list, {e \in Range(list) : e.id \notin removed})
           f == CHOOSE f : Writing(f, kind, start, writes, Len(writes))
<1>0. Len(writes) \in Nat
  BY LenProperties
<1>1. Writing(f, kind, start, writes, Len(writes))
  BY <1>0, WritingExists
<1>2. UpsertNamed(kind, list, removed, writes) = f[Len(writes)]
  BY DEF UpsertNamed, Writing
<1> HIDE DEF f, start
<1>3. f[0] = start /\ \A i \in 1..Len(writes) : Writes(f, kind, writes, i)
  BY <1>0, <1>1, WritingAt
<1> QED BY <1>2, <1>3 DEF start

LEMMA EntriesHaveIds ==
  ASSUME NEW kind \in Kinds
  PROVE  \A e \in Entries(kind) : e # None /\ e.id # None
<1>1. CASE kind = "provider"
  BY <1>1, NoneAssumption DEF Entries, Provider
<1>2. CASE kind = "agent"
  <2>1. Entries(kind) = Agent
    BY <1>2 DEF Entries
  <2> QED BY <2>1, NoneAssumption DEF Agent
<1>3. CASE kind = "search"
  <2>1. Entries(kind) = SearchProvider
    BY <1>3 DEF Entries
  <2> QED BY <2>1, NoneAssumption DEF SearchProvider
<1>4. CASE kind = "mcp"
  <2>1. Entries(kind) = McpServer
    BY <1>4 DEF Entries
  <2> QED BY <2>1, NoneAssumption DEF McpServer
<1> QED BY <1>1, <1>2, <1>3, <1>4 DEF Kinds

(* What one write makes of the entry that is there.                        *)
LEMMA WriteIs ==
  ASSUME NEW kind \in Kinds, NEW list \in Seq(Entries(kind)), NEW w, IsWrite(kind, w)
  PROVE  LET current == Find(list, w.id)
             entry   == Upsert(kind, current, w)
         IN  /\ current \in Entries(kind) \cup {None}
             /\ w.id \in Ids(list) => current \in Entries(kind)
             /\ entry \in Entries(kind) /\ entry.id = w.id
<1> DEFINE E == Entries(kind)
           current == Find(list, w.id)
<1>1. w.id \in Ids(list) => current \in E
  <2> SUFFICES ASSUME w.id \in Ids(list) PROVE current \in E
    OBVIOUS
  <2>1. PICK k \in DOMAIN list : current = list[k]
    BY FindIs
  <2>2. list[k] \in E
    BY <2>1, ElementOfSeq, DOMAIN list = 1..Len(list)
  <2> QED BY <2>1, <2>2
<1>2. w.id \notin Ids(list) => current = None
  BY FindIs
<1> HIDE DEF current
<1>3. current \in E \cup {None}
  BY <1>1, <1>2
<1>4. Upsert(kind, current, w) \in E /\ Upsert(kind, current, w).id = w.id
  BY <1>3, UpsertTyped
<1> QED BY <1>1, <1>3, <1>4 DEF current

(* Whatever is removed and written, the list stays one of entries of its   *)
(* kind, each id once; what is written is there.                           *)
LEMMA UpsertNamedTyped ==
  ASSUME NEW kind \in Kinds, NEW list \in Seq(Entries(kind)), Keyed(list), NEW removed,
         NEW writes, AreWrites(kind, writes)
  PROVE  /\ UpsertNamed(kind, list, removed, writes) \in Seq(Entries(kind))
         /\ Keyed(UpsertNamed(kind, list, removed, writes))
<1> DEFINE n == Len(writes)
           E == Entries(kind)
<1>1. writes \in Seq(Range(writes)) /\ n \in Nat /\ DOMAIN writes = 1..n
      /\ \A i \in 1..n : IsWrite(kind, writes[i])
  <2>1. writes \in Seq(Range(writes)) /\ \A i \in DOMAIN writes : IsWrite(kind, writes[i])
    BY DEF AreWrites
  <2> QED BY <2>1, LenProperties
<1>2. PICK f : /\ f[0] = Filter(list, {e \in Range(list) : e.id \notin removed})
               /\ UpsertNamed(kind, list, removed, writes) = f[n]
               /\ \A i \in 1..n : Writes(f, kind, writes, i)
  BY <1>1, UpsertNamedIsLast
<1> DEFINE T == {i \in 0..n : f[i] \in Seq(E) /\ Keyed(f[i])}
<1>3. 0 \in T
  BY <1>1, <1>2, FilterIs
<1>4. ASSUME NEW i \in 1..n, i - 1 \in T PROVE i \in T
  <2> DEFINE current == Find(f[i - 1], writes[i].id)
             entry == Upsert(kind, current, writes[i])
  <2>1. f[i - 1] \in Seq(E) /\ Keyed(f[i - 1])
    BY <1>4
  <2>2. entry \in E
    BY <1>1, <2>1, WriteIs
  <2>3. f[i] = Put(f[i - 1], entry)
    BY <1>2 DEF Writes
  <2> HIDE DEF entry, E
  <2>4. Put(f[i - 1], entry) \in Seq(E) /\ Keyed(Put(f[i - 1], entry))
    BY <2>1, <2>2, PutIs
  <2> QED BY <2>3, <2>4
<1>5. n \in T
  <2>1. \A i \in 1..n : i - 1 \in T => i \in T
    BY <1>4
  <2>2. n \in Nat
    BY <1>1
  <2> HIDE DEF n, T
  <2>3. \A i \in 0..n : i \in T
    BY <1>3, <2>1, <2>2, CountUp
  <2> QED BY <2>2, <2>3
<1> HIDE DEF n, T, E
<1> QED BY <1>2, <1>5 DEF T, E

-----------------------------------------------------------------------------
(***************************************************************************)
(* The settings: defaults and patches.                                     *)
(***************************************************************************)
LEMMA SpreadTyped ==
  ASSUME NEW D, NEW R, NEW f \in PartialMaps(D, R), NEW g \in PartialMaps(D, R)
  PROVE  Spread(f, g) \in PartialMaps(D, R)
<1>1. /\ f \in [DOMAIN f -> R] /\ DOMAIN f \subseteq D
      /\ g \in [DOMAIN g -> R] /\ DOMAIN g \subseteq D
  BY PartialMapIs
<1>2. Spread(f, g) \in [(DOMAIN f \cup DOMAIN g) -> R]
  BY <1>1 DEF Spread
<1> QED BY <1>1, <1>2, PartialMapIs

LEMMA CompactionTyped ==
  ASSUME NEW c \in CompactionSettings, NEW given,
         Spread(DefaultCompaction, given) \in CompactionSettings
  PROVE  Spread(c, given) \in CompactionSettings
<1> DEFINE F == {"strategy", "target", "keep"}
           new == Spread(c, given)
           full == Spread(DefaultCompaction, given)
<1>1. DOMAIN c = F /\ DOMAIN DefaultCompaction = F /\ DOMAIN full = F
  BY DEF CompactionSettings, DefaultCompaction
<1>2. DOMAIN given \subseteq F
  BY <1>1 DEF Spread
<1>3. new = [x \in F |-> IF x \in DOMAIN given THEN given[x] ELSE c[x]]
  <2>1. DOMAIN c \cup DOMAIN given = F
    BY <1>1, <1>2
  <2> QED BY <2>1 DEF Spread
<1>4. \A x \in DOMAIN given : full[x] = given[x]
  BY <1>1, <1>2 DEF Spread
<1>5. /\ new["strategy"] \in {"rolling", "drop", "off"} /\ new["target"] \in 1..100
      /\ new["keep"] \in Nat \ {0}
  BY <1>3, <1>4 DEF CompactionSettings
<1>6. new = [strategy |-> new["strategy"], target |-> new["target"], keep |-> new["keep"]]
  <2>1. new = [x \in F |-> new[x]]
    BY <1>3
  <2> HIDE DEF new
  <2> QED BY <2>1
<1> HIDE DEF new
<1> QED BY <1>5, <1>6 DEF CompactionSettings, new

LEMMA FirstActiveIs ==
  ASSUME NEW E, NEW list \in Seq(E)
  PROVE  FirstActive(list) # None =>
           \E i \in DOMAIN list : list[i].active /\ FirstActive(list) = list[i].id
<1> DEFINE hits == {i \in DOMAIN list : list[i].active}
<1>1. hits \in SUBSET Nat
  BY DOMAIN list = 1..Len(list), Len(list) \in Nat
<1>2. FirstActive(list) = IF hits = {} THEN None ELSE list[Min(hits)].id
  BY DEF FirstActive
<1>3. hits # {} => Min(hits) \in hits
  <2> HIDE DEF hits
  <2> QED BY <1>1, MinIsLeast
<1>4. hits # {} => Min(hits) \in DOMAIN list /\ list[Min(hits)].active
  BY <1>3
<1> HIDE DEF hits
<1> QED BY <1>2, <1>4

LEMMA FirstIdIs ==
  ASSUME NEW E, NEW list \in Seq(E)
  PROVE  FirstId(list) \in Ids(list) \cup {None}
<1>1. list # << >> => 1 \in DOMAIN list
  BY DOMAIN list = 1..Len(list), Len(list) \in Nat, EmptySeq
<1> QED BY <1>1 DEF FirstId, Ids

LEMMA IdsTyped ==
  ASSUME NEW kind \in Kinds, NEW list \in Seq(Entries(kind))
  PROVE  /\ kind = "provider" => Ids(list) \subseteq ProviderIds
         /\ kind = "search" => Ids(list) \subseteq SearchIds
<1>1. \A i \in DOMAIN list : list[i] \in Entries(kind)
  BY ElementOfSeq, DOMAIN list = 1..Len(list)
<1>2. CASE kind = "provider"
  BY <1>1, <1>2 DEF Ids, Entries, Provider
<1>3. CASE kind = "search"
  <2>1. Entries(kind) = SearchProvider
    BY <1>3 DEF Entries
  <2>2. \A i \in DOMAIN list : list[i].id \in SearchIds
    BY <1>1, <2>1 DEF SearchProvider
  <2> QED BY <1>3, <2>2 DEF Ids
<1> QED BY <1>2, <1>3

LEMMA ActivatedIs ==
  ASSUME NEW u, NEW list \in Seq(Provider), Keyed(list)
  PROVE  /\ Activated(u, list) \in Seq(Provider) /\ Keyed(Activated(u, list))
         /\ Ids(Activated(u, list)) = Ids(list)
         /\ \A i \in DOMAIN list : Sent(u, "default", None) # list[i].id => Activated(u, list)[i] = list[i]
         /\ DOMAIN Activated(u, list) = DOMAIN list
         /\ \A i \in DOMAIN list : Activated(u, list)[i].id = list[i].id
<1> DEFINE new == Activated(u, list)
           d == Sent(u, "default", None)
<1>1. Len(list) \in Nat /\ DOMAIN list = 1..Len(list) /\ \A i \in 1..Len(list) : list[i] \in Provider
  BY ElementOfSeq
<1>2. new = [i \in 1..Len(list) |-> IF d = list[i].id THEN [list[i] EXCEPT !.active = TRUE] ELSE list[i]]
  BY <1>1 DEF Activated
<1>3. \A p \in Provider : [p EXCEPT !.active = TRUE] \in Provider /\ [p EXCEPT !.active = TRUE].id = p.id
  BY DEF Provider
<1> HIDE DEF d
<1>4. \A i \in 1..Len(list) : new[i] \in Provider /\ new[i].id = list[i].id /\ (d # list[i].id => new[i] = list[i])
  BY <1>1, <1>2, <1>3
<1>5. DOMAIN new = 1..Len(list)
  BY <1>2
<1>6. new \in Seq(Provider)
  <2>1. \A i \in 1..Len(list) :
          (IF d = list[i].id THEN [list[i] EXCEPT !.active = TRUE] ELSE list[i]) \in Provider
    BY <1>1, <1>3
  <2> QED BY <1>1, <1>2, <2>1, IsASeq
<1> HIDE DEF new
<1>7. Keyed(new)
  BY <1>1, <1>4, <1>5 DEF Keyed
<1>8. Ids(new) = Ids(list)
  BY <1>1, <1>4, <1>5 DEF Ids
<1> QED BY <1>1, <1>4, <1>5, <1>6, <1>7, <1>8 DEF new, d

(* Where the default goes, it is there and active, or there is none.       *)
LEMMA NextDefaultIs ==
  ASSUME NEW list \in Seq(Provider), Keyed(list), NEW wanted \in Ids(list) \cup {None}
  PROVE  /\ NextDefault(wanted, list) \in Ids(list) \cup {None}
         /\ NextDefault(wanted, list) # None => Find(list, NextDefault(wanted, list)).active
<1>1. FirstActive(list) # None => FirstActive(list) \in Ids(list) /\ Find(list, FirstActive(list)).active
  <2> SUFFICES ASSUME FirstActive(list) # None
               PROVE  FirstActive(list) \in Ids(list) /\ Find(list, FirstActive(list)).active
    OBVIOUS
  <2>1. PICK i \in DOMAIN list : list[i].active /\ FirstActive(list) = list[i].id
    BY FirstActiveIs
  <2>2. Find(list, list[i].id) = list[i]
    BY FindIs
  <2> QED BY <2>1, <2>2 DEF Ids
<1>2. CASE wanted # None /\ ~Find(list, wanted).active
  BY <1>1, <1>2, Zenon DEF NextDefault
<1>3. CASE ~(wanted # None /\ ~Find(list, wanted).active)
  BY <1>3, Zenon DEF NextDefault
<1> QED BY <1>2, <1>3

LEMMA WantedDefaultIs ==
  ASSUME NEW s, NEW u, NEW list \in Seq(Provider),
         Sent(u, "default", None) \in Ids(list) \cup {None}
  PROVE  WantedDefault(s, u, list) \in Ids(list) \cup {None}
<1>1. FirstActive(list) \in Ids(list) \cup {None}
  BY FirstActiveIs DEF Ids
<1>2. FirstId(list) \in Ids(list) \cup {None}
  BY FirstIdIs
<1> QED BY <1>1, <1>2 DEF WantedDefault, Sent

LEMMA NextSearchDefaultIs ==
  ASSUME NEW s, NEW u, NEW list \in Seq(SearchProvider),
         Sent(u, "searchDefault", None) \in Ids(list) \cup {None}
  PROVE  NextSearchDefault(s, u, list) \in Ids(list) \cup {None}
<1>1. FirstId(list) \in Ids(list) \cup {None}
  BY FirstIdIs
<1> QED BY <1>1 DEF NextSearchDefault, Sent

LEMMA PatchedTyped ==
  ASSUME NEW s, IsSettings(s), NEW u, IsPatch(u)
  PROVE  /\ PatchedProviders(s, u) \in Seq(Provider) /\ Keyed(PatchedProviders(s, u))
         /\ PatchedSearch(s, u) \in Seq(SearchProvider) /\ Keyed(PatchedSearch(s, u))
<1>1. /\ "provider" \in Kinds /\ Entries("provider") = Provider
      /\ "search" \in Kinds /\ Entries("search") = SearchProvider
  BY DEF Kinds, Entries
<1>2. s.providers \in Seq(Provider) /\ s.search \in Seq(SearchProvider) /\ Keyed(s.providers) /\ Keyed(s.search)
  BY DEF IsSettings, StoredSettings
<1>3. AreWrites("provider", Sent(u, "providers", << >>)) /\ AreWrites("search", Sent(u, "search", << >>))
  BY DEF IsPatch
<1> QED BY <1>1, <1>2, <1>3, UpsertNamedTyped DEF PatchedProviders, PatchedSearch

LEMMA PatchedAgents ==
  ASSUME NEW s, IsSettings(s), NEW u, IsPatch(u), NEW gone
  PROVE  /\ UpsertNamed("agent", s.agents, gone, Sent(u, "agents", << >>)) \in Seq(Agent)
         /\ Keyed(UpsertNamed("agent", s.agents, gone, Sent(u, "agents", << >>)))
<1>1. "agent" \in Kinds /\ Entries("agent") = Agent
  BY DEF Kinds, Entries
<1>2. s.agents \in Seq(Agent) /\ Keyed(s.agents)
  BY DEF IsSettings, StoredSettings
<1>3. AreWrites("agent", Sent(u, "agents", << >>))
  BY DEF IsPatch
<1> QED BY <1>1, <1>2, <1>3, UpsertNamedTyped

LEMMA PatchedMcp ==
  ASSUME NEW s, IsSettings(s), NEW u, IsPatch(u), NEW gone
  PROVE  /\ UpsertNamed("mcp", s.mcp, gone, Sent(u, "mcp", << >>)) \in Seq(McpServer)
         /\ Keyed(UpsertNamed("mcp", s.mcp, gone, Sent(u, "mcp", << >>)))
<1>1. "mcp" \in Kinds /\ Entries("mcp") = McpServer
  BY DEF Kinds, Entries
<1>2. s.mcp \in Seq(McpServer) /\ Keyed(s.mcp)
  BY DEF IsSettings, StoredSettings
<1>3. AreWrites("mcp", Sent(u, "mcp", << >>))
  BY DEF IsPatch
<1> QED BY <1>1, <1>2, <1>3, UpsertNamedTyped

(* A patch that does not throw leaves a sound document sound, and its      *)
(* default switched on, whatever it was before.                            *)
LEMMA ApplySound ==
  ASSUME NEW s, Sound(s), NEW u, IsPatch(u), ~PatchThrows(s, u)
  PROVE  Sound(ApplySettingsUpdate(s, u)) /\ DefaultIsOn(ApplySettingsUpdate(s, u))
<1> DEFINE plain == PatchedProviders(s, u)
           list == Activated(u, plain)
           search == PatchedSearch(s, u)
           t == ApplySettingsUpdate(s, u)
<1>0. IsSettings(s) /\ s \in StoredSettings
  BY DEF Sound, IsSettings
<1>1. plain \in Seq(Provider) /\ Keyed(plain) /\ search \in Seq(SearchProvider) /\ Keyed(search)
  BY <1>0, PatchedTyped
<1>2. list \in Seq(Provider) /\ Keyed(list) /\ Ids(list) = Ids(plain)
  BY <1>1, ActivatedIs
<1>3. /\ Sent(u, "default", None) \in Ids(plain) \cup {None}
      /\ Sent(u, "searchDefault", None) \in Ids(search) \cup {None}
  BY DEF PatchThrows
<1>4. t = [providers     |-> list,
       default       |-> NextDefault(WantedDefault(s, u, plain), list),
       global        |-> Sent(u, "global", s.global),
       perMode       |-> Spread(s.perMode, Sent(u, "perMode", NoMap)),
       approvals     |-> Spread(s.approvals, Sent(u, "approvals", NoMap)),
       askUser       |-> Sent(u, "askUser", s.askUser),
       maxRounds     |-> Sent(u, "maxRounds", s.maxRounds),
       agents        |-> UpsertNamed("agent", s.agents, Sent(u, "removeAgents", {}),
                                     Sent(u, "agents", << >>)),
       search        |-> search,
       searchDefault |-> NextSearchDefault(s, u, search),
       mcp           |-> UpsertNamed("mcp", s.mcp, Sent(u, "removeMcp", {}), Sent(u, "mcp", << >>)),
       compaction    |-> Spread(s.compaction, Sent(u, "compaction", NoMap))]
  BY Zenon DEF ApplySettingsUpdate
<1> HIDE DEF t
<1>5. /\ t.default \in Ids(t.providers) \cup {None}
      /\ t.default # None => Find(t.providers, t.default).active
  <2>1. WantedDefault(s, u, plain) \in Ids(list) \cup {None}
    <3> HIDE DEF list, plain
    <3> QED BY <1>1, <1>2, <1>3, WantedDefaultIs
  <2>2. t.providers = list /\ t.default = NextDefault(WantedDefault(s, u, plain), list)
    BY <1>4
  <2> HIDE DEF list, plain
  <2> QED BY <1>2, <2>1, <2>2, NextDefaultIs
<1>6. t.searchDefault \in Ids(t.search) \cup {None}
  <2>1. t.search = search /\ t.searchDefault = NextSearchDefault(s, u, search)
    BY <1>4
  <2> HIDE DEF search
  <2> QED BY <1>1, <1>3, <2>1, NextSearchDefaultIs
<1>7. /\ t.providers \in Seq(Provider) /\ Keyed(t.providers)
      /\ t.search \in Seq(SearchProvider) /\ Keyed(t.search)
  <2>1. t.providers = list /\ t.search = search
    BY <1>4
  <2> HIDE DEF list, search
  <2> QED BY <1>1, <1>2, <2>1
<1>8. t.default \in ProviderIds \cup {None}
  <2>1. Ids(t.providers) \subseteq ProviderIds
    BY <1>7, IdsTyped DEF Kinds, Entries
  <2> QED BY <1>5, <2>1
<1>9. t.searchDefault \in SearchIds \cup {None}
  <2>1. Entries("search") = SearchProvider /\ "search" \in Kinds
    BY DEF Kinds, Entries
  <2>2. Ids(t.search) \subseteq SearchIds
    BY <1>7, <2>1, IdsTyped
  <2> QED BY <1>6, <2>2
<1>10. t.agents \in Seq(Agent) /\ Keyed(t.agents) /\ t.mcp \in Seq(McpServer) /\ Keyed(t.mcp)
  BY <1>0, <1>4, PatchedAgents, PatchedMcp
<1>11. /\ t.global \in PromptTexts \cup {None} /\ t.askUser \in BOOLEAN /\ t.maxRounds \in Nat \ {0}
  BY <1>0, <1>4 DEF IsPatch, Sent, StoredSettings
<1>12. t.perMode \in PartialMaps(ModeIds, PromptTexts \cup {None})
  <2>1. t.perMode = Spread(s.perMode, Sent(u, "perMode", NoMap))
    BY <1>4
  <2>2. /\ s.perMode \in PartialMaps(ModeIds, PromptTexts \cup {None})
        /\ Sent(u, "perMode", NoMap) \in PartialMaps(ModeIds, PromptTexts \cup {None})
    BY <1>0 DEF IsPatch, StoredSettings
  <2> QED BY <2>1, <2>2, SpreadTyped
<1>13. t.approvals \in PartialMaps(ToolIds, Rules)
  <2>1. t.approvals = Spread(s.approvals, Sent(u, "approvals", NoMap))
    BY <1>4
  <2>2. s.approvals \in PartialMaps(ToolIds, Rules) /\ Sent(u, "approvals", NoMap) \in PartialMaps(ToolIds, Rules)
    BY <1>0 DEF IsPatch, StoredSettings
  <2> QED BY <2>1, <2>2, SpreadTyped
<1>14. t.compaction \in CompactionSettings
  <2>1. t.compaction = Spread(s.compaction, Sent(u, "compaction", NoMap))
    BY <1>4
  <2>2. /\ s.compaction \in CompactionSettings
        /\ Spread(DefaultCompaction, Sent(u, "compaction", NoMap)) \in CompactionSettings
    BY <1>0 DEF IsPatch, StoredSettings
  <2> QED BY <2>1, <2>2, CompactionTyped
<1>15. t \in StoredSettings
  <2>1. t = [providers |-> t.providers, default |-> t.default, global |-> t.global,
             perMode |-> t.perMode, approvals |-> t.approvals, askUser |-> t.askUser,
             maxRounds |-> t.maxRounds, agents |-> t.agents, search |-> t.search,
             searchDefault |-> t.searchDefault, mcp |-> t.mcp, compaction |-> t.compaction]
    <3> HIDE DEF list, search, plain
    <3> QED BY <1>4
  <2> QED BY <1>7, <1>8, <1>9, <1>10, <1>11, <1>12, <1>13, <1>14, <2>1 DEF StoredSettings
<1> QED BY <1>5, <1>6, <1>7, <1>10, <1>15 DEF Sound, DefaultIsOn, IsSettings, t

-----------------------------------------------------------------------------
(***************************************************************************)
(* The settings: what a stored row reads as.                               *)
(***************************************************************************)
LEMMA SpreadAll ==
  ASSUME NEW base, NEW f, f = [x \in DOMAIN f |-> f[x]], DOMAIN base \subseteq DOMAIN f
  PROVE  Spread(base, f) = f
<1>1. DOMAIN base \cup DOMAIN f = DOMAIN f
  OBVIOUS
<1>2. Spread(base, f) = [x \in DOMAIN f |-> f[x]]
  BY <1>1 DEF Spread
<1> QED BY <1>2

LEMMA EmptySound == Sound(Empty)
<1>1. NoMap \in PartialMaps(ModeIds, PromptTexts \cup {None}) /\ NoMap \in PartialMaps(ToolIds, Rules)
  BY NoMapIs
<1>2. DefaultCompaction \in CompactionSettings
  BY DEF DefaultCompaction, CompactionSettings
<1>3. /\ << >> \in Seq(Provider) /\ << >> \in Seq(Agent) /\ << >> \in Seq(SearchProvider)
      /\ << >> \in Seq(McpServer)
  OBVIOUS
<1>4. Empty \in StoredSettings
  BY <1>1, <1>2, <1>3 DEF Empty, StoredSettings
<1>5. Keyed(<< >>)
  BY DEF Keyed
<1>6. /\ Empty.providers = << >> /\ Empty.agents = << >> /\ Empty.search = << >> /\ Empty.mcp = << >>
      /\ Empty.default = None /\ Empty.searchDefault = None
  BY DEF Empty
<1> QED BY <1>4, <1>5, <1>6 DEF Sound, IsSettings

Fields == {"providers", "default", "global", "perMode", "approvals", "askUser", "maxRounds",
           "agents", "search", "searchDefault", "mcp", "compaction"}

LEMMA NormalizeNothing == Normalize(NoMap) = Empty
<1> DEFINE full == Spread(Empty, NoMap)
           Now(f) == CASE f = "agents"     -> MigrateAgents(NoMap)
                       [] f = "providers"  -> [i \in DOMAIN full.providers |->
                                                 Spread([active |-> TRUE], full.providers[i])]
                       [] f = "compaction" -> Spread(DefaultCompaction, full.compaction)
                       [] OTHER            -> full[f]
<1>1. DOMAIN Empty = Fields /\ Empty = [f \in DOMAIN Empty |-> Empty[f]] /\ DOMAIN NoMap = {}
  BY DEF Empty, Fields, NoMap
<1>2. full = Empty
  <2>1. full = [f \in DOMAIN Empty |-> Empty[f]]
    BY <1>1 DEF Spread
  <2> QED BY <1>1, <2>1
<1>3. Normalize(NoMap) = [f \in DOMAIN Empty |-> Now(f)]
  BY Zenon DEF Normalize
<1>4. MigrateAgents(NoMap) = Empty.agents
  <2>1. Sent(NoMap, "agents", << >>) = << >>
    BY <1>1 DEF Sent
  <2>2. MigrateAgents(NoMap) = << >>
    BY <2>1 DEF MigrateAgents
  <2> QED BY <2>2 DEF Empty
<1>5. Empty.providers = << >> /\ Empty.compaction = DefaultCompaction
  BY DEF Empty
<1>6. Spread(DefaultCompaction, DefaultCompaction) = DefaultCompaction
  BY SpreadAll DEF DefaultCompaction
<1>7. \A f \in DOMAIN Empty : Now(f) = Empty[f]
  <2> SUFFICES ASSUME NEW f \in DOMAIN Empty PROVE Now(f) = Empty[f]
    OBVIOUS
  <2>1. CASE f = "agents"
    BY <1>4, <2>1
  <2>2. CASE f = "providers"
    <3>1. [i \in DOMAIN full.providers |-> Spread([active |-> TRUE], full.providers[i])] = << >>
      BY <1>2, <1>5
    <3> HIDE DEF full
    <3> QED BY <1>5, <2>2, <3>1
  <2>3. CASE f = "compaction"
    <3>1. Spread(DefaultCompaction, full.compaction) = DefaultCompaction
      BY <1>2, <1>5, <1>6
    <3> HIDE DEF full
    <3> QED BY <1>5, <2>3, <3>1
  <2>4. CASE f \notin {"agents", "providers", "compaction"}
    BY <1>2, <2>4
  <2> QED BY <2>1, <2>2, <2>3, <2>4
<1> HIDE DEF Now
<1>8. [f \in DOMAIN Empty |-> Now(f)] = [f \in DOMAIN Empty |-> Empty[f]]
  BY <1>7
<1> QED BY <1>1, <1>3, <1>8

(* A document of today reads as it stands.                                 *)
LEMMA NormalizeSettings ==
  ASSUME NEW s, IsSettings(s)
  PROVE  Normalize(s) = s
<1> DEFINE full == Spread(Empty, s)
           Now(f) == CASE f = "agents"     -> MigrateAgents(s)
                       [] f = "providers"  -> [i \in DOMAIN full.providers |->
                                                 Spread([active |-> TRUE], full.providers[i])]
                       [] f = "compaction" -> Spread(DefaultCompaction, full.compaction)
                       [] OTHER            -> full[f]
<1>1. DOMAIN Empty = Fields /\ DOMAIN s = Fields /\ s = [f \in DOMAIN s |-> s[f]]
  BY DEF Empty, Fields, IsSettings, StoredSettings
<1>2. full = s
  BY <1>1, SpreadAll
<1>3. Normalize(s) = [f \in DOMAIN Empty |-> Now(f)]
  BY Zenon DEF Normalize
<1>4. /\ s.agents \in Seq(Agent) /\ s.providers \in Seq(Provider) /\ s.compaction \in CompactionSettings
  BY DEF IsSettings, StoredSettings
<1>5. MigrateAgents(s) = s.agents
  <2> DEFINE chosen == Sent(s, "activeAgent", None)
  <2>1. Sent(s, "agents", << >>) = s.agents
    BY <1>1 DEF Sent, Fields
  <2>2. MigrateAgents(s) =
          [i \in DOMAIN s.agents |->
             Spread([active |-> chosen # None /\ chosen = s.agents[i].id], s.agents[i])]
    BY <2>1, Zenon DEF MigrateAgents
  <2>3. \A b : \A i \in DOMAIN s.agents : Spread([active |-> b], s.agents[i]) = s.agents[i]
    <3> SUFFICES ASSUME NEW i \in DOMAIN s.agents, NEW b
                 PROVE  Spread([active |-> b], s.agents[i]) = s.agents[i]
      OBVIOUS
    <3>1. s.agents[i] \in Agent
      BY <1>4, ElementOfSeq, DOMAIN s.agents = 1..Len(s.agents)
    <3>2. /\ s.agents[i] = [x \in DOMAIN s.agents[i] |-> s.agents[i][x]]
          /\ DOMAIN [active |-> b] \subseteq DOMAIN s.agents[i]
      BY <3>1 DEF Agent
    <3> QED BY <3>2, SpreadAll
  <2> HIDE DEF chosen
  <2>4. MigrateAgents(s) = [i \in DOMAIN s.agents |-> s.agents[i]]
    BY <2>2, <2>3
  <2> QED BY <1>4, <2>4
<1>6. [i \in DOMAIN s.providers |-> Spread([active |-> TRUE], s.providers[i])] = s.providers
  <2>1. \A i \in DOMAIN s.providers : Spread([active |-> TRUE], s.providers[i]) = s.providers[i]
    <3> SUFFICES ASSUME NEW i \in DOMAIN s.providers
                 PROVE  Spread([active |-> TRUE], s.providers[i]) = s.providers[i]
      OBVIOUS
    <3>1. s.providers[i] \in Provider
      BY <1>4, ElementOfSeq, DOMAIN s.providers = 1..Len(s.providers)
    <3>2. /\ s.providers[i] = [x \in DOMAIN s.providers[i] |-> s.providers[i][x]]
          /\ DOMAIN [active |-> TRUE] \subseteq DOMAIN s.providers[i]
      BY <3>1 DEF Provider
    <3> QED BY <3>2, SpreadAll
  <2> QED BY <1>4, <2>1
<1>7. Spread(DefaultCompaction, s.compaction) = s.compaction
  BY <1>4, SpreadAll DEF CompactionSettings, DefaultCompaction
<1>8. \A f \in DOMAIN s : Now(f) = s[f]
  <2> SUFFICES ASSUME NEW f \in DOMAIN s PROVE Now(f) = s[f]
    OBVIOUS
  <2>1. CASE f = "agents"
    BY <1>5, <2>1
  <2>2. CASE f = "providers"
    <3>1. [i \in DOMAIN full.providers |-> Spread([active |-> TRUE], full.providers[i])] = s.providers
      BY <1>2, <1>6
    <3> HIDE DEF full
    <3> QED BY <2>2, <3>1
  <2>3. CASE f = "compaction"
    <3>1. Spread(DefaultCompaction, full.compaction) = s.compaction
      BY <1>2, <1>7
    <3> HIDE DEF full
    <3> QED BY <2>3, <3>1
  <2>4. CASE f \notin {"agents", "providers", "compaction"}
    BY <1>2, <2>4
  <2> QED BY <2>1, <2>2, <2>3, <2>4
<1> HIDE DEF Now
<1>9. [f \in DOMAIN Empty |-> Now(f)] = [f \in DOMAIN s |-> s[f]]
  BY <1>1, <1>8
<1> QED BY <1>1, <1>3, <1>9

-----------------------------------------------------------------------------
(***************************************************************************)
(* The settings: what an operation goes on with, and the invariant.        *)
(***************************************************************************)
LEMMA WithSearchSound ==
  ASSUME NEW s, Sound(s)
  PROVE  /\ Sound(WithSearch(s))
         /\ WithSearch(s).providers = s.providers /\ WithSearch(s).default = s.default
<1>1. CASE ~WebSearch
  BY <1>1 DEF WithSearch
<1>2. CASE WebSearch
  <2> DEFINE t == WithSearch(s)
  <2>1. s \in StoredSettings /\ DuckDuckGo \in SearchProvider
    BY <1>2, SeedAssumption DEF Sound, IsSettings, DuckDuckGo, SearchProvider
  <2>2. t = [s EXCEPT !.search = <<DuckDuckGo>>, !.searchDefault = "duckduckgo"]
    BY <1>2 DEF WithSearch
  <2>3. <<DuckDuckGo>> \in Seq(SearchProvider) /\ Keyed(<<DuckDuckGo>>)
    BY <2>1 DEF Keyed
  <2>4. /\ t.search = <<DuckDuckGo>> /\ t.searchDefault = "duckduckgo"
        /\ t.providers = s.providers /\ t.agents = s.agents /\ t.mcp = s.mcp /\ t.default = s.default
    BY <2>1, <2>2 DEF StoredSettings
  <2>5. t \in StoredSettings
    BY <1>2, <2>1, <2>2, <2>3, SeedAssumption DEF StoredSettings
  <2>6. t.searchDefault \in Ids(t.search)
    <3>1. DuckDuckGo.id = "duckduckgo"
      BY DEF DuckDuckGo
    <3>2. 1 \in DOMAIN <<DuckDuckGo>> /\ <<DuckDuckGo>>[1] = DuckDuckGo
      OBVIOUS
    <3> QED BY <2>4, <3>1, <3>2 DEF Ids
  <2> HIDE DEF t
  <2>7. Keyed(t.search)
    BY <2>3, <2>4
  <2>8. Sound(t)
    BY <2>4, <2>5, <2>6, <2>7 DEF Sound, IsSettings
  <2> QED BY <2>4, <2>8 DEF t
<1> QED BY <1>1, <1>2

(* Fit is what every document is: sound, and its default switched on       *)
(* unless the profiles are those that were given.                          *)
Fit(s) == Sound(s) /\ (DefaultIsOn(s) \/ AsGiven(s))

LEMMA EmptyFit == Fit(Empty)
BY EmptySound DEF Fit, DefaultIsOn, Empty

(* Only the profiles and the default decide.                               *)
LEMMA SameProvidersFit ==
  ASSUME NEW s, Fit(s), NEW t, Sound(t), t.providers = s.providers, t.default = s.default
  PROVE  Fit(t)
<1>1. CASE DefaultIsOn(s)
  BY <1>1 DEF Fit, DefaultIsOn
<1>2. CASE AsGiven(s)
  BY <1>2 DEF Fit, AsGiven
<1> QED BY <1>1, <1>2 DEF Fit

LEMMA WithSearchFit ==
  ASSUME NEW s, Fit(s)
  PROVE  Fit(WithSearch(s))
BY WithSearchSound, SameProvidersFit DEF Fit

(* What is given is as given.                                              *)
LEMMA GivenFit ==
  ASSUME NEW s, Sound(s), s \in {Seeded} \cup {Normalize(raw) : raw \in OldRows \ {None}}
  PROVE  Fit(s)
<1>1. ASSUME NEW i \in DOMAIN s.providers
      PROVE  [s.providers[i] EXCEPT !.learned = s.providers[i].learned] = s.providers[i]
  <2>1. s.providers \in Seq(Provider)
    BY DEF Sound, IsSettings, StoredSettings
  <2>2. s.providers[i] \in Provider
    BY <1>1, <2>1, ElementOfSeq, DOMAIN s.providers = 1..Len(s.providers)
  <2> QED BY <2>2 DEF Provider
<1>2. AsGiven(s)
  BY <1>1 DEF AsGiven
<1> QED BY <1>2 DEF Fit

LEMMA SeededSound == Sound(Seeded)
<1> DEFINE s == [Empty EXCEPT
                   !.providers = SeedProviders,
                   !.default   = IF SeedDefault # None THEN SeedDefault ELSE FirstId(SeedProviders),
                   !.global    = HostPrompts.global,
                   !.perMode   = HostPrompts.perMode,
                   !.askUser   = SeedAskUser,
                   !.maxRounds = SeedRounds]
<1>1. Sound(Empty) /\ Empty \in StoredSettings
  BY EmptySound DEF Sound, IsSettings
<1>2. SeedProviders \in Seq(Provider) /\ Keyed(SeedProviders)
  BY SeedAssumption
<1>3. s.default \in Ids(SeedProviders) \cup {None}
  <2>1. s.default = IF SeedDefault # None THEN SeedDefault ELSE FirstId(SeedProviders)
    BY <1>1 DEF StoredSettings
  <2>2. FirstId(SeedProviders) \in Ids(SeedProviders) \cup {None}
    BY <1>2, FirstIdIs
  <2> QED BY <2>1, <2>2, SeedAssumption
<1>4. Ids(SeedProviders) \subseteq ProviderIds
  BY <1>2, IdsTyped DEF Kinds, Entries
<1>5. /\ s.providers = SeedProviders /\ s.agents = Empty.agents /\ s.search = Empty.search
      /\ s.mcp = Empty.mcp /\ s.searchDefault = Empty.searchDefault
  BY <1>1 DEF StoredSettings
<1>6. s \in StoredSettings
  BY <1>1, <1>2, <1>3, <1>4, SeedAssumption DEF StoredSettings
<1>7. Seeded = WithSearch(s)
  BY DEF Seeded
<1> HIDE DEF s
<1>8. Sound(s)
  BY <1>1, <1>2, <1>3, <1>5, <1>6 DEF Sound, IsSettings
<1> QED BY <1>7, <1>8, WithSearchSound

LEMMA SeededFit == Fit(Seeded)
BY SeededSound, GivenFit

LEMMA PlacesAreCounted == Len(Places) \in Nat /\ DOMAIN Places = 1..Len(Places)
<1> DEFINE a == [i \in 1..4 |-> <<Layers(TRUE)[i], "n_ctx">>]
           b == [i \in 1..4 |-> <<Layers(FALSE)[i], "runtime">>]
           c == << <<"status", "args">> >>
           d == [i \in 1..4 |-> <<Layers(TRUE)[i], "n_ctx_train">>]
           S == {a[i] : i \in 1..4} \cup {b[i] : i \in 1..4} \cup {c[1]} \cup {d[i] : i \in 1..4}
<1>1. a \in Seq(S) /\ b \in Seq(S) /\ d \in Seq(S)
  BY IsASeq
<1>2. c \in Seq(S)
  BY c[1] \in S
<1>3. Places = a \o b \o c \o d
  BY DEF Places
<1> HIDE DEF a, b, c, d, S
<1>4. a \o b \in Seq(S)
  BY <1>1
<1>5. (a \o b) \o c \in Seq(S)
  BY <1>2, <1>4
<1>6. ((a \o b) \o c) \o d \in Seq(S)
  BY <1>1, <1>5
<1> QED BY <1>3, <1>6, LenProperties

(* A window that is learned is one the provider stated.                    *)
LEMMA WindowTyped ==
  ASSUME NEW card, \A p \in DOMAIN card : card[p] \in Windows \cup {0}
  PROVE  WindowOfCard(card) \in Windows \cup {None}
<1> DEFINE hits == {i \in DOMAIN Places : Places[i] \in DOMAIN card /\ card[Places[i]] > 0}
<1>1. WindowOfCard(card) = IF hits = {} THEN None ELSE card[Places[Min(hits)]]
  BY DEF WindowOfCard
<1>2. hits \in SUBSET Nat
  BY PlacesAreCounted
<1>3. hits # {} => Min(hits) \in hits
  <2> HIDE DEF hits
  <2> QED BY <1>2, MinIsLeast
<1>4. hits # {} => Places[Min(hits)] \in DOMAIN card /\ card[Places[Min(hits)]] > 0
  BY <1>3
<1> HIDE DEF hits
<1>5. hits # {} => card[Places[Min(hits)]] \in Windows
  BY <1>4
<1> QED BY <1>1, <1>5

LEMMA LearnTyped ==
  ASSUME NEW old \in PartialMaps(Models, Windows), NEW cards \in Listings
  PROVE  Learn(old, cards) \in PartialMaps(Models, Windows)
<1> DEFINE D == {x \in DOMAIN cards : WindowOfCard(cards[x]) # None}
           taught == [m \in D |-> WindowOfCard(cards[m])]
<1>1. \A m \in D : m \in Models /\ WindowOfCard(cards[m]) \in Windows
  BY InputAssumption, WindowTyped
<1>2. taught \in [D -> Windows] /\ D \subseteq Models
  BY <1>1
<1>3. taught \in PartialMaps(Models, Windows)
  <2>1. DOMAIN taught = D
    OBVIOUS
  <2> HIDE DEF taught, D
  <2> QED BY <1>2, <2>1, PartialMapIs
<1>4. Learn(old, cards) = Spread(old, taught)
  BY DEF Learn
<1> HIDE DEF taught
<1> QED BY <1>3, <1>4, SpreadTyped

(* What a listing taught, put back into the document it was asked from.    *)
Taught(s, id, windows) ==
  [s EXCEPT !.providers = [i \in DOMAIN s.providers |->
     IF s.providers[i].id = id
     THEN [s.providers[i] EXCEPT !.learned = windows] ELSE s.providers[i]]]

LEMMA TaughtFit ==
  ASSUME NEW s, Fit(s), NEW id, NEW windows \in PartialMaps(Models, Windows)
  PROVE  Fit(Taught(s, id, windows))
<1> DEFINE t == Taught(s, id, windows)
           list == s.providers
           new == [i \in DOMAIN list |->
                     IF list[i].id = id THEN [list[i] EXCEPT !.learned = windows] ELSE list[i]]
<1>1. s \in StoredSettings /\ list \in Seq(Provider) /\ Keyed(list)
  BY DEF Fit, Sound, IsSettings, StoredSettings
<1>2. \A p \in Provider : LET q == [p EXCEPT !.learned = windows]
                          IN  q \in Provider /\ q.id = p.id /\ q.active = p.active
  BY DEF Provider
<1>3. DOMAIN list = 1..Len(list) /\ Len(list) \in Nat /\ \A i \in 1..Len(list) : list[i] \in Provider
  BY <1>1, ElementOfSeq
<1>4. /\ DOMAIN new = DOMAIN list
      /\ \A i \in DOMAIN list :
           new[i] \in Provider /\ new[i].id = list[i].id /\ new[i].active = list[i].active
  <2> HIDE DEF list
  <2> QED BY <1>2, <1>3
<1>0. ASSUME NEW i \in DOMAIN list, NEW w
      PROVE  [new[i] EXCEPT !.learned = w] = [list[i] EXCEPT !.learned = w]
  <2>1. \A p \in Provider : [[p EXCEPT !.learned = windows] EXCEPT !.learned = w] = [p EXCEPT !.learned = w]
    BY DEF Provider
  <2>2. new[i] = IF list[i].id = id THEN [list[i] EXCEPT !.learned = windows] ELSE list[i]
    BY <1>0
  <2>3. list[i] \in Provider
    BY <1>0, <1>3
  <2> HIDE DEF new, list
  <2>4. CASE list[i].id = id
    BY <2>1, <2>2, <2>3, <2>4
  <2>5. CASE list[i].id # id
    BY <2>2, <2>5
  <2> QED BY <2>4, <2>5
<1>5. t = [s EXCEPT !.providers = new]
  BY Zenon DEF Taught
<1> HIDE DEF t
<1>6. /\ t.providers = new /\ t.default = s.default /\ t.search = s.search
      /\ t.searchDefault = s.searchDefault /\ t.agents = s.agents /\ t.mcp = s.mcp
  <2> HIDE DEF new
  <2> QED BY <1>1, <1>5 DEF StoredSettings
<1>7. new \in Seq(Provider)
  <2>1. new = [i \in 1..Len(list) |-> new[i]]
    BY <1>3
  <2> HIDE DEF new
  <2> QED BY <1>3, <1>4, <2>1, IsASeq
<1> HIDE DEF new, list
<1>8. Keyed(new) /\ Ids(new) = Ids(list)
  BY <1>1, <1>4 DEF Keyed, Ids
<1>9. t \in StoredSettings
  BY <1>1, <1>5, <1>7 DEF StoredSettings
<1>10. Sound(t)
  <2>1. t.default # None => t.default \in Ids(t.providers)
    BY <1>6, <1>8 DEF Fit, Sound, list
  <2>2. IsSettings(t) /\ (t.searchDefault # None => t.searchDefault \in Ids(t.search))
    BY <1>6, <1>7, <1>8, <1>9 DEF Fit, Sound, IsSettings
  <2> QED BY <2>1, <2>2 DEF Sound
<1>11. CASE DefaultIsOn(s)
  <2> SUFFICES ASSUME s.default # None PROVE Find(new, s.default).active
    BY <1>6, <1>10 DEF Fit, DefaultIsOn, t
  <2>1. s.default \in Ids(list) /\ Find(list, s.default).active
    BY <1>11 DEF Fit, Sound, DefaultIsOn, list
  <2>2. PICK i \in DOMAIN list : list[i].id = s.default /\ Find(list, s.default) = list[i]
    BY <1>1, <2>1, FindIs
  <2>3. Find(new, s.default) = new[i]
    BY <1>4, <1>7, <1>8, <2>2, FindIs
  <2> QED BY <1>4, <2>1, <2>2, <2>3
<1>12. CASE AsGiven(s)
  <2>2. PICK given \in {Seeded} \cup {Normalize(raw) : raw \in OldRows \ {None}} :
          /\ s.default = given.default /\ DOMAIN list = DOMAIN given.providers
          /\ \A i \in DOMAIN list :
               [list[i] EXCEPT !.learned = given.providers[i].learned] = given.providers[i]
    BY <1>12 DEF AsGiven, list
  <2>3. \A i \in DOMAIN new :
          [new[i] EXCEPT !.learned = given.providers[i].learned] = given.providers[i]
    BY <1>0, <1>4, <2>2
  <2>4. DOMAIN new = DOMAIN given.providers
    BY <1>4, <2>2
  <2>1. AsGiven(t)
    BY <1>6, <2>2, <2>3, <2>4, Zenon DEF AsGiven
  <2> QED BY <1>10, <2>1 DEF Fit, t
<1> QED BY <1>11, <1>12 DEF Fit

(* Every document an operation holds is fit, and what it will do with it   *)
(* is among the inputs; a turn that is being pinned is a whole record.     *)
Underway(x) ==
  /\ x = [at |-> x.at, kind |-> x.kind, arg |-> x.arg, base |-> x.base]
  /\ x.at # "idle"
  /\ Fit(x.base)
  /\ x.kind = "patch" => x.arg \in Patches
  /\ x.at = "asking" => x.kind = "list" /\ x.arg \in Ids(x.base.providers)

ReadsOnly(t) ==
  t.mode # "agent" => \A tool \in t.tools : Tools[tool].mutates => t.mode \in Tools[tool].modes
IsTurn(t) ==
  /\ t = [mode |-> t.mode, tools |-> t.tools, prompt |-> t.prompt, selection |-> t.selection]
  /\ ReadsOnly(t)
  /\ \A i \in DOMAIN t.prompt : t.prompt[i][2] # None

OpInv == op = [o \in Ops |-> op[o]] /\ \A o \in Ops : op[o] = Idle \/ Underway(op[o])
TurnInv ==
  /\ turn = None \/ IsTurn(turn)
  /\ \A o \in Ops : op[o].at # "idle" /\ op[o].kind = "select" => IsTurn(turn)
SettingsInv == Fit(Stored) /\ OpInv /\ TurnInv

LEMMA LoadedUnderway ==
  ASSUME NEW kind, NEW arg, Fit(Stored), kind = "patch" => arg \in Patches
  PROVE  Underway(Loaded(kind, arg)) /\ Loaded(kind, arg).kind = kind
<1> DEFINE x == Loaded(kind, arg)
<1>1. Fit(Seeded) /\ Fit(WithSearch(Stored))
  BY SeededFit, WithSearchFit
<1>2. PICK b : Fit(b) /\ (\/ x = [at |-> "seeding", kind |-> kind, arg |-> arg, base |-> b]
                            \/ x = [at |-> "loaded", kind |-> kind, arg |-> arg, base |-> b])
  <2>1. CASE ~IsPristine(Stored) /\ WebSearch /\ Stored.search = << >>
    BY <1>1, <2>1, Zenon DEF Loaded
  <2>2. CASE ~IsPristine(Stored) /\ ~(WebSearch /\ Stored.search = << >>)
    BY <2>2, Zenon DEF Loaded
  <2>3. CASE IsPristine(Stored)
    BY <1>1, <2>3, Zenon DEF Loaded
  <2> QED BY <2>1, <2>2, <2>3
<1> HIDE DEF x
<1>3. x.kind = kind /\ x.arg = arg /\ x.base = b /\ x.at \in {"seeding", "loaded"}
      /\ x = [at |-> x.at, kind |-> x.kind, arg |-> x.arg, base |-> x.base]
  BY <1>2
<1> QED BY <1>2, <1>3 DEF Underway, x

LEMMA SettingsInit_Inv == ASSUME SettingsInit PROVE SettingsInv
<1>1. row \in OldRows /\ turn = None /\ op = [o \in Ops |-> Idle]
  BY DEF SettingsInit
<1>2. Fit(Stored)
  <2>1. CASE row = None
    BY <2>1, NormalizeNothing, EmptyFit DEF Stored
  <2>2. CASE row # None
    <3>1. Stored = Normalize(row) /\ row \in OldRows \ {None}
      BY <1>1, <2>2 DEF Stored
    <3>2. Sound(Stored)
      BY <3>1, SeedAssumption
    <3> QED BY <3>1, <3>2, GivenFit
  <2> QED BY <2>1, <2>2
<1>3. \A o \in Ops : op[o] = Idle
  BY <1>1
<1>4. Idle.at = "idle"
  BY DEF Idle
<1> QED BY <1>1, <1>2, <1>3, <1>4 DEF SettingsInv, OpInv, TurnInv

(* The row is left, or a fit document is put.                              *)
LEMMA StoredStays ==
  ASSUME Fit(Stored), row' = row \/ Fit(row')
  PROVE  Fit(Stored)'
<1>1. CASE row' = row
  <2>1. Stored' = Stored
    BY <1>1 DEF Stored
  <2> QED BY <2>1
<1>2. CASE Fit(row')
  <2>1. CASE row' = None
    <3>1. Stored' = Empty
      BY <2>1, NormalizeNothing DEF Stored
    <3> QED BY <3>1, EmptyFit
  <2>2. CASE row' # None
    <3>1. Stored' = Normalize(row')
      BY <2>2 DEF Stored
    <3>2. Normalize(row') = row'
      BY <1>2, NormalizeSettings DEF Fit, Sound
    <3> QED BY <1>2, <3>1, <3>2
  <2> QED BY <2>1, <2>2
<1> QED BY <1>1, <1>2

(* One operation moves on, or stops.                                       *)
LEMMA OpMoves ==
  ASSUME OpInv, TurnInv, NEW o \in Ops, NEW x, op' = [op EXCEPT ![o] = x],
         x = Idle \/ Underway(x),
         turn' = turn \/ IsTurn(turn'),
         x # Idle /\ x.kind = "select" => IsTurn(turn')
  PROVE  (OpInv /\ TurnInv)'
<1>1. op = [q \in Ops |-> op[q]] /\ \A q \in Ops : op[q] = Idle \/ Underway(op[q])
  BY DEF OpInv
<1>2. op'[o] = x /\ \A q \in Ops : q # o => op'[q] = op[q]
  BY <1>1
<1>3. op' = [q \in Ops |-> op'[q]]
  BY <1>1
<1>4. \A q \in Ops : op'[q] = Idle \/ Underway(op'[q])
  BY <1>1, <1>2
<1>5. turn' = None \/ IsTurn(turn')
  BY DEF TurnInv
<1>6. ASSUME NEW q \in Ops, op'[q].at # "idle", op'[q].kind = "select" PROVE IsTurn(turn')
  <2>1. CASE q = o
    <3>1. x # Idle
      BY <1>2, <1>6, <2>1 DEF Idle
    <3> QED BY <1>2, <1>6, <2>1, <3>1
  <2>2. CASE q # o
    BY <1>2, <1>6, <2>2 DEF TurnInv
  <2> QED BY <2>1, <2>2
<1> QED BY <1>3, <1>4, <1>5, <1>6 DEF OpInv, TurnInv

LEMMA BaseSound ==
  ASSUME OpInv, NEW o \in Ops, op[o].at # "idle"
  PROVE  Underway(op[o]) /\ Fit(op[o].base) /\ Sound(op[o].base)
<1>1. op[o] # Idle
  BY DEF Idle
<1> QED BY <1>1 DEF OpInv, Underway, Fit

LEMMA Load_Inv ==
  ASSUME SettingsInv, NEW o \in Ops, NEW kind, NEW arg, Load(o, kind, arg),
         kind = "patch" => arg \in Patches, kind # "select"
  PROVE  SettingsInv'
<1>1. op' = [op EXCEPT ![o] = Loaded(kind, arg)] /\ row' = row /\ turn' = turn
  BY DEF Load
<1>2. Underway(Loaded(kind, arg)) /\ Loaded(kind, arg).kind = kind
  BY LoadedUnderway DEF SettingsInv
<1>3. Fit(Stored)'
  BY <1>1, StoredStays DEF SettingsInv
<1>4. (OpInv /\ TurnInv)'
  <2> DEFINE x == Loaded(kind, arg)
  <2> HIDE DEF x
  <2>1. op' = [op EXCEPT ![o] = x] /\ Underway(x) /\ x.kind # "select"
    BY <1>1, <1>2 DEF x
  <2> QED BY <1>1, <2>1, OpMoves DEF SettingsInv
<1> QED BY <1>3, <1>4 DEF SettingsInv

LEMMA Done_Inv ==
  ASSUME SettingsInv, NEW o \in Ops, Done(o), row' = row \/ Fit(row'),
         turn' = turn \/ IsTurn(turn')
  PROVE  SettingsInv'
<1>1. op' = [op EXCEPT ![o] = Idle]
  BY DEF Done
<1>2. Fit(Stored)'
  BY StoredStays DEF SettingsInv
<1>3. (OpInv /\ TurnInv)'
  BY <1>1, OpMoves DEF SettingsInv
<1> QED BY <1>2, <1>3 DEF SettingsInv

LEMMA StartTurn_Inv ==
  ASSUME SettingsInv, NEW o \in Ops, NEW mode, NEW over, StartTurn(o, mode, over)
  PROVE  SettingsInv'
<1> DEFINE arg == [mode |-> mode, over |-> over, chosen |-> Sent(session, "provider", NoMap)]
           x == [at |-> "starting", kind |-> "turn", base |-> Empty, arg |-> arg]
<1>1. op' = [op EXCEPT ![o] = x] /\ row' = row /\ turn' = turn
  BY DEF StartTurn
<1>2. Underway(x) /\ x.kind # "select"
  <2> HIDE DEF arg
  <2> QED BY EmptyFit DEF Underway
<1> HIDE DEF x
<1>3. Fit(Stored)'
  BY <1>1, StoredStays DEF SettingsInv
<1>4. (OpInv /\ TurnInv)'
  BY <1>1, <1>2, OpMoves DEF SettingsInv
<1> QED BY <1>3, <1>4 DEF SettingsInv

LEMMA LoadForPin_Inv ==
  ASSUME SettingsInv, NEW o \in Ops, LoadForPin(o)
  PROVE  SettingsInv'
<1> DEFINE x == Loaded("pin", Spread(op[o].arg, [agent |-> Sent(session, "agent", None)]))
<1>1. op' = [op EXCEPT ![o] = x] /\ row' = row /\ turn' = turn
  BY DEF LoadForPin
<1>2. Underway(x) /\ x.kind = "pin"
  BY LoadedUnderway DEF SettingsInv
<1> HIDE DEF x
<1>3. Fit(Stored)'
  BY <1>1, StoredStays DEF SettingsInv
<1>4. (OpInv /\ TurnInv)'
  BY <1>1, <1>2, OpMoves DEF SettingsInv
<1> QED BY <1>3, <1>4 DEF SettingsInv

(* The seed is written, or the provider is asked: only `at` and `arg`      *)
(* change.                                                                 *)
LEMMA PutSeed_Inv ==
  ASSUME SettingsInv, NEW o \in Ops, PutSeed(o)
  PROVE  SettingsInv'
<1> DEFINE x == [op[o] EXCEPT !.at = "loaded"]
<1>1. op' = [op EXCEPT ![o] = x] /\ row' = op[o].base /\ turn' = turn /\ op[o].at = "seeding"
  BY DEF PutSeed
<1>2. Underway(op[o]) /\ Fit(op[o].base)
  BY <1>1, BaseSound DEF SettingsInv
<1>3. Underway(x) /\ x.kind = op[o].kind
  BY <1>2 DEF Underway
<1>4. x.kind = "select" => IsTurn(turn)
  BY <1>1, <1>3 DEF SettingsInv, TurnInv
<1> HIDE DEF x
<1>5. Fit(Stored)'
  BY <1>1, <1>2, StoredStays DEF SettingsInv
<1>6. (OpInv /\ TurnInv)'
  BY <1>1, <1>3, <1>4, OpMoves DEF SettingsInv
<1> QED BY <1>5, <1>6 DEF SettingsInv

LEMMA ListAsks_Inv ==
  ASSUME SettingsInv, NEW o \in Ops, NEW p, ListAsks(o, p)
  PROVE  SettingsInv'
<1> DEFINE x == [at |-> "asking", kind |-> "list", arg |-> p, base |-> op[o].base]
<1>1. /\ op' = [op EXCEPT ![o] = x] /\ row' = row /\ turn' = turn
      /\ op[o].at = "loaded" /\ p \in Ids(op[o].base.providers)
  BY DEF ListAsks, Loads
<1>2. Fit(op[o].base)
  BY <1>1, BaseSound DEF SettingsInv
<1>3. Underway(x) /\ x.kind = "list"
  BY <1>1, <1>2 DEF Underway
<1> HIDE DEF x
<1>4. Fit(Stored)'
  BY <1>1, StoredStays DEF SettingsInv
<1>5. (OpInv /\ TurnInv)'
  BY <1>1, <1>3, OpMoves DEF SettingsInv
<1> QED BY <1>4, <1>5 DEF SettingsInv

LEMMA Patch_Inv ==
  ASSUME SettingsInv, NEW o \in Ops, Patch(o)
  PROVE  SettingsInv'
<1>1. /\ op[o].at = "loaded" /\ op[o].kind = "patch" /\ ~PatchThrows(op[o].base, op[o].arg)
      /\ row' = ApplySettingsUpdate(op[o].base, op[o].arg) /\ Done(o) /\ turn' = turn
  BY DEF Patch, Loads, Leaves
<1>2. Fit(op[o].base) /\ op[o].arg \in Patches
  BY <1>1, BaseSound DEF SettingsInv, Underway
<1>3. Fit(row')
  BY <1>1, <1>2, ApplySound, InputAssumption DEF Fit
<1> QED BY <1>1, <1>3, Done_Inv

LEMMA Listed_Inv ==
  ASSUME SettingsInv, NEW o \in Ops, NEW cards \in Listings, Listed(o, cards)
  PROVE  SettingsInv'
<1> DEFINE s == op[o].base
           id == op[o].arg
           windows == Learn(Find(s.providers, id).learned, cards)
<1>1. /\ op[o].at = "asking" /\ Done(o) /\ turn' = turn
      /\ row' = row \/ row' = Taught(s, id, windows)
  BY DEF Listed, Leaves, Taught
<1>2. Fit(s) /\ id \in Ids(s.providers)
  BY <1>1, BaseSound DEF SettingsInv, Underway
<1>3. windows \in PartialMaps(Models, Windows)
  <2>1. s.providers \in Seq(Provider)
    BY <1>2 DEF Fit, Sound, IsSettings, StoredSettings
  <2>2. PICK i \in DOMAIN s.providers : Find(s.providers, id) = s.providers[i]
    BY <1>2, <2>1, FindIs
  <2>3. s.providers[i] \in Provider
    BY <2>1, <2>2, ElementOfSeq, DOMAIN s.providers = 1..Len(s.providers)
  <2>4. Find(s.providers, id).learned \in PartialMaps(Models, Windows)
    BY <2>2, <2>3 DEF Provider
  <2> QED BY <2>4, LearnTyped
<1> HIDE DEF s, windows, id
<1>4. row' = row \/ Fit(row')
  BY <1>1, <1>2, <1>3, TaughtFit
<1> QED BY <1>1, <1>4, Done_Inv

LEMMA PromptIsFull ==
  ASSUME NEW s, NEW mode, NEW agentId
  PROVE  \A i \in DOMAIN ComposePrompt(s, mode, agentId) : ComposePrompt(s, mode, agentId)[i][2] # None
<1>1. PICK a1, a2, a3, a4, a5, a6, a7, a8 :
        LET all == <<a1, a2, a3, a4, a5, a6, a7, a8>>
        IN  ComposePrompt(s, mode, agentId) = Filter(all, {section \in Range(all) : section[2] # None})
  BY Zenon DEF ComposePrompt
<1> DEFINE all == <<a1, a2, a3, a4, a5, a6, a7, a8>>
           S == {section \in Range(all) : section[2] # None}
<1>2. all \in Seq({a1, a2, a3, a4, a5, a6, a7, a8})
  OBVIOUS
<1>3. ComposePrompt(s, mode, agentId) = Filter(all, S)
  BY <1>1
<1>4. \A x \in S : x[2] # None
  OBVIOUS
<1> HIDE DEF all, S
<1>5. \A i \in DOMAIN Filter(all, S) : Filter(all, S)[i] \in S
  BY <1>2, FilterIs
<1> QED BY <1>3, <1>4, <1>5

LEMMA ToolsRead ==
  ASSUME NEW mode, mode # "agent", NEW tool \in ToolNamesFor(mode), Tools[tool].mutates
  PROVE  mode \in Tools[tool].modes
<1>1. /\ tool \in DOMAIN Tools
      /\ \/ mode \in Tools[tool].modes
         \/ Tools[tool].modes = {} /\ ~Tools[tool].mutates
         \/ tool \in GateTools \cup (IF mode = "plan" THEN {"propose_plan"} ELSE {})
  BY DEF ToolNamesFor, SelectTools
<1>2. tool \notin GateTools
  BY <1>1, PolicyAssumption
<1>3. "propose_plan" \in GateTools
  BY DEF GateTools
<1> QED BY <1>1, <1>2, <1>3

LEMMA PinTurn_Inv ==
  ASSUME SettingsInv, NEW o \in Ops, PinTurn(o)
  PROVE  SettingsInv'
<1> DEFINE a == op[o].arg
           x == Loaded("select", a)
           prompt == ComposePrompt(op[o].base, a.mode, a.agent)
<1>1. /\ op' = [op EXCEPT ![o] = x] /\ row' = row
      /\ turn' = [mode |-> a.mode, tools |-> ToolNamesFor(a.mode), prompt |-> prompt, selection |-> None]
  BY DEF PinTurn
<1>2. Underway(x)
  BY LoadedUnderway DEF SettingsInv
<1>3. \A i \in DOMAIN prompt : prompt[i][2] # None
  BY PromptIsFull
<1> HIDE DEF x, prompt, a
<1>4. turn'.mode = a.mode /\ turn'.tools = ToolNamesFor(a.mode) /\ turn'.prompt = prompt
  BY <1>1
<1>5. ReadsOnly(turn')
  BY <1>4, ToolsRead DEF ReadsOnly
<1>6. turn' = [mode |-> turn'.mode, tools |-> turn'.tools, prompt |-> turn'.prompt,
               selection |-> turn'.selection]
  BY <1>1
<1>7. IsTurn(turn')
  BY <1>3, <1>4, <1>5, <1>6 DEF IsTurn
<1>8. Fit(Stored)'
  BY <1>1, StoredStays DEF SettingsInv
<1>9. (OpInv /\ TurnInv)'
  BY <1>1, <1>2, <1>7, OpMoves DEF SettingsInv
<1> QED BY <1>8, <1>9 DEF SettingsInv

LEMMA SelectForTurn_Inv ==
  ASSUME SettingsInv, NEW o \in Ops, SelectForTurn(o)
  PROVE  SettingsInv'
<1> DEFINE pick == SelectProvider(op[o].base, op[o].arg.chosen, op[o].arg.over)
<1>1. /\ turn' = [turn EXCEPT !.selection = pick] /\ Done(o) /\ row' = row
      /\ op[o].at = "loaded" /\ op[o].kind = "select"
  BY DEF SelectForTurn, Loads
<1> HIDE DEF pick
<1>2. IsTurn(turn)
  BY <1>1 DEF SettingsInv, TurnInv
<1>3. /\ turn'.mode = turn.mode /\ turn'.tools = turn.tools /\ turn'.prompt = turn.prompt
      /\ turn' = [mode |-> turn'.mode, tools |-> turn'.tools, prompt |-> turn'.prompt,
                  selection |-> turn'.selection]
  BY <1>1, <1>2 DEF IsTurn
<1>4. IsTurn(turn')
  BY <1>2, <1>3 DEF IsTurn, ReadsOnly
<1> QED BY <1>1, <1>4, Done_Inv

LEMMA Restart_Inv ==
  ASSUME SettingsInv, Restart
  PROVE  SettingsInv'
<1>1. op' = [o \in Ops |-> Idle] /\ row' = row /\ turn' = turn
  BY DEF Restart
<1>2. Fit(Stored)'
  BY <1>1, StoredStays DEF SettingsInv
<1>3. \A o \in Ops : op'[o] = Idle /\ op'[o].at = "idle"
  BY <1>1 DEF Idle
<1>4. op' = [o \in Ops |-> op'[o]]
  BY <1>1
<1>5. turn' = None \/ IsTurn(turn')
  BY <1>1 DEF SettingsInv, TurnInv
<1> QED BY <1>2, <1>3, <1>4, <1>5 DEF SettingsInv, OpInv, TurnInv

LEMMA SettingsNext_Inv == ASSUME SettingsInv, [SettingsNext]_settingsVars PROVE SettingsInv'
<1>1. CASE UNCHANGED settingsVars
  <2>1. row' = row /\ op' = op /\ turn' = turn
    BY <1>1 DEF settingsVars
  <2>2. Fit(Stored)'
    BY <2>1, StoredStays DEF SettingsInv
  <2> QED BY <2>1, <2>2 DEF SettingsInv, OpInv, TurnInv
<1>2. CASE Restart
  BY <1>2, Restart_Inv
<1>3. ASSUME NEW o \in Ops, StartRead(o) PROVE SettingsInv'
  BY <1>3, Load_Inv DEF StartRead
<1>4. ASSUME NEW o \in Ops, StartList(o) PROVE SettingsInv'
  BY <1>4, Load_Inv DEF StartList
<1>5. ASSUME NEW o \in Ops, NEW u \in Patches, StartPatch(o, u) PROVE SettingsInv'
  BY <1>5, Load_Inv DEF StartPatch
<1>6. ASSUME NEW o \in Ops, PutSeed(o) PROVE SettingsInv'
  BY <1>6, PutSeed_Inv
<1>7. ASSUME NEW o \in Ops, Read(o) \/ PatchFails(o) \/ ListFails(o) \/ ChoiceRefused(o) PROVE SettingsInv'
  BY <1>7, Done_Inv DEF Read, PatchFails, ListFails, ChoiceRefused, Leaves
<1>8. ASSUME NEW o \in Ops, Patch(o) PROVE SettingsInv'
  BY <1>8, Patch_Inv
<1>9. ASSUME NEW o \in Ops, NEW p \in ProviderIds, ListAsks(o, p) PROVE SettingsInv'
  BY <1>9, ListAsks_Inv
<1>10. ASSUME NEW o \in Ops, NEW cards \in Listings, Listed(o, cards) PROVE SettingsInv'
  BY <1>10, Listed_Inv
<1>11. ASSUME NEW o \in Ops, NEW over, StartSetProvider(o, over) PROVE SettingsInv'
  BY <1>11, Load_Inv DEF StartSetProvider
<1>12. ASSUME NEW o \in Ops, NEW over, NEW m, StartTurn(o, m, over) PROVE SettingsInv'
  BY <1>12, StartTurn_Inv
<1>13. ASSUME NEW o \in Ops, NEW id, StartSetAgent(o, id) PROVE SettingsInv'
  BY <1>13, Load_Inv DEF StartSetAgent
<1>14. ASSUME NEW o \in Ops, SetProvider(o) \/ SetAgent(o) PROVE SettingsInv'
  BY <1>14, Done_Inv DEF SetProvider, SetAgent
<1>15. ASSUME NEW o \in Ops, LoadForPin(o) PROVE SettingsInv'
  BY <1>15, LoadForPin_Inv
<1>16. ASSUME NEW o \in Ops, PinTurn(o) PROVE SettingsInv'
  BY <1>16, PinTurn_Inv
<1>17. ASSUME NEW o \in Ops, SelectForTurn(o) PROVE SettingsInv'
  BY <1>17, SelectForTurn_Inv
<1> QED BY <1>1, <1>2, <1>3, <1>4, <1>5, <1>6, <1>7, <1>8, <1>9, <1>10, <1>11, <1>12, <1>13,
           <1>14, <1>15, <1>16, <1>17 DEF SettingsNext

THEOREM SettingsInvariant == SettingsSpec => []SettingsInv
<1>1. SettingsInit => SettingsInv
  BY SettingsInit_Inv
<1>2. SettingsInv /\ [SettingsNext]_settingsVars => SettingsInv'
  BY SettingsNext_Inv
<1> QED BY <1>1, <1>2, PTL DEF SettingsSpec

(* Whatever patches, seeds, listings and stale writes of whole documents   *)
(* came before, every document that is stored or held by an operation has  *)
(* its defaults among its entries and every id once; the default provider  *)
(* is switched on, but for one that was given switched off, while only     *)
(* listings have touched the profiles (core/settings-store.ts,             *)
(* applySettingsUpdate; core/harness.ts, loadStored).                      *)
THEOREM DefaultsAreThere == SettingsSpec => []DefaultsExist
<1>1. SettingsInv => DefaultsExist
  <2> SUFFICES ASSUME SettingsInv, NEW s \in Documents PROVE Fit(s)
    BY DEF DefaultsExist, Fit
  <2>1. CASE s = Stored
    BY <2>1 DEF SettingsInv
  <2>2. ASSUME NEW o \in Ops, op[o] # Idle, s = op[o].base PROVE Fit(s)
    BY <2>2 DEF SettingsInv, OpInv, Underway
  <2> QED BY <2>1, <2>2 DEF Documents
<1> QED BY <1>1, SettingsInvariant, PTL

(* Who was named is who is called, the request before the session.         *)
LEMMA SelectedIsNamed ==
  ASSUME NEW s, Sound(s), NEW chosen, NEW asked, NEW over \in {asked, chosen},
         "provider" \in DOMAIN over, over = chosen => "provider" \notin DOMAIN asked,
         SelectProvider(s, chosen, asked) # None
  PROVE  SelectProvider(s, chosen, asked).profile.id = over.provider
<1> DEFINE both == Spread(chosen, asked)
           p == Find(s.providers, Sent(both, "provider", s.default))
<1>1. "provider" \in DOMAIN both /\ both["provider"] = over["provider"]
  <2>1. CASE over = asked
    BY <2>1 DEF Spread
  <2>2. CASE over = chosen
    BY <2>2 DEF Spread
  <2> QED BY <2>1, <2>2
<1>2. Sent(both, "provider", s.default) = over.provider
  BY <1>1 DEF Sent
<1>3. s.providers \in Seq(Provider)
  BY DEF Sound, IsSettings, StoredSettings
<1>4. SelectProvider(s, chosen, asked) =
        IF p = None THEN None ELSE [profile |-> p, model |-> Sent(both, "model", p.model)]
  BY Zenon DEF SelectProvider
<1>5. p # None => \E i \in DOMAIN s.providers : s.providers[i].id = over.provider /\ p = s.providers[i]
  BY <1>2, <1>3, FindIs
<1> HIDE DEF p, both
<1> QED BY <1>4, <1>5

(* The tools of a turn in a reading mode change nothing unless they ask    *)
(* for that mode by name, no section of its prompt is empty, and the       *)
(* provider that was named is the one that is called, or none is           *)
(* (core/modes.ts selectTools, harness.ts composePrompt and                *)
(* resolveProviderSelection).                                              *)
THEOREM TurnsAreAsChosen == SettingsSpec => []TurnIsAsChosen
<1>1. SettingsInv => TurnIsAsChosen
  <2> SUFFICES ASSUME SettingsInv PROVE TurnIsAsChosen
    OBVIOUS
  <2>1. ASSUME turn # None
        PROVE  /\ turn.mode # "agent" =>
                    \A t \in turn.tools : Tools[t].mutates => turn.mode \in Tools[t].modes
               /\ \A i \in DOMAIN turn.prompt : turn.prompt[i][2] # None
    BY <2>1 DEF SettingsInv, TurnInv, IsTurn, ReadsOnly
  <2>2. ASSUME NEW o \in Ops, Loads(o, "select"),
               NEW over \in {op[o].arg.over, op[o].arg.chosen},
               "provider" \in DOMAIN over,
               over = op[o].arg.chosen => "provider" \notin DOMAIN op[o].arg.over,
               SelectProvider(op[o].base, op[o].arg.chosen, op[o].arg.over) # None
        PROVE  SelectProvider(op[o].base, op[o].arg.chosen, op[o].arg.over).profile.id = over.provider
    <3>1. op[o].at # "idle"
      BY <2>2 DEF Loads
    <3>2. Sound(op[o].base)
      BY <3>1, BaseSound DEF SettingsInv
    <3> QED BY <2>2, <3>2, SelectedIsNamed
  <2> QED BY <2>1, <2>2 DEF TurnIsAsChosen
<1> QED BY <1>1, SettingsInvariant, PTL

-----------------------------------------------------------------------------
(***************************************************************************)
(* The settings: what a patch leaves.                                      *)
(***************************************************************************)
(* The entries of a kind have the same fields.                             *)
LEMMA SameFields ==
  ASSUME NEW kind \in Kinds, NEW a \in Entries(kind), NEW b \in Entries(kind)
  PROVE  DOMAIN a = DOMAIN b
<1>1. CASE kind = "provider"
  BY <1>1 DEF Entries, Provider
<1>2. CASE kind = "agent"
  <2>1. Entries(kind) = Agent
    BY <1>2 DEF Entries
  <2> QED BY <2>1 DEF Agent
<1>3. CASE kind = "search"
  <2>1. Entries(kind) = SearchProvider
    BY <1>3 DEF Entries
  <2> QED BY <2>1 DEF SearchProvider
<1>4. CASE kind = "mcp"
  <2>1. Entries(kind) = McpServer
    BY <1>4 DEF Entries
  <2> QED BY <2>1 DEF McpServer
<1> QED BY <1>1, <1>2, <1>3, <1>4 DEF Kinds

(* Overrides that are stored have no null among them.                      *)
LEMMA CompactStored ==
  ASSUME NEW map \in PartialMaps(Models, Windows)
  PROVE  CompactOverrides(map) = map
<1>1. map \in [DOMAIN map -> Windows]
  BY PartialMapIs
<1>2. {x \in DOMAIN map : map[x] # None} = DOMAIN map
  BY <1>1, NoneAssumption
<1>3. CompactOverrides(map) = [m \in DOMAIN map |-> map[m]]
  BY <1>2 DEF CompactOverrides
<1> QED BY <1>1, <1>3

(* A field that a write leaves out is the one that was there.              *)
LEMMA FieldIsKept ==
  ASSUME NEW kind \in Kinds, NEW current \in Entries(kind), NEW w,
         NEW f \in DOMAIN current \cap MayBeLeftOut, f \notin DOMAIN w
  PROVE  Upsert(kind, current, w)[f] = current[f]
<1>1. current # None
  BY EntriesHaveIds
<1>2. \A d : Kept(w, f, current, d) = current[f]
  BY <1>1 DEF Kept, Sent
<1>3. CASE kind = "provider"
  <2>1. Upsert(kind, current, w) = UpsertProvider(current, w) /\ current \in Provider
    BY <1>3 DEF Upsert, Entries
  <2>2. f \in {"key", "learned", "overrides", "active"}
    BY <2>1 DEF Provider, MayBeLeftOut
  <2>3. CASE f = "overrides"
    <3>1. CompactOverrides(current.overrides) = current.overrides
      BY <2>1, CompactStored DEF Provider
    <3>2. UpsertProvider(current, w).overrides = CompactOverrides(Kept(w, "overrides", current, NoMap))
      BY DEF UpsertProvider
    <3>3. Kept(w, "overrides", current, NoMap) = current.overrides
      BY <1>2, <2>3
    <3> QED BY <2>1, <2>3, <3>1, <3>2, <3>3
  <2>4. /\ UpsertProvider(current, w).key = Kept(w, "key", current, None)
        /\ UpsertProvider(current, w).learned = Kept(w, "learned", current, NoMap)
        /\ UpsertProvider(current, w).active = Kept(w, "active", current, TRUE)
    BY DEF UpsertProvider
  <2>5. CASE f = "key"
    BY <1>2, <2>1, <2>4, <2>5
  <2>6. CASE f = "learned"
    BY <1>2, <2>1, <2>4, <2>6
  <2>7. CASE f = "active"
    BY <1>2, <2>1, <2>4, <2>7
  <2> QED BY <2>2, <2>3, <2>5, <2>6, <2>7
<1>4. CASE kind = "agent"
  <2>1. Upsert(kind, current, w) = UpsertAgent(current, w) /\ current \in Agent
    BY <1>4 DEF Upsert, Entries
  <2>2. f = "active"
    BY <2>1 DEF Agent, MayBeLeftOut
  <2>3. UpsertAgent(current, w).active = Kept(w, "active", current, TRUE)
    BY DEF UpsertAgent
  <2> QED BY <1>2, <2>1, <2>2, <2>3
<1>5. CASE kind = "search"
  <2>1. Upsert(kind, current, w) = UpsertSearch(current, w) /\ current \in SearchProvider
    BY <1>5 DEF Upsert, Entries
  <2>2. f \in {"url", "key"}
    BY <2>1 DEF SearchProvider, MayBeLeftOut
  <2>3. /\ UpsertSearch(current, w).url = Kept(w, "url", current, None)
        /\ UpsertSearch(current, w).key = Kept(w, "key", current, None)
    BY DEF UpsertSearch
  <2>4. CASE f = "url"
    BY <1>2, <2>1, <2>3, <2>4
  <2>5. CASE f = "key"
    BY <1>2, <2>1, <2>3, <2>5
  <2> QED BY <2>2, <2>4, <2>5
<1>6. CASE kind = "mcp"
  <2>1. Upsert(kind, current, w) = UpsertMcp(current, w) /\ current \in McpServer
    BY <1>6 DEF Upsert, Entries
  <2>2. f \in {"enabled", "permissions", "key"}
    BY <2>1 DEF McpServer, MayBeLeftOut
  <2>3. /\ UpsertMcp(current, w).enabled = Kept(w, "enabled", current, TRUE)
        /\ UpsertMcp(current, w).permissions = Kept(w, "permissions", current, DefaultPermissions)
        /\ UpsertMcp(current, w).key = Kept(w, "key", current, None)
    BY DEF UpsertMcp
  <2>4. CASE f = "enabled"
    BY <1>2, <2>1, <2>3, <2>4
  <2>5. CASE f = "permissions"
    BY <1>2, <2>1, <2>3, <2>5
  <2>6. CASE f = "key"
    BY <1>2, <2>1, <2>3, <2>6
  <2> QED BY <2>2, <2>4, <2>5, <2>6
<1> QED BY <1>3, <1>4, <1>5, <1>6 DEF Kinds

(* An entry that is not removed is there after the writes, with what it    *)
(* keeps of what it was.                                                   *)
LEMMA UpsertNamedKeeps ==
  ASSUME NEW kind \in Kinds, NEW list \in Seq(Entries(kind)), Keyed(list), NEW removed,
         NEW writes, AreWrites(kind, writes), NEW id \in Ids(list) \ removed
  PROVE  LET new    == UpsertNamed(kind, list, removed, writes)
             before == Find(list, id)
         IN  /\ id \in Ids(new)
             /\ \A f \in Keeps(before, {w \in Range(writes) : w.id = id}) : Find(new, id)[f] = before[f]
<1> DEFINE n == Len(writes)
           E == Entries(kind)
           before == Find(list, id)
           wrote == {w \in Range(writes) : w.id = id}
           Same(l) == \A x \in Keeps(before, wrote) : Find(l, id)[x] = before[x]
<1>1. writes \in Seq(Range(writes)) /\ n \in Nat /\ DOMAIN writes = 1..n
      /\ \A i \in 1..n : IsWrite(kind, writes[i]) /\ writes[i] \in Range(writes)
  <2>1. writes \in Seq(Range(writes)) /\ \A i \in DOMAIN writes : IsWrite(kind, writes[i])
    BY DEF AreWrites
  <2> QED BY <2>1, LenProperties
<1>2. PICK f : /\ f[0] = Filter(list, {e \in Range(list) : e.id \notin removed})
               /\ UpsertNamed(kind, list, removed, writes) = f[n]
               /\ \A i \in 1..n : Writes(f, kind, writes, i)
  BY <1>1, UpsertNamedIsLast
<1> DEFINE T == {i \in 0..n : f[i] \in Seq(E) /\ Keyed(f[i]) /\ id \in Ids(f[i]) /\ Same(f[i])}
<1>3. PICK k \in DOMAIN list : list[k].id = id /\ before = list[k] /\ before \in E
  <2>1. PICK k \in DOMAIN list : list[k].id = id /\ before = list[k]
    BY FindIs
  <2> QED BY <2>1, ElementOfSeq, DOMAIN list = 1..Len(list)
<1>4. 0 \in T
  <2> DEFINE S == {e \in Range(list) : e.id \notin removed}
  <2>1. list[k] \in S
    <3>1. list[k] \in Range(list)
      BY Zenon DEF Range
    <3> QED BY <1>3, <3>1
  <2>0. f[0] = Filter(list, S)
    BY <1>2
  <2> HIDE DEF S, before, E
  <2>2. f[0] \in Seq(E) /\ Keyed(f[0]) /\ \E x \in DOMAIN f[0] : f[0][x] = list[k]
    BY <2>0, <2>1, FilterIs DEF E
  <2>3. PICK x \in DOMAIN f[0] : f[0][x] = list[k]
    BY <2>2
  <2>4. id \in Ids(f[0]) /\ Find(f[0], id) = before
    BY <1>3, <2>2, <2>3, FindIs DEF Ids
  <2> QED BY <1>1, <2>2, <2>4
<1>5. ASSUME NEW i \in 1..n, i - 1 \in T PROVE i \in T
  <2> DEFINE l == f[i - 1]
             w == writes[i]
             entry == Upsert(kind, Find(l, w.id), w)
  <2>0. Same(l)
    BY <1>5
  <2>1. l \in Seq(E) /\ Keyed(l) /\ id \in Ids(l)
    BY <1>5
  <2>2. /\ entry \in E /\ entry.id = w.id /\ w \in Range(writes)
        /\ w.id \in Ids(l) => Find(l, w.id) \in E
    BY <1>1, <2>1, WriteIs
  <2>3. f[i] = Put(l, entry)
    BY <1>2 DEF Writes
  <2>4. ASSUME w.id = id, NEW x \in Keeps(before, wrote) PROVE entry[x] = before[x]
    <3>1. w \in wrote
      BY <2>2, <2>4
    <3>2. x \in DOMAIN before \cap MayBeLeftOut /\ x \notin DOMAIN w
      <4> HIDE DEF wrote, w, before
      <4> QED BY <2>4, <3>1 DEF Keeps
    <3>3. Find(l, id) \in E /\ x \in DOMAIN Find(l, id)
      <4>1. Find(l, id) \in E
        BY <2>1, <2>2, <2>4
      <4> HIDE DEF before, l
      <4> QED BY <1>3, <3>2, <4>1, SameFields DEF E
    <3>4. entry[x] = Find(l, id)[x]
      BY <2>4, <3>2, <3>3, FieldIsKept
    <3>5. Find(l, id)[x] = before[x]
      BY <2>0, <2>4
    <3> QED BY <3>4, <3>5
  <2> HIDE DEF entry, E, before, l, w, wrote
  <2>5. /\ f[i] \in Seq(E) /\ Keyed(f[i]) /\ Ids(f[i]) = Ids(l) \cup {w.id}
        /\ Find(f[i], w.id) = entry /\ (id # w.id => Find(f[i], id) = Find(l, id))
    <3>1. entry \in E
      BY <2>2
    <3>2. l \in Seq(E)
      BY <2>1
    <3>3. Keyed(l)
      BY <2>1
    <3>4. /\ Put(l, entry) \in Seq(E) /\ Keyed(Put(l, entry))
          /\ Ids(Put(l, entry)) = Ids(l) \cup {entry.id}
          /\ Find(Put(l, entry), entry.id) = entry
          /\ \A x : x # entry.id => Find(Put(l, entry), x) = Find(l, x)
      <4> HIDE DEF Same
      <4> QED BY ONLY <3>1, <3>2, <3>3, PutIs
    <3>5. entry.id = w.id
      BY <2>2
    <3> HIDE DEF Same
    <3> QED BY <2>3, <3>4, <3>5
  <2>6. Same(f[i])
    <3>1. CASE w.id = id
      BY <2>4, <2>5, <3>1
    <3>2. CASE w.id # id
      BY <2>0, <2>5, <3>2
    <3> QED BY <3>1, <3>2
  <2> HIDE DEF Same
  <2> QED BY <2>1, <2>5, <2>6
<1>6. n \in T
  <2>1. \A i \in 1..n : i - 1 \in T => i \in T
    BY <1>5
  <2>2. n \in Nat
    BY <1>1
  <2> HIDE DEF n, T
  <2>3. \A i \in 0..n : i \in T
    BY <1>4, <2>1, <2>2, CountUp
  <2> QED BY <2>2, <2>3
<1> HIDE DEF n, T, E
<1>7. id \in Ids(f[n]) /\ Same(f[n])
  BY <1>6 DEF T
<1> QED BY <1>2, <1>7

(* The ids afterwards are those that were not removed and those written.   *)
LEMMA UpsertNamedIds ==
  ASSUME NEW kind \in Kinds, NEW list \in Seq(Entries(kind)), Keyed(list), NEW removed,
         NEW writes, AreWrites(kind, writes)
  PROVE  Ids(UpsertNamed(kind, list, removed, writes)) = (Ids(list) \ removed) \cup {w.id : w \in Range(writes)}
<1> DEFINE n == Len(writes)
           E == Entries(kind)
           Named(i) == {writes[j].id : j \in 1..i}
<1>1. writes \in Seq(Range(writes)) /\ n \in Nat /\ DOMAIN writes = 1..n
      /\ \A i \in 1..n : IsWrite(kind, writes[i])
  <2>1. writes \in Seq(Range(writes)) /\ \A i \in DOMAIN writes : IsWrite(kind, writes[i])
    BY DEF AreWrites
  <2> QED BY <2>1, LenProperties
<1>2. PICK f : /\ f[0] = Filter(list, {e \in Range(list) : e.id \notin removed})
               /\ UpsertNamed(kind, list, removed, writes) = f[n]
               /\ \A i \in 1..n : Writes(f, kind, writes, i)
  BY <1>1, UpsertNamedIsLast
<1> DEFINE T == {i \in 0..n : f[i] \in Seq(E) /\ Keyed(f[i]) /\ Ids(f[i]) = (Ids(list) \ removed) \cup Named(i)}
<1>3. 0 \in T
  <2> DEFINE S == {e \in Range(list) : e.id \notin removed}
  <2>0. f[0] = Filter(list, S)
    BY <1>2
  <2>1. \A k \in DOMAIN list : list[k] \in S <=> list[k].id \notin removed
    <3>1. \A k \in DOMAIN list : list[k] \in Range(list)
      BY Zenon DEF Range
    <3> QED BY <3>1
  <2> HIDE DEF S, E
  <2>2. /\ f[0] \in Seq(E) /\ Keyed(f[0])
        /\ \A x \in DOMAIN f[0] : f[0][x] \in S /\ \E k \in DOMAIN list : f[0][x] = list[k]
        /\ \A k \in DOMAIN list : list[k] \in S => \E x \in DOMAIN f[0] : f[0][x] = list[k]
    BY <2>0, FilterIs DEF E
  <2>3. Ids(f[0]) \subseteq Ids(list) \ removed
    BY <2>1, <2>2 DEF Ids
  <2>4. Ids(list) \ removed \subseteq Ids(f[0])
    BY <2>1, <2>2 DEF Ids
  <2>5. Named(0) = {}
    OBVIOUS
  <2> HIDE DEF Named
  <2> QED BY <1>1, <2>2, <2>3, <2>4, <2>5
<1>4. ASSUME NEW i \in 1..n, i - 1 \in T PROVE i \in T
  <2> DEFINE l == f[i - 1]
             w == writes[i]
             entry == Upsert(kind, Find(l, w.id), w)
  <2>1. l \in Seq(E) /\ Keyed(l) /\ Ids(l) = (Ids(list) \ removed) \cup Named(i - 1)
    BY <1>4
  <2>2. entry \in E /\ entry.id = w.id
    BY <1>1, <2>1, WriteIs
  <2>3. f[i] = Put(l, entry)
    BY <1>2 DEF Writes
  <2>4. Named(i) = Named(i - 1) \cup {w.id}
    <3>1. 1..i = (1..(i - 1)) \cup {i}
      BY <1>1
    <3> QED BY <3>1
  <2> HIDE DEF entry, E, l, w, Named
  <2>5. f[i] \in Seq(E) /\ Keyed(f[i]) /\ Ids(f[i]) = Ids(l) \cup {w.id}
    BY <2>1, <2>2, <2>3, PutIs
  <2> QED BY <2>1, <2>4, <2>5
<1>5. n \in T
  <2>1. \A i \in 1..n : i - 1 \in T => i \in T
    BY <1>4
  <2>2. n \in Nat
    BY <1>1
  <2> HIDE DEF n, T
  <2>3. \A i \in 0..n : i \in T
    BY <1>3, <2>1, <2>2, CountUp
  <2> QED BY <2>2, <2>3
<1>6. Named(n) = {w.id : w \in Range(writes)}
  <2>1. Range(writes) = {writes[j] : j \in 1..n}
    BY <1>1, Zenon DEF Range
  <2> QED BY <2>1
<1> HIDE DEF n, T, E, Named
<1> QED BY <1>2, <1>5, <1>6 DEF T

LEMMA SpreadKeeps ==
  ASSUME NEW old, NEW given
  PROVE  MapKept(old, Spread(old, given), given)
BY DEF MapKept, Spread

LEMMA ListIsKept ==
  ASSUME NEW kind \in Kinds, NEW list \in Seq(Entries(kind)), Keyed(list), NEW removed,
         NEW writes, AreWrites(kind, writes)
  PROVE  ListKept(list, UpsertNamed(kind, list, removed, writes), removed, writes, None)
<1> DEFINE new == UpsertNamed(kind, list, removed, writes)
<1>1. Ids(new) = (Ids(list) \ removed) \cup {w.id : w \in Range(writes)}
  BY UpsertNamedIds
<1>2. ASSUME NEW id \in Ids(list) \ removed,
             NEW f \in Keeps(Find(list, id), {w \in Range(writes) : w.id = id})
      PROVE  Find(new, id)[f] = IF f = "active" /\ id = None THEN TRUE ELSE Find(list, id)[f]
  <2>1. Find(new, id)[f] = Find(list, id)[f]
    BY <1>2, UpsertNamedKeeps
  <2>2. id # None
    <3>1. PICK k \in DOMAIN list : list[k].id = id
      BY <1>2 DEF Ids
    <3>2. list[k] \in Entries(kind)
      BY <3>1, ElementOfSeq, DOMAIN list = 1..Len(list)
    <3> QED BY <3>1, <3>2, EntriesHaveIds
  <2> HIDE DEF new
  <2> QED BY <2>1, <2>2
<1> HIDE DEF new
<1>3. ListKept(list, new, removed, writes, None)
  BY <1>1, <1>2, Zenon DEF ListKept
<1> QED BY <1>3 DEF new

LEMMA ProvidersAreKept ==
  ASSUME NEW list \in Seq(Provider), Keyed(list), NEW removed,
         NEW writes, AreWrites("provider", writes), NEW u
  PROVE  ListKept(list, Activated(u, UpsertNamed("provider", list, removed, writes)),
                  removed, writes, Sent(u, "default", None))
<1> DEFINE plain == UpsertNamed("provider", list, removed, writes)
           new == Activated(u, plain)
           chosen == Sent(u, "default", None)
<1>1. "provider" \in Kinds /\ Entries("provider") = Provider
  BY DEF Kinds, Entries
<1>2. plain \in Seq(Provider) /\ Keyed(plain)
  BY <1>1, UpsertNamedTyped
<1>3. /\ new \in Seq(Provider) /\ Keyed(new) /\ DOMAIN new = DOMAIN plain /\ Ids(new) = Ids(plain)
      /\ \A i \in DOMAIN plain : new[i].id = plain[i].id
  BY <1>2, ActivatedIs
<1>4. \A i \in DOMAIN plain :
        new[i] = IF chosen = plain[i].id THEN [plain[i] EXCEPT !.active = TRUE] ELSE plain[i]
  BY Zenon DEF Activated
<1>5. Ids(plain) = (Ids(list) \ removed) \cup {w.id : w \in Range(writes)}
  BY <1>1, UpsertNamedIds
<1> HIDE DEF chosen
<1>6. ASSUME NEW id \in Ids(list) \ removed,
             NEW f \in Keeps(Find(list, id), {w \in Range(writes) : w.id = id})
      PROVE  Find(new, id)[f] = IF f = "active" /\ id = chosen THEN TRUE ELSE Find(list, id)[f]
  <2>1. id \in Ids(plain) /\ Find(plain, id)[f] = Find(list, id)[f]
    BY <1>1, <1>6, UpsertNamedKeeps
  <2> HIDE DEF new, plain
  <2>2. PICK k \in DOMAIN plain : plain[k].id = id /\ Find(plain, id) = plain[k]
    BY <1>2, <2>1, FindIs
  <2>3. Find(new, id) = new[k]
    BY <1>3, <2>2, FindIs
  <2>4. plain[k] \in Provider /\ Find(list, id) \in Provider
    <3>1. PICK j \in DOMAIN list : Find(list, id) = list[j]
      BY <1>6, FindIs
    <3> QED BY <1>2, <2>2, <3>1, ElementOfSeq, DOMAIN plain = 1..Len(plain), DOMAIN list = 1..Len(list)
  <2>5. f \in DOMAIN plain[k]
    <3>1. f \in DOMAIN Find(list, id)
      BY <1>6 DEF Keeps
    <3> QED BY <1>1, <2>4, <3>1, SameFields
  <2>6. [plain[k] EXCEPT !.active = TRUE][f] = IF f = "active" THEN TRUE ELSE plain[k][f]
    BY <2>4, <2>5 DEF Provider
  <2>7. CASE id = chosen
    BY <1>4, <2>1, <2>2, <2>3, <2>6, <2>7
  <2>8. CASE id # chosen
    BY <1>4, <2>1, <2>2, <2>3, <2>8
  <2> QED BY <2>7, <2>8
<1> HIDE DEF new, plain
<1>7. ListKept(list, new, removed, writes, chosen)
  BY <1>3, <1>5, <1>6, Zenon DEF ListKept
<1> QED BY <1>7 DEF new, plain, chosen

(* Where nobody is switched on there is no first.                          *)
LEMMA NoneActive ==
  ASSUME NEW list \in Seq(Provider), FirstActive(list) = None, NEW i \in DOMAIN list
  PROVE  ~list[i].active
<1> DEFINE hits == {j \in DOMAIN list : list[j].active}
<1>1. hits \in SUBSET Nat
  BY DOMAIN list = 1..Len(list), Len(list) \in Nat
<1>2. hits # {} => Min(hits) \in hits
  <2> HIDE DEF hits
  <2> QED BY <1>1, MinIsLeast
<1>3. hits # {} => Min(hits) \in DOMAIN list /\ FirstActive(list) = list[Min(hits)].id
  BY <1>2 DEF FirstActive
<1> HIDE DEF hits
<1>4. \A j \in DOMAIN list : list[j].id # None
  <2>1. "provider" \in Kinds /\ Entries("provider") = Provider
    BY DEF Kinds, Entries
  <2> QED BY <2>1, EntriesHaveIds, ElementOfSeq, DOMAIN list = 1..Len(list)
<1>5. hits = {}
  BY <1>3, <1>4
<1> QED BY <1>5 DEF hits

(* Where the default of the providers goes.                                *)
LEMMA DefaultGoes ==
  ASSUME NEW s, Sound(s), NEW u, NEW plain \in Seq(Provider), Keyed(plain),
         Sent(u, "default", None) \in Ids(plain) \cup {None}
  PROVE  LET list == Activated(u, plain)
         IN  NextDefault(WantedDefault(s, u, plain), list) =
               IF "default" \in DOMAIN u THEN u.default
               ELSE IF s.default \in Ids(list) /\ Find(list, s.default).active
                    THEN s.default ELSE FirstActive(list)
<1> DEFINE list == Activated(u, plain)
<1>1. /\ list \in Seq(Provider) /\ Keyed(list) /\ Ids(list) = Ids(plain) /\ DOMAIN list = DOMAIN plain
      /\ \A i \in DOMAIN plain : list[i].id = plain[i].id
      /\ \A i \in DOMAIN plain : Sent(u, "default", None) # plain[i].id => list[i] = plain[i]
  BY ActivatedIs
<1>2. \A i \in DOMAIN plain : plain[i] \in Provider /\ plain[i].id # None
  <2>1. "provider" \in Kinds /\ Entries("provider") = Provider
    BY DEF Kinds, Entries
  <2> QED BY <2>1, EntriesHaveIds, ElementOfSeq, DOMAIN plain = 1..Len(plain)
<1>3. ASSUME "default" \in DOMAIN u
      PROVE  NextDefault(WantedDefault(s, u, plain), list) = u.default
  <2>1. Sent(u, "default", None) = u.default /\ WantedDefault(s, u, plain) = u.default
    BY <1>3 DEF Sent, WantedDefault
  <2>2. ASSUME u.default # None PROVE Find(list, u.default).active
    <3>1. PICK i \in DOMAIN plain : plain[i].id = u.default
      BY <2>1, <2>2 DEF Ids
    <3>2. list[i] = [plain[i] EXCEPT !.active = TRUE]
      BY <2>1, <3>1 DEF Activated
    <3>3. list[i].active
      BY <1>2, <3>1, <3>2 DEF Provider
    <3> HIDE DEF list
    <3>4. Find(list, u.default) = list[i]
      BY <1>1, <3>1, FindIs
    <3> QED BY <3>3, <3>4
  <2> HIDE DEF list
  <2>3. NextDefault(u.default, list) = u.default
    BY <2>2, Zenon DEF NextDefault
  <2> QED BY <2>1, <2>3
<1>4. ASSUME "default" \notin DOMAIN u
      PROVE  NextDefault(WantedDefault(s, u, plain), list) =
               IF s.default \in Ids(list) /\ Find(list, s.default).active
               THEN s.default ELSE FirstActive(list)
  <2>1. Sent(u, "default", None) = None
    BY <1>4 DEF Sent
  <2>2. list = plain
    <3>1. \A i \in DOMAIN plain : list[i] = plain[i]
      BY <1>1, <1>2, <2>1
    <3> HIDE DEF list
    <3>2. list = [i \in 1..Len(list) |-> list[i]] /\ plain = [i \in 1..Len(plain) |-> plain[i]]
      BY <1>1
    <3> QED BY <1>1, <3>1, <3>2, DOMAIN list = 1..Len(list), DOMAIN plain = 1..Len(plain)
  <2>3. None \notin Ids(plain)
    BY <1>2 DEF Ids
  <2>4. \A x : NextDefault(x, plain) = FirstActive(plain) \/ NextDefault(x, plain) = x
    BY Zenon DEF NextDefault
  <2>5. CASE s.default \in Ids(plain)
    <3>1. WantedDefault(s, u, plain) = s.default /\ s.default # None
      BY <1>4, <2>3, <2>5 DEF WantedDefault
    <3> HIDE DEF list
    <3> QED BY <2>2, <2>5, <3>1, Zenon DEF NextDefault
  <2>6. CASE s.default \notin Ids(plain)
    <3>1. NextDefault(WantedDefault(s, u, plain), plain) = FirstActive(plain)
      <4>1. CASE s.default # None \/ FirstActive(plain) # None
        <5>1. WantedDefault(s, u, plain) = FirstActive(plain)
          BY <1>4, <2>6, <4>1 DEF WantedDefault
        <5> QED BY <2>4, <5>1
      <4>2. CASE s.default = None /\ FirstActive(plain) = None
        <5>1. WantedDefault(s, u, plain) = FirstId(plain)
          BY <1>4, <4>2 DEF WantedDefault
        <5>2. CASE FirstId(plain) = None
          BY <2>4, <4>2, <5>1, <5>2
        <5>3. CASE FirstId(plain) # None
          <6>1. FirstId(plain) \in Ids(plain)
            BY <5>3, FirstIdIs
          <6>2. PICK i \in DOMAIN plain : Find(plain, FirstId(plain)) = plain[i]
            BY <6>1, FindIs
          <6>3. ~plain[i].active
            BY <4>2, NoneActive
          <6> QED BY <5>1, <5>3, <6>2, <6>3, Zenon DEF NextDefault
        <5> QED BY <5>2, <5>3
      <4> QED BY <4>1, <4>2
    <3> HIDE DEF list
    <3> QED BY <2>2, <2>6, <3>1
  <2> QED BY <2>5, <2>6
<1> QED BY <1>3, <1>4

LEMMA RestIsKept ==
  ASSUME NEW s, Sound(s), NEW u, IsPatch(u), ~PatchThrows(s, u)
  PROVE  KeepsTheRest(s, ApplySettingsUpdate(s, u), u)
<1> DEFINE t == ApplySettingsUpdate(s, u)
<1>1. /\ t.providers = Activated(u, UpsertNamed("provider", s.providers, Sent(u, "removeProviders", {}),
                                                Sent(u, "providers", << >>)))
      /\ t.agents = UpsertNamed("agent", s.agents, Sent(u, "removeAgents", {}), Sent(u, "agents", << >>))
      /\ t.search = UpsertNamed("search", s.search, Sent(u, "removeSearch", {}), Sent(u, "search", << >>))
      /\ t.mcp = UpsertNamed("mcp", s.mcp, Sent(u, "removeMcp", {}), Sent(u, "mcp", << >>))
      /\ t.approvals = Spread(s.approvals, Sent(u, "approvals", NoMap))
      /\ t.perMode = Spread(s.perMode, Sent(u, "perMode", NoMap))
      /\ t.compaction = Spread(s.compaction, Sent(u, "compaction", NoMap))
  BY DEF ApplySettingsUpdate, PatchedProviders, PatchedSearch
<1> HIDE DEF t
<1>2. /\ s.providers \in Seq(Provider) /\ Keyed(s.providers)
      /\ s.agents \in Seq(Agent) /\ Keyed(s.agents)
      /\ s.search \in Seq(SearchProvider) /\ Keyed(s.search)
      /\ s.mcp \in Seq(McpServer) /\ Keyed(s.mcp)
  BY DEF Sound, IsSettings, StoredSettings
<1>3. /\ AreWrites("provider", Sent(u, "providers", << >>)) /\ AreWrites("agent", Sent(u, "agents", << >>))
      /\ AreWrites("search", Sent(u, "search", << >>)) /\ AreWrites("mcp", Sent(u, "mcp", << >>))
  BY DEF IsPatch
<1>4. /\ "agent" \in Kinds /\ Entries("agent") = Agent
      /\ "search" \in Kinds /\ Entries("search") = SearchProvider
      /\ "mcp" \in Kinds /\ Entries("mcp") = McpServer
  BY DEF Kinds, Entries
<1>5. ListKept(s.providers, t.providers, Sent(u, "removeProviders", {}), Sent(u, "providers", << >>),
               Sent(u, "default", None))
  BY <1>1, <1>2, <1>3, ProvidersAreKept
<1>6. /\ ListKept(s.agents, t.agents, Sent(u, "removeAgents", {}), Sent(u, "agents", << >>), None)
      /\ ListKept(s.search, t.search, Sent(u, "removeSearch", {}), Sent(u, "search", << >>), None)
      /\ ListKept(s.mcp, t.mcp, Sent(u, "removeMcp", {}), Sent(u, "mcp", << >>), None)
  BY <1>1, <1>2, <1>3, <1>4, ListIsKept
<1>7. /\ MapKept(s.approvals, t.approvals, Sent(u, "approvals", NoMap))
      /\ MapKept(s.perMode, t.perMode, Sent(u, "perMode", NoMap))
      /\ MapKept(s.compaction, t.compaction, Sent(u, "compaction", NoMap))
  BY <1>1, SpreadKeeps
<1>8. DefaultsKept(s, t, u)
  <2> DEFINE plain == PatchedProviders(s, u)
             search == PatchedSearch(s, u)
  <2>1. /\ plain \in Seq(Provider) /\ Keyed(plain)
        /\ Sent(u, "default", None) \in Ids(plain) \cup {None}
    BY PatchedTyped DEF Sound, PatchThrows
  <2>2. /\ t.providers = Activated(u, plain)
        /\ t.default = NextDefault(WantedDefault(s, u, plain), Activated(u, plain))
        /\ t.search = search /\ t.searchDefault = NextSearchDefault(s, u, search)
    BY DEF ApplySettingsUpdate, t
  <2> HIDE DEF plain, search
  <2>3. t.default = IF "default" \in DOMAIN u THEN u.default
                    ELSE IF s.default \in Ids(t.providers) /\ Find(t.providers, s.default).active
                         THEN s.default ELSE FirstActive(t.providers)
    BY <2>1, <2>2, DefaultGoes
  <2>4. t.searchDefault = IF "searchDefault" \in DOMAIN u THEN u.searchDefault
                          ELSE IF s.searchDefault \in Ids(t.search)
                               THEN s.searchDefault ELSE FirstId(t.search)
    BY <2>2, Zenon DEF NextSearchDefault
  <2> QED BY <2>3, <2>4, Zenon DEF DefaultsKept
<1>9. \A f \in {"global", "askUser", "maxRounds"} \ DOMAIN u : t[f] = s[f]
  <2>1. /\ t.global = Sent(u, "global", s.global) /\ t.askUser = Sent(u, "askUser", s.askUser)
        /\ t.maxRounds = Sent(u, "maxRounds", s.maxRounds)
    BY DEF ApplySettingsUpdate, t
  <2> QED BY <2>1 DEF Sent
<1> QED BY <1>5, <1>6, <1>7, <1>8, <1>9, Zenon DEF KeepsTheRest, t

(* Only the patch itself writes the row on its way to being done.          *)
LEMMA PatchedIsPatch ==
  ASSUME SettingsInv, SettingsNext, NEW o \in Ops, Patched(o)
  PROVE  Patch(o)
<1>1. op[o].at = "loaded" /\ op[o].kind = "patch" /\ op'[o] = Idle /\ row' # row
  BY DEF Patched, Loads
<1>2. op[o] # Idle /\ op'[o] # op[o]
  BY <1>1 DEF Idle
<1>3. op = [q \in Ops |-> op[q]]
  BY DEF SettingsInv, OpInv
<1>4. \A q, x : op' = [op EXCEPT ![q] = x] => q = o
  BY <1>2, <1>3
<1>5. ASSUME NEW q \in Ops, PutSeed(q) PROVE FALSE
  <2>1. op' = [op EXCEPT ![q] = [op[q] EXCEPT !.at = "loaded"]] /\ op[q].at = "seeding"
    BY <1>5 DEF PutSeed
  <2> QED BY <1>1, <1>4, <2>1
<1>6. ASSUME NEW q \in Ops, NEW cards \in Listings, Listed(q, cards) PROVE FALSE
  <2>1. op' = [op EXCEPT ![q] = Idle] /\ op[q].at = "asking"
    BY <1>6 DEF Listed, Done
  <2> QED BY <1>1, <1>4, <2>1
<1>7. ASSUME NEW q \in Ops, Patch(q) PROVE q = o
  BY <1>4, <1>7 DEF Patch, Done
<1>8. ~Restart
  BY <1>1 DEF Restart
<1>9. ASSUME NEW q \in Ops, \/ StartRead(q) \/ StartList(q) \/ \E u \in Patches : StartPatch(q, u)
                            \/ \E over \in MenuChoices(Sent(session, "provider", NoMap)) : StartSetProvider(q, over)
                            \/ \E id \in AgentIds \cup {None} : StartSetAgent(q, id)
      PROVE FALSE
  BY <1>1, <1>9 DEF StartRead, StartList, StartPatch, StartSetProvider, StartSetAgent, Load
<1>10. ASSUME NEW q \in Ops, \/ \E over \in Overrides, m \in ModeIds : StartTurn(q, m, over)
                             \/ LoadForPin(q) \/ PinTurn(q) \/ SelectForTurn(q) \/ SetProvider(q)
                             \/ SetAgent(q) \/ \E p \in ProviderIds : ListAsks(q, p)
      PROVE FALSE
  BY <1>1, <1>10, Zenon DEF StartTurn, LoadForPin, PinTurn, SelectForTurn, SetProvider, SetAgent, ListAsks
<1>11. ASSUME NEW q \in Ops, Read(q) \/ PatchFails(q) \/ ListFails(q) \/ ChoiceRefused(q) PROVE FALSE
  BY <1>1, <1>11 DEF Read, PatchFails, ListFails, ChoiceRefused
<1> QED BY <1>5, <1>6, <1>7, <1>8, <1>9, <1>10, <1>11, Zenon DEF SettingsNext

(* A patch that is put, late or in time, is the document it loaded with    *)
(* what it names changed and the default moved where it has to: entries it *)
(* does not write or remove, the fields it does not send of those it       *)
(* writes, the scalars and the fields of maps it does not hold stay        *)
(* (core/settings-store.ts, applySettingsUpdate over upsertNamed).         *)
THEOREM PatchesKeepTheRest == SettingsSpec => PatchKeepsTheRest
<1>1. SettingsInv /\ [SettingsNext]_settingsVars =>
        [\A o \in Ops : Patched(o) => KeepsTheRest(op[o].base, row', op[o].arg)]_settingsVars
  <2> SUFFICES ASSUME SettingsInv, SettingsNext, NEW o \in Ops, Patched(o)
               PROVE  KeepsTheRest(op[o].base, row', op[o].arg)
    OBVIOUS
  <2>1. /\ op[o].at = "loaded" /\ op[o].kind = "patch" /\ ~PatchThrows(op[o].base, op[o].arg)
        /\ row' = ApplySettingsUpdate(op[o].base, op[o].arg)
    BY PatchedIsPatch DEF Patch, Loads
  <2>2. op[o].arg \in Patches /\ Sound(op[o].base)
    BY <2>1, BaseSound DEF SettingsInv, Underway
  <2> QED BY <2>1, <2>2, RestIsKept, InputAssumption
<1> QED BY <1>1, SettingsInvariant, PTL DEF SettingsSpec, PatchKeepsTheRest

-----------------------------------------------------------------------------
(***************************************************************************)
(* The settings: what is shown of a document is what applies.              *)
(***************************************************************************)
View(s) == PublicSettings(s, EffectiveApprovals(s))

LEMMA ViewIs ==
  ASSUME NEW s, Sound(s)
  PROVE  /\ View(s).providers = Redacted(s.providers) /\ View(s).mcp = Redacted(s.mcp)
         /\ View(s).agents = s.agents /\ View(s).default = s.default
         /\ View(s).global = s.global /\ View(s).perMode = s.perMode
         /\ View(s).approvals = EffectiveApprovals(s)
<1>1. s \in StoredSettings
  BY DEF Sound, IsSettings
<1> QED BY <1>1 DEF View, PublicSettings, StoredSettings

LEMMA RedactedIs ==
  ASSUME NEW list, NEW i \in DOMAIN list
  PROVE  /\ DOMAIN Redacted(list) = DOMAIN list
         /\ \A f \in DOMAIN list[i] : f \notin {"key", "hasKey"} => Redacted(list)[i][f] = list[i][f]
BY DEF Redacted

LEMMA RulesAreMet ==
  ASSUME NEW s, Sound(s)
  PROVE  RulesShownAreMet(s)
<1> DEFINE eff == EffectiveApprovals(s)
<1> SUFFICES ASSUME NEW t \in DOMAIN Tools \ {"http_request", "mcp_call"}, NEW args \in CallArgs
             PROVE  /\ View(s).approvals[t] = ToolApprovalRule(s, t, args)
                    /\ \A mode \in ModeIds : ToolCatalog(s, mode)[t].approval = ToolApprovalRule(s, t, args)
  BY Zenon DEF RulesShownAreMet, View
<1>1. eff[t] = IF t \in GateTools THEN "always_allow"
               ELSE IF t \in DOMAIN s.approvals THEN s.approvals[t] ELSE Tools[t].approval
  BY DEF EffectiveApprovals
<1>2. ToolApprovalRule(s, t, args) = IF t \in GateTools THEN "always_allow"
                                     ELSE Sent(s.approvals, t, Tools[t].approval)
  BY DEF ToolApprovalRule
<1>3. eff[t] = ToolApprovalRule(s, t, args)
  BY <1>1, <1>2 DEF Sent
<1>4. View(s).approvals = eff
  BY ViewIs
<1>5. \A mode \in ModeIds : ToolCatalog(s, mode)[t].approval = eff[t]
  BY DEF ToolCatalog
<1> HIDE DEF eff
<1> QED BY <1>3, <1>4, <1>5

LEMMA ProviderIsShown ==
  ASSUME NEW p \in Provider, NEW list, NEW i \in DOMAIN list, list[i] = p
  PROVE  LET q == Redacted(list)[i]
         IN  /\ q \in PublicProvider /\ q.id = p.id /\ q.model = p.model /\ q.learned = p.learned
             /\ q.overrides = p.overrides /\ q.active = p.active
<1> DEFINE q == Redacted(list)[i]
           F == {"id", "model", "hasKey", "learned", "overrides", "active"}
<1>1. DOMAIN p = {"id", "model", "key", "learned", "overrides", "active"}
  BY DEF Provider
<1>2. q = [f \in (DOMAIN p \ {"key"}) \cup {"hasKey"} |-> IF f = "hasKey" THEN p.key # None ELSE p[f]]
  BY DEF Redacted
<1>3. (DOMAIN p \ {"key"}) \cup {"hasKey"} = F
  BY <1>1
<1>4. q = [f \in F |-> IF f = "hasKey" THEN p.key # None ELSE p[f]]
  BY <1>2, <1>3
<1> HIDE DEF q
<1>5. /\ q["id"] = p.id /\ q["model"] = p.model /\ q["hasKey"] = (p.key # None)
      /\ q["learned"] = p.learned /\ q["overrides"] = p.overrides /\ q["active"] = p.active
  BY <1>4
<1>6. q = [id |-> q["id"], model |-> q["model"], hasKey |-> q["hasKey"], learned |-> q["learned"],
           overrides |-> q["overrides"], active |-> q["active"]]
  <2>1. q = [f \in F |-> q[f]]
    BY <1>4
  <2> QED BY <2>1
<1>7. q["hasKey"] \in BOOLEAN
  BY <1>5
<1>8. /\ p.id \in ProviderIds /\ p.model \in Models /\ p.learned \in PartialMaps(Models, Windows)
      /\ p.overrides \in PartialMaps(Models, Windows) /\ p.active \in BOOLEAN
  BY DEF Provider
<1>9. q \in PublicProvider
  BY <1>5, <1>6, <1>7, <1>8 DEF PublicProvider
<1> QED BY <1>5, <1>9 DEF q

LEMMA RedactedFinds ==
  ASSUME NEW list \in Seq(Provider), Keyed(list), NEW id
  PROVE  /\ id \notin Ids(list) => Find(Redacted(list), id) = None
         /\ \A i \in DOMAIN list : list[i].id = id => Find(Redacted(list), id) = Redacted(list)[i]
<1> DEFINE new == Redacted(list)
<1>1. DOMAIN list = 1..Len(list) /\ Len(list) \in Nat /\ \A i \in DOMAIN list : list[i] \in Provider
  BY ElementOfSeq
<1>2. \A i \in DOMAIN list : new[i] \in PublicProvider /\ new[i].id = list[i].id
  BY <1>1, ProviderIsShown
<1>3. DOMAIN new = DOMAIN list
  BY DEF Redacted
<1>4. new = [i \in DOMAIN list |-> new[i]]
  BY DEF Redacted
<1> HIDE DEF new
<1>5. new \in Seq(PublicProvider)
  <2>1. new = [i \in 1..Len(list) |-> new[i]]
    BY <1>1, <1>4
  <2> QED BY <1>1, <1>2, <2>1, IsASeq
<1>6. Keyed(new) /\ Ids(new) = Ids(list)
  BY <1>2, <1>3 DEF Keyed, Ids
<1> QED BY <1>2, <1>3, <1>5, <1>6, FindIs DEF new

LEMMA WindowShown ==
  ASSUME NEW p \in Provider, NEW model
  PROVE  ResolveContextWindow(p, model) \in Windows \cup {None}
<1>1. /\ p.learned \in [DOMAIN p.learned -> Windows]
      /\ p.overrides \in [DOMAIN p.overrides -> Windows]
  BY PartialMapIs DEF Provider
<1>2. Sent(p.learned, model, None) \in Windows \cup {None}
  BY <1>1 DEF Sent
<1> QED BY <1>1, <1>2 DEF ResolveContextWindow, Sent

LEMMA BarIsRight ==
  ASSUME NEW s, Sound(s)
  PROVE  BarShowsWhatIsCalled(s)
<1> SUFFICES ASSUME NEW chosen \in Overrides, NEW asked \in Overrides,
                    SelectProvider(s, chosen, asked) # None
             PROVE  LET over == Spread(chosen, asked)
                        pick == SelectProvider(s, chosen, asked)
                        bar  == ResolveActiveProviderSnapshot(StatusProvider(s), View(s), chosen, asked)
                    IN  /\ bar.id = pick.profile.id /\ bar.model = pick.model
                        /\ "provider" \in DOMAIN over \/ "model" \notin DOMAIN over =>
                             bar.window = ResolveContextWindow(pick.profile, pick.model)
  BY Zenon DEF BarShowsWhatIsCalled, View
<1> DEFINE over == Spread(chosen, asked)
           pick == SelectProvider(s, chosen, asked)
           bar  == ResolveActiveProviderSnapshot(StatusProvider(s), View(s), chosen, asked)
           p == Find(s.providers, Sent(over, "provider", s.default))
           shown == Find(View(s).providers, Sent(over, "provider", None))
<1>1. s.providers \in Seq(Provider) /\ Keyed(s.providers) /\ View(s).providers = Redacted(s.providers)
  BY ViewIs DEF Sound, IsSettings, StoredSettings
<1>2. pick = IF p = None THEN None ELSE [profile |-> p, model |-> Sent(over, "model", p.model)]
  BY Zenon DEF SelectProvider
<1>3. bar = IF shown = None
            THEN IF StatusProvider(s) = None THEN None
                 ELSE [StatusProvider(s) EXCEPT !.model = Sent(over, "model", StatusProvider(s).model)]
            ELSE [id |-> shown.id, model |-> Sent(over, "model", shown.model),
                  window |-> ResolveModelContextWindow(shown, Sent(over, "model", shown.model))]
  BY Zenon DEF ResolveActiveProviderSnapshot
<1>4. p # None /\ pick.profile = p /\ pick.model = Sent(over, "model", p.model)
  <2>1. p # None
    BY <1>2
  <2> HIDE DEF p, over
  <2> QED BY <1>2, <2>1
<1>5. PICK i \in DOMAIN s.providers :
        s.providers[i].id = Sent(over, "provider", s.default) /\ p = s.providers[i]
  BY <1>1, <1>4, FindIs
<1>6. p \in Provider
  BY <1>1, <1>5, ElementOfSeq, DOMAIN s.providers = 1..Len(s.providers)
<1>7. CASE "provider" \in DOMAIN over
  <2>1. Sent(over, "provider", None) = Sent(over, "provider", s.default)
    BY <1>7 DEF Sent
  <2>2. shown = Redacted(s.providers)[i]
    BY <1>1, <1>5, <2>1, RedactedFinds
  <2>3. /\ shown \in PublicProvider /\ shown.id = p.id /\ shown.model = p.model
        /\ shown.learned = p.learned /\ shown.overrides = p.overrides
    BY <1>5, <1>6, <2>2, ProviderIsShown
  <2>4. shown # None
    BY <2>3, NoneAssumption
  <2> HIDE DEF shown, p, over
  <2>5. bar = [id |-> p.id, model |-> Sent(over, "model", p.model),
               window |-> ResolveModelContextWindow(shown, Sent(over, "model", p.model))]
    BY <1>3, <2>3, <2>4
  <2>6. \A m : ResolveModelContextWindow(shown, m) = ResolveContextWindow(p, m)
    BY <2>3 DEF ResolveModelContextWindow, ResolveContextWindow, Sent
  <2> HIDE DEF bar, pick
  <2>7. /\ bar.id = pick.profile.id /\ bar.model = pick.model
        /\ bar.window = ResolveContextWindow(pick.profile, pick.model)
    BY <1>4, <2>5, <2>6
  <2> QED BY <2>7 DEF bar, pick
<1>8. CASE "provider" \notin DOMAIN over
  <2>1. Sent(over, "provider", None) = None /\ Sent(over, "provider", s.default) = s.default
    BY <1>8 DEF Sent
  <2>2. None \notin Ids(s.providers)
    BY <1>1, IdsTyped, NoneAssumption DEF Kinds, Entries
  <2>3. shown = None
    BY <1>1, <2>1, <2>2, RedactedFinds
  <2> DEFINE base == StatusProvider(s)
  <2>4. base = Snapshot(p)
    BY <1>4, <2>1 DEF StatusProvider
  <2>5. base = [id |-> p.id, model |-> p.model, window |-> ResolveContextWindow(p, p.model)]
    BY <2>4 DEF Snapshot
  <2>6. base \in ProviderSnapshot
    <3>1. p.id \in ProviderIds /\ p.model \in Models
      BY <1>6 DEF Provider
    <3>2. ResolveContextWindow(p, p.model) \in Windows \cup {None}
      BY <1>6, WindowShown
    <3> HIDE DEF base, p
    <3> QED BY <2>5, <3>1, <3>2 DEF ProviderSnapshot
  <2>7. base # None
    BY <2>6, NoneAssumption
  <2> HIDE DEF shown, p, over, base
  <2>8. bar = [base EXCEPT !.model = Sent(over, "model", base.model)]
    BY <1>3, <2>3, <2>7 DEF base
  <2>9. /\ bar.id = p.id /\ bar.model = Sent(over, "model", p.model)
        /\ bar.window = ResolveContextWindow(p, p.model)
    BY <2>5, <2>8
  <2>10. "model" \notin DOMAIN over => Sent(over, "model", p.model) = p.model
    BY DEF Sent
  <2> HIDE DEF bar, pick
  <2>11. /\ bar.id = pick.profile.id /\ bar.model = pick.model
         /\ "model" \notin DOMAIN over => bar.window = ResolveContextWindow(pick.profile, pick.model)
    BY <1>4, <2>9, <2>10
  <2> QED BY <1>8, <2>11 DEF bar, pick, over
<1> QED BY <1>7, <1>8

-----------------------------------------------------------------------------
(***************************************************************************)
(* The settings: what a dialog saves.  Nothing is removed and one entry is *)
(* written, or none.                                                       *)
(***************************************************************************)
LEMMA FilterAll ==
  ASSUME NEW E, NEW s \in Seq(E), NEW S, \A k \in DOMAIN s : s[k] \in S
  PROVE  Filter(s, S) = s
<1>0. Len(s) \in Nat /\ DOMAIN s = 1..Len(s) /\ s = [k \in 1..Len(s) |-> s[k]] /\ \A k \in 1..Len(s) : s[k] \in E
  OBVIOUS
<1>1. PICK f : /\ f[0] = << >> /\ Filter(s, S) = f[Len(s)]
               /\ \A i \in 1..Len(s) : Sifts(f, s, S, i)
  BY FilterIsLast
<1> DEFINE T == {i \in 0..Len(s) : f[i] = [k \in 1..i |-> s[k]]}
<1>2. 0 \in T
  <2>1. << >> = [k \in 1..0 |-> s[k]]
    OBVIOUS
  <2> QED BY <1>0, <1>1, <2>1
<1>3. \A i \in 1..Len(s) : i - 1 \in T => i \in T
  <2> SUFFICES ASSUME NEW i \in 1..Len(s), i - 1 \in T PROVE i \in T
    OBVIOUS
  <2> DEFINE g == [k \in 1..(i - 1) |-> s[k]]
  <2>1. f[i] = Append(g, s[i])
    BY <1>0, <1>1 DEF Sifts
  <2>2. g \in Seq(E) /\ Len(g) = i - 1 /\ s[i] \in E
    <3>1. i - 1 \in Nat /\ \A k \in 1..(i - 1) : s[k] \in E
      BY <1>0
    <3>2. g \in Seq(E)
      BY <3>1, IsASeq
    <3>3. DOMAIN g = 1..(i - 1)
      OBVIOUS
    <3> HIDE DEF g
    <3> QED BY <1>0, <3>1, <3>2, <3>3, LenProperties
  <2>3. \A k \in 1..(i - 1) : g[k] = s[k]
    OBVIOUS
  <2> HIDE DEF g
  <2>4. /\ DOMAIN Append(g, s[i]) = 1..i /\ Append(g, s[i])[i] = s[i]
        /\ \A k \in 1..(i - 1) : Append(g, s[i])[k] = s[k]
    BY <2>2, <2>3
  <2>5. Append(g, s[i]) = [k \in 1..i |-> s[k]]
    <3>1. Append(g, s[i]) = [k \in DOMAIN Append(g, s[i]) |-> Append(g, s[i])[k]]
      BY <2>2
    <3>2. \A k \in 1..i : Append(g, s[i])[k] = s[k]
      BY <2>4
    <3> HIDE DEF T
    <3> QED BY <2>4, <3>1, <3>2
  <2> QED BY <2>1, <2>5
<1> HIDE DEF T
<1>4. Len(s) \in T
  <2>1. \A i \in 0..Len(s) : i \in T
    BY <1>0, <1>2, <1>3, CountUp
  <2> QED BY <1>0, <2>1
<1> QED BY <1>0, <1>1, <1>4 DEF T

(* The list with one entry in another's place.                             *)
Written(list, i, entry) == [k \in DOMAIN list |-> IF k = i THEN entry ELSE list[k]]

LEMMA PutOver ==
  ASSUME NEW list, Keyed(list), NEW i \in DOMAIN list, NEW entry, entry.id = list[i].id
  PROVE  Put(list, entry) = Written(list, i, entry)
<1>1. entry.id \in Ids(list)
  BY DEF Ids
<1>2. \A k \in DOMAIN list : list[k].id = entry.id <=> k = i
  BY DEF Keyed
<1>3. [k \in DOMAIN list |-> IF list[k].id = entry.id THEN entry ELSE list[k]]
        = [k \in DOMAIN list |-> IF k = i THEN entry ELSE list[k]]
  BY <1>2
<1> QED BY <1>1, <1>3, Zenon DEF Put, Written

LEMMA NoWriteIs ==
  ASSUME NEW E, NEW kind, NEW list \in Seq(E)
  PROVE  UpsertNamed(kind, list, {}, << >>) = list
<1> DEFINE ws == << >>
           gone == {}
<1>1. ws \in Seq(Range(ws)) /\ Len(ws) = 0
  OBVIOUS
<1>2. \A k \in DOMAIN list : list[k] \in {e \in Range(list) : e.id \notin gone}
  BY DEF Range
<1> HIDE DEF ws, gone
<1>3. PICK f : /\ f[0] = Filter(list, {e \in Range(list) : e.id \notin gone})
               /\ UpsertNamed(kind, list, gone, ws) = f[Len(ws)]
               /\ \A i \in 1..Len(ws) : Writes(f, kind, ws, i)
  BY <1>1, UpsertNamedIsLast
<1>4. Filter(list, {e \in Range(list) : e.id \notin gone}) = list
  BY <1>2, FilterAll
<1> QED BY <1>1, <1>3, <1>4 DEF ws, gone

LEMMA OneWriteIs ==
  ASSUME NEW kind \in Kinds, NEW list \in Seq(Entries(kind)), Keyed(list), NEW w, NEW i \in DOMAIN list,
         w.id = list[i].id, Upsert(kind, list[i], w).id = w.id
  PROVE  UpsertNamed(kind, list, {}, <<w>>) = Written(list, i, Upsert(kind, list[i], w))
<1>1. <<w>> \in Seq(Range(<<w>>)) /\ Len(<<w>>) = 1 /\ <<w>>[1] = w
  <2>1. w \in Range(<<w>>)
    BY DEF Range
  <2> QED BY <2>1
<1> DEFINE ws == <<w>>
<1> HIDE DEF ws
<1>2. ws \in Seq(Range(ws)) /\ Len(ws) = 1 /\ ws[1] = w
  BY <1>1 DEF ws
<1>3. PICK f : /\ f[0] = Filter(list, {e \in Range(list) : e.id \notin {}})
               /\ UpsertNamed(kind, list, {}, ws) = f[Len(ws)]
               /\ \A k \in 1..Len(ws) : Writes(f, kind, ws, k)
  BY <1>2, UpsertNamedIsLast
<1>4. f[0] = list
  <2>1. \A k \in DOMAIN list : list[k] \in {e \in Range(list) : e.id \notin {}}
    BY DEF Range
  <2> QED BY <1>3, <2>1, FilterAll
<1>5. f[1] = Put(list, Upsert(kind, Find(list, w.id), w))
  BY <1>2, <1>3, <1>4 DEF Writes
<1>6. Find(list, w.id) = list[i]
  BY FindIs
<1> QED BY <1>2, <1>3, <1>5, <1>6, PutOver DEF ws

(* Two lists of profiles with the same ids, on and off alike.              *)
Alike(l, m) ==
  /\ l \in Seq(Provider) /\ m \in Seq(Provider) /\ Keyed(l) /\ Keyed(m) /\ DOMAIN l = DOMAIN m
  /\ \A i \in DOMAIN l : l[i].id = m[i].id /\ l[i].active = m[i].active

LEMMA AlikeIs ==
  ASSUME NEW l, NEW m, Alike(l, m)
  PROVE  /\ Ids(l) = Ids(m) /\ FirstActive(l) = FirstActive(m) /\ FirstId(l) = FirstId(m)
         /\ \A id : Find(l, id).active = Find(m, id).active
<1>1. Ids(l) = Ids(m)
  BY DEF Ids, Alike
<1>2. FirstActive(l) = FirstActive(m)
  <2> DEFINE A == {i \in DOMAIN l : l[i].active}
             B == {i \in DOMAIN m : m[i].active}
  <2>1. A = B
    BY DEF Alike
  <2>2. A \in SUBSET Nat
    BY DOMAIN l = 1..Len(l), Len(l) \in Nat DEF Alike
  <2>3. A # {} => Min(A) \in A
    <3> HIDE DEF A
    <3> QED BY <2>2, MinIsLeast
  <2>4. A # {} => Min(A) \in DOMAIN l
    BY <2>3
  <2>5. /\ FirstActive(l) = IF A = {} THEN None ELSE l[Min(A)].id
        /\ FirstActive(m) = IF B = {} THEN None ELSE m[Min(B)].id
    BY DEF FirstActive
  <2> HIDE DEF A, B
  <2> QED BY <2>1, <2>4, <2>5 DEF Alike
<1>3. FirstId(l) = FirstId(m)
  <2>1. /\ l \in Seq(Provider) /\ m \in Seq(Provider) /\ DOMAIN l = DOMAIN m
        /\ \A i \in DOMAIN l : l[i].id = m[i].id
    BY DEF Alike
  <2>2. (l = << >> <=> 1 \notin DOMAIN l) /\ (m = << >> <=> 1 \notin DOMAIN m)
    <3>1. \A list \in Seq(Provider) : list = << >> <=> 1 \notin DOMAIN list
      <4> SUFFICES ASSUME NEW list \in Seq(Provider) PROVE list = << >> <=> 1 \notin DOMAIN list
        OBVIOUS
      <4>1. list = << >> => 1 \notin DOMAIN list
        OBVIOUS
      <4>2. list # << >> => 1 \in DOMAIN list
        BY DOMAIN list = 1..Len(list), Len(list) \in Nat, EmptySeq
      <4> QED BY <4>1, <4>2
    <3> QED BY <2>1, <3>1
  <2> QED BY <2>1, <2>2 DEF FirstId
<1>4. ASSUME NEW id PROVE Find(l, id).active = Find(m, id).active
  <2>1. l \in Seq(Provider) /\ m \in Seq(Provider) /\ Keyed(l) /\ Keyed(m)
    BY DEF Alike
  <2>2. CASE id \notin Ids(l)
    BY <1>1, <2>1, <2>2, FindIs
  <2>3. CASE id \in Ids(l)
    <3>1. PICK i \in DOMAIN l : l[i].id = id
      BY <2>3 DEF Ids
    <3>2. i \in DOMAIN m /\ m[i].id = id /\ l[i].active = m[i].active
      BY <3>1 DEF Alike
    <3> QED BY <2>1, <3>1, <3>2, FindIs
  <2> QED BY <2>2, <2>3
<1> QED BY <1>1, <1>2, <1>3, <1>4

LEMMA ActivatedAlike ==
  ASSUME NEW u, NEW v, Sent(u, "default", None) = Sent(v, "default", None), NEW l, NEW m, Alike(l, m)
  PROVE  Alike(Activated(u, l), Activated(v, m))
<1> DEFINE d == Sent(u, "default", None)
<1>1. l \in Seq(Provider) /\ m \in Seq(Provider) /\ Keyed(l) /\ Keyed(m) /\ DOMAIN l = DOMAIN m
  BY DEF Alike
<1>2. /\ Activated(u, l) \in Seq(Provider) /\ Keyed(Activated(u, l)) /\ DOMAIN Activated(u, l) = DOMAIN l
      /\ Activated(v, m) \in Seq(Provider) /\ Keyed(Activated(v, m)) /\ DOMAIN Activated(v, m) = DOMAIN m
      /\ \A i \in DOMAIN l : Activated(u, l)[i].id = l[i].id
      /\ \A i \in DOMAIN m : Activated(v, m)[i].id = m[i].id
  BY <1>1, ActivatedIs
<1>3. \A i \in DOMAIN l : l[i] \in Provider /\ m[i] \in Provider
  <2>1. \A list \in Seq(Provider) : \A i \in DOMAIN list : list[i] \in Provider
    BY ElementOfSeq
  <2> QED BY <1>1, <2>1
<1>4. \A p \in Provider : [p EXCEPT !.active = TRUE].active = TRUE
  BY DEF Provider
<1>5. /\ \A i \in DOMAIN l : Activated(u, l)[i] = IF d = l[i].id THEN [l[i] EXCEPT !.active = TRUE] ELSE l[i]
      /\ \A i \in DOMAIN m : Activated(v, m)[i] = IF d = m[i].id THEN [m[i] EXCEPT !.active = TRUE] ELSE m[i]
  BY Zenon DEF Activated
<1> HIDE DEF d
<1>6. \A i \in DOMAIN l : Activated(u, l)[i].active = Activated(v, m)[i].active
  BY <1>1, <1>3, <1>4, <1>5 DEF Alike
<1> QED BY <1>1, <1>2, <1>6 DEF Alike

(* Two patches that differ in the profiles they write.                     *)
SameBut(u, v, field) ==
  DOMAIN u \ {field} = DOMAIN v \ {field} /\ \A f \in DOMAIN u \ {field} : u[f] = v[f]

LEMMA SentAlike ==
  ASSUME NEW u, NEW v, NEW field, SameBut(u, v, field), NEW f, f # field
  PROVE  /\ f \in DOMAIN u <=> f \in DOMAIN v
         /\ f \in DOMAIN u => u[f] = v[f]
         /\ \A d : Sent(u, f, d) = Sent(v, f, d)
BY DEF SameBut, Sent

LEMMA ApplyFields ==
  ASSUME NEW s, NEW u
  PROVE  ApplySettingsUpdate(s, u) =
           [providers     |-> Activated(u, PatchedProviders(s, u)),
            default       |-> NextDefault(WantedDefault(s, u, PatchedProviders(s, u)),
                                          Activated(u, PatchedProviders(s, u))),
            global        |-> Sent(u, "global", s.global),
            perMode       |-> Spread(s.perMode, Sent(u, "perMode", NoMap)),
            approvals     |-> Spread(s.approvals, Sent(u, "approvals", NoMap)),
            askUser       |-> Sent(u, "askUser", s.askUser),
            maxRounds     |-> Sent(u, "maxRounds", s.maxRounds),
            agents        |-> UpsertNamed("agent", s.agents, Sent(u, "removeAgents", {}),
                                          Sent(u, "agents", << >>)),
            search        |-> PatchedSearch(s, u),
            searchDefault |-> NextSearchDefault(s, u, PatchedSearch(s, u)),
            mcp           |-> UpsertNamed("mcp", s.mcp, Sent(u, "removeMcp", {}), Sent(u, "mcp", << >>)),
            compaction    |-> Spread(s.compaction, Sent(u, "compaction", NoMap))]
BY Zenon DEF ApplySettingsUpdate

LEMMA SearchAlike ==
  ASSUME NEW s, NEW u, NEW v, NEW field \in {"providers", "agents", "mcp"}, SameBut(u, v, field)
  PROVE  /\ PatchedSearch(s, u) = PatchedSearch(s, v)
         /\ NextSearchDefault(s, u, PatchedSearch(s, u)) = NextSearchDefault(s, v, PatchedSearch(s, v))
<1>1. PatchedSearch(s, u) = PatchedSearch(s, v)
  <2>1. Sent(u, "removeSearch", {}) = Sent(v, "removeSearch", {})
        /\ Sent(u, "search", << >>) = Sent(v, "search", << >>)
    BY SentAlike
  <2> QED BY <2>1 DEF PatchedSearch
<1>2. \A list : NextSearchDefault(s, u, list) = NextSearchDefault(s, v, list)
  <2>1. /\ "searchDefault" \in DOMAIN u <=> "searchDefault" \in DOMAIN v
        /\ "searchDefault" \in DOMAIN u => u["searchDefault"] = v["searchDefault"]
    BY SentAlike
  <2> QED BY <2>1 DEF NextSearchDefault
<1> QED BY <1>1, <1>2

LEMMA ApplyAlike ==
  ASSUME NEW s, NEW u, NEW v, SameBut(u, v, "providers"),
         Alike(PatchedProviders(s, u), PatchedProviders(s, v))
  PROVE  ApplySettingsUpdate(s, u) =
           [ApplySettingsUpdate(s, v) EXCEPT !.providers = Activated(u, PatchedProviders(s, u))]
<1> DEFINE l == PatchedProviders(s, u)
           m == PatchedProviders(s, v)
<1>1. \A f, d : f # "providers" => Sent(u, f, d) = Sent(v, f, d)
  BY SentAlike
<1>2. Alike(Activated(u, l), Activated(v, m))
  BY <1>1, ActivatedAlike
<1> HIDE DEF l, m
<1>3. WantedDefault(s, u, l) = WantedDefault(s, v, m)
  <2>1. /\ "default" \in DOMAIN u <=> "default" \in DOMAIN v
        /\ "default" \in DOMAIN u => u["default"] = v["default"]
    BY SentAlike
  <2>2. Ids(l) = Ids(m) /\ FirstActive(l) = FirstActive(m) /\ FirstId(l) = FirstId(m)
    BY AlikeIs DEF l, m
  <2> QED BY <2>1, <2>2 DEF WantedDefault
<1>4. \A w : NextDefault(w, Activated(u, l)) = NextDefault(w, Activated(v, m))
  BY <1>2, AlikeIs DEF NextDefault
<1>5. NextDefault(WantedDefault(s, u, l), Activated(u, l)) = NextDefault(WantedDefault(s, v, m), Activated(v, m))
  BY <1>3, <1>4
<1>6. /\ PatchedSearch(s, u) = PatchedSearch(s, v)
      /\ NextSearchDefault(s, u, PatchedSearch(s, u)) = NextSearchDefault(s, v, PatchedSearch(s, v))
  BY SearchAlike
<1> DEFINE With(list) ==
             [providers     |-> list,
              default       |-> NextDefault(WantedDefault(s, v, m), Activated(v, m)),
              global        |-> Sent(v, "global", s.global),
              perMode       |-> Spread(s.perMode, Sent(v, "perMode", NoMap)),
              approvals     |-> Spread(s.approvals, Sent(v, "approvals", NoMap)),
              askUser       |-> Sent(v, "askUser", s.askUser),
              maxRounds     |-> Sent(v, "maxRounds", s.maxRounds),
              agents        |-> UpsertNamed("agent", s.agents, Sent(v, "removeAgents", {}),
                                            Sent(v, "agents", << >>)),
              search        |-> PatchedSearch(s, v),
              searchDefault |-> NextSearchDefault(s, v, PatchedSearch(s, v)),
              mcp           |-> UpsertNamed("mcp", s.mcp, Sent(v, "removeMcp", {}), Sent(v, "mcp", << >>)),
              compaction    |-> Spread(s.compaction, Sent(v, "compaction", NoMap))]
<1>7. ApplySettingsUpdate(s, v) = With(Activated(v, m))
  BY ApplyFields DEF m
<1>8. ApplySettingsUpdate(s, u) = With(Activated(u, l))
  <2>1. /\ Sent(u, "global", s.global) = Sent(v, "global", s.global)
        /\ Sent(u, "perMode", NoMap) = Sent(v, "perMode", NoMap)
        /\ Sent(u, "approvals", NoMap) = Sent(v, "approvals", NoMap)
        /\ Sent(u, "askUser", s.askUser) = Sent(v, "askUser", s.askUser)
        /\ Sent(u, "maxRounds", s.maxRounds) = Sent(v, "maxRounds", s.maxRounds)
        /\ Sent(u, "removeAgents", {}) = Sent(v, "removeAgents", {})
        /\ Sent(u, "agents", << >>) = Sent(v, "agents", << >>)
        /\ Sent(u, "removeMcp", {}) = Sent(v, "removeMcp", {})
        /\ Sent(u, "mcp", << >>) = Sent(v, "mcp", << >>)
        /\ Sent(u, "compaction", NoMap) = Sent(v, "compaction", NoMap)
    BY <1>1
  <2> QED BY <1>5, <1>6, <2>1, ApplyFields DEF l, m
<1>9. With(Activated(u, l)) = [With(Activated(v, m)) EXCEPT !.providers = Activated(u, l)]
  OBVIOUS
<1> QED BY <1>7, <1>8, <1>9, Zenon DEF l

LEMMA OverridesBack ==
  ASSUME NEW o \in PartialMaps(Models, Windows)
  PROVE  /\ CompactOverrides(o) = o
         /\ \A m : CompactOverrides(Spread(o, Only(m, Sent(o, m, None)))) = o
<1>1. o = [x \in DOMAIN o |-> o[x]] /\ \A x \in DOMAIN o : o[x] \in Windows /\ o[x] # None
  BY PartialMapIs, NoneAssumption
<1>2. CompactOverrides(o) = o
  <2>1. {x \in DOMAIN o : o[x] # None} = DOMAIN o
    BY <1>1
  <2>2. CompactOverrides(o) = [m \in DOMAIN o |-> o[m]]
    BY <2>1 DEF CompactOverrides
  <2> QED BY <1>1, <2>2
<1>3. ASSUME NEW m PROVE CompactOverrides(Spread(o, Only(m, Sent(o, m, None)))) = o
  <2> DEFINE t == Spread(o, Only(m, Sent(o, m, None)))
  <2>1. DOMAIN t = DOMAIN o \cup {m} /\ \A x \in DOMAIN t : t[x] = IF x = m THEN Sent(o, m, None) ELSE o[x]
    BY DEF Spread, Only
  <2>2. \A x \in DOMAIN o : t[x] = o[x]
    BY <2>1 DEF Sent
  <2>3. m \notin DOMAIN o => t[m] = None
    BY <2>1 DEF Sent
  <2>4. CompactOverrides(t) = [x \in {y \in DOMAIN t : t[y] # None} |-> t[x]]
    BY DEF CompactOverrides
  <2> HIDE DEF t
  <2>5. {y \in DOMAIN t : t[y] # None} = DOMAIN o
    BY <1>1, <2>1, <2>2, <2>3
  <2>6. CompactOverrides(t) = [x \in DOMAIN o |-> o[x]]
    BY <2>2, <2>4, <2>5
  <2> QED BY <1>1, <2>6 DEF t
<1> QED BY <1>2, <1>3

LEMMA OverrideSet ==
  ASSUME NEW o, NEW m, NEW w \in Windows
  PROVE  m \in DOMAIN CompactOverrides(Spread(o, Only(m, w))) /\ CompactOverrides(Spread(o, Only(m, w)))[m] = w
<1> DEFINE t == Spread(o, Only(m, w))
<1>1. m \in DOMAIN t /\ t[m] = w /\ w # None
  BY NoneAssumption DEF Spread, Only
<1> HIDE DEF t
<1>2. m \in DOMAIN CompactOverrides(t) /\ CompactOverrides(t)[m] = w
  BY <1>1 DEF CompactOverrides
<1> QED BY <1>2 DEF t

LEMMA OverridesTyped ==
  ASSUME NEW o \in PartialMaps(Models, Windows), NEW m \in Models, NEW w \in Windows \cup {None}
  PROVE  CompactOverrides(Spread(o, Only(m, w))) \in PartialMaps(Models, Windows)
<1> DEFINE t == Spread(o, Only(m, w))
<1>1. o \in [DOMAIN o -> Windows] /\ DOMAIN o \subseteq Models
  BY PartialMapIs
<1>2. DOMAIN t = DOMAIN o \cup {m} /\ t = [x \in DOMAIN t |-> t[x]]
      /\ \A x \in DOMAIN t : t[x] = IF x = m THEN w ELSE o[x]
  BY DEF Spread, Only
<1> HIDE DEF t
<1>3. t \in [DOMAIN t -> Windows \cup {None}] /\ DOMAIN t \subseteq Models
  BY <1>1, <1>2
<1>4. t \in PartialMaps(Models, Windows \cup {None})
  BY <1>3, PartialMapIs
<1> QED BY <1>4, CompactTyped DEF t

LEMMA ProviderWriteIs ==
  ASSUME NEW p, NEW d, d.key = None
  PROVE  LET w == ProviderWrite(p, d)
         IN  /\ w.id = p.id /\ w.model = d.model /\ w.overrides = OverridesFor(p, d)
             /\ "overrides" \in DOMAIN w /\ "learned" \notin DOMAIN w /\ "active" \notin DOMAIN w
             /\ d.clearKey => "key" \in DOMAIN w /\ w.key = None
             /\ ~d.clearKey => "key" \notin DOMAIN w
<1> DEFINE base == [id |-> p.id, model |-> d.model, overrides |-> OverridesFor(p, d)]
           w == ProviderWrite(p, d)
<1>1. CASE d.clearKey
  <2>1. w = Spread(base, [key |-> None])
    BY <1>1, Zenon DEF ProviderWrite
  <2>2. DOMAIN w = {"id", "model", "overrides", "key"} /\ \A f \in DOMAIN w : w[f] = IF f = "key" THEN None ELSE base[f]
    BY <2>1 DEF Spread
  <2> HIDE DEF w
  <2>3. w["id"] = p.id /\ w["model"] = d.model /\ w["overrides"] = OverridesFor(p, d) /\ w["key"] = None
    BY <2>2
  <2> QED BY <1>1, <2>2, <2>3 DEF w
<1>2. CASE ~d.clearKey
  <2>1. w = Spread(base, NoMap)
    BY <1>2, Zenon DEF ProviderWrite, Optional
  <2>2. DOMAIN NoMap = {}
    BY DEF NoMap
  <2>3. DOMAIN w = {"id", "model", "overrides"} /\ \A f \in DOMAIN w : w[f] = base[f]
    BY <2>1, <2>2 DEF Spread
  <2> HIDE DEF w
  <2>4. w["id"] = p.id /\ w["model"] = d.model /\ w["overrides"] = OverridesFor(p, d)
    BY <2>3
  <2> QED BY <1>2, <2>3, <2>4 DEF w
<1> QED BY <1>1, <1>2

(* The entry of a dialog that is saved.                                    *)
SavedEntry(p, d) ==
  [id |-> p.id, model |-> d.model, key |-> IF d.clearKey THEN None ELSE p.key,
   learned |-> p.learned, overrides |-> CompactOverrides(OverridesFor(p, d)), active |-> p.active]

LEMMA SavedEntryIs ==
  ASSUME NEW p \in Provider, NEW q, q.id = p.id, q.overrides = p.overrides, NEW d, d.key = None
  PROVE  Upsert("provider", p, ProviderWrite(q, d)) = SavedEntry(p, d)
<1> DEFINE w == ProviderWrite(q, d)
<1>1. /\ w.id = p.id /\ w.model = d.model /\ w.overrides = OverridesFor(q, d)
      /\ "overrides" \in DOMAIN w /\ "learned" \notin DOMAIN w /\ "active" \notin DOMAIN w
      /\ d.clearKey => "key" \in DOMAIN w /\ w.key = None
      /\ ~d.clearKey => "key" \notin DOMAIN w
  BY ProviderWriteIs
<1>2. OverridesFor(q, d) = OverridesFor(p, d)
  BY DEF OverridesFor
<1>3. p # None
  BY NoneAssumption
<1> HIDE DEF w
<1>4. /\ Kept(w, "key", p, None) = IF d.clearKey THEN None ELSE p.key
      /\ Kept(w, "learned", p, NoMap) = p.learned
      /\ Kept(w, "overrides", p, NoMap) = OverridesFor(p, d)
      /\ Kept(w, "active", p, TRUE) = p.active
  BY <1>1, <1>2, <1>3 DEF Kept, Sent
<1>5. Upsert("provider", p, w) = UpsertProvider(p, w)
  BY DEF Upsert
<1>6. UpsertProvider(p, w) = [id |-> w.id, model |-> w.model, key |-> Kept(w, "key", p, None),
        learned |-> Kept(w, "learned", p, NoMap),
        overrides |-> CompactOverrides(Kept(w, "overrides", p, NoMap)), active |-> Kept(w, "active", p, TRUE)]
  BY DEF UpsertProvider
<1>7. UpsertProvider(p, w) = SavedEntry(p, d)
  BY <1>1, <1>4, <1>6, Zenon DEF SavedEntry
<1> QED BY <1>5, <1>7 DEF w

LEMMA SavedEntryTyped ==
  ASSUME NEW p \in Provider, NEW d, d.model \in Models, d.override \in Windows \cup {None, Unreadable}
  PROVE  SavedEntry(p, d) \in Provider
<1>1. /\ p.overrides \in PartialMaps(Models, Windows) /\ p.id \in ProviderIds /\ p.key \in Keys \cup {None}
      /\ p.learned \in PartialMaps(Models, Windows) /\ p.active \in BOOLEAN
  BY DEF Provider
<1>2. CompactOverrides(OverridesFor(p, d)) \in PartialMaps(Models, Windows)
  <2>1. CASE d.override = Unreadable
    BY <1>1, <2>1, OverridesBack DEF OverridesFor
  <2>2. CASE d.override # Unreadable
    <3>1. OverridesFor(p, d) = Spread(p.overrides, Only(d.model, d.override))
      BY <2>2 DEF OverridesFor
    <3> QED BY <1>1, <2>2, <3>1, OverridesTyped
  <2> QED BY <2>1, <2>2
<1> QED BY <1>1, <1>2 DEF SavedEntry, Provider

(* What is patched when no provider is saved in a dialog, and what one     *)
(* that is saved changes of it.                                            *)
BasePatch(s, p) == IF s.default = None THEN [default |-> p.id] ELSE NoMap
OnIfChosen(u, e) == IF Sent(u, "default", None) = e.id THEN [e EXCEPT !.active = TRUE] ELSE e

LEMMA BaseIs ==
  ASSUME NEW s, Sound(s), NEW i \in DOMAIN s.providers, NEW q, q.id = s.providers[i].id
  PROVE  LET v == BasePatch(s, q)
             b == ApplySettingsUpdate(s, v)
         IN  /\ PatchedProviders(s, v) = s.providers
             /\ b.providers \in Seq(Provider) /\ DOMAIN b.providers = DOMAIN s.providers
             /\ \A k \in DOMAIN s.providers : b.providers[k] = OnIfChosen(v, s.providers[k])
<1> DEFINE v == BasePatch(s, q)
           list == s.providers
<1>1. list \in Seq(Provider) /\ Keyed(list)
  BY DEF Sound, IsSettings, StoredSettings
<1>2. Sent(v, "removeProviders", {}) = {} /\ Sent(v, "providers", << >>) = << >>
  <2>1. DOMAIN NoMap = {} /\ DOMAIN [default |-> q.id] = {"default"}
    BY DEF NoMap
  <2>2. "removeProviders" \notin DOMAIN v /\ "providers" \notin DOMAIN v
    BY <2>1 DEF BasePatch
  <2> QED BY <2>2 DEF Sent
<1> HIDE DEF v
<1>3. PatchedProviders(s, v) = list
  BY <1>1, <1>2, NoWriteIs DEF PatchedProviders
<1>4. ApplySettingsUpdate(s, v).providers = Activated(v, list)
  BY <1>3 DEF ApplySettingsUpdate
<1>5. Activated(v, list) \in Seq(Provider) /\ DOMAIN Activated(v, list) = DOMAIN list
  BY <1>1, ActivatedIs
<1>6. \A k \in DOMAIN list : Activated(v, list)[k] = OnIfChosen(v, list[k])
  BY DEF Activated, OnIfChosen
<1> QED BY <1>3, <1>4, <1>5, <1>6 DEF v

LEMMA DialogSaves ==
  ASSUME NEW s, Sound(s), NEW i \in DOMAIN s.providers,
         NEW q, q.id = s.providers[i].id, q.overrides = s.providers[i].overrides,
         NEW d, d.key = None, SavedEntry(s.providers[i], d) \in Provider
  PROVE  LET u == SubmitProvider(View(s), ProviderWrite(q, d))
             v == BasePatch(s, q)
             b == ApplySettingsUpdate(s, v)
             e == OnIfChosen(v, SavedEntry(s.providers[i], d))
         IN  /\ ApplySettingsUpdate(s, u) =
                  [b EXCEPT !.providers = Written(b.providers, i, e)]
             /\ ApplySettingsUpdate(s, u).providers[i] = e
<1> DEFINE w == ProviderWrite(q, d)
           u == SubmitProvider(View(s), w)
           v == BasePatch(s, q)
           b == ApplySettingsUpdate(s, v)
           list == s.providers
           e == SavedEntry(list[i], d)
           new == Written(list, i, e)
<1>1. /\ list \in Seq(Provider) /\ Keyed(list) /\ list[i] \in Provider /\ DOMAIN list = 1..Len(list)
      /\ \A k \in DOMAIN list : list[k] \in Provider
  <2>1. list \in Seq(Provider) /\ Keyed(list)
    BY DEF Sound, IsSettings, StoredSettings
  <2> QED BY <2>1, ElementOfSeq
<1>2. w.id = list[i].id /\ e.id = list[i].id /\ e.active = list[i].active
  BY ProviderWriteIs DEF SavedEntry
<1>3. View(s).default = s.default
  BY ViewIs
<1> HIDE DEF w, e, list
<1>4. /\ DOMAIN u = {"providers"} \cup DOMAIN v /\ u["providers"] = <<w>>
      /\ \A f \in DOMAIN u \ {"providers"} : u[f] = v[f]
      /\ DOMAIN v \subseteq {"default"}
  <2>0. DOMAIN NoMap = {}
    BY DEF NoMap
  <2>1. CASE s.default = None
    <3>1. v = [default |-> q.id] /\ u = Spread([providers |-> <<w>>], [default |-> w.id]) /\ w.id = q.id
      BY <1>2, <1>3, <2>1, Zenon DEF SubmitProvider, BasePatch, list
    <3> HIDE DEF u, v
    <3> QED BY <3>1 DEF Spread
  <2>2. CASE s.default # None
    <3>1. v = NoMap /\ u = Spread([providers |-> <<w>>], NoMap)
      BY <1>3, <2>2, Zenon DEF SubmitProvider, BasePatch
    <3> HIDE DEF u, v
    <3> QED BY <2>0, <3>1 DEF Spread
  <2> QED BY <2>1, <2>2
<1>5. PatchedProviders(s, v) = list /\ b.providers \in Seq(Provider) /\ DOMAIN b.providers = DOMAIN list
      /\ \A k \in DOMAIN list : b.providers[k] = OnIfChosen(v, list[k])
  BY BaseIs DEF list
<1> HIDE DEF u, v
<1>6. SameBut(u, v, "providers")
  BY <1>4 DEF SameBut
<1>7. Sent(u, "default", None) = Sent(v, "default", None)
  BY <1>6, SentAlike
<1>8. PatchedProviders(s, u) = new
  <2>1. Sent(u, "removeProviders", {}) = {} /\ Sent(u, "providers", << >>) = <<w>>
    BY <1>4 DEF Sent
  <2>2. Upsert("provider", list[i], w) = e
    BY <1>1, SavedEntryIs DEF w, e, list
  <2>3. "provider" \in Kinds /\ Entries("provider") = Provider
    BY DEF Kinds, Entries
  <2>4. UpsertNamed("provider", list, {}, <<w>>) = Written(list, i, Upsert("provider", list[i], w))
    <3>1. Upsert("provider", list[i], w).id = w.id /\ w.id = list[i].id /\ i \in DOMAIN list
      BY <1>2, <2>2 DEF list
    <3>2. "provider" \in Kinds /\ list \in Seq(Entries("provider")) /\ Keyed(list)
      BY <1>1, <2>3
    <3> QED BY <3>1, <3>2, OneWriteIs
  <2>5. PatchedProviders(s, u) = UpsertNamed("provider", list, {}, <<w>>)
    BY <2>1 DEF PatchedProviders, list
  <2> QED BY <2>2, <2>4, <2>5
<1>9. Alike(new, list)
  <2>1. \A k \in DOMAIN list : new[k] \in Provider /\ new[k].id = list[k].id /\ new[k].active = list[k].active
    BY <1>1, <1>2 DEF e, list, Written
  <2>2. DOMAIN new = DOMAIN list /\ new = [k \in 1..Len(list) |-> new[k]]
    BY <1>1 DEF Written
  <2> HIDE DEF new
  <2>3. Len(list) \in Nat
    BY <1>1, LenProperties
  <2>4. new \in Seq(Provider)
    BY <1>1, <2>1, <2>2, <2>3, IsASeq
  <2>5. Keyed(new)
    BY <1>1, <2>1, <2>2 DEF Keyed
  <2> QED BY <1>1, <2>1, <2>2, <2>4, <2>5 DEF Alike
<1>10. ApplySettingsUpdate(s, u) = [b EXCEPT !.providers = Activated(u, new)]
  <2>1. Alike(PatchedProviders(s, u), PatchedProviders(s, v))
    BY <1>5, <1>8, <1>9, Zenon
  <2> QED BY <1>6, <1>8, <2>1, ApplyAlike
<1>11. Activated(u, new) = Written(b.providers, i, OnIfChosen(v, e))
  <2>1. DOMAIN new = DOMAIN list
    BY DEF Written
  <2>2. Activated(u, new) = [k \in DOMAIN new |-> OnIfChosen(v, new[k])]
    BY <1>7 DEF Activated, OnIfChosen
  <2>3. \A k \in DOMAIN list : OnIfChosen(v, new[k]) = IF k = i THEN OnIfChosen(v, e) ELSE b.providers[k]
    BY <1>5 DEF Written
  <2> HIDE DEF new
  <2> QED BY <1>5, <2>1, <2>2, <2>3 DEF Written
<1> HIDE DEF b, new
<1>12. ApplySettingsUpdate(s, u) =
         [b EXCEPT !.providers = Written(b.providers, i, OnIfChosen(v, e))]
  BY <1>10, <1>11, Zenon
<1>13. ApplySettingsUpdate(s, u).providers[i] = OnIfChosen(v, e)
  <2>1. ApplySettingsUpdate(s, u).providers = Activated(u, new)
    BY <1>8 DEF ApplySettingsUpdate
  <2>2. i \in DOMAIN b.providers
    BY <1>5 DEF list
  <2> QED BY <1>11, <2>1, <2>2 DEF Written
<1> QED BY <1>12, <1>13, Zenon DEF u, v, b, e, w, list

(* An entry with the model and the key of a draft.                         *)
Edited(e, m, k) ==
  [id |-> e.id, model |-> m, key |-> k, learned |-> e.learned, overrides |-> e.overrides, active |-> e.active]

LEMMA ProviderRecord ==
  ASSUME NEW r \in Provider
  PROVE  \E a \in ProviderIds, b \in Models, c \in Keys \cup {None}, d \in PartialMaps(Models, Windows),
            e \in PartialMaps(Models, Windows), f \in BOOLEAN :
           r = [id |-> a, model |-> b, key |-> c, learned |-> d, overrides |-> e, active |-> f]
<1>1. r = [id |-> r.id, model |-> r.model, key |-> r.key, learned |-> r.learned, overrides |-> r.overrides,
           active |-> r.active]
  BY DEF Provider
<1>2. /\ r.id \in ProviderIds /\ r.model \in Models /\ r.key \in Keys \cup {None} /\ r.active \in BOOLEAN
      /\ r.learned \in PartialMaps(Models, Windows) /\ r.overrides \in PartialMaps(Models, Windows)
  BY DEF Provider
<1> QED BY <1>1, <1>2

LEMMA EditedIs ==
  ASSUME NEW r \in Provider, NEW m
  PROVE  /\ Edited(r, r.model, r.key) = r
         /\ Edited(r, r.model, None) = [r EXCEPT !.key = None]
         /\ Edited(r, m, r.key) = [r EXCEPT !.model = m]
<1>1. PICK a \in ProviderIds, b \in Models, c \in Keys \cup {None}, d \in PartialMaps(Models, Windows),
           e \in PartialMaps(Models, Windows), f \in BOOLEAN :
        r = [id |-> a, model |-> b, key |-> c, learned |-> d, overrides |-> e, active |-> f]
  BY ProviderRecord
<1>2. Edited(r, r.model, r.key) = r
  BY <1>1 DEF Edited
<1>3. Edited(r, r.model, None) = [r EXCEPT !.key = None]
  BY <1>1 DEF Edited
<1>4. Edited(r, m, r.key) = [r EXCEPT !.model = m]
  BY <1>1 DEF Edited
<1> QED BY <1>2, <1>3, <1>4

LEMMA EditedChosen ==
  ASSUME NEW r \in Provider, NEW m \in Models, NEW k \in Keys \cup {None}, NEW v
  PROVE  /\ OnIfChosen(v, r) \in Provider
         /\ OnIfChosen(v, Edited(r, m, k)) = Edited(OnIfChosen(v, r), m, k)
         /\ OnIfChosen(v, r).model = r.model /\ OnIfChosen(v, r).key = r.key
<1>1. PICK a \in ProviderIds, b \in Models, c \in Keys \cup {None}, d \in PartialMaps(Models, Windows),
           e \in PartialMaps(Models, Windows), f \in BOOLEAN :
        r = [id |-> a, model |-> b, key |-> c, learned |-> d, overrides |-> e, active |-> f]
  BY ProviderRecord
<1>2. Edited(r, m, k) = [id |-> a, model |-> m, key |-> k, learned |-> d, overrides |-> e, active |-> f]
  BY <1>1 DEF Edited
<1>3. CASE Sent(v, "default", None) = a
  <2>1. OnIfChosen(v, r) = [id |-> a, model |-> b, key |-> c, learned |-> d, overrides |-> e, active |-> TRUE]
    BY <1>1, <1>3 DEF OnIfChosen
  <2>2. OnIfChosen(v, Edited(r, m, k))
          = [id |-> a, model |-> m, key |-> k, learned |-> d, overrides |-> e, active |-> TRUE]
    <3> DEFINE x == Edited(r, m, k)
    <3>1. OnIfChosen(v, x) = [x EXCEPT !.active = TRUE]
      <4>1. x.id = a
        BY <1>2
      <4> QED BY <1>3, <4>1, Zenon DEF OnIfChosen
    <3> HIDE DEF x
    <3>2. x = [id |-> a, model |-> m, key |-> k, learned |-> d, overrides |-> e, active |-> f]
      BY <1>2 DEF x
    <3>3. [x EXCEPT !.active = TRUE]
            = [id |-> a, model |-> m, key |-> k, learned |-> d, overrides |-> e, active |-> TRUE]
      <4>1. \A on : [x EXCEPT !.active = on]
                      = [id |-> a, model |-> m, key |-> k, learned |-> d, overrides |-> e, active |-> on]
        BY <3>2
      <4> QED BY <4>1, Zenon
    <3> QED BY <3>1, <3>3 DEF x
  <2>3. OnIfChosen(v, r) \in Provider
    BY <2>1 DEF Provider
  <2>4. OnIfChosen(v, Edited(r, m, k)) = Edited(OnIfChosen(v, r), m, k)
    BY <2>1, <2>2 DEF Edited
  <2>5. OnIfChosen(v, r).model = r.model /\ OnIfChosen(v, r).key = r.key
    BY <1>1, <2>1
  <2> QED BY <2>3, <2>4, <2>5
<1>4. CASE Sent(v, "default", None) # a
  <2>1. OnIfChosen(v, r) = r /\ OnIfChosen(v, Edited(r, m, k)) = Edited(r, m, k)
    BY <1>1, <1>2, <1>4 DEF OnIfChosen
  <2> QED BY <2>1
<1> QED BY <1>3, <1>4

LEMMA ChosenIs ==
  ASSUME NEW r \in Provider, NEW v
  PROVE  OnIfChosen(v, r) \in Provider /\ OnIfChosen(v, r).model = r.model /\ OnIfChosen(v, r).key = r.key
<1>1. r.model \in Models /\ r.key \in Keys \cup {None}
  BY DEF Provider
<1> QED BY <1>1, EditedChosen

LEMMA DraftKeeps ==
  ASSUME NEW p \in Provider, NEW d, d.override = Sent(p.overrides, d.model, None) \/ d.override = Unreadable
  PROVE  SavedEntry(p, d) = Edited(p, d.model, IF d.clearKey THEN None ELSE p.key)
<1>0. p.overrides \in PartialMaps(Models, Windows)
  BY DEF Provider
<1>1. CompactOverrides(OverridesFor(p, d)) = p.overrides
  <2>1. CASE d.override = Unreadable
    BY <1>0, <2>1, OverridesBack DEF OverridesFor
  <2>2. CASE d.override # Unreadable
    <3>1. OverridesFor(p, d) = Spread(p.overrides, Only(d.model, Sent(p.overrides, d.model, None)))
      BY <2>2 DEF OverridesFor
    <3> QED BY <1>0, <3>1, OverridesBack
  <2> QED BY <2>1, <2>2
<1> QED BY <1>1, Zenon DEF SavedEntry, Edited

LEMMA WrittenIs ==
  ASSUME NEW E, NEW l \in Seq(E), NEW i, NEW x
  PROVE  Written(l, i, x) = [l EXCEPT ![i] = x] /\ Written(l, i, l[i]) = l
<1>1. l = [k \in DOMAIN l |-> l[k]]
  OBVIOUS
<1>2. Written(l, i, x) = [l EXCEPT ![i] = x]
  BY <1>1 DEF Written
<1>3. \A k \in DOMAIN l : (IF k = i THEN l[i] ELSE l[k]) = l[k]
  OBVIOUS
<1>4. Written(l, i, l[i]) = [k \in DOMAIN l |-> l[k]]
  BY <1>3 DEF Written
<1> QED BY <1>1, <1>2, <1>4

LEMMA AppliedAgain ==
  ASSUME NEW s, NEW u
  PROVE  LET b == ApplySettingsUpdate(s, u)
         IN  /\ [b EXCEPT !.providers = b.providers] = b /\ [b EXCEPT !.agents = b.agents] = b
             /\ [b EXCEPT !.mcp = b.mcp] = b
<1> DEFINE b == ApplySettingsUpdate(s, u)
<1>1. b = [providers |-> b.providers, default |-> b.default, global |-> b.global, perMode |-> b.perMode,
           approvals |-> b.approvals, askUser |-> b.askUser, maxRounds |-> b.maxRounds, agents |-> b.agents,
           search |-> b.search, searchDefault |-> b.searchDefault, mcp |-> b.mcp, compaction |-> b.compaction]
  BY DEF ApplySettingsUpdate
<1> HIDE DEF b
<1>2. [b EXCEPT !.providers = b.providers] = b
  BY <1>1
<1>3. [b EXCEPT !.agents = b.agents] = b
  BY <1>1
<1>4. [b EXCEPT !.mcp = b.mcp] = b
  BY <1>1
<1> QED BY <1>2, <1>3, <1>4 DEF b

(* What the dialog of a provider saves, what saving without it would, and  *)
(* a document with one entry in another's place.                           *)
Saved(s, p, d) == ApplySettingsUpdate(s, SubmitProvider(View(s), ProviderWrite(p, d)))
Base(s, p) == ApplySettingsUpdate(s, BasePatch(s, p))
WithEntry(b, i, e) == [b EXCEPT !.providers = Written(b.providers, i, e)]

LEMMA DraftSaves ==
  ASSUME NEW s, Sound(s), NEW i \in DOMAIN s.providers,
         NEW q, q.id = s.providers[i].id, q.overrides = s.providers[i].overrides,
         NEW d, d.key = None, d.model \in Models, d.clearKey \in BOOLEAN,
         d.override = Sent(q.overrides, d.model, None) \/ d.override = Unreadable
  PROVE  LET e == Base(s, q).providers[i]
         IN  Saved(s, q, d) = WithEntry(Base(s, q), i, Edited(e, d.model, IF d.clearKey THEN None ELSE e.key))
<1> DEFINE r == s.providers[i]
           u == SubmitProvider(View(s), ProviderWrite(q, d))
           v == BasePatch(s, q)
           b == ApplySettingsUpdate(s, v)
           e == OnIfChosen(v, SavedEntry(r, d))
           key == IF d.clearKey THEN None ELSE r.key
<1>1. r \in Provider
  <2>1. s.providers \in Seq(Provider)
    BY DEF Sound, IsSettings, StoredSettings
  <2> QED BY <2>1, ElementOfSeq
<1>2. SavedEntry(r, d) = Edited(r, d.model, key)
  BY <1>1, DraftKeeps
<1>3. d.override \in Windows \cup {None, Unreadable}
  <2>1. r.overrides \in [DOMAIN r.overrides -> Windows]
    BY <1>1, PartialMapIs DEF Provider
  <2> QED BY <2>1 DEF Sent
<1>4. SavedEntry(r, d) \in Provider
  BY <1>1, <1>3, SavedEntryTyped
<1>5. ApplySettingsUpdate(s, u) = [b EXCEPT !.providers = Written(b.providers, i, e)]
  BY <1>4, DialogSaves
<1>6. b.providers[i] = OnIfChosen(v, r)
  BY BaseIs
<1>7. key \in Keys \cup {None}
  BY <1>1 DEF Provider
<1> HIDE DEF b, v, key
<1> HIDE DEF r
<1>11. /\ OnIfChosen(v, Edited(r, d.model, key)) = Edited(OnIfChosen(v, r), d.model, key)
       /\ OnIfChosen(v, r).key = r.key
  <2>1. \A m \in Models : \A k \in Keys \cup {None} :
          /\ OnIfChosen(v, Edited(r, m, k)) = Edited(OnIfChosen(v, r), m, k)
          /\ OnIfChosen(v, r).key = r.key
    BY <1>1, EditedChosen
  <2> QED BY <1>7, <2>1
<1>8. e = Edited(b.providers[i], d.model, key)
  BY <1>2, <1>6, <1>11
<1>9. b.providers[i].key = r.key
  BY <1>6, <1>11
<1>10. key = IF d.clearKey THEN None ELSE b.providers[i].key
  BY <1>9 DEF key
<1> HIDE DEF e, u
<1> QED BY <1>5, <1>8, <1>10, Zenon DEF b, v, u, r, Saved, Base, WithEntry

LEMMA ProvidersTyped ==
  ASSUME NEW s, Sound(s), NEW i \in DOMAIN s.providers
  PROVE  LET r == s.providers[i]
             p == View(s).providers[i]
         IN  /\ s.providers \in Seq(Provider) /\ Keyed(s.providers) /\ r \in Provider
             /\ p.id = r.id /\ p.model = r.model /\ p.overrides = r.overrides /\ p.active = r.active
<1>1. s.providers \in Seq(Provider) /\ Keyed(s.providers)
  BY DEF Sound, IsSettings, StoredSettings
<1>2. s.providers[i] \in Provider
  BY <1>1, ElementOfSeq
<1>3. View(s).providers = Redacted(s.providers)
  BY ViewIs
<1>4. LET q == Redacted(s.providers)[i]
      IN  q.id = s.providers[i].id /\ q.model = s.providers[i].model
            /\ q.overrides = s.providers[i].overrides /\ q.active = s.providers[i].active
  BY <1>2, ProviderIsShown
<1> QED BY <1>1, <1>2, <1>3, <1>4

LEMMA ClearKeyIs ==
  ASSUME NEW m, NEW o, NEW k, NEW c, NEW d, d = [model |-> m, override |-> o, key |-> k, clearKey |-> c]
  PROVE  /\ ClearKey(d).model = m /\ ClearKey(d).override = o /\ ClearKey(d).key = None
         /\ ClearKey(d).clearKey
<1>1. \A yes : [d EXCEPT !.clearKey = yes] = [model |-> m, override |-> o, key |-> k, clearKey |-> yes]
  OBVIOUS
<1>2. \A yes : [[model |-> m, override |-> o, key |-> k, clearKey |-> yes] EXCEPT !.key = None]
                = [model |-> m, override |-> o, key |-> None, clearKey |-> yes]
  OBVIOUS
<1>3. ClearKey(d) = [model |-> m, override |-> o, key |-> None, clearKey |-> TRUE]
  BY <1>1, <1>2, Zenon DEF ClearKey
<1> QED BY <1>3

ProviderFormsKeep(s, i) ==
  LET p     == View(s).providers[i]
      draft == DraftFrom(p)
      base  == Base(s, p)
  IN  /\ Saved(s, p, draft) = base
      /\ Saved(s, p, ClearKey(draft)) = [base EXCEPT !.providers[i].key = None]
      /\ Saved(s, p, [draft EXCEPT !.override = Unreadable]) = base
      /\ \A m \in Models : Saved(s, p, SetModel(p, draft, m)) = [base EXCEPT !.providers[i].model = m]

LEMMA ProviderForms ==
  ASSUME NEW s, Sound(s), NEW i \in DOMAIN s.providers
  PROVE  ProviderFormsKeep(s, i)
<1> DEFINE r     == s.providers[i]
           p     == View(s).providers[i]
           draft == DraftFrom(p)
           v     == BasePatch(s, p)
           base  == Base(s, p)
           l     == base.providers
<1>1. r \in Provider /\ p.id = r.id /\ p.model = r.model /\ p.overrides = r.overrides
  BY ProvidersTyped
<1> HIDE DEF p
<1>2. draft = [model |-> p.model, override |-> Sent(p.overrides, p.model, None), key |-> None, clearKey |-> FALSE]
  BY DEF DraftFrom
<1>3. p.model \in Models
  BY <1>1 DEF Provider
<1>4. l \in Seq(Provider) /\ l[i] = OnIfChosen(v, r) /\ i \in DOMAIN l
  BY <1>1, BaseIs DEF Base
<1> HIDE DEF v, r
<1>5. l[i] \in Provider /\ l[i].model = p.model
  BY <1>1, <1>4, ChosenIs
<1>6. \A d : /\ d.key = None /\ d.model \in Models /\ d.clearKey \in BOOLEAN
             /\ d.override = Sent(p.overrides, d.model, None) \/ d.override = Unreadable
             => Saved(s, p, d) = WithEntry(base, i, Edited(l[i], d.model, IF d.clearKey THEN None ELSE l[i].key))
  <2> SUFFICES ASSUME NEW d, d.key = None, d.model \in Models, d.clearKey \in BOOLEAN,
                      d.override = Sent(p.overrides, d.model, None) \/ d.override = Unreadable
               PROVE  Saved(s, p, d) = WithEntry(base, i, Edited(l[i], d.model, IF d.clearKey THEN None ELSE l[i].key))
    OBVIOUS
  <2>1. p.id = s.providers[i].id /\ p.overrides = s.providers[i].overrides
    BY <1>1 DEF r
  <2> QED BY <2>1, DraftSaves, Zenon
<1>7. [base EXCEPT !.providers = l] = base
  BY AppliedAgain, Zenon DEF Base
<1> HIDE DEF draft, base
<1>8. Edited(l[i], l[i].model, l[i].key) = l[i] /\ Written(l, i, l[i]) = l
  BY <1>4, <1>5, EditedIs, WrittenIs
<1>9. Saved(s, p, draft) = base
  <2>1. draft.key = None /\ draft.model = p.model /\ draft.clearKey = FALSE
        /\ draft.override = Sent(p.overrides, draft.model, None)
    BY <1>2
  <2>2. Saved(s, p, draft) = WithEntry(base, i, Edited(l[i], p.model, l[i].key))
    BY <1>3, <1>6, <2>1
  <2> QED BY <1>5, <1>7, <1>8, <2>2, Zenon DEF WithEntry
<1>10. Saved(s, p, ClearKey(draft)) = [base EXCEPT !.providers[i].key = None]
  <2> DEFINE d == ClearKey(draft)
  <2>1. PICK no : draft = [model |-> p.model, override |-> Sent(p.overrides, p.model, None),
                           key |-> None, clearKey |-> no]
    BY <1>2, Zenon
  <2>2. d.key = None /\ d.model = p.model /\ d.clearKey /\ d.override = Sent(p.overrides, d.model, None)
    BY <2>1, ClearKeyIs
  <2> HIDE DEF d
  <2>3. Saved(s, p, d) = WithEntry(base, i, Edited(l[i], p.model, None))
    BY <1>3, <1>6, <2>2, d.clearKey \in BOOLEAN
  <2>4. Edited(l[i], p.model, None) = [l[i] EXCEPT !.key = None]
    BY <1>5, EditedIs
  <2>5. Written(l, i, [l[i] EXCEPT !.key = None]) = [l EXCEPT ![i] = [l[i] EXCEPT !.key = None]]
    BY <1>4, WrittenIs
  <2> QED BY <2>3, <2>4, <2>5, Zenon DEF d, WithEntry
<1>11. Saved(s, p, [draft EXCEPT !.override = Unreadable]) = base
  <2> DEFINE d == [draft EXCEPT !.override = Unreadable]
  <2>1. d.key = None /\ d.model = p.model /\ d.clearKey = FALSE /\ d.override = Unreadable
    BY <1>2
  <2> HIDE DEF d
  <2>2. Saved(s, p, d) = WithEntry(base, i, Edited(l[i], p.model, l[i].key))
    BY <1>3, <1>6, <2>1
  <2>3. Saved(s, p, d) = base
    BY <1>5, <1>7, <1>8, <2>2, Zenon DEF WithEntry
  <2> QED BY <2>3 DEF d
<1>12. ASSUME NEW m \in Models
       PROVE  Saved(s, p, SetModel(p, draft, m)) = [base EXCEPT !.providers[i].model = m]
  <2> DEFINE d == SetModel(p, draft, m)
  <2>1. d.key = None /\ d.model = m /\ d.clearKey = FALSE /\ d.override = Sent(p.overrides, d.model, None)
    BY <1>2 DEF SetModel
  <2> HIDE DEF d
  <2>2. Saved(s, p, d) = WithEntry(base, i, Edited(l[i], m, l[i].key))
    BY <1>6, <2>1
  <2>3. Edited(l[i], m, l[i].key) = [l[i] EXCEPT !.model = m]
    BY <1>5, EditedIs
  <2>4. Written(l, i, [l[i] EXCEPT !.model = m]) = [l EXCEPT ![i] = [l[i] EXCEPT !.model = m]]
    BY <1>4, WrittenIs
  <2> QED BY <2>2, <2>3, <2>4, Zenon DEF d, WithEntry
<1> QED BY <1>9, <1>10, <1>11, <1>12, Zenon DEF ProviderFormsKeep, p, draft, base, v

(* A window that is set in the dialog is the window of its model.          *)
LEMMA WindowForms ==
  ASSUME NEW s, Sound(s), NEW i \in DOMAIN s.providers, NEW w \in Windows
  PROVE  LET p     == View(s).providers[i]
             draft == DraftFrom(p)
         IN  ResolveContextWindow(Saved(s, p, [draft EXCEPT !.override = w]).providers[i], draft.model) = w
<1> DEFINE r     == s.providers[i]
           p     == View(s).providers[i]
           draft == DraftFrom(p)
           d     == [draft EXCEPT !.override = w]
           v     == BasePatch(s, p)
           e     == SavedEntry(r, d)
<1>1. r \in Provider /\ p.id = r.id /\ p.model = r.model /\ p.overrides = r.overrides
  BY ProvidersTyped
<1> HIDE DEF p
<1>2. p.model \in Models
  BY <1>1 DEF Provider
<1>3. draft.model = p.model /\ d.model = p.model /\ d.override = w /\ d.key = None
  BY DEF DraftFrom
<1> HIDE DEF d, v, r, draft
<1>4. e \in Provider
  BY <1>1, <1>2, <1>3, SavedEntryTyped
<1>5. Saved(s, p, d).providers[i] = OnIfChosen(v, e)
  BY <1>1, <1>3, <1>4, DialogSaves DEF Saved, v, r
<1>6. e.overrides = CompactOverrides(Spread(r.overrides, Only(p.model, w)))
  <2>1. w # Unreadable
    BY FormsAssumption
  <2> QED BY <1>3, <2>1 DEF SavedEntry, OverridesFor
<1>7. p.model \in DOMAIN e.overrides /\ e.overrides[p.model] = w
  BY <1>6, OverrideSet
<1> HIDE DEF e
<1>8. OnIfChosen(v, e).overrides = e.overrides
  BY <1>4 DEF OnIfChosen, Provider
<1>9. ResolveContextWindow(OnIfChosen(v, e), p.model) = w
  BY <1>7, <1>8 DEF ResolveContextWindow, Sent
<1> QED BY <1>3, <1>5, <1>9, Zenon DEF p, d, draft

(* The switch of a provider turns it and nothing else of the list.         *)
LEMMA ProviderSwitch ==
  ASSUME NEW s, Sound(s), NEW i \in DOMAIN s.providers
  PROVE  LET p    == View(s).providers[i]
             same == ApplySettingsUpdate(s, NoMap)
         IN  ApplySettingsUpdate(s, ToggleProvider(p)).providers = [same.providers EXCEPT ![i].active = ~@]
<1> DEFINE r == s.providers[i]
           p == View(s).providers[i]
           w == [id |-> p.id, model |-> p.model, active |-> ~p.active]
           u == ToggleProvider(p)
           list == s.providers
<1>1. /\ r \in Provider /\ p.id = r.id /\ p.model = r.model /\ p.active = r.active
      /\ list \in Seq(Provider) /\ Keyed(list)
  BY ProvidersTyped
<1> HIDE DEF p
<1>2. /\ Sent(u, "removeProviders", {}) = {} /\ Sent(u, "providers", << >>) = <<w>>
      /\ "default" \notin DOMAIN u
  BY DEF ToggleProvider, Sent
<1>3. /\ Sent(NoMap, "removeProviders", {}) = {} /\ Sent(NoMap, "providers", << >>) = << >>
      /\ "default" \notin DOMAIN NoMap
  BY DEF NoMap, Sent
<1> HIDE DEF u
<1>4. Upsert("provider", r, w) = [r EXCEPT !.active = ~@]
  <2>1. r # None
    BY <1>1, NoneAssumption
  <2>2. /\ Kept(w, "key", r, None) = r.key /\ Kept(w, "learned", r, NoMap) = r.learned
        /\ Kept(w, "overrides", r, NoMap) = r.overrides /\ Kept(w, "active", r, TRUE) = ~r.active
        /\ w.id = r.id /\ w.model = r.model
    BY <1>1, <2>1 DEF Kept, Sent
  <2>3. Upsert("provider", r, w) = UpsertProvider(r, w)
    BY DEF Upsert
  <2>4. CompactOverrides(r.overrides) = r.overrides
    BY <1>1, OverridesBack DEF Provider
  <2> HIDE DEF w
  <2>5. UpsertProvider(r, w) = [id |-> r.id, model |-> r.model, key |-> r.key, learned |-> r.learned,
                                overrides |-> r.overrides, active |-> ~r.active]
    BY <2>2, <2>4, Zenon DEF UpsertProvider
  <2>6. \A on : [r EXCEPT !.active = on] = [id |-> r.id, model |-> r.model, key |-> r.key,
                  learned |-> r.learned, overrides |-> r.overrides, active |-> on]
    BY <1>1, ProviderRecord
  <2> QED BY <2>3, <2>5, <2>6, Zenon
<1>5. PatchedProviders(s, u) = Written(list, i, [r EXCEPT !.active = ~@])
  <2>1. "provider" \in Kinds /\ Entries("provider") = Provider
    BY DEF Kinds, Entries
  <2>2. Upsert("provider", r, w).id = w.id /\ w.id = r.id
    BY <1>1, <1>4 DEF Provider
  <2>3. UpsertNamed("provider", list, {}, <<w>>) = Written(list, i, Upsert("provider", r, w))
    BY <1>1, <2>1, <2>2, OneWriteIs
  <2> QED BY <1>2, <1>4, <2>3 DEF PatchedProviders
<1>6. PatchedProviders(s, NoMap) = list
  BY <1>1, <1>3, NoWriteIs DEF PatchedProviders
<1>7. \A q, l : "default" \notin DOMAIN q /\ None \notin Ids(l) => Activated(q, l) = [k \in DOMAIN l |-> l[k]]
  <2> SUFFICES ASSUME NEW q, NEW l, "default" \notin DOMAIN q, None \notin Ids(l)
               PROVE  Activated(q, l) = [k \in DOMAIN l |-> l[k]]
    OBVIOUS
  <2>1. \A k \in DOMAIN l : l[k].id # None
    BY DEF Ids
  <2> QED BY <2>1 DEF Activated, Sent
<1> DEFINE new == Written(list, i, [r EXCEPT !.active = ~@])
<1>8. None \notin Ids(list)
  BY <1>1, IdsTyped, NoneAssumption DEF Kinds, Entries
<1>9. DOMAIN new = DOMAIN list /\ new = [k \in DOMAIN new |-> new[k]] /\ new = [list EXCEPT ![i] = [r EXCEPT !.active = ~@]]
  BY <1>1, WrittenIs DEF Written
<1>10. \A k \in DOMAIN new : new[k].id = list[k].id
  BY <1>1 DEF Written, Provider
<1> HIDE DEF new
<1>11. None \notin Ids(new)
  BY <1>8, <1>9, <1>10 DEF Ids
<1>12. ApplySettingsUpdate(s, u).providers = new
  <2>1. ApplySettingsUpdate(s, u).providers = Activated(u, new)
    BY <1>5 DEF ApplySettingsUpdate, new
  <2> QED BY <1>2, <1>7, <1>9, <1>11, <2>1
<1>13. ApplySettingsUpdate(s, NoMap).providers = list
  <2>1. ApplySettingsUpdate(s, NoMap).providers = Activated(NoMap, list)
    BY <1>6 DEF ApplySettingsUpdate
  <2>2. list = [k \in DOMAIN list |-> list[k]]
    BY <1>1
  <2> QED BY <1>3, <1>7, <1>8, <2>1, <2>2
<1> QED BY <1>9, <1>12, <1>13, Zenon DEF u, p

(* A patch of the agents or of the remote servers changes no other field.  *)
LEMMA ProvidersSame ==
  ASSUME NEW s, NEW u, NEW v, NEW field \in {"agents", "mcp"}, SameBut(u, v, field)
  PROVE  /\ Activated(u, PatchedProviders(s, u)) = Activated(v, PatchedProviders(s, v))
         /\ NextDefault(WantedDefault(s, u, PatchedProviders(s, u)), Activated(u, PatchedProviders(s, u)))
              = NextDefault(WantedDefault(s, v, PatchedProviders(s, v)), Activated(v, PatchedProviders(s, v)))
<1>1. /\ Sent(u, "removeProviders", {}) = Sent(v, "removeProviders", {})
      /\ Sent(u, "providers", << >>) = Sent(v, "providers", << >>)
      /\ Sent(u, "default", None) = Sent(v, "default", None)
      /\ "default" \in DOMAIN u <=> "default" \in DOMAIN v
      /\ "default" \in DOMAIN u => u["default"] = v["default"]
  BY SentAlike
<1>2. PatchedProviders(s, u) = PatchedProviders(s, v)
  BY <1>1 DEF PatchedProviders
<1>3. \A l : Activated(u, l) = Activated(v, l)
  BY <1>1 DEF Activated
<1>4. \A l : WantedDefault(s, u, l) = WantedDefault(s, v, l)
  BY <1>1 DEF WantedDefault
<1> QED BY <1>2, <1>3, <1>4

LEMMA FieldsSame ==
  ASSUME NEW s, NEW u, NEW v, NEW field \in {"agents", "mcp"}, SameBut(u, v, field)
  PROVE  LET t == ApplySettingsUpdate(s, u)
             b == ApplySettingsUpdate(s, v)
         IN  /\ t.providers = b.providers /\ t.default = b.default /\ t.global = b.global
             /\ t.perMode = b.perMode /\ t.approvals = b.approvals /\ t.askUser = b.askUser
             /\ t.maxRounds = b.maxRounds /\ t.search = b.search /\ t.searchDefault = b.searchDefault
             /\ t.compaction = b.compaction
             /\ field # "agents" => t.agents = b.agents
             /\ field # "mcp" => t.mcp = b.mcp
<1>1. /\ \A d : Sent(u, "global", d) = Sent(v, "global", d)
      /\ \A d : Sent(u, "perMode", d) = Sent(v, "perMode", d)
      /\ \A d : Sent(u, "approvals", d) = Sent(v, "approvals", d)
      /\ \A d : Sent(u, "askUser", d) = Sent(v, "askUser", d)
      /\ \A d : Sent(u, "maxRounds", d) = Sent(v, "maxRounds", d)
      /\ \A d : Sent(u, "removeAgents", d) = Sent(v, "removeAgents", d)
      /\ \A d : Sent(u, "removeMcp", d) = Sent(v, "removeMcp", d)
      /\ \A d : Sent(u, "compaction", d) = Sent(v, "compaction", d)
  BY SentAlike
<1>2. /\ field # "agents" => Sent(u, "agents", << >>) = Sent(v, "agents", << >>)
      /\ field # "mcp" => Sent(u, "mcp", << >>) = Sent(v, "mcp", << >>)
  BY SentAlike
<1>3. /\ PatchedSearch(s, u) = PatchedSearch(s, v)
      /\ NextSearchDefault(s, u, PatchedSearch(s, u)) = NextSearchDefault(s, v, PatchedSearch(s, v))
  BY SearchAlike
<1>4. /\ Activated(u, PatchedProviders(s, u)) = Activated(v, PatchedProviders(s, v))
      /\ NextDefault(WantedDefault(s, u, PatchedProviders(s, u)), Activated(u, PatchedProviders(s, u)))
           = NextDefault(WantedDefault(s, v, PatchedProviders(s, v)), Activated(v, PatchedProviders(s, v)))
  BY ProvidersSame
<1> QED BY <1>1, <1>2, <1>3, <1>4 DEF ApplySettingsUpdate

LEMMA RecordOf ==
  ASSUME NEW s, NEW u
  PROVE  LET b == ApplySettingsUpdate(s, u)
         IN  b = [providers |-> b.providers, default |-> b.default, global |-> b.global, perMode |-> b.perMode,
                  approvals |-> b.approvals, askUser |-> b.askUser, maxRounds |-> b.maxRounds,
                  agents |-> b.agents, search |-> b.search, searchDefault |-> b.searchDefault, mcp |-> b.mcp,
                  compaction |-> b.compaction]
BY DEF ApplySettingsUpdate

WithAgents(b, list) == [b EXCEPT !.agents = list]
WithMcp(b, list) == [b EXCEPT !.mcp = list]

LEMMA OneListOnly ==
  ASSUME NEW s, NEW u, NEW v
  PROVE  LET t == ApplySettingsUpdate(s, u)
             b == ApplySettingsUpdate(s, v)
         IN  /\ SameBut(u, v, "agents") => t = WithAgents(b, t.agents)
             /\ SameBut(u, v, "mcp") => t = WithMcp(b, t.mcp)
<1> DEFINE t == ApplySettingsUpdate(s, u)
           b == ApplySettingsUpdate(s, v)
<1>1. t = [providers |-> t.providers, default |-> t.default, global |-> t.global, perMode |-> t.perMode,
           approvals |-> t.approvals, askUser |-> t.askUser, maxRounds |-> t.maxRounds, agents |-> t.agents,
           search |-> t.search, searchDefault |-> t.searchDefault, mcp |-> t.mcp, compaction |-> t.compaction]
  BY RecordOf
<1>2. b = [providers |-> b.providers, default |-> b.default, global |-> b.global, perMode |-> b.perMode,
           approvals |-> b.approvals, askUser |-> b.askUser, maxRounds |-> b.maxRounds, agents |-> b.agents,
           search |-> b.search, searchDefault |-> b.searchDefault, mcp |-> b.mcp, compaction |-> b.compaction]
  BY RecordOf
<1>3. ASSUME SameBut(u, v, "agents") PROVE t = WithAgents(b, t.agents)
  <2>1. /\ t.providers = b.providers /\ t.default = b.default /\ t.global = b.global
        /\ t.perMode = b.perMode /\ t.approvals = b.approvals /\ t.askUser = b.askUser
        /\ t.maxRounds = b.maxRounds /\ t.search = b.search /\ t.searchDefault = b.searchDefault
        /\ t.compaction = b.compaction /\ t.mcp = b.mcp
    BY <1>3, FieldsSame
  <2> HIDE DEF t, b
  <2> QED BY <1>1, <1>2, <2>1 DEF WithAgents, WithMcp
<1>4. ASSUME SameBut(u, v, "mcp") PROVE t = WithMcp(b, t.mcp)
  <2>1. /\ t.providers = b.providers /\ t.default = b.default /\ t.global = b.global
        /\ t.perMode = b.perMode /\ t.approvals = b.approvals /\ t.askUser = b.askUser
        /\ t.maxRounds = b.maxRounds /\ t.search = b.search /\ t.searchDefault = b.searchDefault
        /\ t.compaction = b.compaction /\ t.agents = b.agents
    BY <1>4, FieldsSame
  <2> HIDE DEF t, b
  <2> QED BY <1>1, <1>2, <2>1 DEF WithAgents, WithMcp
<1> QED BY <1>3, <1>4

LEMMA AgentWritten ==
  ASSUME NEW a \in Agent, NEW on
  PROVE  Upsert("agent", a, AgentWrite(a, a.label, a.soul, on))
           = [id |-> a.id, label |-> a.label, soul |-> a.soul, active |-> on]
<1> DEFINE w == AgentWrite(a, a.label, a.soul, on)
           base == [id |-> a.id, soul |-> a.soul, active |-> on]
<1>0. a # None
  BY NoneAssumption
<1>1. /\ {"id", "soul", "active"} \subseteq DOMAIN w
      /\ \A f \in {"id", "soul", "active"} : w[f] = base[f]
      /\ Sent(w, "label", None) = a.label
  <2>1. CASE a.label = None
    <3>0. DOMAIN NoMap = {}
      BY DEF NoMap
    <3>1. w = Spread(base, NoMap)
      BY <2>1, Zenon DEF AgentWrite, Optional
    <3>2. DOMAIN w = {"id", "soul", "active"} /\ \A f \in DOMAIN w : w[f] = base[f]
      BY <3>0, <3>1 DEF Spread
    <3> HIDE DEF w
    <3> QED BY <2>1, <3>2 DEF Sent
  <2>2. CASE a.label # None
    <3>1. w = Spread(base, Only("label", a.label))
      BY <2>2, Zenon DEF AgentWrite, Optional
    <3>2. /\ DOMAIN w = {"id", "soul", "active", "label"}
          /\ \A f \in DOMAIN w : w[f] = IF f = "label" THEN a.label ELSE base[f]
      BY <3>1 DEF Spread, Only
    <3> HIDE DEF w
    <3> QED BY <3>2 DEF Sent
  <2> QED BY <2>1, <2>2
<1> HIDE DEF w
<1>2. w["id"] = a.id /\ w["soul"] = a.soul /\ w["active"] = on /\ "active" \in DOMAIN w
  BY <1>1
<1>3. Kept(w, "active", a, TRUE) = on
  BY <1>0, <1>2 DEF Kept, Sent
<1>4. Upsert("agent", a, w) = UpsertAgent(a, w)
  BY DEF Upsert
<1>5. UpsertAgent(a, w) = [id |-> a.id, label |-> a.label, soul |-> a.soul, active |-> on]
  <2>1. w.id = a.id /\ w.soul = a.soul
    BY <1>2
  <2> QED BY <1>1, <1>3, <2>1, Zenon DEF UpsertAgent
<1> QED BY <1>4, <1>5, Zenon DEF w

LEMMA AgentRecord ==
  ASSUME NEW a \in Agent
  PROVE  /\ a = [id |-> a.id, label |-> a.label, soul |-> a.soul, active |-> a.active]
         /\ \A on : [a EXCEPT !.active = on] = [id |-> a.id, label |-> a.label, soul |-> a.soul, active |-> on]
BY DEF Agent

LEMMA AgentsApplied ==
  ASSUME NEW s, Sound(s), NEW i \in DOMAIN s.agents, NEW on
  PROVE  LET a    == s.agents[i]
             e    == [id |-> a.id, label |-> a.label, soul |-> a.soul, active |-> on]
             same == ApplySettingsUpdate(s, NoMap)
         IN  /\ ApplySettingsUpdate(s, [agents |-> <<AgentWrite(a, a.label, a.soul, on)>>])
                  = WithAgents(same, Written(same.agents, i, e))
             /\ same.agents \in Seq(Agent) /\ same.agents = s.agents /\ a \in Agent
<1> DEFINE a == s.agents[i]
           w == AgentWrite(a, a.label, a.soul, on)
           e == [id |-> a.id, label |-> a.label, soul |-> a.soul, active |-> on]
           u == [agents |-> <<w>>]
           same == ApplySettingsUpdate(s, NoMap)
           t == ApplySettingsUpdate(s, u)
           list == s.agents
<1>1. list \in Seq(Agent) /\ Keyed(list)
  BY DEF Sound, IsSettings, StoredSettings
<1>2. a \in Agent
  BY <1>1, ElementOfSeq
<1>3. Upsert("agent", a, w) = e
  BY <1>2, AgentWritten
<1>4. w.id = a.id
  BY DEF AgentWrite, Spread, Optional, Only, NoMap
<1> HIDE DEF w
<1>5. Sent(u, "removeAgents", {}) = {} /\ Sent(u, "agents", << >>) = <<w>>
  BY DEF Sent
<1>6. Sent(NoMap, "removeAgents", {}) = {} /\ Sent(NoMap, "agents", << >>) = << >>
  BY DEF Sent, NoMap
<1>7. SameBut(u, NoMap, "agents")
  BY DEF SameBut, NoMap
<1> HIDE DEF u
<1>8. t.agents = Written(list, i, e)
  <2>1. "agent" \in Kinds /\ Entries("agent") = Agent
    BY DEF Kinds, Entries
  <2>2. e.id = w.id
    BY <1>4
  <2> HIDE DEF e
  <2>3. UpsertNamed("agent", list, {}, <<w>>) = Written(list, i, Upsert("agent", a, w))
    BY <1>1, <1>3, <1>4, <2>1, <2>2, OneWriteIs
  <2>4. t.agents = UpsertNamed("agent", list, {}, <<w>>)
    BY <1>5 DEF ApplySettingsUpdate
  <2> QED BY <1>3, <2>3, <2>4
<1>9. same.agents = list
  <2>1. same.agents = UpsertNamed("agent", list, {}, << >>)
    BY <1>6 DEF ApplySettingsUpdate
  <2> QED BY <1>1, <2>1, NoWriteIs
<1>10. t = WithAgents(same, t.agents)
  BY <1>7, OneListOnly, Zenon
<1> HIDE DEF t, same, e
<1> QED BY <1>1, <1>2, <1>8, <1>9, <1>10, Zenon DEF t, same, e, u, w

LEMMA AgentForms ==
  ASSUME NEW s, Sound(s), NEW i \in DOMAIN s.agents
  PROVE  LET a    == View(s).agents[i]
             same == ApplySettingsUpdate(s, NoMap)
         IN  /\ ApplySettingsUpdate(s, SubmitAgent(a, a.label, a.soul)) = same
             /\ ApplySettingsUpdate(s, ToggleAgent(a)) = [same EXCEPT !.agents[i].active = ~@]
<1> DEFINE a == s.agents[i]
           same == ApplySettingsUpdate(s, NoMap)
           E(on) == [id |-> a.id, label |-> a.label, soul |-> a.soul, active |-> on]
<1>1. View(s).agents = s.agents
  BY ViewIs
<1>2. \A on : /\ ApplySettingsUpdate(s, [agents |-> <<AgentWrite(a, a.label, a.soul, on)>>])
                   = WithAgents(same, Written(same.agents, i, E(on)))
              /\ same.agents \in Seq(Agent) /\ same.agents = s.agents /\ a \in Agent
  BY AgentsApplied
<1>3. same.agents \in Seq(Agent) /\ same.agents = s.agents /\ a \in Agent
  BY <1>2
<1>4. [same EXCEPT !.agents = same.agents] = same
  BY AppliedAgain
<1>5. E(a.active) = a /\ \A on : E(on) = [a EXCEPT !.active = on]
  BY <1>3, AgentRecord
<1> HIDE DEF same, E
<1>6. ApplySettingsUpdate(s, SubmitAgent(a, a.label, a.soul)) = same
  <2>1. Written(same.agents, i, a) = same.agents
    BY <1>3, WrittenIs
  <2>2. ApplySettingsUpdate(s, SubmitAgent(a, a.label, a.soul))
          = WithAgents(same, Written(same.agents, i, E(a.active)))
    BY <1>2, Zenon DEF SubmitAgent
  <2>3. E(a.active) = a
    BY <1>5
  <2> HIDE DEF a
  <2> QED BY <1>4, <2>1, <2>2, <2>3, Zenon DEF WithAgents
<1>7. ApplySettingsUpdate(s, ToggleAgent(a)) = [same EXCEPT !.agents[i].active = ~@]
  <2>1. \A x : Written(same.agents, i, x) = [same.agents EXCEPT ![i] = x]
    BY <1>3, WrittenIs
  <2>2. ApplySettingsUpdate(s, ToggleAgent(a)) = WithAgents(same, Written(same.agents, i, E(~a.active)))
    BY <1>2, Zenon DEF ToggleAgent
  <2>3. E(~a.active) = [a EXCEPT !.active = ~a.active]
    BY <1>5, Zenon
  <2>4. a = same.agents[i]
    BY <1>3
  <2> HIDE DEF a
  <2> QED BY <2>1, <2>2, <2>3, <2>4, Zenon DEF WithAgents
<1> QED BY <1>1, <1>6, <1>7, Zenon DEF same

LEMMA McpRecord ==
  ASSUME NEW m \in McpServer
  PROVE  \A on : [m EXCEPT !.enabled = on]
           = [id |-> m.id, enabled |-> on, permissions |-> m.permissions, key |-> m.key]
BY DEF McpServer

LEMMA McpSwitch ==
  ASSUME NEW s, Sound(s), NEW i \in DOMAIN s.mcp
  PROVE  LET same == ApplySettingsUpdate(s, NoMap)
         IN  ApplySettingsUpdate(s, ToggleMcp(View(s).mcp[i])) = [same EXCEPT !.mcp[i].enabled = ~@]
<1> DEFINE m == s.mcp[i]
           q == View(s).mcp[i]
           w == [id |-> q.id, enabled |-> ~q.enabled]
           u == [mcp |-> <<w>>]
           same == ApplySettingsUpdate(s, NoMap)
           t == ApplySettingsUpdate(s, u)
           list == s.mcp
           e == Upsert("mcp", m, w)
<1>1. list \in Seq(McpServer) /\ Keyed(list)
  BY DEF Sound, IsSettings, StoredSettings
<1>2. m \in McpServer
  BY <1>1, ElementOfSeq
<1>3. q.id = m.id /\ q.enabled = m.enabled
  <2>1. q = Redacted(list)[i]
    BY ViewIs
  <2>2. {"id", "enabled"} \subseteq DOMAIN m
    BY <1>2 DEF McpServer
  <2>3. Redacted(list)[i]["id"] = m["id"] /\ Redacted(list)[i]["enabled"] = m["enabled"]
    BY <2>2, RedactedIs
  <2> QED BY <2>1, <2>3
<1> HIDE DEF q
<1>4. e = [m EXCEPT !.enabled = ~m.enabled]
  <2>1. m # None
    BY <1>2, NoneAssumption
  <2>2. /\ Kept(w, "enabled", m, TRUE) = ~m.enabled /\ Kept(w, "key", m, None) = m.key
        /\ Kept(w, "permissions", m, DefaultPermissions) = m.permissions /\ w.id = m.id
    BY <1>3, <2>1 DEF Kept, Sent
  <2>3. e = UpsertMcp(m, w)
    BY DEF Upsert
  <2> HIDE DEF w, m, e
  <2>4. e = [id |-> m.id, enabled |-> ~m.enabled, permissions |-> m.permissions, key |-> m.key]
    BY <2>2, <2>3, Zenon DEF UpsertMcp
  <2>5. \A on : [m EXCEPT !.enabled = on]
           = [id |-> m.id, enabled |-> on, permissions |-> m.permissions, key |-> m.key]
    BY <1>2, McpRecord
  <2> QED BY <2>4, <2>5, Zenon
<1>5. w.id = m.id /\ e.id = m.id
  BY <1>2, <1>3, <1>4 DEF McpServer
<1> HIDE DEF w, e
<1>6. Sent(u, "removeMcp", {}) = {} /\ Sent(u, "mcp", << >>) = <<w>>
  BY DEF Sent
<1>7. Sent(NoMap, "removeMcp", {}) = {} /\ Sent(NoMap, "mcp", << >>) = << >>
  BY DEF Sent, NoMap
<1>8. SameBut(u, NoMap, "mcp")
  BY DEF SameBut, NoMap
<1> HIDE DEF u
<1>9. t.mcp = Written(list, i, e)
  <2>1. "mcp" \in Kinds /\ Entries("mcp") = McpServer
    BY DEF Kinds, Entries
  <2>2. UpsertNamed("mcp", list, {}, <<w>>) = Written(list, i, Upsert("mcp", m, w))
    BY <1>1, <1>5, <2>1, OneWriteIs DEF e
  <2>3. t.mcp = UpsertNamed("mcp", list, {}, <<w>>)
    BY <1>6 DEF ApplySettingsUpdate
  <2> QED BY <2>2, <2>3 DEF e
<1>10. same.mcp = list
  <2>1. same.mcp = UpsertNamed("mcp", list, {}, << >>)
    BY <1>7 DEF ApplySettingsUpdate
  <2> QED BY <1>1, <2>1, NoWriteIs
<1>11. t = WithMcp(same, t.mcp)
  BY <1>8, OneListOnly, Zenon
<1>12. Written(list, i, e) = [list EXCEPT ![i] = e]
  BY <1>1, WrittenIs
<1>13. ToggleMcp(q) = u
  BY Zenon DEF ToggleMcp, u, w
<1> HIDE DEF t, same
<1>14. t = WithMcp(same, [list EXCEPT ![i] = [m EXCEPT !.enabled = ~m.enabled]])
  BY <1>4, <1>9, <1>11, <1>12, Zenon
<1> HIDE DEF list
<1>15. m = same.mcp[i]
  BY <1>10 DEF list
<1> HIDE DEF m
<1>16. t = [same EXCEPT !.mcp[i].enabled = ~@]
  BY <1>10, <1>14, <1>15, Zenon DEF WithMcp
<1> QED BY <1>13, <1>16, Zenon DEF t, same, q

(* Prompts that are saved as they are shown compose as before.             *)
LEMMA PromptForms ==
  ASSUME NEW s, Sound(s), DOMAIN HostPrompts.perMode \subseteq DOMAIN s.perMode,
         NEW shown \in ModeIds, NEW mode \in ModeIds
  PROVE  ComposePrompt(ApplySettingsUpdate(s, SavePrompts(shown, View(s).global, ShownPrompt(View(s), shown))),
                       mode, None)
           = ComposePrompt(s, mode, None)
<1> DEFINE text == Sent(s.perMode, shown, None)
           u == [global |-> s.global, perMode |-> Only(shown, text)]
           t == ApplySettingsUpdate(s, u)
           P(x) == PromptsFor(x)
<1>1. SavePrompts(shown, View(s).global, ShownPrompt(View(s), shown)) = u
  <2>1. View(s).global = s.global /\ View(s).perMode = s.perMode
    BY ViewIs
  <2> QED BY <2>1, Zenon DEF SavePrompts, ShownPrompt
<1>2. /\ Sent(u, "removeAgents", {}) = {} /\ Sent(u, "agents", << >>) = << >>
      /\ Sent(u, "removeMcp", {}) = {} /\ Sent(u, "mcp", << >>) = << >>
      /\ Sent(u, "global", s.global) = s.global /\ Sent(u, "perMode", NoMap) = Only(shown, text)
  BY DEF Sent
<1>3. s.agents \in Seq(Agent) /\ s.mcp \in Seq(McpServer)
  BY DEF Sound, IsSettings, StoredSettings
<1> HIDE DEF u
<1>4. t.agents = s.agents /\ t.mcp = s.mcp
  <2>1. t.agents = UpsertNamed("agent", s.agents, {}, << >>) /\ t.mcp = UpsertNamed("mcp", s.mcp, {}, << >>)
    BY <1>2 DEF ApplySettingsUpdate
  <2>2. UpsertNamed("agent", s.agents, {}, << >>) = s.agents
    BY <1>3, NoWriteIs
  <2>3. UpsertNamed("mcp", s.mcp, {}, << >>) = s.mcp
    BY <1>3, NoWriteIs
  <2> QED BY <2>1, <2>2, <2>3
<1>5. t.global = s.global /\ t.perMode = Spread(s.perMode, Only(shown, text))
  BY <1>2 DEF ApplySettingsUpdate
<1> HIDE DEF t
<1>6. /\ P(t).global = P(s).global /\ P(t).user = P(s).user /\ P(t).dynamic = P(s).dynamic
      /\ P(t).skills = P(s).skills
  BY <1>5 DEF PromptsFor
<1>7. Sent(P(t).perMode, mode, None) = Sent(P(s).perMode, mode, None)
  <2>1. P(t).perMode = Spread(HostPrompts.perMode, t.perMode) /\ P(s).perMode = Spread(HostPrompts.perMode, s.perMode)
    BY DEF PromptsFor
  <2>2. DOMAIN t.perMode = DOMAIN s.perMode \cup {shown}
        /\ \A x \in DOMAIN t.perMode : t.perMode[x] = IF x = shown THEN text ELSE s.perMode[x]
    BY <1>5 DEF Spread, Only
  <2>3. shown \in DOMAIN s.perMode => text = s.perMode[shown]
    BY DEF Sent
  <2>4. shown \notin DOMAIN s.perMode => text = None
    BY DEF Sent
  <2> HIDE DEF P, text
  <2>5. /\ DOMAIN P(t).perMode = DOMAIN s.perMode \cup {shown} /\ DOMAIN P(s).perMode = DOMAIN s.perMode
        /\ \A x \in DOMAIN P(s).perMode : P(s).perMode[x] = s.perMode[x]
        /\ \A x \in DOMAIN P(t).perMode : P(t).perMode[x] = t.perMode[x]
    BY <2>1, <2>2 DEF Spread
  <2> QED BY <2>2, <2>3, <2>4, <2>5 DEF Sent
<1>8. SoulOf(t, None) = SoulOf(s, None) /\ McpSnapshot(t) = McpSnapshot(s)
  BY <1>4, Zenon DEF SoulOf, McpSnapshot
<1> HIDE DEF P
<1>9. ComposePrompt(t, mode, None) = ComposePrompt(s, mode, None)
  BY <1>6, <1>7, <1>8, Zenon DEF ComposePrompt, P
<1> QED BY <1>1, <1>9, Zenon DEF t

LEMMA FormsAreRight ==
  ASSUME NEW s, Sound(s)
  PROVE  FormsSaveAsShown(s)
<1> DEFINE after(u) == ApplySettingsUpdate(s, u)
           same == after(NoMap)
<1>1. ASSUME NEW i \in DOMAIN s.providers
      PROVE  LET p     == View(s).providers[i]
                 draft == DraftFrom(p)
                 saved(d) == after(SubmitProvider(View(s), ProviderWrite(p, d)))
                 base  == after(IF s.default = None THEN [default |-> p.id] ELSE NoMap)
             IN  /\ saved(draft) = base
                 /\ saved(ClearKey(draft)) = [base EXCEPT !.providers[i].key = None]
                 /\ saved([draft EXCEPT !.override = Unreadable]) = base
                 /\ \A m \in Models : saved(SetModel(p, draft, m)) = [base EXCEPT !.providers[i].model = m]
                 /\ \A w \in Windows :
                      ResolveContextWindow(saved([draft EXCEPT !.override = w]).providers[i], draft.model) = w
                 /\ after(ToggleProvider(p)).providers = [same.providers EXCEPT ![i].active = ~@]
  <2> DEFINE p     == View(s).providers[i]
             draft == DraftFrom(p)
             base  == Base(s, p)
  <2>1. /\ Saved(s, p, draft) = base
        /\ Saved(s, p, ClearKey(draft)) = [base EXCEPT !.providers[i].key = None]
        /\ Saved(s, p, [draft EXCEPT !.override = Unreadable]) = base
        /\ \A m \in Models : Saved(s, p, SetModel(p, draft, m)) = [base EXCEPT !.providers[i].model = m]
    <3>1. ProviderFormsKeep(s, i)
      BY <1>1, ProviderForms
    <3> QED BY <3>1, Zenon DEF ProviderFormsKeep
  <2>2. \A w \in Windows :
          ResolveContextWindow(Saved(s, p, [draft EXCEPT !.override = w]).providers[i], draft.model) = w
    BY <1>1, WindowForms
  <2>3. after(ToggleProvider(p)).providers = [same.providers EXCEPT ![i].active = ~@]
    BY <1>1, ProviderSwitch
  <2> QED BY <2>1, <2>2, <2>3, Zenon DEF Saved, Base, BasePatch
<1>2. ASSUME NEW i \in DOMAIN s.agents
      PROVE  LET a == View(s).agents[i]
             IN  /\ after(SubmitAgent(a, a.label, a.soul)) = same
                 /\ after(ToggleAgent(a)) = [same EXCEPT !.agents[i].active = ~@]
  BY <1>2, AgentForms
<1>3. ASSUME NEW i \in DOMAIN s.mcp
      PROVE  after(ToggleMcp(View(s).mcp[i])) = [same EXCEPT !.mcp[i].enabled = ~@]
  BY <1>3, McpSwitch
<1>4. ASSUME DOMAIN HostPrompts.perMode \subseteq DOMAIN s.perMode, NEW shown \in ModeIds, NEW mode \in ModeIds
      PROVE  ComposePrompt(after(SavePrompts(shown, View(s).global, ShownPrompt(View(s), shown))), mode, None)
               = ComposePrompt(s, mode, None)
  BY <1>4, PromptForms
<1> QED BY <1>1, <1>2, <1>3, <1>4, Zenon DEF FormsSaveAsShown, View

(* What the browser shows is what applies, and saving it changes nothing:  *)
(* this holds of every sound document, so of every stored one.             *)
THEOREM ShownApplies == SettingsSpec => []ShownIsApplied
<1>1. SettingsInv => ShownIsApplied
  <2>1. ASSUME SettingsInv PROVE Sound(Stored)
    BY <2>1 DEF SettingsInv, Fit
  <2> QED BY <2>1, RulesAreMet, BarIsRight, FormsAreRight DEF ShownIsApplied
<1> QED BY <1>1, SettingsInvariant, PTL
=============================================================================
