----------------------------- MODULE Compaction -----------------------------
(***************************************************************************)
(* What of a session's thread is sent to the model: the rolling compactor  *)
(* (core/src/rolling-compaction.ts), its state in the session's record     *)
(* (core/src/harness.ts) and the truncation that follows                   *)
(* (core/src/context-compaction.ts).                                       *)
(*                                                                         *)
(* The turn calls the compactor before each round.  Between its steps      *)
(* settings change, somebody resets the state, the summary fails, the turn *)
(* dies; the thread stands still (TurnThread).  A message is a text, a     *)
(* message with calls, or a result, which gives it its size in tokens; a   *)
(* summary is the set of messages it was made from, if only from the first *)
(* 800 characters of each.  The leading system message is always sent.     *)
(***************************************************************************)
EXTENDS Naturals, Sequences, FiniteSetsExt

CONSTANTS COMPACT_BATCH,   \* messages folded by one call
          BatchText,       \* messages of a batch that surely fit in its text
          MaxMessages,     \* DEFAULT_COMPACTION_MAX_MESSAGES
          KeepRecents,     \* what settings.keepRecent may be
          Targets,         \* token budgets: targetPercent of the context window
          NoWindow,        \* the context window of the model is not known
          Size,            \* the tokens of a message of each kind
          SystemSize, SummarySize,   \* tokens of the system message and a summary
          MaxResults,      \* bound: results of one message's calls
          MaxThread        \* bound: messages of the thread

Messages == {"text", "calls", "result"}

ASSUME CompactionAssumption ==
  /\ COMPACT_BATCH \in Nat \ {0} /\ BatchText \in Nat \ {0} /\ MaxMessages \in Nat \ {0}
  /\ KeepRecents \subseteq Nat \ {0} /\ KeepRecents # {} /\ Targets \subseteq Nat /\ NoWindow \notin Nat
  /\ Size \in [Messages -> Nat] /\ SystemSize \in Nat /\ SummarySize \in Nat
  /\ MaxResults \in Nat /\ MaxThread \in Nat

VARIABLES thread,       \* the messages but the leading system ones: rest
          compaction,   \* record.compaction
          at,           \* where the call of the compactor is
          settings,     \* the settings and the context window it goes by
          next,         \* the state it goes by: what it loaded, or is to save
          sent          \* what the call that has just returned let through

vars == <<thread, compaction, at, settings, next, sent>>

(* throughIndex + 1, the messages in the summary, and those left out of it *)
(* by the strategy "drop" or for want of room in the text of their batch.  *)
States == [through : Nat, held : SUBSET Nat, dropped : SUBSET Nat]
NoState == [through |-> 0, held |-> {}, dropped |-> {}]
Settings == [strategy : {"rolling", "drop", "off"}, keepRecent : KeepRecents,
             target : Targets \cup {NoWindow}]
NoSettings == CHOOSE s \in Settings : s.strategy = "off"

TypeOK ==
  /\ thread \in Seq(Messages)
  /\ compaction \in States /\ next \in States
  /\ \A state \in {compaction, next} : state.through <= Len(thread)
  /\ at \in {"idle", "loading", "summarizing", "saving"}
  /\ settings \in Settings
  /\ sent \in Seq(Messages)

Init ==
  /\ thread = <<>> /\ compaction = NoState
  /\ at = "idle" /\ settings = NoSettings /\ next = NoState /\ sent = <<>>

-----------------------------------------------------------------------------
(* Where to cut.  Indices are those of thread, from 1.                     *)

(* The first message from i on that is not the result of a tool.           *)
AfterResults(messages, i) ==
  Min({j \in i..Len(messages) : messages[j] # "result"} \cup {Len(messages) + 1})

(* alignThrough: results behind what was folded count as folded.           *)
AlignThrough(messages, through) == AfterResults(messages, through + 1) - 1

(* snapKeepFrom: how many messages come before the recent ones, which do   *)
(* not start with a result.                                                *)
KeepFrom(messages, keepRecent) ==
  LET old == IF Len(messages) > keepRecent THEN Len(messages) - keepRecent ELSE 0
  IN  AlignThrough(messages, old)

(* snapEnd: a batch that ends with calls takes their results along.        *)
SnapEnd(messages, end, keepFrom) ==
  LET last == Min({end, keepFrom})
  IN  IF last > 0 /\ messages[last] = "calls"
      THEN Min({keepFrom, AlignThrough(messages, last)})
      ELSE last

Tokens(messages, from) ==
  MapThenSumSet(LAMBDA i : Size[messages[i]], from..Len(messages))

SummaryTokens(state) == IF state = NoState THEN 0 ELSE SummarySize

NeedsCompact(state) ==
  /\ Len(thread) > state.through + settings.keepRecent
  /\ settings.target # NoWindow =>
       Tokens(thread, 1) + SummaryTokens(state) > settings.target

(* Mutant: results at the cut are kept.                                    *)
TruncateContextBare(messages, systemTokens, target) ==
  LET n == Len(messages)
      newest == IF n > MaxMessages THEN n - MaxMessages + 1 ELSE 1
      fitting == IF target = NoWindow THEN newest
                 ELSE Min({i \in newest..(n + 1) :
                             i >= n \/ systemTokens + Tokens(messages, i) <= target})
  IN  SubSeq(messages, fitting, n)

(* truncateContext: the newest messages, as many as are allowed and fit    *)
(* but at least one, without results whose call is cut off.                *)
TruncateContext(messages, systemTokens, target) ==
  LET n == Len(messages)
      newest == IF n > MaxMessages THEN n - MaxMessages + 1 ELSE 1
      fitting == IF target = NoWindow THEN newest
                 ELSE Min({i \in newest..(n + 1) :
                             i >= n \/ systemTokens + Tokens(messages, i) <= target})
  IN  SubSeq(messages, AfterResults(messages, fitting), n)

-----------------------------------------------------------------------------
(* The thread grows while nobody compacts it: a message of the user, an    *)
(* answer, or calls with the results of those that returned.               *)
Grow ==
  /\ at = "idle"
  /\ \/ thread' = Append(thread, "text")
     \/ \E n \in 0..MaxResults : thread' = Append(thread, "calls") \o [i \in 1..n |-> "result"]
  /\ Len(thread') <= MaxThread
  /\ sent' = <<>>
  /\ UNCHANGED <<compaction, at, settings, next>>

(* The call is over, with this sent ...                                    *)
Return(out) ==
  /\ sent' = out
  /\ at' = "idle" /\ settings' = NoSettings /\ next' = NoState

(* ... which is what the state leaves of the thread.                       *)
Outbound(state) ==
  LET verbatim == SubSeq(thread, AlignThrough(thread, state.through) + 1, Len(thread))
      summary == IF state.held # {} THEN SummarySize ELSE 0
  IN  TruncateContext(verbatim, SystemSize + summary, settings.target)

(* The strategy is "off", or the feature: only the number of messages is   *)
(* looked at.                                                              *)
TruncateOnly ==
  /\ at = "idle"
  /\ Return(TruncateContext(thread, SystemSize, NoWindow))
  /\ UNCHANGED <<thread, compaction>>

ReadSettings ==
  /\ at = "idle"
  /\ \E s \in Settings : s.strategy # "off" /\ settings' = s
  /\ at' = "loading"
  /\ sent' = <<>>
  /\ UNCHANGED <<thread, compaction, next>>

(* Mutant: the message at the cursor is taken for the first of the batch.  *)
BatchTooLate(state) ==
  LET start == AlignThrough(thread, state.through) + 1
      keepFrom == KeepFrom(thread, settings.keepRecent)
  IN  (start + 1)..SnapEnd(thread, Min({keepFrom, start + COMPACT_BATCH}), keepFrom)

(* What one call folds: at most a batch, and not the recent messages.      *)
Batch(state) ==
  LET through == AlignThrough(thread, state.through)
      keepFrom == KeepFrom(thread, settings.keepRecent)
  IN  (through + 1)..SnapEnd(thread, Min({keepFrom, through + COMPACT_BATCH}), keepFrom)

Folds(state) == NeedsCompact(state) /\ Batch(state) # {}

(* The state is loaded.  There may be nothing to fold ...                  *)
LoadAndKeep ==
  /\ at = "loading" /\ ~Folds(compaction)
  /\ Return(Outbound(compaction))
  /\ UNCHANGED <<thread, compaction>>

(* ... or a batch to drop, behind whatever summary there is ...            *)
LoadAndDrop ==
  /\ at = "loading" /\ settings.strategy = "drop" /\ Folds(compaction)
  /\ next' = [through |-> Max(Batch(compaction)), held |-> compaction.held,
              dropped |-> compaction.dropped \cup Batch(compaction)]
  /\ at' = "saving"
  /\ UNCHANGED <<thread, compaction, settings, sent>>

(* ... or to summarize, which is a call of the provider.                   *)
LoadAndSummarize ==
  /\ at = "loading" /\ settings.strategy = "rolling" /\ Folds(compaction)
  /\ next' = compaction
  /\ at' = "summarizing"
  /\ UNCHANGED <<thread, compaction, settings, sent>>

(* formatBatch: the first messages of the batch, as many as fit.           *)
Texts(batch) ==
  LET ends == {end \in batch : end >= Min({Max(batch), Min(batch) + BatchText - 1})}
  IN  {{i \in batch : i <= end} : end \in ends}

(* Mutant: the old summary is not given to the model.                      *)
SummarizedAnew ==
  /\ at = "summarizing"
  /\ \E text \in Texts(Batch(next)) :
       next' = [through |-> Max(Batch(next)), held |-> text,
                dropped |-> next.dropped \cup (Batch(next) \ text)]
  /\ at' = "saving"
  /\ UNCHANGED <<thread, compaction, settings, sent>>

(* The summary of the old summary and the batch ...                        *)
Summarized ==
  /\ at = "summarizing"
  /\ \E text \in Texts(Batch(next)) :
       next' = [through |-> Max(Batch(next)), held |-> next.held \cup text,
                dropped |-> next.dropped \cup (Batch(next) \ text)]
  /\ at' = "saving"
  /\ UNCHANGED <<thread, compaction, settings, sent>>

(* ... fails or is empty, and the state stays.                             *)
NoSummary ==
  /\ at = "summarizing"
  /\ Return(Outbound(next))
  /\ UNCHANGED <<thread, compaction>>

(* saveState; nothing asks whether the state is still the one loaded.      *)
SaveState ==
  /\ at = "saving"
  /\ compaction' = next
  /\ Return(Outbound(next))
  /\ UNCHANGED thread

(* A store throws, or the process dies.                                    *)
Abandon ==
  /\ at # "idle"
  /\ at' = "idle" /\ settings' = NoSettings /\ next' = NoState
  /\ UNCHANGED <<thread, compaction, sent>>

(* resetCompaction, at any time.                                           *)
Reset ==
  /\ compaction' = NoState
  /\ UNCHANGED <<thread, at, settings, next, sent>>

Call == TruncateOnly \/ ReadSettings \/ LoadAndKeep \/ LoadAndDrop \/ LoadAndSummarize
        \/ Summarized \/ NoSummary \/ SaveState

Next == Grow \/ Call \/ Abandon \/ Reset

Spec == Init /\ [][Next]_vars

-----------------------------------------------------------------------------
(* Properties.                                                             *)

(* "a provider never sees tool results without their assistant parent"     *)
(* (truncateContext): before a result that is sent come only results of    *)
(* the same message, and that message.                                     *)
IsAnswered(messages, i) ==
  \E call \in 1..(i - 1) :
    /\ messages[call] = "calls"
    /\ \A j \in (call + 1)..i : messages[j] = "result"

SentIsAnswerable ==
  \A i \in DOMAIN sent : sent[i] = "result" => IsAnswered(sent, i)

(* What is not sent any more because the cursor is behind it is in the     *)
(* summary, or was left out of it as States says: no message of the user   *)
(* or the assistant falls between two batches, whatever settings, failures *)
(* and resets come between.  (Results can: see the README.)                *)
TextIsAccounted ==
  \A i \in 1..compaction.through :
    thread[i] # "result" => i \in compaction.held \cup compaction.dropped

(* Short of a reset the cursor never goes back: no message is folded or    *)
(* paid for twice, and what the summary holds it keeps.                    *)
CursorAdvances ==
  [][compaction' # NoState =>
       /\ compaction'.through >= compaction.through
       /\ compaction.held \subseteq compaction'.held]_vars
=============================================================================
