----------------------------- MODULE TurnThread -----------------------------
(***************************************************************************)
(* What the turns of one session write: the thread sent to the model       *)
(* (record.messages) and the transcript shown to the user                  *)
(* (record.transcript), by executeTurn and its helpers in                  *)
(* core/src/turn-loop.ts.                                                  *)
(*                                                                         *)
(* A turn writes after every step it finishes.  Between two writes it can  *)
(* be cancelled, a tool, hook or store can throw, and the process can die; *)
(* the next turn goes on from what is stored.  Turns come one after the    *)
(* other (TurnAdmission) and a write of the record is one step             *)
(* (SessionCache).  Who decides gates, and how, is in TurnGates: here a    *)
(* call at a gate is answered or cancelled.                                *)
(***************************************************************************)
EXTENDS Naturals, Sequences

CONSTANTS MaxToolRounds,   \* policies.maxToolRounds
          MaxCalls,        \* bound: tool calls of one round
          MaxTurns,        \* bound: turns started
          MaxTroubles      \* bound: errors thrown and restarts

ASSUME ThreadAssumption ==
  /\ MaxToolRounds \in Nat /\ MaxCalls \in Nat
  /\ MaxTurns \in Nat /\ MaxTroubles \in Nat

VARIABLES messages,     \* record.messages
          transcript,   \* record.transcript
          at,           \* where the live turn is in executeTurn
          aborted,      \* its signal
          loaded,       \* the thread and transcript it read at its start
          record,       \* the thread it sends: what its last write returned
          round,        \* toolRounds
          content,      \* whether the text of the round it streamed last is not empty
          calls,        \* the number of tool calls of the round
          call,         \* the call it works on
          tools,        \* turnTools
          terminal,     \* the terminal event of the last turn
          turns, troubles   \* counters for the bounds; turns also names the turn

storedVars == <<messages, transcript>>
roundVars == <<content, calls, call>>
boundVars == <<turns, troubles>>
vars == <<storedVars, at, aborted, loaded, record, round, roundVars, tools, terminal, boundVars>>

(* Messages are told apart by the turn, round and call they belong to.     *)
UserMessages == [role : {"user"}, turn : Nat]
AssistantMessages ==
  [role : {"assistant"}, turn : Nat, round : Nat, calls : Nat, text : BOOLEAN]
ToolMessages == [role : {"tool"}, turn : Nat, round : Nat, call : Nat]
Messages == UserMessages \cup AssistantMessages \cup ToolMessages

(* A question and its answer are rows of their own; the results of other   *)
(* calls are listed in the assistant row of the turn.                      *)
CallIds == Nat \X Nat \X Nat
Marks == {"partial", "cancelled", "complete"}
Rows == [kind : {"user"}, turn : Nat]
        \cup [kind : {"question", "answer"}, of : CallIds]
        \cup [kind : {"assistant"}, turn : Nat, tools : SUBSET CallIds, mark : Marks]

Places == {"idle", "loaded", "round", "streaming", "calls", "tool", "asking",
           "recovering", "over"}

TypeOK ==
  /\ messages \in Seq(Messages) /\ transcript \in Seq(Rows)
  /\ at \in Places /\ aborted \in BOOLEAN
  /\ loaded \in [messages : Seq(Messages), transcript : Seq(Rows)]
  /\ record \in Seq(Messages)
  /\ round \in 0..MaxToolRounds /\ content \in BOOLEAN
  /\ calls \in 0..MaxCalls /\ call \in 0..(calls + 1)
  /\ tools \subseteq CallIds
  /\ terminal \in {"none", "done", "cancelled", "error", "lost"}
  /\ turns \in 0..MaxTurns /\ troubles \in 0..MaxTroubles

Nothing == [messages |-> <<>>, transcript |-> <<>>]   \* no snapshot is in scope

Init ==
  /\ messages = <<>> /\ transcript = <<>>
  /\ at = "idle" /\ aborted = FALSE /\ loaded = Nothing /\ record = <<>>
  /\ round = 0 /\ content = FALSE /\ calls = 0 /\ call = 0 /\ tools = {}
  /\ terminal = "none" /\ turns = 0 /\ troubles = 0

-----------------------------------------------------------------------------
(* What is written.                                                        *)

GoTo(place) == at' = place

ThisCall == <<turns, round, call>>
Said(n, text) ==
  [role |-> "assistant", turn |-> turns, round |-> round, calls |-> n, text |-> text]
Result == [role |-> "tool", turn |-> turns, round |-> round, call |-> call]
Row(shown, mark) == [kind |-> "assistant", turn |-> turns, tools |-> shown, mark |-> mark]

(* Mutant: every write of the assistant row adds one.                      *)
UpsertAppends(rows, row) == Append(rows, row)

(* A partial row of the assistant is replaced if it is the last one.       *)
UpsertAssistantRow(rows, row) ==
  IF /\ rows # <<>>
     /\ rows[Len(rows)].kind = "assistant"
     /\ rows[Len(rows)].mark = "partial"
  THEN [rows EXCEPT ![Len(rows)] = row]
  ELSE Append(rows, row)

(* Mutant: the row of a cancelled turn forgets what its tools returned.    *)
FinishCancelledBare(text) ==
  /\ messages' = IF text THEN Append(messages, Said(0, TRUE)) ELSE messages
  /\ transcript' = UpsertAssistantRow(transcript, Row({}, "cancelled"))
  /\ terminal' = "cancelled"
  /\ GoTo("over")

(* finishCancelled, with the text of the round streamed last.  In the      *)
(* middle of a round that text is in the thread already and is stored      *)
(* again; the calls that are left stay without results.                    *)
FinishCancelled(text) ==
  /\ messages' = IF text THEN Append(messages, Said(0, TRUE)) ELSE messages
  /\ transcript' = UpsertAssistantRow(transcript, Row(tools, "cancelled"))
  /\ terminal' = "cancelled"
  /\ GoTo("over")

(* persistPartial, and the error event.                                    *)
PersistPartial(text) ==
  /\ messages' = IF text THEN Append(messages, Said(0, TRUE)) ELSE messages
  /\ transcript' = UpsertAssistantRow(transcript, Row(tools, "partial"))
  /\ terminal' = "error"
  /\ GoTo("over")

-----------------------------------------------------------------------------
(* The turn.                                                               *)

(* executeTurn loads the record ...                                        *)
BeginTurn ==
  /\ at = "idle" /\ turns < MaxTurns
  /\ loaded' = [messages |-> messages, transcript |-> transcript]
  /\ turns' = turns + 1
  /\ terminal' = "none"
  /\ GoTo("loaded")
  /\ UNCHANGED <<storedVars, aborted, record, round, roundVars, tools, troubles>>

(* ... may find no provider, or fail to pin the turn or to resolve a       *)
(* reference, and is over with nothing written ...                         *)
Refuse ==
  /\ at = "loaded"
  /\ terminal' \in {"error", "lost"}
  /\ GoTo("over")
  /\ UNCHANGED <<storedVars, aborted, loaded, record, round, roundVars, tools, boundVars>>

(* ... or adds to what it loaded what resolveUserTurns makes of the send   *)
(* and its follow-ups, one message and one row here.                       *)
StoreSend ==
  /\ at = "loaded"
  /\ messages' = Append(loaded.messages, [role |-> "user", turn |-> turns])
  /\ transcript' = Append(loaded.transcript, [kind |-> "user", turn |-> turns])
  /\ record' = messages'
  /\ GoTo("round")
  /\ UNCHANGED <<aborted, loaded, round, roundVars, tools, terminal, boundVars>>

(* The head of the loop: a turn told to stop stops here, with the text of  *)
(* the round before ...                                                    *)
StopAtHead ==
  /\ at = "round" /\ aborted
  /\ FinishCancelled(content)
  /\ UNCHANGED <<aborted, loaded, record, round, roundVars, tools, boundVars>>

(* ... another sends the thread.                                           *)
SendThread ==
  /\ at = "round" /\ ~aborted
  /\ GoTo("streaming")
  /\ UNCHANGED <<storedVars, aborted, loaded, record, round, roundVars, tools, terminal,
                 boundVars>>

(* streamProvider: the stream is cancelled, with or without some text; so  *)
(* is one that runs into its timeout, since the provider client turns that *)
(* into an AbortError ...                                                  *)
StreamCancelled ==
  /\ at = "streaming"
  /\ \E text \in BOOLEAN : content' = text /\ FinishCancelled(text)
  /\ UNCHANGED <<aborted, loaded, record, round, calls, call, tools, boundVars>>

(* ... or it fails.                                                        *)
StreamFails ==
  /\ at = "streaming" /\ ~aborted
  /\ \E text \in BOOLEAN : content' = text /\ PersistPartial(text)
  /\ UNCHANGED <<aborted, loaded, record, round, calls, call, tools, boundVars>>

AtCap == round >= MaxToolRounds

(* The stream is complete and calls no tool, or the rounds are used up and *)
(* what it calls is not carried out: persistTerminalAssistant.             *)
StreamAnswers ==
  /\ at = "streaming"
  /\ \E text \in BOOLEAN, n \in IF AtCap THEN 0..MaxCalls ELSE {0} :
       /\ content' = text
       /\ messages' = Append(messages, Said(n, text))
  /\ transcript' = UpsertAssistantRow(transcript, Row(tools, "complete"))
  /\ terminal' = "done"
  /\ GoTo("over")
  /\ UNCHANGED <<aborted, loaded, record, round, calls, call, tools, boundVars>>

(* Mutant: the calls are added to the thread as the turn found it.         *)
StreamCallsOnLoaded ==
  /\ at = "streaming" /\ ~AtCap
  /\ \E text \in BOOLEAN, n \in 1..MaxCalls :
       /\ content' = text
       /\ calls' = n
       /\ messages' = Append(loaded.messages, Said(n, text))
  /\ call' = 1
  /\ record' = messages'
  /\ GoTo("calls")
  /\ UNCHANGED <<transcript, aborted, loaded, round, tools, terminal, boundVars>>

(* Mutant: the calls are carried out before they are stored.               *)
StreamCallsUnstored ==
  /\ at = "streaming" /\ ~AtCap
  /\ \E text \in BOOLEAN, n \in 1..MaxCalls : content' = text /\ calls' = n
  /\ call' = 1
  /\ GoTo("calls")
  /\ UNCHANGED <<storedVars, aborted, loaded, record, round, tools, terminal, boundVars>>

(* The stream is complete and calls tools: the calls are added to the      *)
(* thread that was sent, and are carried out in order.                     *)
StreamCalls ==
  /\ at = "streaming" /\ ~AtCap
  /\ \E text \in BOOLEAN, n \in 1..MaxCalls :
       /\ content' = text
       /\ calls' = n
       /\ messages' = Append(record, Said(n, text))
  /\ call' = 1
  /\ record' = messages'
  /\ GoTo("calls")
  /\ UNCHANGED <<transcript, aborted, loaded, round, tools, terminal, boundVars>>

(* Before each call a turn told to stop stops.                             *)
StopBeforeCall ==
  /\ at = "calls" /\ call <= calls /\ aborted
  /\ FinishCancelled(content)
  /\ UNCHANGED <<aborted, loaded, record, round, roundVars, tools, boundVars>>

(* A tool, a skill, or a gate that is denied outright.                     *)
TakeTool ==
  /\ at = "calls" /\ call <= calls /\ ~aborted
  /\ GoTo("tool")
  /\ UNCHANGED <<storedVars, aborted, loaded, record, round, roundVars, tools, terminal,
                 boundVars>>

(* A plan or mode switch (runPlanGate, runModeSwitchGate): what there is   *)
(* of the answer is stored, with the gate, before the wait.                *)
RaiseGate ==
  /\ at = "calls" /\ call <= calls /\ ~aborted
  /\ transcript' = UpsertAssistantRow(transcript, Row(tools, "partial"))
  /\ GoTo("tool")
  /\ UNCHANGED <<messages, aborted, loaded, record, round, roundVars, tools, terminal,
                 boundVars>>

(* runAskUserGate: a question to the user is stored as a row of its own.   *)
RaiseQuestion ==
  /\ at = "calls" /\ call <= calls /\ ~aborted
  /\ transcript' = Append(UpsertAssistantRow(transcript, Row(tools, "partial")),
                          [kind |-> "question", of |-> ThisCall])
  /\ GoTo("asking")
  /\ UNCHANGED <<messages, aborted, loaded, record, round, roundVars, tools, terminal,
                 boundVars>>

(* The call returns, or the person decides (completeGateTool, which does   *)
(* the same): the result is added to thread and row.                       *)
ToolReturns ==
  /\ at = "tool"
  /\ tools' = tools \cup {ThisCall}
  /\ messages' = Append(messages, Result)
  /\ transcript' = UpsertAssistantRow(transcript, Row(tools', "partial"))
  /\ record' = messages'
  /\ call' = call + 1
  /\ GoTo("calls")
  /\ UNCHANGED <<aborted, loaded, round, content, calls, terminal, boundVars>>

(* The answer is shown as a row of the user, not as a result of a tool.    *)
QuestionAnswered ==
  /\ at = "asking"
  /\ messages' = Append(messages, Result)
  /\ transcript' = Append(transcript, [kind |-> "answer", of |-> ThisCall])
  /\ record' = messages'
  /\ call' = call + 1
  /\ GoTo("calls")
  /\ UNCHANGED <<aborted, loaded, round, content, calls, tools, terminal, boundVars>>

(* A tool or gate that meets the signal ends the turn, and so does a tool  *)
(* that throws an AbortError of its own.                                   *)
CallCancelled ==
  /\ at = "tool" \/ (at = "asking" /\ aborted)
  /\ FinishCancelled(content)
  /\ UNCHANGED <<aborted, loaded, record, round, roundVars, tools, boundVars>>

CallsOver ==
  /\ at = "calls" /\ call > calls
  /\ round' = round + 1
  /\ GoTo("round")
  /\ UNCHANGED <<storedVars, aborted, loaded, record, roundVars, tools, terminal, boundVars>>

-----------------------------------------------------------------------------
(* Trouble.                                                                *)

(* The store, the compaction hook or a catalog throws.  The stream's text  *)
(* is known by then, and a call that has returned is listed, if the write  *)
(* that was to follow is what fails.                                       *)
Throws ==
  /\ troubles < MaxTroubles
  /\ at \in {"round", "streaming", "calls", "tool", "asking"}
  /\ IF at = "streaming" THEN content' \in BOOLEAN ELSE UNCHANGED content
  /\ IF at = "tool" THEN tools' \in {tools, tools \cup {ThisCall}} ELSE UNCHANGED tools
  /\ troubles' = troubles + 1
  /\ GoTo("recovering")
  /\ UNCHANGED <<storedVars, aborted, loaded, record, round, calls, call, terminal, turns>>

(* The handler around the loop stores what there is ...                    *)
Recover ==
  /\ at = "recovering"
  /\ FinishCancelled(content) \/ (~aborted /\ PersistPartial(content))
  /\ UNCHANGED <<aborted, loaded, record, round, roundVars, tools, boundVars>>

(* ... or fails in turn, and the turn ends without a terminal event.       *)
RecoverThrows ==
  /\ at = "recovering" /\ troubles < MaxTroubles
  /\ troubles' = troubles + 1
  /\ terminal' = "lost"
  /\ GoTo("over")
  /\ UNCHANGED <<storedVars, aborted, loaded, record, round, roundVars, tools, turns>>

(* What a turn knows goes with it.                                         *)
ForgetTurn ==
  /\ GoTo("idle")
  /\ aborted' = FALSE /\ loaded' = Nothing /\ record' = <<>>
  /\ round' = 0 /\ content' = FALSE /\ calls' = 0 /\ call' = 0 /\ tools' = {}
  /\ UNCHANGED <<storedVars, turns>>

EndTurn ==
  /\ at = "over"
  /\ ForgetTurn
  /\ UNCHANGED <<terminal, troubles>>

(* The process dies in the middle of a turn.                               *)
Crash ==
  /\ at \notin {"idle", "over"} /\ troubles < MaxTroubles
  /\ troubles' = troubles + 1
  /\ terminal' = "lost"
  /\ ForgetTurn

(* cancel(), a follow-up, or the end of the request.                       *)
Cancel ==
  /\ at # "idle" /\ ~aborted
  /\ aborted' = TRUE
  /\ UNCHANGED <<storedVars, at, loaded, record, round, roundVars, tools, terminal, boundVars>>

Stops == StopAtHead \/ StreamCancelled \/ StreamFails \/ StopBeforeCall \/ CallCancelled \/ Recover
Works == StoreSend \/ SendThread \/ StreamAnswers \/ StreamCalls \/ TakeTool \/ RaiseGate
         \/ RaiseQuestion \/ ToolReturns \/ QuestionAnswered \/ CallsOver

Next == BeginTurn \/ Refuse \/ Works \/ Stops \/ EndTurn
        \/ Throws \/ RecoverThrows \/ Crash \/ Cancel

Spec == Init /\ [][Next]_vars

-----------------------------------------------------------------------------
(* Properties.                                                             *)

(* Every result in the thread stands right behind the results of the       *)
(* earlier calls of its round, which stand right behind the message that   *)
(* makes the calls: no result is stored twice, out of order, without its   *)
(* call, or behind something else, whatever interrupted the turns.         *)
FollowsItsCall(thread, i) ==
  LET m == thread[i]
      a == i - m.call
  IN  /\ m.call >= 1 /\ a \in DOMAIN thread
      /\ thread[a].role = "assistant"
      /\ thread[a].turn = m.turn /\ thread[a].round = m.round /\ m.call <= thread[a].calls

ResultsFollowCalls ==
  \A i \in DOMAIN messages : messages[i].role = "tool" => FollowsItsCall(messages, i)

(* The user sees every result the model sees: in a row of the assistant,   *)
(* or as the answer to a question.                                         *)
Shown(id) ==
  \E i \in DOMAIN transcript :
    \/ transcript[i].kind = "assistant" /\ id \in transcript[i].tools
    \/ transcript[i].kind = "answer" /\ id = transcript[i].of

ResultsAreShown ==
  \A i \in DOMAIN messages :
    messages[i].role = "tool" => Shown(<<messages[i].turn, messages[i].round, messages[i].call>>)

(* A round beyond the cap carries nothing out, even if the provider calls  *)
(* tools it was not offered.                                               *)
CapIsKept ==
  \A i \in DOMAIN messages : messages[i].role = "tool" => messages[i].round < MaxToolRounds

(* A row that stays partial has a reason: a question follows it, or its    *)
(* turn failed or died.  A turn that is done or was cancelled leaves no    *)
(* partial row at the end.                                                 *)
IsPartial(i) == transcript[i].kind = "assistant" /\ transcript[i].mark = "partial"

PartialRowsAreExplained ==
  \A i \in DOMAIN transcript :
    IsPartial(i) =>
      IF i < Len(transcript)
      THEN transcript[i + 1].kind \in {"question", "user"}
      ELSE terminal \notin {"done", "cancelled"}

(* "Stored messages stay verbatim" (session-record.ts): no step changes or *)
(* drops a message, nor a row other than the partial one at the end.       *)
Keeps(old, new, last) ==
  Len(old) <= Len(new) /\ \A i \in 1..last : new[i] = old[i]

SettledRows == IF transcript # <<>> /\ IsPartial(Len(transcript))
               THEN Len(transcript) - 1 ELSE Len(transcript)

HistoryIsKept ==
  [][/\ Keeps(messages, messages', Len(messages))
     /\ Keeps(transcript, transcript', SettledRows)]_vars
=============================================================================
