------------------------- MODULE TurnThread_proofs -------------------------
(***************************************************************************)
(* What holds of TurnThread for every number of turns, rounds, calls and   *)
(* troubles.                                                               *)
(***************************************************************************)
EXTENDS TurnThread, TLAPS

(* Where the turn works from what it wrote last.                           *)
InLoop == {"round", "streaming", "calls", "tool", "asking"}
AtCall == {"calls", "tool", "asking"}

KnowsTheThread ==
  /\ at \in InLoop => record = messages
  /\ at = "loaded" => loaded = [messages |-> messages, transcript |-> transcript]

(* At a call, the results of the calls before it end the thread, behind    *)
(* the message that makes them.                                            *)
CallsArePending ==
  at \in AtCall =>
    LET a == (Len(messages) + 1) - call
    IN  /\ call >= 1 /\ (at # "calls" => call <= calls)
        /\ round < MaxToolRounds
        /\ a \in DOMAIN messages
        /\ messages[a].role = "assistant"
        /\ messages[a].turn = turns /\ messages[a].round = round /\ messages[a].calls = calls

(* A partial row at the end is the turn's own, and lists nothing that its  *)
(* next row would not.                                                     *)
LastRow == transcript[Len(transcript)]
TailIsOurs ==
  (at \in InLoop \cup {"recovering"} /\ transcript # <<>> /\ IsPartial(Len(transcript)))
    => LastRow.tools \subseteq tools

QuestionIsLast == at = "asking" => transcript # <<>> /\ LastRow.kind = "question"

TerminalIsOver == terminal \in {"done", "cancelled"} => at \in {"over", "idle"}

ThreadInv ==
  /\ TypeOK /\ KnowsTheThread /\ CallsArePending
  /\ TailIsOurs /\ QuestionIsLast /\ TerminalIsOver
  /\ ResultsFollowCalls /\ ResultsAreShown /\ CapIsKept /\ PartialRowsAreExplained

-----------------------------------------------------------------------------
(* Operators.                                                              *)

Partial(row) == row.kind = "assistant" /\ row.mark = "partial"

(* Upserting either replaces a partial row at the end or adds a row.       *)
LEMMA UpsertIs ==
  ASSUME NEW rows \in Seq(Rows), NEW row \in Rows
  PROVE  LET new == UpsertAssistantRow(rows, row)
             last == Len(new)
         IN  /\ new \in Seq(Rows) /\ last >= 1 /\ last \in Nat /\ new[last] = row
             /\ \/ last = Len(rows) + 1 /\ (Len(rows) >= 1 => ~Partial(rows[Len(rows)]))
                \/ last = Len(rows) /\ Partial(rows[last])
             /\ \A i \in 1..(last - 1) : new[i] = rows[i]
<1>1. CASE rows # <<>> /\ Partial(rows[Len(rows)])
  BY <1>1 DEF UpsertAssistantRow, Partial
<1>2. CASE ~(rows # <<>> /\ Partial(rows[Len(rows)]))
  BY <1>2 DEF UpsertAssistantRow, Partial
<1>. QED  BY <1>1, <1>2

LEMMA AppendTyped ==
  ASSUME NEW S, NEW seq \in Seq(S), NEW x \in S
  PROVE  Append(seq, x) \in Seq(S)
OBVIOUS

LEMMA RowIsRow ==
  ASSUME TypeOK, NEW shown \in SUBSET CallIds, NEW mark \in Marks
  PROVE  /\ Row(shown, mark) \in Rows
         /\ Row(shown, mark).kind = "assistant"
         /\ Row(shown, mark).tools = shown /\ Row(shown, mark).mark = mark
BY ThreadAssumption DEF Row, Rows, TypeOK

LEMMA MessageTypes ==
  ASSUME TypeOK
  PROVE  /\ Result \in Messages
         /\ \A n \in Nat, text \in BOOLEAN : Said(n, text) \in Messages
         /\ [role |-> "user", turn |-> turns] \in Messages
         /\ ThisCall \in CallIds
BY ThreadAssumption DEF TypeOK, Result, Said, ThisCall, CallIds, Messages, UserMessages,
   AssistantMessages, ToolMessages

-----------------------------------------------------------------------------
(* What a step writes.                                                     *)

(* A step leaves the thread alone or adds one message to it; a result only *)
(* where a call returns.                                                   *)
LEMMA ThreadGrows ==
  ASSUME ThreadInv, [Next]_vars
  PROVE  \/ messages' = messages
         \/ \E m \in Messages :
              /\ messages' = Append(messages, m)
              /\ m.role = "tool" => (ToolReturns \/ QuestionAnswered) /\ m = Result
<1> USE DEF ThreadInv
<1>1. ASSUME NEW text \in BOOLEAN, FinishCancelled(text) \/ PersistPartial(text)
      PROVE  \/ messages' = messages
             \/ /\ messages' = Append(messages, Said(0, TRUE)) /\ Said(0, TRUE) \in Messages
                /\ Said(0, TRUE).role # "tool"
  BY <1>1, MessageTypes DEF FinishCancelled, PersistPartial, Said
<1>2. CASE StopAtHead \/ StopBeforeCall \/ CallCancelled \/ Recover
  BY <1>1, <1>2 DEF StopAtHead, StopBeforeCall, CallCancelled, Recover, TypeOK
<1>3. CASE StreamCancelled \/ StreamFails
  BY <1>1, <1>3 DEF StreamCancelled, StreamFails
<1>4. CASE StoreSend
  <2>1. loaded.messages = messages
    BY <1>4 DEF StoreSend, KnowsTheThread
  <2>. QED  BY <1>4, <2>1, MessageTypes DEF StoreSend
<1>5. CASE StreamAnswers \/ StreamCalls
  <2>1. record = messages
    BY <1>5 DEF StreamAnswers, StreamCalls, KnowsTheThread, InLoop
  <2>2. ASSUME NEW n \in Nat, NEW text \in BOOLEAN PROVE Said(n, text).role # "tool"
    BY DEF Said
  <2>3. \E n \in Nat, text \in BOOLEAN : messages' = Append(messages, Said(n, text))
    BY <1>5, <2>1, ThreadAssumption DEF StreamAnswers, StreamCalls
  <2>. QED  BY <2>2, <2>3, MessageTypes
<1>6. CASE ToolReturns \/ QuestionAnswered
  BY <1>6, MessageTypes DEF ToolReturns, QuestionAnswered
<1>7. CASE BeginTurn \/ Refuse \/ SendThread \/ TakeTool \/ RaiseGate \/ RaiseQuestion
           \/ CallsOver \/ Throws \/ RecoverThrows \/ EndTurn \/ Crash \/ Cancel
  BY <1>7 DEF BeginTurn, Refuse, SendThread, TakeTool, RaiseGate, RaiseQuestion, CallsOver,
     Throws, RecoverThrows, EndTurn, Crash, ForgetTurn, Cancel, storedVars
<1>8. CASE UNCHANGED vars
  BY <1>8 DEF vars, storedVars
<1>. QED  BY <1>2, <1>3, <1>4, <1>5, <1>6, <1>7, <1>8 DEF Next, Works, Stops

(* A step leaves the transcript alone, puts the assistant's row, which     *)
(* lists all the turn has listed, or adds a row of the user or a question. *)
LEMMA TranscriptGrows ==
  ASSUME ThreadInv, [Next]_vars
  PROVE  \/ /\ transcript' = transcript
            /\ terminal' = terminal \/ terminal' \notin {"done", "cancelled"}
         \/ \E mark \in Marks :
              /\ transcript' = UpsertAssistantRow(transcript, Row(tools', mark))
              /\ at \in InLoop \cup {"recovering"} /\ tools \subseteq tools'
              /\ mark = "partial" => terminal' \notin {"done", "cancelled"}
         \/ RaiseQuestion
         \/ StoreSend /\ transcript' = Append(transcript, [kind |-> "user", turn |-> turns])
         \/ QuestionAnswered
<1> USE DEF ThreadInv, Marks, InLoop, TerminalIsOver
<1>1. CASE StopAtHead \/ StopBeforeCall \/ CallCancelled \/ Recover
           \/ StreamCancelled \/ StreamFails
  BY <1>1 DEF StopAtHead, StopBeforeCall, CallCancelled, Recover, StreamCancelled,
     StreamFails, FinishCancelled, PersistPartial
<1>2. CASE StoreSend
  <2>1. loaded.transcript = transcript
    BY <1>2 DEF StoreSend, KnowsTheThread
  <2>. QED  BY <1>2, <2>1 DEF StoreSend
<1>3. CASE StreamAnswers
  BY <1>3 DEF StreamAnswers
<1>4. CASE ToolReturns
  BY <1>4 DEF ToolReturns
<1>5. CASE RaiseGate
  BY <1>5 DEF RaiseGate
<1>6. CASE BeginTurn \/ Refuse \/ SendThread \/ StreamCalls \/ TakeTool \/ CallsOver
           \/ Throws \/ RecoverThrows \/ EndTurn \/ Crash \/ Cancel
  BY <1>6 DEF BeginTurn, Refuse, SendThread, StreamCalls, TakeTool, CallsOver, Throws,
     RecoverThrows, EndTurn, Crash, ForgetTurn, Cancel, storedVars
<1>7. CASE UNCHANGED vars
  BY <1>7 DEF vars, storedVars
<1>. QED  BY <1>1, <1>2, <1>3, <1>4, <1>5, <1>6, <1>7 DEF Next, Works, Stops

-----------------------------------------------------------------------------
(* Types.                                                                  *)

LEMMA StoredTypesKept ==
  ASSUME ThreadInv, [Next]_vars, tools' \subseteq CallIds
  PROVE  messages' \in Seq(Messages) /\ transcript' \in Seq(Rows)
<1>1. TypeOK /\ messages \in Seq(Messages) /\ transcript \in Seq(Rows) /\ tools \subseteq CallIds
  BY DEF ThreadInv, TypeOK
<1>2. \A m \in Messages : Append(messages, m) \in Seq(Messages)
  BY <1>1, AppendTyped
<1>3. messages' \in Seq(Messages)
  BY <1>1, <1>2, ThreadGrows
<1>4. /\ [kind |-> "answer", of |-> ThisCall] \in Rows
      /\ [kind |-> "question", of |-> ThisCall] \in Rows
      /\ [kind |-> "user", turn |-> turns] \in Rows
  <2>1. ThisCall \in CallIds /\ turns \in Nat
    BY <1>1, MessageTypes, ThreadAssumption DEF TypeOK
  <2>. QED  BY <2>1 DEF Rows
<1>5. \A rows \in Seq(Rows), row \in Rows : Append(rows, row) \in Seq(Rows)
  BY AppendTyped
<1>6. ASSUME NEW mark \in Marks, NEW shown \in SUBSET CallIds
      PROVE  UpsertAssistantRow(transcript, Row(shown, mark)) \in Seq(Rows)
  BY <1>1, RowIsRow, UpsertIs
<1>7. CASE RaiseQuestion
  <2>1. UpsertAssistantRow(transcript, Row(tools, "partial")) \in Seq(Rows)
    BY <1>1, <1>6 DEF Marks
  <2>2. transcript' = Append(UpsertAssistantRow(transcript, Row(tools, "partial")),
                             [kind |-> "question", of |-> ThisCall])
    BY <1>7 DEF RaiseQuestion
  <2>. QED  BY <1>3, <1>4, <1>5, <2>1, <2>2
<1>8. CASE QuestionAnswered
  <2>1. transcript' = Append(transcript, [kind |-> "answer", of |-> ThisCall])
    BY <1>8 DEF QuestionAnswered
  <2>. QED  BY <1>1, <1>3, <1>4, <1>5, <2>1
<1>. QED  BY <1>1, <1>3, <1>4, <1>5, <1>6, <1>7, <1>8, TranscriptGrows

LEMMA TypesKept == ASSUME ThreadInv, [Next]_vars PROVE TypeOK'
<1> USE ThreadAssumption DEF ThreadInv, Places, GoTo
<1>1. /\ tools' \subseteq CallIds /\ aborted' \in BOOLEAN /\ content' \in BOOLEAN
      /\ at' \in Places
      /\ terminal' \in {"none", "done", "cancelled", "error", "lost"}
      /\ turns' \in 0..MaxTurns /\ troubles' \in 0..MaxTroubles
      /\ round' \in 0..MaxToolRounds
      /\ calls' \in 0..MaxCalls /\ call' \in 0..(calls' + 1)
      /\ loaded' \in {loaded, Nothing, [messages |-> messages, transcript |-> transcript]}
      /\ record' \in {record, messages', <<>>}
  <2>1. CASE BeginTurn
    BY <2>1 DEF BeginTurn, TypeOK, roundVars
  <2>2. CASE Refuse \/ StoreSend
    BY <2>2 DEF Refuse, StoreSend, TypeOK, roundVars, boundVars
  <2>3. CASE StopAtHead \/ StopBeforeCall \/ CallCancelled \/ Recover
    BY <2>3 DEF StopAtHead, StopBeforeCall, CallCancelled, Recover, FinishCancelled,
       PersistPartial, TypeOK, roundVars, boundVars
  <2>4. CASE StreamCancelled \/ StreamFails
    BY <2>4 DEF StreamCancelled, StreamFails, FinishCancelled, PersistPartial, TypeOK, boundVars
  <2>5. CASE SendThread \/ TakeTool \/ RaiseGate \/ RaiseQuestion
    BY <2>5 DEF SendThread, TakeTool, RaiseGate, RaiseQuestion, TypeOK, roundVars, boundVars
  <2>6. CASE StreamAnswers
    BY <2>6 DEF StreamAnswers, TypeOK, boundVars
  <2>7. CASE StreamCalls
    BY <2>7 DEF StreamCalls, TypeOK, boundVars
  <2>8. CASE ToolReturns \/ QuestionAnswered
    <3>1. ThisCall \in CallIds /\ call + 1 \in 0..(calls + 1)
      BY <2>8, MessageTypes DEF ToolReturns, QuestionAnswered, CallsArePending, AtCall, TypeOK
    <3>. QED  BY <2>8, <3>1 DEF ToolReturns, QuestionAnswered, TypeOK, boundVars
  <2>9. CASE CallsOver
    BY <2>9 DEF CallsOver, CallsArePending, AtCall, TypeOK, roundVars, boundVars
  <2>10. CASE Throws \/ RecoverThrows
    <3>1. CASE Throws
      BY <3>1, MessageTypes DEF Throws, TypeOK, roundVars
    <3>2. CASE RecoverThrows
      BY <3>2, MessageTypes DEF RecoverThrows, TypeOK, roundVars
    <3>. QED  BY <2>10, <3>1, <3>2
  <2>11. CASE EndTurn \/ Crash
    <3>1. tools' = {} /\ aborted' = FALSE /\ content' = FALSE /\ at' = "idle" /\ turns' = turns
          /\ round' = 0 /\ calls' = 0 /\ call' = 0 /\ loaded' = Nothing /\ record' = <<>>
      BY <2>11 DEF EndTurn, Crash, ForgetTurn
    <3>2. terminal' \in {terminal, "lost"}
          /\ (troubles' = troubles \/ (troubles < MaxTroubles /\ troubles' = troubles + 1))
      BY <2>11 DEF EndTurn, Crash
    <3>3. terminal \in {"none", "done", "cancelled", "error", "lost"}
          /\ turns \in 0..MaxTurns /\ troubles \in 0..MaxTroubles
      BY DEF TypeOK
    <3>4. 0 \in 0..MaxToolRounds /\ 0 \in 0..MaxCalls /\ 0 \in 0..(0 + 1)
      OBVIOUS
    <3>5. troubles' \in 0..MaxTroubles
      BY <3>2, <3>3
    <3>. HIDE DEF ThreadInv
    <3>. QED  BY <3>1, <3>2, <3>3, <3>4, <3>5
  <2>12. CASE Cancel
    BY <2>12 DEF Cancel, TypeOK, roundVars, boundVars
  <2>13. CASE UNCHANGED vars
    BY <2>13 DEF vars, TypeOK, roundVars, boundVars
  <2>. QED
    BY <2>1, <2>2, <2>3, <2>4, <2>5, <2>6, <2>7, <2>8, <2>9, <2>10, <2>11, <2>12, <2>13
    DEF Next, Works, Stops
<1>2. messages' \in Seq(Messages) /\ transcript' \in Seq(Rows)
  BY <1>1, StoredTypesKept
<1>3. <<>> \in Seq(Messages) /\ <<>> \in Seq(Rows)
  OBVIOUS
<1>4. loaded' \in [messages : Seq(Messages), transcript : Seq(Rows)] /\ record' \in Seq(Messages)
  <2>1. Nothing \in [messages : Seq(Messages), transcript : Seq(Rows)]
    BY <1>3 DEF Nothing
  <2>2. messages \in Seq(Messages) /\ transcript \in Seq(Rows) /\ record \in Seq(Messages)
        /\ loaded \in [messages : Seq(Messages), transcript : Seq(Rows)]
    BY DEF TypeOK
  <2>3. [messages |-> messages, transcript |-> transcript]
          \in [messages : Seq(Messages), transcript : Seq(Rows)]
    BY <2>2
  <2>. HIDE DEF ThreadInv
  <2>4. record' \in Seq(Messages)
    <3>1. record' = record \/ record' = messages' \/ record' = <<>>
      BY <1>1
    <3>. QED  BY <1>2, <1>3, <2>2, <3>1
  <2>5. loaded' = loaded \/ loaded' = Nothing
        \/ loaded' = [messages |-> messages, transcript |-> transcript]
    BY <1>1
  <2>. QED  BY <2>1, <2>2, <2>3, <2>4, <2>5
<1>. QED  BY <1>1, <1>2, <1>4 DEF TypeOK

-----------------------------------------------------------------------------
(* What a turn knows.                                                      *)

LEMMA KnowledgeKept ==
  ASSUME ThreadInv, [Next]_vars
  PROVE  KnowsTheThread' /\ TerminalIsOver'
<1> USE DEF ThreadInv, KnowsTheThread, TerminalIsOver, InLoop, GoTo
<1>1. CASE BeginTurn \/ Refuse \/ StoreSend
  BY <1>1 DEF BeginTurn, Refuse, StoreSend, storedVars
<1>2. CASE Stops
  BY <1>2 DEF Stops, StopAtHead, StopBeforeCall, CallCancelled, Recover, StreamCancelled,
     StreamFails, FinishCancelled, PersistPartial
<1>3. CASE SendThread \/ TakeTool \/ RaiseGate \/ RaiseQuestion \/ CallsOver
  BY <1>3 DEF SendThread, TakeTool, RaiseGate, RaiseQuestion, CallsOver, storedVars
<1>4. CASE StreamAnswers \/ StreamCalls \/ ToolReturns \/ QuestionAnswered
  BY <1>4 DEF StreamAnswers, StreamCalls, ToolReturns, QuestionAnswered
<1>5. CASE Throws \/ RecoverThrows \/ EndTurn \/ Crash \/ Cancel \/ UNCHANGED vars
  BY <1>5 DEF Throws, RecoverThrows, EndTurn, Crash, ForgetTurn, Cancel, vars, storedVars
<1>. QED  BY <1>1, <1>2, <1>3, <1>4, <1>5 DEF Next, Works

(* The thread ends with the pending calls and the results so far.          *)
LEMMA PendingKept == ASSUME ThreadInv, [Next]_vars PROVE CallsArePending'
<1> USE ThreadAssumption DEF ThreadInv, GoTo
<1>1. SUFFICES ASSUME at' \in AtCall PROVE CallsArePending'
  BY DEF CallsArePending
<1>2. CASE StreamCalls
  <2>1. PICK n \in 1..MaxCalls, text \in BOOLEAN :
          messages' = Append(messages, Said(n, text)) /\ calls' = n
    BY <1>2 DEF StreamCalls, KnowsTheThread, InLoop
  <2>2. call' = 1 /\ round' = round /\ turns' = turns /\ at' = "calls"
        /\ round < MaxToolRounds
    BY <1>2 DEF StreamCalls, AtCap, boundVars, TypeOK
  <2>3. /\ Len(messages') = Len(messages) + 1 /\ Len(messages) \in Nat
        /\ messages'[Len(messages')] = Said(n, text)
        /\ Len(messages') \in DOMAIN messages'
    BY <2>1, MessageTypes DEF TypeOK
  <2>. QED  BY <2>1, <2>2, <2>3 DEF CallsArePending, Said
<1>3. CASE ToolReturns \/ QuestionAnswered
  <2>1. messages' = Append(messages, Result) /\ call' = call + 1 /\ at' = "calls"
        /\ round' = round /\ turns' = turns /\ calls' = calls /\ at \in AtCall
    BY <1>3 DEF ToolReturns, QuestionAnswered, boundVars, AtCall
  <2>2. call \in Nat /\ Len(messages) \in Nat /\ Len(messages') = Len(messages) + 1
        /\ DOMAIN messages = 1..Len(messages) /\ DOMAIN messages' = 1..Len(messages')
        /\ \A i \in DOMAIN messages : messages'[i] = messages[i]
    BY <2>1, MessageTypes DEF TypeOK
  <2>. QED  BY <2>1, <2>2 DEF CallsArePending
<1>4. CASE TakeTool \/ RaiseGate \/ RaiseQuestion
  BY <1>4 DEF TakeTool, RaiseGate, RaiseQuestion, storedVars, roundVars, boundVars,
     CallsArePending, AtCall
<1>5. CASE Cancel \/ UNCHANGED vars
  BY <1>5 DEF Cancel, vars, storedVars, roundVars, boundVars, CallsArePending, AtCall
<1>6. CASE BeginTurn \/ Refuse \/ StoreSend \/ SendThread \/ StreamAnswers \/ CallsOver \/ Throws
           \/ RecoverThrows \/ EndTurn \/ Crash
  BY <1>1, <1>6 DEF AtCall, BeginTurn, Refuse, StoreSend, SendThread, StreamAnswers, CallsOver,
     Throws, RecoverThrows, EndTurn, Crash, ForgetTurn
<1>7. CASE Stops
  BY <1>1, <1>7 DEF AtCall, Stops, StopAtHead, StopBeforeCall, CallCancelled, Recover,
     StreamCancelled, StreamFails, FinishCancelled, PersistPartial
<1>. QED  BY <1>2, <1>3, <1>4, <1>5, <1>6, <1>7 DEF Next, Works

-----------------------------------------------------------------------------
(* The thread.                                                             *)

(* A result that is added stands where it has to.                          *)
LEMMA ResultIsNext ==
  ASSUME ThreadInv, at \in {"tool", "asking"}
  PROVE  /\ FollowsItsCall(Append(messages, Result), Len(messages) + 1)
         /\ Result.round < MaxToolRounds
<1> USE ThreadAssumption DEF ThreadInv
<1> DEFINE thread == Append(messages, Result)
           n == Len(messages)
           a == (n + 1) - call
<1>1. /\ call >= 1 /\ call <= calls /\ round < MaxToolRounds
      /\ a \in DOMAIN messages
      /\ messages[a].role = "assistant"
      /\ messages[a].turn = turns /\ messages[a].round = round /\ messages[a].calls = calls
  BY DEF CallsArePending, AtCall
<1>2. /\ n \in Nat /\ DOMAIN messages = 1..n /\ DOMAIN thread = 1..(n + 1)
      /\ thread[n + 1] = Result /\ \A i \in 1..n : thread[i] = messages[i]
  BY MessageTypes DEF TypeOK
<1>3. Result.call = call /\ Result.turn = turns /\ Result.round = round
  BY DEF Result
<1>. QED  BY <1>1, <1>2, <1>3 DEF FollowsItsCall

LEMMA ThreadKept == ASSUME ThreadInv, [Next]_vars PROVE ResultsFollowCalls' /\ CapIsKept'
<1> USE ThreadAssumption DEF ThreadInv
<1>1. CASE messages' = messages
  BY <1>1 DEF ResultsFollowCalls, FollowsItsCall, CapIsKept
<1>2. ASSUME NEW m \in Messages, messages' = Append(messages, m),
             m.role = "tool" => (ToolReturns \/ QuestionAnswered) /\ m = Result
      PROVE  ResultsFollowCalls' /\ CapIsKept'
  <2>1. /\ Len(messages) \in Nat /\ DOMAIN messages = 1..Len(messages)
        /\ DOMAIN messages' = 1..(Len(messages) + 1)
        /\ messages'[Len(messages) + 1] = m
        /\ \A i \in DOMAIN messages : messages'[i] = messages[i]
    BY <1>2 DEF TypeOK
  <2>2. ASSUME NEW i \in DOMAIN messages, messages[i].role = "tool"
        PROVE  FollowsItsCall(messages', i) /\ messages'[i].round < MaxToolRounds
    BY <2>1, <2>2 DEF ResultsFollowCalls, FollowsItsCall, CapIsKept
  <2>3. m.role = "tool" => /\ FollowsItsCall(messages', Len(messages) + 1)
                           /\ m.round < MaxToolRounds
    BY <1>2, ResultIsNext DEF ToolReturns, QuestionAnswered
  <2>. QED  BY <2>1, <2>2, <2>3 DEF ResultsFollowCalls, CapIsKept
<1>. QED  BY <1>1, <1>2, ThreadGrows

-----------------------------------------------------------------------------
(* The transcript.                                                         *)

(* How each kind of write leaves the end of the transcript.                *)
LEMMA EndOfTranscript ==
  ASSUME ThreadInv, [Next]_vars, TypeOK'
  PROVE  \/ transcript' = transcript
         \/ transcript' # <<>> /\ LastRow'.kind = "assistant" /\ LastRow'.tools = tools'
         \/ transcript' # <<>> /\ LastRow'.kind = "question" /\ RaiseQuestion
         \/ transcript' # <<>> /\ LastRow'.kind \in {"user", "answer"} /\ at' # "asking"
<1>1. TypeOK /\ transcript \in Seq(Rows)
  BY DEF ThreadInv, TypeOK
<1>2. tools \in SUBSET CallIds /\ tools' \in SUBSET CallIds
  BY <1>1 DEF TypeOK
<1>3. ASSUME NEW mark \in Marks,
             transcript' = UpsertAssistantRow(transcript, Row(tools', mark))
      PROVE  transcript' # <<>> /\ LastRow'.kind = "assistant" /\ LastRow'.tools = tools'
  <2>1. Row(tools', mark) \in Rows /\ Row(tools', mark).kind = "assistant"
        /\ Row(tools', mark).tools = tools'
    BY <1>1, <1>2, RowIsRow
  <2>2. Len(transcript') >= 1 /\ transcript'[Len(transcript')] = Row(tools', mark)
    BY <1>1, <1>3, <2>1, UpsertIs
  <2>. QED  BY <2>1, <2>2 DEF LastRow
<1>4. \A rows \in Seq(Rows) : \A row :
        Append(rows, row) # <<>> /\ Append(rows, row)[Len(Append(rows, row))] = row
  OBVIOUS
<1>5. CASE RaiseQuestion
  <2>1. Row(tools, "partial") \in Rows
    BY <1>1, <1>2, RowIsRow DEF Marks
  <2>2. UpsertAssistantRow(transcript, Row(tools, "partial")) \in Seq(Rows)
    BY <1>1, <2>1, UpsertIs
  <2>. QED  BY <1>4, <1>5, <2>2 DEF RaiseQuestion, LastRow
<1>6. CASE QuestionAnswered
  BY <1>1, <1>4, <1>6 DEF QuestionAnswered, LastRow, GoTo
<1>7. CASE StoreSend /\ transcript' = Append(transcript, [kind |-> "user", turn |-> turns])
  BY <1>1, <1>4, <1>7 DEF StoreSend, LastRow, GoTo
<1>. QED  BY <1>3, <1>5, <1>6, <1>7, TranscriptGrows

(* Where a turn is at work it was at work before, or has just begun.       *)
LEMMA AtWork ==
  ASSUME [Next]_vars, at' \in InLoop \cup {"recovering"}
  PROVE  \/ StoreSend
         \/ /\ at \in InLoop \cup {"recovering"} /\ tools \subseteq tools'
            /\ at' = "asking" => at = "asking" \/ RaiseQuestion
<1> USE DEF InLoop, GoTo
<1>1. CASE Stops
  BY <1>1 DEF Stops, StopAtHead, StopBeforeCall, CallCancelled, Recover, StreamCancelled,
     StreamFails, FinishCancelled, PersistPartial
<1>2. CASE BeginTurn \/ Refuse \/ RecoverThrows \/ EndTurn \/ Crash \/ StreamAnswers
  BY <1>2 DEF BeginTurn, Refuse, RecoverThrows, EndTurn, Crash, ForgetTurn, StreamAnswers
<1>3. CASE SendThread \/ StreamCalls \/ TakeTool \/ RaiseGate \/ RaiseQuestion
           \/ ToolReturns \/ QuestionAnswered \/ CallsOver
  BY <1>3 DEF SendThread, StreamCalls, TakeTool, RaiseGate, RaiseQuestion, ToolReturns,
     QuestionAnswered, CallsOver
<1>4. CASE Throws \/ Cancel \/ UNCHANGED vars
  BY <1>4 DEF Throws, Cancel, vars
<1>. QED  BY <1>1, <1>2, <1>3, <1>4 DEF Next, Works

LEMMA TailKept == ASSUME ThreadInv, [Next]_vars, TypeOK' PROVE TailIsOurs' /\ QuestionIsLast'
<1>1. TailIsOurs /\ QuestionIsLast
  BY DEF ThreadInv
<1>2. ASSUME at' \in InLoop \cup {"recovering"}, transcript' # <<>>, IsPartial(Len(transcript))'
      PROVE  LastRow'.tools \subseteq tools'
  <2>1. LastRow'.kind = "assistant"
    BY <1>2 DEF IsPartial, LastRow
  <2>2. transcript' = transcript \/ LastRow'.tools = tools'
    BY <2>1, EndOfTranscript
  <2>3. CASE transcript' = transcript
    <3>1. ~StoreSend
      <4>1. CASE StoreSend
        <5>1. loaded.transcript = transcript /\ transcript \in Seq(Rows)
          BY <4>1 DEF StoreSend, ThreadInv, KnowsTheThread, TypeOK
        <5>2. Len(transcript') = Len(transcript) + 1 /\ Len(transcript) \in Nat
          BY <4>1, <5>1 DEF StoreSend
        <5>. QED  BY <2>3, <5>2
      <4>. QED  BY <4>1
    <3>2. at \in InLoop \cup {"recovering"} /\ tools \subseteq tools'
      BY <1>2, <3>1, AtWork
    <3>. QED  BY <1>1, <1>2, <2>3, <3>2 DEF TailIsOurs, LastRow, IsPartial
  <2>. QED  BY <2>2, <2>3
<1>3. ASSUME at' = "asking" PROVE transcript' # <<>> /\ LastRow'.kind = "question"
  <2>1. ~StoreSend /\ (at = "asking" \/ RaiseQuestion)
    BY <1>3, AtWork DEF InLoop, StoreSend, GoTo
  <2>2. CASE RaiseQuestion
    <3>1. TypeOK /\ tools \in SUBSET CallIds /\ transcript \in Seq(Rows)
      BY DEF ThreadInv, TypeOK
    <3>2. UpsertAssistantRow(transcript, Row(tools, "partial")) \in Seq(Rows)
      BY <3>1, RowIsRow, UpsertIs DEF Marks
    <3>. QED  BY <2>2, <3>2 DEF RaiseQuestion, LastRow
  <2>3. CASE at = "asking" /\ ~RaiseQuestion
    <3>1. UNCHANGED transcript
      BY <1>3, <2>3, AtWork DEF Next, Works, Stops, BeginTurn, Refuse, StoreSend, SendThread,
         StreamAnswers, StreamCalls, TakeTool, RaiseGate, ToolReturns, QuestionAnswered, CallsOver,
         StopAtHead, StopBeforeCall, CallCancelled, Recover, StreamCancelled, StreamFails,
         FinishCancelled, PersistPartial, EndTurn, Crash, ForgetTurn, Throws, RecoverThrows, Cancel,
         vars, storedVars, GoTo
    <3>. QED  BY <1>1, <2>3, <3>1 DEF QuestionIsLast, LastRow
  <2>. QED  BY <2>1, <2>2, <2>3
<1>. QED  BY <1>2, <1>3 DEF TailIsOurs, QuestionIsLast

(* What the transcript keeps: a row other than the partial one at the end, *)
(* and the calls that row lists.                                           *)
LEMMA RowsKept ==
  ASSUME ThreadInv, [Next]_vars, TypeOK'
  PROVE  /\ Len(transcript) <= Len(transcript')
         /\ \A i \in DOMAIN transcript :
              \/ transcript'[i] = transcript[i]
              \/ /\ i = Len(transcript) /\ IsPartial(i)
                 /\ transcript'[i].kind = "assistant" /\ transcript[i].tools \subseteq transcript'[i].tools
<1>1. TypeOK /\ TailIsOurs /\ transcript \in Seq(Rows) /\ transcript' \in Seq(Rows)
      /\ tools \in SUBSET CallIds /\ tools' \in SUBSET CallIds
  BY DEF ThreadInv, TypeOK
<1>2. Len(transcript) \in Nat /\ DOMAIN transcript = 1..Len(transcript)
  BY <1>1
<1>3. ASSUME NEW mark \in Marks, NEW shown \in SUBSET CallIds, tools \subseteq shown,
             at \in InLoop \cup {"recovering"}
      PROVE  LET new == UpsertAssistantRow(transcript, Row(shown, mark))
             IN  /\ new \in Seq(Rows) /\ Len(transcript) <= Len(new)
                 /\ \A i \in DOMAIN transcript :
                      \/ new[i] = transcript[i]
                      \/ /\ i = Len(transcript) /\ IsPartial(i)
                         /\ new[i].kind = "assistant" /\ transcript[i].tools \subseteq new[i].tools
  <2> DEFINE new == UpsertAssistantRow(transcript, Row(shown, mark))
             last == Len(new)
  <2>1. /\ Row(shown, mark) \in Rows /\ Row(shown, mark).kind = "assistant"
        /\ Row(shown, mark).tools = shown
    BY <1>1, RowIsRow
  <2>2. /\ new \in Seq(Rows) /\ last >= 1 /\ last \in Nat /\ new[last] = Row(shown, mark)
        /\ \/ last = Len(transcript) + 1
           \/ last = Len(transcript) /\ Partial(transcript[last])
        /\ \A i \in 1..(last - 1) : new[i] = transcript[i]
    BY <1>1, <2>1, UpsertIs
  <2>3. CASE last = Len(transcript) + 1
    BY <1>2, <2>2, <2>3
  <2>4. CASE last = Len(transcript) /\ Partial(transcript[last])
    <3>1. transcript # <<>> /\ IsPartial(Len(transcript))
      BY <1>1, <2>2, <2>4 DEF Partial, IsPartial
    <3>2. transcript[last].tools \subseteq shown
      BY <1>1, <1>3, <2>4, <3>1 DEF TailIsOurs, LastRow
    <3>. QED  BY <1>2, <2>1, <2>2, <2>4, <3>1, <3>2
  <2>. QED  BY <2>2, <2>3, <2>4
<1>4. CASE \E mark \in Marks :
             /\ transcript' = UpsertAssistantRow(transcript, Row(tools', mark))
             /\ at \in InLoop \cup {"recovering"} /\ tools \subseteq tools'
  BY <1>1, <1>3, <1>4
<1>5. CASE RaiseQuestion
  <2> DEFINE new == UpsertAssistantRow(transcript, Row(tools, "partial"))
  <2>1. transcript' = Append(new, [kind |-> "question", of |-> ThisCall])
        /\ at \in InLoop \cup {"recovering"}
    BY <1>5 DEF RaiseQuestion, InLoop
  <2>2. /\ new \in Seq(Rows) /\ Len(transcript) <= Len(new)
        /\ \A i \in DOMAIN transcript :
             \/ new[i] = transcript[i]
             \/ /\ i = Len(transcript) /\ IsPartial(i)
                /\ new[i].kind = "assistant" /\ transcript[i].tools \subseteq new[i].tools
    BY <1>1, <1>3, <2>1 DEF Marks
  <2>3. Len(transcript') = Len(new) + 1 /\ Len(new) \in Nat
        /\ \A i \in 1..Len(new) : transcript'[i] = new[i]
    BY <2>1, <2>2
  <2>. HIDE DEF new
  <2>. QED  BY <1>2, <2>2, <2>3
<1>6. CASE \E row : transcript' = Append(transcript, row)
  BY <1>1, <1>2, <1>6
<1>7. CASE transcript' = transcript
  BY <1>2, <1>7
<1>8. QuestionAnswered => \E row : transcript' = Append(transcript, row)
  BY DEF QuestionAnswered
<1>. QED  BY <1>4, <1>5, <1>6, <1>7, <1>8, TranscriptGrows

(* What was shown stays shown.                                             *)
LEMMA ShownKept ==
  ASSUME ThreadInv, [Next]_vars, TypeOK', NEW id, Shown(id)
  PROVE  Shown(id)'
<1>1. PICK i \in DOMAIN transcript :
        \/ transcript[i].kind = "assistant" /\ id \in transcript[i].tools
        \/ transcript[i].kind = "answer" /\ id = transcript[i].of
  BY DEF Shown
<1>2. transcript \in Seq(Rows) /\ transcript' \in Seq(Rows)
  BY DEF ThreadInv, TypeOK
<1>3. i \in DOMAIN transcript'
  BY <1>2, RowsKept
<1>4. \/ transcript'[i] = transcript[i]
      \/ /\ transcript[i].kind = "assistant"
         /\ transcript'[i].kind = "assistant" /\ transcript[i].tools \subseteq transcript'[i].tools
  BY RowsKept DEF IsPartial
<1>. QED  BY <1>1, <1>3, <1>4 DEF Shown

(* A result that is added is shown by the same step.                       *)
LEMMA NewResultIsShown ==
  ASSUME ThreadInv, [Next]_vars, TypeOK', ToolReturns \/ QuestionAnswered,
         NEW id, id = ThisCall
  PROVE  Shown(id)'
<1>1. TypeOK /\ transcript \in Seq(Rows) /\ transcript' \in Seq(Rows)
      /\ tools \in SUBSET CallIds /\ tools' \in SUBSET CallIds
  BY DEF ThreadInv, TypeOK
<1>2. CASE ToolReturns
  <2>1. transcript' = UpsertAssistantRow(transcript, Row(tools', "partial")) /\ ThisCall \in tools'
    BY <1>2 DEF ToolReturns
  <2>2. /\ Row(tools', "partial") \in Rows /\ Row(tools', "partial").kind = "assistant"
        /\ Row(tools', "partial").tools = tools'
    BY <1>1, RowIsRow DEF Marks
  <2>3. Len(transcript') >= 1 /\ transcript'[Len(transcript')] = Row(tools', "partial")
    BY <1>1, <2>1, <2>2, UpsertIs
  <2>. QED  BY <1>1, <2>1, <2>2, <2>3 DEF Shown
<1>3. CASE QuestionAnswered
  <2>1. transcript' = Append(transcript, [kind |-> "answer", of |-> ThisCall])
    BY <1>3 DEF QuestionAnswered
  <2>2. Len(transcript') \in DOMAIN transcript'
        /\ transcript'[Len(transcript')] = [kind |-> "answer", of |-> ThisCall]
    BY <1>1, <2>1
  <2>. QED  BY <2>2 DEF Shown
<1>. QED  BY <1>2, <1>3

LEMMA ShownResultsKept == ASSUME ThreadInv, [Next]_vars, TypeOK' PROVE ResultsAreShown'
<1> DEFINE CallOf(m) == <<m.turn, m.round, m.call>>
<1>1. /\ messages \in Seq(Messages)
      /\ \A i \in DOMAIN messages : messages[i].role = "tool" => Shown(CallOf(messages[i]))
  BY DEF ThreadInv, TypeOK, ResultsAreShown
<1>2. \A id : Shown(id) => Shown(id)'
  BY ShownKept
<1>3. \A i \in DOMAIN messages : \A id :
        messages[i].role = "tool" /\ id = CallOf(messages[i]) => Shown(id)'
  BY <1>1, <1>2
<1>4. SUFFICES ASSUME NEW i \in DOMAIN messages', messages'[i].role = "tool",
                      NEW id, id = CallOf(messages'[i])
               PROVE  Shown(id)'
  BY DEF ResultsAreShown
<1>5. CASE messages' = messages
  BY <1>3, <1>4, <1>5
<1>6. ASSUME NEW m \in Messages, messages' = Append(messages, m),
             m.role = "tool" => (ToolReturns \/ QuestionAnswered) /\ m = Result
      PROVE  Shown(id)'
  <2>1. /\ DOMAIN messages = 1..Len(messages) /\ DOMAIN messages' = 1..(Len(messages) + 1)
        /\ messages'[Len(messages) + 1] = m /\ Len(messages) \in Nat
        /\ \A j \in DOMAIN messages : messages'[j] = messages[j]
    BY <1>1, <1>6
  <2>2. CASE i \in DOMAIN messages
    BY <1>3, <1>4, <2>1, <2>2
  <2>3. CASE i = Len(messages) + 1
    <3>1. (ToolReturns \/ QuestionAnswered) /\ id = CallOf(Result)
      BY <1>4, <1>6, <2>1, <2>3
    <3>2. id = ThisCall
      BY <3>1 DEF Result, ThisCall
    <3>. QED  BY <3>1, <3>2, NewResultIsShown
  <2>. QED  BY <1>4, <2>1, <2>2, <2>3
<1>. QED  BY <1>5, <1>6, ThreadGrows

(* A partial row goes without a question behind it only at the end, and    *)
(* only in a turn that failed or is not over.                              *)
Explained(rows) ==
  \A i \in 1..(Len(rows) - 1) : Partial(rows[i]) => rows[i + 1].kind \in {"question", "user"}

LEMMA UpsertExplained ==
  ASSUME NEW rows \in Seq(Rows), Explained(rows), NEW row \in Rows, row.kind = "assistant"
  PROVE  Explained(UpsertAssistantRow(rows, row))
<1> DEFINE new == UpsertAssistantRow(rows, row)
           last == Len(new)
<1>1. /\ last \in Nat /\ new[last] = row
      /\ \/ last = Len(rows) + 1 /\ (Len(rows) >= 1 => ~Partial(rows[Len(rows)]))
         \/ last = Len(rows) /\ Partial(rows[last])
      /\ \A i \in 1..(last - 1) : new[i] = rows[i]
  BY UpsertIs, Zenon
<1>0. Len(rows) \in Nat
  OBVIOUS
<1>. SUFFICES ASSUME NEW i \in 1..(last - 1), Partial(new[i])
              PROVE  new[i + 1].kind \in {"question", "user"}
  BY DEF Explained
<1>2. new[i] = rows[i]
  BY <1>1
<1>3. CASE i < last - 1
  <2>1. i + 1 \in 1..(last - 1) /\ i \in 1..(Len(rows) - 1)
    BY <1>0, <1>1, <1>3
  <2>2. new[i + 1] = rows[i + 1]
    BY <1>1, <2>1
  <2>. QED  BY <1>2, <2>1, <2>2 DEF Explained
<1>4. CASE i = last - 1
  <2>1. last = Len(rows) /\ Partial(rows[last])
    BY <1>1, <1>2, <1>4
  <2>2. i \in 1..(Len(rows) - 1) /\ i + 1 = last
    BY <1>0, <1>1, <1>4, <2>1
  <2>3. rows[last].kind \in {"question", "user"}
    BY <1>2, <2>2 DEF Explained
  <2>. QED  BY <2>1, <2>3 DEF Partial
<1>. QED  BY <1>0, <1>1, <1>3, <1>4

LEMMA AppendExplained ==
  ASSUME NEW rows \in Seq(Rows), Explained(rows), NEW row,
         row.kind \in {"question", "user"} \/ (rows # <<>> => ~Partial(rows[Len(rows)]))
  PROVE  Explained(Append(rows, row))
<1> DEFINE new == Append(rows, row)
<1>1. /\ Len(new) = Len(rows) + 1 /\ Len(rows) \in Nat /\ new[Len(rows) + 1] = row
      /\ \A i \in 1..Len(rows) : new[i] = rows[i]
      /\ rows = <<>> <=> Len(rows) = 0
  OBVIOUS
<1>. HIDE DEF new
<1>2. ASSUME NEW i \in 1..Len(rows), Partial(new[i])
      PROVE  new[i + 1].kind \in {"question", "user"}
  <2>1. CASE i < Len(rows)
    <3>1. i \in 1..(Len(rows) - 1) /\ i + 1 \in 1..Len(rows)
      BY <1>1, <2>1
    <3>. QED  BY <1>1, <1>2, <3>1 DEF Explained
  <2>2. CASE i = Len(rows)
    BY <1>1, <1>2, <2>2
  <2>. QED  BY <1>1, <2>1, <2>2
<1>3. 1..(Len(new) - 1) = 1..Len(rows)
  BY <1>1
<1>4. Explained(new)
  BY <1>2, <1>3 DEF Explained
<1>. QED  BY <1>4 DEF new

LEMMA ExplanationKept ==
  ASSUME ThreadInv, [Next]_vars, TypeOK' PROVE PartialRowsAreExplained'
<1>1. /\ TypeOK /\ transcript \in Seq(Rows) /\ transcript' \in Seq(Rows)
      /\ tools \in SUBSET CallIds /\ tools' \in SUBSET CallIds
  BY DEF ThreadInv, TypeOK
<1>2. /\ Explained(transcript)
      /\ (transcript # <<>> /\ Partial(LastRow)) => terminal \notin {"done", "cancelled"}
  <2>1. PartialRowsAreExplained
    BY DEF ThreadInv
  <2>2. Len(transcript) \in Nat /\ DOMAIN transcript = 1..Len(transcript)
        /\ (transcript # <<>> => Len(transcript) >= 1)
    BY <1>1
  <2>. QED  BY <2>1, <2>2 DEF PartialRowsAreExplained, IsPartial, Partial, Explained, LastRow
<1>3. SUFFICES /\ Explained(transcript')
               /\ (transcript' # <<>> /\ Partial(LastRow')) => terminal' \notin {"done", "cancelled"}
  <2>1. Len(transcript') \in Nat /\ DOMAIN transcript' = 1..Len(transcript')
        /\ (transcript' # <<>> <=> Len(transcript') >= 1)
    BY <1>1
  <2>. QED  BY <2>1 DEF PartialRowsAreExplained, IsPartial, Partial, Explained, LastRow
<1>4. \A mark \in Marks, shown \in SUBSET CallIds :
        /\ UpsertAssistantRow(transcript, Row(shown, mark)) \in Seq(Rows)
        /\ Explained(UpsertAssistantRow(transcript, Row(shown, mark)))
  <2>. SUFFICES ASSUME NEW mark \in Marks, NEW shown \in SUBSET CallIds
                PROVE  /\ UpsertAssistantRow(transcript, Row(shown, mark)) \in Seq(Rows)
                       /\ Explained(UpsertAssistantRow(transcript, Row(shown, mark)))
    OBVIOUS
  <2>1. Row(shown, mark) \in Rows /\ Row(shown, mark).kind = "assistant"
    BY <1>1, RowIsRow
  <2>. QED  BY <1>1, <1>2, <2>1, UpsertIs, UpsertExplained
<1>5. \A rows \in Seq(Rows) : \A row :
        Append(rows, row) # <<>> /\ Append(rows, row)[Len(Append(rows, row))] = row
  OBVIOUS
<1>6. CASE transcript' = transcript /\ (terminal' = terminal \/ terminal' \notin {"done", "cancelled"})
  BY <1>2, <1>6 DEF LastRow
<1>7. ASSUME NEW mark \in Marks,
             transcript' = UpsertAssistantRow(transcript, Row(tools', mark)),
             mark = "partial" => terminal' \notin {"done", "cancelled"}
      PROVE  /\ Explained(transcript')
             /\ Partial(LastRow') => terminal' \notin {"done", "cancelled"}
  <2>1. Row(tools', mark) \in Rows /\ Row(tools', mark).mark = mark
    BY <1>1, RowIsRow
  <2>2. transcript'[Len(transcript')] = Row(tools', mark)
    BY <1>1, <1>7, <2>1, UpsertIs
  <2>. QED  BY <1>1, <1>4, <1>7, <2>1, <2>2 DEF LastRow, Partial
<1>8. CASE RaiseQuestion
  <2>1. transcript' = Append(UpsertAssistantRow(transcript, Row(tools, "partial")),
                             [kind |-> "question", of |-> ThisCall])
    BY <1>8 DEF RaiseQuestion
  <2>2. /\ UpsertAssistantRow(transcript, Row(tools, "partial")) \in Seq(Rows)
        /\ Explained(UpsertAssistantRow(transcript, Row(tools, "partial")))
    BY <1>1, <1>4 DEF Marks
  <2>. QED  BY <1>5, <2>1, <2>2, AppendExplained DEF LastRow, Partial
<1>9. CASE QuestionAnswered
  <2>1. transcript' = Append(transcript, [kind |-> "answer", of |-> ThisCall]) /\ at = "asking"
    BY <1>9 DEF QuestionAnswered
  <2>2. ~Partial(LastRow)
    BY <2>1 DEF ThreadInv, QuestionIsLast, Partial
  <2>3. Explained(transcript')
    BY <1>1, <1>2, <2>1, <2>2, AppendExplained DEF LastRow
  <2>. QED  BY <1>1, <1>5, <2>1, <2>3 DEF LastRow, Partial
<1>10. CASE transcript' = Append(transcript, [kind |-> "user", turn |-> turns])
  <2>1. Explained(transcript')
    BY <1>1, <1>2, <1>10, AppendExplained
  <2>. QED  BY <1>1, <1>5, <1>10, <2>1 DEF LastRow, Partial
<1>. QED  BY <1>6, <1>7, <1>8, <1>9, <1>10, TranscriptGrows

-----------------------------------------------------------------------------
(* The theorems.                                                           *)

LEMMA ThreadInvInit == Init => ThreadInv
<1>. SUFFICES ASSUME Init PROVE ThreadInv
  OBVIOUS
<1>1. TypeOK
  <2>1. <<>> \in Seq(Messages) /\ <<>> \in Seq(Rows)
    OBVIOUS
  <2>2. Nothing \in [messages : Seq(Messages), transcript : Seq(Rows)]
    BY <2>1 DEF Nothing
  <2>3. 0 \in 0..MaxToolRounds /\ 0 \in 0..MaxCalls /\ 0 \in 0..(0 + 1)
        /\ 0 \in 0..MaxTurns /\ 0 \in 0..MaxTroubles
    BY ThreadAssumption
  <2>. QED  BY <2>1, <2>2, <2>3 DEF Init, TypeOK, Places
<1>2. messages = <<>> /\ transcript = <<>> /\ at = "idle" /\ terminal = "none"
  BY DEF Init
<1>3. DOMAIN messages = {} /\ DOMAIN transcript = {}
  BY <1>2
<1>. QED
  BY <1>1, <1>2, <1>3 DEF ThreadInv, KnowsTheThread, CallsArePending, TailIsOurs, QuestionIsLast,
     TerminalIsOver, ResultsFollowCalls, ResultsAreShown, CapIsKept, PartialRowsAreExplained,
     InLoop, AtCall

LEMMA ThreadInvNext == ThreadInv /\ [Next]_vars => ThreadInv'
<1>. SUFFICES ASSUME ThreadInv, [Next]_vars PROVE ThreadInv'
  OBVIOUS
<1>1. TypeOK'
  BY TypesKept
<1>. QED
  BY <1>1, KnowledgeKept, PendingKept, ThreadKept, TailKept, ShownResultsKept, ExplanationKept
  DEF ThreadInv

LEMMA ThreadInvHolds == Spec => []ThreadInv
BY ThreadInvInit, ThreadInvNext, PTL DEF Spec

(* Types: the thread holds messages, the transcript rows, the counters     *)
(* stay within their bounds.                                               *)
THEOREM TypeCorrect == Spec => []TypeOK
<1>1. ThreadInv => TypeOK
  BY DEF ThreadInv
<1>. QED  BY <1>1, ThreadInvHolds, PTL

(* Every stored result stands behind its call, whatever interrupted the    *)
(* turns (executeTurn, executeTool, completeGateTool).                     *)
THEOREM ResultsStandBehindCalls == Spec => []ResultsFollowCalls
<1>1. ThreadInv => ResultsFollowCalls
  BY DEF ThreadInv
<1>. QED  BY <1>1, ThreadInvHolds, PTL

(* What the model is told a call returned, the user sees                   *)
(* (upsertAssistantRow keeps what the row it replaces lists).              *)
THEOREM ModelAndUserSeeTheSame == Spec => []ResultsAreShown
<1>1. ThreadInv => ResultsAreShown
  BY DEF ThreadInv
<1>. QED  BY <1>1, ThreadInvHolds, PTL

(* Nothing is carried out in a round beyond the cap (executeTurn).         *)
THEOREM RoundsAreCapped == Spec => []CapIsKept
<1>1. ThreadInv => CapIsKept
  BY DEF ThreadInv
<1>. QED  BY <1>1, ThreadInvHolds, PTL

(* A row stays partial only before a question, or by a failure or crash of *)
(* its turn (upsertAssistantRow, persistPartial, finishCancelled).         *)
THEOREM PartialRowsHaveReasons == Spec => []PartialRowsAreExplained
<1>1. ThreadInv => PartialRowsAreExplained
  BY DEF ThreadInv
<1>. QED  BY <1>1, ThreadInvHolds, PTL

(* No step changes or drops a message, or a row but the partial one at the *)
(* end: what a turn has stored outlives its failure, its cancellation and  *)
(* the turns after it.                                                     *)
THEOREM StoredHistoryIsKept == Spec => HistoryIsKept
<1>1. ASSUME ThreadInv, [Next]_vars, ThreadInv'
      PROVE  /\ Keeps(messages, messages', Len(messages))
             /\ Keeps(transcript, transcript', SettledRows)
  <2>1. TypeOK' /\ messages \in Seq(Messages) /\ transcript \in Seq(Rows)
    BY <1>1 DEF ThreadInv, TypeOK
  <2>2. Keeps(messages, messages', Len(messages))
    <3>1. messages' = messages \/ \E m : messages' = Append(messages, m)
      BY <1>1, ThreadGrows
    <3>. QED  BY <2>1, <3>1 DEF Keeps
  <2>3. Keeps(transcript, transcript', SettledRows)
    <3>1. Len(transcript) \in Nat /\ DOMAIN transcript = 1..Len(transcript)
          /\ (transcript = <<>> <=> Len(transcript) = 0)
      BY <2>1
    <3>2. \A i \in 1..SettledRows : i \in DOMAIN transcript /\ ~(i = Len(transcript) /\ IsPartial(i))
      <4>1. \/ transcript # <<>> /\ SettledRows = Len(transcript) - 1
            \/ SettledRows = Len(transcript) /\ ~(transcript # <<>> /\ IsPartial(Len(transcript)))
        BY Zenon DEF SettledRows
      <4>2. ASSUME NEW i \in 1..SettledRows
            PROVE  i \in DOMAIN transcript /\ ~(i = Len(transcript) /\ IsPartial(i))
        <5>1. CASE transcript # <<>> /\ SettledRows = Len(transcript) - 1
          <6>1. \A len \in Nat : i \in 1..(len - 1) => i \in 1..len /\ i # len
            OBVIOUS
          <6>2. i \in 1..(Len(transcript) - 1)
            BY <5>1, Zenon
          <6>3. i \in 1..Len(transcript) /\ i # Len(transcript)
            BY <3>1, <6>1, <6>2
          <6>. QED  BY <3>1, <6>3
        <5>2. CASE SettledRows = Len(transcript)
                   /\ ~(transcript # <<>> /\ IsPartial(Len(transcript)))
          <6>1. i \in DOMAIN transcript /\ transcript # <<>>
            BY <3>1, <5>2
          <6>. QED  BY <5>2, <6>1
        <5>. QED  BY <4>1, <5>1, <5>2
      <4>. QED  BY <4>2
    <3>. QED  BY <1>1, <2>1, <3>2, RowsKept DEF Keeps
  <2>. QED  BY <2>2, <2>3
<1>. QED  BY <1>1, ThreadInvHolds, PTL DEF Spec, HistoryIsKept
=============================================================================
