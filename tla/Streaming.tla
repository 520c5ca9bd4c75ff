------------------------------ MODULE Streaming ------------------------------
(***************************************************************************)
(* One answer of the model on its way to the person: the provider's stream *)
(* is read and put together by core/src/openai-client.ts, taken event by   *)
(* event by streamProvider of core/src/turn-loop.ts, framed again by the   *)
(* chat route of server/routes.ts, and decoded by ui/src/client.ts.        *)
(*                                                                         *)
(* Both networks cut what they carry anywhere and may break.  Between any  *)
(* two events the turn may be told to stop, the timer of the call may run  *)
(* out, the person may leave, and the server may send a keep-alive.        *)
(***************************************************************************)
EXTENDS Naturals, FiniteSets, SseFrames

CONSTANTS Responses,   \* what the provider may send: sequences of frames of lines
          Arguments,   \* the pieces of the arguments that make JSON when all are there
          MaxChunk,    \* bound: units a network delivers at once
          MaxPings     \* bound: keep-alive comments

(* A frame has a line, a line a payload or noise, and a fragment the       *)
(* pieces of a name and of arguments.                                      *)
IsList(s) == s \in Seq(Range(s))
IsFragment(x) ==
  /\ IsList(x.id) /\ \A id \in Range(x.id) : IsList(id)
  /\ IsList(x.name) /\ IsList(x.args)
IsPart(x) == x.kind \in {"text", "thought", "usage"} \/ (x.kind = "call" /\ IsFragment(x))
IsSent(line) ==
  \/ line = <<Comment>>
  \/ line = DataLine(line[1].of) /\ IsList(line[1].of) /\ \A x \in Range(line[1].of) : IsPart(x)
IsFrame(frame) == IsList(frame) /\ frame # <<>> /\ \A line \in Range(frame) : IsSent(line)

ASSUME StreamingAssumption ==
  /\ \A r \in Responses : IsList(r) /\ \A frame \in Range(r) : IsFrame(frame)
  /\ MaxChunk \in Nat \ {0} /\ MaxPings \in Nat

VARIABLES response,   \* what this provider sends
          pos,        \* how much of it has been read
          at,         \* where complete() is
          cut,        \* the signal of its fetch
          armed,      \* its timer
          buffer, pending,    \* the units and the parts not handled yet
          content, calls,     \* what the parser has put together
          aborted,    \* the signal of the turn
          said,       \* the text streamProvider has put together
          outcome,    \* what it returns
          shown,      \* history: the events handed to the chat route
          clientOpen, out,    \* the route: whether anybody listens, what is sent
          got, rest,          \* the client: how much it has read, what is left over
          seen,       \* the events it has decoded
          pings       \* counter for the bound

parserVars == <<pos, buffer, pending, content, calls>>
turnVars == <<said, outcome>>
routeVars == <<shown, out>>
decoderVars == <<got, rest, seen>>
streamVars == <<response, parserVars, at, cut, armed, aborted, turnVars, routeVars, clientOpen,
          decoderVars, pings>>

(* A payload is a sequence of parts in the order in which they are looked  *)
(* at: text, thoughts, fragments of tool calls, usage.  A fragment has the *)
(* index of its call and holds no id or one, which may be the empty text.  *)
Render(frame) == FlattenSeq([i \in DOMAIN frame |-> Append(frame[i], Newline)]) \o <<Newline>>
WireUnits == FlattenSeq([i \in DOMAIN response |-> Render(response[i])])

NoCalls == [i \in {} |-> <<>>]
NoOutcome == [kind |-> "none"]

StreamInit ==
  /\ response \in Responses
  /\ pos = 0 /\ at = "fetching" /\ cut = FALSE /\ armed = TRUE
  /\ buffer = <<>> /\ pending = <<>> /\ content = <<>> /\ calls = NoCalls
  /\ aborted = FALSE /\ said = <<>> /\ outcome = NoOutcome
  /\ shown = <<>> /\ clientOpen = TRUE /\ out = <<>>
  /\ got = 0 /\ rest = <<>> /\ seen = <<>> /\ pings = 0

-----------------------------------------------------------------------------
(* The route and the client.                                               *)

(* An event of the turn is framed and sent, if anybody listens.            *)
SendEvent(event) ==
  /\ shown' = Append(shown, event)
  /\ out' = IF clientOpen THEN out \o EncodeEvent(<<event>>) ELSE out

Ping ==
  /\ at # "closed" /\ clientOpen /\ pings < MaxPings
  /\ out' = out \o EncodeComment
  /\ pings' = pings + 1
  /\ UNCHANGED <<response, parserVars, at, cut, armed, aborted, turnVars, shown, clientOpen,
                 decoderVars>>

(* The person leaves: the turn is not told.                                *)
Disconnect ==
  /\ at # "closed" /\ clientOpen
  /\ clientOpen' = FALSE
  /\ UNCHANGED <<response, parserVars, at, cut, armed, aborted, turnVars, routeVars,
                 decoderVars, pings>>

(* Mutant: a decoder that keeps nothing between two chunks.                *)
PushAlone(chunk) ==
  LET parsed == ParseChunk(chunk)
  IN  seen' = seen \o FlattenSeq(parsed.events) /\ rest' = <<>>

(* SseDecoder.push.                                                        *)
Push(chunk) ==
  LET parsed == ParseChunk(rest \o chunk)
  IN  seen' = seen \o FlattenSeq(parsed.events) /\ rest' = parsed.rest

ClientReads ==
  \E n \in 1..MaxChunk :
    /\ got + n <= Len(out)
    /\ got' = got + n
    /\ Push(SubSeq(out, got + 1, got + n))
    /\ UNCHANGED <<response, parserVars, at, cut, armed, aborted, turnVars, routeVars,
                   clientOpen, pings>>

-----------------------------------------------------------------------------
(* complete(): the call of the provider.                                   *)

Ends(kind) ==
  /\ outcome' = [kind |-> kind, content |-> said]
  /\ at' = "over"

(* Mutant: the timer is cleared when the provider answers.                 *)
RespondDisarming ==
  /\ at = "fetching" /\ ~cut
  /\ at' = "reading" /\ armed' = FALSE
  /\ UNCHANGED <<response, parserVars, cut, aborted, turnVars, routeVars, clientOpen,
                 decoderVars, pings>>

(* The provider answers, and the timer runs on ...                         *)
Respond ==
  /\ at = "fetching" /\ ~cut
  /\ at' = "reading"
  /\ UNCHANGED <<response, parserVars, cut, armed, aborted, turnVars, routeVars, clientOpen,
                 decoderVars, pings>>

(* ... or refuses, has no body, or the network fails, now or later.        *)
NetworkFails ==
  /\ at \in {"fetching", "reading"} /\ ~cut
  /\ Ends(IF aborted THEN "cancelled" ELSE "failed")
  /\ UNCHANGED <<response, parserVars, cut, armed, aborted, said, routeVars, clientOpen,
                 decoderVars, pings>>

(* A fetch or read whose signal aborts is rejected, whoever aborted it.    *)
CutOff ==
  /\ at \in {"fetching", "reading"} /\ cut
  /\ Ends("cancelled")
  /\ UNCHANGED <<response, parserVars, cut, armed, aborted, said, routeVars, clientOpen,
                 decoderVars, pings>>

(* A chunk: what its complete frames hold is handled before the next.      *)
Read ==
  /\ at = "reading" /\ ~cut
  /\ \E n \in 1..MaxChunk :
       /\ pos + n <= Len(WireUnits)
       /\ pos' = pos + n
       /\ LET parsed == ParseChunk(buffer \o SubSeq(WireUnits, pos + 1, pos + n))
          IN  /\ buffer' = parsed.rest
              /\ pending' = FlattenSeq(parsed.events)
  /\ at' = IF pending' = <<>> THEN "reading" ELSE "handling"
  /\ UNCHANGED <<response, content, calls, cut, armed, aborted, turnVars, routeVars,
                 clientOpen, decoderVars, pings>>

(* The stream closes, wherever it is; what is left in the buffer is not    *)
(* looked at.                                                              *)
StreamCloses ==
  /\ at = "reading" /\ ~cut
  /\ pending' = <<[kind |-> "message"]>>
  /\ at' = "handling"
  /\ UNCHANGED <<response, pos, buffer, content, calls, cut, armed, aborted, turnVars,
                 routeVars, clientOpen, decoderVars, pings>>

-----------------------------------------------------------------------------
(* One part after the other.                                               *)

NoCall == [id |-> <<>>, name |-> <<>>, args |-> <<>>]
CallAt(i) == IF i \in DOMAIN calls THEN calls[i] ELSE NoCall

(* Mutant: a later fragment replaces the arguments so far.                 *)
AccumulateLast(f) ==
  [i \in DOMAIN calls \cup {f.index} |->
     IF i # f.index THEN calls[i]
     ELSE [id   |-> IF f.id = <<>> THEN CallAt(i).id ELSE f.id[1],
           name |-> CallAt(i).name \o f.name,
           args |-> f.args]]

(* A fragment is added to the call with its index.                         *)
Accumulate(f) ==
  [i \in DOMAIN calls \cup {f.index} |->
     IF i # f.index THEN calls[i]
     ELSE [id   |-> IF f.id = <<>> THEN CallAt(i).id ELSE f.id[1],
           name |-> CallAt(i).name \o f.name,
           args |-> CallAt(i).args \o f.args]]

(* Arguments that are not JSON count as none.                              *)
Finished(call) ==
  [id   |-> IF call.id = <<>> THEN call.name ELSE call.id,
   name |-> call.name,
   args |-> IF call.args = Arguments THEN call.args ELSE <<>>]

Message ==
  LET order == SetToSortSeq(DOMAIN calls, <)
  IN  [content |-> content, calls |-> [k \in DOMAIN order |-> Finished(CallAt(order[k]))]]

Advance ==
  /\ pending' = Tail(pending)
  /\ at' = IF pending' = <<>> THEN "reading" ELSE "handling"

(* streamProvider meets the signal at every event it is given: a turn that *)
(* was told to stop takes no more, not even the complete message.          *)
StopAtEvent ==
  /\ aborted /\ Head(pending).kind # "call"
  /\ Ends("cancelled")
  /\ UNCHANGED <<pending, said, routeVars>>

(* Mutant: the text of an event is kept before the signal is looked at.    *)
TakeTextUnseen ==
  /\ Head(pending).kind = "text"
  /\ said' = Append(said, Head(pending).piece)
  /\ IF aborted THEN UNCHANGED routeVars ELSE SendEvent(Head(pending))
  /\ Advance
  /\ UNCHANGED outcome

TakeText ==
  /\ Head(pending).kind = "text" /\ ~aborted
  /\ said' = Append(said, Head(pending).piece)
  /\ SendEvent(Head(pending))
  /\ Advance
  /\ UNCHANGED outcome

TakeThought ==
  /\ Head(pending).kind = "thought" /\ ~aborted
  /\ SendEvent(Head(pending))
  /\ Advance
  /\ UNCHANGED turnVars

TakeUsage ==
  /\ Head(pending).kind = "usage" /\ ~aborted
  /\ Advance
  /\ UNCHANGED <<turnVars, routeVars>>

TakeCall ==
  /\ Head(pending).kind = "call"
  /\ Advance
  /\ UNCHANGED <<turnVars, routeVars>>

TakeMessage ==
  /\ Head(pending).kind = "message" /\ ~aborted
  /\ outcome' = [kind |-> "complete", content |-> said, message |-> Message]
  /\ at' = "over"
  /\ UNCHANGED <<pending, said, routeVars>>

(* The parser puts a part together before it hands it on.                  *)
Handle ==
  /\ at = "handling"
  /\ content' = IF Head(pending).kind = "text" THEN Append(content, Head(pending).piece) ELSE content
  /\ calls' = IF Head(pending).kind = "call" THEN Accumulate(Head(pending)) ELSE calls
  /\ StopAtEvent \/ TakeText \/ TakeThought \/ TakeUsage \/ TakeCall \/ TakeMessage
  /\ UNCHANGED <<response, pos, buffer, cut, armed, aborted, clientOpen, decoderVars, pings>>

-----------------------------------------------------------------------------
(* What comes from outside.                                                *)

(* The turn is told to stop, and its fetch with it.                        *)
StopTurn ==
  /\ at \in {"fetching", "reading", "handling"} /\ ~aborted
  /\ aborted' = TRUE /\ cut' = TRUE
  /\ UNCHANGED <<response, parserVars, at, armed, turnVars, routeVars, clientOpen, decoderVars,
                 pings>>

(* The timer of the call runs out: the fetch is cut, the turn is not told. *)
Timeout ==
  /\ at \in {"fetching", "reading", "handling"} /\ armed
  /\ armed' = FALSE /\ cut' = TRUE
  /\ UNCHANGED <<response, parserVars, at, aborted, turnVars, routeVars, clientOpen,
                 decoderVars, pings>>

(* The turn ends with an event of its own, and the route with it.          *)
Finish ==
  /\ at = "over"
  /\ SendEvent([kind |-> outcome.kind])
  /\ at' = "closed"
  /\ UNCHANGED <<response, parserVars, cut, armed, aborted, turnVars, clientOpen, decoderVars,
                 pings>>

StreamNext ==
  \/ Respond \/ NetworkFails \/ CutOff \/ Read \/ StreamCloses \/ Handle
  \/ StopTurn \/ Timeout \/ Finish
  \/ Ping \/ Disconnect \/ ClientReads

(* The provider and both networks may be silent for ever.  What the        *)
(* process does by itself happens, and its timer runs out.                 *)
StreamFairness ==
  /\ WF_streamVars(CutOff) /\ WF_streamVars(Handle) /\ WF_streamVars(Finish) /\ WF_streamVars(Timeout)

StreamSpec == StreamInit /\ [][StreamNext]_streamVars /\ StreamFairness

-----------------------------------------------------------------------------
(* Properties.                                                             *)

(* The parts of the frames that had come in full before position p.        *)
PartsUpTo(p) ==
  LET end(k) == Len(FlattenSeq([i \in 1..k |-> Render(response[i])]))
      whole  == {k \in DOMAIN response : end(k) <= p}
      frames == SubSeq(response, 1, Cardinality(whole))
  IN  FlattenSeq(FlattenSeq([i \in DOMAIN frames |-> PayloadsOf(frames[i])]))

TextOf(parts) ==
  FlattenSeq([i \in DOMAIN parts |-> IF parts[i].kind = "text" THEN <<parts[i].piece>> ELSE <<>>])

(* What a list of parts means, whatever the order of the calls' fragments. *)
OfCall(x, i) == x.kind = "call" /\ x.index = i
IndexesOf(parts) == {parts[k].index : k \in {j \in DOMAIN parts : parts[j].kind = "call"}}
IdOf(parts, i) ==
  LET sent == {k \in DOMAIN parts : OfCall(parts[k], i) /\ parts[k].id # <<>>}
  IN  IF sent = {} THEN <<>> ELSE parts[Max(sent)].id[1]
NameOf(parts, i) ==
  FlattenSeq([k \in DOMAIN parts |-> IF OfCall(parts[k], i) THEN parts[k].name ELSE <<>>])
ArgsOf(parts, i) ==
  FlattenSeq([k \in DOMAIN parts |-> IF OfCall(parts[k], i) THEN parts[k].args ELSE <<>>])
CallOf(parts, i) == [id |-> IdOf(parts, i), name |-> NameOf(parts, i), args |-> ArgsOf(parts, i)]

Meant(parts) ==
  LET order == SetToSortSeq(IndexesOf(parts), <)
  IN  [content |-> TextOf(parts),
       calls   |-> [k \in DOMAIN order |-> Finished(CallOf(parts, order[k]))]]

(* A complete message is what the frames meant that came in full, however  *)
(* the network cut them, however the fragments of several calls came mixed *)
(* and wherever the stream closed: "a stream that has already produced     *)
(* useful output should not be discarded" (sse.ts:46-47), and none of it   *)
(* is taken twice, in part or for another call's.                          *)
MessageIsAsSent ==
  outcome.kind = "complete" => outcome.message = Meant(PartsUpTo(pos))

(* What a turn keeps of a stream, whether it ended, broke or was stopped,  *)
(* is the text that was shown, and of a complete one the message's.        *)
StoredIsShown ==
  outcome # NoOutcome =>
    /\ outcome.content = TextOf(shown)
    /\ outcome.kind = "complete" => outcome.message.content = outcome.content

(* The client sees the events of the turn in order and without gaps, in    *)
(* whatever chunks and with whatever keep-alives between them they come,   *)
(* and all of them if it stays: "clients must ignore" comments (sse.ts:33).*)
SeenIsShown ==
  /\ IsPrefix(seen, shown)
  /\ clientOpen /\ got = Len(out) => seen = shown

(* A provider that falls silent holds nobody: the turn's stream ends.      *)
EveryStreamEnds == <>(at = "closed")
=============================================================================
