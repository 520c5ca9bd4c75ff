------------------------------ MODULE SseFrames ------------------------------
(***************************************************************************)
(* Server-sent events as a stream of units that a network may cut anywhere *)
(* (protocol/src/sse.ts).  A data line is two units, so that it can be cut *)
(* in the middle; a newline is one, so that the blank line behind a frame  *)
(* can be cut too.                                                         *)
(***************************************************************************)
EXTENDS Naturals, Sequences, SequencesExt

Newline == [of |-> <<>>, half |-> 0]
Comment == [of |-> <<>>, half |-> 3]   \* a line without data:, or whose JSON is malformed
DataLine(payload) == <<[of |-> payload, half |-> 1], [of |-> payload, half |-> 2]>>

EncodeEvent(payload) == DataLine(payload) \o <<Newline, Newline>>
EncodeComment == <<Comment, Newline, Newline>>

(* A frame ends with a blank line, a line with a newline.                  *)
EndsFrame(piece, u) == u = Newline /\ piece # <<>> /\ Last(piece) = Newline
EndsLine(u) == u = Newline
EndsPiece(unit, piece, u) == IF unit = "frame" THEN EndsFrame(piece, u) ELSE EndsLine(u)

(* Units are cut behind every one that ends a piece.                       *)
NoPieces == [whole |-> <<>>, rest |-> <<>>]
AddUnit(unit, acc, u) ==
  IF EndsPiece(unit, acc.rest, u)
  THEN [whole |-> Append(acc.whole, acc.rest), rest |-> <<>>]
  ELSE [acc EXCEPT !.rest = Append(@, u)]

Pieces(unit, units) ==
  LET upTo[i \in 0..Len(units)] ==
        IF i = 0 THEN NoPieces ELSE AddUnit(unit, upTo[i - 1], units[i])
  IN  upTo[Len(units)]

Lines(frame) == Pieces("line", frame).whole

(* The payload of a line, as a sequence: none of a comment or of what is   *)
(* cut short.                                                              *)
DataOf(line) ==
  IF line # <<>> /\ line = DataLine(line[1].of) THEN <<line[1].of>> ELSE <<>>

PayloadsOf(lines) == FlattenSeq([i \in DOMAIN lines |-> DataOf(lines[i])])

(* parseSseChunk: what the complete frames of a buffer hold, and the rest. *)
ParseChunk(buffer) ==
  LET cut == Pieces("frame", buffer)
  IN  [events |-> FlattenSeq([i \in DOMAIN cut.whole |-> PayloadsOf(Lines(cut.whole[i]))]),
       rest   |-> cut.rest]
=============================================================================
