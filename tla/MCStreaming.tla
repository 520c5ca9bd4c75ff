----------------------------- MODULE MCStreaming -----------------------------
(* Answers of the shapes providers send: text with thoughts and usage, a   *)
(* call in fragments whose id is taken back by an empty one, two calls     *)
(* whose fragments come mixed, with two ids in one and none in the other,  *)
(* noise between them, two lines in a frame.                               *)
EXTENDS Streaming

Text(p) == [kind |-> "text", piece |-> p]
Thought == [kind |-> "thought"]
Usage == [kind |-> "usage"]
Fragment(i, id, name, args) ==
  [kind |-> "call", index |-> i, id |-> id, name |-> name, args |-> args]

NotSent == <<>>
Sent(id) == <<id>>

Frame(parts) == <<DataLine(parts)>>
Noise == <<<<Comment>>>>
DoneFrame == Frame(<<>>)   \* data: [DONE]

MCArguments == <<1, 2>>

Plain == <<Frame(<<Text("a")>>), Noise, Frame(<<Thought>>), Frame(<<Text("b"), Usage>>), DoneFrame>>
OneCall == <<Frame(<<Text("a"), Fragment(0, Sent(<<"x">>), <<"f">>, <<>>)>>),
             Frame(<<Fragment(0, NotSent, <<>>, <<1>>)>>),
             Frame(<<Fragment(0, Sent(<<>>), <<>>, <<2>>)>>)>>
TwoCalls == <<Frame(<<Fragment(1, NotSent, <<"g">>, <<1>>)>>),
              <<DataLine(<<Fragment(0, Sent(<<"x">>), <<"f">>, <<1>>)>>),
                DataLine(<<Fragment(1, NotSent, <<"h">>, <<2>>)>>)>>,
              Frame(<<Text("a"), Fragment(0, Sent(<<"y">>), <<>>, <<2>>)>>)>>

MCResponses == {Plain, OneCall, TwoCalls}
=============================================================================
