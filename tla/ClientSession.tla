--------------------------- MODULE ClientSession ---------------------------
(***************************************************************************)
(* The hook that owns a session in the browser: ui/hooks                   *)
(* /use-harness-session.ts and session-live.ts, over ui/client.ts and the  *)
(* chat, cancel and session routes of server/routes.ts.                    *)
(*                                                                         *)
(* JavaScript runs one callback at a time: an action is the stretch of a   *)
(* callback up to its next await.  A call over HTTP is three of them: it   *)
(* is sent, the server acts, the answer is applied, and whatever happens   *)
(* in between may change the state the answer is applied to.               *)
(*                                                                         *)
(* The server is as TurnAdmission describes it: one live turn a session, a *)
(* newer request stops it and waits.  Of a turn's events those are kept    *)
(* that touch more than rows and text: a gate, and its end.  Rows (the     *)
(* echo of a send, the row of a terminal event) follow the transcript that *)
(* TurnThread models and are left out, as are modes and usage.             *)
(***************************************************************************)
EXTENDS Naturals, Sequences, FiniteSets, SequencesExt, FiniteSetsExt

CONSTANTS Sessions, None,
          First,         \* the session that is shown first
          MaxSends,      \* bound: what the person sends
          MaxTroubles    \* bound: stops, switches away, and calls that fail

ASSUME ClientAssumption == /\ First \in Sessions /\ None \notin Sessions /\ None \notin Nat
                           /\ MaxTroubles \in Nat

VARIABLES sid,      \* the sessionId the hook is given
          view,     \* what is shown: [gate, turn, error]
          queue,    \* followUpQueue: the numbers of the sends in it
          drain,    \* where drainFollowUps is; "idle" is draining = false
          abort,    \* abort.current: the chat whose reader it aborts, or 0
          loops,    \* poll loops: [id, stale, own, detail]; stale is an
                    \* old watchGeneration, own one that drain waits for
          reloads,  \* reload calls: [n, id, detail]
          posts,    \* cancels and decisions: [kind, n, session, at, met]
          chats,    \* the /chat requests: [session, batch, at, wire, open]
          server,   \* the sessions: [live, stop, gate]
          used      \* what the bounds count, and where each send was made

vars == <<sid, view, queue, drain, abort, loops, reloads, posts, chats, server, used>>
serverVars == <<chats, server>>

Idle == [at |-> "idle"]
NoView == [gate |-> None, turn |-> FALSE, error |-> FALSE]

Init ==
  /\ sid = None /\ view = NoView /\ queue = << >> /\ drain = Idle /\ abort = 0
  /\ loops = {} /\ reloads = {} /\ posts = {} /\ chats = << >>
  /\ server = [s \in Sessions |-> [live |-> 0, stop |-> FALSE, gate |-> None]]
  /\ used = [sends |-> << >>, switches |-> 0, troubles |-> 0]

(***************************************************************************)
(* A detail replaces what is shown; of the events, the terminal ones clear *)
(* the gates, but an error leaves them.                                    *)
(***************************************************************************)
Detail(s) == [gate |-> server[s].gate, live |-> server[s].live # 0]

SplitLiveSession(d) == [gate |-> d.gate, turn |-> d.live]
ApplyDetail(v, d) ==
  LET split == SplitLiveSession(d) IN [v EXCEPT !.gate = split.gate, !.turn = split.turn]

ApplyEvent(v, e) ==
  CASE e.kind = "gate"  -> [v EXCEPT !.gate = e.n]
    [] e.kind = "error" -> [v EXCEPT !.error = TRUE]
    [] e.kind = "over"  -> [v EXCEPT !.gate = None]
IsTerminal(e) == e.kind # "gate"

(* A call that the network loses, or a stop.                               *)
Fault == used.troubles < MaxTroubles /\ used' = [used EXCEPT !.troubles = @ + 1]

(***************************************************************************)
(* The server.                                                             *)
(***************************************************************************)
clientVars == <<sid, view, queue, drain, abort, loops, reloads, posts, used>>

Tell(srv, s) == IF srv[s].live = 0 THEN srv ELSE [srv EXCEPT ![s].stop = TRUE]

(* The request arrives: it tells the live turn to stop and waits for it.   *)
Arrive(k) ==
  /\ chats[k].at = "posted"
  /\ chats' = [chats EXCEPT ![k].at = "waiting"]
  /\ server' = Tell(server, chats[k].session)
  /\ UNCHANGED clientVars

(* A turn starts with every message that waits for its session; requests   *)
(* whose messages it takes get a stream that ends empty.                   *)
StartTurn(k) ==
  LET s == chats[k].session
      waiting == {x \in DOMAIN chats : chats[x].at = "waiting" /\ chats[x].session = s}
  IN  /\ k \in waiting /\ server[s].live = 0
      /\ server' = [server EXCEPT ![s].live = k, ![s].stop = FALSE]
      /\ chats' = [x \in DOMAIN chats |->
                     IF x = k THEN [chats[x] EXCEPT !.at = "running"]
                     ELSE IF x \in waiting THEN [chats[x] EXCEPT !.at = "over"] ELSE chats[x]]
      /\ UNCHANGED clientVars

Emit(k, kind) == IF chats[k].open THEN Append(chats[k].wire, [kind |-> kind, n |-> k]) ELSE << >>

RaiseGate(k) ==
  LET s == chats[k].session
  IN  /\ chats[k].at = "running" /\ ~server[s].stop
      /\ server' = [server EXCEPT ![s].gate = k]
      /\ chats' = [chats EXCEPT ![k].at = "gated", ![k].wire = Emit(k, "gate")]
      /\ UNCHANGED clientVars

(* The end: an answer or a cancel, which are alike here, or an error.  A   *)
(* turn at a gate ends only when it is told to stop.                       *)
EndTurn(k) ==
  LET s == chats[k].session
  IN  /\ chats[k].at \in {"running", "decided"} \/ (chats[k].at = "gated" /\ server[s].stop)
      /\ server' = [server EXCEPT ![s] = [live |-> 0, stop |-> FALSE, gate |-> None]]
      /\ \E kind \in {"over"} \cup (IF chats[k].at = "gated" THEN {} ELSE {"error"}) :
           chats' = [chats EXCEPT ![k].at = "over", ![k].wire = Emit(k, kind)]
      /\ UNCHANGED clientVars

(* A GET is answered with the session of that moment.                      *)
Swap(set, old, new) == (set \ {old}) \cup {new}

AnswerLoop(l) ==
  /\ l.detail = None /\ loops' = Swap(loops, l, [l EXCEPT !.detail = Detail(l.id)])
  /\ UNCHANGED <<sid, view, queue, drain, abort, reloads, posts, chats, server, used>>
AnswerReload(r) ==
  /\ r.detail = None /\ reloads' = Swap(reloads, r, [r EXCEPT !.detail = Detail(r.id)])
  /\ UNCHANGED <<sid, view, queue, drain, abort, loops, posts, chats, server, used>>
AnswerRecover ==
  /\ drain.at = "recovering" /\ drain.detail = None
  /\ drain' = [drain EXCEPT !.detail = Detail(drain.id)]
  /\ UNCHANGED <<sid, view, queue, abort, loops, reloads, posts, chats, server, used>>

(* A cancel is answered when the turn it met is over; a decision when the  *)
(* gate it names is still there, and refused otherwise.  Answers that      *)
(* change nothing at the client are not kept.                              *)
AnswerCancel(p) ==
  LET live == server[p.session].live
  IN  /\ p.kind # "decide" /\ p.at = "sent"
      /\ posts' = IF p.kind = "follow_up" THEN posts \ {p}
                  ELSE Swap(posts, p, [p EXCEPT !.at = "met", !.met = live])
      /\ server' = Tell(server, p.session)
      /\ UNCHANGED <<sid, view, queue, drain, abort, loops, reloads, chats, used>>
AnswerDecision(p) ==
  /\ p.kind = "decide" /\ p.at = "sent"
  /\ IF server[p.session].gate = p.n
     THEN /\ posts' = posts \ {p}
          /\ server' = [server EXCEPT ![p.session].gate = None]
          /\ chats' = [chats EXCEPT ![p.n].at = "decided"]
     ELSE posts' = Swap(posts, p, [p EXCEPT !.at = "refused"]) /\ UNCHANGED serverVars
  /\ UNCHANGED <<sid, view, queue, drain, abort, loops, reloads, used>>

(***************************************************************************)
(* drainFollowUps.  One request for all that is queued; the session is the *)
(* one shown when the loop comes round.                                    *)
(***************************************************************************)
(* Mutant: the queue is kept until the stream ends.                        *)
OpenKeepsQueue(v, q, given) ==
  /\ queue' = q /\ abort' = Len(given) + 1
  /\ drain' = [at |-> "reading", chat |-> Len(given) + 1]
  /\ chats' = Append(given, [session |-> sid, batch |-> q, at |-> "posted", wire |-> << >>, open |-> TRUE])
  /\ view' = [v EXCEPT !.error = FALSE, !.turn = TRUE]

Open(v, q, given) ==
  /\ queue' = << >> /\ abort' = Len(given) + 1
  /\ drain' = [at |-> "reading", chat |-> Len(given) + 1]
  /\ chats' = Append(given, [session |-> sid, batch |-> q, at |-> "posted", wire |-> << >>, open |-> TRUE])
  /\ view' = [v EXCEPT !.error = FALSE, !.turn = TRUE]

(* Mutant: one request a drain; what came meanwhile waits for a send.      *)
ContinueOnce(v, given) ==
  drain' = Idle /\ abort' = 0 /\ view' = v /\ chats' = given /\ UNCHANGED queue

(* The end of one request: the loop goes on if something was queued.       *)
Continue(v, given) ==
  IF queue # << >> THEN Open(v, queue, given)
  ELSE /\ drain' = Idle /\ abort' = 0 /\ view' = v /\ chats' = given /\ UNCHANGED queue

Stay(v) == view' = v /\ UNCHANGED <<queue, drain, abort, chats>>

Close(k) == [chats EXCEPT ![k].open = FALSE, ![k].wire = << >>]
(* Mutant: the end of a stream leaves the bubble to the next reload.       *)
LeaveBubble(v) == v
NoTurn(v) == [v EXCEPT !.turn = FALSE]

ReadEvent ==
  LET k == drain.chat
      e == Head(chats[k].wire)
      v == ApplyEvent(view, e)
  IN  /\ drain.at = "reading" /\ chats[k].wire # << >>
      /\ IF IsTerminal(e) THEN Continue(NoTurn(v), Close(k))
         ELSE /\ view' = v /\ chats' = [chats EXCEPT ![k].wire = Tail(@)]
              /\ UNCHANGED <<queue, drain, abort>>
      /\ UNCHANGED <<sid, loops, reloads, posts, server, used>>

(* A stream without a terminal event: its messages ran in another's turn.  *)
ReadEnd ==
  LET k == drain.chat
  IN  /\ drain.at = "reading" /\ chats[k].wire = << >> /\ chats[k].at = "over"
      /\ Continue(NoTurn(view), Close(k))
      /\ UNCHANGED <<sid, loops, reloads, posts, server, used>>

(* The request or its body is lost: reload what the server has, and watch  *)
(* if the turn runs on.  A request may be lost before the server has it.   *)
LoseStream ==
  LET k == drain.chat
  IN  /\ drain.at = "reading" /\ Fault
      /\ \E reached \in {TRUE, chats[k].at # "posted"} :
           chats' = [Close(k) EXCEPT ![k].at = IF reached THEN @ ELSE "over"]
      /\ view' = [view EXCEPT !.error = TRUE]
      /\ drain' = [at |-> "recovering", id |-> sid, detail |-> None]
      /\ UNCHANGED <<sid, queue, abort, loops, reloads, posts, server>>

(* Mutant: a new stream or loop lets the old loops run on.                 *)
LoopsRunOn == loops

(* A new generation makes every loop stale.  watchLiveTurn starts one, and *)
(* asks if its id is shown.                                                *)
BumpGeneration == {[l EXCEPT !.stale = TRUE] : l \in loops}

Watch(id, own) ==
  loops' = BumpGeneration \cup
    (IF id = sid THEN {[id |-> id, stale |-> FALSE, own |-> own, detail |-> None]} ELSE {})

Recovered ==
  LET v == ApplyDetail(view, drain.detail)
  IN  /\ drain.at = "recovering" /\ drain.detail # None
      /\ IF drain.detail.live THEN Watch(drain.id, TRUE) ELSE UNCHANGED loops
      /\ IF drain.detail.live /\ drain.id = sid
         THEN /\ drain' = [at |-> "watching"]
              /\ view' = [v EXCEPT !.error = FALSE] /\ UNCHANGED <<queue, abort, chats>>
         ELSE Continue([v EXCEPT !.error = @ /\ ~drain.detail.live], chats)
      /\ UNCHANGED <<sid, reloads, posts, server, used>>
RecoverFails ==                   \* the network is still down: no new trouble
  /\ drain.at = "recovering"
  /\ Continue([view EXCEPT !.error = TRUE], chats)
  /\ UNCHANGED <<sid, loops, reloads, posts, server, used>>

(***************************************************************************)
(* watchLiveTurn: only the latest loop of the session shown may write.     *)
(***************************************************************************)
Current(l) == ~l.stale /\ l.id = sid

Return(l, v) ==
  /\ loops' = loops \ {l}
  /\ IF l.own THEN Continue(v, chats) ELSE Stay(v)

Polled(l) ==
  LET v == [ApplyDetail(view, l.detail) EXCEPT !.error = FALSE]
  IN  /\ l.detail # None
      /\ IF ~Current(l) THEN Return(l, view)
         ELSE IF ~l.detail.live THEN Return(l, v)
         ELSE loops' = Swap(loops, l, [l EXCEPT !.detail = None]) /\ Stay(v)
      /\ UNCHANGED <<sid, reloads, posts, server, used>>
PollFails(l) ==
  /\ Fault
  /\ Return(l, IF ~l.stale THEN [view EXCEPT !.error = TRUE] ELSE view)
  /\ UNCHANGED <<sid, reloads, posts, server>>

(***************************************************************************)
(* reload: applied whatever session is shown by then.                      *)
(***************************************************************************)
Ask(n, id) == [n |-> n, id |-> id, detail |-> None]

Reloaded(r) ==
  /\ r.detail # None /\ reloads' = reloads \ {r}
  /\ view' = [ApplyDetail(view, r.detail) EXCEPT !.error = FALSE]
  /\ IF r.detail.live /\ abort = 0 /\ drain = Idle THEN Watch(r.id, FALSE) ELSE UNCHANGED loops
  /\ UNCHANGED <<sid, queue, drain, abort, posts, serverVars, used>>
ReloadFails(r) ==
  /\ Fault /\ reloads' = reloads \ {r} /\ view' = [view EXCEPT !.error = TRUE]
  /\ UNCHANGED <<sid, queue, drain, abort, loops, posts, serverVars>>

(***************************************************************************)
(* What the person does.                                                   *)
(***************************************************************************)
Switch(s) ==
  /\ s # sid
  /\ IF sid = None THEN s = First /\ used' = [used EXCEPT !.switches = 1]
     ELSE /\ used.troubles < MaxTroubles
          /\ used' = [used EXCEPT !.switches = @ + 1, !.troubles = @ + 1]
  /\ sid' = s
  /\ reloads' = reloads \cup {Ask(used.switches, s)}
  /\ UNCHANGED <<view, queue, drain, abort, loops, posts, serverVars>>

(* During a drain a send asks the server to stop the turn and leaves       *)
(* itself to the drain.                                                    *)
Post(kind, n) == [kind |-> kind, n |-> n, session |-> sid, at |-> "sent", met |-> 0]

Send ==
  LET n == Len(used.sends) + 1
  IN  /\ sid # None /\ n <= MaxSends
      /\ used' = [used EXCEPT !.sends = Append(@, sid)]
      /\ IF drain # Idle
         THEN /\ queue' = Append(queue, n) /\ UNCHANGED view
              /\ posts' = posts \cup {Post("follow_up", n)}
              /\ UNCHANGED <<drain, abort, chats, loops>>
         ELSE Open(view, Append(queue, n), chats) /\ loops' = BumpGeneration /\ UNCHANGED posts
      /\ UNCHANGED <<sid, reloads, server>>

(* Stop: nothing queued is sent; the reader is aborted after the answer.   *)
Stop ==
  /\ sid # None /\ view.turn /\ Fault
  /\ queue' = << >> /\ posts' = posts \cup {Post("operator", used.troubles)}
  /\ UNCHANGED <<sid, view, drain, abort, loops, reloads, serverVars>>

(* A decision takes its gate from view before it is sent.                  *)
Decide ==
  /\ sid # None /\ view.gate # None
  /\ posts' = posts \cup {Post("decide", view.gate)}
  /\ view' = [view EXCEPT !.gate = None]
  /\ UNCHANGED <<sid, queue, drain, abort, loops, reloads, serverVars, used>>

(* An operator's cancel ends in the abort, even if it failed; a decision   *)
(* that failed or was refused reloads.                                     *)
AbortReader(v) ==
  IF drain.at = "reading" THEN Continue(NoTurn(v), Close(drain.chat)) ELSE Stay(v)

Stopped(p) ==
  /\ p.at = "met" /\ p.met \in {0} \cup {k \in DOMAIN chats : chats[k].at = "over"}
  /\ posts' = posts \ {p} /\ AbortReader(view)
  /\ UNCHANGED <<sid, loops, reloads, server, used>>

Failed(p) ==
  LET v == [view EXCEPT !.error = TRUE]
  IN  /\ posts' = posts \ {p}
      /\ IF p.kind = "operator" THEN AbortReader(v) ELSE Stay(v)
      /\ reloads' = reloads \cup (IF p.kind = "decide" THEN {Ask(MaxTroubles + p.n, p.session)} ELSE {})
      /\ UNCHANGED <<sid, loops, server>>
Refused(p) == p.at = "refused" /\ Failed(p) /\ UNCHANGED used
PostFails(p) == p.at # "refused" /\ Fault /\ Failed(p)

TurnStep == \E k \in DOMAIN chats : Arrive(k) \/ StartTurn(k) \/ EndTurn(k)
AnswerStep == \E p \in posts : AnswerCancel(p) \/ AnswerDecision(p)
ReadStep == ReadEvent \/ ReadEnd
PollStep == \E l \in loops : Polled(l)

Next ==
  \/ TurnStep \/ AnswerStep \/ ReadStep \/ PollStep
  \/ \E k \in DOMAIN chats : RaiseGate(k)
  \/ \E l \in loops : AnswerLoop(l) \/ PollFails(l)
  \/ \E r \in reloads : AnswerReload(r) \/ Reloaded(r) \/ ReloadFails(r)
  \/ AnswerRecover \/ Recovered \/ LoseStream \/ RecoverFails
  \/ \E p \in posts : Stopped(p) \/ Refused(p) \/ PostFails(p)
  \/ (\E s \in Sessions : Switch(s)) \/ Send \/ Stop \/ Decide

(* Calls are answered and answers applied; a turn that is not at a gate    *)
(* ends (MaxToolRounds and the provider's timeout bound it); nothing is    *)
(* asked of the person.                                                    *)
Fairness ==
  /\ WF_vars(TurnStep) /\ WF_vars(AnswerStep) /\ WF_vars(ReadStep) /\ WF_vars(PollStep)
  /\ WF_vars(\E l \in loops : AnswerLoop(l))
  /\ WF_vars(\E r \in reloads : AnswerReload(r)) /\ WF_vars(\E r \in reloads : Reloaded(r))
  /\ WF_vars(AnswerRecover) /\ WF_vars(Recovered)
  /\ WF_vars(\E p \in posts : Stopped(p) \/ Refused(p))

Spec == Init /\ [][Next]_vars /\ Fairness

-----------------------------------------------------------------------------
(***************************************************************************)
(* Properties.                                                             *)
(***************************************************************************)
Requested == FlattenSeq([k \in DOMAIN chats |-> chats[k].batch])

(* No send goes out twice or overtakes an earlier one, whatever drains,    *)
(* recoveries, aborts and switches came between (send, cancel and          *)
(* drainFollowUps share the queue and the draining flag).                  *)
SendsGoOnceInOrder ==
  LET all == Requested \o queue
  IN  \A i, j \in DOMAIN all : i < j => all[i] < all[j]

(* While a /chat stream is read no poll loop may write the view: "A real   *)
(* /chat stream owns updates; stop any recover poller."                    *)
StreamOwnsUpdates == drain.at = "reading" => \A l \in loops : l.stale

Live == \E s \in Sessions : server[s].live # 0

(* A send that waits behind a live turn goes out, is dropped by an         *)
(* operator's cancel, or the person sees an error.  It may also wait at a  *)
(* gate that nobody decides: its cancel can reach the server before the    *)
(* turn is live and is then forgotten.                                     *)
AtGate == \E k \in DOMAIN chats : chats[k].at = "gated" /\ ~server[chats[k].session].stop

QueuedSendGoesOut ==
  \A n \in 1..MaxSends :
    (n \in Range(queue)) ~> (n \notin Range(queue) \/ view.error \/ AtGate)

(* A bubble is not left behind: once the server has no turn, it goes or    *)
(* there is an error (as long as the person stays with the session).       *)
BubbleEnds == view.turn ~> (~view.turn \/ view.error \/ Live \/ used.switches > 1)
=============================================================================
