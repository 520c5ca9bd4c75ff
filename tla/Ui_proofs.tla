----------------------------- MODULE Ui_proofs -----------------------------
(***************************************************************************)
(* Theorems about the person's side of the program: the hook of a session  *)
(* (ClientSession), the composer's trigger menu and its draft (Composer),  *)
(* and an answer on its way to the person (Streaming).                     *)
(***************************************************************************)
EXTENDS ClientSession, Composer, Streaming, SequenceTheorems, FiniteSetTheorems, WellFoundedInduction, TLAPS

-----------------------------------------------------------------------------
(***************************************************************************)
(* The session hook: types.                                                *)
(***************************************************************************)
Gates == Nat \cup {None}
Views == [gate: Gates, turn: BOOLEAN, error: BOOLEAN]
Details == [gate: Gates, live: BOOLEAN]
Answers == Details \cup {None}
Events == [kind: {"gate", "error", "over"}, n: Nat]
Chats == [session: Sessions, batch: Seq(Nat), wire: Seq(Events), open: BOOLEAN,
          at: {"posted", "waiting", "running", "gated", "decided", "over"}]
Loops == [id: Sessions, stale: BOOLEAN, own: BOOLEAN, detail: Answers]
Reloads == [n: Nat, id: Sessions, detail: Answers]
Posts == [kind: {"follow_up", "operator", "decide"}, n: Nat, session: Sessions,
          at: {"sent", "met", "refused"}, met: Nat]
Servers == [live: Nat, stop: BOOLEAN, gate: Gates]
Drains(n) == {Idle, [at |-> "watching"]}
             \cup [at: {"reading"}, chat: 1..n]
             \cup [at: {"recovering"}, id: Sessions, detail: Answers]

TypeOK ==
  /\ sid \in Sessions \cup {None} /\ view \in Views
  /\ queue \in Seq(Nat) /\ abort \in Nat
  /\ chats \in Seq(Chats) /\ drain \in Drains(Len(chats))
  /\ loops \subseteq Loops /\ reloads \subseteq Reloads /\ posts \subseteq Posts
  /\ server \in [Sessions -> Servers]
  /\ used \in [sends: Seq(Sessions), switches: Nat, troubles: Nat]

(* Nothing is drained, watched or asked before a session is shown.         *)
SomeSession == drain # Idle \/ loops # {} \/ posts # {} => sid # None

HookTyped == TypeOK /\ SomeSession

(* A step leaves what the requests carry, or sends one more.               *)
Kept(given) ==
  /\ given \in Seq(Chats) /\ Len(given) = Len(chats)
  /\ \A k \in 1..Len(chats) : given[k].batch = chats[k].batch
Opened(q) ==
  /\ queue' = << >>
  /\ \E given, c : Kept(given) /\ c \in Chats /\ c.batch = q /\ chats' = Append(given, c)
Drained == (Kept(chats') /\ UNCHANGED queue) \/ Opened(queue)

LEMMA ChatKept ==
  ASSUME TypeOK, NEW k \in DOMAIN chats, NEW c \in Chats, c.batch = chats[k].batch
  PROVE  Kept([chats EXCEPT ![k] = c])
<1>1. /\ [chats EXCEPT ![k] = c] \in Seq(Chats) /\ Len([chats EXCEPT ![k] = c]) = Len(chats)
      /\ \A j \in 1..Len(chats) : [chats EXCEPT ![k] = c][j] = IF j = k THEN c ELSE chats[j]
  BY ExceptSeq DEF TypeOK
<1> QED BY <1>1 DEF Kept

LEMMA ChatTyped ==
  ASSUME HookTyped, NEW k \in DOMAIN chats
  PROVE  chats[k] \in Chats /\ chats[k].session \in Sessions /\ k \in 1..Len(chats) /\ k \in Nat
<1>1. chats[k] \in Chats /\ k \in 1..Len(chats) /\ Len(chats) \in Nat
  BY DEF HookTyped, TypeOK
<1> QED BY <1>1 DEF Chats

LEMMA AllKept == TypeOK => Kept(chats)
BY DEF TypeOK, Kept

LEMMA SameLength ==
  ASSUME NEW given, Kept(given)
  PROVE  Drains(Len(given)) = Drains(Len(chats))
BY DEF Kept

LEMMA OpenActs ==
  ASSUME TypeOK, sid \in Sessions, NEW v \in Views, NEW given, Kept(given),
         NEW q \in Seq(Nat), Open(v, q, given)
  PROVE  /\ view' \in Views /\ queue' \in Seq(Nat) /\ abort' \in Nat
         /\ chats' \in Seq(Chats) /\ drain' \in Drains(Len(chats')) /\ drain'.at = "reading"
         /\ Opened(q)
<1> DEFINE c == [session |-> sid, batch |-> q, at |-> "posted", wire |-> << >>, open |-> TRUE]
<1>1. c \in Chats
  BY DEF Chats
<1>2. chats' = Append(given, c) /\ queue' = << >> /\ given \in Seq(Chats)
  BY DEF Open, Kept
<1>3. Opened(q)
  BY <1>1, <1>2 DEF Opened
<1>4. chats' \in Seq(Chats) /\ Len(chats') = Len(given) + 1 /\ Len(given) \in Nat
  BY <1>1, <1>2, AppendProperties, LenProperties
<1>5. drain' \in Drains(Len(chats')) /\ abort' \in Nat /\ drain'.at = "reading"
  BY <1>4 DEF Open, Drains
<1>6. view' \in Views
  BY DEF Open, Views
<1> QED BY <1>2, <1>3, <1>4, <1>5, <1>6

LEMMA ContinueActs ==
  ASSUME TypeOK, sid \in Sessions, NEW v \in Views, NEW given, Kept(given),
         Continue(v, given)
  PROVE  /\ view' \in Views /\ queue' \in Seq(Nat) /\ abort' \in Nat
         /\ chats' \in Seq(Chats) /\ drain' \in Drains(Len(chats'))
         /\ drain'.at \in {"idle", "reading"} /\ Drained
<1>1. CASE queue # << >>
  BY <1>1, OpenActs DEF Continue, Drained, TypeOK
<1>2. CASE queue = << >>
  BY <1>2 DEF Continue, Drained, TypeOK, Kept, Drains, Idle
<1> QED BY <1>1, <1>2

LEMMA StayActs ==
  ASSUME TypeOK, NEW v \in Views, Stay(v)
  PROVE  /\ view' \in Views /\ queue' \in Seq(Nat) /\ abort' \in Nat
         /\ chats' \in Seq(Chats) /\ drain' \in Drains(Len(chats'))
         /\ drain' = drain /\ Drained
BY AllKept DEF Stay, Drained, TypeOK, Kept

LEMMA HookInit == Init => HookTyped
<1> SUFFICES ASSUME Init PROVE HookTyped
  OBVIOUS
<1>1. /\ queue \in Seq(Nat) /\ chats \in Seq(Chats) /\ Len(chats) \in Nat
  BY EmptySeq DEF Init
<1>2. view \in Views
  BY DEF Init, NoView, Views, Gates
<1>3. server \in [Sessions -> Servers]
  BY DEF Init, Servers, Gates
<1>4. used \in [sends: Seq(Sessions), switches: Nat, troubles: Nat]
  BY EmptySeq DEF Init
<1>5. sid \in Sessions \cup {None} /\ abort \in Nat /\ drain \in Drains(Len(chats))
  BY DEF Init, Drains
<1>6. loops \subseteq Loops /\ reloads \subseteq Reloads /\ posts \subseteq Posts
  BY DEF Init
<1>7. TypeOK
  BY <1>1, <1>2, <1>3, <1>4, <1>5, <1>6 DEF TypeOK
<1> QED BY <1>7 DEF HookTyped, SomeSession, Init

LEMMA DetailTyped ==
  ASSUME TypeOK, NEW s \in Sessions
  PROVE  Detail(s) \in Details
BY DEF TypeOK, Detail, Details, Servers

LEMMA ApplyTyped ==
  ASSUME NEW v \in Views, NEW d \in Details
  PROVE  ApplyDetail(v, d) \in Views
BY DEF ApplyDetail, SplitLiveSession, Views, Details

LEMMA EventTyped ==
  ASSUME NEW v \in Views, NEW e \in Events
  PROVE  ApplyEvent(v, e) \in Views
BY DEF Views, Events, ApplyEvent, Gates

LEMMA EmitTyped ==
  ASSUME TypeOK, NEW k \in DOMAIN chats, NEW kind \in {"gate", "error", "over"}
  PROVE  Emit(k, kind) \in Seq(Events)
<1>1. chats[k] \in Chats /\ k \in Nat
  BY DEF TypeOK
<1>2. [kind |-> kind, n |-> k] \in Events
  BY <1>1 DEF Events
<1> QED BY <1>1, <1>2, AppendProperties, EmptySeq DEF Emit, Chats

LEMMA TellTyped ==
  ASSUME TypeOK, NEW s \in Sessions
  PROVE  Tell(server, s) \in [Sessions -> Servers]
BY DEF TypeOK, Tell, Servers

LEMMA CloseKept ==
  ASSUME TypeOK, NEW k \in DOMAIN chats
  PROVE  Kept(Close(k))
<1> DEFINE c == [chats[k] EXCEPT !.open = FALSE, !.wire = << >>]
<1>1. chats[k] \in Chats
  BY DEF TypeOK
<1>2. c \in Chats /\ c.batch = chats[k].batch
  BY <1>1, EmptySeq DEF Chats
<1>3. Close(k) = [chats EXCEPT ![k] = c]
  BY <1>1 DEF Close, TypeOK
<1> HIDE DEF c
<1> QED BY <1>2, <1>3, ChatKept

(* What a step does to what waits and to what was sent: it drains or       *)
(* leaves both, drops the queue (Stop), or adds a number (Send).           *)
NewSend == Len(used.sends) + 1
SendsMove ==
  \/ Drained /\ used'.sends = used.sends
  \/ Kept(chats') /\ queue' = << >> /\ used'.sends = used.sends
  \/ /\ used'.sends = Append(used.sends, sid) /\ sid \in Sessions
     /\ (Kept(chats') /\ queue' = Append(queue, NewSend)) \/ Opened(Append(queue, NewSend))
HookActs == HookTyped' /\ SendsMove

LEMMA ServerActs ==
  ASSUME HookTyped, Kept(chats'), server' \in [Sessions -> Servers],
         UNCHANGED <<sid, view, queue, drain, abort, loops, reloads, used>>,
         posts' \subseteq Posts, posts = {} => posts' = {}
  PROVE  HookActs
<1>1. drain' \in Drains(Len(chats')) /\ chats' \in Seq(Chats)
  BY SameLength DEF HookTyped, TypeOK, Kept
<1>2. TypeOK'
  BY <1>1 DEF HookTyped, TypeOK
<1> QED BY <1>2 DEF HookTyped, SomeSession, HookActs, SendsMove, Drained

LEMMA ArriveActs == ASSUME HookTyped, NEW k \in DOMAIN chats, Arrive(k) PROVE HookActs
<1> DEFINE c == [chats[k] EXCEPT !.at = "waiting"]
<1>1. chats[k] \in Chats /\ chats[k].session \in Sessions
  BY ChatTyped
<1>2. c \in Chats /\ c.batch = chats[k].batch
  BY <1>1 DEF Chats
<1>3. chats' = [chats EXCEPT ![k] = c]
  BY DEF Arrive, HookTyped, TypeOK
<1> HIDE DEF c
<1>4. Kept(chats')
  BY <1>2, <1>3, ChatKept DEF HookTyped
<1>5. server' \in [Sessions -> Servers]
  BY <1>1, TellTyped DEF Arrive, HookTyped
<1> QED BY <1>4, <1>5, ServerActs DEF Arrive, clientVars, HookTyped, TypeOK

LEMMA StartTurnActs == ASSUME HookTyped, NEW k \in DOMAIN chats, StartTurn(k) PROVE HookActs
<1>1. chats[k] \in Chats /\ chats[k].session \in Sessions /\ k \in Nat
  BY ChatTyped
<1>2. server' \in [Sessions -> Servers]
  BY <1>1 DEF StartTurn, HookTyped, TypeOK, Servers
<1>3. Kept(chats')
  <2>1. chats \in Seq(Chats) /\ DOMAIN chats = 1..Len(chats) /\ Len(chats) \in Nat
    BY DEF HookTyped, TypeOK
  <2> DEFINE w == {x \in DOMAIN chats : chats[x].at = "waiting" /\ chats[x].session = chats[k].session}
             f(x) == IF x = k THEN [chats[x] EXCEPT !.at = "running"]
                     ELSE IF x \in w THEN [chats[x] EXCEPT !.at = "over"] ELSE chats[x]
  <2>2. chats' = [x \in 1..Len(chats) |-> f(x)]
    BY <2>1 DEF StartTurn
  <2>3. \A x \in 1..Len(chats) : f(x) \in Chats /\ f(x).batch = chats[x].batch
    <3> SUFFICES ASSUME NEW x \in 1..Len(chats) PROVE f(x) \in Chats /\ f(x).batch = chats[x].batch
      OBVIOUS
    <3>1. chats[x] \in Chats
      BY <2>1
    <3> QED BY <3>1 DEF Chats
  <2> HIDE DEF f
  <2>4. chats' \in Seq(Chats) /\ Len(chats') = Len(chats)
    BY <2>1, <2>2, <2>3, IsASeq
  <2> QED BY <2>1, <2>2, <2>3, <2>4 DEF Kept
<1> QED BY <1>2, <1>3, ServerActs DEF StartTurn, clientVars, HookTyped, TypeOK

LEMMA RaiseGateActs == ASSUME HookTyped, NEW k \in DOMAIN chats, RaiseGate(k) PROVE HookActs
<1> DEFINE wire == Emit(k, "gate")
           c == [chats[k] EXCEPT !.at = "gated", !.wire = wire]
<1>1. chats[k] \in Chats /\ chats[k].session \in Sessions /\ k \in Nat /\ wire \in Seq(Events)
  BY ChatTyped, EmitTyped DEF HookTyped
<1>2. chats' = [chats EXCEPT ![k] = c]
  BY DEF RaiseGate, HookTyped, TypeOK
<1> HIDE DEF wire
<1>3. c \in Chats /\ c.batch = chats[k].batch
  BY <1>1 DEF Chats
<1> HIDE DEF c
<1>4. Kept(chats')
  BY <1>2, <1>3, ChatKept DEF HookTyped
<1>5. server' \in [Sessions -> Servers]
  BY <1>1 DEF RaiseGate, HookTyped, TypeOK, Servers, Gates
<1> QED BY <1>4, <1>5, ServerActs DEF RaiseGate, clientVars, HookTyped, TypeOK

LEMMA EndTurnActs == ASSUME HookTyped, NEW k \in DOMAIN chats, EndTurn(k) PROVE HookActs
<1>1. PICK kind \in {"over", "error"} :
         chats' = [chats EXCEPT ![k].at = "over", ![k].wire = Emit(k, kind)]
  BY DEF EndTurn
<1> DEFINE wire == Emit(k, kind)
           c == [chats[k] EXCEPT !.at = "over", !.wire = wire]
<1>2. chats[k] \in Chats /\ chats[k].session \in Sessions /\ k \in Nat /\ wire \in Seq(Events)
  BY ChatTyped, EmitTyped DEF HookTyped
<1>3. chats' = [chats EXCEPT ![k] = c]
  BY <1>1 DEF HookTyped, TypeOK
<1> HIDE DEF wire
<1>4. c \in Chats /\ c.batch = chats[k].batch
  BY <1>2 DEF Chats
<1> HIDE DEF c
<1>5. Kept(chats')
  BY <1>3, <1>4, ChatKept DEF HookTyped
<1>6. server' \in [Sessions -> Servers]
  BY <1>2 DEF EndTurn, HookTyped, TypeOK, Servers, Gates
<1> QED BY <1>5, <1>6, ServerActs DEF EndTurn, clientVars, HookTyped, TypeOK

LEMMA AnswerCancelActs == ASSUME HookTyped, NEW p \in posts, AnswerCancel(p) PROVE HookActs
<1>1. p \in Posts /\ p.session \in Sessions /\ server[p.session].live \in Nat
  BY DEF HookTyped, TypeOK, Posts, Servers
<1>2. posts' \subseteq Posts
  BY <1>1 DEF AnswerCancel, Swap, HookTyped, TypeOK, Posts
<1>3. server' \in [Sessions -> Servers]
  BY <1>1, TellTyped DEF AnswerCancel, HookTyped
<1> QED BY <1>2, <1>3, AllKept, ServerActs DEF AnswerCancel, HookTyped, Kept

LEMMA AnswerDecisionActs == ASSUME HookTyped, NEW p \in posts, AnswerDecision(p) PROVE HookActs
<1>1. p \in Posts /\ p.session \in Sessions
  BY DEF HookTyped, TypeOK, Posts
<1>2. posts' \subseteq Posts
  <2>1. posts' = posts \ {p} \/ posts' = Swap(posts, p, [p EXCEPT !.at = "refused"])
    BY DEF AnswerDecision
  <2>2. [p EXCEPT !.at = "refused"] \in Posts
    BY <1>1 DEF Posts
  <2> QED BY <2>1, <2>2 DEF Swap, HookTyped, TypeOK
<1>3. server' \in [Sessions -> Servers]
  <2>1. server' = server \/ server' = [server EXCEPT ![p.session].gate = None]
    BY DEF AnswerDecision, serverVars
  <2>2. server \in [Sessions -> Servers]
    BY DEF HookTyped, TypeOK
  <2>3. [server[p.session] EXCEPT !.gate = None] \in Servers
    <3>1. PICK v \in Servers : v = server[p.session]
      BY <1>1, <2>2
    <3>2. [v EXCEPT !.gate = None] \in Servers
      BY DEF Servers, Gates
    <3> QED BY <3>1, <3>2
  <2> QED BY <1>1, <2>1, <2>2, <2>3
<1>4. Kept(chats')
  <2>1. CASE chats' = chats
    BY <2>1, AllKept DEF HookTyped, Kept
  <2>2. CASE chats' = [chats EXCEPT ![p.n].at = "decided"] /\ p.n \in DOMAIN chats
    <3> DEFINE c == [chats[p.n] EXCEPT !.at = "decided"]
    <3>1. chats[p.n] \in Chats
      BY <2>2 DEF HookTyped, TypeOK
    <3>2. c \in Chats /\ c.batch = chats[p.n].batch
      BY <3>1 DEF Chats
    <3>3. chats' = [chats EXCEPT ![p.n] = c]
      BY <2>2
    <3>4. p.n \in DOMAIN chats
      BY <2>2
    <3> HIDE DEF c
    <3> QED BY <3>4, <3>2, <3>3, ChatKept DEF HookTyped
  <2>3. CASE chats' = [chats EXCEPT ![p.n].at = "decided"] /\ p.n \notin DOMAIN chats
    <3>1. chats' = chats
      BY <2>3 DEF HookTyped, TypeOK
    <3> QED BY <3>1, AllKept DEF HookTyped, Kept
  <2> QED BY <2>1, <2>2, <2>3 DEF AnswerDecision, serverVars
<1> QED BY <1>2, <1>3, <1>4, ServerActs DEF AnswerDecision

LEMMA QuietActs ==
  ASSUME HookTyped, UNCHANGED <<queue, abort, chats, server>>, used'.sends = used.sends,
         used' \in [sends: Seq(Sessions), switches: Nat, troubles: Nat],
         sid' \in Sessions \cup {None}, view' \in Views, drain' \in Drains(Len(chats)),
         loops' \subseteq Loops, reloads' \subseteq Reloads, posts' \subseteq Posts, SomeSession'
  PROVE  HookActs
<1>1. TypeOK'
  BY DEF HookTyped, TypeOK
<1>2. SendsMove
  BY AllKept DEF HookTyped, SendsMove, Drained, Kept
<1> QED BY <1>1, <1>2 DEF HookActs, HookTyped

LEMMA LoopTyped ==
  ASSUME HookTyped, NEW l \in loops
  PROVE  l \in Loops /\ l.id \in Sessions /\ l.detail \in Answers /\ sid \in Sessions
BY DEF HookTyped, TypeOK, SomeSession, Loops

LEMMA DrainTyped ==
  ASSUME HookTyped
  PROVE  /\ drain.at = "reading" => drain.chat \in DOMAIN chats /\ sid \in Sessions
         /\ drain.at = "recovering" =>
              drain.id \in Sessions /\ drain.detail \in Answers /\ sid \in Sessions
              /\ drain = [at |-> "recovering", id |-> drain.id, detail |-> drain.detail]
         /\ drain.at \in {"idle", "reading", "recovering", "watching"}
<1>1. drain \in Drains(Len(chats)) /\ DOMAIN chats = 1..Len(chats)
  BY DEF HookTyped, TypeOK
<1>2. drain.at # "idle" => sid \in Sessions
  BY DEF HookTyped, TypeOK, SomeSession, Idle
<1> QED BY <1>1, <1>2 DEF Drains, Idle

LEMMA AnswerLoopActs == ASSUME HookTyped, NEW l \in loops, AnswerLoop(l) PROVE HookActs
<1>1. l \in Loops /\ Detail(l.id) \in Details /\ sid \in Sessions
  BY LoopTyped, DetailTyped DEF HookTyped
<1> DEFINE d == Detail(l.id)
<1> HIDE DEF d
<1>2. [l EXCEPT !.detail = d] \in Loops
  BY <1>1 DEF Loops, Answers, d
<1>3. loops' \subseteq Loops
  BY <1>2 DEF AnswerLoop, Swap, HookTyped, TypeOK, d
<1>4. SomeSession'
  BY <1>1, ClientAssumption DEF SomeSession, AnswerLoop
<1> QED BY <1>3, <1>4, QuietActs DEF AnswerLoop, HookTyped, TypeOK

LEMMA AnswerReloadActs == ASSUME HookTyped, NEW r \in reloads, AnswerReload(r) PROVE HookActs
<1>1. r \in Reloads /\ r.id \in Sessions
  BY DEF HookTyped, TypeOK, Reloads
<1> DEFINE d == Detail(r.id)
<1>2. d \in Details
  BY <1>1, DetailTyped DEF HookTyped
<1> HIDE DEF d
<1>3. [r EXCEPT !.detail = d] \in Reloads
  BY <1>1, <1>2 DEF Reloads, Answers
<1>4. reloads' \subseteq Reloads
  BY <1>3 DEF AnswerReload, Swap, HookTyped, TypeOK, d
<1> QED BY <1>4, QuietActs DEF AnswerReload, HookTyped, TypeOK, SomeSession

LEMMA AnswerRecoverActs == ASSUME HookTyped, AnswerRecover PROVE HookActs
<1> DEFINE d == Detail(drain.id)
<1>1. /\ drain = [at |-> "recovering", id |-> drain.id, detail |-> drain.detail]
      /\ drain.id \in Sessions /\ sid \in Sessions
  BY DrainTyped DEF AnswerRecover
<1>2. d \in Details
  BY <1>1, DetailTyped DEF HookTyped
<1>3. drain' = [drain EXCEPT !.detail = d]
  BY DEF AnswerRecover
<1> HIDE DEF d
<1>4. drain' = [at |-> "recovering", id |-> drain.id, detail |-> d]
  BY <1>1, <1>3
<1>5. drain' \in Drains(Len(chats))
  BY <1>1, <1>2, <1>4 DEF Drains, Answers
<1>6. SomeSession'
  BY <1>1, ClientAssumption DEF SomeSession, AnswerRecover
<1> QED BY <1>5, <1>6, QuietActs DEF AnswerRecover, HookTyped, TypeOK

(* A step that ends a request, or a loop that may.                         *)
LEMMA DrainActs ==
  ASSUME HookTyped, UNCHANGED <<sid, server>>, used'.sends = used.sends, sid \in Sessions,
         used' \in [sends: Seq(Sessions), switches: Nat, troubles: Nat],
         view' \in Views, queue' \in Seq(Nat), abort' \in Nat, chats' \in Seq(Chats),
         drain' \in Drains(Len(chats')), Drained,
         loops' \subseteq Loops, reloads' \subseteq Reloads, posts' \subseteq Posts
  PROVE  HookActs
<1>1. TypeOK'
  BY DEF TypeOK, HookTyped
<1>2. SomeSession'
  BY ClientAssumption DEF SomeSession
<1> QED BY <1>1, <1>2 DEF HookActs, HookTyped, SendsMove

LEMMA ReadEventActs == ASSUME HookTyped, ReadEvent PROVE HookActs
<1> DEFINE k == drain.chat
           e == Head(chats[k].wire)
           v == ApplyEvent(view, e)
<1>1. k \in DOMAIN chats /\ sid \in Sessions /\ drain.at = "reading"
  BY DrainTyped DEF ReadEvent
<1>2. chats[k] \in Chats
  BY <1>1, ChatTyped
<1>3. chats[k].wire \in Seq(Events) /\ chats[k].wire # << >>
  BY <1>2 DEF ReadEvent, Chats
<1>4. e \in Events /\ Tail(chats[k].wire) \in Seq(Events)
  BY <1>3, HeadTailProperties
<1>5. v \in Views
  BY <1>4, EventTyped DEF HookTyped, TypeOK
<1>6. NoTurn(v) \in Views
  BY <1>5 DEF NoTurn, Views
<1>7. CASE IsTerminal(e)
  <2>1. Continue(NoTurn(v), Close(k))
    BY <1>7 DEF ReadEvent
  <2>2. Kept(Close(k))
    BY <1>1, CloseKept DEF HookTyped
  <2>3. /\ view' \in Views /\ queue' \in Seq(Nat) /\ abort' \in Nat
        /\ chats' \in Seq(Chats) /\ drain' \in Drains(Len(chats')) /\ Drained
    BY <1>1, <1>6, <2>1, <2>2, ContinueActs DEF HookTyped
  <2> QED BY <1>1, <2>3, DrainActs DEF ReadEvent, HookTyped, TypeOK
<1>8. CASE ~IsTerminal(e)
  <2> DEFINE w == Tail(chats[k].wire)
             c == [chats[k] EXCEPT !.wire = w]
  <2>1. chats' = [chats EXCEPT ![k] = c] /\ view' = v /\ UNCHANGED <<queue, drain, abort>>
    BY <1>1, <1>8 DEF ReadEvent
  <2> HIDE DEF w
  <2>2. c \in Chats /\ c.batch = chats[k].batch
    BY <1>2, <1>4 DEF Chats, w
  <2> HIDE DEF c, k, v
  <2>3. Kept(chats')
    BY <1>1, <2>1, <2>2, ChatKept DEF HookTyped
  <2>4. Drained
    BY <2>1, <2>3 DEF Drained
  <2>5. drain' \in Drains(Len(chats')) /\ chats' \in Seq(Chats)
    BY <2>1, <2>3, SameLength DEF Kept, HookTyped, TypeOK
  <2> QED BY <1>1, <1>5, <2>1, <2>4, <2>5, DrainActs DEF ReadEvent, HookTyped, TypeOK
<1> QED BY <1>7, <1>8

LEMMA ReadEndActs == ASSUME HookTyped, ReadEnd PROVE HookActs
<1> DEFINE k == drain.chat
<1>1. k \in DOMAIN chats /\ sid \in Sessions /\ drain.at = "reading"
  BY DrainTyped DEF ReadEnd
<1>2. NoTurn(view) \in Views /\ Kept(Close(k))
  BY <1>1, CloseKept DEF NoTurn, HookTyped, TypeOK, Views
<1>3. Continue(NoTurn(view), Close(k))
  BY DEF ReadEnd
<1>4. /\ view' \in Views /\ queue' \in Seq(Nat) /\ abort' \in Nat
      /\ chats' \in Seq(Chats) /\ drain' \in Drains(Len(chats')) /\ Drained
  BY <1>1, <1>2, <1>3, ContinueActs DEF HookTyped
<1> QED BY <1>1, <1>4, DrainActs DEF ReadEnd, HookTyped, TypeOK

LEMMA FaultTyped ==
  ASSUME HookTyped, Fault
  PROVE  used'.sends = used.sends /\ used' \in [sends: Seq(Sessions), switches: Nat, troubles: Nat]
<1>1. used \in [sends: Seq(Sessions), switches: Nat, troubles: Nat]
  BY DEF HookTyped, TypeOK
<1>2. used' = [used EXCEPT !.troubles = used.troubles + 1]
  BY DEF Fault
<1> QED BY <1>1, <1>2

LEMMA LoseStreamActs == ASSUME HookTyped, LoseStream PROVE HookActs
<1> DEFINE k == drain.chat
<1>1. k \in DOMAIN chats /\ sid \in Sessions /\ drain.at = "reading"
  BY DrainTyped DEF LoseStream
<1>2. PICK reached \in BOOLEAN : chats' = [Close(k) EXCEPT ![k].at = IF reached THEN @ ELSE "over"]
  BY DEF LoseStream
<1> DEFINE place == IF reached THEN chats[k].at ELSE "over"
           c == [chats[k] EXCEPT !.open = FALSE, !.wire = << >>, !.at = place]
<1>3. chats[k] \in Chats
  BY <1>1, ChatTyped
<1>4. place \in {"posted", "waiting", "running", "gated", "decided", "over"}
  BY <1>3 DEF Chats
<1>5. chats' = [chats EXCEPT ![k] = c]
  BY <1>1, <1>2, <1>3 DEF Close, Chats
<1> HIDE DEF place
<1>6. c \in Chats /\ c.batch = chats[k].batch
  BY <1>3, <1>4, EmptySeq DEF Chats
<1> HIDE DEF c
<1>7. Kept(chats')
  BY <1>1, <1>5, <1>6, ChatKept DEF HookTyped
<1>8. drain' = [at |-> "recovering", id |-> sid, detail |-> None]
  BY DEF LoseStream
<1>9. drain' \in Drains(Len(chats'))
  BY <1>1, <1>8 DEF Drains, Answers
<1>10. view' \in Views
  BY DEF LoseStream, HookTyped, TypeOK, Views
<1>11. Drained /\ chats' \in Seq(Chats)
  BY <1>7 DEF Drained, LoseStream, Kept
<1> QED BY <1>1, <1>9, <1>10, <1>11, FaultTyped, DrainActs DEF LoseStream, HookTyped, TypeOK

LEMMA WatchTyped ==
  ASSUME HookTyped, NEW id \in Sessions, NEW own \in BOOLEAN, Watch(id, own)
  PROVE  loops' \subseteq Loops
<1>1. BumpGeneration \subseteq Loops
  BY DEF BumpGeneration, HookTyped, TypeOK, Loops
<1>2. [id |-> id, stale |-> FALSE, own |-> own, detail |-> None] \in Loops
  BY DEF Loops, Answers
<1> QED BY <1>1, <1>2 DEF Watch

LEMMA RecoveredActs == ASSUME HookTyped, Recovered PROVE HookActs
<1> DEFINE v == ApplyDetail(view, drain.detail)
<1>1. drain.id \in Sessions /\ drain.detail \in Details /\ sid \in Sessions
  BY DrainTyped DEF Recovered, Answers
<1>2. v \in Views
  BY <1>1, ApplyTyped DEF HookTyped, TypeOK
<1>3. loops' \subseteq Loops
  BY <1>1, WatchTyped DEF Recovered, HookTyped, TypeOK
<1>4. CASE drain.detail.live /\ drain.id = sid
  <2>1. drain' = [at |-> "watching"] /\ view' = [v EXCEPT !.error = FALSE] /\ UNCHANGED <<queue, abort, chats>>
    BY <1>4 DEF Recovered
  <2> HIDE DEF v
  <2>2. view' \in Views /\ drain' \in Drains(Len(chats'))
    BY <1>2, <2>1 DEF Views, Drains
  <2>3. Drained
    BY <2>1, AllKept DEF HookTyped, Drained, Kept
  <2> QED BY <1>1, <1>3, <2>1, <2>2, <2>3, DrainActs DEF Recovered, HookTyped, TypeOK
<1>5. CASE ~(drain.detail.live /\ drain.id = sid)
  <2> DEFINE u == [v EXCEPT !.error = @ /\ ~drain.detail.live]
  <2>1. Continue(u, chats)
    BY <1>5 DEF Recovered
  <2> HIDE DEF v
  <2>2. u \in Views
    BY <1>2 DEF Views
  <2> HIDE DEF u
  <2>3. /\ view' \in Views /\ queue' \in Seq(Nat) /\ abort' \in Nat
        /\ chats' \in Seq(Chats) /\ drain' \in Drains(Len(chats')) /\ Drained
    BY <1>1, <2>1, <2>2, AllKept, ContinueActs DEF HookTyped
  <2> QED BY <1>1, <1>3, <2>3, DrainActs DEF Recovered, HookTyped, TypeOK
<1> QED BY <1>4, <1>5

LEMMA RecoverFailsActs == ASSUME HookTyped, RecoverFails PROVE HookActs
<1> DEFINE u == [view EXCEPT !.error = TRUE]
<1>1. sid \in Sessions
  BY DrainTyped DEF RecoverFails
<1>2. Continue(u, chats) /\ u \in Views
  BY DEF RecoverFails, HookTyped, TypeOK, Views
<1> HIDE DEF u
<1>3. /\ view' \in Views /\ queue' \in Seq(Nat) /\ abort' \in Nat
      /\ chats' \in Seq(Chats) /\ drain' \in Drains(Len(chats')) /\ Drained
  BY <1>1, <1>2, AllKept, ContinueActs DEF HookTyped
<1> QED BY <1>1, <1>3, DrainActs DEF RecoverFails, HookTyped, TypeOK

LEMMA ReturnActs ==
  ASSUME HookTyped, NEW l \in loops, NEW v \in Views, Return(l, v),
         UNCHANGED <<sid, reloads, posts, server>>, used'.sends = used.sends,
         used' \in [sends: Seq(Sessions), switches: Nat, troubles: Nat]
  PROVE  HookActs
<1>1. sid \in Sessions /\ loops' \subseteq Loops
  BY LoopTyped DEF Return, HookTyped, TypeOK
<1>2. /\ view' \in Views /\ queue' \in Seq(Nat) /\ abort' \in Nat
      /\ chats' \in Seq(Chats) /\ drain' \in Drains(Len(chats')) /\ Drained
  BY <1>1, AllKept, ContinueActs, StayActs DEF Return, HookTyped
<1> QED BY <1>1, <1>2, DrainActs DEF HookTyped, TypeOK

LEMMA PolledActs == ASSUME HookTyped, NEW l \in loops, Polled(l) PROVE HookActs
<1> DEFINE v == [ApplyDetail(view, l.detail) EXCEPT !.error = FALSE]
<1>1. l \in Loops /\ l.detail \in Details /\ sid \in Sessions
  BY LoopTyped DEF Polled, Answers
<1>2. ApplyDetail(view, l.detail) \in Views
  BY <1>1, ApplyTyped DEF HookTyped, TypeOK
<1>3. v \in Views /\ view \in Views
  BY <1>2 DEF Views, HookTyped, TypeOK
<1>4. CASE Return(l, view) \/ Return(l, v)
  BY <1>3, <1>4, ReturnActs DEF Polled, HookTyped, TypeOK
<1>5. CASE loops' = Swap(loops, l, [l EXCEPT !.detail = None]) /\ Stay(v)
  <2>1. [l EXCEPT !.detail = None] \in Loops
    BY <1>1 DEF Loops, Answers
  <2>2. loops' \subseteq Loops
    BY <1>5, <2>1 DEF Swap, HookTyped, TypeOK
  <2>3. /\ view' \in Views /\ queue' \in Seq(Nat) /\ abort' \in Nat
        /\ chats' \in Seq(Chats) /\ drain' \in Drains(Len(chats')) /\ Drained
    BY <1>3, <1>5, StayActs DEF HookTyped
  <2> QED BY <1>1, <2>2, <2>3, DrainActs DEF Polled, HookTyped, TypeOK
<1> QED BY <1>4, <1>5 DEF Polled

LEMMA PollFailsActs == ASSUME HookTyped, NEW l \in loops, PollFails(l) PROVE HookActs
<1>1. view \in Views /\ [view EXCEPT !.error = TRUE] \in Views
  BY DEF HookTyped, TypeOK, Views
<1> QED BY <1>1, FaultTyped, ReturnActs DEF PollFails

LEMMA ReloadedActs == ASSUME HookTyped, NEW r \in reloads, Reloaded(r) PROVE HookActs
<1>1. r.id \in Sessions /\ r.detail \in Details
  BY DEF Reloaded, HookTyped, TypeOK, Reloads, Answers
<1>2. ApplyDetail(view, r.detail) \in Views
  BY <1>1, ApplyTyped DEF HookTyped, TypeOK
<1>3. view' \in Views
  BY <1>2 DEF Reloaded, Views
<1>4. loops' \subseteq Loops
  BY <1>1, WatchTyped DEF Reloaded, HookTyped, TypeOK
<1>5. SomeSession'
  <2>1. CASE loops' = loops
    BY <2>1 DEF Reloaded, HookTyped, SomeSession
  <2>2. CASE Watch(r.id, FALSE) /\ sid # None
    BY <2>2 DEF Reloaded, SomeSession
  <2>3. CASE Watch(r.id, FALSE) /\ sid = None
    BY <1>1, <2>3, ClientAssumption DEF Reloaded, HookTyped, SomeSession, Watch, BumpGeneration
  <2> QED BY <2>1, <2>2, <2>3 DEF Reloaded
<1> QED BY <1>3, <1>4, <1>5, QuietActs DEF Reloaded, serverVars, HookTyped, TypeOK

LEMMA ReloadFailsActs == ASSUME HookTyped, NEW r \in reloads, ReloadFails(r) PROVE HookActs
<1>1. view' \in Views
  BY DEF ReloadFails, HookTyped, TypeOK, Views
<1> QED BY <1>1, FaultTyped, QuietActs DEF ReloadFails, serverVars, HookTyped, TypeOK, SomeSession

LEMMA SwitchActs == ASSUME HookTyped, NEW s \in Sessions, Switch(s) PROVE HookActs
<1>1. used \in [sends: Seq(Sessions), switches: Nat, troubles: Nat]
  BY DEF HookTyped, TypeOK
<1>2. used' \in [sends: Seq(Sessions), switches: Nat, troubles: Nat] /\ used'.sends = used.sends
  <2>1. CASE used' = [used EXCEPT !.switches = 1]
    BY <1>1, <2>1
  <2>2. CASE used' = [used EXCEPT !.switches = used.switches + 1, !.troubles = used.troubles + 1]
    <3>1. PICK m \in Nat, n \in Nat : m = used.switches + 1 /\ n = used.troubles + 1
      BY <1>1
    <3>2. used' = [used EXCEPT !.switches = m, !.troubles = n]
      BY <2>2, <3>1
    <3> QED BY <1>1, <3>2
  <2>3. \/ used' = [used EXCEPT !.switches = 1]
        \/ used' = [used EXCEPT !.switches = used.switches + 1, !.troubles = used.troubles + 1]
    BY Zenon DEF Switch
  <2> QED BY <2>1, <2>2, <2>3
<1>3. Ask(used.switches, s) \in Reloads
  BY <1>1 DEF Ask, Reloads, Answers
<1>4. SomeSession'
  BY ClientAssumption DEF Switch, SomeSession
<1> QED BY <1>2, <1>3, <1>4, QuietActs DEF Switch, serverVars, HookTyped, TypeOK

LEMMA PostTyped ==
  ASSUME sid \in Sessions, NEW kind \in {"follow_up", "operator", "decide"}, NEW n \in Nat
  PROVE  Post(kind, n) \in Posts
BY DEF Post, Posts

LEMMA SendActs == ASSUME HookTyped, Send PROVE HookActs
<1>1. /\ sid \in Sessions /\ used \in [sends: Seq(Sessions), switches: Nat, troubles: Nat]
      /\ used' = [used EXCEPT !.sends = Append(used.sends, sid)]
      /\ UNCHANGED <<sid, reloads, server>>
  BY DEF Send, HookTyped, TypeOK
<1>2. Append(used.sends, sid) \in Seq(Sessions) /\ NewSend \in Nat
  BY <1>1, AppendProperties, LenProperties DEF NewSend
<1>3. /\ used'.sends = Append(used.sends, sid)
      /\ used' \in [sends: Seq(Sessions), switches: Nat, troubles: Nat]
  <2> DEFINE q == Append(used.sends, sid)
  <2>1. q \in Seq(Sessions) /\ used' = [used EXCEPT !.sends = q]
    BY <1>1, <1>2
  <2> HIDE DEF q
  <2>2. used'.sends = q /\ used' \in [sends: Seq(Sessions), switches: Nat, troubles: Nat]
    BY <1>1, <2>1
  <2> QED BY <2>2 DEF q
<1>4. Append(queue, NewSend) \in Seq(Nat)
  BY <1>2, AppendProperties DEF HookTyped, TypeOK
<1>5. SomeSession'
  BY <1>1, ClientAssumption DEF SomeSession
<1>6. CASE drain # Idle
  <2>1. /\ queue' = Append(queue, NewSend) /\ posts' = posts \cup {Post("follow_up", NewSend)}
        /\ UNCHANGED <<view, drain, abort, chats, loops>>
    BY <1>6 DEF Send, NewSend
  <2>2. posts' \subseteq Posts
    BY <1>1, <1>2, <2>1, PostTyped DEF HookTyped, TypeOK
  <2>3. TypeOK'
    BY <1>1, <1>3, <1>4, <2>1, <2>2 DEF HookTyped, TypeOK
  <2>4. SendsMove
    BY <1>1, <1>3, <2>1, AllKept DEF HookTyped, SendsMove, Kept
  <2> QED BY <1>5, <2>3, <2>4 DEF HookActs, HookTyped
<1>7. CASE drain = Idle
  <2>1. Open(view, Append(queue, NewSend), chats) /\ loops' = BumpGeneration /\ UNCHANGED posts
    BY <1>7 DEF Send, NewSend
  <2>2. /\ view' \in Views /\ queue' \in Seq(Nat) /\ abort' \in Nat
        /\ chats' \in Seq(Chats) /\ drain' \in Drains(Len(chats')) /\ Opened(Append(queue, NewSend))
    BY <1>1, <1>4, <2>1, AllKept, OpenActs DEF HookTyped, TypeOK
  <2>3. loops' \subseteq Loops
    <3>1. loops \subseteq Loops
      BY DEF HookTyped, TypeOK
    <3>2. BumpGeneration \subseteq Loops
      BY <3>1 DEF BumpGeneration, Loops
    <3> QED BY <2>1, <3>2
  <2>4. TypeOK'
    BY <1>1, <1>3, <2>1, <2>2, <2>3 DEF HookTyped, TypeOK
  <2>5. SendsMove
    BY <1>1, <1>3, <2>2 DEF SendsMove
  <2> QED BY <1>5, <2>4, <2>5 DEF HookActs, HookTyped
<1> QED BY <1>6, <1>7

LEMMA StopActs == ASSUME HookTyped, Stop PROVE HookActs
<1>1. sid \in Sessions /\ used.troubles \in Nat /\ sid # None
  BY DEF Stop, HookTyped, TypeOK
<1>2. /\ posts' \subseteq Posts /\ queue' = << >> /\ queue' \in Seq(Nat)
      /\ UNCHANGED <<sid, view, drain, abort, loops, reloads, chats, server>>
  BY <1>1, PostTyped, EmptySeq DEF Stop, serverVars, HookTyped, TypeOK
<1>3. TypeOK'
  BY <1>2, FaultTyped DEF Stop, HookTyped, TypeOK
<1>4. SendsMove
  BY <1>2, FaultTyped, AllKept DEF Stop, HookTyped, SendsMove, Kept
<1>5. SomeSession'
  BY <1>1, <1>2 DEF SomeSession
<1> QED BY <1>3, <1>4, <1>5 DEF HookActs, HookTyped

LEMMA DecideActs == ASSUME HookTyped, Decide PROVE HookActs
<1>1. sid \in Sessions /\ view.gate \in Nat /\ view \in Views
  BY DEF Decide, HookTyped, TypeOK, Views, Gates
<1>2. posts' \subseteq Posts /\ view' \in Views
  BY <1>1, PostTyped DEF Decide, HookTyped, TypeOK, Views, Gates
<1> QED BY <1>2, QuietActs DEF Decide, serverVars, HookTyped, TypeOK, SomeSession

LEMMA AbortActs ==
  ASSUME HookTyped, NEW v \in Views, AbortReader(v), UNCHANGED <<sid, loops, server>>,
         used'.sends = used.sends, sid \in Sessions,
         used' \in [sends: Seq(Sessions), switches: Nat, troubles: Nat],
         reloads' \subseteq Reloads, posts' \subseteq Posts
  PROVE  HookActs
<1>1. CASE drain.at = "reading"
  <2>1. NoTurn(v) \in Views /\ Kept(Close(drain.chat))
    BY <1>1, DrainTyped, CloseKept DEF HookTyped, NoTurn, Views
  <2>2. /\ view' \in Views /\ queue' \in Seq(Nat) /\ abort' \in Nat
        /\ chats' \in Seq(Chats) /\ drain' \in Drains(Len(chats')) /\ Drained
    BY <1>1, <2>1, ContinueActs DEF HookTyped, AbortReader
  <2> QED BY <2>2, DrainActs DEF HookTyped, TypeOK
<1>2. CASE drain.at # "reading"
  <2>1. /\ view' \in Views /\ queue' \in Seq(Nat) /\ abort' \in Nat
        /\ chats' \in Seq(Chats) /\ drain' \in Drains(Len(chats')) /\ Drained
    BY <1>2, StayActs DEF HookTyped, AbortReader
  <2> QED BY <2>1, DrainActs DEF HookTyped, TypeOK
<1> QED BY <1>1, <1>2

LEMMA StoppedActs == ASSUME HookTyped, NEW p \in posts, Stopped(p) PROVE HookActs
<1>1. sid \in Sessions
  BY DEF HookTyped, TypeOK, SomeSession
<1> QED BY <1>1, AbortActs DEF Stopped, HookTyped, TypeOK

LEMMA FailedActs ==
  ASSUME HookTyped, NEW p \in posts, Failed(p), used'.sends = used.sends,
         used' \in [sends: Seq(Sessions), switches: Nat, troubles: Nat]
  PROVE  HookActs
<1> DEFINE v == [view EXCEPT !.error = TRUE]
<1>1. sid \in Sessions /\ p \in Posts
  BY DEF HookTyped, TypeOK, SomeSession
<1>2. v \in Views
  BY DEF HookTyped, TypeOK, Views
<1>3. Ask(MaxTroubles + p.n, p.session) \in Reloads
  BY <1>1, ClientAssumption DEF Posts, Reloads, Ask, Answers
<1>4. reloads' \subseteq Reloads /\ posts' \subseteq Posts /\ UNCHANGED <<sid, loops, server>>
  BY <1>3 DEF Failed, HookTyped, TypeOK
<1>5. AbortReader(v) \/ Stay(v)
  BY DEF Failed
<1> HIDE DEF v
<1>6. CASE AbortReader(v)
  BY <1>1, <1>2, <1>4, <1>6, AbortActs
<1>7. CASE Stay(v)
  <2>1. /\ view' \in Views /\ queue' \in Seq(Nat) /\ abort' \in Nat
        /\ chats' \in Seq(Chats) /\ drain' \in Drains(Len(chats')) /\ Drained
    BY <1>2, <1>7, StayActs DEF HookTyped
  <2> QED BY <1>1, <1>4, <2>1, DrainActs DEF HookTyped, TypeOK
<1> QED BY <1>5, <1>6, <1>7

LEMMA HookStutters ==
  ASSUME HookTyped, UNCHANGED vars
  PROVE  HookActs
<1>1. TypeOK' /\ SomeSession'
  BY DEF vars, HookTyped, TypeOK, SomeSession
<1>2. SendsMove
  BY AllKept DEF vars, HookTyped, SendsMove, Drained, Kept
<1> QED BY <1>1, <1>2 DEF HookActs, HookTyped

LEMMA HookStep == HookTyped /\ [Next]_vars => HookActs
<1> SUFFICES ASSUME HookTyped, [Next]_vars PROVE HookActs
  OBVIOUS
<1>1. CASE TurnStep
  BY <1>1, ArriveActs, StartTurnActs, EndTurnActs DEF TurnStep
<1>2. CASE AnswerStep
  BY <1>2, AnswerCancelActs, AnswerDecisionActs DEF AnswerStep
<1>3. CASE ReadStep
  BY <1>3, ReadEventActs, ReadEndActs DEF ReadStep
<1>4. CASE PollStep
  BY <1>4, PolledActs DEF PollStep
<1>5. CASE \E k \in DOMAIN chats : RaiseGate(k)
  BY <1>5, RaiseGateActs
<1>6. CASE \E l \in loops : AnswerLoop(l) \/ PollFails(l)
  BY <1>6, AnswerLoopActs, PollFailsActs
<1>7. CASE \E r \in reloads : AnswerReload(r) \/ Reloaded(r) \/ ReloadFails(r)
  BY <1>7, AnswerReloadActs, ReloadedActs, ReloadFailsActs
<1>8. CASE AnswerRecover \/ Recovered \/ LoseStream \/ RecoverFails
  BY <1>8, AnswerRecoverActs, RecoveredActs, LoseStreamActs, RecoverFailsActs
<1>9. CASE \E p \in posts : Stopped(p) \/ Refused(p) \/ PostFails(p)
  <2>1. ASSUME NEW p \in posts, Stopped(p) PROVE HookActs
    BY <2>1, StoppedActs
  <2>2. ASSUME NEW p \in posts, Refused(p) PROVE HookActs
    BY <2>2, FailedActs DEF Refused, HookTyped, TypeOK
  <2>3. ASSUME NEW p \in posts, PostFails(p) PROVE HookActs
    BY <2>3, FailedActs, FaultTyped DEF PostFails
  <2> QED BY <1>9, <2>1, <2>2, <2>3
<1>10. CASE \E s \in Sessions : Switch(s)
  BY <1>10, SwitchActs
<1>11. CASE Send \/ Stop \/ Decide
  BY <1>11, SendActs, StopActs, DecideActs
<1>12. CASE UNCHANGED vars
  BY <1>12, HookStutters
<1> QED BY <1>1, <1>2, <1>3, <1>4, <1>5, <1>6, <1>7, <1>8, <1>9, <1>10, <1>11, <1>12 DEF Next

(* The hook's state is well typed, and it asks nothing before a session is *)
(* shown.                                                                  *)
THEOREM HookTypes == Spec => []HookTyped
<1>1. HookTyped /\ [Next]_vars => HookTyped'
  BY HookStep DEF HookActs
<1> QED BY HookInit, <1>1, PTL DEF Spec

-----------------------------------------------------------------------------
(***************************************************************************)
(* Induction without an induction theorem: a set of numbers has a least    *)
(* one.  FlattenSeq, which is recursive, then has the equations that its   *)
(* definition suggests.                                                    *)
(***************************************************************************)
LEMMA LeastNumber ==
  ASSUME NEW T, T \subseteq Nat, T # {}
  PROVE  \E n \in T : \A m \in T : n <= m
<1> DEFINE R == {ss \in Nat \X Nat : ss[1] < ss[2]}
<1>0. IsWellFoundedOn(R, Nat)
  BY NatLessThanWellFounded DEF OpToRel
<1> HIDE DEF R
<1>1. PICK n \in T : \A m \in T : <<m, n>> \notin R
  BY <1>0, WFMin
<1>2. \A m \in T : ~(m < n)
  BY <1>1 DEF R
<1> QED BY <1>2

(* f[i] is the first i of seqs in a row, for every i up to n.              *)
Flattening(f, seqs, n) ==
  f = [i \in 1..n |-> IF i = 1 THEN seqs[i] ELSE f[i-1] \o seqs[i]]

LEMMA FlatteningAt ==
  ASSUME NEW f, NEW seqs, NEW n \in Nat, Flattening(f, seqs, n), NEW i \in 1..n
  PROVE  f[i] = IF i = 1 THEN seqs[i] ELSE f[i-1] \o seqs[i]
<1> DEFINE h == [j \in 1..n |-> IF j = 1 THEN seqs[j] ELSE f[j-1] \o seqs[j]]
<1>1. f = h
  BY Zenon DEF Flattening
<1>2. h[i] = IF i = 1 THEN seqs[i] ELSE f[i-1] \o seqs[i]
  BY Zenon
<1> QED BY <1>1, <1>2, Zenon

LEMMA FlatteningExists ==
  ASSUME NEW seqs, NEW n \in Nat
  PROVE  \E f : Flattening(f, seqs, n)
<1> DEFINE T == {m \in Nat : ~\E f : Flattening(f, seqs, m)}
<1> SUFFICES ASSUME T # {} PROVE FALSE
  OBVIOUS
<1>1. PICK m \in T : \A k \in T : m <= k
  BY LeastNumber
<1>2. m # 0
  <2>1. Flattening([i \in 1..0 |-> << >>], seqs, 0)
    BY DEF Flattening
  <2> QED BY <2>1
<1>3. PICK f : Flattening(f, seqs, m - 1)
  BY <1>1, <1>2
<1> DEFINE g == [i \in 1..m |-> IF i = 1 THEN seqs[i] ELSE f[i-1] \o seqs[i]]
<1>4. \A i \in 1..m : g[i] = IF i = 1 THEN seqs[i] ELSE f[i-1] \o seqs[i]
  BY Zenon
<1>5. \A i \in 1..(m - 1) : g[i] = f[i]
  <2> SUFFICES ASSUME NEW i \in 1..(m - 1) PROVE g[i] = f[i]
    OBVIOUS
  <2> HIDE DEF g
  <2>1. i \in 1..m /\ m - 1 \in Nat
    BY <1>2
  <2> QED BY <2>1, <1>3, <1>4, FlatteningAt
<1>6. \A i \in 1..m : g[i] = IF i = 1 THEN seqs[i] ELSE g[i-1] \o seqs[i]
  <2> HIDE DEF g
  <2> SUFFICES ASSUME NEW i \in 1..m, i # 1 PROVE g[i-1] = f[i-1]
    BY <1>4
  <2> QED BY <1>5
<1>7. Flattening(g, seqs, m)
  <2>1. g = [i \in 1..m |-> g[i]]
    BY Zenon
  <2> HIDE DEF g
  <2>2. [i \in 1..m |-> g[i]] = [i \in 1..m |-> IF i = 1 THEN seqs[i] ELSE g[i-1] \o seqs[i]]
    BY <1>6, Zenon
  <2> QED BY <2>1, <2>2, Zenon DEF Flattening
<1> QED BY <1>7

StartsAlike(s, t, m) == \A i \in 1..m : s[i] = t[i]

LEMMA FlatteningAgrees ==
  ASSUME NEW m \in Nat, NEW n \in Nat, m <= n, NEW s, NEW t, StartsAlike(s, t, m),
         NEW f, NEW g, Flattening(f, s, m), Flattening(g, t, n)
  PROVE  StartsAlike(f, g, m)
<1> DEFINE T == {i \in 1..m : f[i] # g[i]}
<1> SUFFICES ASSUME T # {} PROVE FALSE
  BY DEF StartsAlike
<1>1. PICK i \in T : \A j \in T : i <= j
  <2>1. T \subseteq Nat OBVIOUS
  <2> HIDE DEF T
  <2> QED BY <2>1, LeastNumber
<1>2. i = 1 \/ f[i-1] = g[i-1]
  BY <1>1
<1>3. f[i] = IF i = 1 THEN s[i] ELSE f[i-1] \o s[i]
  BY FlatteningAt
<1>4. g[i] = IF i = 1 THEN t[i] ELSE g[i-1] \o t[i]
  <2>1. i \in 1..n
    OBVIOUS
  <2> QED BY <2>1, FlatteningAt
<1> QED BY <1>2, <1>3, <1>4 DEF StartsAlike

LEMMA FlattenIsLast ==
  ASSUME NEW S, NEW s \in Seq(S), s # << >>
  PROVE  \E f : Flattening(f, s, Len(s)) /\ FlattenSeq(s) = f[Len(s)]
<1> DEFINE f == CHOOSE f : Flattening(f, s, Len(s))
<1>1. Flattening(f, s, Len(s))
  BY FlatteningExists, LenProperties
<1>2. FlattenSeq(s) = f[Len(s)]
  BY LenProperties, EmptySeq DEF FlattenSeq, Flattening
<1> QED BY <1>1, <1>2

LEMMA FlattenAppend ==
  ASSUME NEW S, NEW s \in Seq(Seq(S)), NEW e \in Seq(S)
  PROVE  FlattenSeq(Append(s, e)) = FlattenSeq(s) \o e
<1>1. PICK t : t = Append(s, e)
  OBVIOUS
<1>2. /\ t \in Seq(Seq(S)) /\ t # << >> /\ Len(t) = Len(s) + 1 /\ t[Len(t)] = e
      /\ Len(s) \in Nat /\ Len(t) \in Nat
  BY <1>1, AppendProperties, LenProperties
<1>3. StartsAlike(s, t, Len(s))
  BY <1>1, AppendProperties, LenProperties DEF StartsAlike
<1>4. PICK g : Flattening(g, t, Len(t)) /\ FlattenSeq(t) = g[Len(t)]
  BY <1>2, FlattenIsLast
<1>5. g[Len(t)] = IF Len(t) = 1 THEN e ELSE g[Len(t) - 1] \o e
  BY <1>2, <1>4, FlatteningAt
<1>6. CASE s = << >>
  BY <1>1, <1>2, <1>4, <1>5, <1>6 DEF FlattenSeq
<1>7. CASE s # << >>
  <2>1. PICK f : Flattening(f, s, Len(s)) /\ FlattenSeq(s) = f[Len(s)]
    BY <1>7, FlattenIsLast
  <2>2. Len(s) # 0
    BY <1>7, EmptySeq
  <2>3. StartsAlike(f, g, Len(s))
    BY <1>2, <1>3, <1>4, <2>1, FlatteningAgrees
  <2>4. f[Len(s)] = g[Len(s)]
    <3>1. Len(s) \in 1..Len(s)
      BY <1>2, <2>2
    <3> QED BY <2>3, <3>1, Zenon DEF StartsAlike
  <2>5. Len(t) # 1 /\ Len(t) - 1 = Len(s)
    BY <1>2, <2>2
  <2>6. g[Len(t)] = g[Len(s)] \o e
    BY <1>5, <2>5
  <2> QED BY <1>1, <1>4, <2>1, <2>4, <2>6
<1> QED BY <1>6, <1>7

LEMMA FlattenTyped ==
  ASSUME NEW S, NEW s \in Seq(Seq(S))
  PROVE  FlattenSeq(s) \in Seq(S)
<1>1. CASE s = << >>
  BY <1>1, EmptySeq DEF FlattenSeq
<1>2. CASE s # << >>
  <2>1. PICK f : Flattening(f, s, Len(s)) /\ FlattenSeq(s) = f[Len(s)]
    BY <1>2, FlattenIsLast
  <2>2. Len(s) \in Nat /\ Len(s) # 0 /\ \A i \in 1..Len(s) : s[i] \in Seq(S)
    BY <1>2, EmptySeq
  <2> DEFINE T == {i \in 1..Len(s) : f[i] \notin Seq(S)}
  <2>3. SUFFICES ASSUME T # {} PROVE FALSE
    <3>1. Len(s) \in 1..Len(s)
      BY <2>2
    <3> QED BY <2>1, <2>3, <3>1
  <2>4. PICK i \in T : \A j \in T : i <= j
    <3>1. T \subseteq Nat
      BY <2>2
    <3> HIDE DEF T
    <3> QED BY <2>3, <3>1, LeastNumber
  <2>5. i = 1 \/ f[i-1] \in Seq(S)
    BY <2>2, <2>4
  <2>6. f[i] = IF i = 1 THEN s[i] ELSE f[i-1] \o s[i]
    BY <2>1, <2>2, FlatteningAt
  <2>7. s[i] \in Seq(S)
    BY <2>2
  <2>8. f[i] \in Seq(S)
    BY <2>5, <2>6, <2>7, ConcatProperties
  <2> QED BY <2>8
<1> QED BY <1>1, <1>2

-----------------------------------------------------------------------------
(***************************************************************************)
(* The session hook: every send goes out at most once and in order.  The   *)
(* numbers of what was sent and of what waits, in a row, ascend; a step    *)
(* adds a number above them all, moves the boundary, or cuts the row.      *)
(***************************************************************************)
Batches(cs) == [k \in DOMAIN cs |-> cs[k].batch]
Row == Requested \o queue
RowInv == Row \in Seq(1..Len(used.sends)) /\ SendsGoOnceInOrder

LEMMA BatchesTyped ==
  ASSUME HookTyped, NEW given, Kept(given)
  PROVE  Batches(given) = Batches(chats) /\ Batches(given) \in Seq(Seq(Nat))
<1>1. /\ given \in Seq(Chats) /\ chats \in Seq(Chats) /\ Len(given) = Len(chats) /\ Len(chats) \in Nat
      /\ DOMAIN given = 1..Len(chats) /\ DOMAIN chats = 1..Len(chats)
  BY DEF HookTyped, TypeOK, Kept
<1>2. \A k \in 1..Len(chats) : chats[k] \in Chats /\ given[k].batch = chats[k].batch
  BY <1>1 DEF Kept
<1>3. \A k \in 1..Len(chats) : chats[k].batch \in Seq(Nat)
  BY <1>2 DEF Chats
<1>4. Batches(given) = Batches(chats)
  BY <1>1, <1>2 DEF Batches
<1>5. Batches(chats) \in Seq(Seq(Nat))
  BY <1>1, <1>3, IsASeq DEF Batches
<1> QED BY <1>4, <1>5

LEMMA RequestedTyped ==
  ASSUME HookTyped
  PROVE  Requested \in Seq(Nat) /\ Requested = FlattenSeq(Batches(chats))
BY AllKept, BatchesTyped, FlattenTyped DEF HookTyped, Requested, Batches

LEMMA KeptRequests ==
  ASSUME HookTyped, Kept(chats')
  PROVE  Requested' = Requested
BY BatchesTyped, RequestedTyped DEF Requested, Batches

LEMMA OpenedRequests ==
  ASSUME HookTyped, NEW q \in Seq(Nat), Opened(q)
  PROVE  Requested' = Requested \o q
<1>1. PICK given, c : Kept(given) /\ c \in Chats /\ c.batch = q /\ chats' = Append(given, c)
  BY DEF Opened
<1>2. /\ given \in Seq(Chats) /\ Len(chats') = Len(given) + 1 /\ Len(given) \in Nat
      /\ DOMAIN chats' = 1..Len(given) + 1 /\ DOMAIN given = 1..Len(given)
      /\ \A k \in 1..Len(given) : chats'[k] = given[k]
      /\ chats'[Len(given) + 1] = c
  BY <1>1, AppendProperties, LenProperties DEF Kept
<1>3. Batches(given) = Batches(chats) /\ Batches(given) \in Seq(Seq(Nat))
  BY <1>1, BatchesTyped
<1>4. /\ Len(Batches(given)) = Len(given) /\ DOMAIN Batches(given) = 1..Len(given)
      /\ \A k \in 1..Len(given) : Batches(given)[k] = given[k].batch
  BY <1>2, <1>3 DEF Batches
<1>5. Batches(chats') = Append(Batches(given), q)
  <2> DEFINE b == Append(Batches(given), q)
  <2>1. /\ b \in Seq(Seq(Nat)) /\ Len(b) = Len(given) + 1 /\ b[Len(given) + 1] = q
        /\ \A k \in 1..Len(given) : b[k] = given[k].batch
    BY <1>2, <1>3, <1>4, AppendProperties
  <2> HIDE DEF b
  <2>2. DOMAIN b = 1..Len(given) + 1 /\ b = [k \in 1..Len(given) + 1 |-> b[k]]
    BY <2>1
  <2>3. \A k \in 1..Len(given) + 1 : b[k] = chats'[k].batch
    <3> SUFFICES ASSUME NEW k \in 1..Len(given) + 1 PROVE b[k] = chats'[k].batch
      OBVIOUS
    <3>1. k \in 1..Len(given) \/ k = Len(given) + 1
      BY <1>2
    <3> QED BY <1>1, <1>2, <2>1, <3>1
  <2>4. Batches(chats') = [k \in 1..Len(given) + 1 |-> chats'[k].batch]
    BY <1>2 DEF Batches
  <2>5. Batches(chats') = b
    BY <2>2, <2>3, <2>4
  <2> QED BY <2>5 DEF b
<1>6. FlattenSeq(Batches(chats')) = FlattenSeq(Batches(chats)) \o q
  BY <1>3, <1>5, FlattenAppend
<1> QED BY <1>6 DEF Requested, Batches

LEMMA RowInit == Init => RowInv
<1> SUFFICES ASSUME Init PROVE RowInv
  OBVIOUS
<1>1. HookTyped /\ queue = << >> /\ chats = << >>
  BY HookInit DEF Init
<1>2. Requested = << >>
  <2>1. Batches(chats) = << >>
    BY <1>1 DEF Batches
  <2> QED BY <1>1, <2>1, RequestedTyped, EmptySeq DEF FlattenSeq
<1>3. Row = << >>
  BY <1>1, <1>2, EmptySeq, ConcatEmptySeq DEF Row
<1>4. << >> \in Seq(1..Len(used.sends)) /\ DOMAIN << >> = {}
  BY EmptySeq
<1> QED BY <1>3, <1>4 DEF RowInv, SendsGoOnceInOrder, Row

Ascends(s) == \A i, j \in DOMAIN s : i < j => s[i] < s[j]

LEMMA AscendsLonger ==
  ASSUME NEW n \in Nat, NEW s \in Seq(1..n), Ascends(s)
  PROVE  Append(s, n + 1) \in Seq(1..(n + 1)) /\ Ascends(Append(s, n + 1))
<1> DEFINE t == Append(s, n + 1)
<1>1. s \in Seq(1..(n + 1)) /\ Len(s) \in Nat
  <2>1. 1..n \subseteq 1..(n + 1)
    OBVIOUS
  <2> QED BY <2>1, SeqMonotonic, LenProperties
<1>2. /\ t \in Seq(1..(n + 1)) /\ Len(t) = Len(s) + 1 /\ t[Len(s) + 1] = n + 1
      /\ \A i \in 1..Len(s) : t[i] = s[i]
  BY <1>1, AppendProperties
<1> HIDE DEF t
<1>3. DOMAIN t = 1..(Len(s) + 1) /\ DOMAIN s = 1..Len(s)
  BY <1>1, <1>2
<1>4. ASSUME NEW i \in DOMAIN t, NEW j \in DOMAIN t, i < j
      PROVE  t[i] < t[j]
  <2>1. i \in 1..Len(s) /\ t[i] = s[i] /\ s[i] \in 1..n
    <3>1. PICK l \in Nat : l = Len(s)
      BY <1>1
    <3>2. i \in 1..(l + 1) /\ j \in 1..(l + 1)
      BY <1>3, <3>1
    <3>3. i \in 1..l
      BY <1>4, <3>2
    <3>4. i \in 1..Len(s)
      BY <3>1, <3>3
    <3> QED BY <1>2, <3>4, ElementOfSeq
  <2>2. CASE j = Len(s) + 1
    <3>1. t[j] = n + 1
      BY <1>2, <2>2
    <3>2. s[i] < n + 1
      BY <2>1
    <3> QED BY <2>1, <3>1, <3>2
  <2>3. CASE j \in 1..Len(s)
    BY <1>2, <1>3, <1>4, <2>1, <2>3 DEF Ascends
  <2> QED BY <1>1, <1>3, <2>2, <2>3
<1>5. Ascends(t)
  BY <1>4 DEF Ascends
<1> QED BY <1>2, <1>5 DEF t

LEMMA AscendsShorter ==
  ASSUME NEW S, NEW s \in Seq(Nat), NEW t \in Seq(Nat), s \o t \in Seq(S), Ascends(s \o t)
  PROVE  s \in Seq(S) /\ Ascends(s)
<1> DEFINE w == s \o t
<1>1. /\ Len(w) = Len(s) + Len(t) /\ Len(s) \in Nat /\ Len(t) \in Nat
      /\ \A i \in 1..Len(s) : w[i] = s[i]
  BY ConcatProperties, LenProperties
<1>2. w \in Seq(S) /\ Ascends(w)
  OBVIOUS
<1> HIDE DEF w
<1>3. DOMAIN s = 1..Len(s) /\ DOMAIN w = 1..Len(w) /\ DOMAIN s \subseteq DOMAIN w
  BY <1>1, <1>2
<1>4. \A i \in 1..Len(s) : s[i] \in S
  BY <1>1, <1>2, <1>3
<1>5. s \in Seq(S)
  BY <1>1, <1>3, <1>4, IsASeq
<1>6. Ascends(s)
  BY <1>1, <1>2, <1>3 DEF Ascends
<1> QED BY <1>5, <1>6

LEMMA RowKept == HookTyped /\ RowInv /\ [Next]_vars => RowInv'
<1> SUFFICES ASSUME HookTyped, RowInv, [Next]_vars PROVE RowInv'
  OBVIOUS
<1> DEFINE n == Len(used.sends)
<1>1. /\ SendsMove /\ HookTyped' /\ queue \in Seq(Nat) /\ queue' \in Seq(Nat) /\ Requested \in Seq(Nat)
      /\ n \in Nat /\ used.sends \in Seq(Sessions)
  BY HookStep, RequestedTyped, LenProperties DEF HookActs, HookTyped, TypeOK
<1>2. Row \in Seq(1..n) /\ Ascends(Row) /\ Row \in Seq(Nat)
  BY <1>1, ConcatProperties DEF RowInv, SendsGoOnceInOrder, Row, Ascends
<1>3. SUFFICES Row' \in Seq(1..Len(used'.sends)) /\ Ascends(Row')
  BY DEF RowInv, SendsGoOnceInOrder, Row, Ascends
<1>4. ASSUME NEW q \in Seq(Nat), Opened(q)
      PROVE  Row' = Requested \o q
  <2>1. Requested' = Requested \o q /\ queue' = << >>
    BY <1>4, OpenedRequests DEF Opened
  <2>2. Requested \o q \in Seq(Nat)
    BY <1>1, ConcatProperties
  <2> QED BY <2>1, <2>2, ConcatEmptySeq DEF Row
<1>5. ASSUME used'.sends = Append(used.sends, sid), sid \in Sessions,
             Row' = Requested \o Append(queue, NewSend)
      PROVE  Row' \in Seq(1..Len(used'.sends)) /\ Ascends(Row')
  <2>1. Len(used'.sends) = n + 1 /\ NewSend = n + 1
    BY <1>1, <1>5, AppendProperties DEF NewSend
  <2>2. Row' = Append(Row, n + 1)
    <3>1. <<n + 1>> \in Seq(Nat) /\ n + 1 \in Nat
      BY <1>1
    <3>2. Append(queue, n + 1) = queue \o <<n + 1>>
      BY <1>1, <3>1, AppendIsConcat
    <3>3. Append(Row, n + 1) = Row \o <<n + 1>>
      <4>1. Row \in Seq(Nat)
        BY <1>2
      <4> HIDE DEF n
      <4> QED BY <3>1, <4>1, AppendIsConcat
    <3>4. (Requested \o queue) \o <<n + 1>> = Requested \o (queue \o <<n + 1>>)
      <4> DEFINE last == <<n + 1>>
      <4>1. Requested \in Seq(Nat) /\ queue \in Seq(Nat) /\ last \in Seq(Nat)
        BY <1>1, <3>1
      <4> HIDE DEF last
      <4> QED BY <4>1, ConcatAssociative
    <3>5. Row' = Requested \o Append(queue, NewSend) /\ NewSend = n + 1
      BY <1>5, <2>1
    <3> HIDE DEF n
    <3>6. Row' = Requested \o Append(queue, n + 1)
      BY <3>5
    <3> QED BY <3>2, <3>3, <3>4, <3>6, Zenon DEF Row
  <2> QED BY <1>1, <1>2, <2>1, <2>2, AscendsLonger
<1>6. CASE Drained /\ used'.sends = used.sends
  <2>1. CASE Kept(chats') /\ UNCHANGED queue
    BY <1>2, <1>6, <2>1, KeptRequests DEF Row
  <2>2. CASE Opened(queue)
    BY <1>1, <1>2, <1>4, <1>6, <2>2 DEF Row
  <2> QED BY <1>6, <2>1, <2>2 DEF Drained
<1>7. CASE Kept(chats') /\ queue' = << >> /\ used'.sends = used.sends
  <2>1. Row' = Requested
    BY <1>1, <1>7, KeptRequests, ConcatEmptySeq DEF Row
  <2>2. Requested \in Seq(1..n) /\ Ascends(Requested)
    BY <1>1, <1>2, AscendsShorter DEF Row
  <2> QED BY <1>7, <2>1, <2>2
<1>8. CASE /\ used'.sends = Append(used.sends, sid) /\ sid \in Sessions
           /\ (Kept(chats') /\ queue' = Append(queue, NewSend)) \/ Opened(Append(queue, NewSend))
  <2>1. CASE Kept(chats') /\ queue' = Append(queue, NewSend)
    BY <1>5, <1>8, <2>1, KeptRequests DEF Row
  <2>2. CASE Opened(Append(queue, NewSend))
    <3>1. Append(queue, NewSend) \in Seq(Nat)
      BY <1>1, AppendProperties DEF NewSend
    <3> QED BY <1>4, <1>5, <1>8, <2>2, <3>1
  <2> QED BY <1>8, <2>1, <2>2
<1> QED BY <1>1, <1>6, <1>7, <1>8 DEF SendsMove

(* No send goes out twice or overtakes an earlier one, whatever drains,    *)
(* recoveries, aborts and switches came between: send, cancel and          *)
(* drainFollowUps share the queue and the draining flag.                   *)
THEOREM SendsAscend == Spec => []SendsGoOnceInOrder
<1>1. Init => HookTyped /\ RowInv
  BY HookInit, RowInit
<1>2. (HookTyped /\ RowInv) /\ [Next]_vars => (HookTyped /\ RowInv)'
  BY HookStep, RowKept DEF HookActs
<1>3. RowInv => SendsGoOnceInOrder
  BY DEF RowInv
<1> QED BY <1>1, <1>2, <1>3, PTL DEF Spec

-----------------------------------------------------------------------------
(***************************************************************************)
(* The session hook: who may write the view.  A drain's own loop runs only *)
(* while the drain waits for it, there is one, and while anything is       *)
(* drained every other loop is of an old generation: when the own loop     *)
(* returns, and a stream may follow, only stale ones are left.             *)
(***************************************************************************)
OwnWatches == \A l \in loops : l.own => drain.at = "watching"
OneWatches == \A l, m \in loops : l.own /\ m.own => l = m
DrainWatches == drain.at # "idle" => \A l \in loops : l.stale \/ l.own
LoopsInv == OwnWatches /\ OneWatches /\ DrainWatches

LEMMA LoopsInit == Init => LoopsInv
BY DEF Init, Idle, LoopsInv, OwnWatches, OneWatches, DrainWatches

LEMMA LoopsStay ==
  ASSUME LoopsInv, UNCHANGED loops,
         \/ drain'.at = drain.at
         \/ drain.at \in {"reading", "recovering"} /\ drain'.at \in {"idle", "reading", "recovering"}
  PROVE  LoopsInv'
BY DEF LoopsInv, OwnWatches, OneWatches, DrainWatches

LEMMA LoopSwapped ==
  ASSUME LoopsInv, NEW l \in loops, NEW m, m.own = l.own, m.stale = l.stale,
         loops' = Swap(loops, l, m), UNCHANGED drain
  PROVE  LoopsInv'
BY DEF LoopsInv, OwnWatches, OneWatches, DrainWatches, Swap

LEMMA ContinueDrains == ASSUME NEW v, NEW given, Continue(v, given) PROVE drain'.at \in {"idle", "reading"}
BY DEF Continue, Open, Idle

LEMMA LoopReturns ==
  ASSUME LoopsInv, NEW l \in loops, NEW v, Return(l, v)
  PROVE  LoopsInv'
<1>1. CASE l.own
  <2>1. drain.at = "watching" /\ \A m \in loops' : m.stale /\ ~m.own
    BY <1>1 DEF Return, LoopsInv, OwnWatches, OneWatches, DrainWatches
  <2>2. drain'.at \in {"idle", "reading"}
    BY <1>1, ContinueDrains DEF Return
  <2> QED BY <2>1, <2>2 DEF LoopsInv, OwnWatches, OneWatches, DrainWatches
<1>2. CASE ~l.own
  BY <1>2 DEF Return, Stay, LoopsInv, OwnWatches, OneWatches, DrainWatches
<1> QED BY <1>1, <1>2

LEMMA LoopsBump ==
  ASSUME HookTyped, LoopsInv, drain.at # "watching"
  PROVE  \A m \in BumpGeneration : m.stale /\ ~m.own
<1>1. \A l \in loops : l \in Loops /\ ~l.own
  BY DEF HookTyped, TypeOK, LoopsInv, OwnWatches
<1> QED BY <1>1 DEF BumpGeneration, Loops

LEMMA LoopsKept == HookTyped /\ LoopsInv /\ [Next]_vars => LoopsInv'
<1> SUFFICES ASSUME HookTyped, LoopsInv, [Next]_vars PROVE LoopsInv'
  OBVIOUS
<1>1. CASE UNCHANGED <<loops, drain>>
  BY <1>1, LoopsStay
<1>2. CASE ReadStep \/ RecoverFails \/ AnswerRecover \/ LoseStream
  <2>1. ASSUME ReadEvent \/ ReadEnd \/ RecoverFails
        PROVE  UNCHANGED loops /\ (UNCHANGED drain \/ drain'.at \in {"idle", "reading"})
               /\ drain.at \in {"reading", "recovering"}
    BY <2>1, ContinueDrains DEF ReadEvent, ReadEnd, RecoverFails
  <2>2. ASSUME AnswerRecover
        PROVE  UNCHANGED loops /\ drain'.at = "recovering" /\ drain.at = "recovering"
    BY <2>2, DrainTyped DEF AnswerRecover
  <2>3. ASSUME LoseStream
        PROVE  UNCHANGED loops /\ drain'.at = "recovering" /\ drain.at = "reading"
    BY <2>3 DEF LoseStream
  <2> QED BY <1>2, <2>1, <2>2, <2>3, LoopsStay DEF ReadStep
<1>3. CASE \E l \in loops : AnswerLoop(l)
  <2>1. PICK l \in loops : AnswerLoop(l)
    BY <1>3
  <2> DEFINE d == Detail(l.id)
             m == [l EXCEPT !.detail = d]
  <2>2. m.own = l.own /\ m.stale = l.stale
    BY LoopTyped DEF Loops
  <2>3. loops' = Swap(loops, l, m) /\ UNCHANGED drain
    BY <2>1 DEF AnswerLoop
  <2> HIDE DEF m
  <2> QED BY <2>2, <2>3, LoopSwapped
<1>4. CASE \E l \in loops : Polled(l) \/ PollFails(l)
  <2>1. PICK l \in loops : Polled(l) \/ PollFails(l)
    BY <1>4
  <2>2. CASE \E v : Return(l, v)
    BY <2>2, LoopReturns
  <2>3. CASE loops' = Swap(loops, l, [l EXCEPT !.detail = None]) /\ UNCHANGED drain
    <3> DEFINE m == [l EXCEPT !.detail = None]
    <3>1. m.own = l.own /\ m.stale = l.stale
      BY LoopTyped DEF Loops
    <3> HIDE DEF m
    <3> QED BY <2>3, <3>1, LoopSwapped DEF m
  <2> QED BY <2>1, <2>2, <2>3 DEF Polled, PollFails, Stay
<1>5. CASE Recovered
  <2>1. drain.at = "recovering"
    BY <1>5 DEF Recovered
  <2>2. CASE drain.detail.live /\ drain.id = sid
    <3>1. /\ drain'.at = "watching"
          /\ loops' = BumpGeneration \cup {[id |-> sid, stale |-> FALSE, own |-> TRUE, detail |-> None]}
      BY <1>5, <2>2 DEF Recovered, Watch
    <3>2. PICK m : m.own /\ loops' = BumpGeneration \cup {m}
      BY <3>1
    <3>3. \A l \in BumpGeneration : l.stale /\ ~l.own
      BY <2>1, LoopsBump
    <3> QED BY <3>1, <3>2, <3>3 DEF LoopsInv, OwnWatches, OneWatches, DrainWatches
  <2>3. CASE ~(drain.detail.live /\ drain.id = sid)
    <3>1. drain'.at \in {"idle", "reading"} /\ (UNCHANGED loops \/ loops' = BumpGeneration)
      BY <1>5, <2>3, ContinueDrains DEF Recovered, Watch
    <3> QED BY <2>1, <3>1, LoopsBump, LoopsStay DEF LoopsInv, OwnWatches, OneWatches, DrainWatches
  <2> QED BY <2>2, <2>3
<1>6. CASE \E r \in reloads : Reloaded(r)
  <2>1. CASE UNCHANGED <<loops, drain>>
    BY <2>1, LoopsStay
  <2>2. CASE drain = Idle /\ UNCHANGED drain /\ \E r \in reloads : Watch(r.id, FALSE)
    <3>1. drain.at = "idle" /\ drain'.at = "idle"
      BY <2>2 DEF Idle
    <3>2. \A m \in loops' : ~m.own
      <4>1. PICK r \in reloads : Watch(r.id, FALSE)
        BY <2>2
      <4>2. \A m \in BumpGeneration : ~m.own
        BY <3>1, LoopsBump
      <4> QED BY <4>1, <4>2 DEF Watch
    <3> QED BY <3>1, <3>2 DEF LoopsInv, OwnWatches, OneWatches, DrainWatches
  <2> QED BY <1>6, <2>1, <2>2 DEF Reloaded
<1>7. CASE Send
  <2>1. CASE UNCHANGED <<loops, drain>>
    BY <2>1, LoopsStay
  <2>2. CASE drain = Idle /\ loops' = BumpGeneration /\ drain'.at = "reading"
    BY <2>2, LoopsBump DEF LoopsInv, OwnWatches, OneWatches, DrainWatches, Idle
  <2> QED BY <1>7, <2>1, <2>2 DEF Send, Open
<1>8. CASE \E p \in posts : Stopped(p) \/ Refused(p) \/ PostFails(p)
  <2>1. \/ UNCHANGED <<loops, drain>>
        \/ UNCHANGED loops /\ drain.at = "reading" /\ drain'.at \in {"idle", "reading"}
    BY <1>8, ContinueDrains DEF Stopped, Refused, PostFails, Failed, AbortReader, Stay
  <2> QED BY <2>1, LoopsStay
<1>9. CASE TurnStep \/ AnswerStep \/ \E k \in DOMAIN chats : RaiseGate(k)
  <2>1. CASE TurnStep
    <3>1. ASSUME NEW k, Arrive(k) PROVE UNCHANGED <<loops, drain>>
      BY <3>1 DEF Arrive, clientVars
    <3>2. ASSUME NEW k, StartTurn(k) PROVE UNCHANGED <<loops, drain>>
      BY <3>2 DEF StartTurn, clientVars
    <3>3. ASSUME NEW k, EndTurn(k) PROVE UNCHANGED <<loops, drain>>
      BY <3>3 DEF EndTurn, clientVars
    <3>4. UNCHANGED <<loops, drain>>
      BY <2>1, <3>1, <3>2, <3>3 DEF TurnStep
    <3> QED BY <1>1, <3>4
  <2>2. CASE AnswerStep
    BY <1>1, <2>2 DEF AnswerStep, AnswerCancel, AnswerDecision, clientVars
  <2>3. CASE \E k \in DOMAIN chats : RaiseGate(k)
    BY <1>1, <2>3 DEF RaiseGate, clientVars
  <2> QED BY <1>9, <2>1, <2>2, <2>3
<1>10. CASE (\E r \in reloads : AnswerReload(r) \/ ReloadFails(r)) \/ (\E s \in Sessions : Switch(s))
            \/ Stop \/ Decide \/ UNCHANGED vars
  BY <1>1, <1>10 DEF AnswerReload, ReloadFails, Switch, Stop, Decide, vars
<1> QED BY <1>2, <1>3, <1>4, <1>5, <1>6, <1>7, <1>8, <1>9, <1>10 DEF Next, PollStep

(* While a /chat stream is read no poll loop may write the view: a real    *)
(* stream owns updates, for any number of recoveries and switches.         *)
THEOREM StreamOwns == Spec => []StreamOwnsUpdates
<1>1. Init => HookTyped /\ LoopsInv
  BY HookInit, LoopsInit
<1>2. (HookTyped /\ LoopsInv) /\ [Next]_vars => (HookTyped /\ LoopsInv)'
  BY HookStep, LoopsKept DEF HookActs
<1>3. LoopsInv => StreamOwnsUpdates
  BY DEF LoopsInv, StreamOwnsUpdates, OwnWatches, DrainWatches
<1> QED BY <1>1, <1>2, <1>3, PTL DEF Spec

-----------------------------------------------------------------------------
(***************************************************************************)
(* The composer's trigger menu (Composer).                                 *)
(***************************************************************************)
(* A request whose answer would still be taken asks for what is shown.     *)
AskedIsShown ==
  \A r \in asked :
    /\ r = [query |-> r.query, path |-> r.path, aborted |-> r.aborted]
    /\ ~r.aborted => match # Null /\ r.query = match.query /\ r.path = path

MenuInv == AskedIsShown /\ RowsAreOfTheQuery

MenuStays == UNCHANGED <<match, path, nodes, loading, asked>>

LEMMA MenuUntouched == MenuInv /\ MenuStays => MenuInv'
BY DEF MenuInv, MenuStays, AskedIsShown, RowsAreOfTheQuery, ListItems, Level

(* Aborting leaves no request whose answer is taken.                       *)
LEMMA AbortedAll ==
  ASSUME AskedIsShown
  PROVE  \A r \in AbortAsked : /\ r = [query |-> r.query, path |-> r.path, aborted |-> r.aborted]
                                /\ r.aborted
<1> SUFFICES ASSUME NEW q \in asked, NEW r, r = [q EXCEPT !.aborted = TRUE]
             PROVE  r = [query |-> r.query, path |-> r.path, aborted |-> r.aborted] /\ r.aborted
  BY DEF AbortAsked
<1>1. PICK query, p, a : q = [query |-> query, path |-> p, aborted |-> a]
  BY DEF AskedIsShown
<1>2. r = [query |-> query, path |-> p, aborted |-> TRUE]
  BY <1>1
<1> QED BY <1>2

(* The effects of a new match keep the invariant: a level is asked for     *)
(* again wherever the rows shown could be another's.                       *)
LEMMA MenuShown ==
  ASSUME MenuInv, NEW m, NEW p, NEW restart \in BOOLEAN, NEW rows,
         Show(m, p, restart, rows), ~restart => p = path /\ rows = nodes
  PROVE  MenuInv'
<1>1. CASE m = Null
  <2>1. match' = Null /\ nodes' = {} /\ asked' = AbortAsked
    BY <1>1 DEF Show
  <2> QED BY <2>1, AbortedAll DEF MenuInv, AskedIsShown, RowsAreOfTheQuery
<1>2. CASE m # Null
  <2> DEFINE moved == Key(m) # Key(match)
             there == IF moved THEN << >> ELSE p
  <2>1. match' = m /\ path' = there /\ nodes' = rows
    BY <1>2 DEF Show
  <2>2. CASE moved \/ restart \/ match.query # m.query
    <3>1. asked' = AskFor(m.query, there) /\ loading' = TRUE
      BY <1>2, <2>2 DEF Show
    <3>2. AskedIsShown'
      BY <1>2, <2>1, <3>1, AbortedAll DEF MenuInv, AskedIsShown, AskFor
    <3> QED BY <3>1, <3>2 DEF MenuInv, RowsAreOfTheQuery
  <2>3. CASE ~(moved \/ restart \/ match.query # m.query)
    <3>1. UNCHANGED <<asked, loading>>
      BY <1>2, <2>3 DEF Show
    <3>2. match # Null /\ m.query = match.query
      BY <1>2, <2>3 DEF Key
    <3>3. path' = path /\ nodes' = nodes
      BY <2>1, <2>3
    <3> QED BY <1>2, <2>1, <3>1, <3>2, <3>3
            DEF MenuInv, AskedIsShown, RowsAreOfTheQuery, ListItems, Level
  <2> QED BY <2>2, <2>3
<1> QED BY <1>1, <1>2

LEMMA MenuSynced ==
  ASSUME MenuInv, NEW d, NEW c, Sync(d, c)
  PROVE  MenuInv'
BY MenuUntouched, MenuShown DEF MenuStays, Sync

LEMMA MenuPut ==
  ASSUME MenuInv, NEW v, Put(v)
  PROVE  MenuInv'
BY MenuShown DEF Put

LEMMA MenuKept == MenuInv /\ [ComposerNext]_composerVars => MenuInv'
<1> SUFFICES ASSUME MenuInv, [ComposerNext]_composerVars PROVE MenuInv'
  OBVIOUS
<1>1. CASE \E key \in Keys : Type(key)
  BY <1>1, MenuSynced DEF Type
<1>2. CASE (\E p \in 0..Len(dom) : MoveCaret(p)) \/ KeyUp
  BY <1>2, MenuSynced DEF MoveCaret, KeyUp
<1>3. ASSUME NEW i, Erase(i) PROVE MenuInv'
  <2>1. CASE \E d, c : Sync(d, c)
    BY <2>1, MenuSynced
  <2>2. CASE MenuStays
    BY <2>2, MenuUntouched
  <2>3. CASE Show(MatchOf(Empty), path, FALSE, nodes)
    BY <2>3, MenuShown
  <2> QED BY <1>3, <2>1, <2>2, <2>3 DEF Erase, MenuStays
<1>4. CASE Backspace \/ Delete
  BY <1>3, <1>4 DEF Backspace, Delete
<1>5. CASE \E i \in DOMAIN dom : ClickRemove(i)
  BY <1>5, MenuSynced DEF ClickRemove
<1>6. CASE \E node \in nodes : DrillIn(node) \/ Pick(node)
  <2>1. PICK m, p, rows : Show(m, p, TRUE, rows)
    BY <1>6 DEF DrillIn, Pick
  <2> QED BY <2>1, MenuShown
<1>7. CASE Back
  BY <1>7, MenuShown DEF Back
<1>8. CASE Dismiss
  BY <1>8 DEF Dismiss, MenuInv, AskedIsShown, RowsAreOfTheQuery
<1>9. CASE \E r \in asked : Fetched(r) \/ FetchFails(r)
  <2>1. PICK r \in asked : Fetched(r) \/ FetchFails(r)
    BY <1>9
  <2>2. asked' = asked \ {r} /\ UNCHANGED <<match, path>>
    BY <2>1 DEF Fetched, FetchFails
  <2>3. AskedIsShown'
    BY <2>2 DEF MenuInv, AskedIsShown
  <2>4. \/ UNCHANGED <<nodes, loading>>
        \/ nodes' = {}
        \/ ~r.aborted /\ nodes' = ListItems(r.query, r.path)
    BY <2>1 DEF Fetched, FetchFails, TakeAnswer
  <2>5. RowsAreOfTheQuery'
    BY <2>2, <2>4 DEF MenuInv, AskedIsShown, RowsAreOfTheQuery, ListItems, Level
  <2> QED BY <2>3, <2>5 DEF MenuInv
<1>10. CASE AddTrigger
            \/ \E query \in Queries :
                 \E hit \in FlattenMenuItems(ListItems(query, << >>)) : AddPick(hit)
  BY <1>10, MenuPut DEF AddTrigger, AddPick
<1>11. CASE \E n \in 1..MaxFiles : AddFiles(n)
  BY <1>11, MenuUntouched DEF AddFiles, menuVars, MenuStays
<1>12. CASE \E job \in jobs : FileFails(job) \/ \E name \in Names : FileRead(job, name)
  <2>1. ASSUME NEW job, FileFails(job) PROVE (\E v : Put(v)) \/ MenuStays
    BY <2>1 DEF FileFails, MenuStays
  <2>2. ASSUME NEW job, NEW name, FileRead(job, name) PROVE (\E v : Put(v)) \/ MenuStays
    BY <2>2 DEF FileRead, MenuStays
  <2> QED BY <1>12, <2>1, <2>2, MenuPut, MenuUntouched
<1>13. CASE Submit
  <2>1. Put(Empty) \/ MenuStays
    BY <1>13 DEF Submit, MenuStays
  <2> QED BY <2>1, MenuPut, MenuUntouched
<1>14. CASE UNCHANGED composerVars
  BY <1>14, MenuUntouched DEF composerVars, menuVars, MenuStays
<1> QED BY <1>1, <1>2, <1>4, <1>5, <1>6, <1>7, <1>8, <1>9, <1>10, <1>11, <1>12, <1>13, <1>14
        DEF ComposerNext

(* Rows that stand while nothing is loading are those of the query and the *)
(* path shown, though answers come in any order and after the match moved. *)
THEOREM MenuRowsFit == ComposerSpec => []RowsAreOfTheQuery
<1>1. ComposerInit => MenuInv
  BY DEF ComposerInit, MenuInv, AskedIsShown, RowsAreOfTheQuery
<1>2. MenuInv => RowsAreOfTheQuery
  BY DEF MenuInv
<1> QED BY <1>1, <1>2, MenuKept, PTL DEF ComposerSpec

-----------------------------------------------------------------------------
(***************************************************************************)
(* One answer on its way to the person (Streaming).                        *)
(***************************************************************************)
(* The text of an event that is shown.                                     *)
Piece(e) == IF e.kind = "text" THEN <<e.piece>> ELSE << >>

LEMMA TextAppend ==
  ASSUME NEW P, NEW parts \in Seq(P), NEW e
  PROVE  TextOf(Append(parts, e)) = TextOf(parts) \o Piece(e)
<1> DEFINE Q == P \cup {e}
           T == {x.piece : x \in Q}
           each == [i \in 1..Len(parts) |-> Piece(parts[i])]
<1>1. parts \in Seq(Q) /\ Append(parts, e) \in Seq(Q) /\ Len(parts) \in Nat
  BY SeqMonotonic
<1>2. \A x \in Q : Piece(x) \in Seq(T)
  <2>1. \A x \in Q : x.piece \in T
    OBVIOUS
  <2> HIDE DEF T
  <2> QED BY <2>1 DEF Piece
<1>3. each \in Seq(Seq(T))
  <2>1. \A i \in 1..Len(parts) : Piece(parts[i]) \in Seq(T)
    BY <1>1, <1>2
  <2> HIDE DEF T
  <2> QED BY <1>1, <2>1, IsASeq
<1>4. Append(each, Piece(e)) = [i \in 1..(Len(parts) + 1) |-> Piece(Append(parts, e)[i])]
  <2> DEFINE longer == [i \in 1..(Len(parts) + 1) |-> Piece(Append(parts, e)[i])]
             S == Seq(T)
  <2>1. \A i \in 1..(Len(parts) + 1) : Piece(Append(parts, e)[i]) \in S
    <3>1. Len(Append(parts, e)) = Len(parts) + 1
      BY <1>1
    <3>2. \A i \in 1..(Len(parts) + 1) : Append(parts, e)[i] \in Q
      BY <1>1, <3>1, ElementOfSeq
    <3> QED BY <1>2, <3>2
  <2>2. longer \in Seq(S) /\ Len(longer) = Len(parts) + 1
    <3> HIDE DEF S
    <3> QED BY <1>1, <2>1, IsASeq
  <2>3. each \in Seq(S) /\ Len(each) = Len(parts) /\ Piece(e) \in S
    BY <1>1, <1>2, <1>3
  <2>4. \A i \in 1..(Len(parts) + 1) : Append(each, Piece(e))[i] = longer[i]
    <3> SUFFICES ASSUME NEW i \in 1..(Len(parts) + 1) PROVE Append(each, Piece(e))[i] = longer[i]
      OBVIOUS
    <3>1. longer[i] = Piece(Append(parts, e)[i])
      OBVIOUS
    <3>2. CASE i = Len(parts) + 1
      <4>1. Append(parts, e)[i] = e
        BY <1>1, <3>2
      <4>2. Append(each, Piece(e))[i] = Piece(e)
        <5> HIDE DEF each, S
        <5> QED BY <1>1, <2>3, <3>2
      <4> QED BY <3>1, <4>1, <4>2
    <3>3. CASE i # Len(parts) + 1
      <4>1. i \in 1..Len(parts) /\ Append(parts, e)[i] = parts[i]
        BY <1>1, <3>3
      <4>2. Append(each, Piece(e))[i] = each[i]
        <5> HIDE DEF each, S
        <5> QED BY <1>1, <2>3, <4>1
      <4> QED BY <3>1, <4>1, <4>2
    <3> QED BY <3>2, <3>3
  <2> HIDE DEF longer, each, S
  <2>5. Append(each, Piece(e)) \in Seq(S) /\ Len(Append(each, Piece(e))) = Len(parts) + 1
    BY <1>1, <2>3, AppendProperties
  <2>6. Append(each, Piece(e)) = longer
    BY <1>1, <2>2, <2>4, <2>5, SeqEqual
  <2> QED BY <2>6 DEF longer
<1>5. FlattenSeq(Append(each, Piece(e))) = FlattenSeq(each) \o Piece(e)
  BY <1>2, <1>3, FlattenAppend
<1>6. TextOf(parts) = FlattenSeq(each)
  <2>1. DOMAIN parts = 1..Len(parts)
    BY <1>1
  <2> QED BY <2>1, Zenon DEF TextOf, Piece
<1>7. TextOf(Append(parts, e)) = FlattenSeq([i \in 1..(Len(parts) + 1) |-> Piece(Append(parts, e)[i])])
  <2>1. DOMAIN Append(parts, e) = 1..(Len(parts) + 1)
    BY <1>1
  <2> QED BY <2>1, Zenon DEF TextOf, Piece
<1> QED BY <1>4, <1>5, <1>6, <1>7

LEMMA TextIsASeq ==
  ASSUME NEW P, NEW parts \in Seq(P)
  PROVE  \E T : TextOf(parts) \in Seq(T)
<1> DEFINE T == {x.piece : x \in P}
           each == [i \in 1..Len(parts) |-> Piece(parts[i])]
<1>1. \A i \in 1..Len(parts) : Piece(parts[i]) \in Seq(T)
  <2>1. \A x \in P : Piece(x) \in Seq(T)
    <3>1. \A x \in P : x.piece \in T
      OBVIOUS
    <3> HIDE DEF T
    <3> QED BY <3>1 DEF Piece
  <2>2. \A i \in 1..Len(parts) : parts[i] \in P
    BY ElementOfSeq
  <2> HIDE DEF T
  <2> QED BY <2>1, <2>2
<1>2. each \in Seq(Seq(T))
  BY <1>1, IsASeq
<1>3. TextOf(parts) = FlattenSeq(each)
  <2>1. DOMAIN parts = 1..Len(parts)
    OBVIOUS
  <2> QED BY <2>1, Zenon DEF TextOf, Piece
<1> QED BY <1>2, <1>3, FlattenTyped

(* The turn has the text that was shown, and the parser has the same while *)
(* the answer is coming: what is cut off is not in what is kept.           *)
Coming == at \in {"fetching", "reading", "handling"}

ShownInRow == \E P : shown \in Seq(P)
SaidIsShown == said = TextOf(shown)
ParsedIsSaid == Coming => content = said
OutcomeFits ==
  /\ at = "over" => outcome.kind \in {"cancelled", "failed", "complete"}
  /\ outcome # NoOutcome =>
       /\ ~Coming
       /\ outcome.content = said
       /\ outcome.kind = "complete" => outcome.message.content = said

StoredInv == ShownInRow /\ SaidIsShown /\ ParsedIsSaid /\ OutcomeFits

LEMMA ShownGrows ==
  ASSUME StoredInv, NEW e, shown' = Append(shown, e)
  PROVE  /\ ShownInRow'
         /\ e.kind = "text" => TextOf(shown)' = Append(said, e.piece)
         /\ e.kind # "text" => TextOf(shown)' = said
<1>1. PICK P : shown \in Seq(P)
  BY DEF StoredInv, ShownInRow
<1>2. shown' \in Seq(P \cup {e})
  BY <1>1, SeqMonotonic
<1>3. TextOf(shown)' = said \o Piece(e)
  <2>1. TextOf(shown') = TextOf(shown) \o Piece(e)
    BY <1>1, TextAppend
  <2> QED BY <2>1 DEF StoredInv, SaidIsShown, TextOf
<1>4. PICK T : said \in Seq(T)
  BY <1>1, TextIsASeq DEF StoredInv, SaidIsShown
<1>5. said \o << >> = said /\ said \o <<e.piece>> = Append(said, e.piece)
  <2>1. said \in Seq(T \cup {e.piece})
    BY <1>4, SeqMonotonic
  <2> QED BY <2>1
<1> QED BY <1>2, <1>3, <1>5 DEF ShownInRow, Piece

LEMMA StoredUntouched ==
  ASSUME StoredInv, UNCHANGED <<shown, said, content, outcome>>,
         Coming => Coming', Coming' => Coming, at' = "over" => at = "over"
  PROVE  StoredInv'
BY DEF StoredInv, ShownInRow, SaidIsShown, ParsedIsSaid, OutcomeFits, Coming, TextOf, NoOutcome

LEMMA StoredEnds ==
  ASSUME StoredInv, NEW kind \in {"cancelled", "failed"}, Ends(kind), UNCHANGED <<shown, said>>
  PROVE  StoredInv'
BY DEF StoredInv, ShownInRow, SaidIsShown, ParsedIsSaid, OutcomeFits, Coming, TextOf, NoOutcome,
       Ends

LEMMA StoredHandled ==
  ASSUME StoredInv, Handle
  PROVE  StoredInv'
<1> DEFINE part == Head(pending)
<1>1. /\ at = "handling" /\ Coming /\ content = said /\ outcome = NoOutcome
      /\ content' = IF part.kind = "text" THEN Append(content, part.piece) ELSE content
  BY DEF Handle, StoredInv, ParsedIsSaid, OutcomeFits, Coming
<1>2. CASE StopAtEvent
  BY <1>2, StoredEnds DEF StopAtEvent, routeVars
<1>3. CASE TakeText
  <2>1. /\ part.kind = "text" /\ said' = Append(said, part.piece) /\ shown' = Append(shown, part)
        /\ at' \in {"reading", "handling"} /\ outcome' = outcome
    BY <1>3 DEF TakeText, SendEvent, Advance
  <2>2. ShownInRow' /\ TextOf(shown)' = said'
    BY <2>1, ShownGrows
  <2> QED BY <1>1, <2>1, <2>2 DEF StoredInv, SaidIsShown, ParsedIsSaid, OutcomeFits, Coming, NoOutcome
<1>4. CASE TakeThought
  <2>1. /\ part.kind = "thought" /\ said' = said /\ shown' = Append(shown, part)
        /\ at' \in {"reading", "handling"} /\ outcome' = outcome
    BY <1>4 DEF TakeThought, SendEvent, Advance, turnVars
  <2>2. ShownInRow' /\ TextOf(shown)' = said'
    BY <2>1, ShownGrows
  <2> QED BY <1>1, <2>1, <2>2 DEF StoredInv, SaidIsShown, ParsedIsSaid, OutcomeFits, Coming, NoOutcome
<1>5. CASE TakeUsage \/ TakeCall
  <2>1. /\ part.kind # "text" /\ UNCHANGED <<said, outcome, shown>> /\ at' \in {"reading", "handling"}
    BY <1>5 DEF TakeUsage, TakeCall, Advance, turnVars, routeVars
  <2> QED BY <1>1, <2>1, StoredUntouched DEF Coming
<1>6. CASE TakeMessage
  <2>1. /\ part.kind = "message" /\ UNCHANGED <<said, shown>> /\ at' = "over"
        /\ outcome' = [kind |-> "complete", content |-> said, message |-> Message]
    BY <1>6 DEF TakeMessage, routeVars
  <2>2. Message.content = said
    BY <1>1 DEF Message
  <2> QED BY <1>1, <2>1, <2>2
          DEF StoredInv, ShownInRow, SaidIsShown, ParsedIsSaid, OutcomeFits, Coming, TextOf
<1> QED BY <1>2, <1>3, <1>4, <1>5, <1>6 DEF Handle

LEMMA StoredKept == StoredInv /\ [StreamNext]_streamVars => StoredInv'
<1> SUFFICES ASSUME StoredInv, [StreamNext]_streamVars PROVE StoredInv'
  OBVIOUS
<1> USE DEF parserVars, turnVars, routeVars, decoderVars
<1>1. CASE Respond
  BY <1>1, StoredUntouched DEF Respond, Coming
<1>2. CASE NetworkFails \/ CutOff
  BY <1>2, StoredEnds DEF NetworkFails, CutOff
<1>3. CASE Read
  BY <1>3, StoredUntouched DEF Read, Coming
<1>4. CASE StreamCloses
  BY <1>4, StoredUntouched DEF StreamCloses, Coming
<1>5. CASE Handle
  BY <1>5, StoredHandled
<1>6. CASE StopTurn \/ Timeout
  BY <1>6, StoredUntouched DEF StopTurn, Timeout, Coming
<1>7. CASE Finish
  <2>1. /\ at = "over" /\ at' = "closed" /\ UNCHANGED <<said, content, outcome>>
        /\ shown' = Append(shown, [kind |-> outcome.kind])
    BY <1>7 DEF Finish, SendEvent
  <2>2. outcome.kind # "text"
    BY <2>1 DEF StoredInv, OutcomeFits
  <2>3. ShownInRow' /\ TextOf(shown)' = said
    BY <2>1, <2>2, ShownGrows
  <2> QED BY <2>1, <2>3 DEF StoredInv, SaidIsShown, ParsedIsSaid, OutcomeFits, Coming, NoOutcome
<1>8. CASE Ping \/ Disconnect \/ ClientReads
  BY <1>8, StoredUntouched DEF Ping, Disconnect, ClientReads, Coming
<1>9. CASE UNCHANGED streamVars
  BY <1>9, StoredUntouched DEF streamVars, Coming
<1> QED BY <1>1, <1>2, <1>3, <1>4, <1>5, <1>6, <1>7, <1>8, <1>9 DEF StreamNext

LEMMA StoredStarts == StreamInit => StoredInv
<1> SUFFICES ASSUME StreamInit PROVE StoredInv
  OBVIOUS
<1>1. shown = << >> /\ said = << >> /\ content = << >> /\ outcome = NoOutcome /\ at = "fetching"
  BY DEF StreamInit
<1>2. TextOf(<< >>) = << >>
  <2>1. [i \in DOMAIN << >> |-> IF (<< >>)[i].kind = "text" THEN <<(<< >>)[i].piece>> ELSE << >>] = << >>
    OBVIOUS
  <2>2. FlattenSeq(<< >>) = << >>
    BY EmptySeq DEF FlattenSeq
  <2> QED BY <2>1, <2>2 DEF TextOf
<1> QED BY <1>1, <1>2 DEF StoredInv, ShownInRow, SaidIsShown, ParsedIsSaid, OutcomeFits

(* What a turn keeps of an answer that ended, broke or was stopped is the  *)
(* text that was shown, and of a complete one the message's text.          *)
THEOREM AnswerIsAsShown == StreamSpec => []StoredIsShown
<1>1. StoredInv => StoredIsShown
  BY DEF StoredInv, SaidIsShown, OutcomeFits, StoredIsShown
<1> QED BY <1>1, StoredStarts, StoredKept, PTL DEF StreamSpec

-----------------------------------------------------------------------------
(***************************************************************************)
(* Server-sent events, cut anywhere.  First the equations that the         *)
(* recursive function of Pieces suggests.                                  *)
(***************************************************************************)
LEMMA RowInduction ==
  ASSUME NEW S, NEW Good, << >> \in Good,
         \A t \in Seq(S) : t \in Good => \A u \in S : Append(t, u) \in Good
  PROVE  \A s \in Seq(S) : s \in Good
<1> DEFINE T == {n \in Nat : \E t \in Seq(S) : Len(t) = n /\ t \notin Good}
<1>1. SUFFICES ASSUME T # {} PROVE FALSE
  OBVIOUS
<1>2. PICK n \in T : \A m \in T : n <= m
  <2>1. T \subseteq Nat OBVIOUS
  <2> HIDE DEF T
  <2> QED BY <1>1, <2>1, LeastNumber
<1>3. PICK t \in Seq(S) : Len(t) = n /\ t \notin Good
  BY <1>2
<1>4. t # << >> /\ n # 0
  BY <1>3, EmptySeq
<1> DEFINE front == SubSeq(t, 1, n - 1)
<1>5. front \in Seq(S) /\ Len(front) = n - 1 /\ t = Append(front, t[n]) /\ t[n] \in S
  <2>1. n \in Nat /\ n \in 1..Len(t)
    BY <1>2, <1>3, <1>4
  <2> QED BY <1>3, <2>1
<1> HIDE DEF front
<1>6. front \notin Good
  BY <1>3, <1>5
<1>7. n - 1 \in T
  <2>1. n - 1 \in Nat
    BY <1>2, <1>4
  <2> QED BY <1>5, <1>6, <2>1
<1> QED BY <1>2, <1>7

Cutting(f, unit, units, n) ==
  f = [i \in 0..n |-> IF i = 0 THEN NoPieces ELSE AddUnit(unit, f[i-1], units[i])]

LEMMA CuttingAt ==
  ASSUME NEW f, NEW unit, NEW units, NEW n \in Nat, Cutting(f, unit, units, n), NEW i \in 0..n
  PROVE  f[i] = IF i = 0 THEN NoPieces ELSE AddUnit(unit, f[i-1], units[i])
<1> DEFINE h == [j \in 0..n |-> IF j = 0 THEN NoPieces ELSE AddUnit(unit, f[j-1], units[j])]
<1>1. f = h
  BY Zenon DEF Cutting
<1>2. h[i] = IF i = 0 THEN NoPieces ELSE AddUnit(unit, f[i-1], units[i])
  BY Zenon
<1> QED BY <1>1, <1>2, Zenon

LEMMA CuttingExists ==
  ASSUME NEW unit, NEW units, NEW n \in Nat
  PROVE  \E f : Cutting(f, unit, units, n)
<1> DEFINE T == {m \in Nat : ~\E f : Cutting(f, unit, units, m)}
<1> SUFFICES ASSUME T # {} PROVE FALSE
  OBVIOUS
<1>1. PICK m \in T : \A k \in T : m <= k
  BY LeastNumber
<1>2. m # 0
  <2> DEFINE f == [i \in 0..0 |-> NoPieces]
  <2>1. f = [i \in 0..0 |-> IF i = 0 THEN NoPieces ELSE AddUnit(unit, f[i-1], units[i])]
    OBVIOUS
  <2>2. Cutting(f, unit, units, 0)
    BY <2>1, Zenon DEF Cutting
  <2> QED BY <2>2
<1>3. PICK f : Cutting(f, unit, units, m - 1)
  BY <1>1, <1>2
<1> DEFINE g == [i \in 0..m |-> IF i = 0 THEN NoPieces ELSE AddUnit(unit, f[i-1], units[i])]
<1>4. \A i \in 0..m : g[i] = IF i = 0 THEN NoPieces ELSE AddUnit(unit, f[i-1], units[i])
  BY Zenon
<1>5. \A i \in 0..(m - 1) : g[i] = f[i]
  <2> SUFFICES ASSUME NEW i \in 0..(m - 1) PROVE g[i] = f[i]
    OBVIOUS
  <2> HIDE DEF g
  <2>1. i \in 0..m /\ m - 1 \in Nat
    BY <1>2
  <2> QED BY <2>1, <1>3, <1>4, CuttingAt
<1>6. \A i \in 0..m : g[i] = IF i = 0 THEN NoPieces ELSE AddUnit(unit, g[i-1], units[i])
  <2> HIDE DEF g
  <2> SUFFICES ASSUME NEW i \in 0..m, i # 0 PROVE g[i-1] = f[i-1]
    BY <1>4
  <2> QED BY <1>5
<1>7. Cutting(g, unit, units, m)
  <2>1. g = [i \in 0..m |-> g[i]]
    BY Zenon
  <2> HIDE DEF g
  <2>2. [i \in 0..m |-> g[i]] = [i \in 0..m |-> IF i = 0 THEN NoPieces
                                              ELSE AddUnit(unit, g[i-1], units[i])]
    BY <1>6, Zenon
  <2> QED BY <2>1, <2>2, Zenon DEF Cutting
<1> QED BY <1>7

LEMMA CuttingAgrees ==
  ASSUME NEW unit, NEW m \in Nat, NEW n \in Nat, m <= n, NEW s, NEW t, StartsAlike(s, t, m),
         NEW f, NEW g, Cutting(f, unit, s, m), Cutting(g, unit, t, n)
  PROVE  f[m] = g[m]
<1> DEFINE T == {i \in 0..m : f[i] # g[i]}
<1> SUFFICES ASSUME T # {} PROVE FALSE
  OBVIOUS
<1>1. PICK i \in T : \A j \in T : i <= j
  <2>1. T \subseteq Nat OBVIOUS
  <2> HIDE DEF T
  <2> QED BY <2>1, LeastNumber
<1>2. i = 0 \/ (i \in 1..m /\ f[i-1] = g[i-1])
  BY <1>1
<1>3. f[i] = IF i = 0 THEN NoPieces ELSE AddUnit(unit, f[i-1], s[i])
  BY CuttingAt
<1>4. g[i] = IF i = 0 THEN NoPieces ELSE AddUnit(unit, g[i-1], t[i])
  <2>1. i \in 0..n
    OBVIOUS
  <2> QED BY <2>1, CuttingAt
<1> QED BY <1>2, <1>3, <1>4 DEF StartsAlike

LEMMA PiecesIsLast ==
  ASSUME NEW unit, NEW S, NEW s \in Seq(S)
  PROVE  \E f : Cutting(f, unit, s, Len(s)) /\ Pieces(unit, s) = f[Len(s)]
<1> DEFINE f == CHOOSE f : Cutting(f, unit, s, Len(s))
<1>1. Cutting(f, unit, s, Len(s))
  BY CuttingExists, LenProperties
<1>2. Pieces(unit, s) = f[Len(s)]
  BY DEF Pieces, Cutting
<1> QED BY <1>1, <1>2

LEMMA PiecesEmpty == ASSUME NEW unit PROVE Pieces(unit, << >>) = NoPieces
<1>1. << >> \in Seq({}) /\ Len(<< >>) = 0
  BY EmptySeq
<1>2. PICK f : Cutting(f, unit, << >>, 0) /\ Pieces(unit, << >>) = f[0]
  BY <1>1, PiecesIsLast
<1>3. 0 \in 0..0
  OBVIOUS
<1> QED BY <1>2, <1>3, CuttingAt

LEMMA PiecesAppend ==
  ASSUME NEW unit, NEW S, NEW s \in Seq(S), NEW u \in S
  PROVE  Pieces(unit, Append(s, u)) = AddUnit(unit, Pieces(unit, s), u)
<1>1. PICK t : t = Append(s, u)
  OBVIOUS
<1>2. /\ t \in Seq(S) /\ Len(t) = Len(s) + 1 /\ t[Len(t)] = u /\ Len(s) \in Nat /\ Len(t) \in Nat
  BY <1>1, AppendProperties, LenProperties
<1>3. StartsAlike(s, t, Len(s))
  BY <1>1, AppendProperties, LenProperties DEF StartsAlike
<1>4. PICK f : Cutting(f, unit, s, Len(s)) /\ Pieces(unit, s) = f[Len(s)]
  BY PiecesIsLast
<1>5. PICK g : Cutting(g, unit, t, Len(t)) /\ Pieces(unit, t) = g[Len(t)]
  BY <1>2, PiecesIsLast
<1>6. f[Len(s)] = g[Len(s)]
  BY <1>2, <1>3, <1>4, <1>5, CuttingAgrees
<1>7. g[Len(t)] = AddUnit(unit, g[Len(s)], u)
  <2>1. Len(t) \in 0..Len(t) /\ Len(t) # 0 /\ Len(t) - 1 = Len(s)
    BY <1>2
  <2> QED BY <1>2, <1>5, <2>1, CuttingAt
<1> QED BY <1>1, <1>4, <1>5, <1>6, <1>7

Pieced(S) == [whole: Seq(Seq(S)), rest: Seq(S)]

LEMMA AppendToConcat ==
  ASSUME NEW S, NEW s \in Seq(S), NEW t \in Seq(S), NEW u \in S
  PROVE  /\ s \o Append(t, u) = Append(s \o t, u)
         /\ s \o t \in Seq(S) /\ Append(t, u) \in Seq(S)
<1>1. s \o t \in Seq(S) /\ Append(t, u) \in Seq(S) /\ <<u>> \in Seq(S)
  OBVIOUS
<1>2. Append(t, u) = t \o <<u>> /\ Append(s \o t, u) = (s \o t) \o <<u>>
  BY <1>1, AppendIsConcat
<1>3. (s \o t) \o <<u>> = s \o (t \o <<u>>)
  BY <1>1, ConcatAssociative
<1> QED BY <1>1, <1>2, <1>3

LEMMA AddUnitTyped ==
  ASSUME NEW unit, NEW S, NEW acc \in Pieced(S), NEW u \in S
  PROVE  AddUnit(unit, acc, u) \in Pieced(S)
<1>1. PICK Q : Q = Seq(S)
  OBVIOUS
<1>2. acc = [whole |-> acc.whole, rest |-> acc.rest] /\ acc.whole \in Seq(Q) /\ acc.rest \in Q
  BY <1>1 DEF Pieced
<1>3. Append(acc.whole, acc.rest) \in Seq(Q) /\ << >> \in Q /\ Append(acc.rest, u) \in Q
  BY <1>1, <1>2
<1>4. AddUnit(unit, acc, u) = [whole |-> Append(acc.whole, acc.rest), rest |-> << >>]
      \/ AddUnit(unit, acc, u) = [whole |-> acc.whole, rest |-> Append(acc.rest, u)]
  BY <1>2 DEF AddUnit
<1>5. \A A : \A w \in A, r \in Q : [whole |-> w, rest |-> r] \in [whole: A, rest: Q]
  OBVIOUS
<1>6. \A w \in Seq(Q), r \in Q : [whole |-> w, rest |-> r] \in Pieced(S)
  BY <1>1, <1>5, Zenon DEF Pieced
<1> QED BY <1>2, <1>3, <1>4, <1>6, Zenon

LEMMA PiecesTyped ==
  ASSUME NEW unit, NEW S, NEW s \in Seq(S)
  PROVE  Pieces(unit, s) \in Pieced(S)
<1> DEFINE Good == {t \in Seq(S) : Pieces(unit, t) \in Pieced(S)}
<1>1. << >> \in Good
  <2>1. PICK Q : Q = Seq(S)
    OBVIOUS
  <2>2. [whole |-> << >>, rest |-> << >>] \in [whole: Seq(Q), rest: Q]
    BY <2>1
  <2> QED BY <2>1, <2>2, PiecesEmpty DEF Pieced, NoPieces
<1>2. ASSUME NEW t \in Seq(S), t \in Good, NEW u \in S
      PROVE  Append(t, u) \in Good
  BY <1>2, PiecesAppend, AddUnitTyped
<1> HIDE DEF Good
<1>3. s \in Good
  BY <1>1, <1>2, RowInduction
<1> QED BY <1>3 DEF Good

(* What is left over holds no whole piece.                                 *)
LEMMA RestUncut ==
  ASSUME NEW unit, NEW S, NEW s \in Seq(S)
  PROVE  LET r == Pieces(unit, s).rest
         IN  Pieces(unit, r) = [whole |-> << >>, rest |-> r]
<1> DEFINE Uncut(r) == Pieces(unit, r) = [whole |-> << >>, rest |-> r]
           Good == {t \in Seq(S) : Uncut(Pieces(unit, t).rest)}
<1>0. Uncut(<< >>)
  BY PiecesEmpty DEF NoPieces
<1>1. << >> \in Good
  BY <1>0, PiecesEmpty DEF NoPieces
<1>2. ASSUME NEW t \in Seq(S), t \in Good, NEW u \in S
      PROVE  Append(t, u) \in Good
  <2>1. PICK acc \in Pieced(S) : acc = Pieces(unit, t)
    BY PiecesTyped
  <2>2. acc = [whole |-> acc.whole, rest |-> acc.rest] /\ acc.rest \in Seq(S)
    BY DEF Pieced
  <2>3. Pieces(unit, Append(t, u)) = AddUnit(unit, acc, u)
    BY <2>1, PiecesAppend
  <2>4. CASE EndsPiece(unit, acc.rest, u)
    <3>1. Pieces(unit, Append(t, u)).rest = << >>
      BY <2>3, <2>4 DEF AddUnit
    <3> QED BY <1>0, <3>1
  <2>5. CASE ~EndsPiece(unit, acc.rest, u)
    <3>1. Pieces(unit, Append(t, u)).rest = Append(acc.rest, u)
      BY <2>2, <2>3, <2>5 DEF AddUnit
    <3>2. Pieces(unit, acc.rest) = [whole |-> << >>, rest |-> acc.rest]
      BY <1>2, <2>1
    <3>3. Pieces(unit, Append(acc.rest, u)) = AddUnit(unit, [whole |-> << >>, rest |-> acc.rest], u)
      BY <2>2, <3>2, PiecesAppend
    <3>4. Pieces(unit, Append(acc.rest, u)) = [whole |-> << >>, rest |-> Append(acc.rest, u)]
      BY <2>5, <3>3 DEF AddUnit
    <3>5. Uncut(Pieces(unit, Append(t, u)).rest)
      BY <3>1, <3>4
    <3> QED BY <3>5
  <2> QED BY <2>4, <2>5
<1> HIDE DEF Good
<1>3. s \in Good
  BY <1>1, <1>2, RowInduction
<1> QED BY <1>3 DEF Good

(* Reading on from what is left over is reading everything at once.        *)
Joined(first, then) == [whole |-> first.whole \o then.whole, rest |-> then.rest]

LEMMA PiecesConcat ==
  ASSUME NEW unit, NEW S, NEW s \in Seq(S), NEW t \in Seq(S)
  PROVE  Pieces(unit, s \o t)
           = Joined(Pieces(unit, s), Pieces(unit, Pieces(unit, s).rest \o t))
<1> DEFINE first == Pieces(unit, s)
           Then(x) == Pieces(unit, first.rest \o x)
           EndingFits(x) == Pieces(unit, s \o x)
                           = [whole |-> first.whole \o Then(x).whole, rest |-> Then(x).rest]
           Good == {x \in Seq(S) : EndingFits(x)}
<1>0. first \in Pieced(S) /\ first.rest \in Seq(S) /\ first.whole \in Seq(Seq(S))
      /\ first = [whole |-> first.whole, rest |-> first.rest]
  BY PiecesTyped DEF Pieced
<1>1. << >> \in Good
  <2>1. s \o << >> = s /\ first.rest \o << >> = first.rest /\ first.whole \o << >> = first.whole
    BY <1>0, ConcatEmptySeq
  <2>2. Then(<< >>) = [whole |-> << >>, rest |-> first.rest]
    BY <2>1, RestUncut
  <2> HIDE DEF first
  <2> QED BY <1>0, <2>1, <2>2 DEF first
<1>2. ASSUME NEW x \in Seq(S), x \in Good, NEW u \in S
      PROVE  Append(x, u) \in Good
  <2> HIDE DEF first
  <2>1. /\ s \o Append(x, u) = Append(s \o x, u) /\ s \o x \in Seq(S)
        /\ first.rest \o Append(x, u) = Append(first.rest \o x, u) /\ first.rest \o x \in Seq(S)
        /\ Append(x, u) \in Seq(S)
    BY <1>0, AppendToConcat
  <2>2. PICK acc \in Pieced(S) : acc = Then(x)
    BY <2>1, PiecesTyped
  <2>3. Then(Append(x, u)) = AddUnit(unit, acc, u)
    <3>1. PICK y : y = first.rest \o x /\ y \in Seq(S)
      BY <2>1
    <3>2. Pieces(unit, Append(y, u)) = AddUnit(unit, Pieces(unit, y), u)
      BY <3>1, PiecesAppend
    <3> QED BY <2>1, <2>2, <3>1, <3>2
  <2>4. Pieces(unit, s \o x) = [whole |-> first.whole \o acc.whole, rest |-> acc.rest]
    BY <1>2, <2>2
  <2>5. Pieces(unit, s \o Append(x, u))
          = AddUnit(unit, [whole |-> first.whole \o acc.whole, rest |-> acc.rest], u)
    <3>1. PICK y : y = s \o x /\ y \in Seq(S)
      BY <2>1
    <3>2. Pieces(unit, Append(y, u)) = AddUnit(unit, Pieces(unit, y), u)
      BY <3>1, PiecesAppend
    <3> QED BY <2>1, <2>4, <3>1, <3>2
  <2>6. acc = [whole |-> acc.whole, rest |-> acc.rest] /\ acc.whole \in Seq(Seq(S)) /\ acc.rest \in Seq(S)
    BY DEF Pieced
  <2> HIDE DEF Then
  <2>7. CASE EndsPiece(unit, acc.rest, u)
    <3>1. Then(Append(x, u)) = [whole |-> Append(acc.whole, acc.rest), rest |-> << >>]
      BY <2>3, <2>7 DEF AddUnit
    <3>2. Pieces(unit, s \o Append(x, u))
            = [whole |-> Append(first.whole \o acc.whole, acc.rest), rest |-> << >>]
      BY <2>5, <2>7 DEF AddUnit
    <3>3. Append(first.whole \o acc.whole, acc.rest) = first.whole \o Append(acc.whole, acc.rest)
      <4>1. PICK Q : Q = Seq(S)
        OBVIOUS
      <4>2. first.whole \in Seq(Q) /\ acc.whole \in Seq(Q) /\ acc.rest \in Q
        BY <1>0, <2>6, <4>1
      <4>3. \A v, w \in Seq(Q), z \in Q : v \o Append(w, z) = Append(v \o w, z)
        BY AppendToConcat
      <4> QED BY <4>2, <4>3, Zenon
    <3>4. EndingFits(Append(x, u))
      BY <3>1, <3>2, <3>3
    <3> QED BY <2>1, <3>4
  <2>8. CASE ~EndsPiece(unit, acc.rest, u)
    <3>1. Then(Append(x, u)) = [whole |-> acc.whole, rest |-> Append(acc.rest, u)]
      BY <2>3, <2>6, <2>8 DEF AddUnit
    <3>2. Pieces(unit, s \o Append(x, u))
            = [whole |-> first.whole \o acc.whole, rest |-> Append(acc.rest, u)]
      BY <2>5, <2>8 DEF AddUnit
    <3>3. EndingFits(Append(x, u))
      BY <3>1, <3>2
    <3> QED BY <2>1, <3>3
  <2> QED BY <2>7, <2>8
<1> HIDE DEF Good
<1>3. t \in Good
  BY <1>1, <1>2, RowInduction
<1> QED BY <1>3 DEF Good, Joined

LEMMA FlattenConcat ==
  ASSUME NEW S, NEW a \in Seq(Seq(S)), NEW b \in Seq(Seq(S))
  PROVE  FlattenSeq(a \o b) = FlattenSeq(a) \o FlattenSeq(b)
<1> DEFINE Good == {x \in Seq(Seq(S)) : FlattenSeq(a \o x) = FlattenSeq(a) \o FlattenSeq(x)}
<1>1. << >> \in Good
  <2>1. a \o << >> = a /\ << >> \in Seq(Seq(S))
    BY ConcatEmptySeq
  <2>2. FlattenSeq(<< >>) = << >>
    BY EmptySeq DEF FlattenSeq
  <2>3. FlattenSeq(a) \o << >> = FlattenSeq(a)
    BY FlattenTyped, ConcatEmptySeq
  <2> QED BY <2>1, <2>2, <2>3
<1>2. ASSUME NEW x \in Seq(Seq(S)), x \in Good, NEW e \in Seq(S)
      PROVE  Append(x, e) \in Good
  <2>1. a \o Append(x, e) = Append(a \o x, e) /\ a \o x \in Seq(Seq(S)) /\ Append(x, e) \in Seq(Seq(S))
    <3>1. PICK Q : Q = Seq(S)
      OBVIOUS
    <3>2. a \in Seq(Q) /\ x \in Seq(Q) /\ e \in Q
      BY <3>1
    <3>3. a \o Append(x, e) = Append(a \o x, e) /\ a \o x \in Seq(Q) /\ Append(x, e) \in Seq(Q)
      BY <3>2, AppendToConcat
    <3> QED BY <3>1, <3>3
  <2>2. FlattenSeq(Append(a \o x, e)) = FlattenSeq(a \o x) \o e
    BY <2>1, FlattenAppend
  <2>3. FlattenSeq(Append(x, e)) = FlattenSeq(x) \o e
    BY FlattenAppend
  <2>4. (FlattenSeq(a) \o FlattenSeq(x)) \o e = FlattenSeq(a) \o (FlattenSeq(x) \o e)
    <3>1. FlattenSeq(a) \in Seq(S) /\ FlattenSeq(x) \in Seq(S)
      BY FlattenTyped
    <3> QED BY <3>1, ConcatAssociative
  <2> QED BY <1>2, <2>1, <2>2, <2>3, <2>4
<1> HIDE DEF Good
<1>3. b \in Good
  BY <1>1, <1>2, RowInduction
<1> QED BY <1>3 DEF Good

-----------------------------------------------------------------------------
(***************************************************************************)
(* What a row of units holds, decoded.                                     *)
(***************************************************************************)
Units(P) == [of: Seq(P), half: 0..3]
LeftOver(units) == ParseChunk(units).rest
Decoded(units) == FlattenSeq(ParseChunk(units).events)
Held(frames) == [i \in DOMAIN frames |-> PayloadsOf(Lines(frames[i]))]

LEMMA DataTyped ==
  ASSUME NEW P, NEW line \in Seq(Units(P))
  PROVE  DataOf(line) \in Seq(Seq(P))
<1>1. CASE line = << >>
  BY <1>1, EmptySeq DEF DataOf
<1>2. CASE line # << >>
  <2>1. line[1] \in Units(P)
    BY <1>2, EmptySeq
  <2>2. line[1].of \in Seq(P)
    BY <2>1 DEF Units
  <2>3. \A Q : \A q \in Q : <<q>> \in Seq(Q) /\ << >> \in Seq(Q)
    OBVIOUS
  <2>4. DataOf(line) \in {<<line[1].of>>, << >>}
    BY DEF DataOf
  <2> QED BY <2>2, <2>3, <2>4, Zenon
<1> QED BY <1>1, <1>2

LEMMA PayloadsTyped ==
  ASSUME NEW P, NEW lines \in Seq(Seq(Units(P)))
  PROVE  PayloadsOf(lines) \in Seq(Seq(P))
<1> DEFINE each == [i \in 1..Len(lines) |-> DataOf(lines[i])]
<1>1. \A i \in 1..Len(lines) : DataOf(lines[i]) \in Seq(Seq(P))
  <2>1. \A i \in 1..Len(lines) : lines[i] \in Seq(Units(P))
    BY ElementOfSeq
  <2> QED BY <2>1, DataTyped
<1>2. Len(lines) \in Nat /\ DOMAIN lines = 1..Len(lines)
  BY LenProperties
<1>3. each \in Seq(Seq(Seq(P)))
  BY <1>1, <1>2, IsASeq
<1>4. PayloadsOf(lines) = FlattenSeq(each)
  BY <1>2 DEF PayloadsOf
<1> HIDE DEF each
<1> QED BY <1>3, <1>4, FlattenTyped

LEMMA HeldTyped ==
  ASSUME NEW P, NEW frames \in Seq(Seq(Units(P)))
  PROVE  /\ Held(frames) \in Seq(Seq(Seq(P))) /\ Len(Held(frames)) = Len(frames)
         /\ \A i \in 1..Len(frames) : Held(frames)[i] = PayloadsOf(Lines(frames[i]))
<1>1. Len(frames) \in Nat /\ DOMAIN frames = 1..Len(frames)
  BY LenProperties
<1>2. \A i \in 1..Len(frames) : PayloadsOf(Lines(frames[i])) \in Seq(Seq(P))
  <2> SUFFICES ASSUME NEW i \in 1..Len(frames)
               PROVE  PayloadsOf(Lines(frames[i])) \in Seq(Seq(P))
    OBVIOUS
  <2>1. frames[i] \in Seq(Units(P))
    BY ElementOfSeq
  <2>2. Lines(frames[i]) \in Seq(Seq(Units(P)))
    BY <2>1, PiecesTyped DEF Lines, Pieced
  <2> QED BY <2>2, PayloadsTyped
<1>3. Held(frames) = [i \in 1..Len(frames) |-> PayloadsOf(Lines(frames[i]))]
  BY <1>1 DEF Held
<1>4. [i \in 1..Len(frames) |-> PayloadsOf(Lines(frames[i]))] \in Seq(Seq(Seq(P)))
  BY <1>1, <1>2, IsASeq
<1> QED BY <1>1, <1>3, <1>4

LEMMA HeldConcat ==
  ASSUME NEW P, NEW a \in Seq(Seq(Units(P))), NEW b \in Seq(Seq(Units(P)))
  PROVE  Held(a \o b) = Held(a) \o Held(b)
<1>0. PICK F, H : F = Seq(Units(P)) /\ H = Seq(Seq(P))
  OBVIOUS
<1>1. a \in Seq(F) /\ b \in Seq(F) /\ Len(a) \in Nat /\ Len(b) \in Nat
  BY <1>0
<1>2. a \o b \in Seq(F) /\ Len(a \o b) = Len(a) + Len(b)
  BY <1>1
<1>3. /\ Held(a) \in Seq(H) /\ Held(b) \in Seq(H) /\ Held(a \o b) \in Seq(H)
      /\ Len(Held(a)) = Len(a) /\ Len(Held(b)) = Len(b) /\ Len(Held(a \o b)) = Len(a) + Len(b)
      /\ \A i \in 1..Len(a) : Held(a)[i] = PayloadsOf(Lines(a[i]))
      /\ \A i \in 1..Len(b) : Held(b)[i] = PayloadsOf(Lines(b[i]))
      /\ \A i \in 1..(Len(a) + Len(b)) : Held(a \o b)[i] = PayloadsOf(Lines((a \o b)[i]))
  BY <1>0, <1>1, <1>2, HeldTyped
<1>4. /\ Held(a) \o Held(b) \in Seq(H) /\ Len(Held(a) \o Held(b)) = Len(a) + Len(b)
      /\ \A i \in 1..(Len(a) + Len(b)) :
           (Held(a) \o Held(b))[i] = IF i <= Len(a) THEN Held(a)[i] ELSE Held(b)[i - Len(a)]
  <2>1. \A x, y \in Seq(H) : /\ x \o y \in Seq(H) /\ Len(x \o y) = Len(x) + Len(y)
                            /\ \A i \in 1..(Len(x) + Len(y)) :
                                 (x \o y)[i] = IF i <= Len(x) THEN x[i] ELSE y[i - Len(x)]
    BY ConcatProperties
  <2>2. PICK x, y : x = Held(a) /\ y = Held(b)
    OBVIOUS
  <2>3. x \in Seq(H) /\ y \in Seq(H) /\ Len(x) = Len(a) /\ Len(y) = Len(b)
    BY <1>3, <2>2
  <2>4. /\ x \o y \in Seq(H) /\ Len(x \o y) = Len(x) + Len(y)
        /\ \A i \in 1..(Len(x) + Len(y)) : (x \o y)[i] = IF i <= Len(x) THEN x[i] ELSE y[i - Len(x)]
    BY <2>1, <2>3, Zenon
  <2> QED BY <2>2, <2>3, <2>4, Zenon
<1>5. \A i \in 1..(Len(a) + Len(b)) : Held(a \o b)[i] = (Held(a) \o Held(b))[i]
  <2> SUFFICES ASSUME NEW i \in 1..(Len(a) + Len(b)) PROVE Held(a \o b)[i] = (Held(a) \o Held(b))[i]
    OBVIOUS
  <2>1. (a \o b)[i] = IF i <= Len(a) THEN a[i] ELSE b[i - Len(a)]
    BY <1>1, ConcatProperties
  <2>2. (Held(a) \o Held(b))[i] = IF i <= Len(a) THEN Held(a)[i] ELSE Held(b)[i - Len(a)]
    BY <1>4
  <2>3. Held(a \o b)[i] = PayloadsOf(Lines((a \o b)[i]))
    BY <1>3
  <2>4. CASE i <= Len(a)
    <3>1. i \in 1..Len(a)
      BY <1>1, <2>4
    <3>2. Held(a)[i] = PayloadsOf(Lines(a[i]))
      BY <1>3, <3>1
    <3> QED BY <2>1, <2>2, <2>3, <2>4, <3>2, Zenon
  <2>5. CASE ~(i <= Len(a))
    <3>1. i - Len(a) \in 1..Len(b)
      BY <1>1, <2>5
    <3>2. Held(b)[i - Len(a)] = PayloadsOf(Lines(b[i - Len(a)]))
      BY <1>3, <3>1
    <3> QED BY <2>1, <2>2, <2>3, <2>5, <3>2, Zenon
  <2> QED BY <2>4, <2>5
<1> QED BY <1>1, <1>3, <1>4, <1>5, SeqEqual

LEMMA ChunkParsed ==
  ASSUME NEW P, NEW units \in Seq(Units(P))
  PROVE  LET cut_ == Pieces("frame", units)
         IN  /\ LeftOver(units) = cut_.rest /\ LeftOver(units) \in Seq(Units(P))
             /\ cut_.whole \in Seq(Seq(Units(P)))
             /\ Decoded(units) = FlattenSeq(FlattenSeq(Held(cut_.whole)))
             /\ Decoded(units) \in Seq(P)
<1>1. PICK c \in Pieced(Units(P)) : c = Pieces("frame", units)
  BY PiecesTyped
<1>2. c.whole \in Seq(Seq(Units(P))) /\ c.rest \in Seq(Units(P))
  BY DEF Pieced
<1>3. LeftOver(units) = c.rest
  BY <1>1 DEF LeftOver, ParseChunk
<1>4. Decoded(units) = FlattenSeq(FlattenSeq(Held(c.whole)))
  BY <1>1 DEF Decoded, Held, ParseChunk
<1>5. FlattenSeq(Held(c.whole)) \in Seq(Seq(P))
  BY <1>2, HeldTyped, FlattenTyped
<1>6. FlattenSeq(FlattenSeq(Held(c.whole))) \in Seq(P)
  BY <1>5, FlattenTyped
<1> QED BY <1>1, <1>2, <1>3, <1>4, <1>6

(* Decoding goes on where it stopped.                                      *)
LEMMA DecodedConcat ==
  ASSUME NEW P, NEW s \in Seq(Units(P)), NEW t \in Seq(Units(P))
  PROVE  /\ Decoded(s \o t) = Decoded(s) \o Decoded(LeftOver(s) \o t)
         /\ LeftOver(s \o t) = LeftOver(LeftOver(s) \o t)
<1> DEFINE c == Pieces("frame", s)
           d == Pieces("frame", c.rest \o t)
<1>1. Pieces("frame", s \o t) = Joined(c, d)
  BY PiecesConcat
<1>2. /\ LeftOver(s) = c.rest /\ c.rest \in Seq(Units(P)) /\ c.whole \in Seq(Seq(Units(P)))
      /\ Decoded(s) = FlattenSeq(FlattenSeq(Held(c.whole)))
  BY ChunkParsed
<1>3. d = Pieces("frame", c.rest \o t)
  OBVIOUS
<1> HIDE DEF c, d
<1>4. c.rest \o t \in Seq(Units(P)) /\ s \o t \in Seq(Units(P))
  BY <1>2, ConcatProperties
<1>5. /\ LeftOver(c.rest \o t) = d.rest /\ d.whole \in Seq(Seq(Units(P)))
      /\ Decoded(c.rest \o t) = FlattenSeq(FlattenSeq(Held(d.whole)))
  BY <1>3, <1>4, ChunkParsed
<1>6. /\ LeftOver(s \o t) = d.rest
      /\ Decoded(s \o t) = FlattenSeq(FlattenSeq(Held(c.whole \o d.whole)))
  <2>1. PICK y : y = s \o t /\ y \in Seq(Units(P))
    BY <1>4
  <2>2. LeftOver(y) = Pieces("frame", y).rest
        /\ Decoded(y) = FlattenSeq(FlattenSeq(Held(Pieces("frame", y).whole)))
    BY <2>1, ChunkParsed
  <2>3. Joined(c, d).whole = c.whole \o d.whole /\ Joined(c, d).rest = d.rest
    BY DEF Joined
  <2> QED BY <1>1, <2>1, <2>2, <2>3
<1>7. FlattenSeq(Held(c.whole \o d.whole)) = FlattenSeq(Held(c.whole)) \o FlattenSeq(Held(d.whole))
  <2>1. Held(c.whole) \in Seq(Seq(Seq(P))) /\ Held(d.whole) \in Seq(Seq(Seq(P)))
    BY <1>2, <1>5, HeldTyped
  <2>2. Held(c.whole \o d.whole) = Held(c.whole) \o Held(d.whole)
    <3>1. \A x, y \in Seq(Seq(Units(P))) : Held(x \o y) = Held(x) \o Held(y)
      BY HeldConcat
    <3> QED BY <1>2, <1>5, <3>1
  <2>3. \A H : \A x, y \in Seq(Seq(H)) : FlattenSeq(x \o y) = FlattenSeq(x) \o FlattenSeq(y)
    BY FlattenConcat
  <2> QED BY <2>1, <2>2, <2>3, Zenon
<1>8. FlattenSeq(Held(c.whole)) \in Seq(Seq(P)) /\ FlattenSeq(Held(d.whole)) \in Seq(Seq(P))
  BY <1>2, <1>5, HeldTyped, FlattenTyped
<1>9. Decoded(s \o t) = Decoded(s) \o Decoded(c.rest \o t)
  <2>1. \A x, y \in Seq(Seq(P)) : FlattenSeq(x \o y) = FlattenSeq(x) \o FlattenSeq(y)
    BY FlattenConcat
  <2> QED BY <1>2, <1>5, <1>6, <1>7, <1>8, <2>1
<1> QED BY <1>2, <1>5, <1>6, <1>9

LEMMA FlattenOne == ASSUME NEW S, NEW e \in Seq(S) PROVE FlattenSeq(<<e>>) = e
<1>1. << >> \in Seq(Seq(S)) /\ FlattenSeq(<< >>) = << >>
  BY EmptySeq DEF FlattenSeq
<1>2. Append(<< >>, e) = <<e>> /\ << >> \o e = e
  BY ConcatEmptySeq
<1> QED BY <1>1, <1>2, FlattenAppend

LEMMA HeldOne ==
  ASSUME NEW frame, NEW line, Lines(frame) = <<line>>
  PROVE  Held(<<frame>>) = <<FlattenSeq(<<DataOf(line)>>)>>
<1>1. PayloadsOf(<<line>>) = FlattenSeq(<<DataOf(line)>>)
  <2>1. [i \in DOMAIN <<line>> |-> DataOf(<<line>>[i])] = <<DataOf(line)>>
    OBVIOUS
  <2> QED BY <2>1 DEF PayloadsOf
<1> QED BY <1>1 DEF Held

LEMMA Appended ==
  ASSUME NEW S, NEW x \in S, NEW y \in S, NEW z \in S
  PROVE  /\ Append(<< >>, x) = <<x>> /\ Append(<<x>>, y) = <<x, y>> /\ Append(<<x, y>>, z) = <<x, y, z>>
<1>1. Append(<< >>, x) = <<x>>
  OBVIOUS
<1>2. Append(<<x>>, y) = <<x, y>>
  <2>1. /\ Append(<<x>>, y) \in Seq(S) /\ Len(Append(<<x>>, y)) = 2
        /\ Append(<<x>>, y)[1] = x /\ Append(<<x>>, y)[2] = y
    OBVIOUS
  <2>2. <<x, y>> \in Seq(S) /\ Len(<<x, y>>) = 2 /\ <<x, y>>[1] = x /\ <<x, y>>[2] = y
    OBVIOUS
  <2>3. \A i \in 1..2 : Append(<<x>>, y)[i] = <<x, y>>[i]
    BY <2>1, <2>2
  <2> QED BY <2>1, <2>2, <2>3, SeqEqual
<1>3. Append(<<x, y>>, z) = <<x, y, z>>
  <2>1. /\ Append(<<x, y>>, z) \in Seq(S) /\ Len(Append(<<x, y>>, z)) = 3
        /\ Append(<<x, y>>, z)[1] = x /\ Append(<<x, y>>, z)[2] = y /\ Append(<<x, y>>, z)[3] = z
    OBVIOUS
  <2>2. /\ <<x, y, z>> \in Seq(S) /\ Len(<<x, y, z>>) = 3
        /\ <<x, y, z>>[1] = x /\ <<x, y, z>>[2] = y /\ <<x, y, z>>[3] = z
    OBVIOUS
  <2>3. \A i \in 1..3 : Append(<<x, y>>, z)[i] = <<x, y, z>>[i]
    BY <2>1, <2>2
  <2> QED BY <2>1, <2>2, <2>3, SeqEqual
<1> QED BY <1>1, <1>2, <1>3

LEMMA UnitTyped ==
  ASSUME NEW P, NEW o \in Seq(P), NEW h \in 0..3
  PROVE  [of |-> o, half |-> h] \in Units(P)
<1>1. \A A : \A x \in A : [of |-> x, half |-> h] \in [of: A, half: 0..3]
  OBVIOUS
<1> QED BY <1>1, Zenon DEF Units

Uncut(unit, units) == Pieces(unit, units) = [whole |-> << >>, rest |-> units]

LEMMA UncutGrows ==
  ASSUME NEW unit, NEW S, NEW s \in Seq(S), NEW u \in S, Uncut(unit, s)
  PROVE  /\ ~EndsPiece(unit, s, u) => Uncut(unit, Append(s, u))
         /\ EndsPiece(unit, s, u) =>
              Pieces(unit, Append(s, u)) = [whole |-> <<s>>, rest |-> << >>]
<1>1. Pieces(unit, Append(s, u)) = AddUnit(unit, [whole |-> << >>, rest |-> s], u)
  BY PiecesAppend DEF Uncut
<1>2. Append(<< >>, s) = <<s>>
  OBVIOUS
<1> QED BY <1>1, <1>2 DEF Uncut, AddUnit

LEMMA UncutEmpty == ASSUME NEW unit PROVE Uncut(unit, << >>)
BY PiecesEmpty DEF Uncut, NoPieces

(* A line of one or two units, and the blank line behind it.               *)
Framed(line) == Append(line, Newline)
IsLine(line) == /\ Uncut("frame", line) /\ Uncut("line", line)
                /\ line # << >> /\ Last(line) # Newline

LEMMA FrameOfLine ==
  ASSUME NEW U, NEW line \in Seq(U), Newline \in U, IsLine(line)
  PROVE  /\ Framed(Framed(line)) \in Seq(U)
         /\ Pieces("frame", Framed(Framed(line))) = [whole |-> <<Framed(line)>>, rest |-> << >>]
         /\ Lines(Framed(line)) = <<line>>
<1> DEFINE n == Newline
<1> USE DEF IsLine
<1>0. PICK frame, units : frame = Append(line, n) /\ units = Append(frame, n)
  OBVIOUS
<1>1. frame \in Seq(U) /\ frame # << >> /\ Last(frame) = n /\ units \in Seq(U)
  <2>1. /\ frame \in Seq(U) /\ frame # << >> /\ Len(frame) = Len(line) + 1 /\ frame[Len(line) + 1] = n
    BY <1>0, AppendProperties
  <2> QED BY <1>0, <2>1, AppendProperties DEF Last
<1>2. Uncut("frame", frame)
  <2>1. ~EndsPiece("frame", line, n)
    BY DEF EndsPiece, EndsFrame
  <2> QED BY <1>0, <2>1, UncutGrows
<1>3. Pieces("frame", units) = [whole |-> <<frame>>, rest |-> << >>]
  <2>1. EndsPiece("frame", frame, n)
    BY <1>1 DEF EndsPiece, EndsFrame
  <2> QED BY <1>0, <1>1, <1>2, <2>1, UncutGrows
<1>4. Lines(frame) = <<line>>
  <2>1. EndsPiece("line", line, n)
    BY DEF EndsPiece, EndsLine
  <2>2. Pieces("line", frame) = [whole |-> <<line>>, rest |-> << >>]
    BY <1>0, <2>1, UncutGrows
  <2> QED BY <2>2 DEF Lines
<1> QED BY <1>0, <1>1, <1>3, <1>4 DEF Framed

LEMMA OneFrame ==
  ASSUME NEW P, NEW units \in Seq(Units(P)), NEW frame,
         Pieces("frame", units) = [whole |-> <<frame>>, rest |-> << >>]
  PROVE  LeftOver(units) = << >> /\ Decoded(units) = FlattenSeq(FlattenSeq(Held(<<frame>>)))
<1>1. PICK c : c = Pieces("frame", units)
  OBVIOUS
<1>2. LeftOver(units) = c.rest /\ Decoded(units) = FlattenSeq(FlattenSeq(Held(c.whole)))
  BY <1>1, ChunkParsed
<1>3. c.rest = << >> /\ c.whole = <<frame>>
  BY <1>1
<1> QED BY <1>2, <1>3

(* An event is framed so that it is decoded again, and leaves nothing.     *)
LEMMA EventDecoded ==
  ASSUME NEW P, NEW e \in P
  PROVE  /\ EncodeEvent(<<e>>) \in Seq(Units(P))
         /\ Decoded(EncodeEvent(<<e>>)) = <<e>>
         /\ LeftOver(EncodeEvent(<<e>>)) = << >>
<1>1. PICK a, b, n : /\ a = [of |-> <<e>>, half |-> 1] /\ b = [of |-> <<e>>, half |-> 2]
                     /\ n = [of |-> << >>, half |-> 0]
  OBVIOUS
<1>2. /\ a # n /\ b # n /\ a.of = <<e>> /\ n = Newline
      /\ DataLine(<<e>>) = <<a, b>>
  BY <1>1 DEF Newline, DataLine
<1>3. PICK U : U = Units(P) /\ a \in U /\ b \in U /\ n \in U
  <2>1. <<e>> \in Seq(P) /\ << >> \in Seq(P)
    OBVIOUS
  <2>2. a \in Units(P) /\ b \in Units(P) /\ n \in Units(P)
    <3>1. \A o \in Seq(P) : \A h \in {0, 1, 2, 3} : [of |-> o, half |-> h] \in Units(P)
      <4>1. {0, 1, 2, 3} \subseteq 0..3
        OBVIOUS
      <4> QED BY <4>1, UnitTyped, Zenon
    <3> QED BY <1>1, <2>1, <3>1, Zenon
  <2> QED BY <2>2
<1>4. PICK line, frame, units : /\ line = Append(Append(<< >>, a), b)
                                /\ frame = Framed(line) /\ units = Framed(frame)
  OBVIOUS
<1>5. line = <<a, b>> /\ EncodeEvent(<<e>>) = units
  <2>1. line = <<a, b>> /\ units = Append(Append(line, n), n)
    <3>1. Append(Append(<< >>, a), b) = <<a, b>>
      BY <1>3, Appended
    <3> QED BY <1>2, <1>4, <3>1, Zenon DEF Framed
  <2>2. \A x, y, z : Append(Append(<<x, y>>, z), z) = <<x, y>> \o <<z, z>>
    OBVIOUS
  <2>3. EncodeEvent(<<e>>) = <<a, b>> \o <<n, n>>
    BY <1>2, Zenon DEF EncodeEvent
  <2> QED BY <2>1, <2>2, <2>3, Zenon
<1>6. << >> \in Seq(U) /\ Append(<< >>, a) \in Seq(U) /\ line \in Seq(U) /\ line # << >> /\ Last(line) = b
  BY <1>3, <1>4 DEF Last
<1>7. ASSUME NEW unit \in {"frame", "line"} PROVE Uncut(unit, line)
  <2>1. \A x : ~EndsPiece(unit, x, a) /\ ~EndsPiece(unit, x, b)
    BY <1>2 DEF EndsPiece, EndsFrame, EndsLine
  <2>2. Uncut(unit, << >>)
    BY UncutEmpty
  <2>3. \A s \in Seq(U) : \A u \in {a, b} : Uncut(unit, s) => Uncut(unit, Append(s, u))
    BY <1>3, <2>1, UncutGrows
  <2> QED BY <1>4, <1>6, <2>2, <2>3
<1>8. /\ units \in Seq(U)
      /\ Pieces("frame", units) = [whole |-> <<frame>>, rest |-> << >>]
      /\ Lines(frame) = <<line>>
  <2>1. IsLine(line)
    BY <1>2, <1>6, <1>7 DEF IsLine
  <2> QED BY <1>2, <1>3, <1>4, <1>6, <2>1, FrameOfLine
<1>9. DataOf(line) = << <<e>> >>
  BY <1>2, <1>5 DEF DataOf
<1>10. PICK Q : Q = Seq(P)
  OBVIOUS
<1>11. <<e>> \in Q /\ <<e>> \in Seq(P) /\ << <<e>> >> \in Seq(Q)
  BY <1>10
<1>12. FlattenSeq(<< << <<e>> >> >>) = << <<e>> >> /\ FlattenSeq(<< <<e>> >>) = <<e>>
  BY <1>11, FlattenOne
<1>13. Held(<<frame>>) = << << <<e>> >> >>
  BY <1>8, <1>9, <1>12, HeldOne
<1>14. LeftOver(units) = << >> /\ Decoded(units) = FlattenSeq(FlattenSeq(Held(<<frame>>)))
  BY <1>3, <1>8, OneFrame
<1> QED BY <1>3, <1>5, <1>8, <1>12, <1>13, <1>14

LEMMA CommentDecoded ==
  ASSUME NEW P
  PROVE  /\ EncodeComment \in Seq(Units(P))
         /\ Decoded(EncodeComment) = << >>
         /\ LeftOver(EncodeComment) = << >>
<1>1. PICK c, n : c = [of |-> << >>, half |-> 3] /\ n = [of |-> << >>, half |-> 0]
  OBVIOUS
<1>2. c # n /\ n = Newline /\ c = Comment
  BY <1>1 DEF Newline, Comment
<1>3. PICK U : U = Units(P) /\ c \in U /\ n \in U
  <2>1. << >> \in Seq(P)
    OBVIOUS
  <2>2. c \in Units(P) /\ n \in Units(P)
    <3>1. \A o \in Seq(P) : \A h \in {0, 1, 2, 3} : [of |-> o, half |-> h] \in Units(P)
      <4>1. {0, 1, 2, 3} \subseteq 0..3
        OBVIOUS
      <4> QED BY <4>1, UnitTyped, Zenon
    <3> QED BY <1>1, <2>1, <3>1, Zenon
  <2> QED BY <2>2
<1>4. PICK line, frame, units : /\ line = Append(<< >>, c)
                                /\ frame = Framed(line) /\ units = Framed(frame)
  OBVIOUS
<1>5. line = <<c>> /\ EncodeComment = units
  <2>1. line = <<c>> /\ units = Append(Append(line, n), n)
    BY <1>2, <1>4 DEF Framed
  <2>2. Append(Append(<<c>>, n), n) = <<c, n, n>>
    <3>1. Append(<<c>>, n) = <<c, n>> /\ Append(<<c, n>>, n) = <<c, n, n>>
      BY <1>3, Appended
    <3> QED BY <3>1, Zenon
  <2> QED BY <1>2, <2>1, <2>2, Zenon DEF EncodeComment
<1>6. << >> \in Seq(U) /\ line \in Seq(U) /\ line # << >> /\ Last(line) = c
  BY <1>3, <1>4 DEF Last
<1>7. ASSUME NEW unit \in {"frame", "line"} PROVE Uncut(unit, line)
  <2>1. ~EndsPiece(unit, << >>, c)
    BY <1>2 DEF EndsPiece, EndsFrame, EndsLine
  <2> QED BY <1>3, <1>4, <1>6, <2>1, UncutEmpty, UncutGrows
<1>8. /\ units \in Seq(U)
      /\ Pieces("frame", units) = [whole |-> <<frame>>, rest |-> << >>]
      /\ Lines(frame) = <<line>>
  <2>1. IsLine(line)
    BY <1>2, <1>6, <1>7 DEF IsLine
  <2> QED BY <1>2, <1>3, <1>4, <1>6, <2>1, FrameOfLine
<1>9. DataOf(line) = << >>
  BY <1>5 DEF DataOf, DataLine
<1>10. << >> \in Seq({}) /\ FlattenSeq(<< >>) = << >>
  BY EmptySeq DEF FlattenSeq
<1>11. FlattenSeq(<< << >> >>) = << >>
  BY <1>10, FlattenOne
<1>12. Held(<<frame>>) = << << >> >>
  BY <1>8, <1>9, <1>11, HeldOne
<1>13. LeftOver(units) = << >> /\ Decoded(units) = FlattenSeq(FlattenSeq(Held(<<frame>>)))
  BY <1>3, <1>8, OneFrame
<1> QED BY <1>3, <1>5, <1>8, <1>10, <1>11, <1>12, <1>13

LEMMA CutAt ==
  ASSUME NEW S, NEW s \in Seq(S), NEW k \in 0..Len(s), NEW n \in k..Len(s)
  PROVE  /\ SubSeq(s, 1, k) \in Seq(S) /\ SubSeq(s, k + 1, n) \in Seq(S)
         /\ SubSeq(s, 1, k) \o SubSeq(s, k + 1, n) = SubSeq(s, 1, n)
<1>1. PICK l \in Nat : l = Len(s)
  BY LenProperties
<1>2. k \in 0..l /\ n \in k..l
  BY <1>1
<1>3. /\ 1 \in Int /\ k \in Int /\ k + 1 \in Int /\ n \in Int
      /\ 1 \in 1..(l + 1) /\ k \in (1 - 1)..l
      /\ (\A i \in 1..k : i \in 1..l) /\ \A i \in (k + 1)..n : i \in 1..l
  BY <1>2
<1>4. (\A i \in 1..k : s[i] \in S) /\ \A i \in (k + 1)..n : s[i] \in S
  BY <1>1, <1>3, ElementOfSeq
<1>5. SubSeq(s, 1, k) \in Seq(S) /\ SubSeq(s, k + 1, n) \in Seq(S)
  BY <1>3, <1>4, SubSeqProperties
<1>6. 1 \in 1..(Len(s) + 1) /\ k \in (1 - 1)..Len(s)
  BY <1>1, <1>3
<1> QED BY <1>5, <1>6, ConcatAdjacentSubSeq

-----------------------------------------------------------------------------
(***************************************************************************)
(* The client: what it has read is decoded, what is left over is the rest  *)
(* of it, and all that was sent decodes to what was shown.                 *)
(***************************************************************************)
ReadSoFar == SubSeq(out, 1, got)
Typed(P) == out \in Seq(Units(P)) /\ shown \in Seq(P) /\ got \in 0..Len(out)
ReadIsDecoded == rest = LeftOver(ReadSoFar) /\ seen = Decoded(ReadSoFar)
SentIsShown ==
  /\ LeftOver(out) = << >>
  /\ \E n \in 0..Len(shown) : Decoded(out) = SubSeq(shown, 1, n)
  /\ clientOpen => Decoded(out) = shown
SeenInv == (\E P : Typed(P)) /\ ReadIsDecoded /\ SentIsShown

LEMMA UnitsGrow ==
  ASSUME NEW P, NEW Q, P \subseteq Q, NEW units \in Seq(Units(P))
  PROVE  units \in Seq(Units(Q))
<1>1. \A s \in Seq(P) : s \in Seq(Q)
  BY SeqMonotonic
<1>2. \A A, B : (\A x \in A : x \in B) => [of: A, half: 0..3] \subseteq [of: B, half: 0..3]
  OBVIOUS
<1>3. Units(P) \subseteq Units(Q)
  BY <1>1, <1>2, Zenon DEF Units
<1> QED BY <1>3, SeqMonotonic

(* The route sends more, and what was read of it stays what it was.        *)
LEMMA MoreSent ==
  ASSUME NEW P, Typed(P), ReadIsDecoded, SentIsShown,
         NEW more \in Seq(Units(P)), LeftOver(more) = << >>,
         out' = out \o more, UNCHANGED <<got, rest, seen>>
  PROVE  /\ out' \in Seq(Units(P)) /\ got' \in 0..Len(out') /\ ReadIsDecoded'
         /\ LeftOver(out') = << >> /\ Decoded(out') = Decoded(out) \o Decoded(more)
<1>1. PICK U : U = Units(P)
  OBVIOUS
<1>2. out \in Seq(U) /\ more \in Seq(U) /\ got \in 0..Len(out)
  BY <1>1 DEF Typed
<1>3. out' \in Seq(U) /\ Len(out') = Len(out) + Len(more) /\ Len(out) \in Nat /\ Len(more) \in Nat
  BY <1>2, ConcatProperties
<1>4. got \in 0..Len(out')
  BY <1>2, <1>3
<1>5. SubSeq(out', 1, got) = SubSeq(out, 1, got)
  <2>1. CASE got = 0
    BY <2>1, SubSeqEmpty
  <2>2. CASE got # 0
    <3>1. 1 \in 1..Len(out) /\ got \in 1..Len(out)
      BY <1>2, <1>3, <2>2
    <3> QED BY <1>2, <3>1, SubSeqOfConcat1
  <2> QED BY <2>1, <2>2
<1>6. ReadIsDecoded'
  BY <1>5 DEF ReadIsDecoded, ReadSoFar, LeftOver, Decoded
<1>7. << >> \o more = more
  BY <1>2, ConcatEmptySeq
<1>8. /\ Decoded(out \o more) = Decoded(out) \o Decoded(LeftOver(out) \o more)
      /\ LeftOver(out \o more) = LeftOver(LeftOver(out) \o more)
  <2>1. out \in Seq(Units(P))
    BY DEF Typed
  <2> QED BY <2>1, DecodedConcat
<1>9. LeftOver(out) \o more = more
  <2>1. LeftOver(out) = << >>
    BY DEF SentIsShown
  <2> QED BY <1>7, <2>1
<1>10. Decoded(out \o more) = Decoded(out) \o Decoded(more) /\ LeftOver(out \o more) = << >>
  BY <1>8, <1>9, Zenon
<1>11. out' = out \o more
  OBVIOUS
<1>12. LeftOver(out') = << >> /\ Decoded(out') = Decoded(out) \o Decoded(more)
  BY <1>10, <1>11
<1> QED BY <1>1, <1>3, <1>4, <1>6, <1>12

LEMMA SeenSent ==
  ASSUME SeenInv, NEW e, SendEvent(e), UNCHANGED <<clientOpen, got, rest, seen>>
  PROVE  SeenInv'
<1>1. PICK P0 : Typed(P0)
  BY DEF SeenInv
<1>2. PICK P : P = P0 \cup {e}
  OBVIOUS
<1>3. e \in P /\ Typed(P)
  <2>1. e \in P /\ P0 \subseteq P
    BY <1>2
  <2>2. out \in Seq(Units(P))
    BY <1>1, <2>1, UnitsGrow DEF Typed
  <2>3. shown \in Seq(P)
    BY <1>1, <2>1, SeqMonotonic DEF Typed
  <2> QED BY <1>1, <2>1, <2>2, <2>3 DEF Typed
<1>4. /\ shown' = Append(shown, e) /\ shown' \in Seq(P) /\ Len(shown') = Len(shown) + 1
      /\ Len(shown) \in Nat /\ shown \in Seq(P)
  BY <1>3 DEF Typed, SendEvent
<1>5. ReadIsDecoded /\ SentIsShown
  BY DEF SeenInv
<1>6. PICK n \in 0..Len(shown) : Decoded(out) = SubSeq(shown, 1, n)
  BY <1>5 DEF SentIsShown
<1>7. SubSeq(shown', 1, n) = SubSeq(shown, 1, n)
  <2>1. CASE n = 0
    BY <2>1, SubSeqEmpty
  <2>2. CASE n # 0
    BY <1>4, <2>2
  <2> QED BY <2>1, <2>2
<1>8. CASE clientOpen
  <2>1. PICK more : more = EncodeEvent(<<e>>)
    OBVIOUS
  <2>2. more \in Seq(Units(P)) /\ Decoded(more) = <<e>> /\ LeftOver(more) = << >>
    BY <1>3, <2>1, EventDecoded
  <2>3. out' = out \o more
    BY <1>8, <2>1 DEF SendEvent
  <2>4. /\ out' \in Seq(Units(P)) /\ got' \in 0..Len(out') /\ ReadIsDecoded'
        /\ LeftOver(out') = << >> /\ Decoded(out') = Decoded(out) \o Decoded(more)
    BY <1>3, <1>5, <2>2, <2>3, MoreSent
  <2>5. Decoded(out') = shown'
    <3>1. Decoded(out) = shown
      BY <1>5, <1>8 DEF SentIsShown
    <3>2. shown \o <<e>> = Append(shown, e)
      BY <1>3, <1>4, AppendIsConcat
    <3> QED BY <1>4, <2>2, <2>4, <3>1, <3>2
  <2>6. shown' = SubSeq(shown', 1, Len(shown')) /\ Len(shown') \in 0..Len(shown')
    BY <1>4, SubSeqFull
  <2>7. SentIsShown'
    <3>1. \E m \in 0..Len(shown') : Decoded(out') = SubSeq(shown', 1, m)
      <4>1. PICK d, m : d = Decoded(out') /\ m = Len(shown')
        OBVIOUS
      <4>2. m \in 0..Len(shown') /\ d = SubSeq(shown', 1, m)
        BY <2>5, <2>6, <4>1, Zenon
      <4> QED BY <4>1, <4>2, Zenon
    <3> QED BY <2>4, <2>5, <3>1, Zenon DEF SentIsShown
  <2>8. Typed(P)'
    BY <1>4, <2>4 DEF Typed
  <2> QED BY <2>4, <2>7, <2>8 DEF SeenInv
<1>9. CASE ~clientOpen
  <2>1. out' = out
    BY <1>9 DEF SendEvent
  <2>2. ReadIsDecoded'
    BY <1>5, <2>1 DEF ReadIsDecoded, ReadSoFar, LeftOver, Decoded
  <2>3. n \in 0..Len(shown')
    BY <1>4
  <2>4. SentIsShown'
    BY <1>5, <1>6, <1>7, <1>9, <2>1, <2>3 DEF SentIsShown, LeftOver, Decoded
  <2>5. Typed(P)'
    BY <1>3, <1>4, <2>1 DEF Typed
  <2> QED BY <2>2, <2>4, <2>5 DEF SeenInv
<1> QED BY <1>8, <1>9

LEMMA SeenUntouched ==
  ASSUME SeenInv, UNCHANGED <<shown, out, got, rest, seen>>, clientOpen' => clientOpen
  PROVE  SeenInv'
<1>1. PICK P : Typed(P)
  BY DEF SeenInv
<1>2. Typed(P)'
  BY <1>1 DEF Typed
<1>3. ReadIsDecoded' /\ SentIsShown'
  BY DEF SeenInv, ReadIsDecoded, SentIsShown, ReadSoFar, LeftOver, Decoded
<1> QED BY <1>2, <1>3 DEF SeenInv

LEMMA SeenPinged ==
  ASSUME SeenInv, Ping
  PROVE  SeenInv'
<1>1. PICK P : Typed(P)
  BY DEF SeenInv
<1>2. PICK more : more = EncodeComment
  OBVIOUS
<1>3. /\ out' = out \o more /\ UNCHANGED <<got, rest, seen, shown, clientOpen>>
  BY <1>2 DEF Ping, decoderVars
<1>4. more \in Seq(Units(P)) /\ Decoded(more) = << >> /\ LeftOver(more) = << >>
  BY <1>2, CommentDecoded
<1>5. /\ out' \in Seq(Units(P)) /\ got' \in 0..Len(out') /\ ReadIsDecoded'
      /\ LeftOver(out') = << >> /\ Decoded(out') = Decoded(out) \o Decoded(more)
  BY <1>1, <1>3, <1>4, MoreSent DEF SeenInv
<1>6. Decoded(out') = Decoded(out)
  <2>1. Decoded(out) \in Seq(P)
    BY <1>1, ChunkParsed DEF Typed
  <2> QED BY <1>4, <1>5, <2>1, ConcatEmptySeq
<1>7. SentIsShown'
  BY <1>3, <1>5, <1>6 DEF SeenInv, SentIsShown, LeftOver, Decoded
<1>8. Typed(P)'
  BY <1>1, <1>3, <1>5 DEF Typed
<1> QED BY <1>5, <1>7, <1>8 DEF SeenInv

LEMMA SeenRead ==
  ASSUME SeenInv, ClientReads
  PROVE  SeenInv'
<1>1. PICK P : Typed(P)
  BY DEF SeenInv
<1>2. PICK U : U = Units(P)
  OBVIOUS
<1>3. PICK n \in 1..MaxChunk : /\ got + n <= Len(out) /\ got' = got + n
                              /\ Push(SubSeq(out, got + 1, got + n))
                              /\ UNCHANGED <<shown, out, clientOpen>>
  BY DEF ClientReads, routeVars
<1>4. out \in Seq(U) /\ got \in 0..Len(out) /\ Len(out) \in Nat /\ got \in Nat /\ n \in Nat /\ n # 0
      /\ got' \in 0..Len(out)
  BY <1>1, <1>2, <1>3, StreamingAssumption DEF Typed
<1>5. PICK chunk, before : chunk = SubSeq(out, got + 1, got + n) /\ before = SubSeq(out, 1, got)
  OBVIOUS
<1>6. chunk \in Seq(U) /\ before \in Seq(U) /\ before \o chunk = SubSeq(out, 1, got + n)
  <2>1. got + n \in got..Len(out)
    BY <1>3, <1>4
  <2> QED BY <1>4, <1>5, <2>1, CutAt
<1>7. SubSeq(out, 1, got + n) = before \o chunk
  BY <1>6
<1>8. rest = LeftOver(before) /\ seen = Decoded(before)
  BY <1>5 DEF SeenInv, ReadIsDecoded, ReadSoFar
<1>9. rest' = LeftOver(rest \o chunk) /\ seen' = seen \o Decoded(rest \o chunk)
  BY <1>3, <1>5 DEF Push, LeftOver, Decoded
<1>10. /\ Decoded(before \o chunk) = Decoded(before) \o Decoded(LeftOver(before) \o chunk)
       /\ LeftOver(before \o chunk) = LeftOver(LeftOver(before) \o chunk)
  BY <1>2, <1>6, DecodedConcat
<1>11. ReadIsDecoded'
  BY <1>3, <1>7, <1>8, <1>9, <1>10 DEF ReadIsDecoded, ReadSoFar, LeftOver, Decoded
<1>12. SentIsShown'
  BY <1>3 DEF SeenInv, SentIsShown, LeftOver, Decoded
<1>13. Typed(P)'
  BY <1>1, <1>3, <1>4 DEF Typed
<1> QED BY <1>11, <1>12, <1>13 DEF SeenInv

LEMMA SeenKept == SeenInv /\ [StreamNext]_streamVars => SeenInv'
<1> SUFFICES ASSUME SeenInv, [StreamNext]_streamVars PROVE SeenInv'
  OBVIOUS
<1> USE DEF parserVars, turnVars, routeVars, decoderVars
<1>1. CASE Respond \/ NetworkFails \/ CutOff \/ Read \/ StreamCloses
  BY <1>1, SeenUntouched DEF Respond, NetworkFails, CutOff, Read, StreamCloses
<1>2. CASE Handle
  <2>1. UNCHANGED <<clientOpen, got, rest, seen>>
    BY <1>2 DEF Handle
  <2>2. CASE UNCHANGED <<shown, out>>
    BY <2>1, <2>2, SeenUntouched
  <2>3. CASE SendEvent(Head(pending))
    BY <2>1, <2>3, SeenSent
  <2>4. (UNCHANGED <<shown, out>>) \/ SendEvent(Head(pending))
    BY <1>2 DEF Handle, StopAtEvent, TakeText, TakeThought, TakeUsage,
                TakeCall, TakeMessage
  <2> QED BY <2>2, <2>3, <2>4
<1>3. CASE StopTurn \/ Timeout \/ Disconnect
  BY <1>3, SeenUntouched DEF StopTurn, Timeout, Disconnect
<1>4. CASE Finish
  BY <1>4, SeenSent DEF Finish
<1>5. CASE Ping
  BY <1>5, SeenPinged
<1>6. CASE ClientReads
  BY <1>6, SeenRead
<1>7. CASE UNCHANGED streamVars
  BY <1>7, SeenUntouched DEF streamVars
<1> QED BY <1>1, <1>2, <1>3, <1>4, <1>5, <1>6, <1>7 DEF StreamNext

LEMMA SeenInit == StreamInit => SeenInv
<1> SUFFICES ASSUME StreamInit PROVE SeenInv
  OBVIOUS
<1>1. shown = << >> /\ out = << >> /\ got = 0 /\ rest = << >> /\ seen = << >>
  BY DEF StreamInit
<1>2. << >> \in Seq(Units({})) /\ << >> \in Seq({}) /\ Len(<< >>) = 0
  BY EmptySeq
<1>3. LeftOver(<< >>) = << >> /\ Decoded(<< >>) = << >>
  <2>1. PICK U : U = Units({}) /\ << >> \in Seq(U)
    BY <1>2
  <2>2. Pieces("frame", << >>) = [whole |-> << >>, rest |-> << >>]
    BY PiecesEmpty DEF NoPieces
  <2>3. Held(<< >>) = << >>
    BY DEF Held
  <2>4. FlattenSeq(<< >>) = << >>
    BY EmptySeq DEF FlattenSeq
  <2>5. PICK c : c = Pieces("frame", << >>)
    OBVIOUS
  <2>6. LeftOver(<< >>) = c.rest /\ Decoded(<< >>) = FlattenSeq(FlattenSeq(Held(c.whole)))
    BY <1>2, <2>5, ChunkParsed
  <2> QED BY <2>2, <2>3, <2>4, <2>5, <2>6
<1>4. SubSeq(<< >>, 1, 0) = << >>
  BY SubSeqEmpty
<1>5. Typed({})
  BY <1>1, <1>2 DEF Typed
<1>6. ReadIsDecoded
  BY <1>1, <1>3, <1>4 DEF ReadIsDecoded, ReadSoFar
<1>7. SentIsShown
  <2>1. LeftOver(out) = << >> /\ Decoded(out) = shown
    BY <1>1, <1>3
  <2>2. Len(shown) = 0 /\ SubSeq(shown, 1, 0) = shown
    BY <1>1, <1>2, <1>4, Zenon
  <2>3. 0 \in 0..Len(shown) /\ Decoded(out) = SubSeq(shown, 1, 0)
    BY <2>1, <2>2
  <2> QED BY <2>1, <2>3 DEF SentIsShown
<1> QED BY <1>5, <1>6, <1>7 DEF SeenInv

LEMMA SeenSuffices == SeenInv => SeenIsShown
<1> SUFFICES ASSUME SeenInv PROVE SeenIsShown
  OBVIOUS
<1>1. PICK P : Typed(P)
  BY DEF SeenInv
<1>2. PICK U : U = Units(P)
  OBVIOUS
<1>3. out \in Seq(U) /\ got \in 0..Len(out) /\ Len(out) \in Nat /\ shown \in Seq(P) /\ Len(shown) \in Nat
  BY <1>1, <1>2 DEF Typed
<1>4. PICK before, after : before = SubSeq(out, 1, got) /\ after = SubSeq(out, got + 1, Len(out))
  OBVIOUS
<1>5. Len(out) \in got..Len(out) /\ SubSeq(out, 1, Len(out)) = out
  BY <1>3, SubSeqFull
<1>6. before \in Seq(U) /\ after \in Seq(U) /\ out = before \o after
  <2>1. /\ SubSeq(out, 1, got) \in Seq(U) /\ SubSeq(out, got + 1, Len(out)) \in Seq(U)
        /\ SubSeq(out, 1, got) \o SubSeq(out, got + 1, Len(out)) = SubSeq(out, 1, Len(out))
    BY <1>3, <1>5, CutAt, Zenon
  <2> QED BY <1>4, <1>5, <2>1, Zenon
<1>7. seen = Decoded(before)
  BY <1>4 DEF SeenInv, ReadIsDecoded, ReadSoFar
<1>8. PICK later \in Seq(P) : Decoded(out) = seen \o later /\ seen \in Seq(P)
  <2>1. LeftOver(before) \in Seq(U) /\ Decoded(before) \in Seq(P)
    BY <1>2, <1>6, ChunkParsed
  <2>2. LeftOver(before) \o after \in Seq(U)
    BY <1>6, <2>1, ConcatProperties
  <2>3. Decoded(LeftOver(before) \o after) \in Seq(P)
    BY <1>2, <2>2, ChunkParsed
  <2>4. Decoded(before \o after) = Decoded(before) \o Decoded(LeftOver(before) \o after)
    BY <1>2, <1>6, DecodedConcat
  <2> QED BY <1>6, <1>7, <2>1, <2>3, <2>4
<1>9. PICK n \in 0..Len(shown) : Decoded(out) = SubSeq(shown, 1, n)
  BY DEF SeenInv, SentIsShown
<1>10. IsPrefix(seen, shown)
  <2>1. /\ Len(seen) \in Nat /\ Len(later) \in Nat
        /\ Len(seen \o later) = Len(seen) + Len(later)
        /\ \A i \in 1..Len(seen) : (seen \o later)[i] = seen[i]
    BY <1>8
  <2>2. /\ Len(SubSeq(shown, 1, n)) = n
        /\ \A i \in 1..n : SubSeq(shown, 1, n)[i] = shown[i]
    BY <1>3
  <2>3. Len(seen) <= n
    BY <1>8, <1>9, <2>1, <2>2
  <2>4. \A i \in 1..Len(seen) : seen[i] = shown[i]
    BY <1>8, <1>9, <2>1, <2>2, <2>3
  <2>5. SubSeq(seen, 1, Len(seen)) = seen
    BY <1>8, SubSeqFull
  <2>6. /\ SubSeq(shown, 1, Len(seen)) \in Seq(P) /\ Len(SubSeq(shown, 1, Len(seen))) = Len(seen)
        /\ \A i \in 1..Len(seen) : SubSeq(shown, 1, Len(seen))[i] = shown[i]
    BY <1>3, <2>1, <2>3
  <2>7. SubSeq(shown, 1, Len(seen)) = seen
    BY <1>8, <2>4, <2>6, SeqEqual
  <2>8. Len(seen) <= Len(shown)
    BY <1>3, <2>1, <2>3
  <2> QED BY <2>5, <2>7, <2>8 DEF IsPrefix
<1>11. clientOpen /\ got = Len(out) => seen = shown
  <2>1. SubSeq(out, 1, Len(out)) = out
    BY <1>3, SubSeqFull
  <2> QED BY <1>4, <1>7, <2>1 DEF SeenInv, SentIsShown
<1> QED BY <1>10, <1>11 DEF SeenIsShown

(* The client sees the events of the turn in order and without gaps, in    *)
(* whatever chunks they come, and all of them if it stays and reads on.    *)
THEOREM ClientSeesAll == StreamSpec => []SeenIsShown
<1> QED BY SeenInit, SeenKept, SeenSuffices, PTL DEF StreamSpec

-----------------------------------------------------------------------------
(***************************************************************************)
(* The composer's draft (ComposerText, Composer): types.                   *)
(***************************************************************************)
CatalogLetters == UNION {Range(n.path) \cup Range(n.id) \cup Range(n.name) : n \in Catalog}
TypedLetters == {Trigger, " ", ":"} \cup Keys \cup UNION {Range(name) : name \in Names}
Letters == TypedLetters \cup CatalogLetters
Texts == Seq(Letters)
Refs == [path: Texts, id: Texts, asChip: BOOLEAN, token: Texts]
Attached == [id: Nat, token: Texts, data: Nat \cup {Null}]
EditorNodes ==
  [t: {"char"}, c: Letters] \cup [t: {"ref"}, ref: Refs] \cup [t: {"file"}, file: Attached]

(* A draft as a value, and one in which every file has its own payload.    *)
Sound(v) ==
  /\ v = [text |-> v.text, caret |-> v.caret, refs |-> v.refs, files |-> v.files, pristine |-> v.pristine]
  /\ v.text \in Texts /\ v.caret \in 0..Len(v.text)
  /\ v.refs \in Seq(Refs) /\ v.files \in Seq(Attached)
Own(v) == \A j \in DOMAIN v.files : v.files[j].data = v.files[j].id

-----------------------------------------------------------------------------
(* The wire text of an editor.                                             *)
Wires(d) == [i \in DOMAIN d |-> Wire(d[i])]

LEMMA LettersAre ==
  /\ Trigger \in Letters /\ " " \in Letters /\ ":" \in Letters /\ Keys \subseteq Letters
  /\ \A name \in Names : name \in Texts
  /\ \A n \in Catalog : n.path \in Texts /\ n.id \in Texts /\ n.name \in Texts /\ n.id # << >>
<1>1. ASSUME NEW name \in Names PROVE Range(name) \subseteq Letters
  <2>1. Range(name) \in {Range(x) : x \in Names}
    OBVIOUS
  <2>2. Range(name) \subseteq UNION {Range(x) : x \in Names}
    BY <2>1, Zenon
  <2> QED BY <2>2, Zenon DEF Letters, TypedLetters
<1>2. ASSUME NEW n \in Catalog
      PROVE  Range(n.path) \subseteq Letters /\ Range(n.id) \subseteq Letters /\ Range(n.name) \subseteq Letters
  <2> DEFINE all == {Range(x.path) \cup Range(x.id) \cup Range(x.name) : x \in Catalog}
  <2>1. Range(n.path) \cup Range(n.id) \cup Range(n.name) \in all
    BY Zenon
  <2>2. CatalogLetters = UNION all
    BY DEF CatalogLetters
  <2> HIDE DEF all
  <2> QED BY <2>1, <2>2 DEF Letters
<1>3. \A name \in Names : name \in Texts
  BY <1>1, DraftAssumption, SeqMonotonic DEF IsText, Texts
<1>4. \A n \in Catalog : n.path \in Texts /\ n.id \in Texts /\ n.name \in Texts
  BY <1>2, ComposerAssumption, SeqMonotonic DEF IsText, Texts
<1>5. Trigger \in Letters /\ " " \in Letters /\ ":" \in Letters /\ Keys \subseteq Letters
  <2>1. Trigger \in TypedLetters /\ " " \in TypedLetters /\ ":" \in TypedLetters /\ Keys \subseteq TypedLetters
    BY Zenon DEF TypedLetters
  <2> QED BY <2>1, Zenon DEF Letters
<1>6. \A n \in Catalog : n.id # << >>
  BY ComposerAssumption
<1> QED BY <1>3, <1>4, <1>5, <1>6, Zenon

LEMMA WireTyped == \A n \in EditorNodes : Wire(n) \in Texts
<1>1. ASSUME NEW c \in Letters PROVE <<c>> \in Texts
  BY DEF Texts
<1> QED BY <1>1 DEF EditorNodes, Wire, Refs, Attached

LEMMA WiresTyped ==
  ASSUME NEW d \in Seq(EditorNodes)
  PROVE  Wires(d) \in Seq(Texts) /\ Len(Wires(d)) = Len(d) /\ \A i \in 1..Len(d) : Wires(d)[i] = Wire(d[i])
<1>1. Len(d) \in Nat /\ DOMAIN d = 1..Len(d) /\ \A i \in 1..Len(d) : Wire(d[i]) \in Texts
  BY WireTyped
<1> QED BY <1>1, IsASeq DEF Wires

LEMMA TextTyped == ASSUME NEW d \in Seq(EditorNodes) PROVE Text(d) \in Texts
BY WiresTyped, FlattenTyped DEF Text, Texts, Wires

LEMMA IsConcat ==
  ASSUME NEW S, NEW a \in Seq(S), NEW b \in Seq(S), NEW s \in Seq(S), Len(s) = Len(a) + Len(b),
         \A i \in 1..Len(s) : s[i] = IF i <= Len(a) THEN a[i] ELSE b[i - Len(a)]
  PROVE  s = a \o b
<1>1. /\ a \o b \in Seq(S) /\ Len(a \o b) = Len(s)
      /\ \A i \in 1..Len(s) : (a \o b)[i] = IF i <= Len(a) THEN a[i] ELSE b[i - Len(a)]
  BY ConcatProperties
<1>2. \A i \in 1..Len(s) : s[i] = (a \o b)[i]
  BY <1>1
<1> QED BY <1>1, <1>2, SeqEqual

LEMMA WiresConcat ==
  ASSUME NEW a \in Seq(EditorNodes), NEW b \in Seq(EditorNodes)
  PROVE  Wires(a \o b) = Wires(a) \o Wires(b)
<1>1. a \o b \in Seq(EditorNodes) /\ Len(a) \in Nat /\ Len(b) \in Nat /\ Len(a \o b) = Len(a) + Len(b)
  BY ConcatProperties
<1> DEFINE wa == Wires(a)
           wb == Wires(b)
           w == Wires(a \o b)
<1>2. /\ wa \in Seq(Texts) /\ Len(wa) = Len(a) /\ \A i \in 1..Len(a) : wa[i] = Wire(a[i])
      /\ wb \in Seq(Texts) /\ Len(wb) = Len(b) /\ \A i \in 1..Len(b) : wb[i] = Wire(b[i])
      /\ w \in Seq(Texts) /\ Len(w) = Len(a) + Len(b)
      /\ \A i \in 1..(Len(a) + Len(b)) : w[i] = Wire((a \o b)[i])
  <2>1. \A d \in Seq(EditorNodes) :
          Wires(d) \in Seq(Texts) /\ Len(Wires(d)) = Len(d) /\ \A i \in 1..Len(d) : Wires(d)[i] = Wire(d[i])
    BY WiresTyped
  <2>2. PICK c \in Seq(EditorNodes) : c = a \o b
    BY <1>1
  <2>3. Wires(c) \in Seq(Texts) /\ Len(Wires(c)) = Len(a) + Len(b)
        /\ \A i \in 1..(Len(a) + Len(b)) : Wires(c)[i] = Wire(c[i])
    BY <1>1, <2>1, <2>2
  <2> QED BY <2>1, <2>2, <2>3
<1> HIDE DEF wa, wb, w
<1>3. ASSUME NEW i \in 1..Len(w) PROVE w[i] = IF i <= Len(wa) THEN wa[i] ELSE wb[i - Len(wa)]
  <2>1. w[i] = Wire((a \o b)[i])
    BY <1>2
  <2>2. (a \o b)[i] = IF i <= Len(a) THEN a[i] ELSE b[i - Len(a)]
    BY <1>2, ConcatProperties
  <2>3. CASE i <= Len(a)
    BY <1>1, <1>2, <2>1, <2>2, <2>3, i \in 1..Len(a)
  <2>4. CASE ~(i <= Len(a))
    BY <1>1, <1>2, <2>1, <2>2, <2>4, i - Len(a) \in 1..Len(b)
  <2> QED BY <2>3, <2>4
<1>4. w = wa \o wb
  <2>1. \A i \in 1..Len(w) : w[i] = IF i <= Len(wa) THEN wa[i] ELSE wb[i - Len(wa)]
    BY <1>3, Zenon
  <2>2. wa \in Seq(Texts) /\ wb \in Seq(Texts) /\ w \in Seq(Texts) /\ Len(w) = Len(wa) + Len(wb)
    BY <1>2
  <2> QED BY <2>1, <2>2, IsConcat
<1> QED BY <1>4 DEF w, wa, wb

LEMMA TextConcat ==
  ASSUME NEW a \in Seq(EditorNodes), NEW b \in Seq(EditorNodes)
  PROVE  Text(a \o b) = Text(a) \o Text(b)
<1>1. Wires(a) \in Seq(Seq(Letters)) /\ Wires(b) \in Seq(Seq(Letters))
  BY WiresTyped DEF Texts
<1>2. FlattenSeq(Wires(a) \o Wires(b)) = FlattenSeq(Wires(a)) \o FlattenSeq(Wires(b))
  BY <1>1, FlattenConcat
<1> QED BY <1>2, WiresConcat DEF Text, Wires

LEMMA CharsTyped ==
  ASSUME NEW t \in Texts
  PROVE  Chars(t) \in Seq(EditorNodes) /\ Len(Chars(t)) = Len(t) /\ \A i \in 1..Len(t) : Chars(t)[i] = Char(t[i])
<1>1. Len(t) \in Nat /\ DOMAIN t = 1..Len(t) /\ \A i \in 1..Len(t) : Char(t[i]) \in EditorNodes
  BY DEF Texts, Char, EditorNodes
<1> QED BY <1>1, IsASeq DEF Chars

LEMMA TextOfOne == ASSUME NEW n \in EditorNodes PROVE <<n>> \in Seq(EditorNodes) /\ Text(<<n>>) = Wire(n)
<1>1. <<n>> \in Seq(EditorNodes) /\ Len(<<n>>) = 1
  OBVIOUS
<1>2. Wires(<<n>>) = <<Wire(n)>>
  BY DEF Wires
<1>3. Text(<<n>>) = FlattenSeq(Wires(<<n>>))
  BY DEF Text, Wires
<1> QED BY <1>1, <1>2, <1>3, WireTyped, FlattenOne DEF Texts

LEMMA TextOfChars == \A t \in Texts : Text(Chars(t)) = t
<1> DEFINE Good == {t \in Texts : Text(Chars(t)) = t}
<1>1. << >> \in Good
  <2>1. << >> \in Texts /\ Chars(<< >>) = << >>
    BY EmptySeq DEF Texts, Chars
  <2>2. Wires(<< >>) = << >> /\ FlattenSeq(<< >>) = << >>
    BY EmptySeq DEF Wires, FlattenSeq
  <2> QED BY <2>1, <2>2 DEF Text, Wires
<1>2. ASSUME NEW t \in Texts, t \in Good, NEW c \in Letters PROVE Append(t, c) \in Good
  <2>1. Append(t, c) \in Texts /\ Append(t, c) = t \o <<c>> /\ Len(Append(t, c)) = Len(t) + 1 /\ Len(t) \in Nat
    BY AppendProperties, AppendIsConcat, LenProperties DEF Texts
  <2>2. Char(c) \in EditorNodes /\ Wire(Char(c)) = <<c>>
    BY DEF Char, EditorNodes, Wire
  <2>3. Chars(Append(t, c)) = Chars(t) \o <<Char(c)>>
    <3>1. /\ Chars(t) \in Seq(EditorNodes) /\ Len(Chars(t)) = Len(t) /\ \A i \in 1..Len(t) : Chars(t)[i] = Char(t[i])
          /\ Chars(Append(t, c)) \in Seq(EditorNodes) /\ Len(Chars(Append(t, c))) = Len(t) + 1
          /\ \A i \in 1..(Len(t) + 1) : Chars(Append(t, c))[i] = Char(Append(t, c)[i])
      BY <2>1, CharsTyped
    <3>2. /\ Append(Chars(t), Char(c)) \in Seq(EditorNodes) /\ Len(Append(Chars(t), Char(c))) = Len(t) + 1
          /\ \A i \in 1..Len(t) : Append(Chars(t), Char(c))[i] = Chars(t)[i]
          /\ Append(Chars(t), Char(c))[Len(t) + 1] = Char(c)
          /\ Append(Chars(t), Char(c)) = Chars(t) \o <<Char(c)>>
      BY <2>2, <3>1, AppendProperties, AppendIsConcat
    <3>3. \A i \in 1..Len(t) : Append(t, c)[i] = t[i]
      BY <2>1, AppendProperties DEF Texts
    <3>4. Append(t, c)[Len(t) + 1] = c
      BY <2>1, AppendProperties DEF Texts
    <3>5. ASSUME NEW i \in 1..(Len(t) + 1) PROVE Chars(Append(t, c))[i] = Append(Chars(t), Char(c))[i]
      <4>1. i \in 1..Len(t) \/ i = Len(t) + 1
        BY <2>1
      <4> QED BY <3>1, <3>2, <3>3, <3>4, <4>1
    <3> QED BY <3>1, <3>2, <3>5, SeqEqual
  <2>4. Chars(t) \in Seq(EditorNodes) /\ <<Char(c)>> \in Seq(EditorNodes) /\ Text(<<Char(c)>>) = <<c>>
    BY <2>2, CharsTyped, TextOfOne
  <2>5. Text(Chars(Append(t, c))) = Text(Chars(t)) \o Text(<<Char(c)>>)
    BY <2>3, <2>4, TextConcat
  <2> QED BY <1>2, <2>1, <2>4, <2>5
<1> HIDE DEF Good
<1>3. \A t \in Texts : t \in Good
  BY <1>1, <1>2, RowInduction DEF Texts
<1> QED BY <1>3 DEF Good

(* Any part of a list.                                                     *)
LEMMA PartTyped ==
  ASSUME NEW S, NEW s \in Seq(S), NEW m \in 1..(Len(s) + 1), NEW n \in (m - 1)..Len(s)
  PROVE  /\ SubSeq(s, m, n) \in Seq(S) /\ Len(SubSeq(s, m, n)) = n - m + 1
         /\ \A i \in 1..(n - m + 1) : SubSeq(s, m, n)[i] = s[m + i - 1]
<1>1. Len(s) \in Nat /\ m \in Int /\ n \in Int /\ \A i \in m..n : s[i] \in S
  BY ElementOfSeq
<1> QED BY <1>1, SubSeqProperties

LEMMA OffsetTyped ==
  ASSUME NEW d \in Seq(EditorNodes), NEW p \in 0..Len(d)
  PROVE  Offset(d, p) \in 0..Len(Text(d)) /\ Len(Text(d)) \in Nat
<1> DEFINE front == SubSeq(d, 1, p)
           back == SubSeq(d, p + 1, Len(d))
<1>1. Len(d) \in Nat /\ front \in Seq(EditorNodes) /\ back \in Seq(EditorNodes)
  <2>1. Len(d) \in Nat
    OBVIOUS
  <2>2. 1 \in 1..(Len(d) + 1) /\ p \in (1 - 1)..Len(d) /\ p + 1 \in 1..(Len(d) + 1) /\ Len(d) \in (p + 1 - 1)..Len(d)
    BY <2>1
  <2> QED BY <2>1, <2>2, PartTyped
<1>2. front \o back = d
  <2>1. 1 \in 1..(Len(d) + 1) /\ p \in (1 - 1)..Len(d) /\ Len(d) \in p..Len(d)
    BY <1>1
  <2>2. SubSeq(d, 1, p) \o SubSeq(d, p + 1, Len(d)) = SubSeq(d, 1, Len(d))
    BY <2>1, ConcatAdjacentSubSeq
  <2> QED BY <2>2, SubSeqFull
<1> HIDE DEF front, back
<1>3. Text(d) = Text(front) \o Text(back) /\ Text(front) \in Texts /\ Text(back) \in Texts
  BY <1>1, <1>2, TextConcat, TextTyped
<1>4. Len(Text(d)) = Len(Text(front)) + Len(Text(back)) /\ Len(Text(front)) \in Nat /\ Len(Text(back)) \in Nat
  BY <1>3, ConcatProperties, LenProperties DEF Texts
<1> QED BY <1>4 DEF Offset, front

-----------------------------------------------------------------------------
(* The least and the greatest of some numbers, and where a part occurs.    *)
LEMMA MinIs == ASSUME NEW T \in SUBSET Nat, T # {} PROVE Min(T) \in T
<1>1. PICK n \in T : \A m \in T : n <= m
  BY LeastNumber
<1> QED BY <1>1 DEF Min

LEMMA MaxIs ==
  ASSUME NEW n \in Nat, NEW T \in SUBSET (0..n), T # {}
  PROVE  Max(T) \in T
<1> DEFINE R == {n - m : m \in T}
<1>1. R \subseteq Nat /\ R # {}
  <2>1. \A m \in T : n - m \in Nat
    OBVIOUS
  <2> QED BY <2>1
<1>2. PICK r \in R : \A x \in R : r <= x
  <2> HIDE DEF R
  <2> QED BY <1>1, LeastNumber
<1>3. PICK m \in T : r = n - m
  BY <1>2
<1>4. \A x \in T : m >= x
  <2> SUFFICES ASSUME NEW x \in T PROVE m >= x
    OBVIOUS
  <2>1. r <= n - x
    BY <1>2
  <2> QED BY <1>3, <2>1
<1> QED BY <1>4 DEF Max

LEMMA IndexIs ==
  ASSUME NEW text \in Texts, NEW part \in Texts, NEW from \in Nat \ {0}, IndexOf(text, part, from) # 0
  PROVE  LET spot == IndexOf(text, part, from)
         IN  /\ spot \in from..Len(text) /\ spot + Len(part) <= Len(text) + 1
             /\ \A k \in 1..Len(part) : text[spot + k - 1] = part[k]
<1> DEFINE places == {i \in from..Len(text) : IsPrefix(part, SubSeq(text, i, Len(text)))}
<1>1. Len(text) \in Nat /\ Len(part) \in Nat
  BY DEF Texts
<1>2. IndexOf(text, part, from) \in places
  <2>1. places \in SUBSET Nat
    BY <1>1
  <2>2. places # {} /\ IndexOf(text, part, from) = Min(places)
    BY DEF IndexOf
  <2> HIDE DEF places
  <2> QED BY <2>1, <2>2, MinIs
<1>3. PICK spot : spot = IndexOf(text, part, from)
  OBVIOUS
<1>4. spot \in from..Len(text) /\ IsPrefix(part, SubSeq(text, spot, Len(text)))
  BY <1>2, <1>3
<1> DEFINE behind == SubSeq(text, spot, Len(text))
<1>5. behind \in Texts /\ Len(behind) = Len(text) - spot + 1 /\ \A k \in 1..(Len(text) - spot + 1) : behind[k] = text[spot + k - 1]
  <2>1. spot \in 1..(Len(text) + 1) /\ Len(text) \in (spot - 1)..Len(text)
    BY <1>1, <1>4
  <2> QED BY <2>1, PartTyped DEF Texts
<1>6. Len(part) <= Len(behind) /\ SubSeq(part, 1, Len(part)) = SubSeq(behind, 1, Len(part))
  BY <1>4 DEF IsPrefix
<1> HIDE DEF behind
<1>7. \A k \in 1..Len(part) : part[k] = behind[k]
  <2>1. SubSeq(part, 1, Len(part)) = part
    BY SubSeqFull DEF Texts
  <2>2. \A k \in 1..Len(part) : SubSeq(behind, 1, Len(part))[k] = behind[k]
    <3>1. 1 \in 1..(Len(behind) + 1) /\ Len(part) \in (1 - 1)..Len(behind) /\ Len(part) - 1 + 1 = Len(part)
      BY <1>1, <1>4, <1>5, <1>6
    <3>2. \A k \in 1..(Len(part) - 1 + 1) : SubSeq(behind, 1, Len(part))[k] = behind[1 + k - 1]
      BY <1>5, <3>1, PartTyped DEF Texts
    <3> QED BY <1>1, <3>1, <3>2
  <2> QED BY <1>6, <2>1, <2>2
<1>8. spot + Len(part) <= Len(text) + 1 /\ \A k \in 1..Len(part) : text[spot + k - 1] = part[k]
  BY <1>1, <1>4, <1>5, <1>6, <1>7
<1> QED BY <1>3, <1>4, <1>8

-----------------------------------------------------------------------------
(* Recursion over the numbers up to n, by a step that is a function.       *)
Runs(f, D, base, step, n) ==
  f \in [0..n -> D] /\ f[0] = base /\ \A i \in 1..n : f[i] = step[<<f[i - 1], i>>]

LEMMA Recursion ==
  ASSUME NEW D, NEW base \in D, NEW n \in Nat, NEW step \in [D \X (1..n) -> D]
  PROVE  \E f : Runs(f, D, base, step, n)
<1> DEFINE T == {m \in 0..n : ~\E f : Runs(f, D, base, step, m)}
<1>1. SUFFICES ASSUME T # {} PROVE FALSE
  OBVIOUS
<1>2. PICK m \in T : \A k \in T : m <= k
  <2>1. T \subseteq Nat
    OBVIOUS
  <2> HIDE DEF T
  <2> QED BY <1>1, <2>1, LeastNumber
<1>3. m # 0
  <2> DEFINE g == [i \in 0..0 |-> base]
  <2>1. Runs(g, D, base, step, 0)
    BY DEF Runs
  <2> QED BY <2>1
<1>4. PICK f : Runs(f, D, base, step, m - 1)
  BY <1>2, <1>3
<1> DEFINE g == [i \in 0..m |-> IF i = m THEN step[<<f[m - 1], m>>] ELSE f[i]]
<1>5. f \in [0..(m - 1) -> D] /\ f[0] = base /\ \A i \in 1..(m - 1) : f[i] = step[<<f[i - 1], i>>]
  BY <1>4 DEF Runs
<1>6. f[m - 1] \in D /\ step[<<f[m - 1], m>>] \in D
  BY <1>3, <1>5
<1>7. g \in [0..m -> D] /\ g[0] = base /\ g[m] = step[<<f[m - 1], m>>] /\ \A i \in 0..(m - 1) : g[i] = f[i]
  BY <1>3, <1>5, <1>6
<1> HIDE DEF g
<1>8. \A i \in 1..m : g[i] = step[<<g[i - 1], i>>]
  <2> SUFFICES ASSUME NEW i \in 1..m PROVE g[i] = step[<<g[i - 1], i>>]
    OBVIOUS
  <2>1. g[i - 1] = f[i - 1]
    BY <1>7
  <2> QED BY <1>5, <1>7, <2>1
<1>9. Runs(g, D, base, step, m)
  BY <1>7, <1>8 DEF Runs
<1> QED BY <1>9
LEMMA CountUp ==
  ASSUME NEW n \in Nat, NEW T, 0 \in T, \A i \in 1..n : i - 1 \in T => i \in T
  PROVE  \A i \in 0..n : i \in T
<1> DEFINE R == {i \in 0..n : i \notin T}
<1> SUFFICES ASSUME R # {} PROVE FALSE
  OBVIOUS
<1>1. R \in SUBSET Nat
  OBVIOUS
<1>2. PICK m \in R : \A x \in R : m <= x
  <2> HIDE DEF R
  <2> QED BY <1>1, LeastNumber
<1>3. m \in 1..n /\ m - 1 \in 0..n
  BY <1>2
<1>4. m - 1 \in T
  BY <1>2, <1>3
<1> QED BY <1>2, <1>3, <1>4


-----------------------------------------------------------------------------
(* Sorting and painting.                                                   *)
LEMMA InsertTyped ==
  ASSUME NEW S, NEW s \in Seq(S), NEW i \in 1..(Len(s) + 1), NEW e \in S
  PROVE  InsertAt(s, i, e) \in Seq(S) /\ Len(InsertAt(s, i, e)) = Len(s) + 1
<1>1. Len(s) \in Nat
  OBVIOUS
<1>2. SubSeq(s, 1, i - 1) \in Seq(S) /\ Len(SubSeq(s, 1, i - 1)) = i - 1
  <2>1. 1 \in 1..(Len(s) + 1) /\ i - 1 \in (1 - 1)..Len(s)
    BY <1>1
  <2>2. /\ SubSeq(s, 1, i - 1) \in Seq(S) /\ Len(SubSeq(s, 1, i - 1)) = (i - 1) - 1 + 1
    BY <2>1, PartTyped
  <2> QED BY <2>2
<1>3. SubSeq(s, i, Len(s)) \in Seq(S) /\ Len(SubSeq(s, i, Len(s))) = Len(s) - i + 1
  <2>1. i \in 1..(Len(s) + 1) /\ Len(s) \in (i - 1)..Len(s)
    BY <1>1
  <2> QED BY <2>1, PartTyped
<1> DEFINE a == SubSeq(s, 1, i - 1)
           b == SubSeq(s, i, Len(s))
<1>4. a \o <<e>> \o b \in Seq(S) /\ Len(a \o <<e>> \o b) = Len(a) + 1 + Len(b)
  <2>1. a \in Seq(S) /\ b \in Seq(S) /\ <<e>> \in Seq(S) /\ Len(<<e>>) = 1
    BY <1>2, <1>3
  <2> HIDE DEF a, b
  <2>2. a \o <<e>> \in Seq(S) /\ Len(a \o <<e>>) = Len(a) + 1
    BY <2>1, ConcatProperties
  <2> QED BY <2>1, <2>2, ConcatProperties
<1>5. InsertAt(s, i, e) = a \o <<e>> \o b
  BY Zenon DEF InsertAt
<1>6. Len(a) + 1 + Len(b) = Len(s) + 1
  BY <1>1, <1>2, <1>3
<1> HIDE DEF a, b
<1> QED BY <1>4, <1>5, <1>6

(* t is s with e put in at i.                                              *)
Spliced(t, s, i, e) ==
  \A n \in 1..(Len(s) + 1) : t[n] = IF n < i THEN s[n] ELSE IF n = i THEN e ELSE s[n - 1]

LEMMA InsertIs ==
  ASSUME NEW S, NEW s \in Seq(S), NEW i \in 1..(Len(s) + 1), NEW e \in S
  PROVE  Spliced(InsertAt(s, i, e), s, i, e)
<1> SUFFICES ASSUME NEW k \in 1..(Len(s) + 1)
             PROVE  InsertAt(s, i, e)[k] = IF k < i THEN s[k] ELSE IF k = i THEN e ELSE s[k - 1]
  BY DEF Spliced
<1> DEFINE a == SubSeq(s, 1, i - 1)
           b == SubSeq(s, i, Len(s))
<1>1. Len(s) \in Nat
  OBVIOUS
<1>2. a \in Seq(S) /\ Len(a) = i - 1 /\ \A n \in 1..(i - 1) : a[n] = s[n]
  <2>1. 1 \in 1..(Len(s) + 1) /\ i - 1 \in (1 - 1)..Len(s) /\ i - 1 - 1 + 1 = i - 1 /\ \A n \in Nat : 1 + n - 1 = n
    BY <1>1
  <2>2. a \in Seq(S) /\ Len(a) = i - 1 /\ \A n \in 1..(i - 1) : a[n] = s[1 + n - 1]
    BY <2>1, PartTyped
  <2> QED BY <2>1, <2>2
<1>3. b \in Seq(S) /\ Len(b) = Len(s) - i + 1 /\ \A n \in 1..(Len(s) - i + 1) : b[n] = s[i + n - 1]
  <2>1. i \in 1..(Len(s) + 1) /\ Len(s) \in (i - 1)..Len(s)
    BY <1>1
  <2> QED BY <2>1, PartTyped
<1>4. InsertAt(s, i, e) = (a \o <<e>>) \o b
  BY Zenon DEF InsertAt
<1> HIDE DEF a, b
<1> DEFINE f == a \o <<e>>
<1>5. f \in Seq(S) /\ Len(f) = i /\ (\A n \in 1..(i - 1) : f[n] = s[n]) /\ f[i] = e
  <2> DEFINE one == <<e>>
  <2>1. one \in Seq(S) /\ Len(one) = 1 /\ one[1] = e
    OBVIOUS
  <2> HIDE DEF one
  <2>2. /\ a \o one \in Seq(S) /\ Len(a \o one) = i - 1 + 1
        /\ \A n \in 1..(i - 1 + 1) : (a \o one)[n] = IF n <= i - 1 THEN a[n] ELSE one[n - (i - 1)]
    <3>1. /\ a \o one \in Seq(S) /\ Len(a \o one) = Len(a) + Len(one)
          /\ \A n \in 1..(Len(a) + Len(one)) : (a \o one)[n] = IF n <= Len(a) THEN a[n] ELSE one[n - Len(a)]
      BY ONLY <1>2, <2>1, ConcatProperties
    <3> QED BY ONLY <1>2, <2>1, <3>1
  <2>a. f = a \o one
    BY Zenon DEF one
  <2> HIDE DEF f
  <2>3. i - (i - 1) = 1 /\ i \in 1..(i - 1 + 1) /\ ~(i <= i - 1) /\ i - 1 + 1 = i /\ \A n \in 1..(i - 1) : n \in 1..(i - 1 + 1) /\ n <= i - 1
    OBVIOUS
  <2>4. f[i] = e
    BY <2>1, <2>2, <2>a, <2>3
  <2>5. \A n \in 1..(i - 1) : f[n] = s[n]
    BY <1>2, <2>2, <2>a, <2>3
  <2> QED BY <2>2, <2>a, <2>3, <2>4, <2>5
<1> HIDE DEF f
<1>6. \A n \in 1..(i + (Len(s) - i + 1)) : (f \o b)[n] = IF n <= i THEN f[n] ELSE b[n - i]
  <2>1. \A n \in 1..(Len(f) + Len(b)) : (f \o b)[n] = IF n <= Len(f) THEN f[n] ELSE b[n - Len(f)]
    BY ONLY <1>3, <1>5, ConcatProperties
  <2> QED BY ONLY <1>3, <1>5, <2>1
<1>7. k \in 1..(i + (Len(s) - i + 1))
  BY <1>1
<1>8. CASE k <= i
  BY <1>1, <1>4, <1>5, <1>6, <1>7, <1>8 DEF f
<1>9. CASE ~(k <= i)
  <2>1. k - i \in 1..(Len(s) - i + 1) /\ i + (k - i) - 1 = k - 1 /\ ~(k < i) /\ k # i
    BY <1>1, <1>9
  <2> QED BY <1>3, <1>4, <1>6, <1>7, <1>9, <2>1 DEF f
<1> QED BY <1>8, <1>9

Inserted(s, e, key) == InsertAt(s, PlaceFor(s, e, key), e)

LEMMA PlaceForIs ==
  ASSUME NEW S, NEW s \in Seq(S), NEW e, NEW key
  PROVE  /\ PlaceFor(s, e, key) \in 1..(Len(s) + 1)
         /\ \A p \in 1..Len(s) : p < PlaceFor(s, e, key) => ~(key[s[p]] > key[e])
         /\ PlaceFor(s, e, key) # Len(s) + 1 => key[s[PlaceFor(s, e, key)]] > key[e]
<1> DEFINE higher == {p \in DOMAIN s : key[s[p]] > key[e]}
<1>1. Len(s) \in Nat /\ DOMAIN s = 1..Len(s) /\ higher \in SUBSET Nat
  OBVIOUS
<1>2. CASE higher = {}
  <2>1. PlaceFor(s, e, key) = Len(s) + 1
    BY <1>2, Zenon DEF PlaceFor
  <2>2. \A p \in 1..Len(s) : ~(key[s[p]] > key[e])
    BY <1>1, <1>2
  <2> QED BY <1>1, <2>1, <2>2
<1>3. CASE higher # {}
  <2>1. PlaceFor(s, e, key) = Min(higher)
    BY <1>3, Zenon DEF PlaceFor
  <2>2. PICK n \in higher : \A p \in higher : n <= p
    <3> HIDE DEF higher
    <3> QED BY <1>1, <1>3, LeastNumber
  <2>3. Min(higher) \in higher /\ \A p \in higher : Min(higher) <= p
    <3> HIDE DEF higher
    <3> QED BY <2>2 DEF Min
  <2>4. PICK m \in 1..Len(s) : m = Min(higher)
    BY <1>1, <2>3
  <2>5. key[s[m]] > key[e]
    BY <2>3, <2>4
  <2>6. \A p \in 1..Len(s) : p < m => ~(key[s[p]] > key[e])
    <3> SUFFICES ASSUME NEW p \in 1..Len(s), p < m, key[s[p]] > key[e] PROVE FALSE
      OBVIOUS
    <3>1. p \in higher
      BY <1>1
    <3>2. m <= p
      <4> HIDE DEF higher
      <4> QED BY <2>3, <2>4, <3>1
    <3> QED BY <3>2
  <2> HIDE DEF higher
  <2> QED BY <1>1, <2>1, <2>4, <2>5, <2>6
<1> QED BY <1>2, <1>3

(* Sorting is a run of insertions.                                         *)
Sorts(g, s, S, key) ==
  /\ g \in [0..Len(s) -> Seq(S)] /\ g[0] = << >>
  /\ \A i \in 1..Len(s) : g[i] = Inserted(g[i - 1], s[i], key)

LEMMA SortingRuns ==
  ASSUME NEW S, NEW s \in Seq(S), NEW key
  PROVE  \E g : Sorts(g, s, S, key) /\ SortedBy(s, key) = g[Len(s)]
<1> DEFINE D == Seq(S)
           step == [x \in D \X (1..Len(s)) |-> Inserted(x[1], s[x[2]], key)]
           Sorting(f) == f = [i \in 0..Len(s) |-> IF i = 0 THEN << >> ELSE InsertAt(f[i - 1], PlaceFor(f[i - 1], s[i], key), s[i])]
<1>1. Len(s) \in Nat /\ \A i \in 1..Len(s) : s[i] \in S
  OBVIOUS
<1>2. << >> \in D
  OBVIOUS
<1>3. \A acc \in D, i \in 1..Len(s) : Inserted(acc, s[i], key) \in D
  BY <1>1, PlaceForIs, InsertTyped DEF Inserted
<1> HIDE DEF D
<1>4. step \in [D \X (1..Len(s)) -> D]
  BY <1>3
<1>5. \A acc \in D, i \in 1..Len(s) : step[<<acc, i>>] = Inserted(acc, s[i], key)
  OBVIOUS
<1> HIDE DEF step
<1>6. PICK g : Runs(g, D, << >>, step, Len(s))
  BY <1>1, <1>2, <1>4, Recursion
<1>7. g \in [0..Len(s) -> D] /\ g[0] = << >> /\ \A i \in 1..Len(s) : g[i] = step[<<g[i - 1], i>>]
  BY <1>6, Zenon DEF Runs
<1>8. \A i \in 0..Len(s) : g[i] = IF i = 0 THEN << >> ELSE Inserted(g[i - 1], s[i], key)
  <2> SUFFICES ASSUME NEW i \in 0..Len(s), i # 0 PROVE g[i] = Inserted(g[i - 1], s[i], key)
    BY <1>7
  <2>1. i \in 1..Len(s) /\ i - 1 \in 0..Len(s)
    BY <1>1
  <2>2. g[i - 1] \in D
    BY <1>7, <2>1, Zenon
  <2> QED BY <1>5, <1>7, <2>1, <2>2, Zenon
<1>9. Sorting(g)
  <2>1. g = [i \in 0..Len(s) |-> g[i]]
    BY <1>7
  <2>2. [i \in 0..Len(s) |-> g[i]] = [i \in 0..Len(s) |-> IF i = 0 THEN << >> ELSE Inserted(g[i - 1], s[i], key)]
    BY <1>8, Zenon
  <2> QED BY <2>1, <2>2, Zenon DEF Inserted
<1> DEFINE h == CHOOSE f : Sorting(f)
<1>10. Sorting(h)
  BY <1>9, Zenon
<1>11. SortedBy(s, key) = h[Len(s)]
  BY Zenon DEF SortedBy
<1> HIDE DEF h
<1>12. \A i \in 0..Len(s) : h[i] = IF i = 0 THEN << >> ELSE Inserted(h[i - 1], s[i], key)
  <2> SUFFICES ASSUME NEW i \in 0..Len(s) PROVE h[i] = IF i = 0 THEN << >> ELSE Inserted(h[i - 1], s[i], key)
    BY Zenon
  <2> DEFINE k == [m \in 0..Len(s) |-> IF m = 0 THEN << >> ELSE Inserted(h[m - 1], s[m], key)]
  <2>1. h = k
    BY <1>10, Zenon DEF Inserted
  <2>2. k[i] = IF i = 0 THEN << >> ELSE Inserted(h[i - 1], s[i], key)
    BY Zenon
  <2> QED BY <2>1, <2>2, Zenon
<1> HIDE DEF Sorting
<1>13. \A i \in 0..Len(s) : h[i] = g[i]
  <2> DEFINE T == {i \in 0..Len(s) : h[i] = g[i]}
  <2>1. 0 \in T
    BY <1>1, <1>7, <1>12
  <2>2. ASSUME NEW i \in 1..Len(s), i - 1 \in T PROVE i \in T
    <3>1. i \in 0..Len(s) /\ i # 0 /\ h[i - 1] = g[i - 1]
      BY <1>1, <2>2
    <3>2. h[i] = g[i]
      BY <1>8, <1>12, <3>1, Zenon
    <3> QED BY <3>1, <3>2
  <2> HIDE DEF T
  <2>3. \A i \in 0..Len(s) : i \in T
    BY <1>1, <2>1, <2>2, CountUp
  <2> QED BY <2>3 DEF T
<1>14. Len(s) \in 0..Len(s)
  BY <1>1
<1>15. \A i \in 1..Len(s) : g[i] = Inserted(g[i - 1], s[i], key)
  <2> SUFFICES ASSUME NEW i \in 1..Len(s) PROVE g[i] = Inserted(g[i - 1], s[i], key)
    OBVIOUS
  <2>1. i \in 0..Len(s) /\ i # 0
    BY <1>1
  <2> QED BY <1>8, <2>1, Zenon
<1>16. Sorts(g, s, S, key)
  BY <1>7, <1>15, Zenon DEF Sorts, D
<1> QED BY <1>11, <1>13, <1>14, <1>16, Zenon

LEMMA SortedTyped ==
  ASSUME NEW S, NEW s \in Seq(S), NEW key
  PROVE  SortedBy(s, key) \in Seq(S)
<1>1. PICK g : Sorts(g, s, S, key) /\ SortedBy(s, key) = g[Len(s)]
  BY SortingRuns
<1>2. Len(s) \in 0..Len(s)
  OBVIOUS
<1> QED BY <1>1, <1>2, Zenon DEF Sorts

(* Entries of different keys come out in the order of their keys.          *)
Rising(s, key) == \A p, q \in 1..Len(s) : p < q => key[s[p]] < key[s[q]]

LEMMA InsertedRises ==
  ASSUME NEW S, NEW s \in Seq(S), NEW e \in S, NEW key \in [S -> Nat], Rising(s, key),
         \A p \in 1..Len(s) : key[s[p]] # key[e]
  PROVE  Rising(Inserted(s, e, key), key) /\ Range(Inserted(s, e, key)) = Range(s) \cup {e}
<1> DEFINE r == Inserted(s, e, key)
           k == PlaceFor(s, e, key)
<1>1. Len(s) \in Nat /\ \A p \in 1..Len(s) : s[p] \in S /\ key[s[p]] \in Nat /\ key[e] \in Nat
  OBVIOUS
<1>2. /\ k \in 1..(Len(s) + 1)
      /\ \A p \in 1..Len(s) : p < k => ~(key[s[p]] > key[e])
      /\ k # Len(s) + 1 => key[s[k]] > key[e]
  BY PlaceForIs
<1> HIDE DEF k
<1>3. r \in Seq(S) /\ Len(r) = Len(s) + 1
      /\ \A n \in 1..(Len(s) + 1) : r[n] = IF n < k THEN s[n] ELSE IF n = k THEN e ELSE s[n - 1]
  <2>1. InsertAt(s, k, e) \in Seq(S) /\ Len(InsertAt(s, k, e)) = Len(s) + 1
    BY <1>2, InsertTyped, Zenon
  <2>2. Spliced(InsertAt(s, k, e), s, k, e)
    <3>1. k \in 1..(Len(s) + 1)
      BY <1>2
    <3> QED BY <3>1, InsertIs, Zenon
  <2>3. r = InsertAt(s, k, e)
    BY Zenon DEF Inserted, k
  <2> QED BY <2>1, <2>2, <2>3, Zenon DEF Spliced
<1> HIDE DEF r
<1>4. \A p \in 1..Len(s) : p < k => key[s[p]] < key[e]
  BY <1>1, <1>2
<1>5. \A p \in 1..Len(s) : p >= k => key[e] < key[s[p]]
  <2> SUFFICES ASSUME NEW p \in 1..Len(s), p >= k PROVE key[e] < key[s[p]]
    OBVIOUS
  <2>1. k \in 1..Len(s) /\ key[s[k]] > key[e]
    BY <1>1, <1>2
  <2>2. p = k \/ key[s[k]] < key[s[p]]
    BY <1>1, <2>1 DEF Rising
  <2>3. key[e] \in Nat /\ key[s[k]] \in Nat /\ key[s[p]] \in Nat
    BY <1>1, <2>1
  <2> QED BY <2>1, <2>2, <2>3
<1>6. ASSUME NEW p \in 1..(Len(s) + 1), NEW q \in 1..(Len(s) + 1), p < q PROVE key[r[p]] < key[r[q]]
  <2>1. CASE q < k
    <3>1. p \in 1..Len(s) /\ q \in 1..Len(s) /\ p < k
      BY <1>1, <1>2, <1>6, <2>1
    <3>2. r[p] = s[p] /\ r[q] = s[q]
      BY <1>3, <2>1, <3>1
    <3> QED BY <1>6, <3>1, <3>2 DEF Rising
  <2>2. CASE q = k
    <3>1. p \in 1..Len(s) /\ p < k /\ ~(q < k)
      BY <1>1, <1>2, <1>6, <2>2
    <3>2. r[p] = s[p] /\ r[q] = e
      BY <1>3, <2>2, <3>1
    <3> QED BY <1>4, <3>1, <3>2
  <2>3. CASE q > k /\ p < k
    <3>1. p \in 1..Len(s) /\ q - 1 \in 1..Len(s) /\ q - 1 >= k /\ p < q - 1
      BY <1>1, <1>2, <2>3
    <3>2. r[p] = s[p] /\ r[q] = s[q - 1]
      BY <1>1, <1>2, <1>3, <2>3
    <3> QED BY <3>1, <3>2 DEF Rising
  <2>4. CASE q > k /\ p = k
    <3>1. q - 1 \in 1..Len(s) /\ q - 1 >= k
      BY <1>1, <1>2, <2>4
    <3>2. r[p] = e /\ r[q] = s[q - 1]
      BY <1>1, <1>2, <1>3, <2>4
    <3> QED BY <1>5, <3>1, <3>2
  <2>5. CASE q > k /\ p > k
    <3>1. p - 1 \in 1..Len(s) /\ q - 1 \in 1..Len(s) /\ p - 1 < q - 1
      BY <1>1, <1>2, <1>6, <2>5
    <3>2. r[p] = s[p - 1] /\ r[q] = s[q - 1]
      BY <1>1, <1>2, <1>3, <2>5
    <3> QED BY <3>1, <3>2 DEF Rising
  <2> QED BY <1>2, <2>1, <2>2, <2>3, <2>4, <2>5
<1>7. Rising(r, key)
  BY <1>3, <1>6, Zenon DEF Rising
<1>8. Range(r) = Range(s) \cup {e}
  <2>1. DOMAIN r = 1..(Len(s) + 1) /\ DOMAIN s = 1..Len(s)
    BY <1>3
  <2>2. ASSUME NEW n \in 1..(Len(s) + 1) PROVE r[n] = e \/ \E p \in 1..Len(s) : r[n] = s[p]
    <3>1. CASE n < k
      <4>1. n \in 1..Len(s)
        BY <1>1, <1>2, <3>1
      <4> QED BY <1>3, <3>1, <4>1
    <3>2. CASE n = k
      BY <1>2, <1>3, <3>2
    <3>3. CASE n > k
      <4>1. n - 1 \in 1..Len(s) /\ ~(n < k) /\ n # k
        BY <1>1, <1>2, <3>3
      <4> QED BY <1>3, <4>1
    <3> QED BY <1>2, <3>1, <3>2, <3>3
  <2>3. \E n \in 1..(Len(s) + 1) : r[n] = e
    BY <1>1, <1>2, <1>3
  <2>4. ASSUME NEW p \in 1..Len(s) PROVE \E n \in 1..(Len(s) + 1) : r[n] = s[p]
    <3>1. CASE p < k
      <4>1. p \in 1..(Len(s) + 1)
        BY <1>1
      <4> QED BY <1>3, <3>1, <4>1
    <3>2. CASE ~(p < k)
      <4>1. p + 1 \in 1..(Len(s) + 1) /\ ~(p + 1 < k) /\ p + 1 # k /\ p + 1 - 1 = p
        BY <1>1, <1>2, <3>2
      <4>2. r[p + 1] = s[p]
        BY <1>3, <4>1
      <4> QED BY <4>1, <4>2
    <3> QED BY <3>1, <3>2
  <2>5. Range(r) = {r[n] : n \in 1..(Len(s) + 1)} /\ Range(s) = {s[n] : n \in 1..Len(s)}
    BY <2>1, Zenon DEF Range
  <2>6. \A x : x \in {r[n] : n \in 1..(Len(s) + 1)} <=> x \in {s[n] : n \in 1..Len(s)} \cup {e}
    <3>1. ASSUME NEW x \in {r[n] : n \in 1..(Len(s) + 1)} PROVE x \in {s[n] : n \in 1..Len(s)} \cup {e}
      <4>1. PICK n \in 1..(Len(s) + 1) : x = r[n]
        OBVIOUS
      <4> QED BY ONLY <4>1, <2>2
    <3>2. ASSUME NEW x \in {s[n] : n \in 1..Len(s)} PROVE x \in {r[n] : n \in 1..(Len(s) + 1)}
      <4>1. PICK p \in 1..Len(s) : x = s[p]
        OBVIOUS
      <4>2. PICK n \in 1..(Len(s) + 1) : r[n] = s[p]
        BY <2>4
      <4> QED BY ONLY <4>1, <4>2
    <3>3. e \in {r[n] : n \in 1..(Len(s) + 1)}
      BY ONLY <2>3
    <3> QED BY <3>1, <3>2, <3>3, Zenon
  <2> QED BY <2>5, <2>6, Zenon
<1> QED BY <1>7, <1>8 DEF r

LEMMA SortedRises ==
  ASSUME NEW S, NEW s \in Seq(S), NEW key \in [S -> Nat],
         \A i, j \in 1..Len(s) : i # j => key[s[i]] # key[s[j]]
  PROVE  Rising(SortedBy(s, key), key) /\ Range(SortedBy(s, key)) = Range(s)
<1>1. PICK g : Sorts(g, s, S, key) /\ SortedBy(s, key) = g[Len(s)]
  BY SortingRuns
<1>2. /\ g \in [0..Len(s) -> Seq(S)] /\ g[0] = << >> /\ \A i \in 1..Len(s) : g[i] = Inserted(g[i - 1], s[i], key)
      /\ Len(s) \in Nat /\ \A i \in 1..Len(s) : s[i] \in S
  <2>1. Len(s) \in Nat /\ \A i \in 1..Len(s) : s[i] \in S
    OBVIOUS
  <2> QED BY <1>1, <2>1, Zenon DEF Sorts
<1> DEFINE T == {i \in 0..Len(s) : Rising(g[i], key) /\ Range(g[i]) = {s[j] : j \in 1..i}}
<1>3. 0 \in T
  <2>1. Rising(<< >>, key) /\ Range(<< >>) = {} /\ {s[j] : j \in 1..0} = {}
    BY EmptySeq DEF Rising, Range
  <2> QED BY <1>2, <2>1
<1>4. ASSUME NEW i \in 1..Len(s), i - 1 \in T PROVE i \in T
  <2>1. i \in 0..Len(s) /\ i - 1 \in 0..Len(s) /\ g[i - 1] \in Seq(S) /\ s[i] \in S
    <3>1. i \in 0..Len(s) /\ i - 1 \in 0..Len(s)
      BY <1>2
    <3> QED BY <1>2, <3>1, Zenon
  <2>2. Rising(g[i - 1], key) /\ Range(g[i - 1]) = {s[j] : j \in 1..(i - 1)}
    BY <1>4
  <2>3. \A p \in 1..Len(g[i - 1]) : key[(g[i - 1])[p]] # key[s[i]]
    <3> SUFFICES ASSUME NEW p \in 1..Len(g[i - 1]) PROVE key[(g[i - 1])[p]] # key[s[i]]
      OBVIOUS
    <3>1. (g[i - 1])[p] \in Range(g[i - 1])
      BY <2>1 DEF Range
    <3>2. PICK j \in 1..(i - 1) : (g[i - 1])[p] = s[j]
      BY <2>2, <3>1
    <3>3. j \in 1..Len(s) /\ j # i
      BY <1>2
    <3> QED BY <3>2, <3>3
  <2>4. Rising(g[i], key) /\ Range(g[i]) = Range(g[i - 1]) \cup {s[i]}
    <3>1. Rising(Inserted(g[i - 1], s[i], key), key)
          /\ Range(Inserted(g[i - 1], s[i], key)) = Range(g[i - 1]) \cup {s[i]}
      <4> DEFINE acc == g[i - 1]
      <4>1. acc \in Seq(S) /\ Rising(acc, key) /\ \A p \in 1..Len(acc) : key[acc[p]] # key[s[i]]
        BY <2>1, <2>2, <2>3, Zenon
      <4> HIDE DEF acc
      <4>2. PICK e \in S : e = s[i]
        BY <2>1
      <4>3. Rising(Inserted(acc, e, key), key) /\ Range(Inserted(acc, e, key)) = Range(acc) \cup {e}
        BY ONLY <4>1, <4>2, key \in [S -> Nat], InsertedRises
      <4> QED BY <4>2, <4>3, Zenon DEF acc
    <3> QED BY <1>2, <3>1, Zenon
  <2>5. {s[j] : j \in 1..(i - 1)} \cup {s[i]} = {s[j] : j \in 1..i}
    <3>1. \A j : j \in 1..i <=> j \in 1..(i - 1) \/ j = i
      BY <1>2
    <3> QED BY <3>1
  <2> QED BY <2>1, <2>2, <2>4, <2>5
<1> HIDE DEF T
<1>5. Len(s) \in T
  <2>1. \A i \in 0..Len(s) : i \in T
    BY <1>2, <1>3, <1>4, CountUp, Zenon
  <2>2. Len(s) \in 0..Len(s)
    BY <1>2
  <2> QED BY <2>1, <2>2
<1>6. {s[j] : j \in 1..Len(s)} = Range(s)
  BY DEF Range
<1> QED BY <1>1, <1>5, <1>6 DEF T

(* Part of an editor that shows a text up to a cursor, of nodes N.         *)
Characters == [t: {"char"}, c: Letters]
Placed(text, N) ==
  {acc \in [cursor: 1..(Len(text) + 1), dom: Seq(N)] : Text(acc.dom) = SubSeq(text, 1, acc.cursor - 1)}

LEMMA CharsAreChars == \A t \in Texts : Chars(t) \in Seq(Characters)
<1> SUFFICES ASSUME NEW t \in Texts PROVE Chars(t) \in Seq(Characters)
  OBVIOUS
<1>1. Len(t) \in Nat /\ DOMAIN t = 1..Len(t) /\ \A i \in 1..Len(t) : Char(t[i]) \in Characters
  BY DEF Texts, Char, Characters
<1> QED BY <1>1, IsASeq DEF Chars

LEMMA PartOfText ==
  ASSUME NEW text \in Texts, NEW part \in Texts, NEW spot \in 1..(Len(text) + 1), spot + Len(part) <= Len(text) + 1,
         \A k \in 1..Len(part) : text[spot + k - 1] = part[k]
  PROVE  SubSeq(text, spot, spot + Len(part) - 1) = part
<1>1. Len(text) \in Nat /\ Len(part) \in Nat
  BY DEF Texts
<1> DEFINE end == spot + Len(part) - 1
<1>2. end \in (spot - 1)..Len(text) /\ end - spot + 1 = Len(part)
  <2>1. \A m, n \in Nat, k \in Nat : k + n <= m + 1 => k + n - 1 \in (k - 1)..m /\ k + n - 1 - k + 1 = n
    OBVIOUS
  <2> QED BY <1>1, <2>1
<1> DEFINE found == SubSeq(text, spot, end)
<1>3. found \in Seq(Letters) /\ Len(found) = end - spot + 1 /\ \A k \in 1..(end - spot + 1) : found[k] = text[spot + k - 1]
  <2> HIDE DEF end
  <2> QED BY <1>2, PartTyped DEF Texts
<1> HIDE DEF found
<1>4. Len(found) = Len(part) /\ \A k \in 1..Len(found) : found[k] = part[k]
  BY <1>2, <1>3
<1>5. found = part
  BY <1>3, <1>4, SeqEqual DEF Texts
<1> QED BY <1>5 DEF found

LEMMA PlaceKeeps ==
  ASSUME NEW v, v.text \in Texts, NEW N \in SUBSET EditorNodes, Characters \subseteq N,
         NEW acc \in Placed(v.text, N), NEW chip \in N
  PROVE  Place(v, acc, chip) \in Placed(v.text, N)
<1> DEFINE text == v.text
           w == Wire(chip)
           spot == IndexOf(text, w, acc.cursor)
           between == SubSeq(text, acc.cursor, spot - 1)
           front == acc.dom
           longer == front \o Chars(between)
           d == longer \o <<chip>>
<1>1. CASE spot = 0
  BY <1>1 DEF Place
<1>2. CASE spot # 0
  <2>1. text \in Texts /\ w \in Texts /\ Len(text) \in Nat /\ Len(w) \in Nat /\ chip \in EditorNodes
    BY WireTyped DEF Texts
  <2>2. acc.cursor \in 1..(Len(text) + 1) /\ front \in Seq(N) /\ Text(front) = SubSeq(text, 1, acc.cursor - 1)
    BY DEF Placed
  <2>3. /\ spot \in (acc.cursor)..Len(text) /\ spot + Len(w) <= Len(text) + 1
        /\ \A k \in 1..Len(w) : text[spot + k - 1] = w[k]
    <3>1. acc.cursor \in Nat \ {0}
      BY <2>1, <2>2
    <3> HIDE DEF text, w
    <3> QED BY <1>2, <2>1, <3>1, IndexIs
  <2>4. PICK c \in 1..(Len(text) + 1) : c = acc.cursor
    BY <2>2
  <2>5. PICK p \in c..Len(text) : p = spot
    BY <2>3, <2>4
  <2> HIDE DEF text, w, spot
  <2>6. between \in Texts
    <3>1. p - 1 \in (c - 1)..Len(text)
      BY <2>1, <2>5
    <3>2. SubSeq(text, c, p - 1) \in Seq(Letters)
      BY <2>1, <3>1, PartTyped DEF Texts
    <3> QED BY <2>4, <2>5, <3>2 DEF Texts
  <2>7. /\ front \in Seq(EditorNodes) /\ Chars(between) \in Seq(N) /\ Chars(between) \in Seq(EditorNodes)
        /\ <<chip>> \in Seq(N) /\ <<chip>> \in Seq(EditorNodes)
    <3>1. Chars(between) \in Seq(Characters)
      BY <2>6, CharsAreChars
    <3> QED BY <2>1, <2>2, <3>1, SeqMonotonic
  <2> HIDE DEF front, between
  <2>8. longer \in Seq(N) /\ longer \in Seq(EditorNodes) /\ Text(longer) = Text(front) \o between
    BY <2>2, <2>6, <2>7, TextConcat, TextOfChars, ConcatProperties
  <2> HIDE DEF longer
  <2>9. d \in Seq(N) /\ Text(d) = Text(longer) \o w
    <3>1. Text(<<chip>>) = w
      BY <2>1, TextOfOne DEF w
    <3> QED BY <2>7, <2>8, <3>1, TextConcat, ConcatProperties
  <2>10. Text(longer) = SubSeq(text, 1, p - 1)
    <3>1. 1 \in 1..(Len(text) + 1) /\ c - 1 \in (1 - 1)..Len(text) /\ p - 1 \in (c - 1)..Len(text) /\ c - 1 + 1 = c
      BY <2>1, <2>5
    <3>2. SubSeq(text, 1, c - 1) \o SubSeq(text, c - 1 + 1, p - 1) = SubSeq(text, 1, p - 1)
      BY <2>1, <3>1, ConcatAdjacentSubSeq DEF Texts
    <3> QED BY <2>2, <2>4, <2>5, <2>8, <3>1, <3>2 DEF between, text
  <2>11. SubSeq(text, p, p + Len(w) - 1) = w
    <3>1. p \in 1..(Len(text) + 1) /\ p + Len(w) <= Len(text) + 1
      BY <2>1, <2>3, <2>4, <2>5
    <3> QED BY <2>1, <2>3, <2>5, <3>1, PartOfText
  <2>12. Text(longer) \o w = SubSeq(text, 1, p + Len(w) - 1)
    <3>1. /\ 1 \in 1..(Len(text) + 1) /\ p - 1 \in (1 - 1)..Len(text)
          /\ p + Len(w) - 1 \in (p - 1)..Len(text) /\ p - 1 + 1 = p
      <4>1. \A m, n \in Nat, k \in Nat : k + n <= m + 1 => k + n - 1 \in (k - 1)..m
        OBVIOUS
      <4>2. p \in 1..Len(text) /\ p + Len(w) <= Len(text) + 1
        BY <2>1, <2>3, <2>4, <2>5
      <4> QED BY <2>1, <4>1, <4>2
    <3>2. SubSeq(text, 1, p - 1) \o SubSeq(text, p - 1 + 1, p + Len(w) - 1) = SubSeq(text, 1, p + Len(w) - 1)
      BY <2>1, <3>1, ConcatAdjacentSubSeq DEF Texts
    <3> QED BY <2>10, <2>11, <3>1, <3>2
  <2> HIDE DEF d
  <2>13. p + Len(w) \in 1..(Len(text) + 1)
    BY <2>1, <2>3, <2>4, <2>5
  <2>14. [cursor |-> p + Len(w), dom |-> d] \in Placed(text, N)
    <3> DEFINE new == [cursor |-> p + Len(w), dom |-> d]
    <3>1. new.cursor = p + Len(w) /\ new.dom = d
      BY Zenon
    <3>2. new \in [cursor: 1..(Len(text) + 1), dom: Seq(N)]
      BY <2>9, <2>13
    <3> HIDE DEF new
    <3>3. Text(new.dom) = SubSeq(text, 1, new.cursor - 1)
      BY <2>9, <2>12, <3>1
    <3> QED BY <3>2, <3>3 DEF Placed, new
  <2>15. Place(v, acc, chip) = [cursor |-> spot + Len(w), dom |-> d]
    BY <1>2, Zenon DEF Place, d, longer, front, between, spot, w, text
  <2> QED BY <2>5, <2>14, <2>15 DEF text
<1> QED BY <1>1, <1>2
(* Placing all is a run of placings.                                       *)
Places(g, v, chips, N) ==
  /\ g \in [0..Len(chips) -> Placed(v.text, N)] /\ g[0] = [cursor |-> 1, dom |-> << >>]
  /\ \A i \in 1..Len(chips) : g[i] = Place(v, g[i - 1], chips[i])

LEMMA PlacingRuns ==
  ASSUME NEW v, v.text \in Texts, NEW N \in SUBSET EditorNodes, Characters \subseteq N, NEW chips \in Seq(N)
  PROVE  \E g : Places(g, v, chips, N) /\ PlaceAll(v, chips) = g[Len(chips)]
<1> DEFINE D == Placed(v.text, N)
           base == [cursor |-> 1, dom |-> << >>]
           step == [x \in D \X (1..Len(chips)) |-> Place(v, x[1], chips[x[2]])]
           Placing(f) == f = [i \in 0..Len(chips) |-> IF i = 0 THEN base ELSE Place(v, f[i - 1], chips[i])]
<1>1. Len(chips) \in Nat /\ \A i \in 1..Len(chips) : chips[i] \in N
  OBVIOUS
<1>2. base \in D
  <2>1. Text(<< >>) = << >>
    <3>1. Wires(<< >>) = << >> /\ FlattenSeq(<< >>) = << >>
      BY EmptySeq DEF Wires, FlattenSeq
    <3> QED BY <3>1 DEF Text, Wires
  <2>2. SubSeq(v.text, 1, 1 - 1) = << >>
    BY SubSeqEmpty
  <2>3. base.cursor = 1 /\ base.dom = << >>
    BY Zenon
  <2>4. base \in [cursor: 1..(Len(v.text) + 1), dom: Seq(N)]
    <3>1. Len(v.text) \in Nat /\ << >> \in Seq(N)
      BY EmptySeq DEF Texts
    <3> QED BY <3>1
  <2> HIDE DEF base
  <2>5. Text(base.dom) = SubSeq(v.text, 1, base.cursor - 1)
    BY <2>1, <2>2, <2>3
  <2> QED BY <2>4, <2>5 DEF Placed
<1>3. \A acc \in D, i \in 1..Len(chips) : Place(v, acc, chips[i]) \in D
  BY <1>1, PlaceKeeps
<1> HIDE DEF D, base
<1>4. step \in [D \X (1..Len(chips)) -> D]
  BY <1>3
<1>5. \A acc \in D, i \in 1..Len(chips) : step[<<acc, i>>] = Place(v, acc, chips[i])
  OBVIOUS
<1> HIDE DEF step
<1>6. PICK g : Runs(g, D, base, step, Len(chips))
  BY <1>1, <1>2, <1>4, Recursion
<1>7. g \in [0..Len(chips) -> D] /\ g[0] = base /\ \A i \in 1..Len(chips) : g[i] = step[<<g[i - 1], i>>]
  BY <1>6, Zenon DEF Runs
<1>8. \A i \in 0..Len(chips) : g[i] = IF i = 0 THEN base ELSE Place(v, g[i - 1], chips[i])
  <2> SUFFICES ASSUME NEW i \in 0..Len(chips), i # 0 PROVE g[i] = Place(v, g[i - 1], chips[i])
    BY <1>7
  <2>1. i \in 1..Len(chips) /\ i - 1 \in 0..Len(chips)
    BY <1>1
  <2>2. g[i - 1] \in D
    BY <1>7, <2>1, Zenon
  <2> QED BY <1>5, <1>7, <2>1, <2>2, Zenon
<1>9. Placing(g)
  <2>1. g = [i \in 0..Len(chips) |-> g[i]]
    BY <1>7
  <2>2. [i \in 0..Len(chips) |-> g[i]] = [i \in 0..Len(chips) |-> IF i = 0 THEN base ELSE Place(v, g[i - 1], chips[i])]
    BY <1>8, Zenon
  <2> QED BY <2>1, <2>2, Zenon
<1> DEFINE h == CHOOSE f : Placing(f)
<1>10. Placing(h)
  BY <1>9, Zenon
<1>11. PlaceAll(v, chips) = h[Len(chips)]
  BY Zenon DEF PlaceAll, base
<1> HIDE DEF h
<1>12. \A i \in 0..Len(chips) : h[i] = IF i = 0 THEN base ELSE Place(v, h[i - 1], chips[i])
  <2> SUFFICES ASSUME NEW i \in 0..Len(chips) PROVE h[i] = IF i = 0 THEN base ELSE Place(v, h[i - 1], chips[i])
    BY Zenon
  <2> DEFINE k == [m \in 0..Len(chips) |-> IF m = 0 THEN base ELSE Place(v, h[m - 1], chips[m])]
  <2>1. h = k
    BY <1>10, Zenon
  <2>2. k[i] = IF i = 0 THEN base ELSE Place(v, h[i - 1], chips[i])
    BY Zenon
  <2> QED BY <2>1, <2>2, Zenon
<1> HIDE DEF Placing
<1>13. \A i \in 0..Len(chips) : h[i] = g[i]
  <2> DEFINE T == {i \in 0..Len(chips) : h[i] # g[i]}
  <2>1. SUFFICES ASSUME T # {} PROVE FALSE
    OBVIOUS
  <2>2. PICK i \in T : \A k \in T : i <= k
    <3>1. T \subseteq Nat
      BY <1>1
    <3> HIDE DEF T
    <3> QED BY <2>1, <3>1, LeastNumber
  <2>3. i = 0 \/ h[i - 1] = g[i - 1]
    BY <1>1, <2>2
  <2>4. h[i] = g[i]
    BY <1>8, <1>12, <2>2, <2>3, Zenon
  <2> QED BY <2>4
<1>14. Len(chips) \in 0..Len(chips)
  BY <1>1
<1>15. \A i \in 1..Len(chips) : g[i] = Place(v, g[i - 1], chips[i])
  <2> SUFFICES ASSUME NEW i \in 1..Len(chips) PROVE g[i] = Place(v, g[i - 1], chips[i])
    OBVIOUS
  <2>1. i \in 0..Len(chips) /\ i # 0
    BY <1>1
  <2> QED BY <1>8, <2>1, Zenon
<1>16. Places(g, v, chips, N)
  BY <1>7, <1>15, Zenon DEF Places, D, base
<1> QED BY <1>11, <1>13, <1>14, <1>16, Zenon

LEMMA PlacedAll ==
  ASSUME NEW v, v.text \in Texts, NEW N \in SUBSET EditorNodes, Characters \subseteq N, NEW chips \in Seq(N)
  PROVE  PlaceAll(v, chips) \in Placed(v.text, N)
<1>1. PICK g : Places(g, v, chips, N) /\ PlaceAll(v, chips) = g[Len(chips)]
  BY PlacingRuns
<1>2. Len(chips) \in 0..Len(chips)
  OBVIOUS
<1> QED BY <1>1, <1>2, Zenon DEF Places

(* Chips whose tokens come one behind the other are all placed, each over  *)
(* the first occurrence of its token.                                      *)
LEMMA OffsetOfFront ==
  ASSUME NEW a \in Seq(EditorNodes), NEW b \in Seq(EditorNodes), NEW p \in 0..Len(a)
  PROVE  Offset(a \o b, p) = Offset(a, p)
<1> DEFINE d == a \o b
           x == SubSeq(d, 1, p)
           y == SubSeq(a, 1, p)
<1>1. d \in Seq(EditorNodes) /\ Len(a) \in Nat /\ Len(b) \in Nat /\ Len(d) = Len(a) + Len(b)
      /\ \A i \in 1..(Len(a) + Len(b)) : d[i] = IF i <= Len(a) THEN a[i] ELSE b[i - Len(a)]
  BY ConcatProperties
<1> HIDE DEF d
<1>2. /\ 1 \in 1..(Len(a) + 1) /\ p \in (1 - 1)..Len(a) /\ 1 \in 1..(Len(d) + 1) /\ p \in (1 - 1)..Len(d)
      /\ p - 1 + 1 = p /\ \A i \in 1..p : 1 + i - 1 = i /\ i <= Len(a) /\ i \in 1..(Len(a) + Len(b))
  BY <1>1
<1>3. x \in Seq(EditorNodes) /\ Len(x) = p /\ \A i \in 1..p : x[i] = d[i]
  BY <1>1, <1>2, PartTyped
<1>4. y \in Seq(EditorNodes) /\ Len(y) = p /\ \A i \in 1..p : y[i] = a[i]
  BY <1>2, PartTyped
<1> HIDE DEF x, y
<1>5. \A i \in 1..Len(x) : x[i] = y[i]
  BY <1>1, <1>2, <1>3, <1>4
<1>6. x = y
  BY <1>3, <1>4, <1>5, SeqEqual
<1> QED BY <1>6 DEF Offset, x, y, d

LEMMA StandsOn ==
  ASSUME NEW a \in Seq(EditorNodes), NEW b \in Seq(EditorNodes), NEW v, NEW chip, Stands(a, v, chip)
  PROVE  Stands(a \o b, v, chip)
<1>1. PICK p \in 1..Len(a) : a[p] = chip /\ Offset(a, p - 1) + 1 = FirstAt(v, chip)
  BY DEF Stands
<1>2. /\ Len(a) \in Nat /\ Len(b) \in Nat /\ a \o b \in Seq(EditorNodes) /\ Len(a \o b) = Len(a) + Len(b)
      /\ \A i \in 1..(Len(a) + Len(b)) : (a \o b)[i] = IF i <= Len(a) THEN a[i] ELSE b[i - Len(a)]
  BY ConcatProperties
<1>3. p \in DOMAIN (a \o b) /\ p \in 1..(Len(a) + Len(b)) /\ p <= Len(a) /\ p - 1 \in 0..Len(a)
  BY <1>2
<1>4. (a \o b)[p] = chip
  BY <1>1, <1>2, <1>3
<1>5. Offset(a \o b, p - 1) = Offset(a, p - 1)
  BY <1>3, OffsetOfFront
<1> QED BY <1>1, <1>3, <1>4, <1>5 DEF Stands

LEMMA IndexSkips ==
  ASSUME NEW text \in Texts, NEW part \in Texts, NEW from \in Nat \ {0},
         IndexOf(text, part, 1) # 0, from <= IndexOf(text, part, 1)
  PROVE  IndexOf(text, part, from) = IndexOf(text, part, 1)
<1> DEFINE All(n) == {i \in n..Len(text) : IsPrefix(part, SubSeq(text, i, Len(text)))}
<1>1. Len(text) \in Nat
  BY DEF Texts
<1>2. All(1) # {} /\ IndexOf(text, part, 1) = Min(All(1))
  BY Zenon DEF IndexOf
<1>3. All(1) \in SUBSET Nat /\ All(from) \in SUBSET Nat /\ All(from) \subseteq All(1)
  BY <1>1
<1>4. Min(All(1)) \in All(1) /\ \A i \in All(1) : Min(All(1)) <= i
  <2> HIDE DEF All
  <2>1. PICK n \in All(1) : \A i \in All(1) : n <= i
    BY <1>2, <1>3, LeastNumber
  <2> QED BY <2>1 DEF Min
<1>5. PICK n \in Nat : n = Min(All(1))
  BY <1>3, <1>4
<1>6. n \in All(from)
  <2>1. n \in All(1) /\ from <= n
    BY <1>2, <1>4, <1>5
  <2> QED BY <1>1, <2>1
<1>7. Min(All(from)) \in All(from) /\ \A i \in All(from) : Min(All(from)) <= i
  <2> HIDE DEF All
  <2>1. PICK k \in All(from) : \A i \in All(from) : k <= i
    BY <1>3, <1>6, LeastNumber
  <2> QED BY <2>1 DEF Min
<1>8. IndexOf(text, part, from) = Min(All(from))
  BY <1>6, Zenon DEF IndexOf
<1> HIDE DEF All
<1>9. Min(All(from)) = n
  BY <1>3, <1>4, <1>5, <1>6, <1>7
<1> QED BY <1>2, <1>5, <1>8, <1>9

LEMMA PlaceStands ==
  ASSUME NEW v, v.text \in Texts, NEW N \in SUBSET EditorNodes, Characters \subseteq N,
         NEW acc \in Placed(v.text, N), NEW chip \in N,
         FirstAt(v, chip) # 0, acc.cursor <= FirstAt(v, chip)
  PROVE  LET new == Place(v, acc, chip)
         IN  /\ new.cursor = FirstAt(v, chip) + Len(Wire(chip))
             /\ Stands(new.dom, v, chip)
             /\ \A other : Stands(acc.dom, v, other) => Stands(new.dom, v, other)
<1> DEFINE text == v.text
           w == Wire(chip)
           spot == IndexOf(text, w, acc.cursor)
           between == SubSeq(text, acc.cursor, spot - 1)
           longer == acc.dom \o Chars(between)
           d == longer \o <<chip>>
<1>1. text \in Texts /\ w \in Texts /\ Len(text) \in Nat /\ Len(w) \in Nat /\ chip \in EditorNodes
  BY WireTyped DEF Texts
<1>2. acc.cursor \in 1..(Len(text) + 1) /\ acc.dom \in Seq(N) /\ Text(acc.dom) = SubSeq(text, 1, acc.cursor - 1)
  BY DEF Placed
<1>3. spot = FirstAt(v, chip) /\ spot # 0
  <2>1. acc.cursor \in Nat \ {0}
    BY <1>1, <1>2
  <2> HIDE DEF w, text
  <2> QED BY <1>1, <2>1, IndexSkips DEF FirstAt, w, text
<1>4. Place(v, acc, chip) = [cursor |-> spot + Len(w), dom |-> d]
  BY <1>3, Zenon DEF Place
<1>5. spot \in (acc.cursor)..Len(text)
  <2>1. acc.cursor \in Nat \ {0}
    BY <1>1, <1>2
  <2> HIDE DEF text, w
  <2> QED BY <1>1, <1>3, <2>1, IndexIs
<1>6. PICK c \in 1..(Len(text) + 1) : c = acc.cursor
  BY <1>2
<1>7. PICK p \in c..Len(text) : p = spot
  BY <1>5, <1>6
<1> HIDE DEF text, w, spot
<1>8. between \in Texts
  <2>1. p - 1 \in (c - 1)..Len(text)
    BY <1>1, <1>7
  <2>2. SubSeq(text, c, p - 1) \in Seq(Letters)
    BY <1>1, <2>1, PartTyped DEF Texts
  <2> QED BY <1>6, <1>7, <2>2 DEF Texts
<1> HIDE DEF between
<1>9. acc.dom \in Seq(EditorNodes) /\ Chars(between) \in Seq(EditorNodes) /\ <<chip>> \in Seq(EditorNodes)
  <2>1. acc.dom \in Seq(EditorNodes)
    BY <1>2, SeqMonotonic
  <2> QED BY <1>1, <1>8, <2>1, CharsTyped
<1>10. longer \in Seq(EditorNodes) /\ Text(longer) = Text(acc.dom) \o between
  BY <1>8, <1>9, TextConcat, TextOfChars, ConcatProperties
<1>11. Text(longer) = SubSeq(text, 1, p - 1)
  <2>1. 1 \in 1..(Len(text) + 1) /\ c - 1 \in (1 - 1)..Len(text) /\ p - 1 \in (c - 1)..Len(text) /\ c - 1 + 1 = c
    BY <1>1, <1>7
  <2>2. SubSeq(text, 1, c - 1) \o SubSeq(text, c - 1 + 1, p - 1) = SubSeq(text, 1, p - 1)
    BY <1>1, <2>1, ConcatAdjacentSubSeq DEF Texts
  <2> QED BY <1>2, <1>6, <1>7, <1>10, <2>1, <2>2 DEF between, text
<1>12. Len(Text(longer)) = p - 1
  <2>1. 1 \in 1..(Len(text) + 1) /\ p - 1 \in (1 - 1)..Len(text) /\ p - 1 - 1 + 1 = p - 1
    BY <1>1, <1>7
  <2>2. Len(SubSeq(text, 1, p - 1)) = p - 1 - 1 + 1
    BY <1>1, <2>1, PartTyped DEF Texts
  <2> QED BY <1>11, <2>1, <2>2
<1>13. \A other : Stands(acc.dom, v, other) => Stands(d, v, other)
  <2> SUFFICES ASSUME NEW other, Stands(acc.dom, v, other) PROVE Stands(d, v, other)
    OBVIOUS
  <2>1. Stands(longer, v, other)
    BY <1>9, StandsOn
  <2> HIDE DEF longer
  <2> QED BY <1>9, <1>10, <2>1, StandsOn
<1> HIDE DEF longer
<1>14. Stands(d, v, chip)
  <2> DEFINE n == Len(longer)
  <2>1. /\ n \in Nat /\ d \in Seq(EditorNodes) /\ Len(<<chip>>) = 1 /\ Len(d) = n + 1
        /\ \A i \in 1..(n + 1) : d[i] = IF i <= n THEN longer[i] ELSE <<chip>>[i - n]
    BY <1>9, <1>10, ConcatProperties
  <2>2. n + 1 \in 1..(n + 1) /\ ~(n + 1 <= n) /\ n + 1 - n = 1 /\ n + 1 - 1 = n /\ n \in 0..n
    BY <2>1
  <2>3. d[n + 1] = chip /\ n + 1 \in DOMAIN d
    BY <2>1, <2>2
  <2>4. Offset(d, n) = Offset(longer, n)
    BY <1>9, <1>10, <2>2, OffsetOfFront
  <2>5. Offset(longer, n) = p - 1
    <3>1. SubSeq(longer, 1, n) = longer
      BY <1>10, SubSeqFull
    <3> QED BY <1>12, <3>1 DEF Offset
  <2>6. Offset(d, n) + 1 = FirstAt(v, chip)
    BY <1>3, <1>7, <2>4, <2>5
  <2>7. PICK m \in Nat : m = n + 1
    BY <2>1
  <2> HIDE DEF d, n
  <2>8. m - 1 = n
    BY ONLY <2>1, <2>7
  <2>9. m \in DOMAIN d /\ d[m] = chip
    BY ONLY <2>3, <2>7, Zenon
  <2>10. Offset(d, m - 1) + 1 = FirstAt(v, chip)
    BY ONLY <2>6, <2>8, Zenon
  <2> QED BY ONLY <2>9, <2>10, Zenon DEF Stands
<1> HIDE DEF d
<1>15. Place(v, acc, chip).cursor = FirstAt(v, chip) + Len(w) /\ Place(v, acc, chip).dom = d
  BY <1>3, <1>4
<1> QED BY <1>13, <1>14, <1>15 DEF w

InALine(v, chips) ==
  /\ \A i \in 1..Len(chips) : FirstAt(v, chips[i]) # 0
  /\ \A i, j \in 1..Len(chips) : i < j => EndsBefore(v, chips[i], chips[j])

LEMMA AllStand ==
  ASSUME NEW v, v.text \in Texts, NEW N \in SUBSET EditorNodes, Characters \subseteq N, NEW chips \in Seq(N),
         InALine(v, chips)
  PROVE  \A i \in 1..Len(chips) : Stands(PlaceAll(v, chips).dom, v, chips[i])
<1>1. PICK g : Places(g, v, chips, N) /\ PlaceAll(v, chips) = g[Len(chips)]
  BY PlacingRuns
<1>2. /\ g \in [0..Len(chips) -> Placed(v.text, N)] /\ g[0] = [cursor |-> 1, dom |-> << >>]
      /\ \A i \in 1..Len(chips) : g[i] = Place(v, g[i - 1], chips[i])
      /\ Len(chips) \in Nat /\ \A i \in 1..Len(chips) : chips[i] \in N
  BY <1>1 DEF Places
<1> DEFINE T == {i \in 0..Len(chips) :
                   /\ g[i].cursor = IF i = 0 THEN 1 ELSE FirstAt(v, chips[i]) + Len(Wire(chips[i]))
                   /\ \A j \in 1..i : Stands(g[i].dom, v, chips[j])}
<1>3. 0 \in T
  BY <1>2
<1>4. ASSUME NEW i \in 1..Len(chips), i - 1 \in T PROVE i \in T
  <2>1. /\ i \in 0..Len(chips) /\ i # 0 /\ i - 1 \in 0..Len(chips) /\ chips[i] \in N
        /\ \A j \in 1..i : j \in 1..(i - 1) \/ j = i
    BY <1>2
  <2>2. g[i - 1] \in Placed(v.text, N) /\ g[i] = Place(v, g[i - 1], chips[i])
    BY <1>2, <2>1
  <2>3. /\ g[i - 1].cursor = IF i - 1 = 0 THEN 1 ELSE FirstAt(v, chips[i - 1]) + Len(Wire(chips[i - 1]))
        /\ \A j \in 1..(i - 1) : Stands(g[i - 1].dom, v, chips[j])
    BY <1>4
  <2>4. FirstAt(v, chips[i]) # 0 /\ g[i - 1].cursor <= FirstAt(v, chips[i])
    <3>1. FirstAt(v, chips[i]) # 0
      BY DEF InALine
    <3>2. CASE i - 1 = 0
      <4>1. FirstAt(v, chips[i]) \in 1..Len(v.text)
        <5>1. Wire(chips[i]) \in Texts /\ 1 \in Nat \ {0}
          BY <2>1, WireTyped
        <5> QED BY <3>1, <5>1, IndexIs DEF FirstAt
      <4> QED BY <2>3, <3>1, <3>2, <4>1
    <3>3. CASE i - 1 # 0
      <4>1. i - 1 \in 1..Len(chips) /\ i - 1 < i
        BY <1>2, <3>3
      <4>2. EndsBefore(v, chips[i - 1], chips[i])
        BY <4>1 DEF InALine
      <4> QED BY <2>3, <3>1, <3>3, <4>2 DEF EndsBefore
    <3> QED BY <3>2, <3>3
  <2>5. /\ g[i].cursor = FirstAt(v, chips[i]) + Len(Wire(chips[i]))
        /\ Stands(g[i].dom, v, chips[i])
        /\ \A other : Stands(g[i - 1].dom, v, other) => Stands(g[i].dom, v, other)
    <3> DEFINE acc == g[i - 1]
               new == Place(v, acc, chips[i])
    <3>1. acc \in Placed(v.text, N) /\ FirstAt(v, chips[i]) # 0 /\ acc.cursor <= FirstAt(v, chips[i])
      BY <2>2, <2>4
    <3> HIDE DEF acc
    <3>2. /\ new.cursor = FirstAt(v, chips[i]) + Len(Wire(chips[i]))
          /\ Stands(new.dom, v, chips[i])
          /\ \A other : Stands(acc.dom, v, other) => Stands(new.dom, v, other)
      BY ONLY <2>1, <3>1, PlaceStands, v.text \in Texts, N \in SUBSET EditorNodes, Characters \subseteq N, Zenon
    <3> QED BY <2>2, <3>2, Zenon DEF acc
  <2>6. \A j \in 1..i : Stands(g[i].dom, v, chips[j])
    BY <2>1, <2>3, <2>5
  <2> QED BY <2>1, <2>5, <2>6
<1> HIDE DEF T
<1>5. Len(chips) \in T
  <2>1. \A i \in 0..Len(chips) : i \in T
    BY <1>2, <1>3, <1>4, CountUp, Zenon
  <2>2. Len(chips) \in 0..Len(chips)
    BY <1>2
  <2> QED BY <2>1, <2>2
<1> QED BY <1>1, <1>5 DEF T

(* What stands in the editor once a value is painted.                      *)
RefChipsOf(v) == {RefChip(v.refs[i]) : i \in DOMAIN v.refs}
FileChipsOf(v) == {FileChip(v.files[i]) : i \in DOMAIN v.files}
Paintable(v) == Characters \cup RefChipsOf(v) \cup FileChipsOf(v)

LEMMA PaintableNodes == ASSUME NEW v, Sound(v) PROVE Paintable(v) \in SUBSET EditorNodes
<1>1. \A i \in DOMAIN v.refs : RefChip(v.refs[i]) \in EditorNodes
  BY DEF Sound, RefChip, EditorNodes
<1>2. \A i \in DOMAIN v.files : FileChip(v.files[i]) \in EditorNodes
  <2> SUFFICES ASSUME NEW i \in DOMAIN v.files PROVE FileChip(v.files[i]) \in EditorNodes
    OBVIOUS
  <2>1. PICK a \in Attached : a = v.files[i]
    BY DEF Sound
  <2>2. [a EXCEPT !.data = Null] \in Attached
    BY DEF Attached
  <2> QED BY <2>1, <2>2 DEF FileChip, EditorNodes
<1>3. Characters \subseteq EditorNodes
  BY DEF Characters, EditorNodes
<1>4. RefChipsOf(v) \subseteq EditorNodes
  BY <1>1 DEF RefChipsOf
<1>5. FileChipsOf(v) \subseteq EditorNodes
  BY <1>2 DEF FileChipsOf
<1> QED BY <1>3, <1>4, <1>5 DEF Paintable

(* Some of a list, one by one: what a chain of filter and map leaves.      *)
LEMMA SomeTyped ==
  ASSUME NEW S, NEW n \in Nat, NEW each, each = [i \in 1..n |-> each[i]],
         \A i \in 1..n : each[i] = << >> \/ \E e \in S : each[i] = <<e>>
  PROVE  FlattenSeq(each) \in Seq(S)
<1>1. \A i \in 1..n : each[i] \in Seq(S)
  <2>1. << >> \in Seq(S) /\ \A e \in S : <<e>> \in Seq(S)
    OBVIOUS
  <2> QED BY <2>1, Zenon
<1>2. [i \in 1..n |-> each[i]] \in Seq(Seq(S))
  BY <1>1, IsASeq
<1> QED BY <1>2, FlattenTyped

(* The chips a value has, none of them with an empty token.                *)
ChipsOf(v) == {n \in RefChipsOf(v) \cup FileChipsOf(v) : IsChip(n) /\ Wire(n) # << >>}

LEMMA ChipsTyped == ASSUME NEW v, Sound(v) PROVE Chips(v) \in Seq(ChipsOf(v))
<1> DEFINE N == ChipsOf(v)
           each == [i \in DOMAIN v.refs |-> IF v.refs[i].asChip /\ v.refs[i].token # << >>
                                            THEN <<RefChip(v.refs[i])>> ELSE << >>]
           own == [i \in DOMAIN v.files |-> IF v.files[i].token # << >>
                                            THEN <<FileChip(v.files[i])>> ELSE << >>]
<1>1. Len(v.refs) \in Nat /\ DOMAIN v.refs = 1..Len(v.refs) /\ Len(v.files) \in Nat /\ DOMAIN v.files = 1..Len(v.files)
  BY DEF Sound
<1>2. FlattenSeq(each) \in Seq(N)
  <2>1. \A i \in 1..Len(v.refs) : v.refs[i].token # << >> => RefChip(v.refs[i]) \in N
    <3> SUFFICES ASSUME NEW i \in 1..Len(v.refs), v.refs[i].token # << >> PROVE RefChip(v.refs[i]) \in N
      OBVIOUS
    <3>1. RefChip(v.refs[i]) \in RefChipsOf(v)
      BY <1>1 DEF RefChipsOf
    <3>2. RefChip(v.refs[i]).t = "ref" /\ RefChip(v.refs[i]).ref = v.refs[i]
      BY DEF RefChip
    <3>3. IsChip(RefChip(v.refs[i])) /\ Wire(RefChip(v.refs[i])) = v.refs[i].token
      BY <3>2 DEF IsChip, Wire
    <3> QED BY <3>1, <3>3 DEF ChipsOf
  <2>2. \A i \in 1..Len(v.refs) :
          each[i] = << >> \/ (v.refs[i].token # << >> /\ each[i] = <<RefChip(v.refs[i])>>)
    BY <1>1
  <2>3. each = [i \in 1..Len(v.refs) |-> each[i]]
    BY <1>1
  <2> HIDE DEF N, each
  <2> QED BY <1>1, <2>1, <2>2, <2>3, SomeTyped
<1>3. FlattenSeq(own) \in Seq(N)
  <2>1. \A i \in 1..Len(v.files) : v.files[i].token # << >> => FileChip(v.files[i]) \in N
    <3> SUFFICES ASSUME NEW i \in 1..Len(v.files), v.files[i].token # << >> PROVE FileChip(v.files[i]) \in N
      OBVIOUS
    <3>1. FileChip(v.files[i]) \in FileChipsOf(v)
      BY <1>1 DEF FileChipsOf
    <3>2. PICK f \in Attached : f = v.files[i]
      BY <1>1 DEF Sound
    <3>3. [f EXCEPT !.data = Null].token = f.token
      BY DEF Attached
    <3>4. FileChip(f).t = "file" /\ FileChip(f).file = [f EXCEPT !.data = Null]
      BY DEF FileChip
    <3>5. IsChip(FileChip(f)) /\ Wire(FileChip(f)) = f.token
      BY <3>3, <3>4 DEF IsChip, Wire
    <3> QED BY <3>1, <3>2, <3>5 DEF ChipsOf
  <2>2. \A i \in 1..Len(v.files) :
          own[i] = << >> \/ (v.files[i].token # << >> /\ own[i] = <<FileChip(v.files[i])>>)
    BY <1>1
  <2>3. own = [i \in 1..Len(v.files) |-> own[i]]
    BY <1>1
  <2> HIDE DEF N, own
  <2> QED BY <1>1, <2>1, <2>2, <2>3, SomeTyped
<1>4. Chips(v) = FlattenSeq(each) \o FlattenSeq(own)
  BY Zenon DEF Chips
<1> HIDE DEF N, each, own
<1>5. FlattenSeq(each) \o FlattenSeq(own) \in Seq(N)
  BY <1>2, <1>3, ConcatProperties
<1> QED BY <1>4, <1>5 DEF N

(* What a painted value may show.                                          *)
Shown(v) == Characters \cup Range(Chips(v))

LEMMA ShownIs ==
  ASSUME NEW v, Sound(v)
  PROVE  /\ Chips(v) \in Seq(Range(Chips(v))) /\ Range(Chips(v)) \subseteq ChipsOf(v)
         /\ Characters \subseteq Shown(v) /\ Shown(v) \subseteq Paintable(v) /\ Shown(v) \in SUBSET EditorNodes
<1>1. Chips(v) \in Seq(ChipsOf(v))
  BY ChipsTyped
<1>2. Range(Chips(v)) \subseteq ChipsOf(v)
  BY <1>1 DEF Range
<1>3. Chips(v) \in Seq(Range(Chips(v)))
  <2>1. Len(Chips(v)) \in Nat /\ DOMAIN Chips(v) = 1..Len(Chips(v)) /\ Chips(v) = [i \in 1..Len(Chips(v)) |-> Chips(v)[i]]
    BY <1>1
  <2>2. \A i \in 1..Len(Chips(v)) : Chips(v)[i] \in Range(Chips(v))
    BY <2>1 DEF Range
  <2> QED BY <2>1, <2>2, IsASeq
<1>4. Shown(v) \subseteq Paintable(v)
  BY <1>2 DEF Shown, Paintable, ChipsOf
<1> QED BY <1>2, <1>3, <1>4, PaintableNodes DEF Shown

LEMMA ChipsStand ==
  ASSUME NEW v, Sound(v), Apart(v), NEW chip \in Range(Chips(v))
  PROVE  Stands(PlaceAll(v, ChipsInOrder(v)).dom, v, chip)
<1> DEFINE chips == Chips(v)
           S == Range(chips)
           key == [c \in S |-> FirstAt(v, c)]
           row == ChipsInOrder(v)
<1>1. /\ chips \in Seq(S) /\ Len(chips) \in Nat /\ DOMAIN chips = 1..Len(chips) /\ v.text \in Texts
      /\ S \subseteq EditorNodes /\ S \subseteq Shown(v)
      /\ \A c \in S : Wire(c) # << >>
  BY ShownIs DEF Sound, Shown, ChipsOf
<1>2. \A c \in S : FirstAt(v, c) \in Nat \ {0} /\ Len(Wire(c)) \in Nat \ {0}
  <2> SUFFICES ASSUME NEW c \in S PROVE FirstAt(v, c) \in Nat \ {0} /\ Len(Wire(c)) \in Nat \ {0}
    OBVIOUS
  <2>1. Wire(c) \in Texts /\ Wire(c) # << >>
    BY <1>1, WireTyped
  <2>2. FirstAt(v, c) # 0
    BY DEF Apart
  <2>3. FirstAt(v, c) \in 1..Len(v.text)
    BY <1>1, <2>1, <2>2, IndexIs DEF FirstAt
  <2>4. Len(Wire(c)) \in Nat \ {0}
    BY <2>1, EmptySeq DEF Texts
  <2> QED BY <2>3, <2>4
<1>3. \A i, j \in 1..Len(chips) : i # j => EndsBefore(v, chips[i], chips[j]) \/ EndsBefore(v, chips[j], chips[i])
  BY <1>1 DEF Apart
<1>4. row = SortedBy(chips, key)
  BY Zenon DEF ChipsInOrder
<1>5. key \in [S -> Nat] /\ \A c \in S : key[c] = FirstAt(v, c)
  BY <1>2
<1> HIDE DEF chips, S, key, row
<1>6. \A i \in 1..Len(chips) : chips[i] \in S
  BY <1>1
<1>7. \A i, j \in 1..Len(chips) : i # j => key[chips[i]] # key[chips[j]]
  <2> SUFFICES ASSUME NEW i \in 1..Len(chips), NEW j \in 1..Len(chips), i # j PROVE key[chips[i]] # key[chips[j]]
    OBVIOUS
  <2>1. /\ FirstAt(v, chips[i]) \in Nat /\ Len(Wire(chips[i])) \in Nat \ {0}
        /\ FirstAt(v, chips[j]) \in Nat /\ Len(Wire(chips[j])) \in Nat \ {0}
    BY <1>2, <1>6
  <2>2. FirstAt(v, chips[i]) # FirstAt(v, chips[j])
    BY <1>3, <2>1 DEF EndsBefore
  <2> QED BY <1>5, <1>6, <2>2
<1>8. row \in Seq(S) /\ Rising(row, key) /\ Range(row) = Range(chips)
  BY <1>1, <1>4, <1>5, <1>7, SortedTyped, SortedRises
<1>9. \A i \in 1..Len(row) : row[i] \in S /\ \E a \in 1..Len(chips) : row[i] = chips[a]
  <2>1. \A i \in 1..Len(row) : row[i] \in Range(row)
    BY <1>8 DEF Range
  <2>2. \A x \in Range(chips) : \E a \in 1..Len(chips) : x = chips[a]
    BY <1>1 DEF Range
  <2> QED BY <1>6, <1>8, <2>1, <2>2
<1>10. InALine(v, row)
  <2>1. ASSUME NEW i \in 1..Len(row), NEW j \in 1..Len(row), i < j PROVE EndsBefore(v, row[i], row[j])
    <3>1. PICK a \in 1..Len(chips), b \in 1..Len(chips) : row[i] = chips[a] /\ row[j] = chips[b]
      BY <1>9
    <3>2. key[row[i]] < key[row[j]]
      BY <1>8, <2>1 DEF Rising
    <3>3. FirstAt(v, row[i]) < FirstAt(v, row[j])
      BY <1>5, <1>9, <3>2
    <3>4. /\ FirstAt(v, row[i]) \in Nat /\ Len(Wire(row[i])) \in Nat
          /\ FirstAt(v, row[j]) \in Nat /\ Len(Wire(row[j])) \in Nat
      BY <1>2, <1>9
    <3>5. a # b
      BY <3>1, <3>3, <3>4
    <3>6. EndsBefore(v, row[i], row[j]) \/ EndsBefore(v, row[j], row[i])
      BY <1>3, <3>1, <3>5
    <3> QED BY <3>3, <3>4, <3>6 DEF EndsBefore
  <2>2. \A i \in 1..Len(row) : FirstAt(v, row[i]) # 0
    BY <1>2, <1>9
  <2> QED BY <2>1, <2>2 DEF InALine
<1>11. row \in Seq(Shown(v)) /\ Shown(v) \in SUBSET EditorNodes /\ Characters \subseteq Shown(v)
  BY <1>1, <1>8, ShownIs, SeqMonotonic
<1>12. \A i \in 1..Len(row) : Stands(PlaceAll(v, row).dom, v, row[i])
  BY <1>1, <1>10, <1>11, AllStand
<1>13. PICK i \in 1..Len(row) : row[i] = chip
  <2>1. chip \in Range(row)
    BY <1>8 DEF chips
  <2> QED BY <1>8, <2>1 DEF Range
<1> QED BY <1>12, <1>13 DEF row

LEMMA Painted ==
  ASSUME NEW v, Sound(v)
  PROVE  /\ PaintComposer(v) \in Seq(Shown(v)) /\ Text(PaintComposer(v)) = v.text
         /\ Apart(v) => \A chip \in Range(Chips(v)) : Stands(PaintComposer(v), v, chip)
<1> DEFINE N == Shown(v)
           chips == ChipsInOrder(v)
           acc == PlaceAll(v, chips)
           behind == SubSeq(v.text, acc.cursor, Len(v.text))
<1>1. v.text \in Texts /\ Len(v.text) \in Nat /\ N \in SUBSET EditorNodes /\ Characters \subseteq N
  <2>1. v.text \in Texts
    BY Zenon DEF Sound
  <2>2. Len(v.text) \in Nat
    BY <2>1, LenProperties DEF Texts
  <2>3. Characters \subseteq N /\ N \in SUBSET EditorNodes
    BY ShownIs
  <2> QED BY <2>1, <2>2, <2>3
<1>2. chips \in Seq(N)
  <2>1. Chips(v) \in Seq(N)
    BY ShownIs, SeqMonotonic DEF Shown
  <2>2. \E key : chips = SortedBy(Chips(v), key)
    BY Zenon DEF ChipsInOrder
  <2> HIDE DEF N, chips
  <2> QED BY <2>1, <2>2, SortedTyped
<1> HIDE DEF N, chips
<1>3. acc \in Placed(v.text, N)
  BY <1>1, <1>2, PlacedAll
<1> HIDE DEF acc
<1>4. PICK c \in 1..(Len(v.text) + 1) : c = acc.cursor
  BY <1>3 DEF Placed
<1>5. acc.dom \in Seq(N) /\ Text(acc.dom) = SubSeq(v.text, 1, c - 1)
  BY <1>3, <1>4 DEF Placed
<1>6. behind \in Texts /\ SubSeq(v.text, 1, c - 1) \o behind = v.text
  <2>1. /\ 1 \in 1..(Len(v.text) + 1) /\ c - 1 \in (1 - 1)..Len(v.text) /\ Len(v.text) \in (c - 1)..Len(v.text)
        /\ c - 1 + 1 = c
    BY <1>1
  <2>2. SubSeq(v.text, 1, c - 1) \o SubSeq(v.text, c - 1 + 1, Len(v.text)) = SubSeq(v.text, 1, Len(v.text))
    BY <1>1, <2>1, ConcatAdjacentSubSeq DEF Texts
  <2>3. SubSeq(v.text, 1, Len(v.text)) = v.text
    BY <1>1, SubSeqFull DEF Texts
  <2>4. SubSeq(v.text, c, Len(v.text)) \in Seq(Letters)
    BY <1>1, <2>1, PartTyped DEF Texts
  <2> QED BY <1>4, <2>1, <2>2, <2>3, <2>4 DEF Texts
<1> HIDE DEF behind
<1>7. /\ Chars(behind) \in Seq(N) /\ Chars(behind) \in Seq(EditorNodes) /\ acc.dom \in Seq(EditorNodes)
      /\ Text(Chars(behind)) = behind
  <2>1. Chars(behind) \in Seq(Characters)
    BY <1>6, CharsAreChars
  <2> QED BY <1>1, <1>5, <1>6, <2>1, SeqMonotonic, TextOfChars
<1>8. acc.dom \o Chars(behind) \in Seq(N) /\ Text(acc.dom \o Chars(behind)) = v.text
  BY <1>5, <1>6, <1>7, TextConcat, ConcatProperties
<1>9. PaintComposer(v) = acc.dom \o Chars(behind)
  BY Zenon DEF PaintComposer, acc, chips, behind
<1>10. ASSUME Apart(v), NEW chip \in Range(Chips(v)) PROVE Stands(PaintComposer(v), v, chip)
  <2>1. Stands(acc.dom, v, chip)
    BY <1>10, ChipsStand DEF acc, chips
  <2> QED BY <1>7, <1>9, <2>1, StandsOn
<1> QED BY <1>8, <1>9, <1>10 DEF N
-----------------------------------------------------------------------------
(* Reading the editor.                                                     *)
HasBoth(b, a, c) ==
  /\ \A j \in 1..Len(a) : \E n \in 1..Len(b) : b[n] = a[j]
  /\ \A j \in 1..Len(c) : \E n \in 1..Len(b) : b[n] = c[j]

LEMMA ConcatParts == ASSUME NEW S, NEW a \in Seq(S), NEW c \in Seq(S) PROVE HasBoth(a \o c, a, c)
<1> DEFINE b == a \o c
<1> HIDE DEF b
<1>1. ASSUME NEW x \in Nat, NEW y \in Nat, NEW z, z = x + y,
             \A j \in 1..(x + y) : b[j] = IF j <= x THEN a[j] ELSE c[j - x]
      PROVE  /\ \A j \in 1..x : \E n \in 1..z : b[n] = a[j]
             /\ \A j \in 1..y : \E n \in 1..z : b[n] = c[j]
  <2>1. \A j \in 1..x : j \in 1..z /\ j <= x
    BY <1>1
  <2>2. \A j \in 1..y : x + j \in 1..z /\ ~(x + j <= x) /\ x + j - x = j
    BY <1>1
  <2> QED BY <1>1, <2>1, <2>2
<1>2. /\ Len(a) \in Nat /\ Len(c) \in Nat /\ Len(a \o c) = Len(a) + Len(c)
      /\ \A j \in 1..(Len(a) + Len(c)) : (a \o c)[j] = IF j <= Len(a) THEN a[j] ELSE c[j - Len(a)]
  BY ConcatProperties, LenProperties
<1>3. /\ \A j \in 1..Len(a) : \E n \in 1..Len(b) : b[n] = a[j]
      /\ \A j \in 1..Len(c) : \E n \in 1..Len(b) : b[n] = c[j]
  <2>1. PICK x \in Nat, y \in Nat, z \in {Len(b)} : x = Len(a) /\ y = Len(c) /\ z = Len(b)
    BY <1>2
  <2>2. z = x + y /\ \A j \in 1..(x + y) : b[j] = IF j <= x THEN a[j] ELSE c[j - x]
    BY <1>2, <2>1 DEF b
  <2>3. /\ \A j \in 1..x : \E n \in 1..z : b[n] = a[j]
        /\ \A j \in 1..y : \E n \in 1..z : b[n] = c[j]
    BY <1>1, <2>2
  <2> QED BY <2>1, <2>3
<1> QED BY <1>3 DEF b, HasBoth

LEMMA FlattenHas ==
  ASSUME NEW S
  PROVE  \A t \in Seq(Seq(S)) : \A m \in 1..Len(t) : \A n \in 1..Len(t[m]) :
           \E j \in 1..Len(FlattenSeq(t)) : FlattenSeq(t)[j] = t[m][n]
<1> DEFINE Has(t, e) == \E j \in 1..Len(t) : t[j] = e
           Good == {t \in Seq(Seq(S)) : \A m \in 1..Len(t) : \A n \in 1..Len(t[m]) : Has(FlattenSeq(t), t[m][n])}
<1>1. << >> \in Good
  BY EmptySeq
<1>2. ASSUME NEW t \in Seq(Seq(S)), t \in Good, NEW c \in Seq(S) PROVE Append(t, c) \in Good
  <2>1. /\ Append(t, c) \in Seq(Seq(S)) /\ Len(Append(t, c)) = Len(t) + 1 /\ Len(t) \in Nat
        /\ \A m \in 1..Len(t) : Append(t, c)[m] = t[m]
        /\ Append(t, c)[Len(t) + 1] = c
    BY AppendProperties, LenProperties
  <2>2. FlattenSeq(Append(t, c)) = FlattenSeq(t) \o c /\ FlattenSeq(t) \in Seq(S)
    BY FlattenAppend, FlattenTyped
  <2> DEFINE a == FlattenSeq(t)
             b == a \o c
  <2>3. /\ \A j \in 1..Len(a) : Has(b, a[j])
        /\ \A j \in 1..Len(c) : Has(b, c[j])
    <3>1. a \in Seq(S)
      BY <2>2
    <3> HIDE DEF a
    <3> HIDE DEF Good, Has
    <3>2. HasBoth(a \o c, a, c)
      BY <3>1, ConcatParts
    <3> QED BY <3>2, Zenon DEF HasBoth, Has
  <2> HIDE DEF b
  <2>4. \A e : Has(a, e) => Has(b, e)
    <3> HIDE DEF a
    <3> QED BY <2>3, Zenon
  <2>5. \A m \in 1..Len(t) : \A n \in 1..Len(t[m]) : Has(a, t[m][n])
    BY <1>2
  <2> HIDE DEF Has, a
  <2>6. \A m \in 1..(Len(t) + 1) : m \in 1..Len(t) \/ m = Len(t) + 1
    <3>1. Len(t) \in Nat
      BY <2>1
    <3> QED BY <3>1
  <2>7. \A m \in 1..(Len(t) + 1) : \A n \in 1..Len(Append(t, c)[m]) : Has(b, Append(t, c)[m][n])
    BY <2>1, <2>3, <2>4, <2>5, <2>6, Zenon
  <2> QED BY <2>1, <2>2, <2>7 DEF a, b
<1> HIDE DEF Good
<1>3. \A t \in Seq(Seq(S)) : t \in Good
  BY <1>1, <1>2, RowInduction
<1> QED BY <1>3 DEF Good

FilesOf(d) == {d[i].file : i \in {k \in DOMAIN d : d[k].t = "file"}}
RefsOf(d) == {d[i].ref : i \in {k \in DOMAIN d : d[k].t = "ref"}}

(* Each file of an editor d is one of the value v.                         *)
Backed(d, v) == \A f \in FilesOf(d) : \E j \in DOMAIN v.files : v.files[j].id = f.id

LEMMA NodesHold ==
  ASSUME NEW d \in Seq(EditorNodes)
  PROVE  FilesOf(d) \subseteq Attached /\ RefsOf(d) \subseteq Refs
<1>1. \A i \in DOMAIN d : d[i] \in EditorNodes
  OBVIOUS
<1>2. \A n \in EditorNodes : (n.t = "file" => n.file \in Attached) /\ (n.t = "ref" => n.ref \in Refs)
  BY DEF EditorNodes
<1> QED BY <1>1, <1>2 DEF FilesOf, RefsOf

LEMMA SerializeTyped ==
  ASSUME NEW d \in Seq(EditorNodes), NEW c, c.at \in 0..Len(d)
  PROVE  /\ Serialize(d, c).text = Text(d) /\ Text(d) \in Texts
         /\ Serialize(d, c).caret \in 0..Len(Text(d))
         /\ Serialize(d, c).refs \in Seq(RefsOf(d))
         /\ Serialize(d, c).files \in Seq(FilesOf(d))
         /\ \A f \in FilesOf(d) : \E j \in DOMAIN Serialize(d, c).files : Serialize(d, c).files[j] = f
         /\ Serialize(d, c).pristine = FALSE
<1> DEFINE refs == [i \in DOMAIN d |-> IF d[i].t = "ref" THEN <<d[i].ref>> ELSE << >>]
           those == [i \in DOMAIN d |-> IF d[i].t = "file" THEN <<d[i].file>> ELSE << >>]
           offset == IF c.inText THEN Offset(d, c.at) ELSE Len(Text(d))
           S == FilesOf(d)
           R == RefsOf(d)
<1>1. Len(d) \in Nat /\ DOMAIN d = 1..Len(d)
  OBVIOUS
<1>2. /\ Serialize(d, c).text = Text(d) /\ Serialize(d, c).caret = offset
      /\ Serialize(d, c).refs = FlattenSeq(refs) /\ Serialize(d, c).files = FlattenSeq(those)
      /\ Serialize(d, c).pristine = FALSE
  BY Zenon DEF Serialize
<1>3. Text(d) \in Texts /\ offset \in 0..Len(Text(d))
  <2>1. Offset(d, c.at) \in 0..Len(Text(d)) /\ Len(Text(d)) \in Nat
    BY OffsetTyped
  <2> QED BY <2>1, TextTyped
<1>4. FlattenSeq(refs) \in Seq(R)
  <2>1. \A i \in 1..Len(d) : refs[i] = << >> \/ (d[i].ref \in R /\ refs[i] = <<d[i].ref>>)
    BY <1>1 DEF RefsOf
  <2>2. refs = [i \in 1..Len(d) |-> refs[i]]
    BY <1>1
  <2> HIDE DEF refs, R
  <2> QED BY <1>1, <2>1, <2>2, SomeTyped
<1>5. /\ \A i \in 1..Len(d) : those[i] = << >> \/ (d[i].file \in S /\ those[i] = <<d[i].file>>)
      /\ those = [i \in 1..Len(d) |-> those[i]]
      /\ \A i \in 1..Len(d) : d[i].t = "file" => those[i] = <<d[i].file>>
  <2>1. \A i \in 1..Len(d) : those[i] = << >> \/ (d[i].file \in S /\ those[i] = <<d[i].file>>)
    BY <1>1 DEF FilesOf
  <2>2. those = [i \in 1..Len(d) |-> those[i]]
    BY <1>1
  <2>3. \A i \in 1..Len(d) : d[i].t = "file" => those[i] = <<d[i].file>>
    BY <1>1
  <2> QED BY <2>1, <2>2, <2>3
<1> HIDE DEF those
<1>6. FlattenSeq(those) \in Seq(S)
  <2> HIDE DEF S
  <2> QED BY <1>1, <1>5, SomeTyped
<1>7. ASSUME NEW f \in S PROVE \E j \in DOMAIN FlattenSeq(those) : FlattenSeq(those)[j] = f
  <2>1. PICK i \in DOMAIN d : d[i].t = "file" /\ f = d[i].file
    BY DEF FilesOf
  <2> HIDE DEF S
  <2>2. i \in 1..Len(d) /\ those[i] = <<f>>
    BY <1>1, <1>5, <2>1
  <2>3. those \in Seq(Seq(S)) /\ Len(those) = Len(d)
    <3>1. << >> \in Seq(S) /\ \A e \in S : <<e>> \in Seq(S)
      OBVIOUS
    <3>2. \A m \in 1..Len(d) : those[m] \in Seq(S)
      BY <1>5, <3>1, Zenon
    <3>3. [m \in 1..Len(d) |-> those[m]] \in Seq(Seq(S))
      BY <1>1, <3>2, IsASeq
    <3>4. Len([m \in 1..Len(d) |-> those[m]]) = Len(d)
      BY <1>1
    <3> QED BY <1>5, <3>3, <3>4
  <2>4. i \in 1..Len(those) /\ 1 \in 1..Len(those[i]) /\ those[i][1] = f
    BY <2>2, <2>3
  <2>5. \E j \in 1..Len(FlattenSeq(those)) : FlattenSeq(those)[j] = those[i][1]
    BY <2>3, <2>4, FlattenHas
  <2>6. DOMAIN FlattenSeq(those) = 1..Len(FlattenSeq(those))
    BY <1>6
  <2> QED BY <2>4, <2>5, <2>6
<1> HIDE DEF refs, offset
<1> QED BY <1>2, <1>3, <1>4, <1>6, <1>7, Zenon
(* Files that are typed and have their payloads, those of d among them.    *)
WellMerged(d, merged) ==
  /\ merged \in Seq(Attached)
  /\ \A j \in DOMAIN merged : merged[j].data = merged[j].id
  /\ \A f \in FilesOf(d) : \E j \in DOMAIN merged : merged[j].id = f.id

LEMMA FilesMerged ==
  ASSUME NEW d \in Seq(EditorNodes), NEW c, c.at \in 0..Len(d), NEW v, Sound(v), Own(v), Backed(d, v),
         NEW merged, merged = MergeComposerAttachments(Serialize(d, c), v.files)
  PROVE  WellMerged(d, merged)
<1> DEFINE read == Serialize(d, c).files
           same(f) == WithId(v.files, f)
           one(f) == Restored(f, v.files, IF same(f) # {} THEN same(f) ELSE WithToken(v.files, f))
<1>1. /\ read \in Seq(FilesOf(d)) /\ FilesOf(d) \subseteq Attached
      /\ \A f \in FilesOf(d) : \E j \in DOMAIN read : read[j] = f
  <2>1. FilesOf(d) \subseteq Attached
    BY NodesHold
  <2>2. /\ Serialize(d, c).files \in Seq(FilesOf(d))
        /\ \A f \in FilesOf(d) : \E j \in DOMAIN Serialize(d, c).files : Serialize(d, c).files[j] = f
    BY SerializeTyped, Zenon
  <2> QED BY <2>1, <2>2, Zenon
<1>2. merged = [i \in DOMAIN read |-> one(read[i])]
  BY Zenon DEF MergeComposerAttachments
<1>3. ASSUME NEW f \in FilesOf(d) PROVE one(f) \in Attached /\ one(f).data = one(f).id /\ one(f).id = f.id
  <2>1. same(f) # {} /\ same(f) \in SUBSET (0..Len(v.files)) /\ Len(v.files) \in Nat
    <3>1. v.files \in Seq(Attached) /\ DOMAIN v.files = 1..Len(v.files) /\ Len(v.files) \in Nat
      BY DEF Sound
    <3>2. \E j \in DOMAIN v.files : v.files[j].id = f.id
      BY DEF Backed
    <3> QED BY <3>1, <3>2 DEF WithId
  <2>2. Max(same(f)) \in same(f)
    <3> DEFINE T == same(f)
               n == Len(v.files)
    <3>1. n \in Nat /\ T \in SUBSET (0..n) /\ T # {}
      BY <2>1
    <3> HIDE DEF T, n
    <3>2. Max(T) \in T
      BY <3>1, MaxIs
    <3> QED BY <3>2 DEF T
  <2>3. PICK j \in DOMAIN v.files : j = Max(same(f)) /\ v.files[j].id = f.id
    BY <2>2 DEF WithId
  <2>4. v.files[j].data = f.id
    BY <2>3 DEF Own
  <2>5. one(f) = [f EXCEPT !.data = v.files[j].data]
    BY <2>1, <2>3, Zenon DEF Restored
  <2>6. f \in Attached
    BY <1>1
  <2>7. [f EXCEPT !.data = f.id] \in Attached /\ [f EXCEPT !.data = f.id].data = f.id
        /\ [f EXCEPT !.data = f.id].id = f.id
    BY <2>6 DEF Attached
  <2> QED BY <2>4, <2>5, <2>7
<1> HIDE DEF read, one
<1>4. Len(read) \in Nat /\ DOMAIN read = 1..Len(read) /\ \A i \in 1..Len(read) : read[i] \in FilesOf(d)
  BY <1>1
<1>5. merged \in Seq(Attached)
  <2>1. \A i \in 1..Len(read) : one(read[i]) \in Attached
    BY <1>3, <1>4
  <2>2. [i \in 1..Len(read) |-> one(read[i])] \in Seq(Attached)
    BY <1>4, <2>1, IsASeq
  <2> QED BY <1>2, <1>4, <2>2
<1>6. DOMAIN merged = DOMAIN read /\ \A j \in DOMAIN read : merged[j] = one(read[j]) /\ read[j] \in FilesOf(d)
  BY <1>2, <1>4
<1>7. \A j \in DOMAIN merged : merged[j].data = merged[j].id
  BY <1>3, <1>6
<1>8. \A f \in FilesOf(d) : \E j \in DOMAIN merged : merged[j].id = f.id
  BY <1>1, <1>3, <1>6
<1> QED BY <1>5, <1>7, <1>8 DEF WellMerged

LEMMA RefsMerged ==
  ASSUME NEW read, NEW previous, read.refs \in Seq(Refs), previous \in Seq(Refs)
  PROVE  MergeComposerRefs(read, previous) \in Seq(Refs)
<1> DEFINE each == [i \in DOMAIN previous |->
                      IF ~previous[i].asChip /\ previous[i].token # << >> /\ Occurs(previous[i].token, read.text)
                      THEN <<previous[i]>> ELSE << >>]
           kept == TextOnly(previous, read.text)
           all == read.refs \o kept
<1>1. Len(previous) \in Nat /\ DOMAIN previous = 1..Len(previous) /\ \A i \in 1..Len(previous) : previous[i] \in Refs
  OBVIOUS
<1>2. kept \in Seq(Refs)
  <2>1. \A i \in 1..Len(previous) : each[i] = << >> \/ each[i] = <<previous[i]>>
    BY <1>1
  <2>2. each = [i \in 1..Len(previous) |-> each[i]]
    BY <1>1
  <2>3. kept = FlattenSeq(each)
    BY Zenon DEF TextOnly
  <2> HIDE DEF each, kept
  <2>4. FlattenSeq(each) \in Seq(Refs)
    BY <1>1, <2>1, <2>2, SomeTyped
  <2> QED BY <2>3, <2>4
<1>3. MergeComposerRefs(read, previous) = read.refs \/ \E key : MergeComposerRefs(read, previous) = SortedBy(all, key)
  BY Zenon DEF MergeComposerRefs
<1> HIDE DEF kept
<1>4. all \in Seq(Refs)
  BY <1>2, ConcatProperties
<1> HIDE DEF all
<1>5. \A key : SortedBy(all, key) \in Seq(Refs)
  BY <1>4, SortedTyped
<1> QED BY <1>3, <1>5

(* What is read from an editor whose files are known is sound, and has     *)
(* every one of them with its payload.                                     *)
LEMMA ReadIs ==
  ASSUME Sound(value), Own(value), NEW d \in Seq(EditorNodes), NEW c, c.at \in 0..Len(d), Backed(d, value)
  PROVE  /\ Sound(ReadEditor(d, c)) /\ Own(ReadEditor(d, c)) /\ Backed(d, ReadEditor(d, c))
<1> DEFINE read == Serialize(d, c)
           r == MergeComposerRefs(read, value.refs)
           f == MergeComposerAttachments(read, value.files)
           v == ReadEditor(d, c)
<1>1. read.text \in Texts /\ read.caret \in 0..Len(read.text) /\ read.refs \in Seq(Refs)
  <2>1. RefsOf(d) \subseteq Refs
    BY NodesHold
  <2>2. read.refs \in Seq(RefsOf(d))
    BY SerializeTyped
  <2>3. read.refs \in Seq(Refs)
    BY <2>1, <2>2, SeqMonotonic
  <2> QED BY <2>3, SerializeTyped
<1>2. r \in Seq(Refs)
  <2>1. value.refs \in Seq(Refs)
    BY DEF Sound
  <2> HIDE DEF read
  <2> QED BY <1>1, <2>1, RefsMerged
<1>3. /\ f \in Seq(Attached)
      /\ \A j \in DOMAIN f : f[j].data = f[j].id
      /\ \A g \in FilesOf(d) : \E j \in DOMAIN f : f[j].id = g.id
  <2>1. f = MergeComposerAttachments(Serialize(d, c), value.files)
    BY Zenon
  <2> HIDE DEF f, read
  <2>2. WellMerged(d, f)
    BY <2>1, FilesMerged, Zenon
  <2> QED BY <2>2 DEF WellMerged
<1>4. read = [text |-> read.text, caret |-> read.caret, refs |-> read.refs, files |-> read.files, pristine |-> read.pristine]
  BY DEF Serialize
<1>5. v = [read EXCEPT !.refs = r, !.files = f]
  BY Zenon DEF ReadEditor
<1> HIDE DEF read, r, f, v
<1>6. v = [text |-> read.text, caret |-> read.caret, refs |-> r, files |-> f, pristine |-> read.pristine]
  BY <1>4, <1>5
<1>7. v.text = read.text /\ v.caret = read.caret /\ v.refs = r /\ v.files = f /\ v.pristine = read.pristine
  BY <1>6
<1>8. Sound(v)
  <2>1. v = [text |-> v.text, caret |-> v.caret, refs |-> v.refs, files |-> v.files, pristine |-> v.pristine]
    BY <1>6, <1>7, Zenon
  <2> QED BY <1>1, <1>2, <1>3, <1>7, <2>1 DEF Sound
<1>9. Own(v) /\ Backed(d, v)
  BY <1>3, <1>7 DEF Own, Backed
<1> QED BY <1>8, <1>9 DEF v

(* The payloads survive as long as the files in the editor are known.      *)
LEMMA SurviveIs == ASSUME Own(value) PROVE PayloadsSurvive <=> Backed(dom, value)
BY DEF Own, PayloadsSurvive, Backed, FilesOf

(* A painted value's files are its own.                                    *)
LEMMA PaintBacked == ASSUME NEW v, Sound(v) PROVE Backed(PaintComposer(v), v)
<1>1. PaintComposer(v) \in Seq(Paintable(v))
  BY Painted, ShownIs, SeqMonotonic
<1>2. \A n \in Paintable(v) : n.t = "file" => \E j \in DOMAIN v.files : v.files[j].id = n.file.id
  <2>1. \A n \in Characters \cup RefChipsOf(v) : n.t # "file"
    BY DEF Characters, RefChipsOf, RefChip
  <2>2. \A j \in DOMAIN v.files : FileChip(v.files[j]).file.id = v.files[j].id
    <3> SUFFICES ASSUME NEW j \in DOMAIN v.files PROVE FileChip(v.files[j]).file.id = v.files[j].id
      OBVIOUS
    <3>1. PICK a \in Attached : a = v.files[j]
      BY DEF Sound
    <3>2. [a EXCEPT !.data = Null].id = a.id
      BY DEF Attached
    <3> QED BY <3>1, <3>2 DEF FileChip
  <2> QED BY <2>1, <2>2 DEF Paintable, FileChipsOf
<1>3. \A i \in DOMAIN PaintComposer(v) : PaintComposer(v)[i] \in Paintable(v)
  BY <1>1
<1> QED BY <1>2, <1>3 DEF Backed, FilesOf
-----------------------------------------------------------------------------
(* Insertions into a value.                                                *)
Edited(v, t, c, p) == [v EXCEPT !.text = t, !.caret = c, !.pristine = p]

LEMMA ValueEdited ==
  ASSUME NEW v, Sound(v), NEW t \in Texts, NEW c \in 0..Len(t), NEW p
  PROVE  Sound(Edited(v, t, c, p)) /\ Edited(v, t, c, p).files = v.files
<1> DEFINE w == Edited(v, t, c, p)
<1>1. v = [text |-> v.text, caret |-> v.caret, refs |-> v.refs, files |-> v.files, pristine |-> v.pristine]
  BY DEF Sound
<1>2. w = [text |-> t, caret |-> c, refs |-> v.refs, files |-> v.files, pristine |-> p]
  <2>1. ASSUME NEW x, x = [v EXCEPT !.text = t, !.caret = c, !.pristine = p]
        PROVE  x = [text |-> t, caret |-> c, refs |-> v.refs, files |-> v.files, pristine |-> p]
    BY <1>1, <2>1
  <2>2. w = [v EXCEPT !.text = t, !.caret = c, !.pristine = p]
    BY Zenon DEF Edited
  <2> QED BY <2>1, <2>2, Zenon
<1>3. w.text = t /\ w.caret = c /\ w.refs = v.refs /\ w.files = v.files /\ w.pristine = p
  BY <1>2
<1>4. w = [text |-> w.text, caret |-> w.caret, refs |-> w.refs, files |-> w.files, pristine |-> w.pristine]
  BY <1>2, <1>3, Zenon
<1> HIDE DEF w
<1>5. Sound(w)
  BY <1>1, <1>3, <1>4 DEF Sound
<1> QED BY <1>3, <1>5 DEF w

LEMMA FileAppended ==
  ASSUME NEW v, Sound(v), NEW f \in Attached, NEW w, w = [v EXCEPT !.files = Append(@, f)]
  PROVE  Sound(w) /\ (Own(v) /\ f.data = f.id => Own(w))
<1>1. v = [text |-> v.text, caret |-> v.caret, refs |-> v.refs, files |-> v.files, pristine |-> v.pristine]
  BY DEF Sound
<1>2. w = [text |-> v.text, caret |-> v.caret, refs |-> v.refs, files |-> Append(v.files, f), pristine |-> v.pristine]
  BY <1>1
<1>3. w.text = v.text /\ w.caret = v.caret /\ w.refs = v.refs /\ w.files = Append(v.files, f) /\ w.pristine = v.pristine
  BY <1>2
<1>4. w = [text |-> w.text, caret |-> w.caret, refs |-> w.refs, files |-> w.files, pristine |-> w.pristine]
  BY <1>2, <1>3, Zenon
<1>5. /\ Append(v.files, f) \in Seq(Attached) /\ Len(Append(v.files, f)) = Len(v.files) + 1 /\ Len(v.files) \in Nat
      /\ \A i \in 1..Len(v.files) : Append(v.files, f)[i] = v.files[i]
      /\ Append(v.files, f)[Len(v.files) + 1] = f
      /\ DOMAIN Append(v.files, f) = 1..Len(Append(v.files, f)) /\ DOMAIN v.files = 1..Len(v.files)
  <2>1. v.files \in Seq(Attached)
    BY DEF Sound
  <2> QED BY <2>1, AppendProperties, LenProperties
<1>6. Sound(w)
  BY <1>3, <1>4, <1>5 DEF Sound
<1>7. ASSUME Own(v), f.data = f.id, NEW j \in DOMAIN w.files PROVE w.files[j].data = w.files[j].id
  <2>1. j \in 1..Len(v.files) \/ j = Len(v.files) + 1
    BY <1>3, <1>5
  <2> QED BY <1>3, <1>5, <1>7, <2>1 DEF Own
<1> QED BY <1>6, <1>7 DEF Own

LEMMA RefAppended ==
  ASSUME NEW v, Sound(v), NEW r \in Refs, NEW w, w = [v EXCEPT !.refs = Append(@, r)]
  PROVE  Sound(w) /\ w.files = v.files
<1>1. v = [text |-> v.text, caret |-> v.caret, refs |-> v.refs, files |-> v.files, pristine |-> v.pristine]
  BY DEF Sound
<1>2. w = [text |-> v.text, caret |-> v.caret, refs |-> Append(v.refs, r), files |-> v.files, pristine |-> v.pristine]
  BY <1>1
<1>3. w.text = v.text /\ w.caret = v.caret /\ w.refs = Append(v.refs, r) /\ w.files = v.files /\ w.pristine = v.pristine
  BY <1>2
<1>4. w = [text |-> w.text, caret |-> w.caret, refs |-> w.refs, files |-> w.files, pristine |-> w.pristine]
  BY <1>2, <1>3, Zenon
<1>5. Append(v.refs, r) \in Seq(Refs)
  BY DEF Sound
<1> QED BY <1>3, <1>4, <1>5 DEF Sound

LEMMA AroundCaret ==
  ASSUME NEW v, Sound(v)
  PROVE  /\ Before(v) \in Texts /\ After(v) \in Texts
         /\ Len(Before(v)) = v.caret /\ v.caret \in Nat /\ Len(After(v)) \in Nat
<1>1. v.text \in Seq(Letters) /\ Len(v.text) \in Nat /\ v.caret \in 0..Len(v.text)
  BY DEF Sound, Texts
<1>2. /\ 1 \in 1..(Len(v.text) + 1) /\ v.caret \in (1 - 1)..Len(v.text)
      /\ v.caret + 1 \in 1..(Len(v.text) + 1) /\ Len(v.text) \in (v.caret + 1 - 1)..Len(v.text)
  BY <1>1
<1>3. SubSeq(v.text, 1, v.caret) \in Seq(Letters) /\ Len(SubSeq(v.text, 1, v.caret)) = v.caret - 1 + 1
  BY <1>1, <1>2, PartTyped
<1>4. SubSeq(v.text, v.caret + 1, Len(v.text)) \in Seq(Letters)
  BY <1>1, <1>2, PartTyped
<1> QED BY <1>1, <1>3, <1>4, LenProperties DEF Before, After, Texts

LEMMA LetterTexts ==
  /\ << >> \in Seq(Letters) /\ <<" ">> \in Seq(Letters) /\ <<Trigger>> \in Seq(Letters)
  /\ \A c \in Letters : <<c, ":">> \in Seq(Letters)
<1>1. " " \in Letters /\ Trigger \in Letters /\ ":" \in Letters
  BY LettersAre, Zenon
<1>2. ASSUME NEW c \in Letters, NEW e \in Letters
      PROVE  << >> \in Seq(Letters) /\ <<c>> \in Seq(Letters) /\ <<c, e>> \in Seq(Letters)
  OBVIOUS
<1> QED BY <1>1, <1>2, Zenon

LEMMA SpacesTyped == \A s \in Texts : SpaceAfterWord(s) \in Texts /\ SpaceBeforeWord(s) \in Texts
<1>1. << >> \in Texts /\ <<" ">> \in Texts
  BY LetterTexts, Zenon DEF Texts
<1> QED BY <1>1, Zenon DEF SpaceAfterWord, SpaceBeforeWord

LEMMA InsertSound ==
  ASSUME NEW v, Sound(v), NEW part \in Texts
  PROVE  Sound(Insert(v, part)) /\ Insert(v, part).files = v.files
<1> DEFINE t == Before(v) \o part \o After(v)
           c == v.caret + Len(part)
<1>1. Before(v) \in Seq(Letters) /\ After(v) \in Seq(Letters) /\ part \in Seq(Letters) /\ Len(Before(v)) = v.caret
      /\ v.caret \in Nat /\ Len(After(v)) \in Nat
  BY AroundCaret DEF Texts
<1>2. Len(part) \in Nat
  BY <1>1
<1>3. t \in Seq(Letters) /\ Len(t) = v.caret + Len(part) + Len(After(v))
  <2> DEFINE a == Before(v) \o part
  <2>1. a \in Seq(Letters) /\ Len(a) = v.caret + Len(part)
    <3>1. Before(v) \o part \in Seq(Letters) /\ Len(Before(v) \o part) = Len(Before(v)) + Len(part)
      BY <1>1, ConcatProperties, Zenon
    <3> QED BY <1>1, <3>1, Zenon
  <2> HIDE DEF a
  <2>2. a \o After(v) \in Seq(Letters) /\ Len(a \o After(v)) = Len(a) + Len(After(v))
    BY <1>1, <2>1, ConcatProperties
  <2> QED BY <2>1, <2>2 DEF a
<1>4. Insert(v, part) = [v EXCEPT !.text = t, !.caret = c, !.pristine = FALSE]
  BY Zenon DEF Insert
<1> HIDE DEF t
<1>5. c \in 0..Len(t) /\ t \in Texts
  <2>1. PICK l, k, m : l = Len(t) /\ k = Len(part) /\ m = Len(After(v))
    OBVIOUS
  <2>2. l = v.caret + k + m /\ v.caret \in Nat /\ k \in Nat /\ m \in Nat
    BY <1>1, <1>2, <1>3, <2>1
  <2>3. v.caret + k \in 0..l
    BY <2>2
  <2>4. t \in Texts
    BY <1>3 DEF Texts
  <2> QED BY <2>1, <2>3, <2>4
<1> HIDE DEF c
<1>6. Insert(v, part) = Edited(v, t, c, FALSE)
  BY <1>4, Zenon DEF Edited
<1> QED BY <1>5, <1>6, ValueEdited, Zenon

LEMMA AttachmentInserted ==
  ASSUME NEW v, Sound(v), NEW f \in Attached
  PROVE  Sound(InsertAttachmentAtCaret(v, f)) /\ (Own(v) /\ f.data = f.id => Own(InsertAttachmentAtCaret(v, f)))
<1> DEFINE a == SpaceAfterWord(Before(v))
           b == SpaceBeforeWord(After(v))
           part == a \o f.token \o b
           w == Insert(v, part)
<1>1. part \in Texts
  <2>1. a \in Seq(Letters) /\ b \in Seq(Letters) /\ f.token \in Seq(Letters)
    BY AroundCaret, SpacesTyped DEF Attached, Texts
  <2> HIDE DEF a, b
  <2>2. a \o f.token \in Seq(Letters)
    BY <2>1, ConcatProperties
  <2>3. (a \o f.token) \o b \in Seq(Letters)
    BY <2>1, <2>2, ConcatProperties
  <2> QED BY <2>3 DEF Texts
<1>2. InsertAttachmentAtCaret(v, f) = [w EXCEPT !.files = Append(@, f)]
  BY Zenon DEF InsertAttachmentAtCaret
<1> HIDE DEF part
<1>3. Sound(w) /\ w.files = v.files
  BY <1>1, InsertSound
<1>4. Own(v) => Own(w)
  BY <1>3 DEF Own
<1> HIDE DEF w
<1> QED BY <1>2, <1>3, <1>4, FileAppended, Zenon

LEMMA TriggerInserted ==
  ASSUME NEW v, Sound(v)
  PROVE  Sound(InsertTrigger(v)) /\ InsertTrigger(v).files = v.files
<1> DEFINE a == IF Before(v) # << >> /\ Last(Before(v)) = Trigger THEN << >> ELSE SpaceAfterWord(Before(v))
<1>1. a \in Seq(Letters) /\ <<Trigger>> \in Seq(Letters)
  <2>1. << >> \in Seq(Letters) /\ <<Trigger>> \in Seq(Letters) /\ SpaceAfterWord(Before(v)) \in Seq(Letters)
    BY AroundCaret, SpacesTyped, LetterTexts, Zenon DEF Texts
  <2> QED BY <2>1, Zenon
<1>2. InsertTrigger(v) = Insert(v, a \o <<Trigger>>)
  BY Zenon DEF InsertTrigger
<1> HIDE DEF a
<1>3. a \o <<Trigger>> \in Texts
  BY <1>1, ConcatProperties DEF Texts
<1> QED BY <1>2, <1>3, InsertSound

LEMMA TokenTyped ==
  ASSUME NEW p \in Texts, NEW id \in Texts
  PROVE  DefaultToken(p, id) \in Texts
<1> DEFINE each == [i \in DOMAIN p |-> <<p[i], ":">>]
           steps == FlattenSeq(each)
<1>1. steps \in Seq(Letters)
  <2>1. Len(p) \in Nat /\ DOMAIN p = 1..Len(p) /\ \A i \in 1..Len(p) : <<p[i], ":">> \in Seq(Letters)
    <3>1. Len(p) \in Nat /\ DOMAIN p = 1..Len(p) /\ \A i \in 1..Len(p) : p[i] \in Letters
      BY DEF Texts
    <3> QED BY <3>1, LetterTexts, Zenon
  <2>2. each \in Seq(Seq(Letters))
    BY <2>1, IsASeq
  <2> HIDE DEF each
  <2> QED BY <2>2, FlattenTyped
<1>2. DefaultToken(p, id) = <<Trigger>> \o steps \o id
  BY Zenon DEF DefaultToken
<1> HIDE DEF steps
<1>3. <<Trigger>> \in Seq(Letters) /\ id \in Seq(Letters)
  BY LetterTexts, Zenon DEF Texts
<1>4. <<Trigger>> \o steps \in Seq(Letters)
  BY <1>1, <1>3, ConcatProperties
<1>5. (<<Trigger>> \o steps) \o id \in Seq(Letters)
  BY <1>3, <1>4, ConcatProperties
<1> QED BY <1>2, <1>5 DEF Texts

LEMMA RefTyped ==
  ASSUME NEW node \in Catalog, NEW p \in Texts
  PROVE  RefOf(node, p) \in Refs
<1>1. node.id \in Texts /\ node.name \in Texts
  BY LettersAre, Zenon
<1>2. DefaultToken(p, node.id) \in Texts
  BY <1>1, TokenTyped
<1> DEFINE token == IF node.insert = "chip" THEN DefaultToken(p, node.id) ELSE node.name
           chip == node.insert = "chip"
<1>3. token \in Texts /\ chip \in BOOLEAN
  BY <1>1, <1>2
<1>4. RefOf(node, p) = [path |-> p, id |-> node.id, asChip |-> chip, token |-> token]
  BY Zenon DEF RefOf
<1> HIDE DEF token, chip
<1> QED BY <1>1, <1>3, <1>4 DEF Refs

LEMMA ItemInserted ==
  ASSUME NEW v, Sound(v), NEW node \in Catalog, NEW p \in Texts
  PROVE  /\ Sound(InsertCatalogItemAtCaret(v, node, p))
         /\ InsertCatalogItemAtCaret(v, node, p).files = v.files
<1> DEFINE ref == RefOf(node, p)
           trailing == IF After(v) # << >> /\ IsSpace(Head(After(v))) THEN << >> ELSE <<" ">>
           a == SpaceAfterWord(Before(v))
           part == a \o ref.token \o trailing
           w == Insert(v, part)
<1>1. ref \in Refs /\ ref.token \in Seq(Letters)
  <2>1. ref \in Refs
    BY RefTyped
  <2> QED BY <2>1 DEF Refs, Texts
<1>2. InsertCatalogItemAtCaret(v, node, p) = [w EXCEPT !.refs = Append(@, ref)]
  BY Zenon DEF InsertCatalogItemAtCaret
<1> HIDE DEF ref
<1>3. part \in Texts
  <2>1. a \in Seq(Letters)
    BY AroundCaret, SpacesTyped DEF Texts
  <2>2. trailing \in Seq(Letters)
    <3>1. << >> \in Seq(Letters) /\ <<" ">> \in Seq(Letters)
      BY LetterTexts, Zenon
    <3> QED BY <3>1, Zenon
  <2> HIDE DEF a, trailing
  <2>3. a \o ref.token \in Seq(Letters)
    BY <1>1, <2>1, ConcatProperties
  <2>4. (a \o ref.token) \o trailing \in Seq(Letters)
    BY <2>2, <2>3, ConcatProperties
  <2> QED BY <2>4 DEF Texts
<1> HIDE DEF part
<1>4. Sound(w) /\ w.files = v.files
  BY <1>3, InsertSound
<1> HIDE DEF w
<1> QED BY <1>1, <1>2, <1>4, RefAppended, Zenon
-----------------------------------------------------------------------------
(* The trigger and what a pick puts in its place; the catalog.             *)
FoundIn(text, m) ==
  /\ m.start \in 1..Len(text) /\ m.end \in m.start..Len(text)
  /\ SubSeq(text, m.start, m.end) = <<Trigger>> \o m.query

LEMMA DetectIs ==
  ASSUME NEW text \in Texts, NEW c \in Nat, DetectTrigger(text, c) # Null
  PROVE  FoundIn(text, DetectTrigger(text, c))
<1> DEFINE end == IF c < Len(text) THEN c ELSE Len(text)
           starts == {i \in 1..end : /\ text[i] = Trigger
                                     /\ i = 1 \/ IsSpace(text[i - 1])
                                     /\ \A j \in i..end : ~IsSpace(text[j])}
           start == Max(starts)
           m == [menu |-> Trigger, start |-> start, end |-> end, query |-> SubSeq(text, start + 1, end)]
<1>1. Len(text) \in Nat /\ text \in Seq(Letters)
  BY DEF Texts
<1>2. end \in 0..Len(text)
  BY <1>1
<1>3. starts # {} /\ DetectTrigger(text, c) = m
  BY Zenon DEF DetectTrigger
<1>4. start \in starts
  <2> DEFINE T == starts
             n == Len(text)
  <2>1. n \in Nat /\ T \in SUBSET (0..n) /\ T # {}
    BY <1>1, <1>2, <1>3
  <2> HIDE DEF T, n
  <2>2. Max(T) \in T
    BY <2>1, MaxIs
  <2> QED BY <2>2 DEF T
<1>5. start \in 1..end /\ text[start] = Trigger
  <2> HIDE DEF end, start
  <2> QED BY <1>4
<1>6. m.start = start /\ m.end = end /\ m.query = SubSeq(text, start + 1, end)
  BY Zenon
<1> HIDE DEF m, start, starts, end
<1>7. start \in 1..Len(text) /\ end \in start..Len(text)
  BY <1>1, <1>2, <1>5
<1>8. SubSeq(text, start, end) = <<text[start]>> \o SubSeq(text, start + 1, end)
  BY <1>1, <1>7, SubSeqRecursiveFirst
<1>9. FoundIn(text, m)
  BY <1>5, <1>6, <1>7, <1>8, Zenon DEF FoundIn
<1> QED BY <1>3, <1>9

(* The text in front of a match and the text behind it.                    *)
LEMMA AroundMatch ==
  ASSUME NEW text \in Texts, NEW m, FoundIn(text, m)
  PROVE  /\ SubSeq(text, 1, m.start - 1) \in Seq(Letters) /\ SubSeq(text, m.end + 1, Len(text)) \in Seq(Letters)
         /\ Len(SubSeq(text, 1, m.start - 1)) = m.start - 1 /\ m.start - 1 \in Nat
         /\ Len(SubSeq(text, m.end + 1, Len(text))) \in Nat
<1>1. Len(text) \in Nat /\ text \in Seq(Letters) /\ m.start \in 1..Len(text) /\ m.end \in m.start..Len(text)
  BY DEF Texts, FoundIn
<1>2. /\ 1 \in 1..(Len(text) + 1) /\ m.start - 1 \in (1 - 1)..Len(text)
      /\ m.end + 1 \in 1..(Len(text) + 1) /\ Len(text) \in (m.end + 1 - 1)..Len(text)
      /\ m.start - 1 \in Nat /\ m.start - 1 - 1 + 1 = m.start - 1
  <2>1. PICK a, e, n \in Nat : a = m.start /\ e = m.end /\ n = Len(text)
    BY <1>1
  <2>2. a \in 1..n /\ e \in a..n
    BY <1>1, <2>1, Zenon
  <2>3. /\ 1 \in 1..(n + 1) /\ a - 1 \in (1 - 1)..n /\ e + 1 \in 1..(n + 1) /\ n \in (e + 1 - 1)..n
        /\ a - 1 \in Nat /\ a - 1 - 1 + 1 = a - 1
    BY <2>2
  <2> QED BY <2>1, <2>3, Zenon
<1>3. /\ SubSeq(text, 1, m.start - 1) \in Seq(Letters)
      /\ Len(SubSeq(text, 1, m.start - 1)) = m.start - 1 - 1 + 1
  BY <1>1, <1>2, PartTyped
<1>4. SubSeq(text, m.end + 1, Len(text)) \in Seq(Letters)
  BY <1>1, <1>2, PartTyped
<1> QED BY <1>2, <1>3, <1>4, LenProperties

LEMMA PickApplied ==
  ASSUME NEW v, Sound(v), NEW m, FoundIn(v.text, m), NEW t \in Texts
  PROVE  Sound(ApplyPickToText(v, m, t)) /\ ApplyPickToText(v, m, t).files = v.files
<1> DEFINE before == SubSeq(v.text, 1, m.start - 1)
           after == SubSeq(v.text, m.end + 1, Len(v.text))
           space == IF after # << >> /\ IsSpace(Head(after)) THEN << >> ELSE <<" ">>
           inserted == t \o space
           text == before \o inserted \o after
           front == m.start - 1
           spot == front + Len(inserted)
           w == ApplyPickToText(v, m, t)
<1>1. /\ before \in Seq(Letters) /\ after \in Seq(Letters) /\ t \in Seq(Letters)
      /\ Len(before) = m.start - 1 /\ m.start - 1 \in Nat /\ Len(after) \in Nat
  <2>1. v.text \in Texts /\ t \in Seq(Letters)
    BY DEF Sound, Texts
  <2> QED BY <2>1, AroundMatch
<1>2. space \in Seq(Letters)
  BY LetterTexts, Zenon
<1>3. w = Edited(v, text, spot, FALSE)
  BY Zenon DEF ApplyPickToText, Edited
<1> HIDE DEF before, after, space
<1>4. inserted \in Seq(Letters) /\ Len(inserted) \in Nat
  BY <1>1, <1>2, ConcatProperties, LenProperties
<1> HIDE DEF inserted
<1>5. text \in Seq(Letters) /\ Len(text) = m.start - 1 + Len(inserted) + Len(after)
  <2> DEFINE a == before \o inserted
  <2>1. a \in Seq(Letters) /\ Len(a) = m.start - 1 + Len(inserted)
    <3>1. a \in Seq(Letters) /\ Len(a) = Len(before) + Len(inserted)
      BY <1>1, <1>4, ConcatProperties, Zenon
    <3> QED BY <1>1, <3>1, Zenon
  <2> HIDE DEF a
  <2>2. a \o after \in Seq(Letters) /\ Len(a \o after) = Len(a) + Len(after)
    BY <1>1, <2>1, ConcatProperties
  <2> QED BY <2>1, <2>2 DEF a
<1> HIDE DEF text
<1>6. spot \in 0..Len(text) /\ text \in Texts
  <2>1. front \in Nat /\ Len(after) \in Nat /\ Len(text) = front + Len(inserted) + Len(after) /\ text \in Texts
    BY <1>1, <1>5 DEF Texts
  <2> HIDE DEF front
  <2> QED BY <1>4, <2>1
<1> HIDE DEF spot
<1> QED BY <1>3, <1>6, ValueEdited, Zenon

(* The pick of an action, which only takes the trigger away.               *)
LEMMA TriggerTaken ==
  ASSUME NEW v, Sound(v), NEW m, FoundIn(v.text, m)
  PROVE  LET text == SubSeq(v.text, 1, m.start - 1) \o SubSeq(v.text, m.end + 1, Len(v.text))
             w == Edited(v, text, m.start - 1, FALSE)
         IN  Sound(w) /\ w.files = v.files
<1> DEFINE before == SubSeq(v.text, 1, m.start - 1)
           after == SubSeq(v.text, m.end + 1, Len(v.text))
           text == before \o after
           spot == m.start - 1
<1>1. /\ before \in Seq(Letters) /\ after \in Seq(Letters)
      /\ Len(before) = spot /\ spot \in Nat /\ Len(after) \in Nat
  <2>1. v.text \in Texts
    BY DEF Sound
  <2> QED BY <2>1, AroundMatch
<1> HIDE DEF before, after, spot
<1>3. text \in Seq(Letters) /\ Len(text) = spot + Len(after)
  BY <1>1, ConcatProperties
<1> HIDE DEF text
<1>4. spot \in 0..Len(text) /\ text \in Texts
  BY <1>1, <1>3 DEF Texts
<1>5. Sound(Edited(v, text, spot, FALSE)) /\ Edited(v, text, spot, FALSE).files = v.files
  BY <1>4, ValueEdited, Zenon
<1> QED BY <1>5, Zenon DEF text, before, after, spot

LEMMA ListTyped == \A query, p : ListItems(query, p) \subseteq Catalog
<1>1. ASSUME NEW query, NEW S \in SUBSET Catalog PROVE FilterNodes(S, query) \subseteq Catalog
  <2> DEFINE of(node) == LET found == {n \in WalkItems(node) : Matches(n, query)}
                         IN  IF node.kind = "group" /\ found # {} THEN found
                             ELSE IF Matches(node, query) THEN {node} ELSE {}
             all == {of(node) : node \in S}
  <2>1. \A node \in S : of(node) \subseteq Catalog
    BY DEF WalkItems
  <2>2. FilterNodes(S, query) = S \/ FilterNodes(S, query) = UNION all
    BY Zenon DEF FilterNodes
  <2> HIDE DEF of
  <2>3. UNION all \subseteq Catalog
    BY <2>1
  <2> QED BY <2>2, <2>3
<1> QED BY <1>1 DEF ListItems, Level

LEMMA MenuItemsTyped ==
  ASSUME NEW S \in SUBSET Catalog, NEW hit \in FlattenMenuItems(S)
  PROVE  hit.item \in Catalog /\ hit.path \in Texts
<1> DEFINE below(g, n) == [item |-> n, path |-> SubSeq(n.path, Len(g.path) + 1, Len(n.path))]
           in(g) == {below(g, n) : n \in WalkItems(g)}
           deep == {in(g) : g \in {m \in S : m.kind = "group"}}
           flat == {[item |-> n, path |-> << >>] : n \in {m \in S : m.kind = "item"}}
<1>1. FlattenMenuItems(S) = flat \cup UNION deep
  BY Zenon DEF FlattenMenuItems
<1>2. CASE hit \in flat
  <2>1. PICK n \in Catalog : hit = [item |-> n, path |-> << >>]
    BY <1>2
  <2>2. << >> \in Texts
    BY LetterTexts, Zenon DEF Texts
  <2> QED BY <2>1, <2>2
<1>3. CASE hit \in UNION deep
  <2> HIDE DEF flat, in, below
  <2>1. PICK g \in S : hit \in in(g)
    BY <1>3
  <2>2. PICK n \in WalkItems(g) : hit = below(g, n)
    BY <2>1 DEF in
  <2>3. n \in Catalog /\ n.path \in Texts /\ g.path \in Texts
    BY <2>2, LettersAre, Zenon DEF WalkItems
  <2>4. SubSeq(n.path, Len(g.path) + 1, Len(n.path)) \in Texts
    <3> DEFINE from == Len(g.path) + 1
               to == Len(n.path)
    <3>1. from \in Int /\ to \in Int /\ from >= 1 /\ n.path \in Seq(Letters)
      BY <2>3 DEF Texts
    <3>2. \A i \in from..to : n.path[i] \in Letters
      <4>1. \A i \in 1..to : n.path[i] \in Letters
        BY <3>1
      <4> HIDE DEF from, to
      <4> QED BY <3>1, <4>1
    <3> HIDE DEF from, to
    <3>3. SubSeq(n.path, from, to) \in Seq(Letters)
      BY <3>1, <3>2, SubSeqProperties
    <3> QED BY <3>3 DEF Texts, from, to
  <2> QED BY <2>2, <2>3, <2>4 DEF below
<1> HIDE DEF flat, deep
<1> QED BY <1>1, <1>2, <1>3
-----------------------------------------------------------------------------
(* Changes of the editor: what is typed, what is cut, and the caret.       *)
LEMMA FilesOfConcat ==
  ASSUME NEW a \in Seq(EditorNodes), NEW b \in Seq(EditorNodes)
  PROVE  FilesOf(a \o b) \subseteq FilesOf(a) \cup FilesOf(b)
<1> DEFINE c == a \o b
<1>1. /\ c \in Seq(EditorNodes) /\ Len(a) \in Nat /\ Len(b) \in Nat /\ Len(c) = Len(a) + Len(b)
      /\ \A i \in 1..(Len(a) + Len(b)) : c[i] = IF i <= Len(a) THEN a[i] ELSE b[i - Len(a)]
  BY ConcatProperties, LenProperties
<1> HIDE DEF c
<1>2. DOMAIN c = 1..(Len(a) + Len(b)) /\ DOMAIN a = 1..Len(a) /\ DOMAIN b = 1..Len(b)
  BY <1>1
<1>3. ASSUME NEW i \in DOMAIN c, c[i].t = "file" PROVE c[i].file \in FilesOf(a) \cup FilesOf(b)
  <2>1. CASE i <= Len(a)
    <3>1. i \in DOMAIN a /\ c[i] = a[i]
      BY <1>1, <1>2, <2>1
    <3> QED BY <1>3, <3>1 DEF FilesOf
  <2>2. CASE ~(i <= Len(a))
    <3>1. i - Len(a) \in DOMAIN b /\ c[i] = b[i - Len(a)]
      BY <1>1, <1>2, <2>2
    <3> QED BY <1>3, <3>1 DEF FilesOf
  <2> QED BY <2>1, <2>2
<1>4. FilesOf(c) \subseteq FilesOf(a) \cup FilesOf(b)
  BY <1>3 DEF FilesOf
<1> QED BY <1>4 DEF c

LEMMA FilesOfPart ==
  ASSUME NEW d \in Seq(EditorNodes), NEW m \in 1..(Len(d) + 1), NEW n \in (m - 1)..Len(d)
  PROVE  FilesOf(SubSeq(d, m, n)) \subseteq FilesOf(d)
<1> DEFINE c == SubSeq(d, m, n)
<1>1. /\ c \in Seq(EditorNodes) /\ Len(c) = n - m + 1 /\ \A i \in 1..(n - m + 1) : c[i] = d[m + i - 1]
  BY PartTyped
<1> HIDE DEF c
<1>2. DOMAIN c = 1..(n - m + 1) /\ DOMAIN d = 1..Len(d) /\ Len(d) \in Nat
  BY <1>1
<1>3. \A i \in 1..(n - m + 1) : m + i - 1 \in 1..Len(d)
  BY <1>2
<1>4. ASSUME NEW j \in DOMAIN c, c[j].t = "file" PROVE c[j].file \in FilesOf(d)
  <2>1. PICK k \in DOMAIN d : c[j] = d[k]
    BY <1>1, <1>2, <1>3
  <2> QED BY <1>4, <2>1 DEF FilesOf
<1>5. FilesOf(c) \subseteq FilesOf(d)
  BY <1>4 DEF FilesOf
<1> QED BY <1>5 DEF c

Cut(d, m, n) == SubSeq(d, 1, m) \o SubSeq(d, n + 1, Len(d))

LEMMA CutTyped ==
  ASSUME NEW d \in Seq(EditorNodes), NEW m \in 0..Len(d), NEW n \in m..Len(d)
  PROVE  /\ Cut(d, m, n) \in Seq(EditorNodes) /\ Len(Cut(d, m, n)) = m + Len(d) - n
         /\ FilesOf(Cut(d, m, n)) \subseteq FilesOf(d)
<1> DEFINE a == SubSeq(d, 1, m)
           b == SubSeq(d, n + 1, Len(d))
<1>1. Len(d) \in Nat
  OBVIOUS
<1>2. /\ 1 \in 1..(Len(d) + 1) /\ m \in (1 - 1)..Len(d)
      /\ n + 1 \in 1..(Len(d) + 1) /\ Len(d) \in (n + 1 - 1)..Len(d)
  BY <1>1
<1>3. a \in Seq(EditorNodes) /\ Len(a) = m - 1 + 1 /\ FilesOf(a) \subseteq FilesOf(d)
  BY <1>2, PartTyped, FilesOfPart
<1>4. b \in Seq(EditorNodes) /\ Len(b) = Len(d) - (n + 1) + 1 /\ FilesOf(b) \subseteq FilesOf(d)
  BY <1>2, PartTyped, FilesOfPart
<1> HIDE DEF a, b
<1>5. /\ a \o b \in Seq(EditorNodes) /\ Len(a \o b) = Len(a) + Len(b)
      /\ FilesOf(a \o b) \subseteq FilesOf(a) \cup FilesOf(b)
  BY <1>3, <1>4, ConcatProperties, FilesOfConcat
<1>6. Len(a) + Len(b) = m + Len(d) - n
  BY <1>1, <1>3, <1>4
<1>7. FilesOf(a \o b) \subseteq FilesOf(d)
  BY <1>3, <1>4, <1>5
<1> QED BY <1>5, <1>6, <1>7 DEF Cut, a, b

LEMMA TypedIn ==
  ASSUME NEW d \in Seq(EditorNodes), NEW p \in 0..Len(d), NEW key \in Keys, NEW e,
         e = SubSeq(d, 1, p) \o <<Char(key)>> \o SubSeq(d, p + 1, Len(d))
  PROVE  e \in Seq(EditorNodes) /\ p + 1 \in 0..Len(e) /\ FilesOf(e) \subseteq FilesOf(d)
<1> DEFINE a == SubSeq(d, 1, p)
           one == <<Char(key)>>
           b == SubSeq(d, p + 1, Len(d))
<1>1. Len(d) \in Nat
  OBVIOUS
<1>2. /\ 1 \in 1..(Len(d) + 1) /\ p \in (1 - 1)..Len(d)
      /\ p + 1 \in 1..(Len(d) + 1) /\ Len(d) \in (p + 1 - 1)..Len(d)
  BY <1>1
<1>3. a \in Seq(EditorNodes) /\ Len(a) = p - 1 + 1 /\ FilesOf(a) \subseteq FilesOf(d)
  BY <1>2, PartTyped, FilesOfPart
<1>4. b \in Seq(EditorNodes) /\ Len(b) = Len(d) - (p + 1) + 1 /\ FilesOf(b) \subseteq FilesOf(d)
  BY <1>2, PartTyped, FilesOfPart
<1>5. one \in Seq(EditorNodes) /\ Len(one) = 1 /\ FilesOf(one) = {}
  <2>1. Char(key) \in EditorNodes /\ Char(key).t # "file"
    <3>1. key \in Letters
      BY LettersAre, Zenon
    <3> QED BY <3>1 DEF Char, EditorNodes
  <2> QED BY <2>1 DEF FilesOf
<1>6. e = (a \o one) \o b
  BY Zenon
<1> HIDE DEF a, b, one
<1>7. a \o one \in Seq(EditorNodes) /\ Len(a \o one) = Len(a) + 1 /\ FilesOf(a \o one) \subseteq FilesOf(a) \cup FilesOf(one)
  <2>1. a \in Seq(EditorNodes) /\ one \in Seq(EditorNodes) /\ Len(one) = 1
    BY <1>3, <1>5
  <2>2. a \o one \in Seq(EditorNodes) /\ Len(a \o one) = Len(a) + Len(one)
    BY <2>1, ConcatProperties
  <2>3. FilesOf(a \o one) \subseteq FilesOf(a) \cup FilesOf(one)
    BY <2>1, FilesOfConcat
  <2> QED BY <2>1, <2>2, <2>3
<1> DEFINE f == a \o one
<1> HIDE DEF f
<1>8. f \o b \in Seq(EditorNodes) /\ Len(f \o b) = Len(f) + Len(b) /\ FilesOf(f \o b) \subseteq FilesOf(f) \cup FilesOf(b)
  BY <1>4, <1>7, ConcatProperties, FilesOfConcat DEF f
<1>9. FilesOf(f) \subseteq FilesOf(d) /\ Len(f) = p + 1
  BY <1>3, <1>5, <1>7 DEF f
<1>10. e = f \o b
  BY <1>6 DEF f
<1>11. p + 1 \in 0..Len(e)
  <2>1. p \in Nat /\ Len(b) \in Nat /\ Len(f \o b) = (p + 1) + Len(b)
    BY <1>1, <1>4, <1>8, <1>9, LenProperties
  <2>2. Len(e) = (p + 1) + Len(b)
    BY <1>10, <2>1, Zenon
  <2>3. \A x, y \in Nat : x + 1 \in 0..((x + 1) + y)
    OBVIOUS
  <2> QED BY <2>1, <2>2, <2>3, Zenon
<1> QED BY <1>4, <1>8, <1>9, <1>10, <1>11

LEMMA CaretPut == ASSUME NEW d \in Seq(EditorNodes), NEW offset PROVE SetComposerCaret(d, offset).at \in 0..Len(d)
<1> DEFINE fits == {p \in 0..Len(d) : Offset(d, p) >= offset /\ (p = 0 => d = << >> \/ ~IsChip(d[1]))}
           spot == IF fits = {} THEN Len(d) ELSE Min(fits)
<1>1. Len(d) \in Nat /\ fits \in SUBSET (0..Len(d)) /\ fits \in SUBSET Nat
  OBVIOUS
<1>2. SetComposerCaret(d, offset).at = spot
  BY Zenon DEF SetComposerCaret
<1> HIDE DEF fits
<1>3. CASE fits = {}
  BY <1>1, <1>2, <1>3
<1>4. CASE fits # {}
  <2>1. Min(fits) \in fits
    BY <1>1, <1>4, MinIs
  <2> QED BY <1>1, <1>2, <1>4, <2>1
<1> QED BY <1>3, <1>4

LEMMA RunEndIs == ASSUME NEW d \in Seq(EditorNodes), NEW i \in 1..Len(d) PROVE RunEnd(d, i) \in i..Len(d)
<1> DEFINE T == {j \in i..Len(d) : \A k \in (i + 1)..j : ~IsChip(d[k])}
           n == Len(d)
<1>1. n \in Nat /\ T \in SUBSET (0..n) /\ T \subseteq i..n
  OBVIOUS
<1>2. i \in T
  OBVIOUS
<1>3. RunEnd(d, i) = Max(T)
  BY Zenon DEF RunEnd
<1> HIDE DEF T, n
<1>4. Max(T) \in T
  BY <1>1, <1>2, MaxIs
<1> QED BY <1>1, <1>3, <1>4 DEF n

LEMMA RunStartIs == ASSUME NEW d \in Seq(EditorNodes), NEW i \in 1..Len(d) PROVE RunStart(d, i) \in 1..i
<1> DEFINE T == {j \in 1..i : \A k \in j..(i - 1) : ~IsChip(d[k])}
<1>1. T \in SUBSET Nat /\ T \subseteq 1..i
  OBVIOUS
<1>2. i \in T
  OBVIOUS
<1>3. RunStart(d, i) = Min(T)
  BY Zenon DEF RunStart
<1> HIDE DEF T
<1>4. Min(T) \in T
  BY <1>1, <1>2, MinIs
<1> QED BY <1>1, <1>3, <1>4

LEMMA ChipRemoved ==
  ASSUME NEW d \in Seq(EditorNodes), NEW i \in DOMAIN d
  PROVE  /\ RemoveChip(d, i).dom \in Seq(EditorNodes)
         /\ RemoveChip(d, i).caret.at \in 0..Len(RemoveChip(d, i).dom)
         /\ FilesOf(RemoveChip(d, i).dom) \subseteq FilesOf(d)
<1> DEFINE end   == RunEnd(d, i)
           start == RunStart(d, i)
           eaten == IF Blank(d, i + 1, end) THEN end
                    ELSE IF d[i + 1].c = " " THEN i + 1 ELSE i
           left  == IF Blank(d, start, i - 1) THEN start - 1 ELSE i - 1
           kept  == SubSeq(d, 1, left) \o SubSeq(d, eaten + 1, Len(d))
           slid  == IF left = i - 1 \/ left = Len(kept) THEN left
                    ELSE IF IsChip(kept[left + 1]) THEN left + 1
                    ELSE RunEnd(kept, left + 1)
<1>1. RemoveChip(d, i).dom = kept /\ RemoveChip(d, i).caret.at = slid
  BY Zenon DEF RemoveChip
<1>2. Len(d) \in Nat /\ i \in 1..Len(d) /\ end \in i..Len(d) /\ start \in 1..i
  <2>1. i \in 1..Len(d)
    OBVIOUS
  <2> QED BY <2>1, RunEndIs, RunStartIs
<1> HIDE DEF end, start
<1>3. end >= i + 1 \/ Blank(d, i + 1, end)
  <2> SUFFICES ASSUME ~(end >= i + 1) PROVE Blank(d, i + 1, end)
    OBVIOUS
  <2>1. ~\E k : k \in (i + 1)..end
    BY <1>2
  <2> QED BY <2>1, Zenon DEF Blank
<1>4. eaten \in i..Len(d)
  <2>1. eaten = end \/ (~Blank(d, i + 1, end) /\ eaten = i + 1) \/ eaten = i
    BY Zenon
  <2> HIDE DEF eaten
  <2>2. eaten = end \/ (end >= i + 1 /\ eaten = i + 1) \/ eaten = i
    BY <1>3, <2>1, Zenon
  <2> QED BY <1>2, <2>2
<1>5. left \in 0..(i - 1)
  BY <1>2
<1> HIDE DEF eaten, left
<1>6. left \in 0..Len(d) /\ eaten \in left..Len(d)
  <2>1. PICK l, e, m : l = left /\ e = eaten /\ m = Len(d)
    OBVIOUS
  <2>2. m \in Nat /\ i \in 1..m /\ e \in i..m /\ l \in 0..(i - 1)
    BY <1>2, <1>4, <1>5, <2>1
  <2>3. l \in 0..m /\ e \in l..m
    BY <2>2
  <2> QED BY <2>1, <2>3
<1>7. kept \in Seq(EditorNodes) /\ Len(kept) = left + Len(d) - eaten /\ FilesOf(kept) \subseteq FilesOf(d)
  <2>1. kept = Cut(d, left, eaten)
    BY Zenon DEF Cut
  <2> HIDE DEF kept
  <2> QED BY <1>6, <2>1, CutTyped
<1> HIDE DEF kept
<1>8. Len(kept) \in Nat /\ left \in 0..Len(kept)
  BY <1>2, <1>6, <1>7
<1>9. slid \in 0..Len(kept)
  <2>1. CASE left = Len(kept)
    BY <1>8, <2>1
  <2>2. CASE left # Len(kept)
    <3>1. left + 1 \in 1..Len(kept)
      BY <1>8, <2>2
    <3>2. RunEnd(kept, left + 1) \in (left + 1)..Len(kept)
      BY <1>7, <3>1, RunEndIs
    <3> QED BY <1>8, <3>1, <3>2
  <2> QED BY <2>1, <2>2
<1> QED BY <1>1, <1>7, <1>9
-----------------------------------------------------------------------------
(***************************************************************************)
(* The composer: what holds of editor, value, menu and jobs together, and  *)
(* that every step keeps it.                                               *)
(***************************************************************************)
AskedTyped ==
  \A r \in asked : r = [query |-> r.query, path |-> r.path, aborted |-> r.aborted] /\ r.path \in Texts
MenuTyped == path \in Texts /\ nodes \subseteq Catalog /\ AskedTyped
EditorInv ==
  /\ dom \in Seq(EditorNodes) /\ caret.at \in 0..Len(dom)
  /\ Sound(value) /\ Own(value) /\ Backed(dom, value)
JobsInv ==
  /\ files \in Nat
  /\ \A job \in jobs :
       /\ job = [id |-> job.id, next |-> job.next, left |-> job.left, added |-> job.added]
       /\ job.id \in Nat /\ job.left \in Nat \ {0} /\ Sound(job.next) /\ Own(job.next)
(* The match is that of the text and the caret React holds.                *)
MatchIsAtCaret ==
  match # Null =>
    /\ match = DetectTrigger(value.text, value.caret)
    /\ SubSeq(value.text, match.start, match.end) = <<Trigger>> \o match.query
DraftInv == EditorInv /\ MenuTyped /\ MatchIsAtCaret /\ JobsInv

LEMMA PaintTyped == ASSUME NEW v, Sound(v) PROVE PaintComposer(v) \in Seq(EditorNodes)
BY Painted, ShownIs, SeqMonotonic

LEMMA EmptyIs == Sound(Empty) /\ Own(Empty)
<1>1. Empty.text = << >> /\ Empty.caret = 0 /\ Empty.refs = << >> /\ Empty.files = << >> /\ Empty.pristine = TRUE
  BY DEF Empty
<1>2. Empty = [text |-> Empty.text, caret |-> Empty.caret, refs |-> Empty.refs, files |-> Empty.files,
               pristine |-> Empty.pristine]
  BY <1>1, Zenon DEF Empty
<1>3. /\ << >> \in Texts /\ << >> \in Seq(Refs) /\ << >> \in Seq(Attached) /\ 0 \in 0..Len(<< >>)
  BY EmptySeq DEF Texts
<1> QED BY <1>1, <1>2, <1>3 DEF Sound, Own

LEMMA AbortTyped == ASSUME AskedTyped PROVE \A r \in AbortAsked :
                      r = [query |-> r.query, path |-> r.path, aborted |-> r.aborted] /\ r.path \in Texts
<1> SUFFICES ASSUME NEW q \in asked, NEW r, r = [q EXCEPT !.aborted = TRUE]
             PROVE  r = [query |-> r.query, path |-> r.path, aborted |-> r.aborted] /\ r.path \in Texts
  BY DEF AbortAsked
<1>1. PICK query, p, a : q = [query |-> query, path |-> p, aborted |-> a] /\ p \in Texts
  BY DEF AskedTyped
<1>2. r = [query |-> query, path |-> p, aborted |-> TRUE]
  BY <1>1
<1> QED BY <1>1, <1>2

LEMMA ShowTyped ==
  ASSUME MenuTyped, NEW m, NEW p \in Texts, NEW restart, NEW rows \in SUBSET Catalog, Show(m, p, restart, rows)
  PROVE  MenuTyped' /\ match' = m
<1> DEFINE moved == Key(m) # Key(match)
           there == IF moved THEN << >> ELSE p
<1>1. match' = m /\ path' = there
  BY DEF Show
<1>2. there \in Texts
  BY LetterTexts, Zenon DEF Texts
<1>3. nodes' = {} \/ nodes' = rows
  BY DEF Show
<1>4. \/ asked' = AbortAsked
      \/ asked' = AskFor(m.query, there)
      \/ asked' = asked
  BY DEF Show
<1> HIDE DEF there
<1>5. AskedTyped'
  <2>1. CASE asked' = AbortAsked
    BY <2>1, AbortTyped DEF AskedTyped, MenuTyped
  <2>2. CASE asked' = AskFor(m.query, there)
    BY <1>2, <2>2, AbortTyped DEF AskedTyped, MenuTyped, AskFor
  <2>3. CASE asked' = asked
    BY <2>3 DEF AskedTyped, MenuTyped
  <2> QED BY <1>4, <2>1, <2>2, <2>3
<1> QED BY <1>1, <1>2, <1>3, <1>5 DEF MenuTyped

LEMMA MatchFits ==
  ASSUME MatchIsAtCaret, NEW v, Sound(v), value' = v, match' = MatchOf(v)
  PROVE  MatchIsAtCaret'
<1>1. CASE v.text = value.text /\ v.caret = value.caret
  BY <1>1 DEF MatchOf, MatchIsAtCaret
<1>2. CASE ~(v.text = value.text /\ v.caret = value.caret)
  <2>1. match' = Null \/ match' = DetectTrigger(v.text, v.caret)
    BY <1>2, Zenon DEF MatchOf
  <2>2. v.text \in Texts /\ v.caret \in Nat
    BY DEF Sound, Texts
  <2>3. ASSUME match' # Null PROVE match' = DetectTrigger(v.text, v.caret) /\ FoundIn(v.text, match')
    BY <2>1, <2>2, <2>3, DetectIs
  <2> QED BY <2>3 DEF MatchIsAtCaret, FoundIn
<1> QED BY <1>1, <1>2

LEMMA CommitKeeps ==
  ASSUME NEW v, Sound(v), Own(v), Commit(v)
  PROVE  EditorInv'
<1>1. value' = v /\ dom' = PaintComposer(v) /\ caret' = SetComposerCaret(PaintComposer(v), v.caret)
  BY DEF Commit
<1>2. PaintComposer(v) \in Seq(EditorNodes) /\ Backed(PaintComposer(v), v)
  BY PaintTyped, PaintBacked
<1>3. SetComposerCaret(PaintComposer(v), v.caret).at \in 0..Len(PaintComposer(v))
  BY <1>2, CaretPut
<1> QED BY <1>1, <1>2, <1>3 DEF EditorInv

LEMMA PutKeeps ==
  ASSUME DraftInv, NEW v, Sound(v), Own(v), Put(v)
  PROVE  EditorInv' /\ MenuTyped' /\ MatchIsAtCaret'
<1>1. Commit(v) /\ Show(MatchOf(v), path, FALSE, nodes) /\ value' = v
  BY DEF Put, Commit
<1>2. MenuTyped' /\ match' = MatchOf(v)
  BY <1>1, ShowTyped DEF DraftInv, MenuTyped
<1> QED BY <1>1, <1>2, CommitKeeps, MatchFits DEF DraftInv

LEMMA SyncKeeps ==
  ASSUME DraftInv, NEW d \in Seq(EditorNodes), NEW c, c.at \in 0..Len(d), FilesOf(d) \subseteq FilesOf(dom), Sync(d, c)
  PROVE  EditorInv' /\ MenuTyped' /\ MatchIsAtCaret'
<1>1. Sound(value) /\ Own(value) /\ Backed(d, value)
  BY DEF DraftInv, EditorInv, Backed
<1>2. CASE attaching
  <2>1. dom' = d /\ caret' = c /\ UNCHANGED <<value, match, path, nodes, asked>>
    BY <1>2 DEF Sync
  <2> QED BY <1>1, <2>1 DEF DraftInv, EditorInv, MenuTyped, AskedTyped, MatchIsAtCaret
<1>3. CASE ~attaching
  <2> DEFINE v == ReadEditor(d, c)
  <2>1. SetValue(v, d, c) /\ Show(MatchOf(v), path, FALSE, nodes)
    BY <1>3 DEF Sync
  <2>2. Sound(v) /\ Own(v) /\ Backed(d, v)
    BY <1>1, ReadIs
  <2> HIDE DEF v
  <2>3. MenuTyped' /\ match' = MatchOf(v)
    BY <2>1, ShowTyped DEF DraftInv, MenuTyped
  <2>4. value' = v
    BY <2>1 DEF SetValue
  <2>5. CASE needsPaint
    <3>1. Commit(v)
      BY <2>1, <2>5 DEF SetValue, Commit
    <3> QED BY <2>2, <2>3, <2>4, <3>1, CommitKeeps, MatchFits DEF DraftInv
  <2>6. CASE ~needsPaint
    <3>1. dom' = d /\ caret' = c
      BY <2>1, <2>6 DEF SetValue
    <3>2. EditorInv'
      BY <2>2, <2>4, <3>1 DEF EditorInv
    <3> QED BY <2>2, <2>3, <2>4, <3>2, MatchFits DEF DraftInv
  <2> QED BY <2>5, <2>6
<1> QED BY <1>2, <1>3

LEMMA EditorStays ==
  ASSUME DraftInv, UNCHANGED <<editor, match, path, nodes, asked>>
  PROVE  EditorInv' /\ MenuTyped' /\ MatchIsAtCaret'
BY DEF DraftInv, EditorInv, MenuTyped, AskedTyped, MatchIsAtCaret, editor
DraftStays == EditorInv' /\ MenuTyped' /\ MatchIsAtCaret'

LEMMA EraseKeeps == ASSUME DraftInv, NEW i, Erase(i) PROVE DraftStays
<1>1. dom \in Seq(EditorNodes) /\ Len(dom) \in Nat /\ i \in DOMAIN dom /\ i \in 1..Len(dom)
  BY DEF DraftInv, EditorInv, Erase
<1>2. CASE Nothing /\ value.text # << >>
  <2>1. Commit(Empty) /\ Show(MatchOf(Empty), path, FALSE, nodes)
    BY <1>2 DEF Erase
  <2>2. Put(Empty)
    BY <2>1, Zenon DEF Put
  <2> QED BY <2>2, EmptyIs, PutKeeps DEF DraftStays
<1>3. CASE Nothing /\ ~(value.text # << >>)
  <2>1. UNCHANGED <<editor, match, path, nodes, asked>>
    BY <1>3 DEF Erase
  <2> QED BY <2>1, EditorStays DEF DraftStays
<1>4. CASE ~Nothing /\ IsChip(dom[i])
  <2> DEFINE r == RemoveChip(dom, i)
             d == r.dom
             c == r.caret
  <2>1. Sync(d, c)
    BY <1>4 DEF Erase
  <2>2. d \in Seq(EditorNodes) /\ c.at \in 0..Len(d) /\ FilesOf(d) \subseteq FilesOf(dom)
    BY <1>1, ChipRemoved
  <2> HIDE DEF d, c
  <2> QED BY <2>1, <2>2, SyncKeeps DEF DraftStays
<1>5. CASE ~Nothing /\ ~IsChip(dom[i])
  <2> DEFINE d == RemoveAt(dom, i)
             c == CaretAt(d, i - 1)
  <2>1. Sync(d, c)
    BY <1>5 DEF Erase
  <2>2. i - 1 \in 0..Len(dom) /\ i \in (i - 1)..Len(dom) /\ i - 1 + Len(dom) - i = Len(dom) - 1
    BY <1>1
  <2>3. d = Cut(dom, i - 1, i)
    BY Zenon DEF RemoveAt, Cut
  <2> HIDE DEF d
  <2>4. d \in Seq(EditorNodes) /\ Len(d) = i - 1 + Len(dom) - i /\ FilesOf(d) \subseteq FilesOf(dom)
    BY <1>1, <2>2, <2>3, CutTyped
  <2>5. c.at = i - 1
    BY Zenon DEF CaretAt
  <2>6. c.at \in 0..Len(d)
    <3>1. Len(d) = Len(dom) - 1
      BY <2>2, <2>4, Zenon
    <3> HIDE DEF c
    <3> QED BY <1>1, <2>5, <3>1
  <2> HIDE DEF c
  <2> QED BY <2>1, <2>4, <2>6, SyncKeeps DEF DraftStays
<1> QED BY <1>2, <1>3, <1>4, <1>5

LEMMA TypeKeeps == ASSUME DraftInv, NEW key \in Keys, Type(key) PROVE DraftStays
<1> DEFINE d == SubSeq(dom, 1, caret.at) \o <<Char(key)>> \o SubSeq(dom, caret.at + 1, Len(dom))
           c == [at |-> caret.at + 1, inText |-> TRUE]
<1>1. Sync(d, c)
  BY DEF Type
<1>2. c.at = caret.at + 1 /\ dom \in Seq(EditorNodes) /\ caret.at \in 0..Len(dom)
  BY DEF DraftInv, EditorInv
<1>3. d \in Seq(EditorNodes) /\ caret.at + 1 \in 0..Len(d) /\ FilesOf(d) \subseteq FilesOf(dom)
  BY <1>2, TypedIn
<1> HIDE DEF d, c
<1> QED BY <1>1, <1>2, <1>3, SyncKeeps DEF DraftStays

LEMMA CaretKeeps ==
  ASSUME DraftInv, (\E p \in 0..Len(dom) : MoveCaret(p)) \/ KeyUp
  PROVE  DraftStays
<1>1. PICK c : Sync(dom, c) /\ c.at \in 0..Len(dom)
  <2>1. ASSUME NEW p \in 0..Len(dom), MoveCaret(p) PROVE \E c : Sync(dom, c) /\ c.at \in 0..Len(dom)
    <3>1. Sync(dom, CaretAt(dom, p))
      BY <2>1 DEF MoveCaret
    <3>2. CaretAt(dom, p).at = p
      BY Zenon DEF CaretAt
    <3> QED BY <3>1, <3>2, Zenon
  <2>2. CASE KeyUp
    <3>1. Sync(dom, caret) /\ caret.at \in 0..Len(dom)
      BY <2>2 DEF KeyUp, DraftInv, EditorInv
    <3> QED BY <3>1, Zenon
  <2> QED BY <2>1, <2>2
<1>2. dom \in Seq(EditorNodes)
  BY DEF DraftInv, EditorInv
<1> QED BY <1>1, <1>2, SyncKeeps DEF DraftStays

LEMMA ClickKeeps == ASSUME DraftInv, NEW i \in DOMAIN dom, ClickRemove(i) PROVE DraftStays
<1> DEFINE d == RemoveChip(dom, i).dom
           c == RemoveChip(dom, i).caret
<1>1. Sync(d, c)
  BY DEF ClickRemove
<1>2. d \in Seq(EditorNodes) /\ c.at \in 0..Len(d) /\ FilesOf(d) \subseteq FilesOf(dom)
  <2>1. dom \in Seq(EditorNodes)
    BY DEF DraftInv, EditorInv
  <2> QED BY <2>1, ChipRemoved
<1> HIDE DEF d, c
<1> QED BY <1>1, <1>2, SyncKeeps DEF DraftStays

(* A level is shown and the editor stays.                                  *)
LEMMA LevelKeeps ==
  ASSUME DraftInv, NEW p \in Texts, Show(match, p, TRUE, nodes), UNCHANGED editor
  PROVE  DraftStays
<1>1. MenuTyped' /\ match' = match
  BY ShowTyped DEF DraftInv, MenuTyped
<1> QED BY <1>1 DEF DraftStays, DraftInv, EditorInv, MatchIsAtCaret, editor

LEMMA DrillKeeps == ASSUME DraftInv, NEW node \in nodes, DrillIn(node) PROVE DraftStays
<1>1. node \in Catalog /\ path \in Texts
  BY DEF DraftInv, MenuTyped
<1>2. node.id \in Texts /\ node.id # << >>
  BY <1>1, LettersAre, Zenon
<1>3. node.id[1] \in Letters
  BY <1>2 DEF Texts
<1>4. Append(path, node.id[1]) \in Texts
  BY <1>1, <1>3 DEF Texts
<1>5. Show(match, Append(path, node.id[1]), TRUE, nodes) /\ UNCHANGED editor
  BY DEF DrillIn
<1> QED BY <1>4, <1>5, LevelKeeps, Zenon

LEMMA BackKeeps == ASSUME DraftInv, Back PROVE DraftStays
<1>1. path \in Seq(Letters) /\ path # << >>
  BY DEF DraftInv, MenuTyped, Texts, Back
<1>2. Front(path) \in Texts
  <2>1. Len(path) \in Nat /\ Len(path) # 0
    BY <1>1, EmptySeq
  <2>2. 1 \in 1..(Len(path) + 1) /\ Len(path) - 1 \in (1 - 1)..Len(path)
    BY <2>1
  <2>3. SubSeq(path, 1, Len(path) - 1) \in Seq(Letters)
    BY <1>1, <2>2, PartTyped
  <2> QED BY <2>3 DEF Front, Texts
<1>3. Show(match, Front(path), TRUE, nodes) /\ UNCHANGED editor
  BY DEF Back
<1> QED BY <1>2, <1>3, LevelKeeps, Zenon

LEMMA PickKeeps == ASSUME DraftInv, NEW node \in nodes, Pick(node) PROVE DraftStays
<1> DEFINE ref == RefOf(node, path)
           taken == SubSeq(value.text, 1, match.start - 1) \o SubSeq(value.text, match.end + 1, Len(value.text))
           x == [value EXCEPT !.text = SubSeq(@, 1, match.start - 1) \o SubSeq(@, match.end + 1, Len(@)),
                              !.caret = match.start - 1, !.pristine = FALSE]
           z == ApplyPickToText(value, match, ref.token)
           y == [z EXCEPT !.refs = Append(@, ref)]
           v == IF node.insert = "action" THEN x ELSE y
<1>1. MenuOpen /\ Commit(v) /\ Show(MatchOf(v), << >>, TRUE, {})
  BY Zenon DEF Pick
<1>2. FoundIn(value.text, match)
  <2>1. match # Null /\ match = DetectTrigger(value.text, value.caret)
    BY <1>1 DEF MenuOpen, DraftInv, MatchIsAtCaret
  <2>2. value.text \in Texts /\ value.caret \in Nat
    BY DEF DraftInv, EditorInv, Sound, Texts
  <2> QED BY <2>1, <2>2, DetectIs
<1>3. Sound(value) /\ Own(value) /\ node \in Catalog /\ path \in Texts
  BY DEF DraftInv, EditorInv, MenuTyped
<1>4. ref \in Refs /\ ref.token \in Texts
  <2>1. ref \in Refs
    BY <1>3, RefTyped
  <2> HIDE DEF ref
  <2> QED BY <2>1 DEF Refs
<1>5. Sound(x) /\ x.files = value.files
  <2>1. x = Edited(value, taken, match.start - 1, FALSE)
    BY Zenon DEF Edited
  <2>2. Sound(Edited(value, taken, match.start - 1, FALSE)) /\ Edited(value, taken, match.start - 1, FALSE).files = value.files
    BY <1>2, <1>3, TriggerTaken, Zenon
  <2> QED BY <2>1, <2>2, Zenon
<1> HIDE DEF x, ref
<1>6. Sound(y) /\ y.files = value.files
  <2>1. Sound(z) /\ z.files = value.files
    BY <1>2, <1>3, <1>4, PickApplied, Zenon
  <2> HIDE DEF z
  <2>2. Sound(y) /\ y.files = z.files
    BY <1>4, <2>1, RefAppended, Zenon
  <2> QED BY <2>1, <2>2
<1> HIDE DEF y
<1>7. Sound(v) /\ v.files = value.files
  BY <1>5, <1>6, Zenon
<1> HIDE DEF v
<1>8. Own(v)
  BY <1>3, <1>7 DEF Own
<1>9. EditorInv'
  BY <1>1, <1>7, <1>8, CommitKeeps
<1>10. MenuTyped' /\ match' = MatchOf(v)
  <2>1. << >> \in Texts /\ MenuTyped
    BY LetterTexts, Zenon DEF Texts, DraftInv
  <2>2. {} \in SUBSET Catalog /\ Show(MatchOf(v), << >>, TRUE, {})
    BY <1>1
  <2> QED BY <2>1, <2>2, ShowTyped, Zenon
<1>11. MatchIsAtCaret'
  <2>1. value' = v /\ MatchIsAtCaret
    BY <1>1 DEF Commit, DraftInv
  <2> QED BY <1>7, <1>10, <2>1, MatchFits
<1> QED BY <1>9, <1>10, <1>11 DEF DraftStays

LEMMA AnswersKeep ==
  ASSUME DraftInv, NEW r \in asked, Fetched(r) \/ FetchFails(r)
  PROVE  DraftStays
<1>1. UNCHANGED <<editor, match, path>> /\ asked' \subseteq asked
  BY DEF Fetched, FetchFails
<1>2. nodes' \subseteq Catalog
  <2>1. nodes' = nodes \/ nodes' = {} \/ nodes' = ListItems(r.query, r.path)
    BY DEF Fetched, FetchFails, TakeAnswer
  <2>2. nodes \subseteq Catalog
    BY DEF DraftInv, MenuTyped
  <2> QED BY <2>1, <2>2, ListTyped
<1> QED BY <1>1, <1>2 DEF DraftStays, DraftInv, EditorInv, MenuTyped, AskedTyped, MatchIsAtCaret, editor

LEMMA DismissKeeps == ASSUME DraftInv, Dismiss PROVE DraftStays
<1>1. UNCHANGED <<editor, match, path, asked>> /\ nodes' = {}
  BY DEF Dismiss
<1> QED BY <1>1 DEF DraftStays, DraftInv, EditorInv, MenuTyped, AskedTyped, MatchIsAtCaret, editor

LEMMA ReadNow == ASSUME DraftInv PROVE Sound(ReadEditor(dom, caret)) /\ Own(ReadEditor(dom, caret))
BY ReadIs DEF DraftInv, EditorInv

LEMMA AddsKeep ==
  ASSUME DraftInv,
         AddTrigger \/ \E query \in Queries : \E hit \in FlattenMenuItems(ListItems(query, << >>)) : AddPick(hit)
  PROVE  DraftStays
<1> DEFINE read == ReadEditor(dom, caret)
<1>1. Sound(read) /\ Own(read)
  BY ReadNow
<1> HIDE DEF read
<1>2. CASE AddTrigger
  <2>1. Put(InsertTrigger(read))
    BY <1>2 DEF AddTrigger, read
  <2>2. Sound(InsertTrigger(read)) /\ Own(InsertTrigger(read))
    <3>1. Sound(InsertTrigger(read)) /\ InsertTrigger(read).files = read.files
      BY <1>1, TriggerInserted
    <3> QED BY <1>1, <3>1 DEF Own
  <2> QED BY <2>1, <2>2, PutKeeps DEF DraftStays
<1>3. ASSUME NEW query \in Queries, NEW hit \in FlattenMenuItems(ListItems(query, << >>)), AddPick(hit)
      PROVE  DraftStays
  <2> DEFINE v == InsertCatalogItemAtCaret(read, hit.item, hit.path)
  <2>1. Put(v)
    BY <1>3 DEF AddPick, read
  <2>2. hit.item \in Catalog /\ hit.path \in Texts
    <3>1. ListItems(query, << >>) \in SUBSET Catalog
      BY ListTyped
    <3> QED BY <3>1, MenuItemsTyped
  <2>3. Sound(v) /\ v.files = read.files
    BY <1>1, <2>2, ItemInserted
  <2> HIDE DEF v
  <2>4. Own(v)
    BY <1>1, <2>3 DEF Own
  <2> QED BY <2>1, <2>3, <2>4, PutKeeps DEF DraftStays
<1> QED BY <1>2, <1>3

LEMMA FileReadKeeps ==
  ASSUME DraftInv, NEW job \in jobs, NEW name \in Names, FileRead(job, name)
  PROVE  DraftStays /\ JobsInv'
<1> DEFINE id == job.id + job.left
           file == [id |-> id, token |-> name, data |-> id]
           next == InsertAttachmentAtCaret(job.next, file)
<1>1. /\ job = [id |-> job.id, next |-> job.next, left |-> job.left, added |-> job.added]
      /\ job.id \in Nat /\ job.left \in Nat \ {0} /\ Sound(job.next) /\ Own(job.next)
  BY DEF DraftInv, JobsInv
<1>2. file \in Attached /\ file.data = file.id
  <2>1. name \in Texts
    BY LettersAre, Zenon
  <2>2. id \in Nat
    BY <1>1
  <2> HIDE DEF id
  <2> QED BY <2>1, <2>2 DEF Attached
<1> HIDE DEF file
<1>3. Sound(next) /\ Own(next)
  BY <1>1, <1>2, AttachmentInserted
<1> HIDE DEF next
<1>4. CASE job.left = 1
  <2>1. Put(next) /\ jobs' = jobs \ {job} /\ files' = files
    BY <1>4, Zenon DEF FileRead, next, file, counts
  <2>2. DraftStays
    BY <1>3, <2>1, PutKeeps DEF DraftStays
  <2>3. JobsInv'
    BY <2>1 DEF DraftInv, JobsInv
  <2> QED BY <2>2, <2>3
<1>5. CASE job.left # 1
  <2> DEFINE new == [job EXCEPT !.next = next, !.left = @ - 1, !.added = TRUE]
  <2>1. jobs' = (jobs \ {job}) \cup {new} /\ UNCHANGED <<editor, match, path, nodes, asked>> /\ files' = files
    BY <1>5, Zenon DEF FileRead, next, file, counts
  <2>2. DraftStays
    BY <2>1, EditorStays DEF DraftStays
  <2>3. new = [id |-> job.id, next |-> next, left |-> job.left - 1, added |-> TRUE]
    <3>1. ASSUME NEW a, NEW k, NEW w, w = [job EXCEPT !.next = next, !.left = k, !.added = a]
          PROVE  w = [id |-> job.id, next |-> next, left |-> k, added |-> a]
      BY <1>1, <3>1
    <3> QED BY <3>1, Zenon
  <2> HIDE DEF new
  <2>4. new.id = job.id /\ new.next = next /\ new.left = job.left - 1 /\ new.added = TRUE
    BY <2>3, Zenon
  <2>5. new = [id |-> new.id, next |-> new.next, left |-> new.left, added |-> new.added]
    BY <2>3, <2>4, Zenon
  <2>6. JobsInv'
    BY <1>1, <1>3, <1>5, <2>1, <2>4, <2>5 DEF DraftInv, JobsInv
  <2> QED BY <2>2, <2>6
<1> QED BY <1>4, <1>5

LEMMA FileFailsKeeps == ASSUME DraftInv, NEW job \in jobs, FileFails(job) PROVE DraftStays /\ JobsInv'
<1>1. /\ job = [id |-> job.id, next |-> job.next, left |-> job.left, added |-> job.added]
      /\ job.id \in Nat /\ job.left \in Nat \ {0} /\ Sound(job.next) /\ Own(job.next)
  BY DEF DraftInv, JobsInv
<1>2. CASE job.left = 1
  <2>1. jobs' = jobs \ {job} /\ files' = files /\ (Put(job.next) \/ UNCHANGED <<editor, match, path, nodes, asked>>)
    BY <1>2 DEF FileFails
  <2>2. DraftStays
    BY <1>1, <2>1, PutKeeps, EditorStays DEF DraftStays
  <2>3. JobsInv'
    BY <2>1 DEF DraftInv, JobsInv
  <2> QED BY <2>2, <2>3
<1>3. CASE job.left # 1
  <2> DEFINE new == [job EXCEPT !.left = @ - 1]
  <2>1. jobs' = (jobs \ {job}) \cup {new} /\ UNCHANGED <<editor, match, path, nodes, asked>> /\ files' = files
    BY <1>3 DEF FileFails
  <2>2. DraftStays
    BY <2>1, EditorStays DEF DraftStays
  <2>3. new = [id |-> job.id, next |-> job.next, left |-> job.left - 1, added |-> job.added]
    BY <1>1
  <2> HIDE DEF new
  <2>4. new.id = job.id /\ new.next = job.next /\ new.left = job.left - 1 /\ new.added = job.added
    BY <2>3, Zenon
  <2>5. new = [id |-> new.id, next |-> new.next, left |-> new.left, added |-> new.added]
    BY <2>3, <2>4, Zenon
  <2>6. JobsInv'
    BY <1>1, <1>3, <2>1, <2>4, <2>5 DEF DraftInv, JobsInv
  <2> QED BY <2>2, <2>6
<1> QED BY <1>2, <1>3

LEMMA FilesAdded == ASSUME DraftInv, NEW n \in 1..MaxFiles, AddFiles(n) PROVE DraftStays /\ JobsInv'
<1> DEFINE read == ReadEditor(dom, caret)
           new == [id |-> files + 1, next |-> read, left |-> n, added |-> FALSE]
<1>1. Sound(read) /\ Own(read)
  BY ReadNow
<1>2. jobs' = jobs \cup {new} /\ files' = files + n /\ UNCHANGED <<editor, match, path, nodes, asked>>
  BY DEF AddFiles, menuVars
<1> HIDE DEF read
<1>3. files \in Nat /\ n \in Nat \ {0}
  BY DraftAssumption DEF DraftInv, JobsInv
<1>4. new.id = files + 1 /\ new.next = read /\ new.left = n /\ new.added = FALSE
  BY Zenon
<1>5. new = [id |-> new.id, next |-> new.next, left |-> new.left, added |-> new.added]
  BY <1>4, Zenon
<1> HIDE DEF new
<1>6. JobsInv'
  BY <1>1, <1>2, <1>3, <1>4, <1>5 DEF DraftInv, JobsInv
<1> QED BY <1>2, <1>6, EditorStays DEF DraftStays

LEMMA SubmitKeeps == ASSUME DraftInv, Submit PROVE DraftStays
<1>1. CASE Put(Empty)
  BY <1>1, EmptyIs, PutKeeps DEF DraftStays
<1>2. CASE UNCHANGED <<dom, caret, value, match, path, nodes, asked>>
  BY <1>2 DEF DraftStays, DraftInv, EditorInv, MenuTyped, AskedTyped, MatchIsAtCaret
<1> QED BY <1>1, <1>2 DEF Submit

LEMMA DraftInit == ComposerInit => DraftInv
<1> SUFFICES ASSUME ComposerInit PROVE DraftInv
  OBVIOUS
<1>1. Backed(<< >>, Empty)
  BY EmptySeq DEF Backed, FilesOf
<1>2. << >> \in Texts /\ << >> \in Seq(EditorNodes) /\ Len(<< >>) = 0
  BY EmptySeq DEF Texts
<1>3. EditorInv
  BY <1>1, <1>2, EmptyIs DEF ComposerInit, EditorInv
<1>4. MenuTyped /\ MatchIsAtCaret /\ JobsInv
  BY <1>2 DEF ComposerInit, MenuTyped, AskedTyped, MatchIsAtCaret, JobsInv
<1> QED BY <1>3, <1>4 DEF DraftInv

LEMMA JobsStay == ASSUME DraftInv, UNCHANGED <<jobs, files>> PROVE JobsInv'
BY DEF DraftInv, JobsInv

LEMMA DraftKept == DraftInv /\ [ComposerNext]_composerVars => DraftInv'
<1> SUFFICES ASSUME DraftInv, [ComposerNext]_composerVars PROVE DraftStays /\ JobsInv'
  BY DEF DraftStays, DraftInv
<1>1. ASSUME NEW key \in Keys, Type(key) PROVE DraftStays /\ JobsInv'
  BY <1>1, TypeKeeps, JobsStay DEF Type
<1>2. CASE (\E p \in 0..Len(dom) : MoveCaret(p)) \/ KeyUp
  BY <1>2, CaretKeeps, JobsStay DEF MoveCaret, KeyUp
<1>3. ASSUME NEW i, Erase(i) PROVE DraftStays /\ JobsInv'
  BY <1>3, EraseKeeps, JobsStay DEF Erase
<1>4. CASE Backspace \/ Delete
  BY <1>3, <1>4 DEF Backspace, Delete
<1>5. ASSUME NEW i \in DOMAIN dom, ClickRemove(i) PROVE DraftStays /\ JobsInv'
  BY <1>5, ClickKeeps, JobsStay DEF ClickRemove
<1>6. ASSUME NEW node \in nodes, DrillIn(node) PROVE DraftStays /\ JobsInv'
  BY <1>6, DrillKeeps, JobsStay DEF DrillIn
<1>7. ASSUME NEW node \in nodes, Pick(node) PROVE DraftStays /\ JobsInv'
  <2>1. UNCHANGED <<jobs, files>>
    BY <1>7 DEF Pick
  <2> QED BY <1>7, <2>1, PickKeeps, JobsStay
<1>8. CASE Back
  BY <1>8, BackKeeps, JobsStay DEF Back
<1>9. CASE Dismiss
  BY <1>9, DismissKeeps, JobsStay DEF Dismiss
<1>10. ASSUME NEW r \in asked, Fetched(r) \/ FetchFails(r) PROVE DraftStays /\ JobsInv'
  BY <1>10, AnswersKeep, JobsStay DEF Fetched, FetchFails, counts
<1>11. CASE AddTrigger \/ \E query \in Queries : \E hit \in FlattenMenuItems(ListItems(query, << >>)) : AddPick(hit)
  <2>1. UNCHANGED <<jobs, files>>
    BY <1>11 DEF AddTrigger, AddPick
  <2> QED BY <1>11, <2>1, AddsKeep, JobsStay
<1>12. ASSUME NEW n \in 1..MaxFiles, AddFiles(n) PROVE DraftStays /\ JobsInv'
  BY <1>12, FilesAdded
<1>13. ASSUME NEW job \in jobs, FileFails(job) \/ \E name \in Names : FileRead(job, name) PROVE DraftStays /\ JobsInv'
  BY <1>13, FileFailsKeeps, FileReadKeeps
<1>14. CASE Submit
  BY <1>14, SubmitKeeps, JobsStay DEF Submit
<1>15. CASE UNCHANGED composerVars
  BY <1>15, EditorStays, JobsStay DEF composerVars, menuVars, counts, DraftStays
<1> QED BY <1>1, <1>2, <1>4, <1>5, <1>6, <1>7, <1>8, <1>9, <1>10, <1>11, <1>12, <1>13, <1>14, <1>15
        DEF ComposerNext

(* The payload of each file in the editor is in the value, its own, though *)
(* neither a paint nor a reading carries it.                               *)
THEOREM FilesKeepTheirPayload == ComposerSpec => []PayloadsSurvive
<1>1. DraftInv => PayloadsSurvive
  BY SurviveIs DEF DraftInv, EditorInv
<1> QED BY <1>1, DraftInit, DraftKept, PTL DEF ComposerSpec

(* A painted value reads back as its own text and shows no chip but its    *)
(* own, whatever tokens occur in the text or within one another; and where *)
(* the first occurrences of its chips' tokens do not overlap, each chip    *)
(* stands over the first occurrence of its token.                          *)
THEOREM PaintedIsTheDraft == ComposerSpec => []PaintKeepsDraft
<1>1. DraftInv => PaintKeepsDraft
  <2> SUFFICES ASSUME Sound(value) PROVE PaintKeepsDraft
    BY DEF DraftInv, EditorInv
  <2> DEFINE d == PaintComposer(value)
  <2>1. /\ d \in Seq(Shown(value)) /\ Text(d) = value.text
        /\ Apart(value) => \A chip \in Range(Chips(value)) : Stands(d, value, chip)
    BY Painted
  <2> HIDE DEF d
  <2>2. ASSUME NEW n \in Range(d), IsChip(n) PROVE n \in Range(Chips(value))
    <3>1. n \in Shown(value)
      BY <2>1 DEF Range
    <3> QED BY <2>2, <3>1 DEF Shown, Characters, IsChip
  <2> QED BY <2>1, <2>2 DEF PaintKeepsDraft, d
<1> QED BY <1>1, DraftInit, DraftKept, PTL DEF ComposerSpec

(* What is painted and what is read agree with the value, in text and,     *)
(* where the caret is in a text, in caret.                                 *)
Agrees == Text(dom) = value.text /\ (caret.inText => Offset(dom, caret.at) = value.caret)
Moved == ~attaching' /\ <<dom, caret>>' # <<dom, caret>>

LEMMA OffsetStep ==
  ASSUME NEW d \in Seq(EditorNodes), NEW p \in 1..Len(d), ~IsChip(d[p])
  PROVE  Offset(d, p) = Offset(d, p - 1) + 1
<1> DEFINE front == SubSeq(d, 1, p - 1)
<1>1. Len(d) \in Nat /\ d[p] \in EditorNodes
  OBVIOUS
<1>2. front \in Seq(EditorNodes)
  <2>1. 1 \in 1..(Len(d) + 1) /\ p - 1 \in (1 - 1)..Len(d)
    BY <1>1
  <2> QED BY <2>1, PartTyped
<1>3. SubSeq(d, 1, p) = front \o <<d[p]>>
  <2>1. SubSeq(d, p, p) = <<d[p]>>
    <3>1. /\ p \in 1..(Len(d) + 1) /\ p \in (p - 1)..Len(d) /\ p - p + 1 = 1 /\ p + 1 - 1 = p
      BY <1>1
    <3> DEFINE x == SubSeq(d, p, p)
    <3>2. x \in Seq(EditorNodes) /\ Len(x) = 1 /\ x[1] = d[p]
      BY <3>1, PartTyped
    <3> HIDE DEF x
    <3>3. <<d[p]>> \in Seq(EditorNodes) /\ Len(<<d[p]>>) = 1 /\ <<d[p]>>[1] = d[p]
      BY <1>1
    <3>4. \A k \in 1..Len(x) : x[k] = <<d[p]>>[k]
      BY <3>2, <3>3
    <3>5. x = <<d[p]>>
      BY <3>2, <3>3, <3>4, SeqEqual
    <3> QED BY <3>5 DEF x
  <2>2. 1 \in 1..(Len(d) + 1) /\ p - 1 \in (1 - 1)..Len(d) /\ p \in (p - 1)..Len(d) /\ p - 1 + 1 = p
    BY <1>1
  <2>3. SubSeq(d, 1, p - 1) \o SubSeq(d, p - 1 + 1, p) = SubSeq(d, 1, p)
    BY <2>2, ConcatAdjacentSubSeq
  <2> QED BY <2>1, <2>2, <2>3
<1> HIDE DEF front
<1>4. Text(SubSeq(d, 1, p)) = Text(front) \o Wire(d[p])
  <2>1. <<d[p]>> \in Seq(EditorNodes) /\ Text(<<d[p]>>) = Wire(d[p])
    BY <1>1, TextOfOne
  <2> QED BY <1>2, <1>3, <2>1, TextConcat
<1>5. Wire(d[p]) \in Texts /\ Len(Wire(d[p])) = 1
  <2>1. d[p].t = "char"
    BY DEF IsChip
  <2>2. Wire(d[p]) = <<d[p].c>>
    BY <2>1 DEF Wire
  <2> QED BY <1>1, <2>2, WireTyped
<1>6. Text(front) \in Seq(Letters) /\ Wire(d[p]) \in Seq(Letters)
  BY <1>2, <1>5, TextTyped DEF Texts
<1>7. Len(Text(front) \o Wire(d[p])) = Len(Text(front)) + 1
  BY <1>5, <1>6, ConcatProperties
<1> QED BY <1>4, <1>7 DEF Offset, front

(* A caret put into a text is where it was asked for.                      *)
LEMMA CaretLands ==
  ASSUME NEW d \in Seq(EditorNodes), NEW offset \in 0..Len(Text(d)), SetComposerCaret(d, offset).inText
  PROVE  Offset(d, SetComposerCaret(d, offset).at) = offset
<1> DEFINE fits == {p \in 0..Len(d) : Offset(d, p) >= offset /\ (p = 0 => d = << >> \/ ~IsChip(d[1]))}
           spot == IF fits = {} THEN Len(d) ELSE Min(fits)
<1>1. Len(d) \in Nat /\ Len(Text(d)) \in Nat /\ offset \in Nat
  <2>1. Len(d) \in Nat
    OBVIOUS
  <2>2. 0 \in 0..Len(d)
    BY <2>1
  <2> QED BY <2>1, <2>2, OffsetTyped
<1>2. SetComposerCaret(d, offset).at = spot /\ (spot = 0 \/ ~IsChip(d[spot]))
  BY Zenon DEF SetComposerCaret
<1>3. Offset(d, Len(d)) = Len(Text(d)) /\ Offset(d, 0) = 0
  <2>1. SubSeq(d, 1, Len(d)) = d /\ SubSeq(d, 1, 0) = << >>
    BY SubSeqFull, SubSeqEmpty
  <2>2. Text(<< >>) = << >>
    <3>1. Wires(<< >>) = << >> /\ FlattenSeq(<< >>) = << >>
      BY EmptySeq DEF Wires, FlattenSeq
    <3> QED BY <3>1 DEF Text, Wires
  <2> QED BY <2>1, <2>2, EmptySeq DEF Offset
<1>4. fits \in SUBSET Nat /\ Len(d) \in fits
  <2>1. Len(d) = 0 => d = << >>
    BY EmptySeq
  <2> QED BY <1>1, <1>3, <2>1
<1>5. spot \in fits /\ \A p \in fits : spot <= p
  <2> HIDE DEF fits
  <2>1. PICK n \in fits : \A p \in fits : n <= p
    BY <1>4, LeastNumber
  <2>2. Min(fits) \in fits /\ \A p \in fits : Min(fits) <= p
    BY <2>1 DEF Min
  <2> QED BY <1>4, <2>2
<1>6. spot \in 0..Len(d) /\ Offset(d, spot) >= offset
  BY <1>5
<1> HIDE DEF spot
<1>7. CASE spot = 0
  BY <1>1, <1>2, <1>3, <1>6, <1>7
<1>8. CASE spot # 0
  <2>1. spot \in 1..Len(d) /\ spot - 1 \in 0..Len(d) /\ ~(spot <= spot - 1) /\ ~IsChip(d[spot])
    BY <1>1, <1>2, <1>6, <1>8
  <2>2. spot - 1 \notin fits
    BY <1>5, <2>1
  <2>3. spot - 1 = 0 => ~IsChip(d[1])
    <3>1. spot - 1 = 0 => spot = 1
      BY <2>1
    <3> QED BY <2>1, <3>1
  <2>4. ~(Offset(d, spot - 1) >= offset)
    BY <2>1, <2>2, <2>3
  <2>5. Offset(d, spot) = Offset(d, spot - 1) + 1
    BY <2>1, OffsetStep
  <2>6. Offset(d, spot - 1) \in Nat
    BY <1>1, <2>1, OffsetTyped
  <2>7. Offset(d, spot) = offset
    BY <1>1, <1>6, <2>4, <2>5, <2>6
  <2> QED BY <1>2, <2>7
<1> QED BY <1>7, <1>8

LEMMA CommitAgrees == ASSUME NEW v, Sound(v), Commit(v) PROVE Agrees'
<1> DEFINE d == PaintComposer(v)
<1>1. value' = v /\ dom' = d /\ caret' = SetComposerCaret(d, v.caret)
  BY DEF Commit
<1>2. d \in Seq(EditorNodes) /\ Text(d) = v.text
  BY Painted, PaintTyped
<1> HIDE DEF d
<1>3. v.caret \in 0..Len(Text(d))
  BY <1>2 DEF Sound
<1>4. caret'.inText => Offset(dom', caret'.at) = v.caret
  BY <1>1, <1>2, <1>3, CaretLands
<1> QED BY <1>1, <1>2, <1>4 DEF Agrees

LEMMA SyncAgrees == ASSUME NEW d, NEW c, ~attaching, Sync(d, c), Sound(value') PROVE Agrees'
<1> DEFINE v == ReadEditor(d, c)
<1>1. SetValue(v, d, c)
  BY Zenon DEF Sync
<1>2. v.text = Text(d) /\ (c.inText => v.caret = Offset(d, c.at))
  BY DEF ReadEditor, Serialize
<1> HIDE DEF v
<1>3. CASE needsPaint
  <2>1. Commit(v) /\ value' = v
    BY <1>1, <1>3 DEF SetValue, Commit
  <2> QED BY <2>1, CommitAgrees
<1>4. CASE ~needsPaint
  <2>1. value' = v /\ dom' = d /\ caret' = c
    BY <1>1, <1>4 DEF SetValue
  <2> QED BY <1>2, <2>1 DEF Agrees
<1> QED BY <1>3, <1>4

(* Every step that moves anything in the editor reads it or paints it.     *)
LEMMA StepAgrees == ASSUME DraftInv, DraftInv', ComposerNext, Moved PROVE Agrees'
<1>1. Sound(value')
  BY DEF DraftInv, EditorInv
<1>2. ASSUME NEW d, NEW c, Sync(d, c), attaching' = attaching PROVE Agrees'
  BY <1>1, <1>2, SyncAgrees DEF Moved
<1>3. ASSUME NEW v, Commit(v) PROVE Agrees'
  <2>1. value' = v
    BY <1>3 DEF Commit
  <2> QED BY <1>1, <1>3, <2>1, CommitAgrees
<1>4. ASSUME NEW v, Put(v) PROVE Agrees'
  BY <1>3, <1>4 DEF Put
<1>5. ASSUME UNCHANGED editor \/ UNCHANGED <<dom, caret>> PROVE FALSE
  BY <1>5 DEF editor, Moved
<1>6. ASSUME NEW key \in Keys, Type(key) PROVE Agrees'
  BY <1>2, <1>6 DEF Type
<1>7. CASE (\E p \in 0..Len(dom) : MoveCaret(p)) \/ KeyUp
  BY <1>2, <1>7 DEF MoveCaret, KeyUp
<1>8. ASSUME NEW i, Erase(i) PROVE Agrees'
  <2>1. attaching' = attaching
    BY <1>8 DEF Erase
  <2>2. \/ Commit(Empty) \/ UNCHANGED editor
        \/ Sync(RemoveChip(dom, i).dom, RemoveChip(dom, i).caret)
        \/ Sync(RemoveAt(dom, i), CaretAt(RemoveAt(dom, i), i - 1))
    BY <1>8, Zenon DEF Erase
  <2> QED BY <1>2, <1>3, <1>5, <2>1, <2>2
<1>9. CASE Backspace \/ Delete
  BY <1>8, <1>9 DEF Backspace, Delete
<1>10. ASSUME NEW i \in DOMAIN dom, ClickRemove(i) PROVE Agrees'
  BY <1>2, <1>10 DEF ClickRemove
<1>11. ASSUME NEW node \in nodes, DrillIn(node) PROVE Agrees'
  BY <1>5, <1>11 DEF DrillIn
<1>12. ASSUME NEW node \in nodes, Pick(node) PROVE Agrees'
  BY <1>3, <1>12 DEF Pick
<1>13. CASE Back \/ Dismiss
  BY <1>5, <1>13 DEF Back, Dismiss
<1>14. ASSUME NEW r \in asked, Fetched(r) \/ FetchFails(r) PROVE Agrees'
  BY <1>5, <1>14 DEF Fetched, FetchFails
<1>15. CASE AddTrigger \/ \E query \in Queries : \E hit \in FlattenMenuItems(ListItems(query, << >>)) : AddPick(hit)
  BY <1>4, <1>15 DEF AddTrigger, AddPick
<1>16. ASSUME NEW n \in 1..MaxFiles, AddFiles(n) PROVE Agrees'
  BY <1>5, <1>16 DEF AddFiles
<1>17. ASSUME NEW job \in jobs, NEW name \in Names, FileRead(job, name) PROVE Agrees'
  BY <1>4, <1>5, <1>17 DEF FileRead
<1>18. ASSUME NEW job \in jobs, FileFails(job) PROVE Agrees'
  BY <1>4, <1>5, <1>18 DEF FileFails
<1>19. CASE Submit
  BY <1>4, <1>5, <1>19 DEF Submit
<1> QED BY <1>6, <1>7, <1>9, <1>10, <1>11, <1>12, <1>13, <1>14, <1>15, <1>16, <1>17, <1>18, <1>19, Zenon
        DEF ComposerNext

(* After every step that moves the caret or changes the editor, the text   *)
(* that a pick would replace is the trigger and the query in the editor    *)
(* before its caret: whatever was typed, moved, removed, painted or put in *)
(* since the match was found.                                              *)
THEOREM PicksReplaceTheQuery == ComposerSpec => MatchFollowsCaret
<1> DEFINE Right ==
      /\ Text(dom') = value'.text
      /\ match'.end = Offset(dom', caret'.at)
      /\ SubSeq(Text(dom'), match'.start, match'.end) = <<Trigger>> \o match'.query
<1>1. ASSUME DraftInv, DraftInv', ComposerNext, Moved, caret'.inText, match' # Null PROVE Right
  <2>1. Text(dom') = value'.text /\ Offset(dom', caret'.at) = value'.caret
    BY <1>1, StepAgrees DEF Agrees
  <2>2. /\ match' = DetectTrigger(value'.text, value'.caret)
        /\ SubSeq(value'.text, match'.start, match'.end) = <<Trigger>> \o match'.query
    BY <1>1 DEF DraftInv, MatchIsAtCaret
  <2>3. value'.text \in Texts /\ value'.caret \in 0..Len(value'.text) /\ Len(value'.text) \in Nat
    BY <1>1 DEF DraftInv, EditorInv, Sound, Texts
  <2>4. match'.end = value'.caret
    <3> DEFINE end == IF value'.caret < Len(value'.text) THEN value'.caret ELSE Len(value'.text)
    <3>1. end = value'.caret
      BY <2>3
    <3>2. match'.end = end
      <4>1. \A text, c : DetectTrigger(text, c) # Null =>
              DetectTrigger(text, c).end = IF c < Len(text) THEN c ELSE Len(text)
        BY DEF DetectTrigger
      <4> QED BY <1>1, <2>2, <4>1, Zenon
    <3> QED BY <3>1, <3>2
  <2> QED BY <2>1, <2>2, <2>4
<1>2. DraftInv /\ DraftInv' /\ [ComposerNext]_composerVars
        => [Moved /\ caret'.inText /\ match' # Null => Right]_composerVars
  BY <1>1, Zenon
<1> QED BY <1>2, DraftInit, DraftKept, PTL DEF ComposerSpec, MatchFollowsCaret, Moved

-----------------------------------------------------------------------------
(***************************************************************************)
(* What the provider sends, as frames of lines, and how it is cut.         *)
(***************************************************************************)
(* A longer row with the same elements up to its last.                     *)
LEMMA AppendIs ==
  ASSUME NEW S, NEW a \in Seq(S), NEW b \in Seq(S), Len(b) = Len(a) + 1, \A i \in 1..Len(a) : b[i] = a[i]
  PROVE  b = Append(a, b[Len(b)])
<1>1. Len(a) \in Nat /\ b[Len(b)] \in S
  BY ElementOfSeq, LenProperties
<1>2. /\ Append(a, b[Len(b)]) \in Seq(S) /\ Len(Append(a, b[Len(b)])) = Len(a) + 1
      /\ \A i \in 1..Len(a) : Append(a, b[Len(b)])[i] = a[i]
      /\ Append(a, b[Len(b)])[Len(a) + 1] = b[Len(b)]
  BY <1>1, AppendProperties
<1>3. \A i \in 1..Len(b) : b[i] = Append(a, b[Len(b)])[i]
  BY <1>1, <1>2
<1> QED BY <1>2, <1>3, SeqEqual

SentLines(P) == Seq(Units(P) \ {Newline}) \ {<< >>}
Ended(frame) == [i \in DOMAIN frame |-> Append(frame[i], Newline)]
Body(frame) == FlattenSeq(Ended(frame))

LEMMA NewlineIs == \A P : Newline \in Units(P)
<1> SUFFICES ASSUME NEW P PROVE Newline \in Units(P)
  OBVIOUS
<1>1. << >> \in Seq(P) /\ 0 \in 0..3
  BY EmptySeq
<1>2. [of |-> << >>, half |-> 0] \in Units(P)
  BY <1>1, UnitTyped, Zenon
<1> QED BY <1>2, Zenon DEF Newline

LEMMA LineTyped ==
  ASSUME NEW P, NEW line \in SentLines(P)
  PROVE  /\ line \in Seq(Units(P)) /\ line # << >> /\ Len(line) \in Nat \ {0}
         /\ Append(line, Newline) \in Seq(Units(P)) /\ Len(Append(line, Newline)) = Len(line) + 1
         /\ \A i \in 1..Len(line) : line[i] # Newline /\ Append(line, Newline)[i] = line[i]
         /\ Append(line, Newline)[Len(line) + 1] = Newline
<1>1. PICK U : U = Units(P) /\ Newline \in U
  BY NewlineIs
<1>2. line \in Seq(U \ {Newline}) /\ line # << >>
  BY <1>1 DEF SentLines
<1>3. line \in Seq(U)
  BY <1>2, SeqMonotonic
<1>4. Len(line) \in Nat \ {0} /\ \A i \in 1..Len(line) : line[i] # Newline
  BY <1>2, EmptySeq, LenProperties, ElementOfSeq
<1> QED BY <1>1, <1>2, <1>3, <1>4, AppendProperties

LEMMA EndedTyped ==
  ASSUME NEW P, NEW frame \in Seq(SentLines(P))
  PROVE  /\ Ended(frame) \in Seq(Seq(Units(P))) /\ Len(Ended(frame)) = Len(frame)
         /\ \A i \in 1..Len(frame) : Ended(frame)[i] = Append(frame[i], Newline)
<1>1. Len(frame) \in Nat /\ DOMAIN frame = 1..Len(frame) /\ \A i \in 1..Len(frame) : frame[i] \in SentLines(P)
  BY LenProperties, ElementOfSeq
<1>2. PICK S : S = Seq(Units(P))
  OBVIOUS
<1>3. \A i \in 1..Len(frame) : Append(frame[i], Newline) \in S
  BY <1>1, <1>2, LineTyped
<1>4. PICK e : e = [i \in 1..Len(frame) |-> Append(frame[i], Newline)]
  OBVIOUS
<1>5. e \in Seq(S) /\ Len(e) = Len(frame) /\ \A i \in 1..Len(frame) : e[i] = Append(frame[i], Newline)
  BY <1>1, <1>3, <1>4
<1>6. Ended(frame) = e
  BY <1>1, <1>4 DEF Ended
<1> QED BY <1>2, <1>5, <1>6

LEMMA BodyGrows ==
  ASSUME NEW P, NEW frame \in Seq(SentLines(P)), NEW line \in SentLines(P)
  PROVE  Body(Append(frame, line)) = Body(frame) \o Append(line, Newline)
<1>1. PICK longer : longer = Append(frame, line) /\ longer \in Seq(SentLines(P))
  BY AppendProperties
<1>2. PICK S, a, b : S = Seq(Units(P)) /\ a = Ended(frame) /\ b = Ended(longer)
  OBVIOUS
<1>3. a \in Seq(S) /\ b \in Seq(S) /\ Len(a) = Len(frame) /\ Len(b) = Len(longer)
  BY <1>1, <1>2, EndedTyped
<1>4. /\ Len(frame) \in Nat /\ Len(longer) = Len(frame) + 1
      /\ \A i \in 1..Len(frame) : longer[i] = frame[i]
      /\ longer[Len(longer)] = line
  BY <1>1, AppendProperties, LenProperties
<1>5. \A i \in 1..Len(a) : b[i] = a[i]
  <2> SUFFICES ASSUME NEW i \in 1..Len(a) PROVE b[i] = a[i]
    OBVIOUS
  <2>1. i \in 1..Len(frame) /\ i \in 1..Len(longer)
    BY <1>3, <1>4
  <2>2. a[i] = Append(frame[i], Newline)
    BY <1>2, <2>1, EndedTyped
  <2>3. b[i] = Append(longer[i], Newline)
    BY <1>1, <1>2, <2>1, EndedTyped
  <2> QED BY <1>4, <2>1, <2>2, <2>3
<1>6. b[Len(b)] = Append(line, Newline)
  <2>1. Len(longer) \in 1..Len(longer)
    BY <1>4
  <2>2. b[Len(longer)] = Append(longer[Len(longer)], Newline)
    BY <1>1, <1>2, <2>1, EndedTyped
  <2> QED BY <1>3, <1>4, <2>2
<1>7. b = Append(a, Append(line, Newline))
  BY <1>3, <1>4, <1>5, <1>6, AppendIs
<1>8. Append(line, Newline) \in S
  BY <1>2, LineTyped
<1> QED BY <1>1, <1>2, <1>3, <1>7, <1>8, FlattenAppend DEF Body

(* A line is cut off behind its end and nowhere else.                      *)
LEMMA LineUncut == ASSUME NEW P, NEW line \in SentLines(P) PROVE Uncut("line", line)
<1>1. PICK U : U = Units(P) \ {Newline}
  OBVIOUS
<1> DEFINE Good == {s \in Seq(U) : Uncut("line", s)}
<1>2. << >> \in Good
  BY UncutEmpty, EmptySeq
<1>3. ASSUME NEW t \in Seq(U), t \in Good, NEW u \in U PROVE Append(t, u) \in Good
  <2>1. ~EndsPiece("line", t, u)
    BY <1>1 DEF EndsPiece, EndsLine
  <2> QED BY <1>3, <2>1, UncutGrows
<1> HIDE DEF Good
<1>4. \A s \in Seq(U) : s \in Good
  BY <1>2, <1>3, RowInduction
<1>5. line \in Seq(U)
  BY <1>1 DEF SentLines
<1> QED BY <1>4, <1>5 DEF Good

LEMMA LineCut ==
  ASSUME NEW P, NEW line \in SentLines(P)
  PROVE  Pieces("line", Append(line, Newline)) = [whole |-> <<line>>, rest |-> << >>]
<1>1. EndsPiece("line", line, Newline)
  BY DEF EndsPiece, EndsLine
<1>2. line \in Seq(Units(P)) /\ Newline \in Units(P)
  BY LineTyped, NewlineIs
<1> QED BY <1>1, <1>2, LineUncut, UncutGrows

(* No blank line: every newline has something else in front of it.         *)
Clean(s) == \A i \in 1..Len(s) : s[i] = Newline => i > 1 /\ s[i - 1] # Newline

LEMMA CleanUncut ==
  ASSUME NEW S, NEW s \in Seq(S), Clean(s)
  PROVE  Uncut("frame", s)
<1> DEFINE Good == {t \in Seq(S) : Clean(t) => Uncut("frame", t)}
<1>1. << >> \in Good
  BY UncutEmpty, EmptySeq
<1>2. ASSUME NEW t \in Seq(S), t \in Good, NEW u \in S PROVE Append(t, u) \in Good
  <2>0. PICK x : x = Append(t, u)
    OBVIOUS
  <2>1. /\ x = Append(t, u) /\ x \in Seq(S) /\ Len(t) \in Nat /\ Len(x) = Len(t) + 1
        /\ x[Len(t) + 1] = u /\ \A i \in 1..Len(t) : x[i] = t[i]
    BY <2>0, AppendProperties, LenProperties
  <2> SUFFICES ASSUME Clean(x) PROVE Uncut("frame", x)
    BY <2>1
  <2>2. Clean(t)
    <3> SUFFICES ASSUME NEW i \in 1..Len(t), t[i] = Newline PROVE i > 1 /\ t[i - 1] # Newline
      BY DEF Clean
    <3>1. i \in 1..Len(x) /\ x[i] = Newline
      BY <2>1
    <3>2. i > 1 /\ x[i - 1] # Newline
      BY <3>1 DEF Clean
    <3>3. i - 1 \in 1..Len(t)
      BY <2>1, <3>2
    <3> QED BY <2>1, <3>2, <3>3
  <2>3. ~EndsPiece("frame", t, u)
    <3> SUFFICES ASSUME u = Newline, t # << >>, Last(t) = Newline PROVE FALSE
      BY DEF EndsPiece, EndsFrame
    <3>1. Len(t) \in 1..Len(t) /\ t[Len(t)] = Newline
      BY <2>1, EmptySeq DEF Last
    <3>2. Len(t) + 1 \in 1..Len(x) /\ (Len(t) + 1) - 1 = Len(t)
      BY <2>1
    <3>3. \A i \in 1..Len(x) : x[i] = Newline => x[i - 1] # Newline
      BY DEF Clean
    <3>4. x[Len(t) + 1] = Newline /\ x[Len(t)] = Newline
      BY <2>1, <3>1
    <3>5. x[(Len(t) + 1) - 1] # Newline
      BY <3>2, <3>3, <3>4
    <3> QED BY <3>2, <3>4, <3>5
  <2> QED BY <1>2, <2>1, <2>2, <2>3, UncutGrows
<1> HIDE DEF Good
<1>3. s \in Good
  BY <1>1, <1>2, RowInduction
<1> QED BY <1>3 DEF Good

LEMMA CleanConcat ==
  ASSUME NEW S, NEW s \in Seq(S), NEW t \in Seq(S), Clean(s), Clean(t)
  PROVE  Clean(s \o t)
<1>0. PICK x : x = s \o t
  OBVIOUS
<1>1. /\ x = s \o t /\ Len(s) \in Nat /\ Len(t) \in Nat /\ Len(x) = Len(s) + Len(t)
      /\ \A i \in 1..Len(x) : x[i] = IF i <= Len(s) THEN s[i] ELSE t[i - Len(s)]
  BY <1>0, ConcatProperties, LenProperties
<1> SUFFICES ASSUME NEW i \in 1..Len(x), x[i] = Newline PROVE i > 1 /\ x[i - 1] # Newline
  BY <1>1 DEF Clean
<1>2. CASE i <= Len(s)
  <2>1. i \in 1..Len(s) /\ s[i] = Newline
    BY <1>1, <1>2
  <2>2. i > 1 /\ s[i - 1] # Newline
    BY <2>1 DEF Clean
  <2>3. i - 1 \in 1..Len(x) /\ i - 1 <= Len(s)
    BY <1>1, <1>2, <2>2
  <2> QED BY <1>1, <2>2, <2>3
<1>3. CASE ~(i <= Len(s))
  <2>1. i - Len(s) \in 1..Len(t) /\ t[i - Len(s)] = Newline
    BY <1>1, <1>3
  <2>2. i - Len(s) > 1 /\ t[(i - Len(s)) - 1] # Newline
    BY <2>1 DEF Clean
  <2>3. i - 1 \in 1..Len(x) /\ ~(i - 1 <= Len(s)) /\ (i - Len(s)) - 1 = (i - 1) - Len(s)
    BY <1>1, <1>3, <2>2
  <2> QED BY <1>1, <2>2, <2>3
<1> QED BY <1>2, <1>3

LEMMA LineClean == ASSUME NEW P, NEW line \in SentLines(P) PROVE Clean(Append(line, Newline))
<1>0. PICK x : x = Append(line, Newline)
  OBVIOUS
<1>1. Len(x) = Len(line) + 1 /\ Len(line) \in Nat \ {0} /\ \A i \in 1..Len(line) : x[i] # Newline
  BY <1>0, LineTyped
<1>2. Clean(x)
  BY <1>1 DEF Clean
<1> QED BY <1>0, <1>2

(* The lines of a frame, each with its end.                                *)
BodyFits(P, frame) ==
  /\ Body(frame) \in Seq(Units(P)) /\ Clean(Body(frame))
  /\ frame # << >> => Body(frame) # << >> /\ Last(Body(frame)) = Newline
  /\ Pieces("line", Body(frame)) = [whole |-> frame, rest |-> << >>]

LEMMA BodyIs ==
  ASSUME NEW P, NEW frame \in Seq(SentLines(P))
  PROVE  BodyFits(P, frame)
<1> DEFINE Good == {f \in Seq(SentLines(P)) : BodyFits(P, f)}
<1>1. << >> \in Good
  <2>1. Ended(<< >>) = << >>
    BY DEF Ended
  <2>2. Body(<< >>) = << >>
    BY <2>1, EmptySeq DEF Body, FlattenSeq
  <2>3. Clean(<< >>)
    BY DEF Clean
  <2> QED BY <2>2, <2>3, EmptySeq, PiecesEmpty DEF NoPieces, BodyFits
<1>2. ASSUME NEW f \in Seq(SentLines(P)), f \in Good, NEW line \in SentLines(P) PROVE Append(f, line) \in Good
  <2>1. PICK U, b, l, x : /\ U = Units(P) /\ b = Body(f) /\ l = Append(line, Newline) /\ x = b \o l
                          /\ Body(Append(f, line)) = x
    BY BodyGrows
  <2>2. b \in Seq(U) /\ Clean(b) /\ Pieces("line", b) = [whole |-> f, rest |-> << >>]
    BY <1>2, <2>1 DEF BodyFits
  <2>3. /\ l \in Seq(U) /\ Clean(l) /\ Pieces("line", l) = [whole |-> <<line>>, rest |-> << >>]
        /\ Len(l) \in Nat \ {0} /\ l[Len(l)] = Newline
    BY <2>1, LineTyped, LineClean, LineCut
  <2>4. x \in Seq(U) /\ Clean(x)
    BY <2>1, <2>2, <2>3, CleanConcat, ConcatProperties
  <2>5. x # << >> /\ Last(x) = Newline
    <3>1. /\ Len(x) = Len(b) + Len(l) /\ Len(b) \in Nat
          /\ \A i \in 1..Len(x) : x[i] = IF i <= Len(b) THEN b[i] ELSE l[i - Len(b)]
      BY <2>1, <2>2, <2>3, ConcatProperties, LenProperties
    <3>2. Len(x) \in 1..Len(x) /\ ~(Len(x) <= Len(b)) /\ Len(x) - Len(b) = Len(l)
      BY <2>3, <3>1
    <3>3. x[Len(x)] = l[Len(l)]
      BY <3>1, <3>2
    <3>4. x # << >>
      BY <3>2, EmptySeq
    <3> QED BY <2>3, <3>3, <3>4 DEF Last
  <2>6. Pieces("line", x) = [whole |-> Append(f, line), rest |-> << >>]
    <3>1. << >> \o l = l
      BY <2>3, ConcatEmptySeq
    <3>2. PICK first : first = Pieces("line", b)
      OBVIOUS
    <3>3. Pieces("line", x) = Joined(first, Pieces("line", first.rest \o l))
      <4>1. b \in Seq(U) /\ l \in Seq(U)
        BY <2>2, <2>3
      <4>2. Pieces("line", b \o l) = Joined(Pieces("line", b), Pieces("line", Pieces("line", b).rest \o l))
        BY <4>1, PiecesConcat
      <4>3. x = b \o l
        BY <2>1
      <4> QED BY <3>2, <4>2, <4>3, Zenon
    <3>4. first.rest = << >> /\ first.whole = f
      BY <2>2, <3>2
    <3>5. Pieces("line", x) = Joined(first, Pieces("line", l))
      BY <3>1, <3>3, <3>4
    <3>6. Pieces("line", x) = [whole |-> f \o <<line>>, rest |-> << >>]
      <4>1. PICK then : then = Pieces("line", l) /\ then.whole = <<line>> /\ then.rest = << >>
        BY <2>3
      <4> QED BY <3>4, <3>5, <4>1 DEF Joined
    <3>7. f \o <<line>> = Append(f, line)
      BY AppendIsConcat
    <3> QED BY <3>6, <3>7
  <2>7. Append(f, line) \in Seq(SentLines(P))
    BY AppendProperties
  <2> QED BY <2>1, <2>4, <2>5, <2>6, <2>7 DEF BodyFits
<1> HIDE DEF Good
<1>3. frame \in Good
  BY <1>1, <1>2, RowInduction
<1> QED BY <1>3 DEF Good
-----------------------------------------------------------------------------
(* Frames, and rows of frames cut anywhere.                                *)
Frames(P) == Seq(SentLines(P)) \ {<< >>}
Sent(r, n) == FlattenSeq([i \in 1..n |-> Render(r[i])])
PayloadsIn(r, n) == FlattenSeq([i \in 1..n |-> PayloadsOf(r[i])])
HeldIn(r, n) == FlattenSeq(PayloadsIn(r, n))

LEMMA LinesTyped == ASSUME NEW P, NEW frame \in Frames(P) PROVE frame \in Seq(Seq(Units(P)))
<1>1. PICK S : S = Seq(Units(P))
  OBVIOUS
<1>2. SentLines(P) \subseteq S
  BY <1>1, LineTyped
<1>3. frame \in Seq(SentLines(P))
  BY DEF Frames
<1>4. frame \in Seq(S)
  BY <1>2, <1>3, SeqMonotonic
<1> QED BY <1>1, <1>4

LEMMA FrameIs ==
  ASSUME NEW P, NEW frame \in Frames(P)
  PROVE  /\ Body(frame) \in Seq(Units(P)) /\ Clean(Body(frame))
         /\ Render(frame) = Append(Body(frame), Newline) /\ Render(frame) \in Seq(Units(P))
         /\ Decoded(Render(frame)) = FlattenSeq(PayloadsOf(frame))
         /\ FlattenSeq(PayloadsOf(frame)) \in Seq(P) /\ PayloadsOf(frame) \in Seq(Seq(P))
         /\ LeftOver(Render(frame)) = << >>
<1>1. PICK U, b, r : U = Units(P) /\ b = Body(frame) /\ r = Append(b, Newline)
  OBVIOUS
<1>2. frame \in Seq(SentLines(P)) /\ frame # << >>
  BY DEF Frames
<1>3. /\ b \in Seq(U) /\ Clean(b) /\ b # << >> /\ Last(b) = Newline
      /\ Pieces("line", b) = [whole |-> frame, rest |-> << >>]
  BY <1>1, <1>2, BodyIs DEF BodyFits
<1>4. Newline \in U /\ r \in Seq(U)
  BY <1>1, <1>3, NewlineIs, AppendProperties
<1>5. Render(frame) = r
  <2>1. Render(frame) = b \o <<Newline>>
    BY <1>1, Zenon DEF Render, Body, Ended
  <2>2. b \o <<Newline>> = r
    BY <1>1, <1>3, <1>4, AppendIsConcat
  <2> QED BY <2>1, <2>2
<1>6. Pieces("frame", r) = [whole |-> <<b>>, rest |-> << >>]
  <2>1. EndsPiece("frame", b, Newline)
    BY <1>3 DEF EndsPiece, EndsFrame
  <2>2. Uncut("frame", b)
    BY <1>3, CleanUncut
  <2> QED BY <1>1, <1>3, <1>4, <2>1, <2>2, UncutGrows
<1>7. LeftOver(r) = << >> /\ Decoded(r) = FlattenSeq(FlattenSeq(Held(<<b>>)))
  BY <1>1, <1>4, <1>6, OneFrame
<1>8. PayloadsOf(frame) \in Seq(Seq(P))
  BY LinesTyped, PayloadsTyped
<1>9. FlattenSeq(Held(<<b>>)) = PayloadsOf(frame)
  <2>1. Lines(b) = frame
    BY <1>3 DEF Lines
  <2>2. Held(<<b>>) = <<PayloadsOf(frame)>>
    <3>1. [i \in DOMAIN <<b>> |-> PayloadsOf(Lines(<<b>>[i]))] = <<PayloadsOf(Lines(b))>>
      OBVIOUS
    <3> QED BY <2>1, <3>1 DEF Held
  <2> QED BY <1>8, <2>2, FlattenOne
<1>10. FlattenSeq(PayloadsOf(frame)) \in Seq(P)
  BY <1>8, FlattenTyped
<1> QED BY <1>1, <1>3, <1>4, <1>5, <1>7, <1>8, <1>9, <1>10

(* A frame that is not all there holds nothing yet.                        *)
LEMMA FrameBegun ==
  ASSUME NEW P, NEW frame \in Frames(P), NEW m \in 0..Len(Body(frame))
  PROVE  SubSeq(Render(frame), 1, m) \in Seq(Units(P)) /\ Decoded(SubSeq(Render(frame), 1, m)) = << >>
<1>1. PICK U, b, r, s : U = Units(P) /\ b = Body(frame) /\ r = Render(frame) /\ s = SubSeq(r, 1, m)
  OBVIOUS
<1>2. b \in Seq(U) /\ Clean(b) /\ r = Append(b, Newline) /\ r \in Seq(U) /\ Newline \in U
  BY <1>1, FrameIs, NewlineIs
<1>3. /\ Len(b) \in Nat /\ m \in 0..Len(b) /\ Len(r) = Len(b) + 1
      /\ \A i \in 1..Len(b) : r[i] = b[i]
  BY <1>1, <1>2, AppendProperties, LenProperties
<1>4. s \in Seq(U) /\ Len(s) = m /\ \A i \in 1..m : s[i] = b[i]
  <2>1. 1 \in 1..(Len(r) + 1) /\ m \in (1 - 1)..Len(r)
    BY <1>3
  <2>2. s \in Seq(U) /\ Len(s) = m - 1 + 1 /\ \A i \in 1..(m - 1 + 1) : s[i] = r[1 + i - 1]
    BY <1>1, <1>2, <2>1, PartTyped
  <2>3. m - 1 + 1 = m /\ \A i \in 1..m : 1 + i - 1 = i /\ i \in 1..Len(b)
    BY <1>3
  <2> QED BY <1>3, <2>2, <2>3
<1>5. Clean(s)
  <2> SUFFICES ASSUME NEW i \in 1..m, s[i] = Newline PROVE i > 1 /\ s[i - 1] # Newline
    BY <1>4 DEF Clean
  <2>1. i \in 1..Len(b) /\ b[i] = Newline
    <3>1. i \in 1..Len(b)
      BY <1>3
    <3>2. s[i] = b[i]
      BY <1>4
    <3> QED BY <3>1, <3>2
  <2>2. i > 1 /\ b[i - 1] # Newline
    BY <1>2, <2>1 DEF Clean
  <2>3. i - 1 \in 1..m
    BY <1>3, <2>2
  <2> QED BY <1>4, <2>2, <2>3
<1>6. Pieces("frame", s) = [whole |-> << >>, rest |-> s]
  BY <1>4, <1>5, CleanUncut DEF Uncut
<1>7. PICK c : c = Pieces("frame", s) /\ c.whole = << >>
  BY <1>6
<1>8. Decoded(s) = FlattenSeq(FlattenSeq(Held(c.whole)))
  BY <1>1, <1>4, <1>7, ChunkParsed
<1>9. Held(<< >>) = << >> /\ FlattenSeq(<< >>) = << >>
  BY EmptySeq DEF Held, FlattenSeq
<1> QED BY <1>1, <1>4, <1>7, <1>8, <1>9

LEMMA RendersTyped ==
  ASSUME NEW P, NEW r \in Seq(Frames(P)), NEW n \in 0..Len(r)
  PROVE  /\ [i \in 1..n |-> Render(r[i])] \in Seq(Seq(Units(P)))
         /\ [i \in 1..n |-> PayloadsOf(r[i])] \in Seq(Seq(Seq(P)))
<1>1. n \in Nat /\ \A i \in 1..n : i \in 1..Len(r)
  BY LenProperties
<1>2. \A i \in 1..n : r[i] \in Frames(P)
  BY <1>1, ElementOfSeq
<1>3. PICK S, T : S = Seq(Units(P)) /\ T = Seq(Seq(P))
  OBVIOUS
<1>4. \A i \in 1..n : Render(r[i]) \in S /\ PayloadsOf(r[i]) \in T
  BY <1>2, <1>3, FrameIs
<1>5. [i \in 1..n |-> Render(r[i])] \in Seq(S) /\ [i \in 1..n |-> PayloadsOf(r[i])] \in Seq(T)
  BY <1>1, <1>4, IsASeq
<1> QED BY <1>3, <1>5

LEMMA FrontEmpty == ASSUME NEW r PROVE Sent(r, 0) = << >> /\ HeldIn(r, 0) = << >>
<1>1. [i \in 1..0 |-> Render(r[i])] = << >> /\ [i \in 1..0 |-> PayloadsOf(r[i])] = << >>
  OBVIOUS
<1>2. FlattenSeq(<< >>) = << >>
  BY EmptySeq DEF FlattenSeq
<1> QED BY <1>1, <1>2, Zenon DEF Sent, HeldIn, PayloadsIn

LEMMA FrontGrows ==
  ASSUME NEW P, NEW r \in Seq(Frames(P)), NEW n \in 1..Len(r)
  PROVE  /\ Sent(r, n) = Sent(r, n - 1) \o Render(r[n])
         /\ HeldIn(r, n) = HeldIn(r, n - 1) \o FlattenSeq(PayloadsOf(r[n]))
<1>1. PICK S, T : S = Seq(Units(P)) /\ T = Seq(Seq(P))
  OBVIOUS
<1>2. n \in Nat /\ n - 1 \in Nat /\ n \in 0..Len(r) /\ n - 1 \in 0..Len(r) /\ n \in 1..n
  BY LenProperties
<1>3. r[n] \in Frames(P)
  BY ElementOfSeq
<1>4. PICK a, b, x, y : /\ a = [i \in 1..(n - 1) |-> Render(r[i])] /\ b = [i \in 1..n |-> Render(r[i])]
                        /\ x = [i \in 1..(n - 1) |-> PayloadsOf(r[i])] /\ y = [i \in 1..n |-> PayloadsOf(r[i])]
  OBVIOUS
<1>5. a \in Seq(S) /\ b \in Seq(S) /\ x \in Seq(T) /\ y \in Seq(T)
  BY <1>1, <1>2, <1>4, RendersTyped
<1>6. Len(a) = n - 1 /\ Len(b) = n /\ Len(x) = n - 1 /\ Len(y) = n
  BY <1>2, <1>4, <1>5
<1>7. \A i \in 1..(n - 1) : i \in 1..n
  BY <1>2
<1>8. /\ \A i \in 1..(n - 1) : b[i] = a[i] /\ y[i] = x[i]
      /\ b[n] = Render(r[n]) /\ y[n] = PayloadsOf(r[n])
  BY <1>2, <1>4, <1>7
<1>9. b = Append(a, Render(r[n]))
  BY <1>2, <1>5, <1>6, <1>8, AppendIs
<1>10. y = Append(x, PayloadsOf(r[n]))
  BY <1>2, <1>5, <1>6, <1>8, AppendIs
<1>11. Sent(r, n) = Sent(r, n - 1) \o Render(r[n])
  <2>0. PICK U, e : U = Units(P) /\ e = Render(r[n])
    OBVIOUS
  <2>1. a \in Seq(Seq(U)) /\ e \in Seq(U)
    BY <1>1, <1>3, <1>5, <2>0, FrameIs
  <2>2. FlattenSeq(b) = FlattenSeq(a) \o e
    BY <1>9, <2>0, <2>1, FlattenAppend
  <2> QED BY <1>4, <2>0, <2>2 DEF Sent
<1>12. HeldIn(r, n) = HeldIn(r, n - 1) \o FlattenSeq(PayloadsOf(r[n]))
  <2>1. PayloadsOf(r[n]) \in T
    BY <1>1, <1>3, FrameIs
  <2>2. PICK Q : Q = Seq(P)
    OBVIOUS
  <2>3. x \in Seq(Seq(Q)) /\ PayloadsOf(r[n]) \in Seq(Q)
    BY <1>1, <1>5, <2>1, <2>2
  <2>4. FlattenSeq(y) = FlattenSeq(x) \o PayloadsOf(r[n]) /\ FlattenSeq(x) \in Seq(Q)
    BY <1>10, <2>3, FlattenAppend, FlattenTyped
  <2>5. FlattenSeq(FlattenSeq(y)) = FlattenSeq(FlattenSeq(x)) \o FlattenSeq(PayloadsOf(r[n]))
    BY <2>2, <2>3, <2>4, FlattenConcat
  <2> QED BY <1>4, <2>5 DEF HeldIn, PayloadsIn
<1> QED BY <1>11, <1>12

(* Whole frames decode to what they hold, and leave nothing over.          *)
FrontFits(P, r, n) ==
  /\ Sent(r, n) \in Seq(Units(P)) /\ LeftOver(Sent(r, n)) = << >>
  /\ Decoded(Sent(r, n)) = HeldIn(r, n) /\ HeldIn(r, n) \in Seq(P)

LEMMA FrontIs ==
  ASSUME NEW P, NEW r \in Seq(Frames(P))
  PROVE  \A n \in 0..Len(r) : FrontFits(P, r, n)
<1> DEFINE T == {n \in 0..Len(r) : FrontFits(P, r, n)}
<1>1. Len(r) \in Nat
  BY LenProperties
<1>2. 0 \in T
  <2>1. << >> \in Seq(Units(P)) /\ << >> \in Seq(P)
    BY EmptySeq
  <2>2. Pieces("frame", << >>) = [whole |-> << >>, rest |-> << >>]
    BY PiecesEmpty DEF NoPieces
  <2>3. PICK c : c = Pieces("frame", << >>) /\ c.whole = << >> /\ c.rest = << >>
    BY <2>2
  <2>4. LeftOver(<< >>) = c.rest /\ Decoded(<< >>) = FlattenSeq(FlattenSeq(Held(c.whole)))
    BY <2>1, <2>3, ChunkParsed
  <2>5. Held(<< >>) = << >> /\ FlattenSeq(<< >>) = << >>
    BY EmptySeq DEF Held, FlattenSeq
  <2>6. Decoded(<< >>) = << >> /\ LeftOver(<< >>) = << >>
    BY <2>3, <2>4, <2>5
  <2>7. FrontFits(P, r, 0)
    BY <2>1, <2>6, FrontEmpty DEF FrontFits
  <2> QED BY <1>1, <2>7
<1>3. ASSUME NEW n \in 1..Len(r), n - 1 \in T PROVE n \in T
  <2>1. PICK a, c : a = Sent(r, n - 1) /\ c = Render(r[n])
    OBVIOUS
  <2>2. a \in Seq(Units(P)) /\ LeftOver(a) = << >> /\ Decoded(a) = HeldIn(r, n - 1) /\ HeldIn(r, n - 1) \in Seq(P)
    BY <1>3, <2>1 DEF FrontFits
  <2>3. r[n] \in Frames(P)
    BY ElementOfSeq
  <2>4. /\ c \in Seq(Units(P)) /\ LeftOver(c) = << >> /\ Decoded(c) = FlattenSeq(PayloadsOf(r[n]))
        /\ FlattenSeq(PayloadsOf(r[n])) \in Seq(P)
    BY <2>1, <2>3, FrameIs
  <2>5. Sent(r, n) = a \o c /\ HeldIn(r, n) = HeldIn(r, n - 1) \o FlattenSeq(PayloadsOf(r[n]))
    BY <2>1, FrontGrows
  <2>6. << >> \o c = c
    BY <2>4, ConcatEmptySeq
  <2>7. /\ Decoded(a \o c) = Decoded(a) \o Decoded(LeftOver(a) \o c)
        /\ LeftOver(a \o c) = LeftOver(LeftOver(a) \o c)
    BY <2>2, <2>4, DecodedConcat
  <2>8. Decoded(a \o c) = HeldIn(r, n) /\ LeftOver(a \o c) = << >>
    BY <2>2, <2>4, <2>5, <2>6, <2>7
  <2>9. a \o c \in Seq(Units(P)) /\ HeldIn(r, n) \in Seq(P)
    BY <2>2, <2>4, <2>5, ConcatProperties
  <2>10. FrontFits(P, r, n)
    BY <2>5, <2>8, <2>9 DEF FrontFits
  <2> QED BY <1>1, <2>10
<1> HIDE DEF T
<1>4. \A n \in 0..Len(r) : n \in T
  BY <1>1, <1>2, <1>3, CountUp
<1> QED BY <1>4 DEF T

(* Fewer frames are where more of them start.                              *)
Starts(a, b) == Len(a) <= Len(b) /\ \A q \in 1..Len(a) : b[q] = a[q]

LEMMA FrontTyped ==
  ASSUME NEW P, NEW r \in Seq(Frames(P)), NEW n \in 0..Len(r)
  PROVE  Sent(r, n) \in Seq(Units(P)) /\ Len(Sent(r, n)) \in Nat
<1>1. Sent(r, n) \in Seq(Units(P))
  BY FrontIs DEF FrontFits
<1> QED BY <1>1, LenProperties

LEMMA FrontStarts ==
  ASSUME NEW P, NEW r \in Seq(Frames(P)), NEW i \in 0..Len(r), NEW j \in i..Len(r)
  PROVE  Starts(Sent(r, i), Sent(r, j))
<1>0. PICK U : U = Units(P)
  OBVIOUS
<1>1. Len(r) \in Nat /\ Len(r) - i \in Nat /\ j - i \in 0..(Len(r) - i) /\ i + (j - i) = j
  BY LenProperties
<1> DEFINE T == {d \in 0..(Len(r) - i) : Starts(Sent(r, i), Sent(r, i + d))}
<1>2. 0 \in T
  <2>1. i + 0 = i /\ 0 \in 0..(Len(r) - i)
    BY <1>1
  <2>2. Len(Sent(r, i)) \in Nat
    BY FrontTyped
  <2>3. Starts(Sent(r, i), Sent(r, i))
    BY <2>2 DEF Starts
  <2> QED BY <2>1, <2>3
<1>3. ASSUME NEW d \in 1..(Len(r) - i), d - 1 \in T PROVE d \in T
  <2>1. /\ i + d \in 1..Len(r) /\ (i + d) - 1 = i + (d - 1) /\ i + (d - 1) \in 0..Len(r)
        /\ d \in 0..(Len(r) - i)
    BY <1>1
  <2>2. PICK a, b, c, e : /\ a = Sent(r, i) /\ b = Sent(r, i + (d - 1)) /\ c = Render(r[i + d])
                          /\ e = Sent(r, i + d)
    OBVIOUS
  <2>3. a \in Seq(U) /\ b \in Seq(U) /\ Starts(a, b)
    BY <1>0, <1>3, <2>1, <2>2, FrontTyped
  <2>4. r[i + d] \in Frames(P)
    BY <2>1, ElementOfSeq
  <2>5. c \in Seq(U)
    BY <1>0, <2>2, <2>4, FrameIs
  <2>6. e = b \o c
    <3>1. Sent(r, i + d) = Sent(r, (i + d) - 1) \o Render(r[i + d])
      BY <2>1, FrontGrows
    <3> QED BY <2>1, <2>2, <3>1
  <2>7. /\ Len(a) \in Nat /\ Len(b) \in Nat /\ Len(c) \in Nat /\ Len(e) = Len(b) + Len(c)
        /\ \A q \in 1..(Len(b) + Len(c)) : e[q] = IF q <= Len(b) THEN b[q] ELSE c[q - Len(b)]
    BY <2>3, <2>5, <2>6, ConcatProperties, LenProperties
  <2>8. Len(a) <= Len(b) /\ \A q \in 1..Len(a) : b[q] = a[q]
    BY <2>3 DEF Starts
  <2>9. \A q \in 1..Len(a) : e[q] = a[q]
    <3> SUFFICES ASSUME NEW q \in 1..Len(a) PROVE e[q] = a[q]
      OBVIOUS
    <3>1. PICK la, lb, lc : la = Len(a) /\ lb = Len(b) /\ lc = Len(c)
      OBVIOUS
    <3>2. la \in Nat /\ lb \in Nat /\ lc \in Nat /\ la <= lb /\ q \in 1..la
      BY <2>7, <2>8, <3>1
    <3>3. q \in 1..(lb + lc) /\ q <= lb
      BY <3>2
    <3>4. e[q] = b[q]
      BY <2>7, <3>1, <3>3
    <3> QED BY <2>8, <3>4
  <2>10. Starts(a, e)
    BY <2>7, <2>8, <2>9 DEF Starts
  <2> QED BY <2>1, <2>2, <2>10
<1> HIDE DEF T
<1>4. \A d \in 0..(Len(r) - i) : d \in T
  BY <1>1, <1>2, <1>3, CountUp
<1>5. j - i \in T
  BY <1>1, <1>4
<1> QED BY <1>1, <1>5 DEF T

(* Where a cut falls: behind n whole frames, and in the next if there is   *)
(* one.                                                                    *)
FallsBehind(r, p, n) ==
  /\ n \in 0..Len(r) /\ Len(Sent(r, n)) <= p
  /\ n < Len(r) => p < Len(Sent(r, n + 1))

LEMMA CutFalls ==
  ASSUME NEW P, NEW r \in Seq(Frames(P)), NEW p \in Nat
  PROVE  \E n \in 0..Len(r) : FallsBehind(r, p, n)
<1>1. Len(r) \in Nat
  BY LenProperties
<1> DEFINE T == {n \in 0..Len(r) : n < Len(r) => p < Len(Sent(r, n + 1))}
<1>2. Len(r) \in T /\ T \subseteq Nat
  BY <1>1
<1>3. PICK n \in T : \A m \in T : n <= m
  <2> HIDE DEF T
  <2> QED BY <1>2, LeastNumber
<1>4. Len(Sent(r, n)) <= p
  <2>1. CASE n = 0
    BY <2>1, FrontEmpty, EmptySeq
  <2>2. CASE n # 0
    <3>1. n - 1 \in 0..Len(r) /\ n - 1 < Len(r) /\ (n - 1) + 1 = n /\ ~(n <= n - 1) /\ n \in 0..Len(r)
      BY <1>1, <1>3, <2>2
    <3>2. ~(p < Len(Sent(r, (n - 1) + 1)))
      BY <1>3, <3>1
    <3>3. Len(Sent(r, n)) \in Nat
      BY <3>1, FrontTyped
    <3> QED BY <3>1, <3>2, <3>3
  <2> QED BY <2>1, <2>2
<1>5. n \in 0..Len(r) /\ (n < Len(r) => p < Len(Sent(r, n + 1)))
  BY <1>3
<1> QED BY <1>4, <1>5 DEF FallsBehind

(* What is decoded of a cut row is what its whole frames hold.             *)
LEMMA CutDecoded ==
  ASSUME NEW P, NEW r \in Seq(Frames(P)), NEW p \in 0..Len(Sent(r, Len(r))), NEW n, FallsBehind(r, p, n)
  PROVE  /\ SubSeq(Sent(r, Len(r)), 1, p) \in Seq(Units(P))
         /\ Decoded(SubSeq(Sent(r, Len(r)), 1, p)) = HeldIn(r, n)
<1>0. PICK U, w, s, a : U = Units(P) /\ w = Sent(r, Len(r)) /\ s = SubSeq(w, 1, p) /\ a = Sent(r, n)
  OBVIOUS
<1>1. n \in 0..Len(r) /\ Len(a) <= p /\ Len(r) \in Nat /\ n \in Nat
  BY <1>0, LenProperties DEF FallsBehind
<1>2. w \in Seq(U) /\ Len(w) \in Nat /\ p \in Nat /\ p <= Len(w) /\ a \in Seq(U) /\ Len(a) \in Nat
  <2>1. Len(r) \in 0..Len(r)
    BY <1>1
  <2>2. w \in Seq(U) /\ a \in Seq(U) /\ Len(w) \in Nat /\ Len(a) \in Nat
    BY <1>0, <1>1, <2>1, FrontTyped
  <2> QED BY <1>0, <2>2
<1>3. s \in Seq(U) /\ Len(s) = p /\ \A q \in 1..p : s[q] = w[q]
  <2>1. 1 \in 1..(Len(w) + 1) /\ p \in (1 - 1)..Len(w)
    BY <1>2
  <2>2. s \in Seq(U) /\ Len(s) = p - 1 + 1 /\ \A q \in 1..(p - 1 + 1) : s[q] = w[1 + q - 1]
    BY <1>0, <1>2, <2>1, PartTyped
  <2>3. p - 1 + 1 = p /\ \A q \in 1..p : 1 + q - 1 = q
    BY <1>2
  <2> QED BY <2>2, <2>3
<1>4. /\ Decoded(a) = HeldIn(r, n) /\ LeftOver(a) = << >> /\ HeldIn(r, n) \in Seq(P)
  BY <1>0, <1>1, FrontIs DEF FrontFits
<1>5. CASE n = Len(r)
  <2>1. a = w /\ p = Len(w)
    BY <1>0, <1>1, <1>2, <1>5
  <2>2. s = a
    BY <1>2, <1>3, <2>1, SeqEqual
  <2> QED BY <1>0, <1>3, <1>4, <2>2
<1>6. CASE n # Len(r)
  <2>1. n + 1 \in 1..Len(r) /\ n + 1 \in 0..Len(r) /\ (n + 1) - 1 = n /\ n < Len(r) /\ Len(r) \in (n + 1)..Len(r)
    BY <1>1, <1>6
  <2>2. PICK f, c, b, e, t : /\ f = r[n + 1] /\ c = Render(f) /\ b = Body(f) /\ e = Sent(r, n + 1)
                             /\ t = SubSeq(c, 1, p - Len(a))
    OBVIOUS
  <2>3. f \in Frames(P)
    BY <2>1, <2>2, ElementOfSeq
  <2>4. c \in Seq(U) /\ c = Append(b, Newline) /\ b \in Seq(U) /\ Newline \in U
    BY <1>0, <2>2, <2>3, FrameIs, NewlineIs
  <2>5. Len(b) \in Nat /\ Len(c) = Len(b) + 1
    BY <2>4, AppendProperties, LenProperties
  <2>6. e = a \o c
    <3>1. Sent(r, n + 1) = Sent(r, (n + 1) - 1) \o Render(r[n + 1])
      BY <2>1, FrontGrows
    <3> QED BY <1>0, <2>1, <2>2, <3>1
  <2>7. p < Len(e)
    BY <2>1, <2>2 DEF FallsBehind
  <2>8. /\ Len(e) = Len(a) + Len(c)
        /\ \A q \in 1..(Len(a) + Len(c)) : e[q] = IF q <= Len(a) THEN a[q] ELSE c[q - Len(a)]
    BY <1>2, <2>4, <2>6, ConcatProperties
  <2>9. p - Len(a) \in 0..Len(b) /\ p - Len(a) \in (1 - 1)..Len(c) /\ 1 \in 1..(Len(c) + 1)
    <3>1. PICK la, lb, lc \in Nat : la = Len(a) /\ lb = Len(b) /\ lc = Len(c)
      BY <1>2, <2>5
    <3>2. la <= p /\ lc = lb + 1 /\ p < la + lc /\ p \in Nat
      BY <1>1, <1>2, <2>5, <2>7, <2>8, <3>1
    <3>3. p - la \in 0..lb /\ p - la \in (1 - 1)..lc /\ 1 \in 1..(lc + 1)
      BY <3>2
    <3> QED BY <3>1, <3>3
  <2>10. t \in Seq(U) /\ Decoded(t) = << >>
    BY <1>0, <2>2, <2>3, <2>9, FrameBegun
  <2>11. Len(t) = p - Len(a) /\ \A q \in 1..(p - Len(a)) : t[q] = c[q]
    <3>1. Len(t) = p - Len(a) - 1 + 1 /\ \A q \in 1..(p - Len(a) - 1 + 1) : t[q] = c[1 + q - 1]
      <4>1. PICK m : m = p - Len(a)
        OBVIOUS
      <4>2. m \in (1 - 1)..Len(c) /\ 1 \in 1..(Len(c) + 1) /\ c \in Seq(U) /\ t = SubSeq(c, 1, m)
        BY <2>2, <2>4, <2>9, <4>1
      <4>3. Len(t) = m - 1 + 1 /\ \A q \in 1..(m - 1 + 1) : t[q] = c[1 + q - 1]
        BY <4>2, PartTyped
      <4> QED BY <4>1, <4>3
    <3>2. p - Len(a) - 1 + 1 = p - Len(a) /\ \A q \in 1..(p - Len(a)) : 1 + q - 1 = q
      BY <1>2
    <3> QED BY <3>1, <3>2
  <2>12. Starts(e, w)
    BY <1>0, <2>1, <2>2, FrontStarts
  <2>13. \A q \in 1..p : s[q] = e[q]
    <3> SUFFICES ASSUME NEW q \in 1..p PROVE s[q] = e[q]
      OBVIOUS
    <3>1. q \in 1..Len(e)
      BY <1>2, <2>5, <2>7, <2>8
    <3>2. w[q] = e[q]
      BY <2>12, <3>1 DEF Starts
    <3> QED BY <1>3, <3>2
  <2>14. s = a \o t
    <3>1. Len(s) = Len(a) + Len(t)
      <4>1. PICK la, lt : la = Len(a) /\ lt = Len(t)
        OBVIOUS
      <4>2. Len(s) = p /\ lt = p - la /\ p \in Nat /\ la \in Nat
        BY <1>2, <1>3, <2>11, <4>1
      <4>3. p = la + lt
        BY <4>2
      <4> QED BY <4>1, <4>2, <4>3
    <3>2. \A q \in 1..Len(s) : s[q] = IF q <= Len(a) THEN a[q] ELSE t[q - Len(a)]
      <4> SUFFICES ASSUME NEW q \in 1..p PROVE s[q] = IF q <= Len(a) THEN a[q] ELSE t[q - Len(a)]
        BY <1>3
      <4>1. q \in 1..(Len(a) + Len(c)) /\ s[q] = e[q]
        BY <1>2, <2>5, <2>7, <2>8, <2>13
      <4>2. CASE q <= Len(a)
        BY <2>8, <4>1, <4>2
      <4>3. CASE ~(q <= Len(a))
        <5>1. q - Len(a) \in 1..(p - Len(a))
          BY <1>2, <4>3
        <5>2. t[q - Len(a)] = c[q - Len(a)]
          BY <2>11, <5>1
        <5> QED BY <2>8, <4>1, <4>3, <5>2
      <4> QED BY <4>2, <4>3
    <3> QED BY <1>2, <1>3, <2>10, <3>1, <3>2, IsConcat
  <2>15. << >> \o t = t
    BY <2>10, ConcatEmptySeq
  <2>16. Decoded(a \o t) = Decoded(a) \o Decoded(LeftOver(a) \o t)
    <3>1. a \in Seq(Units(P)) /\ t \in Seq(Units(P))
      BY <1>0, <1>2, <2>10
    <3> QED BY <3>1, DecodedConcat
  <2>17. HeldIn(r, n) \o << >> = HeldIn(r, n)
    BY <1>4, ConcatEmptySeq
  <2>18. Decoded(s) = HeldIn(r, n)
    BY <1>4, <2>10, <2>14, <2>15, <2>16, <2>17
  <2> QED BY <1>0, <1>3, <2>18
<1> QED BY <1>5, <1>6

(* ... which is what the property calls the parts that came in full.       *)
LEMMA PartsAre ==
  ASSUME NEW P, response \in Seq(Frames(P)), NEW p \in Nat, NEW n, FallsBehind(response, p, n)
  PROVE  PartsUpTo(p) = HeldIn(response, n)
<1>1. n \in 0..Len(response) /\ Len(response) \in Nat /\ n \in Nat /\ DOMAIN response = 1..Len(response)
  BY LenProperties DEF FallsBehind
<1> DEFINE whole == {k \in DOMAIN response : Len(FlattenSeq([i \in 1..k |-> Render(response[i])])) <= p}
           frames == SubSeq(response, 1, Cardinality(whole))
<1>2. \A k \in 1..Len(response) : Len(Sent(response, k)) <= p <=> k <= n
  <2> SUFFICES ASSUME NEW k \in 1..Len(response) PROVE Len(Sent(response, k)) <= p <=> k <= n
    OBVIOUS
  <2>0. k \in 0..Len(response) /\ Len(Sent(response, k)) \in Nat /\ Len(Sent(response, n)) \in Nat
    BY <1>1, FrontTyped
  <2>1. CASE k <= n
    <3>1. n \in k..Len(response)
      BY <1>1, <2>1
    <3>2. Len(Sent(response, k)) <= Len(Sent(response, n))
      BY <2>0, <3>1, FrontStarts DEF Starts
    <3>3. Len(Sent(response, n)) <= p
      BY DEF FallsBehind
    <3> QED BY <2>0, <2>1, <3>2, <3>3
  <2>2. CASE ~(k <= n)
    <3>1. n < Len(response) /\ n + 1 \in 0..Len(response) /\ k \in (n + 1)..Len(response)
      BY <1>1, <2>2
    <3>2. Len(Sent(response, n + 1)) <= Len(Sent(response, k)) /\ Len(Sent(response, n + 1)) \in Nat
      BY <3>1, FrontStarts, FrontTyped DEF Starts
    <3>3. p < Len(Sent(response, n + 1))
      BY <3>1 DEF FallsBehind
    <3> QED BY <2>0, <2>2, <3>2, <3>3
  <2> QED BY <2>1, <2>2
<1>3. whole = 1..n
  <2>1. whole = {k \in 1..Len(response) : Len(Sent(response, k)) <= p}
    BY <1>1, Zenon DEF Sent
  <2> HIDE DEF whole
  <2>2. whole = {k \in 1..Len(response) : k <= n}
    BY <1>2, <2>1
  <2> QED BY <1>1, <2>2
<1>4. Cardinality(whole) = n
  <2> HIDE DEF whole
  <2>1. Cardinality(1..n) = IF 1 > n THEN 0 ELSE n - 1 + 1
    BY <1>1, FS_Interval
  <2> QED BY <1>1, <1>3, <2>1
<1>5. DOMAIN frames = 1..n /\ \A i \in 1..n : frames[i] = response[i]
  <2>1. frames = SubSeq(response, 1, n)
    BY <1>4, Zenon
  <2> HIDE DEF frames
  <2>2. PICK F : F = Frames(P) /\ response \in Seq(F)
    OBVIOUS
  <2>3. 1 \in 1..(Len(response) + 1) /\ n \in (1 - 1)..Len(response)
    BY <1>1
  <2>4. frames \in Seq(F) /\ Len(frames) = n - 1 + 1 /\ \A i \in 1..(n - 1 + 1) : frames[i] = response[1 + i - 1]
    BY <2>1, <2>2, <2>3, PartTyped
  <2>5. n - 1 + 1 = n /\ \A i \in 1..n : 1 + i - 1 = i
    BY <1>1
  <2>6. DOMAIN frames = 1..Len(frames)
    BY <2>4, LenProperties
  <2> QED BY <2>4, <2>5, <2>6
<1>6. PartsUpTo(p) = FlattenSeq(FlattenSeq([i \in DOMAIN frames |-> PayloadsOf(frames[i])]))
  BY Zenon DEF PartsUpTo
<1> HIDE DEF frames, whole
<1>7. [i \in DOMAIN frames |-> PayloadsOf(frames[i])] = [i \in 1..n |-> PayloadsOf(response[i])]
  BY <1>5
<1> QED BY <1>6, <1>7, Zenon DEF HeldIn, PayloadsIn

LEMMA ReadIsParts ==
  ASSUME NEW P, response \in Seq(Frames(P)), NEW p \in 0..Len(WireUnits)
  PROVE  /\ SubSeq(WireUnits, 1, p) \in Seq(Units(P)) /\ PartsUpTo(p) \in Seq(P)
         /\ Decoded(SubSeq(WireUnits, 1, p)) = PartsUpTo(p)
<1>1. WireUnits = Sent(response, Len(response))
  <2>1. DOMAIN response = 1..Len(response)
    BY LenProperties
  <2> QED BY <2>1, Zenon DEF WireUnits, Sent
<1>2. p \in Nat
  BY <1>1, FrontTyped
<1>3. PICK n \in 0..Len(response) : FallsBehind(response, p, n)
  BY <1>2, CutFalls
<1>4. SubSeq(WireUnits, 1, p) \in Seq(Units(P)) /\ Decoded(SubSeq(WireUnits, 1, p)) = HeldIn(response, n)
  BY <1>1, <1>3, CutDecoded
<1>5. PartsUpTo(p) = HeldIn(response, n)
  BY <1>2, <1>3, PartsAre
<1>6. HeldIn(response, n) \in Seq(P)
  BY <1>3, FrontIs DEF FrontFits
<1> QED BY <1>4, <1>5, <1>6

-----------------------------------------------------------------------------
(* The responses: every part that may come.                                *)
PartsOfLines(frame) == UNION {Range(line[1].of) : line \in Range(frame)}
PartsSent(r) == UNION {PartsOfLines(frame) : frame \in Range(r)}

LEMMA LineIsSent ==
  ASSUME NEW line, IsSent(line), NEW P, Range(line[1].of) \subseteq P
  PROVE  line \in SentLines(P) /\ \A x \in Range(line[1].of) : IsPart(x)
<1>1. PICK U : U = Units(P) \ {Newline}
  OBVIOUS
<1>2. \A o \in Seq(P) : \A h \in 0..3 : [of |-> o, half |-> h] \in Units(P)
  BY UnitTyped
<1>3. CASE line = <<Comment>>
  <2>1. << >> \in Seq(P) /\ 3 \in 0..3
    BY EmptySeq
  <2>2. [of |-> << >>, half |-> 3] \in Units(P)
    BY <1>2, <2>1, Zenon
  <2>3. Comment \in U
    BY <1>1, <2>2 DEF Comment, Newline
  <2>4. <<Comment>> \in Seq(U) /\ <<Comment>> # << >>
    BY <2>3
  <2>5. line[1].of = << >> /\ Range(<< >>) = {}
    BY <1>3 DEF Comment, Range
  <2> QED BY <1>1, <1>3, <2>4, <2>5 DEF SentLines
<1>4. CASE line # <<Comment>>
  <2>1. PICK o : o = line[1].of
    OBVIOUS
  <2>2. line = DataLine(o) /\ o \in Seq(Range(o)) /\ \A x \in Range(o) : IsPart(x)
    BY <1>4, <2>1 DEF IsSent, IsList
  <2>3. o \in Seq(P)
    BY <2>1, <2>2, SeqMonotonic
  <2>4. PICK a, b : a = [of |-> o, half |-> 1] /\ b = [of |-> o, half |-> 2]
    OBVIOUS
  <2>5. 1 \in 0..3 /\ 2 \in 0..3
    OBVIOUS
  <2>6. a \in Units(P) /\ b \in Units(P)
    BY <1>2, <2>3, <2>4, <2>5, Zenon
  <2>7. a # Newline /\ b # Newline
    BY <2>4 DEF Newline
  <2>8. line = <<a, b>>
    BY <2>2, <2>4 DEF DataLine
  <2>9. line \in Seq(U) /\ line # << >>
    BY <1>1, <2>6, <2>7, <2>8
  <2> QED BY <1>1, <2>1, <2>2, <2>9 DEF SentLines
<1> QED BY <1>3, <1>4

LEMMA FrameIsSent ==
  ASSUME NEW frame, IsFrame(frame), NEW P, PartsOfLines(frame) \subseteq P
  PROVE  frame \in Frames(P) /\ \A x \in PartsOfLines(frame) : IsPart(x)
<1>1. frame \in Seq(Range(frame)) /\ frame # << >> /\ \A line \in Range(frame) : IsSent(line)
  BY DEF IsFrame, IsList
<1>2. ASSUME NEW line \in Range(frame)
      PROVE  line \in SentLines(P) /\ \A x \in Range(line[1].of) : IsPart(x)
  <2>1. Range(line[1].of) \in {Range(l[1].of) : l \in Range(frame)}
    OBVIOUS
  <2>2. Range(line[1].of) \subseteq P
    BY <2>1 DEF PartsOfLines
  <2> QED BY <1>1, <2>2, LineIsSent
<1>3. Range(frame) \subseteq SentLines(P)
  BY <1>2
<1>4. frame \in Seq(SentLines(P))
  BY <1>1, <1>3, SeqMonotonic
<1>5. ASSUME NEW x \in PartsOfLines(frame) PROVE IsPart(x)
  <2>1. PICK line \in Range(frame) : x \in Range(line[1].of)
    BY DEF PartsOfLines
  <2> QED BY <1>2, <2>1
<1> QED BY <1>1, <1>4, <1>5 DEF Frames

LEMMA ResponsesAre ==
  ASSUME NEW r \in Responses
  PROVE  r \in Seq(Frames(PartsSent(r))) /\ \A x \in PartsSent(r) : IsPart(x)
<1>1. r \in Seq(Range(r)) /\ \A frame \in Range(r) : IsFrame(frame)
  BY StreamingAssumption DEF IsList
<1>2. ASSUME NEW frame \in Range(r)
      PROVE  frame \in Frames(PartsSent(r)) /\ \A x \in PartsOfLines(frame) : IsPart(x)
  <2>1. PartsOfLines(frame) \in {PartsOfLines(f) : f \in Range(r)}
    OBVIOUS
  <2>2. PartsOfLines(frame) \subseteq PartsSent(r)
    BY <2>1 DEF PartsSent
  <2> QED BY <1>1, <2>2, FrameIsSent
<1>3. Range(r) \subseteq Frames(PartsSent(r))
  BY <1>2
<1>4. r \in Seq(Frames(PartsSent(r)))
  BY <1>1, <1>3, SeqMonotonic
<1>5. ASSUME NEW x \in PartsSent(r) PROVE IsPart(x)
  <2>1. PICK frame \in Range(r) : x \in PartsOfLines(frame)
    BY DEF PartsSent
  <2> QED BY <1>2, <2>1
<1> QED BY <1>4, <1>5

-----------------------------------------------------------------------------
(* What one more part adds to the meaning of a list of parts.              *)
Written(P) == UNION {Range(x.name) \cup Range(x.args) : x \in {y \in P : y.kind = "call"}}

LEMMA WrittenIs ==
  ASSUME NEW P, \A x \in P : IsPart(x), NEW f \in P, f.kind = "call"
  PROVE  f.name \in Seq(Written(P)) /\ f.args \in Seq(Written(P))
<1>1. f.name \in Seq(Range(f.name)) /\ f.args \in Seq(Range(f.args))
  BY DEF IsPart, IsFragment, IsList
<1>2. Range(f.name) \cup Range(f.args)
        \in {Range(x.name) \cup Range(x.args) : x \in {y \in P : y.kind = "call"}}
  <2>1. f \in {y \in P : y.kind = "call"}
    OBVIOUS
  <2> QED BY <2>1, Zenon
<1>3. Range(f.name) \subseteq Written(P) /\ Range(f.args) \subseteq Written(P)
  BY <1>2 DEF Written
<1> QED BY <1>1, <1>3, SeqMonotonic

LEMMA RowIs ==
  ASSUME NEW Q, NEW n \in Nat, NEW row \in [1..n -> Q]
  PROVE  row \in Seq(Q) /\ Len(row) = n
OBVIOUS

(* A row of what each part gives, one part longer.                         *)
LEMMA OneMore ==
  ASSUME NEW P, NEW parts \in Seq(P), NEW f \in P, NEW S, NEW g, NEW a, NEW b,
         \A x \in P : g[x] \in Seq(S),
         a = [k \in DOMAIN parts |-> g[parts[k]]],
         b = [k \in DOMAIN Append(parts, f) |-> g[Append(parts, f)[k]]]
  PROVE  FlattenSeq(b) = FlattenSeq(a) \o g[f] /\ FlattenSeq(a) \in Seq(S)
<1>1. PICK t, Q : t = Append(parts, f) /\ Q = Seq(S)
  OBVIOUS
<1>2. /\ t \in Seq(P) /\ Len(parts) \in Nat /\ Len(t) = Len(parts) + 1 /\ t[Len(parts) + 1] = f
      /\ \A k \in 1..Len(parts) : t[k] = parts[k] /\ parts[k] \in P
      /\ DOMAIN parts = 1..Len(parts) /\ DOMAIN t = 1..(Len(parts) + 1)
  BY <1>1, AppendProperties, LenProperties, ElementOfSeq
<1>3. PICK n : n = Len(parts) /\ n \in Nat
  BY LenProperties
<1>4. a = [k \in 1..n |-> g[parts[k]]] /\ b = [k \in 1..(n + 1) |-> g[t[k]]]
  BY <1>1, <1>2, <1>3
<1>5. \A k \in 1..n : g[parts[k]] \in Q
  BY <1>1, <1>2, <1>3
<1>6. \A k \in 1..(n + 1) : g[t[k]] \in Q
  BY <1>1, <1>2, <1>3
<1>7. a \in Seq(Q) /\ Len(a) = n
  <2>1. a = [k \in 1..n |-> g[parts[k]]]
    BY <1>4
  <2>2. a \in [1..n -> Q]
    BY <1>5, <2>1
  <2> QED BY <1>3, <2>2, RowIs
<1>8. PICK m : m = n + 1 /\ m \in Nat /\ m \in 1..m /\ t[m] = f
  BY <1>2, <1>3
<1>9. b \in Seq(Q) /\ Len(b) = m /\ b[m] = g[f]
  <2>1. b = [k \in 1..m |-> g[t[k]]]
    BY <1>4, <1>8
  <2>2. b \in [1..m -> Q]
    BY <1>6, <1>8, <2>1
  <2>3. b[m] = g[t[m]]
    BY <1>8, <2>1
  <2> QED BY <1>8, <2>2, <2>3, RowIs
<1>10. \A k \in 1..n : b[k] = a[k]
  <2> SUFFICES ASSUME NEW k \in 1..n PROVE b[k] = a[k]
    OBVIOUS
  <2>1. k \in 1..(n + 1) /\ t[k] = parts[k]
    BY <1>2, <1>3
  <2>2. a[k] = g[parts[k]]
    BY <1>4
  <2>3. b[k] = g[t[k]]
    BY <1>4, <2>1
  <2> QED BY <2>1, <2>2, <2>3
<1>11. b = Append(a, g[f])
  <2>1. Len(b) = Len(a) + 1 /\ \A k \in 1..Len(a) : b[k] = a[k]
    BY <1>7, <1>8, <1>9, <1>10
  <2>2. b = Append(a, b[Len(b)])
    BY <1>7, <1>9, <2>1, AppendIs
  <2> QED BY <1>9, <2>2
<1>12. g[f] \in Q
  BY <1>1
<1> QED BY <1>1, <1>7, <1>11, <1>12, FlattenAppend, FlattenTyped

LEMMA NameGrows ==
  ASSUME NEW P, \A x \in P : IsPart(x), NEW parts \in Seq(P), NEW f \in P, NEW i
  PROVE  NameOf(Append(parts, f), i) = IF OfCall(f, i) THEN NameOf(parts, i) \o f.name ELSE NameOf(parts, i)
<1> DEFINE g == [x \in P |-> IF OfCall(x, i) THEN x.name ELSE << >>]
           a == [k \in DOMAIN parts |-> g[parts[k]]]
           b == [k \in DOMAIN Append(parts, f) |-> g[Append(parts, f)[k]]]
<1>1. \A x \in P : g[x] \in Seq(Written(P))
  <2> SUFFICES ASSUME NEW x \in P, OfCall(x, i) PROVE x.name \in Seq(Written(P))
    BY EmptySeq
  <2> QED BY WrittenIs DEF OfCall
<1>2. \A k \in DOMAIN parts : g[parts[k]] = IF OfCall(parts[k], i) THEN parts[k].name ELSE << >>
  BY ElementOfSeq, LenProperties
<1>3. a = [k \in DOMAIN parts |-> IF OfCall(parts[k], i) THEN parts[k].name ELSE << >>]
  <2> HIDE DEF g
  <2> QED BY <1>2
<1>4. Append(parts, f) \in Seq(P)
  BY AppendProperties
<1>5. \A k \in DOMAIN Append(parts, f) :
        g[Append(parts, f)[k]] = IF OfCall(Append(parts, f)[k], i) THEN Append(parts, f)[k].name ELSE << >>
  BY <1>4, ElementOfSeq, LenProperties
<1>6. b = [k \in DOMAIN Append(parts, f) |->
             IF OfCall(Append(parts, f)[k], i) THEN Append(parts, f)[k].name ELSE << >>]
  <2> HIDE DEF g
  <2> QED BY <1>5
<1>7. NameOf(parts, i) = FlattenSeq(a) /\ NameOf(Append(parts, f), i) = FlattenSeq(b)
  <2> HIDE DEF a, b, g
  <2> QED BY <1>3, <1>6, Zenon DEF NameOf
<1>8. g[f] = IF OfCall(f, i) THEN f.name ELSE << >>
  OBVIOUS
<1>9. FlattenSeq(b) = FlattenSeq(a) \o g[f] /\ FlattenSeq(a) \in Seq(Written(P))
  <2> HIDE DEF g
  <2> QED BY <1>1, OneMore
<1> HIDE DEF a, b, g
<1>10. FlattenSeq(a) \o << >> = FlattenSeq(a)
  BY <1>9, ConcatEmptySeq
<1> QED BY <1>7, <1>8, <1>9, <1>10

LEMMA ArgsGrow ==
  ASSUME NEW P, \A x \in P : IsPart(x), NEW parts \in Seq(P), NEW f \in P, NEW i
  PROVE  ArgsOf(Append(parts, f), i) = IF OfCall(f, i) THEN ArgsOf(parts, i) \o f.args ELSE ArgsOf(parts, i)
<1> DEFINE g == [x \in P |-> IF OfCall(x, i) THEN x.args ELSE << >>]
           a == [k \in DOMAIN parts |-> g[parts[k]]]
           b == [k \in DOMAIN Append(parts, f) |-> g[Append(parts, f)[k]]]
<1>1. \A x \in P : g[x] \in Seq(Written(P))
  <2> SUFFICES ASSUME NEW x \in P, OfCall(x, i) PROVE x.args \in Seq(Written(P))
    BY EmptySeq
  <2> QED BY WrittenIs DEF OfCall
<1>2. \A k \in DOMAIN parts : g[parts[k]] = IF OfCall(parts[k], i) THEN parts[k].args ELSE << >>
  BY ElementOfSeq, LenProperties
<1>3. a = [k \in DOMAIN parts |-> IF OfCall(parts[k], i) THEN parts[k].args ELSE << >>]
  <2> HIDE DEF g
  <2> QED BY <1>2
<1>4. Append(parts, f) \in Seq(P)
  BY AppendProperties
<1>5. \A k \in DOMAIN Append(parts, f) :
        g[Append(parts, f)[k]] = IF OfCall(Append(parts, f)[k], i) THEN Append(parts, f)[k].args ELSE << >>
  BY <1>4, ElementOfSeq, LenProperties
<1>6. b = [k \in DOMAIN Append(parts, f) |->
             IF OfCall(Append(parts, f)[k], i) THEN Append(parts, f)[k].args ELSE << >>]
  <2> HIDE DEF g
  <2> QED BY <1>5
<1>7. ArgsOf(parts, i) = FlattenSeq(a) /\ ArgsOf(Append(parts, f), i) = FlattenSeq(b)
  <2> HIDE DEF a, b, g
  <2> QED BY <1>3, <1>6, Zenon DEF ArgsOf
<1>8. g[f] = IF OfCall(f, i) THEN f.args ELSE << >>
  OBVIOUS
<1>9. FlattenSeq(b) = FlattenSeq(a) \o g[f] /\ FlattenSeq(a) \in Seq(Written(P))
  <2> HIDE DEF g
  <2> QED BY <1>1, OneMore
<1> HIDE DEF a, b, g
<1>10. FlattenSeq(a) \o << >> = FlattenSeq(a)
  BY <1>9, ConcatEmptySeq
<1> QED BY <1>7, <1>8, <1>9, <1>10

LEMMA IdGrows ==
  ASSUME NEW P, NEW parts \in Seq(P), NEW f \in P, NEW i
  PROVE  IdOf(Append(parts, f), i) = IF OfCall(f, i) /\ f.id # << >> THEN f.id[1] ELSE IdOf(parts, i)
<1>1. PICK t, n : t = Append(parts, f) /\ n = Len(parts)
  OBVIOUS
<1>2. /\ n \in Nat /\ t[n + 1] = f /\ \A k \in 1..n : t[k] = parts[k]
      /\ DOMAIN parts = 1..n /\ DOMAIN t = 1..(n + 1)
  BY <1>1, AppendProperties, LenProperties
<1> DEFINE old == {k \in 1..n : OfCall(parts[k], i) /\ parts[k].id # << >>}
           new == {k \in 1..(n + 1) : OfCall(t[k], i) /\ t[k].id # << >>}
<1>3. /\ IdOf(parts, i) = IF old = {} THEN << >> ELSE parts[Max(old)].id[1]
      /\ IdOf(t, i) = IF new = {} THEN << >> ELSE t[Max(new)].id[1]
  BY <1>2, Zenon DEF IdOf
<1>4. CASE OfCall(f, i) /\ f.id # << >>
  <2>1. n + 1 \in new /\ \A k \in new : n + 1 >= k /\ k \in Nat
    BY <1>2, <1>4
  <2> HIDE DEF new
  <2>2. Max(new) \in new /\ \A k \in new : Max(new) >= k
    BY <2>1 DEF Max
  <2>3. Max(new) = n + 1
    BY <1>2, <2>1, <2>2
  <2> QED BY <1>1, <1>2, <1>3, <1>4, <2>1, <2>3
<1>5. CASE ~(OfCall(f, i) /\ f.id # << >>)
  <2>1. new = old
    <3>1. \A k \in 1..(n + 1) : k \in new <=> k \in old
      <4> SUFFICES ASSUME NEW k \in 1..(n + 1) PROVE k \in new <=> k \in old
        OBVIOUS
      <4>1. CASE k = n + 1
        BY <1>2, <1>5, <4>1
      <4>2. CASE k # n + 1
        <5>1. k \in 1..n
          BY <1>2, <4>2
        <5> QED BY <1>2, <5>1
      <4> QED BY <4>1, <4>2
    <3>2. \A k \in 1..n : k \in 1..(n + 1)
      BY <1>2
    <3> QED BY <3>1, <3>2
  <2>2. CASE old = {}
    BY <1>1, <1>3, <1>5, <2>1, <2>2
  <2>3. CASE old # {}
    <3>1. old \in SUBSET (0..n)
      BY <1>2
    <3> HIDE DEF old
    <3>2. Max(old) \in old
      BY <1>2, <2>3, <3>1, MaxIs
    <3>3. t[Max(old)] = parts[Max(old)]
      BY <1>2, <3>2 DEF old
    <3> QED BY <1>1, <1>3, <1>5, <2>1, <2>3, <3>3
  <2> QED BY <2>2, <2>3
<1> QED BY <1>4, <1>5

LEMMA IndexesGrow ==
  ASSUME NEW P, NEW parts \in Seq(P), NEW f \in P
  PROVE  IndexesOf(Append(parts, f)) = IndexesOf(parts) \cup (IF f.kind = "call" THEN {f.index} ELSE {})
<1>1. PICK t, n : t = Append(parts, f) /\ n = Len(parts)
  OBVIOUS
<1>2. /\ n \in Nat /\ t[n + 1] = f /\ \A k \in 1..n : t[k] = parts[k]
      /\ DOMAIN parts = 1..n /\ DOMAIN t = 1..(n + 1)
  BY <1>1, AppendProperties, LenProperties
<1>3. \A k : k \in 1..(n + 1) <=> k \in 1..n \/ k = n + 1
  BY <1>2
<1>4. \A x : x \in IndexesOf(t) <=> x \in IndexesOf(parts) \/ (f.kind = "call" /\ x = f.index)
  <2>1. \A x : x \in IndexesOf(t) <=> \E k \in 1..(n + 1) : t[k].kind = "call" /\ x = t[k].index
    BY <1>2 DEF IndexesOf
  <2>2. \A x : x \in IndexesOf(parts) <=> \E k \in 1..n : parts[k].kind = "call" /\ x = parts[k].index
    BY <1>2 DEF IndexesOf
  <2> SUFFICES ASSUME NEW x
               PROVE  (\E k \in 1..(n + 1) : t[k].kind = "call" /\ x = t[k].index)
                        <=> (\E k \in 1..n : parts[k].kind = "call" /\ x = parts[k].index)
                            \/ (f.kind = "call" /\ x = f.index)
    BY <2>1, <2>2, Zenon
  <2>3. ASSUME NEW k \in 1..(n + 1), t[k].kind = "call", x = t[k].index
        PROVE  (\E j \in 1..n : parts[j].kind = "call" /\ x = parts[j].index)
               \/ (f.kind = "call" /\ x = f.index)
    <3>1. k \in 1..n \/ k = n + 1
      BY <1>3
    <3>2. CASE k \in 1..n
      BY <1>2, <2>3, <3>2
    <3>3. CASE k = n + 1
      BY <1>2, <2>3, <3>3
    <3> QED BY <3>1, <3>2, <3>3
  <2>4. ASSUME NEW k \in 1..n, parts[k].kind = "call", x = parts[k].index
        PROVE  \E j \in 1..(n + 1) : t[j].kind = "call" /\ x = t[j].index
    <3>1. k \in 1..(n + 1) /\ t[k] = parts[k]
      BY <1>2, <1>3
    <3> QED BY <2>4, <3>1
  <2>5. ASSUME f.kind = "call", x = f.index
        PROVE  \E j \in 1..(n + 1) : t[j].kind = "call" /\ x = t[j].index
    <3>1. n + 1 \in 1..(n + 1)
      BY <1>3
    <3> QED BY <1>2, <2>5, <3>1
  <2> QED BY <2>3, <2>4, <2>5, Zenon
<1> QED BY <1>1, <1>4

-----------------------------------------------------------------------------
(* What the parser has put together is what the parts it handled mean.     *)
Parsed(parts) ==
  /\ content = TextOf(parts)
  /\ DOMAIN calls = IndexesOf(parts)
  /\ \A i : CallAt(i) = CallOf(parts, i)

LEMMA NothingParsed == ASSUME content = << >>, calls = NoCalls PROVE Parsed(<< >>)
<1>1. FlattenSeq(<< >>) = << >> /\ DOMAIN << >> = {}
  BY EmptySeq DEF FlattenSeq
<1>2. TextOf(<< >>) = << >>
  <2>1. [i \in DOMAIN << >> |-> IF << >>[i].kind = "text" THEN << << >>[i].piece>> ELSE << >>] = << >>
    OBVIOUS
  <2> QED BY <1>1, <2>1, Zenon DEF TextOf
<1>3. IndexesOf(<< >>) = {} /\ DOMAIN calls = {}
  BY <1>1 DEF IndexesOf, NoCalls
<1>4. ASSUME NEW i PROVE CallAt(i) = CallOf(<< >>, i)
  <2>1. IdOf(<< >>, i) = << >>
    BY <1>1 DEF IdOf
  <2>2. /\ [k \in DOMAIN << >> |-> IF OfCall(<< >>[k], i) THEN << >>[k].name ELSE << >>] = << >>
        /\ [k \in DOMAIN << >> |-> IF OfCall(<< >>[k], i) THEN << >>[k].args ELSE << >>] = << >>
    OBVIOUS
  <2>3. NameOf(<< >>, i) = << >> /\ ArgsOf(<< >>, i) = << >>
    BY <1>1, <2>2, Zenon DEF NameOf, ArgsOf
  <2>4. CallAt(i) = NoCall
    BY <1>3 DEF CallAt
  <2> QED BY <2>1, <2>3, <2>4 DEF CallOf, NoCall
<1> QED BY <1>2, <1>3, <1>4 DEF Parsed

LEMMA PartParsed ==
  ASSUME NEW P, \A x \in P : IsPart(x), NEW parts \in Seq(P), NEW f \in P, Parsed(parts), f = Head(pending),
         content' = IF Head(pending).kind = "text" THEN Append(content, Head(pending).piece) ELSE content,
         calls' = IF Head(pending).kind = "call" THEN Accumulate(Head(pending)) ELSE calls
  PROVE  Parsed(Append(parts, f))'
<1>1. PICK t : t = Append(parts, f)
  OBVIOUS
<1>2. TextOf(t) = content'
  <2>1. TextOf(t) = content \o Piece(f)
    BY <1>1, TextAppend DEF Parsed
  <2>2. PICK T : content \in Seq(T)
    BY TextIsASeq DEF Parsed
  <2>3. content \o << >> = content /\ content \o <<f.piece>> = Append(content, f.piece)
    <3>1. content \in Seq(T \cup {f.piece})
      BY <2>2, SeqMonotonic
    <3> QED BY <3>1
  <2> QED BY <2>1, <2>3 DEF Piece
<1>3. IndexesOf(t) = IndexesOf(parts) \cup (IF f.kind = "call" THEN {f.index} ELSE {})
  BY <1>1, IndexesGrow
<1>4. \A i : IdOf(t, i) = IF OfCall(f, i) /\ f.id # << >> THEN f.id[1] ELSE IdOf(parts, i)
  BY <1>1, IdGrows
<1>5. \A i : NameOf(t, i) = IF OfCall(f, i) THEN NameOf(parts, i) \o f.name ELSE NameOf(parts, i)
  BY <1>1, NameGrows
<1>6. \A i : ArgsOf(t, i) = IF OfCall(f, i) THEN ArgsOf(parts, i) \o f.args ELSE ArgsOf(parts, i)
  BY <1>1, ArgsGrow
<1>7. CASE f.kind # "call"
  <2>1. calls' = calls
    BY <1>7
  <2>2. \A i : ~OfCall(f, i)
    BY <1>7 DEF OfCall
  <2>3. IndexesOf(t) = DOMAIN calls'
    BY <1>3, <1>7, <2>1 DEF Parsed
  <2>4. \A i : CallOf(t, i) = CallOf(parts, i)
    BY <1>4, <1>5, <1>6, <2>2 DEF CallOf
  <2>5. \A i : CallAt(i)' = CallAt(i)
    BY <2>1 DEF CallAt
  <2>6. \A i : CallAt(i)' = CallOf(t, i)
    BY <2>4, <2>5 DEF Parsed
  <2> QED BY <1>1, <1>2, <2>3, <2>6 DEF Parsed
<1>8. CASE f.kind = "call"
  <2>1. calls' = Accumulate(f)
    BY <1>8
  <2>2. DOMAIN calls' = DOMAIN calls \cup {f.index}
    BY <2>1 DEF Accumulate
  <2>3. IndexesOf(t) = DOMAIN calls'
    BY <1>3, <1>8, <2>2 DEF Parsed
  <2>4. ASSUME NEW i PROVE CallAt(i)' = CallOf(t, i)
    <3>1. CallAt(i) = CallOf(parts, i)
      BY DEF Parsed
    <3>2. CASE i # f.index
      <4>1. ~OfCall(f, i)
        BY <3>2 DEF OfCall
      <4>2. CallOf(t, i) = CallOf(parts, i)
        BY <1>4, <1>5, <1>6, <4>1 DEF CallOf
      <4>3. CallAt(i)' = CallAt(i)
        BY <2>1, <2>2, <3>2 DEF CallAt, Accumulate
      <4> QED BY <3>1, <4>2, <4>3
    <3>3. CASE i = f.index
      <4>1. OfCall(f, i)
        BY <1>8, <3>3 DEF OfCall
      <4>2. CallAt(i)' = [id   |-> IF f.id = << >> THEN CallAt(i).id ELSE f.id[1],
                          name |-> CallAt(i).name \o f.name,
                          args |-> CallAt(i).args \o f.args]
        BY <2>1, <2>2, <3>3 DEF CallAt, Accumulate
      <4>3. CallOf(t, i) = [id   |-> IF f.id = << >> THEN IdOf(parts, i) ELSE f.id[1],
                            name |-> NameOf(parts, i) \o f.name,
                            args |-> ArgsOf(parts, i) \o f.args]
        BY <1>4, <1>5, <1>6, <4>1 DEF CallOf
      <4> QED BY <3>1, <4>2, <4>3 DEF CallOf
    <3> QED BY <3>2, <3>3
  <2> QED BY <1>1, <1>2, <2>3, <2>4 DEF Parsed
<1> QED BY <1>7, <1>8

LEMMA ParsedMessage == ASSUME NEW parts, Parsed(parts) PROVE Message = Meant(parts)
<1>1. DOMAIN calls = IndexesOf(parts) /\ content = TextOf(parts)
  BY DEF Parsed
<1>2. PICK order : order = SetToSortSeq(IndexesOf(parts), <)
  BY Zenon
<1>3. Message = [content |-> content, calls |-> [k \in DOMAIN order |-> Finished(CallAt(order[k]))]]
  BY <1>1, <1>2, Zenon DEF Message
<1>4. Meant(parts) = [content |-> TextOf(parts),
                      calls |-> [k \in DOMAIN order |-> Finished(CallOf(parts, order[k]))]]
  BY <1>2, Zenon DEF Meant
<1>5. [k \in DOMAIN order |-> Finished(CallAt(order[k]))] = [k \in DOMAIN order |-> Finished(CallOf(parts, order[k]))]
  BY DEF Parsed
<1> QED BY <1>1, <1>3, <1>4, <1>5

(* While the answer is coming, the parts that came in full are those that  *)
(* were handled and those that wait; what is in the buffer holds none.     *)
IsEnd == [kind |-> "message"]
Split(handled, waiting) ==
  /\ handled \in Seq(PartsSent(response)) /\ waiting \in Seq(PartsSent(response))
  /\ PartsUpTo(pos) = handled \o waiting
  /\ Parsed(handled)
  /\ pending = waiting \/ (pending = <<IsEnd>> /\ waiting = << >> /\ at = "handling")
ParsingInv ==
  /\ buffer = LeftOver(SubSeq(WireUnits, 1, pos))
  /\ pending = << >> <=> at # "handling"
  /\ \E handled, waiting : Split(handled, waiting)
MessageInv ==
  /\ response \in Responses /\ pos \in 0..Len(WireUnits)
  /\ Coming => ParsingInv
  /\ MessageIsAsSent

LEMMA PartsStay ==
  ASSUME response' = response, pos' = pos
  PROVE  WireUnits' = WireUnits /\ PartsUpTo(pos)' = PartsUpTo(pos)
BY DEF WireUnits, PartsUpTo

LEMMA WireIs ==
  ASSUME response \in Responses
  PROVE  /\ response \in Seq(Frames(PartsSent(response))) /\ \A x \in PartsSent(response) : IsPart(x)
         /\ WireUnits \in Seq(Units(PartsSent(response))) /\ Len(WireUnits) \in Nat
<1>1. response \in Seq(Frames(PartsSent(response))) /\ \A x \in PartsSent(response) : IsPart(x)
  BY ResponsesAre
<1>2. WireUnits = Sent(response, Len(response))
  <2>1. DOMAIN response = 1..Len(response)
    BY <1>1, LenProperties
  <2> QED BY <2>1, Zenon DEF WireUnits, Sent
<1>3. Len(response) \in 0..Len(response)
  BY <1>1, LenProperties
<1> QED BY <1>1, <1>2, <1>3, FrontTyped

LEMMA MessageUntouched ==
  ASSUME MessageInv, UNCHANGED <<response, pos, buffer, pending, content, calls, outcome>>,
         Coming' => Coming, at' = "handling" <=> at = "handling"
  PROVE  MessageInv'
<1>1. response' \in Responses /\ pos' \in 0..Len(WireUnits')
  BY DEF MessageInv, WireUnits
<1>2. MessageIsAsSent'
  <2>1. PartsUpTo(pos)' = PartsUpTo(pos) /\ outcome' = outcome
    BY PartsStay
  <2> QED BY <2>1 DEF MessageInv, MessageIsAsSent
<1>3. ASSUME Coming' PROVE ParsingInv'
  <2>1. ParsingInv
    BY <1>3 DEF MessageInv
  <2>2. PICK handled, waiting : Split(handled, waiting)
    BY <2>1 DEF ParsingInv
  <2>3. Parsed(handled)'
    BY <2>2 DEF Split, Parsed, CallAt
  <2>4. Split(handled, waiting)'
    BY <2>2, <2>3, PartsStay DEF Split
  <2>5. buffer' = LeftOver(SubSeq(WireUnits, 1, pos))'
    BY <2>1, PartsStay DEF ParsingInv
  <2> QED BY <2>1, <2>4, <2>5 DEF ParsingInv
<1> QED BY <1>1, <1>2, <1>3 DEF MessageInv

LEMMA MessageEnds ==
  ASSUME MessageInv, UNCHANGED <<response, pos>>, ~Coming', outcome'.kind # "complete"
  PROVE  MessageInv'
BY PartsStay DEF MessageInv, MessageIsAsSent

LEMMA MessageInit == StreamInit => MessageInv
<1> SUFFICES ASSUME StreamInit PROVE MessageInv
  OBVIOUS
<1>1. /\ response \in Responses /\ pos = 0 /\ at = "fetching" /\ buffer = << >> /\ pending = << >>
      /\ content = << >> /\ calls = NoCalls /\ outcome.kind = "none"
  BY DEF StreamInit, NoOutcome
<1>2. PICK P : P = PartsSent(response)
  OBVIOUS
<1>3. response \in Seq(Frames(P)) /\ pos \in 0..Len(WireUnits) /\ WireUnits \in Seq(Units(P)) /\ Len(response) \in Nat
  BY <1>1, <1>2, WireIs, LenProperties
<1>4. FallsBehind(response, 0, 0)
  <2>1. Len(Sent(response, 0)) <= 0
    BY FrontEmpty, EmptySeq
  <2>2. ASSUME 0 < Len(response) PROVE 0 < Len(Sent(response, 0 + 1))
    <3>1. 1 \in 1..Len(response) /\ 1 - 1 = 0 /\ 0 + 1 = 1
      BY <1>3, <2>2
    <3>2. response[1] \in Frames(P)
      BY <1>3, <3>1, ElementOfSeq
    <3>3. PICK U, b, c : U = Units(P) /\ b = Body(response[1]) /\ c = Render(response[1])
      OBVIOUS
    <3>4. b \in Seq(U) /\ c = Append(b, Newline) /\ c \in Seq(U) /\ Newline \in U
      BY <3>2, <3>3, FrameIs, NewlineIs
    <3>5. Len(c) = Len(b) + 1 /\ Len(b) \in Nat
      BY <3>4, AppendProperties, LenProperties
    <3>6. Sent(response, 1) = Sent(response, 1 - 1) \o c
      BY <1>3, <3>1, <3>3, FrontGrows
    <3>7. Sent(response, 1) = c
      BY <3>1, <3>4, <3>6, FrontEmpty, ConcatEmptySeq
    <3> QED BY <3>1, <3>5, <3>7
  <2> QED BY <1>3, <2>1, <2>2 DEF FallsBehind
<1>5. PartsUpTo(0) = << >>
  BY <1>3, <1>4, PartsAre, FrontEmpty
<1>6. SubSeq(WireUnits, 1, 0) = << >> /\ LeftOver(<< >>) = << >>
  <2>1. SubSeq(WireUnits, 1, 0) = << >>
    BY <1>3
  <2>2. Pieces("frame", << >>) = [whole |-> << >>, rest |-> << >>]
    BY PiecesEmpty DEF NoPieces
  <2> QED BY <2>1, <2>2 DEF LeftOver, ParseChunk
<1>7. Split(<< >>, << >>)
  <2>1. << >> \in Seq(PartsSent(response)) /\ << >> \o << >> = << >>
    BY EmptySeq, ConcatEmptySeq
  <2> QED BY <1>1, <1>5, <2>1, NothingParsed DEF Split
<1>8. ParsingInv
  BY <1>1, <1>6, <1>7 DEF ParsingInv
<1> QED BY <1>1, <1>3, <1>8 DEF MessageInv, MessageIsAsSent

LEMMA MessageRead == ASSUME MessageInv, StoredInv, Read PROVE MessageInv'
<1>1. PICK n \in 1..MaxChunk :
        /\ pos + n <= Len(WireUnits) /\ pos' = pos + n
        /\ buffer' = ParseChunk(buffer \o SubSeq(WireUnits, pos + 1, pos + n)).rest
        /\ pending' = FlattenSeq(ParseChunk(buffer \o SubSeq(WireUnits, pos + 1, pos + n)).events)
  BY DEF Read
<1>2. /\ at = "reading" /\ at' = (IF pending' = << >> THEN "reading" ELSE "handling")
      /\ UNCHANGED <<response, content, calls, outcome>>
  BY DEF Read, turnVars
<1>3. PICK P, U, w, chunk, known, p : /\ P = PartsSent(response) /\ U = Units(P) /\ w = WireUnits
                                      /\ chunk = SubSeq(w, pos + 1, pos + n) /\ known = SubSeq(w, 1, pos)
                                      /\ p = pos + n
  OBVIOUS
<1>4. /\ response \in Seq(Frames(P)) /\ w \in Seq(U) /\ Len(w) \in Nat /\ pos \in 0..Len(w) /\ pos \in Nat
      /\ n \in Nat /\ p \in 0..Len(w)
  <2>1. response \in Seq(Frames(P)) /\ w \in Seq(U) /\ Len(w) \in Nat /\ pos \in 0..Len(w)
    BY <1>3, WireIs DEF MessageInv
  <2>2. n \in Nat
    BY StreamingAssumption
  <2> QED BY <1>1, <1>3, <2>1, <2>2
<1>5. buffer = LeftOver(known) /\ pending = << >>
  BY <1>2, <1>3 DEF MessageInv, ParsingInv, Coming
<1>6. PICK handled : handled \in Seq(P) /\ PartsUpTo(pos) = handled /\ Parsed(handled)
  <2>1. PICK handled, waiting : Split(handled, waiting)
    BY <1>2 DEF MessageInv, ParsingInv, Coming
  <2>2. waiting = << >>
    BY <1>2, <2>1, <1>5 DEF Split
  <2>3. handled \in Seq(P) /\ handled \o << >> = handled
    BY <1>3, <2>1, ConcatEmptySeq DEF Split
  <2> QED BY <2>1, <2>2, <2>3 DEF Split
<1>7. /\ known \in Seq(U) /\ Len(known) = pos /\ \A q \in 1..pos : known[q] = w[q]
      /\ chunk \in Seq(U) /\ Len(chunk) = n /\ \A q \in 1..n : chunk[q] = w[pos + q]
  <2>1. 1 \in 1..(Len(w) + 1) /\ pos \in (1 - 1)..Len(w) /\ pos + 1 \in 1..(Len(w) + 1) /\ pos + n \in (pos + 1 - 1)..Len(w)
    BY <1>1, <1>3, <1>4
  <2>2. known \in Seq(U) /\ Len(known) = pos - 1 + 1 /\ \A q \in 1..(pos - 1 + 1) : known[q] = w[1 + q - 1]
    BY <1>3, <1>4, <2>1, PartTyped
  <2>3. /\ chunk \in Seq(U) /\ Len(chunk) = pos + n - (pos + 1) + 1
        /\ \A q \in 1..(pos + n - (pos + 1) + 1) : chunk[q] = w[pos + 1 + q - 1]
    BY <1>3, <1>4, <2>1, PartTyped
  <2>4. /\ pos - 1 + 1 = pos /\ pos + n - (pos + 1) + 1 = n
        /\ \A q \in 1..pos : 1 + q - 1 = q
        /\ \A q \in 1..n : pos + 1 + q - 1 = pos + q
    BY <1>4
  <2> QED BY <2>2, <2>3, <2>4
<1>8. SubSeq(w, 1, p) = known \o chunk
  <2>1. 1 \in 1..(Len(w) + 1) /\ p \in (1 - 1)..Len(w) /\ p - 1 + 1 = pos + n
    BY <1>3, <1>4
  <2>2. PICK s : s = SubSeq(w, 1, p)
    OBVIOUS
  <2>3. s \in Seq(U) /\ Len(s) = p - 1 + 1 /\ \A q \in 1..(p - 1 + 1) : s[q] = w[1 + q - 1]
    BY <1>4, <2>1, <2>2, PartTyped
  <2>4. Len(s) = Len(known) + Len(chunk)
    BY <1>7, <2>1, <2>3
  <2>5. \A q \in 1..Len(s) : s[q] = IF q <= Len(known) THEN known[q] ELSE chunk[q - Len(known)]
    <3> SUFFICES ASSUME NEW q \in 1..(pos + n) PROVE s[q] = IF q <= pos THEN known[q] ELSE chunk[q - pos]
      BY <1>7, <2>4
    <3>1. s[q] = w[q]
      <4>1. 1 + q - 1 = q
        OBVIOUS
      <4> QED BY <2>1, <2>3, <4>1
    <3>2. CASE q <= pos
      <4>1. q \in 1..pos
        BY <1>4, <3>2
      <4> QED BY <1>7, <3>1, <3>2, <4>1
    <3>3. CASE ~(q <= pos)
      <4>1. q - pos \in 1..n /\ pos + (q - pos) = q
        BY <1>4, <3>3
      <4> QED BY <1>7, <3>1, <3>3, <4>1
    <3> QED BY <3>2, <3>3
  <2> QED BY <1>7, <2>2, <2>3, <2>4, <2>5, IsConcat
<1>9. /\ Decoded(known \o chunk) = Decoded(known) \o Decoded(LeftOver(known) \o chunk)
      /\ LeftOver(known \o chunk) = LeftOver(LeftOver(known) \o chunk)
  <2>1. known \in Seq(Units(P)) /\ chunk \in Seq(Units(P))
    BY <1>3, <1>7
  <2> QED BY <2>1, DecodedConcat
<1>10. pending' = Decoded(LeftOver(known) \o chunk) /\ buffer' = LeftOver(LeftOver(known) \o chunk)
  BY <1>1, <1>3, <1>5 DEF Decoded, LeftOver
<1>11. Decoded(known) = handled
  BY <1>3, <1>4, <1>6, ReadIsParts
<1>12. PartsUpTo(p) = handled \o pending'
  <2>1. Decoded(SubSeq(w, 1, p)) = PartsUpTo(p)
    BY <1>3, <1>4, ReadIsParts
  <2> QED BY <1>8, <1>9, <1>10, <1>11, <2>1
<1>13. pending' \in Seq(P)
  <2>1. LeftOver(known) \o chunk \in Seq(Units(P))
    <3>1. LeftOver(known) \in Seq(Units(P))
      BY <1>3, <1>7, ChunkParsed
    <3> QED BY <1>3, <1>7, <3>1, ConcatProperties
  <2> QED BY <1>10, <2>1, ChunkParsed
<1>14. WireUnits' = w /\ PartsUpTo(pos)' = PartsUpTo(p) /\ p = pos' /\ PartsSent(response)' = P
  BY <1>1, <1>2, <1>3 DEF WireUnits, PartsUpTo, PartsSent
<1>15. Parsed(handled)'
  BY <1>2, <1>6 DEF Parsed, CallAt
<1>16. PICK q : q = pending'
  OBVIOUS
<1>17. Split(handled, q)'
  <2>1. pending' = q /\ q \in Seq(PartsSent(response))' /\ handled \in Seq(PartsSent(response))'
    BY <1>6, <1>13, <1>14, <1>16
  <2>2. PartsUpTo(pos)' = handled \o q
    BY <1>12, <1>14, <1>16
  <2> QED BY <1>15, <2>1, <2>2 DEF Split
<1>18. ParsingInv'
  <2>1. buffer' = LeftOver(SubSeq(WireUnits, 1, pos))'
    <3>1. SubSeq(WireUnits', 1, pos') = known \o chunk
      BY <1>8, <1>14
    <3> QED BY <1>9, <1>10, <3>1
  <2>2. pending' = << >> <=> at' # "handling"
    BY <1>2
  <2> QED BY <1>17, <2>1, <2>2 DEF ParsingInv
<1>19. response' \in Responses /\ pos' \in 0..Len(WireUnits')
  BY <1>2, <1>4, <1>14 DEF MessageInv
<1>20. MessageIsAsSent'
  <2>1. outcome = NoOutcome
    BY <1>2 DEF StoredInv, OutcomeFits, Coming
  <2> QED BY <1>2, <2>1 DEF MessageIsAsSent, NoOutcome
<1> QED BY <1>18, <1>19, <1>20 DEF MessageInv

LEMMA HeadMoves ==
  ASSUME NEW S, NEW a \in Seq(S), NEW b \in Seq(S), b # << >>
  PROVE  /\ Head(b) \in S /\ Tail(b) \in Seq(S) /\ Append(a, Head(b)) \in Seq(S)
         /\ a \o b = Append(a, Head(b)) \o Tail(b)
<1>1. PICK x, t : x = Head(b) /\ t = Tail(b)
  OBVIOUS
<1>2. x \in S /\ t \in Seq(S) /\ b = <<x>> \o t
  BY <1>1
<1>3. Append(a, x) = a \o <<x>> /\ <<x>> \in Seq(S) /\ Append(a, x) \in Seq(S)
  BY <1>2
<1>4. a \o (<<x>> \o t) = (a \o <<x>>) \o t
  BY <1>2, <1>3, ConcatAssociative
<1> QED BY <1>1, <1>2, <1>3, <1>4

LEMMA MessageHandled == ASSUME MessageInv, StoredInv, Handle PROVE MessageInv'
<1>1. at = "handling" /\ Coming /\ ParsingInv /\ outcome = NoOutcome /\ UNCHANGED <<response, pos, buffer>>
  BY DEF Handle, MessageInv, StoredInv, OutcomeFits, Coming
<1>2. PICK handled, waiting : Split(handled, waiting)
  BY <1>1 DEF ParsingInv
<1>3. pending # << >>
  BY <1>1 DEF ParsingInv
<1>4. CASE StopAtEvent
  BY <1>1, <1>4, MessageEnds DEF StopAtEvent, Ends, Coming
<1>5. CASE ~StopAtEvent /\ pending = waiting
  <2>1. PICK P, f, parts, rests : P = PartsSent(response) /\ f = Head(pending)
                                  /\ parts = Append(handled, f) /\ rests = Tail(pending)
    OBVIOUS
  <2>2. handled \in Seq(P) /\ pending \in Seq(P) /\ PartsUpTo(pos) = handled \o pending /\ Parsed(handled)
    BY <1>2, <1>5, <2>1 DEF Split
  <2>3. f \in P /\ rests \in Seq(P) /\ parts \in Seq(P) /\ handled \o pending = parts \o rests
    BY <1>3, <2>1, <2>2, HeadMoves
  <2>4. \A x \in P : IsPart(x)
    BY <2>1, WireIs DEF MessageInv
  <2>5. f.kind # "message"
    BY <2>3, <2>4 DEF IsPart
  <2>6. pending' = rests /\ at' = (IF pending' = << >> THEN "reading" ELSE "handling") /\ outcome' = outcome
    <3>1. TakeText \/ TakeThought \/ TakeUsage \/ TakeCall
      BY <1>5, <2>1, <2>5 DEF Handle, TakeMessage
    <3> QED BY <2>1, <3>1 DEF TakeText, TakeThought, TakeUsage, TakeCall, Advance, turnVars
  <2>7. Parsed(parts)'
    <3>1. /\ content' = IF Head(pending).kind = "text" THEN Append(content, Head(pending).piece) ELSE content
          /\ calls' = IF Head(pending).kind = "call" THEN Accumulate(Head(pending)) ELSE calls
      BY DEF Handle
    <3>2. Parsed(Append(handled, f))'
      BY <2>1, <2>2, <2>3, <2>4, <3>1, PartParsed
    <3> QED BY <2>1, <3>2
  <2>8. PartsSent(response)' = P /\ PartsUpTo(pos)' = PartsUpTo(pos) /\ WireUnits' = WireUnits
    BY <1>1, <2>1, PartsStay DEF PartsSent
  <2>9. Split(parts, rests)'
    BY <2>2, <2>3, <2>6, <2>7, <2>8 DEF Split
  <2>10. ParsingInv'
    <3>1. buffer' = LeftOver(SubSeq(WireUnits, 1, pos))'
      BY <1>1, <2>8 DEF ParsingInv
    <3>2. pending' = << >> <=> at' # "handling"
      BY <2>6
    <3> QED BY <2>9, <3>1, <3>2 DEF ParsingInv
  <2>11. MessageIsAsSent'
    BY <1>1, <2>6 DEF MessageIsAsSent, NoOutcome
  <2> QED BY <1>1, <2>8, <2>10, <2>11 DEF MessageInv
<1>6. CASE ~StopAtEvent /\ pending # waiting
  <2>1. pending = <<IsEnd>> /\ waiting = << >> /\ Parsed(handled)
    BY <1>2, <1>6 DEF Split
  <2>2. Head(pending).kind = "message"
    BY <2>1 DEF IsEnd
  <2>3. TakeMessage
    BY <1>6, <2>2 DEF Handle, TakeText, TakeThought, TakeUsage, TakeCall
  <2>4. PartsUpTo(pos) = handled
    <3>1. handled \o << >> = handled
      BY <1>2, ConcatEmptySeq DEF Split
    <3> QED BY <1>2, <2>1, <3>1 DEF Split
  <2>5. outcome'.message = Meant(handled) /\ at' = "over"
    <3>1. Message = Meant(handled)
      BY <2>1, ParsedMessage
    <3> QED BY <2>3, <3>1 DEF TakeMessage
  <2>6. PartsUpTo(pos)' = PartsUpTo(pos) /\ WireUnits' = WireUnits
    BY <1>1, PartsStay
  <2> QED BY <1>1, <2>4, <2>5, <2>6 DEF MessageInv, MessageIsAsSent, Coming
<1> QED BY <1>4, <1>5, <1>6

LEMMA MessageCloses == ASSUME MessageInv, StreamCloses PROVE MessageInv'
<1>1. /\ at = "reading" /\ Coming /\ ParsingInv /\ at' = "handling" /\ pending' = <<IsEnd>>
      /\ UNCHANGED <<response, pos, buffer, content, calls, outcome>>
  BY DEF StreamCloses, MessageInv, Coming, turnVars, IsEnd
<1>2. PICK handled, waiting : Split(handled, waiting)
  BY <1>1 DEF ParsingInv
<1>3. pending = << >>
  BY <1>1 DEF ParsingInv
<1>4. waiting = << >>
  BY <1>1, <1>2, <1>3 DEF Split
<1>5. PartsSent(response)' = PartsSent(response) /\ PartsUpTo(pos)' = PartsUpTo(pos) /\ WireUnits' = WireUnits
  BY <1>1, PartsStay DEF PartsSent
<1>6. Parsed(handled)'
  BY <1>1, <1>2 DEF Split, Parsed, CallAt
<1>7. Split(handled, waiting)'
  BY <1>1, <1>2, <1>4, <1>5, <1>6 DEF Split
<1>8. ParsingInv'
  <2>1. buffer' = LeftOver(SubSeq(WireUnits, 1, pos))'
    BY <1>1, <1>5 DEF ParsingInv
  <2>2. pending' # << >>
    BY <1>1
  <2> QED BY <1>1, <1>7, <2>1, <2>2 DEF ParsingInv
<1>9. MessageIsAsSent'
  BY <1>1, <1>5 DEF MessageInv, MessageIsAsSent
<1> QED BY <1>1, <1>5, <1>8, <1>9 DEF MessageInv

LEMMA MessageKept == StoredInv /\ MessageInv /\ [StreamNext]_streamVars => MessageInv'
<1> SUFFICES ASSUME StoredInv, MessageInv, [StreamNext]_streamVars PROVE MessageInv'
  OBVIOUS
<1>1. CASE Respond
  BY <1>1, MessageUntouched DEF Respond, parserVars, turnVars, Coming
<1>2. CASE NetworkFails
  BY <1>2, MessageEnds DEF NetworkFails, Ends, Coming, parserVars
<1>3. CASE CutOff
  BY <1>3, MessageEnds DEF CutOff, Ends, Coming, parserVars
<1>4. CASE Read
  BY <1>4, MessageRead
<1>5. CASE StreamCloses
  BY <1>5, MessageCloses
<1>6. CASE Handle
  BY <1>6, MessageHandled
<1>7. CASE StopTurn \/ Timeout
  BY <1>7, MessageUntouched DEF StopTurn, Timeout, parserVars, turnVars, Coming
<1>8. CASE Finish
  BY <1>8, MessageUntouched DEF Finish, parserVars, turnVars, Coming
<1>9. CASE Ping \/ Disconnect \/ ClientReads
  BY <1>9, MessageUntouched DEF Ping, Disconnect, ClientReads, parserVars, turnVars, Coming
<1>10. CASE UNCHANGED streamVars
  BY <1>10, MessageUntouched DEF streamVars, parserVars, turnVars, Coming
<1> QED BY <1>1, <1>2, <1>3, <1>4, <1>5, <1>6, <1>7, <1>8, <1>9, <1>10 DEF StreamNext

(* A complete message is what the frames meant that came in full, however  *)
(* the network cut them, however the fragments of several calls came mixed *)
(* and wherever the stream closed.                                         *)
THEOREM MessageIsWhole == StreamSpec => []MessageIsAsSent
<1>1. MessageInv => MessageIsAsSent
  BY DEF MessageInv
<1>2. StreamInit /\ [][StreamNext]_streamVars => []StoredInv
  BY StoredStarts, StoredKept, PTL
<1>3. StreamInit => MessageInv
  BY MessageInit
<1> QED BY <1>1, <1>2, <1>3, MessageKept, PTL DEF StreamSpec
=============================================================================
