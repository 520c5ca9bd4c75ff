------------------------------ MODULE Composer ------------------------------
(***************************************************************************)
(* The message composer: ui/components/Composer.tsx with its add menu, and *)
(* the trigger menu of ui/hooks/use-context-menu.ts.                       *)
(*                                                                         *)
(* React state, editor and file reads run at different times.  The value   *)
(* is read from the editor after every input, the editor is painted from   *)
(* the value after every insertion, and a list of files is read one by one *)
(* in between.  A menu level is asked for after each change of trigger,    *)
(* query or path, and the answer comes when it comes.                      *)
(*                                                                         *)
(* An action is one event with the effects React runs for it.  Which row   *)
(* is highlighted is left open (any row shown may be picked), modes and    *)
(* layout are left out, and one menu stands for the catalog's menus; the   *)
(* composer is enabled, and takes attachments.                             *)
(***************************************************************************)
EXTENDS ComposerText

CONSTANTS Keys,        \* the characters that are typed
          Queries,     \* what is typed into the add menu's search
          Names,       \* names of attached files, as tokens
          MaxEvents,   \* bound: what the person does
          MaxFiles     \* bound: files attached

ASSUME DraftAssumption ==
  /\ \A name \in Names : IsText(name)
  /\ MaxFiles \in Nat

VARIABLES dom, caret,  \* the editor
          value,       \* what React holds
          needsPaint, attaching,   \* the two refs of the component
          jobs,        \* addFiles calls under way: [id, next, left, added]
          match, path, nodes, loading,    \* the trigger menu
          asked,       \* its requests: [query, path, aborted]
          dismissed,   \* TriggerDismissals
          events, files   \* what the bounds count

editor == <<dom, caret, value, needsPaint>>
menuVars == <<match, path, nodes, loading, asked, dismissed>>
counts == <<events, files>>
composerVars == <<editor, attaching, jobs, menuVars, counts>>

Empty == [text |-> << >>, caret |-> 0, refs |-> << >>, files |-> << >>, pristine |-> TRUE]

ComposerInit ==
  /\ dom = << >> /\ caret = [at |-> 0, inText |-> TRUE] /\ value = Empty
  /\ needsPaint = FALSE /\ attaching = FALSE /\ jobs = {}
  /\ match = Null /\ path = << >> /\ nodes = {} /\ loading = FALSE
  /\ asked = {} /\ dismissed = {} /\ events = 0 /\ files = 0

Act == events < MaxEvents /\ events' = events + 1
MenuOpen == match # Null /\ (nodes # {} \/ loading)

-----------------------------------------------------------------------------
(***************************************************************************)
(* The trigger menu.  The match is computed when text or caret changed; a  *)
(* new trigger starts at the top; a request is aborted when its query or   *)
(* its path is no longer the one shown.                                    *)
(***************************************************************************)
Key(m) == IF m = Null THEN << >> ELSE <<m.menu, m.start>>

(* Mutant: the match is computed from the text alone.                      *)
MatchOfText(v) ==
  IF v.text = value.text THEN match
  ELSE LET found == DetectTrigger(v.text, v.caret)
       IN  IF found # Null /\ found.start \in dismissed THEN Null ELSE found

MatchOf(v) ==
  IF v.text = value.text /\ v.caret = value.caret THEN match
  ELSE LET found == DetectTrigger(v.text, v.caret)
       IN  IF found # Null /\ found.start \in dismissed THEN Null ELSE found

AbortAsked == {[r EXCEPT !.aborted = TRUE] : r \in asked}
AskFor(query, p) == AbortAsked \cup {[query |-> query, path |-> p, aborted |-> FALSE]}

(* The effects of a new match m, of a path set to p, of nodes cleared.     *)
Show(m, p, restart, shown) ==
  LET moved == Key(m) # Key(match)
      there == IF moved THEN << >> ELSE p
  IN  /\ match' = m /\ path' = there
      /\ IF m = Null THEN nodes' = {} /\ loading' = FALSE /\ asked' = AbortAsked
         ELSE /\ nodes' = shown
              /\ IF moved \/ restart \/ match.query # m.query
                 THEN asked' = AskFor(m.query, there) /\ loading' = TRUE
                 ELSE UNCHANGED <<asked, loading>>

(* Mutant: an answer is taken although its request was aborted.            *)
TakeAnyAnswer(r) == nodes' = ListItems(r.query, r.path) /\ loading' = FALSE

TakeAnswer(r) ==
  IF r.aborted THEN UNCHANGED <<nodes, loading>>
  ELSE nodes' = ListItems(r.query, r.path) /\ loading' = FALSE

Fetched(r) ==
  /\ asked' = asked \ {r} /\ TakeAnswer(r)
  /\ UNCHANGED <<editor, attaching, jobs, match, path, dismissed, counts>>

FetchFails(r) ==
  /\ Act /\ asked' = asked \ {r}
  /\ IF r.aborted THEN UNCHANGED <<nodes, loading>> ELSE nodes' = {} /\ loading' = FALSE
  /\ UNCHANGED <<editor, attaching, jobs, match, path, dismissed, files>>

-----------------------------------------------------------------------------
(***************************************************************************)
(* Value and editor.  A new value is painted if that was asked for, now or *)
(* before; setting the very value that is there changes nothing.           *)
(***************************************************************************)
SetValue(v, d, c) ==
  /\ value' = v /\ needsPaint' = FALSE
  /\ dom' = IF needsPaint THEN PaintComposer(v) ELSE d
  /\ caret' = IF needsPaint THEN SetComposerCaret(dom', v.caret) ELSE c

Commit(v) ==
  /\ value' = v /\ needsPaint' = FALSE
  /\ dom' = PaintComposer(v) /\ caret' = SetComposerCaret(dom', v.caret)

ReadEditor(d, c) ==
  LET read == Serialize(d, c)
  IN  [read EXCEPT !.refs = MergeComposerRefs(read, value.refs),
                   !.files = MergeComposerAttachments(read, value.files)]

(* The editor is now d with the caret c; while files are read the value is *)
(* not touched.                                                            *)
Sync(d, c) ==
  IF attaching THEN dom' = d /\ caret' = c /\ UNCHANGED <<value, needsPaint, match, path, nodes, loading, asked>>
  ELSE LET v == ReadEditor(d, c)
       IN  SetValue(v, d, c) /\ Show(MatchOf(v), path, FALSE, nodes)

Type(key) ==
  /\ Act
  /\ Sync(SubSeq(dom, 1, caret.at) \o <<Char(key)>> \o SubSeq(dom, caret.at + 1, Len(dom)),
          [at |-> caret.at + 1, inText |-> TRUE])
  /\ UNCHANGED <<attaching, jobs, dismissed, files>>

(* A click, an arrow key, or the key-up behind a key that did not type.    *)
MoveCaret(p) ==
  /\ Act /\ Sync(dom, CaretAt(dom, p))
  /\ UNCHANGED <<attaching, jobs, dismissed, files>>
KeyUp ==
  /\ Act /\ Sync(dom, caret)
  /\ UNCHANGED <<attaching, jobs, dismissed, files>>

(* An empty draft is cleared instead of edited.                            *)
Nothing == IsBlank(value.text) /\ value.files = << >>

Erase(i) ==
  /\ i \in DOMAIN dom /\ Act
  /\ IF Nothing
     THEN IF value.text # << >> THEN Commit(Empty) /\ Show(MatchOf(Empty), path, FALSE, nodes)
          ELSE UNCHANGED <<editor, match, path, nodes, loading, asked>>
     ELSE IF IsChip(dom[i])
     THEN LET r == RemoveChip(dom, i) IN Sync(r.dom, r.caret)
     ELSE LET d == RemoveAt(dom, i) IN Sync(d, CaretAt(d, i - 1))
  /\ UNCHANGED <<attaching, jobs, dismissed, files>>
Backspace == Erase(caret.at)
Delete == Erase(caret.at + 1)

ClickRemove(i) ==
  LET r == RemoveChip(dom, i)
  IN  /\ IsChip(dom[i]) /\ Act /\ Sync(r.dom, r.caret)
      /\ UNCHANGED <<attaching, jobs, dismissed, files>>

-----------------------------------------------------------------------------
(***************************************************************************)
(* The menu's keys.                                                        *)
(***************************************************************************)
(* Into a group: the rows stay until the new level comes.                  *)
DrillIn(node) ==
  /\ MenuOpen /\ node \in nodes /\ node.kind # "item" /\ Act
  /\ Show(match, Append(path, node.id[1]), TRUE, nodes)
  /\ UNCHANGED <<editor, attaching, jobs, dismissed, files>>

Back ==
  /\ MenuOpen /\ path # << >> /\ Act
  /\ Show(match, Front(path), TRUE, nodes)
  /\ UNCHANGED <<editor, attaching, jobs, dismissed, files>>

(* The span of the trigger gives way to the pick.  An action inserts       *)
(* nothing.                                                                *)
Pick(node) ==
  LET ref == RefOf(node, path)
      v == IF node.insert = "action"
           THEN [value EXCEPT !.text = SubSeq(@, 1, match.start - 1) \o SubSeq(@, match.end + 1, Len(@)),
                              !.caret = match.start - 1, !.pristine = FALSE]
           ELSE [ApplyPickToText(value, match, ref.token) EXCEPT !.refs = Append(@, ref)]
  IN  /\ MenuOpen /\ node \in nodes /\ node.kind = "item" /\ Act
      /\ Commit(v) /\ Show(MatchOf(v), << >>, TRUE, {})
      /\ UNCHANGED <<attaching, jobs, dismissed, files>>

(* The match is not computed again, nor the request aborted.               *)
Dismiss ==
  /\ MenuOpen /\ Act
  /\ dismissed' = dismissed \cup {match.start} /\ nodes' = {}
  /\ UNCHANGED <<editor, attaching, jobs, match, path, loading, asked, files>>

-----------------------------------------------------------------------------
(***************************************************************************)
(* The add menu, files and sending.                                        *)
(***************************************************************************)
Put(v) == Commit(v) /\ Show(MatchOf(v), path, FALSE, nodes)

AddTrigger ==
  /\ Act /\ Put(InsertTrigger(ReadEditor(dom, caret)))
  /\ UNCHANGED <<attaching, jobs, dismissed, files>>

AddPick(hit) ==
  /\ hit.item.insert # "action" /\ Act
  /\ Put(InsertCatalogItemAtCaret(ReadEditor(dom, caret), hit.item, hit.path))
  /\ UNCHANGED <<attaching, jobs, dismissed, files>>

(* addFiles reads the editor first and commits what it read, with the      *)
(* chips put in, when the last file has been read.                         *)
AddFiles(n) ==
  /\ n \in 1..(MaxFiles - files) /\ Act
  /\ jobs' = jobs \cup {[id |-> files + 1, next |-> ReadEditor(dom, caret), left |-> n, added |-> FALSE]}
  /\ attaching' = TRUE /\ files' = files + n
  /\ UNCHANGED <<editor, menuVars>>

FileRead(job, name) ==
  LET id == job.id + job.left
      file == [id |-> id, token |-> name, data |-> id]
      next == InsertAttachmentAtCaret(job.next, file)
  IN  /\ IF job.left = 1
         THEN Put(next) /\ jobs' = jobs \ {job} /\ attaching' = FALSE
         ELSE /\ jobs' = (jobs \ {job}) \cup {[job EXCEPT !.next = next, !.left = @ - 1, !.added = TRUE]}
              /\ UNCHANGED <<editor, attaching, match, path, nodes, loading, asked>>
      /\ UNCHANGED <<dismissed, counts>>

FileFails(job) ==
  /\ Act
  /\ IF job.left = 1
     THEN /\ IF job.added THEN Put(job.next) ELSE UNCHANGED <<editor, match, path, nodes, loading, asked>>
          /\ jobs' = jobs \ {job} /\ attaching' = FALSE
     ELSE /\ jobs' = (jobs \ {job}) \cup {[job EXCEPT !.left = @ - 1]}
          /\ UNCHANGED <<editor, attaching, match, path, nodes, loading, asked>>
  /\ UNCHANGED <<dismissed, files>>

(* What is sent is read from the editor; then the value is emptied, which  *)
(* paints, unless it is the empty value already.                           *)
Submit ==
  LET sent == ReadEditor(dom, caret)
  IN  /\ ~(IsBlank(sent.text) /\ sent.files = << >>) /\ Act
      /\ IF value.pristine
         THEN needsPaint' = TRUE /\ UNCHANGED <<dom, caret, value, match, path, nodes, loading, asked>>
         ELSE Put(Empty)
      /\ UNCHANGED <<attaching, jobs, dismissed, files>>

ComposerNext ==
  \/ \E key \in Keys : Type(key)
  \/ (\E p \in 0..Len(dom) : MoveCaret(p)) \/ KeyUp
  \/ Backspace \/ Delete \/ \E i \in DOMAIN dom : ClickRemove(i)
  \/ \E node \in nodes : DrillIn(node) \/ Pick(node)
  \/ Back \/ Dismiss
  \/ \E r \in asked : Fetched(r) \/ FetchFails(r)
  \/ AddTrigger \/ \E query \in Queries : \E hit \in FlattenMenuItems(ListItems(query, << >>)) : AddPick(hit)
  \/ \E n \in 1..MaxFiles : AddFiles(n)
  \/ \E job \in jobs : FileFails(job) \/ \E name \in Names : FileRead(job, name)
  \/ Submit

ComposerSpec == ComposerInit /\ [][ComposerNext]_composerVars

-----------------------------------------------------------------------------
(***************************************************************************)
(* Properties.                                                             *)
(***************************************************************************)
(* The payload of a file survives every paint and every reading of the     *)
(* editor, of which neither carries it: each chip's is in the value, and   *)
(* is its own even where two files have one name.                          *)
PayloadsSurvive ==
  \A i \in DOMAIN dom :
    dom[i].t = "file" => \E j \in DOMAIN value.files :
                           value.files[j].id = dom[i].file.id /\ value.files[j].data = dom[i].file.id

(* Painting keeps the draft: the editor then reads as the text of the      *)
(* value, with no chip but the value's; and as long as the first           *)
(* occurrences of the chips' tokens do not overlap, every chip of the      *)
(* value stands there, over the first occurrence of its token.             *)
EndsBefore(v, one, other) == FirstAt(v, one) + Len(Wire(one)) <= FirstAt(v, other)

Apart(v) ==
  LET chips == Chips(v)
  IN  /\ \A chip \in Range(chips) : FirstAt(v, chip) # 0
      /\ \A i, j \in DOMAIN chips :
           i # j => EndsBefore(v, chips[i], chips[j]) \/ EndsBefore(v, chips[j], chips[i])

Stands(d, v, chip) == \E p \in DOMAIN d : d[p] = chip /\ Offset(d, p - 1) + 1 = FirstAt(v, chip)

PaintKeepsDraft ==
  LET d == PaintComposer(value)
  IN  /\ Text(d) = value.text
      /\ \A n \in Range(d) : IsChip(n) => n \in Range(Chips(value))
      /\ Apart(value) => \A chip \in Range(Chips(value)) : Stands(d, value, chip)

(* "In-flight requests whose responses can land out of order": rows that   *)
(* stand while nothing is loading are those of the query and the path that *)
(* are shown.                                                              *)
RowsAreOfTheQuery ==
  ~loading /\ nodes # {} => match # Null /\ nodes = ListItems(match.query, path)

(* After every step that changes the editor or moves its caret, what a     *)
(* pick would replace is the trigger and the query that stand in the       *)
(* editor before the caret.  Not so while files are read, and where the    *)
(* caret is beside a chip and in no text (Serialize).                      *)
MatchFollowsCaret ==
  [][~attaching' /\ <<dom, caret>>' # <<dom, caret>> /\ caret'.inText /\ match' # Null
       => /\ Text(dom') = value'.text
          /\ match'.end = Offset(dom', caret'.at)
          /\ SubSeq(Text(dom'), match'.start, match'.end) = <<Trigger>> \o match'.query]_composerVars
=============================================================================
