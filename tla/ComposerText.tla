---------------------------- MODULE ComposerText ----------------------------
(***************************************************************************)
(* What the composer does to a draft, without its timing: ui/composer      *)
(* /serialize.ts and add-menu.ts, protocol/menus/trigger.ts, nodes.ts and  *)
(* chips.ts, and the catalog of core/context-menus.                        *)
(*                                                                         *)
(* A draft exists twice.  In the editor it is a sequence of characters and *)
(* chips; adjacent text nodes count as one, and there are no line breaks.  *)
(* As a value it is wire text, in which a chip stands as its token, and    *)
(* the refs and attachments of the chips.  Labels, icons and tones never   *)
(* reach the wire and are left out.                                        *)
(***************************************************************************)
EXTENDS Naturals, Sequences, FiniteSets, SequencesExt, FiniteSetsExt, Functions

CONSTANTS Null,
          Catalog,    \* menu nodes: [kind, path, id, name, insert]
          Trigger, MinQueryLength

IsText(s) == s \in Seq(Range(s))

ASSUME ComposerAssumption ==
  /\ Null \notin Catalog
  /\ \A n \in Catalog :
       /\ n.kind \in {"item", "group", "lazy"} /\ n.insert \in {"chip", "text", "action"}
       /\ IsText(n.path) /\ IsText(n.id) /\ n.id # << >> /\ IsText(n.name)
  /\ MinQueryLength \in Nat

IsSpace(c) == c = " "
IsBlank(text) == \A i \in DOMAIN text : IsSpace(text[i])
Occurs(part, text) == \E i \in 0..Len(text) : IsPrefix(part, SubSeq(text, i + 1, Len(text)))

(* indexOf: the first place at or behind from, or 0.                       *)
IndexOf(text, part, from) ==
  LET at == {i \in from..Len(text) : IsPrefix(part, SubSeq(text, i, Len(text)))}
  IN  IF at = {} THEN 0 ELSE Min(at)

(* A stable sort: every entry goes before the first with a higher key.     *)
PlaceFor(sorted, e, key) ==
  LET higher == {p \in DOMAIN sorted : key[sorted[p]] > key[e]}
  IN  IF higher = {} THEN Len(sorted) + 1 ELSE Min(higher)

SortedBy(s, key) ==
  LET sorted[i \in 0..Len(s)] ==
        IF i = 0 THEN << >> ELSE InsertAt(sorted[i - 1], PlaceFor(sorted[i - 1], s[i], key), s[i])
  IN  sorted[Len(s)]

-----------------------------------------------------------------------------
(* The editor.                                                             *)
Char(c) == [t |-> "char", c |-> c]
RefChip(r) == [t |-> "ref", ref |-> r]
FileChip(a) == [t |-> "file", file |-> [a EXCEPT !.data = Null]]
IsChip(n) == n.t # "char"

Wire(n) == CASE n.t = "char" -> <<n.c>>
             [] n.t = "ref"  -> n.ref.token
             [] n.t = "file" -> n.file.token

Text(dom) == FlattenSeq([i \in DOMAIN dom |-> Wire(dom[i])])
Offset(dom, p) == Len(Text(SubSeq(dom, 1, p)))

(* A caret beside a chip may be a place in the root and not in a text      *)
(* node; the walk meets text nodes and chips only, and such a caret reads  *)
(* as the end of the text.                                                 *)
Serialize(dom, caret) ==
  [text  |-> Text(dom),
   caret |-> IF caret.inText THEN Offset(dom, caret.at) ELSE Len(Text(dom)),
   refs  |-> FlattenSeq([i \in DOMAIN dom |-> IF dom[i].t = "ref" THEN <<dom[i].ref>> ELSE << >>]),
   files |-> FlattenSeq([i \in DOMAIN dom |-> IF dom[i].t = "file" THEN <<dom[i].file>> ELSE << >>]),
   pristine |-> FALSE]

(* The payload of a file is not on its chip: it comes from the last one in *)
(* the value that was there before with its id, and else with its token.   *)
WithToken(previous, file) == {j \in DOMAIN previous : previous[j].token = file.token}
WithId(previous, file) == {j \in DOMAIN previous : previous[j].id = file.id}
Restored(file, previous, those) ==
  IF those = {} THEN file ELSE [file EXCEPT !.data = previous[Max(those)].data]

(* Mutant: by token alone.                                                 *)
MergeByToken(read, previous) ==
  [i \in DOMAIN read.files |-> Restored(read.files[i], previous, WithToken(previous, read.files[i]))]

MergeComposerAttachments(read, previous) ==
  [i \in DOMAIN read.files |->
     LET file == read.files[i]
         same == WithId(previous, file)
     IN  Restored(file, previous, IF same # {} THEN same ELSE WithToken(previous, file))]

(* A pick that was inserted as text is kept while its text is still there. *)
TextOnly(refs, text) ==
  FlattenSeq([i \in DOMAIN refs |->
                IF ~refs[i].asChip /\ refs[i].token # << >> /\ Occurs(refs[i].token, text)
                THEN <<refs[i]>> ELSE << >>])

MergeComposerRefs(read, previous) ==
  LET kept == TextOnly(previous, read.text)
      all  == read.refs \o kept
  IN  IF kept = << >> THEN read.refs
      ELSE SortedBy(all, [r \in Range(all) |-> IndexOf(read.text, r.token, 1)])

(* Painting puts each chip over the next occurrence of its token, the      *)
(* tokens in the order of their first occurrences.                         *)
Chips(v) ==
  FlattenSeq([i \in DOMAIN v.refs |-> IF v.refs[i].asChip /\ v.refs[i].token # << >>
                                      THEN <<RefChip(v.refs[i])>> ELSE << >>])
  \o FlattenSeq([i \in DOMAIN v.files |-> IF v.files[i].token # << >>
                                          THEN <<FileChip(v.files[i])>> ELSE << >>])

FirstAt(v, chip) == IndexOf(v.text, Wire(chip), 1)

(* Mutant: the tokens in the order the chips were picked.                  *)
ChipsAsPicked(v) == Chips(v)

ChipsInOrder(v) ==
  LET chips == Chips(v)
  IN  SortedBy(chips, [chip \in Range(chips) |-> FirstAt(v, chip)])

Chars(text) == [i \in DOMAIN text |-> Char(text[i])]

Place(v, acc, chip) ==
  LET at == IndexOf(v.text, Wire(chip), acc.cursor)
  IN  IF at = 0 THEN acc
      ELSE [cursor |-> at + Len(Wire(chip)),
            dom |-> acc.dom \o Chars(SubSeq(v.text, acc.cursor, at - 1)) \o <<chip>>]

PlaceAll(v, chips) ==
  LET placed[i \in 0..Len(chips)] ==
        IF i = 0 THEN [cursor |-> 1, dom |-> << >>] ELSE Place(v, placed[i - 1], chips[i])
  IN  placed[Len(chips)]

PaintComposer(v) ==
  LET placed == PlaceAll(v, ChipsInOrder(v))
  IN  placed.dom \o Chars(SubSeq(v.text, placed.cursor, Len(v.text)))

(* The caret of the value, put back into the editor.                       *)
SetComposerCaret(dom, offset) ==
  LET fits == {p \in 0..Len(dom) : Offset(dom, p) >= offset /\ (p = 0 => dom = << >> \/ ~IsChip(dom[1]))}
      at == IF fits = {} THEN Len(dom) ELSE Min(fits)
  IN  [at |-> at, inText |-> at = 0 \/ ~IsChip(dom[at])]

(* Where a click puts the caret.                                           *)
CaretAt(dom, p) ==
  [at |-> p, inText |-> dom = << >> \/ (p > 0 /\ ~IsChip(dom[p])) \/ (p < Len(dom) /\ ~IsChip(dom[p + 1]))]

(* Removing a chip eats the blank that was put behind it, and a text node  *)
(* in front that holds nothing else; the caret counts nodes as they were.  *)
RunEnd(dom, i) == Max({j \in i..Len(dom) : \A k \in (i + 1)..j : ~IsChip(dom[k])})
RunStart(dom, i) == Min({j \in 1..i : \A k \in j..(i - 1) : ~IsChip(dom[k])})
Blank(dom, i, j) == \A k \in i..j : dom[k].c = " "

RemoveChip(dom, i) ==
  LET end   == RunEnd(dom, i)
      start == RunStart(dom, i)
      eaten == IF Blank(dom, i + 1, end) THEN end
               ELSE IF dom[i + 1].c = " " THEN i + 1 ELSE i
      left  == IF Blank(dom, start, i - 1) THEN start - 1 ELSE i - 1
      rest  == SubSeq(dom, 1, left) \o SubSeq(dom, eaten + 1, Len(dom))
      slid  == IF left = i - 1 \/ left = Len(rest) THEN left
               ELSE IF IsChip(rest[left + 1]) THEN left + 1
               ELSE RunEnd(rest, left + 1)
  IN  [dom |-> rest, caret |-> [at |-> slid, inText |-> rest = << >>]]

-----------------------------------------------------------------------------
(* Insertions into the value, at its caret.                                *)
Before(v) == SubSeq(v.text, 1, v.caret)
After(v) == SubSeq(v.text, v.caret + 1, Len(v.text))
SpaceAfterWord(s) == IF s # << >> /\ ~IsSpace(Last(s)) THEN <<" ">> ELSE << >>
SpaceBeforeWord(s) == IF s # << >> /\ ~IsSpace(Head(s)) THEN <<" ">> ELSE << >>

Insert(v, part) == [v EXCEPT !.text = Before(v) \o part \o After(v), !.caret = @ + Len(part), !.pristine = FALSE]

InsertAttachmentAtCaret(v, file) ==
  [Insert(v, SpaceAfterWord(Before(v)) \o file.token \o SpaceBeforeWord(After(v)))
     EXCEPT !.files = Append(@, file)]

InsertTrigger(v) ==
  Insert(v, (IF Before(v) # << >> /\ Last(Before(v)) = Trigger THEN << >> ELSE SpaceAfterWord(Before(v)))
            \o <<Trigger>>)

(* A pick: its token, or its label where the row inserts plain text.       *)
DefaultToken(path, id) == <<Trigger>> \o FlattenSeq([i \in DOMAIN path |-> <<path[i], ":">>]) \o id

RefOf(node, path) ==
  [path |-> path, id |-> node.id, asChip |-> node.insert = "chip",
   token |-> IF node.insert = "chip" THEN DefaultToken(path, node.id) ELSE node.name]

InsertCatalogItemAtCaret(v, node, path) ==
  LET ref == RefOf(node, path)
      trailing == IF After(v) # << >> /\ IsSpace(Head(After(v))) THEN << >> ELSE <<" ">>
  IN  [Insert(v, SpaceAfterWord(Before(v)) \o ref.token \o trailing) EXCEPT !.refs = Append(@, ref)]

(* The trigger the caret is behind: the latest one at a word's start with  *)
(* no blank between it and the caret.                                      *)
DetectTrigger(text, caret) ==
  LET end == IF caret < Len(text) THEN caret ELSE Len(text)
      starts == {i \in 1..end : /\ text[i] = Trigger
                                /\ i = 1 \/ IsSpace(text[i - 1])
                                /\ \A j \in i..end : ~IsSpace(text[j])}
  IN  IF starts = {} THEN Null
      ELSE LET start == Max(starts)
           IN  IF end - start < MinQueryLength THEN Null
               ELSE [menu |-> Trigger, start |-> start, end |-> end, query |-> SubSeq(text, start + 1, end)]

ApplyPickToText(v, match, insertion) ==
  LET after == SubSeq(v.text, match.end + 1, Len(v.text))
      space == IF after # << >> /\ IsSpace(Head(after)) THEN << >> ELSE <<" ">>
      inserted == insertion \o space
  IN  [v EXCEPT !.text = SubSeq(@, 1, match.start - 1) \o inserted \o after,
                !.caret = match.start - 1 + Len(inserted), !.pristine = FALSE]

-----------------------------------------------------------------------------
(* The catalog.  A group's children are the nodes at its path; those of a  *)
(* lazy group are not there to be searched.                                *)
PathOf(group) == Append(group.path, group.id[1])
Level(path) == {n \in Catalog : n.path = path}

WalkItems(group) ==
  {n \in Catalog : /\ n.kind = "item" /\ IsPrefix(PathOf(group), n.path)
                   /\ \A g \in Catalog : g.kind = "lazy" => ~IsPrefix(PathOf(g), n.path)}

Matches(n, query) == Occurs(query, n.name) \/ Occurs(query, n.id)

(* An empty query browses, any other searches the items below too, which   *)
(* are then shown without their groups.                                    *)
FilterNodes(nodes, query) ==
  IF query = << >> THEN nodes
  ELSE UNION {LET found == {n \in WalkItems(node) : Matches(n, query)}
              IN  IF node.kind = "group" /\ found # {} THEN found
                  ELSE IF Matches(node, query) THEN {node} ELSE {} : node \in nodes}

ListItems(query, path) == FilterNodes(Level(path), query)

(* The add menu offers items only, each with the groups it was found in.   *)
FlattenMenuItems(nodes) ==
  {[item |-> n, path |-> << >>] : n \in {m \in nodes : m.kind = "item"}} \cup
  UNION {{[item |-> n, path |-> SubSeq(n.path, Len(g.path) + 1, Len(n.path))] : n \in WalkItems(g)} :
           g \in {m \in nodes : m.kind = "group"}}
=============================================================================
