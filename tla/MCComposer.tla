----------------------------- MODULE MCComposer -----------------------------
(* A catalog with two items of which one's token begins the other's, a     *)
(* group with an item, a text item and an action.                          *)
EXTENDS Composer

Item(p, id, insert) == [kind |-> "item", path |-> p, id |-> id, name |-> id, insert |-> insert]

MCCatalog ==
  {Item(<< >>, <<"a">>, "chip"), Item(<< >>, <<"a", "b">>, "chip"), Item(<< >>, <<"t">>, "text"),
   Item(<< >>, <<"m">>, "action"), Item(<<"g">>, <<"b">>, "chip"),
   [kind |-> "group", path |-> << >>, id |-> <<"g">>, name |-> <<"g">>, insert |-> "chip"]}

MCNames == {<<"[f]">>}
MCQueries == {<<"b">>}
=============================================================================
