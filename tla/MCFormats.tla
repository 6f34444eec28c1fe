----------------------------- MODULE MCFormats ------------------------------
(***************************************************************************)
(* Receipts and numbers over all short texts: columns of two to five       *)
(* characters, ints of nine bits and durations of ten, so that texts are   *)
(* cut at every place and numbers of three and four digits overflow.       *)
(***************************************************************************)
EXTENDS EscposLayout, EnvNumbers

Texts(chars, n) == UNION {[1 .. k -> chars] : k \in 0 .. n}

Item(qty, name, price, extras) == [qty |-> qty, name |-> name, price |-> price, extras |-> extras]
Order(items, tenant, footer)   == [items |-> items, tenant |-> tenant, footer |-> footer, b64 |-> "none"]

\* A price is digits, a blank and the euro sign.
Prices == {Repeat("a", n) \o <<" ", "e">> : n \in 1 .. 4}

\* Every name and price; every tenant; two items, of which every cell is cut.
Rows    == {Order(<<Item(<<"a", "a">>, name, price, 0)>>, <<>>, FALSE) :
              name \in Texts({"a", "u", "e", "x", " "}, 3), price \in Prices}
Titles  == {Order(<<>>, tenant, TRUE) : tenant \in Texts({"a", "e", "x"}, 4)}
TwoRows == Order(<<Item(<<"a", "a", "a", "a">>, <<"e", "e">>, <<"a", "a", " ", "e">>, 1),
                   Item(<<"a", "a">>, <<"u", "u", "u">>, <<"a", " ", "e">>, 0)>>, <<"u">>, TRUE)
Carrying(b) == [Order(<<>>, <<>>, FALSE) EXCEPT !.b64 = b]

AllMessages ==
  [kind : {"order"}, receipt : Rows \cup Titles]
    \cup [kind : {"test", "service_call", "order", "kitchen", "pos_receipt", "logo_provision", "unknown"},
          receipt : {NoReceipt, TwoRows, Carrying("broken"), Carrying("bytes")}]

\* Numbers of up to four digits.
AllRaws == Texts({Other, 0, 1, 5, 9}, 4)

FormatsInit == Init /\ env \in Raws /\ (env # <<>> => mode = Fresh)
FormatsNext == env = <<>> /\ Next /\ UNCHANGED env
FormatsSpec == FormatsInit /\ [][FormatsNext]_<<layoutVars, env>>
=============================================================================
