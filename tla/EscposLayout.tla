---------------------------- MODULE EscposLayout ----------------------------
(***************************************************************************)
(* Receipts as Render of internal/escpos builds them, and a printer that   *)
(* prints them one after the other.  Two things can go wrong that a look   *)
(* at one test receipt does not show:                                      *)
(*                                                                         *)
(*   - the modes of a printer (bold, size, alignment, code page) outlive a *)
(*     document: what a document that was cut off, or one of another       *)
(*     origin, has switched on is still on for the next one;               *)
(*   - cell cuts a text by bytes, pads it by runes, and the printer counts *)
(*     columns, which differ as soon as a character takes several bytes.   *)
(*                                                                         *)
(* A text is a sequence of characters, and a character is one of:          *)
(*   "a"  one byte                "u"  two bytes, in code page 858 (ü)     *)
(*   " "  white space             "e"  three bytes, in code page 858 (€)   *)
(*   "?"  the question mark       "x"  two bytes, not in code page 858     *)
(*   "!"  one byte of a character that was cut in the middle.              *)
(* A printer drops a command or a line that is cut off with its connection.*)
(***************************************************************************)
EXTENDS Integers, Sequences, FiniteSets, SequencesExt

CONSTANTS
  AnzWidth, ProduktWidth, ZusWidth, PreisWidth,   \* widths of the columns
  Messages,    \* the kinds and receipts of the print_job messages
  MaxDocs      \* bound: documents sent to the printer

Chars == {"a", "u", "e", "x", " ", "?", "!"}
Text  == Seq(Chars)

Kinds == {"test", "service_call", "order", "kitchen", "pos_receipt", "logo_provision", "unknown"}

\* A receipt of a message, and the text in base64 it may carry.
Receipts ==
  [items : Seq([qty : Text, name : Text, price : Text, extras : Nat]),
   tenant : Text, footer : BOOLEAN, b64 : {"none", "broken", "bytes"}]
NoReceipt == [b64 |-> "no receipt"]

ASSUME LayoutAssumption ==
  /\ {AnzWidth, ProduktWidth, ZusWidth, PreisWidth} \subseteq Nat \ {0}
  /\ \A m \in Messages : m.kind \in Kinds /\ m.receipt \in Receipts \cup {NoReceipt}
  /\ MaxDocs \in Nat

\* receiptWidth: the four columns and the blanks between them.
ReceiptWidth == AnzWidth + 1 + ProduktWidth + 1 + ZusWidth + 1 + PreisWidth

-----------------------------------------------------------------------------
(* Texts.                                                                  *)

BytesOf(c) == CASE c \in {"u", "x"} -> 2 [] c = "e" -> 3 [] OTHER -> 1

\* The bytes of the first characters, and of all.
Sizes(s) ==
  LET size[k \in 0 .. Len(s)] == IF k = 0 THEN 0 ELSE size[k - 1] + BytesOf(s[k])
  IN  size
Size(s) == Sizes(s)[Len(s)]

Repeat(c, n) == [i \in 1 .. n |-> c]

\* s[:n]: whole characters as far as they go, and single bytes of the next.
Cut(s, n) ==
  IF Size(s) <= n THEN s
  ELSE LET whole == CHOOSE k \in 0 .. Len(s) - 1 : Sizes(s)[k] <= n /\ Sizes(s)[k + 1] > n
       IN  SubSeq(s, 1, whole) \o Repeat("!", n - Sizes(s)[whole])

\* strings.Join(strings.Fields(s), " ")
JoinFields(s) ==
  LET fields[k \in 0 .. Len(s)] ==
        IF k = 0 THEN <<>>
        ELSE IF s[k] = " " /\ (fields[k - 1] = <<>> \/ Last(fields[k - 1]) = " ") THEN fields[k - 1]
        ELSE Append(fields[k - 1], s[k])
      joined == fields[Len(s)]
  IN  IF joined # <<>> /\ Last(joined) = " " THEN Front(joined) ELSE joined

\* Faulty: padded by the bytes of the text.
PadByBytes(s, width) == Repeat(" ", width - Size(s))

\* Sprintf pads by runes, and takes each byte of a broken character for one.
Pad(s, width) == Repeat(" ", width - Len(s))

Cell(s, width, leftAlign) ==
  LET t == Cut(JoinFields(s), width)
  IN  IF leftAlign THEN t \o Pad(t, width) ELSE Pad(t, width) \o t

\* strings.ToValidUTF8(s, "?"): each run of broken bytes becomes one "?".
ToValid(s) ==
  LET valid[k \in 0 .. Len(s)] ==
        IF k = 0 THEN <<>>
        ELSE IF s[k] # "!" THEN Append(valid[k - 1], s[k])
        ELSE IF k > 1 /\ s[k - 1] = "!" THEN valid[k - 1]
        ELSE Append(valid[k - 1], "?")
  IN  valid[Len(s)]

\* encode858: a text with a character that code page 858 lacks comes out empty.
Encode858(s) == IF Contains(s, "x") THEN <<>> ELSE ToValid(s)

Columns(s) == Len(Encode858(s))

-----------------------------------------------------------------------------
(* Documents: commands that set modes, and lines by their role.            *)

Command(modes) == <<[cmd |-> modes]>>
Lines(role, n) == Repeat([role |-> role, text |-> <<>>], n)
Line(role)     == Lines(role, 1)

BoldOn  == Command([bold |-> 1])
BoldOff == Command([bold |-> 0])
Center  == Command([align |-> "center"])
Left    == Command([align |-> "left"])
Font(s) == Command([size |-> s])

\* What ESC @ leaves, and so a printer that was switched on.
Fresh == [bold |-> 0, align |-> "left", size |-> "normal", page |-> 437]
Modes == [bold : {0, 1}, align : {"left", "center"},
          size : {"normal", "high", "wide", "double"}, page : {437, 858}]

\* The modes after a command: it changes the ones it names.
After(command, modes) ==
  [f \in DOMAIN modes |-> IF f \in DOMAIN command THEN command[f] ELSE modes[f]]

\* Faulty: a document that begins without ESC @.
BeginWithoutInit == Command([page |-> 858])

Begin == Command(Fresh) \o Command([page |-> 858])

TestPrint ==
  Begin \o Center \o BoldOn \o Line("heading") \o BoldOff \o Line("centered") \o Left
    \o Line("plain")

ServiceCall ==
  Begin \o Center \o Line("centered") \o Font("double") \o Line("title") \o Font("normal")
    \o Line("centered") \o Left \o Line("plain") \o BoldOn \o Line("bold") \o BoldOff
    \o Line("plain")

\* One row per item, and a line per extra.
ItemBlock(item) ==
  Line("plain")
    \o <<[role |-> "row",
          text |-> Cell(item.qty, AnzWidth, FALSE) \o <<" ">> \o Cell(item.name, ProduktWidth, TRUE)
                     \o <<" ">> \o Cell(<<>>, ZusWidth, TRUE) \o <<" ">>
                     \o Cell(item.price, PreisWidth, FALSE)]>>
    \o Lines("plain", item.extras)

OrderLike(r) ==
  Begin \o Center \o Line("centered") \o Font("double")
    \o <<[role |-> "title", text |-> Cut(r.tenant, ReceiptWidth \div 2)]>>
    \o Font("normal") \o Line("centered") \o Left
    \o Line("plain") \o Font("high") \o Line("table") \o Font("normal")
    \o Line("plain") \o BoldOn \o Line("bold") \o BoldOff \o Line("plain")
    \o FlattenSeq([i \in 1 .. Len(r.items) |-> ItemBlock(r.items[i])])
    \o Font("wide") \o Line("total") \o Font("normal")
    \o (IF r.footer THEN Line("plain") ELSE <<>>)

\* Bytes of another program, an image or a whole receipt, may set any mode.
Foreign == <<[foreign |-> TRUE]>>

\* Render returns an error, and the job fails.
Fails(kind, r) ==
  \/ kind \in {"order", "kitchen", "pos_receipt"} /\ r = NoReceipt
  \/ kind \in {"pos_receipt", "logo_provision"} /\ r.b64 = "broken"
  \/ kind = "logo_provision" /\ r.b64 # "bytes"
  \/ kind = "unknown"

Render(kind, r) ==
  CASE kind = "test" -> TestPrint
    [] kind = "service_call" -> ServiceCall
    [] kind \in {"pos_receipt", "logo_provision"} /\ r.b64 = "bytes" -> Foreign
    [] OTHER -> OrderLike(r)

-----------------------------------------------------------------------------
(* The printer.                                                            *)

VARIABLES
  mode,    \* its modes
  rest,    \* what it has not printed yet of the document under way
  docs     \* counter for the bound

layoutVars == <<mode, rest, docs>>

Init == mode \in Modes /\ rest = <<>> /\ docs = 0

Receive(m) ==
  /\ rest = <<>> /\ docs < MaxDocs
  /\ ~Fails(m.kind, m.receipt)
  /\ rest' = Render(m.kind, m.receipt)
  /\ docs' = docs + 1
  /\ UNCHANGED mode

Obey ==
  /\ rest # <<>> /\ "cmd" \in DOMAIN Head(rest)
  /\ mode' = After(Head(rest).cmd, mode)
  /\ rest' = Tail(rest)
  /\ UNCHANGED docs

PrintLine ==
  /\ rest # <<>> /\ "role" \in DOMAIN Head(rest)
  /\ rest' = Tail(rest)
  /\ UNCHANGED <<mode, docs>>

ObeyForeign ==
  /\ rest = Foreign
  /\ mode' \in Modes
  /\ rest' = <<>>
  /\ UNCHANGED docs

\* A write of SendBytes fails, and the rest of the document never comes.
BreakOff ==
  /\ rest # <<>>
  /\ rest' = <<>>
  /\ UNCHANGED <<mode, docs>>

Next ==
  \/ \E m \in Messages : Receive(m)
  \/ Obey \/ PrintLine \/ ObeyForeign \/ BreakOff

Spec == Init /\ [][Next]_layoutVars

-----------------------------------------------------------------------------
(* What the layout promises.                                               *)

\* How the lines of a receipt are meant to look.
Looks(role) ==
  [page |-> 858,
   bold  |-> IF role \in {"heading", "bold"} THEN 1 ELSE 0,
   align |-> IF role \in {"heading", "centered", "title"} THEN "center" ELSE "left",
   size  |-> CASE role = "title" -> "double" [] role = "table" -> "high"
               [] role = "total" -> "wide" [] OTHER -> "normal"]

Printing(roles) == rest # <<>> /\ "role" \in DOMAIN Head(rest) /\ Head(rest).role \in roles

\* Every line is printed in its own modes, whatever the printer went through
\* before: documents cut off at any place, or bytes of another program.
PrintedAsLaidOut ==
  rest # <<>> /\ "role" \in DOMAIN Head(rest) => mode = Looks(Head(rest).role)

\* The columns stand under each other: a row is as wide as the receipt, but
\* for a column lost to each cell that was cut after two bytes of three, and
\* unless a character that the code page lacks has blanked the whole row.  A
\* title in double width fits on the paper.
ColumnsRight ==
  LET text == Head(rest).text
      torn == {i \in 1 .. Len(text) - 1 : text[i] = "!" /\ text[i + 1] = "!"}
  IN  /\ Printing({"row"}) =>
           Columns(text) = IF Contains(text, "x") THEN 0 ELSE ReceiptWidth - Cardinality(torn)
      /\ Printing({"title"}) => 2 * Columns(text) <= ReceiptWidth
=============================================================================
