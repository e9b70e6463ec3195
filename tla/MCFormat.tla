------------------------------ MODULE MCFormat ------------------------------
(***************************************************************************)
(* Format strings in two ways: every string of a few characters, right or  *)
(* wrong; and strings put together from pieces - literal characters and    *)
(* fields - of which it is known what they mean.                           *)
(***************************************************************************)
EXTENDS Integers, Sequences, SequencesExt

CONSTANTS max_int, MaxLength

VARIABLES
    f, start, text, done,
    pieces      \* what the format string was put together from

Signed(n) == [type |-> "INT", value |-> n, name |-> <<>>]
Unsigned(n) == [type |-> "UINT", value |-> n, name |-> <<>>]
Str == [type |-> "STRING", value |-> "abc", name |-> <<>>]
Char == [type |-> "CHAR", value |-> 97, name |-> <<>>]
Double == [type |-> "DOUBLE", value |-> "1.5", name |-> <<>>]
Named(arg) == [arg EXCEPT !.name = <<"a">>]

Names == {"a"}

Alphabet == {"{", "}", ":", "0", "1", "a", ".", "=", "+"}
MCFormats == UNION {[1..n -> Alphabet] : n \in 0..MaxLength}
MCArguments == {<<Signed(4), Str>>, <<Str>>, <<Char, Named(Unsigned(2))>>}

INSTANCE FormatString WITH
    Formats <- MCFormats, Arguments <- MCArguments, NameChars <- Names

AnyInit == Init /\ pieces = <<>>

-----------------------------------------------------------------------------
\* A literal piece is a character; a field piece says for each part of a
\* field how it is written (as) and what it means.
Lit(c) == [lit |-> c]

Field1(id, align, sign, hash, zero, width, precision, type) ==
    [id |-> id, align |-> align, sign |-> sign, hash |-> hash,
     zero |-> zero, width |-> width, precision |-> precision, type |-> type]

\* The part of a field that says nothing.
None == [as |-> <<>>, means |-> {}, next |-> FALSE]

Aligns == {None, [as |-> <<"<">>, means |-> <<" ", "LEFT">>, next |-> FALSE],
           [as |-> <<"=", "^">>, means |-> <<"=", "CENTER">>, next |-> FALSE],
           [as |-> <<"*", "=">>, means |-> <<"*", "NUMERIC">>, next |-> FALSE]}
Signs == {None, [as |-> <<"+">>, means |-> {"SIGN", "PLUS"}, next |-> FALSE],
          [as |-> <<" ">>, means |-> {"SIGN"}, next |-> FALSE]}
\* A width is a number, or the argument that gives it.
Widths == {None, [as |-> <<"1", "2">>, means |-> 12, next |-> FALSE],
           [as |-> <<"{", "}">>, means |-> {}, next |-> TRUE]}
Precisions == {None, [as |-> <<".", "3">>, means |-> 3, next |-> FALSE],
               [as |-> <<".", "{", "}">>, means |-> {}, next |-> TRUE]}
Types == {None, [as |-> <<"g">>, means |-> "g", next |-> FALSE]}

\* Fields for a floating-point number: everything may be asked of it.
DoubleFields ==
    {Field1(<<>>, align, sign, hash, zero, width, precision, type) :
       align \in Aligns, sign \in Signs, hash \in BOOLEAN,
       zero \in BOOLEAN, width \in Widths, precision \in Precisions,
       type \in Types}

CentredInEquals ==
    [as |-> <<"=", "^">>, means |-> <<"=", "CENTER">>, next |-> FALSE]

SimpleFields ==
    {Field1(<<>>, align, None, FALSE, FALSE, width, None, None) :
       align \in {None, CentredInEquals},
       width \in Widths}

PieceLists ==
    {<<Lit("x"), field, Lit("}")>> : field \in DoubleFields}
      \union {<<Lit("{"), one, other, Lit("=")>> :
                one \in SimpleFields, other \in SimpleFields}

Asked(field) ==
    LET says == field.align.as \o field.sign.as
                  \o (IF field.hash THEN <<"#">> ELSE <<>>)
                  \o (IF field.zero THEN <<"0">> ELSE <<>>)
                  \o field.width.as \o field.precision.as \o field.type.as
    IN  IF says = <<>> THEN <<>> ELSE <<":">> \o says

Rendered(piece) ==
    IF "lit" \in DOMAIN piece
    THEN IF piece.lit \in {"{", "}"} THEN <<piece.lit, piece.lit>>
                                     ELSE <<piece.lit>>
    ELSE <<"{">> \o piece.id \o Asked(piece) \o <<"}">>

FormatOf(list) == FlattenSeq([i \in DOMAIN list |-> Rendered(list[i])])

\* How many arguments a piece takes, itself and those that give numbers.
Takes(piece) ==
    IF "lit" \in DOMAIN piece THEN 0
    ELSE 1 + (IF piece.width.next THEN 1 ELSE 0)
           + (IF piece.precision.next THEN 1 ELSE 0)

Before(list, i) ==
    FoldLeft(LAMBDA n, piece : n + Takes(piece), 0, SubSeq(list, 1, i - 1))

SpecOf(field, args, first) ==
    LET width == CASE field.width = None -> 0
                   [] field.width.next -> args[first + 1].value
                   [] OTHER -> field.width.means
        at == IF field.width.next THEN first + 2 ELSE first + 1
        precision == CASE field.precision = None -> -1
                       [] field.precision.next -> args[at].value
                       [] OTHER -> field.precision.means
        align == IF field.align = None THEN <<" ", "DEFAULT">>
                                       ELSE field.align.means
    IN  [width |-> width, precision |-> precision,
         fill |-> IF field.zero THEN "0" ELSE align[1],
         align |-> IF field.zero THEN "NUMERIC" ELSE align[2],
         flags |-> field.sign.means
                     \union (IF field.hash THEN {"HASH"} ELSE {}),
         type |-> IF field.type = None THEN "default" ELSE "g"]

Meant(list, args) ==
    [i \in DOMAIN list |->
       LET first == Before(list, i) + 1
       IN  IF "lit" \in DOMAIN list[i] THEN [char |-> list[i].lit]
           ELSE [arg |-> args[first], spec |-> SpecOf(list[i], args, first)]]

DoubleArguments == <<Double, Signed(7), Signed(4)>>
IntArguments == <<Signed(1), Signed(3), Signed(2), Signed(5)>>

PiecesInit ==
    \E list \in PieceLists :
        /\ pieces = list
        /\ f = Formatter(FormatOf(list),
                         IF Len(list) = 3 THEN DoubleArguments
                                          ELSE IntArguments)
        /\ start = 1
        /\ text = <<>>
        /\ done = FALSE

\* A format string put together from pieces means what the pieces mean, and
\* is never refused.
MeansItsPieces ==
    pieces # <<>> =>
        /\ Ok(f)
        /\ done => text = Meant(pieces, f.args)
=============================================================================
