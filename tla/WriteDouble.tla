---------------------------- MODULE WriteDouble ----------------------------
(***************************************************************************)
(* How the writer formats a floating-point number: the C library writes    *)
(* it straight into the unused part of the buffer, which is made larger    *)
(* until the number fits; sign and padding are corrected afterwards. Only  *)
(* the used part of a buffer survives when it grows.                       *)
(***************************************************************************)
EXTENDS WriterFields

CONSTANTS
    Values,     \* numbers: records of negative, chars and finite
    Specs,      \* specifications
    Earlier,    \* texts that may be in the buffer to begin with
    Capacities, \* what the buffer may have room for to begin with
    Msc         \* TRUE: the C library of Windows, which does not say how
                \* much room it would have needed

VARIABLES
    cells,      \* the storage of the buffer, used or not
    size,       \* how much of it is used
    value, spec,
    offset,     \* where the C library writes
    pc,
    before      \* size and capacity of the buffer before the call

\* What may be in the buffer.
Glyphs ==
    {Unwritten, Blank, "-", "+", "NUL"}
      \union UNION {ToSet(text) : text \in Earlier}
      \union UNION {ToSet(v.chars) : v \in Values}
      \union {s.fill : s \in Specs}

\* A buffer has room for what is in it to begin with.
FloatAssumption ==
    /\ Earlier \subseteq Seq(Glyphs)
    /\ \A v \in Values :
          v.negative \in BOOLEAN /\ v.finite \in BOOLEAN /\ v.chars \in Seq(Glyphs)
    /\ \A s \in Specs :
          s.width \in Nat /\ s.fill \in Glyphs /\ s.align \in Alignments
    /\ Capacities \subseteq Nat
    /\ \A t \in Earlier, room \in Capacities : Len(t) <= room
    /\ Unwritten \in Glyphs /\ {Blank, "-", "+", "NUL"} \subseteq Glyphs
    /\ Msc \in BOOLEAN

\* Sign characters and blanks are nowhere but in the sign and the padding, and
\* a place kept for a sign is not left blank.
PlainCharacters ==
    /\ Blank \notin {"-", "+"}
    /\ \A v \in Values : \A i \in 1 .. Len(v.chars) :
          v.chars[i] \notin {"-", "+", Blank}
    /\ \A s \in Specs :
          /\ s.fill \notin {"-", "+"}
          /\ "SIGN" \in s.flags => "PLUS" \in s.flags

vars == <<cells, size, value, spec, offset, pc, before>>

capacity == Len(cells)

\* Storage for at least n characters, with what is used copied to it.
reserved(storage, n) ==
    LET half_as_much_again == Len(storage) + Len(storage) \div 2
    IN  IF n <= Len(storage) THEN storage
        ELSE SubSeq(storage, 1, size)
               \o Repeated(Unwritten, Max({n, half_as_much_again}) - size)

SignOf(v, s) == Sign(v.negative, s)

\* What the C library writes: it pads with blanks, and is not asked to
\* when the number is to be centred.
Printed(v, s) ==
    LET width == IF s.align = "CENTER" THEN 0
                 ELSE s.width - Len(SignOf(v, s))
        pad == Repeated(Blank, Max({0, width - Len(v.chars)}))
    IN  IF s.align = "LEFT" THEN v.chars \o pad ELSE pad \o v.chars

Init ==
    /\ \E text \in Earlier, room \in Capacities :
           /\ size = Len(text)
           /\ cells = text \o Repeated(Unwritten, room - Len(text))
    /\ value \in Values
    /\ spec \in Specs
    /\ offset = 0
    /\ pc = "begin"
    /\ before = [size |-> size, capacity |-> Len(cells)]

\* NaN and infinity are written like strings, the sign over the blank in
\* front of them.
NotFinite ==
    LET sign == SignOf(value, spec)
        chars == IF sign = <<>> THEN value.chars ELSE <<Blank>> \o value.chars
        used == SubSeq(cells, 1, size)
        field == Field(used, Len(chars), spec)
        text == Copied(Copied(field.buffer, field.at, chars), field.at, sign)
    IN  /\ pc = "begin"
        /\ ~value.finite
        /\ cells' = Copied(reserved(cells, Len(text)), 0, text)
        /\ size' = Len(text)
        /\ pc' = "done"
        /\ UNCHANGED <<value, spec, offset, before>>

\* Seeded defect: no room is made for the sign.
SignWithoutRoom ==
    LET sign == SignOf(value, spec)
    IN  /\ pc = "begin"
        /\ value.finite
        /\ cells' = cells
        /\ offset' = size + Len(sign)
        /\ pc' = "print"
        /\ UNCHANGED <<size, value, spec, before>>

Begin ==
    LET sign == SignOf(value, spec)
    IN  /\ pc = "begin"
        /\ value.finite
        /\ cells' = IF sign = <<>> THEN cells
                    ELSE reserved(cells, size + Max({spec.width, 1}))
        /\ offset' = size + Len(sign)
        /\ pc' = "print"
        /\ UNCHANGED <<size, value, spec, before>>

\* Seeded defect: a number that fits without the end of the string fits.
SnprintfToTheBrim ==
    LET printed == Printed(value, spec)
        storage == IF Msc /\ capacity = offset THEN reserved(cells, offset + 1)
                   ELSE cells
        room == Len(storage) - offset
        cut == SubSeq(printed, 1, Min({Len(printed), room - 1}))
        after == IF room = 0 THEN storage
                 ELSE Copied(storage, offset, Append(cut, "NUL"))
    IN  /\ pc = "print"
        /\ IF offset + Len(printed) <= Len(storage)
           THEN cells' = after /\ pc' = "sign"
           ELSE /\ cells' = reserved(after, offset + Len(printed) + 1)
                /\ UNCHANGED pc
        /\ UNCHANGED <<size, value, spec, offset, before>>

\* One round of the loop around snprintf. What does not fit is cut off, the
\* last character being the end of the string.
\* Seeded defect: the buffer is not made larger.
SnprintfNoRoom ==
    LET printed == Printed(value, spec)
        room == Len(cells) - offset
        cut == SubSeq(printed, 1, Min({Len(printed), room - 1}))
        after == IF room = 0 THEN cells
                 ELSE Copied(cells, offset, Append(cut, "NUL"))
    IN  /\ pc = "print"
        /\ cells' = after
        /\ IF offset + Len(printed) < Len(cells) THEN pc' = "sign"
                                                ELSE UNCHANGED pc
        /\ UNCHANGED <<size, value, spec, offset, before>>

Snprintf ==
    LET printed == Printed(value, spec)
        storage == IF Msc /\ capacity = offset THEN reserved(cells, offset + 1)
                   ELSE cells
        room == Len(storage) - offset
        cut == SubSeq(printed, 1, Min({Len(printed), room - 1}))
        after == IF room = 0 THEN storage
                 ELSE Copied(storage, offset, Append(cut, "NUL"))
    IN  /\ pc = "print"
        /\ CASE offset + Len(printed) < Len(storage) ->
                  cells' = after /\ pc' = "sign"
             [] offset + Len(printed) >= Len(storage) /\ ~Msc ->
                  /\ cells' = reserved(after, offset + Len(printed) + 1)
                  /\ UNCHANGED pc
             [] OTHER ->
                  /\ cells' = reserved(after, Len(storage) + 1)
                  /\ UNCHANGED pc
        /\ UNCHANGED <<size, value, spec, offset, before>>

\* The number of characters, sign included.
Written(v, s) == Len(Printed(v, s)) + Len(SignOf(v, s))

\* The storage with sign and padding corrected: blanks before the number
\* become fill characters, and the sign goes before them or between them
\* and the number.
\* Seeded defect: the sign stays in front of the padding.
SignInFront(storage) ==
    LET sign == SignOf(value, spec)
        blanks == IF spec.align = "LEFT" THEN 0
                  ELSE Len(Printed(value, spec)) - Len(value.chars)
    IN  Copied(IF spec.fill = Blank THEN storage
               ELSE Filled(storage, offset, blanks, spec.fill),
               offset - Len(sign), sign)

\* Seeded defect: the sign is written one place too early.
SignOverText(storage) ==
    LET sign == SignOf(value, spec)
    IN  Copied(storage, offset - Len(sign) - 1, sign)

\* Seeded defect: only the place of the sign is filled.
BlanksStay(storage) ==
    Copied(storage, offset - Len(SignOf(value, spec)), SignOf(value, spec))

Corrected(storage) ==
    LET sign == SignOf(value, spec)
        blanks == IF spec.align = "LEFT" THEN 0
                  ELSE Len(Printed(value, spec)) - Len(value.chars)
        filled == IF spec.fill = Blank THEN storage
                  ELSE Filled(storage, offset, blanks, spec.fill)
    IN  IF spec.align \notin {"RIGHT", "DEFAULT"} \/ blanks = 0
        THEN Copied(filled, offset - Len(sign), sign)
        ELSE Copied(Copied(filled, offset - Len(sign),
                           Repeated(spec.fill, Len(sign))),
                    offset + blanks - Len(sign), sign)

\* A number that is to be centred is moved to the middle of an area the
\* buffer grows by.
Centred ==
    LET n == Written(value, spec)
        storage == reserved(Copied(cells, offset - Len(SignOf(value, spec)),
                                   SignOf(value, spec)), size + spec.width)
        number == SubSeq(storage, size + 1, size + n)
        area == fill_padding(storage, size, spec.width, n, spec.fill)
    IN  /\ pc = "sign"
        /\ spec.align = "CENTER" /\ spec.width > n
        /\ cells' = Copied(area.buffer, area.at, number)
        /\ size' = size + spec.width
        /\ pc' = "done"
        /\ UNCHANGED <<value, spec, offset, before>>

InPlace ==
    LET n == Written(value, spec)
    IN  /\ pc = "sign"
        /\ ~(spec.align = "CENTER" /\ spec.width > n)
        /\ cells' = reserved(Corrected(cells), size + n)
        /\ size' = size + n
        /\ pc' = "done"
        /\ UNCHANGED <<value, spec, offset, before>>

Next == NotFinite \/ Begin \/ Snprintf \/ Centred \/ InPlace

Spec == Init /\ [][Next]_vars

-----------------------------------------------------------------------------
Text == SubSeq(cells, before.size + 1, size)

\* A number that is centred without a sign in a buffer that has no room for
\* its whole field may be lost.
RoomForField ==
    \/ spec.align # "CENTER" \/ ~value.finite \/ SignOf(value, spec) # <<>>
    \/ before.size + spec.width <= before.capacity

TypeOK ==
    /\ size \in 0..capacity
    /\ offset \in 0..capacity
    /\ pc \in {"begin", "print", "sign", "done"}

\* The text before the number is what it was.
EarlierTextStays == SubSeq(cells, 1, before.size) \in Earlier

\* Without its padding, what was written is the sign and the number,
\* however often the buffer had to grow on the way.
NumberArrives ==
    pc = "done" /\ RoomForField =>
        LET padding == {Blank, spec.fill}
            shown == SelectSeq(Text, LAMBDA c : c \notin padding)
            sign == SelectSeq(SignOf(value, spec), LAMBDA c : c # Blank)
        IN  shown = sign \o value.chars

\* A field has its width, or that of the number, and only a number that is
\* aligned on its own sign has padding in between.
FieldHasItsWidth ==
    pc = "done" =>
        LET n == Len(SignOf(value, spec)) + Len(value.chars)
            first == IF SignOf(value, spec) = <<>> THEN 1 ELSE 2
            sign_at == {i \in DOMAIN Text : Text[i] \in {"-", "+"}}
        IN  /\ Len(Text) = Max({n, spec.width})
            /\ spec.align = "NUMERIC" => sign_at \subseteq {1}
            /\ value.finite /\ spec.align \in {"RIGHT", "DEFAULT"} =>
                   sign_at \subseteq {Len(Text) - Len(value.chars)}

\* Each round of the loop that is not the last leaves more room than there
\* was: the number fits in the end.
RoundsMakeRoom ==
    [][pc = "print" /\ pc' = "print" => Len(cells') > Len(cells)]_vars

\* The padding consists of the fill character, unless the C library puts
\* blanks behind the number.
PaddedWithFill ==
    pc = "done" /\ RoomForField /\ spec.fill # Blank
      /\ ~(spec.align = "LEFT" /\ value.finite) =>
        \A i \in DOMAIN Text : Text[i] # Blank
=============================================================================
