---------------------------- MODULE BasicWriter ----------------------------
(***************************************************************************)
(* The writer that texts are formatted with: each call adds a number, a    *)
(* string or a character in a field of a given width to the end of its     *)
(* buffer. The library converts an integer to decimal digits in three more *)
(* places, each written out by hand for speed.                             *)
(***************************************************************************)
EXTENDS WriterFields

CONSTANTS
    IntWrites,      \* the integers written: records of value and spec
    StringWrites,   \* the strings
    CharWrites,     \* the characters
    Earlier,        \* texts that may be in the buffer to begin with
    MaxCalls        \* bound: the number of calls

VARIABLES
    buffer,
    last    \* the last call: what it wrote, how, and where it began

vars == <<buffer, last>>

Default == FormatSpec(0, "default", Blank)

Call(op, value, spec) ==
    last' = [op |-> op, value |-> value, spec |-> spec, from |-> Len(buffer),
             calls |-> last.calls + 1]

WriteInt ==
    \E w \in IntWrites :
        /\ buffer' = write_int(buffer, w.value, w.spec)
        /\ Call("int", w.value, w.spec)

\* Seeded defect: the area is grown for the digits only.
WriteDecimalOverText(value) ==
    LET n == AbsValue(value)
        sign == IF value < 0 THEN <<"-">> ELSE <<>>
        p == Len(buffer) + count_digits[n]
        grown == grow_buffer(buffer, count_digits[n])
    IN  /\ buffer' = Copied(Copied(grown, Len(buffer), format_decimal(<<>>)[n, 0]),
                            Len(buffer) - Len(sign), sign)
        /\ Call("decimal", value, Default)

write_decimal(value) ==
    LET n == AbsValue(value)
        sign == IF value < 0 THEN <<"-">> ELSE <<>>
        p == Len(buffer) + Len(sign)
        grown == grow_buffer(buffer, Len(sign) + count_digits[n])
    IN  /\ buffer' = Copied(Copied(grown, p, format_decimal(<<>>)[n, 0]),
                            Len(buffer), sign)
        /\ Call("decimal", value, Default)

WriteDecimal == \E w \in IntWrites : write_decimal(w.value)

WriteString ==
    \E w \in StringWrites :
        /\ buffer' = write_str(buffer, w.value, w.spec)
        /\ Call("string", w.value, w.spec)

WriteChar ==
    \E w \in CharWrites :
        /\ buffer' = visit_char(buffer, w.value, w.spec)
        /\ Call("char", <<w.value>>, w.spec)

\* FormatInt: the digits from the end of an array of its own, the sign in
\* front of them.
FormatInt(value) ==
    (IF value < 0 THEN <<"-">> ELSE <<>>)
        \o format_decimal(<<>>)[AbsValue(value), 0]

BUFFER_SIZE == (count_digits[2^W - 1] - 1) + 3

\* format_decimal for a pointer into an array: short numbers are handled
\* apart, of others the digits are counted first.
FormatDecimalAt(array, p, value) ==
    LET n == AbsValue(value)
        sign == IF value < 0 THEN <<"-">> ELSE <<>>
        digits == CASE n < 10 -> <<Lower[n + 1]>>
                    [] n \in 10..99 ->
                         <<Lower[n \div 10 + 1], Lower[(n % 10) + 1]>>
                    [] n >= 100 -> format_decimal(<<>>)[n, 0]
        size == IF n < 100 THEN Len(digits) ELSE count_digits[n]
    IN  [array |-> Copied(Copied(array, p, sign),
                          p + Len(sign) + size - Len(digits), digits),
         end |-> p + Len(sign) + size]

Init ==
    /\ buffer \in Earlier
    /\ last = [op |-> "none", value |-> <<>>, spec |-> Default,
               from |-> Len(buffer), calls |-> 0]

Next ==
    /\ last.calls < MaxCalls
    /\ WriteInt \/ WriteDecimal \/ WriteString \/ WriteChar

Spec == Init /\ [][Next]_vars

-----------------------------------------------------------------------------
Written == SubSeq(buffer, last.from + 1, Len(buffer))

IsInt == last.op \in {"int", "decimal"}

\* No character is left as memory happened to hold it: padding, sign,
\* prefix, zeros and digits cover the area a call has grown the buffer by.
EveryPlaceIsWritten == \A i \in DOMAIN buffer : buffer[i] # Unwritten

\* A call does not touch what earlier calls have written.
EarlierTextStays == [][IsPrefix(buffer, buffer')]_vars

DigitOf(c) ==
    IF c \in {Lower[i] : i \in 1..16}
    THEN (CHOOSE i \in 1..16 : Lower[i] = c) - 1
    ELSE (CHOOSE i \in 1..16 : Upper[i] = c) - 1

BaseOf(type) ==
    CASE type \in {"x", "X"} -> 16 [] type \in {"b", "B"} -> 2
      [] type = "o" -> 8 [] OTHER -> 10

\* What a reader takes the field of a number for: padding and separators
\* are skipped, then a sign and the prefix of a base.
NumberRead(text, spec) ==
    LET Padding(c) ==
          \/ c = spec.fill /\ spec.fill # "0"
          \/ c = Blank
          \/ spec.type = "n" /\ c \in {thousands_sep[i] : i \in DOMAIN thousands_sep}
        bare == SelectSeq(text, LAMBDA c : ~Padding(c))
        signed == bare # <<>> /\ Head(bare) \in {"-", "+"}
        number == IF signed THEN Tail(bare) ELSE bare
        digits == SubSeq(number, Len(BasePrefix(spec)) + 1, Len(number))
        n == FoldLeft(LAMBDA v, c : v * BaseOf(spec.type) + DigitOf(c), 0,
                      IF spec.type = "o" THEN number ELSE digits)
    IN  IF signed /\ Head(bare) = "-" THEN -n ELSE n

\* Every number reads back as the number that was written, the smallest
\* number included, in any base, with any prefix, precision and separators.
\* (Zeros that pad a number change it on its right, and on its left they
\* hide its sign, unless they are put between the sign and the digits: with
\* a precision they never are.)
NumberReadsBack ==
    IsInt /\ (\/ last.spec.fill # "0"
              \/ last.spec.align = "NUMERIC" /\ last.spec.precision = -1) =>
        NumberRead(Written, last.spec) = last.value

\* A field is as wide as asked, and wider only when its content needs it:
\* then there is no padding in it.
FieldHasItsWidth ==
    last.op # "none" =>
        /\ Len(Written) >= last.spec.width
        /\ Len(Written) > last.spec.width /\ last.spec.fill # "0"
             /\ last.spec.flags # {"SIGN"} =>
               \A i \in DOMAIN Written : Written[i] # last.spec.fill

\* What is centred has as much padding on its left as on its right, or one
\* character less.
CentredIsCentred ==
    last.op # "none" /\ last.spec.align = "CENTER" /\ last.spec.fill = "*" =>
        LET shown == {i \in DOMAIN Written : Written[i] # "*"}
            right == {i \in DOMAIN Written : \A j \in shown : i > j}
            left == {i \in DOMAIN Written : \A j \in shown : i < j}
        IN  shown # {} =>
              Cardinality(right) - Cardinality(left) \in {0, 1}

\* Digits are grouped by three, from the right: a separator has three, six
\* or nine digits after it, and no four digits stand without one. (Zeros
\* that a precision adds are not grouped.)
GroupsOfThree ==
    IsInt /\ last.spec.type = "n" /\ thousands_sep # <<>>
          /\ last.spec.fill # "0" =>
        LET Decimal(i) == Written[i] \in {Lower[d] : d \in 1..10}
        IN  /\ \A i \in DOMAIN Written :
                  Written[i] = Head(thousands_sep) =>
                    /\ i > 1 /\ Decimal(i - 1)
                    /\ Cardinality({j \in i..Len(Written) : Decimal(j)})
                         % 3 = 0
            /\ last.spec.precision = -1 =>
                  \A i \in 1..(Len(Written) - 3) :
                      \E j \in i..(i + 3) : ~Decimal(j)

\* The ways to write a decimal number agree: on its text, on the number of
\* its digits, and each fits the array it is given.
DecimalsAgree ==
    IsInt =>
        LET n == AbsValue(last.value)
            text == write_int(<<>>, last.value, Default)
            array == Repeated(Unwritten, Len(text))
        IN  /\ last.op = "decimal" => Written = text
            /\ FormatInt(last.value) = text
            /\ Len(text) <= BUFFER_SIZE - 1
            /\ FormatDecimalAt(array, 0, last.value)
                 = [array |-> text, end |-> Len(text)]
            /\ count_digits_clz(n) = count_digits[n]
=============================================================================
