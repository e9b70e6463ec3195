---------------------------- MODULE WriterFields ----------------------------
(***************************************************************************)
(* How the writer lays out a value: an area is added at the end of the     *)
(* buffer, the padding is filled and the value is written into its place,  *)
(* numbers from their last digit backwards. Until a place of the area is   *)
(* written it holds whatever memory held before.                           *)
(*                                                                         *)
(* A format specification is a record: width, fill, align, flags (a        *)
(* set of SIGN, PLUS, MINUS, HASH and CHAR), precision (-1 when there is   *)
(* none) and type (0, when there is none, is written "default").           *)
(***************************************************************************)
EXTENDS Integers, Sequences, SequencesExt

CONSTANTS
    W,              \* the width in bits of the unsigned type of a number
    thousands_sep   \* the separator of the locale, a sequence of characters

Unwritten == "?"
Blank == " "

Alignments == {"DEFAULT", "LEFT", "RIGHT", "CENTER", "NUMERIC"}

FormatSpec(width, type, fill) ==
    [width |-> width, fill |-> fill, align |-> "DEFAULT", flags |-> {},
     precision |-> -1, type |-> type]

Repeated(c, n) == [i \in 1..n |-> c]

grow_buffer(buffer, n) == buffer \o Repeated(Unwritten, n)

\* The buffer with s written from its p-th place on (p counts from 0).
Copied(buffer, p, s) ==
    [i \in DOMAIN buffer |-> IF i \in (p + 1)..(p + Len(s)) THEN s[i - p]
                                                            ELSE buffer[i]]

Filled(buffer, p, n, c) == Copied(buffer, p, Repeated(c, n))

\* Seeded defect: the padding that remains goes to the left once more.
EvenPadding(buffer, p, total_size, content_size, fill) ==
    LET left == (total_size - content_size) \div 2
    IN  [buffer |-> Filled(Filled(buffer, p, left, fill),
                           p + left + content_size, left, fill),
         at |-> p + left]

\* Seeded defect: the content is put at the left of a centred field.
PaddingOnTheRight(buffer, p, total_size, content_size, fill) ==
    [buffer |-> Filled(buffer, p + content_size, total_size - content_size,
                       fill),
     at |-> p]

fill_padding(buffer, p, total_size, content_size, fill) ==
    LET padding == total_size - content_size
        left == padding \div 2
    IN  [buffer |-> Filled(Filled(buffer, p, left, fill),
                           p + left + content_size, padding - left, fill),
         at |-> p + left]

\* Room for n characters in a field: the buffer with its padding and the
\* place where the characters go.
Field(buffer, n, spec) ==
    LET p == Len(buffer)
        grown == grow_buffer(buffer, spec.width)
        pad == spec.width - n
    IN  CASE spec.width <= n ->
               [buffer |-> grow_buffer(buffer, n), at |-> p]
          [] spec.width > n /\ spec.align = "RIGHT" ->
               [buffer |-> Filled(grown, p, pad, spec.fill), at |-> p + pad]
          [] spec.width > n /\ spec.align = "CENTER" ->
               fill_padding(grown, p, spec.width, n, spec.fill)
          [] OTHER ->
               [buffer |-> Filled(grown, p + n, pad, spec.fill), at |-> p]

write_str(buffer, s, spec) ==
    LET shown == IF spec.precision \in 0..Len(s)
                 THEN SubSeq(s, 1, spec.precision) ELSE s
        field == Field(buffer, Len(shown), spec)
    IN  Copied(field.buffer, field.at, shown)

visit_char(buffer, c, spec) ==
    LET field == Field(buffer, 1, spec)
    IN  Copied(field.buffer, field.at, <<c>>)

\* Room for a number without a precision: the buffer with its padding and
\* its prefix, and the place of the last digit.
IntField(buffer, num_digits, spec, prefix) ==
    LET p == Len(buffer)
        size == Len(prefix) + num_digits
        grown == grow_buffer(buffer, spec.width)
        end == p + spec.width
        centred == fill_padding(grown, p, spec.width, size, spec.fill)
    IN  CASE spec.width <= size ->
               [buffer |-> Copied(grow_buffer(buffer, size), p, prefix),
                last |-> p + size]
          [] spec.width > size /\ spec.align = "LEFT" ->
               [buffer |-> Filled(Copied(grown, p, prefix), p + size,
                                  spec.width - size, spec.fill),
                last |-> p + size]
          [] spec.width > size /\ spec.align = "CENTER" ->
               [buffer |-> Copied(centred.buffer, centred.at, prefix),
                last |-> centred.at + size]
          [] spec.width > size /\ spec.align = "NUMERIC" ->
               [buffer |-> Filled(Copied(grown, p, prefix), p + Len(prefix),
                                  spec.width - size, spec.fill),
                last |-> end]
          [] OTHER ->
               [buffer |-> Filled(Copied(grown, end - size, prefix), p,
                                  spec.width - size, spec.fill),
                last |-> end]

\* The prefix 0 of an octal number counts as a digit of the precision.
WithoutOctalPrefix(prefix) ==
    IF prefix # <<>> /\ Last(prefix) = "0" THEN Front(prefix) ELSE prefix

\* Room for a number: one with a precision is a number padded with zeros
\* to that many digits, in a field of its own.
\* Seeded defect: the padding is measured without the prefix.
PaddingWithoutPrefix(buffer, num_digits, spec, prefix) ==
    LET kept == WithoutOctalPrefix(prefix)
        number_size == Len(kept) + spec.precision
        subspec == [FormatSpec(number_size, "default", "0")
                      EXCEPT !.align = "NUMERIC"]
        fill == Repeated(spec.fill, spec.width - spec.precision)
        left == spec.align = "LEFT"
        number == IntField(IF left THEN buffer ELSE buffer \o fill,
                           num_digits, subspec, kept)
    IN  IF spec.precision > num_digits
        THEN [number EXCEPT !.buffer = IF left THEN @ \o fill ELSE @]
        ELSE IntField(buffer, num_digits, spec, prefix)

prepare_int_buffer(buffer, num_digits, spec, prefix) ==
    LET kept == WithoutOctalPrefix(prefix)
        number_size == Len(kept) + spec.precision
        subspec == [FormatSpec(number_size, "default", "0")
                      EXCEPT !.align = "NUMERIC"]
        fill == Repeated(spec.fill, spec.width - number_size)
        left == spec.align = "LEFT"
        number == IntField(IF left THEN buffer ELSE buffer \o fill,
                           num_digits, subspec, kept)
    IN  IF spec.precision > num_digits
        THEN [number EXCEPT !.buffer = IF left THEN @ \o fill ELSE @]
        ELSE IntField(buffer, num_digits, spec, prefix)

Lower == <<"0", "1", "2", "3", "4", "5", "6", "7", "8", "9", "a", "b", "c",
           "d", "e", "f">>
Upper == <<"0", "1", "2", "3", "4", "5", "6", "7", "8", "9", "A", "B", "C",
           "D", "E", "F">>

\* Digits in a base that is a power of two.
InBase(base, digits) ==
    LET Digit(n) == digits[n + 1]
        f[n \in Nat] == IF n < base THEN <<Digit(n)>>
                        ELSE Append(f[n \div base], Digit(n % base))
    IN  f

\* Decimal digits, two at a time, with a separator after every third one:
\* f[n, i] is what is written for n when i digits are already there.
\* Seeded defect: no separator between the two digits of the last pair.
FormatDecimalByPairs(sep) ==
    LET Sep(i) == IF i % 3 = 0 THEN sep ELSE <<>>
        Tens(n) == <<Lower[((n \div 10) % 10) + 1]>>
        Ones(n) == <<Lower[(n % 10) + 1]>>
        f[n \in Nat, i \in Nat] ==
          CASE n < 10 -> Ones(n)
            [] n \in 10..99 -> Tens(n) \o Ones(n)
            [] n >= 100 -> f[n \div 100, i + 2] \o Sep(i + 2)
                             \o Tens(n) \o Sep(i + 1) \o Ones(n)
    IN  f

format_decimal(sep) ==
    LET Sep(i) == IF i % 3 = 0 THEN sep ELSE <<>>
        Tens(n) == <<Lower[((n \div 10) % 10) + 1]>>
        Ones(n) == <<Lower[(n % 10) + 1]>>
        f[n \in Nat, i \in Nat] ==
          CASE n < 10 -> Ones(n)
            [] n \in 10..99 -> Tens(n) \o Sep(i + 1) \o Ones(n)
            [] n >= 100 -> f[n \div 100, i + 2] \o Sep(i + 2)
                             \o Tens(n) \o Sep(i + 1) \o Ones(n)
    IN  f

\* Seeded defect: each step over four digits begins one number too late.
CountDigitsLate ==
    LET f[n \in Nat] ==
          CASE n < 10 -> 1
            [] n \in 10..99 -> 2
            [] n \in 100..999 -> 3
            [] n \in 1000..10000 -> 4
            [] OTHER -> 4 + f[n \div 10000]
    IN  f

count_digits ==
    LET f[n \in Nat] ==
          CASE n < 10 -> 1
            [] n \in 10..99 -> 2
            [] n \in 100..999 -> 3
            [] n \in 1000..9999 -> 4
            [] OTHER -> 4 + f[n \div 10000]
    IN  f

\* The version for compilers that count the leading zeros of a word: the
\* number of bits times log10(2), corrected by a table of powers of ten.
Bits[n \in Nat] == IF n = 0 THEN 0 ELSE 1 + Bits[n \div 2]

count_digits_clz(n) ==
    LET t == (Bits[IF n % 2 = 0 THEN n + 1 ELSE n] * 1233) \div 4096
        power == IF t = 0 THEN 0 ELSE 10 ^ t
    IN  t - (IF n < power THEN 1 ELSE 0) + 1

Sign(negative, spec) ==
    CASE negative -> <<"-">>
      [] ~negative /\ "SIGN" \in spec.flags ->
           <<IF "PLUS" \in spec.flags THEN "+" ELSE Blank>>
      [] OTHER -> <<>>

\* The absolute value as the unsigned type holds it: the smallest number
\* has one, too.
\* Seeded defect: the absolute value is taken in the signed type.
AbsInSignedType(value) ==
    LET abs == (-value) % 2^W
    IN  IF value < 0 THEN IF abs >= 2^(W - 1) THEN 0 ELSE abs ELSE value

AbsValue(value) == IF value < 0 THEN (0 - value) % 2^W ELSE value

BasePrefix(spec) ==
    CASE "HASH" \notin spec.flags -> <<>>
      [] "HASH" \in spec.flags /\ spec.type \in {"x", "X", "b", "B"} ->
           <<"0", spec.type>>
      [] "HASH" \in spec.flags /\ spec.type = "o" -> <<"0">>
      [] OTHER -> <<>>

IntDigits(n, type) ==
    CASE type \in {"default", "d"} -> format_decimal(<<>>)[n, 0]
      [] type = "x" -> InBase(16, Lower)[n]
      [] type = "X" -> InBase(16, Upper)[n]
      [] type \in {"b", "B"} -> InBase(2, Lower)[n]
      [] type = "o" -> InBase(8, Lower)[n]
      [] type = "n" -> format_decimal(thousands_sep)[n, 0]

\* How many characters the digits are expected to take.
IntSize(n, type) ==
    CASE type \in {"default", "d"} -> count_digits[n]
      [] type = "n" ->
           count_digits[n]
             + Len(thousands_sep) * ((count_digits[n] - 1) \div 3)
      [] OTHER -> Len(IntDigits(n, type))

write_int(buffer, value, spec) ==
    LET n == AbsValue(value)
        digits == IntDigits(n, spec.type)
        field == prepare_int_buffer(buffer, IntSize(n, spec.type), spec,
                                    Sign(value < 0, spec)
                                      \o BasePrefix(spec))
    IN  Copied(field.buffer, field.last - Len(digits), digits)
=============================================================================
