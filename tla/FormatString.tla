---------------------------- MODULE FormatString ----------------------------
(***************************************************************************)
(* Formatting by a string with replacement fields in braces: literal text  *)
(* is copied, a doubled brace stands for itself, and a field names its     *)
(* argument and says how it is to be shown. What is shown is left to the   *)
(* writer: the text is a sequence of characters and of fields with their   *)
(* argument and specification.                                             *)
(***************************************************************************)
EXTENDS FormatterBase

CONSTANTS
    Formats,    \* format strings: sequences of characters
    Arguments,  \* lists of arguments
    NameChars   \* the letters names are made of

VARIABLES
    f,          \* the formatter
    start,      \* where the literal text begins that is not yet written
    text,
    done

vars == <<f, start, text, done>>

Literals(g, from, to) ==
    [i \in 1..(to - from) |-> [char |-> g.fmt[from + i - 1]]]

is_name_start(c) == c \in NameChars

parse_arg_index(g) ==
    IF IsDigit(Here(g))
    THEN Then(parse_nonnegative_int(g), LAMBDA h : get_arg(h, h.value))
    ELSE next_arg(g)

parse_arg_name(g) ==
    LET end == CHOOSE e \in (g.s + 1)..(Len(g.fmt) + 1) :
                 /\ ~(is_name_start(At(g, e)) \/ IsDigit(At(g, e)))
                 /\ \A i \in g.s..(e - 1) :
                      is_name_start(At(g, i)) \/ IsDigit(At(g, i))
    IN  get_named_arg([g EXCEPT !.s = end], SubSeq(g.fmt, g.s, end - 1))

parse_arg(g) ==
    IF is_name_start(Here(g)) THEN parse_arg_name(g) ELSE parse_arg_index(g)

require_numeric_argument(g) ==
    IF g.arg.type \in UpToLastNumeric THEN g
    ELSE Fail(g, "format specifier requires numeric argument")

\* Seeded defect: a sign is refused for unsigned numbers only.
CheckUnsigned(g) ==
    IF g.arg.type \in {"UINT", "ULONG_LONG"}
    THEN Fail(g, "format specifier requires signed argument")
    ELSE Skipped(g, 1)

check_sign(g) ==
    Then(require_numeric_argument(g), LAMBDA h :
         IF h.arg.type \in {"UINT", "ULONG_LONG"}
         THEN Fail(h, "format specifier requires signed argument")
         ELSE Skipped(h, 1))

AlignOf(c) ==
    CASE c = "<" -> "LEFT" [] c = ">" -> "RIGHT" [] c = "=" -> "NUMERIC"
      [] c = "^" -> "CENTER" [] OTHER -> "DEFAULT"

SuitsArgument(g) ==
    IF g.spec.align = "NUMERIC" THEN require_numeric_argument(g) ELSE g

\* An alignment, with or without a fill character in front of it. The
\* character behind the present one is looked at first, even when the
\* present one ends the field.
\* Seeded defect: an alignment is looked for before a fill character.
AlignmentBeforeFill(g) ==
    LET c == Here(g)
        behind == AlignOf(At(g, g.s + 1))
        filled == [Skipped(g, 2) EXCEPT !.spec.align = behind,
                                        !.spec.fill = c]
    IN  CASE c = NUL -> g
          [] c # NUL /\ AlignOf(c) # "DEFAULT" ->
               SuitsArgument([Skipped(g, 1) EXCEPT !.spec.align = AlignOf(c)])
          [] c \notin {NUL, "{", "}"} /\ AlignOf(c) = "DEFAULT"
               /\ behind # "DEFAULT" -> SuitsArgument(filled)
          [] OTHER -> g

parse_fill_and_alignment(g) ==
    LET c == Here(g)
        behind == AlignOf(At(g, g.s + 1))
        aligned == [g EXCEPT !.spec.align = behind]
        filled == [Skipped(aligned, 2) EXCEPT !.spec.fill = c]
    IN  CASE c = NUL -> g
          [] c # NUL /\ behind # "DEFAULT" ->
               CASE c = "}" -> aligned
                 [] c = "{" -> Fail(g, "invalid fill character '{'")
                 [] OTHER -> SuitsArgument(filled)
          [] c # NUL /\ behind = "DEFAULT" /\ AlignOf(c) # "DEFAULT" ->
               SuitsArgument([Skipped(g, 1) EXCEPT !.spec.align = AlignOf(c)])
          [] OTHER -> g

SignFlags(c) ==
    CASE c = "+" -> {"SIGN", "PLUS"} [] c = "-" -> {"MINUS"}
      [] c = " " -> {"SIGN"} [] OTHER -> {}

parse_sign(g) ==
    IF SignFlags(Here(g)) = {} THEN g
    ELSE Then(check_sign(g), LAMBDA h :
              [h EXCEPT !.spec.flags = @ \union SignFlags(Here(g))])

parse_hash(g) ==
    IF Here(g) # "#" THEN g
    ELSE Then(require_numeric_argument(g), LAMBDA h :
              [Skipped(h, 1) EXCEPT !.spec.flags = @ \union {"HASH"}])

parse_zero_flag(g) ==
    IF Here(g) # "0" THEN g
    ELSE Then(require_numeric_argument(g), LAMBDA h :
              [Skipped(h, 1) EXCEPT !.spec.align = "NUMERIC",
                                    !.spec.fill = "0"])

\* A width or precision that an argument gives, in braces of its own.
dynamic_value(g) ==
    LET own == g.arg
        Checked(h) ==
          CASE h.arg.type \notin IntegerTypes ->
                 Fail(h, "width or precision is not integer")
            [] h.arg.type \in IntegerTypes /\ h.arg.value < 0 ->
                 Fail(h, "negative width or precision")
            [] h.arg.type \in IntegerTypes /\ h.arg.value > max_int ->
                 Fail(h, "number is too big")
            [] OTHER -> [h EXCEPT !.arg = own] @@ [value |-> h.arg.value]
    IN  Then(parse_arg(Skipped(g, 1)), LAMBDA h :
             IF Here(h) = "}" THEN Checked(Skipped(h, 1))
                              ELSE Fail(h, "invalid format string"))

Plain(g) == [x \in DOMAIN g \ {"value"} |-> g[x]]

parse_width(g) ==
    CASE IsDigit(Here(g)) ->
           Then(parse_nonnegative_int(g), LAMBDA h :
                Plain([h EXCEPT !.spec.width = h.value]))
      [] Here(g) = "{" ->
           Then(dynamic_value(g), LAMBDA h :
                Plain([h EXCEPT !.spec.width = h.value]))
      [] OTHER -> g

parse_precision(g) ==
    LET h == Skipped(g, 1)
        Precise(k) ==
          IF k.arg.type \in UpToLastInteger \union {"POINTER"}
          THEN Fail(k, "precision not allowed")
          ELSE Plain([k EXCEPT !.spec.precision = k.value])
    IN  CASE Here(g) # "." -> g
          [] Here(g) = "." /\ IsDigit(Here(h)) ->
               Then(parse_nonnegative_int(h), Precise)
          [] Here(g) = "." /\ Here(h) = "{" -> Then(dynamic_value(h), Precise)
          [] OTHER -> Fail(h, "missing precision specifier")

\* Seeded defect: the end of the string is passed over as a type.
TypeBehindTheEnd(g) ==
    IF Here(g) = "}" THEN g
    ELSE [Skipped(g, 1) EXCEPT !.spec.type = Here(g)]

parse_type(g) ==
    IF Here(g) \in {"}", NUL} THEN g
    ELSE [Skipped(g, 1) EXCEPT !.spec.type = Here(g)]

FormatSpec ==
    [width |-> 0, fill |-> " ", align |-> "DEFAULT", flags |-> {},
     precision |-> -1, type |-> "default"]

\* A value of a type the library does not know is written to a stream, and
\* the string that results takes the specification.
Streamed(g) ==
    IF g.arg.type = "CUSTOM" THEN [g EXCEPT !.arg.type = "STRING"] ELSE g

parse_spec(g) ==
    IF Here(g) # ":" THEN g
    ELSE Then(Then(Then(Then(Then(Then(parse_fill_and_alignment(
           Streamed(Skipped(g, 1))), parse_sign), parse_hash),
           parse_zero_flag), parse_width), parse_precision), parse_type)

IntCodes == {"default", "d", "x", "X", "b", "B", "o", "n"}
CharCodes == {"default", "c"}
FormatCodes(type) ==
    CASE type \in IntegerTypes \union {"BOOL"} -> IntCodes
      [] type = "CHAR" -> IntCodes \union CharCodes
      [] type = "DOUBLE" ->
           {"default", "e", "f", "g", "a", "E", "F", "G", "A"}
      [] type = "CSTRING" -> {"default", "s", "p"}
      [] type \in {"STRING", "CUSTOM"} -> {"default", "s"}
      [] type = "POINTER" -> {"default", "p"}

\* The formatter for the type of the argument accepts the specification.
visit(g) ==
    CASE g.spec.type \notin FormatCodes(g.arg.type) ->
           Fail(g, "unknown format code")
      [] g.spec.type \in CharCodes /\ g.arg.type = "CHAR"
           /\ (g.spec.align = "NUMERIC" \/ g.spec.flags # {}) ->
           Fail(g, "invalid format specifier for char")
      [] OTHER -> g

\* Formats a single argument.
format_arg(g) ==
    LET closed(h) == IF Here(h) = "}" THEN Skipped(h, 1)
                     ELSE Fail(h, "missing '}' in format string")
    IN  Then(Then(parse_spec([g EXCEPT !.spec = FormatSpec]), closed), visit)

-----------------------------------------------------------------------------
Init ==
    /\ f \in {Formatter(fmt, args) : fmt \in Formats, args \in Arguments}
    /\ start = 1
    /\ text = <<>>
    /\ done = FALSE

Running == ~done /\ Ok(f)

Literal ==
    /\ Here(f) \notin {"{", "}", NUL}
    /\ f' = Skipped(f, 1)
    /\ UNCHANGED <<start, text, done>>

\* Seeded defect: the second brace of two is copied as well.
BothBraces ==
    /\ Here(f) \in {"{", "}"}
    /\ At(f, f.s + 1) = Here(f)
    /\ text' = text \o Literals(f, start, f.s + 1)
    /\ f' = Skipped(f, 2)
    /\ start' = f.s + 1
    /\ UNCHANGED done

DoubledBrace ==
    /\ Here(f) \in {"{", "}"}
    /\ At(f, f.s + 1) = Here(f)
    /\ text' = text \o Literals(f, start, f.s + 1)
    /\ f' = Skipped(f, 2)
    /\ start' = f.s + 2
    /\ UNCHANGED done

UnmatchedBrace ==
    /\ Here(f) = "}"
    /\ At(f, f.s + 1) # "}"
    /\ f' = Fail(f, "unmatched '}' in format string")
    /\ UNCHANGED <<start, text, done>>

\* Seeded defect: after a field, formatting goes on where the field began.
FieldReadAgain ==
    LET picked == parse_arg(Skipped(f, 1))
        literals == Literals(f, start, f.s)
    IN  /\ Here(f) = "{"
        /\ At(f, f.s + 1) # "{"
        /\ \E g \in {Plain(Then(picked, format_arg))} :
               /\ f' = [g EXCEPT !.s = f.s]
               /\ text' = text \o literals
        /\ UNCHANGED <<start, done>>

\* A field: the literal text before it is written first, then its argument.
Field ==
    LET picked == parse_arg(Skipped(f, 1))
        literals == Literals(f, start, f.s)
    IN  /\ Here(f) = "{"
        /\ At(f, f.s + 1) # "{"
        /\ \E g \in {Plain(Then(picked, format_arg))} :
               /\ f' = g
               /\ IF Ok(g)
                  THEN /\ text' = text \o literals
                             \o <<[arg |-> picked.arg, spec |-> g.spec]>>
                       /\ start' = g.s
                  ELSE /\ text' = text \o literals
                       /\ UNCHANGED start
        /\ UNCHANGED done

End ==
    /\ Here(f) = NUL
    /\ text' = text \o Literals(f, start, f.s)
    /\ done' = TRUE
    /\ UNCHANGED <<f, start>>

Next ==
    Running /\ (Literal \/ DoubledBrace \/ UnmatchedBrace \/ Field \/ End)

Spec == Init /\ [][Next]_vars

-----------------------------------------------------------------------------
Fields == {i \in DOMAIN text : "spec" \in DOMAIN text[i]}

\* The place in the format string and the literal text to be written stay
\* within it.
TypeOK ==
    /\ f.s \in 1..(Len(f.fmt) + 1)
    /\ start \in 1..f.s
    /\ f.next \in -1..(Len(f.args) + 1)
    /\ \A i \in DOMAIN f.taken : f.taken[i].index \in 0..(Len(f.args) - 1)

\* Arguments are picked by index or name, or one after the other: never
\* both in one string, the arguments that give a width included.
NeverMixed ==
    \A i, j \in DOMAIN f.taken : f.taken[i].how = f.taken[j].how

\* One after the other means that none is skipped or taken twice.
TakenInOrder ==
    \A i \in DOMAIN f.taken :
        f.taken[i].how = "automatic" => f.taken[i].index = i - 1

\* A field that was accepted asks of its argument what its type allows.
FieldsSuitArguments ==
    \A i \in Fields :
        LET spec == text[i].spec
            type == text[i].arg.type
        IN  /\ spec.flags # {} => type \in UpToLastNumeric
            /\ spec.align = "NUMERIC" /\ spec.width > 0 =>
                   type \in UpToLastNumeric
            /\ spec.precision # -1 => type \notin UpToLastInteger
            /\ spec.width \in 0..max_int /\ spec.precision \in -1..max_int
            /\ spec.fill \notin {"{", "}"}
            /\ spec.type \in FormatCodes(type)

\* Every format string is accepted or refused: each step moves on in it, or
\* is the last.
EachStepAdvances == [][f'.s > f.s \/ done' \/ ~Ok(f')]_vars
=============================================================================
