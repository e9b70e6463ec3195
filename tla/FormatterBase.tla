--------------------------- MODULE FormatterBase ---------------------------
(***************************************************************************)
(* What the two ways of formatting share: walking along a format string,   *)
(* numbers in it, and picking arguments either one after the other or by   *)
(* index or name, never both in one string.                                *)
(*                                                                         *)
(* A formatter is a record: the format string fmt and the place s in it,   *)
(* the arguments args, next (next_arg_index_), the argument arg and the    *)
(* specification spec of the field being read, the error that was thrown   *)
(* ("" when none was), and taken, the arguments taken so far with how they *)
(* were picked. An argument is a record of type, value and name (empty for *)
(* one without a name).                                                    *)
(***************************************************************************)
EXTENDS Integers, Sequences, SequencesExt

CONSTANT max_int    \* the largest number of type int

NUL == "NUL"

\* The character at a place; the end of the string is a character, too.
At(f, i) == IF i > Len(f.fmt) THEN NUL ELSE f.fmt[i]
Here(f) == At(f, f.s)
Skipped(f, n) == [f EXCEPT !.s = @ + n]

Fail(f, message) == [f EXCEPT !.error = message]
Ok(f) == f.error = ""

\* A step that is only taken when no step before it has failed.
Then(f, Step(_)) == IF Ok(f) THEN Step(f) ELSE f

DigitChars == <<"0", "1", "2", "3", "4", "5", "6", "7", "8", "9">>
IsDigit(c) == \E d \in DOMAIN DigitChars : DigitChars[d] = c
DigitValue(c) == (CHOOSE d \in DOMAIN DigitChars : DigitChars[d] = c) - 1

\* The number that begins here, and the place behind it.
parse_nonnegative_int(f) ==
    LET big == max_int \div 10
        parsed[i \in Nat, value \in Nat] ==
          CASE ~IsDigit(At(f, i)) -> [s |-> i, value |-> value]
            [] IsDigit(At(f, i)) /\ value > big ->
                 [s |-> i, value |-> max_int + 1]
            [] OTHER -> parsed[i + 1, value * 10 + DigitValue(At(f, i))]
        number == parsed[f.s, 0]
    IN  IF number.value > max_int
        THEN [Fail(f, "number is too big") EXCEPT !.s = number.s]
             @@ [value |-> 0]
        ELSE [f EXCEPT !.s = number.s] @@ [value |-> number.value]

do_get_arg(f, arg_index, how) ==
    IF arg_index \in 0..(Len(f.args) - 1)
    THEN [f EXCEPT !.arg = f.args[arg_index + 1],
                   !.taken = Append(@, [how |-> how, index |-> arg_index])]
    ELSE Fail(f, "argument index out of range")

\* Seeded defect: switching from indices to the next argument goes unseen.
NextArgAnyway(f) ==
    do_get_arg([f EXCEPT !.next = @ + 1], IF f.next < 0 THEN 0 ELSE f.next,
               "automatic")

next_arg(f) ==
    IF f.next >= 0
    THEN do_get_arg([f EXCEPT !.next = @ + 1], f.next, "automatic")
    ELSE Fail(f, "cannot switch from manual to automatic argument indexing")

\* Seeded defect: the argument that was next stays next.
CheckNoAutoIndexOnce(f) ==
    IF f.next > 0
    THEN Fail(f, "cannot switch from automatic to manual argument indexing")
    ELSE f

check_no_auto_index(f) ==
    IF f.next > 0
    THEN Fail(f, "cannot switch from automatic to manual argument indexing")
    ELSE [f EXCEPT !.next = -1]

get_arg(f, arg_index) ==
    Then(check_no_auto_index(f),
         LAMBDA g : do_get_arg(g, arg_index, "manual"))

\* Named arguments are searched from the first one on.
get_named_arg(f, name) ==
    LET Named(g) == {i \in DOMAIN g.args : g.args[i].name = name}
    IN  Then(check_no_auto_index(f),
             LAMBDA g : IF Named(g) = {} THEN Fail(g, "argument not found")
                        ELSE do_get_arg(g, Min(Named(g)) - 1, "manual"))

IntegerTypes == {"INT", "UINT", "LONG_LONG", "ULONG_LONG"}
\* A character and a boolean count as integers, too, but not for a width.
UpToLastInteger == IntegerTypes \union {"BOOL", "CHAR"}
UpToLastNumeric == UpToLastInteger \union {"DOUBLE"}

Formatter(fmt, args) ==
    [fmt |-> fmt, args |-> args, s |-> 1, next |-> 0, arg |-> <<>>,
     spec |-> <<>>, error |-> "", taken |-> <<>>]
=============================================================================
