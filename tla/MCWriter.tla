------------------------------ MODULE MCWriter ------------------------------
(***************************************************************************)
(* Every specification of a number the two front ends can ask for, on      *)
(* numbers around the boundaries of digits, bases and groups; and the      *)
(* numbers around every power of ten of a word of 30 bits.                 *)
(***************************************************************************)
EXTENDS WriterFields

\* What a format string in braces, or the functions that pad a value, ask
\* for: no precision.
BraceSpecs ==
    [width : {0, 3, 6, 13}, fill : {"*", "0"}, align : Alignments,
     flags : {{}, {"SIGN"}, {"SIGN", "PLUS"}, {"HASH"},
              {"SIGN", "PLUS", "HASH"}},
     precision : {-1}, type : {"default", "x", "B", "o", "n"}]

\* What printf asks for: never centred.
PrintfSpecs ==
    [width : {0, 6, 13}, fill : {Blank}, align : {"LEFT", "RIGHT"},
     flags : {{}, {"SIGN", "PLUS"}, {"HASH"}},
     precision : {0, 2, 5}, type : {"d", "X", "b", "o", "n"}]
    \union
    [width : {6, 13}, fill : {"0"}, align : {"NUMERIC"},
     flags : {{}, {"SIGN", "PLUS"}, {"HASH"}},
     precision : {-1, 2}, type : {"d", "X", "b", "o"}]

Numbers == {-100, -8, 0, 7, 10, 255, 1000}

PowersOfTen == {10^k : k \in 1..9}
Boundaries ==
    UNION {{n - 1, n, 1 - n, -n} : n \in PowersOfTen}
        \union {2^30 - 1, -(2^29)}
BoundarySpecs ==
    {[FormatSpec(width, type, "*") EXCEPT !.align = "RIGHT"] :
       width \in {0, 12}, type \in {"d", "n", "x"}}

MCIntWrites ==
    [value : Numbers, spec : BraceSpecs \union PrintfSpecs]
        \union [value : Boundaries, spec : BoundarySpecs]

TextSpecs ==
    [width : {0, 1, 4, 5}, fill : {"*", Blank},
     align : Alignments \ {"NUMERIC"}, flags : {{}}, precision : {-1},
     type : {"default"}]

MCStringWrites ==
    [value : {<<>>, <<"a">>, <<"a", "b", "c">>},
     spec : UNION {{[spec EXCEPT !.precision = p] : p \in {-1, 0, 2}} :
                     spec \in TextSpecs}]

MCCharWrites == [value : {"a"}, spec : TextSpecs]

-----------------------------------------------------------------------------
\* Floating-point numbers of one and of six characters, and one that is not
\* finite, in every alignment.
FiniteNumber(chars) ==
    [negative : BOOLEAN, chars : {chars}, finite : {TRUE}]

MCDoubleValues ==
    FiniteNumber(<<"1">>) \union FiniteNumber(<<"1", "e", "1", "2", "3", "4">>)
      \union [negative : BOOLEAN, chars : {<<"n", "a", "n">>},
              finite : {FALSE}]

MCDoubleSpecs ==
    [width : {0, 1, 4, 9}, fill : {Blank, "*"}, align : Alignments,
     flags : {{}, {"SIGN", "PLUS"}}, precision : {-1}, type : {"default"}]
=============================================================================
