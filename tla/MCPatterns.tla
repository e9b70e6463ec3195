----------------------------- MODULE MCPatterns -----------------------------
(***************************************************************************)
(* Patterns of up to four characters of a small alphabet, every flag by    *)
(* itself, and messages of times where the clocks and numbers change       *)
(* their width.                                                            *)
(***************************************************************************)
EXTENDS Integers, Sequences, SequencesExt

VARIABLES pattern, msg, formatted

Alphabet == {"%", "^", "$", "l", "v", "+", "q"}

AllFlags == {"n", "l", "L", "t", "v", "a", "A", "b", "h", "B", "c", "C", "Y",
             "D", "x", "m", "d", "H", "I", "M", "S", "e", "f", "F", "E", "p",
             "r", "R", "T", "X", "z", "P", "i", "^", "$", "+"}

Patterns ==
    UNION {[1..n -> Alphabet] : n \in 0..4} \union {<<"%", f>> : f \in AllFlags}

Times == {<<0, 0, 0>>, <<0, 59, 7>>, <<1, 0, 0>>, <<11, 59, 59>>, <<12, 0, 0>>,
          <<13, 0, 0>>, <<12, 59, 7>>, <<23, 59, 59>>}

\* A time of the day with a date and a fraction of the second to go with it.
Message(t, date, ns, offset) ==
    [name |-> "net", level |-> t[1] % 7, thread |-> 17, raw |-> "raw",
     pid |-> 4, id |-> 8, secs |-> 1534000000, ns |-> ns, offset |-> offset,
     hour |-> t[1], min |-> t[2], sec |-> t[3],
     mday |-> date[1], mon |-> date[2], year |-> date[3], wday |-> date[4]]

Messages ==
    {Message(t, <<9, 8, 118, 0>>, 5000000, -90) : t \in Times} \union
    {Message(<<9, 5, 3>>, <<31, 11, 109, 6>>, ns, 60) :
        ns \in {0, 999, 1000, 70060050, 999999999}}

INSTANCE PatternFormatter
=============================================================================
