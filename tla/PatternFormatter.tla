-------------------------- MODULE PatternFormatter --------------------------
(***************************************************************************)
(* The formatter that turns a message into a line of text: a pattern is    *)
(* compiled into a list of formatters, one per flag or run of literal      *)
(* characters, and each of them adds its text, or marks one end of the     *)
(* range to be coloured. A text is a sequence of characters, in which the  *)
(* texts a message brings along, and names of days and levels, count as    *)
(* one character each.                                                     *)
(***************************************************************************)
EXTENDS Integers, Sequences, SequencesExt

CONSTANTS
    Patterns,   \* patterns: sequences of characters
    Messages    \* messages: records of what log_msg and its tm hold

VARIABLES
    pattern,
    msg,
    formatted   \* the text and the range to be coloured; <<>> before

vars == <<pattern, msg, formatted>>

days == <<"Sun", "Mon", "Tue", "Wed", "Thu", "Fri", "Sat">>
months == <<"Jan", "Feb", "Mar", "Apr", "May", "Jun", "Jul", "Aug", "Sept",
            "Oct", "Nov", "Dec">>
full_days == <<"Sunday", "Monday", "Tuesday", "Wednesday", "Thursday",
               "Friday", "Saturday">>
full_months == <<"January", "February", "March", "April", "May", "June",
                 "July", "August", "September", "October", "November",
                 "December">>
level_names == <<"trace", "debug", "info", "warning", "error", "critical",
                 "off">>
short_level_names == <<"T", "D", "I", "W", "E", "C", "O">>

Digit(n) ==
    <<"0", "1", "2", "3", "4", "5", "6", "7", "8", "9">>[n + 1]

Digits[n \in Nat] ==
    IF n < 10 THEN <<Digit(n)>> ELSE Append(Digits[n \div 10], Digit(n % 10))

\* Seeded defect: numbers are not padded.
PadNothing(n, width) == Digits[n]

pad(n, width) ==
    [i \in 1..(width - Len(Digits[n])) |-> "0"] \o Digits[n]

pad_n_join(ns, sep) ==
    FoldLeft(LAMBDA text, n : text \o <<sep>> \o pad(n, 2),
             pad(Head(ns), 2), Tail(ns))

to12h(m) == IF m.hour > 12 THEN m.hour - 12 ELSE m.hour

\* Seeded defect: the half of the day is told from the hour shown.
AmpmOf12h(m) == IF to12h(m) >= 12 THEN "PM" ELSE "AM"

ampm(m) == IF m.hour >= 12 THEN "PM" ELSE "AM"

\* What z_formatter makes of an offset from UTC, in minutes.
OffsetText(minutes) ==
    LET abs == IF minutes < 0 THEN -minutes ELSE minutes
    IN  <<IF minutes < 0 THEN "-" ELSE "+">>
            \o pad_n_join(<<abs \div 60, abs % 60>>, ":")

Time(m) == <<m.hour, m.min, m.sec>>

\* The number of milliseconds, of microseconds and of nanoseconds since the
\* second began.
Millis(m) == m.ns \div 1000000
Micros(m) == m.ns \div 1000
Nanos(m) == m.ns

ShortDate(m) == pad_n_join(<<m.mon + 1, m.mday, m.year % 100>>, "/")

\* The texts of the flags that only add text: who logs and how gravely,
SourceTexts(m) ==
    [n |-> <<m.name>>,
     l |-> <<level_names[m.level + 1]>>,
     L |-> <<short_level_names[m.level + 1]>>]

\* the date,
DateTexts(m) ==
    [a |-> <<days[m.wday + 1]>>,
     A |-> <<full_days[m.wday + 1]>>,
     b |-> <<months[m.mon + 1]>>,
     h |-> <<months[m.mon + 1]>>,
     B |-> <<full_months[m.mon + 1]>>,
     c |-> <<days[m.wday + 1], " ", months[m.mon + 1], " ">>
               \o Digits[m.mday] \o <<" ">> \o pad_n_join(Time(m), ":")
               \o <<" ">> \o Digits[m.year + 1900],
     C |-> pad(m.year % 100, 2),
     D |-> ShortDate(m),
     x |-> ShortDate(m),
     Y |-> Digits[m.year + 1900],
     m |-> pad(m.mon + 1, 2),
     d |-> pad(m.mday, 2)]

\* the time,
ClockTexts(m) ==
    [H |-> pad(m.hour, 2),
     I |-> pad(to12h(m), 2),
     M |-> pad(m.min, 2),
     S |-> pad(m.sec, 2),
     e |-> pad(Millis(m), 3),
     f |-> pad(Micros(m), 6),
     F |-> pad(Nanos(m), 9),
     E |-> Digits[m.secs],
     p |-> <<ampm(m)>>,
     r |-> pad_n_join(<<to12h(m), m.min, m.sec>>, ":") \o <<" ", ampm(m)>>,
     R |-> pad_n_join(<<m.hour, m.min>>, ":"),
     T |-> pad_n_join(Time(m), ":"),
     X |-> pad_n_join(Time(m), ":"),
     z |-> OffsetText(m.offset)]

\* and the rest.
MessageTexts(m) ==
    [t |-> Digits[m.thread],
     P |-> Digits[m.pid],
     i |-> pad(m.id, 6),
     v |-> <<m.raw>>]

TextFlags == {"n", "l", "L", "t", "v", "a", "A", "b", "h", "B", "c", "C", "Y",
              "D", "x", "m", "d", "H", "I", "M", "S", "e", "f", "F", "E", "p",
              "r", "R", "T", "X", "z", "P", "i"}

FlagText(flag, m) ==
    CASE flag \in {"n", "l", "L"} -> SourceTexts(m)[flag]
      [] flag \in {"t", "P", "i", "v"} -> MessageTexts(m)[flag]
      [] flag \in {"a", "A", "b", "h", "B", "c", "C", "D", "x", "Y", "m", "d"} ->
            DateTexts(m)[flag]
      [] OTHER -> ClockTexts(m)[flag]

\* What full_formatter adds before and after the level.
FullStart(m) ==
    <<"[">> \o Digits[m.year + 1900] \o <<"-">> \o pad(m.mon + 1, 2)
        \o <<"-">> \o pad(m.mday, 2) \o <<" ">> \o pad_n_join(Time(m), ":")
        \o <<".">> \o pad(Millis(m), 3) \o <<"]", " ", "[", m.name, "]", " ", "[">>
FullEnd(m) == <<"]", " ", m.raw>>

\* Seeded defect: the range to be coloured begins before the bracket.
AfterFullWithBracket(out, m) ==
    LET start == out.text \o FullStart(m)
        level == start \o <<level_names[m.level + 1]>>
    IN  [text |-> level \o FullEnd(m),
         start |-> Len(start) - 1, end |-> Len(level)]

AfterFull(out, m) ==
    LET start == out.text \o FullStart(m)
        level == start \o <<level_names[m.level + 1]>>
    IN  [text |-> level \o FullEnd(m),
         start |-> Len(start), end |-> Len(level)]

Add(out, text) == [out EXCEPT !.text = @ \o text]

\* Seeded defect: the range to be coloured ends after the next character.
AfterFormatterWithNext(out, f, m) ==
    CASE f[1] = "text" -> Add(out, f[2])
      [] f = <<"flag", "^">> -> [out EXCEPT !.start = Len(out.text)]
      [] f = <<"flag", "$">> -> [out EXCEPT !.end = Len(out.text) + 1]
      [] f = <<"flag", "+">> -> AfterFull(out, m)
      [] f[1] = "flag" /\ f[2] \in TextFlags -> Add(out, FlagText(f[2], m))

\* A formatter is <<"flag", its flag>>, or <<"text", what it displays as is>>.
AfterFormatter(out, f, m) ==
    CASE f[1] = "text" -> Add(out, f[2])
      [] f = <<"flag", "^">> -> [out EXCEPT !.start = Len(out.text)]
      [] f = <<"flag", "$">> -> [out EXCEPT !.end = Len(out.text)]
      [] f = <<"flag", "+">> -> AfterFull(out, m)
      [] f[1] = "flag" /\ f[2] \in TextFlags -> Add(out, FlagText(f[2], m))

\* Seeded defect: of an unknown flag the percent sign is left out.
HandleFlagDropping(flag) ==
    IF flag \in TextFlags \union {"^", "$", "+"}
    THEN <<<<"flag", flag>>>>
    ELSE <<<<"text", <<flag>>>>>>

handle_flag(flag) ==
    IF flag \in TextFlags \union {"^", "$", "+"}
    THEN <<<<"flag", flag>>>>
    ELSE <<<<"text", <<"%">>>>, <<"text", <<flag>>>>>>

Flushed(user_chars) ==
    IF user_chars = <<>> THEN <<>> ELSE <<<<"text", user_chars>>>>

compile_pattern(p) ==
    LET Step(acc, ch) ==
            IF acc.flag
            THEN [acc EXCEPT !.formatters = @ \o handle_flag(ch), !.flag = FALSE]
            ELSE IF ch = "%"
            THEN [formatters |-> acc.formatters \o Flushed(acc.user_chars),
                  user_chars |-> <<>>, flag |-> TRUE]
            ELSE [acc EXCEPT !.user_chars = Append(@, ch)]
        done == FoldLeft(Step, [formatters |-> <<>>, user_chars |-> <<>>,
                                flag |-> FALSE], p)
    IN  done.formatters \o Flushed(done.user_chars)

EndOfLine == "eol"

\* The message formatted by a formatter of the pattern.
Formatted(p, m) ==
    Add(FoldLeft(LAMBDA out, f : AfterFormatter(out, f, m),
                 [text |-> <<>>, start |-> 0, end |-> 0], compile_pattern(p)),
        <<EndOfLine>>)

Init ==
    /\ pattern \in Patterns
    /\ msg \in Messages
    /\ formatted = <<>>

format ==
    /\ formatted = <<>>
    /\ formatted' = Formatted(pattern, msg)
    /\ UNCHANGED <<pattern, msg>>

Next == format

Spec == Init /\ [][Next]_vars

-----------------------------------------------------------------------------

\* The text ends the line once, and the range to be coloured lies within it and
\* leaves out the end of the line: the console sinks print from 0 to its start,
\* from start to end and from end to the end of the text, with differences of
\* unsigned numbers.
TypeOK ==
    formatted # <<>> =>
        /\ formatted.start \in 0..(Len(formatted.text) - 1)
        /\ formatted.end \in 0..(Len(formatted.text) - 1)
        /\ \A i \in DOMAIN formatted.text :
              formatted.text[i] = EndOfLine <=> i = Len(formatted.text)

Lone(p) == SelectLastInSubSeq(p, 1, Len(p), LAMBDA ch : ch # "%")

\* A pattern none of whose flags is known is displayed as it is, its percent
\* signs too, but for one that ends the pattern and so has no flag.
UnknownAppearsAsIs ==
    (formatted # <<>> /\ \A ch \in ToSet(pattern) :
                            ch \notin TextFlags \union {"^", "$", "+"}) =>
        LET trailing == Len(pattern) - Lone(pattern)
        IN  formatted.text =
                Append(SubSeq(pattern, 1, Len(pattern) - (trailing % 2)),
                       EndOfLine)

Percent(flags) == Append(<<"%">>, flags)

\* The flags documented as short for a pattern: %D is %m/%d/%C, %R is %H:%M, %T
\* is %H:%M:%S, and %+ is [%Y-%m-%d %H:%M:%S.%e] [%n] [%^%l%$] %v.
Shorthands ==
    {<<Percent("D"), <<"%", "m", "/", "%", "d", "/", "%", "C">>>>,
     <<Percent("R"), <<"%", "H", ":", "%", "M">>>>,
     <<Percent("T"), <<"%", "H", ":", "%", "M", ":", "%", "S">>>>,
     <<Percent("+"), <<"[", "%", "Y", "-", "%", "m", "-", "%", "d", " ",
       "%", "H", ":", "%", "M", ":", "%", "S", ".", "%", "e", "]", " ",
       "[", "%", "n", "]", " ", "[", "%", "^", "%", "l", "%", "$", "]", " ",
       "%", "v">>>>}

\* A flag that is short for a pattern prints what the pattern prints, and has
\* the same part of it coloured, wherever in a pattern it stands.
ShorthandsAreTheirPatterns ==
    \A s \in Shorthands :
        formatted # <<>> /\ pattern = s[1] =>
            \A prefix \in {<<>>, <<"x">>, <<"%", "q">>} :
                Formatted(prefix \o s[1], msg) = Formatted(prefix \o s[2], msg)

\* The twelve-hour clock with AM or PM tells the time: two messages of different
\* times of the day never show the same %r.
ClockTellsTheTime ==
    pattern = <<"%", "r">> /\ formatted # <<>> =>
        \A m \in Messages :
            Formatted(pattern, m).text = formatted.text => Time(m) = Time(msg)

\* The three fractions of the second agree: the digits of the coarser ones
\* begin those of the finer ones, so that lines sort by the time they show.
FractionsAgree ==
    pattern = <<"%", "F">> /\ formatted # <<>> =>
        /\ IsPrefix(FlagText("e", msg), FlagText("f", msg))
        /\ IsPrefix(FlagText("f", msg), formatted.text)
=============================================================================
