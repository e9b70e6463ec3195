------------------------------- MODULE MCText -------------------------------
(***************************************************************************)
(* The parts of the logging library that one thread runs at a time, in     *)
(* small instances: files, patterns, format strings, numbers and buffers.  *)
(* The parts have no state in common, so that a property of one of them    *)
(* cannot tell whether the others take steps: in a behaviour one part      *)
(* does, whichever it is, and the others stay as they begin.               *)
(***************************************************************************)
EXTENDS MemoryBuffer, FileSinks, TLC

CONSTANTS
    ActiveParts,    \* the parts that may be the one that takes steps
    MaxLength       \* bound: length of a format string of any characters

VARIABLES
    part,
    pattern, msg, formatted,
    buffer, last,
    f, start, fmtText, done, pieces,
    cells, used, value, spec, offset, pc, before

Pattern == INSTANCE MCPatterns

Sets == INSTANCE MCWriter WITH W <- 30, thousands_sep <- <<",">>

\* A word of 30 bits, whose largest number TLC can still add to.
Writer == INSTANCE BasicWriter WITH
    W <- 30, thousands_sep <- <<",">>, IntWrites <- Sets!MCIntWrites,
    StringWrites <- Sets!MCStringWrites, CharWrites <- Sets!MCCharWrites,
    Earlier <- {<<>>, <<"a">>}, MaxCalls <- 1

Format == INSTANCE MCFormat WITH max_int <- 20, text <- fmtText

\* A buffer with hardly any room, and either C library.
Double == INSTANCE WriteDouble WITH
    W <- 8, thousands_sep <- <<>>, Values <- Sets!MCDoubleValues,
    Specs <- Sets!MCDoubleSpecs, Earlier <- {<<>>, <<"a", "b">>},
    Capacities <- {2, 3, 16}, Msc <- FALSE, size <- used

MscDouble == INSTANCE WriteDouble WITH
    W <- 8, thousands_sep <- <<>>, Values <- Sets!MCDoubleValues,
    Specs <- Sets!MCDoubleSpecs, Earlier <- {<<>>, <<"a", "b">>},
    Capacities <- {2, 3, 16}, Msc <- TRUE, size <- used

\* What the proofs about floating-point numbers ask of these constants.
ASSUME DoublesAreSuch ==
    /\ Double!FloatAssumption /\ Double!PlainCharacters
    /\ MscDouble!FloatAssumption /\ MscDouble!PlainCharacters

patternVars == <<pattern, msg, formatted>>
writerVars == <<buffer, last>>
formatVars == <<f, start, fmtText, done, pieces>>
doubleVars == <<cells, used, value, spec, offset, pc, before>>
textVars == <<part, vars, filesVars, patternVars,
              writerVars, formatVars, doubleVars>>

-----------------------------------------------------------------------------
Asleep == "asleep"

PatternInit ==
    IF part = "pattern" THEN Pattern!Init
    ELSE pattern = Asleep /\ msg = Asleep /\ formatted = <<>>

WriterInit ==
    IF part = "writer" THEN Writer!Init
    ELSE buffer = <<>> /\ last = [op |-> "none"]

FormatInit ==
    CASE part = "format" -> Format!AnyInit
      [] part = "pieces" -> Format!PiecesInit
      [] OTHER -> /\ f = Format!Formatter(<<>>, <<>>) /\ start = 1 /\ fmtText = <<>>
                  /\ done = FALSE /\ pieces = <<>>

DoubleInit ==
    IF part \in {"double", "msc_double"} THEN Double!Init
    ELSE /\ cells = <<>> /\ used = 0 /\ value = Asleep /\ spec = Asleep
         /\ offset = 0 /\ pc = "asleep" /\ before = [size |-> 0]

TextInit ==
    /\ part \in ActiveParts
    /\ Init
    /\ FilesInit
    /\ part # "daily" => dayNow = 0
    /\ PatternInit /\ WriterInit /\ FormatInit /\ DoubleInit

\* What the step of a part leaves as it is.
Others(p) ==
    /\ UNCHANGED part
    /\ p # "buffer" => UNCHANGED vars
    /\ p # "files" => UNCHANGED filesVars
    /\ p # "pattern" => UNCHANGED patternVars
    /\ p # "writer" => UNCHANGED writerVars
    /\ p # "format" => UNCHANGED formatVars
    /\ p # "double" => UNCHANGED doubleVars

TextNext ==
    \/ part = "buffer" /\ Next /\ Others("buffer")
    \/ part = "rotating" /\ RotatingStep /\ Others("files")
    \/ part = "daily" /\ DailyStep /\ Others("files")
    \/ part = "step" /\ StepStep /\ Others("files")
    \/ part = "pattern" /\ Pattern!Next /\ Others("pattern")
    \/ part = "writer" /\ Writer!Next /\ Others("writer")
    \/ /\ part \in {"format", "pieces"}
       /\ Format!Next /\ UNCHANGED pieces /\ Others("format")
    \/ part = "double" /\ Double!Next /\ Others("double")
    \/ part = "msc_double" /\ MscDouble!Next /\ Others("double")

TextSpec == TextInit /\ [][TextNext]_textVars

\* What is in a buffer does not depend on which buffer and which blocks it is.
Symmetry == Permutations(Buffers) \union Permutations(Blocks)

-----------------------------------------------------------------------------
\* What a pattern or a format string stands for is what is printed. Patterns: no
\* flag that is unknown is dropped, a flag that is short for a pattern prints
\* what the pattern prints, the twelve-hour clock tells the time and the three
\* fractions of the second agree. Format strings: arguments are picked in one of
\* two ways, never in both, none is skipped, a field asks of its argument what
\* its type allows, and a string put together from pieces means what they mean.
FormatsMeanWhatTheySay ==
    /\ Pattern!TypeOK
    /\ part = "pattern" =>
          /\ Pattern!UnknownAppearsAsIs
          /\ Pattern!ShorthandsAreTheirPatterns
          /\ Pattern!ClockTellsTheTime
          /\ Pattern!FractionsAgree
    /\ part \in {"format", "pieces"} =>
          /\ Format!TypeOK
          /\ Format!NeverMixed
          /\ Format!TakenInOrder
          /\ Format!FieldsSuitArguments
    /\ part = "pieces" => Format!MeansItsPieces

\* What was written is whole. A buffer holds the texts put into it, with room
\* for them, through growth, moves and assignments. No character of a field is
\* left as memory happened to hold it, and a number reads back as the one that
\* was written, the smallest too: the ways to write it agree, in a field of the
\* width, grouping and alignment asked for. A floating-point number arrives
\* behind the earlier text, with either C library.
TextIsWhole ==
    /\ TypeOK
    /\ CapacityIsStorage
    /\ ContentsKept
    /\ Writer!EveryPlaceIsWritten
    /\ part = "writer" =>
          /\ Writer!NumberReadsBack
          /\ Writer!FieldHasItsWidth
          /\ Writer!CentredIsCentred
          /\ Writer!GroupsOfThree
          /\ Writer!DecimalsAgree
    /\ part = "double" => /\ Double!TypeOK
                          /\ Double!FieldHasItsWidth
                          /\ Double!PaddedWithFill
    /\ part = "msc_double" => MscDouble!TypeOK
    /\ part \in {"double", "msc_double"} => /\ Double!EarlierTextStays
                                            /\ Double!NumberArrives

\* No step goes back on what earlier steps have done. Of the files by size only
\* the oldest is deleted; after a rotation is due the old file by day stays as it
\* is; a full file by step grows only in the second it was begun in. The writer
\* leaves alone what is in its buffer, the formatter moves on in its string or is
\* done, and a buffer too small for a floating-point number grows.
NoStepGoesBack ==
    /\ Rotating!OnlyTheOldestIsDeleted
    /\ Daily!RotatesOnTime
    /\ Step!FixedFileSizePerSecond
    /\ Writer!EarlierTextStays
    /\ Format!EachStepAdvances
    /\ Double!RoundsMakeRoom
=============================================================================
