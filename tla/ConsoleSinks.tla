---------------------------- MODULE ConsoleSinks ----------------------------
(***************************************************************************)
(* The sinks that write to a console in colours: one per stream, each with *)
(* a mutex of its own, used by several threads. wincolor_sink sets the     *)
(* attributes of the console around the range to be coloured and puts back *)
(* those it found; ansicolor_sink writes escape codes to the stream, which *)
(* has the same effect. Attributes are sets of colour bits.                *)
(***************************************************************************)
EXTENDS Integers, Sequences

CONSTANTS
    Threads,
    Sinks,      \* sinks of one console
    Kind,       \* "wincolor" or "ansicolor"
    Foreground, \* bits of the foreground
    Default,    \* attributes the console begins with
    colors,     \* by level: its attributes
    ShouldDoColors, \* whether an ANSI terminal was found
    MaxMessages \* bound: messages

NoThread == "none"

\* What the constants have to be.
ConsoleAssumption ==
    /\ NoThread \notin Threads
    /\ Kind \in {"wincolor", "ansicolor"}
    /\ ShouldDoColors \in BOOLEAN
    /\ MaxMessages \in Nat

Levels == DOMAIN colors

VARIABLES
    attributes, \* of the console
    screen,     \* what is shown: parts of messages with their attributes
    mutex,      \* by sink: the thread that holds it, or NoThread
    call,       \* by thread: the message it writes and where it is with it
    sent

vars == <<attributes, screen, mutex, call, sent>>

Idle == [pc |-> "idle"]

Init ==
    /\ attributes = Default
    /\ screen = <<>>
    /\ mutex = [s \in Sinks |-> NoThread]
    /\ call = [t \in Threads |-> Idle]
    /\ sent = 0

At(t, label) == call[t].pc = label
Go(t, label) == call' = [call EXCEPT ![t].pc = label]

\* A message is logged; its range to be coloured may be empty.
Log(t, s, level, ranged) ==
    /\ At(t, "idle")
    /\ sent < MaxMessages
    /\ sent' = sent + 1
    /\ call' = [call EXCEPT ![t] = [pc |-> "lock", sink |-> s, id |-> sent + 1,
                                    level |-> level, ranged |-> ranged,
                                    orig |-> Default]]
    /\ UNCHANGED <<attributes, screen, mutex>>

\* Without a terminal that shows colours the escape codes are left out.
Coloured(t) == call[t].ranged /\ (Kind = "ansicolor" => ShouldDoColors)

\* What writing the escape code of a colour, or the one that resets, comes to.
AfterCode(code) == attributes' = code
ResetCode == Default

\* Seeded defect: the mutex is taken only for messages with colours.
LockForColours(t) ==
    /\ At(t, "lock")
    /\ call[t].ranged => mutex[call[t].sink] = NoThread
    /\ mutex' = IF call[t].ranged THEN [mutex EXCEPT ![call[t].sink] = t] ELSE mutex
    /\ Go(t, IF Coloured(t) THEN "before" ELSE "plain")
    /\ UNCHANGED <<attributes, screen, sent>>

Lock(t) ==
    /\ At(t, "lock")
    /\ mutex[call[t].sink] = NoThread
    /\ mutex' = [mutex EXCEPT ![call[t].sink] = t]
    /\ Go(t, IF Coloured(t) THEN "before" ELSE "plain")
    /\ UNCHANGED <<attributes, screen, sent>>

print_range(t, parts) ==
    screen' = screen \o [i \in DOMAIN parts |->
                            [id |-> call[t].id, level |-> call[t].level,
                             part |-> parts[i], attributes |-> attributes]]

PrintPlain(t) ==
    /\ At(t, "plain")
    /\ print_range(t, <<"before", "range", "after">>)
    /\ Go(t, "unlock")
    /\ UNCHANGED <<attributes, mutex, sent>>

PrintBefore(t) ==
    /\ At(t, "before")
    /\ print_range(t, <<"before">>)
    /\ Go(t, "color")
    /\ UNCHANGED <<attributes, mutex, sent>>

\* Seeded defect: the attributes found are not kept.
SetColorOnly(t) ==
    /\ At(t, "color")
    /\ IF Kind = "wincolor"
       THEN attributes' = colors[call[t].level] \union (attributes \ Foreground)
       ELSE AfterCode(colors[call[t].level])
    /\ call' = [call EXCEPT ![t].pc = "range", ![t].orig = attributes']
    /\ UNCHANGED <<screen, mutex, sent>>

\* set_console_attribs reads the attributes, keeps them, and sets those of the
\* level on the background it found; an escape code just sets the attributes.
SetColor(t) ==
    /\ At(t, "color")
    /\ IF Kind = "wincolor"
       THEN attributes' = colors[call[t].level] \union (attributes \ Foreground)
       ELSE AfterCode(colors[call[t].level])
    /\ call' = [call EXCEPT ![t].pc = "range", ![t].orig = attributes]
    /\ UNCHANGED <<screen, mutex, sent>>

PrintRange(t) ==
    /\ At(t, "range")
    /\ print_range(t, <<"range">>)
    /\ Go(t, "reset")
    /\ UNCHANGED <<attributes, mutex, sent>>

\* Seeded defect: the attributes are not put back.
ResetNothing(t) ==
    /\ At(t, "reset")
    /\ Go(t, "after")
    /\ UNCHANGED <<attributes, screen, mutex, sent>>

ResetColor(t) ==
    /\ At(t, "reset")
    /\ IF Kind = "wincolor" THEN attributes' = call[t].orig ELSE AfterCode(ResetCode)
    /\ Go(t, "after")
    /\ UNCHANGED <<screen, mutex, sent>>

\* Seeded defect: the range is printed again with what comes after it.
PrintAfterStart(t) ==
    /\ At(t, "after")
    /\ print_range(t, <<"range", "after">>)
    /\ Go(t, "unlock")
    /\ UNCHANGED <<attributes, mutex, sent>>

PrintAfter(t) ==
    /\ At(t, "after")
    /\ print_range(t, <<"after">>)
    /\ Go(t, "unlock")
    /\ UNCHANGED <<attributes, mutex, sent>>

\* Seeded defect: the mutex of a message without colours is not released.
UnlockRanged(t) ==
    /\ At(t, "unlock")
    /\ mutex' = IF call[t].ranged
                THEN [mutex EXCEPT ![call[t].sink] = NoThread] ELSE mutex
    /\ call' = [call EXCEPT ![t] = Idle]
    /\ UNCHANGED <<attributes, screen, sent>>

Unlock(t) ==
    /\ At(t, "unlock")
    /\ mutex' = [mutex EXCEPT ![call[t].sink] = NoThread]
    /\ call' = [call EXCEPT ![t] = Idle]
    /\ UNCHANGED <<attributes, screen, sent>>

Next ==
    \E t \in Threads :
        \/ \E s \in Sinks, level \in Levels, ranged \in BOOLEAN :
              Log(t, s, level, ranged)
        \/ Lock(t) \/ PrintPlain(t)
        \/ PrintBefore(t) \/ SetColor(t) \/ PrintRange(t)
        \/ ResetColor(t) \/ PrintAfter(t) \/ Unlock(t)

Spec == Init /\ [][Next]_vars

-----------------------------------------------------------------------------

\* Types; and a mutex is held by the thread, and only by the thread, that is
\* writing to its sink.
TypeOK ==
    /\ attributes \subseteq Foreground \union Default \union UNION {colors[l] : l \in Levels}
    /\ \A t \in Threads, s \in Sinks :
          mutex[s] = t <=> ~ At(t, "idle") /\ ~ At(t, "lock") /\ call[t].sink = s

\* With one sink for the console the pieces of a message come without others in
\* between: the mutex is held from the first to the last.
MessagesAreWhole ==
    \A i, j \in DOMAIN screen :
        i < j /\ screen[i].id = screen[j].id =>
            \A k \in i..j : screen[k].id = screen[i].id

\* Every message is shown once, its parts in their order, whichever of its parts
\* is coloured.
PartsInOrder ==
    \A i, j \in DOMAIN screen :
        screen[i].id = screen[j].id /\ i < j =>
            <<screen[i].part, screen[j].part>> \in
                {<<"before", "range">>, <<"range", "after">>, <<"before", "after">>}

\* Only the range to be coloured is: what comes before and after it is shown with
\* the attributes the console began with.
RestIsPlain ==
    \A i \in DOMAIN screen :
        screen[i].part # "range" => screen[i].attributes = Default

\* The comment in _sink_it, "reset to orig colors": when no message is being
\* written the console has the attributes it had before.
OrigColors ==
    (\A t \in Threads : At(t, "idle")) => attributes = Default
=============================================================================
