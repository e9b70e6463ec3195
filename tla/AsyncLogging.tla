---------------------------- MODULE AsyncLogging ----------------------------
(***************************************************************************)
(* What an asynchronous logger promises, with no queue and no thread in    *)
(* sight: the messages it accepted are handed to the sinks one by one, in  *)
(* the order of acceptance, each once, and none is left when it is gone.   *)
(* A sink may fail to write a message; that concerns that sink alone.      *)
(***************************************************************************)
EXTENDS Naturals, Sequences

CONSTANTS
    Message,    \* the messages that may be logged
    Sinks,
    Wants(_, _) \* Wants(s, m): the level of sink s lets message m through

VARIABLES
    accepted,   \* the messages accepted so far
    handled,    \* how many of them were handed to the sinks
    written,    \* what each sink has written
    closed      \* the logger is gone

vars == <<accepted, handled, written, closed>>

Init ==
    /\ accepted = <<>>
    /\ handled = 0
    /\ written = [s \in Sinks |-> <<>>]
    /\ closed = FALSE

Accept ==
    /\ ~closed
    /\ \E m \in Message : accepted' = Append(accepted, m)
    /\ UNCHANGED <<handled, written, closed>>

(* The next message goes to every sink that wants it and does not fail.    *)
Handle ==
    /\ handled < Len(accepted)
    /\ handled' = handled + 1
    /\ LET m == accepted[handled + 1]
       IN  \E writing \in SUBSET {s \in Sinks : Wants(s, m)} :
              written' = [s \in Sinks |-> IF s \in writing THEN Append(written[s], m)
                                                           ELSE written[s]]
    /\ UNCHANGED <<accepted, closed>>

Close ==
    /\ handled = Len(accepted)
    /\ closed' = TRUE
    /\ UNCHANGED <<accepted, handled, written>>

Next == Accept \/ Handle \/ Close

\* What may happen, and that what was accepted is handed on in the end.
SafeSpec == Init /\ [][Next]_vars

Spec == SafeSpec /\ WF_vars(Handle)
=============================================================================
