----------------------------- MODULE MCProgram ------------------------------
(***************************************************************************)
(* What main does around the scan loop, in two parts that have no state in *)
(* common, so that a property of one of them cannot tell whether the other *)
(* takes steps: in a behaviour one part does and the other stays as it     *)
(* begins. The part "seeds" has a small generator with a full period (3 is *)
(* a primitive root of 31) and files that earlier runs of the program may  *)
(* have left; the part "objects" has two pairs and two runs.               *)
(***************************************************************************)
EXTENDS Seeds

MCStartingKernels == {1, 12}

\* No file, one for the same network, one that is a seed short, one that is a
\* run short, and one for a larger network.
MCOldFiles ==
    { <<>>,
      << <<9, 19, 16, 20>>, <<25, 8, 10, 28>> >>,
      << <<9, 19, 16>>, <<25, 8, 10>> >>,
      << <<9, 19, 16, 20>> >>,
      << <<9, 19, 16, 20, 25, 8, 10>>, <<28, 4, 5, 14, 2, 18, 7>> >> }

CONSTANTS
    ObjectPairs,    \* pairs of the part "objects"
    Addresses,      \* addresses of its packets and of its transmissions
    ObjectRuns      \* bound: its runs

VARIABLES part, pc, live, wrong, buffer, channel, endTran, endTime, rngs, runs

Objects == INSTANCE Ownership WITH
    RxTxCount <- ObjectPairs, Runs <- ObjectRuns

ASSUME ObjectsAssumption == Objects!OwnershipAssumption

objectVars == <<pc, live, wrong, buffer, channel, endTran, endTime, rngs, runs>>
programVars == <<part, vars, objectVars>>

ProgramInit ==
    /\ part \in {"seeds", "objects"}
    /\ Init
    /\ part = "objects" => file = <<>> /\ prime = 1
    /\ Objects!Init

ProgramNext ==
    \/ part = "seeds" /\ Next /\ UNCHANGED <<part, objectVars>>
    \/ part = "objects" /\ Objects!Next /\ UNCHANGED <<part, vars>>

ProgramSpec == ProgramInit /\ [][ProgramNext]_programVars

-----------------------------------------------------------------------------
\* Packets, transmissions and the objects of the network have one owner: none
\* is deleted twice, none is used after it was deleted, whatever runs and
\* resets left, and what belongs to the network is gone at the end.
ObjectsAreOwned ==
    /\ Objects!TypeOK
    /\ Objects!NothingIsDeletedTwice
    /\ Objects!RunOwnsItsObjects
    /\ Objects!EndsItsTransmission
    /\ Objects!NetworkIsDeleted
=============================================================================
