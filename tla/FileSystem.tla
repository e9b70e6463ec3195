----------------------------- MODULE FileSystem -----------------------------
(***************************************************************************)
(* Files as the sinks use them, through file_helper and os: a function     *)
(* from the names in use to what was written, message by message.  Whether *)
(* a call succeeds is up to the caller's model.                            *)
(***************************************************************************)
EXTENDS Naturals, SequencesExt, Functions

Exists(files, n) == n \in DOMAIN files

Removed(files, n) == Restrict(files, DOMAIN files \ {n})

(* rename() puts the file in the place of one that has the name already.   *)
Renamed(files, old, new) ==
    [n \in (DOMAIN files \ {old}) \union {new} |-> IF n = new THEN files[old] ELSE files[n]]

(* fopen in mode "ab", and in mode "wb".                                   *)
OpenedToAppend(files, n) ==
    [f \in DOMAIN files \union {n} |-> IF Exists(files, f) THEN files[f] ELSE <<>>]
OpenedEmpty(files, n) ==
    [f \in DOMAIN files \union {n} |-> IF f = n THEN <<>> ELSE files[f]]

Written(files, n, m) == [files EXCEPT ![n] = Append(@, m)]
=============================================================================
