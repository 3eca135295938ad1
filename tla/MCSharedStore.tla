--------------------------- MODULE MCSharedStore ---------------------------
(* Small instances of SharedStore for TLC: each bench has one actor. *)
EXTENDS SharedStore, TLC

CONSTANTS i1, key1, s1

MCIdOf == key1 :> i1

=============================================================================
