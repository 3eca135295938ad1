-------------------------- MODULE MCMessageTrace --------------------------
(* Small instances of MessageTrace for TLC. *)
EXTENDS MessageTrace

CONSTANTS g1, n1, e1

=============================================================================
