------------------------- MODULE MCInvocationTrace -------------------------
(* Small instances of InvocationTrace for TLC.                             *)
EXTENDS InvocationReference

CONSTANTS forbidden, e1

=============================================================================
