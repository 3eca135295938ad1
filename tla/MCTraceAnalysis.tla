-------------------------- MODULE MCTraceAnalysis --------------------------
(* Small instances of TraceAnalysis for TLC.  A charge of 600 milligas is  *)
(* less than one unit of gas alone, and more than one unit with another.   *)
EXTENDS TraceReference, TLC

CONSTANTS g1, g2, n1, n2

NamesSymmetry == Permutations({g1, g2}) \cup Permutations({n1, n2})

=============================================================================
