----------------------------- MODULE MCFvmBench -----------------------------
(* Small instances of FvmBench for TLC: two actors, one of them under two  *)
(* addresses, an ID address and a key address.                             *)
EXTENDS FvmBench, TLC

CONSTANTS i1, i2, id1, key1, key2, s1, s2

MCAddresses == {id1, key1, key2}
MCIdOf == id1 :> i1 @@ key1 :> i1 @@ key2 :> i2

=============================================================================
