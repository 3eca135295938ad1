----------------------------- MODULE MCWrangler -----------------------------
(* Small instances of Wrangler for TLC: two actors, one of them under two  *)
(* addresses, an ID address and a key address.                             *)
EXTENDS Wrangler, TLC

CONSTANTS i1, i2, id1, key1, key2, s1

MCAddresses == {id1, key1, key2}
(* Both addresses of i1 resolve at once and play the same part. *)
AliasSymmetry == Permutations({id1, key1})
MCIdOf == id1 :> i1 @@ key1 :> i1 @@ key2 :> i2

=============================================================================
