----------------------------- MODULE MCBuilder -----------------------------
(* Constants for model checking Builder. *)
EXTENDS Builder, TLC

CONSTANTS m1, m2, system1, init1, eth1, system2, a1

Bundle(m, present) == [manifest |-> m, blocks |-> present]
Whole(m) == Bundle(m, {RootBlock(m), ManifestBlock(m)})
RootOnly(m) == Bundle(m, {RootBlock(m)})
ManifestOnly(m) == Bundle(m, {ManifestBlock(m)})
Singleton(type, id, state) == [type |-> type, id |-> id, state |-> state]
Account(type, state) == [type |-> type, state |-> state]
Plain == [kind |-> "plain"]

MCPlainStates == {Plain}

(* Two manifests, the first of the types 1 (System), 2 (Init) and 16       *)
(* (EthAccount, the last there is), the second with a type less.  Neither  *)
(* has a type 17.                                                          *)
MCCodeById ==
  m1 :> (1 :> system1 @@ 2 :> init1 @@ 16 :> eth1) @@ m2 :> (1 :> system2 @@ 2 :> init1)
MCBundles == {Whole(m1), RootOnly(m2), ManifestOnly(m2), Whole(m2)}
MCSingletons ==
  {Singleton(1, 0, SystemState(m1)), Singleton(1, 0, SystemState(m2)),
   Singleton(2, 1, NewInitState), Singleton(16, 3, Plain)}
MCAccounts == {Account(16, Plain), Account(17, Plain)}

=============================================================================
