----------------------------- MODULE MCGenesis -----------------------------
(* Constants for model checking Genesis. *)
EXTENDS Genesis, TLC

CONSTANTS m1, m2, key_signer, key_root, key_faucet, key_other

(* The code of each type that genesis creates stands as its number. *)
GenesisTypes == {1, 2, 3, 4, 5, 7, 9, 10, 11, 12, 15}
MCCodeById == [m \in Manifests |-> [t \in GenesisTypes |-> t]]
MCPlainStates == GenesisStates

MCBundles ==
  {[manifest |-> m1, blocks |-> {RootBlock(m1), ManifestBlock(m1)}],
   [manifest |-> m1, blocks |-> {RootBlock(m1)}]}

(* The caller creates the Init actor, or an actor under the ID that the    *)
(* first account after genesis is given.                                   *)
MCSingletons ==
  {[type |-> 2, id |-> InitId, state |-> NewInitState],
   [type |-> 4, id |-> 103, state |-> AccountState(key_other)]}
MCAccounts == {[type |-> 4, state |-> AccountState(key_other)]}

DefaultSpec ==
  [system_manifest_cid |-> m1, reward_balance |-> 9, faucet_balance |-> 9,
   verifreg_signer |-> key_signer, faucet |-> key_faucet]

(* Another manifest, other balances, and one address for both accounts.    *)
OtherSpec ==
  [system_manifest_cid |-> m2, reward_balance |-> 0, faucet_balance |-> 9,
   verifreg_signer |-> key_faucet, faucet |-> key_faucet]
MCSpecs == {DefaultSpec, OtherSpec}

=============================================================================
