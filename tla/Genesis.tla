------------------------------ MODULE Genesis ------------------------------
(***************************************************************************)
(* create_genesis_actors (builtin/src/genesis.rs) over the builder: the    *)
(* actors of a fresh chain are created one by one, each with ids that the  *)
(* earlier ones were given, and the first failure ends the call.  Its      *)
(* caller may use the builder before and after, and may call it again, as  *)
(* nothing that a failed call created is taken back.                       *)
(***************************************************************************)
EXTENDS Builder, FiniteSetsExt

CONSTANTS
  Specs,            \* GenesisSpecs that callers pass
  RootAddress,      \* the address of the multisig, "VerifiedRegistryRoot"
  CallerAddresses,  \* addresses that the caller itself registers
  CallerBalances,   \* balances of the actors that it creates
  MaxCalls          \* bound: calls of create_genesis_actors

VARIABLES
  genesis,      \* "none", "running", "failed", or "ok" when it has returned
  spec,         \* the GenesisSpec of the last call
  created,      \* number of actors that this call has created
  assigned,     \* IDs of the actors that it was given back
  calls,        \* number of calls so far
  own           \* history: IDs whose actor the caller has created, not the call

genesisVars == <<genesis, spec, created, assigned, calls, own>>
vars == <<builderVars, genesisVars>>

(* States of the actors; those that hold nothing of interest are their     *)
(* kind.                                                                   *)
AccountState(address) == [kind |-> "account", address |-> address]
MultisigState(signer) == [kind |-> "multisig", signer |-> signer]
VerifregState(root) == [kind |-> "verifreg", root |-> root]
Kind(k) == [kind |-> k]
BurntAddress == 99

GenesisStates ==
  {Kind(k) : k \in {"reward", "cron", "power", "market", "datacap", "eam"}}
    \cup {AccountState(a) : a \in Addresses \cup {BurntAddress}}
    \cup {MultisigState(id) : id \in Ids}
    \cup {VerifregState(id) : id \in Ids}

ASSUME GenesisAssumption ==
  /\ GenesisStates \subseteq PlainStates
  /\ {2, 3, 4, 5, 6, 7, 10, 99} \subseteq Ids
  /\ RootAddress \in Addresses /\ CallerAddresses \subseteq Addresses
  /\ Specs \subseteq [system_manifest_cid : Manifests, reward_balance : Balances,
                      faucet_balance : Balances, verifreg_signer : Addresses,
                      faucet : Addresses]
  /\ 0 \in Balances /\ Balances \subseteq Nat /\ CallerBalances \subseteq Balances
  /\ MaxCalls \in Nat

(* Singletons of the chain have IDs of their own, below those that are     *)
(* assigned.                                                               *)
ASSUME SingletonIdAssumption ==
  \A id \in {2, 3, 4, 5, 6, 7, 10, 99} : id \notin {SystemId, InitId} /\ id < FirstId

(* The accounts have keys for addresses, the multisig an actor's address   *)
(* (genesis.rs:33-35, 149), and the caller registers others.               *)
ASSUME AddressAssumption ==
  \A s \in Specs :
    /\ RootAddress \notin {s.verifreg_signer, s.faucet}
    /\ CallerAddresses \cap {RootAddress, s.verifreg_signer, s.faucet} = {}

-----------------------------------------------------------------------------
(* The actors, in the order of their creation.                             *)

SingletonActor(type, id, state, balance) ==
  [type |-> type, id |-> id, state |-> state, balance |-> balance]
AddressedActor(name, type, address, state, balance) ==
  [name |-> name, type |-> type, address |-> address, state |-> state, balance |-> balance]

Names == {"verifreg_signer", "verifreg_root", "faucet"}

(* Mutants of GenesisActors: the faucet comes before the multisig; the     *)
(* registry is given the signer for its root.                              *)
GenesisActorsFaucetFirst(s, ids) ==
  << SingletonActor(1, SystemId, SystemState(s.system_manifest_cid), 0),
     SingletonActor(2, InitId, NewInitState, 0),
     AddressedActor("verifreg_signer", 4, s.verifreg_signer,
                    AccountState(s.verifreg_signer), 0),
     AddressedActor("faucet", 4, s.faucet, AccountState(s.faucet), s.faucet_balance),
     AddressedActor("verifreg_root", 9, RootAddress,
                    MultisigState(ids["verifreg_signer"]), 0) >>

GenesisActorsSignerIsRoot(s, ids) ==
  << SingletonActor(1, SystemId, SystemState(s.system_manifest_cid), 0),
     SingletonActor(2, InitId, NewInitState, 0),
     AddressedActor("verifreg_signer", 4, s.verifreg_signer,
                    AccountState(s.verifreg_signer), 0),
     AddressedActor("verifreg_root", 9, RootAddress,
                    MultisigState(ids["verifreg_signer"]), 0),
     SingletonActor(11, 6, VerifregState(ids["verifreg_signer"]), 0) >>

GenesisActors(s, ids) ==
  << SingletonActor(1, SystemId, SystemState(s.system_manifest_cid), 0),
     SingletonActor(2, InitId, NewInitState, 0),
     SingletonActor(10, 2, Kind("reward"), s.reward_balance),
     SingletonActor(3, 3, Kind("cron"), 0),
     SingletonActor(5, 4, Kind("power"), 0),
     SingletonActor(7, 5, Kind("market"), 0),
     AddressedActor("verifreg_signer", 4, s.verifreg_signer,
                    AccountState(s.verifreg_signer), 0),
     AddressedActor("verifreg_root", 9, RootAddress,
                    MultisigState(ids["verifreg_signer"]), 0),
     SingletonActor(11, 6, VerifregState(ids["verifreg_root"]), 0),
     SingletonActor(12, 7, Kind("datacap"), 0),
     SingletonActor(15, 10, Kind("eam"), 0),
     SingletonActor(4, BurntAddress, AccountState(BurntAddress), 0),
     AddressedActor("faucet", 4, s.faucet, AccountState(s.faucet), s.faucet_balance) >>

(* Mutant of TotalSupply: what is in circulation only. *)
TotalSupplyCirculating(s) == s.faucet_balance

TotalSupply(s) == s.faucet_balance + s.reward_balance

-----------------------------------------------------------------------------
GenesisInit ==
  /\ BuilderInit
  /\ genesis = "none" /\ created = 0
  /\ spec \in Specs
  /\ assigned = [n \in Names |-> None]
  /\ calls = 0
  /\ own = {}

(* A call begins with its spec and nothing else.                           *)
CreateGenesisActors(s) ==
  /\ status = "running" /\ genesis # "running"
  /\ calls < MaxCalls /\ calls' = calls + 1
  /\ genesis' = "running" /\ created' = 0
  /\ spec' = s
  /\ assigned' = [n \in Names |-> None]
  /\ UNCHANGED <<builderVars, own>>

(* The call of the builder for the next actor.  State::new, where there is *)
(* one, puts blocks too, and fails as the put of the actor's state does.   *)
CreateNext(outcome) ==
  LET actors == GenesisActors(spec, assigned)
      actor == actors[created + 1]
      singleton == "id" \in DOMAIN actor
  IN /\ genesis = "running"
     /\ IF singleton
        THEN CreateSingletonActor(outcome, actor.type, actor.id, actor.state, actor.balance)
        ELSE CreateBuiltinActor(outcome, actor.type, actor.address, actor.state, actor.balance)
     /\ UNCHANGED <<spec, calls>>
     /\ IF outcome = "created"
        THEN /\ created' = created + 1
             /\ genesis' = IF created' = Len(actors) THEN "ok" ELSE "running"
             /\ assigned' = IF singleton THEN assigned
                            ELSE [assigned EXCEPT ![actor.name] = NextId]
             /\ own' = own \ {IF singleton THEN actor.id ELSE NextId}
        ELSE /\ genesis' = "failed"
             /\ UNCHANGED <<created, assigned, own>>

(* The empty map of the multisig cannot be put: the unwrap panics.         *)
EmptyMapFails ==
  /\ genesis = "running" /\ status = "running"
  /\ "name" \in DOMAIN GenesisActors(spec, assigned)[created + 1]
  /\ GenesisActors(spec, assigned)[created + 1].name = "verifreg_root"
  /\ Panic
  /\ genesis' = "failed"
  /\ UNCHANGED <<builtin_manifest_data_cid, builtin_manifest, state_tree, blocks, roots,
                 benches, put_failed, exposed, spec, created, assigned, calls, own>>

(* What the caller does with the builder outside the call.  Once genesis   *)
(* is through it creates no singleton in the place of an actor that is     *)
(* there: a caller that does so takes the chain of the call apart.         *)
CallerSingleton(outcome, new, balance) ==
  /\ genesis = "ok" => ~Exists(state_tree, new.id)
  /\ CreateSingletonActor(outcome, new.type, new.id, new.state, balance)
  /\ own' = own \cup IF outcome = "created" THEN {new.id} ELSE {}

CallerAccount(outcome, new, address, balance) ==
  /\ CreateBuiltinActor(outcome, new.type, address, new.state, balance)
  /\ own' = own \cup IF outcome = "created" THEN {NextId} ELSE {}

CallerStep ==
  /\ genesis # "running"
  /\ \/ \E bundle \in Bundles : InstallBundle(bundle) /\ UNCHANGED own
     \/ \E outcome \in Outcomes, new \in Singletons, balance \in CallerBalances :
          CallerSingleton(outcome, new, balance)
     \/ \E outcome \in Outcomes, new \in Accounts, address \in CallerAddresses,
           balance \in CallerBalances :
          CallerAccount(outcome, new, address, balance)
  /\ UNCHANGED <<genesis, spec, created, assigned, calls>>

(* setup builds the bench with the circulating supply that the call        *)
(* returned.  Building leaves the builder's tree alone, so that building   *)
(* at other times makes no difference to a call.                           *)
BuildGenesis ==
  /\ genesis = "ok"
  /\ Build(spec.faucet_balance)
  /\ UNCHANGED genesisVars

GenesisNext ==
  \/ \E s \in Specs : CreateGenesisActors(s)
  \/ \E outcome \in Outcomes : CreateNext(outcome)
  \/ EmptyMapFails
  \/ CallerStep
  \/ BuildGenesis

GenesisSpec == GenesisInit /\ [][GenesisNext]_vars

-----------------------------------------------------------------------------
(* The IDs of signer, multisig and faucet are the first three that the     *)
(* Init actor assigns, which the tests that use the faucet rely on         *)
(* (builtin/src/lib.rs:26), and their addresses resolve to them.  So also  *)
(* if the caller had registered addresses, or earlier calls had failed at  *)
(* any place: the call creates the Init actor anew (genesis.rs:74-80).     *)
GenesisIds ==
  genesis = "ok" =>
    /\ assigned = [verifreg_signer |-> FirstId, verifreg_root |-> FirstId + 1,
                   faucet |-> FirstId + 2]
    /\ AddressMap(state_tree)[RootAddress] = assigned["verifreg_root"]
    /\ AddressMap(state_tree)[spec.faucet] = assigned["faucet"]
    /\ spec.verifreg_signer # spec.faucet =>
         AddressMap(state_tree)[spec.verifreg_signer] = assigned["verifreg_signer"]

(* The registry's root is the multisig and its signer the account of the   *)
(* spec (genesis.rs:139, :156): the IDs passed on are those of the actors  *)
(* of this call, none of an earlier one that failed.                       *)
GenesisLinked ==
  genesis = "ok" =>
    LET root == state_tree[6].state.root
        signer == state_tree[root].state.signer
    IN /\ state_tree[root].state.kind = "multisig"
       /\ state_tree[signer].state = AccountState(spec.verifreg_signer)

(* The balances of all actors sum to the total supply that the call        *)
(* reports (genesis.rs:203), against which the tests check the chain, but  *)
(* for those that the caller has given to actors of its own: nothing is    *)
(* left of what earlier calls gave out, to whatever spec and however far   *)
(* they got, nor of caller's actors in whose place the call put its own.   *)
SupplyAgrees ==
  genesis = "ok" =>
    MapThenSumSet(LAMBDA id : state_tree[id].balance,
                  {id \in Ids \ own : Exists(state_tree, id)})
      = TotalSupply(spec)

(* A tree after genesis can be built if its spec names the manifest that   *)
(* was installed, as setup's does (lib.rs:23-27).                          *)
GenesisBuildable ==
  genesis = "ok" /\ spec.system_manifest_cid = builtin_manifest => MachineLoads(state_tree)

=============================================================================
