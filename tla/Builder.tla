------------------------------ MODULE Builder ------------------------------
(***************************************************************************)
(* FvmBenchBuilder (vm/src/builder.rs): installs the code of the built-in  *)
(* actors, creates actors in a state tree, and builds benches from it, any *)
(* number of them over the one store it was given.                         *)
(*                                                                         *)
(* A block is modelled by its content and stands for its CID.  The Init    *)
(* actor's table of addresses is part of its state, as in the code: who    *)
(* rewrites that actor rewrites the table.                                 *)
(***************************************************************************)
EXTENDS Naturals, Sequences, FiniteSets

CONSTANTS
  Ids,          \* actor IDs
  SystemId,     \* SYSTEM_ACTOR_ID
  InitId,       \* INIT_ACTOR_ID
  FirstId,      \* FIRST_NON_SINGLETON_ADDR: the first ID that the Init actor assigns
  Addresses,    \* addresses that are registered with the Init actor
  TypeIds,      \* numbers of the types of built-in actors
  Codes,        \* CIDs of actor code
  Manifests,    \* CIDs of manifest data
  CodeById,     \* for each manifest the code of each type it has
  Bundles,      \* bundles of actor code that may be installed
  PlainStates,  \* states of actors other than System and Init
  Singletons,   \* type, ID and state of singletons that are created
  Accounts,     \* type and state of actors that are created with an address
  Balances,     \* balances of actors, and circulating supplies
  NoActor,      \* absence of an actor under an ID
  None,         \* Option::None
  MaxRoots,     \* bound: state trees that are flushed
  MaxBenches    \* bound: benches that are built

ASSUME IdAssumption ==
  /\ Ids \subseteq Nat /\ FirstId \in Nat
  /\ SystemId \in Ids /\ InitId \in Ids /\ SystemId # InitId
  /\ SystemId < FirstId /\ InitId < FirstId

(* Different types of actors have different code. *)
ASSUME ManifestAssumption ==
  \A m \in Manifests :
    /\ DOMAIN CodeById[m] \subseteq TypeIds
    /\ \A t \in DOMAIN CodeById[m] : CodeById[m][t] \in Codes
    /\ \A t, u \in DOMAIN CodeById[m] : CodeById[m][t] = CodeById[m][u] => t = u
ASSUME NoneAssumption == None \notin Manifests \cup Ids
ASSUME BenchesAssumption == MaxBenches \in Nat /\ MaxRoots \in Nat

VARIABLES
  builtin_manifest_data_cid,
  builtin_manifest,     \* the manifest loaded from it
  state_tree,
  blocks,       \* blocks in the store
  roots,        \* state trees in the store
  benches,      \* the machine contexts of the benches built
  status,       \* "running", or "panicked" when the program has ended
  put_failed,   \* history: the store has failed to take a block
  exposed       \* history: IDs from FirstId on whose actor an Init actor did not
                \* know: a singleton, or one older than the Init actor

builderVars ==
  <<builtin_manifest_data_cid, builtin_manifest, state_tree, blocks, roots,
    benches, status, put_failed, exposed>>

(* States and other blocks.  The root of a bundle names its manifest.      *)
InitState(next_id, address_map) ==
  [kind |-> "init", next_id |-> next_id, address_map |-> address_map]
SystemState(builtin_actors) == [kind |-> "system", builtin_actors |-> builtin_actors]
RootBlock(m) == [kind |-> "bundle root", manifest |-> m]
ManifestBlock(m) == [kind |-> "manifest", manifest |-> m]

NewInitState == InitState(FirstId, [a \in Addresses |-> None])

InitStates == [kind : {"init"}, next_id : Nat, address_map : [Addresses -> Ids \cup {None}]]
SystemStates == [kind : {"system"}, builtin_actors : Manifests]
ActorStates == InitStates \cup SystemStates \cup PlainStates
BundleBlocks == [kind : {"bundle root", "manifest"}, manifest : Manifests]

ActorState == [code : Codes, state : ActorStates, balance : Balances]
ASSUME NoActorAssumption == NoActor \notin ActorState
ASSUME PlainAssumption ==
  \A s \in PlainStates : s.kind \notin {"init", "system", "bundle root", "manifest"}

ASSUME BundleAssumption ==
  Bundles \subseteq [manifest : Manifests, blocks : SUBSET BundleBlocks]

(* Whoever creates the Init actor gives it the state that it has when new. *)
ASSUME CreatedAssumption ==
  /\ Singletons \subseteq [type : TypeIds, id : Ids, state : ActorStates]
  /\ \A new \in Singletons : new.state.kind = "init" => new.state = NewInitState
  /\ Accounts \subseteq [type : TypeIds, state : ActorStates]

StateTree == [Ids -> ActorState \cup {NoActor}]
Exists(tree, id) == tree[id] # NoActor
StatesOf(tree) == {tree[id].state : id \in {i \in Ids : Exists(tree, i)}}

HasInit(tree) == Exists(tree, InitId) /\ tree[InitId].state \in InitStates
AddressMap(tree) ==
  IF HasInit(tree) THEN tree[InitId].state.address_map ELSE [a \in Addresses |-> None]

(* new_bare, over an empty store. *)
BuilderInit ==
  /\ builtin_manifest_data_cid = None
  /\ builtin_manifest = None
  /\ state_tree = [id \in Ids |-> NoActor]
  /\ blocks = {}
  /\ roots = {}
  /\ benches = <<>>
  /\ status = "running"
  /\ put_failed = FALSE
  /\ exposed = {}

Panic == status' = "panicked"

-----------------------------------------------------------------------------
(* install_builtin_actor_bundle.                                           *)

(* import_bundle: the blocks are put one by one.  A damaged bundle, one of *)
(* several roots, or a store that fails, leaves those put so far, and the  *)
(* unwrap of the import panics.                                            *)
ImportFails(bundle) ==
  /\ builtin_manifest = None
  /\ \E some \in SUBSET bundle.blocks : blocks' = blocks \cup some
  /\ Panic
  /\ UNCHANGED <<builtin_manifest_data_cid, builtin_manifest, state_tree, roots,
                 benches, put_failed, exposed>>

(* Mutant of Import: the manifest is taken for loaded once its CID is read. *)
ImportUnread(bundle) ==
  LET store == blocks \cup bundle.blocks
      m == bundle.manifest
      root_read == RootBlock(m) \in store
  IN /\ builtin_manifest = None
     /\ blocks' = store
     /\ builtin_manifest_data_cid' = IF root_read THEN m ELSE builtin_manifest_data_cid
     /\ builtin_manifest' = IF root_read THEN m ELSE builtin_manifest
     /\ UNCHANGED <<state_tree, roots, benches, status, put_failed, exposed>>

(* The root, and then the manifest, are read from the store, which may     *)
(* have what the bundle lacks.  The CID is set before the manifest loads.  *)
Import(bundle) ==
  LET store == blocks \cup bundle.blocks
      m == bundle.manifest
      root_read == RootBlock(m) \in store
      loaded == root_read /\ ManifestBlock(m) \in store
  IN /\ builtin_manifest = None
     /\ blocks' = store
     /\ builtin_manifest_data_cid' = IF root_read THEN m ELSE builtin_manifest_data_cid
     /\ builtin_manifest' = IF loaded THEN m ELSE builtin_manifest
     /\ UNCHANGED <<state_tree, roots, benches, status, put_failed, exposed>>

(* Mutant of InstallBundle: without the guard. *)
InstallBundleAgain(bundle) ==
  LET m == bundle.manifest
  IN /\ status = "running"
     /\ blocks' = blocks \cup bundle.blocks
     /\ builtin_manifest_data_cid' = m
     /\ builtin_manifest' = IF builtin_manifest = None THEN m ELSE builtin_manifest
     /\ UNCHANGED <<state_tree, roots, benches, status, put_failed, exposed>>

(* Once a manifest is loaded the call is refused. *)
InstallBundle(bundle) ==
  /\ status = "running"
  /\ Import(bundle) \/ ImportFails(bundle)

-----------------------------------------------------------------------------
(* Creation of actors.                                                     *)

Outcomes == {"created", "refused", "put failed", "panicked"}

(* create_builtin_actor_internal, from the tree and the blocks that the    *)
(* caller has got to so far.  Types that the manifest lacks panic.         *)
CreateInternal(outcome, tree, stored, type, id, state, balance) ==
  \/ /\ outcome = "refused"
     /\ builtin_manifest = None
     /\ state_tree' = tree /\ blocks' = stored
     /\ UNCHANGED <<status, put_failed>>
  \/ /\ outcome = "panicked"
     /\ builtin_manifest # None
     /\ type \notin DOMAIN CodeById[builtin_manifest]
     /\ state_tree' = tree /\ blocks' = stored
     /\ Panic
     /\ UNCHANGED put_failed
  \/ /\ outcome \in {"created", "put failed"}
     /\ builtin_manifest # None
     /\ type \in DOMAIN CodeById[builtin_manifest]
     /\ IF outcome = "created"
        THEN /\ blocks' = stored \cup {state}
             /\ state_tree' = [tree EXCEPT ![id] =
                  [code |-> CodeById[builtin_manifest][type],
                   state |-> state, balance |-> balance]]
             /\ UNCHANGED put_failed
        ELSE /\ state_tree' = tree /\ blocks' = stored
             /\ put_failed' = TRUE
     /\ UNCHANGED status

(* Actors that are there and that no Init actor counts once there is a new *)
(* one under this ID.                                                      *)
Exposes(id) ==
  {i \in Ids : i >= FirstId /\ (i = id \/ (id = InitId /\ Exists(state_tree, i)))}

(* create_singleton_actor *)
CreateSingletonActor(outcome, type, id, state, balance) ==
  /\ status = "running"
  /\ CreateInternal(outcome, state_tree, blocks, type, id, state, balance)
  /\ exposed' = exposed \cup IF outcome = "created" THEN Exposes(id) ELSE {}
  /\ UNCHANGED <<builtin_manifest_data_cid, builtin_manifest, roots, benches>>

(* What register_new_address makes of the Init actor's state.  An address  *)
(* that is registered again is given another ID.                           *)
NextId == state_tree[InitId].state.next_id
Registered(address) ==
  InitState(NextId + 1, [AddressMap(state_tree) EXCEPT ![address] = NextId])

(* Mutant of RegisteredTree: the state takes the place of the actor. *)
RegisteredTreeBare(address) == [state_tree EXCEPT ![InitId] = Registered(address)]

RegisteredTree(address) == [state_tree EXCEPT ![InitId].state = Registered(address)]

(* Mutant of CreateBuiltinActor: what was registered is not kept. *)
CreateBuiltinActorUnregistered(outcome, type, address, state, balance) ==
  /\ status = "running"
  /\ HasInit(state_tree) /\ NextId \in Ids
  /\ CreateInternal(outcome, state_tree, blocks, type, NextId, state, balance)
  /\ UNCHANGED <<builtin_manifest_data_cid, builtin_manifest, roots, benches, exposed>>

(* Mutant of CreateBuiltinActor: returns early with what was registered. *)
CreateBuiltinActorLeft(outcome, type, address, state, balance) ==
  /\ status = "running"
  /\ HasInit(state_tree) /\ NextId \in Ids
  /\ outcome = "created"
  /\ blocks' = blocks \cup {Registered(address)}
  /\ state_tree' = RegisteredTree(address)
  /\ UNCHANGED <<builtin_manifest_data_cid, builtin_manifest, roots, benches, status,
                 put_failed, exposed>>

(* create_builtin_actor: registers the address, which needs the Init actor *)
(* and puts its new state, and creates the actor only then.                *)
CreateBuiltinActor(outcome, type, address, state, balance) ==
  /\ status = "running"
  /\ \/ /\ outcome = "refused"
        /\ ~HasInit(state_tree)
        /\ UNCHANGED <<state_tree, blocks, status, put_failed>>
     \/ /\ outcome = "put failed"
        /\ HasInit(state_tree)
        /\ put_failed' = TRUE
        /\ UNCHANGED <<state_tree, blocks, status>>
     \/ /\ HasInit(state_tree) /\ NextId \in Ids
        /\ CreateInternal(outcome, RegisteredTree(address), blocks \cup {Registered(address)},
                          type, NextId, state, balance)
  /\ UNCHANGED <<builtin_manifest_data_cid, builtin_manifest, roots, benches, exposed>>

-----------------------------------------------------------------------------
(* Building benches.                                                       *)

MachineContext(root, circulating_supply) ==
  [epoch |-> 0, timestamp |-> 0, base_fee |-> 100, circ_supply |-> circulating_supply,
   tracing |-> TRUE, initial_state_root |-> root]

(* The manifest that a machine over this tree has: the System actor's.     *)
ManifestOf(tree) == tree[SystemId].state.builtin_actors
MachineLoads(tree) ==
  /\ Exists(tree, SystemId) /\ tree[SystemId].state \in SystemStates
  /\ ManifestBlock(ManifestOf(tree)) \in blocks

(* Flushing writes the tree to the store. *)
Flush ==
  /\ Cardinality(roots \cup {state_tree}) <= MaxRoots
  /\ roots' = roots \cup {state_tree}

(* Mutant of Build: without flushing the state tree. *)
BuildUnflushed(circulating_supply) ==
  /\ status = "running"
  /\ Len(benches) < MaxBenches
  /\ MachineLoads(state_tree)
  /\ benches' = Append(benches, MachineContext(state_tree, circulating_supply))
  /\ UNCHANGED <<builtin_manifest_data_cid, builtin_manifest, state_tree, blocks, roots,
                 status, put_failed, exposed>>

(* build: flushes the tree and makes a machine from its root; the builder  *)
(* keeps its own tree and can go on.                                       *)
Build(circulating_supply) ==
  /\ status = "running"
  /\ Len(benches) < MaxBenches
  /\ Flush
  /\ MachineLoads(state_tree)
  /\ benches' = Append(benches, MachineContext(state_tree, circulating_supply))
  /\ UNCHANGED <<builtin_manifest_data_cid, builtin_manifest, state_tree, blocks,
                 status, put_failed, exposed>>

(* The flush fails, or after it the machine or its executor.               *)
BuildFails ==
  /\ status = "running"
  /\ Flush \/ UNCHANGED roots
  /\ UNCHANGED <<builtin_manifest_data_cid, builtin_manifest, state_tree, blocks,
                 benches, status, put_failed, exposed>>

(* A put through store(), or by another holder of the store.               *)
StorePut(s) ==
  /\ status = "running"
  /\ blocks' = blocks \cup {s}
  /\ UNCHANGED <<builtin_manifest_data_cid, builtin_manifest, state_tree, roots,
                 benches, status, put_failed, exposed>>

CreateStep ==
  \E outcome \in Outcomes, balance \in Balances :
    \/ \E new \in Singletons :
         CreateSingletonActor(outcome, new.type, new.id, new.state, balance)
    \/ \E new \in Accounts, address \in Addresses :
         CreateBuiltinActor(outcome, new.type, address, new.state, balance)

BuilderNext ==
  \/ \E bundle \in Bundles : InstallBundle(bundle)
  \/ CreateStep
  \/ \E circulating_supply \in Balances : Build(circulating_supply)
  \/ BuildFails
  \/ \E s \in PlainStates : StorePut(s)

BuilderSpec == BuilderInit /\ [][BuilderNext]_builderVars

-----------------------------------------------------------------------------
(* What the bench that is handed over reports of its actors.               *)

(* Mutant of ListedTypes: two of the sixteen are swapped. *)
ListedTypesSwapped == [n \in 1..16 |-> CASE n = 2 -> 16 [] n = 16 -> 2 [] OTHER -> n]

(* FvmBench::builtin_actors_manifest asks the manifest for the code of the *)
(* types 1 to 16, one by one, and reports a type for each that it finds.   *)
ListedTypes == [n \in 1..16 |-> n]
BuiltinActorsManifest(m) ==
  {<<CodeById[m][n], ListedTypes[n]>> : n \in DOMAIN CodeById[m] \cap DOMAIN ListedTypes}

TypesReported(m, code) == {type \in TypeIds : <<code, type>> \in BuiltinActorsManifest(m)}

-----------------------------------------------------------------------------
(* Properties.                                                             *)

(* Types of the builder's state; a tree is complete wherever it is needed, *)
(* and only states that are there have been put.                           *)
BuilderTypeOK ==
  /\ builtin_manifest_data_cid \in Manifests \cup {None}
  /\ builtin_manifest \in Manifests \cup {None}
  /\ state_tree \in StateTree
  /\ blocks \subseteq ActorStates \cup BundleBlocks
  /\ roots \subseteq StateTree
  /\ \A k \in DOMAIN benches : benches[k].initial_state_root \in StateTree
  /\ status \in {"running", "panicked"}
  /\ put_failed \in BOOLEAN /\ exposed \subseteq Ids

(* However often the installation of a bundle failed half-way before       *)
(* (builder.rs:93-105), the CID that is kept is that of the manifest which *)
(* was loaded, and the manifest can be loaded again from the store, as the *)
(* machine will (:198-202).                                                *)
ManifestNamed ==
  builtin_manifest # None =>
    /\ builtin_manifest_data_cid = builtin_manifest
    /\ ManifestBlock(builtin_manifest) \in blocks

(* create_builtin_actor (builder.rs:174-184) registers an address before   *)
(* it creates the actor, yet as long as the store takes every block, each  *)
(* address resolves to an actor: there is no Init actor to register with   *)
(* unless the manifest is loaded.                                          *)
AddressesHaveActors ==
  ~put_failed /\ status = "running" =>
    \A a \in Addresses :
      AddressMap(state_tree)[a] # None => Exists(state_tree, AddressMap(state_tree)[a])

(* The next actor that is given an ID (builder.rs:181-182) can only take   *)
(* the place of one that the Init actor does not know: a singleton that    *)
(* was put among the assigned IDs, or an actor that was there before the   *)
(* Init actor was created anew, as a repeated genesis does.  All others    *)
(* have IDs below its counter, however many creations failed half-way.     *)
NewIdsFree ==
  \A id \in Ids \ exposed :
    id >= FirstId /\ Exists(state_tree, id) => HasInit(state_tree) /\ id < NextId

(* A bench that was built (builder.rs:188-210) can load its tree, all      *)
(* states in it and its manifest from the store, also after the builder    *)
(* has gone on to other actors and other benches.                          *)
BenchesComplete ==
  \A k \in DOMAIN benches :
    LET root == benches[k].initial_state_root
    IN /\ root \in roots
       /\ StatesOf(root) \subseteq blocks
       /\ ManifestBlock(ManifestOf(root)) \in blocks

(* Each actor of a bench has the code of one type of the manifest that was *)
(* installed, and the bench reports this type and no other for it          *)
(* (bench/mod.rs:147-232), exactly if the System actor's manifest has the  *)
(* same code for that type: the codes come from the builder's manifest,    *)
(* the report from the System actor's, and nothing makes them agree.       *)
CodesReported ==
  \A k \in DOMAIN benches :
    LET root == benches[k].initial_state_root
        reporting == CodeById[ManifestOf(root)]
    IN \A id \in {i \in Ids : Exists(root, i)} :
         \E type \in DOMAIN CodeById[builtin_manifest] :
           /\ root[id].code = CodeById[builtin_manifest][type]
           /\ TypesReported(ManifestOf(root), root[id].code) = {type}
                <=> type \in DOMAIN reporting \cap 1..16 /\ reporting[type] = root[id].code

=============================================================================
