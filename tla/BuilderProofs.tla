---------------------------- MODULE BuilderProofs ----------------------------
(***************************************************************************)
(* Theorems about Builder, for all bundles, actors and addresses, and then *)
(* about Genesis, which uses it, for all specs and callers.                *)
(***************************************************************************)
EXTENDS Genesis, SequenceTheorems, FiniteSetTheorems, WellFoundedInduction, TLAPS

(* Strengthenings of the invariants.                                       *)
BenchContexts == {MachineContext(root, supply) : root \in StateTree, supply \in Balances}
BenchesTyped == benches \in Seq(BenchContexts)

(* No actor, and so no Init actor to register with, before the manifest.   *)
ManifestBeforeActors ==
  \A id \in Ids : Exists(state_tree, id) => builtin_manifest # None

StatesPut == StatesOf(state_tree) \subseteq blocks

(* The IDs that the Init actor assigns are past its own.                   *)
CounterPast == HasInit(state_tree) => NextId \in Nat /\ NextId >= FirstId

(* Of the tree, and of the store and the benches in it.                    *)
TreeInv ==
  /\ state_tree \in StateTree
  /\ ManifestBeforeActors /\ StatesPut /\ CounterPast
  /\ AddressesHaveActors /\ NewIdsFree

StoreInv == BuilderTypeOK /\ BenchesTyped /\ ManifestNamed /\ BenchesComplete

BuilderInv == TreeInv /\ StoreInv

LEMMA EmptyTree ==
  ASSUME NEW tree, tree = [id \in Ids |-> NoActor]
  PROVE  /\ tree \in StateTree
         /\ StatesOf(tree) = {}
         /\ ~HasInit(tree)
         /\ \A id \in Ids : ~Exists(tree, id)
<1>1. tree \in StateTree /\ \A id \in Ids : ~Exists(tree, id)
  BY DEF StateTree, Exists
<1> QED
  BY <1>1, IdAssumption DEF StatesOf, HasInit

LEMMA BuilderInitInv == BuilderInit => BuilderInv
<1> SUFFICES ASSUME BuilderInit PROVE BuilderInv
  OBVIOUS
<1>1. /\ state_tree \in StateTree
      /\ StatesOf(state_tree) = {}
      /\ ~HasInit(state_tree)
      /\ \A id \in Ids : ~Exists(state_tree, id)
  BY EmptyTree DEF BuilderInit
<1>2. \A a \in Addresses : AddressMap(state_tree)[a] = None
  BY <1>1 DEF AddressMap
<1>3. TreeInv
  BY <1>1, <1>2 DEF TreeInv, ManifestBeforeActors, StatesPut, CounterPast, AddressesHaveActors,
    NewIdsFree
<1>4. benches = <<>> /\ DOMAIN benches = {}
  BY DEF BuilderInit
<1>5. BuilderTypeOK
  BY <1>1, <1>4 DEF BuilderInit, BuilderTypeOK
<1>6. BenchesTyped /\ ManifestNamed /\ BenchesComplete
  BY <1>4 DEF BuilderInit, BenchesTyped, ManifestNamed, BenchesComplete
<1> QED
  BY <1>3, <1>5, <1>6 DEF BuilderInv, StoreInv

(* Steps that leave the tree alone only add to the store.                  *)
LEMMA TreeKept ==
  ASSUME BuilderInv, UNCHANGED <<state_tree, put_failed, exposed>>,
         blocks \subseteq blocks', status' = "running" => status = "running",
         builtin_manifest # None => builtin_manifest' # None
  PROVE  TreeInv'
  BY DEF BuilderInv, TreeInv, ManifestBeforeActors, StatesPut, CounterPast, NextId,
    AddressesHaveActors, NewIdsFree, AddressMap, HasInit, Exists, StatesOf

LEMMA BenchesKept ==
  ASSUME BuilderInv, UNCHANGED <<benches, roots>>, blocks \subseteq blocks'
  PROVE  BenchesTyped' /\ BenchesComplete'
  BY DEF BuilderInv, StoreInv, BenchesTyped, BenchesComplete

LEMMA ImportInv ==
  ASSUME BuilderInv, NEW bundle \in Bundles, Import(bundle)
  PROVE  BuilderInv'
<1>1. bundle.manifest \in Manifests /\ bundle.blocks \subseteq BundleBlocks
  BY BundleAssumption
<1>2. TreeInv'
  BY TreeKept DEF Import
<1>3. BenchesTyped' /\ BenchesComplete'
  BY BenchesKept DEF Import
<1>4. BuilderTypeOK'
  BY <1>1 DEF Import, BuilderInv, StoreInv, BuilderTypeOK
<1>5. ManifestNamed'
  BY <1>1, NoneAssumption DEF Import, ManifestNamed
<1> QED
  BY <1>2, <1>3, <1>4, <1>5 DEF BuilderInv, StoreInv

LEMMA ImportFailsInv ==
  ASSUME BuilderInv, NEW bundle \in Bundles, ImportFails(bundle)
  PROVE  BuilderInv'
<1>1. bundle.blocks \subseteq BundleBlocks
  BY BundleAssumption
<1>2. TreeInv'
  BY TreeKept DEF ImportFails, Panic
<1>3. BenchesTyped' /\ BenchesComplete'
  BY BenchesKept DEF ImportFails
<1>4. BuilderTypeOK'
  BY <1>1 DEF ImportFails, Panic, BuilderInv, StoreInv, BuilderTypeOK
<1>5. ManifestNamed'
  BY DEF ImportFails, ManifestNamed
<1> QED
  BY <1>2, <1>3, <1>4, <1>5 DEF BuilderInv, StoreInv

LEMMA StorePutInv ==
  ASSUME BuilderInv, NEW s \in PlainStates, StorePut(s)
  PROVE  BuilderInv'
<1>1. TreeInv'
  BY TreeKept DEF StorePut
<1>2. BenchesTyped' /\ BenchesComplete'
  BY BenchesKept DEF StorePut
<1>3. BuilderTypeOK'
  BY DEF StorePut, BuilderInv, StoreInv, BuilderTypeOK, ActorStates
<1>4. ManifestNamed'
  BY DEF StorePut, BuilderInv, StoreInv, ManifestNamed
<1> QED
  BY <1>1, <1>2, <1>3, <1>4 DEF BuilderInv, StoreInv

LEMMA BuildFailsInv ==
  ASSUME BuilderInv, BuildFails
  PROVE  BuilderInv'
<1>1. TreeInv'
  BY TreeKept DEF BuildFails
<1>2. roots \subseteq roots' /\ roots' \subseteq StateTree
  BY DEF BuildFails, Flush, BuilderInv, StoreInv, TreeInv, BuilderTypeOK
<1>3. BuilderTypeOK'
  BY <1>2 DEF BuildFails, BuilderInv, StoreInv, BuilderTypeOK
<1>4. BenchesTyped' /\ ManifestNamed'
  BY DEF BuildFails, BuilderInv, StoreInv, BenchesTyped, ManifestNamed
<1>5. BenchesComplete'
  BY <1>2 DEF BuildFails, BuilderInv, StoreInv, BenchesComplete
<1> QED
  BY <1>1, <1>3, <1>4, <1>5 DEF BuilderInv, StoreInv

(* The bench that is built has the tree that was just flushed.             *)
LEMMA BuildInv ==
  ASSUME BuilderInv, NEW supply \in Balances, Build(supply)
  PROVE  BuilderInv'
<1> DEFINE bench == MachineContext(state_tree, supply)
<1>1. TreeInv'
  BY TreeKept DEF Build
<1>2. roots' = roots \cup {state_tree} /\ state_tree \in StateTree /\ UNCHANGED blocks
  BY DEF Build, Flush, BuilderInv, TreeInv
<1>3. benches' = Append(benches, bench) /\ BenchesTyped
  BY DEF Build, BuilderInv, StoreInv
<1>4. BenchesTyped'
  <2>1. bench \in BenchContexts
    BY <1>2 DEF BenchContexts
  <2> HIDE DEF bench
  <2> QED
    BY <1>3, <2>1, AppendProperties DEF BenchesTyped
<1>5. \A k \in DOMAIN benches' :
        (k \in DOMAIN benches /\ benches'[k] = benches[k]) \/ benches'[k] = bench
  BY <1>3 DEF BenchesTyped
<1>6. bench.initial_state_root = state_tree
  BY DEF MachineContext
<1> HIDE DEF bench
<1>7. BuilderTypeOK'
  BY <1>2, <1>5, <1>6 DEF Build, BuilderInv, StoreInv, BuilderTypeOK
<1>8. BenchesComplete'
  <2>1. StatesOf(state_tree) \subseteq blocks /\ ManifestBlock(ManifestOf(state_tree)) \in blocks
    BY DEF Build, MachineLoads, BuilderInv, TreeInv, StatesPut
  <2> QED
    BY <1>2, <1>5, <1>6, <2>1 DEF BuilderInv, StoreInv, BenchesComplete
<1>9. ManifestNamed'
  BY DEF Build, BuilderInv, StoreInv, ManifestNamed
<1> QED
  BY <1>1, <1>4, <1>7, <1>8, <1>9 DEF BuilderInv, StoreInv

-----------------------------------------------------------------------------
(* Creation, from the tree and the blocks that the caller has got to.      *)

(* A tree with one more actor, or another in its place.                    *)
With(tree, id, actor) == [tree EXCEPT ![id] = actor]

Created(tree, stored, id, state) ==
  /\ builtin_manifest # None
  /\ \E actor \in ActorState :
       actor.state = state /\ state_tree' = With(tree, id, actor)
  /\ blocks' = stored \cup {state}
  /\ UNCHANGED <<status, put_failed>>

NotCreated(tree, stored) ==
  /\ state_tree' = tree /\ blocks' = stored
  /\ \/ builtin_manifest = None /\ UNCHANGED <<status, put_failed>>
     \/ status' = "panicked" /\ UNCHANGED put_failed
     \/ put_failed' = TRUE /\ UNCHANGED status

LEMMA InternalEffect ==
  ASSUME BuilderInv, NEW outcome, NEW tree \in StateTree, NEW stored, NEW type,
         NEW id \in Ids, NEW state \in ActorStates, NEW balance \in Balances,
         CreateInternal(outcome, tree, stored, type, id, state, balance)
  PROVE  (outcome = "created" /\ Created(tree, stored, id, state)) \/ NotCreated(tree, stored)
<1> DEFINE actor == [code |-> CodeById[builtin_manifest][type], state |-> state,
                     balance |-> balance]
<1>1. CASE /\ builtin_manifest # None /\ outcome = "created"
           /\ type \in DOMAIN CodeById[builtin_manifest]
           /\ blocks' = stored \cup {state}
           /\ state_tree' = [tree EXCEPT ![id] = actor]
           /\ UNCHANGED <<status, put_failed>>
  <2>1. builtin_manifest \in Manifests
    BY <1>1 DEF BuilderInv, StoreInv, BuilderTypeOK
  <2>2. actor \in ActorState /\ actor.state = state
    BY <1>1, <2>1, ManifestAssumption DEF ActorState
  <2> HIDE DEF actor
  <2> QED
    BY <1>1, <2>2 DEF Created, With
<1>2. CASE NotCreated(tree, stored)
  BY <1>2
<1> QED
  BY <1>1, <1>2 DEF CreateInternal, NotCreated, Panic

(* What creation leaves of the store and the benches.                      *)
LEMMA StoreGrows ==
  ASSUME BuilderInv,
         UNCHANGED <<builtin_manifest_data_cid, builtin_manifest, roots, benches>>,
         blocks \subseteq blocks', blocks' \subseteq blocks \cup ActorStates,
         state_tree' \in StateTree, status' \in {"running", "panicked"},
         put_failed' \in BOOLEAN, exposed' \subseteq Ids
  PROVE  StoreInv'
<1>1. BenchesTyped' /\ BenchesComplete'
  BY BenchesKept
<1>2. BuilderTypeOK'
  BY DEF BuilderInv, StoreInv, BuilderTypeOK
<1>3. ManifestNamed'
  BY DEF BuilderInv, StoreInv, ManifestNamed
<1> QED
  BY <1>1, <1>2, <1>3 DEF StoreInv

(* Who exists in it, and the states there are.                             *)
LEMMA TreeWith ==
  ASSUME NEW tree \in StateTree, NEW id \in Ids, NEW actor \in ActorState
  PROVE  /\ With(tree, id, actor) \in StateTree
         /\ \A i \in Ids : Exists(With(tree, id, actor), i) <=> i = id \/ Exists(tree, i)
         /\ StatesOf(With(tree, id, actor)) \subseteq StatesOf(tree) \cup {actor.state}
         /\ With(tree, id, actor)[id] = actor
         /\ \A i \in Ids : i # id => With(tree, id, actor)[i] = tree[i]
<1>1. /\ With(tree, id, actor) \in StateTree
      /\ With(tree, id, actor)[id] = actor
      /\ \A i \in Ids : i # id => With(tree, id, actor)[i] = tree[i]
  BY DEF With, StateTree
<1>2. \A i \in Ids : Exists(With(tree, id, actor), i) <=> i = id \/ Exists(tree, i)
  BY <1>1, NoActorAssumption DEF Exists
<1> QED
  BY <1>1, <1>2 DEF StatesOf

(* The Init actor's part of a tree is the same when the actor is.          *)
LEMMA InitSame ==
  ASSUME NEW t, NEW u, t[InitId] = u[InitId]
  PROVE  (HasInit(t) <=> HasInit(u)) /\ AddressMap(t) = AddressMap(u)
  BY DEF HasInit, AddressMap, Exists

LEMMA MapType ==
  ASSUME NEW t, NEW a \in Addresses
  PROVE  AddressMap(t)[a] \in Ids \cup {None}
  BY DEF AddressMap, HasInit, InitStates

(* A new Init actor has no addresses and starts to count anew.             *)
LEMMA NewInitFresh ==
  ASSUME NEW t, HasInit(t), t[InitId].state = NewInitState
  PROVE  /\ t[InitId].state.next_id = FirstId
         /\ \A a \in Addresses : AddressMap(t)[a] = None
  BY DEF AddressMap, NewInitState, InitState

LEMMA SingletonCreated ==
  ASSUME BuilderInv, NEW id \in Ids, NEW state \in ActorStates,
         state.kind = "init" => state = NewInitState,
         Created(state_tree, blocks, id, state),
         exposed' = exposed \cup Exposes(id), UNCHANGED builtin_manifest
  PROVE  TreeInv'
<1>2. PICK actor \in ActorState :
        actor.state = state /\ state_tree' = With(state_tree, id, actor)
  BY DEF Created
<1>3. state_tree \in StateTree
  BY DEF BuilderInv, TreeInv
<1>4. /\ state_tree' \in StateTree
      /\ \A i \in Ids : Exists(state_tree', i) <=> i = id \/ Exists(state_tree, i)
      /\ StatesOf(state_tree') \subseteq StatesOf(state_tree) \cup {state}
      /\ state_tree'[id] = actor
      /\ \A i \in Ids : i # id => state_tree'[i] = state_tree[i]
  BY <1>2, <1>3, TreeWith
<1>5. ManifestBeforeActors'
  BY DEF Created, ManifestBeforeActors
<1>6. StatesPut'
  BY <1>4 DEF StatesPut, Created, BuilderInv, TreeInv
<1>7. CASE id # InitId
  <2>1. state_tree'[InitId] = state_tree[InitId] /\ InitId \in Ids
    BY <1>4, <1>7, IdAssumption
  <2>2. /\ HasInit(state_tree') <=> HasInit(state_tree)
        /\ AddressMap(state_tree') = AddressMap(state_tree)
    BY <2>1, InitSame
  <2>3. CounterPast'
    BY <2>1, <2>2 DEF CounterPast, NextId, BuilderInv, TreeInv
  <2>4. AddressesHaveActors'
    <3>1. \A a \in Addresses : AddressMap(state_tree)[a] \in Ids \cup {None}
      BY MapType
    <3>2. \A i \in Ids : Exists(state_tree, i) => Exists(state_tree', i)
      BY <1>4
    <3> QED
      BY <2>2, <3>1, <3>2 DEF AddressesHaveActors, Created, BuilderInv, TreeInv
  <2>5. NewIdsFree'
    <3>1. \A i \in Ids \ exposed' :
            i >= FirstId /\ Exists(state_tree', i) => i \notin exposed /\ Exists(state_tree, i)
      BY <1>4 DEF Exposes
    <3> QED
      BY <2>1, <2>2, <3>1 DEF NewIdsFree, NextId, BuilderInv, TreeInv
  <2> QED
    BY <1>4, <1>5, <1>6, <2>3, <2>4, <2>5 DEF TreeInv
<1>8. CASE id = InitId
  <2>1. HasInit(state_tree') => state_tree'[InitId].state = NewInitState
    BY <1>2, <1>4, <1>8 DEF HasInit, InitStates
  <2>2. HasInit(state_tree') =>
          /\ state_tree'[InitId].state.next_id = FirstId
          /\ \A a \in Addresses : AddressMap(state_tree')[a] = None
    BY <2>1, NewInitFresh
  <2>3. ~HasInit(state_tree') => \A a \in Addresses : AddressMap(state_tree')[a] = None
    BY DEF AddressMap
  <2>4. CounterPast'
    BY <2>2, IdAssumption DEF CounterPast, NextId
  <2>5. AddressesHaveActors'
    BY <2>2, <2>3 DEF AddressesHaveActors
  <2>6. NewIdsFree'
    <3>1. ~(InitId >= FirstId)
      BY IdAssumption
    <3>2. \A i \in Ids \ exposed' : ~(i >= FirstId /\ Exists(state_tree, i))
      BY <1>8 DEF Exposes
    <3> QED
      BY <1>4, <1>8, <3>1, <3>2 DEF NewIdsFree
  <2> QED
    BY <1>4, <1>5, <1>6, <2>4, <2>5, <2>6 DEF TreeInv
<1> QED
  BY <1>7, <1>8

LEMMA SingletonInv ==
  ASSUME BuilderInv, NEW outcome, NEW type, NEW id \in Ids, NEW state \in ActorStates,
         state.kind = "init" => state = NewInitState, NEW balance \in Balances,
         CreateSingletonActor(outcome, type, id, state, balance)
  PROVE  BuilderInv'
<1>1. state_tree \in StateTree /\ status \in {"running", "panicked"}
      /\ put_failed \in BOOLEAN /\ exposed \subseteq Ids
  BY DEF BuilderInv, TreeInv, StoreInv, BuilderTypeOK
<1>2. /\ UNCHANGED <<builtin_manifest_data_cid, builtin_manifest, roots, benches>>
      /\ outcome = "created" => exposed' = exposed \cup Exposes(id)
      /\ exposed \subseteq exposed' /\ exposed' \subseteq exposed \cup Exposes(id)
  BY DEF CreateSingletonActor
<1>3. exposed' \subseteq Ids
  BY <1>1, <1>2 DEF Exposes
<1>4. (outcome = "created" /\ Created(state_tree, blocks, id, state))
        \/ NotCreated(state_tree, blocks)
  BY <1>1, InternalEffect DEF CreateSingletonActor
<1>5. CASE outcome = "created" /\ Created(state_tree, blocks, id, state)
  <2>1. TreeInv'
    BY <1>2, <1>5, SingletonCreated
  <2>2. StoreInv'
    BY <1>1, <1>2, <1>3, <1>5, <2>1, StoreGrows DEF Created, TreeInv
  <2> QED
    BY <2>1, <2>2 DEF BuilderInv
<1>6. CASE NotCreated(state_tree, blocks)
  <2>1. NewIdsFree'
    BY <1>2, <1>6 DEF NotCreated, BuilderInv, TreeInv, NextId, NewIdsFree
  <2>2. TreeInv'
    BY <1>2, <1>6, <2>1 DEF NotCreated, BuilderInv, TreeInv, ManifestBeforeActors,
      StatesPut, CounterPast, NextId, AddressesHaveActors
  <2>3. StoreInv'
    BY <1>1, <1>2, <1>3, <1>6, StoreGrows DEF NotCreated
  <2> QED
    BY <2>2, <2>3 DEF BuilderInv
<1> QED
  BY <1>4, <1>5, <1>6

-----------------------------------------------------------------------------
(* Registering an address gives it the next ID and creates nobody.         *)
LEMMA RegisteredFacts ==
  ASSUME BuilderInv, HasInit(state_tree), NextId \in Ids, NEW address \in Addresses
  PROVE  /\ Registered(address) \in ActorStates
         /\ RegisteredTree(address) \in StateTree
         /\ \A i \in Ids : Exists(RegisteredTree(address), i) <=> Exists(state_tree, i)
         /\ StatesOf(RegisteredTree(address)) \subseteq
              StatesOf(state_tree) \cup {Registered(address)}
         /\ HasInit(RegisteredTree(address))
         /\ RegisteredTree(address)[InitId].state.next_id = NextId + 1
         /\ \A a \in Addresses : AddressMap(RegisteredTree(address))[a] =
              IF a = address THEN NextId ELSE AddressMap(state_tree)[a]
<1> DEFINE init == [state_tree[InitId] EXCEPT !.state = Registered(address)]
<1>1. /\ state_tree \in StateTree /\ InitId \in Ids /\ NextId \in Nat
      /\ Exists(state_tree, InitId) /\ state_tree[InitId] \in ActorState
  BY IdAssumption DEF BuilderInv, TreeInv, HasInit, StateTree, Exists
<1>2. AddressMap(state_tree) \in [Addresses -> Ids \cup {None}]
  BY DEF AddressMap, InitStates, HasInit
<1>3. Registered(address) \in InitStates
  BY <1>1, <1>2 DEF Registered, InitState, InitStates
<1>4. Registered(address) \in ActorStates
  BY <1>3 DEF ActorStates
<1>5. init \in ActorState /\ init.state = Registered(address)
  BY <1>1, <1>4 DEF ActorState
<1>6. RegisteredTree(address) = With(state_tree, InitId, init)
  BY <1>1 DEF RegisteredTree, With, StateTree
<1> HIDE DEF init
<1>7. /\ RegisteredTree(address) \in StateTree
      /\ \A i \in Ids : Exists(RegisteredTree(address), i) <=> Exists(state_tree, i)
      /\ StatesOf(RegisteredTree(address)) \subseteq
           StatesOf(state_tree) \cup {Registered(address)}
      /\ RegisteredTree(address)[InitId] = init
  <2>1. /\ RegisteredTree(address) \in StateTree
        /\ \A i \in Ids :
             Exists(RegisteredTree(address), i) <=> i = InitId \/ Exists(state_tree, i)
        /\ StatesOf(RegisteredTree(address)) \subseteq StatesOf(state_tree) \cup {init.state}
        /\ RegisteredTree(address)[InitId] = init
    BY <1>1, <1>5, <1>6, TreeWith
  <2> QED
    BY <1>1, <1>5, <2>1
<1>8. HasInit(RegisteredTree(address))
  BY <1>1, <1>3, <1>5, <1>7 DEF HasInit
<1>9. /\ RegisteredTree(address)[InitId].state.next_id = NextId + 1
      /\ AddressMap(RegisteredTree(address)) = [AddressMap(state_tree) EXCEPT ![address] = NextId]
  BY <1>5, <1>7, <1>8 DEF Registered, InitState, AddressMap
<1> QED
  BY <1>2, <1>4, <1>7, <1>8, <1>9

LEMMA BuiltinCreated ==
  ASSUME BuilderInv, HasInit(state_tree), NextId \in Ids, NEW address \in Addresses,
         NEW state \in ActorStates,
         Created(RegisteredTree(address), blocks \cup {Registered(address)}, NextId, state),
         UNCHANGED <<builtin_manifest, exposed>>
  PROVE  TreeInv'
<1> DEFINE registered == RegisteredTree(address)
<1>1. /\ registered \in StateTree
      /\ \A i \in Ids : Exists(registered, i) <=> Exists(state_tree, i)
      /\ StatesOf(registered) \subseteq StatesOf(state_tree) \cup {Registered(address)}
      /\ HasInit(registered)
      /\ registered[InitId].state.next_id = NextId + 1
      /\ \A a \in Addresses : AddressMap(registered)[a] =
           IF a = address THEN NextId ELSE AddressMap(state_tree)[a]
  BY RegisteredFacts
<1>2. PICK actor \in ActorState :
        actor.state = state /\ state_tree' = With(registered, NextId, actor)
  BY DEF Created
<1> HIDE DEF registered
<1>3. /\ state_tree' \in StateTree
      /\ \A i \in Ids : Exists(state_tree', i) <=> i = NextId \/ Exists(registered, i)
      /\ StatesOf(state_tree') \subseteq StatesOf(registered) \cup {state}
      /\ \A i \in Ids : i # NextId => state_tree'[i] = registered[i]
  BY <1>1, <1>2, TreeWith
<1>4. InitId \in Ids /\ InitId # NextId /\ NextId \in Nat /\ NextId >= FirstId
  BY IdAssumption DEF BuilderInv, TreeInv, CounterPast
<1>5. state_tree'[InitId] = registered[InitId]
  BY <1>3, <1>4
<1>6. HasInit(state_tree') /\ AddressMap(state_tree') = AddressMap(registered)
  BY <1>1, <1>5, InitSame
<1>7. NextId' = NextId + 1
  BY <1>1, <1>5 DEF NextId
<1>8. ManifestBeforeActors'
  BY DEF Created, ManifestBeforeActors
<1>9. StatesPut'
  BY <1>1, <1>3 DEF StatesPut, Created, BuilderInv, TreeInv
<1>10. CounterPast'
  BY <1>4, <1>7, IdAssumption DEF CounterPast
<1>11. AddressesHaveActors'
  <2>1. \A a \in Addresses : AddressMap(state_tree)[a] \in Ids \cup {None}
    BY MapType
  <2>2. \A i \in Ids : i = NextId \/ Exists(state_tree, i) => Exists(state_tree', i)
    BY <1>1, <1>3
  <2> QED
    BY <1>1, <1>6, <2>1, <2>2 DEF AddressesHaveActors, Created, BuilderInv, TreeInv
<1>12. NewIdsFree'
  <2>1. \A i \in Ids : Exists(state_tree', i) => i = NextId \/ Exists(state_tree, i)
    BY <1>1, <1>3
  <2>2. \A i \in Ids \ exposed : i >= FirstId /\ Exists(state_tree, i) => i < NextId
    BY DEF NewIdsFree, BuilderInv, TreeInv
  <2>3. \A i \in Ids : i = NextId \/ i < NextId => i < NextId + 1
    BY <1>4, IdAssumption
  <2> QED
    BY <1>6, <1>7, <2>1, <2>2, <2>3 DEF NewIdsFree
<1> QED
  BY <1>3, <1>8, <1>9, <1>10, <1>11, <1>12 DEF TreeInv

LEMMA BuiltinInv ==
  ASSUME BuilderInv, NEW outcome, NEW type, NEW address \in Addresses,
         NEW state \in ActorStates, NEW balance \in Balances,
         CreateBuiltinActor(outcome, type, address, state, balance)
  PROVE  BuilderInv'
<1>1. /\ state_tree \in StateTree /\ status \in {"running", "panicked"}
      /\ put_failed \in BOOLEAN /\ exposed \subseteq Ids
  BY DEF BuilderInv, TreeInv, StoreInv, BuilderTypeOK
<1>2. UNCHANGED <<builtin_manifest_data_cid, builtin_manifest, roots, benches, exposed>>
  BY DEF CreateBuiltinActor
<1>3. CASE UNCHANGED <<state_tree, blocks, status>> /\ (put_failed' = TRUE \/ UNCHANGED put_failed)
  <2>1. TreeInv'
    BY <1>2, <1>3 DEF BuilderInv, TreeInv, ManifestBeforeActors, StatesPut, CounterPast, NextId,
      AddressesHaveActors, NewIdsFree
  <2>2. StoreInv'
    BY <1>1, <1>2, <1>3, StoreGrows
  <2> QED
    BY <2>1, <2>2 DEF BuilderInv
<1>4. CASE HasInit(state_tree) /\ NextId \in Ids
           /\ CreateInternal(outcome, RegisteredTree(address), blocks \cup {Registered(address)},
                             type, NextId, state, balance)
  <2> DEFINE registered == RegisteredTree(address)
             stored == blocks \cup {Registered(address)}
  <2>1. registered \in StateTree /\ Registered(address) \in ActorStates
    BY <1>4, RegisteredFacts
  <2>2. (outcome = "created" /\ Created(registered, stored, NextId, state))
          \/ NotCreated(registered, stored)
    BY <1>4, <2>1, InternalEffect
  <2>3. CASE Created(registered, stored, NextId, state)
    <3>1. TreeInv'
      BY <1>2, <1>4, <2>3, BuiltinCreated
    <3>2. StoreInv'
      BY <1>1, <1>2, <2>1, <2>3, <3>1, StoreGrows DEF Created, TreeInv
    <3> QED
      BY <3>1, <3>2 DEF BuilderInv
  <2>4. CASE NotCreated(registered, stored)
    <3>1. builtin_manifest # None
      BY <1>4, IdAssumption DEF HasInit, BuilderInv, TreeInv, ManifestBeforeActors
    <3>2. state_tree' = registered /\ blocks' = stored
          /\ (put_failed' = TRUE \/ status' = "panicked")
      BY <2>4, <3>1 DEF NotCreated
    <3>3. /\ \A i \in Ids : Exists(state_tree', i) <=> Exists(state_tree, i)
          /\ StatesOf(state_tree') \subseteq StatesOf(state_tree) \cup {Registered(address)}
          /\ HasInit(state_tree') /\ NextId' = NextId + 1
      BY <1>4, <3>2, RegisteredFacts DEF NextId
    <3>4. NextId \in Nat /\ NextId >= FirstId
      BY <1>4 DEF BuilderInv, TreeInv, CounterPast
    <3>5. CounterPast'
      BY <3>3, <3>4, IdAssumption DEF CounterPast
    <3>6. NewIdsFree'
      <4>1. \A i \in Ids : i < NextId => i < NextId + 1
        BY <3>4, IdAssumption
      <4> QED
        BY <1>2, <3>3, <4>1 DEF NewIdsFree, BuilderInv, TreeInv
    <3>7. ManifestBeforeActors' /\ StatesPut' /\ AddressesHaveActors'
      BY <1>2, <3>1, <3>2, <3>3 DEF ManifestBeforeActors, StatesPut, AddressesHaveActors,
        BuilderInv, TreeInv
    <3>8. TreeInv'
      BY <2>1, <3>2, <3>5, <3>6, <3>7 DEF TreeInv
    <3>9. StoreInv'
      BY <1>1, <1>2, <2>1, <2>4, StoreGrows DEF NotCreated
    <3> QED
      BY <3>8, <3>9 DEF BuilderInv
  <2> QED
    BY <2>2, <2>3, <2>4
<1> QED
  BY <1>3, <1>4 DEF CreateBuiltinActor

LEMMA BuilderKept ==
  ASSUME BuilderInv, UNCHANGED builderVars
  PROVE  BuilderInv'
<1>1. TreeInv'
  BY TreeKept DEF builderVars
<1>2. StoreInv'
  BY StoreGrows DEF builderVars, BuilderInv, TreeInv, StoreInv, BuilderTypeOK
<1> QED
  BY <1>1, <1>2 DEF BuilderInv

-----------------------------------------------------------------------------
(* The inductive invariant: there is no actor before the manifest, so that *)
(* create_builtin_actor_internal cannot refuse an address that has been    *)
(* registered, and the Init actor's counter is past all it assigned.       *)
THEOREM BuilderInvariant == BuilderSpec => []BuilderInv
<1>1. BuilderInv /\ [BuilderNext]_builderVars => BuilderInv'
  <2> SUFFICES ASSUME BuilderInv, [BuilderNext]_builderVars PROVE BuilderInv'
    OBVIOUS
  <2>1. CASE UNCHANGED builderVars
    BY <2>1, BuilderKept
  <2>2. CASE \E bundle \in Bundles : InstallBundle(bundle)
    BY <2>2, ImportInv, ImportFailsInv DEF InstallBundle
  <2>3. CASE CreateStep
    <3>1. PICK outcome \in Outcomes, balance \in Balances :
            \/ \E new \in Singletons :
                 CreateSingletonActor(outcome, new.type, new.id, new.state, balance)
            \/ \E new \in Accounts, address \in Addresses :
                 CreateBuiltinActor(outcome, new.type, address, new.state, balance)
      BY <2>3 DEF CreateStep
    <3>2. \A new \in Singletons :
            /\ new.id \in Ids /\ new.state \in ActorStates
            /\ new.state.kind = "init" => new.state = NewInitState
      BY CreatedAssumption
    <3>3. \A new \in Accounts : new.state \in ActorStates
      BY CreatedAssumption
    <3> QED
      BY <3>1, <3>2, <3>3, SingletonInv, BuiltinInv
  <2>4. CASE \E supply \in Balances : Build(supply)
    BY <2>4, BuildInv
  <2>5. CASE BuildFails
    BY <2>5, BuildFailsInv
  <2>6. CASE \E s \in PlainStates : StorePut(s)
    BY <2>6, StorePutInv
  <2> QED
    BY <2>1, <2>2, <2>3, <2>4, <2>5, <2>6 DEF BuilderNext
<1> QED
  BY BuilderInitInv, <1>1, PTL DEF BuilderSpec

(* The types of the builder's state; its trees are complete.               *)
THEOREM BuilderTypeCorrect == BuilderSpec => []BuilderTypeOK
  BY BuilderInvariant, PTL DEF BuilderInv, StoreInv

(* The CID that the builder keeps names the manifest that it has loaded,   *)
(* whatever bundles failed to install before (builder.rs:93-105).          *)
THEOREM ManifestAlwaysNamed == BuilderSpec => []ManifestNamed
  BY BuilderInvariant, PTL DEF BuilderInv, StoreInv

(* While the store takes every block, no address is left without an actor  *)
(* by create_builtin_actor (builder.rs:174-184).                           *)
THEOREM AddressesAlwaysHaveActors == BuilderSpec => []AddressesHaveActors
  BY BuilderInvariant, PTL DEF BuilderInv, TreeInv

(* An ID that is assigned next (builder.rs:181) is that of no actor that   *)
(* the present Init actor has counted, singletons and those older than it  *)
(* excepted: the creation overwrites nobody else.                          *)
THEOREM NewIdsAlwaysFree == BuilderSpec => []NewIdsFree
  BY BuilderInvariant, PTL DEF BuilderInv, TreeInv

(* Every bench that was built can load its tree, its states and its        *)
(* manifest from the store, as long as the builder is used.                *)
THEOREM BenchesStayComplete == BuilderSpec => []BenchesComplete
  BY BuilderInvariant, PTL DEF BuilderInv, StoreInv

-----------------------------------------------------------------------------
(* The code of the actors.                                                 *)

CodesOf(m) == {CodeById[m][t] : t \in DOMAIN CodeById[m]}
Coded(t, m) == \A id \in Ids : Exists(t, id) => m # None /\ t[id].code \in CodesOf(m)

(* All actors, also those of trees that were flushed, have code of the     *)
(* manifest that is loaded.                                                *)
CodesInv ==
  /\ Coded(state_tree, builtin_manifest)
  /\ \A root \in roots : Coded(root, builtin_manifest)

LEMMA InternalCoded ==
  ASSUME NEW outcome, NEW t \in StateTree, NEW stored, NEW type, NEW id \in Ids, NEW state,
         NEW balance, Coded(t, builtin_manifest),
         CreateInternal(outcome, t, stored, type, id, state, balance)
  PROVE  Coded(state_tree', builtin_manifest)
<1>1. CASE state_tree' = t
  BY <1>1
<1>2. CASE /\ builtin_manifest # None
           /\ type \in DOMAIN CodeById[builtin_manifest]
           /\ state_tree' = [t EXCEPT ![id] =
                [code |-> CodeById[builtin_manifest][type], state |-> state, balance |-> balance]]
  BY <1>2 DEF Coded, CodesOf, StateTree, Exists
<1> QED
  BY <1>1, <1>2 DEF CreateInternal

LEMMA SingletonCoded ==
  ASSUME BuilderInv, Coded(state_tree, builtin_manifest), NEW outcome, NEW type,
         NEW id \in Ids, NEW state, NEW balance,
         CreateSingletonActor(outcome, type, id, state, balance)
  PROVE  Coded(state_tree', builtin_manifest)
  BY InternalCoded DEF CreateSingletonActor, BuilderInv, TreeInv

(* The Init actor keeps its code when an address is registered.            *)
LEMMA BuiltinCoded ==
  ASSUME BuilderInv, Coded(state_tree, builtin_manifest), NEW outcome, NEW type,
         NEW address \in Addresses, NEW state, NEW balance,
         CreateBuiltinActor(outcome, type, address, state, balance)
  PROVE  Coded(state_tree', builtin_manifest)
<1>1. CASE UNCHANGED state_tree
  BY <1>1
<1>2. CASE /\ HasInit(state_tree) /\ NextId \in Ids
           /\ CreateInternal(outcome, RegisteredTree(address), blocks \cup {Registered(address)},
                             type, NextId, state, balance)
  <2> DEFINE init == [state_tree[InitId] EXCEPT !.state = Registered(address)]
  <2>1. /\ state_tree \in StateTree /\ InitId \in Ids /\ state_tree[InitId] \in ActorState
        /\ Exists(state_tree, InitId)
    BY <1>2, IdAssumption DEF HasInit, StateTree, Exists, BuilderInv, TreeInv
  <2>2. init.code = state_tree[InitId].code
    BY <2>1 DEF ActorState
  <2>3. RegisteredTree(address) = [state_tree EXCEPT ![InitId] = init]
    BY DEF RegisteredTree
  <2> HIDE DEF init
  <2>4. RegisteredTree(address) \in StateTree
    BY <1>2, RegisteredFacts
  <2>5. \A i \in Ids : RegisteredTree(address)[i] = IF i = InitId THEN init ELSE state_tree[i]
    BY <2>1, <2>3 DEF StateTree
  <2>6. Coded(RegisteredTree(address), builtin_manifest)
    BY <2>1, <2>2, <2>5 DEF Coded, Exists
  <2> QED
    BY <1>2, <2>4, <2>6, InternalCoded
<1> QED
  BY <1>1, <1>2 DEF CreateBuiltinActor

LEMMA CodesNext ==
  ASSUME BuilderInv, CodesInv, [BuilderNext]_builderVars
  PROVE  CodesInv'
<1>1. CASE UNCHANGED <<state_tree, roots, builtin_manifest>>
  BY <1>1 DEF CodesInv
(* A manifest is loaded only while there is no actor. *)
<1>2. CASE builtin_manifest = None /\ UNCHANGED <<state_tree, roots>>
  BY <1>2 DEF CodesInv, Coded
<1>3. CASE Flush /\ UNCHANGED <<state_tree, builtin_manifest>>
  BY <1>3 DEF CodesInv, Flush
<1>4. ASSUME NEW outcome, NEW balance, NEW new \in Singletons,
             CreateSingletonActor(outcome, new.type, new.id, new.state, balance)
      PROVE  CodesInv'
  <2>1. new.id \in Ids
    BY CreatedAssumption
  <2>2. Coded(state_tree', builtin_manifest)
    BY <1>4, <2>1, SingletonCoded DEF CodesInv
  <2> QED
    BY <1>4, <2>2 DEF CreateSingletonActor, CodesInv
<1>5. ASSUME NEW outcome, NEW balance, NEW new \in Accounts, NEW address \in Addresses,
             CreateBuiltinActor(outcome, new.type, address, new.state, balance)
      PROVE  CodesInv'
  <2>1. Coded(state_tree', builtin_manifest)
    BY <1>5, BuiltinCoded DEF CodesInv
  <2> QED
    BY <1>5, <2>1 DEF CreateBuiltinActor, CodesInv
<1>6. CASE UNCHANGED builderVars
  BY <1>1, <1>6 DEF builderVars
<1>7. CASE \E bundle \in Bundles : InstallBundle(bundle)
  BY <1>2, <1>7 DEF InstallBundle, Import, ImportFails
<1>8. CASE CreateStep
  BY <1>4, <1>5, <1>8 DEF CreateStep
<1>9. CASE \E supply \in Balances : Build(supply)
  BY <1>3, <1>9 DEF Build
<1>10. CASE BuildFails
  BY <1>1, <1>3, <1>10 DEF BuildFails
<1>11. CASE \E s \in PlainStates : StorePut(s)
  BY <1>1, <1>11 DEF StorePut
<1> QED
  BY <1>6, <1>7, <1>8, <1>9, <1>10, <1>11 DEF BuilderNext

(* A type of a manifest is reported for a code exactly if it is among the  *)
(* listed types and the code is the manifest's for it: no two are.         *)
LEMMA ReportedType ==
  ASSUME NEW m \in Manifests, NEW code, NEW type
  PROVE  TypesReported(m, code) = {type} <=>
           type \in DOMAIN CodeById[m] \cap 1..16 /\ CodeById[m][type] = code
<1> DEFINE listed == DOMAIN CodeById[m] \cap 1..16
<1>1. \A t \in TypeIds : t \in TypesReported(m, code) <=> t \in listed /\ CodeById[m][t] = code
  BY DEF TypesReported, BuiltinActorsManifest, ListedTypes
<1>2. listed \subseteq TypeIds
  BY ManifestAssumption
<1>3. \A t, u \in listed : CodeById[m][t] = CodeById[m][u] => t = u
  BY ManifestAssumption
<1>4. TypesReported(m, code) \subseteq TypeIds
  BY DEF TypesReported
<1> HIDE DEF listed
<1>5. ASSUME type \in listed, CodeById[m][type] = code
      PROVE  TypesReported(m, code) = {type}
  BY <1>1, <1>2, <1>3, <1>4, <1>5
<1>6. ASSUME TypesReported(m, code) = {type}
      PROVE  type \in listed /\ CodeById[m][type] = code
  BY <1>1, <1>4, <1>6
<1> QED
  BY <1>5, <1>6 DEF listed

(* The manifest that a bench reports from is one that there is.            *)
LEMMA BenchManifest ==
  ASSUME BuilderInv, NEW k \in DOMAIN benches
  PROVE  ManifestOf(benches[k].initial_state_root) \in Manifests
<1> DEFINE m == ManifestOf(benches[k].initial_state_root)
<1>1. ManifestBlock(m) \in ActorStates \cup BundleBlocks
  BY DEF BuilderInv, StoreInv, BenchesComplete, BuilderTypeOK
<1> HIDE DEF m
<1>2. ManifestBlock(m).kind = "manifest" /\ ManifestBlock(m).manifest = m
  BY DEF ManifestBlock
<1>3. ManifestBlock(m) \notin ActorStates
  BY <1>2, PlainAssumption DEF ActorStates, InitStates, SystemStates
<1> QED
  BY <1>1, <1>2, <1>3 DEF BundleBlocks, m

(* Every actor of a bench has the code of a type of the manifest that was  *)
(* installed, and the bench reports just this type for it                  *)
(* (bench/mod.rs:147-232) if and only if the System actor's manifest has   *)
(* the same code for it.                                                   *)
THEOREM CodesAlwaysReported == BuilderSpec => []CodesReported
<1>1. BuilderInit => CodesInv
  BY EmptyTree DEF BuilderInit, CodesInv, Coded
<1>2. BuilderInv /\ CodesInv /\ [BuilderNext]_builderVars => CodesInv'
  BY CodesNext
<1>3. BuilderInv /\ CodesInv => CodesReported
  <2> SUFFICES ASSUME BuilderInv, CodesInv, NEW k \in DOMAIN benches, NEW id \in Ids,
                      Exists(benches[k].initial_state_root, id)
               PROVE  \E type \in DOMAIN CodeById[builtin_manifest] :
                        LET root == benches[k].initial_state_root
                            reporting == CodeById[ManifestOf(root)]
                        IN /\ root[id].code = CodeById[builtin_manifest][type]
                           /\ TypesReported(ManifestOf(root), root[id].code) = {type}
                                <=> /\ type \in DOMAIN reporting \cap 1..16
                                    /\ reporting[type] = root[id].code
    BY DEF CodesReported
  <2> DEFINE root == benches[k].initial_state_root
  <2>1. root \in roots
    BY DEF BuilderInv, StoreInv, BenchesComplete
  <2>2. ManifestOf(root) \in Manifests
    BY BenchManifest
  <2> HIDE DEF root
  <2>3. root[id].code \in CodesOf(builtin_manifest)
    BY <2>1 DEF CodesInv, Coded, root
  <2>4. PICK type \in DOMAIN CodeById[builtin_manifest] :
          root[id].code = CodeById[builtin_manifest][type]
    BY <2>3 DEF CodesOf
  <2>5. TypesReported(ManifestOf(root), root[id].code) = {type} <=>
          /\ type \in DOMAIN CodeById[ManifestOf(root)] \cap 1..16
          /\ CodeById[ManifestOf(root)][type] = root[id].code
    BY <2>2, ReportedType
  <2> QED
    BY <2>4, <2>5 DEF root
<1> QED
  BY <1>1, <1>2, <1>3, BuilderInvariant, PTL DEF BuilderSpec

-----------------------------------------------------------------------------
(* Genesis.  What its actors are with the IDs that they get, and where     *)
(* each of them goes.                                                      *)
ExpectedIds ==
  [verifreg_signer |-> FirstId, verifreg_root |-> FirstId + 1, faucet |-> FirstId + 2]
Expected(s) == GenesisActors(s, ExpectedIds)
PlaceOf(i) ==
  << SystemId, InitId, 2, 3, 4, 5, FirstId, FirstId + 1, 6, 7, 10, BurntAddress, FirstId + 2 >>[i]

(* How many of the first n actors have been given an ID.                   *)
Numbered(n) == IF n < 7 THEN 0 ELSE IF n < 8 THEN 1 ELSE IF n < 13 THEN 2 ELSE 3

Placed(i) ==
  /\ PlaceOf(i) \in Ids /\ Exists(state_tree, PlaceOf(i))
  /\ state_tree[PlaceOf(i)].state = Expected(spec)[i].state
  /\ state_tree[PlaceOf(i)].balance = Expected(spec)[i].balance

GenesisTyped ==
  /\ genesis \in {"none", "running", "failed", "ok"} /\ spec \in Specs
  /\ created \in 0..13
  /\ assigned \in [Names -> Ids \cup {None}]
  /\ genesis = "running" => created < 13
  /\ genesis = "ok" => created = 13

(* The actors of the call so far are in their places, but for the Init     *)
(* actor, whose state changes with every address that is registered.       *)
ActorsPlaced == \A i \in 1..created : i # 2 => Placed(i)

InitPlaced ==
  created >= 2 =>
    /\ HasInit(state_tree) /\ state_tree[InitId].balance = 0
    /\ genesis = "running" => NextId = FirstId + Numbered(created)
    /\ genesis = "ok" => NextId \in Nat /\ NextId >= FirstId + 3

IdsAssigned ==
  /\ created >= 7 => assigned["verifreg_signer"] = FirstId
  /\ created >= 8 => assigned["verifreg_root"] = FirstId + 1
  /\ created >= 13 => assigned["faucet"] = FirstId + 2

AddressesMapped ==
  /\ created >= 7 /\ (created = 13 => spec.verifreg_signer # spec.faucet) =>
       AddressMap(state_tree)[spec.verifreg_signer] = FirstId
  /\ created >= 8 => AddressMap(state_tree)[RootAddress] = FirstId + 1
  /\ created >= 13 => AddressMap(state_tree)[spec.faucet] = FirstId + 2

(* Whoever is not the caller's is where the genesis puts its actors, also  *)
(* if it was an earlier call that failed; and what this call has created   *)
(* is not the caller's.                                                    *)
OthersPlaced ==
  \A id \in Ids \ own : Exists(state_tree, id) => \E i \in 1..13 : id = PlaceOf(i)

PlacesOurs == \A i \in 1..created : PlaceOf(i) \notin own

GenesisInv ==
  /\ GenesisTyped /\ OthersPlaced
  /\ genesis \in {"running", "ok"} =>
       ActorsPlaced /\ InitPlaced /\ IdsAssigned /\ AddressesMapped /\ PlacesOurs

-----------------------------------------------------------------------------
LEMMA ExpectedId ==
  /\ ExpectedIds["verifreg_signer"] = FirstId
  /\ ExpectedIds["verifreg_root"] = FirstId + 1
  BY DEF ExpectedIds

(* Once the IDs it refers to have been assigned, each actor is the one     *)
(* that is expected, and goes to its place.                                *)
LEMMA ActorExpected ==
  ASSUME NEW s, NEW ids, NEW n \in 1..13,
         n >= 8 => ids["verifreg_signer"] = FirstId,
         n >= 9 => ids["verifreg_root"] = FirstId + 1
  PROVE  /\ GenesisActors(s, ids)[n].state = Expected(s)[n].state
         /\ GenesisActors(s, ids)[n].balance = Expected(s)[n].balance
         /\ ("id" \in DOMAIN GenesisActors(s, ids)[n]) <=> n \notin {7, 8, 13}
         /\ n \notin {7, 8, 13} => GenesisActors(s, ids)[n].id = PlaceOf(n)
         /\ n = 7 => /\ GenesisActors(s, ids)[n].name = "verifreg_signer"
                     /\ GenesisActors(s, ids)[n].address = s.verifreg_signer
         /\ n = 8 => /\ GenesisActors(s, ids)[n].name = "verifreg_root"
                     /\ GenesisActors(s, ids)[n].address = RootAddress
         /\ n = 13 => /\ GenesisActors(s, ids)[n].name = "faucet"
                      /\ GenesisActors(s, ids)[n].address = s.faucet
<1> USE ExpectedId DEF GenesisActors, Expected, SingletonActor, AddressedActor, PlaceOf
<1>1. CASE n = 1
  BY <1>1
<1>2. CASE n = 2
  BY <1>2
<1>3. CASE n = 3
  BY <1>3
<1>4. CASE n = 4
  BY <1>4
<1>5. CASE n = 5
  BY <1>5
<1>6. CASE n = 6
  BY <1>6
<1>7. CASE n = 7
  BY <1>7
<1>8. CASE n = 8
  BY <1>8
<1>9. CASE n = 9
  BY <1>9
<1>10. CASE n = 10
  BY <1>10
<1>11. CASE n = 11
  BY <1>11
<1>12. CASE n = 12
  BY <1>12
<1>13. CASE n = 13
  BY <1>13
<1> HIDE DEF GenesisActors, Expected, PlaceOf
<1> QED
  BY <1>1, <1>2, <1>3, <1>4, <1>5, <1>6, <1>7, <1>8, <1>9, <1>10, <1>11, <1>12, <1>13

(* Whose states and balances the builder takes.                            *)
LEMMA ExpectedTyped ==
  ASSUME NEW s \in Specs, NEW n \in 1..13,
         n >= 8 => FirstId \in Ids, n >= 9 => FirstId + 1 \in Ids
  PROVE  /\ Expected(s)[n].state \in ActorStates
         /\ Expected(s)[n].state.kind = "init" => Expected(s)[n].state = NewInitState
         /\ Expected(s)[n].balance \in Balances
         /\ n = 2 => Expected(s)[n].state = NewInitState
         /\ n \notin {3, 13} => Expected(s)[n].balance = 0
         /\ n \notin {7, 8, 13} => PlaceOf(n) \in Ids /\ PlaceOf(n) < FirstId
         /\ n \notin {2, 7, 8, 13} => PlaceOf(n) # InitId
<1>1. /\ s.system_manifest_cid \in Manifests
      /\ s.reward_balance \in Balances /\ s.faucet_balance \in Balances /\ 0 \in Balances
      /\ s.verifreg_signer \in Addresses /\ s.faucet \in Addresses
      /\ GenesisStates \subseteq ActorStates
      /\ {2, 3, 4, 5, 6, 7, 10, 99} \subseteq Ids
      /\ \A id \in {2, 3, 4, 5, 6, 7, 10, 99} : id \notin {SystemId, InitId} /\ id < FirstId
  BY GenesisAssumption, SingletonIdAssumption DEF ActorStates
<1>2. /\ Kind("reward") \in GenesisStates /\ Kind("cron") \in GenesisStates
      /\ Kind("power") \in GenesisStates /\ Kind("market") \in GenesisStates
      /\ Kind("datacap") \in GenesisStates /\ Kind("eam") \in GenesisStates
      /\ \A a \in Addresses \cup {BurntAddress} : AccountState(a) \in GenesisStates
      /\ \A id \in Ids : MultisigState(id) \in GenesisStates /\ VerifregState(id) \in GenesisStates
  BY DEF GenesisStates
<1>3. \A state \in GenesisStates : state.kind # "init"
  BY GenesisAssumption, PlainAssumption
<1>4. NewInitState \in ActorStates
  BY IdAssumption DEF NewInitState, InitState, InitStates, ActorStates
<1>5. SystemState(s.system_manifest_cid) \in ActorStates /\ SystemState(s.system_manifest_cid).kind = "system"
  BY <1>1 DEF SystemState, SystemStates, ActorStates
<1> USE ExpectedId DEF GenesisActors, Expected, SingletonActor, AddressedActor
<1> HIDE DEF ExpectedIds
<1>6. /\ Expected(s)[1].state = SystemState(s.system_manifest_cid) /\ Expected(s)[1].balance = 0
      /\ Expected(s)[2].state = NewInitState /\ Expected(s)[2].balance = 0
      /\ Expected(s)[3].state = Kind("reward") /\ Expected(s)[3].balance = s.reward_balance
      /\ Expected(s)[4].state = Kind("cron") /\ Expected(s)[4].balance = 0
      /\ Expected(s)[5].state = Kind("power") /\ Expected(s)[5].balance = 0
      /\ Expected(s)[6].state = Kind("market") /\ Expected(s)[6].balance = 0
      /\ Expected(s)[7].state = AccountState(s.verifreg_signer) /\ Expected(s)[7].balance = 0
      /\ Expected(s)[8].state = MultisigState(FirstId) /\ Expected(s)[8].balance = 0
      /\ Expected(s)[9].state = VerifregState(FirstId + 1) /\ Expected(s)[9].balance = 0
      /\ Expected(s)[10].state = Kind("datacap") /\ Expected(s)[10].balance = 0
      /\ Expected(s)[11].state = Kind("eam") /\ Expected(s)[11].balance = 0
      /\ Expected(s)[12].state = AccountState(BurntAddress) /\ Expected(s)[12].balance = 0
      /\ Expected(s)[13].state = AccountState(s.faucet)
      /\ Expected(s)[13].balance = s.faucet_balance
  OBVIOUS
<1> HIDE DEF GenesisActors, Expected
<1>7. /\ PlaceOf(1) = SystemId /\ PlaceOf(2) = InitId /\ PlaceOf(3) = 2 /\ PlaceOf(4) = 3
      /\ PlaceOf(5) = 4 /\ PlaceOf(6) = 5 /\ PlaceOf(9) = 6 /\ PlaceOf(10) = 7
      /\ PlaceOf(11) = 10 /\ PlaceOf(12) = 99
  BY DEF PlaceOf, BurntAddress
<1>8. /\ SystemId \in Ids /\ SystemId < FirstId /\ InitId \in Ids /\ InitId < FirstId
      /\ SystemId # InitId
  BY IdAssumption
<1>9. /\ Expected(s)[n].state \in ActorStates
      /\ Expected(s)[n].state.kind = "init" => n = 2
  BY <1>1, <1>2, <1>3, <1>4, <1>5, <1>6
<1>10. Expected(s)[n].balance \in Balances /\ (n \notin {3, 13} => Expected(s)[n].balance = 0)
  BY <1>1, <1>6
<1>11. n \notin {7, 8, 13} => PlaceOf(n) \in Ids /\ PlaceOf(n) < FirstId
  BY <1>1, <1>7, <1>8
<1>12. n \notin {2, 7, 8, 13} => PlaceOf(n) # InitId
  BY <1>1, <1>7, <1>8
<1> QED
  BY <1>6, <1>9, <1>10, <1>11, <1>12

LEMMA PlacesDistinct ==
  ASSUME NEW i \in 1..13, NEW j \in 1..13, PlaceOf(i) = PlaceOf(j)
  PROVE  i = j
<1>1. \A id \in {2, 3, 4, 5, 6, 7, 10, 99} : id \notin {SystemId, InitId} /\ id < FirstId
  BY SingletonIdAssumption
<1>2. SystemId # InitId /\ SystemId < FirstId /\ InitId < FirstId /\ FirstId \in Nat
      /\ SystemId \in Nat /\ InitId \in Nat
  BY IdAssumption
<1>3. /\ PlaceOf(1) = SystemId /\ PlaceOf(2) = InitId /\ PlaceOf(3) = 2 /\ PlaceOf(4) = 3
      /\ PlaceOf(5) = 4 /\ PlaceOf(6) = 5 /\ PlaceOf(7) = FirstId /\ PlaceOf(8) = FirstId + 1
      /\ PlaceOf(9) = 6 /\ PlaceOf(10) = 7 /\ PlaceOf(11) = 10 /\ PlaceOf(12) = 99
      /\ PlaceOf(13) = FirstId + 2
  BY DEF PlaceOf, BurntAddress
<1> QED
  BY <1>1, <1>2, <1>3

(* Those of singletons are below the IDs that are assigned.                *)
LEMMA PlacesLow ==
  ASSUME NEW i \in 1..13, i \notin {7, 8, 13}
  PROVE  PlaceOf(i) < FirstId
<1>1. \A id \in {2, 3, 4, 5, 6, 7, 10, 99} : id < FirstId
  BY SingletonIdAssumption
<1>2. SystemId < FirstId /\ InitId < FirstId
  BY IdAssumption
<1>3. /\ PlaceOf(1) = SystemId /\ PlaceOf(2) = InitId /\ PlaceOf(3) = 2 /\ PlaceOf(4) = 3
      /\ PlaceOf(5) = 4 /\ PlaceOf(6) = 5 /\ PlaceOf(9) = 6 /\ PlaceOf(10) = 7
      /\ PlaceOf(11) = 10 /\ PlaceOf(12) = 99
  BY DEF PlaceOf, BurntAddress
<1> QED
  BY <1>1, <1>2, <1>3

Addressed(n) == n \in {7, 8, 13}
AddressAt(n) ==
  IF n = 7 THEN spec.verifreg_signer ELSE IF n = 8 THEN RootAddress ELSE spec.faucet

(* What the builder is called for next.                                    *)
LEMMA NextActor ==
  ASSUME GenesisInv, NEW outcome, CreateNext(outcome), NEW n, n = created + 1
  PROVE  /\ n \in 1..13 /\ genesis = "running" /\ UNCHANGED <<spec, calls>>
         /\ n >= 8 => FirstId \in Ids
         /\ n >= 9 => FirstId + 1 \in Ids
         /\ ~Addressed(n) => \E type :
              CreateSingletonActor(outcome, type, PlaceOf(n), Expected(spec)[n].state,
                                   Expected(spec)[n].balance)
         /\ Addressed(n) => \E type :
              CreateBuiltinActor(outcome, type, AddressAt(n), Expected(spec)[n].state,
                                 Expected(spec)[n].balance)
         /\ outcome = "created" =>
              /\ created' = n
              /\ genesis' = IF n = 13 THEN "ok" ELSE "running"
              /\ own' = own \ {IF Addressed(n) THEN NextId ELSE PlaceOf(n)}
              /\ ~Addressed(n) => UNCHANGED assigned
              /\ n = 7 => assigned' = [assigned EXCEPT !["verifreg_signer"] = NextId]
              /\ n = 8 => assigned' = [assigned EXCEPT !["verifreg_root"] = NextId]
              /\ n = 13 => assigned' = [assigned EXCEPT !["faucet"] = NextId]
         /\ outcome # "created" => genesis' = "failed" /\ UNCHANGED <<created, assigned, own>>
<1> DEFINE actor == GenesisActors(spec, assigned)[n]
<1>1. genesis = "running" /\ n \in 1..13 /\ UNCHANGED <<spec, calls>>
  BY DEF CreateNext, GenesisInv, GenesisTyped
<1>2. created \in 0..13 /\ IdsAssigned /\ \A i \in 1..created : i # 2 => Placed(i)
  BY <1>1 DEF GenesisInv, GenesisTyped, ActorsPlaced
<1>3. /\ n >= 8 => assigned["verifreg_signer"] = FirstId /\ Placed(7)
      /\ n >= 9 => assigned["verifreg_root"] = FirstId + 1 /\ Placed(8)
  BY <1>2 DEF IdsAssigned
<1>4. PlaceOf(7) = FirstId /\ PlaceOf(8) = FirstId + 1
  BY DEF PlaceOf
<1>5. /\ actor.state = Expected(spec)[n].state
      /\ actor.balance = Expected(spec)[n].balance
      /\ ("id" \in DOMAIN actor) <=> n \notin {7, 8, 13}
      /\ n \notin {7, 8, 13} => actor.id = PlaceOf(n)
      /\ n = 7 => actor.name = "verifreg_signer" /\ actor.address = spec.verifreg_signer
      /\ n = 8 => actor.name = "verifreg_root" /\ actor.address = RootAddress
      /\ n = 13 => actor.name = "faucet" /\ actor.address = spec.faucet
  BY <1>1, <1>3, ActorExpected
<1>6. Len(GenesisActors(spec, assigned)) = 13
  BY DEF GenesisActors
<1>7. /\ IF "id" \in DOMAIN actor
         THEN CreateSingletonActor(outcome, actor.type, actor.id, actor.state, actor.balance)
         ELSE CreateBuiltinActor(outcome, actor.type, actor.address, actor.state, actor.balance)
      /\ IF outcome = "created"
         THEN /\ created' = created + 1
              /\ genesis' = IF created' = 13 THEN "ok" ELSE "running"
              /\ assigned' = IF "id" \in DOMAIN actor THEN assigned
                             ELSE [assigned EXCEPT ![actor.name] = NextId]
              /\ own' = own \ {IF "id" \in DOMAIN actor THEN actor.id ELSE NextId}
         ELSE genesis' = "failed" /\ UNCHANGED <<created, assigned, own>>
  BY <1>6 DEF CreateNext
<1> HIDE DEF actor
<1>8. ~Addressed(n) => \E type :
        CreateSingletonActor(outcome, type, PlaceOf(n), Expected(spec)[n].state,
                             Expected(spec)[n].balance)
  BY <1>5, <1>7 DEF Addressed
<1>9. Addressed(n) => \E type :
        CreateBuiltinActor(outcome, type, AddressAt(n), Expected(spec)[n].state,
                           Expected(spec)[n].balance)
  BY <1>5, <1>7 DEF Addressed, AddressAt
<1>10. outcome = "created" =>
              /\ created' = n
              /\ genesis' = IF n = 13 THEN "ok" ELSE "running"
              /\ own' = own \ {IF Addressed(n) THEN NextId ELSE PlaceOf(n)}
              /\ ~Addressed(n) => UNCHANGED assigned
              /\ n = 7 => assigned' = [assigned EXCEPT !["verifreg_signer"] = NextId]
              /\ n = 8 => assigned' = [assigned EXCEPT !["verifreg_root"] = NextId]
              /\ n = 13 => assigned' = [assigned EXCEPT !["faucet"] = NextId]
  BY <1>5, <1>7 DEF Addressed
<1> QED
  BY <1>1, <1>3, <1>4, <1>7, <1>8, <1>9, <1>10 DEF Placed

LEMMA AddressTyped ==
  ASSUME NEW n, spec \in Specs
  PROVE  AddressAt(n) \in Addresses
  BY GenesisAssumption DEF AddressAt

(* The builder keeps its invariant, whoever uses it.                       *)
LEMMA GenesisKeepsBuilder ==
  ASSUME BuilderInv, GenesisInv, [GenesisNext]_vars
  PROVE  BuilderInv'
<1>1. spec \in Specs
  BY DEF GenesisInv, GenesisTyped
<1>2. CASE UNCHANGED builderVars
  BY <1>2, BuilderKept
<1>3. ASSUME NEW outcome, CreateNext(outcome)
      PROVE  BuilderInv'
  <2> DEFINE n == created + 1
             state == Expected(spec)[n].state
             balance == Expected(spec)[n].balance
  <2>1. /\ n \in 1..13
        /\ n >= 8 => FirstId \in Ids
        /\ n >= 9 => FirstId + 1 \in Ids
        /\ ~Addressed(n) => \E type : CreateSingletonActor(outcome, type, PlaceOf(n), state, balance)
        /\ Addressed(n) => \E type : CreateBuiltinActor(outcome, type, AddressAt(n), state, balance)
    BY <1>3, NextActor
  <2>2. /\ state \in ActorStates /\ balance \in Balances
        /\ state.kind = "init" => state = NewInitState
        /\ ~Addressed(n) => PlaceOf(n) \in Ids
    BY <1>1, <2>1, ExpectedTyped DEF Addressed
  <2>3. AddressAt(n) \in Addresses
    BY <1>1, AddressTyped
  <2> HIDE DEF state, balance, n
  <2>4. CASE Addressed(n)
    BY <2>1, <2>2, <2>3, <2>4, BuiltinInv
  <2>5. CASE ~Addressed(n)
    BY <2>1, <2>2, <2>5, SingletonInv
  <2> QED
    BY <2>4, <2>5
<1>4. CASE EmptyMapFails
  <2>1. TreeInv'
    BY <1>4, TreeKept DEF EmptyMapFails, Panic
  <2>2. StoreInv'
    BY <1>4, StoreGrows DEF EmptyMapFails, Panic, BuilderInv, TreeInv, StoreInv, BuilderTypeOK
  <2> QED
    BY <2>1, <2>2 DEF BuilderInv
<1>5. ASSUME CallerStep
      PROVE  BuilderInv'
  <2>1. CASE \E bundle \in Bundles : InstallBundle(bundle)
    BY <2>1, ImportInv, ImportFailsInv DEF InstallBundle
  <2>2. CASE \E outcome \in Outcomes, new \in Singletons, balance \in CallerBalances :
               CallerSingleton(outcome, new, balance)
    <3>1. \A new \in Singletons :
            /\ new.id \in Ids /\ new.state \in ActorStates
            /\ new.state.kind = "init" => new.state = NewInitState
      BY CreatedAssumption
    <3> QED
      BY <2>2, <3>1, SingletonInv, GenesisAssumption DEF CallerSingleton
  <2>3. CASE \E outcome \in Outcomes, new \in Accounts, address \in CallerAddresses,
                balance \in CallerBalances :
               CallerAccount(outcome, new, address, balance)
    <3>1. \A new \in Accounts : new.state \in ActorStates
      BY CreatedAssumption
    <3> QED
      BY <2>3, <3>1, BuiltinInv, GenesisAssumption DEF CallerAccount
  <2> QED
    BY <1>5, <2>1, <2>2, <2>3 DEF CallerStep
<1>6. CASE BuildGenesis
  <2>1. spec.faucet_balance \in Balances
    BY <1>1, GenesisAssumption
  <2> QED
    BY <1>6, <2>1, BuildInv DEF BuildGenesis
<1>7. CASE \E s \in Specs : CreateGenesisActors(s)
  BY <1>2, <1>7 DEF CreateGenesisActors
<1>8. CASE UNCHANGED vars
  BY <1>2, <1>8 DEF vars
<1> QED
  BY <1>3, <1>4, <1>5, <1>6, <1>7, <1>8 DEF GenesisNext

-----------------------------------------------------------------------------
(* What creation makes of the tree.                                        *)

HasActor(t, id, state, balance) ==
  id \in Ids /\ Exists(t, id) /\ t[id].state = state /\ t[id].balance = balance

LEMMA InternalSets ==
  ASSUME BuilderInv, NEW t \in StateTree, NEW stored, NEW type, NEW id \in Ids,
         NEW state \in ActorStates, NEW balance \in Balances,
         CreateInternal("created", t, stored, type, id, state, balance)
  PROVE  /\ HasActor(state_tree', id, state, balance)
         /\ \A i \in Ids : i # id => state_tree'[i] = t[i]
<1> DEFINE actor == [code |-> CodeById[builtin_manifest][type], state |-> state,
                     balance |-> balance]
<1>1. /\ builtin_manifest # None
      /\ type \in DOMAIN CodeById[builtin_manifest]
      /\ state_tree' = With(t, id, actor)
  BY DEF CreateInternal, With
<1>2. builtin_manifest \in Manifests
  BY <1>1 DEF BuilderInv, StoreInv, BuilderTypeOK
<1>3. actor \in ActorState /\ actor.state = state /\ actor.balance = balance
  BY <1>1, <1>2, ManifestAssumption DEF ActorState
<1> HIDE DEF actor
<1>4. /\ state_tree'[id] = actor
      /\ \A i \in Ids : i # id => state_tree'[i] = t[i]
  BY <1>1, <1>3, TreeWith
<1> QED
  BY <1>3, <1>4, NoActorAssumption DEF HasActor, Exists

LEMMA SingletonSets ==
  ASSUME BuilderInv, NEW type, NEW id \in Ids, NEW state \in ActorStates,
         NEW balance \in Balances, CreateSingletonActor("created", type, id, state, balance)
  PROVE  /\ HasActor(state_tree', id, state, balance)
         /\ \A i \in Ids : i # id => state_tree'[i] = state_tree[i]
  BY InternalSets DEF CreateSingletonActor, BuilderInv, TreeInv

(* Registration leaves the Init actor's balance.                           *)
LEMMA RegisteredKeeps ==
  ASSUME BuilderInv, HasInit(state_tree), NextId \in Ids, NEW address \in Addresses
  PROVE  /\ RegisteredTree(address)[InitId].balance = state_tree[InitId].balance
         /\ \A i \in Ids : i # InitId => RegisteredTree(address)[i] = state_tree[i]
<1> DEFINE init == [state_tree[InitId] EXCEPT !.state = Registered(address)]
<1>1. /\ state_tree \in StateTree /\ InitId \in Ids /\ state_tree[InitId] \in ActorState
  BY IdAssumption DEF HasInit, StateTree, Exists, BuilderInv, TreeInv
<1>2. init.balance = state_tree[InitId].balance
  BY <1>1 DEF ActorState
<1>3. RegisteredTree(address) = [state_tree EXCEPT ![InitId] = init]
  BY DEF RegisteredTree
<1> HIDE DEF init
<1> QED
  BY <1>1, <1>2, <1>3 DEF StateTree

(* What registration and creation leave of the tree, whatever the outcome. *)
LEMMA BuiltinSets ==
  ASSUME BuilderInv, NEW outcome, NEW type, NEW address \in Addresses,
         NEW state \in ActorStates, NEW balance \in Balances,
         CreateBuiltinActor(outcome, type, address, state, balance),
         outcome = "created" \/ state_tree' # state_tree
  PROVE  /\ HasInit(state_tree) /\ HasInit(state_tree') /\ NextId \in Ids
         /\ NextId \in Nat /\ NextId >= FirstId /\ NextId' = NextId + 1
         /\ state_tree'[InitId].balance = state_tree[InitId].balance
         /\ \A a \in Addresses : AddressMap(state_tree')[a] =
              IF a = address THEN NextId ELSE AddressMap(state_tree)[a]
         /\ \A i \in Ids : i \notin {InitId, NextId} => state_tree'[i] = state_tree[i]
         /\ outcome = "created" => HasActor(state_tree', NextId, state, balance)
         /\ outcome # "created" => \A i \in Ids : i # InitId => state_tree'[i] = state_tree[i]
<1> DEFINE registered == RegisteredTree(address)
           stored == blocks \cup {Registered(address)}
<1>1. /\ HasInit(state_tree) /\ NextId \in Ids
      /\ CreateInternal(outcome, registered, stored, type, NextId, state, balance)
  BY DEF CreateBuiltinActor
<1>2. /\ registered \in StateTree
      /\ HasInit(registered)
      /\ registered[InitId].state.next_id = NextId + 1
      /\ \A a \in Addresses : AddressMap(registered)[a] =
           IF a = address THEN NextId ELSE AddressMap(state_tree)[a]
      /\ registered[InitId].balance = state_tree[InitId].balance
      /\ \A i \in Ids : i # InitId => registered[i] = state_tree[i]
  BY <1>1, RegisteredFacts, RegisteredKeeps
<1>3. /\ InitId \in Ids /\ InitId # NextId /\ NextId \in Nat /\ NextId >= FirstId
  BY <1>1, IdAssumption DEF BuilderInv, TreeInv, CounterPast
<1> HIDE DEF registered, stored
<1>4. /\ \A i \in Ids : i # NextId => state_tree'[i] = registered[i]
      /\ outcome = "created" => HasActor(state_tree', NextId, state, balance)
      /\ outcome # "created" => state_tree' = registered
  <2>1. CASE outcome = "created"
    BY <1>1, <1>2, <2>1, InternalSets
  <2>2. CASE outcome # "created"
    BY <1>1, <2>2 DEF CreateInternal
  <2> QED
    BY <2>1, <2>2
<1>5. state_tree'[InitId] = registered[InitId]
  BY <1>3, <1>4
<1>6. HasInit(state_tree') /\ AddressMap(state_tree') = AddressMap(registered)
  BY <1>2, <1>5, InitSame
<1>7. NextId' = NextId + 1
  BY <1>2, <1>5 DEF NextId
<1> QED
  BY <1>1, <1>2, <1>3, <1>4, <1>5, <1>6, <1>7

(* A new Init actor.                                                       *)
LEMMA InitSet ==
  ASSUME HasActor(state_tree', InitId, NewInitState, 0)
  PROVE  HasInit(state_tree') /\ NextId' = FirstId /\ state_tree'[InitId].balance = 0
<1>1. NewInitState \in InitStates /\ NewInitState.next_id = FirstId
  BY IdAssumption DEF NewInitState, InitState, InitStates
<1> QED
  BY <1>1 DEF HasActor, HasInit, NextId

-----------------------------------------------------------------------------
(* The steps of the genesis.                                               *)

(* A singleton is the caller's, or where the genesis puts its own.         *)
LEMMA OthersBySingleton ==
  ASSUME BuilderInv, OthersPlaced, NEW outcome, NEW type, NEW id \in Ids,
         NEW state \in ActorStates, NEW balance \in Balances,
         CreateSingletonActor(outcome, type, id, state, balance),
         outcome = "created" => id \in own' \/ \E i \in 1..13 : id = PlaceOf(i),
         \A i \in own : i \in own' \/ (outcome = "created" /\ i = id)
  PROVE  OthersPlaced'
<1>1. CASE outcome = "created"
  <2>1. \A i \in Ids : i # id => state_tree'[i] = state_tree[i]
    BY <1>1, SingletonSets
  <2> QED
    BY <1>1, <2>1 DEF OthersPlaced, Exists
<1>2. CASE outcome # "created"
  BY <1>2 DEF CreateSingletonActor, CreateInternal, OthersPlaced
<1> QED
  BY <1>1, <1>2

LEMMA OthersByBuiltin ==
  ASSUME BuilderInv, OthersPlaced, NEW outcome, NEW type, NEW address \in Addresses,
         NEW state \in ActorStates, NEW balance \in Balances,
         CreateBuiltinActor(outcome, type, address, state, balance),
         outcome = "created" => NextId \in own' \/ \E i \in 1..13 : NextId = PlaceOf(i),
         \A i \in own : i \in own' \/ (outcome = "created" /\ i = NextId)
  PROVE  OthersPlaced'
<1>1. PlaceOf(2) = InitId
  BY DEF PlaceOf
<1>2. CASE outcome # "created" /\ state_tree' = state_tree
  BY <1>2 DEF OthersPlaced
<1>3. CASE outcome = "created" \/ state_tree' # state_tree
  <2>1. /\ \A i \in Ids : i \notin {InitId, NextId} => state_tree'[i] = state_tree[i]
        /\ outcome # "created" => \A i \in Ids : i # InitId => state_tree'[i] = state_tree[i]
    BY <1>3, BuiltinSets
  <2>2. CASE outcome = "created"
    BY <1>1, <2>1, <2>2 DEF OthersPlaced, Exists
  <2>3. CASE outcome # "created"
    BY <1>1, <2>1, <2>3 DEF OthersPlaced, Exists
  <2> QED
    BY <2>2, <2>3
<1> QED
  BY <1>2, <1>3

LEMMA CreateNextOthers ==
  ASSUME BuilderInv, GenesisInv, NEW outcome, CreateNext(outcome)
  PROVE  OthersPlaced'
<1> DEFINE n == created + 1
           state == Expected(spec)[n].state
           balance == Expected(spec)[n].balance
<1>1. /\ n \in 1..13 /\ genesis = "running"
      /\ n >= 8 => FirstId \in Ids
      /\ n >= 9 => FirstId + 1 \in Ids
      /\ ~Addressed(n) => \E type : CreateSingletonActor(outcome, type, PlaceOf(n), state, balance)
      /\ Addressed(n) => \E type : CreateBuiltinActor(outcome, type, AddressAt(n), state, balance)
      /\ outcome = "created" => own' = own \ {IF Addressed(n) THEN NextId ELSE PlaceOf(n)}
      /\ outcome # "created" => own' = own
  BY NextActor
<1>2. spec \in Specs /\ OthersPlaced /\ InitPlaced /\ created \in 0..13
  BY <1>1 DEF GenesisInv, GenesisTyped
<1>3. /\ state \in ActorStates /\ balance \in Balances
      /\ ~Addressed(n) => PlaceOf(n) \in Ids
  BY <1>1, <1>2, ExpectedTyped DEF Addressed
<1>4. AddressAt(n) \in Addresses
  BY <1>2, AddressTyped
<1>8. /\ PlaceOf(7) = FirstId /\ PlaceOf(8) = FirstId + 1 /\ PlaceOf(13) = FirstId + 2
      /\ FirstId \in Nat /\ created = n - 1
  BY <1>2, IdAssumption DEF PlaceOf
<1> HIDE DEF n, state, balance
<1>5. Addressed(n) => NextId = PlaceOf(n)
  BY <1>1, <1>2, <1>8 DEF Addressed, InitPlaced, Numbered
<1>6. CASE Addressed(n)
  <2>1. outcome = "created" => \E i \in 1..13 : NextId = PlaceOf(i)
    BY <1>1, <1>5, <1>6
  <2>2. \A i \in own : i \in own' \/ (outcome = "created" /\ i = NextId)
    BY <1>1, <1>6
  <2> QED
    BY <1>1, <1>2, <1>3, <1>4, <1>6, <2>1, <2>2, OthersByBuiltin
<1>7. CASE ~Addressed(n)
  <2>1. \E i \in 1..13 : PlaceOf(n) = PlaceOf(i)
    BY <1>1
  <2>2. \A i \in own : i \in own' \/ (outcome = "created" /\ i = PlaceOf(n))
    BY <1>1, <1>7
  <2> QED
    BY <1>1, <1>2, <1>3, <1>7, <2>1, <2>2, OthersBySingleton
<1> QED
  BY <1>6, <1>7

(* Actors that are placed stay, whoever else comes.                        *)
LEMMA PlacedKept ==
  ASSUME NEW i \in 1..13, Placed(i), UNCHANGED spec,
         state_tree'[PlaceOf(i)] = state_tree[PlaceOf(i)]
  PROVE  Placed(i)'
  BY DEF Placed, Exists

LEMMA CreatedInv ==
  ASSUME BuilderInv, GenesisInv, CreateNext("created"), NEW n, n = created + 1
  PROVE  GenesisInv'
<1> DEFINE state == Expected(spec)[n].state
           balance == Expected(spec)[n].balance
<1>1. /\ n \in 1..13 /\ genesis = "running" /\ UNCHANGED <<spec, calls>>
      /\ n >= 8 => FirstId \in Ids
      /\ n >= 9 => FirstId + 1 \in Ids
      /\ ~Addressed(n) => \E type :
           CreateSingletonActor("created", type, PlaceOf(n), state, balance)
      /\ Addressed(n) => \E type :
           CreateBuiltinActor("created", type, AddressAt(n), state, balance)
      /\ created' = n
      /\ genesis' = IF n = 13 THEN "ok" ELSE "running"
      /\ own' = own \ {IF Addressed(n) THEN NextId ELSE PlaceOf(n)}
      /\ ~Addressed(n) => UNCHANGED assigned
      /\ n = 7 => assigned' = [assigned EXCEPT !["verifreg_signer"] = NextId]
      /\ n = 8 => assigned' = [assigned EXCEPT !["verifreg_root"] = NextId]
      /\ n = 13 => assigned' = [assigned EXCEPT !["faucet"] = NextId]
  BY NextActor
<1>2. /\ spec \in Specs /\ created \in 0..13 /\ created = n - 1 /\ assigned \in [Names -> Ids \cup {None}]
      /\ ActorsPlaced /\ InitPlaced /\ IdsAssigned /\ AddressesMapped /\ PlacesOurs
  BY <1>1 DEF GenesisInv, GenesisTyped
<1>3. /\ state \in ActorStates /\ balance \in Balances
      /\ ~Addressed(n) => PlaceOf(n) \in Ids
      /\ n = 2 => state = NewInitState /\ balance = 0
      /\ n \notin {2, 7, 8, 13} => PlaceOf(n) # InitId
  BY <1>1, <1>2, ExpectedTyped DEF Addressed
<1>4. AddressAt(n) \in Addresses
  BY <1>2, AddressTyped
<1>5. FirstId \in Nat /\ InitId \in Ids /\ PlaceOf(2) = InitId
      /\ PlaceOf(7) = FirstId /\ PlaceOf(8) = FirstId + 1 /\ PlaceOf(13) = FirstId + 2
  BY IdAssumption DEF PlaceOf
<1>6. OthersPlaced'
  BY CreateNextOthers
<1>12. PlacesOurs'
  <2>1. Addressed(n) => NextId = PlaceOf(n)
    BY <1>1, <1>2, <1>5 DEF Addressed, InitPlaced, Numbered
  <2>2. own' = own \ {PlaceOf(n)}
    BY <1>1, <2>1
  <2>3. \A i \in 1..n : i = n \/ i \in 1..created
    BY <1>1, <1>2
  <2> QED
    BY <1>1, <1>2, <2>2, <2>3 DEF PlacesOurs
<1> HIDE DEF state, balance
<1>7. GenesisTyped'
  <2>1. Addressed(n) => NextId \in Ids
    BY <1>1, <1>3, <1>4, BuiltinSets
  <2>2. assigned' \in [Names -> Ids \cup {None}]
    BY <1>1, <1>2, <2>1 DEF Addressed
  <2> QED
    BY <1>1, <1>2, <2>2 DEF GenesisTyped
(* The next actor goes where none of the others is. *)
<1>8. ASSUME HasActor(state_tree', PlaceOf(n), state, balance),
             \A i \in Ids : i \notin {InitId, PlaceOf(n)} => state_tree'[i] = state_tree[i]
      PROVE  ActorsPlaced'
  <2>1. Placed(n)'
    BY <1>1, <1>8 DEF HasActor, Placed, state, balance
  <2>2. ASSUME NEW i \in 1..created, i # 2
        PROVE  Placed(i)'
    <3>1. i \in 1..13 /\ i # n /\ Placed(i)
      BY <1>2, <2>2 DEF ActorsPlaced
    <3>2. PlaceOf(i) # PlaceOf(n) /\ PlaceOf(i) # InitId
      BY <1>1, <1>5, <2>2, <3>1, PlacesDistinct
    <3>3. PlaceOf(i) \in Ids
      BY <3>1 DEF Placed
    <3> QED
      BY <1>1, <1>8, <3>1, <3>2, <3>3, PlacedKept
  <2>3. \A i \in 1..n : i = n \/ i \in 1..created
    BY <1>1, <1>2
  <2> QED
    BY <1>1, <2>1, <2>2, <2>3 DEF ActorsPlaced
<1>9. CASE n = 2
  <2>1. HasActor(state_tree', InitId, NewInitState, 0)
        /\ \A i \in Ids : i # InitId => state_tree'[i] = state_tree[i]
    BY <1>1, <1>3, <1>5, <1>9, SingletonSets DEF Addressed
  <2>2. ActorsPlaced'
    BY <1>3, <1>5, <1>8, <1>9, <2>1
  <2>3. HasInit(state_tree') /\ NextId' = FirstId /\ state_tree'[InitId].balance = 0
    BY <2>1, InitSet
  <2>4. InitPlaced'
    BY <1>1, <1>5, <1>9, <2>3 DEF InitPlaced, Numbered
  <2>5. IdsAssigned' /\ AddressesMapped'
    BY <1>1, <1>9 DEF IdsAssigned, AddressesMapped
  <2> QED
    BY <1>6, <1>7, <1>12, <2>2, <2>4, <2>5 DEF GenesisInv
<1>10. CASE n # 2 /\ ~Addressed(n)
  <2>1. HasActor(state_tree', PlaceOf(n), state, balance)
        /\ \A i \in Ids : i # PlaceOf(n) => state_tree'[i] = state_tree[i]
    BY <1>1, <1>3, <1>10, SingletonSets
  <2>2. ActorsPlaced'
    BY <1>8, <2>1
  <2>3. state_tree'[InitId] = state_tree[InitId]
    BY <1>3, <1>5, <1>10, <2>1 DEF Addressed
  <2>4. (HasInit(state_tree') <=> HasInit(state_tree)) /\ AddressMap(state_tree') = AddressMap(state_tree)
        /\ NextId' = NextId
    BY <2>3, InitSame DEF NextId
  <2>5. n # 13 /\ n \notin {7, 8} /\ Numbered(n) = Numbered(created)
    BY <1>1, <1>2, <1>10 DEF Addressed, Numbered
  <2>6. InitPlaced'
    BY <1>1, <1>2, <1>10, <2>3, <2>4, <2>5 DEF InitPlaced
  <2>7. IdsAssigned'
    BY <1>1, <1>2, <1>10, <2>5 DEF IdsAssigned
  <2>8. AddressesMapped'
    BY <1>1, <1>2, <2>4, <2>5 DEF AddressesMapped
  <2> QED
    BY <1>6, <1>7, <1>12, <2>2, <2>6, <2>7, <2>8 DEF GenesisInv
<1>11. CASE Addressed(n)
  <2>1. /\ HasInit(state_tree') /\ NextId \in Nat /\ NextId' = NextId + 1
        /\ state_tree'[InitId].balance = state_tree[InitId].balance
        /\ \A a \in Addresses : AddressMap(state_tree')[a] =
             IF a = AddressAt(n) THEN NextId ELSE AddressMap(state_tree)[a]
        /\ \A i \in Ids : i \notin {InitId, NextId} => state_tree'[i] = state_tree[i]
        /\ HasActor(state_tree', NextId, state, balance)
    BY <1>1, <1>3, <1>4, <1>11, BuiltinSets
  <2>2. /\ HasInit(state_tree) /\ state_tree[InitId].balance = 0
        /\ NextId = FirstId + Numbered(created)
    BY <1>1, <1>2, <1>11 DEF InitPlaced, Addressed
  <2>3. NextId = PlaceOf(n) /\ Numbered(n) = Numbered(created) + 1
    BY <1>2, <1>5, <1>11, <2>2 DEF Addressed, Numbered
  <2>4. ActorsPlaced'
    BY <1>8, <2>1, <2>3
  <2>5. Numbered(created) \in Nat
    BY DEF Numbered
  <2>6. n = 13 => Numbered(n) = 3
    BY DEF Numbered
  <2>7. InitPlaced'
    BY <1>1, <1>5, <2>1, <2>2, <2>3, <2>5, <2>6 DEF InitPlaced
  <2>8. IdsAssigned'
    BY <1>1, <1>2, <1>5, <1>11, <2>3 DEF IdsAssigned, Names, Addressed
  <2>9. /\ spec.verifreg_signer \in Addresses /\ spec.faucet \in Addresses
        /\ RootAddress \in Addresses
        /\ RootAddress # spec.verifreg_signer /\ RootAddress # spec.faucet
    BY <1>2, GenesisAssumption, AddressAssumption
  <2>10. AddressesMapped'
    <3>1. CASE n = 7
      BY <1>1, <1>2, <1>5, <2>1, <2>3, <2>9, <3>1 DEF AddressesMapped, AddressAt
    <3>2. CASE n = 8
      BY <1>1, <1>2, <1>5, <2>1, <2>3, <2>9, <3>2 DEF AddressesMapped, AddressAt
    <3>3. CASE n = 13
      BY <1>1, <1>2, <1>5, <2>1, <2>3, <2>9, <3>3 DEF AddressesMapped, AddressAt
    <3> QED
      BY <1>11, <3>1, <3>2, <3>3 DEF Addressed
  <2> QED
    BY <1>6, <1>7, <1>12, <2>4, <2>7, <2>8, <2>10 DEF GenesisInv
<1> QED
  BY <1>9, <1>10, <1>11

LEMMA FailedInv ==
  ASSUME GenesisInv, genesis' = "failed", UNCHANGED <<spec, created, assigned>>, OthersPlaced'
  PROVE  GenesisInv'
  BY DEF GenesisInv, GenesisTyped

LEMMA GenesisKept ==
  ASSUME GenesisInv, UNCHANGED <<state_tree, genesis, spec, created, assigned, own>>
  PROVE  GenesisInv'
  BY DEF GenesisInv, GenesisTyped, OthersPlaced, PlacesOurs, ActorsPlaced, InitPlaced,
    IdsAssigned, AddressesMapped, Placed, NextId

LEMMA CreateNextInv ==
  ASSUME BuilderInv, GenesisInv, NEW outcome, CreateNext(outcome)
  PROVE  GenesisInv'
<1>1. CASE outcome = "created"
  BY <1>1, CreatedInv
<1>2. CASE outcome # "created"
  <2>1. genesis' = "failed" /\ UNCHANGED <<spec, created, assigned>>
    BY <1>2, NextActor
  <2> QED
    BY <2>1, CreateNextOthers, FailedInv
<1> QED
  BY <1>1, <1>2

(* After genesis the caller's actors are given IDs past the faucet's.      *)
LEMMA CallerAccountInv ==
  ASSUME BuilderInv, GenesisInv, genesis # "running",
         UNCHANGED <<genesis, spec, created, assigned>>,
         NEW outcome, NEW new, NEW address \in CallerAddresses, new.state \in ActorStates,
         NEW balance \in CallerBalances, CallerAccount(outcome, new, address, balance)
  PROVE  GenesisInv'
<1> DEFINE type == new.type
           state == new.state
<1>1. /\ address \in Addresses /\ balance \in Balances /\ state \in ActorStates
      /\ CreateBuiltinActor(outcome, type, address, state, balance)
      /\ own' = own \cup IF outcome = "created" THEN {NextId} ELSE {}
  BY GenesisAssumption DEF CallerAccount
<1> HIDE DEF type, state
<1>2. OthersPlaced'
  <2>1. OthersPlaced /\ own \subseteq own' /\ (outcome = "created" => NextId \in own')
    BY <1>1 DEF GenesisInv
  <2> QED
    BY <1>1, <2>1, OthersByBuiltin
<1>3. CASE genesis # "ok"
  BY <1>1, <1>2, <1>3 DEF GenesisInv, GenesisTyped
<1>4. CASE outcome # "created" /\ state_tree' = state_tree
  BY <1>1, <1>4, GenesisKept
<1>5. CASE genesis = "ok" /\ (outcome = "created" \/ state_tree' # state_tree)
  <2>1. /\ HasInit(state_tree') /\ NextId \in Nat /\ NextId' = NextId + 1
        /\ state_tree'[InitId].balance = state_tree[InitId].balance
        /\ \A a \in Addresses : AddressMap(state_tree')[a] =
             IF a = address THEN NextId ELSE AddressMap(state_tree)[a]
        /\ \A i \in Ids : i \notin {InitId, NextId} => state_tree'[i] = state_tree[i]
    BY <1>1, <1>5, BuiltinSets
  <2>2. /\ created = 13 /\ spec \in Specs
        /\ ActorsPlaced /\ InitPlaced /\ IdsAssigned /\ AddressesMapped /\ PlacesOurs
    BY <1>5 DEF GenesisInv, GenesisTyped
  <2>3. state_tree[InitId].balance = 0 /\ NextId >= FirstId + 3
    BY <1>5, <2>2 DEF InitPlaced
  <2>4. /\ FirstId \in Nat /\ Ids \subseteq Nat /\ PlaceOf(2) = InitId
        /\ PlaceOf(7) = FirstId /\ PlaceOf(8) = FirstId + 1 /\ PlaceOf(13) = FirstId + 2
    BY IdAssumption DEF PlaceOf
  <2>5. ASSUME NEW i \in 1..13
        PROVE  PlaceOf(i) # NextId
    <3>1. i \in {7, 8, 13} \/ PlaceOf(i) < FirstId
      BY PlacesLow
    <3>2. CASE i = 7 \/ i = 8 \/ i = 13
      BY <2>1, <2>3, <2>4, <3>2
    <3>3. CASE PlaceOf(i) < FirstId
      BY <2>1, <2>3, <2>4, <3>3
    <3> QED
      BY <3>1, <3>2, <3>3
  <2>10. ASSUME NEW i \in 1..13, i # 2
        PROVE  Placed(i)'
    <3>1. Placed(i) /\ PlaceOf(i) # InitId /\ PlaceOf(i) \in Ids
      BY <2>2, <2>4, <2>10, PlacesDistinct DEF ActorsPlaced, Placed
    <3> QED
      BY <1>1, <2>1, <2>5, <3>1, PlacedKept
  <2>11. PlacesOurs'
    BY <1>1, <2>2, <2>5 DEF PlacesOurs
  <2>6. ActorsPlaced'
    BY <1>1, <2>2, <2>10 DEF ActorsPlaced
  <2>7. InitPlaced'
    BY <1>1, <1>5, <2>1, <2>3, <2>4 DEF InitPlaced
  <2>8. IdsAssigned'
    BY <1>1, <2>2 DEF IdsAssigned
  <2>9. AddressesMapped'
    <3>1. /\ spec.verifreg_signer \in Addresses /\ spec.faucet \in Addresses
          /\ RootAddress \in Addresses
          /\ address \notin {RootAddress, spec.verifreg_signer, spec.faucet}
      BY <2>2, GenesisAssumption, AddressAssumption
    <3> QED
      BY <1>1, <2>1, <2>2, <3>1 DEF AddressesMapped
  <2> QED
    BY <1>1, <1>2, <1>5, <2>2, <2>6, <2>7, <2>8, <2>9, <2>11 DEF GenesisInv, GenesisTyped
<1> QED
  BY <1>3, <1>4, <1>5

(* A singleton that the caller creates then is in nobody's place.          *)
LEMMA CallerSingletonInv ==
  ASSUME BuilderInv, GenesisInv, genesis # "running",
         UNCHANGED <<genesis, spec, created, assigned>>,
         NEW outcome, NEW new \in Singletons, NEW balance \in CallerBalances,
         CallerSingleton(outcome, new, balance)
  PROVE  GenesisInv'
<1> DEFINE id == new.id
           state == new.state
           type == new.type
<1>1. /\ id \in Ids /\ state \in ActorStates /\ balance \in Balances
      /\ CreateSingletonActor(outcome, type, id, state, balance)
      /\ own' = own \cup IF outcome = "created" THEN {id} ELSE {}
      /\ genesis = "ok" => ~Exists(state_tree, id)
  BY GenesisAssumption, CreatedAssumption DEF CallerSingleton
<1> HIDE DEF id, state, type
<1>2. OthersPlaced'
  <2>1. OthersPlaced /\ own \subseteq own' /\ (outcome = "created" => id \in own')
    BY <1>1 DEF GenesisInv
  <2> QED
    BY <1>1, <2>1, OthersBySingleton
<1>3. CASE genesis # "ok"
  BY <1>1, <1>2, <1>3 DEF GenesisInv, GenesisTyped
<1>4. CASE outcome # "created"
  <2>1. UNCHANGED state_tree
    BY <1>1, <1>4 DEF CreateSingletonActor, CreateInternal
  <2> QED
    BY <1>1, <1>4, <2>1, GenesisKept
<1>5. CASE genesis = "ok" /\ outcome = "created"
  <2>1. /\ created = 13 /\ spec \in Specs
        /\ ActorsPlaced /\ InitPlaced /\ IdsAssigned /\ AddressesMapped /\ PlacesOurs
    BY <1>5 DEF GenesisInv, GenesisTyped
  <2>2. \A i \in Ids : i # id => state_tree'[i] = state_tree[i]
    BY <1>1, <1>5, SingletonSets
  <2>3. PlaceOf(2) = InitId /\ InitId \in Ids /\ HasInit(state_tree)
    BY <2>1, IdAssumption DEF PlaceOf, InitPlaced
  <2>4. state_tree'[InitId] = state_tree[InitId] /\ id # InitId
    BY <1>1, <1>5, <2>2, <2>3 DEF HasInit
  <2>5. /\ HasInit(state_tree') /\ AddressMap(state_tree') = AddressMap(state_tree)
        /\ NextId' = NextId
    BY <2>3, <2>4, InitSame DEF NextId
  <2>6. ASSUME NEW i \in 1..13, i # 2
        PROVE  Placed(i)' /\ PlaceOf(i) # id
    <3>1. Placed(i)
      BY <2>1, <2>6 DEF ActorsPlaced
    <3>2. PlaceOf(i) # id /\ PlaceOf(i) \in Ids
      BY <1>1, <1>5, <3>1 DEF Placed
    <3> QED
      BY <2>2, <3>1, <3>2, PlacedKept
  <2>7. ActorsPlaced'
    BY <2>1, <2>6 DEF ActorsPlaced
  <2>8. InitPlaced'
    BY <2>1, <2>4, <2>5 DEF InitPlaced
  <2>9. PlacesOurs'
    BY <1>1, <1>5, <2>1, <2>3, <2>4, <2>6 DEF PlacesOurs
  <2>10. IdsAssigned' /\ AddressesMapped'
    BY <2>1, <2>5 DEF IdsAssigned, AddressesMapped
  <2> QED
    BY <1>2, <1>5, <2>1, <2>7, <2>8, <2>9, <2>10 DEF GenesisInv, GenesisTyped
<1> QED
  BY <1>3, <1>4, <1>5

(* The invariant: the actors of a call are where they belong, whatever     *)
(* calls failed before it and whatever the caller does after it.           *)
THEOREM GenesisInvariant == GenesisSpec => [](BuilderInv /\ GenesisInv)
<1>1. GenesisInit => BuilderInv /\ GenesisInv
  <2> SUFFICES ASSUME GenesisInit PROVE BuilderInv /\ GenesisInv
    OBVIOUS
  <2>1. BuilderInv
    BY BuilderInitInv DEF GenesisInit
  <2>2. \A id \in Ids : ~Exists(state_tree, id)
    BY EmptyTree DEF GenesisInit, BuilderInit
  <2> QED
    BY <2>1, <2>2 DEF GenesisInit, GenesisInv, GenesisTyped, OthersPlaced
<1>2. BuilderInv /\ GenesisInv /\ [GenesisNext]_vars => GenesisInv'
  <2> SUFFICES ASSUME BuilderInv, GenesisInv, [GenesisNext]_vars PROVE GenesisInv'
    OBVIOUS
  <2>1. CASE UNCHANGED vars
    BY <2>1, GenesisKept DEF vars, builderVars, genesisVars
  <2>2. ASSUME NEW s \in Specs, CreateGenesisActors(s)
        PROVE  GenesisInv'
    BY <2>2 DEF CreateGenesisActors, builderVars, GenesisInv, GenesisTyped, OthersPlaced,
      PlacesOurs, ActorsPlaced, InitPlaced, IdsAssigned, AddressesMapped
  <2>3. CASE \E outcome \in Outcomes : CreateNext(outcome)
    BY <2>3, CreateNextInv
  <2>4. CASE EmptyMapFails
    BY <2>4, FailedInv DEF EmptyMapFails, GenesisInv, OthersPlaced
  <2>5. CASE CallerStep
    <3>1. genesis # "running" /\ UNCHANGED <<genesis, spec, created, assigned>>
      BY <2>5 DEF CallerStep
    <3>2. CASE \E bundle \in Bundles : InstallBundle(bundle) /\ UNCHANGED own
      BY <3>1, <3>2, GenesisKept DEF InstallBundle, Import, ImportFails
    <3>3. CASE \E outcome \in Outcomes, new \in Singletons, balance \in CallerBalances :
                 CallerSingleton(outcome, new, balance)
      BY <3>1, <3>3, CallerSingletonInv
    <3>4. CASE \E outcome \in Outcomes, new \in Accounts, address \in CallerAddresses,
                  balance \in CallerBalances :
                 CallerAccount(outcome, new, address, balance)
      <4>1. \A new \in Accounts : new.state \in ActorStates
        BY CreatedAssumption
      <4> QED
        BY <3>1, <3>4, <4>1, CallerAccountInv
    <3> QED
      BY <2>5, <3>2, <3>3, <3>4 DEF CallerStep
  <2>6. CASE BuildGenesis
    BY <2>6, GenesisKept DEF BuildGenesis, Build, genesisVars
  <2> QED
    BY <2>1, <2>2, <2>3, <2>4, <2>5, <2>6 DEF GenesisNext
<1> QED
  BY <1>1, <1>2, GenesisKeepsBuilder, PTL DEF GenesisSpec

-----------------------------------------------------------------------------
(* What has been made when the call returns.                               *)
LEMMA GenesisMade ==
  ASSUME BuilderInv, GenesisInv, genesis = "ok"
  PROVE  /\ \A i \in 1..13 : i # 2 => Placed(i)
         /\ assigned["verifreg_signer"] = FirstId
         /\ assigned["verifreg_root"] = FirstId + 1
         /\ assigned["faucet"] = FirstId + 2
         /\ assigned \in [Names -> Ids \cup {None}]
         /\ InitPlaced /\ AddressesMapped /\ created = 13 /\ OthersPlaced /\ PlacesOurs
         /\ spec \in Specs
  BY DEF GenesisInv, GenesisTyped, ActorsPlaced, IdsAssigned

(* The IDs that the call returns are the first three that the Init actor   *)
(* assigns, and the three addresses resolve to them (lib.rs:26), also      *)
(* after calls that failed.                                                *)
THEOREM GenesisIdsFirst == GenesisSpec => []GenesisIds
<1>1. BuilderInv /\ GenesisInv => GenesisIds
  <2> SUFFICES ASSUME BuilderInv, GenesisInv, genesis = "ok"
               PROVE  /\ assigned = [verifreg_signer |-> FirstId, verifreg_root |-> FirstId + 1,
                                     faucet |-> FirstId + 2]
                      /\ AddressMap(state_tree)[RootAddress] = assigned["verifreg_root"]
                      /\ AddressMap(state_tree)[spec.faucet] = assigned["faucet"]
                      /\ spec.verifreg_signer # spec.faucet =>
                           AddressMap(state_tree)[spec.verifreg_signer] = assigned["verifreg_signer"]
    BY DEF GenesisIds
  <2> QED
    BY GenesisMade DEF AddressesMapped, Names
<1> QED
  BY <1>1, GenesisInvariant, PTL

(* The verified registry's root is the multisig of this call, and its      *)
(* signer the account of the spec (genesis.rs:139, 156).                   *)
THEOREM GenesisAlwaysLinked == GenesisSpec => []GenesisLinked
<1>1. BuilderInv /\ GenesisInv => GenesisLinked
  <2> SUFFICES ASSUME BuilderInv, GenesisInv, genesis = "ok"
               PROVE  GenesisLinked
    BY DEF GenesisLinked
  <2>1. Placed(7) /\ Placed(8) /\ Placed(9)
    BY GenesisMade
  <2>2. /\ Expected(spec)[7].state = AccountState(spec.verifreg_signer)
        /\ Expected(spec)[8].state = MultisigState(FirstId)
        /\ Expected(spec)[9].state = VerifregState(FirstId + 1)
    BY ExpectedId DEF Expected, GenesisActors, SingletonActor, AddressedActor
  <2>3. PlaceOf(7) = FirstId /\ PlaceOf(8) = FirstId + 1 /\ PlaceOf(9) = 6
    BY DEF PlaceOf
  <2>4. /\ state_tree[6].state.root = FirstId + 1
        /\ state_tree[FirstId + 1].state.signer = FirstId
        /\ state_tree[FirstId + 1].state.kind = "multisig"
        /\ state_tree[FirstId].state = AccountState(spec.verifreg_signer)
    BY <2>1, <2>2, <2>3 DEF Placed, MultisigState, VerifregState
  <2> QED
    BY <2>4 DEF GenesisLinked
<1> QED
  BY <1>1, GenesisInvariant, PTL

(* After genesis a machine can be made of the tree, if its spec names the  *)
(* manifest that was installed (lib.rs:23-27).                             *)
THEOREM GenesisAlwaysBuildable == GenesisSpec => []GenesisBuildable
<1>1. BuilderInv /\ GenesisInv => GenesisBuildable
  <2> SUFFICES ASSUME BuilderInv, GenesisInv, genesis = "ok",
                      spec.system_manifest_cid = builtin_manifest
               PROVE  MachineLoads(state_tree)
    BY DEF GenesisBuildable
  <2>1. Placed(1) /\ spec \in Specs
    BY GenesisMade
  <2>2. PlaceOf(1) = SystemId /\ Expected(spec)[1].state = SystemState(spec.system_manifest_cid)
    BY DEF PlaceOf, Expected, GenesisActors, SingletonActor
  <2>3. builtin_manifest \in Manifests /\ builtin_manifest # None
    BY <2>1, GenesisAssumption, NoneAssumption
  <2>4. ManifestBlock(builtin_manifest) \in blocks
    BY <2>3 DEF BuilderInv, StoreInv, ManifestNamed
  <2>5. /\ Exists(state_tree, SystemId)
        /\ state_tree[SystemId].state = SystemState(builtin_manifest)
    BY <2>1, <2>2 DEF Placed
  <2> QED
    BY <2>3, <2>4, <2>5 DEF MachineLoads, ManifestOf, SystemState, SystemStates
<1> QED
  BY <1>1, GenesisInvariant, PTL

-----------------------------------------------------------------------------
(* The supply.                                                             *)

(* The library states induction for an operator; this is the same for a    *)
(* set.                                                                    *)
LEMMA LeastNat ==
  ASSUME NEW S, S \subseteq Nat, S # {}
  PROVE  \E n \in S : \A m \in S : n <= m
<1>1. PICK x \in S : \A y \in S : ~(<<y, x>> \in OpToRel(<, Nat))
  BY NatLessThanWellFounded, WFMin, Zenon
<1>2. \A y \in S : ~(y < x)
  BY <1>1, Zenon DEF OpToRel
<1> QED
  BY <1>2

Pick(s) == CHOOSE x \in s : TRUE
BalancesIn(t, S) == MapThenSumSet(LAMBDA id : t[id].balance, S)

(* What one unfolding of the fold computes.                                *)
Unfolded(t, f, s) == IF s = {} THEN 0 ELSE t[Pick(s)].balance + f[s \ {Pick(s)}]
IsFold(f, t, S) == f = [s \in SUBSET S |-> Unfolded(t, f, s)]

LEMMA PickIn == ASSUME NEW s, s # {} PROVE Pick(s) \in s
  BY DEF Pick

LEMMA BalancesIter ==
  ASSUME NEW t, NEW S
  PROVE  BalancesIn(t, S) = (CHOOSE fold : IsFold(fold, t, S))[S]
  BY DEF IsFold, BalancesIn, MapThenSumSet, MapThenFoldSet, Unfolded, Pick

(* At most one function is what the fold computes.                         *)
LEMMA FoldUnique ==
  ASSUME NEW t, NEW S, IsFiniteSet(S), NEW f, IsFold(f, t, S), NEW g, IsFold(g, t, S)
  PROVE  f[S] = g[S]
<1> DEFINE Differ == {s \in SUBSET S : f[s] # g[s]}
           Sizes == {Cardinality(s) : s \in Differ}
<1>1. \A s \in SUBSET S : /\ IsFiniteSet(s) /\ Cardinality(s) \in Nat
                          /\ f[s] = Unfolded(t, f, s) /\ g[s] = Unfolded(t, g, s)
  BY FS_Subset, FS_CardinalityType DEF IsFold
<1> SUFFICES ASSUME Differ # {} PROVE FALSE
  OBVIOUS
<1>2. Sizes \subseteq Nat /\ Sizes # {}
  BY <1>1
<1>3. PICK n \in Sizes : \A m \in Sizes : n <= m
  <2> HIDE DEF Sizes
  <2> QED
    BY <1>2, LeastNat
<1>4. PICK s \in Differ : Cardinality(s) = n
  OBVIOUS
<1>5. s # {}
  BY <1>1, <1>4 DEF Unfolded
<1> DEFINE r == s \ {Pick(s)}
<1>6. r \in SUBSET S /\ Cardinality(r) = Cardinality(s) - 1
  BY <1>1, <1>5, PickIn, FS_RemoveElement
<1>7. f[r] # g[r]
  BY <1>1, <1>4, <1>5 DEF Unfolded
<1>8. Cardinality(r) \in Sizes
  BY <1>6, <1>7
<1>9. Cardinality(s) \in Nat
  BY <1>1
<1> HIDE DEF r, Sizes
<1> QED
  BY <1>3, <1>4, <1>6, <1>8, <1>9

(* Where only two have anything, the sum is what the two have.             *)
LEMMA TwoBalances ==
  ASSUME NEW t, NEW S, IsFiniteSet(S), NEW a \in S, NEW b \in S, a # b,
         t[a].balance \in Nat, t[b].balance \in Nat,
         \A x \in S : x \notin {a, b} => t[x].balance = 0
  PROVE  BalancesIn(t, S) = t[a].balance + t[b].balance
<1> DEFINE Worth(s) == (IF a \in s THEN t[a].balance ELSE 0) + (IF b \in s THEN t[b].balance ELSE 0)
           worth == [s \in SUBSET S |-> Worth(s)]
           f == CHOOSE fold : IsFold(fold, t, S)
<1>1. ASSUME NEW s \in SUBSET S
      PROVE  Worth(s) = Unfolded(t, worth, s)
  <2>1. CASE s = {}
    BY <2>1 DEF Unfolded
  <2>2. CASE s # {}
    <3> DEFINE p == Pick(s)
               r == s \ {p}
    <3>1. p \in s
      BY <2>2, PickIn
    <3>2. worth[r] = Worth(r)
      OBVIOUS
    <3>3. Unfolded(t, worth, s) = t[p].balance + Worth(r)
      BY <2>2, <3>2 DEF Unfolded
    <3> HIDE DEF p
    <3>4. CASE p = a
      BY <3>1, <3>3, <3>4
    <3>5. CASE p = b
      BY <3>1, <3>3, <3>5
    <3>6. CASE p \notin {a, b}
      <4>1. t[p].balance = 0
        BY <3>1, <3>6
      <4> QED
        BY <3>1, <3>3, <3>6, <4>1
    <3> QED
      BY <3>4, <3>5, <3>6
  <2> QED
    BY <2>1, <2>2
<1>2. IsFold(worth, t, S)
  BY <1>1 DEF IsFold
<1>3. worth[S] = t[a].balance + t[b].balance
  OBVIOUS
<1> HIDE DEF worth
<1>4. IsFold(f, t, S)
  BY <1>2
<1>5. BalancesIn(t, S) = f[S]
  BY BalancesIter
<1> HIDE DEF f
<1> QED
  BY <1>2, <1>3, <1>4, <1>5, FoldUnique

(* The balances of all actors but the caller's own sum to the total supply *)
(* that the call reports (genesis.rs:203): they are the actors of the      *)
(* call, and but for the reward actor and the faucet they are empty,       *)
(* whatever earlier calls gave out and the caller had put in their places. *)
THEOREM SupplyAlwaysAgrees == GenesisSpec => []SupplyAgrees
<1>1. BuilderInv /\ GenesisInv => SupplyAgrees
  <2> SUFFICES ASSUME BuilderInv, GenesisInv, genesis = "ok"
               PROVE  SupplyAgrees
    BY DEF SupplyAgrees
  <2> DEFINE S == {id \in Ids \ own : Exists(state_tree, id)}
             faucet == FirstId + 2
  <2>1. /\ \A i \in 1..13 : i # 2 => Placed(i)
        /\ OthersPlaced /\ PlacesOurs /\ created = 13 /\ InitPlaced /\ spec \in Specs
    BY GenesisMade
  <2>2. /\ FirstId \in Nat /\ 2 < FirstId
        /\ PlaceOf(2) = InitId /\ PlaceOf(3) = 2 /\ PlaceOf(13) = faucet
        /\ PlaceOf(7) = FirstId /\ PlaceOf(8) = FirstId + 1
    BY IdAssumption, SingletonIdAssumption DEF PlaceOf
  <2>3. /\ Expected(spec)[3].balance = spec.reward_balance
        /\ Expected(spec)[13].balance = spec.faucet_balance
    BY DEF Expected, GenesisActors, SingletonActor, AddressedActor
  <2>4. spec.reward_balance \in Nat /\ spec.faucet_balance \in Nat
    BY <2>1, GenesisAssumption
  <2>5. /\ Placed(3) /\ Placed(13) /\ PlaceOf(3) \notin own /\ PlaceOf(13) \notin own
        /\ FirstId \in Ids /\ FirstId + 1 \in Ids
    BY <2>1, <2>2 DEF PlacesOurs, Placed
  <2>6. /\ 2 \in S /\ faucet \in S /\ 2 # faucet
        /\ state_tree[2].balance = spec.reward_balance
        /\ state_tree[faucet].balance = spec.faucet_balance
    BY <2>2, <2>3, <2>5 DEF Placed
  <2>7. \A id \in S : \E i \in 1..13 : id = PlaceOf(i)
    BY <2>1 DEF OthersPlaced
  <2>8. ASSUME NEW id \in S, id \notin {2, faucet}
        PROVE  state_tree[id].balance = 0
    <3>1. PICK i \in 1..13 : id = PlaceOf(i)
      BY <2>7
    <3>2. i \notin {3, 13}
      BY <2>2, <2>8, <3>1
    <3>3. CASE i = 2
      BY <2>1, <2>2, <3>1, <3>3 DEF InitPlaced
    <3>4. CASE i # 2
      <4>1. Expected(spec)[i].balance = 0
        BY <2>1, <2>5, <3>2, ExpectedTyped
      <4> QED
        BY <2>1, <3>1, <3>4, <4>1 DEF Placed
    <3> QED
      BY <3>3, <3>4
  <2>9. IsFiniteSet(S)
    <3>1. ASSUME NEW id \in S
          PROVE  id \in 0..faucet
      <4>1. PICK i \in 1..13 : id = PlaceOf(i)
        BY <2>7
      <4>2. id \in Nat
        BY IdAssumption
      <4>3. i \in {7, 8, 13} \/ PlaceOf(i) < FirstId
        BY PlacesLow
      <4>4. CASE i \in {7, 8, 13}
        BY <2>2, <4>1, <4>2, <4>4
      <4>5. CASE PlaceOf(i) < FirstId
        BY <2>2, <4>1, <4>2, <4>5
      <4> QED
        BY <4>3, <4>4, <4>5
    <3>2. faucet \in Int /\ 0 \in Int
      BY <2>2
    <3>3. IsFiniteSet(0..faucet)
      BY <3>2, FS_Interval
    <3> QED
      BY <3>1, <3>3, FS_Subset
  <2>10. BalancesIn(state_tree, S) = spec.reward_balance + spec.faucet_balance
    <3> HIDE DEF S, faucet
    <3> QED
      BY <2>4, <2>6, <2>8, <2>9, TwoBalances
  <2> QED
    BY <2>4, <2>10 DEF SupplyAgrees, BalancesIn, TotalSupply
<1> QED
  BY <1>1, GenesisInvariant, PTL

(* Genesis and its callers use the builder as it is meant: what holds of   *)
(* the builder (builder.rs:93-210) holds with them.                        *)
THEOREM GenesisUsesBuilder ==
  GenesisSpec => [](/\ BuilderTypeOK /\ ManifestNamed /\ AddressesHaveActors
                    /\ NewIdsFree /\ BenchesComplete)
<1>1. BuilderInv => /\ BuilderTypeOK /\ ManifestNamed /\ AddressesHaveActors
                    /\ NewIdsFree /\ BenchesComplete
  BY DEF BuilderInv, TreeInv, StoreInv
<1> QED
  BY <1>1, GenesisInvariant, PTL

=============================================================================
