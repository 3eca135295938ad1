--------------------------- MODULE FvmBenchProofs ---------------------------
(***************************************************************************)
(* Theorems about FvmBench, for any actors, addresses, states and bounds:  *)
(* no operation of the bench loses a state block that an actor, or the     *)
(* root of the context, needs, and the bench implements AbstractBench.     *)
(***************************************************************************)
EXTENDS FvmBench, TLAPS

(* RootStored is not inductive alone: after the next setter the root is    *)
(* the current tree, which is stored because StatesStored held before.     *)
BenchInv == BenchTypeOK /\ StatesStored /\ RootStored

-----------------------------------------------------------------------------
(* State trees.                                                            *)

(* The nonce of an actor, existing or not, is a sequence within the bound. *)
LEMMA NonceType ==
  ASSUME NEW t \in StateTree, NEW i \in ActorIds
  PROVE  Nonce(t, i) \in 0..MaxSequence
  BY BoundAssumption DEF Nonce, Exists, StateTree, ActorState

(* The states of a tree are state blocks.                                  *)
LEMMA StatesOfType ==
  ASSUME NEW t \in StateTree
  PROVE  StatesOf(t) \subseteq States
  BY DEF StatesOf, Exists, StateTree, ActorState

(* Whatever a message leaves (bench/mod.rs:92,100) is a state tree.        *)
LEMMA TreesAfterType ==
  ASSUME NEW t \in StateTree
  PROVE  TreesAfter(t) \subseteq StateTree
<1>1. SUFFICES ASSUME NEW s \in [ActorIds -> States \cup {NoActor}]
               PROVE  [i \in ActorIds |-> IF s[i] = NoActor THEN NoActor
                         ELSE Numbered(s[i], Nonce(t, i))] \in StateTree
  BY DEF TreesAfter
<1>2. \A i \in ActorIds : Nonce(t, i) \in 0..MaxSequence
  BY NonceType
<1>. QED  BY <1>2 DEF StateTree, ActorState, Numbered

(* Consuming a sequence below the bound keeps the tree well typed.         *)
LEMMA ConsumedType ==
  ASSUME NEW t \in StateTree, NEW i \in ActorIds, NEW n \in 0..MaxSequence,
         t[i] # NoActor, n < MaxSequence
  PROVE  [t EXCEPT ![i] = Numbered(@.state, n + 1)] \in StateTree
<1>1. t[i] \in ActorState
  BY DEF StateTree
<1>2. Numbered(t[i].state, n + 1) \in ActorState
  BY <1>1, BoundAssumption DEF ActorState, Numbered
<1>. QED  BY <1>2 DEF StateTree

-----------------------------------------------------------------------------
(* Steps.                                                                  *)

(* Running a message buffers every state block that it introduces.         *)
LEMMA RunInv ==
  ASSUME BenchInv, NEW t \in StateTree, Run(t)
  PROVE  BenchInv'
<1>1. tree' \in StateTree
  BY TreesAfterType DEF Run
<1>2. StatesOf(tree') \subseteq States
  BY <1>1, StatesOfType
<1>3. BenchTypeOK'
  BY <1>1, <1>2 DEF BenchInv, BenchTypeOK, Run, Rewritten, StatesOf
<1>4. StatesOf(tree') \subseteq StatesOf(tree) \cup {tree'[i].state : i \in Rewritten}
  BY DEF StatesOf, Exists, Rewritten
<1>5. StatesStored'
  BY <1>4 DEF BenchInv, StatesStored, Readable, StatesOf, Exists, Run
<1>6. StatesOf(ctx'.initial_state_root) = StatesOf(ctx.initial_state_root)
  BY DEF Run
<1>7. RootStored'
  BY <1>6 DEF BenchInv, RootStored, Run, StatesOf, Exists
<1>. QED  BY <1>3, <1>5, <1>7 DEF BenchInv

LEMMA RunExplicitInv ==
  ASSUME BenchInv, NEW from \in Addresses, NEW sequence \in 0..MaxSequence,
         RunExplicit(from, sequence)
  PROVE  BenchInv'
<1>1. IdOf[from] \in ActorIds
  BY AddressAssumption
<1>2. [tree EXCEPT ![IdOf[from]] = Numbered(@.state, sequence + 1)] \in StateTree
  BY <1>1, ConsumedType DEF RunExplicit, Exists, BenchInv, BenchTypeOK
<1>. QED  BY <1>2, RunInv DEF RunExplicit

LEMMA RunImplicitInv ==
  ASSUME BenchInv, NEW from \in Addresses, RunImplicit(from)
  PROVE  BenchInv'
  BY RunInv DEF RunImplicit, BenchInv, BenchTypeOK

LEMMA UnchangedInv ==
  ASSUME BenchInv, UNCHANGED benchVars
  PROVE  BenchInv'
  BY DEF BenchInv, benchVars, BenchTypeOK, StatesStored, RootStored, Readable,
         StatesOf, Exists

LEMMA ExecuteInv ==
  ASSUME BenchInv, NEW from \in Addresses, NEW sequence \in 0..MaxSequence,
         NEW result \in Results,
         Execute(from, sequence, result)
  PROVE  BenchInv'
  BY RunExplicitInv, UnchangedInv DEF Execute

LEMMA ExecuteImplicitInv ==
  ASSUME BenchInv, NEW from \in Addresses, NEW result \in Results,
         ExecuteImplicit(from, result)
  PROVE  BenchInv'
  BY RunImplicitInv, UnchangedInv DEF ExecuteImplicit

(* A flush loses no block the tree needs, even if it drops all others.     *)
LEMMA FlushInv ==
  ASSUME BenchInv, Flush
  PROVE  BenchInv'
<1>1. BenchTypeOK'
  BY DEF BenchInv, BenchTypeOK, Flush, FlushedBase, FlushedBuffers
<1>2. StatesOf(tree) \subseteq base' \cup dangling /\ base \subseteq base'
  BY DEF BenchInv, StatesStored, Readable, Flush, FlushedBase
<1>3. StatesStored'
  BY <1>2 DEF StatesStored, Readable, Flush, StatesOf, Exists
<1>4. RootStored'
  BY <1>2 DEF BenchInv, RootStored, Flush, StatesOf, Exists
<1>. QED  BY <1>1, <1>3, <1>4 DEF BenchInv

(* The states of a tree with one actor replaced.                           *)
LEMMA SetActorInv ==
  ASSUME BenchInv, NEW key \in Addresses, NEW state \in ActorState,
         SetActor(key, state)
  PROVE  BenchInv'
<1>1. IdOf[key] \in ActorIds
  BY AddressAssumption
<1>2. tree' \in StateTree
  BY <1>1 DEF SetActor, BenchInv, BenchTypeOK, StateTree
<1>3. BenchTypeOK'
  BY <1>2 DEF BenchInv, BenchTypeOK, SetActor, ActorState
<1>4. StatesOf(tree') \subseteq StatesOf(tree) \cup {state.state}
  BY <1>1 DEF SetActor, StatesOf, Exists, BenchInv, BenchTypeOK, StateTree
<1>5. StatesStored'
  BY <1>4 DEF SetActor, BenchInv, StatesStored, Readable, StatesOf, Exists
<1>6. RootStored'
  BY DEF SetActor, BenchInv, RootStored, StatesOf, Exists
<1>. QED  BY <1>3, <1>5, <1>6 DEF BenchInv

(* Rebuilding the machine (bench/mod.rs:49-84): the buffer is lost, but    *)
(* all that the tree needs is underneath by then.                          *)
LEMMA RebuildInv ==
  ASSUME BenchInv, NEW requested \in Context, ModifyMachineCtx(requested)
  PROVE  BenchInv'
<1>1. ctx' \in Context /\ ctx'.initial_state_root = tree
  BY DEF ModifyMachineCtx, Context, BenchInv, BenchTypeOK
<1>2. BenchTypeOK'
  BY <1>1 DEF ModifyMachineCtx, FlushedBase, BenchInv, BenchTypeOK
<1>3. StatesOf(tree) \subseteq base' \cup dangling' /\ dangling' = dangling
  BY DEF ModifyMachineCtx, FlushedBase, BenchInv, StatesStored, Readable
<1>4. tree' = tree
  BY <1>1 DEF ModifyMachineCtx
<1>5. StatesStored'
  BY <1>3, <1>4 DEF StatesStored, Readable, StatesOf, Exists
<1>6. RootStored'
  BY <1>1, <1>3 DEF RootStored, StatesOf, Exists
<1>. QED  BY <1>2, <1>5, <1>6 DEF BenchInv

LEMMA SettingInv ==
  ASSUME BenchInv, SettingStep
  PROVE  BenchInv'
<1>. USE DEF BenchInv, BenchTypeOK, Context
<1>1. ASSUME NEW v \in Values, SetEpoch(v) PROVE BenchInv'
  <2>. [ctx EXCEPT !.epoch = v] \in Context
    OBVIOUS
  <2>. QED  BY <1>1, RebuildInv DEF SetEpoch
<1>2. ASSUME NEW v \in Values, SetTimestamp(v) PROVE BenchInv'
  <2>. [ctx EXCEPT !.timestamp = v] \in Context
    OBVIOUS
  <2>. QED  BY <1>2, RebuildInv DEF SetTimestamp
<1>3. ASSUME NEW v \in Values, SetBaseFee(v) PROVE BenchInv'
  <2>. [ctx EXCEPT !.base_fee = v] \in Context
    OBVIOUS
  <2>. QED  BY <1>3, RebuildInv DEF SetBaseFee
<1>4. ASSUME NEW v \in Values, SetCirculatingSupply(v) PROVE BenchInv'
  <2>. [ctx EXCEPT !.circ_supply = v] \in Context
    OBVIOUS
  <2>. QED  BY <1>4, RebuildInv DEF SetCirculatingSupply
<1>5. ASSUME NEW on \in BOOLEAN, SetTracing(on) PROVE BenchInv'
  <2>. [ctx EXCEPT !.tracing = on] \in Context
    OBVIOUS
  <2>. QED  BY <1>5, RebuildInv DEF SetTracing
<1>6. ASSUME NEW root \in KnownRoots, SetInitialStateRoot(root) PROVE BenchInv'
  <2>. root \in StateTree
    BY DEF KnownRoots, StateTree
  <2>. [ctx EXCEPT !.initial_state_root = root] \in Context
    OBVIOUS
  <2>. QED  BY <1>6, RebuildInv DEF SetInitialStateRoot
<1>. QED  BY <1>1, <1>2, <1>3, <1>4, <1>5, <1>6 DEF SettingStep

(* Blocks put in either store only make more of them readable.             *)
LEMMA StorePutInv ==
  ASSUME BenchInv, NEW s \in States, StorePut(s)
  PROVE  BenchInv'
  BY DEF StorePut, BenchInv, BenchTypeOK, StatesStored, RootStored, Readable,
         StatesOf, Exists

LEMMA BasePutInv ==
  ASSUME BenchInv, NEW blocks \in SUBSET States, BasePut(blocks)
  PROVE  BenchInv'
  BY DEF BasePut, BenchInv, BenchTypeOK, StatesStored, RootStored, Readable,
         StatesOf, Exists

LEMMA BenchInitInv ==
  ASSUME BenchInit
  PROVE  BenchInv
<1>1. BenchTypeOK
  BY StatesOfType, AddressAssumption DEF BenchInit, BenchTypeOK, Context
<1>2. StatesStored /\ RootStored
  BY DEF BenchInit, StatesStored, RootStored, Readable
<1>. QED  BY <1>1, <1>2 DEF BenchInv

(* Every step of the bench keeps its invariant.                            *)
LEMMA BenchNextInv ==
  ASSUME BenchInv, [BenchNext]_benchVars
  PROVE  BenchInv'
  BY ExecuteInv, ExecuteImplicitInv, FlushInv, SetActorInv, SettingInv,
     StorePutInv, BasePutInv, UnchangedInv DEF BenchNext

-----------------------------------------------------------------------------
(* Every step is a step, or a stutter, of AbstractBench.                   *)

(* While every state is stored, a reader sees the tree as it is.           *)
LEMMA ObservedTree ==
  ASSUME BenchInv
  PROVE  Observed = tree
  BY DEF BenchInv, BenchTypeOK, StatesStored, StatesOf, Observed, StateTree, Exists

LEMMA ObservedTreeNext ==
  ASSUME BenchInv'
  PROVE  Observed' = tree'
  BY DEF BenchInv, BenchTypeOK, StatesStored, StatesOf, Observed, StateTree, Exists,
         Readable

(* The abstract tables are the trees.                                      *)
LEMMA TablesAreTrees == Abstract!ActorTables = StateTree
  BY DEF Abstract!ActorTables, Abstract!ActorStates, StateTree, ActorState

(* A message run from tree t is an abstract run from table t.              *)
LEMMA RunRefines ==
  ASSUME BenchInv, BenchInv', NEW t \in StateTree, Run(t)
  PROVE  Abstract!Runs(t)
<1>1. Observed' = tree'
  BY ObservedTreeNext
<1>2. Observed' \in Abstract!ActorTables
  BY <1>1, TablesAreTrees DEF BenchInv, BenchTypeOK
<1>3. Settings' = Settings
  BY DEF Run, Settings
<1>4. ASSUME NEW i \in ActorIds
      PROVE  \/ tree'[i] = NoActor
             \/ t[i] = NoActor /\ tree'[i].sequence = 0
             \/ t[i] # NoActor /\ tree'[i].sequence = t[i].sequence
  <2>1. PICK s \in [ActorIds -> States \cup {NoActor}] :
          tree' = [j \in ActorIds |-> IF s[j] = NoActor THEN NoActor
                                      ELSE Numbered(s[j], Nonce(t, j))]
    BY DEF Run, TreesAfter
  <2>2. tree'[i] = NoActor \/ tree'[i].sequence = Nonce(t, i)
    BY <2>1 DEF Numbered
  <2>. QED  BY <2>2 DEF Nonce, Exists
<1>. QED  BY <1>1, <1>2, <1>3, <1>4 DEF Abstract!Runs

LEMMA RunExplicitRefines ==
  ASSUME BenchInv, BenchInv', NEW from \in Addresses, NEW sequence \in 0..MaxSequence,
         RunExplicit(from, sequence)
  PROVE  Abstract!Next
<1>1. IdOf[from] \in ActorIds /\ tree[IdOf[from]] # NoActor
  BY AddressAssumption DEF RunExplicit, Exists
<1>2. Observed = tree
  BY ObservedTree
<1>. DEFINE before == [tree EXCEPT ![IdOf[from]] = Numbered(@.state, sequence + 1)]
<1>3. before \in StateTree
  BY <1>1, ConsumedType DEF RunExplicit, BenchInv, BenchTypeOK
<1>4. Abstract!Runs(before)
  BY <1>3, RunRefines DEF RunExplicit
<1>5. before = [Observed EXCEPT ![IdOf[from]] =
                  [state |-> @.state, sequence |-> @.sequence + 1]]
  BY <1>1, <1>2 DEF RunExplicit, Numbered
<1>6. Abstract!Explicit(IdOf[from])
  BY <1>1, <1>2, <1>4, <1>5 DEF Abstract!Explicit
<1>. QED  BY <1>1, <1>6 DEF Abstract!Next

LEMMA RunImplicitRefines ==
  ASSUME BenchInv, BenchInv', NEW from \in Addresses, RunImplicit(from)
  PROVE  Abstract!Next
<1>1. Abstract!Runs(tree)
  BY RunRefines DEF RunImplicit, BenchInv, BenchTypeOK
<1>2. Abstract!Implicit
  BY <1>1, ObservedTree DEF Abstract!Implicit
<1>. QED  BY <1>2 DEF Abstract!Next

(* Steps that keep tree and context show a reader nothing.                 *)
LEMMA Stutters ==
  ASSUME BenchInv, BenchInv', tree' = tree, Settings' = Settings
  PROVE  UNCHANGED Abstract!abstractVars
  BY ObservedTree, ObservedTreeNext DEF Abstract!abstractVars

LEMMA SetActorRefines ==
  ASSUME BenchInv, BenchInv', NEW key \in Addresses, NEW state \in ActorState,
         SetActor(key, state)
  PROVE  Abstract!Next
<1>1. IdOf[key] \in ActorIds
  BY AddressAssumption
<1>2. Observed = tree /\ Observed' = tree'
  BY ObservedTree, ObservedTreeNext
<1>3. tree' = [tree EXCEPT ![IdOf[key]] = state] /\ tree'[IdOf[key]] = state
  BY <1>1 DEF SetActor, BenchInv, BenchTypeOK, StateTree
<1>4. state \in Abstract!ActorStates
  BY DEF ActorState, Abstract!ActorStates
<1>5. Settings' = Settings
  BY DEF SetActor, Settings
<1>6. Abstract!SetActor(IdOf[key])
  BY <1>2, <1>3, <1>4, <1>5 DEF Abstract!SetActor
<1>. QED  BY <1>1, <1>6 DEF Abstract!Next

(* A rebuild changes the settings it was asked to change, and no more.     *)
LEMMA RebuildRefines ==
  ASSUME BenchInv, BenchInv', NEW requested \in Context, ModifyMachineCtx(requested)
  PROVE  /\ Observed' = Observed
         /\ ctx' = [requested EXCEPT !.initial_state_root = tree]
<1>1. tree' = tree
  BY DEF ModifyMachineCtx, Context
<1>. QED  BY <1>1, ObservedTree, ObservedTreeNext DEF ModifyMachineCtx

LEMMA SettingRefines ==
  ASSUME BenchInv, BenchInv', SettingStep
  PROVE  [Abstract!Next]_(Abstract!abstractVars)
<1>. USE DEF BenchInv, BenchTypeOK, Context
<1>0. /\ Settings \in Abstract!Settings
      /\ Settings' \in Abstract!Settings
      /\ DOMAIN Settings = {"epoch", "timestamp", "base_fee", "circ_supply", "tracing"}
  BY DEF Settings, Abstract!Settings
<1>1. ASSUME NEW v \in Values, SetEpoch(v) PROVE Abstract!SetSetting("epoch")
  <2>1. [ctx EXCEPT !.epoch = v] \in Context
    OBVIOUS
  <2>2. Observed' = Observed /\ Settings' = [Settings EXCEPT !["epoch"] = v]
    BY <1>1, <2>1, RebuildRefines DEF SetEpoch, Settings
  <2>. QED  BY <1>0, <2>2 DEF Abstract!SetSetting, Settings
<1>2. ASSUME NEW v \in Values, SetTimestamp(v) PROVE Abstract!SetSetting("timestamp")
  <2>1. [ctx EXCEPT !.timestamp = v] \in Context
    OBVIOUS
  <2>2. Observed' = Observed /\ Settings' = [Settings EXCEPT !["timestamp"] = v]
    BY <1>2, <2>1, RebuildRefines DEF SetTimestamp, Settings
  <2>. QED  BY <1>0, <2>2 DEF Abstract!SetSetting, Settings
<1>3. ASSUME NEW v \in Values, SetBaseFee(v) PROVE Abstract!SetSetting("base_fee")
  <2>1. [ctx EXCEPT !.base_fee = v] \in Context
    OBVIOUS
  <2>2. Observed' = Observed /\ Settings' = [Settings EXCEPT !["base_fee"] = v]
    BY <1>3, <2>1, RebuildRefines DEF SetBaseFee, Settings
  <2>. QED  BY <1>0, <2>2 DEF Abstract!SetSetting, Settings
<1>4. ASSUME NEW v \in Values, SetCirculatingSupply(v)
      PROVE  Abstract!SetSetting("circ_supply")
  <2>1. [ctx EXCEPT !.circ_supply = v] \in Context
    OBVIOUS
  <2>2. Observed' = Observed /\ Settings' = [Settings EXCEPT !["circ_supply"] = v]
    BY <1>4, <2>1, RebuildRefines DEF SetCirculatingSupply, Settings
  <2>. QED  BY <1>0, <2>2 DEF Abstract!SetSetting, Settings
<1>5. ASSUME NEW on \in BOOLEAN, SetTracing(on) PROVE Abstract!SetSetting("tracing")
  <2>1. [ctx EXCEPT !.tracing = on] \in Context
    OBVIOUS
  <2>2. Observed' = Observed /\ Settings' = [Settings EXCEPT !["tracing"] = on]
    BY <1>5, <2>1, RebuildRefines DEF SetTracing, Settings
  <2>. QED  BY <1>0, <2>2 DEF Abstract!SetSetting, Settings
<1>6. ASSUME NEW root \in KnownRoots, SetInitialStateRoot(root)
      PROVE  UNCHANGED Abstract!abstractVars
  <2>1. root \in StateTree
    BY DEF KnownRoots, StateTree
  <2>2. [ctx EXCEPT !.initial_state_root = root] \in Context
    BY <2>1
  <2>3. Observed' = Observed /\ Settings' = Settings
    BY <1>6, <2>2, RebuildRefines DEF SetInitialStateRoot, Settings
  <2>. QED  BY <2>3 DEF Abstract!abstractVars
<1>. QED  BY <1>0, <1>1, <1>2, <1>3, <1>4, <1>5, <1>6 DEF SettingStep, Abstract!Next

LEMMA StepRefines ==
  ASSUME BenchInv, BenchInv', [BenchNext]_benchVars
  PROVE  [Abstract!Next]_(Abstract!abstractVars)
<1>1. ASSUME UNCHANGED benchVars PROVE UNCHANGED Abstract!abstractVars
  BY <1>1, Stutters DEF benchVars, Settings
<1>2. ASSUME NEW from \in Addresses, NEW sequence \in 0..MaxSequence,
             NEW result \in Results, Execute(from, sequence, result)
      PROVE  [Abstract!Next]_(Abstract!abstractVars)
  BY <1>1, <1>2, RunExplicitRefines DEF Execute
<1>3. ASSUME NEW from \in Addresses, NEW result \in Results,
             ExecuteImplicit(from, result)
      PROVE  [Abstract!Next]_(Abstract!abstractVars)
  BY <1>1, <1>3, RunImplicitRefines DEF ExecuteImplicit
<1>4. ASSUME \/ Flush
             \/ \E s \in States : StorePut(s)
             \/ \E blocks \in SUBSET States : BasePut(blocks)
      PROVE  UNCHANGED Abstract!abstractVars
  BY <1>4, Stutters DEF Flush, StorePut, BasePut, Settings
<1>. QED  BY <1>1, <1>2, <1>3, <1>4, SetActorRefines, SettingRefines DEF BenchNext

LEMMA InitRefines ==
  ASSUME BenchInit
  PROVE  Abstract!Init
<1>1. BenchInv
  BY BenchInitInv
<1>2. Observed \in Abstract!ActorTables
  BY <1>1, ObservedTree, TablesAreTrees DEF BenchInv, BenchTypeOK
<1>3. Settings \in Abstract!Settings
  BY <1>1 DEF BenchInv, BenchTypeOK, Context, Settings, Abstract!Settings
<1>. QED  BY <1>2, <1>3 DEF Abstract!Init

-----------------------------------------------------------------------------
(* Theorems.                                                               *)

(* The invariant holds in every behaviour of the bench.                    *)
THEOREM BenchInvariant == BenchSpec => []BenchInv
<1>1. BenchInit => BenchInv
  BY BenchInitInv
<1>2. BenchInv /\ [BenchNext]_benchVars => BenchInv'
  BY BenchNextInv
<1>. QED  BY <1>1, <1>2, PTL DEF BenchSpec

(* The bench's state is always well typed.                                 *)
THEOREM BenchTypeCorrect == BenchSpec => []BenchTypeOK
  BY BenchInvariant, PTL DEF BenchInv

(* No operation, and above all no rebuild of the machine after the buffer  *)
(* was dropped (bench/mod.rs:63-83), loses the state of an actor.          *)
THEOREM StatesAlwaysStored == BenchSpec => []StatesStored
  BY BenchInvariant, PTL DEF BenchInv

(* The store underneath always suffices to build a machine from the root   *)
(* in the context (bench/mod.rs:70-75).                                    *)
THEOREM RootAlwaysStored == BenchSpec => []RootStored
  BY BenchInvariant, PTL DEF BenchInv

(* The bench implements what its trait promises (api/src/bench.rs:47-116): *)
(* a table of actors and settings that no buffering, flushing or           *)
(* rebuilding shows through.                                               *)
THEOREM BenchRefinesAbstract == BenchSpec => ImplementsAbstractBench
<1>1. BenchInit => Abstract!Init
  BY InitRefines
<1>2. BenchInv /\ BenchInv' /\ [BenchNext]_benchVars
        => [Abstract!Next]_(Abstract!abstractVars)
  BY StepRefines
<1>. QED  BY <1>1, <1>2, BenchInvariant, PTL
          DEF BenchSpec, ImplementsAbstractBench, Abstract!Spec

=============================================================================
