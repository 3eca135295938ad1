------------------------------ MODULE FvmBench ------------------------------
(***************************************************************************)
(* FvmBench (vm/src/bench/mod.rs): a workbench over a real FVM executor.   *)
(*                                                                         *)
(* The executor keeps a state tree over a buffered blockstore, which in    *)
(* turn wraps the store its creator handed over and still holds.  Every    *)
(* setter of the machine context takes the machine apart, flushes it and   *)
(* builds another one from the flushed root.                               *)
(*                                                                         *)
(* Blocks and state trees are content-addressed, so a CID is modelled by   *)
(* the thing it names: a state tree is its own root CID.                   *)
(***************************************************************************)
EXTENDS Naturals

CONSTANTS
  ActorIds,     \* IDs in the state tree
  Addresses,    \* addresses that callers and messages use
  IdOf,         \* the actor an address names; several may name the same one
  IdAddresses,  \* addresses that are IDs: they resolve without being registered
  States,       \* CIDs of actor state blocks
  Values,       \* values of the epoch, timestamp, base fee and supply settings
  NoActor,      \* absence of an actor under an ID
  MaxSequence   \* bound: a message is not run once its sender's sequence is here

ASSUME AddressAssumption ==
  /\ IdOf \in [Addresses -> ActorIds]
  /\ IdAddresses \subseteq Addresses
ASSUME BoundAssumption == MaxSequence \in Nat

ActorState == [state : States, sequence : 0..MaxSequence]
ASSUME NoActorAssumption == NoActor \notin ActorState /\ NoActor \notin States

VARIABLES
  tree,         \* the executor's state tree, as get_actor sees it
  resolved,     \* addresses that lookup_id resolves
  buffer,       \* state blocks in the executor's buffered blockstore only
  base,         \* state blocks in the store underneath, shared with the creator
  ctx,          \* the machine context
  externs,      \* the externs the machine answers with
  dangling      \* history: states that an actor was set to before their block
                \* was there to be read

benchVars == <<tree, resolved, buffer, base, ctx, externs, dangling>>

StateTree == [ActorIds -> ActorState \cup {NoActor}]
Context == [epoch : Values, timestamp : Values, base_fee : Values,
            circ_supply : Values, tracing : BOOLEAN,
            initial_state_root : StateTree]

Numbered(s, sequence) == [state |-> s, sequence |-> sequence]
Exists(t, i) == t[i] # NoActor
Nonce(t, i) == IF Exists(t, i) THEN t[i].sequence ELSE 0
StatesOf(t) == {t[i].state : i \in {j \in ActorIds : Exists(t, j)}}

(* Blocks the executor can read: it looks in its buffer, then underneath.  *)
Readable == buffer \cup base

(* The builder flushed the tree it hands over, so nothing is buffered yet, *)
(* and the externs are the ones its caller configured.  An actor need not  *)
(* have an address, and an address may have been registered for an actor   *)
(* whose creation failed.                                                  *)
BenchInit ==
  /\ tree \in StateTree
  /\ resolved \in SUBSET Addresses
  /\ IdAddresses \subseteq resolved
  /\ buffer = {}
  /\ base \in SUBSET States
  /\ StatesOf(tree) \subseteq base
  /\ ctx \in Context
  /\ ctx.tracing /\ ctx.initial_state_root = tree
  /\ externs = "configured"
  /\ dangling = {}

-----------------------------------------------------------------------------
(* The executor (crate fvm, outside this repository).                      *)

(* The trees that running a message from tree t can leave: actors may get  *)
(* a new state, be created with sequence 0, or be removed.  A message that *)
(* aborts leaves t.                                                        *)
TreesAfter(t) ==
  { [i \in ActorIds |-> IF s[i] = NoActor THEN NoActor
                        ELSE Numbered(s[i], Nonce(t, i))] :
      s \in [ActorIds -> States \cup {NoActor}] }

(* Actors to which a step gives a state that they did not have.            *)
Rewritten ==
  {i \in ActorIds : Exists(tree', i) /\
     (Exists(tree, i) => tree[i].state # tree'[i].state)}

(* Runs a message from tree t; the state blocks that actors write go to    *)
(* the buffer, and an actor that it creates gets its addresses registered. *)
Run(t) ==
  /\ tree' \in TreesAfter(t)
  /\ buffer' = buffer \cup {tree'[i].state : i \in Rewritten}
  /\ resolved' = resolved \cup
       {a \in Addresses : ~Exists(tree, IdOf[a]) /\ Exists(tree', IdOf[a])}
  /\ UNCHANGED <<base, ctx, externs, dangling>>

(* Mutants of RunExplicit. *)
RunExplicitTwice(from, sequence) ==
  /\ from \in resolved
  /\ Exists(tree, IdOf[from])
  /\ tree[IdOf[from]].sequence = sequence
  /\ sequence < MaxSequence
  /\ Run([tree EXCEPT ![IdOf[from]] = Numbered(@.state, sequence + 2)])

RunExplicitUnchecked(from, sequence) ==
  /\ from \in resolved
  /\ Exists(tree, IdOf[from])
  /\ sequence < MaxSequence
  /\ Run([tree EXCEPT ![IdOf[from]] = Numbered(@.state, sequence + 1)])

(* An explicit message runs only if it carries its sender's sequence,      *)
(* which it consumes.                                                      *)
RunExplicit(from, sequence) ==
  /\ from \in resolved
  /\ Exists(tree, IdOf[from])
  /\ tree[IdOf[from]].sequence = sequence
  /\ sequence < MaxSequence
  /\ Run([tree EXCEPT ![IdOf[from]] = Numbered(@.state, sequence + 1)])

(* An implicit message ignores the sequence.                               *)
RunImplicit(from) ==
  /\ from \in resolved
  /\ Run(tree)

(* Mutant of FlushedBase: the store is left with what this tree reaches. *)
FlushedBaseOnly == (base \cup buffer) \cap StatesOf(tree)

(* Flushing writes to the store underneath the buffered blocks that the    *)
(* tree reaches.  Those it does not reach may stay buffered or be dropped. *)
FlushedBase == base \cup (buffer \cap StatesOf(tree))
FlushedBuffers == {{}, buffer \ StatesOf(tree)}

-----------------------------------------------------------------------------
(* Operations of the bench.                                                *)

Results == {"applied", "rejected", "error"}

(* execute: a message is applied, or refused before it runs (an Ok result  *)
(* with a failure code: unknown sender, wrong sequence, no funds or gas),  *)
(* or the executor itself fails, possibly after running it.                *)
Execute(from, sequence, result) ==
  \/ result = "applied" /\ RunExplicit(from, sequence)
  \/ result = "rejected" /\ UNCHANGED benchVars
  \/ result = "error" /\ (RunExplicit(from, sequence) \/ UNCHANGED benchVars)

(* execute_implicit: refused only when the sender does not resolve.        *)
ExecuteImplicit(from, result) ==
  \/ result = "applied" /\ RunImplicit(from)
  \/ result = "rejected" /\ from \notin resolved /\ UNCHANGED benchVars
  \/ result = "error" /\ (RunImplicit(from) \/ UNCHANGED benchVars)

(* Shape of the trace in the result: a message that ran has one root call; *)
(* a refused one, or one run without tracing, has no events at all.        *)
TraceOf(result) ==
  IF result = "applied" /\ ctx.tracing THEN "rooted" ELSE "empty"

(* Mutant of Flush. *)
FlushDiscarding ==
  /\ base' = base
  /\ buffer' \in FlushedBuffers
  /\ UNCHANGED <<tree, resolved, ctx, externs, dangling>>

(* flush *)
Flush ==
  /\ base' = FlushedBase
  /\ buffer' \in FlushedBuffers
  /\ UNCHANGED <<tree, resolved, ctx, externs, dangling>>

(* set_actor: resolves the key and unwraps, so an unresolved key panics.   *)
(* An actor put under a bare ID this way gets no other address.  Nobody    *)
(* looks whether the block of the state is there.                          *)
SetActor(key, state) ==
  /\ key \in resolved
  /\ tree' = [tree EXCEPT ![IdOf[key]] = state]
  /\ dangling' = dangling \cup ({state.state} \ Readable)
  /\ UNCHANGED <<resolved, buffer, base, ctx, externs>>

(* store: the reference returned is the buffered blockstore, and a put     *)
(* through it stays in the buffer.                                         *)
StorePut(s) ==
  /\ buffer' = buffer \cup {s}
  /\ UNCHANGED <<tree, resolved, base, ctx, externs, dangling>>

(* Mutants of ModifyMachineCtx. *)
RebuildWithoutFlush(requested) ==
  /\ base' = base
  /\ buffer' = {}
  /\ ctx' = [requested EXCEPT !.initial_state_root = tree]
  /\ tree' = tree
  /\ externs' = "default"
  /\ UNCHANGED <<resolved, dangling>>

RebuildFromOldRoot(requested) ==
  /\ base' = FlushedBase
  /\ buffer' = {}
  /\ ctx' = requested
  /\ tree' = ctx'.initial_state_root
  /\ externs' = "default"
  /\ UNCHANGED <<resolved, dangling>>

(* modify_machine_ctx: `requested` is the old context as changed by the    *)
(* closure.  The closure runs first and the flush then overwrites the root *)
(* in the result; taking the store out of the machine drops what is left   *)
(* in the buffer; the new machine loads the tree from the root and always  *)
(* gets fresh FakeExterns.  If a part of this fails its unwrap ends the    *)
(* process (replace_with_or_abort), which any behaviour that stops models. *)
ModifyMachineCtx(requested) ==
  /\ base' = FlushedBase
  /\ buffer' = {}
  /\ ctx' = [requested EXCEPT !.initial_state_root = tree]
  /\ tree' = ctx'.initial_state_root
  /\ externs' = "default"
  /\ UNCHANGED <<resolved, dangling>>

SetEpoch(v) == ModifyMachineCtx([ctx EXCEPT !.epoch = v])
SetTimestamp(v) == ModifyMachineCtx([ctx EXCEPT !.timestamp = v])
SetBaseFee(v) == ModifyMachineCtx([ctx EXCEPT !.base_fee = v])
SetCirculatingSupply(v) == ModifyMachineCtx([ctx EXCEPT !.circ_supply = v])
SetTracing(on) == ModifyMachineCtx([ctx EXCEPT !.tracing = on])
SetInitialStateRoot(root) ==
  ModifyMachineCtx([ctx EXCEPT !.initial_state_root = root])

(* The creator of the store still holds it and can put blocks in it; so    *)
(* can another bench that was built over it, and flushes.                  *)
BasePut(blocks) ==
  /\ base' = base \cup blocks
  /\ UNCHANGED <<tree, resolved, buffer, ctx, externs, dangling>>

(* Roots a caller can have: what flush() returns, what                     *)
(* initial_state_root() returns, and that of a tree without actors.        *)
KnownRoots == {tree, ctx.initial_state_root, [i \in ActorIds |-> NoActor]}

SettingStep ==
  \/ \E v \in Values :
       SetEpoch(v) \/ SetTimestamp(v) \/ SetBaseFee(v) \/ SetCirculatingSupply(v)
  \/ \E on \in BOOLEAN : SetTracing(on)
  \/ \E root \in KnownRoots : SetInitialStateRoot(root)

BenchNext ==
  \/ \E from \in Addresses, result \in Results :
       \/ \E sequence \in 0..MaxSequence : Execute(from, sequence, result)
       \/ ExecuteImplicit(from, result)
  \/ Flush
  \/ \E key \in Addresses, state \in ActorState : SetActor(key, state)
  \/ SettingStep
  \/ \E s \in States : StorePut(s)
  \/ \E blocks \in SUBSET States : BasePut(blocks)

BenchSpec == BenchInit /\ [][BenchNext]_benchVars

-----------------------------------------------------------------------------
(* Properties.                                                             *)

(* Types of the bench's state; a sequence past the bound, or a context     *)
(* without a root, would be one of ill type.                               *)
BenchTypeOK ==
  /\ tree \in StateTree
  /\ resolved \subseteq Addresses
  /\ buffer \subseteq States
  /\ base \subseteq States
  /\ ctx \in Context
  /\ externs \in {"configured", "default"}
  /\ dangling \subseteq States

(* Every actor's state can be loaded through the bench's own store         *)
(* (find_actor_state, wrangler.rs:95-118), although each setter of the     *)
(* context throws away the buffer that may hold it (bench/mod.rs:70-75):   *)
(* only a state whose block was missing already when set_actor (:122-135)  *)
(* named it can be missing.                                                *)
StatesStored == StatesOf(tree) \subseteq Readable \cup dangling

(* The tree named by the context's initial_state_root is complete in the   *)
(* store underneath, but for such states: a machine can be built from that *)
(* root and that store alone, which is what the next setter does           *)
(* (bench/mod.rs:70-75).                                                   *)
RootStored == StatesOf(ctx.initial_state_root) \subseteq base \cup dangling

(* What a reader of the bench sees under an ID; an actor whose state block *)
(* was there and is gone shows as "lost", which the abstract table cannot  *)
(* hold.                                                                   *)
Observed ==
  [i \in ActorIds |->
    IF Exists(tree, i) /\ tree[i].state \notin Readable \cup dangling
    THEN "lost" ELSE tree[i]]

Settings == [epoch |-> ctx.epoch, timestamp |-> ctx.timestamp,
             base_fee |-> ctx.base_fee, circ_supply |-> ctx.circ_supply,
             tracing |-> ctx.tracing]

Abstract == INSTANCE AbstractBench WITH actors <- Observed, settings <- Settings

(* The bench keeps the promises of its trait (api/src/bench.rs:47-116): in *)
(* spite of the machine being rebuilt under it, a setter changes its own   *)
(* setting only and no actor, flush and puts change nothing a reader can   *)
(* see, and only explicit messages advance a sequence, their sender's.     *)
ImplementsAbstractBench == Abstract!Spec

(* "Set the initial state root of the block" (api/src/bench.rs:111): after *)
(* the call the context has the root that was asked for.                   *)
SetInitialStateRootTakes ==
  [][\A root \in KnownRoots :
       SetInitialStateRoot(root) => ctx'.initial_state_root = root]_benchVars

=============================================================================
