# A TLA+ development of fvm-workbench

fvm-workbench lets tests and experiments run Filecoin actors inside a real FVM
without a node. This directory holds TLA+ models of its own logic, the TLC
configurations that check them, and theorems about them with proofs for TLAPS.
Paths of source files are relative to the root of the repository.

Everything the workbench does is synchronous and single-threaded (`RefCell`s, no
`Send`, no async). What is hard here is *sequence* and *staleness*: a machine
taken apart and rebuilt under every setting, blocks that are in a buffer and not
yet in the store, a counter that shadows one kept on chain, traces interpreted
long after the message that produced them, one step of several that fails.

## 1. The system

| Part | Code | State | Operations that change it |
|---|---|---|---|
| `ExecutionWrangler` | `api/src/wrangler.rs` | a bench, a store handle, `sequences` (address → next nonce), `execution_results` | `execute_message`, `execute_message_implicit`, `blockstore` (flushes), `set_actor`, the context's setters, `take_invocations` |
| `Bench` trait | `api/src/bench.rs` | – | the interface the wrangler drives |
| `FvmBench` | `vm/src/bench/mod.rs` | an executor: state tree, buffered blockstore over the store its creator still holds, machine context, externs | `execute`, `execute_implicit`, `flush`, `set_actor`, `set_*` of the context, puts through `store()` |
| `WorkbenchBuilder`, `FvmBenchBuilder` | `api/src/bench.rs`, `vm/src/builder.rs` | a state tree over the caller's store, externs, network and machine context, the built-in actors' manifest and its CID | `install_builtin_actor_bundle`, `create_singleton_actor`, `create_builtin_actor`, `build`, puts through `store()` |
| genesis | `builtin/src/genesis.rs`, `builtin/src/lib.rs` | – | `create_genesis_actors` makes the actors of a fresh chain, one by one, through a builder; `setup` installs the bundle, calls it and builds a bench |
| `BenchKernel` | `vm/src/bench/kernel.rs` | the default kernel it wraps | every system call of an actor: forwarded, or, for proofs, seals, faults, signatures and tickets, answered with static data |
| `FakeExterns` | `vm/src/externs.rs` | sources of randomness, tipsets, faults | none |
| `TraceAnalysis` | `api/src/analysis.rs` | spans, call stack, open named spans | one pass over a trace |
| `InvocationTrace` | `api/src/trace.rs` | stack of invocations, root | one pass over a trace |
| `ExecutionResult` | `api/src/lib.rs` | receipt, trace, gas | – |
| `DynBlockstore` | `api/src/blockstore.rs` | – | delegation |
| root crate | `src/lib.rs` | – | an example |

How they interact. A builder owns a state tree and a handle to its caller's store.
`build` flushes the tree, clones store, externs and context, and makes an
`FvmBench` of the clones: the builder goes on with its own tree, and may build more
benches over the same store. Genesis is a caller of the builder, which takes back
nothing if a creation fails. Under a bench's executor each call of a message has a
`BenchKernel`, and below that are the externs. A wrangler owns a bench and a *clone* of the store handle made before
the bench wrapped the store in its buffer: writes of messages land in the buffer,
reads through the handle do not see it until a flush. Every setter of the bench
(`modify_machine_ctx`, `vm/src/bench/mod.rs:60-76`) takes the machine out of the
executor, flushes it, and builds another over the *unbuffered* store. A message's
result carries its trace; the wrangler keeps it and `take_invocations` hands it
to the conversion of `trace.rs`. `TraceAnalysis` reads the same kind of trace.

What makes each part correct:

* *FvmBench*: rebuilding the machine is invisible, that is, a setter changes its own
  setting only; no operation loses the block of an actor's state that was there when
  the actor got it; but for blocks that never were, the context's root can always be
  loaded from the store underneath.
* *Wrangler*: its counters follow the chain, but for a known list of events; the
  store handed out keeps showing the state as of when it was handed out; kept
  traces can be converted unless a message was refused or tracing is off.
* *TraceAnalysis*: a closed span's total is exactly the gas charged while it was
  open, per name and in sum; panics are exactly for malformed traces.
* *InvocationTrace*: the tree, and the exit code of each node, are those of the
  matched calls and returns; panics are exactly for malformed traces.
* *Builder*: the manifest in force is the one whose CID is kept, whatever bundles
  failed before; an address resolves to an actor that is there unless the store failed
  to take a block; a new ID takes the place of no actor but of those that the Init actor
  cannot know (put among the assigned IDs as singletons, or left from before it was created
  anew); a bench that was built is complete, and stays so while the builder goes on; it
  reports the types of its actors if the System actor names the manifest they were made from.
* *Genesis*: the IDs that the tests rely on, the links between the actors and the
  supply come out right, also after a call that failed half-way, or a caller
  that used the builder before, with actors and balances of its own.
* *Kernel*: an answer that costs the bench nothing is still paid for by the message, in
  the middle of a batch and of nested calls too.
* *The two readers of a trace*: they have stacks of their own, which must be those of
  the same calls; what a message leaves can be analysed, and it can be converted if the
  message ran and was traced.
* *Two benches on one store*: each is as good as alone.

`PROJECT.json` lists, under `hazards`, where each of these can go wrong.

## 2. Modules

| Module | Role |
|---|---|
| `AbstractBench` | what the `Bench` trait promises: a table of actors and a record of settings |
| `FvmBench` | the bench, with the executor as far as the bench uses it; implements `AbstractBench` |
| `Wrangler` | the wrangler over `FvmBench` (EXTENDS it: the two share the bench's state) |
| `SharedStore` | two instances of `FvmBench` over one store |
| `Builder` | the builder, and what a bench that it built reports of its actors' types |
| `Genesis` | the creation of a chain's actors over `Builder` (EXTENDS it) |
| `BenchKernel` | messages, nested calls, gas, system calls and externs |
| `TraceAnalysis` | `TraceAnalysis::build`, one action per arm of the match |
| `TraceReference` | what the analysis should find, said of the trace alone |
| `InvocationTrace` | the conversion in `trace.rs`, one action per arm of the match |
| `InvocationReference` | what the conversion should find, said of the trace alone |
| `MessageTrace` | one trace and its two readers, instances of `TraceAnalysis` and `InvocationTrace`, with the bench that makes it from the FVM's events |
| `FvmBenchProofs`, `WranglerProofs`, `SharedStoreProofs`, `BuilderProofs`, `BenchKernelProofs`, `TraceAnalysisProofs`, `InvocationTraceProofs`, `MessageTraceProofs` | theorems about the module they are named after; `BuilderProofs` has those about `Genesis` too, and the two proofs of readers those that compare with `TraceReference` and `InvocationReference` |
| `MCFvmBench`, `MCWrangler`, `MCSharedStore`, `MCBuilder`, `MCGenesis`, `MCBenchKernel`, `MCTraceAnalysis`, `MCInvocationTrace`, `MCMessageTrace` | constants for TLC |

Definitions whose comment begins "Mutant of" are deliberate mistakes, one a
plausible bug of the code each; no specification uses them. Put in the place of
the definition they are a mutant of, each makes TLC report the property that
`PROJECT.json` pairs it with, which shows that the property can fail.
Those of `RunExplicit` are mistakes about the executor, which is not in the repository:
they show that the properties depend on what is assumed of it.

### FvmBench

| Model | Code |
|---|---|
| `tree` | the executor's state tree; a tree is its own root CID |
| `resolved` | addresses for which `resolve_address` answers |
| `buffer`, `base` | state blocks in the `BufferedBlockstore`, and in the store it wraps |
| `ctx` | `MachineContext` with its `initial_state_root` |
| `externs` | "configured" ones of the builder, or "default" |
| `dangling` | history: states that `set_actor` named before their block could be read |
| `Execute`, `ExecuteImplicit` | `execute`, `execute_implicit` |
| `Flush`, `SetActor`, `StorePut` | `flush`, `set_actor`, a put through `store()` |
| `ModifyMachineCtx`, `SetEpoch`, ... | `modify_machine_ctx` and its callers |
| `BasePut` | the use of the store by its creator, or by another bench over it |

A CID is the thing it names. Of an actor only its state block and its sequence are
kept. Balances, code CIDs and delegated addresses would be carried along
like the state block. The executor belongs to the crate `fvm` (4.0.0), whose source is
not in the repository; the following is assumed of it, and marked `external` in the map:

* an explicit message runs only if its sequence is its sender's, and consumes it;
  one refused beforehand returns `Ok` with a failure code, an empty trace, and
  changes nothing; an implicit message does not look at or change the sequence;
* the executor may itself fail (`Err`), before or after it ran the message;
* a message that runs rewrites, creates (with sequence 0) or removes actors, in
  any way, and puts the new state blocks in the buffer (`Rewritten`); what it leaves alone it
  does not put again;
* a flush writes the buffered blocks the tree reaches to the store underneath.
  What the tree does not reach may stay buffered or be dropped: both are modelled.

`set_actor` takes any state, as the code does: nobody looks whether its block is there. One
that a setter dropped from the buffer before (`bench/mod.rs:73`), or that was never
put, is missing from then on, until somebody puts it. `dangling` remembers such states, and
`StatesStored`, `RootStored` and `HandedOutView` except them and no others.

`modify_machine_ctx` unwraps at each step under `replace_with_or_abort`; a step that fails
ends the process, and so the behaviour. There is no state after it to say anything of.

### Wrangler

`sequences`, `execution_results` are the fields of the same name. A trace is kept as
"rooted" (it has its one outermost call) or "empty". `status` becomes "panicked"
where the code unwraps or panics: an unresolved key in `set_actor`, a missing
actor in `balance`, a trace without a root in `take_invocations`. `spoiled`,
`refused` and `view` are history variables that only properties read.
`TracesRooted` says *exactly* when there is such a trace: after a refusal since
the last take, or with tracing off on the bench and any message at all.
A wrangler may be put over a bench with a past, so the initial tree is any tree,
with any sequences. Only what the wrangler exposes happens to the bench:
`SetTracing`, `SetInitialStateRoot` and `StorePut` are not reachable through it.

### SharedStore

`First` and `Second` are instances of `FvmBench` that share `base` and nothing
else; a step is a step of one of them. `EachIsABench` says that this is, for each
of the two, `BenchSpec` itself, so that all that holds of a bench holds of both:
whatever one bench writes to the store must be something that a
bench expects of others, a `BasePut`. In the mutant
the benches share their buffer as well, as they would if `build` handed the same buffered store to
both: a setter of one then drops what the other has not flushed yet.

### Builder

| Model | Code |
|---|---|
| `builtin_manifest_data_cid`, `builtin_manifest`, `state_tree` | the fields |
| `blocks`, `roots` | actor states and blocks of bundles in the store, and state trees in it |
| `benches` | machine contexts of the benches that were built |
| `InstallBundle` (`Import`, `ImportFails`) | `install_builtin_actor_bundle` |
| `CreateInternal` | `create_builtin_actor_internal` |
| `CreateSingletonActor`, `CreateBuiltinActor` | `create_singleton_actor`, `create_builtin_actor` |
| `Build`, `BuildFails`, `StorePut` | `build`, its failures, a put through `store()` |
| `BuiltinActorsManifest` | `FvmBench::builtin_actors_manifest` |

The order of the code is kept where a step fails half-way: the CID of a manifest
is set before the manifest is loaded, blocks of a bundle are put before its import
fails, an address is registered before its actor is created. `outcome` chooses how
far a creation gets. `Bundles` may lack blocks; a bundle that is damaged, or a store that fails,
panics in the code's `unwrap`. The Init actor's table of addresses is
part of its state, as in the code, so that creating the Init actor again starts a new table.
`register_new_address` is the FVM's, used through
the state tree, and marked `external`, as is the loading of a machine, which needs the manifest
that the System actor's state names. `new_with_bundle` is `new_bare` and an
installation; `install_builtin_manifest` is a `todo!()`, so no state has it behind it.
`put_failed` and `exposed` are history variables: the store failed to take a
block; the IDs whose actors a new Init actor does not count, or that were put as singletons
in the range it assigns from. `NewIdsFree` says that no other actor can be replaced by a new one.

`BuiltinActorsManifest` is the list of sixteen insertions, by number and type
(`ListedTypes`). It reads the manifest of the machine, which is the System actor's;
the codes of actors come from the builder's. `CodesReported` says of every bench, the
two agreeing or not, when an actor's type is reported.

### Genesis

`GenesisActors(spec, ids)` lists the thirteen creations of `create_genesis_actors`
in their order with type, ID or address, state and balance; `CreateNext` makes the next
with the builder's own actions, and the first that fails ends the call (`genesis` =
"failed"). Of a state only what links an actor to another is kept, the rest of it
being its kind. The caller installs bundles and creates actors with balances of
`CallerBalances` before and after the call (`CallerSingleton`, `CallerAccount`), and calls again;
`MaxCalls` bounds how often. `own` is a history variable, the IDs whose actor the caller made.
Two things the caller does not do: register the addresses of genesis
(`AddressAssumption`), and, once genesis is through, put a singleton in the place of an actor that is
there. The code forbids neither; a caller that does either takes the chain that it was
given apart, and the properties would say nothing of the code of genesis.

### BenchKernel

| Model | Code |
|---|---|
| `ActorOps`, `SelfOps`, ... | the traits' calls that are forwarded, one set a trait |
| `serving` | the call that `BenchKernel` is in the middle of: its charges, and how many are made |
| `VerifyBatch`, `VerifyOne` | entering a call that is not forwarded |
| `ChargeOne` | one `charge_gas(...)?`, for a batch one turn of its loop |
| `StaticAnswer`, `AnswerStatic` | what is answered statically when all is charged; without the unsealed sector's CID the error is fatal |
| `VerifySignature`, `RandomnessFromTickets` | the two that are neither |
| `externs`, `SourceOf` | `FakeExterns`, each source default, configured or failing, and who asks which |
| `Rebuild` | the externs' replacement by `modify_machine_ctx` |
| `Send` | `send`: a nested call with a kernel of its own |

Gas and the stack of calls are the FVM's call manager, marked `external`: a charge
beyond the limit uses the limit up and ends the innermost call, a nested call's limit is
what it was given or what is left, and a fatal error ends the whole message. The
inner kernel charges, asks its source, and answers, refuses or is fatal for reasons of its
own; a source that fails leaves it no answer. `due` is a history variable: the
prices of all that was answered. `last` is the last system call.

### TraceAnalysis and InvocationTrace

The trace is chosen event by event, among all sequences the event types allow,
malformed ones included, and is remembered in a history variable, so
that the reference modules can say what should have been found. In
`TraceAnalysis` a gas charge is one number, compute and storage gas added as the
code adds them (`analysis.rs:37`), and a label stands for the part of a log message
after `SpanStart:` or `SpanEnd:`. In `InvocationTrace` an invocation is named by its place among
the trace's calls, which stands for the fields copied from the call event, and a parent holds
its children's names where the code moves them in.

### MessageTrace

Each event is handed to both readers; one that has panicked reads no more. The
trace is either a caller's own (`CallerEvent`, any sequence of events) or what
`trace_as_trace` makes of the events of the FVM (`BenchEvent`). `FvmEmits` is the
assumption about the FVM: the trace of a message that ran has one outermost
call, every call in it ends, and only then the trace does; that of a message that
was refused has none; what actors log is no event. With `tracing` off a message runs and leaves
an empty trace (`RunUntraced`). `TraceAsTrace` meets an event of a
kind it does not know with a `todo!()` (`phase` = "aborted"). `call_spans` is a history
variable: the span that the analysis opened for each invocation.

## 3. Runs

No run assumes fairness and no liveness property is stated: the library does
nothing by itself, each call runs to its end, and no scheduler decides between
competing steps. `CHECK_DEADLOCK FALSE` stands where the program really stops
(a panic, the end of a trace) or where a bound of the model stops it.

| Run | Property | Question |
|---|---|---|
| `bench` | `BenchTypeOK`, `StatesStored`, `RootStored`, `ImplementsAbstractBench` | Is every step of the bench, rebuilding included, one the trait allows, and can any order of messages, puts, flushes, writes and setters lose a block the tree needs? |
| `wrangler` | `WranglerTypeOK`, `InStep`, `RefusalIsFinal`, `HandedOutView`, `TracesRooted` | Which events part counters and chain, and does a retry heal them? Does the store handle stay complete, and exactly when do kept traces convert? |
| `shared_store` | `EachIsABench` | Can the flushes and rebuildings of two benches over one store harm the other? |
| `builder` | `BuilderTypeOK`, `ManifestNamed`, `AddressesHaveActors`, `NewIdsFree`, `BenchesComplete`, `CodesReported` | What do installations and creations that fail half-way leave, which actors can a new ID replace, is every bench built in between complete, and when does it know its actors' types? |
| `genesis` | `GenesisIds`, `GenesisLinked`, `SupplyAgrees`, `GenesisBuildable` | Are IDs, links and supply those of a fresh chain whatever failed before? |
| `kernel` | `KernelTypeOK`, `PaidInFull` | Is all that is answered paid for, however calls nest and wherever they run out of gas? |
| `trace_totals` | `AnalysisTypeOK`, `TotalsExact`, `SelfExact`, `PanicsOnMalformed`, `SumListedFirst` | Is gas attributed exactly, and are panics exactly for malformed traces? |
| `invocations` | `InvocationTypeOK`, `FiledOnce`, `TreeExact`, `ExitCodesExact`, `ConvertsOneRootedTrace` | Is the tree that of the matched calls? |
| `message_trace` | `StacksAgree`, `GasFollowsInvocations`, `ConvertsWhatRan` | Do the two readers see the same calls, and exactly which messages leave traces that they take? |
| `bench_root` | `SetInitialStateRootTakes`, violated | finding 1 |
| `wrangler_implicit` | `ImplicitIgnoresNonce`, violated | finding 2 |
| `wrangler_take` | `TakeInvocationsNeverPanics`, violated | finding 3 |

Bounds, and why they are enough:

* `bench` and `wrangler`: two actors under three addresses, two of which name the
  same actor (an ID address and a key address) and one of which may not resolve
  at first. That is the least with an alias, an unrelated sender and an
  unresolved one. One state block tells a state that is stored from one that is not, and
  an actor that is there from one that is gone. In `wrangler` both addresses of the one actor
  resolve at first, so that they are symmetric, and the third address need not. `MaxSequence` 2 lets
  a sequence be consumed, set back and set ahead. `Values` has two members in `bench`, which asks whether a setter
  touches another setting, and one elsewhere. `bench` has 144,960 states, `wrangler` 902,851
  up to symmetry.
* `MaxSent` 2 and `MaxResults` 1: a counter can pass the chain and be retried, and
  `TakeInvocations` makes room for the next result. `wrangler_take` keeps two, a good
  trace before a bad one.
* `shared_store`: one actor in each bench, with one address and one state block, which one bench
  may hold in its buffer or its tree while the other does not, 2,617 states.
  Sequences play no part in it (`MaxSequence` 0), so messages that run are implicit ones.
* `builder`: two manifests, of which the second has a type less, in bundles that are
  whole or lack a block; four IDs, two of which the Init actor assigns; singletons for the
  System actor (of either manifest), the Init actor and an ID ahead of the Init actor's counter; two flushed trees and two
  benches, so that the first has to outlast the second. 345,191 states.
* `genesis`: the IDs of the real chain and those that the Init actor assigns from 100,
  with one to spare for the caller's actor; two calls, of two specs, one of which has
  one address for both accounts and names another manifest; one flush. The caller creates
  the Init actor, an actor ahead of those that genesis assigns and accounts, each with a balance
  of 9. 1,500,919 states.
* `kernel`: three nested calls, batches of up to three seals, a limit of 5 for prices of 1
  and 2, so that a batch runs out before, in and after its middle. Of the forwarded calls two
  ask a source and one does not. 2,710,685 states.
* `trace_totals`: 7 events are two nested calls with charges between and a
  named span across their boundary; two gas names and two labels; one amount,
  600 milligas, so that sums of one, two and three charges fall below, above and
  above a unit with different remainders (0.6, 1.2 and 1.8), which the separate
  rounding of sum and parts needs. 588,615 states up to symmetry.
* `invocations` and `message_trace`: 8 events are three nested or sibling calls with their ends
  and two other events, or every kind of malformed trace around them. `message_trace` has
  1,816,762 states.
* Symmetry is declared over gas names and labels in `trace_totals`, and over the two addresses of
  one actor in `wrangler`. Definitions do not choose among these values; no other run declares any.

The theorems of section 4 hold for all values of these constants.

## 4. Proofs

| Theorem | Statement | How |
|---|---|---|
| `BenchTypeCorrect`, `StatesAlwaysStored`, `RootAlwaysStored` | `BenchSpec => []BenchTypeOK`, `[]StatesStored`, `[]RootStored` | from `BenchInvariant`: the conjunction `BenchInv` of the three is inductive |
| `BenchRefinesAbstract` | `BenchSpec => ImplementsAbstractBench` | under `BenchInv` what a reader observes is the tree itself; each action then is an abstract step or a stutter |
| `WranglerTypeCorrect`, `CountersInStep`, `HandleComplete`, `TracesConvertible` | `WranglerSpec => []...` | from `WranglerInvariant` |
| `RefusalsFinal` | `WranglerSpec => RefusalIsFinal` | from the types and the executor's guard |
| `BenchesIndependent` | `SharedSpec => EachIsABench` | each step of one bench is a `BasePut` or a stutter of the other |
| `BuilderTypeCorrect`, `ManifestAlwaysNamed`, `AddressesAlwaysHaveActors`, `NewIdsAlwaysFree`, `BenchesStayComplete` | `BuilderSpec => []...` | from `BuilderInvariant` |
| `CodesAlwaysReported` | `BuilderSpec => []CodesReported` | from `CodesInv` |
| `GenesisUsesBuilder` | `GenesisSpec` implies the builder's properties | each step of genesis or its caller keeps `BuilderInv` |
| `GenesisIdsFirst`, `GenesisAlwaysLinked`, `GenesisAlwaysBuildable`, `SupplyAlwaysAgrees` | `GenesisSpec => []...` | from `GenesisInvariant` |
| `KernelTypeCorrect`, `AnswersPaid` | `KernelSpec => []...` | from `KernelInvariant` |
| `AnalysisTypeCorrect` | `AnalysisSpec => []AnalysisTypeOK` | from `AnalysisInvariant` |
| `PanicsExactlyOnMalformed` | `AnalysisSpec => []PanicsOnMalformed` | from `BalanceInv` |
| `TotalsAlwaysExact`, `SelfAlwaysExact` | `AnalysisSpec => []TotalsExact`, `[]SelfExact` | from `OpenInv`, then `GasInv` and `SelfInv` |
| `SumAlwaysListedFirst` | `AnalysisSpec => []SumListedFirst` | from `PartsBounded` and `GasUnitsMonotone` |
| `GasUnitsMonotone` | `m <= n => GasUnits(m) <= GasUnits(n)` | arithmetic |
| `InvocationTypeCorrect`, `EveryInvocationFiledOnce` | `InvocationSpec => []InvocationTypeOK`, `[]FiledOnce` | from `InvocationInvariant` |
| `TreeAlwaysExact`, `ExitCodesAlwaysExact`, `ConvertsExactlyRooted` | `InvocationSpec => []...` | from `ReferenceInvariant` |
| `ReadersIndependent` | `TraceSpec => AnalysisSpec /\ InvocationSpec` of the two readers | each event is a step or a stutter of each reader |
| `StacksAlwaysAgree`, `ConvertsAllThatRan` | `TraceSpec => []StacksAgree`, `[]ConvertsWhatRan` | from `MessageTraceInvariant` |
| `GasAlwaysFollows` | `TraceSpec => []GasFollowsInvocations` | from `OwnSpans` and `PassedOn` |

*The bench.* `StatesStored` alone is not inductive: a setter reloads the tree from
the flushed store, so the proof needs that the flush covers all the tree reaches
(`FlushedBase`), which follows from `StatesStored` before the step, `Readable` being
buffer and base. `RootStored` then holds since `base` only grows. `dangling` only grows too, and
only by states that `set_actor` was given while they could not be read.

*The wrangler.* `HandedOutView` needs the bench's invariant at the time of the
flush. `InStep` is preserved because each action adds to `spoiled`
the addresses whose agreement it breaks; the proof has to show, action by
action, that no other address is disturbed, aliases included.

*The analysis.* That its types are right needs `Distinct`: no index is open twice, on the stack
or in the lists of named spans. For what it finds, the events of the trace are
related to its state:

* `BalanceInv`: as many calls are without a return as there are on the stack beside
  the root, and likewise for each label; so a return or an end finds the
  stack empty exactly when the trace up to it is not balanced;
* `OpenInv`: span *k* is opened by the event numbered *k* - 1 among those that open
  any (`OpeningsInv`); and for each class, the calls and each label, a span is on the
  stack of its class exactly if no event matches its opening, the events
  since it being balanced but for those above it (`ClassesInv`);
* `GasInv`, for each gas name and the sum: for adjacent calls on the stack, what the outer one
  was charged plus what it was given by closed children is all gas charged since its opening, less
  what was charged since that of the inner one; of an open named span, its own gas is all that was
  charged since its opening; of a closed span and the root, the property itself. Closing a call
  moves its total into its parent, which is just what was missing there;
* `SelfInv`: a call span holds the charges at whose event it was the innermost open
  call; which that is, is settled by the events up to the charge (`InnermostKept`).

Counts and sums are the folds of the community modules. A fold is a recursive
function, which CHOOSE picks; the proofs show that there is one (`FoldDefined`),
that it is unique (`FoldUnique`), and from that what a sum becomes when an element is added
or removed (`SumInAdd`, `SumInRemove`) or all terms stay (`SumInSame`). Where
this needs induction over the natural numbers, it is done on the set of the
numbers for which the claim holds (`NatInduct`, from the well-foundedness of
the order), which needs no operator for a parameter.

*Two benches.* A flush writes states to `base`; for the other bench that is a
`BasePut` only if they are states, whence the invariant `OnlyStates` of all stores and buffers.
With that, the theorems on the bench hold of each of the two.

*The builder.* None of its properties is inductive alone. `BuilderInv` adds that there
is no actor before the manifest is loaded (`ManifestBeforeActors`: therefore a
registration, which needs the Init actor, is never followed by a refusal), that the states of
the tree have been put (`StatesPut`: therefore what `build` flushes is complete) and that
the Init actor's counter is past its first ID (`CounterPast`: therefore an
assigned ID overwrites neither System nor Init actor).

`NewIdsFree` holds since each step that adds an actor which the counter of the Init actor does not cover,
or sets the counter back, adds to `exposed` all that is then beyond it.

`CodesInv` says that the actors of the tree and of all flushed trees have code of
the manifest that is loaded. It holds because a loaded manifest is never replaced and
no actor is there before it. A type beyond the 1 to 16 that `builtin_actors_manifest` asks for
is left out of the report, as is one that the System actor's manifest has other code for; the
theorem says that nothing else is.

*Genesis.* With the number of actors `created` so far, `GenesisInv` says that each of these is
in its place with its state and balance (`ActorsPlaced`), but for the Init actor, whose
state changes with every registration and of which only the counter is known
(`InitPlaced`), and that IDs and addresses have been given as far as that
(`IdsAssigned`, `AddressesMapped`). An earlier call that failed may have left actors
anywhere, and so may the caller. That they disturb nothing is because each place is written
again (and taken out of `own`: `PlacesOurs`), and because every actor outside those places is the
caller's (`OthersPlaced`). Of the balances that are summed up in `SupplyAgrees` all but two are
therefore 0.

*The kernel.* `PaidInFull` is not inductive: an answer is given steps after its charges were
made. `Paid` adds what has been charged for the answer that is still to come (`Reserved`), so that
a charge which failed and went unnoticed would break it. It also needs that a call that runs out
only ever raises the gas used: that limits nest, the inner ones being the smaller, and that what
is used is within each (`LimitsNest`), which also says when a message runs.

*The conversion.* `FiledOnce` needs that nothing is on the stack twice and that the
root is not on it (`StackDistinct`). `ReferenceInvariant` adds what the trace alone says:

* `ScanInv`: the stack is the calls of the trace that no end matches, in order, and after
  each of them ends and calls are balanced but for those above it;
* `RootInv`: unless the conversion has panicked, every end has its call, there is a root
  or an open call exactly if a call was read, and both exactly if a second outermost call
  was made; if it has panicked, the trace is not that of one outermost call that ended;
* `TreeInv`: what is filed is what has ended, under the innermost call around it,
  which is settled when a call is made and does not change with what follows. That
  lists are increasing needs `NewestOpen`: what is filed under an open call was made
  before the call that is open inside it.

*The two readers.* `ReadersIndependent` carries the types of both over to the trace they
share. `StacksInv` then says `StacksAgree` position by position, with one
span for each invocation; `BenchInv` (of `MessageTraceProofs`) that the FVM's depth is the height of
the conversion's stack and that there is a root once the outermost call has ended, so that
neither reader meets an end without a call. With tracing off there is no event.

`GasFollowsInvocations` compares what the analysis sums up with lists that the conversion
makes. It is inductive only with what holds of calls that are still open:

* `OwnSpans`: each invocation has a span of its own, which is neither the root's nor a
  named one, so that charges and ends of spans disturb the own gas of open calls at most;
* `PassedOn`: the total of an open call is the sum of the totals in its list, and that
  of an ended one is this and its own gas.

At the end of a call the analysis adds the call's total to the span below on its
stack, and the conversion appends the call to the list of the invocation below on its
own; by `StacksInv` these belong together, by `FiledOnce` none of the calls in the list is
one of the two whose totals change.

The proofs assume what the ASSUMEs of the modules say of the constants: addresses
name actors, the marks of an absent actor, manifest or error are none themselves, System and Init actor have
different IDs below those that are assigned, types of actors have different code, whoever creates the Init actor gives it its
initial state, prices, amounts, balances and bounds are natural numbers; in `Genesis`, that
the other singletons have IDs of their own below the assigned ones
(`SingletonIdAssumption`), that the accounts' addresses are keys and so not the multisig's, and that
the caller registers addresses of its own (`AddressAssumption`). Nothing else is assumed.

Every property of a passing run is so proved for all values of the constants. What is
only model-checked are the three violations of section 5, which are
counterexamples. Liveness and ENABLED would be out of the provers' reach, but nothing here needs
them.

## 5. Findings

Each is shown by a run that violates what the repository says of the program.

1. `set_initial_state_root` has no effect: `modify_machine_ctx` overwrites the root
   after applying the change (`vm/src/bench/mod.rs:68-70`), against
   `api/src/bench.rs:111`.
2. The wrangler counts implicit messages (`api/src/wrangler.rs:180`), so the sender's
   next explicit message is refused, against `api/src/bench.rs:52`.
3. The trace of a refused message is kept, and `take_invocations` then panics on it
   as malformed and loses the others (`api/src/wrangler.rs:185`, `api/src/trace.rs:152`).

Smaller disagreements between the code and its comments, which the models follow the
code in and no run is spent on:

* The first setter replaces the configured externs by default ones
  (`vm/src/bench/mod.rs:74`; `ModifyMachineCtx`, `Rebuild`), though externs "can be controlled
  externally for tests" (`vm/src/externs.rs:40`). A TODO at line 53 knows of it.
* Totals under 1000 milligas display as 0, against "Round up"
  (`api/src/analysis.rs:197`; `GasUnits`).
* The error number of a failed call is dropped (`api/src/trace.rs:126`;
  `ReadCallError`), against "will be updated if an error occurs" (`api/src/trace.rs:105`).
* `verify_consensus_fault` never asks the source of faults that was configured
  (`vm/src/bench/kernel.rs:297`; `StaticAnswer`), against `vm/src/externs.rs:20`.
* `get_randomness_from_tickets` calls the inner kernel first and fails if that does
  (`vm/src/bench/kernel.rs:392`; `RandomnessFromTickets`), against "NOT forwarded" (`vm/src/bench/kernel.rs:386`).
* No log of an actor reaches a trace of the bench (`vm/src/bench/mod.rs:327-348`;
  `FvmEmits`), against "necessary to get log events in traces" (`vm/src/builder.rs:64`).

## 6. Not modelled, and what could follow

Left out for good:

* wording of the displays; receipts, gas totals and messages' payloads, which are copied field by field;
* `DynBlockstore` (delegation) and the root crate (an example);
* getters, which only read; `actor_states` among them: whether the FVM's `for_each`
  sees actors that were not flushed cannot be read from this repository;
* which kinds of events a newer FVM emits: that an unknown one aborts the conversion is
  modelled, not what it is;
* `install_builtin_manifest`, a `todo!()`;
* what a configured source of the externs computes: it is a closure of the caller.

What could follow: the wrangler's "rooted" and "empty" traces refined by the
conversion of `MessageTrace`.
