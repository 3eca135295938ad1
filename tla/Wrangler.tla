------------------------------ MODULE Wrangler ------------------------------
(***************************************************************************)
(* ExecutionWrangler (api/src/wrangler.rs): the VM interface that tests    *)
(* drive, over a bench.  It numbers the messages of each sender address    *)
(* with counters of its own, keeps the traces of the messages it sent, and *)
(* reads state through a store handle cloned before the bench wrapped the  *)
(* store in its buffer.                                                    *)
(*                                                                         *)
(* The wrangler owns the bench, so only what its interface exposes can     *)
(* happen to the bench: no toggling of traces and no put into the buffer.  *)
(***************************************************************************)
EXTENDS FvmBench, Sequences

CONSTANTS
  MaxSent,      \* bound: messages counted for one address
  MaxResults    \* bound: traces kept

ASSUME SentAssumption == MaxSent \in Nat /\ MaxResults \in Nat

VARIABLES
  sequences,          \* next sequence for each sender address, 0 by default
  execution_results,  \* traces of the messages sent, oldest first
  status,             \* "running", or "panicked" when the program has ended
  spoiled,            \* history: addresses that did or met something which
                      \* the counters do not follow
  refused,            \* history: a message was refused since the last take
  view                \* history: actor states when the store was last handed out

wranglerVars == <<sequences, execution_results, status, spoiled, refused, view>>
vars == <<benchVars, wranglerVars>>

Aliases(a) == {b \in Addresses : IdOf[b] = IdOf[a]}

(* Ahead: the wrangler's counter has passed the sequence of the chain.     *)
Matches(a) == sequences[a] = Nonce(tree, IdOf[a])
Ahead(a) == sequences[a] > Nonce(tree, IdOf[a])

(* A wrangler may be given a bench with a past: one that has run messages  *)
(* already, flushed or not, whose context was changed, or whose tracing    *)
(* was turned off; no actor of it has been set to a missing state yet.     *)
(* (Which externs it has left plays no part here.)                         *)
WranglerInit ==
  /\ tree \in StateTree
  /\ resolved \in SUBSET Addresses
  /\ IdAddresses \subseteq resolved
  /\ buffer \in SUBSET States
  /\ base \in SUBSET States
  /\ ctx \in Context
  /\ dangling = {} /\ StatesStored /\ RootStored
  /\ externs = "configured"
  /\ sequences = [a \in Addresses |-> 0]
  /\ execution_results = <<>>
  /\ status = "running"
  /\ spoiled = {a \in Addresses : Nonce(tree, IdOf[a]) # 0}
  /\ refused = FALSE
  /\ view = {}

-----------------------------------------------------------------------------
(* Messages.                                                               *)

(* Every Ok result counts and leaves its trace, a refusal and an implicit  *)
(* message like any other; an Err leaves counters and traces alone.        *)
Recorded(from, result) ==
  IF result = "error"
  THEN UNCHANGED <<sequences, execution_results>>
  ELSE /\ sequences' = [sequences EXCEPT ![from] = @ + 1]
       /\ execution_results' = Append(execution_results, TraceOf(result))

(* Senders whose actor the step removes.                                   *)
Removed == {a \in Addresses : Exists(tree, IdOf[a]) /\ ~Exists(tree', IdOf[a])}

(* What a message does to the agreement of counters and chain.             *)
SpoiledByExplicit(from, result) ==
  CASE result = "applied" -> Aliases(from) \ {from}
    [] result = "rejected" -> {from}
    [] result = "error" -> Aliases(from)
SpoiledByImplicit(from, result) == IF result = "error" THEN {} ELSE {from}

CanSend(from) ==
  /\ status = "running"
  /\ sequences[from] < MaxSent
  /\ Len(execution_results) < MaxResults

(* execute_message                                                         *)
ExecuteMessage(from, result) ==
  /\ CanSend(from)
  /\ Execute(from, sequences[from], result)
  /\ Recorded(from, result)
  /\ spoiled' = spoiled \cup Removed \cup SpoiledByExplicit(from, result)
  /\ refused' = (refused \/ result = "rejected")
  /\ UNCHANGED <<status, view>>

(* execute_message_implicit: the same code but for the call it makes.      *)
ExecuteMessageImplicit(from, result) ==
  /\ CanSend(from)
  /\ ExecuteImplicit(from, result)
  /\ Recorded(from, result)
  /\ spoiled' = spoiled \cup Removed \cup SpoiledByImplicit(from, result)
  /\ refused' = (refused \/ result = "rejected")
  /\ UNCHANGED <<status, view>>

-----------------------------------------------------------------------------
(* The rest of the interface.                                              *)

(* Mutant of Blockstore. *)
BlockstoreUnflushed ==
  /\ status = "running"
  /\ view' = StatesOf(tree)
  /\ UNCHANGED <<benchVars, sequences, execution_results, status, spoiled, refused>>

(* blockstore: flushes the bench and hands out the wrangler's own handle.  *)
Blockstore ==
  /\ status = "running"
  /\ Flush
  /\ view' = StatesOf(tree)
  /\ UNCHANGED <<sequences, execution_results, status, spoiled, refused>>

Panic ==
  /\ status' = "panicked"
  /\ UNCHANGED <<benchVars, sequences, spoiled, refused, view>>

(* set_actor: writes any sequence the caller likes; the counters are not   *)
(* told.  A key that does not resolve panics.                              *)
WranglerSetActor(key, state) ==
  /\ status = "running"
  /\ SetActor(key, state)
  /\ spoiled' = spoiled \cup
       IF state.sequence = Nonce(tree, IdOf[key]) THEN {} ELSE Aliases(key)
  /\ UNCHANGED <<sequences, execution_results, status, refused, view>>

SetActorUnresolved(key) ==
  /\ status = "running"
  /\ key \notin resolved
  /\ Panic
  /\ UNCHANGED execution_results

(* balance: unwraps both the resolved address and the actor; it changes    *)
(* nothing when both are there.                                            *)
BalanceMissing(address) ==
  /\ status = "running"
  /\ address \notin resolved \/ ~Exists(tree, IdOf[address])
  /\ Panic
  /\ UNCHANGED execution_results

(* Mutant of TakeInvocations. *)
TakeInvocationsKeeping ==
  /\ status = "running"
  /\ refused' = FALSE
  /\ UNCHANGED <<benchVars, sequences, execution_results, status, spoiled, view>>

(* take_invocations: all traces are taken out before the first of them is  *)
(* converted, and the conversion panics on one without a root call.        *)
TakeInvocations ==
  /\ status = "running"
  /\ execution_results' = <<>>
  /\ IF "empty" \in {execution_results[k] : k \in DOMAIN execution_results}
     THEN Panic
     ELSE /\ refused' = FALSE
          /\ UNCHANGED <<benchVars, sequences, status, spoiled, view>>

(* set_epoch, set_timestamp, set_base_fee, set_circulating_supply          *)
ContextSetter ==
  /\ status = "running"
  /\ \E v \in Values :
       SetEpoch(v) \/ SetTimestamp(v) \/ SetBaseFee(v) \/ SetCirculatingSupply(v)
  /\ UNCHANGED wranglerVars

(* A caller puts blocks through the handle it was given.                   *)
HandlePut(blocks) ==
  /\ status = "running"
  /\ BasePut(blocks)
  /\ UNCHANGED wranglerVars

WranglerNext ==
  \/ \E from \in Addresses, result \in Results :
       ExecuteMessage(from, result) \/ ExecuteMessageImplicit(from, result)
  \/ Blockstore
  \/ \E key \in Addresses, state \in ActorState : WranglerSetActor(key, state)
  \/ \E key \in Addresses : SetActorUnresolved(key) \/ BalanceMissing(key)
  \/ TakeInvocations
  \/ ContextSetter
  \/ \E blocks \in SUBSET States : HandlePut(blocks)

WranglerSpec == WranglerInit /\ [][WranglerNext]_vars

-----------------------------------------------------------------------------
(* Properties.                                                             *)

(* Types of the wrangler's state, within the bounds.                       *)
WranglerTypeOK ==
  /\ BenchTypeOK
  /\ sequences \in [Addresses -> 0..MaxSent]
  /\ execution_results \in Seq({"rooted", "empty"})
  /\ Len(execution_results) <= MaxResults
  /\ status \in {"running", "panicked"}
  /\ spoiled \subseteq Addresses
  /\ refused \in BOOLEAN
  /\ view \subseteq States

(* The wrangler's counter of an address (wrangler.rs:173-182) is the       *)
(* sequence the chain expects from it, so that its next explicit message   *)
(* is not refused for its number, unless one of these happened: the        *)
(* address sent an implicit message or one that was refused, it or an      *)
(* alias of it met an executor error, an alias of it sent an explicit      *)
(* message, its actor's sequence was set or its actor removed, or the      *)
(* bench was not fresh.  Rebuilding the machine is not among them.         *)
InStep == \A a \in Addresses \ spoiled : Matches(a)

(* Once the counter of an address has passed the chain, explicit messages  *)
(* from the address change nothing and leave it passed: retrying after a   *)
(* refusal (wrangler.rs:180-182 counts it) never heals.                    *)
RefusalIsFinal ==
  [][\A a \in Addresses :
       Ahead(a) /\ (\E result \in Results : ExecuteMessage(a, result))
         => UNCHANGED tree /\ Ahead(a)']_vars

(* Whatever was part of the state when the store was handed out can be     *)
(* read through the handle from then on (wrangler.rs:194-202), whichever   *)
(* messages run and however often the machine is rebuilt afterwards; only  *)
(* states that set_actor named before their block was there are missing.   *)
HandedOutView == view \subseteq base \cup dangling

(* take_invocations (wrangler.rs:250-252) meets a trace that it cannot     *)
(* convert exactly if a message was refused since the last take, or if the *)
(* bench came with tracing off and there is any trace at all.              *)
TracesRooted ==
  status = "running" =>
    ((\E k \in DOMAIN execution_results : execution_results[k] = "empty")
       <=> refused \/ (~ctx.tracing /\ execution_results # <<>>))

(* "Implicit messages ignore the nonce" (api/src/bench.rs:52): one leaves  *)
(* the agreement of its sender's counter and the chain as it was, if the   *)
(* message leaves its sender's actor there.                                *)
ImplicitIgnoresNonce ==
  [][\A a \in Addresses :
       /\ Matches(a) /\ Exists(tree, IdOf[a]) /\ Exists(tree', IdOf[a])
       /\ ExecuteMessageImplicit(a, "applied")
       => Matches(a)']_vars

(* "Malformed ExecutionTrace, missing root invocation" (api/src/trace.rs   *)
(* :152) does not happen while the bench traces what it executes.          *)
TakeInvocationsNeverPanics ==
  [][ctx.tracing /\ TakeInvocations => status' = "running"]_vars

=============================================================================
