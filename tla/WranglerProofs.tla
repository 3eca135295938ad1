--------------------------- MODULE WranglerProofs ---------------------------
(***************************************************************************)
(* Theorems about Wrangler, for any actors, addresses, states and bounds:  *)
(* when its counters can be trusted, that a refusal is final, that the     *)
(* store it hands out is complete, and which traces it can convert.        *)
(***************************************************************************)
EXTENDS Wrangler, FvmBenchProofs

(* HandedOutView needs StatesStored: a flush can only write what is there. *)
WranglerInv ==
  /\ WranglerTypeOK
  /\ BenchInv
  /\ InStep
  /\ HandedOutView
  /\ TracesRooted

-----------------------------------------------------------------------------
(* What running a message does to sequences.                               *)

(* After a message has run, an actor that is there has the sequence it had *)
(* in the tree the message ran from.                                       *)
LEMMA RunNonce ==
  ASSUME NEW t \in StateTree, Run(t), NEW i \in ActorIds
  PROVE  Nonce(tree', i) = IF Exists(tree', i) THEN Nonce(t, i) ELSE 0
<1>1. PICK s \in [ActorIds -> States \cup {NoActor}] :
        tree' = [j \in ActorIds |-> IF s[j] = NoActor THEN NoActor
                                    ELSE Numbered(s[j], Nonce(t, j))]
  BY DEF Run, TreesAfter
<1>. QED  BY <1>1 DEF Exists, Nonce, Numbered

(* The sequences of other actors are not touched, unless they are removed. *)
LEMMA OtherNonces ==
  ASSUME NEW from \in Addresses, NEW sequence \in 0..MaxSequence, WranglerInv,
         RunExplicit(from, sequence) \/ RunImplicit(from),
         NEW a \in Addresses, a \notin Removed,
         RunImplicit(from) \/ IdOf[a] # IdOf[from]
  PROVE  Nonce(tree', IdOf[a]) = Nonce(tree, IdOf[a])
<1>. USE DEF WranglerInv, BenchInv, BenchTypeOK
<1>1. IdOf[a] \in ActorIds /\ IdOf[from] \in ActorIds
  BY AddressAssumption
<1>2. CASE RunImplicit(from)
  BY <1>1, <1>2, RunNonce DEF RunImplicit, Removed, Nonce, Exists
<1>3. CASE RunExplicit(from, sequence) /\ IdOf[a] # IdOf[from]
  <2>. DEFINE t == [tree EXCEPT ![IdOf[from]] = Numbered(@.state, sequence + 1)]
  <2>1. t \in StateTree /\ Run(t)
    BY <1>1, <1>3, ConsumedType DEF RunExplicit, Exists
  <2>2. t[IdOf[a]] = tree[IdOf[a]]
    BY <1>1, <1>3 DEF StateTree
  <2>3. Nonce(tree', IdOf[a]) =
          IF Exists(tree', IdOf[a]) THEN Nonce(t, IdOf[a]) ELSE 0
    BY <1>1, <2>1, RunNonce
  <2>. QED  BY <2>2, <2>3 DEF Removed, Nonce, Exists
<1>. QED  BY <1>2, <1>3

(* The sender's own sequence advances by one.                              *)
LEMMA SenderNonce ==
  ASSUME NEW from \in Addresses, NEW sequence \in 0..MaxSequence, WranglerInv,
         RunExplicit(from, sequence), from \notin Removed
  PROVE  Nonce(tree', IdOf[from]) = sequence + 1
<1>. USE DEF WranglerInv, BenchInv, BenchTypeOK
<1>. DEFINE t == [tree EXCEPT ![IdOf[from]] = Numbered(@.state, sequence + 1)]
<1>1. IdOf[from] \in ActorIds
  BY AddressAssumption
<1>2. t \in StateTree /\ Run(t)
  BY <1>1, ConsumedType DEF RunExplicit, Exists
<1>3. Exists(tree', IdOf[from])
  BY DEF Removed, RunExplicit
<1>4. t[IdOf[from]] = Numbered(tree[IdOf[from]].state, sequence + 1)
  BY <1>1 DEF StateTree
<1>5. t[IdOf[from]] # NoActor
  BY <1>1, <1>4, <1>2, NoActorAssumption, BoundAssumption
     DEF Numbered, RunExplicit, ActorState, StateTree, Exists
<1>6. Nonce(tree', IdOf[from]) = Nonce(t, IdOf[from])
  BY <1>1, <1>2, <1>3, RunNonce
<1>. QED  BY <1>4, <1>5, <1>6 DEF Nonce, Exists, Numbered

-----------------------------------------------------------------------------
(* Messages.                                                               *)

LEMMA RecordedType ==
  ASSUME WranglerInv, NEW from \in Addresses, NEW result \in Results,
         CanSend(from), Recorded(from, result)
  PROVE  /\ sequences' \in [Addresses -> 0..MaxSent]
         /\ execution_results' \in Seq({"rooted", "empty"})
         /\ Len(execution_results') <= MaxResults
<1>1. CASE result = "error"
  BY <1>1 DEF Recorded, WranglerInv, WranglerTypeOK
<1>2. CASE result # "error"
  <2>1. sequences' = [sequences EXCEPT ![from] = @ + 1]
    BY <1>2 DEF Recorded
  <2>2. sequences[from] + 1 \in 0..MaxSent
    BY SentAssumption DEF CanSend, WranglerInv, WranglerTypeOK
  <2>3. sequences' \in [Addresses -> 0..MaxSent]
    BY <2>1, <2>2 DEF WranglerInv, WranglerTypeOK
  <2>4. TraceOf(result) \in {"rooted", "empty"}
    BY DEF TraceOf
  <2>5. execution_results' = Append(execution_results, TraceOf(result))
    BY <1>2 DEF Recorded
  <2>6. Len(execution_results') <= MaxResults
    BY <2>4, <2>5, SentAssumption DEF CanSend, WranglerInv, WranglerTypeOK
  <2>. QED  BY <2>3, <2>4, <2>5, <2>6 DEF WranglerInv, WranglerTypeOK
<1>. QED  BY <1>1, <1>2

(* What can be converted is decided by four things.                        *)
LEMMA TracesKept ==
  ASSUME WranglerInv, UNCHANGED <<execution_results, refused, status>>,
         ctx'.tracing = ctx.tracing
  PROVE  TracesRooted'
  BY DEF WranglerInv, TracesRooted

(* The handle shows what it showed as long as the store only grows.        *)
LEMMA HandleKept ==
  ASSUME WranglerInv, view' = view, base \subseteq base', dangling \subseteq dangling'
  PROVE  HandedOutView'
  BY DEF WranglerInv, HandedOutView

(* A trace without a root call comes with a refusal, or without tracing.   *)
LEMMA RecordedRooted ==
  ASSUME WranglerInv, NEW from \in Addresses, NEW result \in Results,
         Recorded(from, result), ctx' = ctx, status = "running", status' = status,
         refused' = (refused \/ result = "rejected")
  PROVE  TracesRooted'
<1>1. CASE result = "error"
  BY <1>1, TracesKept DEF Recorded, WranglerInv, WranglerTypeOK
<1>2. CASE result # "error"
  <2>. DEFINE old == execution_results
              trace == TraceOf(result)
  <2>1. execution_results' = Append(old, trace) /\ old \in Seq({"rooted", "empty"})
    BY <1>2 DEF Recorded, WranglerInv, WranglerTypeOK
  <2>2. trace = "empty" <=> result = "rejected" \/ ~ctx.tracing
    BY <1>2 DEF TraceOf, Results
  <2>3. (\E k \in DOMAIN old : old[k] = "empty")
          <=> refused \/ (~ctx.tracing /\ old # <<>>)
    BY DEF WranglerInv, TracesRooted
  <2>4. trace \in {"rooted", "empty"}
    BY DEF TraceOf
  <2>. HIDE DEF trace, old
  <2>5. /\ Append(old, trace) # <<>>
        /\ (\E k \in DOMAIN Append(old, trace) : Append(old, trace)[k] = "empty")
             <=> (\E k \in DOMAIN old : old[k] = "empty") \/ trace = "empty"
    <3>1. /\ DOMAIN old = 1..Len(old) /\ Len(old) \in Nat
          /\ DOMAIN Append(old, trace) = 1..(Len(old) + 1)
          /\ Append(old, trace)[Len(old) + 1] = trace
          /\ \A k \in 1..Len(old) : Append(old, trace)[k] = old[k]
          /\ Append(old, trace) # <<>>
      BY <2>1, <2>4
    <3>2. 1..(Len(old) + 1) = 1..Len(old) \cup {Len(old) + 1}
      BY <3>1
    <3>. QED  BY <3>1, <3>2
  <2>. QED  BY <2>1, <2>2, <2>3, <2>5 DEF TracesRooted
<1>. QED  BY <1>1, <1>2

LEMMA ExecuteMessageInv ==
  ASSUME WranglerInv, NEW from \in Addresses, NEW result \in Results,
         ExecuteMessage(from, result)
  PROVE  WranglerInv'
<1>. DEFINE seq == sequences[from]
<1>1. BenchInv' /\ ctx' = ctx /\ base' = base /\ dangling' = dangling
  <2>1. CASE UNCHANGED benchVars
    BY <2>1, UnchangedInv DEF benchVars, WranglerInv
  <2>2. CASE RunExplicit(from, seq)
    <3>1. seq \in 0..MaxSequence
      BY <2>2, BoundAssumption, SentAssumption
         DEF RunExplicit, WranglerInv, WranglerTypeOK
    <3>. QED  BY <2>2, <3>1, RunExplicitInv DEF WranglerInv, RunExplicit, Run
  <2>. QED  BY <2>1, <2>2 DEF ExecuteMessage, Execute
<1>2. WranglerTypeOK'
  <2>1. spoiled' \subseteq Addresses
    BY DEF ExecuteMessage, SpoiledByExplicit, Removed, Aliases, WranglerInv,
           WranglerTypeOK, Results
  <2>2. refused' \in BOOLEAN /\ status' = status /\ view' = view
    BY DEF ExecuteMessage
  <2>. QED  BY <1>1, <2>1, <2>2, RecordedType
            DEF ExecuteMessage, WranglerInv, WranglerTypeOK, BenchInv
<1>3. InStep'
  <2>1. SUFFICES ASSUME NEW a \in Addresses, a \notin spoiled, a \notin Removed,
                        a \notin SpoiledByExplicit(from, result)
                 PROVE  sequences'[a] = Nonce(tree', IdOf[a])
    BY DEF InStep, Matches, ExecuteMessage
  <2>2. sequences[a] = Nonce(tree, IdOf[a])
    BY <2>1 DEF WranglerInv, InStep, Matches
  <2>3. CASE result = "applied" /\ a = from
    <3>1. RunExplicit(from, seq) /\ seq \in 0..MaxSequence
      BY <2>3, BoundAssumption, SentAssumption
         DEF ExecuteMessage, Execute, RunExplicit, WranglerInv, WranglerTypeOK
    <3>2. sequences'[a] = seq + 1
      BY <2>3 DEF ExecuteMessage, Recorded, WranglerInv, WranglerTypeOK
    <3>. QED  BY <2>1, <2>3, <3>1, <3>2, SenderNonce
  <2>4. CASE result = "applied" /\ a # from
    <3>1. RunExplicit(from, seq) /\ seq \in 0..MaxSequence
      BY <2>4, BoundAssumption, SentAssumption
         DEF ExecuteMessage, Execute, RunExplicit, WranglerInv, WranglerTypeOK
    <3>2. sequences'[a] = sequences[a]
      BY <2>4 DEF ExecuteMessage, Recorded, WranglerInv, WranglerTypeOK
    <3>3. IdOf[a] # IdOf[from]
      BY <2>1, <2>4 DEF SpoiledByExplicit, Aliases
    <3>. QED  BY <2>1, <2>2, <3>1, <3>2, <3>3, OtherNonces
  <2>5. CASE result = "rejected"
    <3>1. a # from
      BY <2>1, <2>5 DEF SpoiledByExplicit
    <3>2. sequences'[a] = sequences[a] /\ tree' = tree
      BY <2>5, <3>1 DEF ExecuteMessage, Recorded, Execute, benchVars, WranglerInv,
                       WranglerTypeOK
    <3>. QED  BY <2>2, <3>2
  <2>6. CASE result = "error"
    <3>1. IdOf[a] # IdOf[from]
      BY <2>1, <2>6 DEF SpoiledByExplicit, Aliases
    <3>2. sequences'[a] = sequences[a]
      BY <2>6 DEF ExecuteMessage, Recorded
    <3>3. CASE tree' = tree
      BY <2>2, <3>2, <3>3
    <3>4. CASE RunExplicit(from, seq)
      <4>1. seq \in 0..MaxSequence
        BY <3>4, BoundAssumption, SentAssumption
           DEF RunExplicit, WranglerInv, WranglerTypeOK
      <4>. QED  BY <2>1, <2>2, <3>1, <3>2, <3>4, <4>1, OtherNonces
    <3>. QED  BY <2>6, <3>3, <3>4 DEF ExecuteMessage, Execute, benchVars
  <2>. QED  BY <2>3, <2>4, <2>5, <2>6 DEF Results
<1>4. HandedOutView'
  BY <1>1, HandleKept DEF ExecuteMessage
<1>5. TracesRooted'
  BY <1>1, RecordedRooted DEF ExecuteMessage, CanSend
<1>. QED  BY <1>1, <1>2, <1>3, <1>4, <1>5 DEF WranglerInv

LEMMA ExecuteMessageImplicitInv ==
  ASSUME WranglerInv, NEW from \in Addresses, NEW result \in Results,
         ExecuteMessageImplicit(from, result)
  PROVE  WranglerInv'
<1>1. BenchInv' /\ ctx' = ctx /\ base' = base /\ dangling' = dangling
  <2>1. CASE UNCHANGED benchVars
    BY <2>1, UnchangedInv DEF benchVars, WranglerInv
  <2>2. CASE RunImplicit(from)
    BY <2>2, RunImplicitInv DEF WranglerInv, RunImplicit, Run
  <2>. QED  BY <2>1, <2>2 DEF ExecuteMessageImplicit, ExecuteImplicit
<1>2. WranglerTypeOK'
  <2>1. spoiled' \subseteq Addresses
    BY DEF ExecuteMessageImplicit, SpoiledByImplicit, Removed, WranglerInv, WranglerTypeOK
  <2>2. refused' \in BOOLEAN /\ status' = status /\ view' = view
    BY DEF ExecuteMessageImplicit
  <2>. QED  BY <1>1, <2>1, <2>2, RecordedType
            DEF ExecuteMessageImplicit, WranglerInv, WranglerTypeOK, BenchInv
<1>3. InStep'
  <2>1. SUFFICES ASSUME NEW a \in Addresses, a \notin spoiled, a \notin Removed,
                        a \notin SpoiledByImplicit(from, result)
                 PROVE  sequences'[a] = Nonce(tree', IdOf[a])
    BY DEF InStep, Matches, ExecuteMessageImplicit
  <2>2. sequences[a] = Nonce(tree, IdOf[a])
    BY <2>1 DEF WranglerInv, InStep, Matches
  <2>3. sequences'[a] = sequences[a]
    BY <2>1 DEF SpoiledByImplicit, ExecuteMessageImplicit, Recorded, WranglerInv,
                WranglerTypeOK
  <2>4. CASE tree' = tree
    BY <2>2, <2>3, <2>4
  <2>5. CASE RunImplicit(from)
    <3>1. 0 \in 0..MaxSequence
      BY BoundAssumption
    <3>. QED  BY <2>1, <2>2, <2>3, <2>5, <3>1, OtherNonces
  <2>. QED  BY <2>4, <2>5 DEF ExecuteMessageImplicit, ExecuteImplicit, benchVars
<1>4. HandedOutView'
  BY <1>1, HandleKept DEF ExecuteMessageImplicit
<1>5. TracesRooted'
  BY <1>1, RecordedRooted DEF ExecuteMessageImplicit, CanSend
<1>. QED  BY <1>1, <1>2, <1>3, <1>4, <1>5 DEF WranglerInv

-----------------------------------------------------------------------------
(* The rest of the interface.                                              *)

LEMMA BlockstoreInv ==
  ASSUME WranglerInv, Blockstore
  PROVE  WranglerInv'
<1>1. BenchInv' /\ tree' = tree /\ ctx' = ctx
  BY FlushInv DEF Blockstore, WranglerInv, Flush
<1>2. StatesOf(tree) \subseteq base' \cup dangling' /\ StatesOf(tree) \subseteq States
  BY StatesOfType DEF Blockstore, Flush, FlushedBase, WranglerInv, BenchInv,
     BenchTypeOK, StatesStored, Readable
<1>3. WranglerTypeOK'
  BY <1>1, <1>2 DEF Blockstore, WranglerInv, WranglerTypeOK, BenchInv
<1>4. InStep' /\ TracesRooted'
  BY <1>1, TracesKept DEF Blockstore, WranglerInv, InStep, Matches, Nonce, Exists
<1>5. HandedOutView'
  BY <1>2 DEF Blockstore, HandedOutView
<1>. QED  BY <1>1, <1>3, <1>4, <1>5 DEF WranglerInv

LEMMA WranglerSetActorInv ==
  ASSUME WranglerInv, NEW key \in Addresses, NEW state \in ActorState,
         WranglerSetActor(key, state)
  PROVE  WranglerInv'
<1>1. BenchInv' /\ base' = base /\ ctx' = ctx /\ dangling \subseteq dangling'
  BY SetActorInv DEF WranglerSetActor, WranglerInv, SetActor
<1>2. WranglerTypeOK'
  BY <1>1 DEF WranglerSetActor, WranglerInv, WranglerTypeOK, BenchInv, Aliases
<1>3. InStep'
  <2>1. SUFFICES ASSUME NEW a \in Addresses, a \notin spoiled,
                        state.sequence = Nonce(tree, IdOf[key]) \/ a \notin Aliases(key)
                 PROVE  sequences'[a] = Nonce(tree', IdOf[a])
    BY DEF WranglerSetActor, InStep, Matches
  <2>2. sequences'[a] = Nonce(tree, IdOf[a])
    BY <2>1 DEF WranglerSetActor, WranglerInv, InStep, Matches
  <2>3. IdOf[key] \in ActorIds /\ IdOf[a] \in ActorIds
    BY AddressAssumption
  <2>4. tree' = [tree EXCEPT ![IdOf[key]] = state] /\ tree \in StateTree
    BY DEF WranglerSetActor, SetActor, WranglerInv, BenchInv, BenchTypeOK
  <2>5. CASE IdOf[a] = IdOf[key]
    <3>1. tree'[IdOf[a]] = state /\ state # NoActor
      BY <2>3, <2>4, <2>5, NoActorAssumption DEF StateTree
    <3>. QED  BY <2>1, <2>2, <2>5, <3>1 DEF Nonce, Exists, Aliases
  <2>6. CASE IdOf[a] # IdOf[key]
    BY <2>2, <2>3, <2>4, <2>6 DEF StateTree, Nonce, Exists
  <2>. QED  BY <2>5, <2>6
<1>4. HandedOutView' /\ TracesRooted'
  BY <1>1, HandleKept, TracesKept DEF WranglerSetActor
<1>. QED  BY <1>1, <1>2, <1>3, <1>4 DEF WranglerInv

(* There is room for no traces at all.                                     *)
LEMMA NoTraces ==
  /\ <<>> \in Seq({"rooted", "empty"})
  /\ Len(<<>>) <= MaxResults
  BY SentAssumption

(* A panic ends the program where it is.                                   *)
LEMMA PanicInv ==
  ASSUME WranglerInv, Panic, execution_results' \in {execution_results, <<>>}
  PROVE  WranglerInv'
<1>1. /\ BenchInv' /\ tree' = tree
      /\ base' = base /\ dangling' = dangling
  BY UnchangedInv DEF Panic, WranglerInv, benchVars
<1>2. WranglerTypeOK'
  BY <1>1, NoTraces DEF Panic, WranglerInv, WranglerTypeOK, BenchInv
<1>3. InStep' /\ HandedOutView' /\ TracesRooted'
  BY <1>1, HandleKept
     DEF Panic, WranglerInv, InStep, Matches, TracesRooted, Nonce, Exists
<1>. QED  BY <1>1, <1>2, <1>3 DEF WranglerInv

LEMMA TakeInvocationsInv ==
  ASSUME WranglerInv, TakeInvocations
  PROVE  WranglerInv'
<1>1. CASE Panic
  BY <1>1, PanicInv DEF TakeInvocations
<1>2. CASE ~Panic
  <2>1. /\ BenchInv' /\ tree' = tree
        /\ base' = base /\ dangling' = dangling
    BY <1>2, UnchangedInv DEF TakeInvocations, WranglerInv, benchVars
  <2>2. WranglerTypeOK'
    BY <1>2, <2>1, NoTraces
       DEF TakeInvocations, WranglerInv, WranglerTypeOK, BenchInv
  <2>3. InStep' /\ HandedOutView' /\ TracesRooted'
    BY <1>2, <2>1, HandleKept
       DEF TakeInvocations, WranglerInv, InStep, Matches, TracesRooted, Nonce, Exists
  <2>. QED  BY <2>1, <2>2, <2>3 DEF WranglerInv
<1>. QED  BY <1>1, <1>2

(* Rebuilding the machine: sequences come back from the flushed tree.      *)
LEMMA ContextSetterInv ==
  ASSUME WranglerInv, ContextSetter
  PROVE  WranglerInv'
<1>1. BenchInv'
  BY SettingInv DEF ContextSetter, SettingStep, WranglerInv
<1>2. /\ tree' = tree /\ ctx'.tracing = ctx.tracing
      /\ base \subseteq base' /\ dangling' = dangling
  BY DEF ContextSetter, SetEpoch, SetTimestamp, SetBaseFee, SetCirculatingSupply,
         ModifyMachineCtx, FlushedBase, WranglerInv, BenchInv, BenchTypeOK, Context
<1>3. WranglerTypeOK'
  BY <1>1 DEF ContextSetter, wranglerVars, WranglerInv, WranglerTypeOK, BenchInv
<1>4. InStep' /\ HandedOutView' /\ TracesRooted'
  BY <1>2, HandleKept, TracesKept
     DEF ContextSetter, wranglerVars, WranglerInv, InStep, Matches, Nonce, Exists
<1>. QED  BY <1>1, <1>3, <1>4 DEF WranglerInv

LEMMA HandlePutInv ==
  ASSUME WranglerInv, NEW blocks \in SUBSET States, HandlePut(blocks)
  PROVE  WranglerInv'
<1>1. /\ BenchInv' /\ tree' = tree /\ ctx' = ctx
      /\ base \subseteq base' /\ dangling' = dangling
  BY BasePutInv DEF HandlePut, BasePut, WranglerInv
<1>2. WranglerTypeOK'
  BY <1>1 DEF HandlePut, wranglerVars, WranglerInv, WranglerTypeOK, BenchInv
<1>3. InStep' /\ HandedOutView' /\ TracesRooted'
  BY <1>1, HandleKept, TracesKept
     DEF HandlePut, wranglerVars, WranglerInv, InStep, Matches, Nonce, Exists
<1>. QED  BY <1>1, <1>2, <1>3 DEF WranglerInv

LEMMA WranglerUnchangedInv ==
  ASSUME WranglerInv, UNCHANGED vars
  PROVE  WranglerInv'
<1>1. /\ BenchInv' /\ tree' = tree /\ ctx' = ctx
      /\ base' = base /\ dangling' = dangling
  BY UnchangedInv DEF vars, benchVars, WranglerInv
<1>2. WranglerTypeOK'
  BY <1>1 DEF vars, wranglerVars, WranglerInv, WranglerTypeOK, BenchInv
<1>3. InStep' /\ HandedOutView' /\ TracesRooted'
  BY <1>1, HandleKept, TracesKept
     DEF vars, wranglerVars, WranglerInv, InStep, Matches, Nonce, Exists
<1>. QED  BY <1>1, <1>2, <1>3 DEF WranglerInv

LEMMA WranglerInitInv ==
  ASSUME WranglerInit
  PROVE  WranglerInv
<1>1. BenchTypeOK /\ StatesStored /\ RootStored
  BY StatesOfType, AddressAssumption
     DEF WranglerInit, BenchTypeOK, Context, StatesStored, RootStored, Readable
<1>2. WranglerTypeOK
  <2>1. sequences \in [Addresses -> 0..MaxSent]
    BY SentAssumption DEF WranglerInit
  <2>2. spoiled \subseteq Addresses
    BY DEF WranglerInit
  <2>3. execution_results \in Seq({"rooted", "empty"}) /\ Len(execution_results) <= MaxResults
    BY NoTraces DEF WranglerInit
  <2>. QED  BY <1>1, <2>1, <2>2, <2>3 DEF WranglerInit, WranglerTypeOK
<1>3. InStep
  BY DEF WranglerInit, InStep, Matches
<1>4. HandedOutView /\ TracesRooted
  BY DEF WranglerInit, HandedOutView, TracesRooted
<1>. QED  BY <1>1, <1>2, <1>3, <1>4 DEF WranglerInv, BenchInv

LEMMA WranglerNextInv ==
  ASSUME WranglerInv, [WranglerNext]_vars
  PROVE  WranglerInv'
<1>1. ASSUME NEW key \in Addresses, SetActorUnresolved(key) \/ BalanceMissing(key)
      PROVE  WranglerInv'
  BY <1>1, PanicInv DEF SetActorUnresolved, BalanceMissing
<1>. QED  BY <1>1, ExecuteMessageInv, ExecuteMessageImplicitInv, BlockstoreInv,
             WranglerSetActorInv, TakeInvocationsInv, ContextSetterInv, HandlePutInv,
             WranglerUnchangedInv DEF WranglerNext

-----------------------------------------------------------------------------
(* Theorems.                                                               *)

(* The invariant holds in every behaviour of the wrangler.                 *)
THEOREM WranglerInvariant == WranglerSpec => []WranglerInv
<1>1. WranglerInit => WranglerInv
  BY WranglerInitInv
<1>2. WranglerInv /\ [WranglerNext]_vars => WranglerInv'
  BY WranglerNextInv
<1>. QED  BY <1>1, <1>2, PTL DEF WranglerSpec

(* The wrangler's state is always well typed.                              *)
THEOREM WranglerTypeCorrect == WranglerSpec => []WranglerTypeOK
  BY WranglerInvariant, PTL DEF WranglerInv

(* A counter of the wrangler (wrangler.rs:173-182) agrees with the chain   *)
(* unless one of the listed events separated them; no number of rebuilds,  *)
(* flushes, other senders' messages or taken traces does.                  *)
THEOREM CountersInStep == WranglerSpec => []InStep
  BY WranglerInvariant, PTL DEF WranglerInv

(* The store the wrangler hands out (wrangler.rs:194-202) keeps showing    *)
(* everything it showed.                                                   *)
THEOREM HandleComplete == WranglerSpec => []HandedOutView
  BY WranglerInvariant, PTL DEF WranglerInv

(* take_invocations (wrangler.rs:250-252) meets a trace that it cannot     *)
(* convert after a refusal, or without tracing, and at no other time.      *)
THEOREM TracesConvertible == WranglerSpec => []TracesRooted
  BY WranglerInvariant, PTL DEF WranglerInv

(* A sender whose counter has passed the chain changes nothing by sending  *)
(* explicit messages again, and its counter stays ahead.                   *)
LEMMA AheadStaysAhead ==
  ASSUME WranglerInv, NEW a \in Addresses, Ahead(a), NEW result \in Results,
         ExecuteMessage(a, result)
  PROVE  UNCHANGED tree /\ Ahead(a)'
<1>1. Nonce(tree, IdOf[a]) \in Nat /\ sequences[a] \in Nat
  BY NonceType, AddressAssumption, BoundAssumption, SentAssumption
     DEF WranglerInv, WranglerTypeOK, BenchTypeOK
<1>2. ~RunExplicit(a, sequences[a])
  BY <1>1 DEF Ahead, RunExplicit, Nonce, Exists
<1>3. tree' = tree
  BY <1>2 DEF ExecuteMessage, Execute, benchVars
<1>4. sequences'[a] \in {sequences[a], sequences[a] + 1}
  BY DEF ExecuteMessage, Recorded, WranglerInv, WranglerTypeOK
<1>. QED  BY <1>1, <1>3, <1>4 DEF Ahead, Nonce, Exists

(* Retrying a refused message never heals its sender's counter.            *)
THEOREM RefusalsFinal == WranglerSpec => RefusalIsFinal
<1>1. WranglerInv /\ [WranglerNext]_vars =>
        [\A a \in Addresses :
           Ahead(a) /\ (\E result \in Results : ExecuteMessage(a, result))
             => UNCHANGED tree /\ Ahead(a)']_vars
  BY AheadStaysAhead
<1>. QED  BY <1>1, WranglerInvariant, PTL DEF WranglerSpec, RefusalIsFinal

=============================================================================
