-------------------------- MODULE SharedStoreProofs --------------------------
(* Theorems about SharedStore. *)
EXTENDS SharedStore, TLAPS

(* Only states are stored or buffered, so a flush of one bench puts in the *)
(* store what anyone else could have put there.                            *)
OnlyStates == base \subseteq States /\ buffer \subseteq States /\ buffer2 \subseteq States

(* A message leaves trees of states.                                       *)
LEMMA FirstTrees ==
  ASSUME NEW t, NEW after \in First!TreesAfter(t)
  PROVE  First!StatesOf(after) \subseteq States
  BY DEF First!TreesAfter, First!StatesOf, First!Exists, First!Numbered

LEMMA SecondTrees ==
  ASSUME NEW t, NEW after \in Second!TreesAfter(t)
  PROVE  Second!StatesOf(after) \subseteq States
  BY DEF Second!TreesAfter, Second!StatesOf, Second!Exists, Second!Numbered

(* Every step of the first bench only adds states to the store.  *)
LEMMA FirstRun ==
  ASSUME OnlyStates, NEW t, First!Run(t)
  PROVE  UNCHANGED base /\ buffer' \subseteq States
  BY FirstTrees DEF OnlyStates, First!Run, First!Rewritten, First!StatesOf

LEMMA FirstStores ==
  ASSUME OnlyStates, First!BenchNext
  PROVE  base \subseteq base' /\ base' \subseteq States /\ buffer' \subseteq States
<1>1. ASSUME UNCHANGED First!benchVars
      PROVE  UNCHANGED <<base, buffer>>
  BY <1>1 DEF First!benchVars
<1>2. ASSUME NEW from, NEW sequence, First!RunExplicit(from, sequence)
      PROVE  UNCHANGED base /\ buffer' \subseteq States
  BY <1>2, FirstRun DEF First!RunExplicit
<1>3. ASSUME NEW from, First!RunImplicit(from)
      PROVE  UNCHANGED base /\ buffer' \subseteq States
  BY <1>3, FirstRun DEF First!RunImplicit
<1>4. ASSUME NEW from, NEW sequence, NEW result, First!Execute(from, sequence, result)
      PROVE  UNCHANGED base /\ buffer' \subseteq States
  BY <1>1, <1>2, <1>4 DEF First!Execute, OnlyStates
<1>5. ASSUME NEW from, NEW result, First!ExecuteImplicit(from, result)
      PROVE  UNCHANGED base /\ buffer' \subseteq States
  BY <1>1, <1>3, <1>5 DEF First!ExecuteImplicit, OnlyStates
<1>6. ASSUME NEW requested, First!ModifyMachineCtx(requested)
      PROVE  base' = First!FlushedBase /\ buffer' = {}
  BY <1>6 DEF First!ModifyMachineCtx
<1>7. CASE First!SettingStep
  BY <1>6, <1>7 DEF First!SettingStep, First!SetEpoch, First!SetTimestamp, First!SetBaseFee,
    First!SetCirculatingSupply, First!SetTracing, First!SetInitialStateRoot, First!FlushedBase, OnlyStates
<1>8. CASE First!Flush
  BY <1>8 DEF First!Flush, First!FlushedBase, First!FlushedBuffers, OnlyStates
<1>9. CASE \E key \in Addresses, state \in First!ActorState : First!SetActor(key, state)
  BY <1>9 DEF First!SetActor, OnlyStates
<1>10. CASE \E s \in States : First!StorePut(s)
  BY <1>10 DEF First!StorePut, OnlyStates
<1>11. CASE \E blocks \in SUBSET States : First!BasePut(blocks)
  BY <1>11 DEF First!BasePut, OnlyStates
<1> QED
  BY <1>4, <1>5, <1>7, <1>8, <1>9, <1>10, <1>11 DEF First!BenchNext, OnlyStates

(* Every step of the second bench only adds states to the store.  *)
LEMMA SecondRun ==
  ASSUME OnlyStates, NEW t, Second!Run(t)
  PROVE  UNCHANGED base /\ buffer2' \subseteq States
  BY SecondTrees DEF OnlyStates, Second!Run, Second!Rewritten, Second!StatesOf

LEMMA SecondStores ==
  ASSUME OnlyStates, Second!BenchNext
  PROVE  base \subseteq base' /\ base' \subseteq States /\ buffer2' \subseteq States
<1>1. ASSUME UNCHANGED Second!benchVars
      PROVE  UNCHANGED <<base, buffer2>>
  BY <1>1 DEF Second!benchVars
<1>2. ASSUME NEW from, NEW sequence, Second!RunExplicit(from, sequence)
      PROVE  UNCHANGED base /\ buffer2' \subseteq States
  BY <1>2, SecondRun DEF Second!RunExplicit
<1>3. ASSUME NEW from, Second!RunImplicit(from)
      PROVE  UNCHANGED base /\ buffer2' \subseteq States
  BY <1>3, SecondRun DEF Second!RunImplicit
<1>4. ASSUME NEW from, NEW sequence, NEW result, Second!Execute(from, sequence, result)
      PROVE  UNCHANGED base /\ buffer2' \subseteq States
  BY <1>1, <1>2, <1>4 DEF Second!Execute, OnlyStates
<1>5. ASSUME NEW from, NEW result, Second!ExecuteImplicit(from, result)
      PROVE  UNCHANGED base /\ buffer2' \subseteq States
  BY <1>1, <1>3, <1>5 DEF Second!ExecuteImplicit, OnlyStates
<1>6. ASSUME NEW requested, Second!ModifyMachineCtx(requested)
      PROVE  base' = Second!FlushedBase /\ buffer2' = {}
  BY <1>6 DEF Second!ModifyMachineCtx
<1>7. CASE Second!SettingStep
  BY <1>6, <1>7 DEF Second!SettingStep, Second!SetEpoch, Second!SetTimestamp, Second!SetBaseFee,
    Second!SetCirculatingSupply, Second!SetTracing, Second!SetInitialStateRoot, Second!FlushedBase, OnlyStates
<1>8. CASE Second!Flush
  BY <1>8 DEF Second!Flush, Second!FlushedBase, Second!FlushedBuffers, OnlyStates
<1>9. CASE \E key \in Addresses, state \in Second!ActorState : Second!SetActor(key, state)
  BY <1>9 DEF Second!SetActor, OnlyStates
<1>10. CASE \E s \in States : Second!StorePut(s)
  BY <1>10 DEF Second!StorePut, OnlyStates
<1>11. CASE \E blocks \in SUBSET States : Second!BasePut(blocks)
  BY <1>11 DEF Second!BasePut, OnlyStates
<1> QED
  BY <1>4, <1>5, <1>7, <1>8, <1>9, <1>10, <1>11 DEF Second!BenchNext, OnlyStates

LEMMA InitStores == SharedInit => OnlyStates
  BY DEF SharedInit, OnlyStates, First!BenchInit, Second!BenchInit

LEMMA StepStores ==
  ASSUME OnlyStates, [SharedNext]_vars
  PROVE  OnlyStates' /\ base \subseteq base'
  BY FirstStores, SecondStores DEF SharedNext, vars, firstVars, secondVars, OnlyStates

(* A step of the other bench is, for this one, a put by another holder.    *)
LEMMA FirstSees ==
  ASSUME OnlyStates, [SharedNext]_vars
  PROVE  [First!BenchNext]_(First!benchVars)
<1>1. CASE First!BenchNext
  BY <1>1
<1>2. CASE UNCHANGED firstVars
  <2>1. base' = base \cup (base' \ base) /\ base' \ base \in SUBSET States
    BY StepStores DEF OnlyStates
  <2>2. First!BasePut(base' \ base)
    BY <1>2, <2>1 DEF First!BasePut, firstVars
  <2> QED
    BY <2>1, <2>2 DEF First!BenchNext
<1> QED
  BY <1>1, <1>2 DEF SharedNext, vars

LEMMA SecondSees ==
  ASSUME OnlyStates, [SharedNext]_vars
  PROVE  [Second!BenchNext]_(Second!benchVars)
<1>1. CASE Second!BenchNext
  BY <1>1
<1>2. CASE UNCHANGED secondVars
  <2>1. base' = base \cup (base' \ base) /\ base' \ base \in SUBSET States
    BY StepStores DEF OnlyStates
  <2>2. Second!BasePut(base' \ base)
    BY <1>2, <2>1 DEF Second!BasePut, secondVars
  <2> QED
    BY <2>1, <2>2 DEF Second!BenchNext
<1> QED
  BY <1>1, <1>2 DEF SharedNext, vars

(* Two benches over one store, each flushing and rebuilding its machine in *)
(* any order, are each a bench of its own (builder.rs:188-202): all that   *)
(* was proved of one bench holds of both.                                  *)
THEOREM BenchesIndependent == SharedSpec => EachIsABench
<1>1. SharedInit => OnlyStates
  BY InitStores
<1>2. OnlyStates /\ [SharedNext]_vars => OnlyStates'
  BY StepStores
<1>3. OnlyStates /\ [SharedNext]_vars =>
        [First!BenchNext]_(First!benchVars) /\ [Second!BenchNext]_(Second!benchVars)
  BY FirstSees, SecondSees
<1>4. SharedInit => First!BenchInit /\ Second!BenchInit
  BY DEF SharedInit
<1> QED
  BY <1>1, <1>2, <1>3, <1>4, PTL
  DEF SharedSpec, EachIsABench, First!BenchSpec, Second!BenchSpec

=============================================================================
