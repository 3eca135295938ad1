---------------------------- MODULE SharedStore ----------------------------
(***************************************************************************)
(* Two benches of one builder.  build() clones the handle to the store     *)
(* (vm/src/builder.rs:198-202), so the benches have one store underneath,  *)
(* and all else of their own.  They take turns, in any order.              *)
(***************************************************************************)
EXTENDS Naturals

CONSTANTS ActorIds, Addresses, IdOf, IdAddresses, States, Values, NoActor, MaxSequence

VARIABLES
  base,         \* the store
  tree, resolved, buffer, ctx, externs, dangling,         \* of the first bench
  tree2, resolved2, buffer2, ctx2, externs2, dangling2    \* of the second

firstVars == <<tree, resolved, buffer, ctx, externs, dangling>>
secondVars == <<tree2, resolved2, buffer2, ctx2, externs2, dangling2>>
vars == <<base, firstVars, secondVars>>

First == INSTANCE FvmBench
Second == INSTANCE FvmBench WITH
  tree <- tree2, resolved <- resolved2, buffer <- buffer2, ctx <- ctx2,
  externs <- externs2, dangling <- dangling2

ASSUME SharedAssumption ==
  First!AddressAssumption /\ First!BoundAssumption /\ First!NoActorAssumption

SharedInit == First!BenchInit /\ Second!BenchInit

(* Mutant of SharedNext: the benches were handed the same buffered store.  *)
SharedNextBuffered ==
  \/ First!BenchNext /\ buffer2' = buffer'
       /\ UNCHANGED <<tree2, resolved2, ctx2, externs2, dangling2>>
  \/ Second!BenchNext /\ buffer' = buffer2'
       /\ UNCHANGED <<tree, resolved, ctx, externs, dangling>>

SharedNext ==
  \/ First!BenchNext /\ UNCHANGED secondVars
  \/ Second!BenchNext /\ UNCHANGED firstVars

SharedSpec == SharedInit /\ [][SharedNext]_vars

-----------------------------------------------------------------------------
(* Properties.                                                             *)

(* "Clone the context so the builder can be re-used for a new bench."      *)
(* (builder.rs:189)  Each bench is one as if it had the store to itself    *)
(* and its creator: what the other flushes only adds blocks to it.         *)
EachIsABench == First!BenchSpec /\ Second!BenchSpec

=============================================================================
