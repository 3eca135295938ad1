---------------------------- MODULE AbstractBench ----------------------------
(***************************************************************************)
(* What the `Bench` trait promises (api/src/bench.rs:47-116), with no      *)
(* executor, no buffered blockstore and no machine to rebuild: a table of  *)
(* actors and a handful of settings.  An explicit message advances its     *)
(* sender's sequence by one, an implicit one advances nobody's, and a      *)
(* setter changes the one setting it names and no actor.                   *)
(***************************************************************************)
EXTENDS Naturals

CONSTANTS ActorIds, States, Values, NoActor, MaxSequence

VARIABLES
  actors,       \* what find_actor returns for each ID, its state block included
  settings      \* what the getters of the machine context return

abstractVars == <<actors, settings>>

ActorStates == [state : States, sequence : 0..MaxSequence]
ActorTables == [ActorIds -> ActorStates \cup {NoActor}]
Settings == [epoch : Values, timestamp : Values, base_fee : Values,
             circ_supply : Values, tracing : BOOLEAN]

Init ==
  /\ actors \in ActorTables
  /\ settings \in Settings

-----------------------------------------------------------------------------
(* What running a message from the table `before` may leave behind: actors *)
(* rewritten, created with sequence 0 or removed, no sequence touched.     *)
Runs(before) ==
  /\ actors' \in ActorTables
  /\ \A i \in ActorIds :
       \/ actors'[i] = NoActor
       \/ before[i] = NoActor /\ actors'[i].sequence = 0
       \/ before[i] # NoActor /\ actors'[i].sequence = before[i].sequence
  /\ UNCHANGED settings

Explicit(i) ==
  /\ actors[i] # NoActor
  /\ Runs([actors EXCEPT ![i] = [state |-> @.state, sequence |-> @.sequence + 1]])

Implicit == Runs(actors)

SetActor(i) ==
  /\ actors'[i] \in ActorStates
  /\ actors' = [actors EXCEPT ![i] = actors'[i]]
  /\ UNCHANGED settings

SetSetting(field) ==
  /\ settings' \in Settings
  /\ settings' = [settings EXCEPT ![field] = settings'[field]]
  /\ UNCHANGED actors

Next ==
  \/ \E i \in ActorIds : Explicit(i) \/ SetActor(i)
  \/ Implicit
  \/ \E field \in DOMAIN settings : SetSetting(field)

Spec == Init /\ [][Next]_abstractVars

=============================================================================
