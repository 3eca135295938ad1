------------------------ MODULE InvocationReference ------------------------
(***************************************************************************)
(* What InvocationTrace should find in a trace, said of the events alone:  *)
(* by matching calls with what ends them, without a stack or a pass.       *)
(***************************************************************************)
EXTENDS InvocationTrace

IsCall(event) == event.kind = "call"
IsEnd(event) == event.kind \in {"return", "error"}

CallsWithin(from, to) == {j \in DOMAIN events : from <= j /\ j <= to /\ IsCall(events[j])}
EndsWithin(from, to) == {j \in DOMAIN events : from <= j /\ j <= to /\ IsEnd(events[j])}
Depth(j) == Cardinality(CallsWithin(1, j)) - Cardinality(EndsWithin(1, j))

(* Where the k-th call is, and where it ends: the first end after which as *)
(* many calls have ended as were made since.                               *)
CallAt(k) == CHOOSE j \in DOMAIN events :
               IsCall(events[j]) /\ Cardinality(CallsWithin(1, j)) = k
EndsOf(k) ==
  {j \in EndsWithin(CallAt(k), Len(events)) :
     Cardinality(CallsWithin(CallAt(k), j)) = Cardinality(EndsWithin(CallAt(k), j))}
Ended(k) == EndsOf(k) # {}
EndOf(k) == Min(EndsOf(k))

(* Calls that enclose the k-th; the youngest of them made it.              *)
Around(k) == {h \in 1..(k - 1) : Ended(h) => EndOf(h) > CallAt(k)}
MadeBy(k) == {h \in DOMAIN invocations : Around(h) # {} /\ Max(Around(h)) = k}

(* An end without a call, or a second outermost call.                      *)
Unbalanced ==
  \E j \in DOMAIN events :
    \/ Depth(j) < 0
    \/ IsCall(events[j]) /\ j > 1 /\ Depth(j - 1) = 0 /\ EndsWithin(1, j) # {}

-----------------------------------------------------------------------------
(* Properties.                                                             *)

(* The tree is that of the trace: under each invocation, in the order they *)
(* were made, exactly the calls that it made and that have ended           *)
(* (trace.rs:116-117, 135-136), so none is lost, doubled or misplaced.     *)
TreeExact ==
  status # "panicked" =>
    \A k \in DOMAIN invocations :
      LET subs == invocations[k].subinvocations
      IN /\ ToSet(subs) = {h \in MadeBy(k) : Ended(h)}
         /\ \A p, q \in DOMAIN subs : p < q => subs[p] < subs[q]
         /\ root_invocation = k <=> Ended(k) /\ Around(k) = {}

(* Each invocation that has ended has the exit code of the event that      *)
(* ended it (trace.rs:113, 133), not one of a call inside it.              *)
ExitCodesExact ==
  \A k \in DOMAIN invocations :
    Ended(k) /\ status # "panicked" =>
      invocations[k].exit_code =
        LET event == events[EndOf(k)]
        IN IF event.kind = "return" THEN event.exit_code ELSE SysAssertionFailed

(* A trace is converted if and only if it has one outermost call and every *)
(* call in it ends; otherwise the conversion panics (trace.rs:111, 121,    *)
(* 129, 140, 149, 152), for a second outermost call when that one ends.    *)
ConvertsOneRootedTrace ==
  LET complete == Depth(Len(events)) = 0 /\ CallsWithin(1, Len(events)) # {}
  IN /\ status = "done" => complete /\ ~Unbalanced
     /\ status = "panicked" => ~complete \/ Unbalanced

=============================================================================
