-------------------------- MODULE InvocationTrace --------------------------
(***************************************************************************)
(* InvocationTrace::from (api/src/trace.rs:77-154): one pass over the      *)
(* events of an execution trace that builds the tree of its calls.         *)
(*                                                                         *)
(* An invocation is named by its place among the calls of the trace, which *)
(* stands for what the code copies from the call event.  Where the code    *)
(* moves an invocation into its parent, here the parent gets its name.     *)
(***************************************************************************)
EXTENDS Naturals, Sequences, SequencesExt

CONSTANTS
  ExitCodes,            \* exit codes of calls that return
  Ok,                   \* ExitCode::OK
  SysAssertionFailed,   \* ExitCode::SYS_ASSERTION_FAILED
  ErrorNumbers,         \* error numbers of calls that fail
  None,                 \* Option::None
  MaxEvents             \* bound: length of a trace

ASSUME ExitCodeAssumption ==
  /\ Ok \in ExitCodes
  /\ None \notin ErrorNumbers \cup Nat
ASSUME EventBoundAssumption == MaxEvents \in Nat

VARIABLES
  invocations,          \* all invocations, in the order of their calls
  invocation_stack,     \* those that have not ended, the outermost first
  root_invocation,      \* the one that ended with nothing around it
  status,               \* "reading", "done" or "panicked"
  events                \* history: the events read

invocationVars ==
  <<invocations, invocation_stack, root_invocation, status, events>>

Returned(code) == [kind |-> "return", exit_code |-> code]
Failed(errno) == [kind |-> "error", errno |-> errno]

Event ==
  {Returned(code) : code \in ExitCodes} \cup {Failed(errno) : errno \in ErrorNumbers}
    \cup [kind : {"call", "other"}]

Invocation ==
  [exit_code : ExitCodes \cup {SysAssertionFailed},
   error_number : ErrorNumbers \cup {None},
   subinvocations : Seq(Nat)]

(* All placeholders: "will be updated". *)
NewInvocation == [exit_code |-> Ok, error_number |-> None, subinvocations |-> <<>>]

InvocationInit ==
  /\ invocations = <<>>
  /\ invocation_stack = <<>>
  /\ root_invocation = None
  /\ status = "reading"
  /\ events = <<>>

-----------------------------------------------------------------------------

Read(event) ==
  /\ status = "reading"
  /\ Len(events) < MaxEvents
  /\ events' = Append(events, event)

Panic ==
  /\ status' = "panicked"
  /\ UNCHANGED <<invocations, invocation_stack, root_invocation>>

(* Mutant of ReadCall: pushes a name that is one too large. *)
ReadCallPastEnd ==
  /\ Read([kind |-> "call"])
  /\ invocations' = Append(invocations, NewInvocation)
  /\ invocation_stack' = Append(invocation_stack, Len(invocations') + 1)
  /\ UNCHANGED <<root_invocation, status>>

(* Call *)
ReadCall ==
  /\ Read([kind |-> "call"])
  /\ invocations' = Append(invocations, NewInvocation)
  /\ invocation_stack' = Append(invocation_stack, Len(invocations'))
  /\ UNCHANGED <<root_invocation, status>>

(* GasCharge, Log and InvokeActor *)
ReadOther ==
  /\ Read([kind |-> "other"])
  /\ UNCHANGED <<invocations, invocation_stack, root_invocation, status>>

(* Mutant of Closed: keeps the placeholder. *)
ClosedUnset(code) == invocations

(* The innermost invocation with its exit code set.                        *)
Closed(code) == [invocations EXCEPT ![Last(invocation_stack)].exit_code = code]

(* Mutants of EndInner: the invocation is not filed anywhere; it is filed  *)
(* under the root. *)
EndUnfiled(code) ==
  /\ Len(invocation_stack) > 1
  /\ invocations' = Closed(code)
  /\ invocation_stack' = Front(invocation_stack)
  /\ UNCHANGED <<root_invocation, status>>

EndUnderRoot(code) ==
  /\ Len(invocation_stack) > 1
  /\ invocations' =
       [Closed(code) EXCEPT ![Head(invocation_stack)].subinvocations =
          Append(@, Last(invocation_stack))]
  /\ invocation_stack' = Front(invocation_stack)
  /\ UNCHANGED <<root_invocation, status>>

(* The invocation that ends is popped and goes to the one around it, ...   *)
EndInner(code) ==
  /\ Len(invocation_stack) > 1
  /\ invocations' =
       [Closed(code) EXCEPT ![Last(Front(invocation_stack))].subinvocations =
          Append(@, Last(invocation_stack))]
  /\ invocation_stack' = Front(invocation_stack)
  /\ UNCHANGED <<root_invocation, status>>

(* ... or is the root, ...                                                 *)
EndRoot(code) ==
  /\ Len(invocation_stack) = 1
  /\ root_invocation = None
  /\ invocations' = Closed(code)
  /\ root_invocation' = Last(invocation_stack)
  /\ invocation_stack' = Front(invocation_stack)
  /\ UNCHANGED status

(* ... unless there is one already.  With nothing to end, the pop panics.  *)
EndUnexpected ==
  /\ invocation_stack = <<>> \/ (Len(invocation_stack) = 1 /\ root_invocation # None)
  /\ Panic

End(code) == EndInner(code) \/ EndRoot(code) \/ EndUnexpected

(* CallReturn *)
ReadCallReturn(code) == Read(Returned(code)) /\ End(code)

(* CallError: the error number is not kept.                                *)
ReadCallError(errno) == Read(Failed(errno)) /\ End(SysAssertionFailed)

(* Mutant of Finish: does not look at the stack. *)
FinishUnchecked ==
  /\ status = "reading"
  /\ IF root_invocation = None THEN Panic
     ELSE /\ status' = "done"
          /\ UNCHANGED <<invocations, invocation_stack, root_invocation>>
  /\ UNCHANGED events

(* The end of the trace: nothing may be left on the stack, and there must  *)
(* be a root.                                                              *)
Finish ==
  /\ status = "reading"
  /\ IF invocation_stack # <<>> \/ root_invocation = None THEN Panic
     ELSE /\ status' = "done"
          /\ UNCHANGED <<invocations, invocation_stack, root_invocation>>
  /\ UNCHANGED events

InvocationNext ==
  \/ ReadCall
  \/ ReadOther
  \/ \E code \in ExitCodes : ReadCallReturn(code)
  \/ \E errno \in ErrorNumbers : ReadCallError(errno)
  \/ Finish

InvocationSpec == InvocationInit /\ [][InvocationNext]_invocationVars

-----------------------------------------------------------------------------
(* Properties.                                                             *)

(* Types of the conversion; whatever is on the stack, in a list or the     *)
(* root is an invocation made before.                                      *)
InvocationTypeOK ==
  /\ invocations \in Seq(Invocation)
  /\ invocation_stack \in Seq(DOMAIN invocations)
  /\ root_invocation \in DOMAIN invocations \cup {None}
  /\ \A k \in DOMAIN invocations :
       invocations[k].subinvocations \in Seq(DOMAIN invocations)
  /\ status \in {"reading", "done", "panicked"}
  /\ events \in Seq(Event)

(* Whatever the trace, also one that is refused in the end, an invocation  *)
(* is open, or the root, or in the list of one other, in one place         *)
(* (trace.rs:115-117, 135-136): moving invocations from the stack into     *)
(* their parents neither loses nor duplicates any.                         *)
FiledOnce ==
  /\ \A k \in DOMAIN invocations :
       \/ k \in ToSet(invocation_stack)
       \/ k = root_invocation
       \/ \E h \in DOMAIN invocations : k \in ToSet(invocations[h].subinvocations)
  /\ \A h \in DOMAIN invocations : \A p \in DOMAIN invocations[h].subinvocations :
       LET k == invocations[h].subinvocations[p]
       IN /\ k \notin ToSet(invocation_stack) /\ k # root_invocation
          /\ \A g \in DOMAIN invocations : \A q \in DOMAIN invocations[g].subinvocations :
               invocations[g].subinvocations[q] = k => g = h /\ p = q

=============================================================================
