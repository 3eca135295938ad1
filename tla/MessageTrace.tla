--------------------------- MODULE MessageTrace ---------------------------
(***************************************************************************)
(* One trace and its two readers: the trace is converted to an invocation  *)
(* trace (api/src/trace.rs) and analysed (api/src/analysis.rs).  It is     *)
(* either what the bench makes of the events of a message that the FVM     *)
(* applied, with tracing on or off (trace_as_trace and set_tracing,        *)
(* vm/src/bench/mod.rs:305-348), or any that a caller puts together with   *)
(* ExecutionTrace::new.                                                    *)
(*                                                                         *)
(* Each event is handed to both readers at once; they do not know of each  *)
(* other, and one that has panicked reads no more.                         *)
(***************************************************************************)
EXTENDS Naturals, Sequences, SequencesExt

CONSTANTS GasNames, Amounts, SpanNames,
          ExitCodes, Ok, SysAssertionFailed, ErrorNumbers, None,
          MaxEvents     \* bound: length of a trace

VARIABLES
  source,       \* "bench" or "caller"
  phase,        \* "open", "ended", or "aborted" when there will be no trace
  depth,        \* open calls of the message in the FVM
  ran,          \* the message has made its outermost call
  tracing,      \* as the bench was set when the message was executed
  spans, call_stack, named_spans, analysis_status, trace,
  invocations, invocation_stack, root_invocation, conversion_status, events,
  call_spans    \* history: the span of each invocation

analysisVars == <<spans, call_stack, named_spans, analysis_status, trace>>
conversionVars ==
  <<invocations, invocation_stack, root_invocation, conversion_status, events>>
readerVars == <<analysisVars, conversionVars, call_spans>>
vars == <<source, phase, depth, ran, tracing, readerVars>>

Analysis == INSTANCE TraceAnalysis WITH status <- analysis_status
Conversion == INSTANCE InvocationTrace WITH status <- conversion_status

ASSUME TraceAssumption ==
  /\ Analysis!AmountAssumption /\ Analysis!EventBoundAssumption
  /\ Conversion!ExitCodeAssumption

TraceInit ==
  /\ source \in {"bench", "caller"}
  /\ phase = "open" /\ depth = 0 /\ ran = FALSE
  /\ tracing \in (IF source = "bench" THEN BOOLEAN ELSE {TRUE})
  /\ Analysis!AnalysisInit
  /\ Conversion!InvocationInit
  /\ call_spans = <<>>

-----------------------------------------------------------------------------
(* Both readers and an event.                                              *)

Analysed(step) ==
  \/ analysis_status = "reading" /\ step
  \/ analysis_status = "panicked" /\ UNCHANGED analysisVars

Converted(step) ==
  \/ conversion_status = "reading" /\ step
  \/ conversion_status = "panicked" /\ UNCHANGED conversionVars

Event ==
  /\ phase = "open"
  /\ analysis_status = "reading" \/ conversion_status = "reading"
  /\ UNCHANGED phase

GasCharge(name, milli) ==
  /\ Event
  /\ Analysed(Analysis!ReadGasCharge(name, milli))
  /\ Converted(Conversion!ReadOther)
  /\ UNCHANGED call_spans

Call ==
  /\ Event
  /\ Analysed(Analysis!ReadCall)
  /\ Converted(Conversion!ReadCall)
  /\ call_spans' = IF conversion_status = "reading" THEN Append(call_spans, Len(spans'))
                   ELSE call_spans

EndOfCall(converted) ==
  /\ Event
  /\ Analysed(Analysis!ReadCallReturn \/ Analysis!ReadUnmatchedReturn)
  /\ Converted(converted)
  /\ UNCHANGED call_spans

CallReturn(code) == EndOfCall(Conversion!ReadCallReturn(code))
CallError(errno) == EndOfCall(Conversion!ReadCallError(errno))

InvokeActor ==
  /\ Event
  /\ Analysed(Analysis!ReadOther)
  /\ Converted(Conversion!ReadOther)
  /\ UNCHANGED call_spans

SpanLog(name) ==
  /\ Event
  /\ Analysed(Analysis!ReadSpanStart(name) \/ Analysis!ReadSpanEnd(name)
                \/ Analysis!ReadUnmatchedEnd(name))
  /\ Converted(Conversion!ReadOther)
  /\ UNCHANGED call_spans

EndOfTrace ==
  /\ phase = "open" /\ phase' = "ended"
  /\ Analysed(Analysis!Finish \/ Analysis!FinishWithOpenCalls)
  /\ Converted(Conversion!Finish)
  /\ UNCHANGED <<source, depth, ran, tracing, call_spans>>

-----------------------------------------------------------------------------
(* The FVM (outside this repository).  With tracing on, the trace of a     *)
(* message that ran has its one outermost call, and every call in it ends, *)
(* whatever the error; that of a message that was refused has none.  What  *)
(* actors log is no event of it.                                           *)

Kinds == {"charge", "call", "return", "error", "invoke", "unknown"}

FvmEmits(kind) ==
  /\ tracing
  /\ kind = "call" => depth > 0 \/ ~ran
  /\ kind \in {"return", "error", "invoke", "unknown"} => depth > 0
  /\ depth' = CASE kind = "call" -> depth + 1
               [] kind \in {"return", "error"} -> depth - 1
               [] OTHER -> depth
  /\ ran' = (ran \/ kind = "call")
  /\ UNCHANGED <<source, tracing>>

(* With tracing off the message runs, and nothing of it is recorded.       *)
RunUntraced ==
  /\ source = "bench" /\ phase = "open" /\ ~tracing
  /\ ran' = TRUE
  /\ UNCHANGED <<source, phase, depth, tracing, readerVars>>

-----------------------------------------------------------------------------
(* Events of the trace: what the bench takes over from the FVM, or what a  *)
(* caller makes up.                                                        *)

(* Mutant of TraceAsTrace: leaves out the errors. *)
TraceAsTraceNoErrors(kind) ==
  \/ /\ kind = "charge"
     /\ \E name \in GasNames, milli \in Amounts : GasCharge(name, milli)
  \/ kind = "call" /\ Call
  \/ kind = "return" /\ \E code \in ExitCodes : CallReturn(code)
  \/ kind \in {"error", "invoke"} /\ InvokeActor

(* A kind that is not known is a todo!(): the result of the message is     *)
(* lost with the panic.                                                    *)
TraceAsTrace(kind) ==
  \/ /\ kind = "charge"
     /\ \E name \in GasNames, milli \in Amounts : GasCharge(name, milli)
  \/ kind = "call" /\ Call
  \/ kind = "return" /\ \E code \in ExitCodes : CallReturn(code)
  \/ kind = "error" /\ \E errno \in ErrorNumbers : CallError(errno)
  \/ kind = "invoke" /\ InvokeActor
  \/ kind = "unknown" /\ phase' = "aborted" /\ UNCHANGED readerVars

BenchEvent ==
  /\ source = "bench" /\ phase = "open"
  /\ \E kind \in Kinds : FvmEmits(kind) /\ TraceAsTrace(kind)

CallerEvent ==
  /\ source = "caller"
  /\ \/ \E name \in GasNames, milli \in Amounts : GasCharge(name, milli)
     \/ Call
     \/ \E code \in ExitCodes : CallReturn(code)
     \/ \E errno \in ErrorNumbers : CallError(errno)
     \/ InvokeActor
     \/ \E name \in SpanNames : SpanLog(name)
  /\ UNCHANGED <<source, depth, ran, tracing>>

TraceNext ==
  \/ BenchEvent
  \/ RunUntraced
  \/ CallerEvent
  \/ (source = "bench" => depth = 0) /\ EndOfTrace

TraceSpec == TraceInit /\ [][TraceNext]_vars

-----------------------------------------------------------------------------
(* Properties.                                                             *)

BothReading == analysis_status = "reading" /\ conversion_status = "reading"
NonePanicked == analysis_status # "panicked" /\ conversion_status # "panicked"

(* The two stacks are the same calls, but for the root span that only the  *)
(* analysis has (analysis.rs:28-29, :51; trace.rs:96): the span open at    *)
(* some depth is that of the invocation open there, also if named spans    *)
(* were opened between them.                                               *)
StacksAgree ==
  BothReading =>
    call_stack = <<1>> \o [d \in DOMAIN invocation_stack |-> call_spans[invocation_stack[d]]]

(* The gas of an invocation that has ended is its own and that of its      *)
(* subinvocations (analysis.rs:53-63, trace.rs:116-117), so that the       *)
(* listing of the analysis can be read along the tree of the conversion.   *)
GasFollowsInvocations ==
  NonePanicked =>
    \A k \in DOMAIN invocations \ ToSet(invocation_stack) :
      LET span == spans[call_spans[k]]
      IN span.total.sum = FoldLeft(LAMBDA sum, h : sum + spans[call_spans[h]].total.sum,
                                   span.self.sum, invocations[k].subinvocations)

(* Of the messages of the bench, those have traces that convert that both  *)
(* ran and were traced: the trace of a message that was refused, and that  *)
(* of any message with tracing off, has no call, and the conversion panics *)
(* (trace.rs:152), while the analysis takes them all.  A trace with an     *)
(* event of a kind the bench does not know never ends (mod.rs:344).        *)
ConvertsWhatRan ==
  source = "bench" /\ phase = "ended" =>
    /\ analysis_status = "done"
    /\ conversion_status = (IF ran /\ tracing THEN "done" ELSE "panicked")

=============================================================================
