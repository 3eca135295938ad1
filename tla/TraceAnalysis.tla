--------------------------- MODULE TraceAnalysis ---------------------------
(***************************************************************************)
(* TraceAnalysis::build (api/src/analysis.rs:25-93): one pass over the     *)
(* events of a trace that attributes gas to spans.  Call spans nest, on a  *)
(* stack; spans opened by log messages are named, do not nest and may      *)
(* overlap anything, themselves included.                                  *)
(*                                                                         *)
(* One action per arm of the match.  The trace is any sequence of events   *)
(* the types allow, chosen event by event.  A gas charge is the one number *)
(* its two dimensions add up to, in milligas.                              *)
(***************************************************************************)
EXTENDS Naturals, Sequences, SequencesExt

CONSTANTS
  GasNames,     \* names of gas charges
  Amounts,      \* milligas of one charge
  SpanNames,    \* labels in span logs
  MaxEvents     \* bound: length of a trace

ASSUME AmountAssumption == Amounts \subseteq Nat
ASSUME EventBoundAssumption == MaxEvents \in Nat

VARIABLES
  spans,        \* all spans, in the order they were opened
  call_stack,   \* indices of the open call spans, the root's first
  named_spans,  \* for each label the indices of its open spans
  status,       \* "reading", "done" or "panicked"
  trace         \* history: the events read

analysisVars == <<spans, call_stack, named_spans, status, trace>>

Event ==
  [kind : {"charge"}, name : GasNames, milli : Amounts]
    \cup [kind : {"start", "end"}, name : SpanNames]
    \cup [kind : {"call", "return", "other"}]

(* Gas by the name of its charges, and its sum, which the code keeps apart. *)
Gas == [by_name : [GasNames -> Nat], sum : Nat]
Span == [self : Gas, total : Gas]

NoGas == [by_name |-> [n \in GasNames |-> 0], sum |-> 0]
NewSpan == [self |-> NoGas, total |-> NoGas]

Charged(gas, name, milli) ==
  [by_name |-> [gas.by_name EXCEPT ![name] = @ + milli], sum |-> gas.sum + milli]

(* Mutant of Merged: forgets the sum. *)
MergedNames(gas, other) ==
  [by_name |-> [n \in GasNames |-> gas.by_name[n] + other.by_name[n]],
   sum |-> gas.sum]

Merged(gas, other) ==
  [by_name |-> [n \in GasNames |-> gas.by_name[n] + other.by_name[n]],
   sum |-> gas.sum + other.sum]

AddSelfGas(span, name, milli) ==
  [self |-> Charged(span.self, name, milli), total |-> span.total]

AddSelfToTotalGas(span) ==
  [self |-> span.self, total |-> Merged(span.total, span.self)]

AddOtherToTotalGas(span, other) ==
  [self |-> span.self, total |-> Merged(span.total, other.total)]

(* A number of milligas in units of gas, as a span is displayed: rounded   *)
(* up, unless it is less than one unit.                                    *)
GasUnits(milli) ==
  IF milli \div 1000 # 0 /\ milli % 1000 # 0
  THEN milli \div 1000 + 1
  ELSE milli \div 1000

OpenCalls == ToSet(call_stack)
OpenNamed == UNION {ToSet(named_spans[n]) : n \in SpanNames}

AnalysisInit ==
  /\ spans = <<NewSpan>>
  /\ call_stack = <<1>>
  /\ named_spans = [n \in SpanNames |-> <<>>]
  /\ status = "reading"
  /\ trace = <<>>

-----------------------------------------------------------------------------

Read(event) ==
  /\ status = "reading"
  /\ Len(trace) < MaxEvents
  /\ trace' = Append(trace, event)

Panic ==
  /\ status' = "panicked"
  /\ UNCHANGED <<spans, call_stack, named_spans>>

(* Mutant of ReadGasCharge: every open call is charged. *)
ReadGasChargeAllCalls(name, milli) ==
  /\ Read([kind |-> "charge", name |-> name, milli |-> milli])
  /\ spans' = [k \in DOMAIN spans |->
                 IF k \in OpenCalls \cup OpenNamed
                 THEN AddSelfGas(spans[k], name, milli) ELSE spans[k]]
  /\ UNCHANGED <<call_stack, named_spans, status>>

(* GasCharge: to the innermost call and to every open named span.          *)
ReadGasCharge(name, milli) ==
  /\ Read([kind |-> "charge", name |-> name, milli |-> milli])
  /\ spans' = [k \in DOMAIN spans |->
                 IF k = Last(call_stack) \/ k \in OpenNamed
                 THEN AddSelfGas(spans[k], name, milli) ELSE spans[k]]
  /\ UNCHANGED <<call_stack, named_spans, status>>

(* Mutant of ReadCall: pushes an index that is one too large. *)
ReadCallPastEnd ==
  /\ Read([kind |-> "call"])
  /\ spans' = Append(spans, NewSpan)
  /\ call_stack' = Append(call_stack, Len(spans') + 1)
  /\ UNCHANGED <<named_spans, status>>

(* Call *)
ReadCall ==
  /\ Read([kind |-> "call"])
  /\ spans' = Append(spans, NewSpan)
  /\ call_stack' = Append(call_stack, Len(spans'))
  /\ UNCHANGED <<named_spans, status>>

(* CallReturn and CallError: the closed span's total goes to its parent.   *)
ReadCallReturn ==
  /\ Read([kind |-> "return"])
  /\ Len(call_stack) > 1
  /\ LET closed == AddSelfToTotalGas(spans[Last(call_stack)])
         parent == Last(Front(call_stack))
     IN spans' = [spans EXCEPT ![Last(call_stack)] = closed,
                               ![parent] = AddOtherToTotalGas(@, closed)]
  /\ call_stack' = Front(call_stack)
  /\ UNCHANGED <<named_spans, status>>

(* A return with no call open pops the root, and the unwrap of the empty   *)
(* stack's top panics.                                                     *)
ReadUnmatchedReturn ==
  /\ Read([kind |-> "return"])
  /\ Len(call_stack) = 1
  /\ Panic

(* Log "SpanStart:name" *)
ReadSpanStart(name) ==
  /\ Read([kind |-> "start", name |-> name])
  /\ spans' = Append(spans, NewSpan)
  /\ named_spans' = [named_spans EXCEPT ![name] = Append(@, Len(spans'))]
  /\ UNCHANGED <<call_stack, status>>

(* Mutant of ReadSpanEnd: closes the oldest span of the label. *)
ReadSpanEndOldest(name) ==
  /\ Read([kind |-> "end", name |-> name])
  /\ named_spans[name] # <<>>
  /\ spans' = [spans EXCEPT ![Head(named_spans[name])] = AddSelfToTotalGas(@)]
  /\ named_spans' = [named_spans EXCEPT ![name] = Tail(@)]
  /\ UNCHANGED <<call_stack, status>>

(* Log "SpanEnd:name": closes the youngest open span of that label.        *)
ReadSpanEnd(name) ==
  /\ Read([kind |-> "end", name |-> name])
  /\ named_spans[name] # <<>>
  /\ spans' = [spans EXCEPT ![Last(named_spans[name])] = AddSelfToTotalGas(@)]
  /\ named_spans' = [named_spans EXCEPT ![name] = Front(@)]
  /\ UNCHANGED <<call_stack, status>>

(* Either unwrap panics: of a label never seen, or of its empty list.      *)
ReadUnmatchedEnd(name) ==
  /\ Read([kind |-> "end", name |-> name])
  /\ named_spans[name] = <<>>
  /\ Panic

(* InvokeActor, and a log message of neither form.                         *)
ReadOther ==
  /\ Read([kind |-> "other"])
  /\ UNCHANGED <<spans, call_stack, named_spans, status>>

(* Mutant of Finish: without the assertion. *)
FinishUnchecked ==
  /\ status = "reading"
  /\ spans' = [spans EXCEPT ![Last(call_stack)] = AddSelfToTotalGas(@)]
  /\ call_stack' = Front(call_stack)
  /\ status' = "done"
  /\ UNCHANGED <<named_spans, trace>>

(* The end of the trace: only the root may be left on the stack.  Named    *)
(* spans still open stay as they are.                                      *)
Finish ==
  /\ status = "reading"
  /\ Len(call_stack) = 1
  /\ spans' = [spans EXCEPT ![Last(call_stack)] = AddSelfToTotalGas(@)]
  /\ call_stack' = Front(call_stack)
  /\ status' = "done"
  /\ UNCHANGED <<named_spans, trace>>

FinishWithOpenCalls ==
  /\ status = "reading"
  /\ Len(call_stack) > 1
  /\ Panic
  /\ UNCHANGED trace

AnalysisNext ==
  \/ \E name \in GasNames, milli \in Amounts : ReadGasCharge(name, milli)
  \/ ReadCall
  \/ ReadCallReturn \/ ReadUnmatchedReturn
  \/ \E name \in SpanNames :
       ReadSpanStart(name) \/ ReadSpanEnd(name) \/ ReadUnmatchedEnd(name)
  \/ ReadOther
  \/ Finish \/ FinishWithOpenCalls

AnalysisSpec == AnalysisInit /\ [][AnalysisNext]_analysisVars

-----------------------------------------------------------------------------
(* Properties.                                                             *)

(* Types of the analysis, all indices valid, and some call always open, if *)
(* only the root, so that the unwraps of the stack's top (analysis.rs:40,  *)
(* 55) succeed.                                                            *)
AnalysisTypeOK ==
  /\ spans \in Seq(Span)
  /\ call_stack \in Seq(Nat)
  /\ named_spans \in [SpanNames -> Seq(Nat)]
  /\ OpenCalls \cup OpenNamed \subseteq DOMAIN spans
  /\ status \in {"reading", "done", "panicked"}
  /\ trace \in Seq(Event)
  /\ status = "reading" => call_stack # <<>>

=============================================================================
