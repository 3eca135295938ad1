------------------------- MODULE MessageTraceProofs -------------------------
(* Theorems about MessageTrace, for traces of any length. *)
EXTENDS MessageTrace, SequenceTheorems, FiniteSetTheorems, TLAPS

(* What was proved of each reader alone.                                   *)
AnalysisProofs == INSTANCE TraceAnalysisProofs WITH status <- analysis_status
ConversionProofs == INSTANCE InvocationTraceProofs WITH status <- conversion_status

-----------------------------------------------------------------------------
(* Each reader reads as it would alone.                                    *)

LEMMA ReadersInit == TraceInit => Analysis!AnalysisInit /\ Conversion!InvocationInit
  BY DEF TraceInit

LEMMA ReadersKept ==
  UNCHANGED readerVars =>
    UNCHANGED Analysis!analysisVars /\ UNCHANGED Conversion!invocationVars
  BY DEF readerVars, analysisVars, conversionVars, Analysis!analysisVars,
    Conversion!invocationVars

LEMMA EventRead ==
  /\ \A name \in GasNames, milli \in Amounts :
       GasCharge(name, milli) => Analysed(Analysis!AnalysisNext) /\ Converted(Conversion!InvocationNext)
  /\ Call => Analysed(Analysis!AnalysisNext) /\ Converted(Conversion!InvocationNext)
  /\ \A code \in ExitCodes :
       CallReturn(code) => Analysed(Analysis!AnalysisNext) /\ Converted(Conversion!InvocationNext)
  /\ \A errno \in ErrorNumbers :
       CallError(errno) => Analysed(Analysis!AnalysisNext) /\ Converted(Conversion!InvocationNext)
  /\ InvokeActor => Analysed(Analysis!AnalysisNext) /\ Converted(Conversion!InvocationNext)
  /\ \A name \in SpanNames :
       SpanLog(name) => Analysed(Analysis!AnalysisNext) /\ Converted(Conversion!InvocationNext)
  /\ EndOfTrace => Analysed(Analysis!AnalysisNext) /\ Converted(Conversion!InvocationNext)
  BY DEF GasCharge, Call, CallReturn, CallError, EndOfCall, InvokeActor, SpanLog, EndOfTrace,
    Analysed, Converted, Analysis!AnalysisNext, Conversion!InvocationNext

LEMMA ReadersStep ==
  ASSUME [TraceNext]_vars
  PROVE  /\ [Analysis!AnalysisNext]_(Analysis!analysisVars)
         /\ [Conversion!InvocationNext]_(Conversion!invocationVars)
<1>1. Analysed(Analysis!AnalysisNext) => [Analysis!AnalysisNext]_(Analysis!analysisVars)
  BY DEF Analysed, analysisVars, Analysis!analysisVars
<1>2. Converted(Conversion!InvocationNext)
        => [Conversion!InvocationNext]_(Conversion!invocationVars)
  BY DEF Converted, conversionVars, Conversion!invocationVars
<1>3. UNCHANGED readerVars
        \/ (Analysed(Analysis!AnalysisNext) /\ Converted(Conversion!InvocationNext))
  BY EventRead DEF TraceNext, BenchEvent, RunUntraced, TraceAsTrace, CallerEvent, vars
<1> QED
  BY <1>1, <1>2, <1>3, ReadersKept

(* The two readers of one trace do not disturb each other, and neither     *)
(* does the panic of one the other.                                        *)
THEOREM ReadersIndependent ==
  TraceSpec => Analysis!AnalysisSpec /\ Conversion!InvocationSpec
<1>1. [TraceNext]_vars => /\ [Analysis!AnalysisNext]_(Analysis!analysisVars)
                          /\ [Conversion!InvocationNext]_(Conversion!invocationVars)
  BY ReadersStep
<1> QED
  BY <1>1, ReadersInit, PTL DEF TraceSpec, Analysis!AnalysisSpec, Conversion!InvocationSpec

LEMMA AnalysisSame ==
  /\ Analysis!AnalysisInit <=> AnalysisProofs!AnalysisInit
  /\ [Analysis!AnalysisNext]_(Analysis!analysisVars)
       <=> [AnalysisProofs!AnalysisNext]_(AnalysisProofs!analysisVars)
  /\ Analysis!AnalysisTypeOK <=> AnalysisProofs!AnalysisTypeOK
<1>1. Analysis!AnalysisInit <=> AnalysisProofs!AnalysisInit
  BY DEF Analysis!AnalysisInit, AnalysisProofs!AnalysisInit, Analysis!NewSpan,
    AnalysisProofs!NewSpan, Analysis!NoGas, AnalysisProofs!NoGas
<1>2. ASSUME NEW name, NEW milli
      PROVE  /\ Analysis!ReadGasCharge(name, milli) <=> AnalysisProofs!ReadGasCharge(name, milli)
  BY DEF Analysis!Last, AnalysisProofs!Last, Analysis!ToSet, AnalysisProofs!ToSet,
    Analysis!ReadGasCharge, AnalysisProofs!ReadGasCharge, Analysis!Read,
    AnalysisProofs!Read, Analysis!OpenCalls, AnalysisProofs!OpenCalls, Analysis!OpenNamed,
    AnalysisProofs!OpenNamed, Analysis!AddSelfGas, AnalysisProofs!AddSelfGas,
    Analysis!Charged, AnalysisProofs!Charged
<1>3. /\ Analysis!ReadCall <=> AnalysisProofs!ReadCall
      /\ Analysis!ReadOther <=> AnalysisProofs!ReadOther
      /\ Analysis!FinishWithOpenCalls <=> AnalysisProofs!FinishWithOpenCalls
      /\ Analysis!ReadUnmatchedReturn <=> AnalysisProofs!ReadUnmatchedReturn
  BY DEF Analysis!ReadCall, AnalysisProofs!ReadCall, Analysis!ReadOther,
    AnalysisProofs!ReadOther, Analysis!FinishWithOpenCalls,
    AnalysisProofs!FinishWithOpenCalls, Analysis!ReadUnmatchedReturn,
    AnalysisProofs!ReadUnmatchedReturn, Analysis!Read, AnalysisProofs!Read, Analysis!Panic,
    AnalysisProofs!Panic, Analysis!NewSpan, AnalysisProofs!NewSpan, Analysis!NoGas,
    AnalysisProofs!NoGas
<1>4. /\ Analysis!ReadCallReturn <=> AnalysisProofs!ReadCallReturn
      /\ Analysis!Finish <=> AnalysisProofs!Finish
  BY DEF Analysis!Last, AnalysisProofs!Last, Analysis!Front, AnalysisProofs!Front,
    Analysis!ReadCallReturn, AnalysisProofs!ReadCallReturn, Analysis!Finish,
    AnalysisProofs!Finish, Analysis!Read, AnalysisProofs!Read, Analysis!AddSelfToTotalGas,
    AnalysisProofs!AddSelfToTotalGas, Analysis!AddOtherToTotalGas,
    AnalysisProofs!AddOtherToTotalGas, Analysis!Merged, AnalysisProofs!Merged
<1>5. ASSUME NEW name
      PROVE  /\ Analysis!ReadSpanStart(name) <=> AnalysisProofs!ReadSpanStart(name)
             /\ Analysis!ReadSpanEnd(name) <=> AnalysisProofs!ReadSpanEnd(name)
             /\ Analysis!ReadUnmatchedEnd(name) <=> AnalysisProofs!ReadUnmatchedEnd(name)
  BY DEF Analysis!Last, AnalysisProofs!Last, Analysis!Front, AnalysisProofs!Front,
    Analysis!ReadSpanStart, AnalysisProofs!ReadSpanStart, Analysis!ReadSpanEnd,
    AnalysisProofs!ReadSpanEnd, Analysis!ReadUnmatchedEnd, AnalysisProofs!ReadUnmatchedEnd,
    Analysis!Read, AnalysisProofs!Read, Analysis!Panic, AnalysisProofs!Panic,
    Analysis!NewSpan, AnalysisProofs!NewSpan, Analysis!NoGas, AnalysisProofs!NoGas,
    Analysis!AddSelfToTotalGas, AnalysisProofs!AddSelfToTotalGas, Analysis!Merged,
    AnalysisProofs!Merged
<1>6. [Analysis!AnalysisNext]_(Analysis!analysisVars) <=> [AnalysisProofs!AnalysisNext]_(AnalysisProofs!analysisVars)
  BY <1>2, <1>3, <1>4, <1>5
  DEF Analysis!AnalysisNext, AnalysisProofs!AnalysisNext, Analysis!analysisVars,
    AnalysisProofs!analysisVars
<1>7. Analysis!AnalysisTypeOK <=> AnalysisProofs!AnalysisTypeOK
  BY DEF Analysis!ToSet, AnalysisProofs!ToSet, Analysis!AnalysisTypeOK,
    AnalysisProofs!AnalysisTypeOK, Analysis!Event, AnalysisProofs!Event, Analysis!Gas,
    AnalysisProofs!Gas, Analysis!Span, AnalysisProofs!Span, Analysis!OpenCalls,
    AnalysisProofs!OpenCalls, Analysis!OpenNamed, AnalysisProofs!OpenNamed
<1> QED
  BY <1>1, <1>6, <1>7

LEMMA ConversionSame ==
  /\ Conversion!InvocationInit <=> ConversionProofs!InvocationInit
  /\ [Conversion!InvocationNext]_(Conversion!invocationVars)
       <=> [ConversionProofs!InvocationNext]_(ConversionProofs!invocationVars)
  /\ Conversion!InvocationTypeOK <=> ConversionProofs!InvocationTypeOK
<1>1. Conversion!InvocationInit <=> ConversionProofs!InvocationInit
  BY DEF Conversion!InvocationInit, ConversionProofs!InvocationInit
<1>2. /\ Conversion!ReadCall <=> ConversionProofs!ReadCall
      /\ Conversion!ReadOther <=> ConversionProofs!ReadOther
      /\ Conversion!Finish <=> ConversionProofs!Finish
  BY DEF Conversion!ReadCall, ConversionProofs!ReadCall, Conversion!ReadOther,
    ConversionProofs!ReadOther, Conversion!Finish, ConversionProofs!Finish, Conversion!Read,
    ConversionProofs!Read, Conversion!Panic, ConversionProofs!Panic,
    Conversion!NewInvocation, ConversionProofs!NewInvocation
<1>3. ASSUME NEW code
      PROVE  /\ Conversion!End(code) <=> ConversionProofs!End(code)
  BY DEF Conversion!Last, ConversionProofs!Last, Conversion!Front, ConversionProofs!Front,
    Conversion!End, ConversionProofs!End, Conversion!EndInner, ConversionProofs!EndInner,
    Conversion!EndRoot, ConversionProofs!EndRoot, Conversion!EndUnexpected,
    ConversionProofs!EndUnexpected, Conversion!Closed, ConversionProofs!Closed,
    Conversion!Panic, ConversionProofs!Panic
<1>4. ASSUME NEW event
      PROVE  /\ Conversion!Read(event) <=> ConversionProofs!Read(event)
  BY DEF Conversion!Read, ConversionProofs!Read
<1>5. [Conversion!InvocationNext]_(Conversion!invocationVars) <=> [ConversionProofs!InvocationNext]_(ConversionProofs!invocationVars)
  BY <1>2, <1>3, <1>4
  DEF Conversion!InvocationNext, ConversionProofs!InvocationNext, Conversion!invocationVars,
    ConversionProofs!invocationVars, Conversion!ReadCallReturn,
    ConversionProofs!ReadCallReturn, Conversion!ReadCallError,
    ConversionProofs!ReadCallError, Conversion!Returned, ConversionProofs!Returned,
    Conversion!Failed, ConversionProofs!Failed
<1>6. Conversion!InvocationTypeOK <=> ConversionProofs!InvocationTypeOK
  BY DEF Conversion!InvocationTypeOK, ConversionProofs!InvocationTypeOK, Conversion!Event,
    ConversionProofs!Event, Conversion!Invocation, ConversionProofs!Invocation,
    Conversion!Returned, ConversionProofs!Returned, Conversion!Failed,
    ConversionProofs!Failed
<1> QED
  BY <1>1, <1>5, <1>6

LEMMA AnalysisTyped == Analysis!AnalysisSpec => []Analysis!AnalysisTypeOK
<1>1. AnalysisProofs!AmountAssumption /\ AnalysisProofs!EventBoundAssumption
  BY TraceAssumption
  DEF Analysis!AmountAssumption, Analysis!EventBoundAssumption,
    AnalysisProofs!AmountAssumption, AnalysisProofs!EventBoundAssumption
<1>2. AnalysisProofs!AnalysisSpec => []AnalysisProofs!AnalysisTypeOK
  BY <1>1, AnalysisProofs!AnalysisTypeCorrect
<1>3. Analysis!AnalysisInit => AnalysisProofs!AnalysisInit
  BY AnalysisSame
<1>4. [Analysis!AnalysisNext]_(Analysis!analysisVars)
        => [AnalysisProofs!AnalysisNext]_(AnalysisProofs!analysisVars)
  BY AnalysisSame
<1>5. AnalysisProofs!AnalysisTypeOK => Analysis!AnalysisTypeOK
  BY AnalysisSame
<1> QED
  BY <1>2, <1>3, <1>4, <1>5, PTL DEF Analysis!AnalysisSpec, AnalysisProofs!AnalysisSpec

LEMMA ConversionTyped == Conversion!InvocationSpec => []Conversion!InvocationTypeOK
<1>1. ConversionProofs!ExitCodeAssumption /\ ConversionProofs!EventBoundAssumption
  BY TraceAssumption
  DEF Conversion!ExitCodeAssumption, Analysis!EventBoundAssumption,
    ConversionProofs!ExitCodeAssumption, ConversionProofs!EventBoundAssumption
<1>2. ConversionProofs!InvocationSpec => []ConversionProofs!InvocationTypeOK
  BY <1>1, ConversionProofs!InvocationTypeCorrect
<1>3. Conversion!InvocationInit => ConversionProofs!InvocationInit
  BY ConversionSame
<1>4. [Conversion!InvocationNext]_(Conversion!invocationVars)
        => [ConversionProofs!InvocationNext]_(ConversionProofs!invocationVars)
  BY ConversionSame
<1>5. ConversionProofs!InvocationTypeOK => Conversion!InvocationTypeOK
  BY ConversionSame
<1> QED
  BY <1>2, <1>3, <1>4, <1>5, PTL DEF Conversion!InvocationSpec, ConversionProofs!InvocationSpec

-----------------------------------------------------------------------------
(* The invariant.                                                          *)

Typed == Analysis!AnalysisTypeOK /\ Conversion!InvocationTypeOK

(* StacksAgree, element by element, with a span for each invocation.       *)
StacksInv ==
  BothReading =>
    /\ call_spans \in Seq(Nat) /\ Len(call_spans) = Len(invocations)
    /\ Len(call_stack) = Len(invocation_stack) + 1
    /\ call_stack[1] = 1
    /\ \A d \in 1..Len(invocation_stack) :
         call_stack[d + 1] = call_spans[invocation_stack[d]]

(* The readers of a trace of the bench are at the depth at which the FVM   *)
(* is, and have not met an event that they refuse.                         *)
BenchInv ==
  /\ source = "bench" /\ phase = "open" =>
       /\ BothReading /\ ran \in BOOLEAN /\ depth = Len(invocation_stack)
       /\ root_invocation # None <=> ran /\ tracing /\ depth = 0
       /\ ~ran \/ ~tracing => depth = 0
  /\ ConvertsWhatRan

LEMMA SameLength ==
  ASSUME NEW m \in Nat, NEW n \in Nat, 1..m = 1..n
  PROVE  m = n
<1>1. m <= n
  <2>1. m = 0 \/ m \in 1..m
    OBVIOUS
  <2> QED
    BY <2>1
<1>2. n <= m
  <2>1. n = 0 \/ n \in 1..n
    OBVIOUS
  <2> QED
    BY <2>1
<1> QED
  BY <1>1, <1>2

LEMMA AllButLast ==
  ASSUME NEW S, NEW s \in Seq(S), Len(s) >= 1
  PROVE  LET front == SubSeq(s, 1, Len(s) - 1)
         IN /\ front \in Seq(S) /\ Len(front) = Len(s) - 1
            /\ \A p \in 1..(Len(s) - 1) : front[p] = s[p]
            /\ s[Len(s)] \in S
<1>1. Len(s) \in Nat /\ \A i \in 1..Len(s) : s[i] \in S
  BY LenProperties, ElementOfSeq
<1>2. Len(s) - 1 \in Int /\ \A i \in 1..(Len(s) - 1) : s[i] \in S
  BY <1>1
<1>3. /\ SubSeq(s, 1, Len(s) - 1) \in Seq(S)
      /\ Len(SubSeq(s, 1, Len(s) - 1)) = Len(s) - 1
      /\ \A p \in 1..(Len(s) - 1) : SubSeq(s, 1, Len(s) - 1)[p] = s[p]
  <2>1. ASSUME NEW n \in Nat, \A i \in 1..n : s[i] \in S
        PROVE  /\ SubSeq(s, 1, n) \in Seq(S) /\ Len(SubSeq(s, 1, n)) = n
               /\ \A p \in 1..n : SubSeq(s, 1, n)[p] = s[p]
    <3>1. /\ SubSeq(s, 1, n) \in Seq(S)
          /\ Len(SubSeq(s, 1, n)) = IF 1 <= n THEN n - 1 + 1 ELSE 0
          /\ \A p \in 1..(n - 1 + 1) : SubSeq(s, 1, n)[p] = s[1 + p - 1]
      BY <2>1, SubSeqProperties
    <3> QED
      BY <3>1
  <2>2. Len(s) - 1 \in Nat
    BY <1>1
  <2> QED
    BY <1>2, <2>1, <2>2
<1> QED
  BY <1>1, <1>3

LEMMA AnalysisFront ==
  ASSUME NEW S, NEW s \in Seq(S), Len(s) >= 1
  PROVE  /\ Len(Analysis!Front(s)) = Len(s) - 1
         /\ \A p \in 1..(Len(s) - 1) : Analysis!Front(s)[p] = s[p]
  BY AllButLast DEF Analysis!Front

LEMMA ConversionFront ==
  ASSUME NEW S, NEW s \in Seq(S), Len(s) >= 1
  PROVE  /\ Len(Conversion!Front(s)) = Len(s) - 1
         /\ \A p \in 1..(Len(s) - 1) : Conversion!Front(s)[p] = s[p]
         /\ Conversion!Last(s) \in S
  BY AllButLast DEF Conversion!Front, Conversion!Last

LEMMA TypedFacts ==
  ASSUME Typed
  PROVE  /\ call_stack \in Seq(Nat) /\ invocation_stack \in Seq(DOMAIN invocations)
         /\ Len(call_stack) \in Nat /\ Len(invocation_stack) \in Nat
         /\ Len(spans) \in Nat /\ Len(invocations) \in Nat
         /\ DOMAIN invocations = 1..Len(invocations)
         /\ \A d \in 1..Len(invocation_stack) : invocation_stack[d] \in DOMAIN invocations
<1>1. /\ call_stack \in Seq(Nat) /\ invocation_stack \in Seq(DOMAIN invocations)
      /\ spans \in Seq(Analysis!Span) /\ invocations \in Seq(Conversion!Invocation)
  BY DEF Typed, Analysis!AnalysisTypeOK, Conversion!InvocationTypeOK
<1> QED
  BY <1>1, LenProperties, ElementOfSeq

(* A call ends for both readers.                                           *)
LEMMA InvocationEnds ==
  ASSUME Typed, Typed', conversion_status = "reading", NEW code, Conversion!End(code),
         conversion_status' = "reading"
  PROVE  /\ Len(invocation_stack) >= 1 /\ Len(invocation_stack') = Len(invocation_stack) - 1
         /\ \A d \in 1..Len(invocation_stack') : invocation_stack'[d] = invocation_stack[d]
         /\ Len(invocations') = Len(invocations)
         /\ Len(invocation_stack) = 1 => root_invocation' # None
         /\ Len(invocation_stack) > 1 => root_invocation' = root_invocation
<1>1. CASE Conversion!EndInner(code)
  <2>1. DOMAIN invocations' = DOMAIN invocations
    BY <1>1 DEF Conversion!EndInner, Conversion!Closed
  <2>2. Len(invocation_stack) > 1 /\ invocation_stack' = Conversion!Front(invocation_stack)
    BY <1>1 DEF Conversion!EndInner
  <2>3. Len(invocations') \in Nat /\ DOMAIN invocations' = 1..Len(invocations')
    BY TypedFacts
  <2>4. invocation_stack \in Seq(DOMAIN invocations) /\ Len(invocation_stack) >= 1
        /\ Len(invocation_stack) \in Nat /\ Len(invocations) \in Nat
        /\ DOMAIN invocations = 1..Len(invocations)
    BY <2>2, TypedFacts
  <2>5. /\ Len(invocation_stack') = Len(invocation_stack) - 1
        /\ \A d \in 1..(Len(invocation_stack) - 1) : invocation_stack'[d] = invocation_stack[d]
    BY <2>2, <2>4, ConversionFront
  <2>6. root_invocation' = root_invocation
    BY <1>1 DEF Conversion!EndInner
  <2>7. Len(invocations') = Len(invocations)
    BY <2>1, <2>3, <2>4, SameLength
  <2> QED
    BY <2>2, <2>4, <2>5, <2>6, <2>7
<1>2. CASE Conversion!EndRoot(code)
  <2>1. DOMAIN invocations' = DOMAIN invocations
    BY <1>2 DEF Conversion!EndRoot, Conversion!Closed
  <2>2. Len(invocation_stack) = 1 /\ invocation_stack' = Conversion!Front(invocation_stack)
    BY <1>2 DEF Conversion!EndRoot
  <2>3. Len(invocations') \in Nat /\ DOMAIN invocations' = 1..Len(invocations')
    BY TypedFacts
  <2>0. invocation_stack \in Seq(DOMAIN invocations) /\ Len(invocation_stack) >= 1
        /\ Len(invocations) \in Nat /\ DOMAIN invocations = 1..Len(invocations)
    BY <2>2, TypedFacts
  <2>4. Len(invocation_stack') = 0
    <3>1. Len(invocation_stack') = Len(invocation_stack) - 1
      BY <2>0, <2>2, ConversionFront
    <3> QED
      BY <2>2, <3>1
  <2>5. root_invocation' \in DOMAIN invocations
    BY <1>2, <2>0, ConversionFront DEF Conversion!EndRoot
  <2>6. root_invocation' # None
    BY <2>5, TypedFacts, TraceAssumption DEF Conversion!ExitCodeAssumption
  <2> QED
    BY <2>1, <2>2, <2>3, <2>4, <2>6, TypedFacts
<1>3. ~Conversion!EndUnexpected
  BY DEF Conversion!EndUnexpected, Conversion!Panic
<1> QED
  BY <1>1, <1>2, <1>3 DEF Conversion!End

LEMMA SpanEnds ==
  ASSUME Typed, Analysis!ReadCallReturn \/ Analysis!ReadUnmatchedReturn,
         analysis_status' = "reading"
  PROVE  /\ Len(call_stack) > 1 /\ Len(call_stack') = Len(call_stack) - 1
         /\ \A d \in 1..Len(call_stack') : call_stack'[d] = call_stack[d]
<1>1. Analysis!ReadCallReturn
  BY DEF Analysis!ReadUnmatchedReturn, Analysis!Panic
<1>2. Len(call_stack) > 1 /\ call_stack' = Analysis!Front(call_stack)
  BY <1>1 DEF Analysis!ReadCallReturn
<1>3. call_stack \in Seq(Nat) /\ Len(call_stack) \in Nat /\ Len(call_stack) >= 1
  BY <1>2, TypedFacts
<1>4. /\ Len(call_stack') = Len(call_stack) - 1
      /\ \A d \in 1..(Len(call_stack) - 1) : call_stack'[d] = call_stack[d]
  BY <1>2, <1>3, AnalysisFront
<1> QED
  BY <1>2, <1>3, <1>4

(* Who reads on has read before.                                           *)
LEMMA ReadsOn ==
  ASSUME NEW first, NEW second, Analysed(first), Converted(second), BothReading'
  PROVE  BothReading /\ first /\ second
  BY DEF Analysed, Converted, BothReading, analysisVars, conversionVars

LEMMA StacksKept ==
  ASSUME StacksInv, BothReading' => BothReading /\ UNCHANGED <<call_stack, invocations, invocation_stack, call_spans>>
  PROVE  StacksInv'
  BY DEF StacksInv, BothReading

(* Both push.                                                              *)
LEMMA CallStacks ==
  ASSUME Typed, Typed', StacksInv, Call
  PROVE  StacksInv'
<1> SUFFICES ASSUME BothReading'
             PROVE  /\ call_spans' \in Seq(Nat) /\ Len(call_spans') = Len(invocations')
                    /\ Len(call_stack') = Len(invocation_stack') + 1
                    /\ call_stack'[1] = 1
                    /\ \A d \in 1..Len(invocation_stack') :
                         call_stack'[d + 1] = call_spans'[invocation_stack'[d]]
  BY DEF StacksInv
<1>1. BothReading /\ Analysis!ReadCall /\ Conversion!ReadCall
  BY ReadsOn DEF Call
<1>2. /\ call_spans \in Seq(Nat) /\ Len(call_spans) = Len(invocations)
      /\ Len(call_stack) = Len(invocation_stack) + 1 /\ call_stack[1] = 1
      /\ \A d \in 1..Len(invocation_stack) : call_stack[d + 1] = call_spans[invocation_stack[d]]
  BY <1>1 DEF StacksInv
<1>3. /\ call_stack \in Seq(Nat) /\ Len(call_stack) \in Nat
      /\ invocation_stack \in Seq(DOMAIN invocations) /\ Len(invocation_stack) \in Nat
      /\ Len(invocations) \in Nat /\ DOMAIN invocations = 1..Len(invocations)
      /\ \A d \in 1..Len(invocation_stack) : invocation_stack[d] \in 1..Len(invocations)
  BY TypedFacts
<1>4. Len(spans') \in Nat
  BY TypedFacts
<1>5. invocations \in Seq(Conversion!Invocation) /\ Conversion!NewInvocation \in Conversion!Invocation
  BY TraceAssumption DEF Typed, Conversion!InvocationTypeOK, Conversion!ExitCodeAssumption,
    Conversion!NewInvocation, Conversion!Invocation
<1>6. invocations' = Append(invocations, Conversion!NewInvocation)
  BY <1>1 DEF Conversion!ReadCall
<1> DEFINE new == Len(invocations) + 1
<1>7. Len(invocations') = new
  BY <1>5, <1>6
<1>8. invocation_stack' = Append(invocation_stack, new)
  BY <1>1, <1>7 DEF Conversion!ReadCall
<1>9. call_stack' = Append(call_stack, Len(spans'))
  BY <1>1 DEF Analysis!ReadCall
<1>10. call_spans' = Append(call_spans, Len(spans'))
  BY <1>1 DEF Call, BothReading
<1>11. /\ call_spans' \in Seq(Nat) /\ Len(call_spans') = new
       /\ \A k \in 1..Len(invocations) : call_spans'[k] = call_spans[k]
       /\ call_spans'[new] = Len(spans')
  BY <1>2, <1>3, <1>4, <1>10
<1>12. /\ Len(call_stack') = Len(call_stack) + 1
       /\ \A d \in 1..Len(call_stack) : call_stack'[d] = call_stack[d]
       /\ call_stack'[Len(call_stack) + 1] = Len(spans')
  BY <1>3, <1>4, <1>9
<1>13. /\ Len(invocation_stack') = Len(invocation_stack) + 1
       /\ \A d \in 1..Len(invocation_stack) : invocation_stack'[d] = invocation_stack[d]
       /\ invocation_stack'[Len(invocation_stack) + 1] = new
  <2>1. invocation_stack \in Seq(Nat) /\ new \in Nat
    BY <1>3, SeqMonotonic
  <2> QED
    BY <1>3, <1>8, <2>1
<1> HIDE DEF new
<1>14. ASSUME NEW d \in 1..Len(invocation_stack')
       PROVE  call_stack'[d + 1] = call_spans'[invocation_stack'[d]]
  <2>1. CASE d = Len(invocation_stack) + 1
    BY <1>2, <1>3, <1>11, <1>12, <1>13, <2>1
  <2>2. CASE d \in 1..Len(invocation_stack)
    <3>1. d + 1 \in 1..Len(call_stack) /\ invocation_stack[d] \in 1..Len(invocations)
      BY <1>2, <1>3, <2>2
    <3> QED
      BY <1>2, <1>11, <1>12, <1>13, <2>2, <3>1
  <2> QED
    BY <1>3, <1>13, <2>1, <2>2
<1> QED
  BY <1>2, <1>3, <1>7, <1>11, <1>12, <1>13, <1>14

(* Both pop.                                                               *)
LEMMA EndStacks ==
  ASSUME Typed, Typed', StacksInv, NEW code, NEW converted, EndOfCall(converted),
         converted => Conversion!End(code)
  PROVE  StacksInv'
<1> SUFFICES ASSUME BothReading'
             PROVE  /\ call_spans' \in Seq(Nat) /\ Len(call_spans') = Len(invocations')
                    /\ Len(call_stack') = Len(invocation_stack') + 1
                    /\ call_stack'[1] = 1
                    /\ \A d \in 1..Len(invocation_stack') :
                         call_stack'[d + 1] = call_spans'[invocation_stack'[d]]
  BY DEF StacksInv
<1>1. /\ BothReading /\ Conversion!End(code)
      /\ Analysis!ReadCallReturn \/ Analysis!ReadUnmatchedReturn
  BY DEF EndOfCall, Analysed, Converted, BothReading, analysisVars, conversionVars
<1>2. /\ call_spans \in Seq(Nat) /\ Len(call_spans) = Len(invocations)
      /\ Len(call_stack) = Len(invocation_stack) + 1 /\ call_stack[1] = 1
      /\ \A d \in 1..Len(invocation_stack) : call_stack[d + 1] = call_spans[invocation_stack[d]]
  BY <1>1 DEF StacksInv
<1>3. Len(invocation_stack) \in Nat
  BY TypedFacts
<1>4. /\ Len(invocation_stack) >= 1 /\ Len(invocation_stack') = Len(invocation_stack) - 1
      /\ \A d \in 1..Len(invocation_stack') : invocation_stack'[d] = invocation_stack[d]
      /\ Len(invocations') = Len(invocations)
  BY <1>1, InvocationEnds DEF BothReading
<1>5. /\ Len(call_stack) > 1 /\ Len(call_stack') = Len(call_stack) - 1
      /\ \A d \in 1..Len(call_stack') : call_stack'[d] = call_stack[d]
  BY <1>1, SpanEnds DEF BothReading
<1>6. call_spans' = call_spans
  BY DEF EndOfCall
<1>7. ASSUME NEW d \in 1..Len(invocation_stack')
      PROVE  call_stack'[d + 1] = call_spans'[invocation_stack'[d]]
  <2>1. d \in 1..Len(invocation_stack) /\ d + 1 \in 1..Len(call_stack')
    BY <1>2, <1>3, <1>4, <1>5
  <2> QED
    BY <1>2, <1>4, <1>5, <1>6, <2>1
<1> QED
  BY <1>2, <1>3, <1>4, <1>5, <1>6, <1>7

LEMMA ReturnEnds ==
  /\ \A code : Conversion!ReadCallReturn(code) => Conversion!End(code)
  /\ \A errno : Conversion!ReadCallError(errno) => Conversion!End(SysAssertionFailed)
  BY DEF Conversion!ReadCallReturn, Conversion!ReadCallError

LEMMA StacksStep ==
  ASSUME Typed, Typed', StacksInv, [TraceNext]_vars
  PROVE  StacksInv'
<1>1. CASE UNCHANGED readerVars
  BY <1>1, StacksKept DEF readerVars, analysisVars, conversionVars, BothReading
<1>2. ASSUME NEW name \in GasNames, NEW milli \in Amounts, GasCharge(name, milli)
      PROVE  StacksInv'
  BY <1>2, StacksKept, ReadsOn DEF GasCharge, Analysis!ReadGasCharge, Conversion!ReadOther
<1>3. ASSUME Call PROVE StacksInv'
  BY <1>3, CallStacks
<1>4. ASSUME NEW code \in ExitCodes, CallReturn(code) PROVE StacksInv'
  BY <1>4, EndStacks, ReturnEnds DEF CallReturn
<1>5. ASSUME NEW errno \in ErrorNumbers, CallError(errno) PROVE StacksInv'
  BY <1>5, EndStacks, ReturnEnds DEF CallError
<1>6. ASSUME InvokeActor PROVE StacksInv'
  BY <1>6, StacksKept, ReadsOn DEF InvokeActor, Analysis!ReadOther, Conversion!ReadOther
<1>7. ASSUME NEW name \in SpanNames, SpanLog(name) PROVE StacksInv'
  BY <1>7, StacksKept, ReadsOn DEF SpanLog, Analysis!ReadSpanStart, Analysis!ReadSpanEnd,
    Analysis!ReadUnmatchedEnd, Analysis!Panic, Conversion!ReadOther
<1>8. ASSUME EndOfTrace PROVE StacksInv'
  <2>1. ~BothReading'
    BY <1>8, ReadsOn DEF EndOfTrace, BothReading, Conversion!Finish, Conversion!Panic
  <2> QED
    BY <2>1, StacksKept
<1> QED
  BY <1>1, <1>2, <1>3, <1>4, <1>5, <1>6, <1>7, <1>8
  DEF TraceNext, BenchEvent, RunUntraced, TraceAsTrace, CallerEvent, vars

(* A trace of the bench meets no refusal before its end.                   *)
LEMMA BenchReads ==
  ASSUME BenchInv, source = "bench", phase = "open"
  PROVE  /\ BothReading /\ ran \in BOOLEAN /\ depth = Len(invocation_stack)
         /\ root_invocation # None <=> ran /\ tracing /\ depth = 0
         /\ ~ran \/ ~tracing => depth = 0
  BY DEF BenchInv

LEMMA BenchEnds ==
  ASSUME Typed, Typed', StacksInv, BenchInv, source = "bench", phase = "open", depth > 0,
         NEW code, NEW converted, EndOfCall(converted),
         converted => Conversion!End(code), UNCHANGED <<source, tracing>>,
         depth' = depth - 1, ran' = ran
  PROVE  BenchInv'
<1>1. /\ BothReading /\ Len(call_stack) = depth + 1
      /\ depth = Len(invocation_stack) /\ depth \in Nat
  BY BenchReads, TypedFacts DEF StacksInv
<1>2. /\ Conversion!End(code)
      /\ Analysis!ReadCallReturn \/ Analysis!ReadUnmatchedReturn
  BY <1>1 DEF EndOfCall, Analysed, Converted, BothReading
<1>3. analysis_status' = "reading"
  <2>1. ~Analysis!ReadUnmatchedReturn
    BY <1>1 DEF Analysis!ReadUnmatchedReturn
  <2> QED
    BY <1>1, <1>2, <2>1 DEF Analysis!ReadCallReturn, BothReading
<1>4. conversion_status' = "reading"
  <2>1. invocation_stack # <<>>
    <3>1. invocation_stack \in Seq(DOMAIN invocations) /\ Len(invocation_stack) # 0
      BY <1>1, TypedFacts
    <3> QED
      BY <3>1, EmptySeq
  <2>2. root_invocation = None
    BY <1>1, BenchReads
  <2>3. ~Conversion!EndUnexpected
    BY <2>1, <2>2 DEF Conversion!EndUnexpected
  <2> QED
    BY <1>1, <1>2, <2>3 DEF Conversion!End, Conversion!EndInner, Conversion!EndRoot, BothReading
<1>5. /\ Len(invocation_stack') = depth - 1
      /\ depth = 1 => root_invocation' # None
      /\ depth > 1 => root_invocation' = root_invocation
  BY <1>1, <1>2, <1>4, InvocationEnds DEF BothReading
<1>6. ran /\ tracing
  BY BenchReads
<1>7. phase' = "open"
  BY DEF EndOfCall, Event
<1> QED
  BY <1>1, <1>3, <1>4, <1>5, <1>6, <1>7, BenchReads DEF BenchInv, BothReading, ConvertsWhatRan

LEMMA BenchCalls ==
  ASSUME Typed, Typed', BenchInv, source = "bench", phase = "open", Call,
         depth > 0 \/ ~ran, tracing, UNCHANGED <<source, tracing>>, depth' = depth + 1,
         ran' = TRUE
  PROVE  BenchInv'
<1>1. BothReading /\ depth = Len(invocation_stack) /\ depth \in Nat /\ root_invocation = None
  BY BenchReads, TypedFacts
<1>2. Analysis!ReadCall /\ Conversion!ReadCall /\ phase' = "open"
  BY <1>1 DEF Call, Event, Analysed, Converted, BothReading
<1>3. /\ BothReading' /\ root_invocation' = None
      /\ invocation_stack' = Append(invocation_stack, Len(invocations'))
  BY <1>1, <1>2 DEF BothReading, Analysis!ReadCall, Conversion!ReadCall
<1>4. Len(invocation_stack') = depth + 1
  <2>1. invocation_stack \in Seq(Nat)
    BY TypedFacts, SeqMonotonic
  <2>2. Len(invocations') \in Nat
    BY TypedFacts
  <2> QED
    BY <1>1, <1>3, <2>1, <2>2
<1> QED
  BY <1>1, <1>2, <1>3, <1>4 DEF BenchInv, ConvertsWhatRan

(* Events that are no calls.                                               *)
LEMMA BenchStays ==
  ASSUME BenchInv, source = "bench", phase = "open", UNCHANGED <<source, depth, tracing>>,
         ran' = ran, UNCHANGED <<phase, analysis_status, conversion_status>>,
         UNCHANGED <<invocation_stack, root_invocation>>
  PROVE  BenchInv'
  BY DEF BenchInv, BothReading, ConvertsWhatRan

LEMMA BenchEventStep ==
  ASSUME Typed, Typed', StacksInv, BenchInv, BenchEvent
  PROVE  BenchInv'
<1>1. PICK kind \in Kinds : FvmEmits(kind) /\ TraceAsTrace(kind)
  BY DEF BenchEvent
<1>2. /\ source = "bench" /\ phase = "open" /\ source' = source /\ ran \in BOOLEAN
      /\ tracing /\ tracing' = tracing
  BY <1>1, BenchReads DEF BenchEvent, FvmEmits
<1>3. BothReading /\ depth \in Nat
  BY <1>2, BenchReads, TypedFacts
<1>4. CASE kind = "charge"
  <2>1. PICK name \in GasNames, milli \in Amounts : GasCharge(name, milli)
    BY <1>1, <1>4 DEF TraceAsTrace
  <2>2. depth' = depth /\ ran' = ran
    BY <1>1, <1>2, <1>4 DEF FvmEmits
  <2>3. Analysis!ReadGasCharge(name, milli) /\ Conversion!ReadOther /\ phase' = phase
    BY <1>3, <2>1 DEF GasCharge, Event, Analysed, Converted, BothReading
  <2> QED
    BY <1>2, <2>2, <2>3, BenchStays DEF Analysis!ReadGasCharge, Conversion!ReadOther
<1>5. CASE kind = "call"
  <2>1. Call
    BY <1>1, <1>5 DEF TraceAsTrace
  <2>2. depth' = depth + 1 /\ ran' = TRUE /\ (depth > 0 \/ ~ran)
    BY <1>1, <1>2, <1>5 DEF FvmEmits
  <2> QED
    BY <1>2, <2>1, <2>2, BenchCalls
<1>6. CASE kind = "return"
  <2>1. PICK code \in ExitCodes : CallReturn(code)
    BY <1>1, <1>6 DEF TraceAsTrace
  <2>2. depth' = depth - 1 /\ ran' = ran /\ depth > 0
    BY <1>1, <1>2, <1>6 DEF FvmEmits
  <2> QED
    BY <1>2, <2>1, <2>2, BenchEnds, ReturnEnds DEF CallReturn
<1>7. CASE kind = "error"
  <2>1. PICK errno \in ErrorNumbers : CallError(errno)
    BY <1>1, <1>7 DEF TraceAsTrace
  <2>2. depth' = depth - 1 /\ ran' = ran /\ depth > 0
    BY <1>1, <1>2, <1>7 DEF FvmEmits
  <2> QED
    BY <1>2, <2>1, <2>2, BenchEnds, ReturnEnds DEF CallError
<1>8. CASE kind = "invoke"
  <2>1. InvokeActor
    BY <1>1, <1>8 DEF TraceAsTrace
  <2>2. depth' = depth /\ ran' = ran
    BY <1>1, <1>2, <1>8 DEF FvmEmits
  <2>3. Analysis!ReadOther /\ Conversion!ReadOther /\ phase' = phase
    BY <1>3, <2>1 DEF InvokeActor, Event, Analysed, Converted, BothReading
  <2> QED
    BY <1>2, <2>2, <2>3, BenchStays DEF Analysis!ReadOther, Conversion!ReadOther
<1>9. CASE kind = "unknown"
  BY <1>1, <1>9 DEF TraceAsTrace, BenchInv, ConvertsWhatRan
<1> QED
  BY <1>4, <1>5, <1>6, <1>7, <1>8, <1>9 DEF Kinds

LEMMA BenchEndStep ==
  ASSUME Typed, StacksInv, BenchInv, source = "bench" => depth = 0, EndOfTrace
  PROVE  BenchInv'
<1>1. phase = "open" /\ phase' = "ended" /\ UNCHANGED <<source, ran, tracing>>
  BY DEF EndOfTrace
<1>2. CASE source = "bench"
  <2>1. /\ BothReading /\ depth = 0 /\ Len(invocation_stack) = 0 /\ Len(call_stack) = 1
        /\ root_invocation # None <=> ran /\ tracing
    BY <1>1, <1>2, BenchReads DEF StacksInv
  <2>2. /\ Analysis!Finish \/ Analysis!FinishWithOpenCalls
        /\ Conversion!Finish
    BY <2>1 DEF EndOfTrace, Analysed, Converted, BothReading
  <2>3. analysis_status' = "done"
    BY <2>1, <2>2 DEF Analysis!Finish, Analysis!FinishWithOpenCalls
  <2>4. invocation_stack = <<>>
    <3>1. invocation_stack \in Seq(DOMAIN invocations)
      BY TypedFacts
    <3> QED
      BY <2>1, <3>1, EmptySeq
  <2>5. conversion_status' = IF ran /\ tracing THEN "done" ELSE "panicked"
    BY <2>1, <2>2, <2>4 DEF Conversion!Finish, Conversion!Panic
  <2> QED
    BY <1>1, <2>3, <2>5 DEF BenchInv, ConvertsWhatRan
<1>3. CASE source # "bench"
  BY <1>1, <1>3 DEF BenchInv, ConvertsWhatRan
<1> QED
  BY <1>2, <1>3

LEMMA BenchStep ==
  ASSUME Typed, Typed', StacksInv, BenchInv, [TraceNext]_vars
  PROVE  BenchInv'
<1>1. CASE UNCHANGED vars
  BY <1>1 DEF vars, readerVars, analysisVars, conversionVars, BenchInv, BothReading,
    ConvertsWhatRan
<1>2. CASE CallerEvent
  BY <1>2 DEF CallerEvent, BenchInv, ConvertsWhatRan
<1>3. CASE RunUntraced
  BY <1>3 DEF RunUntraced, readerVars, analysisVars, conversionVars, BenchInv, BothReading,
    ConvertsWhatRan
<1> QED
  BY <1>1, <1>2, <1>3, BenchEventStep, BenchEndStep DEF TraceNext

LEMMA StacksInit == TraceInit => StacksInv /\ BenchInv
<1> SUFFICES ASSUME TraceInit PROVE StacksInv /\ BenchInv
  OBVIOUS
<1>1. /\ call_stack = <<1>> /\ invocation_stack = <<>> /\ invocations = <<>>
      /\ call_spans = <<>> /\ root_invocation = None
      /\ analysis_status = "reading" /\ conversion_status = "reading"
  BY DEF TraceInit, Analysis!AnalysisInit, Conversion!InvocationInit
<1>2. Len(<<>>) = 0 /\ Len(<<1>>) = 1 /\ <<1>>[1] = 1 /\ <<>> \in Seq(Nat)
  OBVIOUS
<1>3. StacksInv
  <2>1. Len(invocation_stack) = 0 /\ 1..Len(invocation_stack) = {}
    BY <1>1, <1>2
  <2> QED
    BY <1>1, <1>2, <2>1 DEF StacksInv
<1>4. BenchInv
  BY <1>1, <1>2 DEF TraceInit, BenchInv, BothReading, ConvertsWhatRan
<1> QED
  BY <1>3, <1>4

LEMMA AgreeElementwise == Typed /\ StacksInv => StacksAgree
<1> SUFFICES ASSUME Typed, StacksInv, BothReading
             PROVE  call_stack = <<1>> \o [d \in DOMAIN invocation_stack |->
                                             call_spans[invocation_stack[d]]]
  BY DEF StacksAgree
<1> DEFINE m == Len(invocation_stack)
           mapped == [d \in DOMAIN invocation_stack |-> call_spans[invocation_stack[d]]]
<1>1. /\ m \in Nat /\ call_stack \in Seq(Nat) /\ DOMAIN invocation_stack = 1..m
      /\ Len(call_stack) = m + 1 /\ call_stack[1] = 1
      /\ \A d \in 1..m : call_stack[d + 1] = call_spans[invocation_stack[d]]
  BY TypedFacts, LenProperties DEF StacksInv
<1>2. \A d \in 1..m : call_spans[invocation_stack[d]] \in Nat
  <2>1. \A d \in 1..m : d + 1 \in 1..Len(call_stack)
    BY <1>1
  <2> QED
    BY <1>1, <2>1, ElementOfSeq
<1>3. mapped = [d \in 1..m |-> call_spans[invocation_stack[d]]]
  BY <1>1
<1>4. mapped \in Seq(Nat) /\ Len(mapped) = m
      /\ \A d \in 1..m : mapped[d] = call_spans[invocation_stack[d]]
  BY <1>1, <1>2, <1>3
<1> HIDE DEF mapped, m
<1>5. <<1>> \in Seq(Nat) /\ Len(<<1>>) = 1 /\ <<1>>[1] = 1
  OBVIOUS
<1> DEFINE agreed == <<1>> \o mapped
<1>6. /\ agreed \in Seq(Nat) /\ Len(agreed) = 1 + m
      /\ \A p \in 1..(1 + m) :
           agreed[p] = IF p <= 1 THEN <<1>>[p] ELSE mapped[p - 1]
  BY <1>4, <1>5, ConcatProperties
<1> HIDE DEF agreed
<1>7. ASSUME NEW p \in 1..(1 + m) PROVE agreed[p] = call_stack[p]
  <2>1. CASE p = 1
    BY <1>1, <1>5, <1>6, <2>1
  <2>2. CASE p > 1
    <3>1. p - 1 \in 1..m /\ (p - 1) + 1 = p /\ ~(p <= 1)
      BY <1>1, <2>2
    <3>2. agreed[p] = mapped[p - 1]
      BY <1>6, <3>1
    <3>3. call_stack[(p - 1) + 1] = call_spans[invocation_stack[p - 1]]
      BY <1>1, <3>1
    <3>4. mapped[p - 1] = call_spans[invocation_stack[p - 1]]
      BY <1>4, <3>1
    <3> QED
      BY <3>1, <3>2, <3>3, <3>4
  <2>3. p = 1 \/ p > 1
    BY <1>1
  <2> QED
    BY <2>1, <2>2, <2>3
<1>8. call_stack = agreed
  <2>1. Len(call_stack) = 1 + m /\ Len(call_stack) = Len(agreed)
    BY <1>1, <1>6
  <2>2. \A p \in 1..Len(call_stack) : call_stack[p] = agreed[p]
    BY <1>7, <2>1
  <2> QED
    BY <1>1, <1>6, <2>1, <2>2, SeqEqual
<1> QED
  BY <1>8 DEF mapped, agreed

(* Both invariants, over the types that each reader has alone.             *)
THEOREM MessageTraceInvariant == TraceSpec => [](Typed /\ StacksInv /\ BenchInv)
<1>1. TraceSpec => []Typed
  BY ReadersIndependent, AnalysisTyped, ConversionTyped, PTL DEF Typed
<1>2. TraceInit => StacksInv /\ BenchInv
  BY StacksInit
<1>3. Typed /\ Typed' /\ StacksInv /\ BenchInv /\ [TraceNext]_vars => StacksInv' /\ BenchInv'
  BY StacksStep, BenchStep
<1> QED
  BY <1>1, <1>2, <1>3, PTL DEF TraceSpec

(* Analysis and conversion hold the same calls on their stacks, whatever   *)
(* the trace.                                                              *)
THEOREM StacksAlwaysAgree == TraceSpec => []StacksAgree
<1>1. Typed /\ StacksInv => StacksAgree
  BY AgreeElementwise
<1> QED
  BY <1>1, MessageTraceInvariant, PTL

(* Every trace of the bench is analysed; it is converted if the message    *)
(* ran with tracing on, and only then.                                     *)
THEOREM ConvertsAllThatRan == TraceSpec => []ConvertsWhatRan
<1>1. BenchInv => ConvertsWhatRan
  BY DEF BenchInv
<1> QED
  BY <1>1, MessageTraceInvariant, PTL

-----------------------------------------------------------------------------
(* Sums along the list of an invocation.                                   *)

(* What the spans of the invocations in a list used in all, and that added *)
(* up as the property does.                                                *)
Terms(all, cs, subs) == [p \in DOMAIN subs |-> [milli |-> all[cs[subs[p]]].total.sum]]
Given(all, cs, subs) == AnalysisProofs!SumIn(Terms(all, cs, subs), DOMAIN subs)
SumFrom(base, all, cs, subs) ==
  FoldLeft(LAMBDA sum, h : sum + all[cs[h]].total.sum, base, subs)

(* What one unfolding of the fold computes.                                *)
UnfoldedFrom(base, all, cs, subs, f, s) ==
  IF s = {} THEN base ELSE f[s \ {Max(s)}] + all[cs[subs[Max(s)]]].total.sum
IsFoldFrom(f, base, all, cs, subs) ==
  f = [s \in SUBSET DOMAIN subs |-> UnfoldedFrom(base, all, cs, subs, f, s)]

LEMMA AnalysisAssumed == AnalysisProofs!AmountAssumption /\ AnalysisProofs!EventBoundAssumption
  BY TraceAssumption
  DEF Analysis!AmountAssumption, Analysis!EventBoundAssumption,
    AnalysisProofs!AmountAssumption, AnalysisProofs!EventBoundAssumption

LEMMA ConversionAssumed ==
  ConversionProofs!ExitCodeAssumption /\ ConversionProofs!EventBoundAssumption
  BY TraceAssumption
  DEF Conversion!ExitCodeAssumption, Analysis!EventBoundAssumption,
    ConversionProofs!ExitCodeAssumption, ConversionProofs!EventBoundAssumption

LEMMA PartFinite ==
  ASSUME NEW n \in Nat, NEW s, s \subseteq 1..n
  PROVE  IsFiniteSet(s) /\ AnalysisProofs!IsFiniteSet(s)
<1>1. 1 \in Int /\ n \in Int
  OBVIOUS
<1>2. IsFiniteSet(1..n)
  BY <1>1, FS_Interval
<1>3. IsFiniteSet(s)
  BY <1>2, FS_Subset
<1> QED
  BY <1>3 DEF IsFiniteSet, AnalysisProofs!IsFiniteSet

LEMMA SumFromIter ==
  ASSUME NEW base, NEW all, NEW cs, NEW subs
  PROVE  SumFrom(base, all, cs, subs)
           = (CHOOSE fold : IsFoldFrom(fold, base, all, cs, subs))[DOMAIN subs]
  BY DEF SumFrom, FoldLeft, MapThenFoldSet, IsFoldFrom, UnfoldedFrom

LEMMA GreatestIs ==
  ASSUME NEW S, S \subseteq Nat, NEW x \in S, \A y \in S : x >= y
  PROVE  Max(S) = x
<1>1. Max(S) \in S /\ Max(S) >= x
  BY DEF Max
<1>2. x >= Max(S) /\ x \in Nat /\ Max(S) \in Nat
  BY <1>1
<1> QED
  BY <1>1, <1>2

LEMMA GreatestIn ==
  ASSUME NEW n \in Nat, NEW S, S \subseteq 1..n, S # {}
  PROVE  Max(S) \in S
<1>1. ConversionProofs!Max(S) \in S
  BY ConversionAssumed, ConversionProofs!MaxOf
<1>2. ConversionProofs!Max(S) = Max(S)
  BY DEF Max, ConversionProofs!Max
<1> QED
  BY <1>1, <1>2

(* Any part of a list has a sum, which can be taken off item by item.      *)
Milli(t, p) == t[p].milli
Without(s, p) == s \ {p}
Parted(t, s) ==
  /\ AnalysisProofs!SumIn(t, s) \in Nat
  /\ \A p \in s : AnalysisProofs!SumIn(t, s)
                    = Milli(t, p) + AnalysisProofs!SumIn(t, Without(s, p))

LEMMA SumsOfParts ==
  ASSUME NEW n \in Nat, NEW t, NEW s, s \subseteq 1..n, \A p \in 1..n : Milli(t, p) \in Nat
  PROVE  Parted(t, s)
<1>1. AnalysisProofs!IsFiniteSet(s)
  BY PartFinite
<1>2. \A p \in s : t[p].milli \in Nat
  BY DEF Milli
<1>3. /\ AnalysisProofs!SumIn(t, s) \in Nat
      /\ \A p \in s : AnalysisProofs!SumIn(t, s)
                        = t[p].milli + AnalysisProofs!SumIn(t, s \ {p})
  BY <1>1, <1>2, AnalysisAssumed, AnalysisProofs!SumInRemove, Zenon
<1> QED
  BY <1>3 DEF Milli, Without, Parted

(* Adding up from left to right gives the sum.                             *)
LEMMA SumFromIs ==
  ASSUME NEW base \in Nat, NEW all, NEW cs, NEW subs, NEW n \in Nat, DOMAIN subs = 1..n,
         \A p \in 1..n : all[cs[subs[p]]].total.sum \in Nat
  PROVE  /\ SumFrom(base, all, cs, subs) = base + Given(all, cs, subs)
         /\ Given(all, cs, subs) \in Nat
<1> DEFINE t == Terms(all, cs, subs)
<1>1. \A p \in 1..n : Milli(t, p) = all[cs[subs[p]]].total.sum
  BY DEF Terms, Milli
<1> HIDE DEF t
<1>2. \A p \in 1..n : Milli(t, p) \in Nat
  BY <1>1
<1>3. ASSUME NEW s, s \subseteq 1..n
      PROVE  /\ AnalysisProofs!SumIn(t, s) \in Nat
             /\ \A p \in s : AnalysisProofs!SumIn(t, s)
                               = Milli(t, p) + AnalysisProofs!SumIn(t, Without(s, p))
  <2>1. Parted(t, s)
    BY <1>2, <1>3, SumsOfParts
  <2> QED
    BY <2>1 DEF Parted
<1> DEFINE f == [s \in SUBSET (1..n) |-> base + AnalysisProofs!SumIn(t, s)]
<1>4. ASSUME NEW s \in SUBSET (1..n)
      PROVE  f[s] = UnfoldedFrom(base, all, cs, subs, f, s)
  <2>1. CASE s = {}
    <3>1. AnalysisProofs!SumIn(t, {}) = 0
      BY AnalysisAssumed, AnalysisProofs!SumInEmpty
    <3> QED
      BY <2>1, <3>1 DEF UnfoldedFrom
  <2>2. CASE s # {}
    <3> DEFINE m == Max(s)
               r == Without(s, m)
    <3>1. m \in s /\ m \in 1..n
      BY <2>2, GreatestIn
    <3>2. r \in SUBSET (1..n)
      BY DEF Without
    <3>3. AnalysisProofs!SumIn(t, s) = Milli(t, m) + AnalysisProofs!SumIn(t, r)
      BY <1>3, <3>1
    <3>4. UnfoldedFrom(base, all, cs, subs, f, s) = f[r] + Milli(t, m)
      BY <1>1, <2>2, <3>1 DEF UnfoldedFrom, Without
    <3> HIDE DEF m, r
    <3>5. AnalysisProofs!SumIn(t, r) \in Nat /\ Milli(t, m) \in Nat
      BY <1>2, <1>3, <3>1, <3>2
    <3>6. f[s] = base + AnalysisProofs!SumIn(t, s) /\ f[r] = base + AnalysisProofs!SumIn(t, r)
      BY <3>2
    <3> HIDE DEF f
    <3> QED
      BY <3>3, <3>4, <3>5, <3>6
  <2> QED
    BY <2>1, <2>2
<1>5. f = [s \in SUBSET (1..n) |-> UnfoldedFrom(base, all, cs, subs, f, s)]
  BY <1>4
<1>6. \E fold : IsFoldFrom(fold, base, all, cs, subs)
  BY <1>5 DEF IsFoldFrom
<1> DEFINE g == CHOOSE fold : IsFoldFrom(fold, base, all, cs, subs)
<1>7. IsFoldFrom(g, base, all, cs, subs)
  BY <1>6
<1>8. SumFrom(base, all, cs, subs) = g[1..n]
  BY SumFromIter
<1> HIDE DEF f, g
<1>9. \A s \in SUBSET (1..n) : g[s] = UnfoldedFrom(base, all, cs, subs, g, s)
  BY <1>7 DEF IsFoldFrom
<1> DEFINE Good == {k \in Nat : k <= n => g[1..k] = base + AnalysisProofs!SumIn(t, 1..k)}
<1>10. 0 \in Good
  <2>1. 1..0 = {}
    OBVIOUS
  <2>2. AnalysisProofs!SumIn(t, {}) = 0
    BY AnalysisAssumed, AnalysisProofs!SumInEmpty
  <2>3. g[{}] = base
    BY <1>9 DEF UnfoldedFrom
  <2> QED
    BY <2>1, <2>2, <2>3
<1>11. ASSUME NEW k \in Nat, k \in Good
       PROVE  k + 1 \in Good
  <2> SUFFICES ASSUME k + 1 <= n
               PROVE  g[1..(k + 1)] = base + AnalysisProofs!SumIn(t, 1..(k + 1))
    OBVIOUS
  <2> DEFINE s == 1..(k + 1)
  <2>1. k <= n /\ k + 1 \in 1..n /\ s \in SUBSET (1..n) /\ s # {} /\ k + 1 \in s
    <3>1. k <= n /\ k + 1 \in 1..n /\ k + 1 \in s
      OBVIOUS
    <3>2. \A y \in s : y \in 1..n
      BY <3>1
    <3> QED
      BY <3>1, <3>2
  <2>2. s \ {k + 1} = 1..k /\ Without(s, k + 1) = 1..k
    BY DEF Without
  <2>3. Max(s) = k + 1
    <3>1. s \subseteq Nat /\ \A y \in s : k + 1 >= y
      OBVIOUS
    <3> QED
      BY <2>1, <3>1, GreatestIs
  <2> HIDE DEF s
  <2>4. g[s] = g[1..k] + Milli(t, k + 1)
    BY <1>1, <1>9, <2>1, <2>2, <2>3 DEF UnfoldedFrom
  <2>5. AnalysisProofs!SumIn(t, s) = Milli(t, k + 1) + AnalysisProofs!SumIn(t, 1..k)
    BY <1>3, <2>1, <2>2
  <2>6. g[1..k] = base + AnalysisProofs!SumIn(t, 1..k)
    BY <1>11, <2>1
  <2>7. AnalysisProofs!SumIn(t, 1..k) \in Nat /\ Milli(t, k + 1) \in Nat
    <3>1. 1..k \subseteq 1..n
      BY <2>1
    <3> QED
      BY <1>2, <1>3, <2>1, <3>1
  <2>8. g[s] = base + AnalysisProofs!SumIn(t, s)
    BY <2>4, <2>5, <2>6, <2>7
  <2> QED
    BY <2>8 DEF s
<1>12. n \in Good
  <2> HIDE DEF Good
  <2>1. Nat \subseteq Good
    BY <1>10, <1>11, AnalysisAssumed, AnalysisProofs!NatInduct
  <2> QED
    BY <2>1
<1>13. g[1..n] = base + AnalysisProofs!SumIn(t, 1..n) /\ AnalysisProofs!SumIn(t, 1..n) \in Nat
  BY <1>3, <1>12
<1> QED
  BY <1>8, <1>13 DEF Given, t

(* The sum of the empty list, of a longer list, and of one whose spans did *)
(* not change.                                                             *)
LEMMA GivenNothing == ASSUME NEW all, NEW cs PROVE Given(all, cs, <<>>) = 0
<1>1. DOMAIN <<>> = {}
  OBVIOUS
<1> QED
  BY <1>1, AnalysisAssumed, AnalysisProofs!SumInEmpty DEF Given

LEMMA GivenSame ==
  ASSUME NEW all, NEW cs, NEW subs, NEW n \in Nat, DOMAIN subs = 1..n, NEW all2, NEW cs2,
         \A p \in 1..n : all2[cs2[subs[p]]].total.sum = all[cs[subs[p]]].total.sum
  PROVE  Given(all2, cs2, subs) = Given(all, cs, subs)
<1>1. \A p \in 1..n : Terms(all2, cs2, subs)[p] = Terms(all, cs, subs)[p]
  BY DEF Terms
<1>2. 1..n \subseteq 1..n
  OBVIOUS
<1>3. AnalysisProofs!IsFiniteSet(1..n)
  BY <1>2, PartFinite
<1>4. AnalysisProofs!SumIn(Terms(all2, cs2, subs), 1..n)
        = AnalysisProofs!SumIn(Terms(all, cs, subs), 1..n)
  BY <1>1, <1>3, AnalysisAssumed, AnalysisProofs!SumInSame
<1> QED
  BY <1>4 DEF Given

LEMMA SumLonger ==
  ASSUME NEW n \in Nat, NEW t, NEW u, \A p \in 1..n : Milli(t, p) \in Nat,
         \A p \in 1..n : t[p] = u[p], Milli(u, n + 1) \in Nat
  PROVE  AnalysisProofs!SumIn(u, 1..(n + 1)) = AnalysisProofs!SumIn(t, 1..n) + Milli(u, n + 1)
<1>1. PICK m \in Nat : m = n + 1
  OBVIOUS
<1>2. m \in 1..m /\ Without(1..m, m) = 1..n
  BY <1>1 DEF Without
<1>3. \A p \in 1..m : Milli(u, p) \in Nat
  <2>1. \A p \in 1..m : p \in 1..n \/ p = m
    BY <1>1
  <2>2. \A p \in 1..n : Milli(u, p) \in Nat
    BY DEF Milli
  <2> QED
    BY <1>1, <2>1, <2>2
<1>4. /\ AnalysisProofs!SumIn(u, 1..m) \in Nat
      /\ \A p \in 1..m : AnalysisProofs!SumIn(u, 1..m)
                          = Milli(u, p) + AnalysisProofs!SumIn(u, Without(1..m, p))
  <2>1. 1..m \subseteq 1..m
    OBVIOUS
  <2>2. Parted(u, 1..m)
    BY <1>3, <2>1, SumsOfParts
  <2> QED
    BY <2>2 DEF Parted
<1>5. AnalysisProofs!SumIn(u, 1..m) = Milli(u, m) + AnalysisProofs!SumIn(u, 1..n)
  BY <1>2, <1>4
<1>6. 1..n \subseteq 1..n /\ 1..n \subseteq 1..m
  BY <1>1
<1>7. AnalysisProofs!SumIn(u, 1..n) \in Nat
  <2>1. \A p \in 1..n : Milli(u, p) \in Nat
    BY DEF Milli
  <2>2. Parted(u, 1..n)
    BY <1>6, <2>1, SumsOfParts
  <2> QED
    BY <2>2 DEF Parted
<1>8. AnalysisProofs!SumIn(u, 1..n) = AnalysisProofs!SumIn(t, 1..n)
  <2>1. AnalysisProofs!IsFiniteSet(1..n)
    BY <1>6, PartFinite
  <2> QED
    BY <2>1, AnalysisAssumed, AnalysisProofs!SumInSame
<1>9. Milli(u, m) \in Nat
  BY <1>1
<1> QED
  BY <1>1, <1>5, <1>7, <1>8, <1>9

LEMMA GivenAppend ==
  ASSUME NEW all, NEW cs, NEW S, NEW subs \in Seq(S), NEW h \in S,
         \A p \in 1..Len(subs) : all[cs[subs[p]]].total.sum \in Nat,
         all[cs[h]].total.sum \in Nat
  PROVE  Given(all, cs, Append(subs, h)) = Given(all, cs, subs) + all[cs[h]].total.sum
<1> DEFINE n == Len(subs)
           long == Append(subs, h)
<1>1. /\ n \in Nat /\ DOMAIN subs = 1..n /\ DOMAIN long = 1..(n + 1)
      /\ \A p \in 1..n : long[p] = subs[p]
      /\ long[n + 1] = h
  BY LenProperties
<1> HIDE DEF n, long
<1> DEFINE t == Terms(all, cs, subs)
           u == Terms(all, cs, long)
<1>2. /\ \A p \in 1..n : p \in 1..(n + 1)
      /\ n + 1 \in 1..(n + 1)
  BY <1>1
<1>3. /\ \A p \in 1..n : t[p] = [milli |-> all[cs[subs[p]]].total.sum]
      /\ \A p \in 1..n : Milli(t, p) = all[cs[subs[p]]].total.sum
      /\ \A p \in 1..(n + 1) : u[p] = [milli |-> all[cs[long[p]]].total.sum]
      /\ \A p \in 1..(n + 1) : Milli(u, p) = all[cs[long[p]]].total.sum
  BY <1>1 DEF Terms, Milli
<1> HIDE DEF t, u
<1>4. Milli(u, n + 1) = all[cs[h]].total.sum
  BY <1>1, <1>2, <1>3
<1>5. \A p \in 1..n : t[p] = u[p]
  <2>1. \A p \in 1..n : u[p] = [milli |-> all[cs[long[p]]].total.sum]
    BY <1>2, <1>3
  <2>2. \A p \in 1..n : t[p] = [milli |-> all[cs[long[p]]].total.sum]
    BY <1>1, <1>3
  <2> QED
    BY <2>1, <2>2, Zenon
<1>6. \A p \in 1..n : Milli(t, p) \in Nat
  <2>1. \A p \in 1..n : all[cs[subs[p]]].total.sum \in Nat
    BY DEF n
  <2> QED
    BY <1>3, <2>1, Zenon
<1>7. AnalysisProofs!SumIn(u, 1..(n + 1)) = AnalysisProofs!SumIn(t, 1..n) + Milli(u, n + 1)
  BY <1>1, <1>4, <1>5, <1>6, SumLonger
<1>8. AnalysisProofs!SumIn(u, 1..(n + 1)) = AnalysisProofs!SumIn(t, 1..n) + all[cs[h]].total.sum
  BY <1>4, <1>7
<1> QED
  BY <1>1, <1>8 DEF Given, t, u, long

-----------------------------------------------------------------------------
(* The gas of invocations.                                                 *)

OpenIn(stack, k) == \E d \in DOMAIN stack : stack[d] = k
SubsOf(tree, k) == tree[k].subinvocations
SelfSum(all, c) == all[c].self.sum
TotalSum(all, c) == all[c].total.sum

(* Each invocation has a call span of its own.                             *)
OwnSpans ==
  /\ call_spans \in Seq(Nat) /\ Len(call_spans) = Len(invocations)
  /\ \A k \in DOMAIN invocations :
       /\ call_spans[k] \in DOMAIN spans /\ call_spans[k] # 1
       /\ call_spans[k] \notin Analysis!OpenNamed
  /\ \A h, k \in DOMAIN invocations : call_spans[h] = call_spans[k] => h = k

(* The total of an open call is what those that it made passed on to it,   *)
(* to which its own gas is added at its end.                               *)
Due(all, cs, tree, stack, k) ==
  Given(all, cs, SubsOf(tree, k)) + (IF OpenIn(stack, k) THEN 0 ELSE SelfSum(all, cs[k]))
PassedOn ==
  \A k \in DOMAIN invocations :
    TotalSum(spans, call_spans[k]) = Due(spans, call_spans, invocations, invocation_stack, k)

GasInv == NonePanicked => OwnSpans /\ PassedOn

LEMMA SpanSums ==
  ASSUME Typed, NEW c \in DOMAIN spans
  PROVE  SelfSum(spans, c) \in Nat /\ TotalSum(spans, c) \in Nat
<1>1. spans[c] \in Analysis!Span
  BY ElementOfSeq, LenProperties DEF Typed, Analysis!AnalysisTypeOK
<1> QED
  BY <1>1 DEF Analysis!Span, Analysis!Gas, SelfSum, TotalSum

LEMMA NamedOpen ==
  /\ \A c : c \in Analysis!OpenNamed
       <=> \E n \in SpanNames : \E p \in DOMAIN named_spans[n] : named_spans[n][p] = c
  /\ \A c : c \in Analysis!OpenNamed'
       <=> \E n \in SpanNames : \E p \in DOMAIN named_spans'[n] : named_spans'[n][p] = c
  BY DEF Analysis!OpenNamed, Analysis!ToSet

(* What is filed has ended.                                                *)
LEMMA FiledFacts ==
  ASSUME ConversionProofs!InvocationInv
  PROVE  /\ \A d, e \in DOMAIN invocation_stack :
              invocation_stack[d] = invocation_stack[e] => d = e
         /\ \A k \in DOMAIN invocations :
              LET subs == SubsOf(invocations, k)
              IN /\ subs \in Seq(DOMAIN invocations) /\ Len(subs) \in Nat
                 /\ DOMAIN subs = 1..Len(subs)
                 /\ \A p \in 1..Len(subs) :
                      subs[p] \in DOMAIN invocations /\ ~OpenIn(invocation_stack, subs[p])
<1>1. \A d, e \in DOMAIN invocation_stack : invocation_stack[d] = invocation_stack[e] => d = e
  BY DEF ConversionProofs!InvocationInv, ConversionProofs!StackDistinct
<1>2. ASSUME NEW k \in DOMAIN invocations
      PROVE  LET subs == SubsOf(invocations, k)
             IN /\ subs \in Seq(DOMAIN invocations) /\ Len(subs) \in Nat
                /\ DOMAIN subs = 1..Len(subs)
                /\ \A p \in 1..Len(subs) :
                     subs[p] \in DOMAIN invocations /\ ~OpenIn(invocation_stack, subs[p])
  <2> DEFINE subs == SubsOf(invocations, k)
  <2>1. subs \in Seq(DOMAIN invocations)
    BY DEF ConversionProofs!InvocationInv, ConversionProofs!InvocationTypeOK, SubsOf
  <2>2. \A p \in DOMAIN subs : ~OpenIn(invocation_stack, subs[p])
    BY DEF ConversionProofs!InvocationInv, ConversionProofs!FiledOnce, ConversionProofs!ToSet,
      OpenIn, SubsOf
  <2> HIDE DEF subs
  <2>3. /\ Len(subs) \in Nat /\ DOMAIN subs = 1..Len(subs)
        /\ \A p \in 1..Len(subs) : subs[p] \in DOMAIN invocations
    BY <2>1, LenProperties, ElementOfSeq
  <2> QED
    BY <2>1, <2>2, <2>3 DEF subs
<1> QED
  BY <1>1, <1>2

(* A list of invocations whose totals did not change.                      *)
LEMMA ListKept ==
  ASSUME NEW subs, NEW n \in Nat, DOMAIN subs = 1..n, NEW all, NEW cs, NEW all2, NEW cs2,
         \A p \in 1..n : TotalSum(all2, cs2[subs[p]]) = TotalSum(all, cs[subs[p]])
  PROVE  Given(all2, cs2, subs) = Given(all, cs, subs)
<1>1. \A p \in 1..n : all2[cs2[subs[p]]].total.sum = all[cs[subs[p]]].total.sum
  BY DEF TotalSum
<1> QED
  BY <1>1, GivenSame

LEMMA GivenNat ==
  ASSUME Typed, ConversionProofs!InvocationInv, OwnSpans, NEW k \in DOMAIN invocations
  PROVE  Given(spans, call_spans, SubsOf(invocations, k)) \in Nat
<1> DEFINE subs == SubsOf(invocations, k)
           n == Len(subs)
<1>1. /\ n \in Nat /\ DOMAIN subs = 1..n
      /\ \A p \in 1..n : subs[p] \in DOMAIN invocations
  BY FiledFacts
<1> HIDE DEF subs, n
<1>2. \A p \in 1..n : spans[call_spans[subs[p]]].total.sum \in Nat
  BY <1>1, SpanSums DEF OwnSpans, TotalSum
<1>3. 0 \in Nat
  OBVIOUS
<1>4. Given(spans, call_spans, subs) \in Nat
  BY <1>1, <1>2, <1>3, SumFromIs
<1> QED
  BY <1>4 DEF subs

(* Events that are no calls: no total of an invocation changes, and the    *)
(* own gas at most of those that are open.                                 *)
LEMMA PassedKept ==
  ASSUME ConversionProofs!InvocationInv, PassedOn,
         UNCHANGED <<invocations, invocation_stack, call_spans>>,
         \A k \in DOMAIN invocations :
           /\ TotalSum(spans', call_spans[k]) = TotalSum(spans, call_spans[k])
           /\ \/ OpenIn(invocation_stack, k)
              \/ SelfSum(spans', call_spans[k]) = SelfSum(spans, call_spans[k])
  PROVE  PassedOn'
<1> SUFFICES ASSUME NEW k \in DOMAIN invocations
             PROVE  TotalSum(spans', call_spans[k])
                      = Due(spans', call_spans, invocations, invocation_stack, k)
  BY DEF PassedOn
<1> DEFINE subs == SubsOf(invocations, k)
           n == Len(subs)
<1>1. /\ n \in Nat /\ DOMAIN subs = 1..n
      /\ \A p \in 1..n : subs[p] \in DOMAIN invocations
  BY FiledFacts
<1> HIDE DEF subs, n
<1>2. \A p \in 1..n : TotalSum(spans', call_spans[subs[p]]) = TotalSum(spans, call_spans[subs[p]])
  BY <1>1
<1>3. Given(spans', call_spans, subs) = Given(spans, call_spans, subs)
  BY <1>1, <1>2, ListKept
<1>4. TotalSum(spans, call_spans[k]) = Due(spans, call_spans, invocations, invocation_stack, k)
  BY DEF PassedOn
<1> QED
  BY <1>3, <1>4 DEF Due, subs

(* The innermost call span is the root's or that of an open invocation.    *)
LEMMA InnermostSpan ==
  ASSUME Typed, StacksInv, BothReading, ConversionProofs!InvocationInv, OwnSpans
  PROVE  /\ Len(call_stack) >= 1 /\ Analysis!Last(call_stack) \in DOMAIN spans
         /\ \A k \in DOMAIN invocations :
              call_spans[k] = Analysis!Last(call_stack) => OpenIn(invocation_stack, k)
<1> DEFINE m == Len(invocation_stack)
           last == Analysis!Last(call_stack)
<1>1. /\ m \in Nat /\ call_stack \in Seq(Nat) /\ Len(call_stack) = m + 1 /\ call_stack[1] = 1
      /\ \A d \in 1..m : call_stack[d + 1] = call_spans[invocation_stack[d]]
      /\ \A d \in 1..m : invocation_stack[d] \in DOMAIN invocations
      /\ DOMAIN invocation_stack = 1..m
  BY TypedFacts, LenProperties DEF StacksInv
<1>2. last = call_stack[m + 1]
  BY <1>1 DEF Analysis!Last
<1>3. last \in DOMAIN spans
  <2>1. m + 1 \in DOMAIN call_stack
    BY <1>1, LenProperties
  <2>2. last \in Analysis!OpenCalls
    BY <1>2, <2>1 DEF Analysis!OpenCalls, Analysis!ToSet
  <2> QED
    BY <2>2 DEF Typed, Analysis!AnalysisTypeOK
<1> HIDE DEF m, last
<1>4. ASSUME NEW k \in DOMAIN invocations, call_spans[k] = last
      PROVE  OpenIn(invocation_stack, k)
  <2>1. m # 0
    <3> SUFFICES ASSUME m = 0 PROVE FALSE
      OBVIOUS
    <3>1. m + 1 = 1
      OBVIOUS
    <3>2. last = 1
      BY <1>1, <1>2, <3>1
    <3> QED
      BY <1>4, <3>2 DEF OwnSpans
  <2>2. m \in 1..m
    BY <1>1, <2>1
  <2>3. last = call_spans[invocation_stack[m]] /\ invocation_stack[m] \in DOMAIN invocations
    BY <1>1, <1>2, <2>2
  <2>4. k = invocation_stack[m]
    BY <1>4, <2>3 DEF OwnSpans
  <2> QED
    BY <1>1, <2>2, <2>4 DEF OpenIn
<1> QED
  BY <1>1, <1>3, <1>4 DEF last

LEMMA OwnKept ==
  ASSUME OwnSpans, UNCHANGED <<invocations, call_spans>>,
         DOMAIN spans \subseteq DOMAIN spans',
         \A c \in DOMAIN spans : c \in Analysis!OpenNamed' => c \in Analysis!OpenNamed
  PROVE  OwnSpans'
  BY DEF OwnSpans

LEMMA ChargeGas ==
  ASSUME Typed, StacksInv, BothReading, ConversionProofs!InvocationInv, OwnSpans, PassedOn,
         NEW name \in GasNames, NEW milli \in Amounts, GasCharge(name, milli)
  PROVE  OwnSpans' /\ PassedOn'
<1>1. Analysis!ReadGasCharge(name, milli) /\ Conversion!ReadOther /\ call_spans' = call_spans
  BY DEF GasCharge, Analysed, Converted, BothReading
<1> DEFINE last == Analysis!Last(call_stack)
<1>2. /\ spans' = [k \in DOMAIN spans |->
                     IF k = last \/ k \in Analysis!OpenNamed
                     THEN Analysis!AddSelfGas(spans[k], name, milli) ELSE spans[k]]
      /\ UNCHANGED <<named_spans, invocations, invocation_stack, call_spans>>
  BY <1>1 DEF Analysis!ReadGasCharge, Conversion!ReadOther
<1> HIDE DEF last
<1>3. OwnSpans'
  <2>1. \A c : c \in Analysis!OpenNamed' <=> c \in Analysis!OpenNamed
    BY <1>2, NamedOpen
  <2>2. DOMAIN spans' = DOMAIN spans
    BY <1>2
  <2> QED
    BY <1>2, <2>1, <2>2, OwnKept
<1>4. ASSUME NEW k \in DOMAIN invocations
      PROVE  /\ TotalSum(spans', call_spans[k]) = TotalSum(spans, call_spans[k])
             /\ \/ OpenIn(invocation_stack, k)
                \/ SelfSum(spans', call_spans[k]) = SelfSum(spans, call_spans[k])
  <2>1. call_spans[k] \in DOMAIN spans /\ call_spans[k] \notin Analysis!OpenNamed
    BY DEF OwnSpans
  <2>2. TotalSum(spans', call_spans[k]) = TotalSum(spans, call_spans[k])
    BY <1>2, <2>1 DEF TotalSum, Analysis!AddSelfGas
  <2>3. CASE call_spans[k] = last
    BY <2>2, <2>3, InnermostSpan DEF last
  <2>4. CASE call_spans[k] # last
    BY <1>2, <2>1, <2>2, <2>4 DEF SelfSum
  <2> QED
    BY <2>3, <2>4
<1> QED
  BY <1>2, <1>3, <1>4, PassedKept

(* A closed span that is not an invocation's.                              *)
LEMMA OtherSpanGas ==
  ASSUME Typed, ConversionProofs!InvocationInv, OwnSpans, PassedOn,
         UNCHANGED <<invocations, invocation_stack, call_spans>>,
         NEW x, x \in Analysis!OpenNamed \/ x = 1, NEW new, spans' = [spans EXCEPT ![x] = new],
         \A c : c \in Analysis!OpenNamed' => c \in Analysis!OpenNamed
  PROVE  OwnSpans' /\ PassedOn'
<1>1. DOMAIN spans' = DOMAIN spans
  OBVIOUS
<1>2. OwnSpans'
  BY <1>1, OwnKept
<1>3. \A k \in DOMAIN invocations : spans'[call_spans[k]] = spans[call_spans[k]]
  BY DEF OwnSpans
<1>4. \A k \in DOMAIN invocations :
        /\ TotalSum(spans', call_spans[k]) = TotalSum(spans, call_spans[k])
        /\ SelfSum(spans', call_spans[k]) = SelfSum(spans, call_spans[k])
  BY <1>3 DEF TotalSum, SelfSum
<1> QED
  BY <1>2, <1>4, PassedKept

LEMMA SpanLogGas ==
  ASSUME Typed, BothReading, ConversionProofs!InvocationInv, OwnSpans, PassedOn,
         NEW name \in SpanNames, SpanLog(name), analysis_status' # "panicked"
  PROVE  OwnSpans' /\ PassedOn'
<1>1. /\ Conversion!ReadOther /\ call_spans' = call_spans
      /\ Analysis!ReadSpanStart(name) \/ Analysis!ReadSpanEnd(name)
  BY DEF SpanLog, Analysed, Converted, BothReading, Analysis!ReadUnmatchedEnd, Analysis!Panic
<1>2. UNCHANGED <<invocations, invocation_stack, call_spans>>
  BY <1>1 DEF Conversion!ReadOther
<1>3. /\ spans \in Seq(Analysis!Span) /\ Len(spans) \in Nat /\ DOMAIN spans = 1..Len(spans)
      /\ named_spans \in [SpanNames -> Seq(Nat)]
      /\ named_spans[name] \in Seq(Nat)
      /\ Len(named_spans[name]) \in Nat
      /\ DOMAIN named_spans[name] = 1..Len(named_spans[name])
  <2>1. spans \in Seq(Analysis!Span) /\ named_spans \in [SpanNames -> Seq(Nat)]
    BY DEF Typed, Analysis!AnalysisTypeOK
  <2>2. named_spans[name] \in Seq(Nat)
    BY <2>1
  <2> QED
    BY <2>1, <2>2, LenProperties
<1>4. CASE Analysis!ReadSpanStart(name)
  <2>1. /\ spans' = Append(spans, Analysis!NewSpan)
        /\ named_spans' = [named_spans EXCEPT ![name] = Append(@, Len(spans'))]
    BY <1>4 DEF Analysis!ReadSpanStart
  <2>2. Analysis!NewSpan \in Analysis!Span
    BY DEF Analysis!NewSpan, Analysis!Span, Analysis!NoGas, Analysis!Gas
  <2>3. /\ Len(spans') = Len(spans) + 1 /\ DOMAIN spans' = 1..(Len(spans) + 1)
        /\ \A c \in 1..Len(spans) : spans'[c] = spans[c]
    BY <1>3, <2>1, <2>2, LenProperties
  <2>4. \A c \in DOMAIN spans : c \in DOMAIN spans' /\ spans'[c] = spans[c]
    BY <1>3, <2>3
  <2>5. \A c \in DOMAIN spans : c \in Analysis!OpenNamed' => c \in Analysis!OpenNamed
    <3> SUFFICES ASSUME NEW c \in DOMAIN spans, NEW n \in SpanNames,
                        NEW p \in DOMAIN named_spans'[n], named_spans'[n][p] = c
                 PROVE  \E q \in DOMAIN named_spans[n] : named_spans[n][q] = c
      BY NamedOpen
    <3>1. CASE n # name
      BY <1>3, <2>1, <3>1
    <3>2. CASE n = name
      <4>1. named_spans'[n] = Append(named_spans[name], Len(spans) + 1)
        BY <1>3, <2>1, <2>3, <3>2
      <4>2. Len(spans) + 1 \in Nat
        BY <1>3
      <4>3. /\ DOMAIN named_spans'[n] = 1..(Len(named_spans[name]) + 1)
            /\ \A q \in 1..Len(named_spans[name]) : named_spans'[n][q] = named_spans[name][q]
            /\ named_spans'[n][Len(named_spans[name]) + 1] = Len(spans) + 1
        BY <1>3, <4>1, <4>2, LenProperties
      <4>4. c # Len(spans) + 1
        BY <1>3
      <4>5. p \in 1..Len(named_spans[name]) \/ p = Len(named_spans[name]) + 1
        BY <1>3, <4>3
      <4> QED
        BY <1>3, <3>2, <4>3, <4>4, <4>5
    <3> QED
      BY <3>1, <3>2
  <2>6. OwnSpans'
    BY <1>2, <2>4, <2>5, OwnKept
  <2>7. \A k \in DOMAIN invocations :
          /\ TotalSum(spans', call_spans[k]) = TotalSum(spans, call_spans[k])
          /\ SelfSum(spans', call_spans[k]) = SelfSum(spans, call_spans[k])
    BY <2>4 DEF TotalSum, SelfSum, OwnSpans
  <2> QED
    BY <1>2, <2>6, <2>7, PassedKept
<1>5. CASE Analysis!ReadSpanEnd(name)
  <2> DEFINE x == Analysis!Last(named_spans[name])
  <2>1. /\ named_spans[name] # <<>>
        /\ spans' = [spans EXCEPT ![x] = Analysis!AddSelfToTotalGas(@)]
        /\ named_spans' = [named_spans EXCEPT ![name] = Analysis!Front(@)]
    BY <1>5 DEF Analysis!ReadSpanEnd
  <2>2. spans' = [spans EXCEPT ![x] = Analysis!AddSelfToTotalGas(spans[x])]
    BY <2>1
  <2>3. Len(named_spans[name]) >= 1
    <3>1. Len(named_spans[name]) # 0
      BY <1>3, <2>1, EmptySeq
    <3> QED
      BY <1>3, <3>1
  <2>4. x \in Analysis!OpenNamed
    <3>1. Len(named_spans[name]) \in DOMAIN named_spans[name]
      BY <1>3, <2>3
    <3>2. x = named_spans[name][Len(named_spans[name])]
      BY DEF Analysis!Last
    <3> QED
      BY <3>1, <3>2, NamedOpen
  <2>5. ASSUME NEW c, c \in Analysis!OpenNamed'
        PROVE  c \in Analysis!OpenNamed
    <3>1. PICK n \in SpanNames : \E p \in DOMAIN named_spans'[n] : named_spans'[n][p] = c
      BY <2>5, NamedOpen
    <3>2. PICK p \in DOMAIN named_spans'[n] : named_spans'[n][p] = c
      BY <3>1
    <3>3. CASE n # name
      <4>1. named_spans'[n] = named_spans[n]
        BY <1>3, <2>1, <3>3
      <4> QED
        BY <3>2, <4>1, NamedOpen
    <3>4. CASE n = name
      <4>1. named_spans'[n] = Analysis!Front(named_spans[name])
        BY <1>3, <2>1, <3>4
      <4>2. /\ Len(Analysis!Front(named_spans[name])) = Len(named_spans[name]) - 1
            /\ Analysis!Front(named_spans[name]) \in Seq(Nat)
            /\ \A q \in 1..(Len(named_spans[name]) - 1) :
                 Analysis!Front(named_spans[name])[q] = named_spans[name][q]
        BY <1>3, <2>3, AllButLast DEF Analysis!Front
      <4>3. DOMAIN Analysis!Front(named_spans[name]) = 1..(Len(named_spans[name]) - 1)
        BY <4>2, LenProperties
      <4>4. p \in 1..(Len(named_spans[name]) - 1) /\ named_spans[name][p] = c
        BY <3>2, <4>1, <4>2, <4>3
      <4>5. p \in DOMAIN named_spans[name]
        BY <1>3, <4>4
      <4> QED
        BY <4>4, <4>5, NamedOpen
    <3> QED
      BY <3>3, <3>4
  <2> HIDE DEF x
  <2> QED
    BY <1>2, <2>2, <2>4, <2>5, OtherSpanGas
<1> QED
  BY <1>1, <1>4, <1>5

(* A call starts with nothing used and nothing passed on to it.            *)
LEMMA CallGas ==
  ASSUME Typed, StacksInv, BothReading, ConversionProofs!InvocationInv, OwnSpans, PassedOn, Call
  PROVE  OwnSpans' /\ PassedOn'
<1>1. Analysis!ReadCall /\ Conversion!ReadCall
  BY DEF Call, Analysed, Converted, BothReading
<1> DEFINE new == Len(invocations) + 1
           c == Len(spans) + 1
<1>2. /\ spans \in Seq(Analysis!Span) /\ Len(spans) \in Nat /\ DOMAIN spans = 1..Len(spans)
      /\ Len(invocations) \in Nat /\ DOMAIN invocations = 1..Len(invocations)
      /\ invocations \in Seq(Conversion!Invocation)
      /\ invocation_stack \in Seq(Nat) /\ Len(invocation_stack) \in Nat
      /\ DOMAIN invocation_stack = 1..Len(invocation_stack)
      /\ \A d \in 1..Len(invocation_stack) : invocation_stack[d] \in DOMAIN invocations
  <2>1. invocation_stack \in Seq(Nat)
    BY TypedFacts, SeqMonotonic
  <2> QED
    BY <2>1, TypedFacts, LenProperties
    DEF Typed, Analysis!AnalysisTypeOK, Conversion!InvocationTypeOK
<1>3. Analysis!NewSpan \in Analysis!Span /\ SelfSum(<<Analysis!NewSpan>>, 1) = 0
      /\ TotalSum(<<Analysis!NewSpan>>, 1) = 0
  BY DEF Analysis!NewSpan, Analysis!Span, Analysis!NoGas, Analysis!Gas, SelfSum, TotalSum
<1>4. Conversion!NewInvocation \in Conversion!Invocation /\ Conversion!NewInvocation.subinvocations = <<>>
  BY TraceAssumption DEF Conversion!ExitCodeAssumption, Conversion!NewInvocation,
    Conversion!Invocation
<1>5. /\ spans' = Append(spans, Analysis!NewSpan)
      /\ invocations' = Append(invocations, Conversion!NewInvocation)
      /\ named_spans' = named_spans
  BY <1>1 DEF Analysis!ReadCall, Conversion!ReadCall
<1>6. /\ Len(spans') = c /\ DOMAIN spans' = 1..c
      /\ \A i \in DOMAIN spans : spans'[i] = spans[i]
      /\ spans'[c] = Analysis!NewSpan
  BY <1>2, <1>3, <1>5, LenProperties
<1>7. /\ Len(invocations') = new /\ DOMAIN invocations' = 1..new
      /\ \A k \in DOMAIN invocations : invocations'[k] = invocations[k]
      /\ invocations'[new] = Conversion!NewInvocation
  BY <1>2, <1>4, <1>5, LenProperties
<1>8. /\ call_spans \in Seq(Nat) /\ Len(call_spans) = Len(invocations)
      /\ call_spans' = Append(call_spans, c)
  BY <1>6 DEF Call, BothReading, OwnSpans
<1>9. /\ call_spans' \in Seq(Nat) /\ Len(call_spans') = new
      /\ \A k \in DOMAIN invocations : call_spans'[k] = call_spans[k]
      /\ call_spans'[new] = c
  <2>1. c \in Nat
    BY <1>2
  <2> QED
    BY <1>2, <1>8, <2>1, LenProperties
<1>10. invocation_stack' = Append(invocation_stack, new)
  BY <1>1, <1>7 DEF Conversion!ReadCall
<1>11. /\ \A k \in DOMAIN invocations :
            OpenIn(invocation_stack', k) <=> OpenIn(invocation_stack, k)
       /\ OpenIn(invocation_stack', new)
  <2> DEFINE m == Len(invocation_stack)
  <2>1. new \in Nat /\ new \notin DOMAIN invocations
    BY <1>2
  <2>2. /\ DOMAIN invocation_stack' = 1..(m + 1)
        /\ \A d \in 1..m : invocation_stack'[d] = invocation_stack[d]
        /\ invocation_stack'[m + 1] = new
    BY <1>2, <1>10, <2>1, LenProperties
  <2>3. m + 1 \in DOMAIN invocation_stack'
    BY <1>2, <2>2
  <2>4. \A d \in DOMAIN invocation_stack' : d \in 1..m \/ d = m + 1
    BY <1>2, <2>2
  <2>5. \A d \in 1..m : d \in DOMAIN invocation_stack'
    BY <1>2, <2>2
  <2> HIDE DEF new, m
  <2>6. DOMAIN invocation_stack = 1..m
    BY <1>2 DEF m
  <2> QED
    BY <2>1, <2>2, <2>3, <2>4, <2>5, <2>6 DEF OpenIn
<1>12. \A k \in DOMAIN invocations' : k \in DOMAIN invocations \/ k = new
  BY <1>2, <1>7
<1>13. c \notin DOMAIN spans /\ c \in DOMAIN spans' /\ \A i \in DOMAIN spans : i \in DOMAIN spans'
  BY <1>2, <1>6
<1>14. c # 1
  <2>1. DOMAIN spans # {}
    BY InnermostSpan
  <2> QED
    BY <1>2, <2>1
<1> HIDE DEF new, c
<1>15. OwnSpans'
  <2>1. \A i : i \in Analysis!OpenNamed' <=> i \in Analysis!OpenNamed
    BY <1>5, NamedOpen
  <2>2. c \notin Analysis!OpenNamed
    BY <1>13 DEF Typed, Analysis!AnalysisTypeOK
  <2>3. \A k \in DOMAIN invocations' :
          /\ call_spans'[k] \in DOMAIN spans' /\ call_spans'[k] # 1
          /\ call_spans'[k] \notin Analysis!OpenNamed'
    BY <1>9, <1>12, <1>13, <1>14, <2>1, <2>2 DEF OwnSpans
  <2>4. \A h, k \in DOMAIN invocations' : call_spans'[h] = call_spans'[k] => h = k
    BY <1>9, <1>12, <1>13 DEF OwnSpans
  <2> QED
    BY <1>7, <1>9, <2>3, <2>4 DEF OwnSpans
<1>16. ASSUME NEW k \in DOMAIN invocations
       PROVE  TotalSum(spans', call_spans'[k])
                = Due(spans', call_spans', invocations', invocation_stack', k)
  <2> DEFINE subs == SubsOf(invocations, k)
             n == Len(subs)
  <2>1. /\ n \in Nat /\ DOMAIN subs = 1..n
        /\ \A p \in 1..n : subs[p] \in DOMAIN invocations
    BY FiledFacts
  <2>2. SubsOf(invocations', k) = subs
    BY <1>7 DEF SubsOf
  <2>3. \A j \in DOMAIN invocations : spans'[call_spans'[j]] = spans[call_spans[j]]
    BY <1>6, <1>9 DEF OwnSpans
  <2>4. \A j \in DOMAIN invocations :
          /\ TotalSum(spans', call_spans'[j]) = TotalSum(spans, call_spans[j])
          /\ SelfSum(spans', call_spans'[j]) = SelfSum(spans, call_spans[j])
    BY <2>3 DEF TotalSum, SelfSum
  <2> HIDE DEF subs, n
  <2>5. Given(spans', call_spans', subs) = Given(spans, call_spans, subs)
    <3>1. \A p \in 1..n : TotalSum(spans', call_spans'[subs[p]]) = TotalSum(spans, call_spans[subs[p]])
      BY <2>1, <2>4
    <3> QED
      BY <2>1, <3>1, ListKept
  <2>6. TotalSum(spans, call_spans[k]) = Due(spans, call_spans, invocations, invocation_stack, k)
    BY DEF PassedOn
  <2>7. Due(spans, call_spans, invocations, invocation_stack, k)
          = Given(spans, call_spans, subs)
              + (IF OpenIn(invocation_stack, k) THEN 0 ELSE SelfSum(spans, call_spans[k]))
    BY DEF Due, subs
  <2>8. Due(spans', call_spans', invocations', invocation_stack', k)
          = Given(spans', call_spans', subs)
              + (IF OpenIn(invocation_stack', k) THEN 0 ELSE SelfSum(spans', call_spans'[k]))
    BY <2>2 DEF Due
  <2> QED
    BY <1>11, <2>4, <2>5, <2>6, <2>7, <2>8
<1>17. TotalSum(spans', call_spans'[new])
         = Due(spans', call_spans', invocations', invocation_stack', new)
  <2>1. TotalSum(spans', call_spans'[new]) = 0
    BY <1>3, <1>6, <1>9 DEF TotalSum
  <2>2. SubsOf(invocations', new) = <<>>
    BY <1>4, <1>7 DEF SubsOf
  <2>3. Given(spans', call_spans', SubsOf(invocations', new)) = 0
    BY <2>2, GivenNothing
  <2> QED
    BY <1>11, <2>1, <2>3 DEF Due
<1> QED
  BY <1>12, <1>15, <1>16, <1>17 DEF PassedOn

(* What the conversion does at the end of a call: k ends, and is filed     *)
(* under the call p around it, if there is one.                            *)
LEMMA FilesEnded ==
  ASSUME Typed, ConversionProofs!InvocationInv, NEW code, Conversion!End(code),
         conversion_status = "reading", conversion_status' # "panicked"
  PROVE  LET m == Len(invocation_stack)
             k == invocation_stack[m]
             p == invocation_stack[m - 1]
         IN /\ m \in Nat /\ m >= 1 /\ m \in DOMAIN invocation_stack
            /\ k \in DOMAIN invocations /\ OpenIn(invocation_stack, k)
            /\ DOMAIN invocations' = DOMAIN invocations
            /\ \A j : OpenIn(invocation_stack', j) <=> OpenIn(invocation_stack, j) /\ j # k
            /\ m = 1 => \A j \in DOMAIN invocations :
                          SubsOf(invocations', j) = SubsOf(invocations, j)
            /\ m > 1 => /\ p \in DOMAIN invocations /\ p # k /\ OpenIn(invocation_stack, p)
                        /\ m - 1 \in DOMAIN invocation_stack
                        /\ SubsOf(invocations', p) = Append(SubsOf(invocations, p), k)
                        /\ \A j \in DOMAIN invocations \ {p} :
                             SubsOf(invocations', j) = SubsOf(invocations, j)
<1> DEFINE m == Len(invocation_stack)
           k == invocation_stack[m]
           p == invocation_stack[m - 1]
<1>1. Conversion!EndInner(code) \/ Conversion!EndRoot(code)
  BY DEF Conversion!End, Conversion!EndUnexpected, Conversion!Panic
<1>2. /\ m \in Nat /\ DOMAIN invocation_stack = 1..m
      /\ invocation_stack \in Seq(DOMAIN invocations)
      /\ \A d \in 1..m : invocation_stack[d] \in DOMAIN invocations
  BY TypedFacts, LenProperties
<1>3. m >= 1 /\ invocation_stack' = Conversion!Front(invocation_stack)
  BY <1>1, <1>2 DEF Conversion!EndInner, Conversion!EndRoot
<1>4. m \in DOMAIN invocation_stack /\ k \in DOMAIN invocations /\ OpenIn(invocation_stack, k)
  BY <1>2, <1>3 DEF OpenIn
<1>5. /\ DOMAIN invocation_stack' = 1..(m - 1)
      /\ \A d \in 1..(m - 1) : invocation_stack'[d] = invocation_stack[d]
  <2>1. /\ Conversion!Front(invocation_stack) \in Seq(DOMAIN invocations)
        /\ Len(Conversion!Front(invocation_stack)) = m - 1
        /\ \A d \in 1..(m - 1) : Conversion!Front(invocation_stack)[d] = invocation_stack[d]
    BY <1>2, <1>3, AllButLast DEF Conversion!Front
  <2> QED
    BY <1>3, <2>1, LenProperties
<1>6. \A d, e \in DOMAIN invocation_stack : invocation_stack[d] = invocation_stack[e] => d = e
  BY FiledFacts
<1>7. ASSUME NEW j
      PROVE  OpenIn(invocation_stack', j) <=> OpenIn(invocation_stack, j) /\ j # k
  <2>1. \A d \in 1..(m - 1) : d \in DOMAIN invocation_stack /\ d # m
    BY <1>2
  <2>2. \A d \in DOMAIN invocation_stack : d \in 1..(m - 1) \/ d = m
    BY <1>2
  <2>3. ASSUME OpenIn(invocation_stack', j)
        PROVE  OpenIn(invocation_stack, j) /\ j # k
    <3>1. PICK d \in 1..(m - 1) : invocation_stack[d] = j
      BY <1>5, <2>3 DEF OpenIn
    <3> QED
      BY <1>4, <1>6, <2>1, <3>1 DEF OpenIn
  <2>4. ASSUME OpenIn(invocation_stack, j), j # k
        PROVE  OpenIn(invocation_stack', j)
    <3>1. PICK d \in DOMAIN invocation_stack : invocation_stack[d] = j
      BY <2>4 DEF OpenIn
    <3>2. d \in 1..(m - 1)
      BY <2>2, <2>4, <3>1
    <3> QED
      BY <1>5, <3>1, <3>2 DEF OpenIn
  <2> QED
    BY <2>3, <2>4
<1>8. Conversion!Last(invocation_stack) = k
  BY DEF Conversion!Last
<1> HIDE DEF k, m
<1>9. /\ DOMAIN Conversion!Closed(code) = DOMAIN invocations
      /\ \A j \in DOMAIN invocations :
           Conversion!Closed(code)[j].subinvocations = invocations[j].subinvocations
  <2>1. Conversion!Closed(code) = [invocations EXCEPT ![k].exit_code = code]
    BY <1>8 DEF Conversion!Closed
  <2>2. \A j \in DOMAIN invocations : invocations[j] \in Conversion!Invocation
    BY DEF Typed, Conversion!InvocationTypeOK
  <2>3. invocations[k] \in Conversion!Invocation
    BY <1>4, <2>2
  <2>4. [invocations[k] EXCEPT !.exit_code = code].subinvocations = invocations[k].subinvocations
    BY <2>3 DEF Conversion!Invocation
  <2>5. Conversion!Closed(code) = [invocations EXCEPT ![k] = [invocations[k] EXCEPT !.exit_code = code]]
    BY <2>1
  <2> QED
    BY <1>4, <2>4, <2>5
<1>10. CASE Conversion!EndRoot(code)
  <2>1. m = 1 /\ invocations' = Conversion!Closed(code)
    BY <1>10 DEF Conversion!EndRoot, m
  <2>2. \A j \in DOMAIN invocations : SubsOf(invocations', j) = SubsOf(invocations, j)
    BY <1>9, <2>1 DEF SubsOf
  <2> QED
    BY <1>2, <1>3, <1>4, <1>7, <1>9, <2>1, <2>2 DEF m, k
<1>11. CASE Conversion!EndInner(code)
  <2>1. m > 1
    BY <1>11 DEF Conversion!EndInner, m
  <2>2. m - 1 \in DOMAIN invocation_stack /\ m - 1 # m /\ m - 1 \in 1..(m - 1)
    BY <1>2, <2>1
  <2>3. Conversion!Last(Conversion!Front(invocation_stack)) = p
    <3>1. Len(Conversion!Front(invocation_stack)) = m - 1
      BY <1>2, <1>3, ConversionFront DEF m
    <3> QED
      BY <1>3, <1>5, <2>2, <3>1 DEF Conversion!Last
  <2> HIDE DEF p
  <2>4. p \in DOMAIN invocations /\ p # k /\ OpenIn(invocation_stack, p)
    BY <1>2, <1>4, <1>6, <2>2 DEF p, k, OpenIn
  <2>5. invocations' = [Conversion!Closed(code) EXCEPT ![p].subinvocations = Append(@, k)]
    BY <1>8, <1>11, <2>3 DEF Conversion!EndInner
  <2>6. Conversion!Closed(code)[p] = invocations[p]
    BY <1>8, <2>4 DEF Conversion!Closed
  <2>7. invocations[p] \in Conversion!Invocation
    BY <2>4 DEF Typed, Conversion!InvocationTypeOK
  <2>8. invocations' = [Conversion!Closed(code) EXCEPT ![p] =
                          [invocations[p] EXCEPT !.subinvocations = Append(@, k)]]
    BY <2>5, <2>6
  <2>9. [invocations[p] EXCEPT !.subinvocations = Append(@, k)].subinvocations
          = Append(invocations[p].subinvocations, k)
    BY <2>7 DEF Conversion!Invocation
  <2>10. DOMAIN invocations' = DOMAIN invocations
    BY <1>9, <2>8
  <2>11. SubsOf(invocations', p) = Append(SubsOf(invocations, p), k)
    BY <1>9, <2>4, <2>8, <2>9 DEF SubsOf
  <2>12. \A j \in DOMAIN invocations \ {p} : SubsOf(invocations', j) = SubsOf(invocations, j)
    BY <1>9, <2>4, <2>8 DEF SubsOf
  <2> QED
    <3>1. /\ m \in Nat /\ m >= 1 /\ m \in DOMAIN invocation_stack
          /\ k \in DOMAIN invocations /\ OpenIn(invocation_stack, k)
          /\ DOMAIN invocations' = DOMAIN invocations
          /\ \A j : OpenIn(invocation_stack', j) <=> OpenIn(invocation_stack, j) /\ j # k
      BY <1>2, <1>3, <1>4, <1>7, <2>10
    <3>2. m # 1
      BY <2>1
    <3>3. /\ p \in DOMAIN invocations /\ p # k /\ OpenIn(invocation_stack, p)
          /\ m - 1 \in DOMAIN invocation_stack
          /\ SubsOf(invocations', p) = Append(SubsOf(invocations, p), k)
          /\ \A j \in DOMAIN invocations \ {p} : SubsOf(invocations', j) = SubsOf(invocations, j)
      BY <2>2, <2>4, <2>11, <2>12
    <3> QED
      BY <3>1, <3>2, <3>3, Zenon DEF m, k, p
<1> QED
  BY <1>1, <1>10, <1>11 DEF m, k, p

(* What the analysis does: the span x of the call gets its own gas into    *)
(* its total, and that is added to the total of the span y around it.      *)
LEMMA ClosesSpan ==
  ASSUME Typed, Analysis!ReadCallReturn
  PROVE  LET x == call_stack[Len(call_stack)]
             y == call_stack[Len(call_stack) - 1]
         IN /\ Len(call_stack) > 1 /\ x \in DOMAIN spans /\ y \in DOMAIN spans
            /\ DOMAIN spans' = DOMAIN spans /\ named_spans' = named_spans
            /\ x # y => /\ SelfSum(spans', x) = SelfSum(spans, x)
                        /\ TotalSum(spans', x) = TotalSum(spans, x) + SelfSum(spans, x)
                        /\ SelfSum(spans', y) = SelfSum(spans, y)
                        /\ TotalSum(spans', y) = TotalSum(spans, y) + TotalSum(spans', x)
            /\ \A c \in DOMAIN spans \ {x, y} : spans'[c] = spans[c]
<1> DEFINE x == call_stack[Len(call_stack)]
           y == call_stack[Len(call_stack) - 1]
           closed == Analysis!AddSelfToTotalGas(spans[x])
<1>1. /\ call_stack \in Seq(Nat) /\ Len(call_stack) \in Nat /\ Len(call_stack) > 1
      /\ DOMAIN call_stack = 1..Len(call_stack)
  BY TypedFacts, LenProperties DEF Analysis!ReadCallReturn
<1>2. /\ Analysis!Last(call_stack) = x
      /\ Analysis!Last(Analysis!Front(call_stack)) = y
  <2>1. /\ Len(Analysis!Front(call_stack)) = Len(call_stack) - 1
        /\ \A d \in 1..(Len(call_stack) - 1) : Analysis!Front(call_stack)[d] = call_stack[d]
    <3>1. Len(call_stack) >= 1
      BY <1>1
    <3> QED
      BY <1>1, <3>1, AnalysisFront
  <2>2. Len(call_stack) - 1 \in 1..(Len(call_stack) - 1)
    BY <1>1
  <2> QED
    BY <2>1, <2>2 DEF Analysis!Last
<1>3. x \in DOMAIN spans /\ y \in DOMAIN spans
  <2>1. Len(call_stack) \in DOMAIN call_stack /\ Len(call_stack) - 1 \in DOMAIN call_stack
    BY <1>1
  <2>2. x \in Analysis!OpenCalls /\ y \in Analysis!OpenCalls
    BY <2>1 DEF Analysis!OpenCalls, Analysis!ToSet
  <2> QED
    BY <2>2 DEF Typed, Analysis!AnalysisTypeOK
<1>4. /\ spans' = [spans EXCEPT ![x] = closed, ![y] = Analysis!AddOtherToTotalGas(@, closed)]
      /\ named_spans' = named_spans
  BY <1>2 DEF Analysis!ReadCallReturn
<1> HIDE DEF x, y
<1>5. closed.self = spans[x].self /\ closed.total.sum = spans[x].total.sum + spans[x].self.sum
  BY DEF Analysis!AddSelfToTotalGas, Analysis!Merged
<1>6. ASSUME x # y
      PROVE  /\ SelfSum(spans', x) = SelfSum(spans, x)
             /\ TotalSum(spans', x) = TotalSum(spans, x) + SelfSum(spans, x)
             /\ SelfSum(spans', y) = SelfSum(spans, y)
             /\ TotalSum(spans', y) = TotalSum(spans, y) + TotalSum(spans', x)
  <2> HIDE DEF closed
  <2>1. /\ spans'[x] = closed
        /\ spans'[y] = Analysis!AddOtherToTotalGas(spans[y], closed)
    BY <1>3, <1>4, <1>6
  <2> QED
    BY <1>5, <2>1 DEF SelfSum, TotalSum, Analysis!AddOtherToTotalGas, Analysis!Merged
<1>7. DOMAIN spans' = DOMAIN spans /\ \A c \in DOMAIN spans \ {x, y} : spans'[c] = spans[c]
  BY <1>4
<1> QED
  BY <1>1, <1>3, <1>4, <1>6, <1>7 DEF x, y

(* What the span of the ended call used goes to the span of the one        *)
(* around it, in whose list it is filed.                                   *)
LEMMA EndGas ==
  ASSUME Typed, Typed', StacksInv, BothReading, ConversionProofs!InvocationInv, OwnSpans, PassedOn,
         NEW code, NEW converted, EndOfCall(converted), converted => Conversion!End(code),
         analysis_status' # "panicked", conversion_status' # "panicked"
  PROVE  OwnSpans' /\ PassedOn'
<1> DEFINE m == Len(invocation_stack)
           k == invocation_stack[m]
           p == invocation_stack[m - 1]
           x == call_stack[Len(call_stack)]
           y == call_stack[Len(call_stack) - 1]
<1>1. Conversion!End(code) /\ Analysis!ReadCallReturn /\ call_spans' = call_spans
  BY DEF EndOfCall, Analysed, Converted, BothReading, Analysis!ReadUnmatchedReturn, Analysis!Panic
<1>2. /\ m \in Nat /\ m >= 1 /\ m \in DOMAIN invocation_stack
      /\ k \in DOMAIN invocations /\ OpenIn(invocation_stack, k)
      /\ DOMAIN invocations' = DOMAIN invocations
      /\ \A j : OpenIn(invocation_stack', j) <=> OpenIn(invocation_stack, j) /\ j # k
      /\ m = 1 => \A j \in DOMAIN invocations : SubsOf(invocations', j) = SubsOf(invocations, j)
      /\ m > 1 => /\ p \in DOMAIN invocations /\ p # k /\ OpenIn(invocation_stack, p)
                  /\ m - 1 \in DOMAIN invocation_stack
                  /\ SubsOf(invocations', p) = Append(SubsOf(invocations, p), k)
                  /\ \A j \in DOMAIN invocations \ {p} :
                       SubsOf(invocations', j) = SubsOf(invocations, j)
  BY <1>1, FilesEnded DEF BothReading
<1>3. /\ x \in DOMAIN spans /\ y \in DOMAIN spans
      /\ DOMAIN spans' = DOMAIN spans /\ named_spans' = named_spans
      /\ x # y => /\ SelfSum(spans', x) = SelfSum(spans, x)
                  /\ TotalSum(spans', x) = TotalSum(spans, x) + SelfSum(spans, x)
                  /\ SelfSum(spans', y) = SelfSum(spans, y)
                  /\ TotalSum(spans', y) = TotalSum(spans, y) + TotalSum(spans', x)
      /\ \A c \in DOMAIN spans \ {x, y} : spans'[c] = spans[c]
  BY <1>1, ClosesSpan
<1>4. x = call_spans[k] /\ (m = 1 => y = 1) /\ (m > 1 => y = call_spans[p])
  <2>1. /\ Len(call_stack) = m + 1 /\ call_stack[1] = 1
        /\ \A d \in 1..m : call_stack[d + 1] = call_spans[invocation_stack[d]]
    BY DEF BothReading, StacksInv
  <2>2. x = call_stack[m + 1] /\ y = call_stack[m]
    BY <1>2, <2>1
  <2>3. m \in 1..m /\ (m > 1 => m - 1 \in 1..m /\ (m - 1) + 1 = m)
    BY <1>2
  <2>4. call_stack[m + 1] = call_spans[invocation_stack[m]]
    BY <2>1, <2>3
  <2>5. m > 1 => call_stack[(m - 1) + 1] = call_spans[invocation_stack[m - 1]]
    BY <2>1, <2>3
  <2> QED
    BY <2>1, <2>2, <2>3, <2>4, <2>5
<1> HIDE DEF m, k, p, x, y
<1>5. m = 1 \/ m > 1
  <2>1. m \in Nat /\ m >= 1
    BY <1>2
  <2> QED
    BY <2>1
<1>6. x # y
  BY <1>2, <1>4, <1>5 DEF OwnSpans
<1>7. OwnSpans'
  <2>1. \A c : c \in Analysis!OpenNamed' <=> c \in Analysis!OpenNamed
    BY <1>3, NamedOpen
  <2>2. Len(invocations') = Len(invocations)
    <3>1. /\ Len(invocations) \in Nat /\ DOMAIN invocations = 1..Len(invocations)
          /\ Len(invocations') \in Nat /\ DOMAIN invocations' = 1..Len(invocations')
      BY TypedFacts
    <3> QED
      BY <1>2, <3>1, SameLength
  <2> QED
    BY <1>1, <1>2, <1>3, <2>1, <2>2 DEF OwnSpans
<1>8. ASSUME NEW j \in DOMAIN invocations, j # k, ~(m > 1 /\ j = p)
      PROVE  /\ TotalSum(spans', call_spans[j]) = TotalSum(spans, call_spans[j])
             /\ SelfSum(spans', call_spans[j]) = SelfSum(spans, call_spans[j])
             /\ SubsOf(invocations', j) = SubsOf(invocations, j)
  <2>1. call_spans[j] \in DOMAIN spans /\ call_spans[j] # x /\ call_spans[j] # y
    BY <1>2, <1>4, <1>5, <1>8 DEF OwnSpans
  <2>2. spans'[call_spans[j]] = spans[call_spans[j]]
    BY <1>3, <2>1
  <2>3. SubsOf(invocations', j) = SubsOf(invocations, j)
    BY <1>2, <1>5, <1>8
  <2> QED
    BY <2>2, <2>3 DEF TotalSum, SelfSum
<1>9. ASSUME NEW j \in DOMAIN invocations
      PROVE  Given(spans', call_spans, SubsOf(invocations, j))
               = Given(spans, call_spans, SubsOf(invocations, j))
  <2> DEFINE subs == SubsOf(invocations, j)
             n == Len(subs)
  <2>1. /\ n \in Nat /\ DOMAIN subs = 1..n
        /\ \A i \in 1..n : subs[i] \in DOMAIN invocations /\ ~OpenIn(invocation_stack, subs[i])
    BY FiledFacts
  <2> HIDE DEF subs, n
  <2>2. \A i \in 1..n : TotalSum(spans', call_spans[subs[i]]) = TotalSum(spans, call_spans[subs[i]])
    <3> SUFFICES ASSUME NEW i \in 1..n
                 PROVE  TotalSum(spans', call_spans[subs[i]]) = TotalSum(spans, call_spans[subs[i]])
      OBVIOUS
    <3>1. subs[i] \in DOMAIN invocations /\ ~OpenIn(invocation_stack, subs[i])
      BY <2>1
    <3>2. subs[i] # k /\ ~(m > 1 /\ subs[i] = p)
      BY <1>2, <3>1
    <3> QED
      BY <1>8, <3>1, <3>2
  <2>3. n \in Nat /\ DOMAIN subs = 1..n
    BY <2>1
  <2>4. Given(spans', call_spans, subs) = Given(spans, call_spans, subs)
    <3>1. PICK list : list = subs
      OBVIOUS
    <3>2. PICK size \in Nat : size = n
      BY <2>3
    <3>3. PICK later : later = spans'
      OBVIOUS
    <3>4. /\ DOMAIN list = 1..size
          /\ \A i \in 1..size :
               TotalSum(later, call_spans[list[i]]) = TotalSum(spans, call_spans[list[i]])
      BY <2>2, <2>3, <3>1, <3>2, <3>3
    <3>5. Given(later, call_spans, list) = Given(spans, call_spans, list)
      BY <3>4, ListKept
    <3> QED
      BY <3>1, <3>3, <3>5
  <2> QED
    BY <2>4 DEF subs
<1>10. ASSUME NEW j \in DOMAIN invocations
       PROVE  /\ TotalSum(spans, call_spans[j]) \in Nat
              /\ SelfSum(spans, call_spans[j]) \in Nat
              /\ Given(spans, call_spans, SubsOf(invocations, j)) \in Nat
              /\ TotalSum(spans, call_spans[j])
                   = Given(spans, call_spans, SubsOf(invocations, j))
                       + (IF OpenIn(invocation_stack, j) THEN 0 ELSE SelfSum(spans, call_spans[j]))
  BY SpanSums, GivenNat DEF OwnSpans, PassedOn, Due
<1>11. ASSUME NEW j \in DOMAIN invocations
       PROVE  TotalSum(spans', call_spans[j])
                = Given(spans', call_spans, SubsOf(invocations', j))
                    + (IF OpenIn(invocation_stack', j) THEN 0 ELSE SelfSum(spans', call_spans[j]))
  <2>1. CASE j = k
    <3>1. SubsOf(invocations', j) = SubsOf(invocations, j)
      BY <1>2, <1>5, <2>1
    <3>2. OpenIn(invocation_stack, j) /\ ~OpenIn(invocation_stack', j)
      BY <1>2, <2>1
    <3>3. /\ TotalSum(spans', call_spans[j])
               = TotalSum(spans, call_spans[j]) + SelfSum(spans, call_spans[j])
          /\ SelfSum(spans', call_spans[j]) = SelfSum(spans, call_spans[j])
      BY <1>3, <1>4, <1>6, <2>1
    <3>4. TotalSum(spans, call_spans[j]) = Given(spans, call_spans, SubsOf(invocations, j))
      BY <1>10, <3>2
    <3> QED
      BY <1>9, <3>1, <3>2, <3>3, <3>4
  <2>2. CASE m > 1 /\ j = p
    <3> DEFINE subs == SubsOf(invocations, j)
    <3>1. /\ subs \in Seq(DOMAIN invocations)
          /\ \A i \in 1..Len(subs) :
               subs[i] \in DOMAIN invocations /\ ~OpenIn(invocation_stack, subs[i])
      BY FiledFacts
    <3>2. /\ SubsOf(invocations', j) = Append(subs, k)
          /\ OpenIn(invocation_stack, j) /\ OpenIn(invocation_stack', j)
      BY <1>2, <2>2
    <3>3. \A c \in DOMAIN spans' : TotalSum(spans', c) \in Nat
      <4>1. \A c \in DOMAIN spans' : spans'[c] \in Analysis!Span
        BY DEF Typed, Analysis!AnalysisTypeOK
      <4> QED
        BY <4>1 DEF TotalSum, Analysis!Span, Analysis!Gas
    <3>4. \A i \in DOMAIN invocations : call_spans[i] \in DOMAIN spans'
      BY <1>3 DEF OwnSpans
    <3> HIDE DEF subs
    <3>5. /\ \A i \in 1..Len(subs) : spans'[call_spans[subs[i]]].total.sum \in Nat
          /\ spans'[call_spans[k]].total.sum \in Nat
      BY <1>2, <3>1, <3>3, <3>4 DEF TotalSum
    <3>6. Given(spans', call_spans, Append(subs, k))
            = Given(spans', call_spans, subs) + spans'[call_spans[k]].total.sum
      BY <1>2, <3>1, <3>5, GivenAppend
    <3>7. Given(spans', call_spans, SubsOf(invocations', j))
            = Given(spans, call_spans, subs) + TotalSum(spans', x)
      BY <1>4, <1>9, <3>2, <3>6 DEF subs, TotalSum
    <3>8. TotalSum(spans', call_spans[j]) = TotalSum(spans, call_spans[j]) + TotalSum(spans', x)
      BY <1>3, <1>4, <1>6, <2>2
    <3>9. TotalSum(spans, call_spans[j]) = Given(spans, call_spans, subs)
      BY <1>10, <3>2 DEF subs
    <3>10. TotalSum(spans', x) \in Nat
      BY <1>3, <3>3
    <3>11. Given(spans, call_spans, subs) \in Nat
      BY <1>10 DEF subs
    <3> QED
      BY <3>2, <3>7, <3>8, <3>9, <3>10, <3>11
  <2>3. CASE j # k /\ ~(m > 1 /\ j = p)
    <3>1. /\ TotalSum(spans', call_spans[j]) = TotalSum(spans, call_spans[j])
          /\ SelfSum(spans', call_spans[j]) = SelfSum(spans, call_spans[j])
          /\ SubsOf(invocations', j) = SubsOf(invocations, j)
      BY <1>8, <2>3
    <3>2. OpenIn(invocation_stack', j) <=> OpenIn(invocation_stack, j)
      BY <1>2, <2>3
    <3> QED
      BY <1>9, <1>10, <3>1, <3>2
  <2> QED
    BY <2>1, <2>2, <2>3
<1>12. PassedOn'
  BY <1>1, <1>2, <1>11 DEF PassedOn, Due
<1> QED
  BY <1>7, <1>12

-----------------------------------------------------------------------------
(* The end of the trace closes the span of the root, which is no call's.   *)
LEMMA FinishGas ==
  ASSUME Typed, StacksInv, BothReading, ConversionProofs!InvocationInv, OwnSpans, PassedOn,
         EndOfTrace, analysis_status' # "panicked", conversion_status' # "panicked"
  PROVE  OwnSpans' /\ PassedOn'
<1>1. Analysis!Finish /\ Conversion!Finish /\ call_spans' = call_spans
  BY DEF EndOfTrace, Analysed, Converted, BothReading, Analysis!FinishWithOpenCalls,
    Analysis!Panic
<1>2. UNCHANGED <<invocations, invocation_stack, call_spans>>
  BY <1>1 DEF Conversion!Finish, Conversion!Panic
<1>3. Analysis!Last(call_stack) = 1
  BY <1>1 DEF Analysis!Finish, Analysis!Last, StacksInv
<1>4. /\ spans' = [spans EXCEPT ![1] = Analysis!AddSelfToTotalGas(spans[1])]
      /\ named_spans' = named_spans
  BY <1>1, <1>3 DEF Analysis!Finish
<1>5. \A c : c \in Analysis!OpenNamed' => c \in Analysis!OpenNamed
  BY <1>4, NamedOpen
<1> QED
  BY <1>2, <1>4, <1>5, OtherSpanGas

(* Nothing is read, or nothing but an event of no account.                 *)
LEMMA IdleGas ==
  ASSUME OwnSpans, PassedOn,
         UNCHANGED <<spans, named_spans, invocations, invocation_stack, call_spans>>
  PROVE  OwnSpans' /\ PassedOn'
  BY DEF OwnSpans, PassedOn, Analysis!OpenNamed

(* A reader that has not panicked has read on.                             *)
LEMMA EventReaders ==
  ASSUME Event, NEW first, NEW second, Analysed(first), Converted(second), NonePanicked'
  PROVE  BothReading /\ first /\ second
  BY DEF Event, Analysed, Converted, BothReading, NonePanicked, analysisVars, conversionVars

LEMMA EndReaders ==
  ASSUME EndOfTrace, NonePanicked'
  PROVE  BothReading
  BY DEF EndOfTrace, Analysed, Converted, BothReading, NonePanicked, analysisVars, conversionVars

LEMMA GasStep ==
  ASSUME Typed, Typed', StacksInv, ConversionProofs!InvocationInv, GasInv, [TraceNext]_vars
  PROVE  GasInv'
<1> SUFFICES ASSUME NonePanicked'
             PROVE  OwnSpans' /\ PassedOn'
  BY DEF GasInv
<1>1. analysis_status' # "panicked" /\ conversion_status' # "panicked"
  BY DEF NonePanicked
<1>2. BothReading => OwnSpans /\ PassedOn
  BY DEF GasInv, BothReading, NonePanicked
<1>3. ASSUME UNCHANGED readerVars PROVE OwnSpans' /\ PassedOn'
  <2>1. UNCHANGED <<spans, named_spans, invocations, invocation_stack, call_spans>>
    BY <1>3 DEF readerVars, analysisVars, conversionVars
  <2>2. NonePanicked
    BY <1>3 DEF readerVars, analysisVars, conversionVars, NonePanicked
  <2> QED
    BY <2>1, <2>2, IdleGas DEF GasInv
<1>4. ASSUME NEW name \in GasNames, NEW milli \in Amounts, GasCharge(name, milli)
      PROVE  OwnSpans' /\ PassedOn'
  <2>1. BothReading
    BY <1>4, EventReaders DEF GasCharge
  <2> QED
    BY <1>2, <1>4, <2>1, ChargeGas
<1>5. ASSUME Call PROVE OwnSpans' /\ PassedOn'
  <2>1. BothReading
    BY <1>5, EventReaders DEF Call
  <2> QED
    BY <1>2, <1>5, <2>1, CallGas
<1>6. ASSUME NEW code, NEW converted, EndOfCall(converted), converted => Conversion!End(code)
      PROVE  OwnSpans' /\ PassedOn'
  <2>1. BothReading
    BY <1>6, EventReaders DEF EndOfCall
  <2> QED
    BY <1>1, <1>2, <1>6, <2>1, EndGas
<1>7. ASSUME InvokeActor PROVE OwnSpans' /\ PassedOn'
  <2>1. BothReading /\ Analysis!ReadOther /\ Conversion!ReadOther
    BY <1>7, EventReaders DEF InvokeActor
  <2>2. UNCHANGED <<spans, named_spans, invocations, invocation_stack, call_spans>>
    BY <1>7, <2>1 DEF InvokeActor, Analysis!ReadOther, Conversion!ReadOther
  <2> QED
    BY <1>2, <2>1, <2>2, IdleGas
<1>8. ASSUME NEW name \in SpanNames, SpanLog(name) PROVE OwnSpans' /\ PassedOn'
  <2>1. BothReading
    BY <1>8, EventReaders DEF SpanLog
  <2> QED
    BY <1>1, <1>2, <1>8, <2>1, SpanLogGas
<1>9. ASSUME EndOfTrace PROVE OwnSpans' /\ PassedOn'
  <2>1. BothReading
    BY <1>9, EndReaders
  <2> QED
    BY <1>1, <1>2, <1>9, <2>1, FinishGas
<1>10. /\ \A code \in ExitCodes : CallReturn(code) => OwnSpans' /\ PassedOn'
       /\ \A errno \in ErrorNumbers : CallError(errno) => OwnSpans' /\ PassedOn'
  BY <1>6, ReturnEnds DEF CallReturn, CallError
<1> QED
  BY <1>3, <1>4, <1>5, <1>7, <1>8, <1>9, <1>10
  DEF TraceNext, BenchEvent, RunUntraced, TraceAsTrace, CallerEvent, vars

LEMMA FiledAlways == Conversion!InvocationSpec => []ConversionProofs!InvocationInv
<1>1. ConversionProofs!InvocationSpec => []ConversionProofs!InvocationInv
  BY ConversionAssumed, ConversionProofs!InvocationInvariant
<1>2. Conversion!InvocationInit => ConversionProofs!InvocationInit
  BY ConversionSame
<1>3. [Conversion!InvocationNext]_(Conversion!invocationVars)
        => [ConversionProofs!InvocationNext]_(ConversionProofs!invocationVars)
  BY ConversionSame
<1> QED
  BY <1>1, <1>2, <1>3, PTL DEF Conversion!InvocationSpec, ConversionProofs!InvocationSpec

LEMMA GasInit == TraceInit => GasInv
<1> SUFFICES ASSUME TraceInit PROVE OwnSpans /\ PassedOn
  BY DEF GasInv
<1>1. invocations = <<>> /\ call_spans = <<>>
  BY DEF TraceInit, Conversion!InvocationInit
<1>2. DOMAIN invocations = {} /\ Len(invocations) = Len(call_spans) /\ call_spans \in Seq(Nat)
  BY <1>1, EmptySeq
<1> QED
  BY <1>2 DEF OwnSpans, PassedOn

(* What an ended call passed on is what the property adds up.              *)
LEMMA GasAddsUp ==
  ASSUME Typed, ConversionProofs!InvocationInv, OwnSpans, PassedOn,
         NEW k \in DOMAIN invocations, ~OpenIn(invocation_stack, k)
  PROVE  TotalSum(spans, call_spans[k])
           = SumFrom(SelfSum(spans, call_spans[k]), spans, call_spans, SubsOf(invocations, k))
<1> DEFINE subs == SubsOf(invocations, k)
           n == Len(subs)
           own == SelfSum(spans, call_spans[k])
<1>1. /\ n \in Nat /\ DOMAIN subs = 1..n
      /\ \A p \in 1..n : subs[p] \in DOMAIN invocations
  BY FiledFacts
<1>2. own \in Nat
  BY SpanSums DEF OwnSpans
<1>3. TotalSum(spans, call_spans[k]) = Given(spans, call_spans, subs) + own
  BY DEF PassedOn, Due
<1> HIDE DEF subs, n, own
<1>4. \A p \in 1..n : spans[call_spans[subs[p]]].total.sum \in Nat
  BY <1>1, SpanSums DEF OwnSpans, TotalSum
<1>5. /\ SumFrom(own, spans, call_spans, subs) = own + Given(spans, call_spans, subs)
      /\ Given(spans, call_spans, subs) \in Nat
  BY <1>1, <1>2, <1>4, SumFromIs
<1>6. TotalSum(spans, call_spans[k]) = SumFrom(own, spans, call_spans, subs)
  BY <1>2, <1>3, <1>5
<1> QED
  BY <1>6 DEF own, subs

LEMMA GasFollowsFrom == Typed /\ ConversionProofs!InvocationInv /\ GasInv => GasFollowsInvocations
<1> SUFFICES ASSUME Typed, ConversionProofs!InvocationInv, OwnSpans, PassedOn,
                    NEW k \in DOMAIN invocations \ ToSet(invocation_stack)
             PROVE  LET span == spans[call_spans[k]]
                    IN span.total.sum
                         = FoldLeft(LAMBDA sum, h : sum + spans[call_spans[h]].total.sum,
                                    span.self.sum, invocations[k].subinvocations)
  BY DEF GasInv, GasFollowsInvocations
<1>1. k \in DOMAIN invocations /\ ~OpenIn(invocation_stack, k)
  BY DEF OpenIn, ToSet
<1>2. TotalSum(spans, call_spans[k])
        = SumFrom(SelfSum(spans, call_spans[k]), spans, call_spans, SubsOf(invocations, k))
  BY <1>1, GasAddsUp
<1> QED
  BY <1>2 DEF TotalSum, SumFrom, SelfSum, SubsOf

(* The gas of an ended invocation is its own and that of the invocations   *)
(* in its list, whatever the trace, as long as neither reader panics.      *)
THEOREM GasAlwaysFollows == TraceSpec => []GasFollowsInvocations
<1>1. TraceSpec => []ConversionProofs!InvocationInv
  BY ReadersIndependent, FiledAlways, PTL
<1>2. TraceInit => GasInv
  BY GasInit
<1>3. Typed /\ Typed' /\ StacksInv /\ ConversionProofs!InvocationInv /\ GasInv /\ [TraceNext]_vars
        => GasInv'
  BY GasStep
<1>4. Typed /\ ConversionProofs!InvocationInv /\ GasInv => GasFollowsInvocations
  BY GasFollowsFrom
<1> QED
  BY <1>1, <1>2, <1>3, <1>4, MessageTraceInvariant, PTL DEF TraceSpec

=============================================================================
