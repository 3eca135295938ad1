------------------------ MODULE TraceAnalysisProofs ------------------------
(***************************************************************************)
(* Theorems about TraceAnalysis, for any trace of any length: what it      *)
(* finds is what TraceReference counts and matches in the trace, and it    *)
(* panics on the traces that are malformed and on no other.                *)
(***************************************************************************)
EXTENDS TraceReference, SequenceTheorems, FiniteSetTheorems, WellFoundedInduction, TLAPS

(* No span is on the stack, or in the lists, twice.                        *)
Distinct ==
  /\ \A p, q \in DOMAIN call_stack : call_stack[p] = call_stack[q] => p = q
  /\ \A m, n \in SpanNames :
       \A p \in DOMAIN named_spans[m], q \in DOMAIN named_spans[n] :
         named_spans[m][p] = named_spans[n][q] => m = n /\ p = q
  /\ OpenCalls \cap OpenNamed = {}

AnalysisInv == AnalysisTypeOK /\ Distinct

-----------------------------------------------------------------------------
(* Spans.                                                                  *)

LEMMA GasTypes ==
  /\ NoGas \in Gas
  /\ \A gas \in Gas, name \in GasNames, milli \in Nat : Charged(gas, name, milli) \in Gas
  /\ \A gas, other \in Gas : Merged(gas, other) \in Gas
  BY DEF NoGas, Gas, Charged, Merged

LEMMA NewSpanType ==
  NewSpan \in Span
  BY GasTypes DEF NewSpan, Span

LEMMA AddSelfGasType ==
  ASSUME NEW span \in Span, NEW name \in GasNames, NEW milli \in Nat
  PROVE  AddSelfGas(span, name, milli) \in Span
  BY GasTypes DEF AddSelfGas, Span

LEMMA AddSelfToTotalType ==
  ASSUME NEW span \in Span
  PROVE  AddSelfToTotalGas(span) \in Span
  BY GasTypes DEF AddSelfToTotalGas, Span

LEMMA AddOtherType ==
  ASSUME NEW span \in Span, NEW other \in Span
  PROVE  AddOtherToTotalGas(span, other) \in Span
  BY GasTypes DEF AddOtherToTotalGas, Span

-----------------------------------------------------------------------------
(* Sequences.                                                              *)

(* What remains of a sequence when its last element is taken off.          *)
LEMMA FrontFacts ==
  ASSUME NEW S, NEW s \in Seq(S), s # <<>>
  PROVE  /\ Front(s) \in Seq(S)
         /\ Len(s) \in Nat \ {0}
         /\ DOMAIN s = 1..Len(s)
         /\ DOMAIN Front(s) = 1..(Len(s) - 1)
         /\ Len(Front(s)) = Len(s) - 1
         /\ \A p \in DOMAIN Front(s) : p \in DOMAIN s /\ Front(s)[p] = s[p]
         /\ Last(s) \in S
<1>1. Len(s) \in Nat \ {0} /\ DOMAIN s = 1..Len(s)
  BY EmptySeq, LenProperties
<1>2. \A i \in 1..(Len(s) - 1) : s[i] \in S
  BY <1>1, ElementOfSeq
<1>3. /\ SubSeq(s, 1, Len(s) - 1) \in Seq(S)
      /\ Len(SubSeq(s, 1, Len(s) - 1)) = IF 1 <= Len(s) - 1 THEN Len(s) - 1 - 1 + 1 ELSE 0
      /\ \A i \in 1..(Len(s) - 1 - 1 + 1) : SubSeq(s, 1, Len(s) - 1)[i] = s[1 + i - 1]
  BY <1>1, <1>2, SubSeqProperties
<1>4. Len(Front(s)) = Len(s) - 1
  BY <1>1, <1>3 DEF Front
<1>5. DOMAIN Front(s) = 1..(Len(s) - 1)
  BY <1>3, <1>4, LenProperties DEF Front
<1>6. \A p \in 1..(Len(s) - 1) : p \in DOMAIN s /\ Front(s)[p] = s[p]
  BY <1>1, <1>3 DEF Front
<1>7. Last(s) \in S
  BY <1>1, ElementOfSeq DEF Last
<1>. QED  BY <1>1, <1>3, <1>4, <1>5, <1>6, <1>7 DEF Front

LEMMA AppendIsSeq ==
  ASSUME NEW S, NEW s \in Seq(S), NEW e \in S
  PROVE  /\ Append(s, e) \in Seq(S)
         /\ Len(s) \in Nat
         /\ DOMAIN s = 1..Len(s)
         /\ Len(Append(s, e)) = Len(s) + 1
         /\ DOMAIN Append(s, e) = 1..(Len(s) + 1)
         /\ \A i \in 1..Len(s) : Append(s, e)[i] = s[i]
         /\ Append(s, e)[Len(s) + 1] = e
  BY LenProperties

(* A function on the indices of a sequence is a sequence of that length.   *)
LEMMA FunctionSeq ==
  ASSUME NEW S, NEW n \in Nat, NEW f \in [1..n -> S]
  PROVE  f \in Seq(S) /\ Len(f) = n
<1>1. f \in Seq(S)
  BY SeqDef
<1>2. Len(f) \in Nat /\ 1..Len(f) = 1..n
  BY <1>1, LenProperties
<1>. QED  BY <1>1, <1>2

-----------------------------------------------------------------------------
(* Open spans.                                                             *)

LEMMA OpenIndices ==
  ASSUME AnalysisInv
  PROVE  /\ Len(spans) \in Nat /\ DOMAIN spans = 1..Len(spans)
         /\ \A p \in DOMAIN call_stack : call_stack[p] \in OpenCalls
         /\ \A k \in OpenCalls : k \in DOMAIN spans /\ k \notin OpenNamed
         /\ \A k \in OpenNamed : k \in DOMAIN spans
         /\ \A k \in DOMAIN spans : spans[k] \in Span
<1>1. Len(spans) \in Nat /\ DOMAIN spans = 1..Len(spans)
  BY LenProperties DEF AnalysisInv, AnalysisTypeOK
<1>2. \A k \in DOMAIN spans : spans[k] \in Span
  BY <1>1, ElementOfSeq DEF AnalysisInv, AnalysisTypeOK
<1>. QED  BY <1>1, <1>2 DEF AnalysisInv, AnalysisTypeOK, Distinct, OpenCalls, ToSet

LEMMA TopOfStack ==
  ASSUME AnalysisInv, status = "reading"
  PROVE  /\ Len(call_stack) \in Nat \ {0}
         /\ DOMAIN call_stack = 1..Len(call_stack)
         /\ Last(call_stack) = call_stack[Len(call_stack)]
         /\ Last(call_stack) \in OpenCalls
<1>1. call_stack \in Seq(Nat) /\ call_stack # <<>>
  BY DEF AnalysisInv, AnalysisTypeOK
<1>2. /\ Len(call_stack) \in Nat \ {0}
      /\ DOMAIN call_stack = 1..Len(call_stack)
  BY <1>1, FrontFacts
<1>. QED  BY <1>2 DEF OpenCalls, ToSet, Last

LEMMA NamedDistinct ==
  ASSUME AnalysisInv,
         NEW m \in SpanNames, NEW p \in DOMAIN named_spans[m],
         NEW k \in SpanNames, NEW q \in DOMAIN named_spans[k],
         named_spans[m][p] = named_spans[k][q]
  PROVE  m = k /\ p = q
  BY DEF AnalysisInv, Distinct

(* Only the events read change in a step that keeps the spans.             *)
LEMMA SpansKept ==
  ASSUME AnalysisInv, UNCHANGED <<spans, call_stack, named_spans>>,
         status' \in {status, "panicked"}, trace' \in Seq(Event)
  PROVE  AnalysisInv'
<1>1. OpenCalls' = OpenCalls /\ OpenNamed' = OpenNamed
  BY DEF OpenCalls, OpenNamed, ToSet
<1>2. AnalysisTypeOK'
  BY <1>1 DEF AnalysisInv, AnalysisTypeOK
<1>3. Distinct'
  BY <1>1 DEF AnalysisInv, Distinct
<1>. QED  BY <1>2, <1>3 DEF AnalysisInv

LEMMA ReadType ==
  ASSUME AnalysisInv, NEW event \in Event, Read(event)
  PROVE  trace' \in Seq(Event)
  BY AppendIsSeq DEF Read, AnalysisInv, AnalysisTypeOK

-----------------------------------------------------------------------------
(* Steps.                                                                  *)

LEMMA ReadGasChargeInv ==
  ASSUME AnalysisInv, NEW name \in GasNames, NEW milli \in Amounts,
         ReadGasCharge(name, milli)
  PROVE  AnalysisInv'
<1>. DEFINE top == Last(call_stack)
            event == [kind |-> "charge", name |-> name, milli |-> milli]
<1>1. milli \in Nat /\ status = "reading"
  BY AmountAssumption DEF ReadGasCharge, Read
<1>2. trace' \in Seq(Event)
  <2>. event \in Event
    BY DEF Event
  <2>. QED  BY ReadType DEF ReadGasCharge
<1>3. /\ DOMAIN spans' = DOMAIN spans
      /\ \A k \in DOMAIN spans : spans'[k] \in Span
  <2>1. spans' = [k \in DOMAIN spans |->
                    IF k = top \/ k \in OpenNamed
                    THEN AddSelfGas(spans[k], name, milli) ELSE spans[k]]
    BY DEF ReadGasCharge
  <2>2. ASSUME NEW k \in DOMAIN spans
        PROVE  /\ spans[k] \in Span
               /\ AddSelfGas(spans[k], name, milli) \in Span
    BY <1>1, OpenIndices, AddSelfGasType
  <2>. QED  BY <2>1, <2>2
<1>5. spans' \in Seq(Span) /\ Len(spans') = Len(spans)
  <2>. spans' \in [1..Len(spans) -> Span]
    BY <1>3, OpenIndices DEF ReadGasCharge
  <2>. QED  BY FunctionSeq, OpenIndices
<1>6. UNCHANGED <<call_stack, named_spans, status, OpenCalls, OpenNamed>>
  BY DEF ReadGasCharge, OpenCalls, OpenNamed
<1>7. AnalysisTypeOK'
  BY <1>2, <1>3, <1>5, <1>6 DEF AnalysisInv, AnalysisTypeOK
<1>8. Distinct'
  BY <1>6 DEF AnalysisInv, Distinct
<1>. QED  BY <1>7, <1>8 DEF AnalysisInv

(* Opening a span adds an index that no open span has.                     *)
LEMMA Opened ==
  ASSUME AnalysisInv, spans' = Append(spans, NewSpan)
  PROVE  /\ spans' \in Seq(Span)
         /\ Len(spans') = Len(spans) + 1
         /\ DOMAIN spans' = DOMAIN spans \cup {Len(spans')}
         /\ Len(spans') \in Nat
         /\ Len(spans') \notin DOMAIN spans
         /\ \A k \in DOMAIN spans : spans'[k] = spans[k]
<1>1. spans \in Seq(Span)
  BY DEF AnalysisInv, AnalysisTypeOK
<1>2. /\ spans' \in Seq(Span)
      /\ Len(spans) \in Nat
      /\ DOMAIN spans = 1..Len(spans)
      /\ Len(spans') = Len(spans) + 1
      /\ DOMAIN spans' = 1..(Len(spans) + 1)
      /\ \A k \in 1..Len(spans) : spans'[k] = spans[k]
      /\ spans'[Len(spans) + 1] = NewSpan
  BY <1>1, AppendIsSeq, NewSpanType
<1>. QED  BY <1>2

LEMMA ReadCallInv ==
  ASSUME AnalysisInv, ReadCall
  PROVE  AnalysisInv'
<1>. DEFINE new == Len(spans')
<1>1. trace' \in Seq(Event)
  <2>. [kind |-> "call"] \in Event
    BY DEF Event
  <2>. QED  BY ReadType DEF ReadCall
<1>2. /\ spans' \in Seq(Span)
      /\ DOMAIN spans' = DOMAIN spans \cup {new}
      /\ new \in Nat /\ new \notin DOMAIN spans
      /\ \A k \in DOMAIN spans : spans'[k] = spans[k]
  BY Opened DEF ReadCall
<1>3. status = "reading" /\ status' = status /\ named_spans' = named_spans
  BY DEF ReadCall, Read
<1>4. /\ call_stack' \in Seq(Nat)
      /\ Len(call_stack) \in Nat
      /\ DOMAIN call_stack = 1..Len(call_stack)
      /\ Len(call_stack') = Len(call_stack) + 1
      /\ DOMAIN call_stack' = 1..(Len(call_stack) + 1)
      /\ \A p \in DOMAIN call_stack : call_stack'[p] = call_stack[p]
      /\ call_stack'[Len(call_stack) + 1] = new
  BY <1>2, AppendIsSeq DEF ReadCall, AnalysisInv, AnalysisTypeOK
<1>5. OpenCalls' = OpenCalls \cup {new} /\ OpenNamed' = OpenNamed
  BY <1>3, <1>4 DEF OpenCalls, OpenNamed, ToSet
<1>6. AnalysisTypeOK'
  <2>1. OpenCalls' \cup OpenNamed' \subseteq DOMAIN spans'
    BY <1>2, <1>5, OpenIndices
  <2>2. call_stack' # <<>>
    BY <1>4, EmptySeq
  <2>. QED  BY <1>1, <1>2, <1>3, <1>4, <2>1, <2>2 DEF AnalysisInv, AnalysisTypeOK
<1>7. Distinct'
  <2>1. \A p \in DOMAIN call_stack : call_stack[p] # new
    BY <1>2, OpenIndices
  <2>2. \A p, q \in DOMAIN call_stack' : call_stack'[p] = call_stack'[q] => p = q
    BY <1>4, <2>1 DEF AnalysisInv, Distinct
  <2>3. OpenCalls' \cap OpenNamed' = {}
    BY <1>2, <1>5, OpenIndices
  <2>. QED  BY <1>3, <2>2, <2>3 DEF AnalysisInv, Distinct
<1>. QED  BY <1>6, <1>7 DEF AnalysisInv

(* The innermost call closes, and its total goes to its parent.            *)
LEMMA ReadCallReturnInv ==
  ASSUME AnalysisInv, ReadCallReturn
  PROVE  AnalysisInv'
<1>. DEFINE n == Len(call_stack)
            top == Last(call_stack)
            parent == Last(Front(call_stack))
            closed == AddSelfToTotalGas(spans[top])
<1>1. trace' \in Seq(Event)
  <2>. [kind |-> "return"] \in Event
    BY DEF Event
  <2>. QED  BY ReadType DEF ReadCallReturn
<1>2. /\ status = "reading" /\ n > 1 /\ status' = status
      /\ named_spans' = named_spans
  BY DEF ReadCallReturn, Read
<1>3. /\ n \in Nat /\ DOMAIN call_stack = 1..n
      /\ call_stack' \in Seq(Nat)
      /\ Len(call_stack') = n - 1
      /\ DOMAIN call_stack' = 1..(n - 1)
      /\ \A p \in 1..(n - 1) : call_stack'[p] = call_stack[p]
      /\ top = call_stack[n] /\ parent = call_stack[n - 1]
  <2>1. call_stack \in Seq(Nat) /\ call_stack # <<>>
    BY <1>2 DEF AnalysisInv, AnalysisTypeOK
  <2>2. /\ Front(call_stack) \in Seq(Nat)
        /\ n \in Nat /\ DOMAIN call_stack = 1..n
        /\ Len(Front(call_stack)) = n - 1
        /\ DOMAIN Front(call_stack) = 1..(n - 1)
        /\ \A p \in DOMAIN Front(call_stack) : Front(call_stack)[p] = call_stack[p]
    BY <2>1, FrontFacts
  <2>3. Front(call_stack)[n - 1] = call_stack[n - 1]
    BY <1>2, <2>2
  <2>. QED  BY <2>2, <2>3 DEF ReadCallReturn, Last
<1>4. n \in Nat /\ n > 1
  BY <1>2, <1>3
<1>5. /\ top \in OpenCalls /\ parent \in OpenCalls /\ top # parent
      /\ top \in DOMAIN spans /\ parent \in DOMAIN spans
      /\ top \notin OpenNamed /\ parent \notin OpenNamed
  BY <1>2, <1>3, OpenIndices DEF AnalysisInv, Distinct
<1>6. closed \in Span
  BY <1>5, OpenIndices, AddSelfToTotalType
<1>8. /\ spans' \in Seq(Span) /\ Len(spans') = Len(spans)
      /\ DOMAIN spans' = DOMAIN spans
      /\ spans'[top] = closed
      /\ spans'[parent] = AddOtherToTotalGas(spans[parent], closed)
      /\ \A k \in DOMAIN spans \ {top, parent} : spans'[k] = spans[k]
  <2>1. AddOtherToTotalGas(spans[parent], closed) \in Span
    BY <1>5, <1>6, OpenIndices, AddOtherType
  <2>2. spans' = [spans EXCEPT ![top] = closed,
                               ![parent] = AddOtherToTotalGas(@, closed)]
    BY DEF ReadCallReturn
  <2>3. /\ DOMAIN spans' = DOMAIN spans
        /\ spans'[top] = closed
        /\ spans'[parent] = AddOtherToTotalGas(spans[parent], closed)
        /\ \A k \in DOMAIN spans \ {top, parent} : spans'[k] = spans[k]
    BY <1>5, <2>2
  <2>4. spans' \in [1..Len(spans) -> Span]
    BY <1>6, <2>1, <2>2, <2>3, OpenIndices
  <2>. QED  BY <2>3, <2>4, FunctionSeq, OpenIndices
<1>10. OpenCalls' = OpenCalls \ {top} /\ OpenNamed' = OpenNamed
  <2>1. \A p \in 1..(n - 1) : call_stack[p] # top
    <3>1. \A p, q \in 1..n : call_stack[p] = call_stack[q] => p = q
      BY <1>3 DEF AnalysisInv, Distinct
    <3>2. \A p \in 1..(n - 1) : p \in 1..n /\ p # n
      BY <1>4
    <3>3. n \in 1..n
      BY <1>4
    <3>. QED  BY <1>3, <3>1, <3>2, <3>3
  <2>2. OpenCalls' = {call_stack[p] : p \in 1..(n - 1)}
    BY <1>3 DEF OpenCalls, ToSet
  <2>3. OpenCalls = {call_stack[p] : p \in 1..n}
    BY <1>3 DEF OpenCalls, ToSet
  <2>4. 1..n = 1..(n - 1) \cup {n}
    BY <1>4
  <2>5. OpenNamed' = OpenNamed
    BY <1>2 DEF OpenNamed, ToSet
  <2>6. top = call_stack[n]
    BY <1>3
  <2>. QED  BY <2>1, <2>2, <2>3, <2>4, <2>5, <2>6
<1>11. AnalysisTypeOK'
  <2>1. call_stack' # <<>>
    BY <1>2, <1>3, EmptySeq
  <2>. QED  BY <1>1, <1>2, <1>3, <1>8, <1>10, <2>1 DEF AnalysisInv, AnalysisTypeOK
<1>12. Distinct'
  <2>1. \A p, q \in DOMAIN call_stack' : call_stack'[p] = call_stack'[q] => p = q
    BY <1>3 DEF AnalysisInv, Distinct
  <2>2. OpenCalls' \cap OpenNamed' = {}
    BY <1>10 DEF AnalysisInv, Distinct
  <2>. QED  BY <1>2, <2>1, <2>2 DEF AnalysisInv, Distinct
<1>. QED  BY <1>11, <1>12 DEF AnalysisInv

LEMMA ReadSpanStartInv ==
  ASSUME AnalysisInv, NEW name \in SpanNames, ReadSpanStart(name)
  PROVE  AnalysisInv'
<1>. DEFINE new == Len(spans')
            list == named_spans[name]
<1>1. trace' \in Seq(Event)
  <2>. [kind |-> "start", name |-> name] \in Event
    BY DEF Event
  <2>. QED  BY ReadType DEF ReadSpanStart
<1>2. /\ spans' \in Seq(Span)
      /\ DOMAIN spans' = DOMAIN spans \cup {new}
      /\ new \in Nat /\ new \notin DOMAIN spans
      /\ \A k \in DOMAIN spans : spans'[k] = spans[k]
  BY Opened DEF ReadSpanStart
<1>3. status = "reading" /\ status' = status /\ call_stack' = call_stack
  BY DEF ReadSpanStart, Read
<1>4. /\ list \in Seq(Nat) /\ Append(list, new) \in Seq(Nat)
      /\ Len(list) \in Nat
      /\ DOMAIN list = 1..Len(list)
      /\ DOMAIN Append(list, new) = 1..(Len(list) + 1)
      /\ \A p \in DOMAIN list : Append(list, new)[p] = list[p]
      /\ Append(list, new)[Len(list) + 1] = new
  <2>1. list \in Seq(Nat) /\ new \in Nat
    BY <1>2 DEF AnalysisInv, AnalysisTypeOK
  <2>. HIDE DEF list, new
  <2>. QED  BY <2>1, AppendIsSeq
<1>5. /\ named_spans' \in [SpanNames -> Seq(Nat)]
      /\ named_spans'[name] = Append(list, new)
      /\ \A m \in SpanNames \ {name} : named_spans'[m] = named_spans[m]
  <2>1. named_spans' = [named_spans EXCEPT ![name] = Append(list, new)]
    BY DEF ReadSpanStart
  <2>2. named_spans \in [SpanNames -> Seq(Nat)]
    BY DEF AnalysisInv, AnalysisTypeOK
  <2>. QED  BY <1>4, <2>1, <2>2
<1>6. OpenNamed' = OpenNamed \cup {new} /\ OpenCalls' = OpenCalls
  <2>1. ToSet(named_spans'[name]) = ToSet(list) \cup {new}
    <3>1. ToSet(Append(list, new)) = {Append(list, new)[p] : p \in 1..(Len(list) + 1)}
      BY <1>4 DEF ToSet
    <3>2. ToSet(list) = {list[p] : p \in 1..Len(list)}
      BY <1>4 DEF ToSet
    <3>3. 1..(Len(list) + 1) = 1..Len(list) \cup {Len(list) + 1}
      BY <1>4
    <3>4. Append(list, new)[Len(list) + 1] = new
      BY <1>4
    <3>5. \A p \in 1..Len(list) : Append(list, new)[p] = list[p]
      BY <1>4
    <3>6. named_spans'[name] = Append(list, new)
      BY <1>5
    <3>7. ToSet(Append(list, new)) = ToSet(list) \cup {new}
      <4>. HIDE DEF list, new
      <4>. QED  BY <3>1, <3>2, <3>3, <3>4, <3>5
    <3>. QED  BY <3>6, <3>7
  <2>. QED  BY <1>3, <1>5, <2>1 DEF OpenCalls, OpenNamed
<1>7. AnalysisTypeOK'
  <2>1. OpenCalls' \cup OpenNamed' \subseteq DOMAIN spans'
    BY <1>2, <1>6, OpenIndices
  <2>. QED  BY <1>1, <1>2, <1>3, <1>5, <2>1 DEF AnalysisInv, AnalysisTypeOK
<1>8. Distinct'
  <2>1. \A m \in SpanNames : \A p \in DOMAIN named_spans[m] : named_spans[m][p] # new
    <3>1. new \notin OpenNamed
      BY <1>2, OpenIndices
    <3>2. ASSUME NEW m \in SpanNames, NEW p \in DOMAIN named_spans[m]
          PROVE  named_spans[m][p] \in OpenNamed
      <4>1. named_spans[m][p] \in ToSet(named_spans[m])
        BY DEF ToSet
      <4>. QED  BY <4>1 DEF OpenNamed
    <3>. QED  BY <3>1, <3>2
  <2>2. ASSUME NEW m \in SpanNames, NEW k \in SpanNames,
               NEW p \in DOMAIN named_spans'[m], NEW q \in DOMAIN named_spans'[k],
               named_spans'[m][p] = named_spans'[k][q]
        PROVE  m = k /\ p = q
    <3>1. ASSUME NEW l \in SpanNames, NEW r \in DOMAIN named_spans'[l]
          PROVE  \/ /\ r \in DOMAIN named_spans[l]
                    /\ named_spans'[l][r] = named_spans[l][r]
                 \/ l = name /\ r = Len(list) + 1 /\ named_spans'[l][r] = new
      <4>1. CASE l = name
        <5>1. r \in 1..(Len(list) + 1)
          BY <1>4, <1>5, <3>1, <4>1
        <5>2. r \in 1..Len(list) \/ r = Len(list) + 1
          BY <1>4, <5>1
        <5>3. named_spans'[l][r] = Append(list, new)[r]
          BY <1>5, <4>1
        <5>. QED  BY <1>4, <4>1, <5>2, <5>3
      <4>2. CASE l # name
        BY <1>5, <3>1, <4>2
      <4>. QED  BY <4>1, <4>2
    <3>2. CASE p \in DOMAIN named_spans[m] /\ named_spans'[m][p] = named_spans[m][p]
      <4>1. named_spans'[k][q] # new
        BY <2>1, <2>2, <3>2
      <4>2. q \in DOMAIN named_spans[k] /\ named_spans'[k][q] = named_spans[k][q]
        BY <3>1, <4>1
      <4>3. named_spans[m][p] = named_spans[k][q]
        BY <2>2, <3>2, <4>2
      <4>. QED  BY <3>2, <4>2, <4>3, NamedDistinct
    <3>3. CASE m = name /\ p = Len(list) + 1 /\ named_spans'[m][p] = new
      <4>1. k = name /\ q = Len(list) + 1
        BY <2>1, <2>2, <3>1, <3>3
      <4>. QED  BY <3>3, <4>1
    <3>4. \/ p \in DOMAIN named_spans[m] /\ named_spans'[m][p] = named_spans[m][p]
          \/ m = name /\ p = Len(list) + 1 /\ named_spans'[m][p] = new
      BY <3>1
    <3>. QED  BY <3>2, <3>3, <3>4
  <2>3. OpenCalls' \cap OpenNamed' = {}
    BY <1>2, <1>6, OpenIndices
  <2>. QED  BY <1>3, <2>2, <2>3 DEF AnalysisInv, Distinct
<1>. QED  BY <1>7, <1>8 DEF AnalysisInv

(* A named span closes: all it was charged becomes its total.              *)
LEMMA ReadSpanEndInv ==
  ASSUME AnalysisInv, NEW name \in SpanNames, ReadSpanEnd(name)
  PROVE  AnalysisInv'
<1>. DEFINE list == named_spans[name]
            last == Last(list)
            closed == AddSelfToTotalGas(spans[last])
<1>1. trace' \in Seq(Event)
  <2>. [kind |-> "end", name |-> name] \in Event
    BY DEF Event
  <2>. QED  BY ReadType DEF ReadSpanEnd
<1>2. /\ status = "reading" /\ status' = status
      /\ call_stack' = call_stack
  BY DEF ReadSpanEnd, Read
<1>3. /\ Len(list) \in Nat \ {0}
      /\ DOMAIN list = 1..Len(list)
      /\ Front(list) \in Seq(Nat)
      /\ DOMAIN Front(list) = 1..(Len(list) - 1)
      /\ \A p \in DOMAIN Front(list) : p \in DOMAIN list /\ Front(list)[p] = list[p]
      /\ last = list[Len(list)]
  <2>1. list \in Seq(Nat) /\ list # <<>>
    BY DEF ReadSpanEnd, AnalysisInv, AnalysisTypeOK
  <2>. QED  BY <2>1, FrontFacts DEF Last
<1>4. last \in OpenNamed /\ last \in DOMAIN spans /\ last \notin OpenCalls
  <2>1. last \in OpenNamed
    BY <1>3 DEF OpenNamed, ToSet
  <2>. QED  BY <2>1, OpenIndices
<1>5. closed \in Span
  BY <1>4, OpenIndices, AddSelfToTotalType
<1>6. /\ spans' \in Seq(Span) /\ Len(spans') = Len(spans)
      /\ DOMAIN spans' = DOMAIN spans
      /\ spans'[last] = closed
      /\ \A k \in DOMAIN spans \ {last} : spans'[k] = spans[k]
  <2>1. spans' = [spans EXCEPT ![last] = closed]
    BY DEF ReadSpanEnd
  <2>2. spans' \in [1..Len(spans) -> Span]
    BY <1>4, <1>5, <2>1, OpenIndices
  <2>. QED  BY <1>4, <2>1, <2>2, FunctionSeq, OpenIndices
<1>7. /\ named_spans' \in [SpanNames -> Seq(Nat)]
      /\ named_spans'[name] = Front(list)
      /\ \A m \in SpanNames \ {name} : named_spans'[m] = named_spans[m]
  BY <1>3 DEF ReadSpanEnd, AnalysisInv, AnalysisTypeOK
<1>8. OpenCalls' = OpenCalls /\ OpenNamed' = OpenNamed \ {last}
  <2>1. ToSet(named_spans'[name]) = ToSet(list) \ {last}
    <3>1. ASSUME NEW p \in DOMAIN Front(list) PROVE list[p] # last
      <4>1. /\ p \in DOMAIN list /\ Len(list) \in DOMAIN list
            /\ p # Len(list) /\ last = list[Len(list)]
        BY <1>3, <3>1
      <4>. QED  BY <4>1, NamedDistinct
    <3>2. ToSet(Front(list)) = {list[p] : p \in 1..(Len(list) - 1)}
      BY <1>3 DEF ToSet
    <3>3. ToSet(list) = {list[p] : p \in 1..Len(list)}
      BY <1>3 DEF ToSet
    <3>4. \A p \in 1..(Len(list) - 1) : list[p] # last
      BY <1>3, <3>1
    <3>5. 1..Len(list) = 1..(Len(list) - 1) \cup {Len(list)}
      BY <1>3
    <3>6. last = list[Len(list)]
      BY <1>3
    <3>. QED  BY <1>7, <3>2, <3>3, <3>4, <3>5, <3>6
  <2>2. \A m \in SpanNames \ {name} : last \notin ToSet(named_spans[m])
    BY <1>3 DEF ToSet, AnalysisInv, Distinct
  <2>. QED  BY <1>2, <1>7, <2>1, <2>2 DEF OpenCalls, OpenNamed
<1>9. AnalysisTypeOK'
  BY <1>1, <1>2, <1>6, <1>7, <1>8 DEF AnalysisInv, AnalysisTypeOK
<1>10. Distinct'
  <2>1. ASSUME NEW m \in SpanNames, NEW k \in SpanNames,
               NEW p \in DOMAIN named_spans'[m], NEW q \in DOMAIN named_spans'[k],
               named_spans'[m][p] = named_spans'[k][q]
        PROVE  m = k /\ p = q
    <3>1. ASSUME NEW l \in SpanNames, NEW r \in DOMAIN named_spans'[l]
          PROVE  r \in DOMAIN named_spans[l] /\ named_spans'[l][r] = named_spans[l][r]
      <4>1. CASE l = name
        <5>1. r \in DOMAIN Front(list) /\ named_spans'[l][r] = Front(list)[r]
          BY <1>7, <3>1, <4>1
        <5>. QED  BY <1>3, <4>1, <5>1
      <4>2. CASE l # name
        BY <1>7, <3>1, <4>2
      <4>. QED  BY <4>1, <4>2
    <3>2. /\ p \in DOMAIN named_spans[m] /\ named_spans'[m][p] = named_spans[m][p]
          /\ q \in DOMAIN named_spans[k] /\ named_spans'[k][q] = named_spans[k][q]
      BY <3>1
    <3>3. named_spans[m][p] = named_spans[k][q]
      BY <2>1, <3>2
    <3>. QED  BY <3>2, <3>3, NamedDistinct
  <2>2. OpenCalls' \cap OpenNamed' = {}
    BY <1>8 DEF AnalysisInv, Distinct
  <2>. QED  BY <1>2, <2>1, <2>2 DEF AnalysisInv, Distinct
<1>. QED  BY <1>9, <1>10 DEF AnalysisInv

LEMMA FinishInv ==
  ASSUME AnalysisInv, Finish
  PROVE  AnalysisInv'
<1>. DEFINE root == Last(call_stack)
            closed == AddSelfToTotalGas(spans[root])
<1>1. /\ status = "reading" /\ Len(call_stack) = 1 /\ status' = "done"
      /\ UNCHANGED <<named_spans, trace>>
  BY DEF Finish
<1>2. /\ DOMAIN call_stack = 1..1 /\ root = call_stack[1]
      /\ call_stack' \in Seq(Nat) /\ DOMAIN call_stack' = {}
  <2>1. call_stack \in Seq(Nat) /\ call_stack # <<>>
    BY <1>1 DEF AnalysisInv, AnalysisTypeOK
  <2>2. /\ Front(call_stack) \in Seq(Nat) /\ DOMAIN Front(call_stack) = 1..0
        /\ DOMAIN call_stack = 1..1
    BY <1>1, <2>1, FrontFacts
  <2>. QED  BY <1>1, <2>2 DEF Finish, Last
<1>3. root \in OpenCalls /\ root \in DOMAIN spans /\ root \notin OpenNamed
  BY <1>2, OpenIndices
<1>4. closed \in Span
  BY <1>3, OpenIndices, AddSelfToTotalType
<1>5. /\ spans' \in Seq(Span) /\ Len(spans') = Len(spans)
      /\ DOMAIN spans' = DOMAIN spans
      /\ spans'[root] = closed
      /\ \A k \in DOMAIN spans \ {root} : spans'[k] = spans[k]
  <2>1. spans' = [spans EXCEPT ![root] = closed]
    BY DEF Finish
  <2>2. spans' \in [1..Len(spans) -> Span]
    BY <1>3, <1>4, <2>1, OpenIndices
  <2>. QED  BY <1>3, <2>1, <2>2, FunctionSeq, OpenIndices
<1>6. OpenCalls = {root} /\ OpenCalls' = {} /\ OpenNamed' = OpenNamed
  BY <1>1, <1>2 DEF OpenCalls, OpenNamed, ToSet
<1>7. AnalysisTypeOK'
  BY <1>1, <1>2, <1>5, <1>6 DEF AnalysisInv, AnalysisTypeOK
<1>8. Distinct'
  BY <1>1, <1>2, <1>6 DEF AnalysisInv, Distinct
<1>. QED  BY <1>7, <1>8 DEF AnalysisInv

LEMMA AnalysisInitInv ==
  ASSUME AnalysisInit
  PROVE  AnalysisInv
<1>1. /\ spans \in Seq(Span) /\ Len(spans) = 1 /\ DOMAIN spans = {1}
      /\ call_stack \in Seq(Nat) /\ Len(call_stack) = 1 /\ DOMAIN call_stack = {1}
      /\ call_stack[1] = 1 /\ spans[1] = NewSpan /\ call_stack # <<>>
  BY NewSpanType DEF AnalysisInit
<1>2. named_spans \in [SpanNames -> Seq(Nat)] /\ trace \in Seq(Event)
  BY EmptySeq DEF AnalysisInit
<1>3. OpenCalls = {1} /\ OpenNamed = {}
  BY <1>1 DEF AnalysisInit, OpenCalls, OpenNamed, ToSet
<1>4. AnalysisTypeOK
  BY <1>1, <1>2, <1>3 DEF AnalysisInit, AnalysisTypeOK
<1>5. Distinct
  BY <1>1, <1>3 DEF AnalysisInit, Distinct
<1>. QED  BY <1>4, <1>5 DEF AnalysisInv

LEMMA AnalysisNextInv ==
  ASSUME AnalysisInv, [AnalysisNext]_analysisVars
  PROVE  AnalysisInv'
<1>1. CASE UNCHANGED analysisVars
  <2>1. trace \in Seq(Event)
    BY DEF AnalysisInv, AnalysisTypeOK
  <2>. QED  BY <1>1, <2>1, SpansKept DEF analysisVars
<1>2. ASSUME ReadUnmatchedReturn PROVE AnalysisInv'
  <2>1. [kind |-> "return"] \in Event
    BY DEF Event
  <2>. QED  BY <1>2, <2>1, ReadType, SpansKept DEF ReadUnmatchedReturn, Panic
<1>3. ASSUME NEW name \in SpanNames, ReadUnmatchedEnd(name) PROVE AnalysisInv'
  <2>1. [kind |-> "end", name |-> name] \in Event
    BY DEF Event
  <2>. QED  BY <1>3, <2>1, ReadType, SpansKept DEF ReadUnmatchedEnd, Panic
<1>4. ASSUME ReadOther PROVE AnalysisInv'
  <2>1. [kind |-> "other"] \in Event
    BY DEF Event
  <2>. QED  BY <1>4, <2>1, ReadType, SpansKept DEF ReadOther
<1>5. ASSUME FinishWithOpenCalls PROVE AnalysisInv'
  <2>1. trace \in Seq(Event)
    BY DEF AnalysisInv, AnalysisTypeOK
  <2>. QED  BY <1>5, <2>1, SpansKept DEF FinishWithOpenCalls, Panic
<1>. QED  BY <1>1, <1>2, <1>3, <1>4, <1>5, ReadGasChargeInv, ReadCallInv,
             ReadCallReturnInv, ReadSpanStartInv, ReadSpanEndInv, FinishInv
          DEF AnalysisNext

-----------------------------------------------------------------------------
(* No part of a gas account is more than its sum.                          *)

(* What a step may make of a span: nothing, or one of what the code does.  *)
LEMMA SpanSteps ==
  ASSUME AnalysisInv, [AnalysisNext]_analysisVars, NEW k \in DOMAIN spans'
  PROVE  \/ spans'[k] = NewSpan
         \/ /\ k \in DOMAIN spans
            /\ \/ spans'[k] = spans[k]
               \/ \E name \in GasNames, milli \in Amounts :
                    spans'[k] = AddSelfGas(spans[k], name, milli)
               \/ spans'[k] = AddSelfToTotalGas(spans[k])
               \/ \E child \in DOMAIN spans :
                    spans'[k] = AddOtherToTotalGas(spans[k], AddSelfToTotalGas(spans[child]))
<1>. DEFINE Grown == spans' = Append(spans, NewSpan)
<1>1. ASSUME spans' = Append(spans, NewSpan)
      PROVE  spans'[k] = NewSpan \/ (k \in DOMAIN spans /\ spans'[k] = spans[k])
  <2>1. spans \in Seq(Span)
    BY DEF AnalysisInv, AnalysisTypeOK
  <2>2. /\ DOMAIN spans = 1..Len(spans) /\ Len(spans) \in Nat
        /\ DOMAIN Append(spans, NewSpan) = 1..(Len(spans) + 1)
        /\ \A i \in 1..Len(spans) : Append(spans, NewSpan)[i] = spans[i]
        /\ Append(spans, NewSpan)[Len(spans) + 1] = NewSpan
    BY <2>1, NewSpanType, AppendIsSeq
  <2>3. k \in 1..Len(spans) \/ k = Len(spans) + 1
    BY <1>1, <2>2
  <2>. QED  BY <1>1, <2>2, <2>3
<1>2. CASE \E name \in GasNames, milli \in Amounts : ReadGasCharge(name, milli)
  BY <1>2 DEF ReadGasCharge
<1>3. CASE ReadCall \/ \E name \in SpanNames : ReadSpanStart(name)
  BY <1>1, <1>3 DEF ReadCall, ReadSpanStart
<1>4. CASE ReadCallReturn
  <2>. DEFINE top == Last(call_stack)
              parent == Last(Front(call_stack))
              closed == AddSelfToTotalGas(spans[top])
  <2>1. spans' = [spans EXCEPT ![top] = closed, ![parent] = AddOtherToTotalGas(@, closed)]
    BY <1>4 DEF ReadCallReturn
  <2>2. top \in DOMAIN spans /\ parent \in DOMAIN spans /\ top # parent
    <3>1. call_stack \in Seq(Nat) /\ call_stack # <<>> /\ Len(call_stack) > 1
      BY <1>4 DEF ReadCallReturn, Read, AnalysisInv, AnalysisTypeOK
    <3>2. /\ Len(call_stack) \in Nat \ {0}
          /\ DOMAIN call_stack = 1..Len(call_stack)
          /\ Len(Front(call_stack)) = Len(call_stack) - 1
          /\ \A p \in 1..(Len(call_stack) - 1) : Front(call_stack)[p] = call_stack[p]
      BY <3>1, FrontFacts
    <3>3. top = call_stack[Len(call_stack)] /\ parent = call_stack[Len(call_stack) - 1]
      BY <3>1, <3>2 DEF Last
    <3>. DEFINE n == Len(call_stack)
    <3>4. n \in DOMAIN call_stack /\ n - 1 \in DOMAIN call_stack /\ n # n - 1
      <4>1. n \in Nat \ {0} /\ n > 1 /\ DOMAIN call_stack = 1..n
        BY <3>1, <3>2
      <4>. HIDE DEF n
      <4>. QED  BY <4>1
    <3>. QED  BY <3>3, <3>4, OpenIndices DEF AnalysisInv, Distinct
  <2>3. /\ k \in DOMAIN spans
        /\ spans'[k] = IF k = parent THEN AddOtherToTotalGas(spans[k], closed)
                       ELSE IF k = top THEN AddSelfToTotalGas(spans[k]) ELSE spans[k]
    BY <2>1, <2>2
  <2>. QED  BY <2>2, <2>3
<1>5. CASE \E name \in SpanNames : ReadSpanEnd(name)
  BY <1>5 DEF ReadSpanEnd
<1>6. CASE Finish
  BY <1>6 DEF Finish
<1>7. CASE UNCHANGED spans
  BY <1>7
<1>8. \/ UNCHANGED spans
      \/ \E name \in GasNames, milli \in Amounts : ReadGasCharge(name, milli)
      \/ ReadCall \/ ReadCallReturn \/ Finish
      \/ \E name \in SpanNames : ReadSpanStart(name) \/ ReadSpanEnd(name)
  BY DEF AnalysisNext, analysisVars, ReadUnmatchedReturn, ReadUnmatchedEnd, ReadOther,
         FinishWithOpenCalls, Panic
<1>. QED  BY <1>2, <1>3, <1>4, <1>5, <1>6, <1>7, <1>8

(* No part of a span's gas is more than its sum.                           *)
PartsBounded ==
  \A k \in DOMAIN spans, n \in GasNames :
    /\ spans[k].self.by_name[n] <= spans[k].self.sum
    /\ spans[k].total.by_name[n] <= spans[k].total.sum

(* Every way the code changes an account keeps the bound.                  *)
LEMMA NewPartsBounded ==
  ASSUME NEW n \in GasNames
  PROVE  /\ NewSpan.self.by_name[n] <= NewSpan.self.sum
         /\ NewSpan.total.by_name[n] <= NewSpan.total.sum
  BY DEF NewSpan, NoGas

LEMMA ChargedBounded ==
  ASSUME NEW gas \in Gas, NEW name \in GasNames, NEW milli \in Nat, NEW n \in GasNames,
         gas.by_name[n] <= gas.sum
  PROVE  Charged(gas, name, milli).by_name[n] <= Charged(gas, name, milli).sum
<1>1. gas.by_name \in [GasNames -> Nat] /\ gas.sum \in Nat
  BY DEF Gas
<1>2. Charged(gas, name, milli).by_name[n] \in {gas.by_name[n], gas.by_name[n] + milli}
  BY <1>1 DEF Charged
<1>3. Charged(gas, name, milli).sum = gas.sum + milli
  BY DEF Charged
<1>. QED  BY <1>1, <1>2, <1>3

LEMMA MergedBounded ==
  ASSUME NEW gas \in Gas, NEW other \in Gas, NEW n \in GasNames,
         gas.by_name[n] <= gas.sum, other.by_name[n] <= other.sum
  PROVE  Merged(gas, other).by_name[n] <= Merged(gas, other).sum
<1>1. /\ gas.by_name[n] \in Nat /\ gas.sum \in Nat
      /\ other.by_name[n] \in Nat /\ other.sum \in Nat
  BY DEF Gas
<1>. QED  BY <1>1 DEF Merged

(* And so does every step.                                                 *)
LEMMA PartsBoundedNext ==
  ASSUME AnalysisInv, PartsBounded, [AnalysisNext]_analysisVars
  PROVE  PartsBounded'
<1>. DEFINE Bounded(span, n) == /\ span.self.by_name[n] <= span.self.sum
                                /\ span.total.by_name[n] <= span.total.sum
<1>1. SUFFICES ASSUME NEW k \in DOMAIN spans', NEW n \in GasNames
               PROVE  Bounded(spans'[k], n)
  BY DEF PartsBounded
<1>2. \A i \in DOMAIN spans : Bounded(spans[i], n) /\ spans[i] \in Span
  BY OpenIndices DEF PartsBounded
<1>3. ASSUME NEW span \in Span, Bounded(span, n)
      PROVE  /\ \A name \in GasNames, milli \in Amounts :
                  Bounded(AddSelfGas(span, name, milli), n)
             /\ Bounded(AddSelfToTotalGas(span), n)
             /\ AddSelfToTotalGas(span) \in Span
  <2>1. span.self \in Gas /\ span.total \in Gas
    BY DEF Span
  <2>2. ASSUME NEW name \in GasNames, NEW milli \in Amounts
        PROVE  Bounded(AddSelfGas(span, name, milli), n)
    <3>1. milli \in Nat
      BY AmountAssumption
    <3>. QED  BY <1>3, <2>1, <3>1, ChargedBounded DEF AddSelfGas
  <2>3. Bounded(AddSelfToTotalGas(span), n)
    BY <1>3, <2>1, MergedBounded DEF AddSelfToTotalGas
  <2>. QED  BY <2>2, <2>3, AddSelfToTotalType
<1>4. ASSUME NEW span \in Span, NEW other \in Span, Bounded(span, n), Bounded(other, n)
      PROVE  Bounded(AddOtherToTotalGas(span, other), n)
  <2>1. span.total \in Gas /\ other.total \in Gas
    BY DEF Span
  <2>. QED  BY <1>4, <2>1, MergedBounded DEF AddOtherToTotalGas
<1>5. Bounded(NewSpan, n)
  BY NewPartsBounded
<1>. HIDE DEF Bounded
<1>. QED  BY <1>2, <1>3, <1>4, <1>5, SpanSteps

-----------------------------------------------------------------------------
(* Counting the events of a trace.                                         *)

(* Positions and their number, in any trace.                               *)
With(S, x) == S \cup {x}
PositionsIn(t, S, from, to) == {j \in DOMAIN t : from <= j /\ j <= to /\ t[j] \in S}
CountIn(t, S, from, to) == Cardinality(PositionsIn(t, S, from, to))

(* They are those of the reference, with the trace as an argument.         *)
LEMMA CountsOfTrace ==
  ASSUME NEW S, NEW from, NEW to
  PROVE  /\ Positions(S, from, to) = PositionsIn(trace, S, from, to)
         /\ Count(S, from, to) = CountIn(trace, S, from, to)
  BY DEF Positions, PositionsIn, Count, CountIn

(* There are finitely many positions in a trace.                           *)
LEMMA PositionsFinite ==
  ASSUME NEW E, NEW t \in Seq(E), NEW S, NEW from, NEW to
  PROVE  /\ IsFiniteSet(PositionsIn(t, S, from, to))
         /\ CountIn(t, S, from, to) \in Nat
<1>1. DOMAIN t = 1..Len(t) /\ Len(t) \in Nat
  BY LenProperties
<1>2. IsFiniteSet(1..Len(t))
  BY <1>1, FS_Interval
<1>3. PositionsIn(t, S, from, to) \subseteq 1..Len(t)
  BY <1>1 DEF PositionsIn
<1>. QED  BY <1>2, <1>3, FS_Subset, FS_CardinalityType DEF CountIn

(* What one more event adds.                                               *)
LEMMA PositionsKept ==
  ASSUME NEW E, NEW t \in Seq(E), NEW e \in E, NEW S, NEW from, NEW to \in Nat, to <= Len(t)
  PROVE  /\ PositionsIn(Append(t, e), S, from, to) = PositionsIn(t, S, from, to)
         /\ CountIn(Append(t, e), S, from, to) = CountIn(t, S, from, to)
<1>. DEFINE u == Append(t, e)
            n == Len(t)
<1>1. /\ n \in Nat /\ DOMAIN t = 1..n /\ DOMAIN u = 1..(n + 1)
      /\ \A i \in 1..n : u[i] = t[i]
  BY AppendIsSeq
<1>2. to <= n
  OBVIOUS
<1>. HIDE DEF u, n
<1>3. \A j \in 1..(n + 1) : j <= to => j \in 1..n
  BY <1>1, <1>2
<1>4. 1..n \subseteq 1..(n + 1)
  BY <1>1
<1>5. PositionsIn(u, S, from, to) = PositionsIn(t, S, from, to)
  BY <1>1, <1>3, <1>4 DEF PositionsIn
<1>. QED  BY <1>5 DEF CountIn, u

LEMMA PositionsAdded ==
  ASSUME NEW E, NEW t \in Seq(E), NEW e \in E, NEW S, NEW from \in Nat, from <= Len(t) + 1
  PROVE  /\ e \in S => PositionsIn(Append(t, e), S, from, Len(t) + 1) =
                          With(PositionsIn(t, S, from, Len(t)), Len(t) + 1)
         /\ e \notin S => PositionsIn(Append(t, e), S, from, Len(t) + 1) =
                             PositionsIn(t, S, from, Len(t))
<1>. DEFINE u == Append(t, e)
            n == Len(t)
<1>1. /\ n \in Nat /\ DOMAIN t = 1..n /\ DOMAIN u = 1..(n + 1)
      /\ \A i \in 1..n : u[i] = t[i]
      /\ u[n + 1] = e
  BY AppendIsSeq
<1>2. from <= n + 1
  OBVIOUS
<1>. HIDE DEF u, n
<1>3. 1..(n + 1) = 1..n \cup {n + 1} /\ n + 1 \notin 1..n
  BY <1>1
<1>4. \A j \in 1..n : j <= n /\ j <= n + 1
  BY <1>1
<1>5. n + 1 <= n + 1
  BY <1>1
<1>6. e \in S => PositionsIn(u, S, from, n + 1) = With(PositionsIn(t, S, from, n), n + 1)
  BY <1>1, <1>2, <1>3, <1>4, <1>5 DEF PositionsIn, With
<1>7. e \notin S => PositionsIn(u, S, from, n + 1) = PositionsIn(t, S, from, n)
  BY <1>1, <1>2, <1>3, <1>4, <1>5 DEF PositionsIn
<1>. QED  BY <1>6, <1>7 DEF u, n

(* So a count grows by one or not at all.                                  *)
LEMMA CountAdded ==
  ASSUME NEW E, NEW t \in Seq(E), NEW e \in E, NEW S, NEW from \in Nat, from <= Len(t) + 1
  PROVE  CountIn(Append(t, e), S, from, Len(t) + 1) =
           CountIn(t, S, from, Len(t)) + (IF e \in S THEN 1 ELSE 0)
<1>. DEFINE before == PositionsIn(t, S, from, Len(t))
            after == PositionsIn(Append(t, e), S, from, Len(t) + 1)
<1>1. IsFiniteSet(before) /\ Cardinality(before) \in Nat
  BY PositionsFinite DEF CountIn
<1>2. Len(t) + 1 \notin before
  <2>1. DOMAIN t = 1..Len(t) /\ Len(t) \in Nat
    BY LenProperties
  <2>. QED  BY <2>1 DEF PositionsIn
<1>3. /\ e \in S => after = With(before, Len(t) + 1)
      /\ e \notin S => after = before
  BY PositionsAdded
<1>. HIDE DEF before, after
<1>4. Cardinality(With(before, Len(t) + 1)) = Cardinality(before) + 1
  BY <1>1, <1>2, FS_AddElement DEF With
<1>5. Cardinality(after) = Cardinality(before) + (IF e \in S THEN 1 ELSE 0)
  BY <1>1, <1>3, <1>4
<1>. QED  BY <1>5 DEF CountIn, before, after

(* The same, for the event that a step reads.                              *)
LEMMA EventCounted ==
  ASSUME AnalysisInv, NEW e \in Event, Read(e), NEW S
  PROVE  /\ Len(trace) \in Nat /\ Len(trace') = Len(trace) + 1
         /\ DOMAIN trace = 1..Len(trace)
         /\ DOMAIN trace' = 1..(Len(trace) + 1)
         /\ \A j \in DOMAIN trace : CountIn(trace', S, 1, j) = CountIn(trace, S, 1, j)
         /\ CountIn(trace, S, 1, Len(trace)) \in Nat
         /\ CountIn(trace', S, 1, Len(trace')) =
              CountIn(trace, S, 1, Len(trace)) + (IF e \in S THEN 1 ELSE 0)
<1>1. trace \in Seq(Event) /\ trace' = Append(trace, e)
  BY DEF Read, AnalysisInv, AnalysisTypeOK
<1>2. /\ Len(trace) \in Nat /\ Len(trace') = Len(trace) + 1
      /\ DOMAIN trace = 1..Len(trace)
      /\ DOMAIN trace' = 1..(Len(trace) + 1)
  BY <1>1, AppendIsSeq
<1>3. /\ \A j \in DOMAIN trace : CountIn(trace', S, 1, j) = CountIn(trace, S, 1, j)
      /\ CountIn(trace', S, 1, Len(trace) + 1) =
           CountIn(trace, S, 1, Len(trace)) + (IF e \in S THEN 1 ELSE 0)
  <2>1. ASSUME NEW j \in DOMAIN trace
        PROVE  CountIn(trace', S, 1, j) = CountIn(trace, S, 1, j)
    <3>1. j \in Nat /\ j <= Len(trace)
      BY <1>2
    <3>. QED  BY <1>1, <3>1, PositionsKept
  <2>2. 1 <= Len(trace) + 1
    BY <1>2
  <2>. QED  BY <1>1, <2>1, <2>2, CountAdded
<1>4. CountIn(trace, S, 1, Len(trace)) \in Nat
  BY <1>1, PositionsFinite
<1>. QED  BY <1>2, <1>3, <1>4

-----------------------------------------------------------------------------
(* What is open is what was opened less what was closed.                   *)

(* Nothing is closed that was not open.                                    *)
Balanced(t) ==
  \A j \in DOMAIN t :
    /\ CountIn(t, Returns, 1, j) <= CountIn(t, Calls, 1, j)
    /\ \A n \in SpanNames : CountIn(t, Ends(n), 1, j) <= CountIn(t, Starts(n), 1, j)

(* What is open is what was opened less what was closed.                   *)
Balance ==
  /\ CountIn(trace, Calls, 1, Len(trace)) + 1 =
       CountIn(trace, Returns, 1, Len(trace)) + Len(call_stack)
  /\ \A n \in SpanNames :
       CountIn(trace, Starts(n), 1, Len(trace)) =
         CountIn(trace, Ends(n), 1, Len(trace)) + Len(named_spans[n])

BalanceInv ==
  LET returned == CountIn(trace, Calls, 1, Len(trace)) = CountIn(trace, Returns, 1, Len(trace))
  IN /\ status = "reading" => Balanced(trace) /\ Balance
     /\ status = "done" => Balanced(trace) /\ returned
     /\ status = "panicked" => ~(Balanced(trace) /\ returned)

(* Which events open and close.                                            *)
LEMMA EventsCounted ==
  ASSUME AnalysisInv, NEW e \in Event, Read(e)
  PROVE  /\ CountIn(trace', Calls, 1, Len(trace')) =
              CountIn(trace, Calls, 1, Len(trace)) + (IF e.kind = "call" THEN 1 ELSE 0)
         /\ CountIn(trace', Returns, 1, Len(trace')) =
              CountIn(trace, Returns, 1, Len(trace)) + (IF e.kind = "return" THEN 1 ELSE 0)
         /\ \A n \in SpanNames :
              /\ CountIn(trace', Starts(n), 1, Len(trace')) =
                   CountIn(trace, Starts(n), 1, Len(trace))
                     + (IF e.kind = "start" /\ e.name = n THEN 1 ELSE 0)
              /\ CountIn(trace', Ends(n), 1, Len(trace')) =
                   CountIn(trace, Ends(n), 1, Len(trace))
                     + (IF e.kind = "end" /\ e.name = n THEN 1 ELSE 0)
<1>1. e \in Calls <=> e.kind = "call"
  BY DEF Event, Calls
<1>2. e \in Returns <=> e.kind = "return"
  BY DEF Event, Returns
<1>3. ASSUME NEW n \in SpanNames
      PROVE  /\ e \in Starts(n) <=> e.kind = "start" /\ e.name = n
             /\ e \in Ends(n) <=> e.kind = "end" /\ e.name = n
  BY DEF Event, Starts, Ends
<1>. QED  BY <1>1, <1>2, <1>3, EventCounted

(* Only the last position can break the balance.                           *)
LEMMA StillBalanced ==
  ASSUME AnalysisInv, NEW e \in Event, Read(e)
  PROVE  Balanced(trace') <=>
           /\ Balanced(trace)
           /\ CountIn(trace', Returns, 1, Len(trace')) <= CountIn(trace', Calls, 1, Len(trace'))
           /\ \A n \in SpanNames : CountIn(trace', Ends(n), 1, Len(trace'))
                                     <= CountIn(trace', Starts(n), 1, Len(trace'))
<1>1. /\ Len(trace) \in Nat /\ Len(trace') = Len(trace) + 1
      /\ DOMAIN trace = 1..Len(trace) /\ DOMAIN trace' = 1..(Len(trace) + 1)
      /\ \A S : \A j \in DOMAIN trace : CountIn(trace', S, 1, j) = CountIn(trace, S, 1, j)
  BY EventCounted
<1>2. DOMAIN trace' = DOMAIN trace \cup {Len(trace')}
  BY <1>1
<1>. QED  BY <1>1, <1>2 DEF Balanced

(* Each event moves one count and, with it, the length of one stack.       *)
LEMMA BalanceNext ==
  ASSUME AnalysisInv, AnalysisInv', BalanceInv, [AnalysisNext]_analysisVars
  PROVE  BalanceInv'
<1>. DEFINE calls == CountIn(trace, Calls, 1, Len(trace))
            returns == CountIn(trace, Returns, 1, Len(trace))
            starts(n) == CountIn(trace, Starts(n), 1, Len(trace))
            ends(n) == CountIn(trace, Ends(n), 1, Len(trace))
<1>1. /\ trace \in Seq(Event)
      /\ call_stack \in Seq(Nat) /\ call_stack' \in Seq(Nat)
      /\ named_spans \in [SpanNames -> Seq(Nat)] /\ named_spans' \in [SpanNames -> Seq(Nat)]
  BY DEF AnalysisInv, AnalysisTypeOK
<1>2. calls \in Nat /\ returns \in Nat /\ \A n \in SpanNames : starts(n) \in Nat /\ ends(n) \in Nat
  BY <1>1, PositionsFinite
<1>3. Len(call_stack) \in Nat /\ \A n \in SpanNames : Len(named_spans[n]) \in Nat
  BY <1>1, LenProperties
<1>4. ASSUME NEW e \in Event, Read(e)
      PROVE  /\ status = "reading" /\ Balanced(trace) /\ Balance
             /\ Balanced(trace') <=>
                  /\ returns' <= calls'
                  /\ \A n \in SpanNames : ends(n)' <= starts(n)'
             /\ calls' = calls + (IF e.kind = "call" THEN 1 ELSE 0)
             /\ returns' = returns + (IF e.kind = "return" THEN 1 ELSE 0)
             /\ \A n \in SpanNames :
                  /\ starts(n)' = starts(n) + (IF e.kind = "start" /\ e.name = n THEN 1 ELSE 0)
                  /\ ends(n)' = ends(n) + (IF e.kind = "end" /\ e.name = n THEN 1 ELSE 0)
  <2>1. status = "reading" /\ Balanced(trace) /\ Balance
    BY <1>4 DEF Read, BalanceInv
  <2>. QED  BY <1>4, <2>1, StillBalanced, EventsCounted
<1>. HIDE DEF calls, returns, starts, ends
<1>5. ASSUME NEW e \in Event, Read(e), status' = "reading",
             Len(call_stack') + (IF e.kind = "return" THEN 1 ELSE 0) =
               Len(call_stack) + (IF e.kind = "call" THEN 1 ELSE 0),
             \A n \in SpanNames :
               /\ e.kind = "start" /\ e.name = n => Len(named_spans'[n]) = Len(named_spans[n]) + 1
               /\ e.kind = "end" /\ e.name = n => Len(named_spans'[n]) + 1 = Len(named_spans[n])
               /\ ~(e.kind \in {"start", "end"} /\ e.name = n) =>
                    Len(named_spans'[n]) = Len(named_spans[n]),
             e.kind = "return" => Len(call_stack) > 1,
             \A n \in SpanNames : e.kind = "end" /\ e.name = n => Len(named_spans[n]) > 0
      PROVE  BalanceInv'
  <2>1. /\ calls + 1 = returns + Len(call_stack)
        /\ \A n \in SpanNames : starts(n) = ends(n) + Len(named_spans[n])
    BY <1>4, <1>5 DEF Balance, calls, returns, starts, ends
  <2>2. Len(call_stack') \in Nat /\ \A n \in SpanNames : Len(named_spans'[n]) \in Nat
    BY <1>1, LenProperties
  <2>3. /\ calls' + 1 = returns' + Len(call_stack')
        /\ calls' \in Nat /\ returns' \in Nat
    <3>1. CASE e.kind = "call"
      BY <1>2, <1>3, <1>4, <1>5, <2>1, <2>2, <3>1
    <3>2. CASE e.kind = "return"
      BY <1>2, <1>3, <1>4, <1>5, <2>1, <2>2, <3>2
    <3>3. CASE e.kind # "call" /\ e.kind # "return"
      BY <1>2, <1>3, <1>4, <1>5, <2>1, <2>2, <3>3
    <3>. QED  BY <3>1, <3>2, <3>3
  <2>4. Len(call_stack') >= 1
    <3>1. AnalysisTypeOK'
      BY DEF AnalysisInv
    <3>2. call_stack' # <<>>
      BY <1>5, <3>1 DEF AnalysisTypeOK
    <3>. QED  BY <1>1, <2>2, <3>2, EmptySeq
  <2>5. ASSUME NEW n \in SpanNames
        PROVE  starts(n)' = ends(n)' + Len(named_spans'[n]) /\ ends(n)' <= starts(n)'
    <3>1. /\ starts(n) = ends(n) + Len(named_spans[n])
          /\ starts(n) \in Nat /\ ends(n) \in Nat
          /\ Len(named_spans[n]) \in Nat /\ Len(named_spans'[n]) \in Nat
          /\ e.kind = "start" /\ e.name = n => Len(named_spans'[n]) = Len(named_spans[n]) + 1
          /\ e.kind = "end" /\ e.name = n => Len(named_spans'[n]) + 1 = Len(named_spans[n])
          /\ ~(e.kind \in {"start", "end"} /\ e.name = n) =>
               Len(named_spans'[n]) = Len(named_spans[n])
      BY <1>2, <1>3, <1>5, <2>1, <2>2
    <3>2. /\ starts(n)' = starts(n) + (IF e.kind = "start" /\ e.name = n THEN 1 ELSE 0)
          /\ ends(n)' = ends(n) + (IF e.kind = "end" /\ e.name = n THEN 1 ELSE 0)
      BY <1>4, <1>5
    <3>3. CASE e.kind = "start" /\ e.name = n
      BY <3>1, <3>2, <3>3
    <3>4. CASE e.kind = "end" /\ e.name = n
      BY <3>1, <3>2, <3>4
    <3>5. CASE ~(e.kind = "start" /\ e.name = n) /\ ~(e.kind = "end" /\ e.name = n)
      <4>1. Len(named_spans'[n]) = Len(named_spans[n])
        BY <3>1, <3>5
      <4>2. starts(n)' = starts(n) /\ ends(n)' = ends(n)
        BY <3>1, <3>2, <3>5
      <4>. QED  BY <3>1, <4>1, <4>2
    <3>. QED  BY <3>3, <3>4, <3>5
  <2>6. returns' <= calls'
    BY <2>2, <2>3, <2>4
  <2>7. Balanced(trace')
    BY <1>4, <1>5, <2>5, <2>6
  <2>8. Balance'
    BY <2>3, <2>5 DEF Balance, calls, returns, starts, ends
  <2>. QED  BY <1>5, <2>7, <2>8 DEF BalanceInv
<1>6. ASSUME NEW e \in Event, Read(e), status' = "panicked",
             \/ e.kind = "return" /\ Len(call_stack) = 1
             \/ \E n \in SpanNames : e.kind = "end" /\ e.name = n /\ Len(named_spans[n]) = 0
      PROVE  BalanceInv'
  <2>1. ~Balanced(trace')
    <3>1. /\ calls + 1 = returns + Len(call_stack)
          /\ \A n \in SpanNames : starts(n) = ends(n) + Len(named_spans[n])
      BY <1>4, <1>6 DEF Balance, calls, returns, starts, ends
    <3>2. CASE e.kind = "return" /\ Len(call_stack) = 1
      <4>1. returns' = returns + 1 /\ calls' = calls
        BY <1>2, <1>4, <1>6, <3>2
      <4>2. ~(returns' <= calls')
        BY <1>2, <3>1, <3>2, <4>1
      <4>. QED  BY <1>4, <1>6, <4>2
    <3>3. ASSUME NEW n \in SpanNames, e.kind = "end", e.name = n, Len(named_spans[n]) = 0
          PROVE  ~Balanced(trace')
      <4>1. ends(n)' = ends(n) + 1 /\ starts(n)' = starts(n)
        BY <1>2, <1>4, <1>6, <3>3
      <4>2. ~(ends(n)' <= starts(n)')
        BY <1>2, <3>1, <3>3, <4>1
      <4>. QED  BY <1>4, <1>6, <4>2
    <3>. QED  BY <1>6, <3>2, <3>3
  <2>. QED  BY <1>6, <2>1 DEF BalanceInv
<1>7. CASE UNCHANGED analysisVars
  BY <1>7 DEF analysisVars, BalanceInv, Balance
<1>8. ASSUME NEW name \in GasNames, NEW milli \in Amounts, ReadGasCharge(name, milli)
      PROVE  BalanceInv'
  <2>. DEFINE e == [kind |-> "charge", name |-> name, milli |-> milli]
  <2>1. e \in Event /\ e.kind = "charge"
    BY DEF Event
  <2>2. Read(e) /\ status' = "reading" /\ UNCHANGED <<call_stack, named_spans>>
    BY <1>8 DEF ReadGasCharge, Read
  <2>. HIDE DEF e
  <2>. QED  BY <1>3, <1>5, <2>1, <2>2
<1>9. CASE ReadOther
  <2>. DEFINE e == [kind |-> "other"]
  <2>1. e \in Event /\ e.kind = "other"
    BY DEF Event
  <2>2. Read(e) /\ status' = "reading" /\ UNCHANGED <<call_stack, named_spans>>
    BY <1>9 DEF ReadOther, Read
  <2>. HIDE DEF e
  <2>. QED  BY <1>3, <1>5, <2>1, <2>2
<1>10. CASE ReadCall
  <2>. DEFINE e == [kind |-> "call"]
  <2>1. e \in Event /\ e.kind = "call"
    BY DEF Event
  <2>2. Read(e) /\ status' = "reading" /\ UNCHANGED named_spans
    BY <1>10 DEF ReadCall, Read
  <2>3. Len(call_stack') = Len(call_stack) + 1
    BY <1>1, <1>10, LenProperties DEF ReadCall
  <2>. HIDE DEF e
  <2>8. Len(call_stack') + (IF e.kind = "return" THEN 1 ELSE 0) =
          Len(call_stack) + (IF e.kind = "call" THEN 1 ELSE 0)
    BY <1>3, <2>1, <2>2, <2>3
  <2>9. \A n \in SpanNames :
          /\ e.kind = "start" /\ e.name = n => Len(named_spans'[n]) = Len(named_spans[n]) + 1
          /\ e.kind = "end" /\ e.name = n => Len(named_spans'[n]) + 1 = Len(named_spans[n])
          /\ ~(e.kind \in {"start", "end"} /\ e.name = n) =>
               Len(named_spans'[n]) = Len(named_spans[n])
    BY <1>3, <2>1, <2>2, <2>3
  <2>. QED  BY <1>5, <2>1, <2>2, <2>8, <2>9
<1>11. CASE ReadCallReturn
  <2>. DEFINE e == [kind |-> "return"]
  <2>1. e \in Event /\ e.kind = "return"
    BY DEF Event
  <2>2. Read(e) /\ status' = "reading" /\ UNCHANGED named_spans /\ Len(call_stack) > 1
    BY <1>11 DEF ReadCallReturn, Read
  <2>3. Len(call_stack') + 1 = Len(call_stack)
    <3>1. Len(Front(call_stack)) = Len(call_stack) - 1
      <4>1. call_stack # <<>>
        BY <2>2 DEF AnalysisInv, AnalysisTypeOK, Read
      <4>. QED  BY <1>1, <4>1, FrontFacts
    <3>. QED  BY <1>3, <1>11, <3>1 DEF ReadCallReturn
  <2>. HIDE DEF e
  <2>8. Len(call_stack') + (IF e.kind = "return" THEN 1 ELSE 0) =
          Len(call_stack) + (IF e.kind = "call" THEN 1 ELSE 0)
    BY <1>3, <2>1, <2>2, <2>3
  <2>9. \A n \in SpanNames :
          /\ e.kind = "start" /\ e.name = n => Len(named_spans'[n]) = Len(named_spans[n]) + 1
          /\ e.kind = "end" /\ e.name = n => Len(named_spans'[n]) + 1 = Len(named_spans[n])
          /\ ~(e.kind \in {"start", "end"} /\ e.name = n) =>
               Len(named_spans'[n]) = Len(named_spans[n])
    BY <1>3, <2>1, <2>2, <2>3
  <2>. QED  BY <1>5, <2>1, <2>2, <2>8, <2>9
<1>12. CASE ReadUnmatchedReturn
  <2>. DEFINE e == [kind |-> "return"]
  <2>1. e \in Event /\ e.kind = "return"
    BY DEF Event
  <2>2. Read(e) /\ status' = "panicked" /\ Len(call_stack) = 1
    BY <1>12 DEF ReadUnmatchedReturn, Panic
  <2>. HIDE DEF e
  <2>. QED  BY <1>6, <2>1, <2>2
<1>13. ASSUME NEW name \in SpanNames, ReadSpanStart(name)
       PROVE  BalanceInv'
  <2>. DEFINE e == [kind |-> "start", name |-> name]
  <2>1. e \in Event /\ e.kind = "start" /\ e.name = name
    BY DEF Event
  <2>2. Read(e) /\ status' = "reading" /\ UNCHANGED call_stack
    BY <1>13 DEF ReadSpanStart, Read
  <2>3. /\ Len(named_spans'[name]) = Len(named_spans[name]) + 1
        /\ \A n \in SpanNames \ {name} : named_spans'[n] = named_spans[n]
    <3>1. Len(spans') \in Nat /\ named_spans' = [named_spans EXCEPT ![name] = Append(@, Len(spans'))]
      BY <1>13, Opened DEF ReadSpanStart
    <3>2. Len(Append(named_spans[name], Len(spans'))) = Len(named_spans[name]) + 1
      BY <1>1, <3>1, AppendIsSeq
    <3>. QED  BY <1>1, <1>3, <3>1, <3>2
  <2>. HIDE DEF e
  <2>8. Len(call_stack') + (IF e.kind = "return" THEN 1 ELSE 0) =
          Len(call_stack) + (IF e.kind = "call" THEN 1 ELSE 0)
    BY <1>3, <2>1, <2>2, <2>3
  <2>9. \A n \in SpanNames :
          /\ e.kind = "start" /\ e.name = n => Len(named_spans'[n]) = Len(named_spans[n]) + 1
          /\ e.kind = "end" /\ e.name = n => Len(named_spans'[n]) + 1 = Len(named_spans[n])
          /\ ~(e.kind \in {"start", "end"} /\ e.name = n) =>
               Len(named_spans'[n]) = Len(named_spans[n])
    BY <1>3, <2>1, <2>2, <2>3
  <2>. QED  BY <1>5, <2>1, <2>2, <2>8, <2>9
<1>14. ASSUME NEW name \in SpanNames, ReadSpanEnd(name)
       PROVE  BalanceInv'
  <2>. DEFINE e == [kind |-> "end", name |-> name]
  <2>1. e \in Event /\ e.kind = "end" /\ e.name = name
    BY DEF Event
  <2>2. Read(e) /\ status' = "reading" /\ UNCHANGED call_stack /\ named_spans[name] # <<>>
    BY <1>14 DEF ReadSpanEnd, Read
  <2>3. /\ Len(named_spans'[name]) + 1 = Len(named_spans[name])
        /\ \A n \in SpanNames \ {name} : named_spans'[n] = named_spans[n]
    <3>1. named_spans' = [named_spans EXCEPT ![name] = Front(@)]
      BY <1>14 DEF ReadSpanEnd
    <3>2. Len(Front(named_spans[name])) = Len(named_spans[name]) - 1
      BY <1>1, <2>2, FrontFacts
    <3>. QED  BY <1>1, <1>3, <3>1, <3>2
  <2>4. Len(named_spans[name]) > 0
    BY <1>1, <1>3, <2>2, EmptySeq
  <2>. HIDE DEF e
  <2>8. Len(call_stack') + (IF e.kind = "return" THEN 1 ELSE 0) =
          Len(call_stack) + (IF e.kind = "call" THEN 1 ELSE 0)
    BY <1>3, <2>1, <2>2, <2>3
  <2>9. \A n \in SpanNames :
          /\ e.kind = "start" /\ e.name = n => Len(named_spans'[n]) = Len(named_spans[n]) + 1
          /\ e.kind = "end" /\ e.name = n => Len(named_spans'[n]) + 1 = Len(named_spans[n])
          /\ ~(e.kind \in {"start", "end"} /\ e.name = n) =>
               Len(named_spans'[n]) = Len(named_spans[n])
    BY <1>3, <2>1, <2>2, <2>3
  <2>. QED  BY <1>5, <2>1, <2>2, <2>4, <2>8, <2>9
<1>15. ASSUME NEW name \in SpanNames, ReadUnmatchedEnd(name)
       PROVE  BalanceInv'
  <2>. DEFINE e == [kind |-> "end", name |-> name]
  <2>1. e \in Event /\ e.kind = "end" /\ e.name = name
    BY DEF Event
  <2>2. Read(e) /\ status' = "panicked" /\ named_spans[name] = <<>>
    BY <1>15 DEF ReadUnmatchedEnd, Panic
  <2>3. Len(named_spans[name]) = 0
    BY <2>2
  <2>. HIDE DEF e
  <2>. QED  BY <1>6, <2>1, <2>2, <2>3
<1>16. CASE Finish
  <2>1. status = "reading" /\ Len(call_stack) = 1 /\ status' = "done" /\ UNCHANGED trace
    BY <1>16 DEF Finish
  <2>2. Balanced(trace) /\ calls + 1 = returns + 1
    BY <2>1 DEF BalanceInv, Balance, calls, returns
  <2>. QED  BY <1>2, <2>1, <2>2 DEF BalanceInv, calls, returns
<1>17. CASE FinishWithOpenCalls
  <2>1. status = "reading" /\ Len(call_stack) > 1 /\ status' = "panicked" /\ UNCHANGED trace
    BY <1>17 DEF FinishWithOpenCalls, Panic
  <2>2. calls + 1 = returns + Len(call_stack)
    BY <2>1 DEF BalanceInv, Balance, calls, returns
  <2>3. calls # returns
    BY <1>2, <1>3, <2>1, <2>2
  <2>. QED  BY <2>1, <2>3 DEF BalanceInv, calls, returns
<1>. QED  BY <1>7, <1>8, <1>9, <1>10, <1>11, <1>12, <1>13, <1>14, <1>15, <1>16, <1>17
          DEF AnalysisNext

-----------------------------------------------------------------------------
(* Least numbers, induction, and sums over sets of events.                 *)

(* The library states induction for an operator; this is the same for a    *)
(* set.                                                                    *)
LEMMA LeastNat ==
  ASSUME NEW S, S \subseteq Nat, S # {}
  PROVE  \E n \in S : \A m \in S : n <= m
<1>1. PICK x \in S : \A y \in S : ~(<<y, x>> \in OpToRel(<, Nat))
  BY NatLessThanWellFounded, WFMin, Zenon
<1>2. \A y \in S : ~(y < x)
  BY <1>1, Zenon DEF OpToRel
<1>. QED  BY <1>2

(* A set with 0 and all successors has all numbers.                        *)
LEMMA NatInduct ==
  ASSUME NEW S, 0 \in S, \A n \in Nat : n \in S => n + 1 \in S
  PROVE  Nat \subseteq S
<1>. SUFFICES ASSUME Nat \ S # {} PROVE FALSE
  OBVIOUS
<1>1. PICK n \in Nat \ S : \A m \in Nat \ S : n <= m
  <2>1. Nat \ S \subseteq Nat
    OBVIOUS
  <2>. QED  BY <2>1, LeastNat
<1>2. n # 0 /\ n - 1 \in Nat /\ ~(n <= n - 1)
  BY <1>1
<1>3. n - 1 \in S
  BY <1>1, <1>2
<1>. QED  BY <1>1, <1>2, <1>3

Pick(s) == CHOOSE x \in s : TRUE

(* The element that a sum over a set adds first.                           *)
LEMMA PickIn == ASSUME NEW s, s # {} PROVE Pick(s) \in s
  BY DEF Pick

SumIn(t, S) == MapThenSumSet(LAMBDA j : t[j].milli, S)

(* What one unfolding of the fold computes.                                *)
Unfolded(t, f, s) == IF s = {} THEN 0 ELSE t[Pick(s)].milli + f[s \ {Pick(s)}]

IsFold(f, t, S) == f = [s \in SUBSET S |-> Unfolded(t, f, s)]

(* A sum is the fold of the community modules.                             *)
LEMMA SumInIter ==
  ASSUME NEW t, NEW S
  PROVE  SumIn(t, S) = (CHOOSE fold : IsFold(fold, t, S))[S]
  BY DEF IsFold, SumIn, MapThenSumSet, MapThenFoldSet, Unfolded, Pick

(* The fold is defined: there is a function that it computes.              *)
LEMMA FoldDefined ==
  ASSUME NEW t, NEW S, IsFiniteSet(S)
  PROVE  \E f : IsFold(f, t, S)
<1>. DEFINE Small(n) == {s \in SUBSET S : Cardinality(s) <= n}
            Good == {n \in Nat : \E f : f = [s \in Small(n) |-> Unfolded(t, f, s)]}
<1>1. \A s \in SUBSET S : IsFiniteSet(s) /\ Cardinality(s) \in Nat /\ Cardinality(s) <= Cardinality(S)
  BY FS_Subset, FS_CardinalityType
<1>2. 0 \in Good
  <2>1. \A s \in Small(0) : s = {}
    BY <1>1, FS_EmptySet
  <2>2. \A f : \A s \in Small(0) : Unfolded(t, f, s) = 0
    BY <2>1 DEF Unfolded
  <2>. DEFINE z == [s \in Small(0) |-> 0]
  <2>3. z = [s \in Small(0) |-> Unfolded(t, z, s)]
    BY <2>2
  <2>. QED  BY <2>3
<1>3. ASSUME NEW n \in Nat, n \in Good
      PROVE  n + 1 \in Good
  <2>1. PICK f : f = [s \in Small(n) |-> Unfolded(t, f, s)]
    BY <1>3
  <2>. DEFINE h == [s \in Small(n + 1) |-> Unfolded(t, f, s)]
  <2>2. ASSUME NEW s \in Small(n + 1)
        PROVE  Unfolded(t, h, s) = Unfolded(t, f, s)
    <3>1. CASE s = {}
      BY <3>1 DEF Unfolded
    <3>2. CASE s # {}
      <4>. DEFINE r == s \ {Pick(s)}
      <4>1. r \in Small(n)
        <5>1. Pick(s) \in s
          BY <3>2, PickIn
        <5>2. Cardinality(r) = Cardinality(s) - 1
          BY <1>1, <5>1, FS_RemoveElement
        <5>. QED  BY <1>1, <5>2
      <4>2. r \in Small(n + 1)
        BY <1>1, <4>1
      <4>3. h[r] = Unfolded(t, f, r) /\ f[r] = Unfolded(t, f, r)
        <5>. HIDE DEF Small, r
        <5>. QED  BY <2>1, <4>1, <4>2
      <4>. QED  BY <3>2, <4>3 DEF Unfolded
    <3>. QED  BY <3>1, <3>2
  <2>3. h = [s \in Small(n + 1) |-> Unfolded(t, h, s)]
    BY <2>2
  <2>4. \E g : g = [s \in Small(n + 1) |-> Unfolded(t, g, s)]
    BY <2>3
  <2>. HIDE DEF Small
  <2>. QED  BY <2>4
<1>4. Cardinality(S) \in Good
  <2>. HIDE DEF Good
  <2>1. Nat \subseteq Good
    BY <1>2, <1>3, NatInduct
  <2>. QED  BY <2>1, FS_CardinalityType
<1>5. Small(Cardinality(S)) = SUBSET S
  BY <1>1
<1>. QED  BY <1>4, <1>5 DEF IsFold

(* Whatever it picks first.                                                *)
LEMMA FoldUnique ==
  ASSUME NEW t, NEW S, IsFiniteSet(S), NEW T \in SUBSET S,
         NEW f, IsFold(f, t, S), NEW h, IsFold(h, t, T)
  PROVE  f[T] = h[T]
<1>. DEFINE Good == {n \in Nat : \A s \in SUBSET T : Cardinality(s) = n => f[s] = h[s]}
<1>1. \A s \in SUBSET T : /\ IsFiniteSet(s) /\ Cardinality(s) \in Nat
                          /\ f[s] = Unfolded(t, f, s) /\ h[s] = Unfolded(t, h, s)
  <2>1. \A s \in SUBSET T : s \in SUBSET S
    OBVIOUS
  <2>. QED  BY <2>1, FS_Subset, FS_CardinalityType DEF IsFold
<1>2. 0 \in Good
  <2>1. ASSUME NEW s \in SUBSET T, Cardinality(s) = 0
        PROVE  f[s] = h[s]
    <3>1. s = {}
      BY <1>1, <2>1, FS_EmptySet
    <3>. QED  BY <1>1, <3>1 DEF Unfolded
  <2>. QED  BY <2>1
<1>3. ASSUME NEW n \in Nat, n \in Good
      PROVE  n + 1 \in Good
  <2>1. ASSUME NEW s \in SUBSET T, Cardinality(s) = n + 1
        PROVE  f[s] = h[s]
    <3>. DEFINE r == s \ {Pick(s)}
    <3>1. s # {}
      BY <2>1, FS_EmptySet, 0 # n + 1
    <3>2. Cardinality(r) = n /\ r \in SUBSET T
      <4>1. Pick(s) \in s
        BY <3>1, PickIn
      <4>2. IsFiniteSet(s)
        BY <1>1, <2>1
      <4>3. Cardinality(r) = Cardinality(s) - 1
        BY <4>1, <4>2, FS_RemoveElement
      <4>. QED  BY <2>1, <4>3
    <3>3. f[r] = h[r]
      BY <1>3, <3>2
    <3>. QED  BY <1>1, <2>1, <3>1, <3>3 DEF Unfolded
  <2>2. \A s \in SUBSET T : Cardinality(s) = n + 1 => f[s] = h[s]
    BY <2>1
  <2>3. n + 1 \in Nat
    OBVIOUS
  <2>. QED  BY <2>2, <2>3
<1>4. Cardinality(T) \in Good
  <2>. HIDE DEF Good
  <2>1. Nat \subseteq Good
    BY <1>2, <1>3, NatInduct
  <2>. QED  BY <1>1, <2>1
<1>. QED  BY <1>4

(* A sum is its first element and the sum of the others.                   *)
LEMMA SumInPick ==
  ASSUME NEW t, NEW S, IsFiniteSet(S), S # {}
  PROVE  SumIn(t, S) = t[Pick(S)].milli + SumIn(t, S \ {Pick(S)})
<1>. DEFINE R == S \ {Pick(S)}
            f == CHOOSE fold : IsFold(fold, t, S)
            h == CHOOSE fold : IsFold(fold, t, R)
<1>1. IsFold(f, t, S)
  BY FoldDefined
<1>2. IsFiniteSet(R)
  BY FS_Subset
<1>3. IsFold(h, t, R)
  BY <1>2, FoldDefined
<1>4. SumIn(t, S) = f[S] /\ SumIn(t, R) = h[R]
  BY SumInIter
<1>. HIDE DEF f, h
<1>5. f[R] = h[R]
  <2>1. R \in SUBSET S
    OBVIOUS
  <2>. HIDE DEF R
  <2>. QED  BY <2>1, <1>1, <1>3, FoldUnique
<1>6. f[S] = t[Pick(S)].milli + f[R]
  BY <1>1 DEF IsFold, Unfolded
<1>. QED  BY <1>4, <1>5, <1>6

(* Nothing adds up to 0.                                                   *)
LEMMA SumInEmpty == ASSUME NEW t PROVE SumIn(t, {}) = 0
<1>. DEFINE f == CHOOSE fold : IsFold(fold, t, {})
<1>1. IsFold(f, t, {})
  BY FS_EmptySet, FoldDefined
<1>2. SumIn(t, {}) = f[{}]
  BY SumInIter
<1>. HIDE DEF f
<1>. QED  BY <1>1, <1>2 DEF IsFold, Unfolded

(* The sum is taken off element by element, in any order.                  *)
LEMMA SumInRemove ==
  ASSUME NEW t, NEW S, IsFiniteSet(S), \A j \in S : t[j].milli \in Nat
  PROVE  /\ SumIn(t, S) \in Nat
         /\ \A x \in S : SumIn(t, S) = t[x].milli + SumIn(t, S \ {x})
<1>. DEFINE Removes(s) == /\ SumIn(t, s) \in Nat
                          /\ \A x \in s : SumIn(t, s) = t[x].milli + SumIn(t, s \ {x})
            Good == {n \in Nat : \A s \in SUBSET S : Cardinality(s) <= n => Removes(s)}
<1>1. \A s \in SUBSET S : IsFiniteSet(s) /\ Cardinality(s) \in Nat
  BY FS_Subset, FS_CardinalityType
<1>2. 0 \in Good
  <2>1. ASSUME NEW s \in SUBSET S, Cardinality(s) <= 0
        PROVE  Removes(s)
    <3>1. Cardinality(s) = 0
      BY <1>1, <2>1
    <3>2. s = {}
      BY <1>1, <3>1, FS_EmptySet
    <3>. QED  BY <3>2, SumInEmpty
  <2>. QED  BY <2>1
<1>3. ASSUME NEW n \in Nat, n \in Good
      PROVE  n + 1 \in Good
  <2>1. ASSUME NEW s \in SUBSET S, Cardinality(s) <= n + 1
        PROVE  Removes(s)
    <3>1. CASE s = {}
      BY <3>1, SumInEmpty
    <3>2. ASSUME s # {}
          PROVE  Removes(s)
      <4>. DEFINE c == Pick(s)
      <4>1. IsFiniteSet(s) /\ Cardinality(s) \in Nat
        BY <1>1
      <4>2. c \in s
        BY <3>2, PickIn
      <4>3. SumIn(t, s) = t[c].milli + SumIn(t, s \ {c})
        BY <3>2, <4>1, SumInPick
      <4>. HIDE DEF c
      <4>4. ASSUME NEW x \in s
            PROVE  Removes(s \ {x}) /\ Cardinality(s \ {x}) <= n
        <5>1. Cardinality(s \ {x}) = Cardinality(s) - 1
          BY <4>1, FS_RemoveElement
        <5>2. Cardinality(s \ {x}) <= n
          BY <2>1, <4>1, <5>1
        <5>3. s \ {x} \in SUBSET S
          OBVIOUS
        <5>. HIDE DEF Removes
        <5>. QED  BY <1>3, <5>2, <5>3
      <4>5. SumIn(t, s) \in Nat
        <5>1. SumIn(t, s \ {c}) \in Nat /\ t[c].milli \in Nat
          BY <4>2, <4>4
        <5>. QED  BY <4>3, <5>1
      <4>6. ASSUME NEW x \in s, x # c
            PROVE  SumIn(t, s) = t[x].milli + SumIn(t, s \ {x})
        <5>. DEFINE r == (s \ {c}) \ {x}
        <5>1. SumIn(t, s \ {c}) = t[x].milli + SumIn(t, r)
          BY <4>2, <4>4, <4>6
        <5>2. (s \ {x}) \ {c} = r
          OBVIOUS
        <5>3. SumIn(t, s \ {x}) = t[c].milli + SumIn(t, r)
          BY <4>2, <4>4, <4>6, <5>2
        <5>4. SumIn(t, r) \in Nat
          <6>1. IsFiniteSet(s \ {c}) /\ Cardinality(s \ {c}) <= n /\ Cardinality(s \ {c}) \in Nat
            BY <1>1, <4>2, <4>4
          <6>2. Cardinality(r) = Cardinality(s \ {c}) - 1
            BY <4>6, <6>1, FS_RemoveElement
          <6>3. Cardinality(r) <= n
            BY <6>1, <6>2
          <6>4. r \in SUBSET S
            OBVIOUS
          <6>5. Removes(r)
            <7>. HIDE DEF Removes, r
            <7>. QED  BY <1>3, <6>3, <6>4
          <6>. QED  BY <6>5
        <5>5. t[x].milli \in Nat /\ t[c].milli \in Nat
          BY <4>2
        <5>. HIDE DEF r
        <5>. QED  BY <4>3, <5>1, <5>3, <5>4, <5>5
      <4>. QED  BY <4>3, <4>5, <4>6
    <3>. QED  BY <3>1, <3>2
  <2>2. \A s \in SUBSET S : Cardinality(s) <= n + 1 => Removes(s)
    BY <2>1
  <2>3. n + 1 \in Nat
    OBVIOUS
  <2>. HIDE DEF Removes
  <2>. QED  BY <2>2, <2>3
<1>4. Cardinality(S) \in Good
  <2>. HIDE DEF Good
  <2>1. Nat \subseteq Good
    BY <1>2, <1>3, NatInduct
  <2>. QED  BY <1>1, <2>1
<1>. QED  BY <1>4

(* One more element adds its amount.                                       *)
LEMMA SumInAdd ==
  ASSUME NEW t, NEW S, IsFiniteSet(S), \A j \in S : t[j].milli \in Nat,
         NEW x, x \notin S, t[x].milli \in Nat
  PROVE  SumIn(t, With(S, x)) = SumIn(t, S) + t[x].milli
<1>1. IsFiniteSet(With(S, x))
  BY FS_AddElement DEF With
<1>2. \A j \in With(S, x) : t[j].milli \in Nat
  BY DEF With
<1>. DEFINE R == With(S, x) \ {x}
<1>3. R = S /\ x \in With(S, x)
  BY DEF With
<1>4. SumIn(t, With(S, x)) = t[x].milli + SumIn(t, R)
  BY <1>1, <1>2, <1>3, SumInRemove
<1>5. SumIn(t, S) \in Nat
  BY SumInRemove
<1>. HIDE DEF R
<1>. QED  BY <1>3, <1>4, <1>5

(* Only the amounts of its elements matter to a sum.                       *)
LEMMA SumInSame ==
  ASSUME NEW t, NEW u, NEW S, IsFiniteSet(S), \A j \in S : t[j] = u[j]
  PROVE  SumIn(t, S) = SumIn(u, S)
<1>. DEFINE Good == {n \in Nat : \A s \in SUBSET S : Cardinality(s) = n => SumIn(t, s) = SumIn(u, s)}
<1>1. \A s \in SUBSET S : IsFiniteSet(s) /\ Cardinality(s) \in Nat
  BY FS_Subset, FS_CardinalityType
<1>2. 0 \in Good
  <2>1. ASSUME NEW s \in SUBSET S, Cardinality(s) = 0
        PROVE  SumIn(t, s) = SumIn(u, s)
    <3>1. s = {}
      BY <1>1, <2>1, FS_EmptySet
    <3>. QED  BY <3>1, SumInEmpty
  <2>. QED  BY <2>1
<1>3. ASSUME NEW n \in Nat, n \in Good
      PROVE  n + 1 \in Good
  <2>1. ASSUME NEW s \in SUBSET S, Cardinality(s) = n + 1
        PROVE  SumIn(t, s) = SumIn(u, s)
    <3>1. IsFiniteSet(s) /\ s # {}
      BY <1>1, <2>1, FS_EmptySet, 0 # n + 1
    <3>2. Pick(s) \in s
      BY <3>1, PickIn
    <3>3. Cardinality(s \ {Pick(s)}) = n
      <4>1. Cardinality(s \ {Pick(s)}) = Cardinality(s) - 1
        BY <3>1, <3>2, FS_RemoveElement
      <4>. QED  BY <2>1, <4>1
    <3>4. SumIn(t, s \ {Pick(s)}) = SumIn(u, s \ {Pick(s)})
      BY <1>3, <3>3
    <3>. QED  BY <3>1, <3>2, <3>4, SumInPick
  <2>2. \A s \in SUBSET S : Cardinality(s) = n + 1 => SumIn(t, s) = SumIn(u, s)
    BY <2>1
  <2>3. n + 1 \in Nat
    OBVIOUS
  <2>. QED  BY <2>2, <2>3
<1>4. Cardinality(S) \in Good
  <2>. HIDE DEF Good
  <2>1. Nat \subseteq Good
    BY <1>2, <1>3, NatInduct
  <2>. QED  BY <1>1, <2>1
<1>. QED  BY <1>4

-----------------------------------------------------------------------------
(* Openings and the closings that match them.                              *)

(* The least element is the minimum, the greatest the maximum.             *)
LEMMA MinIs ==
  ASSUME NEW S, S \subseteq Nat, NEW m \in S, \A y \in S : m <= y
  PROVE  Min(S) = m
<1>1. \A x \in S : (\A y \in S : x =< y) => x = m
  <2>1. \A x, y \in Nat : x <= y /\ y <= x => x = y
    OBVIOUS
  <2>. QED  BY <2>1
<1>2. Min(S) \in S /\ \A y \in S : Min(S) =< y
  BY DEF Min
<1>. QED  BY <1>1, <1>2

LEMMA MaxIs ==
  ASSUME NEW S, S \subseteq Nat, NEW m \in S, \A y \in S : y <= m
  PROVE  Max(S) = m
<1>1. \A x \in S : (\A y \in S : x >= y) => x = m
  <2>1. \A x, y \in Nat : x >= y /\ x <= y => x = y
    OBVIOUS
  <2>. QED  BY <2>1
<1>2. Max(S) \in S /\ \A y \in S : Max(S) >= y
  BY DEF Max
<1>. QED  BY <1>1, <1>2

MatchingIn(t, opens, closes, o) ==
  {j \in PositionsIn(t, closes, o, Len(t)) :
     CountIn(t, opens, o, j) = CountIn(t, closes, o, j)}

(* One more event changes what matches only at its own position.           *)
LEMMA MatchingAppend ==
  ASSUME NEW E, NEW t \in Seq(E), NEW e \in E, NEW opens, NEW closes,
         NEW o \in Nat, o <= Len(t) + 1
  PROVE  /\ MatchingIn(t, opens, closes, o) \subseteq 1..Len(t)
         /\ MatchingIn(Append(t, e), opens, closes, o) \subseteq 1..(Len(t) + 1)
         /\ \A j \in 1..Len(t) : j \in MatchingIn(Append(t, e), opens, closes, o)
                                 <=> j \in MatchingIn(t, opens, closes, o)
         /\ Len(t) + 1 \in MatchingIn(Append(t, e), opens, closes, o)
              <=> /\ e \in closes
                  /\ CountIn(Append(t, e), opens, o, Len(t) + 1) =
                       CountIn(Append(t, e), closes, o, Len(t) + 1)
<1>. DEFINE u == Append(t, e)
            n == Len(t)
<1>1. /\ n \in Nat /\ DOMAIN t = 1..n /\ DOMAIN u = 1..(n + 1) /\ Len(u) = n + 1
      /\ \A i \in 1..n : u[i] = t[i]
      /\ u[n + 1] = e
  BY AppendIsSeq
<1>2. \A S : \A j \in 1..n : CountIn(u, S, o, j) = CountIn(t, S, o, j)
  <2>1. ASSUME NEW S, NEW j \in 1..n PROVE CountIn(u, S, o, j) = CountIn(t, S, o, j)
    <3>1. j \in Nat /\ j <= Len(t)
      BY <1>1
    <3>. QED  BY <3>1, PositionsKept
  <2>. QED  BY <2>1
<1>3. o <= n + 1
  OBVIOUS
<1>. HIDE DEF u, n
<1>4. MatchingIn(t, opens, closes, o) \subseteq 1..n
  BY <1>1 DEF MatchingIn, PositionsIn
<1>5. MatchingIn(u, opens, closes, o) \subseteq 1..(n + 1)
  BY <1>1 DEF MatchingIn, PositionsIn
<1>6. ASSUME NEW j \in 1..n
      PROVE  j \in MatchingIn(u, opens, closes, o) <=> j \in MatchingIn(t, opens, closes, o)
  <2>1. j \in 1..(n + 1) /\ j <= n /\ j <= n + 1
    BY <1>1
  <2>2. /\ CountIn(u, opens, o, j) = CountIn(t, opens, o, j)
        /\ CountIn(u, closes, o, j) = CountIn(t, closes, o, j)
    BY <1>2
  <2>3. Len(t) = n
    BY DEF n
  <2>. QED  BY <1>1, <2>1, <2>2, <2>3 DEF MatchingIn, PositionsIn
<1>7. n + 1 \in MatchingIn(u, opens, closes, o)
        <=> e \in closes /\ CountIn(u, opens, o, n + 1) = CountIn(u, closes, o, n + 1)
  <2>1. n + 1 \in 1..(n + 1) /\ n + 1 <= n + 1
    BY <1>1
  <2>. QED  BY <1>1, <1>3, <2>1 DEF MatchingIn, PositionsIn
<1>. QED  BY <1>4, <1>5, <1>6, <1>7 DEF u, n

(* Where something is matched first does not change any more.              *)
LEMMA FirstMatch ==
  ASSUME NEW E, NEW t \in Seq(E), NEW e \in E, NEW opens, NEW closes,
         NEW o \in Nat, o <= Len(t) + 1,
         NEW old, old = MatchingIn(t, opens, closes, o),
         NEW new, new = MatchingIn(Append(t, e), opens, closes, o),
         NEW opened, opened = CountIn(Append(t, e), opens, o, Len(t) + 1),
         NEW closed, closed = CountIn(Append(t, e), closes, o, Len(t) + 1)
  PROVE  /\ old # {} => new # {} /\ Min(new) = Min(old) /\ Min(old) \in 1..Len(t)
         /\ old = {} /\ (e \notin closes \/ opened # closed) => new = {}
         /\ old = {} /\ e \in closes /\ opened = closed => new # {} /\ Min(new) = Len(t) + 1
<1>. DEFINE n == Len(t)
            closing == e \in closes /\ opened = closed
<1>1. n \in Nat
  BY LenProperties
<1>2. /\ old \subseteq 1..n /\ new \subseteq 1..(n + 1)
      /\ \A j \in 1..n : j \in new <=> j \in old
      /\ n + 1 \in new <=> closing
  BY MatchingAppend
<1>. HIDE DEF n, closing
<1>3. 1..(n + 1) = 1..n \cup {n + 1} /\ n + 1 \notin 1..n
  BY <1>1
<1>4. ASSUME old # {}
      PROVE  new # {} /\ Min(new) = Min(old) /\ Min(old) \in 1..n
  <2>1. old \subseteq Nat /\ new \subseteq Nat
    BY <1>1, <1>2
  <2>2. PICK m \in old : \A y \in old : m <= y
    BY <1>4, <2>1, LeastNat
  <2>3. m \in 1..n /\ m \in new
    BY <1>2
  <2>4. \A y \in new : m <= y
    <3>1. m <= n + 1
      BY <1>1, <2>3
    <3>. QED  BY <1>2, <1>3, <2>2, <3>1
  <2>5. Min(old) = m
    BY <2>1, <2>2, MinIs
  <2>6. Min(new) = m
    BY <2>1, <2>3, <2>4, MinIs
  <2>. QED  BY <2>3, <2>5, <2>6
<1>5. old = {} /\ ~closing => new = {}
  BY <1>2, <1>3
<1>6. ASSUME old = {}, closing
      PROVE  new # {} /\ Min(new) = n + 1
  <2>1. new = {n + 1}
    BY <1>2, <1>3, <1>6
  <2>2. n + 1 \in new /\ new \subseteq Nat /\ \A y \in new : n + 1 <= y
    BY <1>1, <2>1
  <2>. QED  BY <2>2, MinIs
<1>. QED  BY <1>4, <1>5, <1>6 DEF n, closing

(* Where the k-th span is opened.                                          *)
OpeningOf(t, k) ==
  CHOOSE j \in PositionsIn(t, Openings, 1, Len(t)) : CountIn(t, Openings, 1, j) = k - 1

(* A later opening has more openings before it.                            *)
LEMMA CountGrows ==
  ASSUME NEW E, NEW t \in Seq(E), NEW S, NEW i \in DOMAIN t, NEW j \in DOMAIN t, i < j, t[j] \in S
  PROVE  CountIn(t, S, 1, i) < CountIn(t, S, 1, j)
<1>. DEFINE A == PositionsIn(t, S, 1, i)
            B == PositionsIn(t, S, 1, j)
<1>1. Len(t) \in Nat /\ DOMAIN t = 1..Len(t)
  BY LenProperties
<1>2. i \in Nat /\ j \in Nat /\ 1 <= j /\ ~(j <= i) /\ j <= j
  BY <1>1
<1>3. A \subseteq B
  <2>1. \A x \in DOMAIN t : x <= i => x <= j
    BY <1>1, <1>2
  <2>. QED  BY <2>1 DEF PositionsIn
<1>4. j \in B /\ j \notin A
  BY <1>2 DEF PositionsIn
<1>5. IsFiniteSet(B) /\ Cardinality(B) \in Nat /\ Cardinality(A) \in Nat
  BY PositionsFinite DEF CountIn
<1>. HIDE DEF A, B
<1>6. Cardinality(A) <= Cardinality(B) /\ (Cardinality(B) = Cardinality(A) => B = A)
  BY <1>3, <1>5, FS_Subset
<1>7. Cardinality(A) < Cardinality(B)
  BY <1>3, <1>4, <1>5, <1>6
<1>. QED  BY <1>7 DEF CountIn, A, B

(* So only one opening has a given number.                                 *)
LEMMA OpeningIs ==
  ASSUME NEW E, NEW t \in Seq(E), NEW k, NEW j \in PositionsIn(t, Openings, 1, Len(t)),
         CountIn(t, Openings, 1, j) = k - 1
  PROVE  OpeningOf(t, k) = j
<1>1. ASSUME NEW i \in PositionsIn(t, Openings, 1, Len(t)), CountIn(t, Openings, 1, i) = k - 1
      PROVE  i = j
  <2>1. /\ i \in DOMAIN t /\ t[i] \in Openings
        /\ j \in DOMAIN t /\ t[j] \in Openings
    BY DEF PositionsIn
  <2>2. CountIn(t, Openings, 1, i) \in Nat /\ CountIn(t, Openings, 1, j) \in Nat
    BY PositionsFinite
  <2>3. ~(i < j) /\ ~(j < i)
    BY <1>1, <2>1, <2>2, CountGrows
  <2>4. i \in Nat /\ j \in Nat
    BY <2>1, LenProperties
  <2>. QED  BY <2>3, <2>4
<1>2. \E i \in PositionsIn(t, Openings, 1, Len(t)) : CountIn(t, Openings, 1, i) = k - 1
  OBVIOUS
<1>. QED  BY <1>1, <1>2 DEF OpeningOf

-----------------------------------------------------------------------------
(* Classes of spans, and what a step does to them.                         *)

(* Classes of spans that close each other: the calls, and each label.      *)
CallClass == CHOOSE c : c \notin SpanNames
Classes == SpanNames \cup {CallClass}

Opens(c) == IF c \in SpanNames THEN Starts(c) ELSE Calls
Closes(c) == IF c \in SpanNames THEN Ends(c) ELSE Returns
Stack(c) == IF c \in SpanNames THEN named_spans[c] ELSE call_stack

(* Calls are not one of the named spans.                                   *)
LEMMA CallClassNew == CallClass \notin SpanNames
  BY NoSetContainsEverything DEF CallClass

LEMMA ClassCases ==
  /\ Opens(CallClass) = Calls /\ Closes(CallClass) = Returns /\ Stack(CallClass) = call_stack
  /\ \A n \in SpanNames : Opens(n) = Starts(n) /\ Closes(n) = Ends(n) /\ Stack(n) = named_spans[n]
  /\ \A c \in Classes : c \in SpanNames \/ c = CallClass
  BY CallClassNew DEF Opens, Closes, Stack, Classes

(* An event opens or closes at most one class of spans.                    *)
LEMMA EventClass ==
  ASSUME NEW e \in Event, NEW c \in Classes
  PROVE  /\ e \in Opens(c) => e \in Openings
         /\ e \in Opens(c) => \A d \in Classes : e \notin Closes(d) /\ (e \in Opens(d) => d = c)
         /\ e \in Closes(c) => e \notin Openings
         /\ e \in Closes(c) => \A d \in Classes : e \in Closes(d) => d = c
         /\ e \in Opens(c) \cup Closes(c) => e.kind # "charge"
<1>1. \A d \in Classes :
        /\ e \in Opens(d) <=> \/ d = CallClass /\ e.kind = "call"
                              \/ d \in SpanNames /\ e.kind = "start" /\ e.name = d
        /\ e \in Closes(d) <=> \/ d = CallClass /\ e.kind = "return"
                               \/ d \in SpanNames /\ e.kind = "end" /\ e.name = d
  <2>1. ASSUME NEW d \in SpanNames
        PROVE  /\ e \in Starts(d) <=> e.kind = "start" /\ e.name = d
               /\ e \in Ends(d) <=> e.kind = "end" /\ e.name = d
    BY DEF Event, Starts, Ends
  <2>2. e \in Calls <=> e.kind = "call"
    BY DEF Event, Calls
  <2>3. e \in Returns <=> e.kind = "return"
    BY DEF Event, Returns
  <2>. QED  BY <2>1, <2>2, <2>3, ClassCases, CallClassNew
<1>2. e \in Openings <=> e.kind = "call" \/ e.kind = "start"
  BY DEF Event, Openings, Calls, Starts
<1>. QED  BY <1>1, <1>2, ClassCases, CallClassNew

(* What opens a span opens one of a class.                                 *)
LEMMA OpeningClass ==
  ASSUME NEW e \in Openings
  PROVE  \E c \in Classes : e \in Opens(c)
  BY ClassCases, CallClassNew DEF Openings, Opens, Classes

(* The root is at the bottom of the calls and has no label.                *)
RootFirst == (call_stack # <<>> => call_stack[1] = 1) /\ 1 \notin OpenNamed

(* Stacks hold indices of spans, each in one place.                        *)
LEMMA StackFacts ==
  ASSUME AnalysisInv, NEW c \in Classes
  PROVE  /\ Stack(c) \in Seq(Nat)
         /\ Len(Stack(c)) \in Nat /\ DOMAIN Stack(c) = 1..Len(Stack(c))
         /\ \A p \in DOMAIN Stack(c) : Stack(c)[p] \in 1..Len(spans)
         /\ \A d \in Classes : \A p \in DOMAIN Stack(c), q \in DOMAIN Stack(d) :
              Stack(c)[p] = Stack(d)[q] => c = d /\ p = q
<1>1. Stack(c) \in Seq(Nat)
  BY ClassCases DEF AnalysisInv, AnalysisTypeOK
<1>2. Len(Stack(c)) \in Nat /\ DOMAIN Stack(c) = 1..Len(Stack(c))
  BY <1>1, LenProperties
<1>3. \A d \in Classes : \A p \in DOMAIN Stack(d) :
        Stack(d)[p] \in IF d = CallClass THEN OpenCalls ELSE OpenNamed
  BY ClassCases, CallClassNew DEF OpenCalls, OpenNamed, ToSet
<1>4. \A p \in DOMAIN Stack(c) : Stack(c)[p] \in 1..Len(spans)
  BY <1>3, OpenIndices
<1>5. ASSUME NEW d \in Classes, NEW p \in DOMAIN Stack(c), NEW q \in DOMAIN Stack(d),
             Stack(c)[p] = Stack(d)[q]
      PROVE  c = d /\ p = q
  <2>1. c = CallClass <=> d = CallClass
    BY <1>3, <1>5 DEF AnalysisInv, Distinct
  <2>2. CASE c = CallClass
    BY <1>5, <2>1, <2>2, ClassCases DEF AnalysisInv, Distinct
  <2>3. CASE c # CallClass
    BY <1>5, <2>1, <2>3, ClassCases DEF AnalysisInv, Distinct
  <2>. QED  BY <2>2, <2>3
<1>. QED  BY <1>1, <1>2, <1>4, <1>5

(* Steps, as far as they matter to what is open.                           *)
Neutral(e) ==
  /\ \A c \in Classes : e \notin Opens(c) /\ e \notin Closes(c) /\ Stack(c)' = Stack(c)
  /\ Len(spans') = Len(spans)
  /\ \/ ReadOther
     \/ \E name \in GasNames, milli \in Amounts :
          /\ e = [kind |-> "charge", name |-> name, milli |-> milli]
          /\ ReadGasCharge(name, milli)
Opening(c, e) ==
  /\ e \in Opens(c)
  /\ Stack(c)' = Append(Stack(c), Len(spans'))
  /\ \A d \in Classes \ {c} : Stack(d)' = Stack(d)
  /\ Len(spans') = Len(spans) + 1
  /\ spans' = Append(spans, NewSpan)
Closing(c, e) ==
  /\ e \in Closes(c)
  /\ Stack(c) # <<>> /\ Stack(c)[Len(Stack(c))] # 1
  /\ Stack(c)' = Front(Stack(c))
  /\ \A d \in Classes \ {c} : Stack(d)' = Stack(d)
  /\ Len(spans') = Len(spans)
  /\ IF c = CallClass THEN ReadCallReturn ELSE ReadSpanEnd(c)
Refusing(c, e) ==
  /\ e \in Closes(c)
  /\ \A p \in DOMAIN Stack(c) : Stack(c)[p] = 1
  /\ \A d \in Classes : Stack(d)' = Stack(d)
  /\ spans' = spans
Quiet ==
  /\ trace' = trace
  /\ \A c \in Classes : \/ Stack(c)' = Stack(c)
                        \/ Stack(c)' = <<>> /\ \A p \in DOMAIN Stack(c) : Stack(c)[p] = 1
  /\ Len(spans') = Len(spans)
  /\ Finish \/ (UNCHANGED <<spans, call_stack, named_spans>> /\ status' \in {status, "panicked"})

(* Every step is of one of these kinds.                                    *)
LEMMA StepKinds ==
  ASSUME AnalysisInv, RootFirst, [AnalysisNext]_analysisVars
  PROVE  \/ \E e \in Event : /\ Read(e)
                             /\ \/ Neutral(e)
                                \/ \E c \in Classes : Opening(c, e) \/ Closing(c, e) \/ Refusing(c, e)
         \/ Quiet
<1>1. \A c \in SpanNames : c \in Classes
  BY ClassCases DEF Classes
<1>2. CallClass \in Classes
  BY DEF Classes
<1>3. /\ spans \in Seq(Span) /\ call_stack \in Seq(Nat)
      /\ named_spans \in [SpanNames -> Seq(Nat)]
      /\ Len(spans) \in Nat /\ DOMAIN spans = 1..Len(spans)
  BY OpenIndices DEF AnalysisInv, AnalysisTypeOK
<1>4. ASSUME UNCHANGED <<call_stack, named_spans>>
      PROVE  \A c \in Classes : Stack(c)' = Stack(c)
  BY <1>4 DEF Stack
<1>5. CASE UNCHANGED analysisVars
  BY <1>4, <1>5 DEF analysisVars, Quiet
<1>6. ASSUME NEW name \in GasNames, NEW milli \in Amounts, ReadGasCharge(name, milli)
      PROVE  \E e \in Event : Read(e) /\ Neutral(e)
  <2>. DEFINE e == [kind |-> "charge", name |-> name, milli |-> milli]
  <2>1. e \in Event /\ e.kind = "charge"
    BY DEF Event
  <2>2. Read(e) /\ UNCHANGED <<call_stack, named_spans>>
    BY <1>6 DEF ReadGasCharge
  <2>3. Len(spans') = Len(spans)
    <3>1. \A k \in DOMAIN spans : spans[k] \in Span /\ AddSelfGas(spans[k], name, milli) \in Span
      <4>1. milli \in Nat
        BY AmountAssumption
      <4>. QED  BY <4>1, OpenIndices, AddSelfGasType
    <3>2. spans' \in [1..Len(spans) -> Span]
      BY <1>3, <1>6, <3>1 DEF ReadGasCharge
    <3>. QED  BY <1>3, <3>2, FunctionSeq
  <2>. HIDE DEF e
  <2>4. \A c \in Classes : e \notin Opens(c) /\ e \notin Closes(c)
    BY <2>1, EventClass
  <2>. QED  BY <1>4, <1>6, <2>1, <2>2, <2>3, <2>4 DEF Neutral, e
<1>7. CASE ReadOther
  <2>. DEFINE e == [kind |-> "other"]
  <2>1. e \in Event /\ e.kind = "other"
    BY DEF Event
  <2>2. Read(e) /\ UNCHANGED <<call_stack, named_spans>> /\ Len(spans') = Len(spans)
    BY <1>7 DEF ReadOther
  <2>3. \A c \in Classes : e \notin Opens(c) /\ e \notin Closes(c)
    BY ClassCases DEF Calls, Returns, Starts, Ends
  <2>. HIDE DEF e
  <2>. QED  BY <1>4, <1>7, <2>1, <2>2, <2>3 DEF Neutral
<1>8. ASSUME spans' = Append(spans, NewSpan)
      PROVE  Len(spans') = Len(spans) + 1
  BY <1>3, <1>8, NewSpanType, AppendIsSeq
<1>9. CASE ReadCall
  <2>. DEFINE e == [kind |-> "call"]
  <2>1. e \in Event /\ e \in Opens(CallClass)
    BY ClassCases DEF Event, Calls
  <2>2. Read(e) /\ named_spans' = named_spans /\ call_stack' = Append(call_stack, Len(spans'))
    BY <1>9 DEF ReadCall
  <2>3. Len(spans') = Len(spans) + 1
    BY <1>8, <1>9 DEF ReadCall
  <2>4. /\ Stack(CallClass)' = Append(Stack(CallClass), Len(spans'))
        /\ \A d \in Classes \ {CallClass} : Stack(d)' = Stack(d)
    BY <2>2, CallClassNew DEF Stack, Classes
  <2>. HIDE DEF e
  <2>5. Opening(CallClass, e)
    BY <1>9, <2>1, <2>3, <2>4 DEF Opening, ReadCall
  <2>. QED  BY <1>2, <2>1, <2>2, <2>5
<1>10. ASSUME NEW name \in SpanNames, ReadSpanStart(name)
       PROVE  \E e \in Event : Read(e) /\ \E c \in Classes : Opening(c, e)
  <2>. DEFINE e == [kind |-> "start", name |-> name]
  <2>1. e \in Event /\ e \in Opens(name)
    BY ClassCases DEF Event, Starts
  <2>2. /\ Read(e) /\ call_stack' = call_stack
        /\ named_spans' = [named_spans EXCEPT ![name] = Append(@, Len(spans'))]
    BY <1>10 DEF ReadSpanStart
  <2>3. Len(spans') = Len(spans) + 1
    BY <1>8, <1>10 DEF ReadSpanStart
  <2>4. /\ Stack(name)' = Append(Stack(name), Len(spans'))
        /\ \A d \in Classes \ {name} : Stack(d)' = Stack(d)
    BY <1>3, <2>2 DEF Stack, Classes
  <2>. HIDE DEF e
  <2>5. Opening(name, e)
    BY <1>10, <2>1, <2>3, <2>4 DEF Opening, ReadSpanStart
  <2>. QED  BY <1>1, <2>1, <2>2, <2>5
<1>11. ASSUME NEW k, NEW span, spans' = [spans EXCEPT ![k] = span]
       PROVE  Len(spans') = Len(spans)
  <2>1. DOMAIN spans' = 1..Len(spans)
    BY <1>3, <1>11
  <2>. QED  BY <1>3, <2>1
<1>12. CASE ReadCallReturn
  <2>. DEFINE e == [kind |-> "return"]
  <2>1. e \in Event /\ e \in Closes(CallClass)
    BY ClassCases DEF Event, Returns
  <2>2. /\ Read(e) /\ named_spans' = named_spans /\ call_stack' = Front(call_stack)
        /\ Len(call_stack) > 1
    BY <1>12 DEF ReadCallReturn
  <2>3. Len(spans') = Len(spans)
    <3>1. DOMAIN spans' = 1..Len(spans)
      BY <1>3, <1>12 DEF ReadCallReturn
    <3>. QED  BY <1>3, <3>1
  <2>4. /\ Stack(CallClass)' = Front(Stack(CallClass))
        /\ \A d \in Classes \ {CallClass} : Stack(d)' = Stack(d)
    BY <2>2, CallClassNew DEF Stack, Classes
  <2>5. call_stack # <<>> /\ call_stack[Len(call_stack)] # 1
    <3>. DEFINE n == Len(call_stack)
    <3>1. n \in Nat /\ DOMAIN call_stack = 1..n /\ n > 1
      BY <1>3, <2>2, LenProperties
    <3>2. call_stack # <<>>
      BY <1>3, <2>2, EmptySeq
    <3>. HIDE DEF n
    <3>3. n \in DOMAIN call_stack /\ 1 \in DOMAIN call_stack /\ n # 1
      BY <3>1
    <3>4. call_stack[1] = 1 /\ call_stack[n] # call_stack[1]
      BY <3>2, <3>3 DEF RootFirst, AnalysisInv, Distinct
    <3>. QED  BY <3>2, <3>4 DEF n
  <2>. HIDE DEF e
  <2>6. Closing(CallClass, e)
    BY <1>12, <2>1, <2>3, <2>4, <2>5, ClassCases DEF Closing
  <2>. QED  BY <1>2, <2>1, <2>2, <2>6
<1>13. ASSUME NEW name \in SpanNames, ReadSpanEnd(name)
       PROVE  \E e \in Event : Read(e) /\ \E c \in Classes : Closing(c, e)
  <2>. DEFINE e == [kind |-> "end", name |-> name]
  <2>1. e \in Event /\ e \in Closes(name)
    BY ClassCases DEF Event, Ends
  <2>2. /\ Read(e) /\ call_stack' = call_stack
        /\ named_spans' = [named_spans EXCEPT ![name] = Front(@)]
        /\ named_spans[name] # <<>>
    BY <1>13 DEF ReadSpanEnd
  <2>3. Len(spans') = Len(spans)
    BY <1>11, <1>13 DEF ReadSpanEnd
  <2>4. /\ Stack(name)' = Front(Stack(name))
        /\ \A d \in Classes \ {name} : Stack(d)' = Stack(d)
    BY <1>3, <2>2 DEF Stack, Classes
  <2>5. named_spans[name][Len(named_spans[name])] # 1
    <3>1. named_spans[name] \in Seq(Nat)
      BY <1>3
    <3>2. Len(named_spans[name]) \in DOMAIN named_spans[name]
      BY <2>2, <3>1, FrontFacts
    <3>. QED  BY <3>2 DEF RootFirst, OpenNamed, ToSet
  <2>. HIDE DEF e
  <2>6. Closing(name, e)
    BY <1>13, <2>1, <2>2, <2>3, <2>4, <2>5, ClassCases, CallClassNew DEF Closing
  <2>. QED  BY <1>1, <2>1, <2>2, <2>6
<1>14. CASE ReadUnmatchedReturn
  <2>. DEFINE e == [kind |-> "return"]
  <2>1. e \in Event /\ e \in Closes(CallClass)
    BY ClassCases DEF Event, Returns
  <2>2. /\ Read(e) /\ UNCHANGED <<spans, call_stack, named_spans>>
        /\ Len(call_stack) = 1
    BY <1>14 DEF ReadUnmatchedReturn, Panic
  <2>3. \A p \in DOMAIN call_stack : call_stack[p] = 1
    <3>1. DOMAIN call_stack = 1..Len(call_stack)
      BY <1>3, LenProperties
    <3>2. DOMAIN call_stack = {1}
      BY <2>2, <3>1
    <3>. QED  BY <3>2 DEF RootFirst
  <2>. HIDE DEF e
  <2>4. Refusing(CallClass, e)
    BY <1>4, <2>1, <2>2, <2>3, ClassCases DEF Refusing
  <2>. QED  BY <1>2, <2>1, <2>2, <2>4
<1>15. ASSUME NEW name \in SpanNames, ReadUnmatchedEnd(name)
       PROVE  \E e \in Event : Read(e) /\ \E c \in Classes : Refusing(c, e)
  <2>. DEFINE e == [kind |-> "end", name |-> name]
  <2>1. e \in Event /\ e \in Closes(name)
    BY ClassCases DEF Event, Ends
  <2>2. /\ Read(e) /\ UNCHANGED <<spans, call_stack, named_spans>>
        /\ named_spans[name] = <<>>
    BY <1>15 DEF ReadUnmatchedEnd, Panic
  <2>3. \A p \in DOMAIN Stack(name) : Stack(name)[p] = 1
    BY <2>2, ClassCases
  <2>. HIDE DEF e
  <2>4. Refusing(name, e)
    BY <1>4, <2>1, <2>2, <2>3 DEF Refusing
  <2>. QED  BY <1>1, <2>1, <2>2, <2>4
<1>16. CASE Finish
  <2>1. /\ trace' = trace /\ named_spans' = named_spans
        /\ call_stack' = Front(call_stack) /\ Len(call_stack) = 1
    BY <1>16 DEF Finish
  <2>2. Len(spans') = Len(spans)
    BY <1>11, <1>16 DEF Finish
  <2>3. call_stack # <<>> /\ DOMAIN call_stack = {1}
    <3>1. DOMAIN call_stack = 1..Len(call_stack)
      BY <1>3, LenProperties
    <3>2. DOMAIN call_stack = {1}
      BY <2>1, <3>1
    <3>. QED  BY <3>2
  <2>4. call_stack' = <<>>
    <3>1. Front(call_stack) \in Seq(Nat) /\ Len(Front(call_stack)) = Len(call_stack) - 1
      BY <1>3, <2>3, FrontFacts
    <3>2. Len(Front(call_stack)) = 0
      BY <2>1, <3>1
    <3>. QED  BY <2>1, <3>1, <3>2, EmptySeq
  <2>5. \A p \in DOMAIN call_stack : call_stack[p] = 1
    BY <2>3 DEF RootFirst
  <2>. QED  BY <1>16, <2>1, <2>2, <2>4, <2>5, ClassCases DEF Quiet, Stack
<1>17. CASE FinishWithOpenCalls
  BY <1>4, <1>17 DEF FinishWithOpenCalls, Panic, Quiet
<1>. QED  BY <1>5, <1>6, <1>7, <1>9, <1>10, <1>12, <1>13, <1>14, <1>15, <1>16, <1>17
          DEF AnalysisNext

-----------------------------------------------------------------------------
(* Spans and the events that open them.                                    *)

(* Each span is opened by an event of its own.                             *)
OpeningsInv ==
  /\ CountIn(trace, Openings, 1, Len(trace)) + 1 = Len(spans)
  /\ \A k \in 2..Len(spans) :
       /\ OpeningOf(trace, k) \in PositionsIn(trace, Openings, 1, Len(trace))
       /\ CountIn(trace, Openings, 1, OpeningOf(trace, k)) = k - 1

MatchesOf(c, k) == MatchingIn(trace, Opens(c), Closes(c), OpeningOf(trace, k))

(* An opening keeps its position, and a new span has the newest.           *)
LEMMA OpeningsStep ==
  ASSUME AnalysisInv, OpeningsInv, NEW e \in Event, Read(e),
         e \in Openings => Len(spans') = Len(spans) + 1,
         e \notin Openings => Len(spans') = Len(spans)
  PROVE  /\ OpeningsInv'
         /\ Len(trace) \in Nat /\ Len(trace') = Len(trace) + 1
         /\ \A k \in 2..Len(spans) :
              /\ OpeningOf(trace', k) = OpeningOf(trace, k)
              /\ OpeningOf(trace, k) \in 1..Len(trace)
              /\ trace'[OpeningOf(trace, k)] = trace[OpeningOf(trace, k)]
         /\ e \in Openings => OpeningOf(trace', Len(spans')) = Len(trace')
         /\ trace'[Len(trace')] = e
<1>. DEFINE n == Len(trace)
<1>1. trace \in Seq(Event) /\ trace' = Append(trace, e)
  BY DEF Read, AnalysisInv, AnalysisTypeOK
<1>2. /\ n \in Nat /\ DOMAIN trace = 1..n /\ DOMAIN trace' = 1..(n + 1) /\ Len(trace') = n + 1
      /\ \A i \in 1..n : trace'[i] = trace[i]
      /\ trace'[n + 1] = e
      /\ trace' \in Seq(Event)
  BY <1>1, AppendIsSeq
<1>3. \A j \in 1..n : CountIn(trace', Openings, 1, j) = CountIn(trace, Openings, 1, j)
  BY <1>2, EventCounted
<1>4. /\ CountIn(trace, Openings, 1, n) \in Nat
      /\ e \in Openings => CountIn(trace', Openings, 1, n + 1) = CountIn(trace, Openings, 1, n) + 1
      /\ e \notin Openings => CountIn(trace', Openings, 1, n + 1) = CountIn(trace, Openings, 1, n)
  BY <1>2, EventCounted
<1>5. Len(spans) \in Nat /\ CountIn(trace, Openings, 1, n) + 1 = Len(spans)
  BY OpenIndices DEF OpeningsInv
<1>6. ASSUME NEW k \in 2..Len(spans)
      PROVE  /\ OpeningOf(trace', k) = OpeningOf(trace, k)
             /\ OpeningOf(trace, k) \in 1..n
             /\ trace'[OpeningOf(trace, k)] = trace[OpeningOf(trace, k)]
             /\ OpeningOf(trace', k) \in PositionsIn(trace', Openings, 1, Len(trace'))
             /\ CountIn(trace', Openings, 1, OpeningOf(trace', k)) = k - 1
  <2>. DEFINE o == OpeningOf(trace, k)
  <2>1. /\ o \in 1..n /\ trace[o] \in Openings
        /\ CountIn(trace, Openings, 1, o) = k - 1
    BY <1>2 DEF OpeningsInv, PositionsIn
  <2>. HIDE DEF o, n
  <2>2. o \in PositionsIn(trace', Openings, 1, Len(trace'))
    <3>1. o \in 1..(n + 1) /\ 1 <= o /\ o <= n + 1
      BY <1>2, <2>1
    <3>. QED  BY <1>2, <2>1, <3>1 DEF PositionsIn
  <2>3. CountIn(trace', Openings, 1, o) = k - 1
    BY <1>3, <2>1
  <2>4. OpeningOf(trace', k) = o
    BY <1>2, <2>2, <2>3, OpeningIs
  <2>. QED  BY <1>2, <2>1, <2>2, <2>3, <2>4 DEF o
<1>7. ASSUME e \in Openings
      PROVE  /\ OpeningOf(trace', Len(spans')) = n + 1
             /\ n + 1 \in PositionsIn(trace', Openings, 1, Len(trace'))
             /\ CountIn(trace', Openings, 1, n + 1) = Len(spans') - 1
  <2>1. n + 1 \in PositionsIn(trace', Openings, 1, Len(trace'))
    <3>1. n + 1 \in 1..(n + 1) /\ 1 <= n + 1 /\ n + 1 <= n + 1
      BY <1>2
    <3>. HIDE DEF n
    <3>. QED  BY <1>2, <1>7, <3>1 DEF PositionsIn
  <2>2. CountIn(trace', Openings, 1, n + 1) = Len(spans') - 1
    BY <1>4, <1>5, <1>7
  <2>. HIDE DEF n
  <2>. QED  BY <1>2, <2>1, <2>2, OpeningIs
<1>. HIDE DEF n
<1>8. OpeningsInv'
  <2>1. CountIn(trace', Openings, 1, Len(trace')) + 1 = Len(spans')
    <3>1. CASE e \in Openings
      BY <1>2, <1>4, <1>5, <3>1
    <3>2. CASE e \notin Openings
      BY <1>2, <1>4, <1>5, <3>2
    <3>. QED  BY <3>1, <3>2
  <2>2. ASSUME NEW k \in 2..Len(spans')
        PROVE  /\ OpeningOf(trace', k) \in PositionsIn(trace', Openings, 1, Len(trace'))
               /\ CountIn(trace', Openings, 1, OpeningOf(trace', k)) = k - 1
    <3>1. k \in 2..Len(spans) \/ (e \in Openings /\ k = Len(spans'))
      BY <1>5
    <3>2. CASE k \in 2..Len(spans)
      BY <1>6, <3>2
    <3>3. CASE e \in Openings /\ k = Len(spans')
      BY <1>7, <3>3
    <3>. QED  BY <3>1, <3>2, <3>3
  <2>. QED  BY <2>1, <2>2 DEF OpeningsInv
<1>. QED  BY <1>2, <1>6, <1>7, <1>8 DEF n

IsEmpty(S) == S = {}

(* The matches of one span and one class after one more event.             *)
LEMMA MatchStep ==
  ASSUME AnalysisInv, NEW e \in Event, Read(e), NEW c \in Classes, NEW o \in Nat, o <= Len(trace) + 1,
         NEW opened, opened = CountIn(trace, Opens(c), o, Len(trace)),
         NEW closed, closed = CountIn(trace, Closes(c), o, Len(trace)),
         NEW old, old = MatchingIn(trace, Opens(c), Closes(c), o),
         NEW new, new = MatchingIn(trace', Opens(c), Closes(c), o)
  PROVE  /\ opened \in Nat /\ closed \in Nat
         /\ e \in Opens(c) => CountIn(trace', Opens(c), o, Len(trace')) = opened + 1
         /\ e \notin Opens(c) => CountIn(trace', Opens(c), o, Len(trace')) = opened
         /\ e \in Closes(c) => CountIn(trace', Closes(c), o, Len(trace')) = closed + 1
         /\ e \notin Closes(c) => CountIn(trace', Closes(c), o, Len(trace')) = closed
         /\ ~IsEmpty(old) => ~IsEmpty(new) /\ Min(new) = Min(old) /\ Min(old) \in 1..Len(trace)
         /\ IsEmpty(old) /\ e \notin Closes(c) => IsEmpty(new)
         /\ IsEmpty(old) /\ e \in Closes(c) /\ opened # closed + 1 => IsEmpty(new)
         /\ IsEmpty(old) /\ e \in Closes(c) /\ opened = closed + 1
              => ~IsEmpty(new) /\ Min(new) = Len(trace')
<1>1. trace \in Seq(Event) /\ trace' = Append(trace, e)
  BY DEF Read, AnalysisInv, AnalysisTypeOK
<1>2. Len(trace) \in Nat /\ Len(trace') = Len(trace) + 1
  BY <1>1, AppendIsSeq
<1>3. opened \in Nat /\ closed \in Nat
  BY <1>1, PositionsFinite
<1>4. \A S : CountIn(trace', S, o, Len(trace')) =
               CountIn(trace, S, o, Len(trace)) + (IF e \in S THEN 1 ELSE 0)
  BY <1>1, <1>2, CountAdded
<1>5. /\ e \in Opens(c) => CountIn(trace', Opens(c), o, Len(trace')) = opened + 1
      /\ e \notin Opens(c) => CountIn(trace', Opens(c), o, Len(trace')) = opened
      /\ e \in Closes(c) => CountIn(trace', Closes(c), o, Len(trace')) = closed + 1
      /\ e \notin Closes(c) => CountIn(trace', Closes(c), o, Len(trace')) = closed
  BY <1>3, <1>4
<1>6. e \in Closes(c) => e \notin Opens(c)
  BY EventClass
<1>. DEFINE a == CountIn(trace', Opens(c), o, Len(trace'))
            b == CountIn(trace', Closes(c), o, Len(trace'))
<1>7. /\ old # {} => new # {} /\ Min(new) = Min(old) /\ Min(old) \in 1..Len(trace)
      /\ old = {} /\ (e \notin Closes(c) \/ a # b) => new = {}
      /\ old = {} /\ e \in Closes(c) /\ a = b => new # {} /\ Min(new) = Len(trace')
  BY <1>1, <1>2, FirstMatch
<1>8. e \in Closes(c) => (a = b <=> opened = closed + 1)
  BY <1>5, <1>6
<1>. HIDE DEF a, b
<1>9. /\ e \in Opens(c) => a = opened + 1
      /\ e \notin Opens(c) => a = opened
      /\ e \in Closes(c) => b = closed + 1
      /\ e \notin Closes(c) => b = closed
  BY <1>5 DEF a, b
<1>. QED  BY <1>3, <1>7, <1>8, <1>9 DEF a, b, IsEmpty

-----------------------------------------------------------------------------
(* Which spans are open, and where the others were closed.                 *)

(* Openings and closings of class c since span k was opened.               *)
OpenedSince(c, k) == CountIn(trace, Opens(c), OpeningOf(trace, k), Len(trace))
ClosedSince(c, k) == CountIn(trace, Closes(c), OpeningOf(trace, k), Len(trace))
InStack(c, k) == \E p \in DOMAIN Stack(c) : Stack(c)[p] = k
OfClass(c, k) == trace[OpeningOf(trace, k)] \in Opens(c)

(* What is on the stack of its class is not matched yet, and as many of    *)
(* the class are open since as are above it.                               *)
Unclosed(c) ==
  \A p \in DOMAIN Stack(c), k \in 2..Len(spans) : Stack(c)[p] = k =>
    /\ OfClass(c, k)
    /\ MatchesOf(c, k) = {}
    /\ OpenedSince(c, k) = ClosedSince(c, k) + (Len(Stack(c)) - p) + 1

(* What is not on it is matched.                                           *)
Closed(c) ==
  \A k \in 2..Len(spans) : OfClass(c, k) /\ ~InStack(c, k) => MatchesOf(c, k) # {}

ClassesInv == \A c \in Classes : Unclosed(c) /\ Closed(c)

(* The root is there, at the bottom of the stack.                          *)
RootInv == RootFirst /\ Len(spans) >= 1

(* The root stays at the bottom of the stack until the analysis ends.      *)
LEMMA RootNext ==
  ASSUME AnalysisInv, RootInv, [AnalysisNext]_analysisVars
  PROVE  RootInv'
<1>1. Len(spans) \in Nat /\ Len(spans) >= 1 /\ RootFirst
  BY OpenIndices DEF RootInv
<1>2. \A c \in Classes : \A p \in DOMAIN Stack(c) : c \in SpanNames => Stack(c)[p] # 1
  BY <1>1, ClassCases DEF RootFirst, OpenNamed, ToSet
<1>. DEFINE Good(c) == /\ c \in SpanNames => \A p \in DOMAIN Stack(c)' : Stack(c)'[p] # 1
                       /\ c = CallClass /\ Stack(c)' # <<>> => Stack(c)'[1] = 1
<1>3. ASSUME NEW c \in Classes, Stack(c)' = Stack(c)
      PROVE  Good(c)
  BY <1>1, <1>2, <1>3, ClassCases DEF RootFirst
<1>4. SUFFICES (\A c \in Classes : Good(c)) /\ Len(spans') >= 1
  <2>1. ASSUME \A c \in Classes : Good(c)
        PROVE  RootFirst'
    <3>1. \A n \in SpanNames : \A p \in DOMAIN named_spans[n]' : named_spans[n]'[p] # 1
      BY <2>1 DEF Stack, Classes
    <3>2. call_stack' # <<>> => call_stack'[1] = 1
      BY <2>1, CallClassNew DEF Stack, Classes
    <3>. QED  BY <3>1, <3>2 DEF RootFirst, OpenNamed, ToSet
  <2>. QED  BY <2>1 DEF RootInv
<1>5. ASSUME NEW e \in Event, Read(e), NEW c \in Classes, Opening(c, e)
      PROVE  (\A d \in Classes : Good(d)) /\ Len(spans') >= 1
  <2>1. /\ DOMAIN Stack(c)' = 1..(Len(Stack(c)) + 1) /\ Len(Stack(c)) \in Nat
        /\ \A i \in 1..Len(Stack(c)) : Stack(c)'[i] = Stack(c)[i]
        /\ Stack(c)'[Len(Stack(c)) + 1] = Len(spans')
        /\ DOMAIN Stack(c) = 1..Len(Stack(c))
    <3>1. Stack(c) \in Seq(Nat) /\ Len(spans') \in Nat /\ Stack(c)' = Append(Stack(c), Len(spans'))
      BY <1>1, <1>5, StackFacts DEF Opening
    <3>. QED  BY <3>1, AppendIsSeq
  <2>2. Len(spans') = Len(spans) + 1
    BY <1>5 DEF Opening
  <2>3. c = CallClass => Len(Stack(c)) >= 1 /\ Stack(c)[1] = 1
    <3>1. ASSUME c = CallClass PROVE Stack(c) = call_stack /\ call_stack # <<>> /\ call_stack \in Seq(Nat)
      BY <1>5, <3>1, ClassCases DEF Read, AnalysisInv, AnalysisTypeOK
    <3>2. c = CallClass => Len(Stack(c)) # 0
      BY <3>1, EmptySeq
    <3>. QED  BY <2>1, <3>1, <3>2, <1>1 DEF RootFirst
  <2>. DEFINE m == Len(Stack(c))
  <2>4. \A p \in 1..(m + 1) : p \in 1..m \/ p = m + 1
    BY <2>1
  <2>5. c \in SpanNames => \A p \in DOMAIN Stack(c)' : Stack(c)'[p] # 1
    BY <1>1, <1>2, <2>1, <2>2, <2>4
  <2>6. c = CallClass => Stack(c)'[1] = 1
    BY <2>1, <2>3
  <2>7. \A d \in Classes \ {c} : Good(d)
    BY <1>3, <1>5 DEF Opening
  <2>. QED  BY <1>1, <2>2, <2>5, <2>6, <2>7
<1>6. ASSUME NEW e \in Event, NEW c \in Classes, Closing(c, e)
      PROVE  (\A d \in Classes : Good(d)) /\ Len(spans') >= 1
  <2>1. /\ DOMAIN Stack(c)' = 1..(Len(Stack(c)) - 1) /\ Len(Stack(c)) \in Nat \ {0}
        /\ \A p \in DOMAIN Stack(c)' : p \in DOMAIN Stack(c) /\ Stack(c)'[p] = Stack(c)[p]
        /\ Stack(c)' \in Seq(Nat) /\ Len(Stack(c)') = Len(Stack(c)) - 1
    <3>1. Stack(c) \in Seq(Nat) /\ Stack(c) # <<>> /\ Stack(c)' = Front(Stack(c))
      BY <1>6, StackFacts DEF Closing
    <3>. QED  BY <3>1, FrontFacts
  <2>2. c = CallClass /\ Stack(c)' # <<>> => Stack(c)'[1] = 1
    <3>1. Stack(c)' # <<>> => 1 \in DOMAIN Stack(c)'
      BY <2>1, EmptySeq
    <3>2. c = CallClass => (Stack(c) # <<>> => Stack(c)[1] = 1)
      BY <1>1, ClassCases DEF RootFirst
    <3>. QED  BY <1>6, <2>1, <3>1, <3>2 DEF Closing
  <2>3. \A d \in Classes \ {c} : Good(d)
    BY <1>3, <1>6 DEF Closing
  <2>. QED  BY <1>1, <1>2, <1>6, <2>1, <2>2, <2>3 DEF Closing
<1>7. ASSUME NEW e \in Event, Neutral(e) \/ \E c \in Classes : Refusing(c, e)
      PROVE  (\A d \in Classes : Good(d)) /\ Len(spans') >= 1
  BY <1>1, <1>3, <1>7 DEF Neutral, Refusing
<1>8. ASSUME Quiet
      PROVE  (\A d \in Classes : Good(d)) /\ Len(spans') >= 1
  <2>1. ASSUME NEW d \in Classes, Stack(d)' = <<>>
        PROVE  Good(d)
    BY <2>1
  <2>. QED  BY <1>1, <1>3, <1>8, <2>1 DEF Quiet
<1>. HIDE DEF Good
<1>. QED  BY <1>1, <1>5, <1>6, <1>7, <1>8, StepKinds

(* What one more event means for the matches of a span opened before.      *)
LEMMA SpanStep ==
  ASSUME AnalysisInv, OpeningsInv, NEW e \in Event, Read(e),
         e \in Openings => Len(spans') = Len(spans) + 1,
         e \notin Openings => Len(spans') = Len(spans),
         NEW c \in Classes, NEW k \in 2..Len(spans)
  PROVE  /\ OpenedSince(c, k) \in Nat /\ ClosedSince(c, k) \in Nat
         /\ OfClass(c, k)' <=> OfClass(c, k)
         /\ e \in Opens(c) => OpenedSince(c, k)' = OpenedSince(c, k) + 1
         /\ e \notin Opens(c) => OpenedSince(c, k)' = OpenedSince(c, k)
         /\ e \in Closes(c) => ClosedSince(c, k)' = ClosedSince(c, k) + 1
         /\ e \notin Closes(c) => ClosedSince(c, k)' = ClosedSince(c, k)
         /\ MatchesOf(c, k) # {} => /\ MatchesOf(c, k)' # {}
                                    /\ Min(MatchesOf(c, k)') = Min(MatchesOf(c, k))
                                    /\ Min(MatchesOf(c, k)) \in 1..Len(trace)
         /\ MatchesOf(c, k) = {} /\ e \notin Closes(c) => MatchesOf(c, k)' = {}
         /\ MatchesOf(c, k) = {} /\ e \in Closes(c) /\ OpenedSince(c, k) # ClosedSince(c, k) + 1
              => MatchesOf(c, k)' = {}
         /\ MatchesOf(c, k) = {} /\ e \in Closes(c) /\ OpenedSince(c, k) = ClosedSince(c, k) + 1
              => MatchesOf(c, k)' # {} /\ Min(MatchesOf(c, k)') = Len(trace')
<1>. DEFINE o == OpeningOf(trace, k)
<1>1. /\ OpeningOf(trace', k) = o /\ o \in 1..Len(trace) /\ trace'[o] = trace[o]
      /\ Len(trace) \in Nat
  BY OpeningsStep
<1>2. o \in Nat /\ o <= Len(trace) + 1
  BY <1>1
<1>3. /\ OpenedSince(c, k) = CountIn(trace, Opens(c), o, Len(trace))
      /\ ClosedSince(c, k) = CountIn(trace, Closes(c), o, Len(trace))
      /\ MatchesOf(c, k) = MatchingIn(trace, Opens(c), Closes(c), o)
  BY DEF OpenedSince, ClosedSince, MatchesOf
<1>4. /\ OpenedSince(c, k)' = CountIn(trace', Opens(c), o, Len(trace'))
      /\ ClosedSince(c, k)' = CountIn(trace', Closes(c), o, Len(trace'))
      /\ MatchesOf(c, k)' = MatchingIn(trace', Opens(c), Closes(c), o)
  BY <1>1 DEF OpenedSince, ClosedSince, MatchesOf
<1>5. OfClass(c, k)' <=> OfClass(c, k)
  BY <1>1 DEF OfClass
<1>. HIDE DEF o
<1>. DEFINE opened == OpenedSince(c, k)
            closed == ClosedSince(c, k)
            old == MatchesOf(c, k)
            new == MatchesOf(c, k)'
<1>6. /\ opened = CountIn(trace, Opens(c), o, Len(trace))
      /\ closed = CountIn(trace, Closes(c), o, Len(trace))
      /\ old = MatchingIn(trace, Opens(c), Closes(c), o)
      /\ new = MatchingIn(trace', Opens(c), Closes(c), o)
  BY <1>3, <1>4
<1>. HIDE DEF opened, closed, old, new
<1>7. /\ opened \in Nat /\ closed \in Nat
      /\ e \in Opens(c) => CountIn(trace', Opens(c), o, Len(trace')) = opened + 1
      /\ e \notin Opens(c) => CountIn(trace', Opens(c), o, Len(trace')) = opened
      /\ e \in Closes(c) => CountIn(trace', Closes(c), o, Len(trace')) = closed + 1
      /\ e \notin Closes(c) => CountIn(trace', Closes(c), o, Len(trace')) = closed
  BY <1>2, <1>6, MatchStep
<1>8. /\ ~IsEmpty(old) => ~IsEmpty(new) /\ Min(new) = Min(old) /\ Min(old) \in 1..Len(trace)
      /\ IsEmpty(old) /\ e \notin Closes(c) => IsEmpty(new)
      /\ IsEmpty(old) /\ e \in Closes(c) /\ opened # closed + 1 => IsEmpty(new)
      /\ IsEmpty(old) /\ e \in Closes(c) /\ opened = closed + 1
           => ~IsEmpty(new) /\ Min(new) = Len(trace')
  BY <1>2, <1>6, MatchStep
<1>9. /\ e \in Opens(c) => OpenedSince(c, k)' = opened + 1
      /\ e \notin Opens(c) => OpenedSince(c, k)' = opened
      /\ e \in Closes(c) => ClosedSince(c, k)' = closed + 1
      /\ e \notin Closes(c) => ClosedSince(c, k)' = closed
  BY <1>4, <1>7
<1>. QED  BY <1>5, <1>7, <1>8, <1>9 DEF opened, closed, old, new, IsEmpty

(* The span just opened.                                                   *)
LEMMA SpanOpened ==
  ASSUME AnalysisInv, OpeningsInv, NEW e \in Event, Read(e), NEW c \in Classes, e \in Opens(c),
         Len(spans') = Len(spans) + 1, NEW m, m = Len(spans')
  PROVE  /\ OfClass(c, m)'
         /\ \A d \in Classes \ {c} : ~OfClass(d, m)'
         /\ OpenedSince(c, m)' = 1
         /\ ClosedSince(c, m)' = 0
         /\ MatchesOf(c, m)' = {}
<1>. DEFINE n == Len(trace)
<1>1. e \in Openings /\ e \notin Closes(c) /\ \A d \in Classes \ {c} : e \notin Opens(d)
  BY EventClass
<1>2. /\ OpeningOf(trace', Len(spans')) = Len(trace') /\ trace'[Len(trace')] = e
      /\ n \in Nat /\ Len(trace') = n + 1
  BY <1>1, OpeningsStep
<1>3. /\ CountIn(trace, Opens(c), n + 1, n) = 0
      /\ CountIn(trace, Closes(c), n + 1, n) = 0
      /\ MatchingIn(trace, Opens(c), Closes(c), n + 1) = {}
  <2>1. \A S : PositionsIn(trace, S, n + 1, n) = {}
    <3>. HIDE DEF n
    <3>1. \A j \in DOMAIN trace : ~(n + 1 <= j /\ j <= n)
      <4>1. DOMAIN trace = 1..n
        BY EventCounted DEF n
      <4>. QED  BY <4>1, <1>2
    <3>. QED  BY <3>1 DEF PositionsIn
  <2>. HIDE DEF n
  <2>2. \A S : CountIn(trace, S, n + 1, n) = 0
    BY <2>1, FS_EmptySet DEF CountIn
  <2>. QED  BY <2>1, <2>2 DEF MatchingIn, n
<1>4. n + 1 \in Nat /\ n + 1 <= Len(trace) + 1
  BY <1>2
<1>5. /\ CountIn(trace', Opens(c), n + 1, Len(trace')) = 0 + 1
      /\ CountIn(trace', Closes(c), n + 1, Len(trace')) = 0
  BY <1>1, <1>3, <1>4, MatchStep
<1>7. MatchingIn(trace', Opens(c), Closes(c), n + 1) = {}
  BY <1>1, <1>3, <1>4, MatchStep DEF IsEmpty
<1>. HIDE DEF n
<1>6. OfClass(c, m)' /\ \A d \in Classes \ {c} : ~OfClass(d, m)'
  BY <1>1, <1>2 DEF OfClass
<1>. QED  BY <1>2, <1>5, <1>6, <1>7 DEF OpenedSince, ClosedSince, MatchesOf

(* A class whose spans the event neither opens nor closes.                 *)
LEMMA OtherClass ==
  ASSUME AnalysisInv, OpeningsInv, NEW c \in Classes, Unclosed(c), Closed(c),
         NEW e \in Event, Read(e),
         e \in Openings => Len(spans') = Len(spans) + 1,
         e \notin Openings => Len(spans') = Len(spans),
         e \notin Opens(c), e \notin Closes(c), Stack(c)' = Stack(c)
  PROVE  Unclosed(c)' /\ Closed(c)'
<1>1. /\ \A p \in DOMAIN Stack(c) : Stack(c)[p] \in 1..Len(spans)
      /\ Len(spans) \in Nat
  BY StackFacts, OpenIndices
<1>2. ASSUME NEW k \in 2..Len(spans)
      PROVE  /\ OfClass(c, k)' <=> OfClass(c, k)
             /\ OpenedSince(c, k)' = OpenedSince(c, k)
             /\ ClosedSince(c, k)' = ClosedSince(c, k)
             /\ MatchesOf(c, k) # {} => MatchesOf(c, k)' # {}
             /\ MatchesOf(c, k) = {} => MatchesOf(c, k)' = {}
  BY SpanStep
<1>3. ASSUME NEW k \in 2..Len(spans'), k \notin 2..Len(spans)
      PROVE  ~OfClass(c, k)' /\ \A p \in DOMAIN Stack(c) : Stack(c)[p] # k
  <2>1. e \in Openings /\ k = Len(spans) + 1
    BY <1>1, <1>3
  <2>2. OpeningOf(trace', k) = Len(trace') /\ trace'[Len(trace')] = e
    BY <2>1, OpeningsStep
  <2>. QED  BY <1>1, <2>1, <2>2 DEF OfClass
<1>4. Unclosed(c)'
  BY <1>2, <1>3 DEF Unclosed
<1>5. Closed(c)'
  BY <1>2, <1>3 DEF Closed, InStack
<1>. QED  BY <1>4, <1>5

(* A span is opened on top of those open.                                  *)
LEMMA OpeningKeeps ==
  ASSUME AnalysisInv, OpeningsInv, NEW c \in Classes, Unclosed(c), Closed(c),
         NEW e \in Event, Read(e), Opening(c, e)
  PROVE  Unclosed(c)' /\ Closed(c)'
<1>1. /\ \A p \in DOMAIN Stack(c) : Stack(c)[p] \in 1..Len(spans)
      /\ Len(spans) \in Nat /\ Len(spans') = Len(spans) + 1
      /\ Len(Stack(c)) \in Nat
      /\ DOMAIN Stack(c) = 1..Len(Stack(c))
      /\ DOMAIN Stack(c)' = 1..(Len(Stack(c)) + 1)
      /\ Len(Stack(c)') = Len(Stack(c)) + 1
      /\ \A i \in 1..Len(Stack(c)) : Stack(c)'[i] = Stack(c)[i]
      /\ Stack(c)'[Len(Stack(c)) + 1] = Len(spans')
  <2>1. /\ \A p \in DOMAIN Stack(c) : Stack(c)[p] \in 1..Len(spans)
        /\ Stack(c) \in Seq(Nat)
        /\ Len(spans) \in Nat /\ Len(spans') = Len(spans) + 1 /\ Len(spans') \in Nat
        /\ Stack(c)' = Append(Stack(c), Len(spans'))
    BY StackFacts, OpenIndices DEF Opening
  <2>. QED  BY <2>1, AppendIsSeq
<1>2. e \in Openings /\ e \in Opens(c) /\ e \notin Closes(c)
  BY EventClass DEF Opening
<1>3. ASSUME NEW k \in 2..Len(spans)
      PROVE  /\ OpenedSince(c, k) \in Nat /\ ClosedSince(c, k) \in Nat
             /\ OfClass(c, k)' <=> OfClass(c, k)
             /\ OpenedSince(c, k)' = OpenedSince(c, k) + 1
             /\ ClosedSince(c, k)' = ClosedSince(c, k)
             /\ MatchesOf(c, k) # {} => MatchesOf(c, k)' # {}
             /\ MatchesOf(c, k) = {} => MatchesOf(c, k)' = {}
  BY <1>1, <1>2, SpanStep
<1>4. ASSUME NEW k, k = Len(spans')
      PROVE  /\ OfClass(c, k)' /\ MatchesOf(c, k)' = {}
             /\ OpenedSince(c, k)' = 1 /\ ClosedSince(c, k)' = 0
  BY <1>1, <1>2, <1>4, SpanOpened
<1>5. \A k \in 2..Len(spans') : k \in 2..Len(spans) \/ k = Len(spans')
  BY <1>1
<1>. DEFINE n == Len(Stack(c))
<1>6. \A p \in 1..(n + 1) : p \in 1..n \/ p = n + 1
  BY <1>1
<1>7. ASSUME NEW p \in DOMAIN Stack(c)', NEW k \in 2..Len(spans'), Stack(c)'[p] = k
      PROVE  /\ OfClass(c, k)'
             /\ MatchesOf(c, k)' = {}
             /\ OpenedSince(c, k)' = ClosedSince(c, k)' + (Len(Stack(c)') - p) + 1
  <2>1. CASE p \in 1..n
    <3>1. k \in 2..Len(spans) /\ Stack(c)[p] = k /\ p \in DOMAIN Stack(c)
      BY <1>1, <1>7, <2>1
    <3>2. /\ OfClass(c, k) /\ MatchesOf(c, k) = {}
          /\ OpenedSince(c, k) = ClosedSince(c, k) + (Len(Stack(c)) - p) + 1
      BY <3>1 DEF Unclosed
    <3>. HIDE DEF n
    <3>. DEFINE d == n - p
                more == Len(Stack(c)') - p
    <3>3. d \in Nat /\ more = d + 1
      BY <1>1, <2>1 DEF n
    <3>. HIDE DEF d, more
    <3>4. OpenedSince(c, k) = ClosedSince(c, k) + d + 1
      BY <3>2 DEF d, n
    <3>5. OpenedSince(c, k)' = ClosedSince(c, k)' + more + 1
      BY <1>3, <3>1, <3>3, <3>4
    <3>. QED  BY <1>3, <3>1, <3>2, <3>5 DEF more
  <2>2. CASE p = n + 1
    <3>1. k = Len(spans')
      BY <1>1, <1>7, <2>2
    <3>2. OfClass(c, k)' /\ MatchesOf(c, k)' = {} /\ OpenedSince(c, k)' = 1 /\ ClosedSince(c, k)' = 0
      BY <1>4, <3>1
    <3>. DEFINE more == Len(Stack(c)') - p
    <3>3. more = 0
      BY <1>1, <2>2
    <3>. HIDE DEF more
    <3>4. OpenedSince(c, k)' = ClosedSince(c, k)' + more + 1
      BY <3>2, <3>3
    <3>. QED  BY <3>2, <3>4 DEF more
  <2>. QED  BY <1>1, <1>6, <2>1, <2>2
<1>8. Unclosed(c)'
  BY <1>7 DEF Unclosed
<1>9. Closed(c)'
  <2>1. ASSUME NEW k \in 2..Len(spans'), OfClass(c, k)', ~InStack(c, k)'
        PROVE  MatchesOf(c, k)' # {}
    <3>1. k # Len(spans')
      <4>1. n + 1 \in DOMAIN Stack(c)' /\ Stack(c)'[n + 1] = Len(spans')
        BY <1>1
      <4>. QED  BY <2>1, <4>1 DEF InStack
    <3>2. k \in 2..Len(spans) /\ ~InStack(c, k)
      <4>. HIDE DEF n
      <4>1. \A p \in 1..n : p \in 1..(n + 1)
        BY <1>1 DEF n
      <4>. QED  BY <1>1, <1>5, <2>1, <3>1, <4>1 DEF InStack, n
    <3>. QED  BY <1>3, <2>1, <3>2 DEF Closed
  <2>. QED  BY <2>1 DEF Closed
<1>. QED  BY <1>8, <1>9

(* The span on top is closed by the event, and no other is.                *)
LEMMA ClosingKeeps ==
  ASSUME AnalysisInv, OpeningsInv, NEW c \in Classes, Unclosed(c), Closed(c),
         NEW e \in Event, Read(e), Closing(c, e)
  PROVE  /\ Unclosed(c)' /\ Closed(c)'
         /\ \A k \in 2..Len(spans) : k = Stack(c)[Len(Stack(c))] =>
              MatchesOf(c, k)' # {} /\ Min(MatchesOf(c, k)') = Len(trace')
<1>. DEFINE n == Len(Stack(c))
            top == Stack(c)[n]
<1>1. /\ \A p \in DOMAIN Stack(c) : Stack(c)[p] \in 1..Len(spans)
      /\ Len(spans) \in Nat /\ Len(spans') = Len(spans)
      /\ n \in Nat \ {0}
      /\ DOMAIN Stack(c) = 1..n
      /\ DOMAIN Stack(c)' = 1..(n - 1)
      /\ Len(Stack(c)') = n - 1
      /\ \A i \in 1..(n - 1) : Stack(c)'[i] = Stack(c)[i]
      /\ \A p, q \in DOMAIN Stack(c) : Stack(c)[p] = Stack(c)[q] => p = q
  <2>1. /\ \A p \in DOMAIN Stack(c) : Stack(c)[p] \in 1..Len(spans)
        /\ Stack(c) \in Seq(Nat) /\ Stack(c) # <<>>
        /\ Len(spans) \in Nat /\ Len(spans') = Len(spans)
        /\ Stack(c)' = Front(Stack(c))
        /\ \A p, q \in DOMAIN Stack(c) : Stack(c)[p] = Stack(c)[q] => p = q
    BY StackFacts, OpenIndices DEF Closing
  <2>2. /\ n \in Nat \ {0} /\ DOMAIN Stack(c) = 1..n
        /\ DOMAIN Front(Stack(c)) = 1..(n - 1) /\ Len(Front(Stack(c))) = n - 1
        /\ \A i \in DOMAIN Front(Stack(c)) : Front(Stack(c))[i] = Stack(c)[i]
    BY <2>1, FrontFacts
  <2>. HIDE DEF n
  <2>. QED  BY <2>1, <2>2
<1>2. e \notin Openings /\ e \notin Opens(c) /\ e \in Closes(c) /\ top # 1
  BY EventClass DEF Closing
<1>3. n \in DOMAIN Stack(c) /\ top \in 2..Len(spans)
  <2>1. n \in DOMAIN Stack(c)
    <3>. HIDE DEF n
    <3>. QED  BY <1>1
  <2>2. top \in 1..Len(spans) /\ top # 1
    BY <1>1, <1>2, <2>1
  <2>. HIDE DEF top
  <2>. QED  BY <1>1, <2>1, <2>2
<1>4. ASSUME NEW k \in 2..Len(spans)
      PROVE  /\ OpenedSince(c, k) \in Nat /\ ClosedSince(c, k) \in Nat
             /\ OfClass(c, k)' <=> OfClass(c, k)
             /\ OpenedSince(c, k)' = OpenedSince(c, k)
             /\ ClosedSince(c, k)' = ClosedSince(c, k) + 1
             /\ MatchesOf(c, k) # {} => MatchesOf(c, k)' # {}
             /\ MatchesOf(c, k) = {} /\ OpenedSince(c, k) # ClosedSince(c, k) + 1
                  => MatchesOf(c, k)' = {}
             /\ MatchesOf(c, k) = {} /\ OpenedSince(c, k) = ClosedSince(c, k) + 1
                  => MatchesOf(c, k)' # {} /\ Min(MatchesOf(c, k)') = Len(trace')
  BY <1>1, <1>2, SpanStep
<1>. HIDE DEF n, top
<1>5. ASSUME NEW k \in 2..Len(spans), k = top
      PROVE  MatchesOf(c, k)' # {} /\ Min(MatchesOf(c, k)') = Len(trace')
  <2>1. /\ MatchesOf(c, k) = {}
        /\ OpenedSince(c, k) = ClosedSince(c, k) + (n - n) + 1
    BY <1>3, <1>5 DEF Unclosed, top, n
  <2>. QED  BY <1>1, <1>4, <2>1
<1>6. Unclosed(c)'
  <2>1. ASSUME NEW p \in DOMAIN Stack(c)', NEW k \in 2..Len(spans'), Stack(c)'[p] = k
        PROVE  /\ OfClass(c, k)'
               /\ MatchesOf(c, k)' = {}
               /\ OpenedSince(c, k)' = ClosedSince(c, k)' + (Len(Stack(c)') - p) + 1
    <3>1. p \in DOMAIN Stack(c) /\ Stack(c)[p] = k /\ k \in 2..Len(spans) /\ p \in Nat /\ p < n
      BY <1>1, <2>1
    <3>2. /\ OfClass(c, k) /\ MatchesOf(c, k) = {}
          /\ OpenedSince(c, k) = ClosedSince(c, k) + (n - p) + 1
      BY <3>1 DEF Unclosed, n
    <3>. DEFINE d == n - p
                more == Len(Stack(c)') - p
    <3>3. d \in Nat /\ d > 0 /\ more = d - 1
      BY <1>1, <3>1
    <3>. HIDE DEF d, more
    <3>4. OpenedSince(c, k) = ClosedSince(c, k) + d + 1
      BY <3>2 DEF d
    <3>5. MatchesOf(c, k)' = {} /\ OfClass(c, k)'
      BY <1>4, <3>1, <3>2, <3>3, <3>4
    <3>6. OpenedSince(c, k)' = ClosedSince(c, k)' + more + 1
      BY <1>4, <3>1, <3>3, <3>4
    <3>. QED  BY <3>5, <3>6 DEF more
  <2>. QED  BY <2>1 DEF Unclosed
<1>7. Closed(c)'
  <2>1. ASSUME NEW k \in 2..Len(spans), OfClass(c, k)', ~InStack(c, k)'
        PROVE  MatchesOf(c, k)' # {}
    <3>1. CASE k = top
      BY <1>5, <3>1
    <3>2. CASE k # top
      <4>1. \A p \in 1..n : p # n => p \in 1..(n - 1)
        BY <1>1
      <4>2. ~InStack(c, k)
        BY <1>1, <2>1, <3>2, <4>1 DEF InStack, top
      <4>. QED  BY <1>4, <2>1, <4>2 DEF Closed
    <3>. QED  BY <3>1, <3>2
  <2>. QED  BY <1>1, <2>1 DEF Closed
<1>. QED  BY <1>5, <1>6, <1>7 DEF top, n

(* A closing that nothing opened, which panics, matches nothing.           *)
LEMMA RefusingKeeps ==
  ASSUME AnalysisInv, OpeningsInv, NEW c \in Classes, Unclosed(c), Closed(c),
         NEW e \in Event, Read(e), Refusing(c, e)
  PROVE  Unclosed(c)' /\ Closed(c)'
<1>1. /\ Len(spans') = Len(spans) /\ e \notin Openings /\ e \in Closes(c)
      /\ Stack(c)' = Stack(c)
      /\ \A p \in DOMAIN Stack(c) : Stack(c)[p] = 1
  BY EventClass DEF Refusing
<1>2. \A k \in 2..Len(spans) : k # 1
  BY OpenIndices
<1>3. ASSUME NEW k \in 2..Len(spans)
      PROVE  /\ OfClass(c, k)' <=> OfClass(c, k)
             /\ MatchesOf(c, k) # {} => MatchesOf(c, k)' # {}
  BY <1>1, SpanStep
<1>4. Unclosed(c)'
  BY <1>1, <1>2 DEF Unclosed
<1>5. Closed(c)'
  BY <1>1, <1>3 DEF Closed, InStack
<1>. QED  BY <1>4, <1>5

OpenInv == RootInv /\ OpeningsInv /\ ClassesInv

(* How many spans there are after an event.                                *)
LEMMA SpansCounted ==
  ASSUME NEW e \in Event,
         \/ Neutral(e)
         \/ \E c \in Classes : Opening(c, e) \/ Closing(c, e) \/ Refusing(c, e)
  PROVE  /\ e \in Openings => Len(spans') = Len(spans) + 1
         /\ e \notin Openings => Len(spans') = Len(spans)
<1>1. CASE Neutral(e)
  BY <1>1, OpeningClass DEF Neutral
<1>2. CASE \E c \in Classes : Opening(c, e)
  BY <1>2, EventClass DEF Opening
<1>3. CASE \E c \in Classes : Closing(c, e) \/ Refusing(c, e)
  BY <1>3, EventClass DEF Closing, Refusing
<1>. QED  BY <1>1, <1>2, <1>3

(* What is open and where it was matched, after any step.                  *)
LEMMA OpenNext ==
  ASSUME AnalysisInv, OpenInv, [AnalysisNext]_analysisVars
  PROVE  OpenInv'
<1>1. RootInv'
  BY RootNext DEF OpenInv
<1>2. ASSUME NEW e \in Event, Read(e),
             \/ Neutral(e)
             \/ \E c \in Classes : Opening(c, e) \/ Closing(c, e) \/ Refusing(c, e)
      PROVE  OpeningsInv' /\ ClassesInv'
  <2>1. /\ e \in Openings => Len(spans') = Len(spans) + 1
        /\ e \notin Openings => Len(spans') = Len(spans)
    BY <1>2, SpansCounted
  <2>2. OpeningsInv'
    BY <1>2, <2>1, OpeningsStep DEF OpenInv
  <2>3. ASSUME NEW d \in Classes, e \notin Opens(d), e \notin Closes(d), Stack(d)' = Stack(d)
        PROVE  Unclosed(d)' /\ Closed(d)'
    BY <1>2, <2>1, <2>3, OtherClass DEF OpenInv, ClassesInv
  <2>4. CASE Neutral(e)
    BY <2>2, <2>3, <2>4 DEF Neutral, ClassesInv
  <2>5. ASSUME NEW c \in Classes, Opening(c, e) \/ Closing(c, e) \/ Refusing(c, e)
        PROVE  ClassesInv'
    <3>1. Unclosed(c)' /\ Closed(c)'
      BY <1>2, <2>5, OpeningKeeps, ClosingKeeps, RefusingKeeps DEF OpenInv, ClassesInv
    <3>2. \A d \in Classes \ {c} :
            e \notin Opens(d) /\ e \notin Closes(d) /\ Stack(d)' = Stack(d)
      BY <2>5, EventClass DEF Opening, Closing, Refusing
    <3>. QED  BY <2>3, <3>1, <3>2 DEF ClassesInv
  <2>. QED  BY <1>2, <2>2, <2>4, <2>5
<1>3. ASSUME Quiet
      PROVE  OpeningsInv' /\ ClassesInv'
  <2>1. trace' = trace /\ Len(spans') = Len(spans)
    BY <1>3 DEF Quiet
  <2>2. OpeningsInv'
    BY <2>1 DEF OpeningsInv, OpenInv
  <2>3. \A k \in 2..Len(spans) : k # 1
    BY OpenIndices
  <2>4. ASSUME NEW c \in Classes, NEW k \in 2..Len(spans)
        PROVE  /\ OfClass(c, k)' <=> OfClass(c, k)
               /\ MatchesOf(c, k)' = MatchesOf(c, k)
               /\ OpenedSince(c, k)' = OpenedSince(c, k)
               /\ ClosedSince(c, k)' = ClosedSince(c, k)
               /\ InStack(c, k) => InStack(c, k)'
    <3>1. InStack(c, k) => Stack(c)' = Stack(c)
      BY <1>3, <2>3 DEF Quiet, InStack
    <3>. QED  BY <2>1, <3>1 DEF OfClass, MatchesOf, OpenedSince, ClosedSince, InStack
  <2>5. ASSUME NEW c \in Classes
        PROVE  Unclosed(c)' /\ Closed(c)'
    <3>1. Unclosed(c) /\ Closed(c)
      BY DEF OpenInv, ClassesInv
    <3>2. Unclosed(c)'
      <4>1. CASE Stack(c)' = Stack(c)
        BY <2>1, <2>4, <3>1, <4>1 DEF Unclosed
      <4>2. CASE Stack(c)' = <<>>
        BY <4>2 DEF Unclosed
      <4>. QED  BY <1>3, <4>1, <4>2 DEF Quiet
    <3>3. Closed(c)'
      BY <2>1, <2>4, <3>1 DEF Closed
    <3>. QED  BY <3>2, <3>3
  <2>. QED  BY <2>2, <2>5 DEF ClassesInv
<1>4. RootFirst
  BY DEF OpenInv, RootInv
<1>. QED  BY <1>1, <1>2, <1>3, <1>4, StepKinds DEF OpenInv

-----------------------------------------------------------------------------
(* Gas accounts, part by part.                                             *)

(* Parts of a gas account: one for each name of charges, and the sum.      *)
SumPart == CHOOSE x : x \notin GasNames
Parts == GasNames \cup {SumPart}
Part(gas, g) == IF g \in GasNames THEN gas.by_name[g] ELSE gas.sum
ChargesOf(g) == IF g \in GasNames THEN Charges(g) ELSE UNION {Charges(n) : n \in GasNames}
Share(g, e) == IF e \in ChargesOf(g) THEN e.milli ELSE 0

(* Names and the sum are the parts there are.                              *)
LEMMA PartCases ==
  /\ SumPart \in Parts /\ SumPart \notin GasNames
  /\ ChargesOf(SumPart) = UNION {Charges(n) : n \in GasNames}
  /\ \A gas : Part(gas, SumPart) = gas.sum
  /\ \A n \in GasNames : n \in Parts /\ ChargesOf(n) = Charges(n)
  /\ \A n \in GasNames : \A gas : Part(gas, n) = gas.by_name[n]
<1>1. SumPart \notin GasNames
  BY NoSetContainsEverything DEF SumPart
<1>. QED  BY <1>1 DEF Parts, Part, ChargesOf

(* Only charges have a share in a part.                                    *)
LEMMA ChargeEvents ==
  ASSUME NEW g \in Parts, NEW e \in Event
  PROVE  /\ e \in ChargesOf(g) => e.milli \in Nat
         /\ Share(g, e) \in Nat
         /\ e.kind # "charge" => e \notin ChargesOf(g) /\ Share(g, e) = 0
<1>1. e \in ChargesOf(g) => e.kind = "charge"
  BY DEF ChargesOf, Charges
<1>2. e.kind = "charge" => e.milli \in Nat
  BY AmountAssumption DEF Event
<1>. QED  BY <1>1, <1>2 DEF Share

(* The code adds part by part.                                             *)
LEMMA PartFacts ==
  ASSUME NEW g \in Parts
  PROVE  /\ Part(NoGas, g) = 0
         /\ \A gas \in Gas : Part(gas, g) \in Nat
         /\ \A gas, other \in Gas : Part(Merged(gas, other), g) = Part(gas, g) + Part(other, g)
         /\ \A gas \in Gas, name \in GasNames, milli \in Amounts :
              Part(Charged(gas, name, milli), g) =
                Part(gas, g) + Share(g, [kind |-> "charge", name |-> name, milli |-> milli])
<1>1. ASSUME NEW gas \in Gas, NEW name \in GasNames, NEW milli \in Amounts
      PROVE  Part(Charged(gas, name, milli), g) =
               Part(gas, g) + Share(g, [kind |-> "charge", name |-> name, milli |-> milli])
  <2>. DEFINE e == [kind |-> "charge", name |-> name, milli |-> milli]
  <2>1. e \in Charges(name) /\ e.milli = milli /\ \A n : e \in Charges(n) => n = name
    BY DEF Charges
  <2>2. milli \in Nat /\ gas.by_name \in [GasNames -> Nat] /\ gas.sum \in Nat
    BY AmountAssumption DEF Gas
  <2>. HIDE DEF e
  <2>3. CASE g \in GasNames
    <3>1. g = name => Share(g, e) = milli /\ Charged(gas, name, milli).by_name[g] = gas.by_name[g] + milli
      BY <2>1, <2>2, <2>3 DEF Share, ChargesOf, Charged
    <3>2. g # name => Share(g, e) = 0 /\ Charged(gas, name, milli).by_name[g] = gas.by_name[g]
      BY <2>1, <2>2, <2>3 DEF Share, ChargesOf, Charged
    <3>3. gas.by_name[g] \in Nat
      BY <2>2, <2>3
    <3>. QED  BY <2>2, <2>3, <3>1, <3>2, <3>3 DEF Part, e
  <2>4. CASE g \notin GasNames
    <3>1. e \in ChargesOf(g)
      BY <2>1, <2>4 DEF ChargesOf
    <3>. QED  BY <2>1, <2>4, <3>1 DEF Part, Share, Charged, e
  <2>. QED  BY <2>3, <2>4
<1>2. ASSUME NEW gas \in Gas, NEW other \in Gas
      PROVE  Part(Merged(gas, other), g) = Part(gas, g) + Part(other, g)
  BY DEF Part, Merged
<1>3. \A gas \in Gas : Part(gas, g) \in Nat
  BY DEF Part, Gas
<1>4. Part(NoGas, g) = 0
  BY DEF Part, NoGas
<1>. QED  BY <1>1, <1>2, <1>3, <1>4

(* Gas of a part between two positions of a trace.                         *)
Within(t, g, from, to) == SumIn(t, PositionsIn(t, ChargesOf(g), from, to))

(* Gas between two positions is a number,                                  *)
LEMMA WithinNat ==
  ASSUME NEW t \in Seq(Event), NEW g \in Parts, NEW from, NEW to
  PROVE  /\ IsFiniteSet(PositionsIn(t, ChargesOf(g), from, to))
         /\ \A j \in PositionsIn(t, ChargesOf(g), from, to) : t[j].milli \in Nat
         /\ Within(t, g, from, to) \in Nat
<1>. DEFINE S == PositionsIn(t, ChargesOf(g), from, to)
<1>1. IsFiniteSet(S)
  BY PositionsFinite
<1>2. \A j \in S : t[j].milli \in Nat
  <2>1. \A j \in S : t[j] \in Event /\ t[j] \in ChargesOf(g)
    <3>1. \A j \in DOMAIN t : t[j] \in Event
      BY LenProperties, ElementOfSeq
    <3>. QED  BY <3>1 DEF PositionsIn
  <2>. HIDE DEF S
  <2>. QED  BY <2>1, ChargeEvents
<1>. HIDE DEF S
<1>3. SumIn(t, S) \in Nat
  BY <1>1, <1>2, SumInRemove
<1>. QED  BY <1>1, <1>2, <1>3 DEF Within, S

(* is settled once the trace is past them,                                 *)
LEMMA WithinKept ==
  ASSUME NEW t \in Seq(Event), NEW e \in Event, NEW g \in Parts, NEW from, NEW to \in Nat,
         to <= Len(t)
  PROVE  Within(Append(t, e), g, from, to) = Within(t, g, from, to)
<1>. DEFINE S == PositionsIn(t, ChargesOf(g), from, to)
            u == Append(t, e)
<1>1. PositionsIn(u, ChargesOf(g), from, to) = S
  BY PositionsKept
<1>2. \A j \in S : t[j] = u[j]
  <2>1. \A j \in DOMAIN t : u[j] = t[j]
    BY AppendIsSeq
  <2>. HIDE DEF u
  <2>. QED  BY <2>1 DEF PositionsIn
<1>3. IsFiniteSet(S)
  BY PositionsFinite
<1>. HIDE DEF S, u
<1>4. SumIn(t, S) = SumIn(u, S)
  BY <1>2, <1>3, SumInSame
<1>. QED  BY <1>1, <1>4 DEF Within, S, u

(* grows by what the next event charges,                                   *)
LEMMA WithinAdded ==
  ASSUME NEW t \in Seq(Event), NEW e \in Event, NEW g \in Parts, NEW from \in Nat,
         from <= Len(t) + 1
  PROVE  Within(Append(t, e), g, from, Len(t) + 1) = Within(t, g, from, Len(t)) + Share(g, e)
<1>. DEFINE S == PositionsIn(t, ChargesOf(g), from, Len(t))
            u == Append(t, e)
            x == Len(t) + 1
<1>1. /\ Len(t) \in Nat /\ DOMAIN t = 1..Len(t) /\ u[x] = e
      /\ \A j \in DOMAIN t : u[j] = t[j]
  BY AppendIsSeq
<1>2. /\ e \in ChargesOf(g) => PositionsIn(u, ChargesOf(g), from, x) = With(S, x)
      /\ e \notin ChargesOf(g) => PositionsIn(u, ChargesOf(g), from, x) = S
  BY PositionsAdded
<1>3. x \notin S
  BY <1>1 DEF PositionsIn
<1>4. /\ IsFiniteSet(S)
      /\ \A j \in S : t[j].milli \in Nat
  BY WithinNat
<1>5. \A j \in S : t[j] = u[j]
  <2>. HIDE DEF u
  <2>. QED  BY <1>1 DEF PositionsIn
<1>. HIDE DEF S, u, x
<1>6. SumIn(t, S) = SumIn(u, S) /\ SumIn(t, S) \in Nat
  BY <1>4, <1>5, SumInSame, SumInRemove
<1>7. CASE e \in ChargesOf(g)
  <2>1. u[x].milli \in Nat /\ \A j \in S : u[j].milli \in Nat
    BY <1>1, <1>4, <1>5, <1>7, ChargeEvents
  <2>2. SumIn(u, With(S, x)) = SumIn(u, S) + u[x].milli
    BY <1>3, <1>4, <2>1, SumInAdd
  <2>3. Share(g, e) = u[x].milli
    BY <1>1, <1>7 DEF Share
  <2>. QED  BY <1>2, <1>6, <1>7, <2>2, <2>3 DEF Within, S, u, x
<1>8. CASE e \notin ChargesOf(g)
  <2>1. Share(g, e) = 0
    BY <1>8 DEF Share
  <2>. QED  BY <1>2, <1>6, <1>8, <2>1 DEF Within, S, u, x
<1>. QED  BY <1>7, <1>8

(* and is nothing between positions in the wrong order.                    *)
LEMMA WithinNothing ==
  ASSUME NEW t \in Seq(Event), NEW g, NEW from \in Nat, NEW to \in Nat, to < from
  PROVE  Within(t, g, from, to) = 0
<1>1. PositionsIn(t, ChargesOf(g), from, to) = {}
  <2>1. \A j \in DOMAIN t : ~(from <= j /\ j <= to)
    <3>1. \A j \in DOMAIN t : j \in Nat
      BY LenProperties
    <3>. QED  BY <3>1
  <2>. QED  BY <2>1 DEF PositionsIn
<1>. QED  BY <1>1, SumInEmpty DEF Within

(* Where the charges of a span begin, what came of them so far, and what a *)
(* closed span of a class was due: the charges up to its match.            *)
From(k) == IF k = 1 THEN 1 ELSE OpeningOf(trace, k)
SelfPart(g, k) == Part(spans[k].self, g)
TotalPart(g, k) == Part(spans[k].total, g)
SoFar(g, k) == Within(trace, g, From(k), Len(trace))
Due(g, c, k) == Within(trace, g, OpeningOf(trace, k), Min(MatchesOf(c, k)))
Settled(c, k) == OfClass(c, k) /\ ~InStack(c, k)

(* Events, by the kinds of steps that read them.                           *)
KindOf(e) ==
  \/ Neutral(e)
  \/ \E c \in Classes : Opening(c, e) \/ Closing(c, e) \/ Refusing(c, e)

(* The gas charged since a span was opened grows by what is charged.       *)
LEMMA SoFarStep ==
  ASSUME AnalysisInv, OpenInv, NEW e \in Event, Read(e), KindOf(e), NEW g \in Parts,
         NEW k \in 1..Len(spans)
  PROVE  /\ SoFar(g, k) \in Nat
         /\ SoFar(g, k)' = SoFar(g, k) + Share(g, e)
<1>1. trace \in Seq(Event) /\ trace' = Append(trace, e) /\ Len(trace') = Len(trace) + 1 /\ Len(trace) \in Nat
  <2>1. trace \in Seq(Event) /\ trace' = Append(trace, e)
    BY DEF Read, AnalysisInv, AnalysisTypeOK
  <2>. QED  BY <2>1, AppendIsSeq
<1>2. k # 1 => k \in 2..Len(spans)
  BY OpenIndices
<1>3. From(k)' = From(k) /\ From(k) \in Nat /\ From(k) <= Len(trace) + 1
  <2>1. CASE k = 1
    BY <1>1, <2>1 DEF From
  <2>2. CASE k # 1
    <3>1. OpeningOf(trace', k) = OpeningOf(trace, k) /\ OpeningOf(trace, k) \in 1..Len(trace)
      BY <1>2, <2>2, SpansCounted, OpeningsStep DEF KindOf, OpenInv
    <3>. QED  BY <1>1, <2>2, <3>1 DEF From
  <2>. QED  BY <2>1, <2>2
<1>4. SoFar(g, k) \in Nat
  BY <1>1, WithinNat DEF SoFar
<1>5. Within(trace', g, From(k), Len(trace) + 1) = Within(trace, g, From(k), Len(trace)) + Share(g, e)
  BY <1>1, <1>3, WithinAdded
<1>. QED  BY <1>1, <1>3, <1>4, <1>5 DEF SoFar

(* Nothing is charged to a span before it is opened.                       *)
LEMMA SoFarNew ==
  ASSUME AnalysisInv, OpenInv, NEW e \in Event, Read(e), NEW c \in Classes, Opening(c, e),
         NEW g \in Parts, NEW m, m = Len(spans')
  PROVE  SoFar(g, m)' = 0
<1>1. e \in Openings /\ e.kind # "charge"
  BY EventClass DEF Opening
<1>2. OpeningOf(trace', m) = Len(trace') /\ Len(trace') = Len(trace) + 1 /\ Len(trace) \in Nat
  BY <1>1, SpansCounted, OpeningsStep DEF OpenInv
<1>3. m # 1
  BY OpenIndices DEF Opening, OpenInv, RootInv
<1>4. trace \in Seq(Event) /\ trace' = Append(trace, e)
  BY DEF Read, AnalysisInv, AnalysisTypeOK
<1>. DEFINE n == Len(trace) + 1
<1>5. n \in Nat /\ Len(trace) < n /\ n <= Len(trace) + 1
  BY <1>2
<1>6. Within(trace, g, n, Len(trace)) = 0
  BY <1>2, <1>4, <1>5, WithinNothing
<1>7. Within(trace', g, n, Len(trace) + 1) = Within(trace, g, n, Len(trace)) + Share(g, e)
  BY <1>4, <1>5, WithinAdded
<1>8. Share(g, e) = 0
  BY <1>1, ChargeEvents
<1>9. Within(trace', g, n, n) = 0
  BY <1>6, <1>7, <1>8
<1>. HIDE DEF n
<1>. QED  BY <1>2, <1>3, <1>9 DEF SoFar, From, n

(* What a closed span is due is settled when it closes.                    *)
LEMMA SettledStep ==
  ASSUME AnalysisInv, OpenInv, NEW e \in Event, Read(e), KindOf(e), NEW g \in Parts,
         NEW c \in Classes, NEW k \in 2..Len(spans'), Settled(c, k)'
  PROVE  /\ k \in 2..Len(spans)
         /\ \/ Settled(c, k) /\ Due(g, c, k)' = Due(g, c, k)
            \/ /\ Closing(c, e) /\ k = Stack(c)[Len(Stack(c))]
               /\ Due(g, c, k)' = SoFar(g, k)'
<1>1. /\ e \in Openings => Len(spans') = Len(spans) + 1
      /\ e \notin Openings => Len(spans') = Len(spans)
  BY SpansCounted DEF KindOf
<1>2. Len(spans) \in Nat
  BY OpenIndices
<1>3. k \in 2..Len(spans)
  <2>1. SUFFICES ASSUME k \notin 2..Len(spans)
                 PROVE  FALSE
    OBVIOUS
  <2>2. e \in Openings /\ k = Len(spans')
    BY <1>1, <1>2, <2>1
  <2>3. PICK d \in Classes : Opening(d, e)
    <3>1. PICK d \in Classes : e \in Opens(d)
      BY <2>2, OpeningClass
    <3>. QED  BY <2>2, <3>1, EventClass DEF KindOf, Neutral, Opening, Closing, Refusing
  <2>4. d = c
    BY <1>1, <2>2, <2>3, SpanOpened DEF Opening, OpenInv, Settled
  <2>5. InStack(d, k)'
    <3>1. Stack(d) \in Seq(Nat) /\ Len(spans') \in Nat /\ Stack(d)' = Append(Stack(d), Len(spans'))
      BY <1>1, <1>2, <2>2, <2>3, StackFacts DEF Opening
    <3>2. Len(Stack(d)) + 1 \in DOMAIN Stack(d)' /\ Stack(d)'[Len(Stack(d)) + 1] = k
      BY <2>2, <3>1, AppendIsSeq
    <3>. QED  BY <3>2 DEF InStack
  <2>. QED  BY <2>4, <2>5 DEF Settled
<1>4. OfClass(c, k)
  BY <1>1, <1>3, SpanStep DEF OpenInv, Settled
<1>5. trace \in Seq(Event) /\ trace' = Append(trace, e) /\ Len(trace) \in Nat
  <2>1. trace \in Seq(Event) /\ trace' = Append(trace, e)
    BY DEF Read, AnalysisInv, AnalysisTypeOK
  <2>. QED  BY <2>1, AppendIsSeq
<1>6. OpeningOf(trace', k) = OpeningOf(trace, k)
  BY <1>1, <1>3, OpeningsStep DEF OpenInv
<1>7. CASE Settled(c, k)
  <2>1. MatchesOf(c, k) # {}
    BY <1>3, <1>7 DEF Settled, OpenInv, ClassesInv, Closed
  <2>2. Min(MatchesOf(c, k)') = Min(MatchesOf(c, k)) /\ Min(MatchesOf(c, k)) \in 1..Len(trace)
    BY <1>1, <1>3, <2>1, SpanStep DEF OpenInv
  <2>. DEFINE m == Min(MatchesOf(c, k))
              o == OpeningOf(trace, k)
  <2>3. m \in Nat /\ m <= Len(trace)
    BY <1>5, <2>2
  <2>. HIDE DEF m, o
  <2>4. Within(trace', g, o, m) = Within(trace, g, o, m)
    BY <1>5, <2>3, WithinKept
  <2>. QED  BY <1>3, <1>6, <1>7, <2>2, <2>4 DEF Due, m, o
<1>8. CASE ~Settled(c, k)
  <2>1. PICK p \in DOMAIN Stack(c) : Stack(c)[p] = k
    BY <1>4, <1>8 DEF Settled, InStack
  <2>2. k # 1
    BY <1>3
  <2>3. /\ Stack(c) \in Seq(Nat) /\ Len(Stack(c)) \in Nat /\ DOMAIN Stack(c) = 1..Len(Stack(c))
    BY StackFacts
  <2>4. ~InStack(c, k)'
    BY DEF Settled
  <2>5. ~(Stack(c)' = Stack(c))
    BY <2>1, <2>4 DEF InStack
  <2>6. ~Opening(c, e)
    <3>1. SUFFICES ASSUME Opening(c, e) PROVE FALSE
      OBVIOUS
    <3>2. Len(spans') \in Nat /\ Stack(c)' = Append(Stack(c), Len(spans'))
      BY <1>1, <1>2, <3>1 DEF Opening
    <3>3. p \in DOMAIN Stack(c)' /\ Stack(c)'[p] = k
      BY <2>1, <2>3, <3>2, AppendIsSeq
    <3>. QED  BY <2>4, <3>3 DEF InStack
  <2>7. Closing(c, e)
    BY <2>5, <2>6 DEF KindOf, Neutral, Opening, Closing, Refusing
  <2>8. k = Stack(c)[Len(Stack(c))]
    <3>1. /\ DOMAIN Stack(c)' = 1..(Len(Stack(c)) - 1)
          /\ \A i \in DOMAIN Stack(c)' : Stack(c)'[i] = Stack(c)[i]
      <4>1. Stack(c) # <<>> /\ Stack(c)' = Front(Stack(c))
        BY <2>7 DEF Closing
      <4>. QED  BY <2>3, <4>1, FrontFacts
    <3>2. p \notin DOMAIN Stack(c)'
      BY <2>1, <2>4, <3>1 DEF InStack
    <3>3. p = Len(Stack(c))
      BY <2>1, <2>3, <3>1, <3>2
    <3>. QED  BY <2>1, <3>3
  <2>9. Min(MatchesOf(c, k)') = Len(trace')
    BY <1>3, <2>7, <2>8, ClosingKeeps DEF OpenInv, ClassesInv
  <2>. QED  BY <1>3, <2>2, <2>7, <2>8, <2>9 DEF Due, SoFar, From
<1>. QED  BY <1>3, <1>7, <1>8

-----------------------------------------------------------------------------
(* What open spans hold, and what closed spans were due.                   *)

(* Gas of an open call, of an open named span and of what is  *)
(* closed.                                                                 *)
ChainOf(g) ==
  \A p \in DOMAIN call_stack, k \in 1..Len(spans) : call_stack[p] = k =>
    /\ p = Len(call_stack) => SoFar(g, k) = SelfPart(g, k) + TotalPart(g, k)
    /\ \A q \in 1..Len(spans) : p < Len(call_stack) /\ call_stack[p + 1] = q =>
         SoFar(g, k) = SelfPart(g, k) + TotalPart(g, k) + SoFar(g, q)
NamedOf(g) ==
  \A k \in 1..Len(spans) : k \in OpenNamed =>
    SelfPart(g, k) = SoFar(g, k) /\ TotalPart(g, k) = 0
ClosedOf(g) ==
  \A c \in Classes, k \in 2..Len(spans) : Settled(c, k) => TotalPart(g, k) = Due(g, c, k)
RootOf(g) ==
  status = "done" => TotalPart(g, 1) = Within(trace, g, 1, Len(trace))

GasInv == \A g \in Parts : ChainOf(g) /\ NamedOf(g) /\ ClosedOf(g) /\ RootOf(g)

(* Parts of the accounts of spans are numbers.                             *)
LEMMA PartNat ==
  ASSUME AnalysisInv, NEW g \in Parts, NEW k \in 1..Len(spans)
  PROVE  SelfPart(g, k) \in Nat /\ TotalPart(g, k) \in Nat
<1>1. spans[k].self \in Gas /\ spans[k].total \in Gas
  BY OpenIndices DEF Span
<1>. QED  BY <1>1, PartFacts DEF SelfPart, TotalPart

(* How each kind of event moves gas.                                       *)
LEMMA NeutralGas ==
  ASSUME AnalysisInv, NEW e \in Event, Read(e), Neutral(e), NEW g \in Parts,
         NEW k \in 1..Len(spans)
  PROVE  /\ TotalPart(g, k)' = TotalPart(g, k)
         /\ k = Last(call_stack) \/ k \in OpenNamed => SelfPart(g, k)' = SelfPart(g, k) + Share(g, e)
         /\ k # Last(call_stack) /\ k \notin OpenNamed => SelfPart(g, k)' = SelfPart(g, k)
<1>1. k \in DOMAIN spans /\ spans[k].self \in Gas /\ spans[k].total \in Gas
  BY OpenIndices DEF Span
<1>2. CASE ReadOther
  <2>1. e.kind = "other"
    <3>. DEFINE other == [kind |-> "other"]
    <3>1. other \in Event /\ other.kind = "other" /\ Read(other)
      BY <1>2 DEF Event, ReadOther
    <3>. HIDE DEF other
    <3>2. trace \in Seq(Event) /\ trace' = Append(trace, e)
      BY DEF Read, AnalysisInv, AnalysisTypeOK
    <3>3. trace' = Append(trace, other)
      BY <3>1 DEF Read
    <3>4. trace'[Len(trace) + 1] = e
      BY <3>2, AppendIsSeq
    <3>5. trace'[Len(trace) + 1] = other
      BY <3>1, <3>2, <3>3, AppendIsSeq
    <3>. QED  BY <3>1, <3>4, <3>5
  <2>2. Share(g, e) = 0
    BY <2>1, ChargeEvents
  <2>3. SelfPart(g, k) \in Nat
    BY PartNat
  <2>. QED  BY <1>2, <2>2, <2>3 DEF ReadOther, SelfPart, TotalPart
<1>3. ASSUME NEW name \in GasNames, NEW milli \in Amounts,
             e = [kind |-> "charge", name |-> name, milli |-> milli],
             ReadGasCharge(name, milli)
      PROVE  /\ TotalPart(g, k)' = TotalPart(g, k)
             /\ k = Last(call_stack) \/ k \in OpenNamed =>
                  SelfPart(g, k)' = SelfPart(g, k) + Share(g, e)
             /\ k # Last(call_stack) /\ k \notin OpenNamed => SelfPart(g, k)' = SelfPart(g, k)
  <2>1. spans'[k] = IF k = Last(call_stack) \/ k \in OpenNamed
                    THEN AddSelfGas(spans[k], name, milli) ELSE spans[k]
    BY <1>1, <1>3 DEF ReadGasCharge
  <2>2. /\ AddSelfGas(spans[k], name, milli).self = Charged(spans[k].self, name, milli)
        /\ AddSelfGas(spans[k], name, milli).total = spans[k].total
    BY DEF AddSelfGas
  <2>3. Part(Charged(spans[k].self, name, milli), g) = Part(spans[k].self, g) + Share(g, e)
    BY <1>1, <1>3, PartFacts
  <2>. QED  BY <2>1, <2>2, <2>3 DEF SelfPart, TotalPart
<1>. QED  BY <1>2, <1>3 DEF Neutral

(* A new span has none.                                                    *)
LEMMA OpeningGas ==
  ASSUME AnalysisInv, NEW e \in Event, NEW c \in Classes, Opening(c, e), NEW g \in Parts
  PROVE  /\ \A k \in 1..Len(spans) :
              TotalPart(g, k)' = TotalPart(g, k) /\ SelfPart(g, k)' = SelfPart(g, k)
         /\ \A m : m = Len(spans') => TotalPart(g, m)' = 0 /\ SelfPart(g, m)' = 0
<1>1. spans \in Seq(Span) /\ NewSpan \in Span /\ spans' = Append(spans, NewSpan)
  BY NewSpanType DEF Opening, AnalysisInv, AnalysisTypeOK
<1>2. /\ \A k \in 1..Len(spans) : spans'[k] = spans[k]
      /\ Len(spans') = Len(spans) + 1 /\ spans'[Len(spans) + 1] = NewSpan
  BY <1>1, AppendIsSeq
<1>3. NewSpan.self = NoGas /\ NewSpan.total = NoGas /\ Part(NoGas, g) = 0
  BY PartFacts DEF NewSpan
<1>. QED  BY <1>2, <1>3 DEF SelfPart, TotalPart

(* Adding to a total leaves the own gas alone.                             *)
LEMMA AddedParts ==
  ASSUME NEW g \in Parts, NEW span \in Span, NEW other \in Span
  PROVE  /\ AddSelfToTotalGas(span) \in Span
         /\ Part(AddSelfToTotalGas(span).self, g) = Part(span.self, g)
         /\ Part(AddSelfToTotalGas(span).total, g) = Part(span.total, g) + Part(span.self, g)
         /\ Part(AddOtherToTotalGas(span, other).self, g) = Part(span.self, g)
         /\ Part(AddOtherToTotalGas(span, other).total, g) = Part(span.total, g) + Part(other.total, g)
<1>1. span.self \in Gas /\ span.total \in Gas /\ other.total \in Gas
  BY DEF Span
<1>2. /\ AddSelfToTotalGas(span).self = span.self
      /\ AddSelfToTotalGas(span).total = Merged(span.total, span.self)
      /\ AddOtherToTotalGas(span, other).self = span.self
      /\ AddOtherToTotalGas(span, other).total = Merged(span.total, other.total)
  BY DEF AddSelfToTotalGas, AddOtherToTotalGas
<1>3. AddSelfToTotalGas(span) \in Span
  BY AddSelfToTotalType
<1>. QED  BY <1>1, <1>2, <1>3, PartFacts

(* A call that returns hands its gas to the call below it.                 *)
LEMMA ReturnGas ==
  ASSUME AnalysisInv, NEW e \in Event, Closing(CallClass, e), NEW g \in Parts,
         NEW top, top = call_stack[Len(call_stack)],
         NEW parent, parent = call_stack[Len(call_stack) - 1]
  PROVE  /\ Len(call_stack) \in Nat /\ Len(call_stack) > 1
         /\ DOMAIN call_stack = 1..Len(call_stack)
         /\ call_stack' = Front(call_stack)
         /\ top \in 1..Len(spans) /\ parent \in 1..Len(spans) /\ top # parent
         /\ top \notin OpenNamed /\ parent \notin OpenNamed
         /\ \A k \in 1..Len(spans) : SelfPart(g, k)' = SelfPart(g, k)
         /\ TotalPart(g, top)' = TotalPart(g, top) + SelfPart(g, top)
         /\ TotalPart(g, parent)' = TotalPart(g, parent) + (TotalPart(g, top) + SelfPart(g, top))
         /\ \A k \in 1..Len(spans) \ {top, parent} : TotalPart(g, k)' = TotalPart(g, k)
<1>. DEFINE n == Len(call_stack)
            closed == AddSelfToTotalGas(spans[top])
<1>1. ReadCallReturn
  BY DEF Closing
<1>2. /\ n \in Nat /\ n > 1 /\ DOMAIN call_stack = 1..n
      /\ Last(call_stack) = top /\ Last(Front(call_stack)) = parent
  <2>1. call_stack \in Seq(Nat) /\ call_stack # <<>> /\ n > 1
    BY <1>1 DEF ReadCallReturn, Read, AnalysisInv, AnalysisTypeOK
  <2>2. /\ n \in Nat /\ DOMAIN call_stack = 1..n
        /\ Len(Front(call_stack)) = n - 1
        /\ \A p \in 1..(n - 1) : Front(call_stack)[p] = call_stack[p]
    BY <2>1, FrontFacts
  <2>3. Front(call_stack)[n - 1] = call_stack[n - 1]
    BY <2>1, <2>2
  <2>. QED  BY <2>1, <2>2, <2>3 DEF Last
<1>3. /\ top \in 1..Len(spans) /\ parent \in 1..Len(spans) /\ top # parent
      /\ top \notin OpenNamed /\ parent \notin OpenNamed
  <2>. DEFINE m == n
  <2>1. m \in DOMAIN call_stack /\ m - 1 \in DOMAIN call_stack /\ m # m - 1
    <3>1. m \in Nat /\ m > 1 /\ DOMAIN call_stack = 1..m
      BY <1>2
    <3>. HIDE DEF m
    <3>. QED  BY <3>1
  <2>. QED  BY <2>1, OpenIndices DEF AnalysisInv, Distinct
<1>4. spans[top] \in Span /\ spans[parent] \in Span /\ DOMAIN spans = 1..Len(spans)
  BY <1>3, OpenIndices
<1>5. /\ spans'[top] = closed
      /\ spans'[parent] = AddOtherToTotalGas(spans[parent], closed)
      /\ \A k \in 1..Len(spans) \ {top, parent} : spans'[k] = spans[k]
  <2>1. spans' = [spans EXCEPT ![top] = closed, ![parent] = AddOtherToTotalGas(@, closed)]
    BY <1>1, <1>2 DEF ReadCallReturn
  <2>. HIDE DEF closed
  <2>. QED  BY <1>3, <1>4, <2>1
<1>6. /\ closed \in Span
      /\ Part(closed.self, g) = SelfPart(g, top)
      /\ Part(closed.total, g) = TotalPart(g, top) + SelfPart(g, top)
  BY <1>4, AddedParts DEF SelfPart, TotalPart
<1>. HIDE DEF closed
<1>7. /\ Part(spans'[parent].self, g) = SelfPart(g, parent)
      /\ Part(spans'[parent].total, g) = TotalPart(g, parent) + Part(closed.total, g)
  <2>. DEFINE span == spans[parent]
  <2>1. span \in Span /\ closed \in Span
    BY <1>4, <1>6
  <2>. HIDE DEF span
  <2>2. /\ Part(AddOtherToTotalGas(span, closed).self, g) = Part(span.self, g)
        /\ Part(AddOtherToTotalGas(span, closed).total, g) = Part(span.total, g) + Part(closed.total, g)
    BY <2>1, AddedParts
  <2>. QED  BY <1>5, <2>2 DEF SelfPart, TotalPart, span
<1>8. call_stack' = Front(call_stack)
  BY <1>1 DEF ReadCallReturn
<1>9. \A k \in 1..Len(spans) : SelfPart(g, k)' = SelfPart(g, k)
  BY <1>5, <1>6, <1>7 DEF SelfPart
<1>10. /\ TotalPart(g, top)' = TotalPart(g, top) + SelfPart(g, top)
       /\ TotalPart(g, parent)' = TotalPart(g, parent) + (TotalPart(g, top) + SelfPart(g, top))
       /\ \A k \in 1..Len(spans) \ {top, parent} : TotalPart(g, k)' = TotalPart(g, k)
  BY <1>5, <1>6, <1>7 DEF TotalPart
<1>. QED  BY <1>2, <1>3, <1>8, <1>9, <1>10

(* A named span that ends keeps its gas.                                   *)
LEMMA SpanEndGas ==
  ASSUME AnalysisInv, NEW e \in Event, NEW c \in SpanNames, Closing(c, e), NEW g \in Parts,
         NEW top, top = named_spans[c][Len(named_spans[c])]
  PROVE  /\ top \in 1..Len(spans) /\ top \in OpenNamed /\ call_stack' = call_stack
         /\ \A k \in 1..Len(spans) : SelfPart(g, k)' = SelfPart(g, k)
         /\ TotalPart(g, top)' = TotalPart(g, top) + SelfPart(g, top)
         /\ \A k \in 1..Len(spans) \ {top} : TotalPart(g, k)' = TotalPart(g, k)
<1>1. ReadSpanEnd(c)
  BY CallClassNew DEF Closing
<1>2. top \in OpenNamed /\ top \in 1..Len(spans)
  <2>1. named_spans[c] \in Seq(Nat) /\ named_spans[c] # <<>>
    BY <1>1 DEF ReadSpanEnd, AnalysisInv, AnalysisTypeOK
  <2>2. Len(named_spans[c]) \in DOMAIN named_spans[c]
    BY <2>1, FrontFacts
  <2>3. top \in OpenNamed
    BY <2>2 DEF OpenNamed, ToSet
  <2>. QED  BY <2>3, OpenIndices
<1>3. spans[top] \in Span /\ DOMAIN spans = 1..Len(spans)
  BY <1>2, OpenIndices
<1>4. /\ spans'[top] = AddSelfToTotalGas(spans[top])
      /\ \A k \in 1..Len(spans) \ {top} : spans'[k] = spans[k]
  <2>1. spans' = [spans EXCEPT ![top] = AddSelfToTotalGas(@)]
    BY <1>1 DEF ReadSpanEnd, Last
  <2>. QED  BY <1>2, <1>3, <2>1
<1>5. /\ Part(spans'[top].self, g) = SelfPart(g, top)
      /\ Part(spans'[top].total, g) = TotalPart(g, top) + SelfPart(g, top)
  BY <1>3, <1>4, AddedParts DEF SelfPart, TotalPart
<1>6. call_stack' = call_stack
  BY <1>1 DEF ReadSpanEnd
<1>. QED  BY <1>2, <1>4, <1>5, <1>6 DEF SelfPart, TotalPart

(* Open named spans are those in the lists.                                *)
LEMMA NamedStacks ==
  /\ (\A n \in SpanNames : Stack(n)' = Stack(n)) => OpenNamed' = OpenNamed
  /\ Stack(CallClass) = call_stack /\ Stack(CallClass)' = call_stack'
  /\ \A k : k \in OpenNamed <=> \E n \in SpanNames : InStack(n, k)
  /\ \A k : k \in OpenNamed' <=> \E n \in SpanNames : InStack(n, k)'
  BY CallClassNew, ClassCases DEF OpenNamed, Stack, ToSet, InStack

(* An event is read only while the analysis goes on.                       *)
LEMMA EventsGoOn ==
  ASSUME AnalysisInv, [AnalysisNext]_analysisVars, NEW e \in Event, Read(e)
  PROVE  status' # "done"
<1>1. status = "reading" /\ trace \in Seq(Event) /\ trace' = Append(trace, e)
  BY DEF Read, AnalysisInv, AnalysisTypeOK
<1>2. trace' # trace
  <2>1. Len(trace) \in Nat /\ Len(trace') = Len(trace) + 1
    BY <1>1, AppendIsSeq
  <2>. QED  BY <2>1
<1>3. ~Finish
  BY <1>2 DEF Finish
<1>4. status' \in {status, "panicked"}
  BY <1>3 DEF AnalysisNext, analysisVars, ReadGasCharge, ReadCall, ReadCallReturn,
              ReadUnmatchedReturn, ReadSpanStart, ReadSpanEnd, ReadUnmatchedEnd, ReadOther,
              FinishWithOpenCalls, Panic
<1>. QED  BY <1>1, <1>4

(* Any event but the end of a span leaves the settled totals alone.        *)
LEMMA ClosedKept ==
  ASSUME AnalysisInv, OpenInv, NEW e \in Event, Read(e), KindOf(e), NEW g \in Parts, ClosedOf(g),
         \A k \in 1..Len(spans) : TotalPart(g, k)' = TotalPart(g, k),
         \A c \in Classes : ~Closing(c, e)
  PROVE  ClosedOf(g)'
<1>1. SUFFICES ASSUME NEW c \in Classes, NEW k \in 2..Len(spans'), Settled(c, k)'
               PROVE  TotalPart(g, k)' = Due(g, c, k)'
  BY DEF ClosedOf
<1>2. k \in 2..Len(spans) /\ Settled(c, k) /\ Due(g, c, k)' = Due(g, c, k)
  BY <1>1, SettledStep
<1>3. k \in 1..Len(spans)
  BY <1>2, OpenIndices
<1>. QED  BY <1>2, <1>3 DEF ClosedOf

(* A charge goes to the open call and to every open named span.            *)
LEMMA GasNeutral ==
  ASSUME AnalysisInv, OpenInv, NEW e \in Event, Read(e), Neutral(e), NEW g \in Parts,
         ChainOf(g), NamedOf(g), ClosedOf(g)
  PROVE  ChainOf(g)' /\ NamedOf(g)' /\ ClosedOf(g)'
<1>1. /\ call_stack' = call_stack /\ OpenNamed' = OpenNamed /\ Len(spans') = Len(spans)
      /\ \A c \in Classes : ~Closing(c, e)
  BY NamedStacks DEF Neutral, Closing, Classes
<1>2. /\ Len(call_stack) \in Nat \ {0}
      /\ DOMAIN call_stack = 1..Len(call_stack)
      /\ Last(call_stack) = call_stack[Len(call_stack)]
      /\ \A p \in DOMAIN call_stack : call_stack[p] \notin OpenNamed
      /\ \A p, q \in DOMAIN call_stack : call_stack[p] = call_stack[q] => p = q
  BY TopOfStack, OpenIndices DEF Read, AnalysisInv, Distinct
<1>3. ASSUME NEW k \in 1..Len(spans)
      PROVE  /\ SoFar(g, k) \in Nat /\ SelfPart(g, k) \in Nat /\ TotalPart(g, k) \in Nat
             /\ Share(g, e) \in Nat
             /\ SoFar(g, k)' = SoFar(g, k) + Share(g, e)
             /\ TotalPart(g, k)' = TotalPart(g, k)
             /\ k = Last(call_stack) \/ k \in OpenNamed => SelfPart(g, k)' = SelfPart(g, k) + Share(g, e)
             /\ k # Last(call_stack) /\ k \notin OpenNamed => SelfPart(g, k)' = SelfPart(g, k)
  BY SoFarStep, NeutralGas, PartNat, ChargeEvents DEF KindOf
<1>4. ASSUME NEW p \in DOMAIN call_stack, NEW k \in 1..Len(spans), call_stack[p] = k
      PROVE  /\ p = Len(call_stack) => SoFar(g, k)' = SelfPart(g, k)' + TotalPart(g, k)'
             /\ \A q \in 1..Len(spans) : p < Len(call_stack) /\ call_stack[p + 1] = q =>
                  SoFar(g, k)' = SelfPart(g, k)' + TotalPart(g, k)' + SoFar(g, q)'
  <2>1. CASE p = Len(call_stack)
    <3>1. SoFar(g, k) = SelfPart(g, k) + TotalPart(g, k)
      BY <1>4, <2>1 DEF ChainOf
    <3>2. SelfPart(g, k)' = SelfPart(g, k) + Share(g, e)
      BY <1>2, <1>3, <1>4, <2>1
    <3>. QED  BY <1>2, <1>3, <2>1, <3>1, <3>2
  <2>2. ASSUME p # Len(call_stack), NEW q \in 1..Len(spans), call_stack[p + 1] = q, p < Len(call_stack)
        PROVE  SoFar(g, k)' = SelfPart(g, k)' + TotalPart(g, k)' + SoFar(g, q)'
    <3>1. SoFar(g, k) = SelfPart(g, k) + TotalPart(g, k) + SoFar(g, q)
      BY <1>4, <2>2 DEF ChainOf
    <3>2. k # Last(call_stack) /\ k \notin OpenNamed
      BY <1>2, <1>4, <2>2
    <3>3. SelfPart(g, k)' = SelfPart(g, k)
      BY <1>3, <3>2
    <3>. QED  BY <1>3, <3>1, <3>3
  <2>. QED  BY <1>2, <2>1, <2>2
<1>5. ChainOf(g)'
  BY <1>1, <1>4 DEF ChainOf
<1>6. NamedOf(g)'
  BY <1>1, <1>3 DEF NamedOf
<1>7. ClosedOf(g)'
  BY <1>1, <1>3, ClosedKept DEF KindOf
<1>. QED  BY <1>5, <1>6, <1>7

(* An event that panics moves no gas.                                      *)
LEMMA GasRefusing ==
  ASSUME AnalysisInv, OpenInv, NEW e \in Event, Read(e), NEW c \in Classes, Refusing(c, e),
         NEW g \in Parts, ChainOf(g), NamedOf(g), ClosedOf(g)
  PROVE  ChainOf(g)' /\ NamedOf(g)' /\ ClosedOf(g)'
<1>1. call_stack' = call_stack /\ OpenNamed' = OpenNamed /\ spans' = spans
  BY NamedStacks DEF Refusing, Classes
<1>2. Share(g, e) = 0
  BY EventClass, ChargeEvents DEF Refusing
<1>3. ASSUME NEW k \in 1..Len(spans)
      PROVE  /\ SoFar(g, k)' = SoFar(g, k) /\ SelfPart(g, k)' = SelfPart(g, k)
             /\ TotalPart(g, k)' = TotalPart(g, k)
  <2>1. SoFar(g, k) \in Nat /\ SoFar(g, k)' = SoFar(g, k) + Share(g, e)
    BY SoFarStep DEF KindOf
  <2>. QED  BY <1>1, <1>2, <2>1 DEF SelfPart, TotalPart
<1>4. ~\E d \in Classes : Closing(d, e)
  <2>1. SUFFICES ASSUME NEW d \in Classes, Closing(d, e) PROVE FALSE
    OBVIOUS
  <2>2. d = c
    BY <2>1, EventClass DEF Closing, Refusing
  <2>3. Stack(c) \in Seq(Nat) /\ Stack(c) # <<>>
    BY <2>1, <2>2, StackFacts DEF Closing
  <2>4. Len(Stack(c)) \in DOMAIN Stack(c)
    BY <2>3, FrontFacts
  <2>. QED  BY <2>1, <2>2, <2>4 DEF Closing, Refusing
<1>5. ChainOf(g)'
  BY <1>1, <1>3 DEF ChainOf
<1>6. NamedOf(g)'
  BY <1>1, <1>3 DEF NamedOf
<1>7. ClosedOf(g)'
  BY <1>3, <1>4, ClosedKept DEF KindOf
<1>. QED  BY <1>5, <1>6, <1>7

(* An opening moves no gas.                                                *)
LEMMA GasOpening ==
  ASSUME AnalysisInv, OpenInv, NEW e \in Event, Read(e), NEW c \in Classes, Opening(c, e),
         NEW g \in Parts, ChainOf(g), NamedOf(g), ClosedOf(g)
  PROVE  ChainOf(g)' /\ NamedOf(g)' /\ ClosedOf(g)'
<1>1. Share(g, e) = 0 /\ \A d \in Classes : ~Closing(d, e)
  BY EventClass, ChargeEvents DEF Opening, Closing
<1>2. Len(spans) \in Nat /\ Len(spans') = Len(spans) + 1
  BY OpenIndices DEF Opening
<1>3. ASSUME NEW k \in 1..Len(spans)
      PROVE  /\ SoFar(g, k) \in Nat /\ SelfPart(g, k) \in Nat /\ TotalPart(g, k) \in Nat
             /\ SoFar(g, k)' = SoFar(g, k) /\ SelfPart(g, k)' = SelfPart(g, k)
             /\ TotalPart(g, k)' = TotalPart(g, k)
  <2>1. SoFar(g, k) \in Nat /\ SoFar(g, k)' = SoFar(g, k) + Share(g, e)
    BY SoFarStep DEF KindOf
  <2>. QED  BY <1>1, <2>1, OpeningGas, PartNat
<1>4. ASSUME NEW m, m = Len(spans')
      PROVE  SoFar(g, m)' = 0 /\ SelfPart(g, m)' = 0 /\ TotalPart(g, m)' = 0
  BY <1>4, OpeningGas, SoFarNew
<1>5. \A k \in 1..Len(spans') : k \in 1..Len(spans) \/ k = Len(spans')
  BY <1>2
<1>6. ClosedOf(g)'
  BY <1>1, <1>3, ClosedKept DEF KindOf
<1>7. /\ \A p \in DOMAIN call_stack : call_stack[p] \in 1..Len(spans)
      /\ Len(call_stack) \in Nat \ {0} /\ DOMAIN call_stack = 1..Len(call_stack)
  BY TopOfStack, OpenIndices DEF Read
<1>8. CASE c = CallClass
  <2>. DEFINE n == Len(call_stack)
  <2>1. /\ DOMAIN call_stack' = 1..(n + 1) /\ Len(call_stack') = n + 1
        /\ \A p \in 1..n : call_stack'[p] = call_stack[p]
        /\ call_stack'[n + 1] = Len(spans')
    <3>1. call_stack \in Seq(Nat) /\ Len(spans') \in Nat /\ call_stack' = Append(call_stack, Len(spans'))
      BY <1>2, <1>8, NamedStacks DEF Opening, AnalysisInv, AnalysisTypeOK
    <3>. QED  BY <3>1, AppendIsSeq
  <2>2. OpenNamed' = OpenNamed
    <3>1. \A m \in SpanNames : Stack(m)' = Stack(m)
      BY <1>8, CallClassNew DEF Opening, Classes
    <3>. QED  BY <3>1, NamedStacks
  <2>3. n \in Nat \ {0} /\ DOMAIN call_stack = 1..n /\ n = Len(call_stack)
    BY <1>7
  <2>. HIDE DEF n
  <2>4. ASSUME NEW p \in DOMAIN call_stack', NEW k \in 1..Len(spans'), call_stack'[p] = k
        PROVE  /\ p = Len(call_stack') => SoFar(g, k)' = SelfPart(g, k)' + TotalPart(g, k)'
               /\ \A q \in 1..Len(spans') : p < Len(call_stack') /\ call_stack'[p + 1] = q =>
                    SoFar(g, k)' = SelfPart(g, k)' + TotalPart(g, k)' + SoFar(g, q)'
    <3>1. CASE p = n + 1
      <4>1. k = Len(spans')
        BY <2>1, <2>4, <3>1
      <4>2. ~(p < Len(call_stack'))
        BY <2>1, <2>3, <3>1
      <4>. QED  BY <1>4, <4>1, <4>2
    <3>2. CASE p \in 1..n
      <4>1. p \in DOMAIN call_stack /\ call_stack[p] = k /\ k \in 1..Len(spans) /\ p # Len(call_stack')
        BY <1>7, <2>1, <2>3, <2>4, <3>2
      <4>2. ASSUME NEW q \in 1..Len(spans'), call_stack'[p + 1] = q
            PROVE  SoFar(g, k)' = SelfPart(g, k)' + TotalPart(g, k)' + SoFar(g, q)'
        <5>1. CASE p = n
          <6>1. q = Len(spans')
            BY <2>1, <4>2, <5>1
          <6>2. SoFar(g, q)' = 0
            BY <1>4, <6>1
          <6>3. SoFar(g, k) = SelfPart(g, k) + TotalPart(g, k)
            BY <2>3, <4>1, <5>1 DEF ChainOf
          <6>. QED  BY <1>3, <4>1, <6>2, <6>3
        <5>2. CASE p < n
          <6>1. p + 1 \in 1..n
            BY <2>3, <3>2, <5>2
          <6>2. call_stack[p + 1] = q /\ q \in 1..Len(spans)
            BY <1>7, <2>1, <2>3, <4>2, <6>1
          <6>3. SoFar(g, k) = SelfPart(g, k) + TotalPart(g, k) + SoFar(g, q)
            BY <2>3, <4>1, <5>2, <6>2 DEF ChainOf
          <6>. QED  BY <1>3, <4>1, <6>2, <6>3
        <5>. QED  BY <2>3, <3>2, <5>1, <5>2
      <4>. QED  BY <4>1, <4>2
    <3>3. p \in 1..n \/ p = n + 1
      BY <2>1, <2>3, <2>4
    <3>. QED  BY <3>1, <3>2, <3>3
  <2>5. ChainOf(g)'
    BY <2>4 DEF ChainOf
  <2>6. NamedOf(g)'
    <3>1. \A k \in OpenNamed : k \in 1..Len(spans)
      BY OpenIndices
    <3>. QED  BY <1>3, <2>2, <3>1 DEF NamedOf
  <2>. QED  BY <1>6, <2>5, <2>6
<1>9. CASE c \in SpanNames
  <2>1. call_stack' = call_stack
    BY <1>9, NamedStacks, CallClassNew DEF Opening, Classes
  <2>2. ASSUME NEW k \in OpenNamed', k \notin OpenNamed
        PROVE  k = Len(spans')
    <3>1. PICK d \in SpanNames : InStack(d, k)'
      BY <2>2, NamedStacks
    <3>2. d \in Classes /\ ~InStack(d, k)
      BY <2>2, NamedStacks DEF Classes
    <3>3. d = c
      BY <3>1, <3>2 DEF Opening, InStack
    <3>4. Stack(c) \in Seq(Nat) /\ Len(spans') \in Nat /\ Stack(c)' = Append(Stack(c), Len(spans'))
      BY <1>2, StackFacts DEF Opening
    <3>5. /\ DOMAIN Stack(c)' = 1..(Len(Stack(c)) + 1) /\ DOMAIN Stack(c) = 1..Len(Stack(c))
          /\ Len(Stack(c)) \in Nat
          /\ \A p \in 1..Len(Stack(c)) : Stack(c)'[p] = Stack(c)[p]
          /\ Stack(c)'[Len(Stack(c)) + 1] = Len(spans')
      BY <3>4, AppendIsSeq
    <3>6. PICK p \in DOMAIN Stack(c)' : Stack(c)'[p] = k
      BY <3>1, <3>3 DEF InStack
    <3>7. p \notin 1..Len(Stack(c))
      BY <3>2, <3>3, <3>5, <3>6 DEF InStack
    <3>8. p = Len(Stack(c)) + 1
      BY <3>5, <3>6, <3>7
    <3>. QED  BY <3>5, <3>6, <3>8
  <2>3. NamedOf(g)'
    BY <1>3, <1>4, <1>5, <2>2, OpenIndices DEF NamedOf
  <2>4. ChainOf(g)'
    BY <1>3, <1>7, <2>1 DEF ChainOf
  <2>. QED  BY <1>6, <2>3, <2>4
<1>. QED  BY <1>8, <1>9, ClassCases

(* A return settles what its call was due and adds it below.               *)
LEMMA GasReturn ==
  ASSUME AnalysisInv, OpenInv, NEW e \in Event, Read(e), Closing(CallClass, e),
         NEW g \in Parts, ChainOf(g), NamedOf(g), ClosedOf(g)
  PROVE  ChainOf(g)' /\ NamedOf(g)' /\ ClosedOf(g)'
<1>. DEFINE n == Len(call_stack)
<1>1. PICK top : top = call_stack[n]
  OBVIOUS
<1>2. PICK parent : parent = call_stack[n - 1]
  OBVIOUS
<1>3. /\ n \in Nat /\ n > 1
      /\ DOMAIN call_stack = 1..n
      /\ call_stack' = Front(call_stack)
      /\ top \in 1..Len(spans) /\ parent \in 1..Len(spans) /\ top # parent
      /\ top \notin OpenNamed /\ parent \notin OpenNamed
      /\ \A k \in 1..Len(spans) : SelfPart(g, k)' = SelfPart(g, k)
      /\ TotalPart(g, top)' = TotalPart(g, top) + SelfPart(g, top)
      /\ TotalPart(g, parent)' = TotalPart(g, parent) + (TotalPart(g, top) + SelfPart(g, top))
      /\ \A k \in 1..Len(spans) \ {top, parent} : TotalPart(g, k)' = TotalPart(g, k)
  BY <1>1, <1>2, ReturnGas
<1>4. /\ DOMAIN call_stack' = 1..(n - 1) /\ Len(call_stack') = n - 1
      /\ \A p \in 1..(n - 1) : call_stack'[p] = call_stack[p]
  <2>1. call_stack \in Seq(Nat) /\ call_stack # <<>>
    BY DEF Read, AnalysisInv, AnalysisTypeOK
  <2>2. /\ DOMAIN Front(call_stack) = 1..(n - 1) /\ Len(Front(call_stack)) = n - 1
        /\ \A p \in DOMAIN Front(call_stack) : Front(call_stack)[p] = call_stack[p]
    BY <2>1, FrontFacts
  <2>. QED  BY <1>3, <2>2
<1>5. Len(spans') = Len(spans) /\ Len(spans) \in Nat
  BY OpenIndices DEF Closing
<1>6. \A p, q \in 1..n : call_stack[p] = call_stack[q] => p = q
  BY <1>3 DEF AnalysisInv, Distinct
<1>7. Share(g, e) = 0
  <2>1. CallClass \in Classes
    BY DEF Classes
  <2>. QED  BY <2>1, EventClass, ChargeEvents DEF Closing
<1>8. ASSUME NEW k \in 1..Len(spans)
      PROVE  /\ SoFar(g, k) \in Nat /\ SelfPart(g, k) \in Nat /\ TotalPart(g, k) \in Nat
             /\ SoFar(g, k)' = SoFar(g, k)
  <2>1. KindOf(e)
    BY DEF KindOf, Classes
  <2>2. SoFar(g, k) \in Nat /\ SoFar(g, k)' = SoFar(g, k) + Share(g, e)
    BY <2>1, SoFarStep
  <2>. QED  BY <1>7, <2>2, PartNat
<1>. HIDE DEF n
<1>9. SoFar(g, top) = SelfPart(g, top) + TotalPart(g, top)
  <2>1. n \in DOMAIN call_stack
    BY <1>3
  <2>. QED  BY <1>1, <1>3, <2>1 DEF ChainOf, n
<1>10. SoFar(g, parent) = SelfPart(g, parent) + TotalPart(g, parent) + SoFar(g, top)
  <2>1. n - 1 \in DOMAIN call_stack /\ n - 1 < n /\ (n - 1) + 1 = n
    BY <1>3
  <2>. QED  BY <1>1, <1>2, <1>3, <2>1 DEF ChainOf, n
<1>11. ASSUME NEW p \in DOMAIN call_stack', NEW k \in 1..Len(spans'), call_stack'[p] = k
       PROVE  /\ p = Len(call_stack') => SoFar(g, k)' = SelfPart(g, k)' + TotalPart(g, k)'
              /\ \A q \in 1..Len(spans') : p < Len(call_stack') /\ call_stack'[p + 1] = q =>
                   SoFar(g, k)' = SelfPart(g, k)' + TotalPart(g, k)' + SoFar(g, q)'
  <2>1. p \in 1..n /\ p \in 1..(n - 1) /\ k \in 1..Len(spans) /\ call_stack[p] = k
    BY <1>3, <1>4, <1>5, <1>11
  <2>2. CASE p = n - 1
    <3>1. k = parent
      BY <1>2, <2>1, <2>2
    <3>2. ~(p < Len(call_stack'))
      BY <1>3, <1>4, <2>2
    <3>3. SoFar(g, parent)' = SelfPart(g, parent)' + TotalPart(g, parent)'
      <4>1. SoFar(g, parent)' = SoFar(g, parent) /\ SelfPart(g, parent)' = SelfPart(g, parent)
        BY <1>3, <1>8
      <4>2. /\ SelfPart(g, parent) \in Nat /\ TotalPart(g, parent) \in Nat
            /\ SelfPart(g, top) \in Nat /\ TotalPart(g, top) \in Nat
        BY <1>3, <1>8
      <4>. QED  BY <1>3, <1>9, <1>10, <4>1, <4>2
    <3>. QED  BY <3>1, <3>2, <3>3
  <2>3. CASE p # n - 1
    <3>1. p + 1 \in 1..(n - 1) /\ p < n /\ p # Len(call_stack') /\ p # n
      BY <1>3, <1>4, <2>1, <2>3
    <3>2. n \in 1..n /\ n - 1 \in 1..n
      BY <1>3
    <3>3. k # top /\ k # parent
      BY <1>1, <1>2, <1>6, <2>1, <2>3, <3>1, <3>2
    <3>4. ASSUME NEW q \in 1..Len(spans'), call_stack'[p + 1] = q
          PROVE  SoFar(g, k)' = SelfPart(g, k)' + TotalPart(g, k)' + SoFar(g, q)'
      <4>1. call_stack[p + 1] = q /\ q \in 1..Len(spans)
        BY <1>4, <1>5, <3>1, <3>4
      <4>2. SoFar(g, k) = SelfPart(g, k) + TotalPart(g, k) + SoFar(g, q)
        BY <1>3, <2>1, <3>1, <4>1 DEF ChainOf, n
      <4>3. TotalPart(g, k)' = TotalPart(g, k) /\ SelfPart(g, k)' = SelfPart(g, k)
        BY <1>3, <2>1, <3>3
      <4>. QED  BY <1>8, <2>1, <4>1, <4>2, <4>3
    <3>. QED  BY <3>1, <3>4
  <2>. QED  BY <2>2, <2>3
<1>12. ChainOf(g)'
  BY <1>11 DEF ChainOf
<1>13. NamedOf(g)'
  <2>1. OpenNamed' = OpenNamed
    <3>1. \A m \in SpanNames : Stack(m)' = Stack(m)
      BY CallClassNew DEF Closing, Classes
    <3>. QED  BY <3>1, NamedStacks
  <2>2. \A k \in 1..Len(spans) : k \in OpenNamed => k # top /\ k # parent
    BY <1>3
  <2>. QED  BY <1>3, <1>5, <1>8, <2>1, <2>2 DEF NamedOf
<1>14. ClosedOf(g)'
  <2>1. SUFFICES ASSUME NEW c \in Classes, NEW k \in 2..Len(spans'), Settled(c, k)'
                 PROVE  TotalPart(g, k)' = Due(g, c, k)'
    BY DEF ClosedOf
  <2>2. CallClass \in Classes /\ KindOf(e)
    BY DEF KindOf, Classes
  <2>3. /\ k \in 2..Len(spans)
        /\ \/ Settled(c, k) /\ Due(g, c, k)' = Due(g, c, k)
           \/ /\ Closing(c, e) /\ k = Stack(c)[Len(Stack(c))]
              /\ Due(g, c, k)' = SoFar(g, k)'
    BY <2>1, <2>2, SettledStep
  <2>4. k \in 1..Len(spans)
    BY <1>5, <2>3
  <2>5. ASSUME Closing(c, e), k = Stack(c)[Len(Stack(c))], Due(g, c, k)' = SoFar(g, k)'
        PROVE  TotalPart(g, k)' = Due(g, c, k)'
    <3>1. c = CallClass
      BY <2>2, <2>5, EventClass DEF Closing
    <3>2. k = top
      BY <1>1, <2>5, <3>1, ClassCases DEF n
    <3>3. SelfPart(g, top) \in Nat /\ TotalPart(g, top) \in Nat /\ SoFar(g, top)' = SoFar(g, top)
      BY <1>3, <1>8
    <3>. QED  BY <1>3, <1>9, <2>5, <3>2, <3>3
  <2>6. ASSUME Settled(c, k), Due(g, c, k)' = Due(g, c, k)
        PROVE  TotalPart(g, k)' = Due(g, c, k)'
    <3>1. TotalPart(g, k) = Due(g, c, k)
      BY <2>3, <2>6 DEF ClosedOf
    <3>2. k # top /\ k # parent
      <4>1. SUFFICES ASSUME k = top \/ k = parent PROVE FALSE
        OBVIOUS
      <4>2. InStack(CallClass, k)
        <5>1. n \in DOMAIN call_stack /\ n - 1 \in DOMAIN call_stack
          BY <1>3
        <5>. QED  BY <1>1, <1>2, <4>1, <5>1, ClassCases DEF InStack
      <4>3. OfClass(CallClass, k)
        <5>. PICK p \in DOMAIN Stack(CallClass) : Stack(CallClass)[p] = k
          BY <4>2 DEF InStack
        <5>. QED  BY <2>2, <2>3 DEF OpenInv, ClassesInv, Unclosed
      <4>4. c = CallClass
        <5>1. trace[OpeningOf(trace, k)] \in Event
          <6>1. OpeningOf(trace, k) \in DOMAIN trace /\ trace \in Seq(Event)
            BY <2>3 DEF OpenInv, OpeningsInv, PositionsIn, AnalysisInv, AnalysisTypeOK
          <6>. QED  BY <6>1, LenProperties, ElementOfSeq
        <5>. QED  BY <2>2, <2>6, <4>3, <5>1, EventClass DEF OfClass, Settled
      <4>. QED  BY <2>6, <4>2, <4>4 DEF Settled
    <3>. QED  BY <1>3, <2>4, <2>6, <3>1, <3>2
  <2>. QED  BY <2>3, <2>5, <2>6
<1>. QED  BY <1>12, <1>13, <1>14

(* The end of a named span settles what it was due.                        *)
LEMMA GasSpanEnd ==
  ASSUME AnalysisInv, OpenInv, NEW e \in Event, Read(e), NEW c \in SpanNames, Closing(c, e),
         NEW g \in Parts, ChainOf(g), NamedOf(g), ClosedOf(g)
  PROVE  ChainOf(g)' /\ NamedOf(g)' /\ ClosedOf(g)'
<1>. DEFINE n == Len(named_spans[c])
<1>1. PICK top : top = named_spans[c][n]
  OBVIOUS
<1>2. /\ top \in 1..Len(spans) /\ top \in OpenNamed /\ call_stack' = call_stack
      /\ \A k \in 1..Len(spans) : SelfPart(g, k)' = SelfPart(g, k)
      /\ TotalPart(g, top)' = TotalPart(g, top) + SelfPart(g, top)
      /\ \A k \in 1..Len(spans) \ {top} : TotalPart(g, k)' = TotalPart(g, k)
  BY <1>1, SpanEndGas
<1>3. c \in Classes /\ KindOf(e) /\ Stack(c) = named_spans[c] /\ Stack(c)' = named_spans'[c]
  <2>1. c \in Classes
    BY DEF Classes
  <2>. QED  BY <2>1 DEF KindOf, Stack
<1>4. Len(spans') = Len(spans) /\ Len(spans) \in Nat
  BY OpenIndices DEF Closing
<1>5. Share(g, e) = 0
  BY <1>3, EventClass, ChargeEvents DEF Closing
<1>6. ASSUME NEW k \in 1..Len(spans)
      PROVE  /\ SoFar(g, k) \in Nat /\ SelfPart(g, k) \in Nat /\ TotalPart(g, k) \in Nat
             /\ SoFar(g, k)' = SoFar(g, k)
  <2>1. SoFar(g, k) \in Nat /\ SoFar(g, k)' = SoFar(g, k) + Share(g, e)
    BY <1>3, SoFarStep
  <2>. QED  BY <1>5, <2>1, PartNat
<1>7. SelfPart(g, top) = SoFar(g, top) /\ TotalPart(g, top) = 0
  BY <1>2 DEF NamedOf
<1>8. TotalPart(g, top)' = SoFar(g, top)'
  BY <1>2, <1>6, <1>7
<1>9. ChainOf(g)'
  <2>1. \A p \in DOMAIN call_stack : call_stack[p] \in 1..Len(spans) /\ call_stack[p] # top
    BY <1>2, OpenIndices
  <2>2. ASSUME NEW p \in DOMAIN call_stack, NEW k \in 1..Len(spans), call_stack[p] = k
        PROVE  /\ p = Len(call_stack) => SoFar(g, k)' = SelfPart(g, k)' + TotalPart(g, k)'
               /\ \A q \in 1..Len(spans) : p < Len(call_stack) /\ call_stack[p + 1] = q =>
                    SoFar(g, k)' = SelfPart(g, k)' + TotalPart(g, k)' + SoFar(g, q)'
    <3>1. SoFar(g, k)' = SoFar(g, k) /\ SelfPart(g, k)' = SelfPart(g, k) /\ TotalPart(g, k)' = TotalPart(g, k)
      BY <1>2, <1>6, <2>1, <2>2
    <3>. QED  BY <1>6, <2>2, <3>1 DEF ChainOf
  <2>. QED  BY <1>2, <1>4, <2>2 DEF ChainOf
<1>10. ASSUME NEW k \in OpenNamed'
       PROVE  k \in OpenNamed /\ k # top
  <2>1. PICK d \in SpanNames : InStack(d, k)'
    BY NamedStacks
  <2>2. PICK p \in DOMAIN Stack(d)' : Stack(d)'[p] = k
    BY <2>1 DEF InStack
  <2>3. d \in Classes
    BY DEF Classes
  <2>4. /\ Stack(c) \in Seq(Nat) /\ Stack(c) # <<>> /\ Stack(c)' = Front(Stack(c))
        /\ DOMAIN Stack(d) = 1..Len(Stack(d))
        /\ \A q \in DOMAIN Stack(c), r \in DOMAIN Stack(d) :
              Stack(c)[q] = Stack(d)[r] => c = d /\ q = r
    BY <1>3, <2>3, StackFacts DEF Closing
  <2>5. /\ n \in Nat \ {0} /\ DOMAIN Stack(c) = 1..n /\ DOMAIN Stack(c)' = 1..(n - 1)
        /\ \A q \in DOMAIN Stack(c)' : q \in DOMAIN Stack(c) /\ Stack(c)'[q] = Stack(c)[q]
    <3>1. /\ Len(Stack(c)) \in Nat \ {0} /\ DOMAIN Stack(c) = 1..Len(Stack(c))
          /\ DOMAIN Front(Stack(c)) = 1..(Len(Stack(c)) - 1)
          /\ \A q \in DOMAIN Front(Stack(c)) :
               q \in DOMAIN Stack(c) /\ Front(Stack(c))[q] = Stack(c)[q]
      BY <2>4, FrontFacts
    <3>2. n = Len(Stack(c))
      BY <1>3
    <3>. HIDE DEF n
    <3>. QED  BY <2>4, <3>1, <3>2
  <2>6. p \in DOMAIN Stack(d) /\ Stack(d)[p] = k
    BY <2>2, <2>3, <2>5 DEF Closing
  <2>. HIDE DEF n
  <2>7. n \in DOMAIN Stack(c) /\ n \notin DOMAIN Stack(c)'
    BY <2>5
  <2>8. k # top
    BY <1>1, <1>3, <2>2, <2>4, <2>6, <2>7 DEF n
  <2>. QED  BY <2>6, <2>8, NamedStacks DEF InStack
<1>11. NamedOf(g)'
  BY <1>2, <1>4, <1>6, <1>10 DEF NamedOf
<1>12. ClosedOf(g)'
  <2>1. SUFFICES ASSUME NEW d \in Classes, NEW k \in 2..Len(spans'), Settled(d, k)'
                 PROVE  TotalPart(g, k)' = Due(g, d, k)'
    BY DEF ClosedOf
  <2>2. /\ k \in 2..Len(spans)
        /\ \/ Settled(d, k) /\ Due(g, d, k)' = Due(g, d, k)
           \/ /\ Closing(d, e) /\ k = Stack(d)[Len(Stack(d))]
              /\ Due(g, d, k)' = SoFar(g, k)'
    BY <1>3, <2>1, SettledStep
  <2>3. k \in 1..Len(spans)
    BY <1>4, <2>2
  <2>4. ASSUME Closing(d, e), k = Stack(d)[Len(Stack(d))], Due(g, d, k)' = SoFar(g, k)'
        PROVE  TotalPart(g, k)' = Due(g, d, k)'
    <3>1. d = c
      BY <1>3, <2>4, EventClass DEF Closing
    <3>2. k = top
      BY <1>1, <1>3, <2>4, <3>1
    <3>. QED  BY <1>8, <2>4, <3>2
  <2>5. ASSUME Settled(d, k), Due(g, d, k)' = Due(g, d, k)
        PROVE  TotalPart(g, k)' = Due(g, d, k)'
    <3>1. TotalPart(g, k) = Due(g, d, k)
      BY <2>2, <2>5 DEF ClosedOf
    <3>2. k # top
      <4>1. SUFFICES ASSUME k = top PROVE FALSE
        OBVIOUS
      <4>2. Len(Stack(c)) \in DOMAIN Stack(c) /\ Stack(c)[Len(Stack(c))] = k
        <5>1. Stack(c) \in Seq(Nat) /\ Stack(c) # <<>>
          BY <1>3, StackFacts DEF Closing
        <5>2. Len(Stack(c)) \in DOMAIN Stack(c)
          BY <5>1, FrontFacts
        <5>. QED  BY <1>1, <1>3, <4>1, <5>2
      <4>3. OfClass(c, k)
        BY <1>3, <2>2, <4>2 DEF OpenInv, ClassesInv, Unclosed
      <4>4. d = c
        <5>1. trace[OpeningOf(trace, k)] \in Event
          <6>1. OpeningOf(trace, k) \in DOMAIN trace /\ trace \in Seq(Event)
            BY <2>2 DEF OpenInv, OpeningsInv, PositionsIn, AnalysisInv, AnalysisTypeOK
          <6>. QED  BY <6>1, LenProperties, ElementOfSeq
        <5>. QED  BY <1>3, <2>5, <4>3, <5>1, EventClass DEF OfClass, Settled
      <4>. QED  BY <2>5, <4>2, <4>4 DEF Settled, InStack
    <3>. QED  BY <1>2, <2>3, <2>5, <3>1, <3>2
  <2>. QED  BY <2>2, <2>4, <2>5
<1>. QED  BY <1>9, <1>11, <1>12

(* The end of the analysis settles the root.                               *)
LEMMA GasQuiet ==
  ASSUME AnalysisInv, OpenInv, Quiet, NEW g \in Parts,
         ChainOf(g), NamedOf(g), ClosedOf(g), RootOf(g)
  PROVE  ChainOf(g)' /\ NamedOf(g)' /\ ClosedOf(g)' /\ RootOf(g)'
<1>1. trace' = trace /\ Len(spans') = Len(spans) /\ Len(spans) \in Nat
  BY OpenIndices DEF Quiet
<1>2. \A k : SoFar(g, k)' = SoFar(g, k)
  BY <1>1 DEF SoFar, From
<1>3. \A c, k : OfClass(c, k)' = OfClass(c, k) /\ Due(g, c, k)' = Due(g, c, k)
  BY <1>1 DEF OfClass, Due, MatchesOf
<1>4. CASE UNCHANGED <<spans, call_stack, named_spans>> /\ status' \in {status, "panicked"}
  <2>1. \A k : SelfPart(g, k)' = SelfPart(g, k) /\ TotalPart(g, k)' = TotalPart(g, k)
    BY <1>4 DEF SelfPart, TotalPart
  <2>2. OpenNamed' = OpenNamed
    BY <1>4 DEF OpenNamed, ToSet
  <2>3. \A c, k : InStack(c, k)' = InStack(c, k)
    BY <1>4 DEF InStack, Stack
  <2>4. ChainOf(g)'
    BY <1>2, <1>4, <2>1 DEF ChainOf
  <2>5. NamedOf(g)'
    BY <1>2, <1>4, <2>1, <2>2 DEF NamedOf
  <2>6. ClosedOf(g)'
    BY <1>1, <1>3, <2>1, <2>3 DEF ClosedOf, Settled
  <2>7. RootOf(g)'
    BY <1>1, <1>4, <2>1 DEF RootOf
  <2>. QED  BY <2>4, <2>5, <2>6, <2>7
<1>5. CASE Finish
  <2>1. /\ status = "reading" /\ Len(call_stack) = 1 /\ named_spans' = named_spans
        /\ call_stack' = Front(call_stack)
        /\ spans' = [spans EXCEPT ![Last(call_stack)] = AddSelfToTotalGas(@)]
    BY <1>5 DEF Finish
  <2>2. call_stack \in Seq(Nat) /\ call_stack # <<>>
    BY <2>1 DEF AnalysisInv, AnalysisTypeOK
  <2>3. /\ DOMAIN call_stack = 1..1 /\ call_stack[1] = 1 /\ Last(call_stack) = 1
        /\ DOMAIN call_stack' = 1..0
    <3>1. DOMAIN call_stack = 1..1 /\ DOMAIN call_stack' = 1..0
      <4>1. DOMAIN call_stack = 1..Len(call_stack) /\ DOMAIN Front(call_stack) = 1..(Len(call_stack) - 1)
        BY <2>2, FrontFacts
      <4>. QED  BY <2>1, <4>1
    <3>2. call_stack[1] = 1
      BY <2>2 DEF OpenInv, RootInv, RootFirst
    <3>. QED  BY <2>1, <3>1, <3>2 DEF Last
  <2>4. 1 \in 1..Len(spans) /\ 1 \in DOMAIN spans /\ spans[1] \in Span /\ DOMAIN spans = 1..Len(spans)
    BY <2>3, OpenIndices
  <2>5. /\ spans'[1] = AddSelfToTotalGas(spans[1])
        /\ \A k \in 1..Len(spans) : k # 1 => spans'[k] = spans[k]
    BY <2>1, <2>3, <2>4
  <2>6. TotalPart(g, 1)' = TotalPart(g, 1) + SelfPart(g, 1)
    <3>1. Part(AddSelfToTotalGas(spans[1]).total, g) = Part(spans[1].total, g) + Part(spans[1].self, g)
      BY <2>4, AddedParts
    <3>. QED  BY <2>5, <3>1 DEF SelfPart, TotalPart
  <2>7. \A k \in 1..Len(spans) : k # 1 =>
          SelfPart(g, k)' = SelfPart(g, k) /\ TotalPart(g, k)' = TotalPart(g, k)
    BY <2>5 DEF SelfPart, TotalPart
  <2>8. RootOf(g)'
    <3>1. SoFar(g, 1) = SelfPart(g, 1) + TotalPart(g, 1)
      BY <2>1, <2>3, <2>4 DEF ChainOf
    <3>2. SelfPart(g, 1) \in Nat /\ TotalPart(g, 1) \in Nat
      BY <2>4, PartNat
    <3>3. SoFar(g, 1) = Within(trace, g, 1, Len(trace))
      BY DEF SoFar, From
    <3>4. TotalPart(g, 1)' = Within(trace, g, 1, Len(trace))
      BY <2>6, <3>1, <3>2, <3>3
    <3>. QED  BY <1>1, <3>4 DEF RootOf
  <2>9. ChainOf(g)'
    BY <2>3 DEF ChainOf
  <2>10. NamedOf(g)'
    <3>1. OpenNamed' = OpenNamed /\ 1 \notin OpenNamed
      BY <2>1 DEF OpenNamed, ToSet, OpenInv, RootInv, RootFirst
    <3>. QED  BY <1>1, <1>2, <2>7, <3>1 DEF NamedOf
  <2>11. ClosedOf(g)'
    <3>1. ASSUME NEW c \in Classes, NEW k \in 2..Len(spans), Settled(c, k)'
          PROVE  TotalPart(g, k)' = Due(g, c, k)'
      <4>1. k # 1 /\ k \in 1..Len(spans)
        BY <1>1
      <4>2. ~InStack(c, k)
        <5>1. SUFFICES ASSUME InStack(c, k) PROVE FALSE
          OBVIOUS
        <5>2. c # CallClass
          BY <2>3, <4>1, <5>1, ClassCases DEF InStack
        <5>3. Stack(c)' = Stack(c)
          BY <2>1, <5>2 DEF Stack, Classes
        <5>. QED  BY <3>1, <5>1, <5>3 DEF InStack, Settled
      <4>3. Settled(c, k)
        BY <1>3, <3>1, <4>2 DEF Settled
      <4>. QED  BY <1>3, <2>7, <4>1, <4>3 DEF ClosedOf
    <3>. QED  BY <1>1, <3>1 DEF ClosedOf
  <2>. QED  BY <2>8, <2>9, <2>10, <2>11
<1>. QED  BY <1>4, <1>5 DEF Quiet

(* All of it, after any step.                                              *)
LEMMA GasNext ==
  ASSUME AnalysisInv, OpenInv, GasInv, [AnalysisNext]_analysisVars
  PROVE  GasInv'
<1>1. SUFFICES ASSUME NEW g \in Parts
               PROVE  (ChainOf(g) /\ NamedOf(g) /\ ClosedOf(g) /\ RootOf(g))'
  BY DEF GasInv, Parts, SumPart
<1>2. ChainOf(g) /\ NamedOf(g) /\ ClosedOf(g) /\ RootOf(g)
  BY DEF GasInv
<1>3. RootFirst
  BY DEF OpenInv, RootInv
<1>4. CASE Quiet
  BY <1>2, <1>4, GasQuiet
<1>5. ASSUME NEW e \in Event, Read(e),
             Neutral(e) \/ \E c \in Classes : Opening(c, e) \/ Closing(c, e) \/ Refusing(c, e)
      PROVE  (ChainOf(g) /\ NamedOf(g) /\ ClosedOf(g) /\ RootOf(g))'
  <2>1. RootOf(g)'
    BY <1>5, EventsGoOn DEF RootOf
  <2>2. ASSUME NEW c \in Classes, Closing(c, e)
        PROVE  ChainOf(g)' /\ NamedOf(g)' /\ ClosedOf(g)'
    BY <1>2, <1>5, <2>2, GasReturn, GasSpanEnd, ClassCases
  <2>. QED  BY <1>2, <1>5, <2>1, <2>2, GasNeutral, GasOpening, GasRefusing
<1>. QED  BY <1>3, <1>4, <1>5, StepKinds

(* The root is open and nothing was read.                                  *)
LEMMA FirstStateInv ==
  ASSUME AnalysisInit
  PROVE  OpenInv /\ GasInv
<1>1. /\ spans = <<NewSpan>> /\ Len(spans) = 1 /\ spans[1] = NewSpan
      /\ call_stack = <<1>> /\ DOMAIN call_stack = {1} /\ Len(call_stack) = 1 /\ call_stack[1] = 1
      /\ trace = <<>> /\ trace \in Seq(Event) /\ Len(trace) = 0 /\ DOMAIN trace = {}
      /\ status = "reading"
      /\ \A n \in SpanNames : named_spans[n] = <<>>
  BY EmptySeq DEF AnalysisInit
<1>2. OpenNamed = {} /\ \A n \in SpanNames : Stack(n) = <<>>
  BY <1>1 DEF OpenNamed, ToSet, Stack
<1>3. 2..Len(spans) = {} /\ 1..Len(spans) = {1}
  BY <1>1
<1>4. \A S, from, to : PositionsIn(trace, S, from, to) = {}
  BY <1>1 DEF PositionsIn
<1>5. \A S, from, to : CountIn(trace, S, from, to) = 0
  BY <1>4, FS_EmptySet DEF CountIn
<1>6. OpenInv
  <2>1. RootInv
    BY <1>1, <1>2 DEF RootInv, RootFirst
  <2>2. OpeningsInv
    BY <1>1, <1>3, <1>5 DEF OpeningsInv
  <2>3. ClassesInv
    BY <1>3 DEF ClassesInv, Unclosed, Closed
  <2>. QED  BY <2>1, <2>2, <2>3 DEF OpenInv
<1>7. ASSUME NEW g \in Parts
      PROVE  ChainOf(g) /\ NamedOf(g) /\ ClosedOf(g) /\ RootOf(g)
  <2>1. SoFar(g, 1) = 0
    BY <1>4, SumInEmpty DEF SoFar, Within
  <2>2. SelfPart(g, 1) = 0 /\ TotalPart(g, 1) = 0
    BY <1>1, PartFacts DEF SelfPart, TotalPart, NewSpan
  <2>3. ChainOf(g)
    BY <1>1, <1>3, <2>1, <2>2 DEF ChainOf
  <2>. QED  BY <1>1, <1>2, <1>3, <2>3 DEF NamedOf, ClosedOf, RootOf
<1>. QED  BY <1>6, <1>7 DEF GasInv

(* What the reference definitions say of the trace.                        *)
LEMMA ReferenceTerms ==
  /\ \A k : OpenedAt(k) = OpeningOf(trace, k)
  /\ \A n \in GasNames : \A from, to : GasWithin(n, from, to) = Within(trace, n, from, to)
  /\ \A from, to : SumOf(UNION {Positions(Charges(n), from, to) : n \in GasNames})
                     = Within(trace, SumPart, from, to)
  /\ \A c \in Classes : \A o : trace[o] \in Opens(c) => Matched(o) = MatchingIn(trace, Opens(c), Closes(c), o)
<1>1. \A S, from, to : /\ Positions(S, from, to) = PositionsIn(trace, S, from, to)
                       /\ Count(S, from, to) = CountIn(trace, S, from, to)
  BY CountsOfTrace
<1>2. \A k : OpenedAt(k) = OpeningOf(trace, k)
  BY <1>1 DEF OpenedAt, OpeningOf
<1>3. \A n \in GasNames : \A from, to : GasWithin(n, from, to) = Within(trace, n, from, to)
  BY <1>1, PartCases DEF GasWithin, SumOf, SumIn, Within
<1>4. ASSUME NEW from, NEW to
      PROVE  SumOf(UNION {Positions(Charges(n), from, to) : n \in GasNames})
               = Within(trace, SumPart, from, to)
  <2>1. UNION {Positions(Charges(n), from, to) : n \in GasNames}
          = PositionsIn(trace, UNION {Charges(n) : n \in GasNames}, from, to)
    BY DEF Positions, PositionsIn
  <2>. QED  BY <2>1, PartCases DEF SumOf, SumIn, Within
<1>5. \A opens, closes, o : MatchIn(opens, closes, o) = MatchingIn(trace, opens, closes, o)
  BY <1>1 DEF MatchIn, MatchingIn
<1>6. ASSUME NEW c \in Classes, NEW o, trace[o] \in Opens(c)
      PROVE  Matched(o) = MatchingIn(trace, Opens(c), Closes(c), o)
  <2>1. CASE c = CallClass
    BY <1>5, <1>6, <2>1, ClassCases DEF Matched
  <2>2. CASE c \in SpanNames
    <3>1. trace[o].name = c /\ trace[o] \notin Calls
      BY <1>6, <2>2, ClassCases DEF Starts, Calls
    <3>. QED  BY <1>5, <2>2, <3>1, ClassCases DEF Matched
  <2>. QED  BY <2>1, <2>2, ClassCases
<1>. QED  BY <1>2, <1>3, <1>4, <1>6

(* Settled totals are those of the reference.                              *)
LEMMA TotalsOfInv ==
  ASSUME AnalysisInv, OpenInv, GasInv
  PROVE  TotalsExact
<1>1. /\ \A n \in GasNames : \A k : TotalPart(n, k) = spans[k].total.by_name[n]
      /\ \A k : TotalPart(SumPart, k) = spans[k].total.sum
  BY PartCases DEF TotalPart
<1>2. ASSUME status = "done"
      PROVE  /\ \A n \in GasNames : spans[1].total.by_name[n] = GasWithin(n, 1, Len(trace))
             /\ spans[1].total.sum =
                  SumOf(UNION {Positions(Charges(n), 1, Len(trace)) : n \in GasNames})
  BY <1>1, <1>2, PartCases, ReferenceTerms DEF GasInv, RootOf
<1>3. ASSUME NEW k \in 2..Len(spans), Matched(OpenedAt(k)) # {}
      PROVE  /\ \A n \in GasNames :
                  spans[k].total.by_name[n] = GasWithin(n, OpenedAt(k), Min(Matched(OpenedAt(k))))
             /\ spans[k].total.sum =
                  SumOf(UNION {Positions(Charges(n), OpenedAt(k), Min(Matched(OpenedAt(k)))) : n \in GasNames})
  <2>. DEFINE o == OpeningOf(trace, k)
  <2>1. PICK c \in Classes : trace[o] \in Opens(c)
    <3>1. trace[o] \in Openings
      BY DEF OpenInv, OpeningsInv, PositionsIn
    <3>. QED  BY <3>1, OpeningClass
  <2>2. OpenedAt(k) = o /\ Matched(o) = MatchesOf(c, k)
    BY <2>1, ReferenceTerms DEF MatchesOf
  <2>3. OfClass(c, k) /\ MatchesOf(c, k) # {}
    BY <1>3, <2>1, <2>2 DEF OfClass
  <2>4. Settled(c, k)
    BY <2>3 DEF Settled, InStack, OpenInv, ClassesInv, Unclosed
  <2>5. \A g \in Parts : TotalPart(g, k) = Within(trace, g, o, Min(MatchesOf(c, k)))
    BY <2>4 DEF GasInv, ClosedOf, Due
  <2>. HIDE DEF o
  <2>. QED  BY <1>1, <2>2, <2>5, PartCases, ReferenceTerms
<1>. QED  BY <1>2, <1>3 DEF TotalsExact

-----------------------------------------------------------------------------
(* What a call is charged itself.                                          *)

(* Calls open just after a position, the innermost of them, and the        *)
(* charges made directly by the call opened at `o`, in any trace.          *)
CallsOpenIn(t, j) ==
  {o \in PositionsIn(t, Calls, 1, j) : \A c \in MatchingIn(t, Calls, Returns, o) : c > j}
Innermost(t, j) == Max(CallsOpenIn(t, j) \cup {0})
ChargedIn(t, g, o) == {j \in PositionsIn(t, ChargesOf(g), 1, Len(t)) : Innermost(t, j) = o}

(* Where a span was opened, and which spans are calls.                     *)
At(k) == IF k = 1 THEN 0 ELSE OpeningOf(trace, k)
IsCall(k) == k = 1 \/ OfClass(CallClass, k)

(* Calls were opened in the order of the stack.                            *)
Increasing == \A p, q \in DOMAIN call_stack : p < q => call_stack[p] < call_stack[q]

(* The own gas of a call is what it was charged as the innermost one.      *)
SelfOf(g) ==
  \A k \in 1..Len(spans) : IsCall(k) => SelfPart(g, k) = SumIn(trace, ChargedIn(trace, g, At(k)))

(* Every charge has an innermost call, at its position or before.          *)
ChargesInner ==
  \A g \in Parts : \A j \in PositionsIn(trace, ChargesOf(g), 1, Len(trace)) : Innermost(trace, j) \in 0..Len(trace)

SelfInv == Increasing /\ ChargesInner /\ \A g \in Parts : SelfOf(g)

(* What is open at a position is settled by the events up to it.           *)
LEMMA InnermostKept ==
  ASSUME NEW E, NEW t \in Seq(E), NEW e \in E, NEW j \in 1..Len(t)
  PROVE  Innermost(Append(t, e), j) = Innermost(t, j)
<1>. DEFINE u == Append(t, e)
            n == Len(t)
<1>1. n \in Nat /\ DOMAIN t = 1..n /\ j \in Nat /\ j <= n /\ ~(n + 1 <= j)
  BY LenProperties
<1>2. PositionsIn(u, Calls, 1, j) = PositionsIn(t, Calls, 1, j)
  BY <1>1, PositionsKept
<1>3. ASSUME NEW o \in PositionsIn(t, Calls, 1, j)
      PROVE  (\A c \in MatchingIn(u, Calls, Returns, o) : c > j)
               <=> (\A c \in MatchingIn(t, Calls, Returns, o) : c > j)
  <2>1. o \in Nat /\ o <= Len(t) + 1
    BY <1>1 DEF PositionsIn
  <2>2. /\ MatchingIn(t, Calls, Returns, o) \subseteq 1..n
        /\ MatchingIn(u, Calls, Returns, o) \subseteq 1..(n + 1)
        /\ \A i \in 1..n : i \in MatchingIn(u, Calls, Returns, o)
                           <=> i \in MatchingIn(t, Calls, Returns, o)
    BY <2>1, MatchingAppend
  <2>. HIDE DEF u, n
  <2>3. \A i \in 1..(n + 1) : i \in 1..n \/ i > j
    BY <1>1
  <2>4. 1..n \subseteq 1..(n + 1)
    BY <1>1
  <2>. QED  BY <2>2, <2>3, <2>4
<1>. HIDE DEF u
<1>4. CallsOpenIn(u, j) = CallsOpenIn(t, j)
  BY <1>2, <1>3 DEF CallsOpenIn
<1>. QED  BY <1>4 DEF Innermost, u

(* An opening is that of one of the spans, and of a later span if later.   *)
LEMMA OpeningOrder ==
  ASSUME AnalysisInv, OpenInv
  PROVE  /\ \A i, k \in 2..Len(spans) : i < k => OpeningOf(trace, i) < OpeningOf(trace, k)
         /\ \A o \in PositionsIn(trace, Openings, 1, Len(trace)) :
              \E k \in 2..Len(spans) : OpeningOf(trace, k) = o
<1>1. trace \in Seq(Event) /\ Len(trace) \in Nat /\ DOMAIN trace = 1..Len(trace) /\ Len(spans) \in Nat
  BY LenProperties, OpenIndices DEF AnalysisInv, AnalysisTypeOK
<1>2. ASSUME NEW i \in 2..Len(spans), NEW k \in 2..Len(spans), i < k
      PROVE  OpeningOf(trace, i) < OpeningOf(trace, k)
  <2>. DEFINE a == OpeningOf(trace, i)
              b == OpeningOf(trace, k)
  <2>1. /\ a \in DOMAIN trace /\ trace[a] \in Openings /\ CountIn(trace, Openings, 1, a) = i - 1
        /\ b \in DOMAIN trace /\ trace[b] \in Openings /\ CountIn(trace, Openings, 1, b) = k - 1
    BY DEF OpenInv, OpeningsInv, PositionsIn
  <2>. HIDE DEF a, b
  <2>2. i \in Nat /\ k \in Nat /\ ~(k - 1 < i - 1) /\ i - 1 # k - 1
    BY <1>1, <1>2
  <2>3. a # b
    BY <2>1, <2>2
  <2>4. ~(b < a)
    BY <1>1, <2>1, <2>2, CountGrows
  <2>5. a \in Nat /\ b \in Nat
    BY <1>1, <2>1
  <2>. QED  BY <2>3, <2>4, <2>5 DEF a, b
<1>3. ASSUME NEW o \in PositionsIn(trace, Openings, 1, Len(trace))
      PROVE  \E k \in 2..Len(spans) : OpeningOf(trace, k) = o
  <2>. DEFINE A == PositionsIn(trace, Openings, 1, o)
              B == PositionsIn(trace, Openings, 1, Len(trace))
              k == CountIn(trace, Openings, 1, o) + 1
  <2>1. o \in 1..Len(trace) /\ trace[o] \in Openings
    BY <1>1 DEF PositionsIn
  <2>2. IsFiniteSet(A) /\ Cardinality(A) \in Nat /\ IsFiniteSet(B) /\ Cardinality(B) \in Nat
    BY <1>1, PositionsFinite DEF CountIn
  <2>3. A \subseteq B /\ o \in A
    <3>1. \A j \in 1..Len(trace) : j <= Len(trace)
      BY <1>1
    <3>2. 1 <= o /\ o <= o
      BY <1>1, <2>1
    <3>. QED  BY <1>1, <2>1, <3>1, <3>2 DEF PositionsIn
  <2>4. Cardinality(B) + 1 = Len(spans)
    BY DEF OpenInv, OpeningsInv, CountIn
  <2>. HIDE DEF A, B
  <2>5. Cardinality(A) <= Cardinality(B)
    BY <2>2, <2>3, FS_Subset
  <2>6. Cardinality(A) # 0
    BY <2>2, <2>3, FS_EmptySet
  <2>7. k = Cardinality(A) + 1
    BY DEF A, CountIn
  <2>8. k \in 2..Len(spans)
    BY <1>1, <2>2, <2>4, <2>5, <2>6, <2>7
  <2>9. CountIn(trace, Openings, 1, o) = k - 1
    BY <2>2, <2>7 DEF CountIn, A
  <2>. HIDE DEF k
  <2>10. OpeningOf(trace, k) = o
    BY <1>1, <2>9, OpeningIs
  <2>. QED  BY <2>8, <2>10
<1>. QED  BY <1>2, <1>3

(* Spans start at different positions, the root before all.                *)
LEMMA AtFacts ==
  ASSUME AnalysisInv, OpenInv
  PROVE  /\ \A k \in 1..Len(spans) : At(k) \in 0..Len(trace)
         /\ \A i, k \in 1..Len(spans) : i < k => At(i) < At(k)
         /\ \A i, k \in 1..Len(spans) : At(i) = At(k) => i = k
<1>1. Len(trace) \in Nat /\ DOMAIN trace = 1..Len(trace) /\ Len(spans) \in Nat
  BY LenProperties, OpenIndices DEF AnalysisInv, AnalysisTypeOK
<1>2. \A k \in 2..Len(spans) : At(k) = OpeningOf(trace, k) /\ OpeningOf(trace, k) \in 1..Len(trace)
  BY <1>1 DEF At, OpenInv, OpeningsInv, PositionsIn
<1>3. At(1) = 0
  BY DEF At
<1>4. \A k \in 1..Len(spans) : k = 1 \/ k \in 2..Len(spans)
  BY <1>1
<1>5. \A k \in 1..Len(spans) : At(k) \in 0..Len(trace)
  BY <1>1, <1>2, <1>3, <1>4
<1>6. ASSUME NEW i \in 1..Len(spans), NEW k \in 1..Len(spans), i < k
      PROVE  At(i) < At(k)
  <2>1. k \in 2..Len(spans)
    BY <1>1, <1>6
  <2>2. CASE i = 1
    BY <1>1, <1>2, <1>3, <2>1, <2>2
  <2>3. CASE i \in 2..Len(spans)
    BY <1>2, <1>6, <2>1, <2>3, OpeningOrder
  <2>. QED  BY <1>4, <2>2, <2>3
<1>7. ASSUME NEW i \in 1..Len(spans), NEW k \in 1..Len(spans), At(i) = At(k)
      PROVE  i = k
  <2>1. ~(i < k) /\ ~(k < i)
    BY <1>1, <1>5, <1>6, <1>7
  <2>. QED  BY <1>1, <2>1
<1>. QED  BY <1>5, <1>6, <1>7

(* A charge falls to the call on top of the stack.                         *)
LEMMA InnermostNow ==
  ASSUME AnalysisInv, OpenInv, Increasing, NEW e \in Event, Read(e), Neutral(e)
  PROVE  Innermost(trace', Len(trace')) = At(Last(call_stack))
<1>. DEFINE n == Len(trace)
            S == CallsOpenIn(trace', n + 1) \cup {0}
            m == At(Last(call_stack))
<1>1. trace \in Seq(Event) /\ trace' = Append(trace, e)
  BY DEF Read, AnalysisInv, AnalysisTypeOK
<1>2. n \in Nat /\ Len(trace') = n + 1 /\ DOMAIN trace = 1..n
  BY <1>1, AppendIsSeq
<1>3. CallClass \in Classes /\ Opens(CallClass) = Calls /\ Closes(CallClass) = Returns
      /\ Stack(CallClass) = call_stack
  BY ClassCases DEF Classes
<1>4. e \notin Calls /\ e \notin Returns
  BY <1>3 DEF Neutral
<1>5. PositionsIn(trace', Calls, 1, n + 1) = PositionsIn(trace, Calls, 1, n)
  <2>1. 1 <= Len(trace) + 1
    BY <1>2
  <2>. QED  BY <1>1, <1>4, <2>1, PositionsAdded
<1>6. ASSUME NEW o \in PositionsIn(trace, Calls, 1, n)
      PROVE  (\A c \in MatchingIn(trace', Calls, Returns, o) : c > n + 1)
               <=> IsEmpty(MatchingIn(trace, Calls, Returns, o))
  <2>1. o \in Nat /\ o <= Len(trace) + 1
    BY <1>2 DEF PositionsIn
  <2>2. /\ MatchingIn(trace, Calls, Returns, o) \subseteq 1..n
        /\ MatchingIn(trace', Calls, Returns, o) \subseteq 1..(n + 1)
        /\ \A i \in 1..n : i \in MatchingIn(trace', Calls, Returns, o)
                           <=> i \in MatchingIn(trace, Calls, Returns, o)
        /\ n + 1 \notin MatchingIn(trace', Calls, Returns, o)
    BY <1>1, <1>4, <2>1, MatchingAppend
  <2>3. \A i \in 1..(n + 1) : ~(i > n + 1) /\ (i \in 1..n \/ i = n + 1)
    BY <1>2
  <2>. HIDE DEF n
  <2>. QED  BY <2>2, <2>3 DEF IsEmpty
<1>7. /\ Len(call_stack) \in Nat \ {0} /\ DOMAIN call_stack = 1..Len(call_stack)
      /\ Last(call_stack) = call_stack[Len(call_stack)]
      /\ Last(call_stack) \in 1..Len(spans)
      /\ \A p \in DOMAIN call_stack : call_stack[p] \in 1..Len(spans)
  BY TopOfStack, OpenIndices DEF Read
<1>. HIDE DEF n
<1>8. \A o : o \in CallsOpenIn(trace', n + 1)
               <=> /\ o \in PositionsIn(trace, Calls, 1, n)
                   /\ IsEmpty(MatchingIn(trace, Calls, Returns, o))
  BY <1>5, <1>6 DEF CallsOpenIn
<1>9. \A j : j \in PositionsIn(trace, Calls, 1, n) <=> j \in 1..n /\ trace[j] \in Calls
  BY <1>2 DEF PositionsIn
<1>10. \A k \in 2..Len(spans) :
         /\ OpeningOf(trace, k) \in 1..n
         /\ At(k) = OpeningOf(trace, k)
         /\ IsEmpty(MatchingIn(trace, Calls, Returns, OpeningOf(trace, k))) <=> MatchesOf(CallClass, k) = {}
         /\ OfClass(CallClass, k) <=> trace[OpeningOf(trace, k)] \in Calls
         /\ k # 1
  BY <1>2, <1>3, OpenIndices DEF At, OpenInv, OpeningsInv, PositionsIn, MatchesOf, OfClass, IsEmpty, n
<1>11. m \in S
  <2>1. CASE Last(call_stack) = 1
    BY <2>1 DEF At
  <2>2. CASE Last(call_stack) # 1
    <3>1. Last(call_stack) \in 2..Len(spans) /\ Len(call_stack) \in DOMAIN call_stack
      BY <1>7, <2>2, OpenIndices
    <3>2. OfClass(CallClass, Last(call_stack)) /\ MatchesOf(CallClass, Last(call_stack)) = {}
      BY <1>3, <1>7, <3>1 DEF OpenInv, ClassesInv, Unclosed
    <3>. QED  BY <1>8, <1>9, <1>10, <3>1, <3>2
  <2>. QED  BY <2>1, <2>2
<1>12. ASSUME NEW o \in S
       PROVE  o <= m /\ o \in Nat
  <2>1. m \in Nat
    BY <1>2, <1>7, AtFacts DEF n
  <2>2. CASE o = 0
    BY <2>1, <2>2
  <2>3. CASE o \in CallsOpenIn(trace', n + 1)
    <3>1. o \in 1..n /\ trace[o] \in Calls /\ IsEmpty(MatchingIn(trace, Calls, Returns, o))
      BY <1>8, <1>9, <2>3
    <3>2. PICK k \in 2..Len(spans) : OpeningOf(trace, k) = o
      <4>1. trace[o] \in Openings
        BY <3>1 DEF Openings
      <4>2. o \in PositionsIn(trace, Openings, 1, Len(trace))
        BY <1>2, <3>1, <4>1 DEF PositionsIn, n
      <4>. QED  BY <4>2, OpeningOrder
    <3>3. InStack(CallClass, k)
      BY <1>3, <1>10, <3>1, <3>2 DEF OpenInv, ClassesInv, Closed
    <3>4. PICK p \in DOMAIN call_stack : call_stack[p] = k
      BY <1>3, <3>3 DEF InStack
    <3>5. k = Last(call_stack) \/ k < Last(call_stack)
      <4>1. Len(call_stack) \in DOMAIN call_stack /\ (p = Len(call_stack) \/ p < Len(call_stack))
        BY <1>7
      <4>. QED  BY <1>7, <3>4, <4>1 DEF Increasing
    <3>6. k \in 1..Len(spans) /\ At(k) = o
      BY <1>7, <1>10, <3>2, <3>4
    <3>7. o = m \/ o < m
      BY <1>7, <3>5, <3>6, AtFacts
    <3>8. o \in Nat
      BY <1>2, <3>1
    <3>. QED  BY <2>1, <3>7, <3>8
  <2>. QED  BY <2>2, <2>3
<1>. HIDE DEF S, m
<1>13. Max(S) = m
  BY <1>11, <1>12, MaxIs
<1>. QED  BY <1>2, <1>13 DEF Innermost, S, m, n

(* Calls are opened in the order of their indices.                         *)
LEMMA IncreasingNext ==
  ASSUME AnalysisInv, OpenInv, Increasing, [AnalysisNext]_analysisVars
  PROVE  Increasing'
<1>1. /\ call_stack \in Seq(Nat) /\ Len(call_stack) \in Nat /\ DOMAIN call_stack = 1..Len(call_stack)
      /\ \A p \in DOMAIN call_stack : call_stack[p] \in 1..Len(spans)
      /\ Len(spans) \in Nat
  BY LenProperties, OpenIndices DEF AnalysisInv, AnalysisTypeOK
<1>2. CASE call_stack' = call_stack
  BY <1>2 DEF Increasing
<1>3. CASE call_stack' = Append(call_stack, Len(spans) + 1)
  <2>. DEFINE n == Len(call_stack)
  <2>1. /\ DOMAIN call_stack' = 1..(n + 1)
        /\ \A p \in 1..n : call_stack'[p] = call_stack[p]
        /\ call_stack'[n + 1] = Len(spans) + 1
    BY <1>1, <1>3, AppendIsSeq
  <2>2. n \in Nat /\ DOMAIN call_stack = 1..n
    BY <1>1
  <2>. HIDE DEF n
  <2>3. ASSUME NEW p \in DOMAIN call_stack', NEW q \in DOMAIN call_stack', p < q
        PROVE  call_stack'[p] < call_stack'[q]
    <3>1. p \in 1..n
      BY <2>1, <2>2, <2>3
    <3>2. CASE q \in 1..n
      BY <2>1, <2>2, <2>3, <3>1, <3>2 DEF Increasing
    <3>3. CASE q = n + 1
      BY <1>1, <2>1, <2>2, <3>1, <3>3
    <3>. QED  BY <2>1, <2>2, <2>3, <3>2, <3>3
  <2>. QED  BY <2>3 DEF Increasing
<1>4. CASE call_stack # <<>> /\ call_stack' = Front(call_stack)
  <2>1. \A p \in DOMAIN Front(call_stack) :
          p \in DOMAIN call_stack /\ Front(call_stack)[p] = call_stack[p]
    BY <1>1, <1>4, FrontFacts
  <2>. QED  BY <1>4, <2>1 DEF Increasing
<1>5. \/ call_stack' = call_stack
      \/ call_stack' = Append(call_stack, Len(spans) + 1)
      \/ call_stack # <<>> /\ call_stack' = Front(call_stack)
  <2>1. ReadCall => call_stack' = Append(call_stack, Len(spans) + 1)
    <3>1. ReadCall => Len(spans') = Len(spans) + 1
      BY NewSpanType, AppendIsSeq DEF ReadCall, AnalysisInv, AnalysisTypeOK
    <3>. QED  BY <3>1 DEF ReadCall
  <2>2. ReadCallReturn \/ Finish => call_stack # <<>> /\ call_stack' = Front(call_stack)
    BY DEF ReadCallReturn, Finish, Read, AnalysisInv, AnalysisTypeOK
  <2>. QED  BY <2>1, <2>2 DEF AnalysisNext, analysisVars, ReadGasCharge, ReadUnmatchedReturn,
                              ReadSpanStart, ReadSpanEnd, ReadUnmatchedEnd, ReadOther,
                              FinishWithOpenCalls, Panic
<1>. QED  BY <1>2, <1>3, <1>4, <1>5

(* What that comes to.                                                     *)
ChargedTo(t, g, o) == SumIn(t, ChargedIn(t, g, o))

(* What an event adds to the charges of a call.                            *)
LEMMA ChargedStep ==
  ASSUME NEW t \in Seq(Event), NEW e \in Event, NEW g \in Parts, NEW o
  PROVE  /\ Innermost(Append(t, e), Len(t) + 1) = o =>
              ChargedTo(Append(t, e), g, o) = ChargedTo(t, g, o) + Share(g, e)
         /\ Innermost(Append(t, e), Len(t) + 1) # o \/ e \notin ChargesOf(g) =>
              ChargedTo(Append(t, e), g, o) = ChargedTo(t, g, o)
         /\ ChargedTo(t, g, o) \in Nat
<1>. DEFINE u == Append(t, e)
            x == Len(t) + 1
            S == ChargedIn(t, g, o)
            W == ChargedIn(u, g, o)
            P == PositionsIn(t, ChargesOf(g), 1, Len(t))
            Q == PositionsIn(u, ChargesOf(g), 1, x)
<1>1. /\ Len(t) \in Nat /\ Len(u) = x /\ DOMAIN t = 1..Len(t) /\ u[x] = e
      /\ \A j \in DOMAIN t : u[j] = t[j]
  BY AppendIsSeq
<1>2. (e \in ChargesOf(g) => Q = With(P, x)) /\ (e \notin ChargesOf(g) => Q = P)
  <2>1. 1 <= Len(t) + 1
    BY <1>1
  <2>. QED  BY <2>1, PositionsAdded
<1>3. P \subseteq DOMAIN t
  BY DEF PositionsIn
<1>4. \A j \in DOMAIN t : Innermost(u, j) = Innermost(t, j)
  BY <1>1, InnermostKept
<1>5. /\ IsFiniteSet(P)
      /\ \A j \in P : t[j].milli \in Nat
  BY WithinNat
<1>6. S = {j \in P : Innermost(t, j) = o} /\ W = {j \in Q : Innermost(u, j) = o}
  BY <1>1 DEF ChargedIn
<1>7. x \notin DOMAIN t
  BY <1>1
<1>. HIDE DEF P, Q, x, S, W, u
<1>8. S \subseteq P /\ IsFiniteSet(S) /\ x \notin S
  BY <1>3, <1>5, <1>6, <1>7, FS_Subset
<1>9. \A j \in S : t[j] = u[j] /\ t[j].milli \in Nat
  BY <1>1, <1>3, <1>5, <1>8
<1>10. SumIn(t, S) = SumIn(u, S) /\ SumIn(t, S) \in Nat
  <2>1. \A j \in S : t[j] = u[j]
    BY <1>9
  <2>2. \A j \in S : t[j].milli \in Nat
    BY <1>9
  <2>3. SumIn(t, S) = SumIn(u, S)
    BY <1>8, <2>1, SumInSame
  <2>4. SumIn(t, S) \in Nat
    BY <1>8, <2>2, SumInRemove
  <2>. QED  BY <2>3, <2>4
<1>11. ASSUME e \in ChargesOf(g), Innermost(u, x) = o
       PROVE  SumIn(u, W) = SumIn(t, S) + Share(g, e)
  <2>1. W = With(S, x)
    BY <1>2, <1>3, <1>4, <1>6, <1>7, <1>11 DEF With
  <2>2. u[x].milli \in Nat /\ u[x].milli = Share(g, e)
    BY <1>1, <1>11, ChargeEvents DEF Share
  <2>3. \A j \in S : u[j].milli \in Nat
    BY <1>9
  <2>4. SumIn(u, With(S, x)) = SumIn(u, S) + u[x].milli
    BY <1>8, <2>2, <2>3, SumInAdd
  <2>. QED  BY <1>10, <2>1, <2>2, <2>4
<1>12. ASSUME ~(e \in ChargesOf(g) /\ Innermost(u, x) = o)
       PROVE  SumIn(u, W) = SumIn(t, S)
  <2>1. W = S
    BY <1>2, <1>3, <1>4, <1>6, <1>7, <1>12 DEF With
  <2>. QED  BY <1>10, <2>1
<1>13. /\ Innermost(u, x) = o => SumIn(u, W) = SumIn(t, S) + Share(g, e)
       /\ Innermost(u, x) # o \/ e \notin ChargesOf(g) => SumIn(u, W) = SumIn(t, S)
  <2>1. e \notin ChargesOf(g) => Share(g, e) = 0
    BY DEF Share
  <2>. QED  BY <1>10, <1>11, <1>12, <2>1
<1>. QED  BY <1>10, <1>13 DEF ChargedTo, S, W, u, x

(* A charge is added to the innermost call alone.                          *)
LEMMA SelfNeutral ==
  ASSUME AnalysisInv, OpenInv, SelfInv, NEW e \in Event, Read(e), Neutral(e), NEW g \in Parts
  PROVE  SelfOf(g)'
<1>1. trace \in Seq(Event) /\ trace' = Append(trace, e) /\ Len(spans') = Len(spans)
  BY DEF Read, Neutral, AnalysisInv, AnalysisTypeOK
<1>2. SUFFICES ASSUME NEW k \in 1..Len(spans), IsCall(k)'
               PROVE  SelfPart(g, k)' = SumIn(trace', ChargedIn(trace', g, At(k)'))
  BY <1>1 DEF SelfOf
<1>3. CallClass \in Classes /\ KindOf(e)
  BY DEF Classes, KindOf
<1>4. Len(spans) \in Nat /\ (k # 1 => k \in 2..Len(spans))
  BY OpenIndices
<1>5. /\ e \in Openings => Len(spans') = Len(spans) + 1
      /\ e \notin Openings => Len(spans') = Len(spans)
  BY <1>3, SpansCounted DEF KindOf
<1>6. At(k)' = At(k)
  BY <1>4, <1>5, OpeningsStep DEF At, OpenInv
<1>7. IsCall(k)
  BY <1>2, <1>3, <1>4, <1>5, SpanStep DEF IsCall, OpenInv
<1>8. SelfPart(g, k) = SumIn(trace, ChargedIn(trace, g, At(k))) /\ SelfPart(g, k) \in Nat
  BY <1>7, PartNat DEF SelfInv, SelfOf
<1>9. Last(call_stack) \in 1..Len(spans)
  BY TopOfStack, OpenIndices DEF Read
<1>10. Innermost(trace', Len(trace')) = At(k) <=> k = Last(call_stack)
  <2>1. Innermost(trace', Len(trace')) = At(Last(call_stack))
    BY InnermostNow DEF SelfInv
  <2>. QED  BY <1>9, <2>1, AtFacts
<1>11. k \notin OpenNamed
  <2>1. SUFFICES ASSUME k \in OpenNamed PROVE FALSE
    OBVIOUS
  <2>2. k # 1
    BY <2>1 DEF OpenInv, RootInv, RootFirst
  <2>3. PICK n \in SpanNames : InStack(n, k)
    BY <2>1, NamedStacks
  <2>4. n \in Classes /\ n # CallClass
    BY CallClassNew DEF Classes
  <2>5. OfClass(n, k)
    BY <1>4, <2>2, <2>3, <2>4 DEF InStack, OpenInv, ClassesInv, Unclosed
  <2>6. OfClass(CallClass, k)
    BY <1>7, <2>2 DEF IsCall
  <2>7. trace[OpeningOf(trace, k)] \in Event
    <3>1. OpeningOf(trace, k) \in DOMAIN trace
      BY <1>4, <2>2 DEF OpenInv, OpeningsInv, PositionsIn
    <3>. QED  BY <1>1, <3>1, LenProperties, ElementOfSeq
  <2>. QED  BY <1>3, <2>4, <2>5, <2>6, <2>7, EventClass DEF OfClass
<1>12. /\ k = Last(call_stack) => SelfPart(g, k)' = SelfPart(g, k) + Share(g, e)
       /\ k # Last(call_stack) => SelfPart(g, k)' = SelfPart(g, k)
  BY <1>11, NeutralGas
<1>. DEFINE o == At(k)
<1>. HIDE DEF o
<1>13. /\ Innermost(trace', Len(trace) + 1) = o => ChargedTo(trace', g, o) = ChargedTo(trace, g, o) + Share(g, e)
       /\ Innermost(trace', Len(trace) + 1) # o => ChargedTo(trace', g, o) = ChargedTo(trace, g, o)
  BY <1>1, ChargedStep
<1>14. SelfPart(g, k)' = ChargedTo(trace', g, o)
  <2>1. SelfPart(g, k) = ChargedTo(trace, g, o) /\ At(k) = o
    BY <1>8 DEF o, ChargedTo
  <2>2. Len(trace') = Len(trace) + 1
    BY <1>1, AppendIsSeq
  <2>. QED  BY <1>10, <1>12, <1>13, <2>1, <2>2
<1>. QED  BY <1>6, <1>14 DEF o, ChargedTo

(* Steps that read nothing change nothing of it.                           *)
LEMMA SelfQuiet ==
  ASSUME AnalysisInv, SelfInv, NEW g \in Parts, trace' = trace, Len(spans') = Len(spans),
         \A k \in 1..Len(spans) : SelfPart(g, k)' = SelfPart(g, k)
  PROVE  SelfOf(g)'
<1>1. \A k : At(k)' = At(k) /\ (IsCall(k)' <=> IsCall(k))
  BY DEF At, IsCall, OfClass
<1>. QED  BY <1>1 DEF SelfInv, SelfOf

(* Other events charge nothing, and a call just opened was charged nothing.*)
LEMMA SelfOther ==
  ASSUME AnalysisInv, OpenInv, SelfInv, NEW e \in Event, Read(e), KindOf(e), e.kind # "charge",
         NEW g \in Parts,
         \A k \in 1..Len(spans) : SelfPart(g, k)' = SelfPart(g, k),
         e \in Openings => \A m : m = Len(spans') => SelfPart(g, m)' = 0
  PROVE  SelfOf(g)'
<1>1. trace \in Seq(Event) /\ trace' = Append(trace, e)
  BY DEF Read, AnalysisInv, AnalysisTypeOK
<1>2. CallClass \in Classes /\ e \notin ChargesOf(g) /\ Len(spans) \in Nat
  BY ChargeEvents, OpenIndices DEF Classes
<1>3. /\ e \in Openings => Len(spans') = Len(spans) + 1
      /\ e \notin Openings => Len(spans') = Len(spans)
  BY SpansCounted DEF KindOf
<1>4. \A o : SumIn(trace', ChargedIn(trace', g, o)) = SumIn(trace, ChargedIn(trace, g, o))
  <2>1. ASSUME NEW o PROVE ChargedTo(trace', g, o) = ChargedTo(trace, g, o)
    BY <1>1, <1>2, ChargedStep
  <2>. QED  BY <2>1 DEF ChargedTo
<1>5. ASSUME NEW k \in 1..Len(spans), IsCall(k)'
      PROVE  SelfPart(g, k)' = SumIn(trace', ChargedIn(trace', g, At(k)'))
  <2>1. k # 1 => k \in 2..Len(spans)
    BY <1>2
  <2>2. At(k)' = At(k)
    BY <1>3, <2>1, OpeningsStep DEF At, OpenInv
  <2>3. IsCall(k)
    BY <1>2, <1>3, <1>5, <2>1, SpanStep DEF IsCall, OpenInv
  <2>4. SelfPart(g, k) = SumIn(trace, ChargedIn(trace, g, At(k)))
    BY <2>3 DEF SelfInv, SelfOf
  <2>. QED  BY <1>4, <2>2, <2>4
<1>6. ASSUME NEW k \in 1..Len(spans'), k \notin 1..Len(spans)
      PROVE  SelfPart(g, k)' = SumIn(trace', ChargedIn(trace', g, At(k)'))
  <2>1. e \in Openings /\ k = Len(spans') /\ k # 1
    BY <1>2, <1>3, <1>6 DEF OpenInv, RootInv
  <2>2. At(k)' = Len(trace) + 1 /\ Len(trace) \in Nat
    BY <1>3, <2>1, OpeningsStep DEF At, OpenInv
  <2>3. ChargedIn(trace, g, Len(trace) + 1) = {}
    <3>1. \A j \in PositionsIn(trace, ChargesOf(g), 1, Len(trace)) : Innermost(trace, j) # Len(trace) + 1
      BY <2>2 DEF SelfInv, ChargesInner
    <3>. QED  BY <3>1 DEF ChargedIn
  <2>4. SumIn(trace', ChargedIn(trace', g, Len(trace) + 1)) = 0
    BY <1>4, <2>3, SumInEmpty
  <2>. QED  BY <2>1, <2>2, <2>4
<1>. QED  BY <1>5, <1>6 DEF SelfOf

(* Every charge has an innermost call at its position or before.           *)
LEMMA ChargesInnerNext ==
  ASSUME AnalysisInv, OpenInv, SelfInv, NEW e \in Event, Read(e), KindOf(e)
  PROVE  ChargesInner'
<1>. DEFINE n == Len(trace)
<1>1. trace \in Seq(Event) /\ trace' = Append(trace, e)
  BY DEF Read, AnalysisInv, AnalysisTypeOK
<1>2. /\ n \in Nat /\ Len(trace') = n + 1 /\ DOMAIN trace = 1..n /\ DOMAIN trace' = 1..(n + 1)
      /\ \A j \in 1..n : trace'[j] = trace[j]
      /\ trace'[n + 1] = e
  BY <1>1, AppendIsSeq
<1>3. ASSUME NEW g \in Parts, NEW j \in PositionsIn(trace', ChargesOf(g), 1, Len(trace'))
      PROVE  Innermost(trace', j) \in 0..Len(trace')
  <2>1. j \in 1..(n + 1) /\ trace'[j] \in ChargesOf(g)
    BY <1>2, <1>3 DEF PositionsIn
  <2>2. CASE j \in 1..n
    <3>1. j \in PositionsIn(trace, ChargesOf(g), 1, Len(trace))
      <4>1. 1 <= j /\ j <= n
        BY <1>2, <2>2
      <4>. QED  BY <1>2, <2>1, <2>2, <4>1 DEF PositionsIn
    <3>2. Innermost(trace', j) = Innermost(trace, j)
      BY <1>1, <2>2, InnermostKept
    <3>. QED  BY <1>2, <3>1, <3>2 DEF SelfInv, ChargesInner
  <2>3. CASE j = n + 1
    <3>1. e.kind = "charge"
      BY <1>2, <2>1, <2>3, ChargeEvents
    <3>2. Neutral(e)
      BY <3>1, EventClass DEF KindOf, Opening, Closing, Refusing
    <3>3. Innermost(trace', Len(trace')) = At(Last(call_stack))
      BY <3>2, InnermostNow DEF SelfInv
    <3>4. Last(call_stack) \in 1..Len(spans)
      BY TopOfStack, OpenIndices DEF Read
    <3>5. At(Last(call_stack)) \in 0..n
      BY <3>4, AtFacts
    <3>. QED  BY <1>2, <2>3, <3>3, <3>5
  <2>. QED  BY <1>2, <2>1, <2>2, <2>3
<1>. QED  BY <1>3 DEF ChargesInner

(* All of it, after any step.                                              *)
LEMMA SelfNext ==
  ASSUME AnalysisInv, OpenInv, SelfInv, [AnalysisNext]_analysisVars
  PROVE  SelfInv'
<1>1. Increasing'
  BY IncreasingNext DEF SelfInv
<1>2. RootFirst
  BY DEF OpenInv, RootInv
<1>3. CASE Quiet
  <2>1. trace' = trace /\ Len(spans') = Len(spans) /\ DOMAIN spans = 1..Len(spans)
    BY <1>3, OpenIndices DEF Quiet
  <2>2. ChargesInner'
    BY <2>1 DEF SelfInv, ChargesInner
  <2>3. ASSUME NEW g \in Parts, NEW k \in 1..Len(spans)
        PROVE  SelfPart(g, k)' = SelfPart(g, k)
    <3>1. CASE spans' = spans
      BY <3>1 DEF SelfPart
    <3>2. CASE Finish
      <4>1. spans' = [spans EXCEPT ![Last(call_stack)] = AddSelfToTotalGas(@)]
        BY <3>2 DEF Finish
      <4>2. spans'[k] = spans[k] \/ spans'[k] = AddSelfToTotalGas(spans[k])
        BY <2>1, <4>1
      <4>3. spans[k] \in Span
        BY OpenIndices
      <4>. QED  BY <4>2, <4>3, AddedParts DEF SelfPart
    <3>. QED  BY <1>3, <3>1, <3>2 DEF Quiet
  <2>4. \A g \in Parts : SelfOf(g)'
    BY <2>1, <2>3, SelfQuiet
  <2>. QED  BY <1>1, <2>2, <2>4 DEF SelfInv, Parts, SumPart
<1>4. ASSUME NEW e \in Event, Read(e), KindOf(e)
      PROVE  SelfInv'
  <2>1. ChargesInner'
    BY <1>4, ChargesInnerNext
  <2>2. ASSUME NEW g \in Parts
        PROVE  SelfOf(g)'
    <3>1. CASE Neutral(e)
      BY <1>4, <3>1, SelfNeutral
    <3>2. ASSUME NEW c \in Classes, Opening(c, e)
          PROVE  SelfOf(g)'
      <4>1. e.kind # "charge"
        BY <3>2, EventClass DEF Opening
      <4>. QED  BY <1>4, <3>2, <4>1, OpeningGas, SelfOther
    <3>3. ASSUME NEW c \in Classes, Refusing(c, e)
          PROVE  SelfOf(g)'
      <4>1. e.kind # "charge" /\ e \notin Openings
        BY <3>3, EventClass DEF Refusing
      <4>2. \A k \in 1..Len(spans) : SelfPart(g, k)' = SelfPart(g, k)
        BY <3>3 DEF Refusing, SelfPart
      <4>. QED  BY <1>4, <4>1, <4>2, SelfOther
    <3>4. ASSUME NEW c \in Classes, Closing(c, e)
          PROVE  SelfOf(g)'
      <4>1. e.kind # "charge" /\ e \notin Openings
        BY <3>4, EventClass DEF Closing
      <4>2. \A k \in 1..Len(spans) : SelfPart(g, k)' = SelfPart(g, k)
        BY <3>4, ReturnGas, SpanEndGas, ClassCases
      <4>. QED  BY <1>4, <4>1, <4>2, SelfOther
    <3>. QED  BY <1>4, <3>1, <3>2, <3>3, <3>4 DEF KindOf
  <2>. QED  BY <1>1, <2>1, <2>2 DEF SelfInv, Parts, SumPart
<1>. QED  BY <1>2, <1>3, <1>4, StepKinds DEF KindOf

(* The own gas of calls is that of the reference.                          *)
LEMMA SelfOfInv ==
  ASSUME AnalysisInv, OpenInv, SelfInv
  PROVE  SelfExact
<1>1. \A S, from, to : /\ Positions(S, from, to) = PositionsIn(trace, S, from, to)
                       /\ Count(S, from, to) = CountIn(trace, S, from, to)
  BY CountsOfTrace
<1>2. \A opens, closes, o : MatchIn(opens, closes, o) = MatchingIn(trace, opens, closes, o)
  BY <1>1 DEF MatchIn, MatchingIn
<1>3. \A j : CallsOpenAt(j) = CallsOpenIn(trace, j)
  BY <1>1, <1>2 DEF CallsOpenAt, CallsOpenIn
<1>4. \A n \in GasNames : \A o : SumOf(ChargedBy(n, o)) = SumIn(trace, ChargedIn(trace, n, o))
  BY <1>1, <1>3, PartCases DEF ChargedBy, ChargedIn, Innermost, SumOf, SumIn
<1>5. ASSUME NEW k \in DOMAIN spans, NEW o, o = (IF k = 1 THEN 0 ELSE OpenedAt(k)),
             k = 1 \/ trace[o] \in Calls, NEW n \in GasNames
      PROVE  spans[k].self.by_name[n] = SumOf(ChargedBy(n, o))
  <2>1. o = At(k) /\ IsCall(k)
    BY <1>5, ReferenceTerms, ClassCases DEF At, IsCall, OfClass
  <2>2. SelfPart(n, k) = SumIn(trace, ChargedIn(trace, n, o))
    BY <2>1, OpenIndices, PartCases DEF SelfInv, SelfOf
  <2>. QED  BY <1>4, <2>2, PartCases DEF SelfPart
<1>. QED  BY <1>5 DEF SelfExact

(* And it holds at first.                                                  *)
LEMMA SelfInit ==
  ASSUME AnalysisInit
  PROVE  SelfInv
<1>1. /\ spans = <<NewSpan>> /\ Len(spans) = 1 /\ spans[1] = NewSpan
      /\ call_stack = <<1>> /\ DOMAIN call_stack = {1}
      /\ trace = <<>> /\ DOMAIN trace = {}
  BY DEF AnalysisInit
<1>2. \A S, from, to : PositionsIn(trace, S, from, to) = {}
  BY <1>1 DEF PositionsIn
<1>3. Increasing
  BY <1>1 DEF Increasing
<1>4. ChargesInner
  BY <1>2 DEF ChargesInner
<1>5. ASSUME NEW g \in Parts
      PROVE  SelfOf(g)
  <2>1. SelfPart(g, 1) = 0
    BY <1>1, PartFacts DEF SelfPart, NewSpan
  <2>2. \A o : SumIn(trace, ChargedIn(trace, g, o)) = 0
    BY <1>2, SumInEmpty DEF ChargedIn
  <2>. QED  BY <1>1, <2>1, <2>2 DEF SelfOf
<1>. QED  BY <1>3, <1>4, <1>5 DEF SelfInv

-----------------------------------------------------------------------------
(* Theorems.                                                               *)

(* The invariant holds throughout the analysis of any trace.               *)
THEOREM AnalysisInvariant == AnalysisSpec => []AnalysisInv
<1>1. AnalysisInit => AnalysisInv
  BY AnalysisInitInv
<1>2. AnalysisInv /\ [AnalysisNext]_analysisVars => AnalysisInv'
  BY AnalysisNextInv
<1>. QED  BY <1>1, <1>2, PTL DEF AnalysisSpec

(* The state of the analysis is well typed: no index it holds is out of    *)
(* range, and the stack is never empty when its top is unwrapped           *)
(* (analysis.rs:40, 55).                                                   *)
THEOREM AnalysisTypeCorrect == AnalysisSpec => []AnalysisTypeOK
  BY AnalysisInvariant, PTL DEF AnalysisInv

(* More milligas never displays as less gas (analysis.rs:194-203), so a    *)
(* charge never displays as more than the sum it is part of.               *)
THEOREM GasUnitsMonotone ==
  ASSUME NEW a \in Nat, NEW b \in Nat, a <= b
  PROVE  GasUnits(a) <= GasUnits(b)
  BY DEF GasUnits

(* Displayed on its own, no charge shows more gas than the sum it is part  *)
(* of, although both are rounded (analysis.rs:164-168).                    *)
THEOREM SumAlwaysListedFirst == AnalysisSpec => []SumListedFirst
<1>1. AnalysisInit => PartsBounded
  BY NewPartsBounded DEF AnalysisInit, PartsBounded
<1>2. AnalysisInv /\ PartsBounded /\ [AnalysisNext]_analysisVars => PartsBounded'
  BY PartsBoundedNext
<1>3. AnalysisInv /\ PartsBounded => SumListedFirst
  <2>1. SUFFICES ASSUME AnalysisInv, PartsBounded, NEW k \in DOMAIN spans, NEW n \in GasNames
                 PROVE  /\ GasUnits(spans[k].self.by_name[n]) <= GasUnits(spans[k].self.sum)
                        /\ GasUnits(spans[k].total.by_name[n]) <= GasUnits(spans[k].total.sum)
    BY DEF SumListedFirst
  <2>2. spans[k] \in Span
    BY <2>1, OpenIndices
  <2>3. /\ spans[k].self.by_name[n] \in Nat /\ spans[k].self.sum \in Nat
        /\ spans[k].total.by_name[n] \in Nat /\ spans[k].total.sum \in Nat
    BY <2>2 DEF Span, Gas
  <2>. QED  BY <2>1, <2>3, GasUnitsMonotone DEF PartsBounded
<1>. QED  BY <1>1, <1>2, <1>3, AnalysisInvariant, PTL DEF AnalysisSpec

(* The analysis panics on the traces with a return or a span end that      *)
(* nothing opened, or with a call that does not return, on no others, and  *)
(* at the event that breaks them (analysis.rs:55-62, 78, 87-88).           *)
THEOREM PanicsExactlyOnMalformed == AnalysisSpec => []PanicsOnMalformed
<1>1. AnalysisInit => BalanceInv
  <2>1. SUFFICES ASSUME AnalysisInit
                 PROVE  status = "reading" /\ Balanced(trace) /\ Balance
    BY DEF BalanceInv, AnalysisInit
  <2>2. /\ trace = <<>> /\ Len(trace) = 0 /\ DOMAIN trace = {} /\ Len(call_stack) = 1
        /\ \A n \in SpanNames : Len(named_spans[n]) = 0
    BY <2>1 DEF AnalysisInit
  <2>3. \A S : CountIn(trace, S, 1, Len(trace)) = 0
    <3>1. ASSUME NEW S PROVE PositionsIn(trace, S, 1, Len(trace)) = {}
      BY <2>2 DEF PositionsIn
    <3>. QED  BY <3>1, FS_EmptySet DEF CountIn
  <2>. QED  BY <2>1, <2>2, <2>3 DEF AnalysisInit, Balanced, Balance
<1>2. AnalysisInv /\ AnalysisInv' /\ BalanceInv /\ [AnalysisNext]_analysisVars => BalanceInv'
  BY BalanceNext
<1>3. AnalysisInv /\ BalanceInv => PanicsOnMalformed
  <2>1. SUFFICES ASSUME AnalysisInv, BalanceInv PROVE PanicsOnMalformed
    OBVIOUS
  <2>2. \A S, j : Count(S, 1, j) = CountIn(trace, S, 1, j)
    BY CountsOfTrace
  <2>3. \A S, j : CountIn(trace, S, 1, j) \in Nat
    BY <2>1, PositionsFinite DEF AnalysisInv, AnalysisTypeOK
  <2>4. Balanced(trace) <=> ~(\/ Unmatched(Calls, Returns)
                              \/ \E n \in SpanNames : Unmatched(Starts(n), Ends(n)))
    BY <2>2, <2>3 DEF Balanced, Unmatched
  <2>. QED  BY <2>1, <2>2, <2>4 DEF BalanceInv, PanicsOnMalformed
<1>. QED  BY <1>1, <1>2, <1>3, AnalysisInvariant, PTL DEF AnalysisSpec

(* Whatever the trace, the total of the root of a finished analysis and of *)
(* every closed span is, charge name by charge name and in sum, the gas of *)
(* the charges between the event that opened the span and the first event  *)
(* that matches it (analysis.rs:42-45, 53-63, 74-80).                      *)
THEOREM TotalsAlwaysExact == AnalysisSpec => []TotalsExact
<1>. DEFINE Inv == AnalysisInv /\ OpenInv /\ GasInv
<1>1. AnalysisInit => Inv
  BY AnalysisInitInv, FirstStateInv
<1>2. Inv /\ [AnalysisNext]_analysisVars => Inv'
  BY AnalysisNextInv, OpenNext, GasNext
<1>3. Inv => TotalsExact
  BY TotalsOfInv
<1>. QED  BY <1>1, <1>2, <1>3, PTL DEF AnalysisSpec

(* Whatever the trace, the gas a call span calls its own is what was       *)
(* charged while no call inside it was open (analysis.rs:38-41).           *)
THEOREM SelfAlwaysExact == AnalysisSpec => []SelfExact
<1>. DEFINE Inv == AnalysisInv /\ OpenInv /\ SelfInv
<1>1. AnalysisInit => Inv
  BY AnalysisInitInv, FirstStateInv, SelfInit
<1>2. Inv /\ [AnalysisNext]_analysisVars => Inv'
  BY AnalysisNextInv, OpenNext, SelfNext
<1>3. Inv => SelfExact
  BY SelfOfInv
<1>. QED  BY <1>1, <1>2, <1>3, PTL DEF AnalysisSpec

=============================================================================
