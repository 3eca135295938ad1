----------------------- MODULE InvocationTraceProofs -----------------------
(* Theorems about InvocationTrace, for any trace of any length. *)
EXTENDS InvocationReference, SequenceTheorems, FiniteSetTheorems, WellFoundedInduction, TLAPS

Sub(tree, h) == tree[h].subinvocations

(* No invocation is on the stack twice, nor the root at all.               *)
StackDistinct ==
  /\ \A p, q \in DOMAIN invocation_stack :
       invocation_stack[p] = invocation_stack[q] => p = q
  /\ \A p \in DOMAIN invocation_stack : invocation_stack[p] # root_invocation

InvocationInv == InvocationTypeOK /\ StackDistinct /\ FiledOnce

-----------------------------------------------------------------------------
(* Sequences.                                                              *)

LEMMA NotEmpty ==
  ASSUME NEW S, NEW s \in Seq(S), Len(s) # 0
  PROVE  s # <<>>
<1>1. (s = <<>>) <=> (Len(s) = 0)
  BY EmptySeq
<1> QED
  BY <1>1

LEMMA FrontFacts ==
  ASSUME NEW S, NEW s \in Seq(S), s # <<>>
  PROVE  /\ Front(s) \in Seq(S) /\ Last(s) \in S
         /\ Len(s) \in Nat /\ Len(s) >= 1 /\ DOMAIN s = 1..Len(s) /\ Last(s) = s[Len(s)]
         /\ DOMAIN Front(s) = 1..(Len(s) - 1) /\ Len(Front(s)) = Len(s) - 1
         /\ \A p \in 1..(Len(s) - 1) : Front(s)[p] = s[p]
<1>1. Len(s) \in Nat /\ Len(s) >= 1 /\ DOMAIN s = 1..Len(s)
  BY EmptySeq, LenProperties
<1>2. \A i \in 1..(Len(s) - 1) : s[i] \in S
  BY <1>1, ElementOfSeq
<1>3. /\ Front(s) \in Seq(S) /\ Len(Front(s)) = Len(s) - 1
      /\ \A p \in 1..(Len(s) - 1) : Front(s)[p] = s[p]
  BY <1>1, <1>2, SubSeqProperties DEF Front
<1>4. Last(s) \in S /\ Last(s) = s[Len(s)]
  BY <1>1, ElementOfSeq DEF Last
<1> QED
  BY <1>1, <1>3, <1>4, LenProperties

(* Elements of a sequence, of what is left of it, and of a longer one.     *)
LEMMA AppendElements ==
  ASSUME NEW S, NEW s \in Seq(S), NEW e \in S
  PROVE  /\ Append(s, e) \in Seq(S) /\ Len(s) \in Nat
         /\ DOMAIN s = 1..Len(s) /\ DOMAIN Append(s, e) = 1..(Len(s) + 1)
         /\ \A p \in 1..Len(s) : Append(s, e)[p] = s[p]
         /\ Append(s, e)[Len(s) + 1] = e
         /\ ToSet(Append(s, e)) = ToSet(s) \cup {e}
<1>1. /\ Append(s, e) \in Seq(S) /\ Len(s) \in Nat
      /\ DOMAIN s = 1..Len(s) /\ DOMAIN Append(s, e) = 1..(Len(s) + 1)
      /\ \A p \in 1..Len(s) : Append(s, e)[p] = s[p]
      /\ Append(s, e)[Len(s) + 1] = e
  BY LenProperties
<1> QED
  BY <1>1 DEF ToSet

LEMMA FrontElements ==
  ASSUME NEW S, NEW s \in Seq(S), s # <<>>,
         \A p, q \in DOMAIN s : s[p] = s[q] => p = q
  PROVE  ToSet(Front(s)) = ToSet(s) \ {Last(s)} /\ Last(s) \in ToSet(s)
<1>1. /\ Len(s) \in Nat /\ Len(s) >= 1 /\ DOMAIN s = 1..Len(s) /\ Last(s) = s[Len(s)]
      /\ DOMAIN Front(s) = 1..(Len(s) - 1)
      /\ \A p \in 1..(Len(s) - 1) : Front(s)[p] = s[p]
  BY FrontFacts
<1> QED
  BY <1>1 DEF ToSet

-----------------------------------------------------------------------------
(* Steps.                                                                  *)

LEMMA NewInvocationType == NewInvocation \in Invocation /\ NewInvocation.subinvocations = <<>>
  BY ExitCodeAssumption DEF NewInvocation, Invocation

LEMMA InvocationInitInv == InvocationInit => InvocationInv
  BY DEF InvocationInit, InvocationInv, InvocationTypeOK, StackDistinct, FiledOnce

LEMMA ReadType ==
  ASSUME InvocationInv, NEW event \in Event, Read(event)
  PROVE  events' \in Seq(Event)
  BY DEF Read, InvocationInv, InvocationTypeOK

(* Steps that move no invocation.                                          *)
LEMMA TreeKept ==
  ASSUME InvocationInv, UNCHANGED <<invocations, invocation_stack, root_invocation>>,
         events' \in Seq(Event), status' \in {"reading", "done", "panicked"}
  PROVE  InvocationInv'
  BY DEF InvocationInv, InvocationTypeOK, StackDistinct, FiledOnce, ToSet

LEMMA ReadCallInv ==
  ASSUME InvocationInv, ReadCall
  PROVE  InvocationInv'
<1> DEFINE new == Len(invocations) + 1
<1>1. /\ invocations \in Seq(Invocation) /\ invocation_stack \in Seq(DOMAIN invocations)
      /\ root_invocation \in DOMAIN invocations \cup {None} /\ None \notin Nat
  BY ExitCodeAssumption DEF InvocationInv, InvocationTypeOK
<1>2. events' \in Seq(Event)
  <2>1. [kind |-> "call"] \in Event
    BY DEF Event
  <2> QED
    BY <2>1, ReadType DEF ReadCall
<1>3. /\ invocations' \in Seq(Invocation) /\ Len(invocations) \in Nat
      /\ DOMAIN invocations = 1..Len(invocations) /\ DOMAIN invocations' = 1..new
      /\ Len(invocations') = new
      /\ \A k \in 1..Len(invocations) : invocations'[k] = invocations[k]
      /\ invocations'[new] = NewInvocation
  BY <1>1, NewInvocationType, AppendElements, LenProperties DEF ReadCall
<1>4. new \notin DOMAIN invocations /\ DOMAIN invocations' = DOMAIN invocations \cup {new}
  BY <1>3
<1>5. invocation_stack \in Seq(DOMAIN invocations')
  BY <1>1, <1>4, SeqMonotonic
<1>6. invocation_stack' = Append(invocation_stack, new)
  BY <1>3 DEF ReadCall
<1> HIDE DEF new
<1>7. /\ invocation_stack' \in Seq(DOMAIN invocations') /\ Len(invocation_stack) \in Nat
      /\ DOMAIN invocation_stack = 1..Len(invocation_stack)
      /\ DOMAIN invocation_stack' = 1..(Len(invocation_stack) + 1)
      /\ \A p \in 1..Len(invocation_stack) : invocation_stack'[p] = invocation_stack[p]
      /\ invocation_stack'[Len(invocation_stack) + 1] = new
      /\ ToSet(invocation_stack') = ToSet(invocation_stack) \cup {new}
  BY <1>4, <1>5, <1>6, AppendElements
<1>8. \A p \in DOMAIN invocation_stack : invocation_stack[p] \in DOMAIN invocations
  BY <1>1, <1>7, ElementOfSeq
<1>9. \A h \in DOMAIN invocations :
        Sub(invocations', h) = Sub(invocations, h) /\ Sub(invocations, h) \in Seq(DOMAIN invocations)
  BY <1>3 DEF Sub, InvocationInv, InvocationTypeOK
<1>10. Sub(invocations', new) = <<>>
  BY <1>3, NewInvocationType DEF Sub
<1>11. InvocationTypeOK'
  <2>1. \A h \in DOMAIN invocations' : Sub(invocations', h) \in Seq(DOMAIN invocations')
    <3>1. \A h \in DOMAIN invocations : Sub(invocations', h) \in Seq(DOMAIN invocations')
      BY <1>4, <1>9, SeqMonotonic
    <3>2. Sub(invocations', new) \in Seq(DOMAIN invocations')
      BY <1>10
    <3> QED
      BY <1>4, <3>1, <3>2
  <2> QED
    BY <1>1, <1>2, <1>3, <1>4, <1>7, <2>1
    DEF ReadCall, Sub, InvocationInv, InvocationTypeOK
<1>12. root_invocation # new
  BY <1>1, <1>3, <1>4 DEF new
<1>13. StackDistinct'
  BY <1>4, <1>7, <1>8, <1>12 DEF ReadCall, InvocationInv, StackDistinct
<1>14. FiledOnce'
  <2>1. \A h \in DOMAIN invocations : \A p \in DOMAIN Sub(invocations, h) : Sub(invocations, h)[p] \in DOMAIN invocations
    BY <1>9, ElementOfSeq, LenProperties
  <2>2. \A k \in DOMAIN invocations' :
          \/ k \in ToSet(invocation_stack')
          \/ k = root_invocation'
          \/ \E h \in DOMAIN invocations' : k \in ToSet(Sub(invocations', h))
    BY <1>4, <1>7, <1>9 DEF ReadCall, Sub, InvocationInv, FiledOnce
  <2>3. \A h \in DOMAIN invocations' : \A p \in DOMAIN Sub(invocations', h) :
          /\ h \in DOMAIN invocations /\ p \in DOMAIN Sub(invocations, h) /\ Sub(invocations', h)[p] = Sub(invocations, h)[p]
          /\ Sub(invocations, h)[p] # new
    BY <1>4, <1>9, <1>10, <2>1
  <2>4. \A h \in DOMAIN invocations' : \A p \in DOMAIN Sub(invocations', h) :
          /\ Sub(invocations', h)[p] \notin ToSet(invocation_stack') /\ Sub(invocations', h)[p] # root_invocation'
          /\ \A g \in DOMAIN invocations' : \A q \in DOMAIN Sub(invocations', g) :
               Sub(invocations', g)[q] = Sub(invocations', h)[p] => g = h /\ p = q
    BY <1>7, <2>3 DEF ReadCall, Sub, InvocationInv, FiledOnce
  <2> QED
    BY <2>2, <2>4 DEF FiledOnce, Sub
<1> QED
  BY <1>11, <1>13, <1>14 DEF InvocationInv

(* What is known of the innermost invocation when it ends.                 *)
LEMMA TopFacts ==
  ASSUME InvocationInv, invocation_stack # <<>>
  PROVE  LET top == Last(invocation_stack)
         IN /\ top \in DOMAIN invocations
            /\ Front(invocation_stack) \in Seq(DOMAIN invocations)
            /\ ToSet(Front(invocation_stack)) = ToSet(invocation_stack) \ {top}
            /\ top \in ToSet(invocation_stack) /\ top # root_invocation
            /\ Len(invocation_stack) \in Nat /\ Len(invocation_stack) >= 1
            /\ DOMAIN invocation_stack = 1..Len(invocation_stack)
            /\ top = invocation_stack[Len(invocation_stack)]
            /\ DOMAIN Front(invocation_stack) = 1..(Len(invocation_stack) - 1)
            /\ \A p \in 1..(Len(invocation_stack) - 1) :
                 Front(invocation_stack)[p] = invocation_stack[p]
<1>1. invocation_stack \in Seq(DOMAIN invocations)
  BY DEF InvocationInv, InvocationTypeOK
<1>2. \A p, q \in DOMAIN invocation_stack :
        invocation_stack[p] = invocation_stack[q] => p = q
  BY DEF InvocationInv, StackDistinct
<1>3. Len(invocation_stack) \in DOMAIN invocation_stack
  BY <1>1, FrontFacts
<1>4. Last(invocation_stack) # root_invocation
  BY <1>1, <1>3, FrontFacts DEF InvocationInv, StackDistinct
<1> QED
  BY <1>1, <1>2, <1>4, FrontFacts, FrontElements

LEMMA ClosedFacts ==
  ASSUME InvocationInv, invocation_stack # <<>>,
         NEW code \in ExitCodes \cup {SysAssertionFailed}
  PROVE  /\ Closed(code) \in Seq(Invocation) /\ DOMAIN Closed(code) = DOMAIN invocations
         /\ \A h \in DOMAIN invocations : Sub(Closed(code), h) = Sub(invocations, h)
<1> DEFINE top == Last(invocation_stack)
           closed == [invocations[top] EXCEPT !.exit_code = code]
<1>1. /\ invocations \in Seq(Invocation) /\ top \in DOMAIN invocations
      /\ DOMAIN invocations = 1..Len(invocations)
  BY TopFacts, LenProperties DEF InvocationInv, InvocationTypeOK
<1>2. invocations[top] \in Invocation
  BY <1>1, ElementOfSeq
<1>3. closed \in Invocation /\ closed.subinvocations = invocations[top].subinvocations
  BY <1>2 DEF Invocation
<1>4. Closed(code) = [invocations EXCEPT ![top] = closed]
  BY DEF Closed
<1> HIDE DEF closed, top
<1>5. /\ Closed(code) \in Seq(Invocation) /\ DOMAIN Closed(code) = DOMAIN invocations
      /\ \A h \in DOMAIN invocations :
           Closed(code)[h] = IF h = top THEN closed ELSE invocations[h]
  BY <1>1, <1>3, <1>4, ExceptSeq, LenProperties
<1> QED
  BY <1>3, <1>5 DEF Sub

LEMMA EndRootInv ==
  ASSUME InvocationInv, NEW code \in ExitCodes \cup {SysAssertionFailed},
         EndRoot(code), events' \in Seq(Event), status = "reading"
  PROVE  InvocationInv'
<1> DEFINE top == Last(invocation_stack)
<1>1. invocation_stack # <<>> /\ Len(invocation_stack) = 1
  <2>1. Len(invocation_stack) = 1
    BY DEF EndRoot
  <2>2. invocation_stack \in Seq(DOMAIN invocations)
    BY DEF InvocationInv, InvocationTypeOK
  <2>3. Len(invocation_stack) # 0
    BY <2>1
  <2>4. invocation_stack # <<>>
    BY <2>2, <2>3, NotEmpty
  <2> QED
    BY <2>1, <2>4
<1>2. /\ top \in DOMAIN invocations /\ top \in ToSet(invocation_stack)
      /\ invocation_stack' \in Seq(DOMAIN invocations)
      /\ DOMAIN invocation_stack' = {}
      /\ ToSet(invocation_stack') = ToSet(invocation_stack) \ {top}
  BY <1>1, TopFacts DEF EndRoot
<1>3. /\ invocations' \in Seq(Invocation) /\ DOMAIN invocations' = DOMAIN invocations
      /\ \A h \in DOMAIN invocations : Sub(invocations', h) = Sub(invocations, h)
  BY <1>1, ClosedFacts DEF EndRoot
<1>4. root_invocation' = top
  BY DEF EndRoot
<1> HIDE DEF top
<1>5. InvocationTypeOK'
  BY <1>2, <1>3, <1>4 DEF EndRoot, Sub, InvocationInv, InvocationTypeOK
<1>6. StackDistinct'
  BY <1>2 DEF StackDistinct
<1>7. root_invocation = None /\ None \notin DOMAIN invocations
  BY ExitCodeAssumption, LenProperties DEF EndRoot, InvocationInv, InvocationTypeOK
<1>8. FiledOnce'
  <2>1. \A k \in DOMAIN invocations' :
          \/ k \in ToSet(invocation_stack')
          \/ k = root_invocation'
          \/ \E h \in DOMAIN invocations' : k \in ToSet(Sub(invocations', h))
    BY <1>2, <1>3, <1>4, <1>7 DEF Sub, InvocationInv, FiledOnce
  <2>2. \A h \in DOMAIN invocations' : \A p \in DOMAIN Sub(invocations', h) :
          /\ Sub(invocations', h)[p] \notin ToSet(invocation_stack')
          /\ Sub(invocations', h)[p] # root_invocation'
          /\ \A g \in DOMAIN invocations' : \A q \in DOMAIN Sub(invocations', g) :
               Sub(invocations', g)[q] = Sub(invocations', h)[p] => g = h /\ p = q
    BY <1>2, <1>3, <1>4 DEF Sub, InvocationInv, FiledOnce
  <2> QED
    BY <2>1, <2>2 DEF FiledOnce, Sub
<1> QED
  BY <1>5, <1>6, <1>8 DEF InvocationInv

LEMMA EndInnerInv ==
  ASSUME InvocationInv, NEW code \in ExitCodes \cup {SysAssertionFailed},
         EndInner(code), events' \in Seq(Event), status = "reading"
  PROVE  InvocationInv'
<1> DEFINE top == Last(invocation_stack)
           parent == Last(Front(invocation_stack))
           filed == Append(Sub(invocations, parent), top)
<1>1. invocation_stack # <<>> /\ Len(invocation_stack) > 1
  BY EmptySeq DEF EndInner, InvocationInv, InvocationTypeOK
<1>2. /\ top \in DOMAIN invocations /\ top \in ToSet(invocation_stack)
      /\ top # root_invocation
      /\ invocation_stack' \in Seq(DOMAIN invocations)
      /\ DOMAIN invocation_stack' \subseteq DOMAIN invocation_stack
      /\ \A p \in DOMAIN invocation_stack' : invocation_stack'[p] = invocation_stack[p]
      /\ ToSet(invocation_stack') = ToSet(invocation_stack) \ {top}
      /\ invocation_stack' # <<>> /\ parent = Last(invocation_stack')
  <2>1. invocation_stack' = Front(invocation_stack)
    BY DEF EndInner
  <2>2. invocation_stack' \in Seq(DOMAIN invocations) /\ 1 \in DOMAIN invocation_stack'
    BY <1>1, <2>1, TopFacts
  <2> QED
    BY <1>1, <2>1, <2>2, TopFacts
<1>3. parent \in DOMAIN invocations
  BY <1>2, FrontFacts
<1>4. /\ Closed(code) \in Seq(Invocation) /\ DOMAIN Closed(code) = DOMAIN invocations
      /\ \A h \in DOMAIN invocations : Sub(Closed(code), h) = Sub(invocations, h)
  BY <1>1, ClosedFacts
<1>5. Sub(invocations, parent) \in Seq(DOMAIN invocations)
  BY <1>3 DEF Sub, InvocationInv, InvocationTypeOK
<1>6. /\ filed \in Seq(DOMAIN invocations) /\ ToSet(filed) = ToSet(Sub(invocations, parent)) \cup {top}
      /\ \A p \in DOMAIN filed :
           \/ p \in DOMAIN Sub(invocations, parent) /\ filed[p] = Sub(invocations, parent)[p]
           \/ p = Len(Sub(invocations, parent)) + 1 /\ filed[p] = top
  BY <1>2, <1>5, AppendElements
<1> DEFINE after == [Closed(code)[parent] EXCEPT !.subinvocations = filed]
<1>7. invocations' = [Closed(code) EXCEPT ![parent] = after]
  BY <1>3, <1>4 DEF EndInner, Sub
<1>8. DOMAIN invocations \subseteq Nat /\ DOMAIN Closed(code) = 1..Len(Closed(code))
  BY <1>4, LenProperties DEF InvocationInv, InvocationTypeOK
<1>9. after \in Invocation /\ after.subinvocations = filed
  <2>1. Closed(code)[parent] \in Invocation
    BY <1>3, <1>4, <1>8, ElementOfSeq
  <2>2. filed \in Seq(Nat)
    BY <1>6, <1>8, SeqMonotonic
  <2> HIDE DEF filed
  <2> QED
    BY <2>1, <2>2 DEF Invocation
<1> HIDE DEF top, parent, filed, after
<1>10. /\ invocations' \in Seq(Invocation) /\ DOMAIN invocations' = DOMAIN invocations
       /\ \A h \in DOMAIN invocations :
            Sub(invocations', h) = IF h = parent THEN filed ELSE Sub(invocations, h)
  <2>1. /\ invocations' \in Seq(Invocation) /\ DOMAIN invocations' = DOMAIN invocations
        /\ \A h \in DOMAIN invocations :
             invocations'[h] = IF h = parent THEN after ELSE Closed(code)[h]
    BY <1>3, <1>4, <1>7, <1>8, <1>9, ExceptSeq, LenProperties
  <2> QED
    BY <1>4, <1>9, <2>1 DEF Sub
<1>11. InvocationTypeOK'
  <2>1. \A h \in DOMAIN invocations' : Sub(invocations', h) \in Seq(DOMAIN invocations')
    BY <1>6, <1>10 DEF Sub, InvocationInv, InvocationTypeOK
  <2> QED
    BY <1>2, <1>10, <2>1 DEF EndInner, Sub, InvocationInv, InvocationTypeOK
<1>12. StackDistinct'
  BY <1>2 DEF EndInner, InvocationInv, StackDistinct
<1>13. FiledOnce'
  <2>0. root_invocation' = root_invocation
    BY DEF EndInner
  <2>1. ASSUME NEW k \in DOMAIN invocations'
        PROVE  \/ k \in ToSet(invocation_stack')
               \/ k = root_invocation'
               \/ \E h \in DOMAIN invocations' : k \in ToSet(Sub(invocations', h))
    <3>1. \/ k \in ToSet(invocation_stack) \/ k = root_invocation
          \/ \E h \in DOMAIN invocations : k \in ToSet(Sub(invocations, h))
      BY <1>10 DEF Sub, InvocationInv, FiledOnce
    <3>2. CASE k = top
      <4>1. k \in ToSet(Sub(invocations', parent))
        BY <1>3, <1>6, <1>10, <3>2
      <4> QED
        BY <1>3, <1>10, <4>1
    <3>3. CASE k # top /\ k \in ToSet(invocation_stack)
      BY <1>2, <3>3
    <3>4. CASE \E h \in DOMAIN invocations : k \in ToSet(Sub(invocations, h))
      <4>1. PICK h \in DOMAIN invocations : k \in ToSet(Sub(invocations, h))
        BY <3>4
      <4>2. k \in ToSet(Sub(invocations', h))
        BY <1>6, <1>10, <4>1
      <4> QED
        BY <1>10, <4>2
    <3> QED
      BY <2>0, <3>1, <3>2, <3>3, <3>4
  <2>2. \A h \in DOMAIN invocations : \A p \in DOMAIN Sub(invocations, h) :
          /\ Sub(invocations, h)[p] # top /\ Sub(invocations, h)[p] # root_invocation
          /\ Sub(invocations, h)[p] \notin ToSet(invocation_stack)
          /\ \A g \in DOMAIN invocations : \A q \in DOMAIN Sub(invocations, g) :
               Sub(invocations, g)[q] = Sub(invocations, h)[p] => g = h /\ p = q
    BY <1>2 DEF Sub, InvocationInv, FiledOnce
  <2>3. \A h \in DOMAIN invocations' : \A p \in DOMAIN Sub(invocations', h) :
          \/ p \in DOMAIN Sub(invocations, h) /\ Sub(invocations', h)[p] = Sub(invocations, h)[p]
          \/ /\ h = parent /\ p = Len(Sub(invocations, parent)) + 1
             /\ Sub(invocations', h)[p] = top
    BY <1>6, <1>10
  <2>4. \A h \in DOMAIN invocations' : \A p \in DOMAIN Sub(invocations', h) :
          /\ Sub(invocations', h)[p] \notin ToSet(invocation_stack')
          /\ Sub(invocations', h)[p] # root_invocation'
    <3> SUFFICES ASSUME NEW h \in DOMAIN invocations', NEW p \in DOMAIN Sub(invocations', h)
                 PROVE  /\ Sub(invocations', h)[p] \notin ToSet(invocation_stack')
                        /\ Sub(invocations', h)[p] # root_invocation'
      OBVIOUS
    <3>1. CASE p \in DOMAIN Sub(invocations, h) /\ Sub(invocations', h)[p] = Sub(invocations, h)[p]
      BY <1>2, <1>10, <2>0, <2>2, <3>1
    <3>2. CASE Sub(invocations', h)[p] = top
      BY <1>2, <2>0, <3>2
    <3> QED
      BY <2>3, <3>1, <3>2
  <2>5. \A h \in DOMAIN invocations' : \A p \in DOMAIN Sub(invocations', h) :
          \A g \in DOMAIN invocations' : \A q \in DOMAIN Sub(invocations', g) :
            Sub(invocations', g)[q] = Sub(invocations', h)[p] => g = h /\ p = q
    BY <1>10, <2>2, <2>3
  <2> QED
    BY <2>1, <2>4, <2>5 DEF FiledOnce, Sub
<1> QED
  BY <1>11, <1>12, <1>13 DEF InvocationInv

LEMMA EndInv ==
  ASSUME InvocationInv, NEW code \in ExitCodes \cup {SysAssertionFailed},
         End(code), events' \in Seq(Event), status = "reading"
  PROVE  InvocationInv'
<1>1. CASE EndUnexpected
  BY <1>1, TreeKept DEF EndUnexpected, Panic
<1> QED
  BY <1>1, EndInnerInv, EndRootInv DEF End

-----------------------------------------------------------------------------
(* The inductive invariant: what ends is on the stack and nowhere else, so *)
(* filing it under the one around it cannot make a second copy.            *)
THEOREM InvocationInvariant == InvocationSpec => []InvocationInv
<1>1. InvocationInv /\ [InvocationNext]_invocationVars => InvocationInv'
  <2> SUFFICES ASSUME InvocationInv, [InvocationNext]_invocationVars PROVE InvocationInv'
    OBVIOUS
  <2> USE DEF Event
  <2>1. CASE UNCHANGED invocationVars
    BY <2>1, TreeKept DEF invocationVars, InvocationInv, InvocationTypeOK
  <2>2. CASE ReadCall
    BY <2>2, ReadCallInv
  <2>3. CASE ReadOther
    BY <2>3, ReadType, TreeKept DEF ReadOther, InvocationInv, InvocationTypeOK
  <2>4. CASE \E code \in ExitCodes : ReadCallReturn(code)
    BY <2>4, ReadType, EndInv DEF ReadCallReturn, Read
  <2>5. CASE \E errno \in ErrorNumbers : ReadCallError(errno)
    BY <2>5, ReadType, EndInv DEF ReadCallError, Read
  <2>6. CASE Finish
    BY <2>6, TreeKept DEF Finish, Panic, InvocationInv, InvocationTypeOK
  <2> QED
    BY <2>1, <2>2, <2>3, <2>4, <2>5, <2>6 DEF InvocationNext
<1> QED
  BY InvocationInitInv, <1>1, PTL DEF InvocationSpec

(* Every name on the stack and in the lists is that of an invocation, for  *)
(* any trace of any length.                                                *)
THEOREM InvocationTypeCorrect == InvocationSpec => []InvocationTypeOK
  BY InvocationInvariant, PTL DEF InvocationInv

(* The conversion (trace.rs:77-154) neither loses nor duplicates a call.   *)
THEOREM EveryInvocationFiledOnce == InvocationSpec => []FiledOnce
  BY InvocationInvariant, PTL DEF InvocationInv

-----------------------------------------------------------------------------
(* Counting the events of a trace.                                         *)

(* Calls and ends between two positions of any trace, and their number.    *)
CallsIn(t, from, to) == {j \in DOMAIN t : from <= j /\ j <= to /\ IsCall(t[j])}
EndsIn(t, from, to) == {j \in DOMAIN t : from <= j /\ j <= to /\ IsEnd(t[j])}
Made(t, from, to) == Cardinality(CallsIn(t, from, to))
Over(t, from, to) == Cardinality(EndsIn(t, from, to))

(* The same for any set of events.                                         *)
With(S, x) == S \cup {x}
PositionsIn(t, S, from, to) == {j \in DOMAIN t : from <= j /\ j <= to /\ t[j] \in S}
Calls == {e \in Event : IsCall(e)}
Ends == {e \in Event : IsEnd(e)}

LEMMA PositionsOfTrace ==
  ASSUME NEW t \in Seq(Event), NEW from, NEW to
  PROVE  /\ CallsIn(t, from, to) = PositionsIn(t, Calls, from, to)
         /\ EndsIn(t, from, to) = PositionsIn(t, Ends, from, to)
<1>1. \A j \in DOMAIN t : t[j] \in Event
  BY ElementOfSeq, LenProperties
<1> QED
  BY <1>1 DEF CallsIn, EndsIn, PositionsIn, Calls, Ends

LEMMA PositionsFinite ==
  ASSUME NEW t \in Seq(Event), NEW S, NEW from, NEW to
  PROVE  IsFiniteSet(PositionsIn(t, S, from, to))
<1>1. DOMAIN t = 1..Len(t) /\ Len(t) \in Nat
  BY LenProperties
<1>2. IsFiniteSet(1..Len(t))
  BY <1>1, FS_Interval
<1>3. PositionsIn(t, S, from, to) \subseteq 1..Len(t)
  BY <1>1 DEF PositionsIn
<1> QED
  BY <1>2, <1>3, FS_Subset

(* One more event leaves the positions before it alone, and is one or not. *)
LEMMA PositionsNext ==
  ASSUME NEW t \in Seq(Event), NEW e \in Event, NEW S, NEW from \in Nat, NEW to \in Nat
  PROVE  /\ to <= Len(t) => PositionsIn(Append(t, e), S, from, to) = PositionsIn(t, S, from, to)
         /\ from <= Len(t) + 1 /\ e \in S =>
              PositionsIn(Append(t, e), S, from, Len(t) + 1) =
                With(PositionsIn(t, S, from, Len(t)), Len(t) + 1)
         /\ e \notin S => PositionsIn(Append(t, e), S, from, Len(t) + 1) =
                             PositionsIn(t, S, from, Len(t))
         /\ Len(t) + 1 \notin PositionsIn(t, S, from, Len(t))
<1> DEFINE u == Append(t, e)
           n == Len(t)
<1>1. /\ n \in Nat /\ DOMAIN t = 1..n /\ DOMAIN u = 1..(n + 1)
      /\ \A i \in 1..n : u[i] = t[i]
      /\ u[n + 1] = e
  BY LenProperties
<1> HIDE DEF u, n
<1>2. 1..(n + 1) = 1..n \cup {n + 1} /\ n + 1 \notin 1..n
  BY <1>1
<1>3. \A j \in 1..n : j <= n /\ j <= n + 1
  BY <1>1
<1>4. to <= n => \A j \in 1..(n + 1) : j <= to => j \in 1..n
  BY <1>1
<1>5. to <= n => PositionsIn(u, S, from, to) = PositionsIn(t, S, from, to)
  BY <1>1, <1>2, <1>4 DEF PositionsIn
<1>6. from <= n + 1 /\ e \in S =>
        PositionsIn(u, S, from, n + 1) = With(PositionsIn(t, S, from, n), n + 1)
  BY <1>1, <1>2, <1>3 DEF PositionsIn, With
<1>7. e \notin S => PositionsIn(u, S, from, n + 1) = PositionsIn(t, S, from, n)
  BY <1>1, <1>2, <1>3 DEF PositionsIn
<1>8. n + 1 \notin PositionsIn(t, S, from, n)
  BY <1>1, <1>2 DEF PositionsIn
<1> QED
  BY <1>5, <1>6, <1>7, <1>8 DEF u, n

(* What the next event does to calls, ends and their numbers.              *)
LEMMA CountsFinite ==
  ASSUME NEW t \in Seq(Event), NEW from, NEW to
  PROVE  /\ IsFiniteSet(CallsIn(t, from, to)) /\ Made(t, from, to) \in Nat
         /\ IsFiniteSet(EndsIn(t, from, to)) /\ Over(t, from, to) \in Nat
  BY PositionsOfTrace, PositionsFinite, FS_CardinalityType DEF Made, Over

LEMMA CountsKept ==
  ASSUME NEW t \in Seq(Event), NEW e \in Event, NEW from \in Nat, NEW to \in Nat, to <= Len(t)
  PROVE  /\ CallsIn(Append(t, e), from, to) = CallsIn(t, from, to)
         /\ EndsIn(Append(t, e), from, to) = EndsIn(t, from, to)
         /\ Made(Append(t, e), from, to) = Made(t, from, to)
         /\ Over(Append(t, e), from, to) = Over(t, from, to)
<1>1. Append(t, e) \in Seq(Event)
  OBVIOUS
<1>2. \A S : PositionsIn(Append(t, e), S, from, to) = PositionsIn(t, S, from, to)
  BY PositionsNext
<1>3. /\ CallsIn(Append(t, e), from, to) = PositionsIn(Append(t, e), Calls, from, to)
      /\ EndsIn(Append(t, e), from, to) = PositionsIn(Append(t, e), Ends, from, to)
  BY <1>1, PositionsOfTrace
<1>4. /\ CallsIn(t, from, to) = PositionsIn(t, Calls, from, to)
      /\ EndsIn(t, from, to) = PositionsIn(t, Ends, from, to)
  BY PositionsOfTrace
<1>5. /\ CallsIn(Append(t, e), from, to) = CallsIn(t, from, to)
      /\ EndsIn(Append(t, e), from, to) = EndsIn(t, from, to)
  BY <1>2, <1>3, <1>4
<1> QED
  BY <1>5 DEF Made, Over

LEMMA CountsAdded ==
  ASSUME NEW t \in Seq(Event), NEW e \in Event, NEW from \in Nat, from <= Len(t) + 1
  PROVE  /\ CallsIn(Append(t, e), from, Len(t) + 1) =
              IF IsCall(e) THEN With(CallsIn(t, from, Len(t)), Len(t) + 1)
              ELSE CallsIn(t, from, Len(t))
         /\ EndsIn(Append(t, e), from, Len(t) + 1) =
              IF IsEnd(e) THEN With(EndsIn(t, from, Len(t)), Len(t) + 1)
              ELSE EndsIn(t, from, Len(t))
         /\ Made(Append(t, e), from, Len(t) + 1) =
              Made(t, from, Len(t)) + (IF IsCall(e) THEN 1 ELSE 0)
         /\ Over(Append(t, e), from, Len(t) + 1) =
              Over(t, from, Len(t)) + (IF IsEnd(e) THEN 1 ELSE 0)
<1>1. Append(t, e) \in Seq(Event) /\ Len(t) \in Nat
  BY LenProperties
<1>2. (e \in Calls <=> IsCall(e)) /\ (e \in Ends <=> IsEnd(e))
  BY DEF Calls, Ends
<1>3. /\ CallsIn(Append(t, e), from, Len(t) + 1) =
           IF IsCall(e) THEN With(CallsIn(t, from, Len(t)), Len(t) + 1)
           ELSE CallsIn(t, from, Len(t))
      /\ EndsIn(Append(t, e), from, Len(t) + 1) =
           IF IsEnd(e) THEN With(EndsIn(t, from, Len(t)), Len(t) + 1)
           ELSE EndsIn(t, from, Len(t))
      /\ Len(t) + 1 \notin CallsIn(t, from, Len(t))
      /\ Len(t) + 1 \notin EndsIn(t, from, Len(t))
  <2>1. ASSUME NEW S
        PROVE  /\ PositionsIn(Append(t, e), S, from, Len(t) + 1) =
                    IF e \in S THEN With(PositionsIn(t, S, from, Len(t)), Len(t) + 1)
                    ELSE PositionsIn(t, S, from, Len(t))
               /\ Len(t) + 1 \notin PositionsIn(t, S, from, Len(t))
    BY <1>1, PositionsNext
  <2>2. \A to : /\ CallsIn(Append(t, e), from, to) = PositionsIn(Append(t, e), Calls, from, to)
                /\ EndsIn(Append(t, e), from, to) = PositionsIn(Append(t, e), Ends, from, to)
                /\ CallsIn(t, from, to) = PositionsIn(t, Calls, from, to)
                /\ EndsIn(t, from, to) = PositionsIn(t, Ends, from, to)
    BY <1>1, PositionsOfTrace
  <2> QED
    BY <1>2, <2>1, <2>2
<1> DEFINE n == Len(t) + 1
           calls == CallsIn(t, from, Len(t))
           ends == EndsIn(t, from, Len(t))
<1>4. /\ IsFiniteSet(calls) /\ Cardinality(calls) \in Nat
      /\ IsFiniteSet(ends) /\ Cardinality(ends) \in Nat
  BY CountsFinite DEF Made, Over
<1>5. n \notin calls /\ n \notin ends
  BY <1>3
<1> HIDE DEF n, calls, ends
<1>6. /\ Cardinality(With(calls, n)) = Cardinality(calls) + 1
      /\ Cardinality(With(ends, n)) = Cardinality(ends) + 1
  BY <1>4, <1>5, FS_AddElement DEF With
<1>7. /\ Made(Append(t, e), from, Len(t) + 1) =
           Made(t, from, Len(t)) + (IF IsCall(e) THEN 1 ELSE 0)
      /\ Over(Append(t, e), from, Len(t) + 1) =
           Over(t, from, Len(t)) + (IF IsEnd(e) THEN 1 ELSE 0)
  BY <1>3, <1>4, <1>6 DEF Made, Over, n, calls, ends
<1> QED
  BY <1>3, <1>7

(* After the end of a trace nothing is counted.                            *)
LEMMA CountsPastEnd ==
  ASSUME NEW t \in Seq(Event)
  PROVE  /\ CallsIn(t, Len(t) + 1, Len(t)) = {} /\ Made(t, Len(t) + 1, Len(t)) = 0
         /\ EndsIn(t, Len(t) + 1, Len(t)) = {} /\ Over(t, Len(t) + 1, Len(t)) = 0
<1>1. DOMAIN t = 1..Len(t) /\ Len(t) \in Nat
  BY LenProperties
<1>2. CallsIn(t, Len(t) + 1, Len(t)) = {} /\ EndsIn(t, Len(t) + 1, Len(t)) = {}
  BY <1>1 DEF CallsIn, EndsIn
<1> QED
  BY <1>2, FS_EmptySet DEF Made, Over

-----------------------------------------------------------------------------
(* Places of calls, and where they end.                                    *)

(* What the reference says, of any trace.                                  *)
IsPlace(t, k, c) == c \in DOMAIN t /\ IsCall(t[c]) /\ Made(t, 1, c) = k
PlaceIn(t, k) == CHOOSE j \in DOMAIN t : IsCall(t[j]) /\ Cardinality(CallsIn(t, 1, j)) = k
Endings(t, c) ==
  {j \in EndsIn(t, c, Len(t)) : Cardinality(CallsIn(t, c, j)) = Cardinality(EndsIn(t, c, j))}
EndedIn(t, k) == Endings(t, PlaceIn(t, k)) # {}
EndIn(t, k) == Min(Endings(t, PlaceIn(t, k)))
AroundIn(t, k) == {h \in 1..(k - 1) : EndedIn(t, h) => EndIn(t, h) > PlaceIn(t, k)}
MadeIn(t, S, k) == {h \in S : AroundIn(t, h) # {} /\ Max(AroundIn(t, h)) = k}
CodeOf(event) == IF event.kind = "return" THEN event.exit_code ELSE SysAssertionFailed

LEMMA ReferenceOfTrace ==
  ASSUME NEW k
  PROVE  /\ CallAt(k) = PlaceIn(events, k)
         /\ Ended(k) <=> EndedIn(events, k)
         /\ EndOf(k) = EndIn(events, k)
         /\ Around(k) = AroundIn(events, k)
         /\ MadeBy(k) = MadeIn(events, DOMAIN invocations, k)
<1>1. \A h : CallAt(h) = PlaceIn(events, h)
  BY DEF CallAt, CallsWithin, PlaceIn, CallsIn
<1>2. \A h : EndsOf(h) = Endings(events, PlaceIn(events, h))
  BY <1>1 DEF EndsOf, EndsWithin, CallsWithin, Endings, EndsIn, CallsIn
<1>3. \A h : (Ended(h) <=> EndedIn(events, h)) /\ EndOf(h) = EndIn(events, h)
  BY <1>2 DEF Ended, EndedIn, EndOf, EndIn
<1>4. \A h : Around(h) = AroundIn(events, h)
  BY <1>1, <1>3 DEF Around, AroundIn
<1>5. MadeBy(k) = MadeIn(events, DOMAIN invocations, k)
  BY <1>4 DEF MadeBy, MadeIn
<1> QED
  BY <1>1, <1>3, <1>4, <1>5

(* No two calls have as many calls up to them.                             *)
LEMMA LaterCall ==
  ASSUME NEW t \in Seq(Event), NEW b \in DOMAIN t, NEW c \in DOMAIN t, b < c, IsCall(t[c])
  PROVE  Made(t, 1, b) < Made(t, 1, c)
<1> DEFINE before == CallsIn(t, 1, b)
           after == CallsIn(t, 1, c)
<1>1. /\ IsFiniteSet(before) /\ Cardinality(before) \in Nat
      /\ IsFiniteSet(after) /\ Cardinality(after) \in Nat
  BY CountsFinite DEF Made
<1>2. DOMAIN t = 1..Len(t) /\ Len(t) \in Nat
  BY LenProperties
<1>3. c \notin before
  BY <1>2 DEF CallsIn
<1>4. before \cup {c} \subseteq after
  BY <1>2 DEF CallsIn
<1> HIDE DEF before, after
<1>5. Cardinality(before \cup {c}) = Cardinality(before) + 1
  BY <1>1, <1>3, FS_AddElement
<1>6. Cardinality(before \cup {c}) <= Cardinality(after)
  BY <1>1, <1>4, FS_Subset
<1>7. Cardinality(before) < Cardinality(after)
  BY <1>1, <1>5, <1>6
<1> QED
  BY <1>7 DEF Made, before, after

LEMMA PlaceIs ==
  ASSUME NEW t \in Seq(Event), NEW k, NEW c, IsPlace(t, k, c)
  PROVE  PlaceIn(t, k) = c
<1>1. ASSUME NEW b, IsPlace(t, k, b) PROVE b = c
  <2>1. b \in Nat /\ c \in Nat
    BY <1>1, LenProperties DEF IsPlace
  <2>2. Made(t, 1, b) = k /\ Made(t, 1, c) = k /\ k \in Nat
    BY <1>1, CountsFinite DEF IsPlace
  <2>3. ~(b < c)
    BY <1>1, <2>2, LaterCall DEF IsPlace
  <2>4. ~(c < b)
    BY <1>1, <2>2, LaterCall DEF IsPlace
  <2> QED
    BY <2>1, <2>3, <2>4
<1>2. IsPlace(t, k, PlaceIn(t, k))
  BY DEF IsPlace, PlaceIn, Made
<1> QED
  BY <1>1, <1>2

LEMMA PlaceKept ==
  ASSUME NEW t \in Seq(Event), NEW e \in Event, NEW k, IsPlace(t, k, PlaceIn(t, k))
  PROVE  /\ PlaceIn(Append(t, e), k) = PlaceIn(t, k)
         /\ IsPlace(Append(t, e), k, PlaceIn(t, k))
<1> DEFINE c == PlaceIn(t, k)
<1>1. /\ c \in 1..Len(t) /\ Len(t) \in Nat /\ DOMAIN Append(t, e) = 1..(Len(t) + 1)
      /\ Append(t, e)[c] = t[c] /\ Append(t, e) \in Seq(Event)
  BY LenProperties DEF IsPlace
<1>2. Made(Append(t, e), 1, c) = Made(t, 1, c)
  BY <1>1, CountsKept
<1>3. IsPlace(Append(t, e), k, c)
  BY <1>1, <1>2 DEF IsPlace
<1> HIDE DEF c
<1> QED
  BY <1>1, <1>3, PlaceIs DEF c

LEMMA PlaceNew ==
  ASSUME NEW t \in Seq(Event), NEW e \in Event, IsCall(e)
  PROVE  /\ PlaceIn(Append(t, e), Made(t, 1, Len(t)) + 1) = Len(t) + 1
         /\ IsPlace(Append(t, e), Made(t, 1, Len(t)) + 1, Len(t) + 1)
<1>1. /\ Len(t) \in Nat /\ DOMAIN Append(t, e) = 1..(Len(t) + 1)
      /\ Append(t, e)[Len(t) + 1] = e /\ Append(t, e) \in Seq(Event)
  BY LenProperties
<1>2. Made(Append(t, e), 1, Len(t) + 1) = Made(t, 1, Len(t)) + 1
  BY <1>1, CountsAdded
<1>3. IsPlace(Append(t, e), Made(t, 1, Len(t)) + 1, Len(t) + 1)
  BY <1>1, <1>2 DEF IsPlace
<1> QED
  BY <1>1, <1>3, PlaceIs

(* Sets of naturals have a least element.                                  *)
LEMMA MinOf ==
  ASSUME NEW S, S \subseteq Nat, S # {}
  PROVE  Min(S) \in S /\ \A m \in S : Min(S) <= m
<1>1. PICK x \in S : \A y \in S : ~(<<y, x>> \in OpToRel(<, Nat))
  BY NatLessThanWellFounded, WFMin, Zenon
<1>2. \A y \in S : ~(y < x)
  BY <1>1, Zenon DEF OpToRel
<1>3. \A y \in S : x <= y
  BY <1>2
<1>4. \E m \in S : \A y \in S : m <= y
  BY <1>3
<1> QED
  BY <1>4 DEF Min

LEMMA MinIs ==
  ASSUME NEW S, S \subseteq Nat, NEW x \in S, \A y \in S : x <= y
  PROVE  Min(S) = x
<1>1. Min(S) \in S /\ Min(S) <= x
  BY MinOf
<1>2. x <= Min(S) /\ x \in Nat /\ Min(S) \in Nat
  BY <1>1
<1> QED
  BY <1>1, <1>2

LEMMA MaxIs ==
  ASSUME NEW S, S \subseteq Nat, NEW x \in S, \A y \in S : x >= y
  PROVE  Max(S) = x
<1>1. Max(S) \in S /\ Max(S) >= x
  BY DEF Max
<1>2. x >= Max(S) /\ x \in Nat /\ Max(S) \in Nat
  BY <1>1
<1> QED
  BY <1>1, <1>2

(* The next event ends a call if as many have ended since as were made.    *)
Ending(t, e, c) == IsEnd(e) /\ Made(t, c, Len(t)) = Over(t, c, Len(t)) + 1

LEMMA EndingsNext ==
  ASSUME NEW t \in Seq(Event), NEW e \in Event, NEW c \in DOMAIN t
  PROVE  /\ Endings(t, c) \subseteq 1..Len(t)
         /\ Ending(t, e, c) => Endings(Append(t, e), c) = With(Endings(t, c), Len(t) + 1)
         /\ ~Ending(t, e, c) => Endings(Append(t, e), c) = Endings(t, c)
<1> DEFINE u == Append(t, e)
           n == Len(t)
<1>1. n \in Nat /\ DOMAIN t = 1..n /\ c \in Nat /\ c <= n + 1 /\ Len(u) = n + 1
  BY LenProperties
<1>2. EndsIn(t, c, n) \subseteq 1..n
  BY <1>1 DEF EndsIn
<1>3. \A j \in 1..n : Made(u, c, j) = Made(t, c, j) /\ Over(u, c, j) = Over(t, c, j)
  BY <1>1, CountsKept
<1>4. EndsIn(u, c, n + 1) = IF IsEnd(e) THEN With(EndsIn(t, c, n), n + 1) ELSE EndsIn(t, c, n)
  BY <1>1, CountsAdded
<1>5. IsEnd(e) => Made(u, c, n + 1) = Made(t, c, n) /\ Over(u, c, n + 1) = Over(t, c, n) + 1
  <2>1. IsEnd(e) => ~IsCall(e)
    BY DEF IsEnd, IsCall
  <2> QED
    BY <1>1, <2>1, CountsAdded, CountsFinite
<1>6. /\ Endings(t, c) = {j \in EndsIn(t, c, n) : Made(t, c, j) = Over(t, c, j)}
      /\ Endings(u, c) = {j \in EndsIn(u, c, n + 1) : Made(u, c, j) = Over(u, c, j)}
  BY <1>1 DEF Endings, Made, Over
<1>7. Ending(t, e, c) <=> IsEnd(e) /\ Made(t, c, n) = Over(t, c, n) + 1
  BY DEF Ending
<1> HIDE DEF u, n
<1>8. Endings(t, c) \subseteq 1..n
  BY <1>2, <1>6
<1>9. Ending(t, e, c) => Endings(u, c) = With(Endings(t, c), n + 1)
  BY <1>2, <1>3, <1>4, <1>5, <1>6, <1>7 DEF With
<1>10. ~Ending(t, e, c) => Endings(u, c) = Endings(t, c)
  BY <1>2, <1>3, <1>4, <1>5, <1>6, <1>7 DEF With
<1> QED
  BY <1>8, <1>9, <1>10 DEF u, n

LEMMA EndingsNew ==
  ASSUME NEW t \in Seq(Event), NEW e \in Event, IsCall(e)
  PROVE  Endings(Append(t, e), Len(t) + 1) = {}
<1>1. ~IsEnd(e)
  BY DEF IsCall, IsEnd
<1>2. Len(t) \in Nat /\ Len(Append(t, e)) = Len(t) + 1
  BY LenProperties
<1>3. EndsIn(Append(t, e), Len(t) + 1, Len(t) + 1) = EndsIn(t, Len(t) + 1, Len(t))
  BY <1>1, <1>2, CountsAdded
<1> QED
  BY <1>2, <1>3, CountsPastEnd DEF Endings

(* What has ended stays so, with the same end; what has not may end now.   *)
LEMMA CallNext ==
  ASSUME NEW t \in Seq(Event), NEW e \in Event, NEW k, IsPlace(t, k, PlaceIn(t, k))
  PROVE  /\ PlaceIn(Append(t, e), k) = PlaceIn(t, k) /\ PlaceIn(t, k) \in 1..Len(t)
         /\ EndedIn(t, k) => /\ EndedIn(Append(t, e), k)
                             /\ EndIn(Append(t, e), k) = EndIn(t, k)
                             /\ EndIn(t, k) \in 1..Len(t)
         /\ ~EndedIn(t, k) =>
              /\ EndedIn(Append(t, e), k) <=> Ending(t, e, PlaceIn(t, k))
              /\ EndedIn(Append(t, e), k) => EndIn(Append(t, e), k) = Len(t) + 1
<1> DEFINE c == PlaceIn(t, k)
           u == Append(t, e)
           n == Len(t)
           old == Endings(t, c)
           new == Endings(u, c)
<1>1. c \in 1..n /\ n \in Nat
  BY LenProperties DEF IsPlace
<1>2. PlaceIn(u, k) = c
  BY PlaceKept
<1>3. /\ old \subseteq 1..n
      /\ Ending(t, e, c) => new = With(old, n + 1)
      /\ ~Ending(t, e, c) => new = old
  BY EndingsNext DEF IsPlace
<1>4. /\ EndedIn(t, k) <=> old # {}
      /\ EndIn(t, k) = Min(old)
      /\ EndedIn(u, k) <=> new # {}
      /\ EndIn(u, k) = Min(new)
  BY <1>2 DEF EndedIn, EndIn
<1> HIDE DEF c, u, n, old, new
<1>5. old # {} => new # {} /\ Min(new) = Min(old) /\ Min(old) \in 1..n
  <2> SUFFICES ASSUME old # {}
               PROVE  new # {} /\ Min(new) = Min(old) /\ Min(old) \in 1..n
    OBVIOUS
  <2>0. old \subseteq Nat /\ n + 1 \in Nat
    BY <1>1, <1>3
  <2>1. Min(old) \in old /\ \A m \in old : Min(old) <= m
    BY <2>0, MinOf
  <2>2. Min(old) \in 1..n
    BY <1>3, <2>1
  <2>3. new \subseteq Nat /\ Min(old) \in new /\ \A m \in new : Min(old) <= m
    <3>1. Min(old) <= n + 1
      BY <1>1, <2>2
    <3> QED
      BY <1>3, <2>0, <2>1, <3>1 DEF With
  <2>4. Min(new) = Min(old)
    BY <2>3, MinIs
  <2> QED
    BY <2>2, <2>3, <2>4
<1>6. old = {} => (new # {} <=> Ending(t, e, c)) /\ (new # {} => Min(new) = n + 1)
  <2> SUFFICES ASSUME old = {}, Ending(t, e, c)
               PROVE  new # {} /\ Min(new) = n + 1
    BY <1>3
  <2>1. new = {n + 1}
    BY <1>3 DEF With
  <2>2. new \subseteq Nat /\ n + 1 \in new /\ \A m \in new : n + 1 <= m
    BY <1>1, <2>1
  <2> QED
    BY <2>2, MinIs
<1> QED
  BY <1>1, <1>2, <1>4, <1>5, <1>6 DEF c, u, n

(* Every call up to the k-th has its place.                                *)
Placed(t, k) == \A h \in 1..k : IsPlace(t, h, PlaceIn(t, h))

(* What is around a call is settled when it is made: the calls then open.  *)
LEMMA AroundKept ==
  ASSUME NEW t \in Seq(Event), NEW e \in Event, NEW k \in Nat, Placed(t, k), k >= 1
  PROVE  AroundIn(Append(t, e), k) = AroundIn(t, k)
<1>1. \A h \in 1..k : IsPlace(t, h, PlaceIn(t, h))
  BY DEF Placed
<1>2. PlaceIn(Append(t, e), k) = PlaceIn(t, k) /\ PlaceIn(t, k) \in 1..Len(t)
  BY <1>1, CallNext
<1>3. ASSUME NEW h \in 1..(k - 1)
      PROVE  (EndedIn(Append(t, e), h) => EndIn(Append(t, e), h) > PlaceIn(t, k))
               <=> (EndedIn(t, h) => EndIn(t, h) > PlaceIn(t, k))
  <2>1. h \in 1..k
    OBVIOUS
  <2>2. /\ EndedIn(t, h) => /\ EndedIn(Append(t, e), h)
                            /\ EndIn(Append(t, e), h) = EndIn(t, h)
        /\ ~EndedIn(t, h) /\ EndedIn(Append(t, e), h) => EndIn(Append(t, e), h) = Len(t) + 1
    BY <1>1, <2>1, CallNext
  <2>3. Len(t) + 1 > PlaceIn(t, k)
    BY <1>2, LenProperties
  <2> QED
    BY <2>2, <2>3
<1> QED
  BY <1>2, <1>3 DEF AroundIn

LEMMA AroundNew ==
  ASSUME NEW t \in Seq(Event), NEW e \in Event, IsCall(e), Placed(t, Made(t, 1, Len(t)))
  PROVE  AroundIn(Append(t, e), Made(t, 1, Len(t)) + 1) =
           {h \in 1..Made(t, 1, Len(t)) : ~EndedIn(t, h)}
<1> DEFINE k == Made(t, 1, Len(t))
<1>1. k \in Nat /\ Len(t) \in Nat
  BY CountsFinite, LenProperties
<1>2. PlaceIn(Append(t, e), k + 1) = Len(t) + 1
  BY PlaceNew
<1>3. ASSUME NEW h \in 1..k
      PROVE  (EndedIn(Append(t, e), h) => EndIn(Append(t, e), h) > Len(t) + 1)
               <=> ~EndedIn(t, h)
  <2>1. IsPlace(t, h, PlaceIn(t, h))
    BY DEF Placed
  <2>2. /\ EndedIn(t, h) => /\ EndedIn(Append(t, e), h)
                            /\ EndIn(Append(t, e), h) \in 1..Len(t)
        /\ ~EndedIn(t, h) => (EndedIn(Append(t, e), h) <=> Ending(t, e, PlaceIn(t, h)))
    BY <2>1, CallNext
  <2>3. ~Ending(t, e, PlaceIn(t, h))
    BY DEF Ending, IsCall, IsEnd
  <2> QED
    BY <1>1, <2>2, <2>3
<1> HIDE DEF k
<1>4. (k + 1) - 1 = k
  BY <1>1
<1>5. AroundIn(Append(t, e), k + 1) = {h \in 1..k : ~EndedIn(t, h)}
  BY <1>2, <1>3, <1>4 DEF AroundIn
<1> QED
  BY <1>5 DEF k

-----------------------------------------------------------------------------
(* The stack and the trace that led to it.                                 *)

(* n calls were made; those that have not ended are on the stack s, in     *)
(* order, each in those before it; from the p-th on as many are open as    *)
(* the stack is high from there.                                           *)
Increasing(s) == \A p, q \in DOMAIN s : p < q => s[p] < s[q]
OpenCounted(t, s) ==
  \A p \in DOMAIN s :
    Made(t, PlaceIn(t, s[p]), Len(t)) + p = Over(t, PlaceIn(t, s[p]), Len(t)) + Len(s) + 1
OpenNested(t, s) == \A p \in DOMAIN s : AroundIn(t, s[p]) = {s[q] : q \in 1..(p - 1)}

Scanned(t, s, n) ==
  /\ Made(t, 1, Len(t)) = n /\ n = Over(t, 1, Len(t)) + Len(s)
  /\ s \in Seq(1..n) /\ Increasing(s)
  /\ Placed(t, n)
  /\ \A k \in 1..n : EndedIn(t, k) <=> k \notin ToSet(s)
  /\ OpenCounted(t, s)
  /\ OpenNested(t, s)

LEMMA ScannedFacts ==
  ASSUME NEW t \in Seq(Event), NEW s, NEW n, Scanned(t, s, n)
  PROVE  /\ n \in Nat /\ Len(s) \in Nat /\ DOMAIN s = 1..Len(s)
         /\ Len(t) \in Nat /\ DOMAIN t = 1..Len(t)
         /\ Over(t, 1, Len(t)) \in Nat /\ Made(t, 1, Len(t)) = n
         /\ \A p \in DOMAIN s : s[p] \in 1..n /\ s[p] \in Nat /\ s[p] \in ToSet(s)
         /\ \A p, q \in DOMAIN s : s[p] = s[q] => p = q
<1>1. n \in Nat /\ Over(t, 1, Len(t)) \in Nat /\ s \in Seq(1..n) /\ Made(t, 1, Len(t)) = n
  BY CountsFinite DEF Scanned
<1>2. Len(s) \in Nat /\ DOMAIN s = 1..Len(s) /\ Len(t) \in Nat /\ DOMAIN t = 1..Len(t)
  BY <1>1, LenProperties
<1>3. \A p \in DOMAIN s : s[p] \in 1..n /\ s[p] \in Nat /\ s[p] \in ToSet(s)
  BY <1>1, <1>2, ElementOfSeq DEF ToSet
<1>4. \A p, q \in DOMAIN s : p < q => s[p] < s[q]
  BY DEF Scanned, Increasing
<1>5. \A p, q \in DOMAIN s : s[p] = s[q] => p = q
  BY <1>2, <1>3, <1>4
<1> QED
  BY <1>1, <1>2, <1>3, <1>5

(* How the counts from an open call go on.                                 *)
LEMMA OpenNext ==
  ASSUME NEW t \in Seq(Event), NEW e \in Event, NEW k, IsPlace(t, k, PlaceIn(t, k))
  PROVE  LET c == PlaceIn(t, k)
             u == Append(t, e)
         IN /\ Made(t, c, Len(t)) \in Nat /\ Over(t, c, Len(t)) \in Nat
            /\ Made(u, PlaceIn(u, k), Len(u)) =
                 Made(t, c, Len(t)) + (IF IsCall(e) THEN 1 ELSE 0)
            /\ Over(u, PlaceIn(u, k), Len(u)) =
                 Over(t, c, Len(t)) + (IF IsEnd(e) THEN 1 ELSE 0)
<1>1. /\ PlaceIn(Append(t, e), k) = PlaceIn(t, k)
      /\ PlaceIn(t, k) \in Nat /\ PlaceIn(t, k) <= Len(t) + 1
      /\ Len(Append(t, e)) = Len(t) + 1
  BY CallNext, LenProperties
<1>2. Made(t, PlaceIn(t, k), Len(t)) \in Nat /\ Over(t, PlaceIn(t, k), Len(t)) \in Nat
  BY CountsFinite
<1> QED
  BY <1>1, <1>2, CountsAdded

(* Facts about calls made before that every step keeps.                    *)
LEMMA PastKept ==
  ASSUME NEW t \in Seq(Event), NEW e \in Event, NEW s, NEW n, Scanned(t, s, n)
  PROVE  /\ \A k \in 1..n : IsPlace(Append(t, e), k, PlaceIn(Append(t, e), k))
         /\ \A k \in 1..n : AroundIn(Append(t, e), k) = AroundIn(t, k)
<1>1. Placed(t, n) /\ n \in Nat
  BY ScannedFacts DEF Scanned
<1>2. ASSUME NEW k \in 1..n
      PROVE  /\ IsPlace(Append(t, e), k, PlaceIn(Append(t, e), k))
             /\ AroundIn(Append(t, e), k) = AroundIn(t, k)
  <2>1. IsPlace(t, k, PlaceIn(t, k))
    BY <1>1 DEF Placed
  <2>2. Placed(t, k)
    <3>1. \A h \in 1..k : h \in 1..n
      BY <1>1
    <3> QED
      BY <1>1, <3>1 DEF Placed
  <2> QED
    BY <2>1, <2>2, PlaceKept, AroundKept
<1> QED
  BY <1>2

LEMMA ScanOther ==
  ASSUME NEW t \in Seq(Event), NEW e \in Event, NEW s, NEW n, Scanned(t, s, n),
         ~IsCall(e), ~IsEnd(e)
  PROVE  /\ Scanned(Append(t, e), s, n)
         /\ \A k \in 1..n : EndedIn(Append(t, e), k) <=> EndedIn(t, k)
<1> DEFINE u == Append(t, e)
<1>1. /\ Len(t) \in Nat /\ Len(u) = Len(t) + 1 /\ n \in Nat /\ Len(s) \in Nat
      /\ DOMAIN s = 1..Len(s) /\ \A p \in DOMAIN s : s[p] \in 1..n
  BY ScannedFacts, LenProperties
<1>2. Made(u, 1, Len(u)) = n /\ n = Over(u, 1, Len(u)) + Len(s)
  <2>1. Made(u, 1, Len(u)) = Made(t, 1, Len(t)) /\ Over(u, 1, Len(u)) = Over(t, 1, Len(t))
    BY <1>1, CountsAdded, CountsFinite
  <2> QED
    BY <2>1 DEF Scanned
<1>3. /\ Placed(u, n)
      /\ \A k \in 1..n : AroundIn(u, k) = AroundIn(t, k)
  BY PastKept DEF Placed
<1>4. \A k \in 1..n : EndedIn(u, k) <=> EndedIn(t, k)
  <2>1. \A c : ~Ending(t, e, c)
    BY DEF Ending
  <2>2. \A k \in 1..n : IsPlace(t, k, PlaceIn(t, k))
    BY DEF Scanned, Placed
  <2> QED
    BY <2>1, <2>2, CallNext
<1>5. ASSUME NEW p \in DOMAIN s
      PROVE  Made(u, PlaceIn(u, s[p]), Len(u)) + p = Over(u, PlaceIn(u, s[p]), Len(u)) + Len(s) + 1
  <2>1. IsPlace(t, s[p], PlaceIn(t, s[p]))
    BY <1>1 DEF Scanned, Placed
  <2>2. /\ Made(u, PlaceIn(u, s[p]), Len(u)) = Made(t, PlaceIn(t, s[p]), Len(t))
        /\ Over(u, PlaceIn(u, s[p]), Len(u)) = Over(t, PlaceIn(t, s[p]), Len(t))
    BY <2>1, OpenNext
  <2> QED
    BY <2>2 DEF Scanned, OpenCounted
<1>6. OpenNested(u, s)
  BY <1>1, <1>3 DEF Scanned, OpenNested
<1> HIDE DEF u
<1>7. Scanned(u, s, n)
  BY <1>2, <1>3, <1>4, <1>5, <1>6 DEF Scanned, OpenCounted
<1> QED
  BY <1>4, <1>7 DEF u

(* A call goes on the stack, and is in all that was there.                 *)
LEMMA ScanCall ==
  ASSUME NEW t \in Seq(Event), NEW e \in Event, NEW s, NEW n, Scanned(t, s, n), IsCall(e)
  PROVE  /\ Scanned(Append(t, e), Append(s, n + 1), n + 1)
         /\ \A k \in 1..n : EndedIn(Append(t, e), k) <=> EndedIn(t, k)
         /\ ~EndedIn(Append(t, e), n + 1)
         /\ AroundIn(Append(t, e), n + 1) = ToSet(s)
<1> DEFINE u == Append(t, e)
           r == Append(s, n + 1)
           d == Len(s)
<1>1. /\ Len(t) \in Nat /\ Len(u) = Len(t) + 1 /\ n \in Nat /\ d \in Nat
      /\ DOMAIN s = 1..d /\ s \in Seq(1..n)
      /\ \A p \in DOMAIN s : s[p] \in 1..n /\ s[p] \in Nat
  BY ScannedFacts, LenProperties DEF Scanned
<1>2. ~IsEnd(e)
  BY DEF IsCall, IsEnd
<1>3. s \in Seq(1..(n + 1)) /\ n + 1 \in 1..(n + 1)
  <2>1. 1..n \subseteq 1..(n + 1)
    BY <1>1
  <2> QED
    BY <1>1, <2>1, SeqMonotonic
<1>4. /\ r \in Seq(1..(n + 1)) /\ Len(r) = d + 1 /\ DOMAIN r = 1..(d + 1)
      /\ \A p \in 1..d : r[p] = s[p]
      /\ r[d + 1] = n + 1
      /\ ToSet(r) = ToSet(s) \cup {n + 1}
  BY <1>3, AppendElements, LenProperties
<1>5. ToSet(s) \subseteq 1..n /\ n + 1 \notin ToSet(s)
  BY <1>1 DEF ToSet
<1>6. Made(u, 1, Len(u)) = n + 1 /\ n + 1 = Over(u, 1, Len(u)) + Len(r)
  <2>1. Made(u, 1, Len(u)) = Made(t, 1, Len(t)) + 1 /\ Over(u, 1, Len(u)) = Over(t, 1, Len(t))
    BY <1>1, <1>2, CountsAdded, CountsFinite
  <2>2. Over(t, 1, Len(t)) \in Nat /\ Made(t, 1, Len(t)) = n /\ n = Over(t, 1, Len(t)) + d
    BY ScannedFacts DEF Scanned
  <2> QED
    BY <1>1, <1>4, <2>1, <2>2
<1>7. Increasing(r)
  <2>1. \A p, q \in 1..d : p < q => s[p] < s[q]
    BY <1>1 DEF Scanned, Increasing
  <2>2. \A p \in 1..d : s[p] < n + 1
    BY <1>1
  <2>3. \A q \in 1..(d + 1) : q \in 1..d \/ q = d + 1
    BY <1>1
  <2>4. ASSUME NEW p \in 1..(d + 1), NEW q \in 1..(d + 1), p < q
        PROVE  r[p] < r[q]
    <3>1. p \in 1..d
      BY <1>1, <2>4
    <3>2. CASE q \in 1..d
      BY <1>4, <2>1, <2>4, <3>1, <3>2
    <3>3. CASE q = d + 1
      BY <1>4, <2>2, <3>1, <3>3
    <3> QED
      BY <2>3, <3>2, <3>3
  <2> QED
    BY <1>4, <2>4 DEF Increasing
<1>8. /\ \A k \in 1..n : IsPlace(u, k, PlaceIn(u, k))
      /\ \A k \in 1..n : AroundIn(u, k) = AroundIn(t, k)
  BY PastKept
<1>9. PlaceIn(u, n + 1) = Len(t) + 1 /\ IsPlace(u, n + 1, PlaceIn(u, n + 1))
  <2>1. Made(t, 1, Len(t)) = n
    BY DEF Scanned
  <2> QED
    BY <2>1, PlaceNew
<1>10. Placed(u, n + 1)
  <2>1. \A k \in 1..(n + 1) : k \in 1..n \/ k = n + 1
    BY <1>1
  <2> QED
    BY <1>8, <1>9, <2>1 DEF Placed
<1>11. \A k \in 1..n : EndedIn(u, k) <=> EndedIn(t, k)
  <2>1. \A c : ~Ending(t, e, c)
    BY <1>2 DEF Ending
  <2>2. \A k \in 1..n : IsPlace(t, k, PlaceIn(t, k))
    BY DEF Scanned, Placed
  <2> QED
    BY <2>1, <2>2, CallNext
<1>12. ~EndedIn(u, n + 1)
  BY <1>9, EndingsNew DEF EndedIn
<1>13. \A k \in 1..(n + 1) : EndedIn(u, k) <=> k \notin ToSet(r)
  <2>1. \A k \in 1..(n + 1) : k \in 1..n \/ k = n + 1
    BY <1>1
  <2>2. \A k \in 1..n : EndedIn(t, k) <=> k \notin ToSet(s)
    BY DEF Scanned
  <2>3. n + 1 \notin 1..n
    BY <1>1
  <2> QED
    BY <1>4, <1>11, <1>12, <2>1, <2>2, <2>3
<1>14. AroundIn(u, n + 1) = ToSet(s)
  <2>1. Made(t, 1, Len(t)) = n /\ Placed(t, n)
    BY DEF Scanned
  <2>2. AroundIn(u, n + 1) = {h \in 1..n : ~EndedIn(t, h)}
    BY <2>1, AroundNew
  <2>3. \A k \in 1..n : EndedIn(t, k) <=> k \notin ToSet(s)
    BY DEF Scanned
  <2> QED
    BY <1>5, <2>2, <2>3
<1>15. ASSUME NEW p \in DOMAIN r
       PROVE  Made(u, PlaceIn(u, r[p]), Len(u)) + p = Over(u, PlaceIn(u, r[p]), Len(u)) + Len(r) + 1
  <2>1. CASE p \in 1..d
    <3>1. r[p] = s[p] /\ IsPlace(t, s[p], PlaceIn(t, s[p]))
      BY <1>1, <1>4, <2>1 DEF Scanned, Placed
    <3>2. /\ Made(t, PlaceIn(t, s[p]), Len(t)) \in Nat /\ Over(t, PlaceIn(t, s[p]), Len(t)) \in Nat
          /\ Made(u, PlaceIn(u, s[p]), Len(u)) = Made(t, PlaceIn(t, s[p]), Len(t)) + 1
          /\ Over(u, PlaceIn(u, s[p]), Len(u)) = Over(t, PlaceIn(t, s[p]), Len(t))
      BY <1>2, <3>1, OpenNext
    <3>3. Made(t, PlaceIn(t, s[p]), Len(t)) + p = Over(t, PlaceIn(t, s[p]), Len(t)) + d + 1
      BY <1>1, <2>1 DEF Scanned, OpenCounted
    <3> HIDE DEF u, r, d
    <3> QED
      BY <1>1, <1>4, <2>1, <3>1, <3>2, <3>3
  <2>2. CASE p = d + 1
    <3>1. PlaceIn(u, r[p]) = Len(t) + 1
      BY <1>4, <1>9, <2>2
    <3>2. Len(t) + 1 \in Nat /\ Len(t) + 1 <= Len(t) + 1
      BY <1>1
    <3>3. /\ Made(u, Len(t) + 1, Len(t) + 1) = Made(t, Len(t) + 1, Len(t)) + 1
          /\ Over(u, Len(t) + 1, Len(t) + 1) = Over(t, Len(t) + 1, Len(t)) + 0
      BY <1>2, <3>2, CountsAdded
    <3>4. Made(u, Len(t) + 1, Len(t) + 1) = 1 /\ Over(u, Len(t) + 1, Len(t) + 1) = 0
      BY <3>3, CountsPastEnd
    <3> HIDE DEF u, r, d
    <3> QED
      BY <1>1, <1>4, <2>2, <3>1, <3>4
  <2> QED
    BY <1>1, <1>4, <2>1, <2>2
<1>16. OpenNested(u, r)
  <2>1. ASSUME NEW p \in 1..d
        PROVE  AroundIn(u, r[p]) = {r[q] : q \in 1..(p - 1)}
    <3>1. AroundIn(t, s[p]) = {s[q] : q \in 1..(p - 1)}
      BY <1>1, <2>1 DEF Scanned, OpenNested
    <3>2. \A q \in 1..(p - 1) : r[q] = s[q]
      BY <1>1, <1>4, <2>1
    <3> QED
      BY <1>1, <1>4, <1>8, <2>1, <3>1, <3>2
  <2>2. AroundIn(u, r[d + 1]) = {r[q] : q \in 1..((d + 1) - 1)}
    <3>1. (d + 1) - 1 = d
      BY <1>1
    <3>2. ToSet(s) = {r[q] : q \in 1..d}
      BY <1>1, <1>4 DEF ToSet
    <3> QED
      BY <1>4, <1>14, <3>1, <3>2
  <2>3. \A p \in 1..(d + 1) : p \in 1..d \/ p = d + 1
    BY <1>1
  <2> QED
    BY <1>4, <2>1, <2>2, <2>3 DEF OpenNested
<1> HIDE DEF u, r, d
<1>17. Scanned(u, r, n + 1)
  BY <1>4, <1>6, <1>7, <1>10, <1>13, <1>15, <1>16 DEF Scanned, OpenCounted
<1> QED
  BY <1>11, <1>12, <1>14, <1>17 DEF u, r

(* The end of a call ends the innermost one, and no other.                 *)
LEMMA ScanEnd ==
  ASSUME NEW t \in Seq(Event), NEW e \in Event, NEW s, NEW n, Scanned(t, s, n),
         IsEnd(e), s # <<>>
  PROVE  /\ Scanned(Append(t, e), Front(s), n)
         /\ \A k \in 1..n : EndedIn(Append(t, e), k) <=> EndedIn(t, k) \/ k = Last(s)
         /\ EndIn(Append(t, e), Last(s)) = Len(t) + 1
<1> DEFINE u == Append(t, e)
           r == Front(s)
           d == Len(s)
<1>1. /\ Len(t) \in Nat /\ Len(u) = Len(t) + 1 /\ n \in Nat /\ d \in Nat
      /\ DOMAIN s = 1..d /\ s \in Seq(1..n)
      /\ \A p \in DOMAIN s : s[p] \in 1..n /\ s[p] \in Nat
      /\ \A p, q \in DOMAIN s : s[p] = s[q] => p = q
  BY ScannedFacts, LenProperties DEF Scanned
<1>2. ~IsCall(e)
  BY DEF IsCall, IsEnd
<1>3. /\ r \in Seq(1..n) /\ d >= 1 /\ DOMAIN r = 1..(d - 1)
      /\ \A p \in 1..(d - 1) : r[p] = s[p]
      /\ Last(s) = s[d] /\ ToSet(r) = ToSet(s) \ {Last(s)} /\ Last(s) \in ToSet(s)
  BY <1>1, FrontFacts, FrontElements
<1>4. Len(r) = d - 1 /\ d \in 1..d /\ 1..(d - 1) \subseteq 1..d
  <2>1. s \in Seq(1..n) /\ s # <<>>
    BY <1>1
  <2>2. Len(Front(s)) = Len(s) - 1
    BY <2>1, FrontFacts
  <2>3. Len(r) = d - 1
    BY <2>2
  <2> HIDE DEF r, d
  <2> QED
    BY <1>1, <1>3, <2>3
<1>5. Made(u, 1, Len(u)) = n /\ n = Over(u, 1, Len(u)) + Len(r)
  <2>1. Made(u, 1, Len(u)) = Made(t, 1, Len(t)) + 0 /\ Over(u, 1, Len(u)) = Over(t, 1, Len(t)) + 1
    BY <1>1, <1>2, CountsAdded
  <2>2. Over(t, 1, Len(t)) \in Nat /\ Made(t, 1, Len(t)) = n /\ n = Over(t, 1, Len(t)) + d
    BY ScannedFacts DEF Scanned
  <2> HIDE DEF u, r, d
  <2> QED
    BY <1>1, <1>3, <1>4, <2>1, <2>2
<1>6. Increasing(r)
  <2>1. \A p, q \in 1..d : p < q => s[p] < s[q]
    BY <1>1 DEF Scanned, Increasing
  <2> HIDE DEF r, d
  <2> QED
    BY <1>3, <1>4, <2>1 DEF Increasing
<1>7. /\ Placed(u, n)
      /\ \A k \in 1..n : AroundIn(u, k) = AroundIn(t, k)
  BY PastKept DEF Placed
<1>8. \A k \in 1..n : IsPlace(t, k, PlaceIn(t, k))
  BY DEF Scanned, Placed
<1>9. ASSUME NEW p \in 1..d
      PROVE  /\ Made(t, PlaceIn(t, s[p]), Len(t)) \in Nat /\ Over(t, PlaceIn(t, s[p]), Len(t)) \in Nat
             /\ Made(t, PlaceIn(t, s[p]), Len(t)) + p = Over(t, PlaceIn(t, s[p]), Len(t)) + d + 1
             /\ Ending(t, e, PlaceIn(t, s[p])) <=> p = d
  <2>1. Made(t, PlaceIn(t, s[p]), Len(t)) \in Nat /\ Over(t, PlaceIn(t, s[p]), Len(t)) \in Nat
    BY CountsFinite
  <2>2. Made(t, PlaceIn(t, s[p]), Len(t)) + p = Over(t, PlaceIn(t, s[p]), Len(t)) + d + 1
    BY <1>1 DEF Scanned, OpenCounted
  <2> HIDE DEF d
  <2> QED
    BY <1>1, <2>1, <2>2 DEF Ending
<1>10. \A k \in 1..n : EndedIn(t, k) <=> k \notin ToSet(s)
  BY DEF Scanned
<1>11. ASSUME NEW k \in 1..n
       PROVE  EndedIn(u, k) <=> EndedIn(t, k) \/ k = Last(s)
  <2>1. CASE EndedIn(t, k)
    BY <1>8, <2>1, CallNext
  <2>2. CASE ~EndedIn(t, k)
    <3>1. PICK p \in 1..d : k = s[p]
      BY <1>1, <1>10, <2>2 DEF ToSet
    <3>2. EndedIn(u, k) <=> Ending(t, e, PlaceIn(t, k))
      BY <1>8, <2>2, CallNext
    <3>3. k = Last(s) <=> p = d
      <4>1. s[p] = s[d] => p = d
        BY <1>1, <1>4
      <4> QED
        BY <1>3, <3>1, <4>1
    <3> QED
      BY <1>9, <2>2, <3>1, <3>2, <3>3
  <2> QED
    BY <2>1, <2>2
<1>12. EndIn(u, Last(s)) = Len(t) + 1
  <2>1. Last(s) \in 1..n /\ ~EndedIn(t, Last(s))
    BY <1>1, <1>3, <1>10
  <2>2. EndedIn(u, Last(s))
    BY <1>11, <2>1
  <2> QED
    BY <1>8, <2>1, <2>2, CallNext
<1>13. \A k \in 1..n : EndedIn(u, k) <=> k \notin ToSet(r)
  BY <1>3, <1>10, <1>11
<1>14. ASSUME NEW p \in DOMAIN r
       PROVE  Made(u, PlaceIn(u, r[p]), Len(u)) + p = Over(u, PlaceIn(u, r[p]), Len(u)) + Len(r) + 1
  <2>1. p \in 1..d /\ r[p] = s[p] /\ IsPlace(t, s[p], PlaceIn(t, s[p]))
    BY <1>1, <1>3, <1>8
  <2>2. /\ Made(u, PlaceIn(u, s[p]), Len(u)) = Made(t, PlaceIn(t, s[p]), Len(t)) + 0
        /\ Over(u, PlaceIn(u, s[p]), Len(u)) = Over(t, PlaceIn(t, s[p]), Len(t)) + 1
    BY <1>2, <2>1, OpenNext
  <2>3. /\ Made(t, PlaceIn(t, s[p]), Len(t)) \in Nat /\ Over(t, PlaceIn(t, s[p]), Len(t)) \in Nat
        /\ Made(t, PlaceIn(t, s[p]), Len(t)) + p = Over(t, PlaceIn(t, s[p]), Len(t)) + d + 1
    BY <1>9, <2>1
  <2>4. r[p] = s[p] /\ p \in Nat /\ d \in Nat /\ d >= 1 /\ Len(r) = d - 1
    BY <1>1, <1>3, <1>4, <2>1
  <2> HIDE DEF u, r, d
  <2> QED
    BY <2>2, <2>3, <2>4
<1>15. OpenNested(u, r)
  <2>1. ASSUME NEW p \in 1..(d - 1)
        PROVE  AroundIn(u, r[p]) = {r[q] : q \in 1..(p - 1)}
    <3>1. p \in 1..d /\ s[p] \in 1..n /\ r[p] = s[p]
      BY <1>1, <1>3, <1>4, <2>1
    <3>2. AroundIn(t, s[p]) = {s[q] : q \in 1..(p - 1)}
      BY <1>1, <3>1 DEF Scanned, OpenNested
    <3>3. \A q \in 1..(p - 1) : r[q] = s[q]
      BY <1>1, <1>3, <2>1
    <3>4. AroundIn(u, r[p]) = AroundIn(t, s[p])
      BY <1>7, <3>1
    <3> HIDE DEF u, r, d
    <3> QED
      BY <3>2, <3>3, <3>4
  <2> QED
    BY <1>3, <2>1 DEF OpenNested
<1> HIDE DEF u, r, d
<1>16. Scanned(u, r, n)
  BY <1>3, <1>5, <1>6, <1>7, <1>13, <1>14, <1>15 DEF Scanned, OpenCounted
<1> QED
  BY <1>11, <1>12, <1>16 DEF u, r

-----------------------------------------------------------------------------
(* The stack of the conversion is that of the trace.                       *)

ScanInv ==
  status # "panicked" => Scanned(events, invocation_stack, Len(invocations))

(* What the end of a call does to the tree.                                *)
LEMMA EndFacts ==
  ASSUME InvocationInv, InvocationInv', NEW code \in ExitCodes \cup {SysAssertionFailed},
         EndInner(code) \/ EndRoot(code)
  PROVE  LET top == Last(invocation_stack)
             d == Len(invocation_stack)
         IN /\ invocation_stack # <<>> /\ invocation_stack' = Front(invocation_stack)
            /\ status' = status
            /\ DOMAIN invocations' = DOMAIN invocations /\ Len(invocations') = Len(invocations)
            /\ \A h \in DOMAIN invocations :
                 invocations'[h].exit_code =
                   IF h = top THEN code ELSE invocations[h].exit_code
            /\ \/ /\ d > 1 /\ root_invocation' = root_invocation
                  /\ \A h \in DOMAIN invocations :
                       Sub(invocations', h) =
                         IF h = invocation_stack[d - 1] THEN Append(Sub(invocations, h), top)
                         ELSE Sub(invocations, h)
               \/ /\ d = 1 /\ root_invocation = None /\ root_invocation' = top
                  /\ \A h \in DOMAIN invocations : Sub(invocations', h) = Sub(invocations, h)
<1> DEFINE top == Last(invocation_stack)
           d == Len(invocation_stack)
           parent == Last(Front(invocation_stack))
<1>1. /\ invocations \in Seq(Invocation) /\ invocations' \in Seq(Invocation)
      /\ invocation_stack \in Seq(DOMAIN invocations)
  BY DEF InvocationInv, InvocationTypeOK
<1>2. DOMAIN invocations = 1..Len(invocations)
  BY <1>1, LenProperties
<1>3. invocation_stack # <<>> /\ d \in Nat /\ invocation_stack' = Front(invocation_stack)
      /\ status' = status
  <2>1. d # 0
    BY DEF EndInner, EndRoot
  <2> QED
    BY <1>1, <2>1, EmptySeq, LenProperties DEF EndInner, EndRoot
<1>4. top \in DOMAIN invocations
  BY <1>3, TopFacts
<1>5. /\ Closed(code) \in Seq(Invocation) /\ DOMAIN Closed(code) = DOMAIN invocations
      /\ \A h \in DOMAIN invocations : Sub(Closed(code), h) = Sub(invocations, h)
  BY <1>3, ClosedFacts
<1>6. \A h \in DOMAIN invocations :
        Closed(code)[h].exit_code = IF h = top THEN code ELSE invocations[h].exit_code
  <2>1. \A h \in DOMAIN invocations : invocations[h] \in Invocation
    BY <1>1, <1>2, ElementOfSeq
  <2>2. Closed(code) = [invocations EXCEPT ![top] = [invocations[top] EXCEPT !.exit_code = code]]
    BY DEF Closed
  <2>3. [invocations[top] EXCEPT !.exit_code = code].exit_code = code
    BY <1>4, <2>1 DEF Invocation
  <2> HIDE DEF top
  <2> QED
    BY <1>1, <1>4, <2>2, <2>3
<1>7. CASE EndRoot(code)
  <2>1. invocations' = Closed(code)
    BY <1>7 DEF EndRoot
  <2>2. Len(invocations') = Len(invocations)
    BY <1>1, <1>5, <2>1, LenProperties
  <2> QED
    BY <1>3, <1>5, <1>6, <1>7, <2>1, <2>2 DEF EndRoot
<1>8. CASE EndInner(code)
  <2> DEFINE after == [Closed(code)[parent] EXCEPT !.subinvocations = Append(@, top)]
  <2>1. d > 1 /\ root_invocation' = root_invocation
        /\ invocations' = [Closed(code) EXCEPT ![parent] = after]
    BY <1>8 DEF EndInner
  <2>2. parent = invocation_stack[d - 1] /\ parent \in DOMAIN invocations
    <3>1. /\ Front(invocation_stack) \in Seq(DOMAIN invocations)
          /\ Len(Front(invocation_stack)) = d - 1
          /\ \A p \in 1..(d - 1) : Front(invocation_stack)[p] = invocation_stack[p]
      BY <1>1, <1>3, FrontFacts
    <3>2. Front(invocation_stack) # <<>>
      BY <1>3, <2>1, <3>1, EmptySeq
    <3>3. parent \in DOMAIN invocations /\ parent = Front(invocation_stack)[d - 1]
      BY <3>1, <3>2, FrontFacts
    <3>4. d - 1 \in 1..(d - 1)
      BY <1>3, <2>1
    <3> QED
      BY <3>1, <3>3, <3>4
  <2>3. /\ Closed(code)[parent] \in Invocation
        /\ Sub(Closed(code), parent) = Closed(code)[parent].subinvocations
    BY <1>2, <1>5, <2>2, ElementOfSeq, LenProperties DEF Sub
  <2>4. /\ after.subinvocations = Append(Sub(invocations, parent), top)
        /\ after.exit_code = Closed(code)[parent].exit_code
    BY <1>5, <2>2, <2>3 DEF Invocation
  <2> HIDE DEF after, parent, top
  <2>5. /\ DOMAIN invocations' = DOMAIN invocations
        /\ \A h \in DOMAIN invocations :
             invocations'[h] = IF h = parent THEN after ELSE Closed(code)[h]
    BY <1>5, <2>1, <2>2
  <2>6. Len(invocations') = Len(invocations)
    BY <1>1, <2>5, LenProperties
  <2>7. \A h \in DOMAIN invocations : invocations'[h].exit_code = Closed(code)[h].exit_code
    BY <2>4, <2>5
  <2>8. \A h \in DOMAIN invocations :
          Sub(invocations', h) = IF h = parent THEN Append(Sub(invocations, h), top)
                                 ELSE Sub(invocations, h)
    BY <1>5, <2>4, <2>5 DEF Sub
  <2> QED
    BY <1>3, <1>6, <2>1, <2>2, <2>5, <2>6, <2>7, <2>8 DEF top
<1> QED
  BY <1>7, <1>8

(* What a call does.                                                       *)
LEMMA CallFacts ==
  ASSUME InvocationInv, ReadCall
  PROVE  LET new == Len(invocations) + 1
         IN /\ invocation_stack' = Append(invocation_stack, new)
            /\ Len(invocations') = new /\ Len(invocations) \in Nat
            /\ DOMAIN invocations = 1..Len(invocations)
            /\ DOMAIN invocations' = 1..new
            /\ \A h \in DOMAIN invocations : invocations'[h] = invocations[h]
            /\ Sub(invocations', new) = <<>>
            /\ UNCHANGED <<root_invocation, status>>
<1>1. invocations \in Seq(Invocation)
  BY DEF InvocationInv, InvocationTypeOK
<1>2. /\ Len(invocations) \in Nat /\ DOMAIN invocations = 1..Len(invocations)
      /\ invocations' = Append(invocations, NewInvocation)
      /\ Len(invocations') = Len(invocations) + 1
      /\ DOMAIN invocations' = 1..(Len(invocations) + 1)
      /\ \A h \in DOMAIN invocations : invocations'[h] = invocations[h]
      /\ invocations'[Len(invocations) + 1] = NewInvocation
  BY <1>1, NewInvocationType, LenProperties DEF ReadCall
<1> QED
  BY <1>2, NewInvocationType DEF ReadCall, Sub

LEMMA EventKinds ==
  /\ [kind |-> "call"] \in Event /\ IsCall([kind |-> "call"]) /\ ~IsEnd([kind |-> "call"])
  /\ [kind |-> "other"] \in Event /\ ~IsCall([kind |-> "other"]) /\ ~IsEnd([kind |-> "other"])
  /\ \A code \in ExitCodes :
       /\ Returned(code) \in Event /\ IsEnd(Returned(code)) /\ ~IsCall(Returned(code))
       /\ CodeOf(Returned(code)) = code
  /\ \A errno \in ErrorNumbers :
       /\ Failed(errno) \in Event /\ IsEnd(Failed(errno)) /\ ~IsCall(Failed(errno))
       /\ CodeOf(Failed(errno)) = SysAssertionFailed
  BY DEF Event, IsCall, IsEnd, Returned, Failed, CodeOf

(* What a step of the conversion can be.                                   *)
LEMMA StepCases ==
  ASSUME InvocationNext
  PROVE  \/ ReadCall
         \/ ReadOther
         \/ \E event \in Event :
              /\ Read(event) /\ IsEnd(event) /\ CodeOf(event) \in ExitCodes \cup {SysAssertionFailed}
              /\ \/ EndInner(CodeOf(event)) \/ EndRoot(CodeOf(event))
                 \/ EndUnexpected
         \/ Finish
  BY EventKinds DEF InvocationNext, ReadCallReturn, ReadCallError, End

LEMMA ScanNext ==
  ASSUME InvocationInv, InvocationInv', ScanInv, [InvocationNext]_invocationVars
  PROVE  ScanInv'
<1>1. events \in Seq(Event) /\ Len(invocations) \in Nat
  BY LenProperties DEF InvocationInv, InvocationTypeOK
<1>2. CASE UNCHANGED invocationVars
  BY <1>2 DEF invocationVars, ScanInv
<1>3. CASE ReadCall
  <2>1. /\ events' = Append(events, [kind |-> "call"]) /\ status = "reading"
        /\ invocation_stack' = Append(invocation_stack, Len(invocations) + 1)
        /\ Len(invocations') = Len(invocations) + 1
    BY <1>3, CallFacts DEF ReadCall, Read
  <2>2. Scanned(events, invocation_stack, Len(invocations))
    BY <2>1 DEF ScanInv
  <2>3. Scanned(Append(events, [kind |-> "call"]), Append(invocation_stack, Len(invocations) + 1),
                Len(invocations) + 1)
    BY <1>1, <2>2, EventKinds, ScanCall
  <2> QED
    BY <2>1, <2>3 DEF ScanInv
<1>4. CASE ReadOther
  <2>1. /\ events' = Append(events, [kind |-> "other"]) /\ status = "reading"
        /\ invocation_stack' = invocation_stack /\ invocations' = invocations
    BY <1>4 DEF ReadOther, Read
  <2>2. Scanned(events, invocation_stack, Len(invocations))
    BY <2>1 DEF ScanInv
  <2>3. Scanned(Append(events, [kind |-> "other"]), invocation_stack, Len(invocations))
    BY <1>1, <2>2, EventKinds, ScanOther
  <2> QED
    BY <2>1, <2>3 DEF ScanInv
<1>5. ASSUME NEW event \in Event, Read(event), IsEnd(event),
             CodeOf(event) \in ExitCodes \cup {SysAssertionFailed},
             EndInner(CodeOf(event)) \/ EndRoot(CodeOf(event))
      PROVE  ScanInv'
  <2>1. /\ events' = Append(events, event) /\ status = "reading" /\ invocation_stack # <<>>
        /\ invocation_stack' = Front(invocation_stack) /\ Len(invocations') = Len(invocations)
    BY <1>5, EndFacts DEF Read
  <2>2. Scanned(events, invocation_stack, Len(invocations))
    BY <2>1 DEF ScanInv
  <2>3. Scanned(Append(events, event), Front(invocation_stack), Len(invocations))
    BY <1>1, <1>5, <2>1, <2>2, ScanEnd
  <2> QED
    BY <2>1, <2>3 DEF ScanInv
<1>6. CASE EndUnexpected
  BY <1>6 DEF EndUnexpected, Panic, ScanInv
<1>7. CASE Finish
  BY <1>7 DEF Finish, Panic, ScanInv
<1> QED
  BY <1>2, <1>3, <1>4, <1>5, <1>6, <1>7, StepCases

LEMMA ScanInit ==
  ASSUME InvocationInit
  PROVE  ScanInv
<1>1. events = <<>> /\ invocation_stack = <<>> /\ Len(invocations) = 0
      /\ events \in Seq(Event) /\ DOMAIN events = {} /\ Len(events) = 0
  BY DEF InvocationInit
<1>2. CallsIn(events, 1, Len(events)) = {} /\ EndsIn(events, 1, Len(events)) = {}
  BY <1>1 DEF CallsIn, EndsIn
<1>3. Made(events, 1, Len(events)) = 0 /\ Over(events, 1, Len(events)) = 0
  BY <1>2, FS_EmptySet DEF Made, Over
<1>4. 1..0 = {} /\ <<>> \in Seq({}) /\ DOMAIN <<>> = {} /\ Len(<<>>) = 0
  OBVIOUS
<1>5. Scanned(events, <<>>, 0)
  BY <1>3, <1>4 DEF Scanned, Increasing, Placed, OpenCounted, OpenNested
<1> QED
  BY <1>1, <1>5 DEF ScanInv

-----------------------------------------------------------------------------
(* Which traces are converted.                                             *)

NoneUnmatched(t) == \A j \in DOMAIN t : Over(t, 1, j) <= Made(t, 1, j)
SecondOutermost(t) ==
  \E j \in DOMAIN t :
    IsCall(t[j]) /\ j > 1 /\ Made(t, 1, j - 1) = Over(t, 1, j - 1) /\ EndsIn(t, 1, j) # {}
OneRooted(t) ==
  /\ Made(t, 1, Len(t)) = Over(t, 1, Len(t)) /\ CallsIn(t, 1, Len(t)) # {}
  /\ NoneUnmatched(t) /\ ~SecondOutermost(t)

(* A root stands for an outermost call that has ended, and what is open    *)
(* beside it for a second one.                                             *)
RootInv ==
  LET open == invocation_stack # <<>>
      rooted == root_invocation # None
  IN /\ status # "panicked" =>
          /\ NoneUnmatched(events)
          /\ SecondOutermost(events) <=> rooted /\ open
          /\ rooted \/ open <=> CallsIn(events, 1, Len(events)) # {}
          /\ ~rooted /\ ~open => EndsIn(events, 1, Len(events)) = {}
          /\ rooted => EndsIn(events, 1, Len(events)) # {}
     /\ status = "done" => rooted /\ ~open
     /\ status = "panicked" => ~OneRooted(events)

LEMMA NoneUnmatchedNext ==
  ASSUME NEW t \in Seq(Event), NEW e \in Event
  PROVE  NoneUnmatched(Append(t, e)) <=>
           NoneUnmatched(t) /\ Over(Append(t, e), 1, Len(t) + 1) <= Made(Append(t, e), 1, Len(t) + 1)
<1> DEFINE u == Append(t, e)
           n == Len(t)
<1>1. n \in Nat /\ DOMAIN t = 1..n /\ DOMAIN u = 1..(n + 1)
  BY LenProperties
<1>2. \A j \in 1..n : Made(u, 1, j) = Made(t, 1, j) /\ Over(u, 1, j) = Over(t, 1, j)
  BY <1>1, CountsKept
<1> HIDE DEF u, n
<1>3. 1..(n + 1) = 1..n \cup {n + 1}
  BY <1>1
<1>4. NoneUnmatched(u) <=> NoneUnmatched(t) /\ Over(u, 1, n + 1) <= Made(u, 1, n + 1)
  BY <1>1, <1>2, <1>3 DEF NoneUnmatched
<1> QED
  BY <1>4 DEF u, n

LEMMA SecondOutermostNext ==
  ASSUME NEW t \in Seq(Event), NEW e \in Event
  PROVE  SecondOutermost(Append(t, e)) <=>
           \/ SecondOutermost(t)
           \/ /\ IsCall(e) /\ Made(t, 1, Len(t)) = Over(t, 1, Len(t))
              /\ EndsIn(t, 1, Len(t)) # {}
<1> DEFINE u == Append(t, e)
           n == Len(t)
           Second(v, j) ==
             IsCall(v[j]) /\ j > 1 /\ Made(v, 1, j - 1) = Over(v, 1, j - 1) /\ EndsIn(v, 1, j) # {}
<1>1. /\ n \in Nat /\ DOMAIN t = 1..n /\ DOMAIN u = 1..(n + 1)
      /\ \A j \in 1..n : u[j] = t[j]
      /\ u[n + 1] = e
  BY LenProperties
<1>2. \A j \in 0..n : Made(u, 1, j) = Made(t, 1, j) /\ Over(u, 1, j) = Over(t, 1, j)
                        /\ EndsIn(u, 1, j) = EndsIn(t, 1, j)
  BY <1>1, CountsKept
<1>3. 1..(n + 1) = 1..n \cup {n + 1}
  BY <1>1
<1>4. \A j \in 1..n : Second(u, j) <=> Second(t, j)
  <2>1. \A j \in 1..n : j \in 0..n /\ j - 1 \in 0..n
    BY <1>1
  <2> HIDE DEF u, n
  <2> QED
    BY <1>1, <1>2, <2>1
<1>5. Second(u, n + 1) <=>
        /\ IsCall(e) /\ Made(t, 1, n) = Over(t, 1, n)
        /\ EndsIn(t, 1, n) # {}
  <2>1. IsCall(e) => EndsIn(u, 1, n + 1) = EndsIn(t, 1, n)
    <3>1. IsCall(e) => ~IsEnd(e)
      BY DEF IsCall, IsEnd
    <3> QED
      BY <1>1, <3>1, CountsAdded
  <2>2. EndsIn(t, 1, n) # {} => n >= 1
    BY <1>1 DEF EndsIn
  <2>3. (n + 1) - 1 = n /\ n \in 0..n /\ (n + 1 > 1 <=> n >= 1)
    BY <1>1
  <2> HIDE DEF u, n
  <2> QED
    BY <1>1, <1>2, <2>1, <2>2, <2>3
<1>6. /\ SecondOutermost(t) <=> \E j \in 1..n : Second(t, j)
      /\ SecondOutermost(u) <=> \E j \in 1..(n + 1) : Second(u, j)
  BY <1>1 DEF SecondOutermost
<1> HIDE DEF Second
<1>7. SecondOutermost(u) <=> SecondOutermost(t) \/ Second(u, n + 1)
  BY <1>3, <1>4, <1>6
<1> QED
  BY <1>5, <1>7

(* The parts of RootInv after an event, in terms of those before it.       *)
LEMMA RootEvent ==
  ASSUME InvocationInv, ScanInv, RootInv, NEW event \in Event, Read(event)
  PROVE  /\ Made(events, 1, Len(events)) = Over(events, 1, Len(events)) + Len(invocation_stack)
         /\ Made(events, 1, Len(events)) \in Nat /\ Over(events, 1, Len(events)) \in Nat
         /\ Len(invocation_stack) \in Nat
         /\ invocation_stack = <<>> <=> Len(invocation_stack) = 0
         /\ Len(events') = Len(events) + 1
         /\ CallsIn(events', 1, Len(events')) # {} <=>
              CallsIn(events, 1, Len(events)) # {} \/ IsCall(event)
         /\ EndsIn(events', 1, Len(events')) # {} <=>
              EndsIn(events, 1, Len(events)) # {} \/ IsEnd(event)
         /\ NoneUnmatched(events') <=> (IsEnd(event) => invocation_stack # <<>>)
         /\ SecondOutermost(events') <=>
              \/ SecondOutermost(events)
              \/ /\ IsCall(event) /\ invocation_stack = <<>>
                 /\ EndsIn(events, 1, Len(events)) # {}
<1> DEFINE n == Len(events)
           made == Made(events, 1, n)
           over == Over(events, 1, n)
           d == Len(invocation_stack)
<1>1. /\ events \in Seq(Event) /\ events' = Append(events, event) /\ status = "reading"
      /\ invocation_stack \in Seq(DOMAIN invocations)
      /\ n \in Nat /\ Len(events') = n + 1
  BY LenProperties DEF InvocationInv, InvocationTypeOK, Read
<1>2. made = over + d /\ made \in Nat /\ over \in Nat
  <2>1. Scanned(events, invocation_stack, Len(invocations))
    BY <1>1 DEF ScanInv
  <2> QED
    BY <1>1, <2>1, CountsFinite DEF Scanned
<1>3. d \in Nat /\ (invocation_stack = <<>> <=> d = 0)
  BY <1>1, EmptySeq, LenProperties
<1>4. /\ CallsIn(events', 1, n + 1) = IF IsCall(event) THEN With(CallsIn(events, 1, n), n + 1)
                                       ELSE CallsIn(events, 1, n)
      /\ EndsIn(events', 1, n + 1) = IF IsEnd(event) THEN With(EndsIn(events, 1, n), n + 1)
                                     ELSE EndsIn(events, 1, n)
      /\ Made(events', 1, n + 1) = made + (IF IsCall(event) THEN 1 ELSE 0)
      /\ Over(events', 1, n + 1) = over + (IF IsEnd(event) THEN 1 ELSE 0)
  BY <1>1, CountsAdded
<1>5. NoneUnmatched(events') <=>
        NoneUnmatched(events) /\ Over(events', 1, n + 1) <= Made(events', 1, n + 1)
  BY <1>1, NoneUnmatchedNext
<1>6. NoneUnmatched(events)
  BY <1>1 DEF RootInv
<1>7. SecondOutermost(events') <=>
        \/ SecondOutermost(events)
        \/ IsCall(event) /\ made = over /\ EndsIn(events, 1, n) # {}
  BY <1>1, SecondOutermostNext
<1>8. IsCall(event) => ~IsEnd(event)
  BY DEF IsCall, IsEnd
<1> HIDE DEF n, made, over, d
<1>9. Over(events', 1, n + 1) <= Made(events', 1, n + 1) <=> (IsEnd(event) => d # 0)
  <2>1. CASE IsEnd(event)
    <3>1. Over(events', 1, n + 1) = over + 1 /\ Made(events', 1, n + 1) = made
      BY <1>2, <1>4, <1>8, <2>1
    <3> QED
      BY <1>2, <1>3, <2>1, <3>1
  <2>2. CASE ~IsEnd(event)
    <3>1. Over(events', 1, n + 1) = over
      BY <1>2, <1>4, <2>2
    <3>2. Made(events', 1, n + 1) = made \/ Made(events', 1, n + 1) = made + 1
      BY <1>2, <1>4
    <3> QED
      BY <1>2, <1>3, <2>2, <3>1, <3>2
  <2> QED
    BY <2>1, <2>2
<1>10. made = over <=> d = 0
  BY <1>2, <1>3
<1>11. /\ CallsIn(events', 1, n + 1) # {} <=> CallsIn(events, 1, n) # {} \/ IsCall(event)
       /\ EndsIn(events', 1, n + 1) # {} <=> EndsIn(events, 1, n) # {} \/ IsEnd(event)
  BY <1>4 DEF With
<1>12. NoneUnmatched(events') <=> (IsEnd(event) => invocation_stack # <<>>)
  BY <1>3, <1>5, <1>6, <1>9
<1>13. SecondOutermost(events') <=>
         \/ SecondOutermost(events)
         \/ IsCall(event) /\ invocation_stack = <<>> /\ EndsIn(events, 1, n) # {}
  BY <1>3, <1>7, <1>10
<1> QED
  BY <1>1, <1>2, <1>3, <1>11, <1>12, <1>13 DEF n, made, over, d

LEMMA RootNext ==
  ASSUME InvocationInv, InvocationInv', ScanInv, RootInv, [InvocationNext]_invocationVars
  PROVE  RootInv'
<1>1. invocation_stack' = <<>> <=> Len(invocation_stack') = 0
  BY EmptySeq DEF InvocationInv, InvocationTypeOK
<1>2. CASE UNCHANGED invocationVars
  BY <1>2 DEF invocationVars, RootInv
<1>3. CASE ReadCall
  <2>1. Read([kind |-> "call"]) /\ status = "reading" /\ status' = "reading"
        /\ root_invocation' = root_invocation
    BY <1>3 DEF ReadCall, Read
  <2>2. invocation_stack' # <<>>
    <3>1. invocation_stack' = Append(invocation_stack, Len(invocations) + 1)
      BY <1>3, CallFacts
    <3>2. invocation_stack \in Seq(Nat) /\ Len(invocations) + 1 \in Nat
      <4>1. DOMAIN invocations \subseteq Nat /\ Len(invocations) \in Nat
        BY LenProperties DEF InvocationInv, InvocationTypeOK
      <4> QED
        BY <4>1, SeqMonotonic DEF InvocationInv, InvocationTypeOK
    <3>3. Len(invocation_stack') # 0
      BY <3>1, <3>2, LenProperties
    <3> QED
      BY <1>1, <3>3
  <2>3. /\ CallsIn(events', 1, Len(events')) # {}
        /\ EndsIn(events', 1, Len(events')) # {} <=> EndsIn(events, 1, Len(events)) # {}
        /\ NoneUnmatched(events')
        /\ SecondOutermost(events') <=>
             SecondOutermost(events)
               \/ (invocation_stack = <<>> /\ EndsIn(events, 1, Len(events)) # {})
    BY <2>1, EventKinds, RootEvent
  <2> QED
    BY <2>1, <2>2, <2>3 DEF RootInv
<1>4. CASE ReadOther
  <2>1. /\ Read([kind |-> "other"]) /\ status = "reading" /\ status' = "reading"
        /\ UNCHANGED <<root_invocation, invocation_stack>>
    BY <1>4 DEF ReadOther, Read
  <2>2. /\ CallsIn(events', 1, Len(events')) # {} <=> CallsIn(events, 1, Len(events)) # {}
        /\ EndsIn(events', 1, Len(events')) # {} <=> EndsIn(events, 1, Len(events)) # {}
        /\ NoneUnmatched(events')
        /\ SecondOutermost(events') <=> SecondOutermost(events)
    BY <2>1, EventKinds, RootEvent
  <2> QED
    BY <2>1, <2>2 DEF RootInv
<1>5. ASSUME NEW event \in Event, Read(event), IsEnd(event),
             CodeOf(event) \in ExitCodes \cup {SysAssertionFailed},
             EndInner(CodeOf(event)) \/ EndRoot(CodeOf(event))
      PROVE  RootInv'
  <2>1. /\ status = "reading" /\ status' = "reading" /\ invocation_stack # <<>>
        /\ invocation_stack' = Front(invocation_stack)
        /\ \/ Len(invocation_stack) > 1 /\ root_invocation' = root_invocation
           \/ /\ Len(invocation_stack) = 1 /\ root_invocation = None
              /\ root_invocation' = Last(invocation_stack)
    BY <1>5, EndFacts DEF Read
  <2>2. ~IsCall(event)
    BY <1>5 DEF IsCall, IsEnd
  <2>3. /\ CallsIn(events', 1, Len(events')) # {} <=> CallsIn(events, 1, Len(events)) # {}
        /\ EndsIn(events', 1, Len(events')) # {}
        /\ NoneUnmatched(events')
        /\ SecondOutermost(events') <=> SecondOutermost(events)
    BY <1>5, <2>1, <2>2, RootEvent
  <2>4. Len(invocation_stack) \in Nat /\ Len(invocation_stack') = Len(invocation_stack) - 1
    BY <2>1, FrontFacts DEF InvocationInv, InvocationTypeOK
  <2>5. Last(invocation_stack) # None
    <3>1. Last(invocation_stack) \in DOMAIN invocations
      BY <2>1, TopFacts
    <3>2. DOMAIN invocations \subseteq Nat
      BY LenProperties DEF InvocationInv, InvocationTypeOK
    <3> QED
      BY <3>1, <3>2, ExitCodeAssumption
  <2>6. CASE Len(invocation_stack) > 1 /\ root_invocation' = root_invocation
    <3>1. invocation_stack' # <<>>
      BY <1>1, <2>4, <2>6
    <3> QED
      BY <2>1, <2>3, <2>6, <3>1 DEF RootInv
  <2>7. CASE Len(invocation_stack) = 1 /\ root_invocation = None
               /\ root_invocation' = Last(invocation_stack)
    <3>1. invocation_stack' = <<>>
      BY <1>1, <2>4, <2>7
    <3> QED
      BY <2>1, <2>3, <2>5, <2>7, <3>1 DEF RootInv
  <2> QED
    BY <2>1, <2>6, <2>7
<1>6. ASSUME NEW event \in Event, Read(event), IsEnd(event), EndUnexpected
      PROVE  RootInv'
  <2>1. /\ status = "reading" /\ status' = "panicked"
        /\ \/ invocation_stack = <<>>
           \/ Len(invocation_stack) = 1 /\ root_invocation # None
    BY <1>6 DEF Read, EndUnexpected, Panic
  <2>2. ~NoneUnmatched(events') \/ SecondOutermost(events')
    <3>1. CASE invocation_stack = <<>>
      BY <1>6, <3>1, RootEvent
    <3>2. CASE Len(invocation_stack) = 1 /\ root_invocation # None
      <4>1. invocation_stack # <<>>
        BY <3>2
      <4>2. SecondOutermost(events)
        BY <2>1, <3>2, <4>1 DEF RootInv
      <4> QED
        BY <1>6, <4>2, RootEvent
    <3> QED
      BY <2>1, <3>1, <3>2
  <2> QED
    BY <2>1, <2>2 DEF RootInv, OneRooted
<1>7. CASE Finish
  <2>1. /\ status = "reading" /\ events' = events
        /\ UNCHANGED <<invocation_stack, root_invocation>>
        /\ IF invocation_stack # <<>> \/ root_invocation = None THEN status' = "panicked"
           ELSE status' = "done"
    BY <1>7 DEF Finish, Panic
  <2>2. CASE invocation_stack # <<>>
    <3>1. Scanned(events, invocation_stack, Len(invocations))
      BY <2>1 DEF ScanInv
    <3>2. Len(invocation_stack) \in Nat /\ Len(invocation_stack) # 0
      BY <2>2, EmptySeq, LenProperties DEF InvocationInv, InvocationTypeOK
    <3>3. Made(events, 1, Len(events)) # Over(events, 1, Len(events))
      <4>1. /\ Made(events, 1, Len(events)) = Over(events, 1, Len(events)) + Len(invocation_stack)
            /\ Over(events, 1, Len(events)) \in Nat
        BY <3>1, CountsFinite DEF Scanned, InvocationInv, InvocationTypeOK
      <4> QED
        BY <3>2, <4>1
    <3> QED
      BY <2>1, <2>2, <3>3 DEF RootInv, OneRooted
  <2>3. CASE invocation_stack = <<>> /\ root_invocation = None
    BY <2>1, <2>3 DEF RootInv, OneRooted
  <2>4. CASE invocation_stack = <<>> /\ root_invocation # None
    BY <2>1, <2>4 DEF RootInv
  <2> QED
    BY <2>2, <2>3, <2>4
<1> QED
  BY <1>2, <1>3, <1>4, <1>5, <1>6, <1>7, StepCases

LEMMA RootInit ==
  ASSUME InvocationInit
  PROVE  RootInv
<1>1. events = <<>> /\ invocation_stack = <<>> /\ root_invocation = None /\ status = "reading"
      /\ DOMAIN events = {}
  BY DEF InvocationInit
<1>2. CallsIn(events, 1, Len(events)) = {} /\ EndsIn(events, 1, Len(events)) = {}
      /\ NoneUnmatched(events) /\ ~SecondOutermost(events)
  BY <1>1 DEF CallsIn, EndsIn, NoneUnmatched, SecondOutermost
<1> QED
  BY <1>1, <1>2 DEF RootInv

LEMMA RootConverts ==
  ASSUME InvocationInv, ScanInv, RootInv
  PROVE  ConvertsOneRootedTrace
<1> DEFINE n == Len(events)
           complete == Depth(n) = 0 /\ CallsWithin(1, n) # {}
<1>1. events \in Seq(Event) /\ DOMAIN events = 1..n /\ n \in Nat
  BY LenProperties DEF InvocationInv, InvocationTypeOK
<1>2. \A j : Made(events, 1, j) \in Nat /\ Over(events, 1, j) \in Nat
  BY <1>1, CountsFinite
<1>3. \A j : /\ Depth(j) = Made(events, 1, j) - Over(events, 1, j)
             /\ CallsWithin(1, j) = CallsIn(events, 1, j)
             /\ EndsWithin(1, j) = EndsIn(events, 1, j)
  BY DEF Depth, CallsWithin, EndsWithin, CallsIn, EndsIn, Made, Over
<1>4. \A j : /\ Depth(j) = 0 <=> Made(events, 1, j) = Over(events, 1, j)
             /\ Depth(j) < 0 <=> ~(Over(events, 1, j) <= Made(events, 1, j))
  BY <1>2, <1>3
<1>5. Unbalanced <=> ~NoneUnmatched(events) \/ SecondOutermost(events)
  <2>1. Unbalanced <=> \/ \E j \in DOMAIN events : Depth(j) < 0
                       \/ \E j \in DOMAIN events : /\ IsCall(events[j]) /\ j > 1 /\ Depth(j - 1) = 0
                                                   /\ EndsWithin(1, j) # {}
    BY DEF Unbalanced
  <2>2. (\E j \in DOMAIN events : Depth(j) < 0) <=> ~NoneUnmatched(events)
    BY <1>4 DEF NoneUnmatched
  <2>3. (\E j \in DOMAIN events : /\ IsCall(events[j]) /\ j > 1 /\ Depth(j - 1) = 0
                                  /\ EndsWithin(1, j) # {})
          <=> SecondOutermost(events)
    BY <1>3, <1>4 DEF SecondOutermost
  <2> QED
    BY <2>1, <2>2, <2>3
<1>6. complete <=> Made(events, 1, n) = Over(events, 1, n) /\ CallsIn(events, 1, n) # {}
  BY <1>3, <1>4
<1>7. status = "panicked" => ~complete \/ Unbalanced
  BY <1>5, <1>6 DEF RootInv, OneRooted
<1>8. ASSUME status = "done" PROVE complete /\ ~Unbalanced
  <2>1. /\ NoneUnmatched(events) /\ ~SecondOutermost(events) /\ CallsIn(events, 1, n) # {}
        /\ invocation_stack = <<>>
    BY <1>8 DEF RootInv
  <2>2. Made(events, 1, n) = Over(events, 1, n)
    <3>1. Made(events, 1, n) = Over(events, 1, n) + Len(invocation_stack)
      BY <1>8 DEF ScanInv, Scanned
    <3>2. Len(invocation_stack) = 0
      BY <2>1
    <3> QED
      BY <1>2, <3>1, <3>2
  <2> QED
    BY <1>5, <1>6, <2>1, <2>2
<1> HIDE DEF complete
<1>9. /\ status = "done" => complete /\ ~Unbalanced
      /\ status = "panicked" => ~complete \/ Unbalanced
  BY <1>7, <1>8
<1> QED
  BY <1>9 DEF ConvertsOneRootedTrace, complete

-----------------------------------------------------------------------------
(* The tree.                                                               *)

(* Exit codes are those of the ends; under each call is what it made and   *)
(* what has ended, in order; the root is what ended with nothing around    *)
(* it; what was filed under an open call is older than the next open one.  *)
ExitCodesFound ==
  \A k \in DOMAIN invocations :
    EndedIn(events, k) => invocations[k].exit_code = CodeOf(events[EndIn(events, k)])
EndedFiled ==
  \A k \in DOMAIN invocations :
    ToSet(Sub(invocations, k)) =
      {h \in MadeIn(events, DOMAIN invocations, k) : EndedIn(events, h)}
FiledInOrder == \A k \in DOMAIN invocations : Increasing(Sub(invocations, k))
RootFound ==
  \A k \in DOMAIN invocations :
    root_invocation = k <=> EndedIn(events, k) /\ AroundIn(events, k) = {}
NewestOpen ==
  \A p, q \in DOMAIN invocation_stack :
    q = p + 1 => \A h \in ToSet(Sub(invocations, invocation_stack[p])) : h < invocation_stack[q]

TreeInv ==
  status # "panicked" =>
    ExitCodesFound /\ EndedFiled /\ FiledInOrder /\ RootFound /\ NewestOpen

(* The youngest of what is around a call was made before it.               *)
LEMMA MaxOf ==
  ASSUME NEW n \in Nat, NEW S, S \subseteq 1..n, S # {}
  PROVE  Max(S) \in S
<1> DEFINE bounds == {m \in Nat : \A x \in S : x <= m}
<1>1. bounds \subseteq Nat /\ n \in bounds
  OBVIOUS
<1>2. Min(bounds) \in bounds /\ \A m \in bounds : Min(bounds) <= m
  BY <1>1, MinOf
<1>3. PICK b \in Nat : (\A x \in S : x <= b) /\ \A m \in Nat : (\A x \in S : x <= m) => b <= m
  BY <1>2
<1>4. b \in S
  <2> SUFFICES ASSUME b \notin S PROVE FALSE
    OBVIOUS
  <2>1. \A x \in S : x \in Nat /\ x < b
    BY <1>3
  <2>2. b - 1 \in Nat /\ \A x \in S : x <= b - 1
    <3>1. PICK y \in S : TRUE
      OBVIOUS
    <3>2. y \in Nat /\ y >= 1 /\ y <= b
      BY <1>3, <3>1
    <3>3. b - 1 \in Nat
      BY <3>2
    <3> QED
      BY <2>1, <3>3
  <2>3. b <= b - 1
    BY <1>3, <2>2
  <2> QED
    BY <2>2, <2>3
<1>5. \A x \in S : b >= x
  BY <1>3
<1>6. S \subseteq Nat
  OBVIOUS
<1> QED
  BY <1>4, <1>5, <1>6, MaxIs

(* What a step changes of what the trace says of the calls made before.    *)
LEMMA HistoryNext ==
  ASSUME InvocationInv, ScanInv, NEW event \in Event, Read(event)
  PROVE  /\ Scanned(events, invocation_stack, Len(invocations))
         /\ events \in Seq(Event) /\ events' = Append(events, event)
         /\ DOMAIN invocations = 1..Len(invocations) /\ Len(invocations) \in Nat
         /\ \A k \in DOMAIN invocations :
              /\ AroundIn(events', k) = AroundIn(events, k)
              /\ AroundIn(events, k) \subseteq 1..(k - 1)
              /\ EndedIn(events, k) =>
                   /\ EndIn(events', k) = EndIn(events, k)
                   /\ events'[EndIn(events', k)] = events[EndIn(events, k)]
<1>1. /\ events \in Seq(Event) /\ events' = Append(events, event) /\ status = "reading"
      /\ DOMAIN invocations = 1..Len(invocations) /\ Len(invocations) \in Nat
  BY LenProperties DEF InvocationInv, InvocationTypeOK, Read
<1>2. Scanned(events, invocation_stack, Len(invocations))
  BY <1>1 DEF ScanInv
<1>3. \A k \in DOMAIN invocations : AroundIn(events', k) = AroundIn(events, k)
  BY <1>1, <1>2, PastKept
<1>4. \A k \in DOMAIN invocations : AroundIn(events, k) \subseteq 1..(k - 1)
  BY DEF AroundIn
<1>5. ASSUME NEW k \in DOMAIN invocations, EndedIn(events, k)
      PROVE  /\ EndIn(events', k) = EndIn(events, k)
             /\ events'[EndIn(events', k)] = events[EndIn(events, k)]
  <2>1. IsPlace(events, k, PlaceIn(events, k))
    BY <1>1, <1>2 DEF Scanned, Placed
  <2>2. EndIn(events', k) = EndIn(events, k) /\ EndIn(events, k) \in 1..Len(events)
    BY <1>1, <1>5, <2>1, CallNext
  <2>3. \A j \in 1..Len(events) : events'[j] = events[j]
    BY <1>1, LenProperties
  <2> QED
    BY <2>2, <2>3
<1> QED
  BY <1>1, <1>2, <1>3, <1>4, <1>5

LEMMA TreeCall ==
  ASSUME InvocationInv, ScanInv, TreeInv, ReadCall
  PROVE  TreeInv'
<1> DEFINE event == [kind |-> "call"]
           n == Len(invocations)
           new == n + 1
<1>1. event \in Event /\ IsCall(event) /\ Read(event) /\ status = "reading"
  BY EventKinds DEF ReadCall, Read
<1>2. ExitCodesFound /\ EndedFiled /\ FiledInOrder /\ RootFound /\ NewestOpen
  BY <1>1 DEF TreeInv
<1>3. /\ invocation_stack' = Append(invocation_stack, new)
      /\ n \in Nat /\ DOMAIN invocations = 1..n /\ DOMAIN invocations' = 1..new
      /\ \A h \in DOMAIN invocations : invocations'[h] = invocations[h]
      /\ Sub(invocations', new) = <<>>
      /\ root_invocation' = root_invocation
  BY CallFacts
<1> HIDE DEF event
<1>4. /\ Scanned(events, invocation_stack, n)
      /\ events \in Seq(Event) /\ events' = Append(events, event)
      /\ \A k \in DOMAIN invocations :
           /\ AroundIn(events', k) = AroundIn(events, k)
           /\ AroundIn(events, k) \subseteq 1..(k - 1)
           /\ EndedIn(events, k) =>
                /\ EndIn(events', k) = EndIn(events, k)
                /\ events'[EndIn(events', k)] = events[EndIn(events, k)]
  BY <1>1, HistoryNext
<1>5. /\ \A k \in DOMAIN invocations : EndedIn(events', k) <=> EndedIn(events, k)
      /\ ~EndedIn(events', new)
  BY <1>1, <1>3, <1>4, ScanCall
<1> HIDE DEF n, new
<1>6. DOMAIN invocations' = DOMAIN invocations \cup {new} /\ new \notin DOMAIN invocations
      /\ new \in Nat /\ \A h \in DOMAIN invocations : h \in Nat /\ h < new
  BY <1>3 DEF new
<1>7. \A h \in DOMAIN invocations : Sub(invocations', h) = Sub(invocations, h)
  BY <1>3 DEF Sub
<1>8. ExitCodesFound'
  BY <1>2, <1>3, <1>4, <1>5, <1>6 DEF ExitCodesFound
<1>9. EndedFiled'
  <2>1. ASSUME NEW k \in DOMAIN invocations
        PROVE  {h \in MadeIn(events', DOMAIN invocations', k) : EndedIn(events', h)} =
                 {h \in MadeIn(events, DOMAIN invocations, k) : EndedIn(events, h)}
    BY <1>4, <1>5, <1>6 DEF MadeIn
  <2>2. {h \in MadeIn(events', DOMAIN invocations', new) : EndedIn(events', h)} = {}
    <3>1. ASSUME NEW h \in DOMAIN invocations, AroundIn(events', h) # {}
          PROVE  Max(AroundIn(events', h)) # new
      <4>1. AroundIn(events', h) \subseteq 1..(h - 1) /\ h - 1 \in Nat
        BY <1>3, <1>4, <1>6
      <4>2. Max(AroundIn(events', h)) \in 1..(h - 1)
        BY <3>1, <4>1, MaxOf
      <4>3. new \notin 1..(h - 1)
        BY <1>6
      <4> QED
        BY <4>2, <4>3
    <3> QED
      BY <1>5, <1>6, <3>1 DEF MadeIn
  <2>3. ToSet(Sub(invocations', new)) = {}
    BY <1>3 DEF ToSet
  <2>4. ASSUME NEW k \in DOMAIN invocations'
        PROVE  ToSet(Sub(invocations', k)) =
                 {h \in MadeIn(events', DOMAIN invocations', k) : EndedIn(events', h)}
    <3>1. CASE k \in DOMAIN invocations
      BY <1>2, <1>7, <2>1, <3>1 DEF EndedFiled
    <3>2. CASE k = new
      BY <2>2, <2>3, <3>2
    <3> QED
      BY <1>6, <3>1, <3>2
  <2> QED
    BY <2>4 DEF EndedFiled
<1>10. FiledInOrder'
  <2>1. Increasing(<<>>)
    BY DEF Increasing
  <2> QED
    BY <1>2, <1>3, <1>6, <1>7, <2>1 DEF FiledInOrder
<1>11. RootFound'
  <2>1. root_invocation # new
    BY <1>6, ExitCodeAssumption DEF InvocationInv, InvocationTypeOK
  <2> QED
    BY <1>2, <1>3, <1>4, <1>5, <1>6, <2>1 DEF RootFound
<1>12. NewestOpen'
  <2> DEFINE d == Len(invocation_stack)
  <2>1. invocation_stack \in Seq(DOMAIN invocations) /\ d \in Nat
    BY LenProperties DEF InvocationInv, InvocationTypeOK
  <2>2. invocation_stack \in Seq(DOMAIN invocations') /\ new \in DOMAIN invocations'
    BY <1>6, <2>1, SeqMonotonic
  <2>3. /\ DOMAIN invocation_stack = 1..d /\ DOMAIN invocation_stack' = 1..(d + 1)
        /\ \A p \in 1..d : invocation_stack'[p] = invocation_stack[p]
        /\ invocation_stack'[d + 1] = new
        /\ \A p \in 1..d : invocation_stack[p] \in DOMAIN invocations
    BY <1>3, <2>1, <2>2, AppendElements, ElementOfSeq
  <2>4. \A k \in DOMAIN invocations : \A h \in ToSet(Sub(invocations, k)) : h < new
    <3>1. \A k \in DOMAIN invocations : Sub(invocations, k) \in Seq(DOMAIN invocations)
      BY DEF Sub, InvocationInv, InvocationTypeOK
    <3>2. \A k \in DOMAIN invocations : ToSet(Sub(invocations, k)) \subseteq DOMAIN invocations
      BY <3>1, ElementOfSeq, LenProperties DEF ToSet
    <3> QED
      BY <1>6, <3>2
  <2> HIDE DEF d
  <2>5. ASSUME NEW p \in 1..(d + 1), NEW q \in 1..(d + 1), q = p + 1,
               NEW h \in ToSet(Sub(invocations', invocation_stack'[p]))
        PROVE  h < invocation_stack'[q]
    <3>1. p \in 1..d
      BY <2>1, <2>5
    <3>2. h \in ToSet(Sub(invocations, invocation_stack[p]))
      BY <1>7, <2>3, <2>5, <3>1
    <3>3. CASE q \in 1..d
      BY <1>2, <2>3, <2>5, <3>1, <3>2, <3>3 DEF NewestOpen
    <3>4. CASE q = d + 1
      BY <2>3, <2>4, <3>1, <3>2, <3>4
    <3> QED
      BY <2>1, <3>3, <3>4
  <2> QED
    BY <2>3, <2>5 DEF NewestOpen
<1> QED
  BY <1>8, <1>9, <1>10, <1>11, <1>12 DEF TreeInv

LEMMA TreeOther ==
  ASSUME InvocationInv, ScanInv, TreeInv, ReadOther
  PROVE  TreeInv'
<1> DEFINE event == [kind |-> "other"]
<1>1. /\ event \in Event /\ ~IsCall(event) /\ ~IsEnd(event) /\ Read(event) /\ status = "reading"
      /\ UNCHANGED <<invocations, invocation_stack, root_invocation>>
  BY EventKinds DEF ReadOther, Read
<1>2. ExitCodesFound /\ EndedFiled /\ FiledInOrder /\ RootFound /\ NewestOpen
  BY <1>1 DEF TreeInv
<1> HIDE DEF event
<1>3. /\ Scanned(events, invocation_stack, Len(invocations))
      /\ events \in Seq(Event) /\ events' = Append(events, event)
      /\ DOMAIN invocations = 1..Len(invocations)
      /\ \A k \in DOMAIN invocations :
           /\ AroundIn(events', k) = AroundIn(events, k)
           /\ EndedIn(events, k) =>
                /\ EndIn(events', k) = EndIn(events, k)
                /\ events'[EndIn(events', k)] = events[EndIn(events, k)]
  BY <1>1, HistoryNext
<1>4. \A k \in DOMAIN invocations : EndedIn(events', k) <=> EndedIn(events, k)
  BY <1>1, <1>3, ScanOther
<1>5. ExitCodesFound'
  BY <1>1, <1>2, <1>3, <1>4 DEF ExitCodesFound
<1>6. EndedFiled'
  <2>1. \A k \in DOMAIN invocations :
          {h \in MadeIn(events', DOMAIN invocations, k) : EndedIn(events', h)} =
            {h \in MadeIn(events, DOMAIN invocations, k) : EndedIn(events, h)}
    BY <1>3, <1>4 DEF MadeIn
  <2> QED
    BY <1>1, <1>2, <2>1 DEF EndedFiled
<1>7. FiledInOrder' /\ NewestOpen'
  BY <1>1, <1>2 DEF FiledInOrder, NewestOpen
<1>8. RootFound'
  BY <1>1, <1>2, <1>3, <1>4 DEF RootFound
<1> QED
  BY <1>5, <1>6, <1>7, <1>8 DEF TreeInv

(* What ends is filed under the call that was on the stack before it, of   *)
(* what was around it the youngest; with nothing around it, it is the root.*)
LEMMA TreeEnd ==
  ASSUME InvocationInv, InvocationInv', ScanInv, TreeInv,
         NEW event \in Event, Read(event), IsEnd(event),
         CodeOf(event) \in ExitCodes \cup {SysAssertionFailed},
         EndInner(CodeOf(event)) \/ EndRoot(CodeOf(event))
  PROVE  TreeInv'
<1> DEFINE top == Last(invocation_stack)
           d == Len(invocation_stack)
           n == Len(invocations)
<1>1. /\ invocation_stack # <<>> /\ invocation_stack' = Front(invocation_stack)
      /\ DOMAIN invocations' = DOMAIN invocations
      /\ \A h \in DOMAIN invocations :
           invocations'[h].exit_code =
             IF h = top THEN CodeOf(event) ELSE invocations[h].exit_code
      /\ \/ /\ d > 1 /\ root_invocation' = root_invocation
            /\ \A h \in DOMAIN invocations :
                 Sub(invocations', h) =
                   IF h = invocation_stack[d - 1] THEN Append(Sub(invocations, h), top)
                   ELSE Sub(invocations, h)
         \/ /\ d = 1 /\ root_invocation = None /\ root_invocation' = top
            /\ \A h \in DOMAIN invocations : Sub(invocations', h) = Sub(invocations, h)
  BY EndFacts
<1>2. ExitCodesFound /\ EndedFiled /\ FiledInOrder /\ RootFound /\ NewestOpen
  BY DEF TreeInv, Read
<1>3. /\ Scanned(events, invocation_stack, n)
      /\ events \in Seq(Event) /\ events' = Append(events, event)
      /\ DOMAIN invocations = 1..n /\ n \in Nat
      /\ \A k \in DOMAIN invocations :
           /\ AroundIn(events', k) = AroundIn(events, k)
           /\ EndedIn(events, k) =>
                /\ EndIn(events', k) = EndIn(events, k)
                /\ events'[EndIn(events', k)] = events[EndIn(events, k)]
  BY HistoryNext
<1>4. /\ \A k \in DOMAIN invocations : EndedIn(events', k) <=> EndedIn(events, k) \/ k = top
      /\ EndIn(events', top) = Len(events) + 1
  BY <1>1, <1>3, ScanEnd
<1>5. /\ top \in DOMAIN invocations /\ top # root_invocation
      /\ d \in Nat /\ d >= 1 /\ DOMAIN invocation_stack = 1..d /\ top = invocation_stack[d]
      /\ DOMAIN invocation_stack' = 1..(d - 1)
      /\ \A p \in 1..(d - 1) : invocation_stack'[p] = invocation_stack[p]
  BY <1>1, TopFacts
<1>6. /\ \A p \in 1..d : invocation_stack[p] \in DOMAIN invocations
      /\ \A p, q \in 1..d : invocation_stack[p] = invocation_stack[q] => p = q
      /\ \A p, q \in 1..d : p < q => invocation_stack[p] < invocation_stack[q]
      /\ ~EndedIn(events, top)
      /\ AroundIn(events, top) = {invocation_stack[q] : q \in 1..(d - 1)}
  <2>1. /\ \A p \in 1..d : invocation_stack[p] \in DOMAIN invocations
                              /\ invocation_stack[p] \in ToSet(invocation_stack)
        /\ \A p, q \in 1..d : invocation_stack[p] = invocation_stack[q] => p = q
    BY <1>3, <1>5, ScannedFacts
  <2>2. d \in 1..d
    BY <1>5
  <2>3. ~EndedIn(events, top)
    BY <1>3, <1>5, <2>1, <2>2 DEF Scanned
  <2>4. AroundIn(events, top) = {invocation_stack[q] : q \in 1..(d - 1)}
    BY <1>3, <1>5, <2>2 DEF Scanned, OpenNested
  <2>5. \A p, q \in 1..d : p < q => invocation_stack[p] < invocation_stack[q]
    BY <1>3, <1>5 DEF Scanned, Increasing
  <2> QED
    BY <2>1, <2>3, <2>4, <2>5
<1>7. events'[Len(events) + 1] = event
  BY <1>3, LenProperties
<1> HIDE DEF top, d, n
<1>8. ExitCodesFound'
  <2>1. ASSUME NEW k \in DOMAIN invocations, EndedIn(events', k)
        PROVE  invocations'[k].exit_code = CodeOf(events'[EndIn(events', k)])
    <3>1. CASE k = top
      BY <1>1, <1>4, <1>7, <3>1
    <3>2. CASE k # top
      BY <1>1, <1>2, <1>3, <1>4, <2>1, <3>2 DEF ExitCodesFound
    <3> QED
      BY <3>1, <3>2
  <2> QED
    BY <1>1, <2>1 DEF ExitCodesFound
<1>9. \A k \in DOMAIN invocations :
        {h \in MadeIn(events', DOMAIN invocations', k) : EndedIn(events', h)} =
          IF AroundIn(events, top) # {} /\ Max(AroundIn(events, top)) = k
          THEN {h \in MadeIn(events, DOMAIN invocations, k) : EndedIn(events, h)} \cup {top}
          ELSE {h \in MadeIn(events, DOMAIN invocations, k) : EndedIn(events, h)}
  <2> SUFFICES ASSUME NEW k \in DOMAIN invocations
               PROVE  {h \in MadeIn(events', DOMAIN invocations', k) : EndedIn(events', h)} =
                        IF AroundIn(events, top) # {} /\ Max(AroundIn(events, top)) = k
                        THEN {h \in MadeIn(events, DOMAIN invocations, k) : EndedIn(events, h)} \cup {top}
                        ELSE {h \in MadeIn(events, DOMAIN invocations, k) : EndedIn(events, h)}
    OBVIOUS
  <2> DEFINE new == {h \in MadeIn(events', DOMAIN invocations', k) : EndedIn(events', h)}
             old == {h \in MadeIn(events, DOMAIN invocations, k) : EndedIn(events, h)}
  <2>1. \A h : h \in new <=>
                 /\ h \in DOMAIN invocations
                 /\ AroundIn(events, h) # {} /\ Max(AroundIn(events, h)) = k
                 /\ EndedIn(events, h) \/ h = top
    BY <1>1, <1>3, <1>4 DEF MadeIn
  <2>2. \A h : h \in old <=>
                 /\ h \in DOMAIN invocations
                 /\ AroundIn(events, h) # {} /\ Max(AroundIn(events, h)) = k
                 /\ EndedIn(events, h)
    BY DEF MadeIn
  <2> HIDE DEF new, old
  <2>3. CASE AroundIn(events, top) # {} /\ Max(AroundIn(events, top)) = k
    <3>1. new = old \cup {top}
      BY <1>5, <2>1, <2>2, <2>3
    <3> QED
      BY <2>3, <3>1 DEF new, old
  <2>4. CASE ~(AroundIn(events, top) # {} /\ Max(AroundIn(events, top)) = k)
    <3>1. new = old
      BY <2>1, <2>2, <2>4
    <3> QED
      BY <2>4, <3>1 DEF new, old
  <2> QED
    BY <2>3, <2>4
<1>10. \A k \in DOMAIN invocations :
         ToSet(Sub(invocations, k)) =
           {h \in MadeIn(events, DOMAIN invocations, k) : EndedIn(events, h)}
  BY <1>2 DEF EndedFiled
<1>11. \A k \in DOMAIN invocations :
         Sub(invocations, k) \in Seq(DOMAIN invocations) /\ Increasing(Sub(invocations, k))
  BY <1>2 DEF Sub, InvocationInv, InvocationTypeOK, FiledInOrder
<1>12. CASE /\ d > 1 /\ root_invocation' = root_invocation
            /\ \A h \in DOMAIN invocations :
                 Sub(invocations', h) =
                   IF h = invocation_stack[d - 1] THEN Append(Sub(invocations, h), top)
                   ELSE Sub(invocations, h)
  <2> DEFINE parent == invocation_stack[d - 1]
             filed == Sub(invocations, parent)
  <2>1. d - 1 \in 1..(d - 1) /\ d - 1 \in 1..d /\ 1..(d - 1) \subseteq 1..d /\ d \in 1..d
    BY <1>5, <1>12
  <2>2. parent \in DOMAIN invocations /\ filed \in Seq(DOMAIN invocations) /\ Increasing(filed)
    BY <1>6, <1>11, <2>1
  <2>3. AroundIn(events, top) # {} /\ Max(AroundIn(events, top)) = parent
    <3>1. \A q \in 1..(d - 1) : parent >= invocation_stack[q] /\ invocation_stack[q] \in Nat
      <4>1. \A q \in 1..d : invocation_stack[q] \in Nat
        BY <1>3, <1>6
      <4>2. \A q \in 1..(d - 1) : q = d - 1 \/ q < d - 1
        BY <1>5
      <4> QED
        BY <1>6, <2>1, <4>1, <4>2
    <3>2. /\ AroundIn(events, top) \subseteq Nat /\ parent \in AroundIn(events, top)
          /\ \A h \in AroundIn(events, top) : parent >= h
      BY <1>6, <2>1, <3>1
    <3> HIDE DEF parent
    <3> QED
      BY <3>2, MaxIs
  <2>4. \A k \in DOMAIN invocations :
          Sub(invocations', k) = IF k = parent THEN Append(filed, top) ELSE Sub(invocations, k)
    BY <1>12
  <2>5. \A h \in ToSet(filed) : h < top
    <3>1. d = (d - 1) + 1
      BY <1>5
    <3> QED
      BY <1>2, <1>5, <2>1, <3>1 DEF NewestOpen
  <2>6. /\ DOMAIN filed = 1..Len(filed) /\ Len(filed) \in Nat
        /\ DOMAIN Append(filed, top) = 1..(Len(filed) + 1)
        /\ \A p \in 1..Len(filed) : Append(filed, top)[p] = filed[p]
        /\ Append(filed, top)[Len(filed) + 1] = top
        /\ ToSet(Append(filed, top)) = ToSet(filed) \cup {top}
    BY <1>5, <2>2, AppendElements
  <2> HIDE DEF parent, filed
  <2>7. EndedFiled'
    <3>1. ASSUME NEW k \in DOMAIN invocations
          PROVE  ToSet(Sub(invocations', k)) =
                   {h \in MadeIn(events', DOMAIN invocations', k) : EndedIn(events', h)}
      <4>1. CASE k = parent
        <5>1. filed = Sub(invocations, k)
          BY <4>1 DEF filed
        <5> QED
          BY <1>9, <1>10, <2>3, <2>4, <2>6, <4>1, <5>1
      <4>2. CASE k # parent
        BY <1>9, <1>10, <2>3, <2>4, <4>2
      <4> QED
        BY <4>1, <4>2
    <3> QED
      BY <1>1, <3>1 DEF EndedFiled
  <2>8. FiledInOrder'
    <3>1. Increasing(Append(filed, top))
      <4>1. \A p, q \in 1..Len(filed) : p < q => filed[p] < filed[q]
        BY <2>2, <2>6 DEF Increasing
      <4>2. \A p \in 1..Len(filed) : filed[p] < top
        BY <2>5, <2>6 DEF ToSet
      <4>3. ASSUME NEW p \in 1..(Len(filed) + 1), NEW q \in 1..(Len(filed) + 1), p < q
            PROVE  Append(filed, top)[p] < Append(filed, top)[q]
        <5>1. p \in 1..Len(filed)
          BY <2>6, <4>3
        <5>2. CASE q \in 1..Len(filed)
          BY <2>6, <4>1, <4>3, <5>1, <5>2
        <5>3. CASE q = Len(filed) + 1
          BY <2>6, <4>2, <5>1, <5>3
        <5> QED
          BY <2>6, <5>2, <5>3
      <4> QED
        BY <2>6, <4>3 DEF Increasing
    <3> QED
      BY <1>1, <1>11, <2>4, <3>1 DEF FiledInOrder
  <2>9. RootFound'
    <3>1. ASSUME NEW k \in DOMAIN invocations
          PROVE  root_invocation' = k <=> EndedIn(events', k) /\ AroundIn(events', k) = {}
      <4>1. CASE k = top
        BY <1>3, <1>5, <1>12, <2>3, <4>1
      <4>2. CASE k # top
        BY <1>2, <1>3, <1>4, <1>12, <4>2 DEF RootFound
      <4> QED
        BY <4>1, <4>2
    <3> QED
      BY <1>1, <3>1 DEF RootFound
  <2>10. NewestOpen'
    <3>1. ASSUME NEW p \in 1..(d - 1), NEW q \in 1..(d - 1), q = p + 1
          PROVE  Sub(invocations', invocation_stack[p]) = Sub(invocations, invocation_stack[p])
      <4>1. p # d - 1
        BY <1>5, <3>1
      <4>2. invocation_stack[p] # parent /\ invocation_stack[p] \in DOMAIN invocations
        BY <1>6, <2>1, <4>1 DEF parent
      <4> QED
        BY <2>4, <4>2
    <3> QED
      BY <1>2, <1>5, <2>1, <3>1 DEF NewestOpen
  <2> QED
    BY <1>8, <2>7, <2>8, <2>9, <2>10 DEF TreeInv
<1>13. CASE /\ d = 1 /\ root_invocation = None /\ root_invocation' = top
            /\ \A h \in DOMAIN invocations : Sub(invocations', h) = Sub(invocations, h)
  <2>1. 1..(d - 1) = {}
    BY <1>13
  <2>2. AroundIn(events, top) = {}
    BY <1>6, <2>1
  <2>3. EndedFiled'
    <3>1. ASSUME NEW k \in DOMAIN invocations
          PROVE  ToSet(Sub(invocations', k)) =
                   {h \in MadeIn(events', DOMAIN invocations', k) : EndedIn(events', h)}
      BY <1>9, <1>10, <1>13, <2>2
    <3> QED
      BY <1>1, <3>1 DEF EndedFiled
  <2>4. FiledInOrder'
    BY <1>1, <1>11, <1>13 DEF FiledInOrder
  <2>5. RootFound'
    <3>1. None \notin DOMAIN invocations
      BY <1>3, ExitCodeAssumption
    <3>2. ASSUME NEW k \in DOMAIN invocations
          PROVE  root_invocation' = k <=> EndedIn(events', k) /\ AroundIn(events', k) = {}
      <4>1. CASE k = top
        BY <1>3, <1>4, <1>13, <2>2, <4>1
      <4>2. CASE k # top
        BY <1>2, <1>3, <1>4, <1>13, <3>1, <4>2 DEF RootFound
      <4> QED
        BY <4>1, <4>2
    <3> QED
      BY <1>1, <3>2 DEF RootFound
  <2>6. NewestOpen'
    BY <1>5, <2>1 DEF NewestOpen
  <2> QED
    BY <1>8, <2>3, <2>4, <2>5, <2>6 DEF TreeInv
<1> QED
  BY <1>1, <1>12, <1>13 DEF d

LEMMA TreeNext ==
  ASSUME InvocationInv, InvocationInv', ScanInv, TreeInv, [InvocationNext]_invocationVars
  PROVE  TreeInv'
<1>1. CASE UNCHANGED invocationVars
  BY <1>1 DEF invocationVars, TreeInv, ExitCodesFound, EndedFiled, FiledInOrder, RootFound,
    NewestOpen
<1>2. CASE EndUnexpected
  BY <1>2 DEF EndUnexpected, Panic, TreeInv
<1>3. CASE Finish
  <2>1. status = "reading" /\ UNCHANGED <<invocations, invocation_stack, root_invocation, events>>
    BY <1>3 DEF Finish, Panic
  <2> QED
    BY <2>1 DEF TreeInv, ExitCodesFound, EndedFiled, FiledInOrder, RootFound, NewestOpen
<1> QED
  BY <1>1, <1>2, <1>3, StepCases, TreeCall, TreeOther, TreeEnd

LEMMA TreeInit ==
  ASSUME InvocationInit
  PROVE  TreeInv
<1>1. DOMAIN invocations = {} /\ DOMAIN invocation_stack = {}
  BY DEF InvocationInit
<1> QED
  BY <1>1 DEF TreeInv, ExitCodesFound, EndedFiled, FiledInOrder, RootFound, NewestOpen

LEMMA TreeFound ==
  ASSUME TreeInv
  PROVE  TreeExact /\ ExitCodesExact
<1>1. /\ \A k : (Ended(k) <=> EndedIn(events, k)) /\ EndOf(k) = EndIn(events, k)
      /\ \A k : Around(k) = AroundIn(events, k)
      /\ \A k : MadeBy(k) = MadeIn(events, DOMAIN invocations, k)
  BY ReferenceOfTrace
<1>2. TreeExact
  <2>1. ASSUME status # "panicked", NEW k \in DOMAIN invocations
        PROVE  /\ ToSet(Sub(invocations, k)) = {h \in MadeBy(k) : Ended(h)}
               /\ \A p, q \in DOMAIN Sub(invocations, k) :
                    p < q => Sub(invocations, k)[p] < Sub(invocations, k)[q]
               /\ root_invocation = k <=> Ended(k) /\ Around(k) = {}
    <3>1. EndedFiled /\ FiledInOrder /\ RootFound
      BY <2>1 DEF TreeInv
    <3> QED
      BY <1>1, <3>1 DEF EndedFiled, FiledInOrder, RootFound, Increasing
  <2> QED
    BY <2>1 DEF TreeExact, Sub
<1>3. ExitCodesExact
  BY <1>1 DEF ExitCodesExact, TreeInv, ExitCodesFound, CodeOf
<1> QED
  BY <1>2, <1>3

(* The inductive invariant on the conversion and the trace read so far.    *)
THEOREM ReferenceInvariant == InvocationSpec => [](InvocationInv /\ ScanInv /\ RootInv /\ TreeInv)
<1>1. InvocationInit => InvocationInv /\ ScanInv /\ RootInv /\ TreeInv
  BY InvocationInitInv, ScanInit, RootInit, TreeInit
<1>2. InvocationInv /\ InvocationInv' /\ (ScanInv /\ RootInv /\ TreeInv)
        /\ [InvocationNext]_invocationVars => (ScanInv /\ RootInv /\ TreeInv)'
  BY ScanNext, RootNext, TreeNext
<1> QED
  BY <1>1, <1>2, InvocationInvariant, PTL DEF InvocationSpec

(* The tree of the conversion is that of the calls of the trace, matched   *)
(* with what ends them (trace.rs:116-117, 135-136), for any trace.         *)
THEOREM TreeAlwaysExact == InvocationSpec => []TreeExact
<1>1. InvocationInv /\ ScanInv /\ RootInv /\ TreeInv => TreeExact
  BY TreeFound
<1> QED
  BY <1>1, ReferenceInvariant, PTL

(* An invocation has the exit code of the event that ended it              *)
(* (trace.rs:113, 133), however calls nest.                                *)
THEOREM ExitCodesAlwaysExact == InvocationSpec => []ExitCodesExact
<1>1. InvocationInv /\ ScanInv /\ RootInv /\ TreeInv => ExitCodesExact
  BY TreeFound
<1> QED
  BY <1>1, ReferenceInvariant, PTL

(* Exactly the traces with one outermost call and an end to each call are  *)
(* converted (trace.rs:111, 121, 129, 140, 149, 152).                      *)
THEOREM ConvertsExactlyRooted == InvocationSpec => []ConvertsOneRootedTrace
<1>1. InvocationInv /\ ScanInv /\ RootInv /\ TreeInv => ConvertsOneRootedTrace
  BY RootConverts
<1> QED
  BY <1>1, ReferenceInvariant, PTL

=============================================================================
