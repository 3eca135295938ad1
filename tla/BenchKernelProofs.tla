------------------------- MODULE BenchKernelProofs -------------------------
(* Theorems about BenchKernel, for all prices and limits. *)
EXTENDS BenchKernel, SequenceTheorems, TLAPS

(* A call never has more gas than the calls around it, and what the        *)
(* message has used is within the limit of each call under way.  So the    *)
(* gas of an inner call that runs out is gas its callers had.              *)
LimitsNest ==
  /\ \A i, j \in DOMAIN stack : i <= j => stack[j] <= stack[i]
  /\ \A i \in DOMAIN stack : gas_used <= stack[i]
  /\ message = "running" <=> stack # <<>>

(* Of the gas that the message has used, what it was charged for an answer *)
(* that it has not got yet, in the middle of a batch say, is not what      *)
(* earlier answers were worth.                                             *)
Reserved == IF serving = NoCall THEN 0 ELSE serving.made * Price[serving.name]
Paid ==
  /\ due + Reserved <= gas_used
  /\ serving # NoCall => message = "running"

KernelInv == KernelTypeOK /\ LimitsNest /\ Paid

LEMMA KernelInitInv == KernelInit => KernelInv
  BY GasAssumption DEF KernelInit, KernelInv, KernelTypeOK, Paid, Reserved, LimitsNest, NoCall

LEMMA ReservedType == KernelInv => Reserved \in Nat
<1> SUFFICES ASSUME KernelInv PROVE Reserved \in Nat
  OBVIOUS
<1>1. CASE serving = NoCall
  BY <1>1 DEF Reserved
<1>2. CASE serving # NoCall
  <2>1. serving.made \in Nat /\ Price[serving.name] \in Nat
    BY <1>2, GasAssumption DEF KernelInv, KernelTypeOK
  <2> QED
    BY <1>2, <2>1 DEF Reserved
<1> QED
  BY <1>1, <1>2

LEMMA PaidSoFar ==
  ASSUME KernelInv
  PROVE  due \in Nat /\ gas_used \in Nat /\ due <= gas_used
  BY ReservedType, GasAssumption DEF KernelInv, KernelTypeOK, Paid

(* The innermost call of a message that is running.                        *)
LEMMA StackTop ==
  ASSUME KernelInv, message = "running"
  PROVE  /\ stack \in Seq(0..GasLimit) /\ stack # <<>>
         /\ Depth \in Nat /\ Depth >= 1 /\ DOMAIN stack = 1..Depth
         /\ Limit \in 0..GasLimit /\ gas_used <= Limit
         /\ \A i \in DOMAIN stack : Limit <= stack[i] /\ stack[i] \in 0..GasLimit
<1>1. stack \in Seq(0..GasLimit) /\ stack # <<>>
  BY DEF KernelInv, KernelTypeOK, LimitsNest
<1>2. Depth \in Nat /\ Depth >= 1 /\ DOMAIN stack = 1..Depth
  BY <1>1, EmptySeq, LenProperties DEF Depth
<1>3. \A i \in DOMAIN stack : stack[i] \in 0..GasLimit
  <2>1. stack \in [1..Len(stack) -> 0..GasLimit]
    BY <1>1, LenProperties
  <2> QED
    BY <2>1
<1>4. Depth \in DOMAIN stack /\ \A i \in DOMAIN stack : i <= Depth
  BY <1>2
<1> QED
  BY <1>1, <1>2, <1>3, <1>4 DEF KernelInv, LimitsNest, Limit

(* Calls begin and end without a charge.                                   *)
LEMMA RebuildInv == KernelInv /\ Rebuild => KernelInv'
  BY DEF KernelInv, KernelTypeOK, Paid, Reserved, LimitsNest, NoCall, Rebuild,
    DefaultExterns, Behaviours

LEMMA StartMessageInv == KernelInv /\ StartMessage => KernelInv'
<1> SUFFICES ASSUME KernelInv, StartMessage PROVE KernelInv'
  OBVIOUS
<1>1. stack' = <<GasLimit>> /\ GasLimit \in 0..GasLimit
  BY GasAssumption DEF StartMessage
<1>2. DOMAIN stack' = {1} /\ stack'[1] = GasLimit /\ stack' \in Seq(0..GasLimit)
  BY <1>1
<1> QED
  BY <1>1, <1>2, GasAssumption DEF KernelInv, KernelTypeOK, Paid, Reserved,
    LimitsNest, NoCall, StartMessage

LEMMA SendInv ==
  ASSUME KernelInv, NEW gas \in 0..GasLimit, Send(gas) PROVE KernelInv'
<1> DEFINE limit == IF gas_used + gas < Limit THEN gas_used + gas ELSE Limit
<1>1. stack \in Seq(0..GasLimit) /\ stack # <<>> /\ gas_used \in Nat
  BY GasAssumption DEF KernelInv, KernelTypeOK, LimitsNest, Send, ActorRuns
<1>2. Depth \in DOMAIN stack /\ Limit \in 0..GasLimit /\ gas_used <= Limit
  BY StackTop DEF Send, ActorRuns
<1>3. limit \in 0..GasLimit /\ limit <= Limit /\ gas_used <= limit
  BY <1>1, <1>2, GasAssumption
<1>4. stack' = Append(stack, limit) /\ stack' \in Seq(0..GasLimit) /\ stack' # <<>>
  BY <1>1, <1>3 DEF Send
<1>5. \A i \in DOMAIN stack' :
        (i \in DOMAIN stack /\ stack'[i] = stack[i]) \/ (i = Len(stack) + 1 /\ stack'[i] = limit)
  BY <1>1, <1>3, <1>4
<1>6. \A i \in DOMAIN stack : limit <= stack[i]
  BY <1>1, <1>2, <1>3, GasAssumption DEF KernelInv, LimitsNest, Limit, Depth
<1>7. \A i, j \in DOMAIN stack' : i <= j => stack'[j] <= stack'[i]
  BY <1>1, <1>3, <1>5, <1>6 DEF KernelInv, LimitsNest
<1>8. \A i \in DOMAIN stack' : gas_used <= stack'[i]
  BY <1>3, <1>5 DEF KernelInv, LimitsNest
<1> QED
  BY <1>4, <1>7, <1>8 DEF KernelInv, KernelTypeOK, Paid, Reserved, LimitsNest,
    NoCall, Send, ActorRuns

(* What the end of the innermost call leaves of the stack.                 *)
LEMMA EndCallStack ==
  ASSUME KernelInv, message = "running", EndCall
  PROVE  /\ stack' \in Seq(0..GasLimit)
         /\ \A i \in DOMAIN stack' : i \in DOMAIN stack /\ stack'[i] = stack[i]
         /\ \A i \in DOMAIN stack' : Limit <= stack'[i]
         /\ Limit \in 0..GasLimit /\ gas_used <= Limit
         /\ message' \in {"running", "ended"}
         /\ message' = "running" <=> stack' # <<>>
<1>1. stack \in Seq(0..GasLimit) /\ stack # <<>>
  BY StackTop
<1>2. Depth \in Nat /\ Depth >= 1 /\ DOMAIN stack = 1..Depth
  BY StackTop
<1>3. stack' = SubSeq(stack, 1, Depth - 1)
  BY DEF EndCall
<1>4. /\ stack' \in Seq(0..GasLimit) /\ DOMAIN stack' = 1..(Depth - 1)
      /\ \A i \in 1..(Depth - 1) : stack'[i] = stack[i]
  <2>1. Len(stack') = Depth - 1 /\ \A i \in 1..(Depth - 1) : stack'[i] = stack[i]
    BY <1>1, <1>2, <1>3, SubSeqProperties DEF Depth
  <2>2. \A i \in 1..(Depth - 1) : stack[i] \in 0..GasLimit
    BY <1>2, StackTop
  <2>3. stack' \in Seq(0..GasLimit)
    BY <1>1, <1>2, <1>3, <2>2, SubSeqProperties
  <2> QED
    BY <2>1, <2>3, LenProperties
<1>5. stack' # <<>> <=> Depth # 1
  BY <1>2, <1>4
<1>6. \A i \in DOMAIN stack' : i \in DOMAIN stack /\ i <= Depth
  BY <1>2, <1>4
<1> QED
  BY <1>2, <1>4, <1>5, <1>6, StackTop DEF EndCall

LEMMA ReturnInv == KernelInv /\ Return => KernelInv'
<1> SUFFICES ASSUME KernelInv, Return PROVE KernelInv'
  OBVIOUS
<1> USE EndCallStack DEF Return, ActorRuns
<1>1. KernelTypeOK'
  BY DEF KernelInv, KernelTypeOK, NoCall
<1>2. LimitsNest'
  BY DEF KernelInv, LimitsNest
<1> QED
  BY <1>1, <1>2 DEF KernelInv, Paid, Reserved

-----------------------------------------------------------------------------
(* Charges, and the ways for a system call to end.                         *)

LEMMA OutOfGasInv ==
  ASSUME KernelInv, message = "running", NEW name \in Syscalls, OutOfGas(name)
  PROVE  KernelInv'
<1>1. Limit \in 0..GasLimit /\ gas_used <= Limit
  BY StackTop
<1>2. due <= Limit
  BY <1>1, PaidSoFar, GasAssumption
<1>3. KernelTypeOK'
  BY EndCallStack DEF OutOfGas, KernelInv, KernelTypeOK
<1>4. LimitsNest'
  <2>1. \A i, j \in DOMAIN stack' : i <= j => stack'[j] <= stack'[i]
    BY EndCallStack DEF OutOfGas, KernelInv, LimitsNest
  <2> QED
    BY <2>1, EndCallStack DEF OutOfGas, LimitsNest
<1>5. Paid'
  <2>1. serving' = NoCall /\ due' = due /\ gas_used' = Limit
    BY DEF OutOfGas
  <2>2. Reserved' = 0
    BY <2>1 DEF Reserved
  <2> QED
    BY <1>2, <2>1, <2>2, PaidSoFar DEF Paid
<1> QED
  BY <1>3, <1>4, <1>5 DEF KernelInv

(* Gas that the innermost call affords is within all limits around it.     *)
LEMMA AffordedGas ==
  ASSUME KernelInv, message = "running", NEW gas \in Nat, Affords(gas)
  PROVE  /\ stack \in Seq(0..GasLimit) /\ stack # <<>>
         /\ gas_used + gas \in 0..GasLimit
         /\ \A i \in DOMAIN stack : gas_used + gas <= stack[i]
<1>1. gas_used \in Nat /\ GasLimit \in Nat
  BY PaidSoFar, GasAssumption
<1>2. Limit \in 0..GasLimit /\ gas_used + gas <= Limit
  BY StackTop DEF Affords
<1>3. \A i \in DOMAIN stack : Limit <= stack[i] /\ stack[i] \in 0..GasLimit
  BY StackTop
<1>4. gas_used + gas \in 0..GasLimit
  BY <1>1, <1>2
<1>5. \A i \in DOMAIN stack : gas_used + gas <= stack[i]
  BY <1>1, <1>2, <1>3
<1> QED
  BY <1>4, <1>5, StackTop

(* An answer is worth what was charged before it and with it.              *)
LEMMA AnsweredInv ==
  ASSUME KernelInv, message = "running", NEW name \in Syscalls,
         NEW gas \in Nat, NEW price \in Nat, NEW answer,
         Affords(gas), price <= Reserved + gas, Answered(name, gas, price, answer)
  PROVE  KernelInv'
<1>1. gas_used' = gas_used + gas /\ due' = due + price /\ serving' = NoCall
  BY DEF Answered
<1>2. KernelTypeOK'
  BY <1>1, AffordedGas, PaidSoFar DEF Answered, KernelInv, KernelTypeOK
<1>3. LimitsNest'
  BY <1>1, AffordedGas DEF Answered, KernelInv, LimitsNest
<1>4. due' <= gas_used'
  <2>1. due + Reserved <= gas_used
    BY DEF KernelInv, Paid
  <2> QED
    BY <1>1, <2>1, ReservedType, PaidSoFar
<1>5. Paid'
  BY <1>1, <1>4, PaidSoFar DEF Paid, Reserved
<1> QED
  BY <1>2, <1>3, <1>5 DEF KernelInv

LEMMA RefusedInv ==
  ASSUME KernelInv, message = "running", NEW name \in Syscalls, NEW gas \in Nat,
         Affords(gas), Refused(name, gas)
  PROVE  KernelInv'
<1>1. gas_used' = gas_used + gas /\ due' = due /\ serving' = NoCall
  BY DEF Refused
<1>2. KernelTypeOK'
  BY <1>1, AffordedGas, PaidSoFar DEF Refused, KernelInv, KernelTypeOK
<1>3. LimitsNest'
  BY <1>1, AffordedGas DEF Refused, KernelInv, LimitsNest
<1>4. Paid'
  BY <1>1, PaidSoFar DEF Paid, Reserved
<1> QED
  BY <1>2, <1>3, <1>4 DEF KernelInv

LEMMA FatalInv ==
  ASSUME KernelInv, message = "running", NEW name \in Syscalls, NEW gas \in Nat,
         Affords(gas), Fatal(name, gas)
  PROVE  KernelInv'
<1>1. /\ gas_used' = gas_used + gas /\ due' = due /\ serving' = NoCall
      /\ stack' = <<>> /\ message' = "fatal"
  BY DEF Fatal
<1>2. KernelTypeOK'
  BY <1>1, AffordedGas, PaidSoFar, EmptySeq DEF Fatal, KernelInv, KernelTypeOK
<1>3. LimitsNest'
  BY <1>1 DEF LimitsNest
<1>4. Paid'
  BY <1>1, PaidSoFar DEF Paid, Reserved
<1> QED
  BY <1>2, <1>3, <1>4 DEF KernelInv

-----------------------------------------------------------------------------
(* System calls that the kernel answers itself.                            *)

LEMMA ServeInv ==
  ASSUME KernelInv, NEW name \in Syscalls, NEW charges \in Nat, Serve(name, charges)
  PROVE  KernelInv'
<1>1. /\ serving = NoCall /\ message = "running"
      /\ UNCHANGED <<externs, message, stack, gas_used, last, due>>
  BY DEF Serve, ActorRuns
<1>2. serving' = [name |-> name, charges |-> charges, made |-> 0]
  BY DEF Serve
<1>3. serving' \in [name : Syscalls, charges : Nat, made : Nat] /\ serving'.made <= serving'.charges
  BY <1>2
<1>4. KernelTypeOK'
  BY <1>1, <1>3 DEF KernelInv, KernelTypeOK
<1>5. LimitsNest'
  BY <1>1 DEF KernelInv, LimitsNest
<1>6. Reserved' = 0
  <2>1. Price[name] \in Nat
    BY GasAssumption
  <2> QED
    BY <1>2, <2>1 DEF Reserved
<1>7. Paid'
  BY <1>1, <1>6, PaidSoFar DEF Paid
<1> QED
  BY <1>4, <1>5, <1>7 DEF KernelInv

(* A system call that the kernel is in the middle of.                      *)
LEMMA ServedCall ==
  ASSUME KernelInv, Serving
  PROVE  /\ message = "running" /\ serving \in [name : Syscalls, charges : Nat, made : Nat]
         /\ serving.name \in Syscalls /\ serving.charges \in Nat /\ serving.made \in Nat
         /\ Price[serving.name] \in Nat
         /\ Reserved = serving.made * Price[serving.name]
<1>1. serving \in [name : Syscalls, charges : Nat, made : Nat]
  BY DEF KernelInv, KernelTypeOK, Serving
<1> QED
  BY <1>1, GasAssumption DEF Serving, Reserved

(* A charge that is made is reserved; at one that fails the call ends and  *)
(* what was reserved is spent on nothing.                                  *)
LEMMA ChargeOneInv ==
  ASSUME KernelInv, ChargeOne
  PROVE  KernelInv'
<1> DEFINE gas == Price[serving.name]
           made == serving.made
<1>1. Serving /\ made < serving.charges /\ Charge(gas)
  BY DEF ChargeOne
<1>2. /\ message = "running" /\ serving \in [name : Syscalls, charges : Nat, made : Nat]
      /\ serving.name \in Syscalls /\ serving.charges \in Nat /\ made \in Nat /\ gas \in Nat
      /\ Reserved = made * gas
  BY <1>1, ServedCall
<1>3. CASE OutOfGas(serving.name)
  BY <1>2, <1>3, OutOfGasInv
<1>4. CASE /\ Affords(gas)
           /\ gas_used' = gas_used + gas
           /\ serving' = [serving EXCEPT !.made = @ + 1]
           /\ UNCHANGED <<externs, message, stack, last, due>>
  <2>1. /\ serving' \in [name : Syscalls, charges : Nat, made : Nat]
        /\ serving'.name = serving.name /\ serving'.made = made + 1
        /\ serving'.made <= serving'.charges
    BY <1>1, <1>2, <1>4
  <2>2. KernelTypeOK'
    BY <1>2, <1>4, <2>1, AffordedGas DEF KernelInv, KernelTypeOK
  <2>3. LimitsNest'
    BY <1>2, <1>4, AffordedGas DEF KernelInv, LimitsNest
  <2>4. Reserved' = (made + 1) * gas
    <3>1. serving' # NoCall
      <4>1. DOMAIN serving' = {"name", "charges", "made"} /\ DOMAIN NoCall = {"name"}
        BY <2>1 DEF NoCall
      <4> QED
        BY <4>1
    <3> QED
      BY <2>1, <3>1 DEF Reserved
  <2>5. due + Reserved <= gas_used /\ due \in Nat /\ gas_used \in Nat
    BY PaidSoFar DEF KernelInv, Paid
  <2>6. (made + 1) * gas = made * gas + gas /\ made * gas \in Nat
    BY <1>2
  <2>7. due + Reserved' <= gas_used'
    <3> HIDE DEF gas, made
    <3> QED
      BY <1>2, <1>4, <2>4, <2>5, <2>6
  <2> QED
    BY <1>2, <1>4, <2>2, <2>3, <2>7 DEF KernelInv, Paid
<1> QED
  BY <1>1, <1>3, <1>4 DEF Charge

(* When all charges are made, what is reserved is what the answer is worth. *)
LEMMA ChargedCall ==
  ASSUME KernelInv, Charged
  PROVE  /\ message = "running" /\ serving.name \in Syscalls /\ Affords(0)
         /\ Worth \in Nat /\ Worth <= Reserved + 0
<1>1. Serving /\ serving.made = serving.charges
  BY DEF Charged
<1>2. /\ message = "running" /\ serving.name \in Syscalls /\ serving.charges \in Nat
      /\ Price[serving.name] \in Nat /\ Reserved = serving.charges * Price[serving.name]
  BY <1>1, ServedCall
<1>3. Worth \in Nat /\ Reserved = Worth
  BY <1>2 DEF Worth
<1>4. Affords(0)
  BY <1>2, StackTop, PaidSoFar DEF Affords
<1> QED
  BY <1>2, <1>3, <1>4

LEMMA AnswerStaticInv == KernelInv /\ AnswerStatic => KernelInv'
<1> SUFFICES ASSUME KernelInv, AnswerStatic PROVE KernelInv'
  OBVIOUS
<1> DEFINE answer == StaticAnswer[serving.name]
<1>1. Charged /\ (Fatal(serving.name, 0) \/ Answered(serving.name, 0, Worth, answer))
  BY DEF AnswerStatic
<1> HIDE DEF answer
<1> QED
  BY <1>1, ChargedCall, FatalInv, AnsweredInv

LEMMA VerifySignatureInv ==
  ASSUME KernelInv, NEW matches \in BOOLEAN, VerifySignature(matches)
  PROVE  KernelInv'
<1>1. Charged /\ (Fatal(serving.name, 0) \/ Answered(serving.name, 0, Worth, "true"))
  BY DEF VerifySignature
<1> QED
  BY <1>1, ChargedCall, FatalInv, AnsweredInv

-----------------------------------------------------------------------------
(* System calls that the default kernel answers.                           *)

LEMMA InnerInv ==
  ASSUME KernelInv, NEW name \in Syscalls, NEW answer, Inner(name, answer)
  PROVE  KernelInv'
<1> DEFINE gas == Price[name]
<1>1. gas \in Nat
  BY GasAssumption
<1>2. message = "running" /\ serving = NoCall
  BY DEF Inner, ActorRuns
<1>3. \/ OutOfGas(name)
      \/ Affords(gas) /\ Answered(name, gas, gas, answer)
      \/ Affords(gas) /\ (Refused(name, gas) \/ Fatal(name, gas))
  BY DEF Inner
<1>4. gas <= Reserved + gas
  BY <1>1, <1>2 DEF Reserved
<1> HIDE DEF gas
<1> QED
  BY <1>1, <1>2, <1>3, <1>4, OutOfGasInv, AnsweredInv, RefusedInv, FatalInv

LEMMA SyscallInv == KernelInv /\ Syscall => KernelInv'
<1> SUFFICES ASSUME KernelInv, Syscall PROVE KernelInv'
  OBVIOUS
<1>1. CASE \E seals \in 0..MaxSeals : VerifyBatch(seals)
  BY <1>1, ServeInv, BoundAssumption DEF VerifyBatch, Syscalls, Static, StaticAnswer
<1>2. CASE \E name \in Proofs \cup {"verify_signature"} : VerifyOne(name)
  BY <1>2, ServeInv DEF VerifyOne, Proofs, Syscalls
<1>3. CASE ChargeOne
  BY <1>3, ChargeOneInv
<1>4. CASE AnswerStatic
  BY <1>4, AnswerStaticInv
<1>5. CASE \E matches \in BOOLEAN : VerifySignature(matches)
  BY <1>5, VerifySignatureInv
<1>6. CASE \E name \in Used : Forward(name)
  BY <1>6, BoundAssumption, InnerInv DEF Forward, Syscalls
<1>7. CASE RandomnessFromTickets
  BY <1>7, InnerInv DEF RandomnessFromTickets, Syscalls
<1> QED
  BY <1>1, <1>2, <1>3, <1>4, <1>5, <1>6, <1>7 DEF Syscall

(* The inductive invariant: each system call pays at the limit of its own  *)
(* call, which is one of all calls around it.                              *)
THEOREM KernelInvariant == KernelSpec => []KernelInv
<1>1. KernelInv /\ [KernelNext]_vars => KernelInv'
  <2> SUFFICES ASSUME KernelInv, [KernelNext]_vars PROVE KernelInv'
    OBVIOUS
  <2>1. CASE UNCHANGED vars
    BY <2>1 DEF vars, KernelInv, KernelTypeOK, Paid, Reserved, LimitsNest
  <2>2. CASE Rebuild
    BY <2>2, RebuildInv
  <2>3. CASE StartMessage
    BY <2>3, StartMessageInv
  <2>4. CASE \E gas \in 0..GasLimit : Send(gas)
    BY <2>4, SendInv
  <2>5. CASE Return
    BY <2>5, ReturnInv
  <2>6. CASE Syscall
    BY <2>6, SyscallInv
  <2> QED
    BY <2>1, <2>2, <2>3, <2>4, <2>5, <2>6 DEF KernelNext
<1> QED
  BY KernelInitInv, <1>1, PTL DEF KernelSpec

(* The types of the kernel's state; no message passes its gas limit.       *)
THEOREM KernelTypeCorrect == KernelSpec => []KernelTypeOK
  BY KernelInvariant, PTL DEF KernelInv

(* What an actor is answered has been paid for, for all prices, limits and *)
(* sizes of batches: a batch that runs out of gas between two charges is   *)
(* not answered, whatever it was charged before.                           *)
THEOREM AnswersPaid == KernelSpec => []PaidInFull
<1>1. KernelInv => PaidInFull
  BY PaidSoFar DEF PaidInFull
<1> QED
  BY <1>1, KernelInvariant, PTL

=============================================================================
