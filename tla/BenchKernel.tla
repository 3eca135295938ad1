---------------------------- MODULE BenchKernel ----------------------------
(***************************************************************************)
(* BenchKernel (vm/src/bench/kernel.rs): the system calls of an actor that *)
(* runs on the bench.  Most are forwarded to the default kernel; proofs,   *)
(* signatures and faults are answered with static data once their gas has  *)
(* been charged.  Below it are the externs (vm/src/externs.rs), which are  *)
(* given to the builder and replaced when the machine is rebuilt.          *)
(*                                                                         *)
(* A message is a stack of calls, one kernel each, that share the gas of   *)
(* the message and may have limits of their own.                           *)
(***************************************************************************)
EXTENDS Naturals, Sequences

CONSTANTS
  Price,        \* gas that each system call costs, for a batch each seal
  GasLimit,     \* gas limit of a message
  Used,         \* bound: forwarded system calls that actors make
  MaxSeals,     \* bound: seals in a batch
  MaxDepth      \* bound: nested calls

(* Forwarded to the default kernel, by trait.                              *)
ActorOps ==
  {"resolve_address", "get_actor_code_cid", "next_actor_address", "create_actor",
   "get_builtin_actor_type", "get_code_cid_for_type", "balance_of",
   "lookup_delegated_address"}
IpldBlockOps == {"block_open", "block_create", "block_link", "block_read", "block_stat"}
CircSupplyOps == {"total_fil_circ_supply"}
ForwardedCryptoOps == {"hash", "recover_secp_public_key"}
DebugOps == {"log", "debug_enabled", "store_artifact"}
GasOps == {"gas_used", "charge_gas", "gas_available"}
MessageOps == {"msg_context"}
NetworkOps == {"network_context", "tipset_cid"}
SelfOps == {"root", "set_root", "current_balance", "self_destruct"}
EventOps == {"emit_event"}
Beacon == {"get_randomness_from_beacon"}
Forwarded ==
  ActorOps \cup IpldBlockOps \cup CircSupplyOps \cup ForwardedCryptoOps \cup DebugOps
    \cup GasOps \cup MessageOps \cup NetworkOps \cup SelfOps \cup EventOps \cup Beacon

(* Option<Cid> of KernelConfiguration, which every kernel is made with.    *)
None == "none"
UnsealedSectorCid == "test data cid"

(* Answered here.  What is in this table needs no more than its gas.       *)
StaticAnswer ==
  [compute_unsealed_sector_cid |-> UnsealedSectorCid, batch_verify_seals |-> "true",
   verify_post |-> "true", verify_consensus_fault |-> "no fault",
   verify_aggregate_seals |-> "true", verify_replica_update |-> "true"]
Static == DOMAIN StaticAnswer
Proofs == Static \ {"batch_verify_seals"}
Tickets == "get_randomness_from_tickets"
Syscalls == Forwarded \cup Static \cup {"verify_signature", Tickets}

ASSUME GasAssumption == Price \in [Syscalls -> Nat] /\ GasLimit \in Nat
ASSUME BoundAssumption ==
  Used \subseteq Forwarded /\ MaxSeals \in Nat /\ MaxDepth \in Nat

VARIABLES
  externs,      \* what each source of the machine's externs does
  message,      \* "none", "running", or how the last one ended
  stack,        \* gas limits of the calls under way, outermost first
  gas_used,     \* by the message
  serving,      \* the system call that BenchKernel is in the middle of
  last,         \* what the last system call came to
  due           \* history: prices of all that the message was answered

vars == <<externs, message, stack, gas_used, serving, last, due>>

-----------------------------------------------------------------------------
(* The externs.                                                            *)

Sources == {"chain_randomness", "beacon_randomness", "consensus_fault", "tipset"}
Behaviours == {"default", "configured", "failing"}

(* The source that the default kernel asks, if any.                        *)
SourceOf(name) ==
  CASE name = Tickets -> {"chain_randomness"}
    [] name \in Beacon -> {"beacon_randomness"}
    [] name = "tipset_cid" -> {"tipset"}
    [] OTHER -> {}

NoCall == [name |-> None]
DefaultExterns == [s \in Sources |-> "default"]

(* FakeExterns with any of its sources set by with_...                     *)
KernelInit ==
  /\ externs \in [Sources -> Behaviours]
  /\ message = "none"
  /\ stack = <<>> /\ gas_used = 0 /\ due = 0
  /\ serving = NoCall /\ last = NoCall

(* Setters of the bench rebuild the machine, with default externs.         *)
Rebuild ==
  /\ message # "running"
  /\ externs' = DefaultExterns
  /\ message' = "none" /\ last' = NoCall
  /\ UNCHANGED <<stack, gas_used, serving, due>>

-----------------------------------------------------------------------------
(* The call manager: messages, nested calls and gas.                       *)

Depth == Len(stack)
Limit == stack[Depth]

(* Actors run, one call at a time; the kernel is in none of their calls.   *)
ActorRuns == message = "running" /\ serving = NoCall

StartMessage ==
  /\ message # "running"
  /\ message' = "running"
  /\ stack' = <<GasLimit>> /\ gas_used' = 0 /\ due' = 0
  /\ last' = NoCall
  /\ UNCHANGED <<externs, serving>>

(* send: a call that may use so much gas, of which there may be less.      *)
Send(gas) ==
  /\ ActorRuns /\ Depth < MaxDepth
  /\ stack' = Append(stack, IF gas_used + gas < Limit THEN gas_used + gas ELSE Limit)
  /\ last' = NoCall
  /\ UNCHANGED <<externs, message, gas_used, serving, due>>

(* The innermost call ends and its caller goes on.                         *)
EndCall ==
  /\ stack' = SubSeq(stack, 1, Depth - 1)
  /\ message' = IF Depth = 1 THEN "ended" ELSE message

Return ==
  /\ ActorRuns
  /\ EndCall
  /\ last' = NoCall
  /\ UNCHANGED <<externs, gas_used, serving, due>>

Affords(gas) == gas_used + gas <= Limit

(* A charge beyond the limit uses it up and ends the call.                 *)
OutOfGas(name) ==
  /\ gas_used' = Limit
  /\ EndCall
  /\ serving' = NoCall
  /\ last' = [name |-> name, outcome |-> "out of gas"]
  /\ UNCHANGED <<externs, due>>

(* Ways for a system call to end, after some more gas: with an answer that *)
(* is worth its price, with an error number for the actor, or with a fatal *)
(* error, which ends the message.                                          *)
Answered(name, gas, price, answer) ==
  /\ gas_used' = gas_used + gas
  /\ due' = due + price
  /\ serving' = NoCall
  /\ last' = [name |-> name, outcome |-> "ok", answer |-> answer]
  /\ UNCHANGED <<externs, message, stack>>

Refused(name, gas) ==
  /\ gas_used' = gas_used + gas
  /\ serving' = NoCall
  /\ last' = [name |-> name, outcome |-> "error number"]
  /\ UNCHANGED <<externs, message, stack, due>>

Fatal(name, gas) ==
  /\ gas_used' = gas_used + gas
  /\ message' = "fatal" /\ stack' = <<>>
  /\ serving' = NoCall
  /\ last' = [name |-> name, outcome |-> "fatal"]
  /\ UNCHANGED <<externs, due>>

-----------------------------------------------------------------------------
(* System calls that the kernel answers itself, charge by charge.          *)

Serve(name, charges) ==
  /\ ActorRuns
  /\ serving' = [name |-> name, charges |-> charges, made |-> 0]
  /\ UNCHANGED <<externs, message, stack, gas_used, last, due>>

(* One charge for each seal of a batch, and one for any other call.        *)
VerifyBatch(seals) == Serve("batch_verify_seals", seals)
VerifyOne(name) == Serve(name, 1)

Serving == message = "running" /\ serving # NoCall

Charge(gas) ==
  \/ /\ Affords(gas)
     /\ gas_used' = gas_used + gas
     /\ serving' = [serving EXCEPT !.made = @ + 1]
     /\ UNCHANGED <<externs, message, stack, last, due>>
  \/ ~Affords(gas) /\ OutOfGas(serving.name)

(* Mutants of ChargeOne: a failed charge is not returned from (no ? after  *)
(* kernel.rs:272); a charge is made before looking whether one is left.    *)
ChargeOneIgnored ==
  /\ Serving /\ serving.made < serving.charges
  /\ gas_used' = IF Affords(Price[serving.name]) THEN gas_used + Price[serving.name] ELSE Limit
  /\ serving' = [serving EXCEPT !.made = @ + 1]
  /\ UNCHANGED <<externs, message, stack, last, due>>

ChargeOneTooMany ==
  Serving /\ serving.made <= serving.charges /\ Charge(Price[serving.name])

(* The next charge, or the end of the call at the first that fails.        *)
ChargeOne ==
  Serving /\ serving.made < serving.charges /\ Charge(Price[serving.name])

Charged == Serving /\ serving.made = serving.charges
Worth == serving.charges * Price[serving.name]

(* When all is paid; compute_unsealed_sector_cid needs its CID besides.    *)
AnswerStatic ==
  /\ Charged /\ serving.name \in Static
  /\ IF StaticAnswer[serving.name] = None
     THEN Fatal(serving.name, 0)
     ELSE Answered(serving.name, 0, Worth, StaticAnswer[serving.name])

(* A signature is valid if it is the plaintext, and else ends the message. *)
VerifySignature(matches) ==
  /\ Charged /\ serving.name = "verify_signature"
  /\ IF matches
     THEN Answered(serving.name, 0, Worth, "true")
     ELSE Fatal(serving.name, 0)

-----------------------------------------------------------------------------
(* What the default kernel does (outside this repository): charges, asks   *)
(* its source, and answers, refuses or fails for reasons of its own.  A    *)
(* source that fails leaves it no answer.                                  *)
Inner(name, answer) ==
  LET gas == Price[name]
      fails == \E s \in SourceOf(name) : externs[s] = "failing"
  IN /\ ActorRuns
     /\ \/ ~Affords(gas) /\ OutOfGas(name)
        \/ Affords(gas) /\ ~fails /\ Answered(name, gas, gas, answer)
        \/ Affords(gas) /\ (Refused(name, gas) \/ Fatal(name, gas))

Forward(name) ==
  Inner(name, IF SourceOf(name) = {} THEN "of the chain"
              ELSE externs[CHOOSE s \in SourceOf(name) : TRUE])

(* Calls the default kernel, whose errors it passes on, and drops what it  *)
(* answers.                                                                *)
RandomnessFromTickets == Inner(Tickets, "static randomness")

Syscall ==
  \/ \E seals \in 0..MaxSeals : VerifyBatch(seals)
  \/ \E name \in Proofs \cup {"verify_signature"} : VerifyOne(name)
  \/ ChargeOne
  \/ AnswerStatic
  \/ \E matches \in BOOLEAN : VerifySignature(matches)
  \/ \E name \in Used : Forward(name)
  \/ RandomnessFromTickets

KernelNext ==
  \/ Rebuild
  \/ StartMessage
  \/ \E gas \in 0..GasLimit : Send(gas)
  \/ Return
  \/ Syscall

KernelSpec == KernelInit /\ [][KernelNext]_vars

-----------------------------------------------------------------------------
(* Properties.                                                             *)

(* Types of the variables: no message passes its limit, and a batch makes  *)
(* no more charges than it has seals.                                      *)
KernelTypeOK ==
  /\ externs \in [Sources -> Behaviours]
  /\ message \in {"none", "running", "ended", "fatal"}
  /\ stack \in Seq(0..GasLimit)
  /\ gas_used \in 0..GasLimit /\ due \in Nat
  /\ serving # NoCall =>
       /\ serving \in [name : Syscalls, charges : Nat, made : Nat]
       /\ serving.made <= serving.charges
  /\ last.name \in Syscalls \cup {None}

(* However calls are nested, and wherever one of them runs out of gas,     *)
(* also between two charges of a batch, actors are never answered more     *)
(* than the message has paid for (kernel.rs:228-315), although the answers *)
(* cost the bench nothing.                                                 *)
PaidInFull == due <= gas_used

=============================================================================
