--------------------------- MODULE MCBenchKernel ---------------------------
(* Constants for model checking BenchKernel. *)
EXTENDS BenchKernel

(* Batches and signatures cost 1, the other system calls 2.                *)
MCPrice ==
  [name \in Syscalls |-> IF name \in {"batch_verify_seals", "verify_signature"} THEN 1 ELSE 2]

(* Two that ask a source and one that does not.                            *)
MCUsed == {"get_randomness_from_beacon", "tipset_cid", "hash"}

=============================================================================
