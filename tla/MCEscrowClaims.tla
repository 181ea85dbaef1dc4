--------------------------- MODULE MCEscrowClaims ---------------------------
(* Small instances of the escrow program and its claimants. *)
EXTENDS EscrowClaims, TLC

CONSTANTS s1, w1, w2

ProcessorSymmetry == Permutations(Processors)
=============================================================================
