-------------------------- MODULE MCRefundWorker --------------------------
(* Small instances of the refund worker. *)
EXTENDS RefundWorker, TLC

CONSTANTS c1, c2, c3, c4, w1, w2, wallet

\* One wallet for every channel: sibling refunds of one agent.
MCWallet == [c \in Channels |-> wallet]

AmountOne == [c \in Channels |-> 1]

\* c4 was drawn down to nothing, the others were not.
AmountZeroOne == [c \in Channels |-> IF c = c4 THEN 0 ELSE 1]

WorkerSymmetry == Permutations(Workers)
=============================================================================
