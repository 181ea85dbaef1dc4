------------------------- MODULE RefundObligation -------------------------
(***************************************************************************)
(* What the close-disbursement worker promises about money, with nothing   *)
(* of how it keeps the promise: a closed channel's frozen obligation is    *)
(* disbursed by at most one transfer, and it is discharged (the channel    *)
(* closed, the refund confirmed) only once that transfer happened, or at   *)
(* once when nothing is owed.  channel_refunds.rs, module header.          *)
(***************************************************************************)
CONSTANTS
    Channels,   \* channels whose cooperative close froze an obligation
    Owing       \* the ones whose frozen amount is positive

VARIABLES
    transfers,  \* transfers[c]: the transfers that paid channel c on-chain
    discharged  \* the channels whose obligation is recorded as met

vars == <<transfers, discharged>>

Init ==
    /\ transfers = [c \in Channels |-> {}]
    /\ discharged = {}

\* The one transfer an obligation allows.
Disburse(c) ==
    /\ c \in Owing
    /\ transfers[c] = {}
    /\ \E t \in transfers'[c] : transfers' = [transfers EXCEPT ![c] = {t}]
    /\ UNCHANGED discharged

Discharge(c) ==
    /\ c \notin discharged
    /\ c \in Owing => transfers[c] # {}
    /\ discharged' = discharged \cup {c}
    /\ UNCHANGED transfers

Next == \E c \in Channels : Disburse(c) \/ Discharge(c)

Spec == Init /\ [][Next]_vars
=============================================================================
