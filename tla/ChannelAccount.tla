-------------------------- MODULE ChannelAccount --------------------------
(***************************************************************************)
(* What a spend-down channel promises its depositor: while it is open the   *)
(* gateway may consume parts of the deposit; closing it fixes once and for  *)
(* all what is owed back, and that is exactly what was never consumed.      *)
(***************************************************************************)
EXTENDS Integers

CONSTANTS Deposit, None

VARIABLES spent, owed, settled

vars == <<spent, owed, settled>>

Init == spent = 0 /\ owed = None /\ settled = FALSE

Spend ==
    /\ owed = None
    /\ spent' \in spent .. Deposit
    /\ UNCHANGED <<owed, settled>>

Freeze ==
    /\ owed = None
    /\ owed' = Deposit - spent
    /\ UNCHANGED <<spent, settled>>

Settle ==
    /\ owed # None /\ ~settled
    /\ settled' = TRUE
    /\ UNCHANGED <<spent, owed>>

Next == Spend \/ Freeze \/ Settle

Spec == Init /\ [][Next]_vars

=============================================================================
