--------------------------- MODULE MCChannelOpen ---------------------------
(* Three open requests over two funding transactions, two of them sharing one. *)
EXTENDS ChannelOpen

CONSTANTS f1, f2, o1

MCFunding == [o \in Opens |-> IF o = o1 THEN f1 ELSE f2]

=============================================================================
