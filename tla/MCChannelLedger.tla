-------------------------- MODULE MCChannelLedger --------------------------
(* Small instances of ChannelLedger: a search with quote 1, a chat with      *)
(* quote 2 and a task with quote 1.                                          *)
EXTENDS ChannelLedger

CONSTANTS d1, d2, d3

MCQuote == [d \in Draws |-> IF d = d2 THEN 2 ELSE 1]

MCSurface ==
    [d \in Draws |-> CASE d = d1 -> SearchDraw [] d = d2 -> ChatDraw [] OTHER -> TaskDraw]

=============================================================================
