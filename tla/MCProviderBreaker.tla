------------------------- MODULE MCProviderBreaker -------------------------
(* Two models of one provider, two calls to each of them. *)
EXTENDS ProviderBreaker

CONSTANTS m1, m2, p, c1, c2, c3, c4

MCProviderOf == [m \in Models |-> p]
MCChain == [c \in Calls |-> IF c \in {c1, c3} THEN <<m1>> ELSE <<m2>>]
MCEntry == [c \in Calls |-> "chat_model"]

============================================================================
