---------------------------- MODULE MCGateway ----------------------------
(* One transfer presented to the chat and proxy surfaces and to channel open; *)
(* to two opens; to two requests of a process without Redis; to a task and to *)
(* chat.  A task that two transfers and a voucher compete for, or a transfer, *)
(* a voucher and a cancellation.  Two chats and a search that share a budget. *)
(* Three drips to two wallets.                                                *)
EXTENDS Gateway

CONSTANTS f1, f2, o1, o2, b1, b2, p1, p2, a1, a2, v1, k1, h1, h2, h3, t1, d1, d2, d3, x1, w1, w2, w3,
          r1, r2, r3, u1, u2

MCFunding == [o \in Opens |-> f1]
MCPays == [b \in Buys |-> IF b \in {a2, d2, x1} THEN f2 ELSE f1]
MCPath == [b \in Buys |->
    CASE b \in {b1, d1, d2, d3} -> "chat"
      [] b = x1 -> "search"
      [] b \in {b2, p1, p2} -> "proxy"
      [] b \in {a1, a2} -> "a2a"
      [] b = v1 -> "voucher"
      [] b = k1 -> "cancel"]
MCHost == [b \in Buys |-> CASE b = b2 -> h2 [] b \in {p1, p2} -> h3 [] OTHER -> h1]
MCTask == [b \in TaskRequests |-> t1]

MCWindows == [b \in Buys |->
    CASE b = d1 -> <<w1, w2>>
      [] b \in {d2, x1} -> <<w2>>
      [] b = d3 -> <<w3>>
      [] OTHER -> <<>>]
MCLimit == [w \in Counters |-> IF w = w3 THEN NoLimit ELSE 2]
MCEstimate == [b \in Buys |-> 2]
MCCost == [b \in Buys |-> IF b = d2 THEN 3 ELSE 1]

MCWallet == [r \in Drips |-> IF r = r3 THEN u2 ELSE u1]

Mixed == {{o1, b1, b2}, {o1, o2}, {p1, p2}, {b1, a1}, {a1, a2, v1}, {a1, v1, k1},
          {d1, d2}, {d1, x1}, {d3}, {r1, r2, r3}}
OneTask == {{a1, a2, v1}}

==========================================================================
