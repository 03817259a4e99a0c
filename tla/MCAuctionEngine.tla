--------------------------- MODULE MCAuctionEngine ---------------------------
(***************************************************************************)
(* Small instances of AuctionEngine for TLC.                               *)
(***************************************************************************)
EXTENDS AuctionPromises, TLC

CONSTANTS r1, r2, r3, w1, w2, u1, u2

ThreeRequests == {r1, r2, r3}
TwoRequests == {r1, r2}

\* Two bids that exceed the starting price and a tie with the higher.
RisingAmounts == [r \in Requests |-> IF r = r1 THEN 2 ELSE 3]
\* A bid of nothing and one that exceeds the starting price.
LowAmounts == [r \in Requests |-> IF r = r1 THEN 0 ELSE 2]
OneEach == [r \in Requests |-> IF r = r1 THEN u1 ELSE u2]

NoSkew == [p \in Requests \cup Workers |-> 0]
\* The process that serves r1 is one unit behind the host of Redis.
SlowFirst == [p \in Requests \cup Workers |-> IF p = r1 THEN -1 ELSE 0]

WorkersAreAlike == Permutations(Workers)
=============================================================================
