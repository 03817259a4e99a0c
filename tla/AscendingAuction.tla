--------------------------- MODULE AscendingAuction ---------------------------
(***************************************************************************)
(* What the auction engine promises: an ascending auction.  A bid is taken *)
(* only if it exceeds all the bids taken before it.  Once the auction is   *)
(* over it is decided, once, in favour of the best bid of a set that has   *)
(* every bid taken in time and may have some that came late.               *)
(***************************************************************************)
EXTENDS Integers

CONSTANTS Bids, Amount, Bidder, Undecided, NoWinner

VARIABLES taken, inTime, over, outcome

avars == <<taken, inTime, over, outcome>>

Outbids(b, B) == \A c \in B \ {b} : Amount[c] < Amount[b]

\* What the bids of B are decided to: one outcome, or none if two are tied.
Outcomes(B) ==
  IF B = {} THEN {NoWinner}
  ELSE {[user |-> Bidder[b], amount |-> Amount[b]] : b \in {c \in B : Outbids(c, B)}}

Init == taken = {} /\ inTime = {} /\ over = FALSE /\ outcome = Undecided

Take(b) ==
  /\ outcome = Undecided
  /\ b \notin taken /\ Outbids(b, taken)
  /\ taken' = taken \cup {b}
  /\ inTime' = IF over THEN inTime ELSE inTime \cup {b}
  /\ UNCHANGED <<over, outcome>>

Finish ==
  /\ ~over
  /\ over' = TRUE
  /\ UNCHANGED <<taken, inTime, outcome>>

Decide ==
  /\ over /\ outcome = Undecided
  /\ \E B \in SUBSET taken :
       /\ inTime \subseteq B
       /\ taken' = B
       /\ outcome' \in Outcomes(B)
  /\ UNCHANGED <<inTime, over>>

Next == Finish \/ Decide \/ \E b \in Bids : Take(b)

Spec == Init /\ [][Next]_avars
=============================================================================
