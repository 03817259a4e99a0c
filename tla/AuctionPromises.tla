--------------------------- MODULE AuctionPromises ---------------------------
(***************************************************************************)
(* What AuctionEngine promises: its invariants, action and liveness        *)
(* properties, the abstract auction it implements, the strengthenings by   *)
(* which AuctionEngineProofs proves them, and, at the end, what the        *)
(* repository's documentation says and the engine does not do.             *)
(***************************************************************************)
EXTENDS AuctionEngine

Snapshots == [price : Nat \cup {None}, leader : Users \cup {None},
              seen : SUBSET Requests, ttl : Int]
Keys(V) == [val : V \cup {None}, exp : Nat \cup {Never}]

\* Every variable has its type: the row's status is one of the enum's values
\* the backend writes, TTLs are integers of either sign, Never aside an expiry
\* is a natural number.
TypeOK ==
  /\ now \in Nat
  /\ row \in [status : Statuses, price : Nat \cup {None},
              winner : Users \cup {None}]
  /\ ledger \subseteq [user : Users, amount : Nat]
  /\ lock \in Workers \cup {None}
  /\ price \in Keys(Nat) /\ leader \in Keys(Users)
  /\ cached \in Keys({"ACTIVE"} \cup Terminal)
  /\ pc \in [Requests -> BidSteps]
  /\ ttl \in [Requests -> Int]
  /\ reply \in [Requests -> [code : Codes, current : Nat \cup {None, ClosedText}]]
  /\ wpc \in [Workers -> SettleSteps]
  /\ snap \in [Workers -> Snapshots]
  /\ announced \in Nat /\ faults \in Nat /\ losses \in Nat
  /\ accepted \subseteq Requests /\ timely \subseteq accepted /\ gone \subseteq accepted
  /\ counted \subseteq Requests

\* What the retention of 24 h is for: Redis keeps its data, and no key written
\* by the script expires while the auction may still have to be settled.
Durable ==
  /\ MaxLosses = 0
  /\ \A r \in Requests : MaxTime + Skew[r] <= End + Retention

\* The request of S that outbids every other one, as a set of at most one.
Best(S) == {r \in S : \A q \in S \ {r} : Amount[q] < Amount[r]}

\* Price and leader are a pair (database/README.md): the worker's MGET never
\* finds a leader without a price, whatever expires, is seeded or is deleted.
PairConsistent ==
  Exists(leader) => Exists(price) /\ price.exp = leader.exp

\* As long as the auction is not settled Redis holds the one bid that outbids
\* all the accepted ones, and its bidder: the SETNX of a slow handler never
\* puts the starting price back and no script lowers the price.
LeaderIsHighest ==
  Durable /\ row.status = "ACTIVE" =>
    IF accepted = {} THEN ~Exists(leader)
    ELSE \E r \in Best(accepted) :
           price.val = Amount[r] /\ leader.val = Bidder[r]

\* The settlement writes the best of the bids that its MGET found in Redis,
\* however long ago that was and whatever Redis, other workers and late bids did
\* since; it closes the auction without a winner only when there was none.
OutcomeIsBestAtSnapshot ==
  /\ row.status = "SETTLED" =>
       \E r \in Best(counted) :
         row.price = Amount[r] /\ row.winner = Bidder[r]
  /\ row.status = "CLOSED" => counted = {}

\* Only Redis loses bids: one taken before end_time that has neither expired nor
\* been lost with Redis by the time the auction is decided is at most the price it
\* is settled at, whatever bids of before and after, seeds and workers do.
OnlyRedisLosesBids ==
  [][row.status = "ACTIVE" /\ row'.status \in Terminal =>
       \A r \in timely \ gone :
         row'.status = "SETTLED" /\ Amount[r] <= row'.price]_vars

\* Whatever Redis loses, lets expire or seeds anew, and whatever fails: nobody
\* wins who did not bid, or at a price other than that of the bid, which was
\* taken before the winner's MGET.
WinnerReallyBid ==
  row.status = "SETTLED" =>
    /\ StartingPrice <= row.price
    /\ \E r \in counted : row.price = Amount[r] /\ row.winner = Bidder[r]

\* The engine's promise to a bidder, end to end: a bid taken before end_time is
\* at most the price the auction is settled at, and there is one.
TimelyBidsLoseOnlyToBetter ==
  Durable /\ row.status \in Terminal =>
    \A r \in timely : row.status = "SETTLED" /\ Amount[r] <= row.price

\* While the auction is active no call of a handler or a worker, first or
\* repeated, lowers the price or takes it away: only its expiry or a restart of
\* Redis does.
PriceOnlyRises ==
  [][row.status = "ACTIVE" /\ Exists(price) =>
       \/ Exists(price') /\ price.val <= price'.val
       \/ price' = NoKey /\ (now' # now \/ losses' # losses)]_vars

\* The ledger has a winning row exactly when the auction is settled, and it is
\* the winner and the price of the row, whichever workers raced to write it.
LedgerMatchesRow ==
  ledger = IF row.status = "SETTLED"
           THEN {[user |-> row.winner, amount |-> row.price]} ELSE {}

\* A decided auction is never decided again, by another worker or after a
\* crash.
SettlementFinal ==
  [][row.status \in Terminal => UNCHANGED <<row, ledger, counted>>]_vars

\* Only a decided auction is announced, and once: a second SETTLEMENT event
\* takes a lost reply that made go-redis publish again.
AnnouncedOnce ==
  /\ announced <= 1 + faults
  /\ announced > 0 => row.status \in Terminal

\* A final status in Redis is the row's.
CachedStatusSound == cached.val \in Terminal => row.status = cached.val

\* The price that a BID_TOO_LOW answer names was the starting price or a bid
\* that had been taken, and the refused amount does not exceed it.
TooLowIsJustified ==
  \A r \in Requests :
    reply[r].code = "BID_TOO_LOW" /\ reply[r].current # ClosedText =>
      /\ Amount[r] <= reply[r].current
      /\ \/ reply[r].current = StartingPrice
         \/ \E q \in accepted : Amount[q] = reply[r].current

\* Without faults a bid is taken exactly when the bidder is told so.
AnswersMatchEffects ==
  faults = 0 => \A r \in Requests : r \in accepted <=> reply[r].code = "CREATED"

\* An expired auction is decided in the end: workers that fail retry, and one
\* that waits for the row's lock gets it.
ExpiredIsDecided == (row.status = "ACTIVE" /\ End <= now) ~> row.status \in Terminal

-----------------------------------------------------------------------------
(* The engine implements an ascending auction. *)

NotDecided == [user |-> None, amount |-> None]
NobodyWon == [user |-> None, amount |-> 0]

Decision ==
  CASE row.status = "SETTLED" -> [user |-> row.winner, amount |-> row.price]
    [] row.status = "CLOSED" -> NobodyWon
    [] OTHER -> NotDecided

\* The bids of the abstract auction: those taken so far, and from the decision
\* on those that it counted.
BidsThatCount == IF row.status \in Terminal THEN counted ELSE accepted

Auction == INSTANCE AscendingAuction
             WITH Bids <- Requests,
                  Undecided <- NotDecided, NoWinner <- NobodyWon,
                  taken <- BidsThatCount, inTime <- timely,
                  over <- End <= now, outcome <- Decision

\* While Durable holds, bidding and settlement together are an ascending
\* auction: late bids may be dropped, timely ones are not, and the best of the
\* others is the outcome.
ImplementsAuction == Auction!Spec

-----------------------------------------------------------------------------
(* The inductive strengthenings that AuctionEngineProofs uses. *)

Finishing(w) == wpc[w] \in {"retain", "cache", "publish", "del"}

\* The row's lock makes settlement a critical section: its holder finds the
\* auction active, and whoever gets past it is the only one that ever does.
\* A worker looks at Redis only once end_time has passed, so that the bids
\* taken before that Redis still holds are all in its snapshot.
SettlementInv ==
  /\ \A w \in Workers : wpc[w] = "tx" => lock = w /\ row.status = "ACTIVE"
  /\ \A v, w \in Workers : Finishing(v) /\ Finishing(w) => v = w
  /\ \A w \in Workers : Finishing(w) => row.status = Final(snap[w])
  /\ \A w \in Workers : wpc[w] \in {"retain", "cache", "publish"} => announced <= faults
  /\ \A w \in Workers : wpc[w] \in {"mget", "lock", "tx"} => End <= now
  /\ row.status \in Terminal => End <= now
  /\ \A w \in Workers : wpc[w] \in {"lock", "tx"} =>
       /\ snap[w].seen \subseteq accepted
       /\ row.status \in Terminal \/ timely \ gone \subseteq snap[w].seen
  /\ row.status = "SETTLED" => StartingPrice <= row.price
  /\ LedgerMatchesRow
  /\ AnnouncedOnce
  /\ CachedStatusSound

\* The safety half of ExpiredIsDecided: whoever waits for the row's lock waits
\* for a worker in its transaction, whose next step ends it; no abort leaves the
\* lock behind, nor does any other step.
LockIsHeld == lock # None => wpc[lock] = "tx"

\* Every price in Redis was the starting price or a bid that was taken, and a
\* request is answered once.
AnswerInv ==
  /\ Exists(price) =>
       price.val = StartingPrice \/ \E q \in accepted : Amount[q] = price.val
  /\ \A r \in Requests : pc[r] = "done" \/ reply[r] = NoReply
  /\ TooLowIsJustified
  /\ AnswersMatchEffects

\* A price and a leader that stand for the bids of S.
Stand(p, l, S) ==
  IF S = {} THEN l = None
  ELSE \E r \in Best(S) : p = Amount[r] /\ l = Bidder[r]

\* Redis, and every snapshot taken of it, stand for the bids that are not gone,
\* whatever is seeded, expires, is lost or is deleted.
BiddingInv ==
  /\ Stand(price.val, leader.val, accepted \ gone)
  /\ \A w \in Workers : wpc[w] \in {"lock", "tx"} =>
       Stand(snap[w].price, snap[w].leader, snap[w].seen)
  /\ OutcomeIsBestAtSnapshot

\* Under Durable no bid is gone before the decision: no key of the pair expires
\* within the model's time, neither the one that exists nor the one that a script
\* about to run will write.
DurableInv ==
  Durable =>
    /\ now <= MaxTime
    /\ \A k \in {price, leader} : k.exp = Never \/ MaxTime <= k.exp
    /\ \A r \in Requests : pc[r] = "script" => 0 < ttl[r] /\ MaxTime <= now + ttl[r]
    /\ row.status \notin Terminal => gone = {}
    /\ row.status \in Terminal => timely \subseteq counted

-----------------------------------------------------------------------------
(* What the documentation says and the engine does not do: each is checked  *)
(* in a run of its own, which finds a counterexample.                       *)

\* docs/rest-websocket-api-contract.md:341: AUCTION_NOT_BIDDABLE means that the
\* auction is not active, has not started or has ended.
BiddableIsNotRefused ==
  [][\A r \in Requests :
       reply[r] = NoReply /\ reply'[r].code = "AUCTION_NOT_BIDDABLE" =>
         ~(row.status = "ACTIVE" /\ InWindow(r))]_vars

\* README.md: the worker logs the winning bid; a bid that was taken while the
\* auction was active does not exceed what the auction is settled at.
HighestAcceptedWins ==
  [][row.status = "ACTIVE" /\ row'.status \in Terminal =>
       \A r \in accepted : row'.status = "SETTLED" /\ Amount[r] <= row'.price]_vars
=============================================================================
