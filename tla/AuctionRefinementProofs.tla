----------------------- MODULE AuctionRefinementProofs -----------------------
(***************************************************************************)
(* AuctionEngine implements AscendingAuction as long as Redis keeps its    *)
(* data: the initial states map to the initial state, and every step to a  *)
(* step of the abstract auction or to none.                                *)
(***************************************************************************)
EXTENDS AuctionEngineProofs

LEMMA RefinementInit == Init => Auction!Init
<1>1. Init => ~(End <= now)
  BY TimeAssumption DEF Init
<1>2. QED
  BY <1>1 DEF Init, Auction!Init, BidsThatCount, Decision, Terminal

\* A step that leaves the bids, the clock's side of end_time and the decision
\* alone is a stuttering step of the abstract auction.
LEMMA Stutters ==
  ASSUME row'.status \in Terminal <=> row.status \in Terminal,
         row.status \in Terminal => row' = row /\ counted' = counted,
         row.status \notin Terminal => accepted' = accepted,
         timely' = timely, (End <= now)' = (End <= now)
  PROVE  UNCHANGED Auction!avars
<1>1. BidsThatCount' = BidsThatCount
  BY DEF BidsThatCount
<1>2. Decision' = Decision
  BY DEF Decision, Terminal
<1>3. QED
  BY <1>1, <1>2 DEF Auction!avars

LEMMA RefinementTick == TypeOK /\ Tick => [Auction!Next]_(Auction!avars)
<1> SUFFICES ASSUME TypeOK, Tick
             PROVE  Auction!Finish \/ UNCHANGED Auction!avars
  BY DEF Auction!Next
<1>1. /\ UNCHANGED <<row, accepted, timely, counted>>
      /\ now \in Nat /\ End \in Nat /\ now' = now + 1
  BY TimeAssumption DEF Tick, TypeOK, pgVars, history
<1>2. BidsThatCount' = BidsThatCount /\ Decision' = Decision
  BY <1>1 DEF BidsThatCount, Decision
<1>3. CASE ~(End <= now) /\ End <= now'
  BY <1>1, <1>2, <1>3 DEF Auction!Finish
<1>4. CASE (End <= now) = (End <= now')
  BY <1>1, <1>4, Stutters
<1>5. QED
  BY <1>1, <1>3, <1>4

\* A script that takes a bid of an auction not yet decided is the abstract step.
LEMMA RefinementTake ==
  ASSUME TypeOK, SettlementInv, BiddingInv, DurableInv, Durable,
         NEW r \in Requests, ScriptTakes(r), UNCHANGED <<now, row, counted>>
  PROVE  [Auction!Next]_(Auction!avars)
<1>1. CASE row.status \in Terminal
  <2>1. timely' = timely
    BY <1>1, TimeAssumption DEF ScriptTakes, Remember, SettlementInv, TypeOK
  <2>2. QED
    BY <1>1, <2>1, Stutters
<1>2. CASE row.status \notin Terminal
  <2>1. gone = {} /\ Stand(price.val, leader.val, accepted) /\ accepted \in SUBSET Requests
    BY <1>2 DEF BiddingInv, DurableInv, TypeOK
  <2>2. \A q \in accepted : Amount[q] < Amount[r]
    BY <2>1, ScriptOutbids
  <2>3. r \notin accepted
    BY <2>2, ActorsAssumption
  <2>4. BidsThatCount = accepted /\ BidsThatCount' = accepted \cup {r}
    BY <1>2 DEF BidsThatCount, ScriptTakes, Remember
  <2>5. Decision = NotDecided /\ Decision' = Decision
    BY <1>2 DEF Decision, Terminal
  <2>6. timely' = IF End <= now THEN timely ELSE timely \cup {r}
    <3>1. (now < End) <=> ~(End <= now)
      BY TimeAssumption DEF TypeOK
    <3>2. timely \ {r} = timely
      BY <2>3 DEF TypeOK
    <3>3. QED
      BY <1>2, <3>1, <3>2 DEF ScriptTakes, Remember
  <2>7. Auction!Take(r)
    BY <2>2, <2>3, <2>4, <2>5, <2>6 DEF Auction!Take, Auction!Outbids
  <2>8. QED
    BY <2>7 DEF Auction!Next
<1>3. QED
  BY <1>1, <1>2

LEMMA RefinementBid ==
  ASSUME TypeOK, SettlementInv, BiddingInv, DurableInv, Durable, NEW r \in Requests,
         BidStep(r) \/ BidCallRepeats(r) \/ BidCallFails(r)
  PROVE  [Auction!Next]_(Auction!avars)
<1>1. UNCHANGED <<now, row, counted>>
  BY BidFrame DEF pgVars
<1>2. ScriptTakes(r) \/ UNCHANGED history
  BY DEF BidStep, BidCallRepeats, BidCallFails, ReadAuction, CheckWindow, SeedPrice,
     TakeUntilEnd, OpenStatus, Recheck, TakeRetention, RunScript
<1>3. CASE ScriptTakes(r)
  BY <1>1, <1>3, RefinementTake
<1>4. CASE UNCHANGED history
  BY <1>1, <1>4, Stutters DEF history
<1>5. QED
  BY <1>2, <1>3, <1>4

LEMMA RefinementCommit ==
  ASSUME TypeOK, SettlementInv, BiddingInv, DurableInv, Durable, NEW w \in Workers, Commit(w)
  PROVE  Auction!Decide
<1> DEFINE B == snap[w].seen
<1>1. wpc[w] = "tx" /\ row.status = "ACTIVE" /\ row'.status \in Terminal
  BY DEF Commit, SettlementInv, Terminal, TypeOK
<1>2. /\ End <= now /\ timely \subseteq B /\ B \subseteq accepted
      /\ Stand(snap[w].price, snap[w].leader, B)
  BY <1>1 DEF SettlementInv, BiddingInv, DurableInv, Terminal
<1>3. UNCHANGED <<now, accepted, timely>> /\ counted' = B
  BY SettleFrame DEF SettleStep, Commit, history
<1>4. BidsThatCount = accepted /\ BidsThatCount' = B
  BY <1>1, <1>3 DEF BidsThatCount, Terminal
<1>5. Decision = NotDecided
  BY <1>1 DEF Decision
<1>6. Decision' \in Auction!Outcomes(B)
  <2>1. CASE HasWinner(snap[w])
    <3>1. PICK b \in Best(B) : snap[w].price = Amount[b] /\ snap[w].leader = Bidder[b]
      BY <1>2, <2>1, SnapshotDecides
    <3>2. Decision' = [user |-> Bidder[b], amount |-> Amount[b]]
      BY <2>1, <3>1 DEF Decision, Commit
    <3>3. b \in {c \in B : Auction!Outbids(c, B)}
      BY <3>1 DEF Best, Auction!Outbids
    <3>4. QED
      BY <3>2, <3>3 DEF Auction!Outcomes
  <2>2. CASE ~HasWinner(snap[w])
    <3>1. B = {}
      BY <1>2, <2>2, SnapshotDecides
    <3>2. Decision' = NobodyWon
      BY <1>1, <2>2 DEF Decision, Commit, TypeOK
    <3>3. QED
      BY <3>1, <3>2 DEF Auction!Outcomes
  <2>3. QED
    BY <2>1, <2>2
<1>7. B \in SUBSET BidsThatCount
  BY <1>2, <1>4
<1>8. QED
  BY <1>2, <1>3, <1>4, <1>5, <1>6, <1>7 DEF Auction!Decide

LEMMA RefinementNext ==
  ASSUME TypeOK, SettlementInv, BiddingInv, DurableInv, Durable, [Next]_vars
  PROVE  [Auction!Next]_(Auction!avars)
<1>1. CASE UNCHANGED vars
  BY <1>1, Stutters DEF vars, pgVars, history
<1>2. CASE Tick
  BY <1>2, RefinementTick
<1>3. CASE OperatorOpens \/ LoseRedis \/ \E s \in {"DRAFT", "ACTIVE"} : CreateAuction(s)
  <2>1. UNCHANGED <<now, accepted, timely, counted>>
    BY <1>3 DEF OperatorOpens, LoseRedis, CreateAuction, history
  <2>2. \/ row' = row
        \/ row.status \notin Terminal /\ row'.status \notin Terminal
    <3>1. CASE OperatorOpens
      BY <3>1 DEF OperatorOpens, Terminal, TypeOK
    <3>2. CASE LoseRedis
      BY <3>2 DEF LoseRedis, pgVars
    <3>3. ASSUME NEW s \in {"DRAFT", "ACTIVE"}, CreateAuction(s)
          PROVE  row.status \notin Terminal /\ row'.status \notin Terminal
      BY <3>3 DEF CreateAuction, Terminal, TypeOK
    <3>4. QED
      BY <1>3, <3>1, <3>2, <3>3
  <2>3. QED
    BY <2>1, <2>2, Stutters
<1>4. ASSUME NEW r \in Requests, BidStep(r) \/ BidCallRepeats(r) \/ BidCallFails(r)
      PROVE  [Auction!Next]_(Auction!avars)
  BY <1>4, RefinementBid
<1>5. ASSUME NEW w \in Workers, Commit(w)
      PROVE  [Auction!Next]_(Auction!avars)
  BY <1>5, RefinementCommit DEF Auction!Next
<1>6. ASSUME NEW w \in Workers,
             SettleStep(w) \/ SettleCallRepeats(w) \/ SettleAborts(w), ~Commit(w)
      PROVE  [Auction!Next]_(Auction!avars)
  <2>1. UNCHANGED <<now, accepted, timely>>
    BY <1>6, SettleFrame DEF history
  <2>2. UNCHANGED <<row, counted>>
    BY <1>6 DEF SettleStep, SettleCallRepeats, SettleAborts, Scan, Snapshot, LockRow,
       Rollback, TakeStatusTTL, CacheStatus, Publish, Cleanup, pgVars
  <2>3. QED
    BY <2>1, <2>2, Stutters
<1>7. QED
  BY <1>1, <1>2, <1>3, <1>4, <1>5, <1>6 DEF Next

\* While Redis keeps its data and the keys' retention lasts, the engine is an
\* ascending auction: every step of it is a step of the abstract one or none.
THEOREM EngineIsAscendingAuction ==
  ASSUME Durable
  PROVE  Spec => ImplementsAuction
<1>1. Durable
  OBVIOUS
<1>2. TypeOK /\ SettlementInv /\ BiddingInv /\ DurableInv /\ [Next]_vars
        => [Auction!Next]_(Auction!avars)
  BY <1>1, RefinementNext
<1>3. QED
  BY <1>2, RefinementInit, TypeCorrect, SettlementSafe, BiddingSafe, NoneGoneWhileDurable,
     PTL
  DEF Spec, ImplementsAuction, Auction!Spec
=============================================================================
