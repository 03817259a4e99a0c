------------------------- MODULE AuctionEngineProofs -------------------------
(***************************************************************************)
(* Theorems about AuctionEngine, for every value of its constants.         *)
(***************************************************************************)
EXTENDS AuctionPromises, TLAPS

-----------------------------------------------------------------------------
(* Types. *)

LEMMA KeyTypes ==
  ASSUME NEW V, NEW k \in Keys(V), NEW t
  PROVE  /\ At(k, t) \in Keys(V)
         /\ NoKey \in Keys(V)
         /\ k.val \in V \cup {None}
BY DEF At, NoKey, Key, Keys

LEMMA ExpiryType ==
  ASSUME NEW d \in Int, now \in Nat
  PROVE  ExpiryOf(d) \in Nat \cup {Never}
BY DEF ExpiryOf

\* What a step of a bid handler leaves alone, and what a worker's does.
LEMMA BidFrame ==
  ASSUME NEW r \in Requests,
         BidStep(r) \/ BidCallRepeats(r) \/ BidCallFails(r)
  PROVE  UNCHANGED <<now, pgVars, workerVars, losses, counted>>
BY DEF BidStep, BidCallRepeats, BidCallFails, ReadAuction, CheckWindow, SeedPrice,
       TakeUntilEnd, OpenStatus, Recheck, TakeRetention, RunScript, Elsewhere

LEMMA SettleFrame ==
  ASSUME NEW w \in Workers,
         SettleStep(w) \/ SettleCallRepeats(w) \/ SettleAborts(w)
  PROVE  UNCHANGED <<now, bidVars, losses, history>>
BY DEF SettleStep, SettleCallRepeats, SettleAborts, Scan, Snapshot, LockRow, Commit,
       Rollback, TakeStatusTTL, CacheStatus, Publish, Cleanup, Outside

LEMMA TypeInit == Init => TypeOK
BY PriceAssumption, ActorsAssumption
   DEF Init, TypeOK, Statuses, Terminal, Keys, NoKey, Key, NoReply, NoSnap, BidSteps,
       SettleSteps, Codes, Snapshots

\* The three kinds of step of a handler's program counter.
LEMMA GotoTypes ==
  ASSUME TypeOK, NEW r \in Requests, NEW step \in BidSteps,
         Goto(r, step)
  PROVE  /\ pc' \in [Requests -> BidSteps]
         /\ ttl' \in [Requests -> Int]
         /\ reply' = reply
BY DEF TypeOK, Goto

LEMMA TakeTypes ==
  ASSUME TypeOK, NEW r \in Requests, NEW step \in BidSteps, NEW d \in Int,
         Take(r, d, step)
  PROVE  /\ pc' \in [Requests -> BidSteps]
         /\ ttl' \in [Requests -> Int]
         /\ reply' = reply
BY DEF TypeOK, Take

LEMMA AnswerTypes ==
  ASSUME TypeOK, NEW r \in Requests, NEW code \in Codes,
         NEW current \in Nat \cup {None, ClosedText},
         Answer(r, code, current)
  PROVE  /\ pc' \in [Requests -> BidSteps]
         /\ ttl' \in [Requests -> Int]
         /\ reply' \in [Requests -> [code : Codes,
                                     current : Nat \cup {None, ClosedText}]]
<1>1. "done" \in BidSteps
  BY DEF BidSteps
<1>2. [code |-> code, current |-> current]
        \in [code : Codes, current : Nat \cup {None, ClosedText}]
  OBVIOUS
<1>3. QED
  BY <1>1, <1>2 DEF TypeOK, Answer

LEMMA RedisTypes ==
  ASSUME TypeOK, NEW r \in Requests
  PROVE  /\ SetPriceIfAbsent => price' \in Keys(Nat)
         /\ SetStatusActive(r) => cached' \in Keys({"ACTIVE"} \cup Terminal)
         /\ ScriptTakes(r) => /\ price' \in Keys(Nat)
                              /\ leader' \in Keys(Users)
                              /\ accepted' \subseteq Requests
                              /\ timely' \subseteq accepted'
                              /\ gone' \subseteq accepted'
<1>1. ExpiryOf(ttl[r]) \in Nat \cup {Never}
  BY ExpiryType DEF TypeOK
<1>2. SetPriceIfAbsent => price' \in Keys(Nat)
  BY PriceAssumption DEF SetPriceIfAbsent, TypeOK, Keys, Key
<1>3. SetStatusActive(r) => cached' \in Keys({"ACTIVE"} \cup Terminal)
  BY <1>1 DEF SetStatusActive, Keys, Key
<1>4. ScriptTakes(r) => price' \in Keys(Nat) /\ leader' \in Keys(Users)
  BY <1>1, ActorsAssumption DEF ScriptTakes, Keys, Key
<1>5. ScriptTakes(r) => /\ accepted' \subseteq Requests /\ timely' \subseteq accepted'
                        /\ gone' \subseteq accepted'
  BY DEF ScriptTakes, Remember, TypeOK
<1>6. QED
  BY <1>2, <1>3, <1>4, <1>5

LEMMA TypeBidStep ==
  ASSUME TypeOK, NEW r \in Requests, BidStep(r)
  PROVE  TypeOK'
<1> USE DEF TypeOK, Elsewhere, pgVars, redisVars, workerVars, history
<1>1. UNCHANGED <<now, pgVars, workerVars, losses, counted>>
  BY BidFrame
<1>2. CASE ReadAuction(r)
  <2>1. /\ "window" \in BidSteps
        /\ {"AUCTION_NOT_FOUND", "AUCTION_NOT_BIDDABLE"} \subseteq Codes
    BY DEF BidSteps, Codes
  <2>2. QED
    BY <1>1, <1>2, <2>1, GotoTypes, AnswerTypes DEF ReadAuction
<1>3. CASE CheckWindow(r)
  <2>1. "seed" \in BidSteps /\ "AUCTION_NOT_BIDDABLE" \in Codes
    BY DEF BidSteps, Codes
  <2>2. QED
    BY <1>1, <1>3, <2>1, GotoTypes, AnswerTypes DEF CheckWindow
<1>4. CASE SeedPrice(r)
  <2>1. "until" \in BidSteps
    BY DEF BidSteps
  <2>2. QED
    BY <1>1, <1>4, <2>1, GotoTypes, RedisTypes DEF SeedPrice, SetPriceIfAbsent
<1>5. CASE TakeUntilEnd(r)
  <2>1. "open" \in BidSteps
    BY DEF BidSteps
  <2>2. End - Clock(r) \in Int
    BY TimeAssumption, ActorsAssumption DEF Clock
  <2>3. QED
    BY <1>1, <1>5, <2>1, <2>2, TakeTypes DEF TakeUntilEnd
<1>6. CASE OpenStatus(r)
  <2>1. "recheck" \in BidSteps
    BY DEF BidSteps
  <2>2. QED
    BY <1>1, <1>6, <2>1, GotoTypes, RedisTypes DEF OpenStatus, SetStatusActive
<1>7. CASE Recheck(r)
  <2>1. "retain" \in BidSteps /\ "AUCTION_NOT_BIDDABLE" \in Codes
    BY DEF BidSteps, Codes
  <2>2. QED
    BY <1>1, <1>7, <2>1, GotoTypes, AnswerTypes DEF Recheck
<1>8. CASE TakeRetention(r)
  <2>1. "script" \in BidSteps
    BY DEF BidSteps
  <2>2. End + Retention - Clock(r) \in Int
    BY TimeAssumption, ActorsAssumption DEF Clock
  <2>3. QED
    BY <1>1, <1>8, <2>1, <2>2, TakeTypes DEF TakeRetention
<1>9. CASE RunScript(r)
  <2>1. "BID_TOO_LOW" \in Codes /\ "CREATED" \in Codes
    BY DEF Codes
  <2>2. /\ ClosedText \in Nat \cup {None, ClosedText}
        /\ price.val \in Nat \cup {None, ClosedText}
        /\ Amount[r] \in Nat \cup {None, ClosedText}
    BY ActorsAssumption DEF Keys
  <2>3. QED
    BY <1>1, <1>9, <2>1, <2>2, AnswerTypes, RedisTypes DEF RunScript, ScriptTakes
<1>10. QED
  BY <1>2, <1>3, <1>4, <1>5, <1>6, <1>7, <1>8, <1>9 DEF BidStep, TypeOK

LEMMA TypeBidFault ==
  ASSUME TypeOK, NEW r \in Requests, BidCallRepeats(r) \/ BidCallFails(r)
  PROVE  TypeOK'
<1> USE DEF TypeOK, pgVars, redisVars, workerVars, history
<1>1. UNCHANGED <<now, pgVars, workerVars, losses, counted>>
  BY BidFrame
<1>2. faults' \in Nat
  BY DEF BidCallRepeats, BidCallFails, Fault
<1>3. CASE BidCallRepeats(r)
  BY <1>1, <1>2, <1>3, RedisTypes
  DEF BidCallRepeats, SetPriceIfAbsent, SetStatusActive, ScriptTakes, bidVars
<1>4. CASE BidCallFails(r)
  <2>1. "AUCTION_NOT_BIDDABLE" \in Codes /\ "TEMPORARILY_UNAVAILABLE" \in Codes
    BY DEF Codes
  <2>2. QED
    BY <1>1, <1>2, <1>4, <2>1, AnswerTypes DEF BidCallFails
<1>5. QED
  BY <1>3, <1>4

LEMMA ToStepTypes ==
  ASSUME TypeOK, NEW w \in Workers
  PROVE  /\ \A step \in SettleSteps :
              ToStep(w, step) => wpc' \in [Workers -> SettleSteps] /\ snap' = snap
         /\ Return(w) => /\ wpc' \in [Workers -> SettleSteps]
                         /\ snap' \in [Workers -> Snapshots]
<1>1. ASSUME NEW step \in SettleSteps, ToStep(w, step)
      PROVE  wpc' \in [Workers -> SettleSteps] /\ snap' = snap
  BY <1>1 DEF TypeOK, ToStep
<1>2. ASSUME Return(w)
      PROVE  wpc' \in [Workers -> SettleSteps]
  BY <1>2 DEF TypeOK, Return, SettleSteps
<1>3. NoSnap \in Snapshots
  BY DEF NoSnap, Snapshots
<1>4. ASSUME Return(w)
      PROVE  snap' \in [Workers -> Snapshots]
  BY <1>3, <1>4 DEF TypeOK, Return
<1>5. QED
  BY <1>1, <1>2, <1>4

LEMMA FinalTypes ==
  ASSUME TypeOK, NEW w \in Workers
  PROVE  /\ SetFinalStatus(w) => cached' \in Keys({"ACTIVE"} \cup Terminal)
         /\ DeletePair /\ accepted' = accepted =>
              /\ price' \in Keys(Nat) /\ leader' \in Keys(Users)
              /\ gone' \subseteq accepted
<1>1. Final(snap[w]) \in Terminal
  BY DEF Final, Terminal
<1>2. snap[w].ttl \in Int
  BY DEF TypeOK, Snapshots
<1>3. SetFinalStatus(w) => cached' \in Keys({"ACTIVE"} \cup Terminal)
  BY <1>1, <1>2, ExpiryType DEF SetFinalStatus, Key, Keys, TypeOK
<1>4. DeletePair /\ accepted' = accepted =>
        /\ price' \in Keys(Nat) /\ leader' \in Keys(Users)
        /\ gone' \subseteq accepted
  BY DEF DeletePair, NoKey, Key, Keys, Forgotten, TypeOK
<1>5. QED
  BY <1>3, <1>4

LEMMA TypeSettleStep ==
  ASSUME TypeOK, NEW w \in Workers, SettleStep(w)
  PROVE  TypeOK'
<1> USE DEF TypeOK, pgVars, redisVars, bidVars, history
<1>1. UNCHANGED <<now, bidVars, losses, history>>
  BY SettleFrame
<1>2. {"mget", "lock", "tx", "retain", "cache", "publish", "del"} \subseteq SettleSteps
  BY DEF SettleSteps
<1>3. CASE Scan(w)
  BY <1>1, <1>2, <1>3, ToStepTypes DEF Scan
<1>4. CASE Snapshot(w)
  <2>1. [price |-> price.val, leader |-> leader.val, seen |-> accepted \ gone,
         ttl |-> 0] \in Snapshots
    BY DEF Keys, Snapshots
  <2>2. QED
    BY <1>1, <1>2, <1>4, <2>1 DEF Snapshot
<1>5. CASE LockRow(w)
  <2>1. lock' \in Workers \cup {None} /\ wpc' \in [Workers -> SettleSteps]
    BY <1>2, <1>5, ToStepTypes DEF LockRow
  <2>2. snap' \in [Workers -> Snapshots]
    BY <1>2, <1>5, ToStepTypes DEF LockRow
  <2>3. QED
    BY <1>1, <1>5, <2>1, <2>2 DEF LockRow
<1>6. CASE Commit(w)
  <2>1. HasWinner(snap[w]) => snap[w].price \in Nat /\ snap[w].leader \in Users
    BY DEF HasWinner, Snapshots
  <2>2. {"SETTLED", "CLOSED"} \subseteq Statuses
    BY DEF Statuses, Terminal
  <2>3. row' \in [status : Statuses, price : Nat \cup {None},
                  winner : Users \cup {None}]
    BY <1>6, <2>1, <2>2 DEF Commit
  <2>4. ledger' \subseteq [user : Users, amount : Nat]
    <3>1. CASE HasWinner(snap[w]) /\ ledger = {}
      BY <1>6, <2>1, <3>1 DEF Commit
    <3>2. CASE ~(HasWinner(snap[w]) /\ ledger = {})
      BY <1>6, <3>2 DEF Commit
    <3>3. QED
      BY <3>1, <3>2
  <2>5. counted' \subseteq Requests /\ lock' = None
    BY <1>6 DEF Commit, Snapshots
  <2>6. wpc' \in [Workers -> SettleSteps] /\ snap' = snap
    BY <1>2, <1>6, ToStepTypes DEF Commit
  <2>7. UNCHANGED <<redisVars, announced, faults>>
    BY <1>6 DEF Commit
  <2>8. QED
    BY <1>1, <2>3, <2>4, <2>5, <2>6, <2>7
<1>7. CASE Rollback(w)
  BY <1>1, <1>2, <1>7, ToStepTypes DEF Rollback
<1>8. CASE CacheStatus(w)
  BY <1>1, <1>2, <1>8, ToStepTypes, FinalTypes DEF CacheStatus, SetFinalStatus
<1>9. CASE Publish(w)
  BY <1>1, <1>2, <1>9, ToStepTypes DEF Publish, PublishSettlement
<1>10. CASE Cleanup(w)
  BY <1>1, <1>2, <1>10, ToStepTypes, FinalTypes DEF Cleanup, DeletePair
<1>11. CASE TakeStatusTTL(w)
  <2>1. ASSUME NEW d \in Int, snap' = [snap EXCEPT ![w].ttl = d]
        PROVE  snap' \in [Workers -> Snapshots]
    BY <2>1 DEF Snapshots
  <2>2. End + Retention - Clock(w) \in Int /\ Linger \in Int
    BY TimeAssumption, ActorsAssumption DEF Clock
  <2>3. snap' \in [Workers -> Snapshots]
    BY <1>11, <2>1, <2>2 DEF TakeStatusTTL
  <2>4. wpc' \in [Workers -> SettleSteps]
    BY <1>2, <1>11 DEF TakeStatusTTL
  <2>5. QED
    BY <1>1, <1>11, <2>3, <2>4 DEF TakeStatusTTL
<1>12. QED
  BY <1>3, <1>4, <1>5, <1>6, <1>7, <1>8, <1>9, <1>10, <1>11 DEF SettleStep, TypeOK

LEMMA TypeSettleFault ==
  ASSUME TypeOK, NEW w \in Workers, SettleCallRepeats(w) \/ SettleAborts(w)
  PROVE  TypeOK'
<1> USE DEF TypeOK, pgVars, redisVars, bidVars, history
<1>1. UNCHANGED <<now, bidVars, losses, history>>
  BY SettleFrame
<1>2. faults' \in Nat
  BY DEF SettleCallRepeats, SettleAborts, Fault
<1>3. CASE SettleCallRepeats(w)
  <2>1. CASE SetFinalStatus(w) /\ UNCHANGED <<pgVars, wpc, snap, counted>>
    BY <1>1, <1>2, <2>1, FinalTypes DEF SetFinalStatus
  <2>2. CASE PublishSettlement /\ UNCHANGED <<pgVars, wpc, snap, counted>>
    BY <1>1, <1>2, <2>2 DEF PublishSettlement
  <2>3. CASE DeletePair /\ UNCHANGED <<pgVars, wpc, snap, counted>>
    BY <1>1, <1>2, <2>3, FinalTypes DEF DeletePair
  <2>4. QED
    BY <1>3, <2>1, <2>2, <2>3 DEF SettleCallRepeats
<1>4. CASE SettleAborts(w)
  BY <1>1, <1>2, <1>4, ToStepTypes DEF SettleAborts
<1>5. QED
  BY <1>3, <1>4

LEMMA TypeEnvironment ==
  ASSUME TypeOK,
         \/ Tick \/ OperatorOpens \/ LoseRedis
         \/ \E s \in {"DRAFT", "ACTIVE"} : CreateAuction(s)
  PROVE  TypeOK'
<1> USE DEF TypeOK, pgVars, redisVars, bidVars, workerVars, history
<1>1. CASE Tick
  BY <1>1, KeyTypes DEF Tick, Forgotten
<1>2. CASE OperatorOpens
  BY <1>2, PriceAssumption DEF OperatorOpens, Statuses
<1>3. CASE LoseRedis
  BY <1>3 DEF LoseRedis, NoKey, Key, Keys, Forgotten
<1>4. ASSUME NEW s \in {"DRAFT", "ACTIVE"}, CreateAuction(s)
      PROVE  TypeOK'
  BY <1>4 DEF CreateAuction, Statuses
<1>5. QED
  BY <1>1, <1>2, <1>3, <1>4

LEMMA TypeNext == TypeOK /\ [Next]_vars => TypeOK'
<1> SUFFICES ASSUME TypeOK, [Next]_vars
             PROVE  TypeOK'
  OBVIOUS
<1>1. CASE UNCHANGED vars
  BY <1>1 DEF TypeOK, vars, pgVars, redisVars, bidVars, workerVars, history
<1>2. CASE Next
  BY <1>2, TypeEnvironment, TypeBidStep, TypeBidFault, TypeSettleStep, TypeSettleFault
  DEF Next
<1>3. QED
  BY <1>1, <1>2

\* Every variable keeps its type, whatever the constants are.
THEOREM TypeCorrect == Spec => []TypeOK
BY TypeInit, TypeNext, PTL DEF Spec

-----------------------------------------------------------------------------
(* Settlement: one worker decides the auction, once. *)

LEMMA SettlementInit == Init => SettlementInv
BY ActorsAssumption
   DEF Init, SettlementInv, LedgerMatchesRow, AnnouncedOnce,
       CachedStatusSound, Finishing, Terminal, NoKey, Key

\* All that a bid handler can do to what the settlement relies on.
LEMMA BidEffects ==
  ASSUME TypeOK, NEW r \in Requests,
         BidStep(r) \/ BidCallRepeats(r) \/ BidCallFails(r)
  PROVE  /\ cached' = cached \/ cached'.val = "ACTIVE"
         /\ now < End \/ row.status \in Terminal
              \/ timely' \ gone' \subseteq timely \ gone
         /\ accepted \subseteq accepted'
         /\ faults' = faults \/ faults' = faults + 1
<1> USE DEF redisVars, history, Fault, SetPriceIfAbsent, SetStatusActive, ScriptTakes,
        Key
<1>0. ASSUME Remember(r), End <= now, row.status \notin Terminal
      PROVE  timely' \ gone' \subseteq timely \ gone
  <2>1. timely' = timely \ {r} /\ gone' = gone \ {r}
    BY <1>0, TimeAssumption DEF Remember, TypeOK
  <2>2. QED
    BY <2>1
<1>split. now < End \/ End <= now
  BY TimeAssumption DEF TypeOK
<1>kept. Remember(r) => accepted \subseteq accepted'
  BY DEF Remember
<1>1. CASE ReadAuction(r) \/ CheckWindow(r) \/ TakeUntilEnd(r) \/ Recheck(r)
             \/ TakeRetention(r)
  BY <1>1 DEF ReadAuction, CheckWindow, TakeUntilEnd, Recheck, TakeRetention
<1>2. CASE SeedPrice(r) \/ OpenStatus(r)
  BY <1>2 DEF SeedPrice, OpenStatus
<1>3. CASE RunScript(r)
  BY <1>0, <1>split, <1>kept, <1>3 DEF RunScript
<1>4. CASE BidCallRepeats(r) \/ BidCallFails(r)
  BY <1>0, <1>split, <1>kept, <1>4 DEF BidCallRepeats, BidCallFails
<1>5. QED
  BY <1>1, <1>2, <1>3, <1>4 DEF BidStep

\* What is gone stays gone, the script's taking it again aside.
LEMMA GoneOnlyGrows ==
  ASSUME TypeOK,
         \/ UNCHANGED gone
         \/ Forgotten
         \/ Tick \/ OperatorOpens \/ LoseRedis
         \/ \E s \in {"DRAFT", "ACTIVE"} : CreateAuction(s)
         \/ \E w \in Workers : SettleStep(w) \/ SettleCallRepeats(w) \/ SettleAborts(w)
  PROVE  gone \subseteq gone'
<1> USE DEF redisVars
<1>1. Forgotten => gone \subseteq gone'
  BY DEF Forgotten, TypeOK
<1>2. CASE Tick \/ OperatorOpens \/ LoseRedis
           \/ \E s \in {"DRAFT", "ACTIVE"} : CreateAuction(s)
  BY <1>1, <1>2 DEF Tick, OperatorOpens, LoseRedis, CreateAuction
<1>3. ASSUME NEW w \in Workers, SettleStep(w)
      PROVE  gone \subseteq gone'
  BY <1>1, <1>3 DEF SettleStep, Scan, Snapshot, LockRow, Commit, Rollback, TakeStatusTTL,
     CacheStatus, SetFinalStatus, Publish, PublishSettlement, Cleanup, DeletePair
<1>4. ASSUME NEW w \in Workers, SettleCallRepeats(w) \/ SettleAborts(w)
      PROVE  gone \subseteq gone'
  BY <1>1, <1>4 DEF SettleCallRepeats, SettleAborts, SetFinalStatus, PublishSettlement,
     DeletePair
<1>5. QED
  BY <1>1, <1>2, <1>3, <1>4

LEMMA SettlementBid ==
  ASSUME TypeOK, SettlementInv, NEW r \in Requests,
         BidStep(r) \/ BidCallRepeats(r) \/ BidCallFails(r)
  PROVE  SettlementInv'
<1>1. UNCHANGED <<now, row, ledger, lock, wpc, snap, announced, counted>>
  BY BidFrame DEF pgVars, workerVars
<1>2. /\ faults \in Nat /\ announced \in Nat
      /\ faults' = faults \/ faults' = faults + 1
  BY BidEffects DEF TypeOK
<1>3. CachedStatusSound'
  BY <1>1, BidEffects DEF CachedStatusSound, SettlementInv, Terminal
<1>4. ASSUME NEW w \in Workers, wpc[w] \in {"lock", "tx"}
      PROVE  /\ snap[w].seen \subseteq accepted'
             /\ row.status \in Terminal \/ timely' \ gone' \subseteq snap[w].seen
  <2>1. /\ End <= now /\ snap[w].seen \subseteq accepted
        /\ row.status \in Terminal \/ timely \ gone \subseteq snap[w].seen
    BY <1>4 DEF SettlementInv
  <2>2. now < End => FALSE
    BY <2>1, TimeAssumption DEF TypeOK
  <2>3. QED
    BY <2>1, <2>2, BidEffects
<1>5. AnnouncedOnce'
  BY <1>1, <1>2 DEF AnnouncedOnce, SettlementInv
<1>6. \A w \in Workers : wpc[w] \in {"retain", "cache", "publish"} => announced <= faults'
  BY <1>2 DEF SettlementInv
<1>7. QED
  BY <1>1, <1>3, <1>4, <1>5, <1>6 DEF SettlementInv, LedgerMatchesRow, Final, HasWinner,
     Finishing

LEMMA SettlementEnvironment ==
  ASSUME TypeOK, SettlementInv,
         \/ Tick \/ OperatorOpens \/ LoseRedis
         \/ \E s \in {"DRAFT", "ACTIVE"} : CreateAuction(s)
  PROVE  SettlementInv'
<1> USE DEF SettlementInv, LedgerMatchesRow, AnnouncedOnce,
        CachedStatusSound, Finishing, Terminal, pgVars, workerVars, history
<1>1. CASE Tick
  <2>1. cached' = cached \/ cached'.val = None
    BY <1>1 DEF Tick, At, NoKey, Key
  <2>2. now <= now' /\ now \in Nat /\ now' \in Nat
    BY <1>1 DEF Tick, TypeOK
  <2>3. UNCHANGED <<row, ledger, lock, wpc, snap, announced, faults, timely, accepted,
                    counted>> /\ gone \subseteq gone'
    BY <1>1, GoneOnlyGrows DEF Tick
  <2>4. QED
    BY <2>1, <2>2, <2>3, TimeAssumption, ActorsAssumption DEF Final, HasWinner
<1>2. CASE OperatorOpens
  <2>1. row.status \notin Terminal /\ row'.status = "ACTIVE"
    BY <1>2 DEF OperatorOpens, TypeOK
  <2>2. UNCHANGED <<now, ledger, lock, cached, wpc, snap, announced, faults, timely,
                    accepted, gone, counted>>
    BY <1>2 DEF OperatorOpens, redisVars
  <2>3. \A w \in Workers : ~Finishing(w)
    BY <2>1 DEF Final
  <2>4. QED
    BY <2>1, <2>2, <2>3
<1>3. CASE LoseRedis
  <2>1. cached'.val = None
    BY <1>3 DEF LoseRedis, NoKey, Key
  <2>2. UNCHANGED <<now, row, ledger, lock, wpc, snap, announced, faults, timely, accepted,
                    counted>> /\ gone \subseteq gone'
    BY <1>3, GoneOnlyGrows DEF LoseRedis
  <2>3. QED
    BY <2>1, <2>2, ActorsAssumption DEF Final, HasWinner
<1>4. ASSUME NEW s \in {"DRAFT", "ACTIVE"}, CreateAuction(s)
      PROVE  SettlementInv'
  <2>1. row.status = "ABSENT" /\ row'.status = s
    BY <1>4 DEF CreateAuction, TypeOK
  <2>2. UNCHANGED <<now, ledger, lock, cached, wpc, snap, announced, faults, timely,
                    accepted, gone, counted>>
    BY <1>4 DEF CreateAuction, redisVars
  <2>3. \A w \in Workers : ~Finishing(w) /\ wpc[w] # "tx"
    BY <2>1 DEF Final
  <2>4. QED
    BY <2>1, <2>2, <2>3
<1>5. QED
  BY <1>1, <1>2, <1>3, <1>4

LEMMA SettlementStep ==
  ASSUME TypeOK, SettlementInv, NEW w \in Workers, SettleStep(w)
  PROVE  SettlementInv'
<1> USE DEF SettlementInv, LedgerMatchesRow, AnnouncedOnce,
        CachedStatusSound, Finishing, Terminal, pgVars
<1>1. UNCHANGED <<now, accepted, timely>> /\ gone \subseteq gone'
  BY SettleFrame, GoneOnlyGrows DEF history
<1>2. /\ wpc \in [Workers -> SettleSteps]
      /\ DOMAIN snap = Workers
      /\ announced \in Nat /\ faults \in Nat
      /\ timely \subseteq accepted
      /\ None \notin Workers
  BY ActorsAssumption DEF TypeOK
<1>3. CASE Scan(w)
  <2>1. /\ wpc' = [wpc EXCEPT ![w] = "mget"] /\ End <= now
        /\ UNCHANGED <<row, ledger, lock, cached, snap, announced, faults, counted>>
    BY <1>3 DEF Scan, ToStep, redisVars
  <2>2. QED
    BY <1>1, <1>2, <2>1 DEF Final, HasWinner
<1>4. CASE Snapshot(w)
  <2>1. /\ wpc[w] = "mget" /\ wpc' = [wpc EXCEPT ![w] = "lock"]
        /\ snap'[w].seen = accepted \ gone /\ gone' = gone
        /\ \A v \in Workers \ {w} : snap'[v] = snap[v]
        /\ UNCHANGED <<row, ledger, lock, cached, announced, faults, counted>>
    BY <1>2, <1>4 DEF Snapshot, redisVars
  <2>2. QED
    BY <1>1, <1>2, <2>1 DEF Final, HasWinner
<1>5. CASE LockRow(w)
  <2>1. /\ wpc[w] = "lock" /\ lock = None
        /\ UNCHANGED <<row, ledger, cached, announced, faults, counted>>
        /\ \A v \in Workers \ {w} : wpc'[v] = wpc[v] /\ snap'[v] = snap[v]
        /\ \/ row.status = "ACTIVE" /\ lock' = w /\ wpc'[w] = "tx" /\ snap' = snap
           \/ lock' = lock /\ wpc'[w] = "idle"
    BY <1>2, <1>5 DEF LockRow, ToStep, Return, redisVars
  <2>2. \A v \in Workers : wpc[v] # "tx"
    BY <1>2, <2>1
  <2>3. QED
    BY <1>1, <1>2, <2>1, <2>2 DEF Final, HasWinner
<1>6. CASE Commit(w)
  <2>1. /\ wpc[w] = "tx" /\ wpc' = [wpc EXCEPT ![w] = "retain"]
        /\ counted' = snap[w].seen
        /\ UNCHANGED <<cached, snap, announced, faults>>
    BY <1>6 DEF Commit, ToStep, redisVars
  <2>2. row.status = "ACTIVE" /\ ledger = {} /\ announced = 0 /\ cached.val \notin Terminal
    BY <1>2, <2>1
  <2>3. row'.status = Final(snap[w]) /\ row'.status \in Terminal
    BY <1>6 DEF Commit, Final, TypeOK
  <2>4. LedgerMatchesRow'
    BY <1>6, <2>2 DEF Commit, TypeOK
  <2>5. \A v \in Workers : ~Finishing(v)
    BY <2>2 DEF Final
  <2>6. \A v \in Workers \ {w} : wpc[v] # "tx"
    BY <2>1
  <2>7. row'.status = "SETTLED" => StartingPrice <= row'.price
    BY <1>6, <2>2, PriceAssumption
    DEF Commit, Rejected, HasWinner, TypeOK, Snapshots
  <2>8. QED
    BY <1>1, <1>2, <2>1, <2>2, <2>3, <2>4, <2>5, <2>6, <2>7 DEF Final, HasWinner
<1>7. CASE Rollback(w)
  <2>1. /\ wpc[w] = "tx" /\ wpc' = [wpc EXCEPT ![w] = "idle"]
        /\ \A v \in Workers \ {w} : snap'[v] = snap[v]
        /\ UNCHANGED <<row, ledger, cached, announced, faults, counted>>
    BY <1>7 DEF Rollback, Return, redisVars
  <2>2. \A v \in Workers \ {w} : wpc[v] # "tx"
    BY <2>1
  <2>3. QED
    BY <1>1, <1>2, <2>1, <2>2 DEF Final, HasWinner
<1>8. CASE CacheStatus(w)
  <2>1. /\ wpc[w] = "cache" /\ wpc' = [wpc EXCEPT ![w] = "publish"]
        /\ cached'.val = Final(snap[w])
        /\ UNCHANGED <<row, ledger, lock, snap, announced, faults, counted>>
    BY <1>8 DEF CacheStatus, SetFinalStatus, ToStep, Key
  <2>2. QED
    BY <1>1, <1>2, <2>1 DEF Final, HasWinner
<1>9. CASE Publish(w)
  <2>1. /\ wpc[w] = "publish" /\ wpc' = [wpc EXCEPT ![w] = "del"]
        /\ announced' = announced + 1
        /\ UNCHANGED <<row, ledger, lock, cached, snap, faults, counted>>
    BY <1>9 DEF Publish, PublishSettlement, ToStep, redisVars
  <2>2. row.status \in Terminal /\ announced <= faults
    BY <2>1 DEF Final
  <2>3. \A v \in Workers \ {w} : ~Finishing(v)
    BY <2>1
  <2>4. QED
    BY <1>1, <1>2, <2>1, <2>2, <2>3 DEF Final, HasWinner
<1>10. CASE Cleanup(w)
  <2>1. /\ wpc[w] = "del" /\ wpc' = [wpc EXCEPT ![w] = "idle"]
        /\ \A v \in Workers \ {w} : snap'[v] = snap[v]
        /\ UNCHANGED <<row, ledger, lock, cached, announced, faults, counted>>
    BY <1>10 DEF Cleanup, DeletePair, Return
  <2>2. QED
    BY <1>1, <1>2, <2>1 DEF Final, HasWinner
<1>11. CASE TakeStatusTTL(w)
  <2>1. /\ wpc[w] = "retain" /\ wpc' = [wpc EXCEPT ![w] = "cache"]
        /\ \A v \in Workers \ {w} : snap'[v] = snap[v]
        /\ UNCHANGED <<row, ledger, lock, cached, announced, faults, counted>>
    BY <1>11 DEF TakeStatusTTL, redisVars
  <2>2. snap[w] \in Snapshots
    BY DEF TypeOK
  <2>3. /\ snap'[w].price = snap[w].price /\ snap'[w].leader = snap[w].leader
    BY <1>2, <1>11, <2>2 DEF TakeStatusTTL, Snapshots
  <2>4. Final(snap'[w]) = Final(snap[w])
    BY <2>3 DEF Final, HasWinner
  <2>5. QED
    BY <1>1, <1>2, <2>1, <2>4 DEF Final, HasWinner
<1>12. QED
  BY <1>3, <1>4, <1>5, <1>6, <1>7, <1>8, <1>9, <1>10, <1>11 DEF SettleStep

LEMMA SettlementFault ==
  ASSUME TypeOK, SettlementInv, NEW w \in Workers,
         SettleCallRepeats(w) \/ SettleAborts(w)
  PROVE  SettlementInv'
<1> USE DEF SettlementInv, LedgerMatchesRow, AnnouncedOnce,
        CachedStatusSound, Finishing, Terminal, pgVars
<1>1. UNCHANGED <<now, accepted, timely>> /\ gone \subseteq gone' /\ faults' = faults + 1
  BY SettleFrame, GoneOnlyGrows DEF history, SettleCallRepeats, SettleAborts, Fault
<1>2. /\ wpc \in [Workers -> SettleSteps]
      /\ announced \in Nat /\ faults \in Nat
      /\ None \notin Workers
  BY ActorsAssumption DEF TypeOK
<1>3. CASE SettleCallRepeats(w)
  <2>1. UNCHANGED <<row, ledger, lock, wpc, snap, counted>>
    BY <1>3 DEF SettleCallRepeats
  <2>2. \/ wpc[w] = "cache" /\ cached'.val = Final(snap[w]) /\ announced' = announced
        \/ wpc[w] = "publish" /\ cached' = cached /\ announced' = announced + 1
        \/ cached' = cached /\ announced' = announced
    BY <1>3 DEF SettleCallRepeats, SetFinalStatus, PublishSettlement, DeletePair, Key,
            redisVars
  <2>3. wpc[w] = "publish" => row.status \in Terminal /\ announced <= faults
    BY DEF Final
  <2>4. QED
    BY <1>1, <1>2, <2>1, <2>2, <2>3 DEF Final, HasWinner
<1>4. CASE SettleAborts(w)
  <2>1. /\ wpc' = [wpc EXCEPT ![w] = "idle"]
        /\ \A v \in Workers \ {w} : snap'[v] = snap[v]
        /\ lock' = IF lock = w THEN None ELSE lock
        /\ UNCHANGED <<row, ledger, cached, announced, counted>>
    BY <1>4 DEF SettleAborts, Return, redisVars
  <2>2. QED
    BY <1>1, <1>2, <2>1 DEF Final, HasWinner
<1>5. QED
  BY <1>3, <1>4

LEMMA SettlementNext == TypeOK /\ SettlementInv /\ [Next]_vars => SettlementInv'
<1> SUFFICES ASSUME TypeOK, SettlementInv, [Next]_vars
             PROVE  SettlementInv'
  OBVIOUS
<1>1. CASE UNCHANGED vars
  BY <1>1 DEF SettlementInv, LedgerMatchesRow, AnnouncedOnce,
     CachedStatusSound, Finishing, Final, HasWinner, vars, pgVars, redisVars,
     workerVars, history
<1>2. CASE Next
  BY <1>2, SettlementEnvironment, SettlementBid, SettlementStep, SettlementFault DEF Next
<1>3. QED
  BY <1>1, <1>2

\* The row's lock makes the settlement a critical section, in every state.
THEOREM SettlementSafe == Spec => []SettlementInv
BY TypeCorrect, SettlementInit, SettlementNext, PTL DEF Spec

\* Row and ledger name the same winner and the same price, in every state.
THEOREM LedgerAlwaysMatches == Spec => []LedgerMatchesRow
<1>1. SettlementInv => LedgerMatchesRow
  BY DEF SettlementInv
<1>2. QED
  BY <1>1, SettlementSafe, PTL

\* One SETTLEMENT event at most, lost replies aside, and only after the commit.
THEOREM AnnouncedAtMostOnce == Spec => []AnnouncedOnce
<1>1. SettlementInv => AnnouncedOnce
  BY DEF SettlementInv
<1>2. QED
  BY <1>1, SettlementSafe, PTL

\* A final status that Redis caches is the one PostgreSQL committed.
THEOREM CachedStatusIsSound == Spec => []CachedStatusSound
<1>1. SettlementInv => CachedStatusSound
  BY DEF SettlementInv
<1>2. QED
  BY <1>1, SettlementSafe, PTL

\* The row's lock is held by a worker in its transaction or by nobody: none that
\* failed, stopped or returned leaves it behind (worker.go 66-113).
THEOREM LockAlwaysHeld == Spec => []LockIsHeld
<1>1. Init => LockIsHeld
  BY DEF Init, LockIsHeld
<1>2. TypeOK /\ LockIsHeld /\ [Next]_vars => LockIsHeld'
  <2> SUFFICES ASSUME TypeOK, LockIsHeld, [Next]_vars PROVE LockIsHeld'
    OBVIOUS
  <2> USE DEF LockIsHeld
  <2>0. lock \in Workers \cup {None} /\ wpc \in [Workers -> SettleSteps]
        /\ None \notin Workers
    BY ActorsAssumption DEF TypeOK
  <2>1. CASE UNCHANGED <<lock, wpc>>
    BY <2>1
  <2>2. CASE Tick \/ OperatorOpens \/ LoseRedis
             \/ \E s \in {"DRAFT", "ACTIVE"} : CreateAuction(s)
    BY <2>1, <2>2 DEF Tick, OperatorOpens, LoseRedis, CreateAuction, pgVars, workerVars
  <2>3. ASSUME NEW r \in Requests, BidStep(r) \/ BidCallRepeats(r) \/ BidCallFails(r)
        PROVE  LockIsHeld'
    BY <2>1, <2>3, BidFrame DEF pgVars, workerVars
  <2>4. ASSUME NEW w \in Workers, SettleCallRepeats(w) PROVE LockIsHeld'
    BY <2>1, <2>4 DEF SettleCallRepeats, pgVars
  <2>5. ASSUME NEW w \in Workers, SettleAborts(w) PROVE LockIsHeld'
    BY <2>0, <2>5 DEF SettleAborts, Return
  <2>6. ASSUME NEW w \in Workers, SettleStep(w) PROVE LockIsHeld'
    <3>1. CASE Scan(w) \/ Snapshot(w) \/ TakeStatusTTL(w) \/ CacheStatus(w)
                 \/ Publish(w) \/ Cleanup(w)
      <4>1. lock' = lock /\ wpc[w] # "tx" /\ \A v \in Workers \ {w} : wpc'[v] = wpc[v]
        BY <2>0, <3>1 DEF Scan, Snapshot, TakeStatusTTL, CacheStatus, Publish, Cleanup, ToStep, Return,
                          pgVars
      <4> QED BY <2>0, <4>1
    <3>2. CASE LockRow(w)
      BY <2>0, <3>2 DEF LockRow, ToStep, Return
    <3>3. CASE Commit(w) \/ Rollback(w)
      BY <3>3 DEF Commit, Rollback
    <3> QED BY <2>6, <3>1, <3>2, <3>3 DEF SettleStep
  <2>7. CASE UNCHANGED vars
    BY <2>1, <2>7 DEF vars, pgVars, workerVars
  <2> QED BY <2>2, <2>3, <2>4, <2>5, <2>6, <2>7 DEF Next
<1> QED BY <1>1, <1>2, TypeCorrect, PTL DEF Spec

\* No step, of any worker, changes an auction that has been decided.
THEOREM SettlementIsFinal == Spec => SettlementFinal
<1> DEFINE Kept == row.status \in Terminal => UNCHANGED <<row, ledger, counted>>
<1>1. TypeOK /\ SettlementInv /\ [Next]_vars => [Kept]_vars
  <2> SUFFICES ASSUME TypeOK, SettlementInv, Next, row.status \in Terminal
               PROVE  UNCHANGED <<row, ledger, counted>>
    BY DEF vars, pgVars
  <2>1. CASE Tick \/ OperatorOpens \/ LoseRedis
             \/ \E s \in {"DRAFT", "ACTIVE"} : CreateAuction(s)
    BY <2>1 DEF Tick, OperatorOpens, LoseRedis, CreateAuction, pgVars, Terminal
  <2>2. ASSUME NEW r \in Requests, BidStep(r) \/ BidCallRepeats(r) \/ BidCallFails(r)
        PROVE  UNCHANGED <<row, ledger, counted>>
    BY <2>2, BidFrame DEF pgVars
  <2>3. ASSUME NEW w \in Workers, SettleCallRepeats(w) \/ SettleAborts(w)
        PROVE  UNCHANGED <<row, ledger, counted>>
    BY <2>3 DEF SettleCallRepeats, SettleAborts, pgVars
  <2>4. ASSUME NEW w \in Workers, SettleStep(w)
        PROVE  UNCHANGED <<row, ledger, counted>>
    <3>1. ~Commit(w)
      BY DEF Commit, SettlementInv, Terminal
    <3>2. QED
      BY <2>4, <3>1 DEF SettleStep, Scan, Snapshot, LockRow, Rollback, TakeStatusTTL,
         CacheStatus, Publish, Cleanup, pgVars
  <2>5. QED
    BY <2>1, <2>2, <2>3, <2>4 DEF Next
<1>2. QED
  BY <1>1, TypeCorrect, SettlementSafe, PTL DEF Spec, SettlementFinal

-----------------------------------------------------------------------------
(* Bidding: Redis holds the best bid until the auction is decided. *)

\* The pair of keys, in every state, with or without Durable.
LEMMA PairInit == Init => PairConsistent
BY DEF Init, PairConsistent, Exists, NoKey, Key

LEMMA PairBid ==
  ASSUME TypeOK, PairConsistent, NEW r \in Requests,
         BidStep(r) \/ BidCallRepeats(r) \/ BidCallFails(r)
  PROVE  PairConsistent'
<1> USE DEF PairConsistent, Exists, SetPriceIfAbsent, SetStatusActive, ScriptTakes,
        redisVars, Key
<1>1. Amount[r] # None
  BY ActorsAssumption
<1>2. CASE ReadAuction(r) \/ CheckWindow(r) \/ TakeUntilEnd(r) \/ Recheck(r)
             \/ TakeRetention(r) \/ BidCallFails(r)
  BY <1>2 DEF ReadAuction, CheckWindow, TakeUntilEnd, Recheck, TakeRetention,
     BidCallFails
<1>3. CASE SeedPrice(r) \/ OpenStatus(r)
  BY <1>3 DEF SeedPrice, OpenStatus
<1>4. CASE RunScript(r)
  BY <1>1, <1>4 DEF RunScript
<1>5. CASE BidCallRepeats(r)
  BY <1>1, <1>5 DEF BidCallRepeats
<1>6. QED
  BY <1>2, <1>3, <1>4, <1>5 DEF BidStep

LEMMA PairOthers ==
  ASSUME PairConsistent,
         \/ Tick \/ OperatorOpens \/ LoseRedis
         \/ \E s \in {"DRAFT", "ACTIVE"} : CreateAuction(s)
         \/ \E w \in Workers : SettleStep(w) \/ SettleCallRepeats(w) \/ SettleAborts(w)
  PROVE  PairConsistent'
<1> USE DEF PairConsistent, Exists, redisVars, NoKey, Key
<1>1. CASE Tick
  BY <1>1 DEF Tick, At
<1>2. CASE OperatorOpens \/ LoseRedis \/ \E s \in {"DRAFT", "ACTIVE"} : CreateAuction(s)
  BY <1>2 DEF OperatorOpens, LoseRedis, CreateAuction
<1>3. ASSUME NEW w \in Workers, SettleStep(w)
      PROVE  PairConsistent'
  BY <1>3 DEF SettleStep, Scan, Snapshot, LockRow, Commit, Rollback, TakeStatusTTL, CacheStatus,
     SetFinalStatus, Publish, PublishSettlement, Cleanup, DeletePair
<1>4. ASSUME NEW w \in Workers, SettleCallRepeats(w) \/ SettleAborts(w)
      PROVE  PairConsistent'
  BY <1>4 DEF SettleCallRepeats, SettleAborts, SetFinalStatus, PublishSettlement,
     DeletePair
<1>5. QED
  BY <1>1, <1>2, <1>3, <1>4

\* Whatever expires, is seeded, lost or deleted: a leader never lacks a price.
THEOREM PairIsConsistent == Spec => []PairConsistent
<1>1. TypeOK /\ PairConsistent /\ [Next]_vars => PairConsistent'
  <2>1. ASSUME PairConsistent, UNCHANGED vars
        PROVE  PairConsistent'
    BY <2>1 DEF PairConsistent, Exists, vars, redisVars
  <2>2. QED
    BY <2>1, PairBid, PairOthers DEF Next
<1>2. QED
  BY <1>1, PairInit, TypeCorrect, PTL DEF Spec

LEMMA BestWins ==
  ASSUME NEW S \in SUBSET Requests, NEW r \in Requests,
         \A q \in S \ {r} : Amount[q] < Amount[r]
  PROVE  r \in Best(S \cup {r})
BY DEF Best

\* The best of a set is at least as high as any of it.
LEMMA BestIsHighest ==
  ASSUME NEW S \in SUBSET Requests, NEW r \in S, NEW q \in Best(S)
  PROVE  Amount[r] <= Amount[q]
<1>1. Amount[r] \in Nat /\ Amount[q] \in Nat
  BY ActorsAssumption DEF Best
<1>2. QED
  BY <1>1 DEF Best

\* A pair that stands for some bids has a price and a leader.
LEMMA StandHasLeader ==
  ASSUME NEW S \in SUBSET Requests, S # {}, NEW p, NEW l, Stand(p, l, S)
  PROVE  p # None /\ l # None
BY ActorsAssumption DEF Stand, Best

LEMMA BiddingInit == Init => BiddingInv
BY DEF Init, BiddingInv, Stand, OutcomeIsBestAtSnapshot, NoKey, Key

\* SETNX does not touch the pair as long as it stands for some bid.
LEMMA SeedKeepsStand ==
  ASSUME NEW S \in SUBSET Requests, SetPriceIfAbsent, Stand(price.val, leader.val, S)
  PROVE  Stand(price'.val, leader'.val, S)
<1>1. S # {} => Exists(price)
  BY StandHasLeader DEF Exists
<1>2. QED
  BY <1>1 DEF Stand, SetPriceIfAbsent

\* A bid that the script takes outbids all those that are not gone.
LEMMA ScriptOutbids ==
  ASSUME NEW S \in SUBSET Requests, NEW r \in Requests, ScriptTakes(r),
         Stand(price.val, leader.val, S)
  PROVE  \A q \in S : Amount[q] < Amount[r]
<1>1. CASE S = {}
  BY <1>1
<1>2. CASE S # {}
  <2>1. PICK b \in Best(S) : price.val = Amount[b]
    BY <1>2 DEF Stand
  <2>2. Amount[b] \in Nat /\ Amount[r] \in Nat /\ Amount[b] < Amount[r]
    BY <2>1, ActorsAssumption DEF ScriptTakes, Exists, Best
  <2>3. \A q \in S : Amount[q] \in Nat /\ Amount[q] <= Amount[b]
    BY <2>1, BestIsHighest, ActorsAssumption
  <2>4. QED
    BY <2>2, <2>3
<1>3. QED
  BY <1>1, <1>2

LEMMA ScriptKeepsStand ==
  ASSUME TypeOK, NEW r \in Requests, ScriptTakes(r),
         Stand(price.val, leader.val, accepted \ gone)
  PROVE  Stand(price'.val, leader'.val, accepted' \ gone')
<1> DEFINE S == accepted \ gone
<1>1. accepted' \ gone' = S \cup {r} /\ S \in SUBSET Requests
  BY DEF ScriptTakes, Remember, TypeOK
<1>2. \A q \in S : Amount[q] < Amount[r]
  BY <1>1, ScriptOutbids
<1>3. r \in Best(S \cup {r})
  BY <1>1, <1>2, BestWins
<1>4. price'.val = Amount[r] /\ leader'.val = Bidder[r]
  BY DEF ScriptTakes, Key
<1>5. QED
  BY <1>1, <1>3, <1>4 DEF Stand

\* All that a bid handler can do to the pair and to what it stands for.
LEMMA BidMoves ==
  ASSUME NEW r \in Requests, BidStep(r) \/ BidCallRepeats(r) \/ BidCallFails(r)
  PROVE  \/ UNCHANGED <<price, leader, accepted, timely, gone>>
         \/ SetPriceIfAbsent /\ UNCHANGED <<accepted, timely>>
         \/ ScriptTakes(r) /\ pc[r] = "script"
<1> USE DEF redisVars, history
<1>1. CASE BidCallRepeats(r) \/ BidCallFails(r)
  BY <1>1 DEF BidCallRepeats, BidCallFails, SetStatusActive
<1>2. CASE BidStep(r)
  BY <1>2 DEF BidStep, ReadAuction, CheckWindow, SeedPrice, TakeUntilEnd, OpenStatus,
     SetStatusActive, Recheck, TakeRetention, RunScript
<1>3. QED
  BY <1>1, <1>2

\* And all that the others can: the pair is kept, or its leader is gone and the
\* bids with it.
LEMMA OtherMoves ==
  ASSUME PairConsistent,
         \/ Tick \/ OperatorOpens \/ LoseRedis
         \/ \E s \in {"DRAFT", "ACTIVE"} : CreateAuction(s)
         \/ \E w \in Workers : SettleStep(w) \/ SettleCallRepeats(w) \/ SettleAborts(w)
  PROVE  /\ UNCHANGED <<accepted, timely>>
         /\ \/ UNCHANGED <<price, leader, gone>>
            \/ leader'.val = None /\ gone' = accepted
<1> USE DEF redisVars, history
<1>1. CASE Tick
  <2>1. UNCHANGED <<accepted, timely>> /\ leader' = At(leader, now') /\ price' = At(price, now')
        /\ gone' = IF Exists(leader') THEN gone ELSE accepted
    BY <1>1 DEF Tick, Forgotten
  <2>2. CASE Exists(leader')
    <3>1. leader' = leader /\ price.exp = leader.exp
      BY <2>1, <2>2 DEF At, Exists, NoKey, Key, PairConsistent
    <3>2. price' = price
      BY <2>1, <2>2, <3>1 DEF At, Exists, NoKey, Key
    <3>3. QED
      BY <2>1, <2>2, <3>1, <3>2
  <2>3. CASE ~Exists(leader')
    BY <2>1, <2>3 DEF Exists
  <2>4. QED
    BY <2>2, <2>3
<1>2. CASE OperatorOpens \/ LoseRedis \/ \E s \in {"DRAFT", "ACTIVE"} : CreateAuction(s)
  BY <1>2 DEF OperatorOpens, LoseRedis, CreateAuction, Forgotten, Exists, NoKey, Key
<1>3. ASSUME NEW w \in Workers,
             SettleStep(w) \/ SettleCallRepeats(w) \/ SettleAborts(w)
      PROVE  /\ UNCHANGED <<accepted, timely>>
             /\ \/ UNCHANGED <<price, leader, gone>>
                \/ leader'.val = None /\ gone' = accepted
  <2>1. DeletePair => leader'.val = None /\ gone' = accepted
    BY DEF DeletePair, Forgotten, Exists, NoKey, Key
  <2>2. UNCHANGED <<accepted, timely>>
    BY <1>3, SettleFrame
  <2>3. UNCHANGED <<price, leader, gone>> \/ DeletePair
    BY <1>3 DEF SettleStep, SettleCallRepeats, SettleAborts, Scan, Snapshot, LockRow,
       Commit, Rollback, TakeStatusTTL, CacheStatus, Publish, Cleanup, SetFinalStatus,
       PublishSettlement
  <2>4. QED
    BY <2>1, <2>2, <2>3
<1>4. QED
  BY <1>1, <1>2, <1>3

LEMMA BiddingBid ==
  ASSUME TypeOK, BiddingInv, NEW r \in Requests,
         BidStep(r) \/ BidCallRepeats(r) \/ BidCallFails(r)
  PROVE  BiddingInv'
<1>1. UNCHANGED <<row, wpc, snap, counted>>
  BY BidFrame DEF pgVars, workerVars
<1>2. Stand(price'.val, leader'.val, accepted' \ gone')
  <2>1. Stand(price.val, leader.val, accepted \ gone) /\ accepted \ gone \in SUBSET Requests
    BY DEF BiddingInv, TypeOK
  <2>2. CASE UNCHANGED <<price, leader, accepted, timely, gone>>
    BY <2>1, <2>2
  <2>3. CASE SetPriceIfAbsent /\ UNCHANGED <<accepted, timely>>
    <3>1. gone' = gone
      BY <2>3 DEF SetPriceIfAbsent
    <3>2. QED
      BY <2>1, <2>3, <3>1, SeedKeepsStand
  <2>4. CASE ScriptTakes(r)
    BY <2>1, <2>4, ScriptKeepsStand
  <2>5. QED
    BY <2>2, <2>3, <2>4, BidMoves
<1>3. QED
  BY <1>1, <1>2 DEF BiddingInv, OutcomeIsBestAtSnapshot, Stand

LEMMA OtherKeepsStand ==
  ASSUME PairConsistent, BiddingInv,
         \/ Tick \/ OperatorOpens \/ LoseRedis
         \/ \E s \in {"DRAFT", "ACTIVE"} : CreateAuction(s)
         \/ \E w \in Workers : SettleStep(w) \/ SettleCallRepeats(w) \/ SettleAborts(w)
  PROVE  Stand(price'.val, leader'.val, accepted' \ gone')
BY OtherMoves DEF BiddingInv, Stand

LEMMA BiddingEnvironment ==
  ASSUME TypeOK, PairConsistent, BiddingInv,
         \/ Tick \/ OperatorOpens \/ LoseRedis
         \/ \E s \in {"DRAFT", "ACTIVE"} : CreateAuction(s)
  PROVE  BiddingInv'
<1>1. UNCHANGED <<wpc, snap, counted>>
  BY DEF Tick, OperatorOpens, LoseRedis, CreateAuction, workerVars
<1>2. row' = row \/ row'.status \in {"DRAFT", "ACTIVE"}
  BY DEF Tick, OperatorOpens, LoseRedis, CreateAuction, pgVars, TypeOK
<1>3. Stand(price'.val, leader'.val, accepted' \ gone')
  BY OtherKeepsStand
<1>4. OutcomeIsBestAtSnapshot'
  BY <1>1, <1>2 DEF BiddingInv, OutcomeIsBestAtSnapshot
<1>5. QED
  BY <1>1, <1>3, <1>4 DEF BiddingInv, Stand

\* A snapshot that stands for some bids has a winner, and one of them is it.
LEMMA SnapshotDecides ==
  ASSUME TypeOK, NEW w \in Workers,
         Stand(snap[w].price, snap[w].leader, snap[w].seen)
  PROVE  IF HasWinner(snap[w])
         THEN \E r \in Best(snap[w].seen) :
                snap[w].price = Amount[r] /\ snap[w].leader = Bidder[r]
         ELSE snap[w].seen = {}
<1>1. snap[w].seen \in SUBSET Requests
  BY DEF TypeOK, Snapshots
<1>2. snap[w].seen # {} => HasWinner(snap[w])
  BY <1>1, StandHasLeader DEF HasWinner
<1>3. QED
  BY <1>2 DEF Stand, HasWinner

\* What the commit writes is the best of what the snapshot stands for.
LEMMA CommitIsBest ==
  ASSUME TypeOK, BiddingInv, NEW w \in Workers, Commit(w)
  PROVE  OutcomeIsBestAtSnapshot'
<1>1. Stand(snap[w].price, snap[w].leader, snap[w].seen)
  BY DEF Commit, BiddingInv
<1>2. /\ counted' = snap[w].seen
      /\ row' = IF HasWinner(snap[w])
                THEN [status |-> "SETTLED", price |-> snap[w].price,
                      winner |-> snap[w].leader]
                ELSE [row EXCEPT !.status = "CLOSED"]
  BY DEF Commit
<1>3. CASE HasWinner(snap[w])
  BY <1>1, <1>2, <1>3, SnapshotDecides DEF OutcomeIsBestAtSnapshot, Best
<1>4. CASE ~HasWinner(snap[w])
  <2>1. row'.status = "CLOSED"
    BY <1>2, <1>4 DEF TypeOK
  <2>2. QED
    BY <1>1, <1>2, <1>4, <2>1, SnapshotDecides DEF OutcomeIsBestAtSnapshot
<1>5. QED
  BY <1>3, <1>4

LEMMA BiddingSettle ==
  ASSUME TypeOK, PairConsistent, BiddingInv, NEW w \in Workers,
         SettleStep(w) \/ SettleCallRepeats(w) \/ SettleAborts(w)
  PROVE  BiddingInv'
<1>1. Stand(price'.val, leader'.val, accepted' \ gone')
  BY OtherKeepsStand
<1>2. wpc \in [Workers -> SettleSteps] /\ DOMAIN snap = Workers
  BY DEF TypeOK
<1>3. CASE Snapshot(w)
  <2>1. /\ snap'[w] = [price |-> price.val, leader |-> leader.val,
                       seen |-> accepted \ gone, ttl |-> 0]
        /\ \A v \in Workers \ {w} : snap'[v] = snap[v] /\ wpc'[v] = wpc[v]
        /\ UNCHANGED <<row, counted>>
    BY <1>2, <1>3 DEF Snapshot, pgVars
  <2>2. Stand(price.val, leader.val, accepted \ gone)
    BY DEF BiddingInv
  <2>3. Stand(snap'[w].price, snap'[w].leader, snap'[w].seen)
    BY <2>1, <2>2
  <2>4. ASSUME NEW v \in Workers \ {w}, wpc'[v] \in {"lock", "tx"}
        PROVE  Stand(snap'[v].price, snap'[v].leader, snap'[v].seen)
    BY <2>1, <2>4 DEF BiddingInv
  <2>5. OutcomeIsBestAtSnapshot'
    BY <2>1 DEF BiddingInv, OutcomeIsBestAtSnapshot
  <2>6. \A v \in Workers : wpc'[v] \in {"lock", "tx"} =>
          Stand(snap'[v].price, snap'[v].leader, snap'[v].seen)
    BY <2>3, <2>4
  <2>7. QED
    BY <1>1, <2>5, <2>6 DEF BiddingInv, Stand
<1>4. CASE ~Snapshot(w)
  <2>1. \A v \in Workers :
           wpc'[v] \in {"lock", "tx"} => wpc[v] \in {"lock", "tx"} /\ snap'[v] = snap[v]
    BY <1>2, <1>4 DEF SettleStep, SettleCallRepeats, SettleAborts, Scan, LockRow, Commit,
       Rollback, TakeStatusTTL, CacheStatus, Publish, Cleanup, ToStep, Return
  <2>2. UNCHANGED <<row, counted>> \/ Commit(w)
    BY <1>4 DEF SettleStep, SettleCallRepeats, SettleAborts, Scan, LockRow, Rollback,
       TakeStatusTTL, CacheStatus, Publish, Cleanup, pgVars
  <2>3. OutcomeIsBestAtSnapshot'
    BY <2>2, CommitIsBest DEF BiddingInv, OutcomeIsBestAtSnapshot
  <2>4. QED
    BY <1>1, <2>1, <2>3 DEF BiddingInv, Stand
<1>5. QED
  BY <1>3, <1>4

LEMMA BiddingNext == TypeOK /\ PairConsistent /\ BiddingInv /\ [Next]_vars => BiddingInv'
<1> SUFFICES ASSUME TypeOK, PairConsistent, BiddingInv, [Next]_vars
             PROVE  BiddingInv'
  OBVIOUS
<1>1. CASE UNCHANGED vars
  BY <1>1 DEF BiddingInv, Stand, OutcomeIsBestAtSnapshot, vars, pgVars, redisVars,
     workerVars, history
<1>2. CASE Next
  BY <1>2, BiddingEnvironment, BiddingBid, BiddingSettle DEF Next
<1>3. QED
  BY <1>1, <1>2

\* Redis, every snapshot of it and the outcome stand for the best of the bids that
\* are not gone, whatever is seeded, expires, is lost or is deleted.
THEOREM BiddingSafe == Spec => []BiddingInv
BY TypeCorrect, PairIsConsistent, BiddingInit, BiddingNext, PTL DEF Spec

\* The outcome is the best of the bids that the winning worker's MGET stood for.
THEOREM OutcomeAlwaysBest == Spec => []OutcomeIsBestAtSnapshot
<1>1. BiddingInv => OutcomeIsBestAtSnapshot
  BY DEF BiddingInv
<1>2. QED
  BY <1>1, BiddingSafe, PTL

-----------------------------------------------------------------------------
(* While Redis is durable no bid is gone before the decision. *)

LEMMA DurableInit == Init => DurableInv
BY TimeAssumption DEF Init, DurableInv, NoKey, Key, Terminal

LEMMA DurableBid ==
  ASSUME TypeOK, SettlementInv, DurableInv, NEW r \in Requests,
         BidStep(r) \/ BidCallRepeats(r) \/ BidCallFails(r)
  PROVE  DurableInv'
<1> SUFFICES ASSUME Durable
             PROVE  DurableInv'
  BY DEF DurableInv, Durable
<1>0. /\ now <= MaxTime
      /\ \A k \in {price, leader} : k.exp = Never \/ MaxTime <= k.exp
      /\ \A q \in Requests : pc[q] = "script" => 0 < ttl[q] /\ MaxTime <= now + ttl[q]
      /\ row.status \notin Terminal => gone = {}
      /\ row.status \in Terminal => timely \subseteq counted
  BY DEF DurableInv
<1>1. UNCHANGED <<now, row, counted>>
  BY BidFrame DEF pgVars
<1>2. (\A q \in Requests : pc[q] = "script" => 0 < ttl[q] /\ MaxTime <= now + ttl[q])'
  <2> USE DEF Goto, Take, Answer, TypeOK
  <2>1. CASE TakeRetention(r)
    <3>1. /\ pc' = [pc EXCEPT ![r] = "script"]
          /\ \A q \in Requests \ {r} : ttl'[q] = ttl[q]
          /\ ttl'[r] = IF End + Retention - Clock(r) <= 0 THEN 1
                       ELSE End + Retention - Clock(r)
      BY <2>1 DEF TakeRetention
    <3>2. /\ MaxTime + Skew[r] <= End + Retention
          /\ Clock(r) = now + Skew[r] /\ now \in Nat /\ Skew[r] \in Int
          /\ {End, Retention, MaxTime} \subseteq Int
      BY TimeAssumption, ActorsAssumption DEF Durable, Clock
    <3>3. 0 < ttl'[r] /\ MaxTime <= now + ttl'[r]
      BY <3>1, <3>2
    <3>4. QED
      BY <1>0, <1>1, <3>1, <3>3
  <2>2. CASE ReadAuction(r) \/ CheckWindow(r) \/ SeedPrice(r) \/ TakeUntilEnd(r)
               \/ OpenStatus(r) \/ Recheck(r) \/ RunScript(r)
    BY <1>0, <1>1, <2>2 DEF ReadAuction, CheckWindow, SeedPrice, TakeUntilEnd,
       OpenStatus, Recheck, RunScript
  <2>3. CASE BidCallRepeats(r) \/ BidCallFails(r)
    BY <1>0, <1>1, <2>3 DEF BidCallRepeats, BidCallFails, bidVars
  <2>4. QED
    BY <2>1, <2>2, <2>3 DEF BidStep
<1>3. (\A k \in {price, leader} : k.exp = Never \/ MaxTime <= k.exp)'
  BY <1>0, <1>1, BidMoves DEF SetPriceIfAbsent, ScriptTakes, ExpiryOf, Key
<1>4. gone' \subseteq gone
  BY BidMoves DEF SetPriceIfAbsent, ScriptTakes, Remember
<1>5. row.status \in Terminal => timely' = timely
  <2>1. row.status \in Terminal => ~(now < End)
    BY TimeAssumption DEF SettlementInv, TypeOK
  <2>2. QED
    BY <2>1, BidMoves DEF ScriptTakes, Remember
<1>6. QED
  BY <1>0, <1>1, <1>2, <1>3, <1>4, <1>5 DEF DurableInv

LEMMA DurableEnvironment ==
  ASSUME TypeOK, PairConsistent, BiddingInv, DurableInv,
         \/ Tick \/ OperatorOpens \/ LoseRedis
         \/ \E s \in {"DRAFT", "ACTIVE"} : CreateAuction(s)
  PROVE  DurableInv'
<1> SUFFICES ASSUME Durable
             PROVE  DurableInv'
  BY DEF DurableInv, Durable
<1> USE DEF DurableInv
<1>1. CASE Tick
  <2>1. now' = now + 1 /\ now' <= MaxTime /\ now \in Nat /\ MaxTime \in Nat
    BY <1>1, TimeAssumption DEF Tick, TypeOK
  <2>2. \A k \in {price, leader} : At(k, now') = k
    BY <2>1 DEF At, TypeOK, Keys, Never
  <2>3. price' = price /\ leader' = leader
    BY <1>1, <2>2 DEF Tick
  <2>4. UNCHANGED <<row, pc, ttl, timely, counted>>
    BY <1>1 DEF Tick, pgVars, bidVars, history
  <2>5. (\A q \in Requests : pc[q] = "script" => 0 < ttl[q] /\ MaxTime <= now + ttl[q])'
    BY <2>1, <2>4 DEF TypeOK
  <2>6. row.status \notin Terminal => gone' = {}
    <3>1. SUFFICES ASSUME row.status \notin Terminal, ~Exists(leader)
                   PROVE  accepted = {}
      BY <1>1, <2>3 DEF Tick, Forgotten, Exists
    <3>2. gone = {} /\ Stand(price.val, leader.val, accepted \ gone) /\ accepted \in SUBSET Requests
      BY <3>1 DEF BiddingInv, TypeOK
    <3>3. QED
      BY <3>1, <3>2, StandHasLeader DEF Exists
  <2>7. QED
    BY <2>1, <2>3, <2>4, <2>5, <2>6
<1>2. CASE OperatorOpens
  BY <1>2 DEF OperatorOpens, redisVars, bidVars, history, TypeOK, Terminal
<1>3. CASE LoseRedis
  BY <1>3 DEF LoseRedis, Durable, TypeOK
<1>4. ASSUME NEW s \in {"DRAFT", "ACTIVE"}, CreateAuction(s)
      PROVE  DurableInv'
  <2>1. /\ row.status = "ABSENT" /\ row'.status \in {"DRAFT", "ACTIVE"}
        /\ UNCHANGED <<now, price, leader, gone, pc, ttl>>
    BY <1>4 DEF CreateAuction, redisVars, bidVars, TypeOK
  <2>2. QED
    BY <2>1 DEF Terminal
<1>5. QED
  BY <1>1, <1>2, <1>3, <1>4

LEMMA DurableSettle ==
  ASSUME TypeOK, SettlementInv, DurableInv, NEW w \in Workers,
         SettleStep(w) \/ SettleCallRepeats(w) \/ SettleAborts(w)
  PROVE  DurableInv'
<1> SUFFICES ASSUME Durable
             PROVE  DurableInv'
  BY DEF DurableInv, Durable
<1>0. UNCHANGED <<now, pc, ttl, timely>>
  BY SettleFrame DEF bidVars, history
<1>1. CASE Commit(w)
  <2>1. wpc[w] = "tx" /\ row.status = "ACTIVE"
    BY <1>1 DEF Commit, SettlementInv
  <2>2. gone = {} /\ timely \subseteq snap[w].seen
    BY <2>1 DEF DurableInv, SettlementInv, Terminal
  <2>3. /\ row'.status \in Terminal /\ counted' = snap[w].seen
        /\ UNCHANGED <<price, leader>>
    BY <1>1 DEF Commit, Terminal, TypeOK, redisVars
  <2>4. QED
    BY <1>0, <2>2, <2>3 DEF DurableInv
<1>2. CASE ~Commit(w)
  <2>1. UNCHANGED <<row, counted>>
    BY <1>2 DEF SettleStep, SettleCallRepeats, SettleAborts, Scan, Snapshot, LockRow,
       Rollback, TakeStatusTTL, CacheStatus, Publish, Cleanup, pgVars
  <2>2. \/ UNCHANGED <<price, leader, gone>>
        \/ Finishing(w) /\ {price', leader'} \subseteq {price, leader, NoKey}
    BY DEF SettleStep, SettleCallRepeats, SettleAborts, Scan, Snapshot, LockRow, Commit,
       Rollback, TakeStatusTTL, CacheStatus, Publish, Cleanup, SetFinalStatus,
       PublishSettlement, DeletePair, Finishing, redisVars
  <2>3. Finishing(w) => row.status \in Terminal
    BY DEF SettlementInv, Final, Terminal
  <2>4. NoKey.exp = Never
    BY DEF NoKey, Key
  <2>5. QED
    BY <1>0, <2>1, <2>2, <2>3, <2>4 DEF DurableInv
<1>3. QED
  BY <1>1, <1>2

LEMMA DurableNext ==
  TypeOK /\ PairConsistent /\ SettlementInv /\ BiddingInv /\ DurableInv /\ [Next]_vars
    => DurableInv'
<1> SUFFICES ASSUME TypeOK, PairConsistent, SettlementInv, BiddingInv, DurableInv,
                    [Next]_vars
             PROVE  DurableInv'
  OBVIOUS
<1>1. CASE UNCHANGED vars
  BY <1>1 DEF DurableInv, Durable, vars, pgVars, redisVars, bidVars, history
<1>2. CASE Next
  BY <1>2, DurableEnvironment, DurableBid, DurableSettle DEF Next
<1>3. QED
  BY <1>1, <1>2

\* With a Redis that loses nothing and a retention that is long enough, no bid is
\* gone before the decision, which counts every one that was taken in time.
THEOREM NoneGoneWhileDurable == Spec => []DurableInv
BY TypeCorrect, PairIsConsistent, SettlementSafe, BiddingSafe, DurableInit, DurableNext,
   PTL DEF Spec

\* While the auction is active the leader is the bidder of the best bid.
THEOREM LeaderAlwaysHighest == Spec => []LeaderIsHighest
<1>1. TypeOK /\ BiddingInv /\ DurableInv => LeaderIsHighest
  <2> SUFFICES ASSUME TypeOK, BiddingInv, DurableInv, Durable, row.status = "ACTIVE"
               PROVE  IF accepted = {} THEN ~Exists(leader)
                      ELSE \E r \in Best(accepted) :
                             price.val = Amount[r] /\ leader.val = Bidder[r]
    BY DEF LeaderIsHighest
  <2>1. gone = {}
    BY DEF DurableInv, Terminal
  <2>2. Stand(price.val, leader.val, accepted)
    BY <2>1 DEF BiddingInv
  <2>3. QED
    BY <2>2 DEF Stand, Exists
<1>2. QED
  BY <1>1, TypeCorrect, BiddingSafe, NoneGoneWhileDurable, PTL

-----------------------------------------------------------------------------
(* Answers: what a bidder is told is what the engine did. *)

LEMMA AnswerInit == Init => AnswerInv
BY DEF Init, AnswerInv, TooLowIsJustified, AnswersMatchEffects, NoReply, NoKey, Key,
       Exists

LEMMA AnswerOthers ==
  ASSUME TypeOK, AnswerInv,
         \/ Tick \/ OperatorOpens \/ LoseRedis
         \/ \E s \in {"DRAFT", "ACTIVE"} : CreateAuction(s)
         \/ \E w \in Workers : SettleStep(w) \/ SettleCallRepeats(w) \/ SettleAborts(w)
  PROVE  AnswerInv'
<1>1. UNCHANGED <<pc, reply, accepted>>
  BY SettleFrame DEF Tick, OperatorOpens, LoseRedis, CreateAuction, bidVars, history
<1>2. price' = price \/ price' = NoKey
  <2> USE DEF redisVars
  <2>1. CASE Tick
    BY <2>1 DEF Tick, At
  <2>2. CASE OperatorOpens \/ LoseRedis \/ \E s \in {"DRAFT", "ACTIVE"} : CreateAuction(s)
    BY <2>2 DEF OperatorOpens, LoseRedis, CreateAuction
  <2>3. ASSUME NEW w \in Workers, SettleStep(w)
        PROVE  price' = price \/ price' = NoKey
    BY <2>3 DEF SettleStep, Scan, Snapshot, LockRow, Commit, Rollback, TakeStatusTTL, CacheStatus,
       SetFinalStatus, Publish, PublishSettlement, Cleanup, DeletePair
  <2>4. ASSUME NEW w \in Workers, SettleCallRepeats(w) \/ SettleAborts(w)
        PROVE  price' = price \/ price' = NoKey
    BY <2>4 DEF SettleCallRepeats, SettleAborts, SetFinalStatus, PublishSettlement,
       DeletePair
  <2>5. QED
    BY <2>1, <2>2, <2>3, <2>4
<1>3. faults' = faults \/ faults' = faults + 1
  <2>1. CASE Tick \/ OperatorOpens \/ LoseRedis
             \/ \E s \in {"DRAFT", "ACTIVE"} : CreateAuction(s)
    BY <2>1 DEF Tick, OperatorOpens, LoseRedis, CreateAuction
  <2>2. ASSUME NEW w \in Workers, SettleStep(w)
        PROVE  faults' = faults
    BY <2>2 DEF SettleStep, Scan, Snapshot, LockRow, Commit, Rollback, TakeStatusTTL, CacheStatus,
       Publish, Cleanup
  <2>3. ASSUME NEW w \in Workers, SettleCallRepeats(w) \/ SettleAborts(w)
        PROVE  faults' = faults + 1
    BY <2>3 DEF SettleCallRepeats, SettleAborts, Fault
  <2>4. QED
    BY <2>1, <2>2, <2>3
<1>4. (Exists(price) =>
         price.val = StartingPrice \/ \E q \in accepted : Amount[q] = price.val)'
  BY <1>1, <1>2 DEF AnswerInv, Exists, NoKey, Key
<1>5. TooLowIsJustified'
  BY <1>1 DEF AnswerInv, TooLowIsJustified
<1>6. AnswersMatchEffects'
  BY <1>1, <1>3 DEF AnswerInv, AnswersMatchEffects, TypeOK
<1>7. QED
  BY <1>1, <1>4, <1>5, <1>6 DEF AnswerInv

LEMMA AnswerBid ==
  ASSUME TypeOK, AnswerInv, NEW r \in Requests,
         BidStep(r) \/ BidCallRepeats(r) \/ BidCallFails(r)
  PROVE  AnswerInv'
<1>1. /\ accepted' = accepted \/ accepted' = accepted \cup {r}
      /\ faults' = faults \/ faults' = faults + 1
  <2> USE DEF redisVars, history, ScriptTakes, Remember, Fault
  <2>1. CASE BidCallRepeats(r) \/ BidCallFails(r)
    BY <2>1 DEF BidCallRepeats, BidCallFails
  <2>2. CASE BidStep(r)
    BY <2>2 DEF BidStep, ReadAuction, CheckWindow, SeedPrice, TakeUntilEnd, OpenStatus,
       Recheck, TakeRetention, RunScript
  <2>3. QED
    BY <2>1, <2>2
<1>2. (Exists(price) =>
         price.val = StartingPrice \/ \E q \in accepted : Amount[q] = price.val)'
  <2>1. \/ UNCHANGED price
        \/ SetPriceIfAbsent
        \/ price'.val = Amount[r] /\ r \in accepted'
    <3> USE DEF redisVars, ScriptTakes, Remember, SetStatusActive, Key
    <3>1. CASE BidCallRepeats(r) \/ BidCallFails(r)
      BY <3>1 DEF BidCallRepeats, BidCallFails
    <3>2. CASE BidStep(r)
      BY <3>2 DEF BidStep, ReadAuction, CheckWindow, SeedPrice, TakeUntilEnd, OpenStatus,
         Recheck, TakeRetention, RunScript
    <3>3. QED
      BY <3>1, <3>2
  <2>2. QED
    BY <1>1, <2>1 DEF AnswerInv, SetPriceIfAbsent, Exists, Key
<1>3. ASSUME UNCHANGED reply,
             accepted' = accepted \/ faults' = faults + 1,
             \A q \in Requests : pc'[q] = pc[q] \/ pc[q] # "done"
      PROVE  AnswerInv'
  <2>1. TooLowIsJustified'
    BY <1>1, <1>3 DEF AnswerInv, TooLowIsJustified
  <2>2. AnswersMatchEffects'
    BY <1>1, <1>3 DEF AnswerInv, AnswersMatchEffects, TypeOK
  <2>3. QED
    BY <1>2, <1>3, <2>1, <2>2 DEF AnswerInv
<1>4. ASSUME NEW code \in Codes \ {"none", "CREATED"}, NEW current, pc[r] # "done",
             Answer(r, code, current), UNCHANGED accepted,
             code = "BID_TOO_LOW" /\ current # ClosedText =>
               /\ Exists(price) /\ current = price.val
               /\ Amount[r] <= current
      PROVE  AnswerInv'
  <2>1. /\ reply[r] = NoReply
        /\ reply' = [reply EXCEPT ![r] = [code |-> code, current |-> current]]
        /\ pc' = [pc EXCEPT ![r] = "done"]
    BY <1>4 DEF AnswerInv, Answer
  <2>2. TooLowIsJustified'
    BY <1>4, <2>1 DEF AnswerInv, TooLowIsJustified, TypeOK
  <2>3. AnswersMatchEffects'
    BY <1>1, <1>4, <2>1 DEF AnswerInv, AnswersMatchEffects, TypeOK, NoReply
  <2>4. QED
    BY <1>2, <2>1, <2>2, <2>3 DEF AnswerInv, TypeOK
<1>5. CASE BidCallRepeats(r)
  BY <1>3, <1>5 DEF BidCallRepeats, Fault, bidVars
<1>6. CASE BidCallFails(r)
  BY <1>4, <1>6 DEF BidCallFails, history, Codes
<1>7. CASE CheckWindow(r) \/ Recheck(r) \/ ReadAuction(r)
  <2>1. UNCHANGED accepted /\ pc[r] # "done"
    BY <1>7 DEF CheckWindow, Recheck, ReadAuction, history
  <2>2. ASSUME NEW step, Goto(r, step)
        PROVE  AnswerInv'
    BY <1>3, <2>1, <2>2 DEF Goto, TypeOK
  <2>3. ASSUME NEW code \in {"AUCTION_NOT_BIDDABLE", "AUCTION_NOT_FOUND"},
               Answer(r, code, None)
        PROVE  AnswerInv'
    BY <1>4, <2>1, <2>3 DEF Codes
  <2>4. QED
    BY <1>7, <2>2, <2>3 DEF CheckWindow, Recheck, ReadAuction
<1>8. CASE SeedPrice(r) \/ TakeUntilEnd(r) \/ OpenStatus(r) \/ TakeRetention(r)
  BY <1>3, <1>8 DEF SeedPrice, TakeUntilEnd, OpenStatus, TakeRetention, Goto, Take,
     history, TypeOK
<1>9. CASE RunScript(r)
  <2>1. pc[r] = "script" /\ reply[r] = NoReply
    BY <1>9 DEF RunScript, AnswerInv
  <2>2. CASE ScriptFindsClosed /\ Answer(r, "BID_TOO_LOW", ClosedText) /\ UNCHANGED accepted
    BY <1>4, <2>1, <2>2 DEF Codes
  <2>3. CASE ScriptFindsTooLow(r) /\ Answer(r, "BID_TOO_LOW", price.val)
             /\ UNCHANGED accepted
    BY <1>4, <2>1, <2>3 DEF Codes, ScriptFindsTooLow
  <2>4. CASE ScriptTakes(r) /\ Answer(r, "CREATED", Amount[r])
    <3>1. /\ accepted' = accepted \cup {r}
          /\ reply' = [reply EXCEPT ![r] = [code |-> "CREATED", current |-> Amount[r]]]
          /\ pc' = [pc EXCEPT ![r] = "done"]
      BY <2>4 DEF ScriptTakes, Remember, Answer
    <3>2. TooLowIsJustified'
      BY <3>1 DEF AnswerInv, TooLowIsJustified, TypeOK
    <3>3. AnswersMatchEffects'
      BY <1>1, <3>1 DEF AnswerInv, AnswersMatchEffects, TypeOK
    <3>4. QED
      BY <1>2, <3>1, <3>2, <3>3 DEF AnswerInv, TypeOK
  <2>5. QED
    BY <1>9, <2>2, <2>3, <2>4 DEF RunScript, history
<1>10. QED
  BY <1>5, <1>6, <1>7, <1>8, <1>9 DEF BidStep

LEMMA AnswerNext == TypeOK /\ AnswerInv /\ [Next]_vars => AnswerInv'
<1>1. ASSUME AnswerInv, UNCHANGED vars
      PROVE  AnswerInv'
  BY <1>1 DEF AnswerInv, TooLowIsJustified, AnswersMatchEffects, Exists, vars, redisVars,
     bidVars, history
<1>2. QED
  BY <1>1, AnswerBid, AnswerOthers DEF Next

THEOREM AnswersSafe == Spec => []AnswerInv
BY AnswerInit, AnswerNext, TypeCorrect, PTL DEF Spec

\* A refused bidder is told a price that was really reached or asked for.
THEOREM TooLowAlwaysJustified == Spec => []TooLowIsJustified
<1>1. AnswerInv => TooLowIsJustified
  BY DEF AnswerInv
<1>2. QED
  BY <1>1, AnswersSafe, PTL

\* Without faults an answer says whether the bid was taken.
THEOREM AnswersAlwaysMatch == Spec => []AnswersMatchEffects
<1>1. AnswerInv => AnswersMatchEffects
  BY DEF AnswerInv
<1>2. QED
  BY <1>1, AnswersSafe, PTL

-----------------------------------------------------------------------------
(* What the invariants give a bidder. *)

\* A settled auction was won with a bid that was really taken, at its amount and
\* by its bidder, even if Redis lost the keys, let them expire or had them seeded
\* again, and whatever calls failed or were repeated.
THEOREM WinnerAlwaysBid == Spec => []WinnerReallyBid
<1>1. SettlementInv /\ BiddingInv => WinnerReallyBid
  BY DEF SettlementInv, BiddingInv, OutcomeIsBestAtSnapshot, WinnerReallyBid, Best
<1>2. QED
  BY <1>1, SettlementSafe, BiddingSafe, PTL

\* A bid of a set whose best one is the outcome is at most the price.
LEMMA CountedIsOutbid ==
  ASSUME NEW S \in SUBSET Requests, NEW r \in S, NEW p,
         \E q \in Best(S) : p = Amount[q]
  PROVE  Amount[r] <= p
BY BestIsHighest

\* A bid taken in time is at most the price the auction is settled at: it is
\* counted, and the outcome is the best of those that were.
THEOREM TimelyBidsAlwaysLoseOnlyToBetter == Spec => []TimelyBidsLoseOnlyToBetter
<1>1. TypeOK /\ DurableInv /\ OutcomeIsBestAtSnapshot => TimelyBidsLoseOnlyToBetter
  <2> SUFFICES ASSUME TypeOK, DurableInv, OutcomeIsBestAtSnapshot, Durable,
                      row.status \in Terminal, NEW r \in timely
               PROVE  row.status = "SETTLED" /\ Amount[r] <= row.price
    BY DEF TimelyBidsLoseOnlyToBetter
  <2>1. r \in counted /\ counted \in SUBSET Requests
    BY DEF DurableInv, TypeOK
  <2>2. row.status = "SETTLED"
    BY <2>1 DEF OutcomeIsBestAtSnapshot, Terminal
  <2>3. QED
    BY <2>1, <2>2, CountedIsOutbid DEF OutcomeIsBestAtSnapshot
<1> QED BY <1>1, TypeCorrect, NoneGoneWhileDurable, OutcomeAlwaysBest, PTL

\* Without any assumption on Redis: a timely bid that it still stands for when the
\* auction is decided is at most the price of the settlement.
THEOREM BidsLostByRedisOnly == Spec => OnlyRedisLosesBids
<1> DEFINE Kept == row.status = "ACTIVE" /\ row'.status \in Terminal =>
                     \A r \in timely \ gone :
                       row'.status = "SETTLED" /\ Amount[r] <= row'.price
<1>1. TypeOK /\ SettlementInv /\ BiddingInv /\ [Next]_vars => [Kept]_vars
  <2> SUFFICES ASSUME TypeOK, SettlementInv, BiddingInv, Next, row.status = "ACTIVE",
                      row'.status \in Terminal, NEW r \in timely \ gone
               PROVE  row'.status = "SETTLED" /\ Amount[r] <= row'.price
    OBVIOUS
  <2>1. PICK w \in Workers : Commit(w)
    <3>1. Tick \/ LoseRedis => row' = row
      BY DEF Tick, LoseRedis, pgVars
    <3>2. OperatorOpens => row'.status = "ACTIVE"
      BY DEF OperatorOpens, TypeOK
    <3>3. ASSUME NEW s \in {"DRAFT", "ACTIVE"}, CreateAuction(s)
          PROVE  FALSE
      BY <3>3 DEF CreateAuction
    <3>4. ASSUME NEW q \in Requests, BidStep(q) \/ BidCallRepeats(q) \/ BidCallFails(q)
          PROVE  row' = row
      BY <3>4, BidFrame DEF pgVars
    <3>5. ASSUME NEW w \in Workers, ~Commit(w),
                 SettleStep(w) \/ SettleCallRepeats(w) \/ SettleAborts(w)
          PROVE  row' = row
      BY <3>5 DEF SettleStep, SettleCallRepeats, SettleAborts, Scan, Snapshot, LockRow,
         Rollback, TakeStatusTTL, CacheStatus, Publish, Cleanup, pgVars
    <3>6. QED
      BY <3>1, <3>2, <3>3, <3>4, <3>5 DEF Next, Terminal
  <2>2. r \in snap[w].seen /\ snap[w].seen \in SUBSET Requests
    BY <2>1 DEF Commit, SettlementInv, Terminal, TypeOK, Snapshots
  <2>3. counted' = snap[w].seen /\ OutcomeIsBestAtSnapshot'
    BY <2>1, CommitIsBest DEF Commit
  <2>4. row'.status = "SETTLED"
    BY <2>2, <2>3 DEF OutcomeIsBestAtSnapshot, Terminal
  <2>5. \E q \in Best(snap[w].seen) : row'.price = Amount[q]
    BY <2>3, <2>4 DEF OutcomeIsBestAtSnapshot, Best
  <2>6. QED
    BY <2>2, <2>4, <2>5, CountedIsOutbid
<1> QED BY <1>1, TypeCorrect, SettlementSafe, BiddingSafe, PTL DEF Spec, OnlyRedisLosesBids

\* While the auction is active nothing the backend does lowers the price or
\* removes it: the clean-up of a worker comes after the commit, the seed finds
\* the price there, and the script only raises it.
THEOREM PriceAlwaysRises == Spec => PriceOnlyRises
<1> DEFINE Rise == row.status = "ACTIVE" /\ Exists(price) =>
                     \/ Exists(price') /\ price.val <= price'.val
                     \/ price' = NoKey /\ (now' # now \/ losses' # losses)
<1>1. TypeOK /\ SettlementInv /\ [Next]_vars => [Rise]_vars
  <2> SUFFICES ASSUME TypeOK, SettlementInv, Next, row.status = "ACTIVE", Exists(price)
               PROVE  \/ Exists(price') /\ price.val <= price'.val
                      \/ price' = NoKey /\ (now' # now \/ losses' # losses)
    BY DEF Rise
  <2>1. price.val \in Nat /\ now \in Nat /\ losses \in Nat
    BY DEF TypeOK, Exists, Keys
  <2>2. ASSUME price' = price PROVE Exists(price') /\ price.val <= price'.val
    BY <2>1, <2>2
  <2>3. CASE Tick \/ LoseRedis
    BY <2>1, <2>2, <2>3 DEF Tick, LoseRedis, At
  <2>4. CASE OperatorOpens \/ \E s \in {"DRAFT", "ACTIVE"} : CreateAuction(s)
    BY <2>2, <2>4 DEF OperatorOpens, CreateAuction, redisVars
  <2>5. ASSUME NEW r \in Requests, BidStep(r) \/ BidCallRepeats(r) \/ BidCallFails(r)
        PROVE  Exists(price') /\ price.val <= price'.val
    <3>1. price' = price \/ ScriptTakes(r)
      BY <2>5 DEF BidStep, BidCallRepeats, BidCallFails, ReadAuction, CheckWindow,
         SeedPrice, TakeUntilEnd, OpenStatus, Recheck, TakeRetention, RunScript,
         SetPriceIfAbsent, SetStatusActive, redisVars
    <3>2. CASE ScriptTakes(r)
      <4>1. Amount[r] \in Nat /\ Amount[r] # None /\ Amount[r] > price.val
        BY <3>2, ActorsAssumption DEF ScriptTakes
      <4>2. price'.val = Amount[r]
        BY <3>2 DEF ScriptTakes, Key
      <4> QED BY <2>1, <4>1, <4>2 DEF Exists
    <3> QED BY <2>2, <3>1, <3>2
  <2>6. ASSUME NEW w \in Workers, SettleStep(w) \/ SettleCallRepeats(w) \/ SettleAborts(w)
        PROVE  Exists(price') /\ price.val <= price'.val
    <3>1. ~Finishing(w)
      BY DEF SettlementInv, Final
    <3>2. price' = price
      BY <2>6, <3>1 DEF SettleStep, SettleCallRepeats, SettleAborts, Scan, Snapshot,
         LockRow, Commit, Rollback, TakeStatusTTL, CacheStatus, Publish, Cleanup, SetFinalStatus,
         PublishSettlement, Finishing, redisVars
    <3> QED BY <2>2, <3>2
  <2> QED BY <2>3, <2>4, <2>5, <2>6 DEF Next
<1> QED BY <1>1, TypeCorrect, SettlementSafe, PTL DEF Spec, PriceOnlyRises
=============================================================================
