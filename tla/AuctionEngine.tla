---------------------------- MODULE AuctionEngine ----------------------------
(***************************************************************************)
(* One auction of the Synora backend, from its creation to the clean-up    *)
(* after its settlement: the PostgreSQL row and the ledger's winning rows, *)
(* the three Redis keys of the auction, the concurrent runs of the bid     *)
(* handler (App.bid and its Lua script) and of the settlement worker       *)
(* (Worker.settle), in as many processes as Requests and Workers name.     *)
(*                                                                         *)
(* A handler and a worker are sequences of calls to Redis and PostgreSQL,  *)
(* and everything else may happen between two calls: one action is one     *)
(* call, or one reading of the Go process's clock.  Two clocks exist:      *)
(* "now" is that of the host of Redis and PostgreSQL, Clock(p) the clock   *)
(* of the Go process that runs p.  Amounts are natural numbers (cents).    *)
(***************************************************************************)
EXTENDS Integers, FiniteSets

CONSTANTS Requests,      \* the POST /api/v1/bids calls whose token is valid
          Workers,       \* the settlement workers, one per Go process
          Users,
          Bidder,        \* Bidder[r]: the user of r's token
          Amount,        \* Amount[r]: what r bids; the handler accepts 0.00
          Skew,          \* Skew[p]: clock of p's process minus the host's
          StartingPrice,
          OpeningPrice,  \* the current_high_price an operator gives the row
          Start, End,    \* start_time and end_time of the auction
          Retention,     \* the 24 h for which price, leader and status are kept
          Linger,        \* the 1 h for which a very late settlement's status is
          MaxTime,       \* bound on the clock
          MaxFaults,     \* bound on failed calls, lost replies and crashes
          MaxLosses,     \* bound on restarts of Redis that lose its data
          None

Never == -1        \* the expiry of a key without one
ClosedText == -1   \* the string "CLOSED" that stands where a price does in a reply

ASSUME ActorsAssumption ==
  /\ Bidder \in [Requests -> Users]
  /\ Amount \in [Requests -> Nat]
  /\ Skew \in [Requests \cup Workers -> Int]
  /\ None \notin Int \cup Users \cup Workers
  /\ None \notin {"ACTIVE", "CLOSED", "SETTLED"}

ASSUME PriceAssumption ==
  /\ StartingPrice \in Nat \ {0}
  /\ OpeningPrice \in Nat
  /\ OpeningPrice >= StartingPrice

ASSUME TimeAssumption ==
  /\ {Start, End, Retention, Linger, MaxTime, MaxFaults, MaxLosses} \subseteq Nat
  /\ Start < End
  /\ Linger > 0

VARIABLES
  now,        \* the clock of the host of Redis and PostgreSQL
  row,        \* the auctions row
  ledger,     \* the winning rows of bids
  lock,       \* the worker whose transaction holds the row, or None
  price, leader, cached,   \* the keys auction:{id}:price, :leader and :status
  gone,       \* history: the bids taken that the first two no longer stand for
  pc, ttl,    \* each request's next call, and the TTL it has computed
  reply,      \* each request's answer
  wpc, snap,  \* each worker's next call; what its MGET returned, and a TTL
  announced,  \* how many SETTLEMENT events have been published
  faults, losses,
  accepted,   \* history: the requests whose bid the script has taken
  timely,     \* history: those it took (last) before end_time, up to the decision
  counted     \* history: those the MGET that decided the auction stood for

pgVars == <<row, ledger, lock>>
redisVars == <<price, leader, cached, gone>>
bidVars == <<pc, ttl, reply>>
workerVars == <<wpc, snap, announced>>
history == <<accepted, timely>>
vars == <<now, pgVars, redisVars, bidVars, workerVars, faults, losses, history,
          counted>>

Terminal == {"CLOSED", "SETTLED"}
Statuses == {"ABSENT", "DRAFT", "ACTIVE"} \cup Terminal
BidSteps == {"read", "window", "seed", "until", "open", "recheck", "retain",
             "script", "done"}
SettleSteps == {"idle", "mget", "lock", "tx", "retain", "cache", "publish", "del"}
Codes == {"none", "CREATED", "BID_TOO_LOW", "AUCTION_NOT_BIDDABLE",
          "AUCTION_NOT_FOUND", "TEMPORARILY_UNAVAILABLE"}

(***************************************************************************)
(* Redis keys.  A key whose expiry has passed does not exist: Redis keeps  *)
(* it through the instant of its expiry and no longer.                     *)
(***************************************************************************)
Key(v, x) == [val |-> v, exp |-> x]
NoKey == Key(None, Never)
Exists(k) == k.val # None
At(k, t) == IF k.exp # Never /\ k.exp < t THEN NoKey ELSE k

\* go-redis sends no expiry at all for a duration that is not positive.
ExpiryOf(d) == IF d > 0 THEN now + d ELSE Never

\* The leader is what stands for the bids taken: without it they are gone.
Forgotten == gone' = IF Exists(leader') THEN gone ELSE accepted

Clock(p) == now + Skew[p]
InWindow(r) == Start <= Clock(r) /\ Clock(r) <= End

NoSnap == [price |-> None, leader |-> None, seen |-> {}, ttl |-> 0]
NoReply == [code |-> "none", current |-> None]

Init ==
  /\ now = 0
  /\ row = [status |-> "ABSENT", price |-> None, winner |-> None]
  /\ ledger = {}
  /\ lock = None
  /\ price = NoKey /\ leader = NoKey /\ cached = NoKey /\ gone = {}
  /\ pc = [r \in Requests |-> "read"]
  /\ ttl = [r \in Requests |-> 0]
  /\ reply = [r \in Requests |-> NoReply]
  /\ wpc = [w \in Workers |-> "idle"]
  /\ snap = [w \in Workers |-> NoSnap]
  /\ announced = 0
  /\ faults = 0 /\ losses = 0
  /\ accepted = {} /\ timely = {} /\ counted = {}

-----------------------------------------------------------------------------
(* The environment. *)

Fault == faults < MaxFaults /\ faults' = faults + 1

Tick ==
  /\ now < MaxTime
  /\ now' = now + 1
  /\ price' = At(price, now') /\ leader' = At(leader, now')
  /\ cached' = At(cached, now')
  /\ Forgotten
  /\ UNCHANGED <<pgVars, bidVars, workerVars, faults, losses, history, counted>>

\* POST /api/v1/auctions: the row has no current_high_price.
CreateAuction(s) ==
  /\ row.status = "ABSENT"
  /\ row' = [row EXCEPT !.status = s]
  /\ UNCHANGED <<now, ledger, lock, redisVars, bidVars, workerVars, faults,
                 losses, history, counted>>

\* An operator's SQL: nothing in the backend activates a draft or gives an
\* active row the current_high_price that the bid handler insists on.
OperatorOpens ==
  /\ row.status \in {"DRAFT", "ACTIVE"} /\ row.price = None
  /\ lock = None
  /\ row' = [row EXCEPT !.status = "ACTIVE", !.price = OpeningPrice]
  /\ UNCHANGED <<now, ledger, lock, redisVars, bidVars, workerVars, faults,
                 losses, history, counted>>

\* Redis restarts without its data: docker-compose gives it no volume.
LoseRedis ==
  /\ losses < MaxLosses
  /\ losses' = losses + 1
  /\ price' = NoKey /\ leader' = NoKey /\ cached' = NoKey
  /\ Forgotten
  /\ UNCHANGED <<now, pgVars, bidVars, workerVars, faults, history, counted>>

-----------------------------------------------------------------------------
(* The bid handler. *)

Goto(r, step) ==
  /\ pc' = [pc EXCEPT ![r] = step]
  /\ UNCHANGED <<ttl, reply>>

Take(r, d, step) ==
  /\ ttl' = [ttl EXCEPT ![r] = d]
  /\ pc' = [pc EXCEPT ![r] = step]
  /\ UNCHANGED reply

Answer(r, code, current) ==
  /\ reply' = [reply EXCEPT ![r] = [code |-> code, current |-> current]]
  /\ pc' = [pc EXCEPT ![r] = "done"]
  /\ ttl' = [ttl EXCEPT ![r] = 0]

Elsewhere == UNCHANGED <<now, pgVars, workerVars, losses, counted>>

\* The SELECT.  A NULL current_high_price does not scan into a string, and
\* every error but "no rows" is answered like an auction that is closed.
ReadAuction(r) ==
  /\ pc[r] = "read"
  /\ \/ row.status = "ABSENT" /\ Answer(r, "AUCTION_NOT_FOUND", None)
     \/ /\ row.status \in {"DRAFT", "ACTIVE"} \cup Terminal
        /\ row.status # "ACTIVE" \/ row.price = None
        /\ Answer(r, "AUCTION_NOT_BIDDABLE", None)
     \/ /\ row.status = "ACTIVE" /\ row.price # None
        /\ Goto(r, "window")
  /\ Elsewhere /\ UNCHANGED <<redisVars, faults, history>>

CheckWindow(r) ==
  /\ pc[r] = "window"
  /\ \/ InWindow(r) /\ Goto(r, "seed")
     \/ ~InWindow(r) /\ Answer(r, "AUCTION_NOT_BIDDABLE", None)
  /\ Elsewhere /\ UNCHANGED <<redisVars, faults, history>>

\* Mutant of SetPriceIfAbsent: SET in the place of SETNX.
SetPriceAlways ==
  /\ price' = Key(StartingPrice, Never)
  /\ UNCHANGED <<leader, cached, gone>>

\* SETNX price, with no expiry.
SetPriceIfAbsent ==
  /\ price' = IF Exists(price) THEN price ELSE Key(StartingPrice, Never)
  /\ UNCHANGED <<leader, cached, gone>>

SeedPrice(r) ==
  /\ pc[r] = "seed"
  /\ SetPriceIfAbsent
  /\ Goto(r, "until")
  /\ Elsewhere /\ UNCHANGED <<faults, history>>

\* time.Until(end), evaluated before the SET it is an argument of.
TakeUntilEnd(r) ==
  /\ pc[r] = "until"
  /\ Take(r, End - Clock(r), "open")
  /\ Elsewhere /\ UNCHANGED <<redisVars, faults, history>>

SetStatusActive(r) ==
  /\ cached' = Key("ACTIVE", ExpiryOf(ttl[r]))
  /\ UNCHANGED <<price, leader, gone>>

OpenStatus(r) ==
  /\ pc[r] = "open"
  /\ SetStatusActive(r)
  /\ Goto(r, "recheck")
  /\ Elsewhere /\ UNCHANGED <<faults, history>>

Recheck(r) ==
  /\ pc[r] = "recheck"
  /\ \/ InWindow(r) /\ Goto(r, "retain")
     \/ ~InWindow(r) /\ Answer(r, "AUCTION_NOT_BIDDABLE", None)
  /\ Elsewhere /\ UNCHANGED <<redisVars, faults, history>>

\* Mutant of TakeRetention: the pair is kept until end_time only.
TakeRetentionUntilEnd(r) ==
  /\ pc[r] = "retain"
  /\ LET left == End - Clock(r)
     IN  Take(r, IF left <= 0 THEN 1 ELSE left, "script")
  /\ Elsewhere /\ UNCHANGED <<redisVars, faults, history>>

TakeRetention(r) ==
  /\ pc[r] = "retain"
  /\ LET left == End + Retention - Clock(r)
     IN  Take(r, IF left <= 0 THEN 1 ELSE left, "script")
  /\ Elsewhere /\ UNCHANGED <<redisVars, faults, history>>

\* The Lua script, which Redis runs as one step: three outcomes.
ScriptFindsClosed == cached.val # "ACTIVE"

\* Mutant of ScriptFindsTooLow: a minimum increment that nothing asks for.
ScriptWantsMore(r) ==
  cached.val = "ACTIVE" /\ Exists(price) /\ Amount[r] <= price.val + 1

ScriptFindsTooLow(r) ==
  cached.val = "ACTIVE" /\ Exists(price) /\ Amount[r] <= price.val

\* A call that is repeated may take a bid again that is gone.
Remember(r) ==
  /\ accepted' = accepted \cup {r} /\ gone' = gone \ {r}
  /\ timely' = CASE now < End -> timely \cup {r}
                 [] End <= now /\ row.status \notin Terminal -> timely \ {r}
                 [] OTHER -> timely

\* Mutants of ScriptTakes: no comparison; no EX on the second SET.
ScriptTakesAnything(r) ==
  /\ cached.val = "ACTIVE"
  /\ price' = Key(Amount[r], ExpiryOf(ttl[r]))
  /\ leader' = Key(Bidder[r], ExpiryOf(ttl[r]))
  /\ UNCHANGED cached
  /\ Remember(r)

ScriptForgetsExpiry(r) ==
  /\ cached.val = "ACTIVE"
  /\ Exists(price) => Amount[r] > price.val
  /\ price' = Key(Amount[r], ExpiryOf(ttl[r]))
  /\ leader' = Key(Bidder[r], Never)
  /\ UNCHANGED cached
  /\ Remember(r)

ScriptTakes(r) ==
  /\ cached.val = "ACTIVE"
  /\ Exists(price) => Amount[r] > price.val
  /\ price' = Key(Amount[r], ExpiryOf(ttl[r]))
  /\ leader' = Key(Bidder[r], ExpiryOf(ttl[r]))
  /\ UNCHANGED cached
  /\ Remember(r)

\* Mutant of RunScript: evalBid returns n # 0, so that -1 counts as taken.
RunScriptTrustingAnything(r) ==
  /\ pc[r] = "script"
  /\ \/ /\ ScriptFindsClosed
        /\ Answer(r, "CREATED", Amount[r])
        /\ UNCHANGED <<redisVars, history>>
     \/ /\ ScriptFindsTooLow(r)
        /\ Answer(r, "BID_TOO_LOW", price.val)
        /\ UNCHANGED <<redisVars, history>>
     \/ /\ ScriptTakes(r)
        /\ Answer(r, "CREATED", Amount[r])
  /\ Elsewhere /\ UNCHANGED faults

RunScript(r) ==
  /\ pc[r] = "script"
  /\ \/ /\ ScriptFindsClosed
        /\ Answer(r, "BID_TOO_LOW", ClosedText)
        /\ UNCHANGED <<redisVars, history>>
     \/ /\ ScriptFindsTooLow(r)
        /\ Answer(r, "BID_TOO_LOW", price.val)
        /\ UNCHANGED <<redisVars, history>>
     \/ /\ ScriptTakes(r)
        /\ Answer(r, "CREATED", Amount[r])
  /\ Elsewhere /\ UNCHANGED faults

\* A Redis call that took effect and whose reply was lost: go-redis sends the
\* command again, so the handler has not moved.
BidCallRepeats(r) ==
  /\ Fault
  /\ \/ pc[r] = "seed" /\ SetPriceIfAbsent /\ UNCHANGED history
     \/ pc[r] = "open" /\ SetStatusActive(r) /\ UNCHANGED history
     \/ pc[r] = "script" /\ ScriptTakes(r)
  /\ Elsewhere /\ UNCHANGED bidVars

\* A call that fails for good.  An error of the SELECT is answered 400.
BidCallFails(r) ==
  /\ Fault
  /\ \/ pc[r] = "read" /\ Answer(r, "AUCTION_NOT_BIDDABLE", None)
     \/ /\ pc[r] \in {"seed", "open", "script"}
        /\ Answer(r, "TEMPORARILY_UNAVAILABLE", None)
  /\ Elsewhere /\ UNCHANGED <<redisVars, history>>

BidStep(r) ==
  \/ ReadAuction(r) \/ CheckWindow(r) \/ SeedPrice(r) \/ TakeUntilEnd(r)
  \/ OpenStatus(r) \/ Recheck(r) \/ TakeRetention(r) \/ RunScript(r)

-----------------------------------------------------------------------------
(* The settlement worker. *)

Outside == UNCHANGED <<now, bidVars, losses, history>>

ToStep(w, step) ==
  /\ wpc' = [wpc EXCEPT ![w] = step]
  /\ UNCHANGED snap

Return(w) ==
  /\ wpc' = [wpc EXCEPT ![w] = "idle"]
  /\ snap' = [snap EXCEPT ![w] = NoSnap]

\* Mutant of Scan: end_time is not compared with the clock.
ScanAnyActive(w) ==
  /\ wpc[w] = "idle"
  /\ row.status = "ACTIVE"
  /\ ToStep(w, "mget")
  /\ Outside /\ UNCHANGED <<pgVars, redisVars, announced, faults, counted>>

\* The scan's SELECT, with PostgreSQL's clock, yields the auction.
Scan(w) ==
  /\ wpc[w] = "idle"
  /\ row.status = "ACTIVE" /\ End <= now
  /\ ToStep(w, "mget")
  /\ Outside /\ UNCHANGED <<pgVars, redisVars, announced, faults, counted>>

\* MGET price leader.  "seen" is history: the bids that this pair stands for,
\* none if there is no leader.
Snapshot(w) ==
  /\ wpc[w] = "mget"
  /\ snap' = [snap EXCEPT ![w] = [price |-> price.val, leader |-> leader.val,
                                  seen |-> accepted \ gone, ttl |-> 0]]
  /\ wpc' = [wpc EXCEPT ![w] = "lock"]
  /\ Outside /\ UNCHANGED <<pgVars, redisVars, announced, faults, counted>>

\* Mutants of LockRow: no check of the status; no FOR UPDATE.
LockAnyRow(w) ==
  /\ wpc[w] = "lock"
  /\ lock = None
  /\ lock' = w /\ ToStep(w, "tx")
  /\ Outside /\ UNCHANGED <<row, ledger, redisVars, announced, faults, counted>>

ReadRowWithoutLock(w) ==
  /\ wpc[w] = "lock"
  /\ \/ row.status = "ACTIVE" /\ lock' = w /\ ToStep(w, "tx")
     \/ row.status # "ACTIVE" /\ UNCHANGED lock /\ Return(w)
  /\ Outside /\ UNCHANGED <<row, ledger, redisVars, announced, faults, counted>>

\* BEGIN; SELECT ... FOR UPDATE waits for the row's lock and reads the row.
LockRow(w) ==
  /\ wpc[w] = "lock"
  /\ lock = None
  /\ \/ row.status = "ACTIVE" /\ lock' = w /\ ToStep(w, "tx")
     \/ row.status # "ACTIVE" /\ UNCHANGED lock /\ Return(w)
  /\ Outside /\ UNCHANGED <<row, ledger, redisVars, announced, faults, counted>>

\* Mutant of HasWinner: the leader is not looked at.
HasPrice(s) == s.price # None

HasWinner(s) == s.price # None /\ s.leader # None
Final(s) == IF HasWinner(s) THEN "SETTLED" ELSE "CLOSED"

\* What makes the transaction fail: a leader without a price, or a price under
\* the starting price, which the CHECK on current_high_price rejects.
Rejected(s) ==
  \/ s.price = None /\ s.leader # None
  \/ HasWinner(s) /\ s.price < StartingPrice

Commit(w) ==
  LET s == snap[w] IN
  /\ wpc[w] = "tx"
  /\ ~Rejected(s)
  /\ row' = IF HasWinner(s)
            THEN [status |-> "SETTLED", price |-> s.price, winner |-> s.leader]
            ELSE [row EXCEPT !.status = "CLOSED"]
  /\ ledger' = IF HasWinner(s) /\ ledger = {}
               THEN {[user |-> s.leader, amount |-> s.price]} ELSE ledger
  /\ counted' = s.seen
  /\ lock' = None
  /\ ToStep(w, "retain")
  /\ Outside /\ UNCHANGED <<redisVars, announced, faults>>

Rollback(w) ==
  /\ wpc[w] = "tx"
  /\ Rejected(snap[w])
  /\ lock' = None
  /\ Return(w)
  /\ Outside /\ UNCHANGED <<row, ledger, redisVars, announced, faults, counted>>

\* Mutant of SetFinalStatus: finalStatus is not set to CLOSED first.
SetSettledAlways(w) ==
  /\ cached' = Key("SETTLED", ExpiryOf(snap[w].ttl))
  /\ UNCHANGED <<price, leader, gone, announced>>

SetFinalStatus(w) ==
  /\ cached' = Key(Final(snap[w]), ExpiryOf(snap[w].ttl))
  /\ UNCHANGED <<price, leader, gone, announced>>

PublishSettlement == announced' = announced + 1 /\ UNCHANGED redisVars

DeletePair ==
  /\ price' = NoKey /\ leader' = NoKey
  /\ Forgotten
  /\ UNCHANGED <<cached, announced>>

\* time.Until(end + 24 h), or an hour if that is over, computed before the SET.
TakeStatusTTL(w) ==
  /\ wpc[w] = "retain"
  /\ LET left == End + Retention - Clock(w)
     IN  snap' = [snap EXCEPT ![w].ttl = IF left <= 0 THEN Linger ELSE left]
  /\ wpc' = [wpc EXCEPT ![w] = "cache"]
  /\ Outside /\ UNCHANGED <<pgVars, redisVars, announced, faults, counted>>

CacheStatus(w) ==
  /\ wpc[w] = "cache"
  /\ SetFinalStatus(w)
  /\ ToStep(w, "publish")
  /\ Outside /\ UNCHANGED <<pgVars, faults, counted>>

Publish(w) ==
  /\ wpc[w] = "publish"
  /\ PublishSettlement
  /\ ToStep(w, "del")
  /\ Outside /\ UNCHANGED <<pgVars, faults, counted>>

Cleanup(w) ==
  /\ wpc[w] = "del"
  /\ DeletePair
  /\ Return(w)
  /\ Outside /\ UNCHANGED <<pgVars, faults, counted>>

SettleCallRepeats(w) ==
  /\ Fault
  /\ \/ wpc[w] = "cache" /\ SetFinalStatus(w)
     \/ wpc[w] = "publish" /\ PublishSettlement
     \/ wpc[w] = "del" /\ DeletePair
  /\ Outside /\ UNCHANGED <<pgVars, wpc, snap, counted>>

\* Mutant of SettleAborts: the transaction is left open.
SettleAbortsInTransaction(w) ==
  /\ Fault
  /\ wpc[w] # "idle"
  /\ Return(w)
  /\ Outside /\ UNCHANGED <<row, ledger, lock, redisVars, announced, counted>>

\* A call that fails, the shutdown of the process or its crash: settle returns
\* and PostgreSQL rolls its open transaction back.
SettleAborts(w) ==
  /\ Fault
  /\ wpc[w] # "idle"
  /\ lock' = IF lock = w THEN None ELSE lock
  /\ Return(w)
  /\ Outside /\ UNCHANGED <<row, ledger, redisVars, announced, counted>>

SettleStep(w) ==
  \/ Scan(w) \/ Snapshot(w) \/ LockRow(w) \/ Commit(w) \/ Rollback(w)
  \/ TakeStatusTTL(w) \/ CacheStatus(w) \/ Publish(w) \/ Cleanup(w)

-----------------------------------------------------------------------------
Next ==
  \/ Tick \/ OperatorOpens \/ LoseRedis
  \/ \E s \in {"DRAFT", "ACTIVE"} : CreateAuction(s)
  \/ \E r \in Requests : BidStep(r) \/ BidCallRepeats(r) \/ BidCallFails(r)
  \/ \E w \in Workers : SettleStep(w) \/ SettleCallRepeats(w) \/ SettleAborts(w)

Spec == Init /\ [][Next]_vars

\* Time passes, the ticker of every worker keeps firing and a handler that has
\* started goes on: the faults that stop them are bounded.
Fairness ==
  /\ WF_vars(Tick)
  /\ \A w \in Workers : WF_vars(SettleStep(w))
  /\ \A r \in Requests : WF_vars(BidStep(r))

FairSpec == Spec /\ Fairness
=============================================================================
