# Synora: a verification project

TLA+ specifications of the Synora live-auction system: the backend (`src/backend`,
with the schema in `src/database`) and the client (`src/frontend/src`), checked with
TLC on small instances and, for the properties that matter most, proved with TLAPS for
every value of the constants.
`handlers.go`, `worker.go` and `hub.go` below are
`src/backend/internal/handlers/handlers.go`, `.../settlement/worker.go` and
`.../websocket/hub.go`.

## 1. Inventory

| Part | State it keeps | Operations | Talks to |
| --- | --- | --- | --- |
| Bid handler and Lua script (`handlers.go` 617-694) | none of its own; the Redis keys `auction:{id}:price`, `:leader`, `:status` | `POST /bids`: SELECT, clock, SETNX price, SET status, clock, EVAL | PostgreSQL, Redis, PUBLISH to the hub |
| Settlement worker (`worker.go`) | none of its own; the `auctions` row and the winning row of `bids` | every second: scan expired auctions; MGET, transaction with `FOR UPDATE`, SET status, PUBLISH, DEL | PostgreSQL, Redis, PUBLISH to the hub |
| Auction creation (`handlers.go` 470-494) | the `auctions` row | `POST /auctions` | PostgreSQL |
| WebSocket hub (`hub.go`) | per connection: socket, context, channel of 32 places, three goroutines | authenticate, greet, subscribe, write, read | Redis Pub/Sub, PostgreSQL (user exists) |
| Rate limiter (`handlers.go` 38-67, 110-144) | per host: start of the window and count, in two limiters | `Allow`, before every handler | the Go clock |
| Auction list (`handlers.go` 495-589) | none (keyset cursor in the URL) | `GET /auctions` | PostgreSQL |
| Auction read (`handlers.go` 590-613) | none | `GET /auctions/{id}`: row, then price key | PostgreSQL, Redis |
| Sign-in (`handlers.go` 185-431), JWT (69-97) | `users` | password + Turnstile, Google | PostgreSQL, Cloudflare, Google |
| Server, config, pools (`main.go`, `config.go`, `db.go`, `redis.go`) | configuration | start, shutdown | all |
| Session and API client (`api.js`) | token in the module's memory and in `sessionStorage` | `restoreSession`, `persistSession`, `login`, `getAuction`, `placeBid`, `connectAuctionStream` | REST, WebSocket |
| Terminal and payment dialogue (`AuctionTerminal.jsx`, `PaymentModal.jsx`) | shown price, deadline, closed, dialogue; the effect's GET and socket | mount, another lot in the URL, bid, countdown, pay | `api.js` |
| Password form and lockout (`AuthScreen.jsx`) | failed attempts, end of the lockout, captcha token; the first two in `localStorage` too | sign in, count, lock, lift, redirect | `api.js`, other tabs through `localStorage` |
| Captcha and Google button (`AuthScreen.jsx`) | script tags, the widget, its token, spinners | load a script, render, remove, call back | Cloudflare's and Google's scripts |
| Asset list, routes, layout (`AssetList.jsx`, `main.jsx`, `Layout.jsx`) | the page, the list and its spinner | links, back, reload, load the list | `api.js` |
| Schema (`src/database/schema.sql`) | constraints and unique indexes | - | - |

What is hard here: a bid is five calls to two stores with two readings of the
clock between them and no transaction around them; any number of such handlers
run beside one settlement worker per process; keys expire; a call may fail, or
succeed and lose its reply, in which case go-redis sends it again; a process may
stop between any two calls; Redis may come back empty.  In the hub three
goroutines of a connection and Redis share a channel that is closed at the end.
In the client every answer arrives in a component that may since have been given
another lot, left, mounted again, or reloaded; handlers go on with the values of the
render they were made in; tabs share `localStorage` without a lock; timers fire late.
`PROJECT.json` lists each hazard at its line.

What makes each part correct:

* engine: the leader is always the highest bid; one worker decides an auction,
  once, for the best bid of what it read; row, ledger, cached status and
  announcement agree; a bid in time is lost by Redis only; an answer says what
  happened.
* hub: the server never panics on a closed channel; a client sees updates in
  order; nothing is lost but what is dropped for want of a place, or published
  before the subscription; what is on its way arrives.
* limiter: what a fixed window bounds in *any* minute; Retry-After is honest.
* terminal: the price shown is one this lot has had since the user came, whichever of
  row and Redis a GET was answered from; payment is asked for at the lot's end.
* sign-in screen: a bound on wrong passwords that neither tabs nor reloads nor late
  timers break; a lockout that ends; captcha tokens that are sent once; one captcha.
* session and routes: a session the user was told of survives to its end.
* list on the server (not modelled): pages neither repeat nor skip what stays in the
  list.

## 2. Modules

| Module | Models or states |
| --- | --- |
| `AuctionEngine` | one auction: row, winning ledger rows, three Redis keys with expiry, concurrent bid handlers, scripts and workers, faults, Redis losing its data |
| `AuctionPromises` | its properties, the refinement mapping, the inductive invariants, and two statements of the documentation that it refutes |
| `AscendingAuction` | the abstract auction: take a higher bid, finish, decide once |
| `AuctionEngineProofs`, `AuctionRefinementProofs` | theorems |
| `RateLimiter`, `RateLimiterProofs` | both limiters of the middleware; theorems |
| `Hub`, `HubProofs` | the connections of the WebSocket hub; theorems |
| `UpdateStream` | the abstract stream: greet, join, deliver the next update that is not lost, lose one only to a reader that is behind |
| `Terminal`, `TerminalProofs` | a terminal with its GET (and the server's two reads for it), stream, bids and payment dialogue; theorems |
| `SignIn`, `SignInProofs` | the password form and its lockout, on several screens that share `localStorage`; theorems |
| `Widgets`, `WidgetsProofs` | captcha and Google button while the screen comes and goes; theorems |
| `Browsing`, `BrowsingProofs` | one tab: routes, session, redirects, the list; theorems |
| `MCAuctionEngine`, `MCRateLimiter`, `MCHub`, `MCTerminal` | the values TLC runs use |

`AuctionPromises` maps `AuctionEngine` to `AscendingAuction`, `Hub` its connections to
`UpdateStream`.  The client's
modules stand apart: what each shares with the others is a parameter of it (a token
may be there or not, an answer may be any that the server gives), so that a property
holds whatever the others do.

### AuctionEngine and the code

One action is one call to Redis or PostgreSQL, or one reading of the Go clock;
everything else may happen in between.  `pc[r]` is the next call of the handler
that serves request r:

| `pc` | Action | Code |
| --- | --- | --- |
| `read` | `ReadAuction` | SELECT, `handlers.go:635`; a NULL `current_high_price` does not scan into a string |
| `window` | `CheckWindow` | 637 |
| `seed` | `SeedPrice` | SETNX price, no expiry, 641 |
| `until`, `open` | `TakeUntilEnd`, `OpenStatus` | `time.Until(end)` and then SET status, 645; two steps, because the call may be delayed after its argument was computed |
| `recheck` | `Recheck` | 654 |
| `retain` | `TakeRetention` | TTL, 660-663 |
| `script` | `RunScript` | EVAL, 680: closed, too low or taken |

`wpc[w]` is the next step of worker w: `idle` (`Scan`, `worker.go:39`), `mget`
(`Snapshot`, 59), `lock` (`LockRow`, 71-85), `tx` (`Commit` or `Rollback`,
86-113), `retain` and `cache` (the time left, 114-117, and then the SET, 118),
`publish`, `del` (121-125).  `SettleAborts` is any error
return, the shutdown and the crash of the process; the transaction is rolled
back.  `BidCallFails` is an error return of the handler; `BidCallRepeats` and
`SettleCallRepeats` are a call that took effect and is sent again.  A Go process
has its own clock (`Skew`); PostgreSQL and Redis share `now`.  Keys carry an
absolute expiry; `Tick` removes those that are over.  `accepted`, `timely`, `gone` and
`counted` are history: the bids taken; those taken before the end; those that Redis no
longer stands for, since the leader expired, was lost or was deleted; and those that the
deciding worker's MGET found, `accepted \ gone` at that moment (`snap[w].seen`).
`OperatorOpens` is not in
the repository: the bid handler refuses a row without `current_high_price` and
nothing in the backend ever writes one before the settlement, so somebody has to.

Left out: token, JSON and amount syntax (preconditions of a request), the titles
and texts of an auction, several auctions at once (no state is shared between
them but the rows of one scan), `CANCELLED` (nothing writes it).

### RateLimiter and the code

`Allow` runs under the limiter's mutex, reading of the clock included, so a
request is one step.  `entry[<<l, h>>]` is `l.m[h]`; `n = 0` stands for a host
without an entry.  `granted` and `opened` are history.

### Hub and the code

`phase[c]` is where `ServeHTTP` is (`auth`, `greet`, `start`, `read`, `wait` for
subscribe, `ended`, or `refused`); `sub[c]` and `writer[c]` are the two
goroutines; `held[c]` is the update between `ReceiveMessage` and the `select`;
`queue[c]` is the channel `send`.  `Select` has the select's three branches: with
the context cancelled *and* a place free Go picks either.  A cancelled context lets
`subscribe` stop (`StopReceiving`); nothing obliges it to, since that depends on
go-redis.  An update is its number in the order of publication: Redis delivers to
a subscriber in that order and keeps nothing for later ones.  In `UpdateStream` a client
is a reader, `published` the log, `got` what was delivered, `since` where the reader
joined and `dropped` what it lost; goroutines, socket and channel have no counterpart.
An update is lost there only when Capacity earlier ones are still owed, which the hub's
channel makes true because it holds just those.

### Terminal and the code

One action is one event of the browser or one step of the server.  `Mount`, `Rerun`
and `Unmount` are the effect of `[auctionId, token]` and its cleanup
(`AuctionTerminal.jsx:48-70`): `Rerun` is the case in which the router keeps the
component and changes the id, so its state stays.  `gets` are the GETs whose answers
still count (`mounted`, 51, 69); `socket`, `subscribed` and `inbox` are the WebSocket
of the current run.  `timer` is its timer of 3 s (`api.js:157`): `AuthTimeout` clears it
and does no more, because `socket.close(1008, ...)` throws in a browser.  A bid
that was sent for an earlier lot is `early`: `submitBid` (87-97) does not ask whether
the lot is still the same, and shows the bid's amount.  `since`, `seen` and `crossed`
are history; `since` holds every price the lot has had, in its row or in Redis, since
the run of the effect began.

Of the server there is what the terminal can tell.  `GET /auctions/{id}` is two steps,
`ReadRow` (`handlers.go:600`) and `ReadPrice` (609-611); the answer may leave after the
first, when Redis fails or has no key.  Between and around them `Seed` is the SETNX of a
bid's handler, `Take` the script, `Settle` the worker's UPDATE of the row and `Forget`
whatever removes the price key.  `Take` does not ask for the time: handlers that were in
time may be slow, and which bids are taken is the engine's matter.  `ServerGreets` and
`ServerRefuses` are `ServeHTTP` (`hub.go:43-51`) for the servers in the constant
`Servers`, each the set of types it takes in a first frame.  `hub.go` takes `AUTH`, the
client sends `auth`; the run has a server that takes either as well, since with the hub
alone nothing ever streams.  The ids of lots and the JSON names of a bid, on which this
client and this backend disagree too (3), are not modelled.  A render and its effects are one step.

### SignIn and the code

A screen is one mounted `AuthScreen`; a reload is `Close` and then `Mount`, of the same
screen or of another.  `attempts`, `ends` are its state, `stored` is `localStorage`;
`locked` holds the screens whose *last render* found the end in the future, since
nothing recomputes it in between (`AuthScreen.jsx:72`).  `login[s]` is the number of
attempts in the closure of the `handleLogin` that awaits: `CountFailure` counts from
it and not from the state (512).  Handlers go on after `Leave`, with no effect on the
state but with all their effects on `localStorage`.  `Lift` is the interval (166-172).
Feedback, toasts and typing only render the screen (`OtherRender`).

### Widgets and the code

`script` are the tags `loadScript` (14-34) puts into the document; `pending` are the
runs of an effect that await one, `dead` ones being cancelled; `rejected` are those
whose promise is rejected and whose catch clause has not run.  `SwitchMode` is
`switchMode` with the cleanup and the new run of the next render.  `rendered` counts the
captchas in the page, `widget` says that the component knows one.

### Browsing and the code

A session is represented by its end; `token` is `authToken` in memory, `stored` the one
in `sessionStorage`.  `Reload` evaluates `api.js` anew and so runs `restoreSession`
(41-58).  `SignedIn` is `persistSession` (6-39), whose storing may fail after the token
is in memory, and `told` is the end of the session that the user was told of.
`redirects` are the timers of 115-117, which outlive the screen.  `Answers` are those of
`GET /auctions` (`handlers.go` 529-589) by the fields they have; `GetAllAssets` reads two
others, so `list` gets no auction of the server.

## 3. What is checked

`pass` runs (all of `PROJECT.json` "runs"):

| Run | Instance | Shows |
| --- | --- | --- |
| `engine_bids` | 3 bids (two tie), 1 worker, time 0..3 | the leader is the highest bid, refusals are justified, answers match effects |
| `engine_workers` | 2 bids, 2 workers, 1 fault anywhere | the decision is final, recorded and announced once, and goes against no timely better bid; an expired auction is decided; refinement of `AscendingAuction` |
| `engine_losses` | 2 bids (one of 0), skewed clock, keys that expire, Redis emptied once, time 0..5 | the pair stays a pair; a bid in time is lost only with Redis or by its expiry; nobody wins who did not bid |
| `limiter` | 1 host, limits 1 and 2, minute of 6 ticks, second of 2, time 0..10 | 2 Max - 1 requests in any minute; a refusal takes Max requests of that host within the minute; Retry-After + 1 s suffices |
| `hub` | 2 clients (one refused), 5 updates, 2 places, 2 faults | no panic, no silent loss, delivery, refinement of `UpdateStream` (which includes the order) |
| `terminal` | 2 lots, each with or without a price in its row, prices to 1 and 2, 1 own bid under way, 1 frame, two kinds of server, time 0..1 | the price shown is one this lot has had since the user came; payment at its end |
| `signin` | 2 screens, one with a Google user, 2 attempts, lockout of 1, expiry of 2, time 1..4 | the bound on wrong passwords, what a reload finds, tokens, the end of the lockout |
| `widgets` | no bound: every configuration | one captcha, its token, spinners that stop |
| `browsing` | 2 lots, 2 sign-ins under way, sessions of 2, time 1..4 | sessions last |

Bounds.  Two workers are enough for every race over the row's lock, since at most
one is past it; three bids give overtaking, a tie and a refusal.  Time ends one
unit after `End` (runs with expiry: later), so a handler or a worker can be slow
across every boundary: start, end, end + retention.  One fault is a lost reply or a
crash in any place; that two of them change nothing of the safety properties is
proved, not run.  In the limiter one whole window, the border and a second
one that fills up fit into the bound.  In the hub the channel overflows at the third
update while the writer is slow; five updates leave some for after that.  In the
terminal a second price and a second lot are what it takes to show a wrong one, the
settlement of the lot with two prices and the loss of its key give a row and a Redis
that differ, and one frame is enough to be late, since frames keep their order; in
`signin` two attempts and a clock of three lockouts give an old lockout, its lifting,
failures after it and a new lockout; two screens, because what a third writes is
what the second might have written.  `Waiting` in `browsing` bounds the redirects and
loads that pile up.  `MaxTime`, `MaxFaults`, `MaxLosses`, `MaxPublished`, `MaxPrice`,
`Frames` and `Waiting` appear in guards only; the proofs hold for any value of them.  Deadlock
checking is off: bounded time, requests and updates run out.

Fairness.  `AuctionEngine!Fairness`: the clock runs; a worker's ticker keeps
firing and a handler that was called goes on, both being goroutines.  Failures
are not fair and are bounded, so that a retry can eventually succeed, as in
`Worker.Run`, which scans again each second.  `Hub!FairSpec`: subscribe and
writer take the steps they can; nothing is owed for a call that may block.
`SignIn!FairSpec` owes the clock and the interval, `Widgets!FairSpec` that the browser
settles every script and runs what awaits a settled promise.  Users and servers owe
nothing; `Terminal` and `Browsing` have no fairness.

Disagreements with the documentation, each with a counterexample (violation runs):

* `find_biddable_is_not_refused`: an active auction created over the API refuses
  every bid (NULL `current_high_price`).
* `find_highest_accepted_wins`: a bid answered 201 between the worker's MGET and
  its commit is lost.
* `find_price_never_falls`: the terminal shows the price that arrives last, where
  the contract (441) asks clients to keep the greatest.

Seen while reading, without a run:

* Backend.  Bids are taken after `end_time`: the status key is set from a Go clock,
  without expiry when the time left is not positive.  A slow handler seeds a price
  without expiry after the worker's DEL.  Updates are at most once and in order, where
  the documentation says at least once.  `backend/README.md:22` wants a first frame of
  type `auth`, which the client sends (`api.js:158`); the hub, like the contract, takes
  `AUTH` only (`hub.go:65`), so it refuses every stream of this client.  The handler's
  request struct has no JSON names, so the documented `auction_id` is an unknown field and the bid is answered 400 `INVALID_AMOUNT` (`handlers.go:627`).  The
  script takes a bid when the price key is absent (`database/README.md:38` wants a
  refusal).  The auth limiter counts every sign-in, the contract speaks of failed ones.
* List.  `AssetList.jsx:132` means to "fetch from API first, fall back to mock data", but
  `getAllAssets` (`api.js:139`) reads `auctions` or `assets` where the answer has `items`,
  so the built-in lots are listed whatever the server says.  The ids of
  the built-in lots are no UUIDs, so this backend answers their GET with 400.
* Terminal.  The timer of `api.js:157` is to close a socket that is not greeted in time
  (the contract, 367, speaks of 3 seconds), but a browser lets a page close with 1000 or
  3000-4999 only and throws at `close(1008)`: a server that stays silent is never left,
  and nobody is told.  An update between the GET's reading and the subscription is shown by
  neither; nothing reconnects a stream, and nobody is told that it ended; `SETTLEMENT`
  frames are ignored.  `auctionClosed` is not reset when the lot changes in place; the
  payment dialogue opens for every viewer; a bid can be submitted twice.
* Lockout.  Another tab's failures and successes overwrite the stored count and end.  A
  screen mounted into an old lockout may have its count cleared by that lockout's timer,
  which is why the bound is 2 * maxAttempts.  An attempt after the end and before the
  timer (475-482) begins a whole new lockout.  Google's button works during a
  lockout, and a password answered 401 after Google's success counts and may lock a user
  who is signed in.
* Widgets.  A script's tag stays after it failed: later mounts wait for an event that has
  been (`SpinnersStop` excepts that case).  Google's button is not drawn again after a
  change to the registration form and back (415).  A cancelled run stops the spinner
  of a later one.
* Session.  If storing fails the user is told so and is signed in nevertheless.  With
  `sessionStorage` disabled the catch clause of `restoreSession` throws too and the page
  stays blank.  The end is counted from the answer's arrival, and is not looked at
  while the token is in memory.  The redirect timer fires after the user has
  gone elsewhere.  At `/` there is no link to sign in.

## 4. What is proved

All proofs are for any sets of requests, workers, users, hosts, connections, lots and
screens, any amounts, skews, times, limits and bounds on faults.

* `TypeCorrect` in each proof module but the refinement's.
* Engine, settlement (`SettlementInv`): who is in the transaction holds the lock
  and finds the row active; at most one worker is past it; what an MGET found
  includes every bid taken in time that Redis still stood for.  None of
  `LedgerMatchesRow`, `AnnouncedOnce`, `CachedStatusSound` is inductive without that;
  from it they, and `SettlementFinal`, follow for any faults and losses.
* Engine, bidding (`BiddingInv`): price and leader in Redis, and those of every
  worker's snapshot, stand for the best of the bids that are not `gone`, whatever
  expires, is lost, seeded or deleted.  It gives `OutcomeIsBestAtSnapshot`.
* Engine, outcome.  `BidsLostByRedisOnly` joins the two: a bid taken in time and not
  gone by the decision was found by the worker's MGET, which the outcome is best of.
  `WinnerAlwaysBid` follows likewise.  `DurableInv` says that nothing is gone before
  the decision while Redis loses nothing and the retention outlives the clock
  (`Durable`); with it the first becomes `TimelyBidsAlwaysLoseOnlyToBetter`, and
  `BiddingInv` becomes `LeaderIsHighest`.  `PairConsistent` holds without `Durable`.
  `PriceAlwaysRises`, an action property, says that while the auction is active only
  expiry and a restart of Redis take a price away.  `LockAlwaysHeld` is the safety half
  of `ExpiredIsDecided`: nobody waits for a lock whose holder is gone.
* Engine, answers (`AnswerInv`): gives `TooLowIsJustified` and
  `AnswersMatchEffects` (the latter without faults).
* `EngineIsAscendingAuction`: under `Durable` every step of the engine is a step
  of the abstract auction or leaves it unchanged.
* Limiter (`WindowsAreSound`): the requests let through fall into windows, opened
  at the positions in `opened`, each of at most Max, starting a minute or more
  apart.  2 Max requests therefore span two openings at least, whence
  `AnyMinuteIsBounded`.  `RefusalAlwaysEarned`: who is refused was let through Max times
  in less than a minute before.
* Hub (`LifeIsSound`): which goroutines run in which phase, and what each holds.
  `NeverPanics` follows; `AlwaysInOrder` adds that received < queued < held <
  next (`OrderIsSound`), `AlwaysAccountedFor` that no update between `since` and `next` is
  missing.
* Hub, refinement (`HubIsUpdateStream`).  Life and Order say nothing of gaps, so it adds
  `FlowIsSound`: as long as a client is served, every update up to one that is on its way
  has been received, is on its way or was dropped, and a dropped one lies before what
  comes next and is in no queue.  An arrival then finds nothing earlier owed
  (`ArrivalIsDelivery`), and a drop finds a queue of Buffer different updates, all owed
  (`DropIsLoss`, by `ElementsCounted`).  `NothingIsSkipped` is proved from the abstract
  steps alone: a client that has an update has every earlier one, or that was dropped.
* Terminal.  `ShownPriceIsOurs` is not inductive: a price may still be on its way.
  `PriceInv` says the same of every GET that has read the row or Redis, every frame of
  this lot and every bid that is taken, and that row and Redis hold nothing that
  `since` does not; `early` bids are excepted, which is what `crossed` is for.
  `ShownPriceHolds` follows.  Nothing in it says that prices rise, because they do not:
  Redis may lose one, and a GET may be answered from the row.
  `ModalOpensAtItsEnd` needs `DeadlineInv`: once this run's GET has been answered the
  deadline is this lot's.
* Sign-in.  `FailuresAreBounded` says for any maxAttempts and any number of screens what
  the run shows for two.  Its invariant (`CountInv`) follows the failures that the
  count no longer stands for: without a lockout there are fewer than Max of them
  (those before an old lockout was lifted), with an old one none, and with one begun here
  all are a lockout before its end, so they are over when the timer lifts it; and the
  same for a request that still awaits its answer (`Awaited`).  `StorageHolds` is
  inductive as it stands; `TokensSpentOnce` needs that a spent token is kept only as long
  as its request or the redirect is under way (`TokenInv`).  `LockoutsAlwaysEnd` is the
  safety half of `LockoutIsLifted`: no end in a screen or in `localStorage` lies further
  ahead than one lockout, and who is locked has a timer.
* Widgets (`WidgetsAreSound`).  There are no constants, so the proof says what the run
  does, and why: a run of an effect outlives neither the screen nor, uncancelled, the
  login form, and Turnstile's runs are rejected only by a script that will never load
  (`RunsAreBounded`).  `AlwaysOneCaptcha` and `TokenAlwaysCurrent` follow.
* Browsing.  `SessionsHold`, with the invariant in `BrowsingProofs` about what is stored,
  in memory and announced.

Assumptions, all named and evaluated by TLC in the runs: `ActorsAssumption`,
`PriceAssumption` (an opening price of at least the starting price, as the CHECK
demands), `TimeAssumption` (start before end, as the CHECK demands),
`LimitAssumption` (limits of at least 1, as `config.Load` guarantees),
`ClockAssumption`, `HubAssumption`, `TerminalAssumption` (an auction has an end and a starting price),
`LockoutAssumption` (maxAttempts and the two durations are positive constants of the
code), `BrowsingAssumption`, `PagesAssumption` (routes are distinct).

Only model-checked: the liveness properties `ExpiredIsDecided`, `UpdatesArrive`,
`LockoutIsLifted` and `SpinnersStop`, which are out of the prover's
reach.  Of the first and the third the safety halves are proved (above).  No definition
is recursive.  The inductive invariants (`SettlementInv`, `BiddingInv`, `DurableInv`,
`AnswerInv`, `LifeInv`, `OrderInv`, `FlowInv`, ...), `PriceOnlyRises`, `ReceivesInOrder`,
`LockIsHeld` and `LockoutsEnd` were checked by TLC on the same instances before they were
proved, and are in no run of their own: what follows from them is.

## 5. Not modelled, and the plan

In this order:

1. `LiveAuction`: engine, hub and terminal composed, in the place of the terminal's
   `Seed`, `Take`, `Settle` and `Forget` and of its `inbox`.
2. `AuctionListing`: keyset pages while auctions are created, activated and
   settled; no page repeats an auction, none that stays is skipped.
3. `SettlementScan`: several expired auctions in one scan, one of them failing;
   an abstract settlement that the engine's instance implements.
4. `Accounts`: two first Google sign-ins of one address against the unique index.

Abstract specifications worth stating: the
list as a snapshot-independent traversal; one account per address.  Theorems
worth proving: that pages are disjoint; that a scan settles every auction that does
not fail.

Not planned: Turnstile and Google token verification and JWT parsing (pure
functions of libraries and remote services), configuration, scripts, styles.  Of the
client: drawing (cards, logos, sparklines, the mock tape), the filters and the pause
button, and `handleRegister`, which only shows a message.  `setAuthToken` and
`getSessionUser` are exported and never called.  A frame of time in which an interval of
an earlier render fires before the effect that replaces it is ignored.  Redis
restoring an older snapshot, in the place of nothing, is a loss that `LoseRedis` does
not cover.
