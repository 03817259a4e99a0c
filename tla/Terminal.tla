------------------------------- MODULE Terminal -------------------------------
(***************************************************************************)
(* AuctionTerminal.jsx with the part of api.js it calls and PaymentModal:  *)
(* the price a user is shown comes from three places, the answer of GET,   *)
(* the stream and the answer to a bid, each when it arrives.  A terminal   *)
(* is mounted for an auction; the router may give it another one, which    *)
(* runs its effect anew and keeps its state.  A render and its effects are *)
(* one step.                                                               *)
(*                                                                         *)
(* Of the server there is what a terminal can tell: an auction's price in  *)
(* its row and in Redis, as handlers.go and worker.go change and read      *)
(* them, and the greeting of hub.go.  A bid above the price may be taken   *)
(* whenever its auction has a row with a price: which of the bids, and how *)
(* late, is left to AuctionEngine.                                         *)
(***************************************************************************)
EXTENDS Integers, Sequences

CONSTANTS Auctions, None,
          EndOf,     \* EndOf[a]: end_time
          Start,     \* Start[a]: starting_price
          Servers,   \* the types of the first frame a server takes, for each server
          Bids,      \* bound on the bids that await an answer at once
          MaxPrice,  \* MaxPrice[a]: bound on the prices of a
          Frames,    \* bound on the frames on their way at once
          MaxTime

ASSUME TerminalAssumption ==
  /\ None \notin Auctions
  /\ EndOf \in [Auctions -> Nat \ {0}] /\ Start \in [Auctions -> Nat \ {0}]
  /\ MaxPrice \in [Auctions -> Nat] /\ Frames \in Nat /\ MaxTime \in Nat

VARIABLES
  now,
  row,       \* row[a]: current_high_price of its row, 0 for NULL
  settled,   \* the auctions whose row is SETTLED
  price,     \* price[a]: in Redis, 0 for no key
  auction,   \* the terminal's, or None while another page is shown
  token,     \* the user is signed in
  shown,     \* currentBid, 0 for the text it starts with
  deadline, closed, modal, paying,
  gets,      \* the GET requests under way whose answers are awaited
  bid,       \* the bids under way
  socket,    \* the WebSocket of the effect's run
  timer,     \* its timer of 3 s is set
  subscribed,  \* the hub has greeted it
  inbox,     \* frames on their way
  since,     \* history: the prices auction has had since the effect ran
  seen,      \* history: what that run, or a bid since, has brought
  crossed    \* history: a bid on an earlier auction was answered since

server == <<row, settled, price>>
state == <<shown, deadline, closed, modal, paying>>
stream == <<socket, timer, subscribed, inbox>>
history == <<since, seen, crossed>>
vars == <<now, server, auction, token, state, gets, bid, stream, history>>

Prices(a) == 1..MaxPrice[a]
NoBid == [auction |-> None, amount |-> 0, st |-> "idle", early |-> FALSE]
AuthSuccess == [type |-> "AUTH_SUCCESS", auction |-> None, price |-> 0]
PriceUpdate(a, p) == [type |-> "PRICE_UPDATE", auction |-> a, price |-> p]

\* createAuction leaves current_high_price NULL; an operator may have given some
\* of the auctions the price they start with.
Init ==
  /\ now = 0
  /\ \E Priced \in SUBSET Auctions :
       row = [a \in Auctions |-> IF a \in Priced THEN Start[a] ELSE 0]
  /\ settled = {} /\ price = [a \in Auctions |-> 0]
  /\ auction = None /\ token = FALSE
  /\ shown = 0 /\ deadline = 0 /\ closed = FALSE /\ modal = FALSE /\ paying = FALSE
  /\ gets = {} /\ bid = [b \in Bids |-> NoBid]
  /\ socket = "none" /\ timer = FALSE /\ subscribed = FALSE /\ inbox = <<>>
  /\ since = {} /\ seen = {} /\ crossed = FALSE

Tick ==
  /\ now < MaxTime
  /\ now' = now + 1
  /\ UNCHANGED <<server, auction, token, state, gets, bid, stream, history>>

-----------------------------------------------------------------------------
(* The server. *)

\* The price p of a is one it has had since the user came.
Note(a, p) == since' = IF a = auction THEN since \cup {p} ELSE since

\* The handler of a bid finds a price in the row; SETNX.
Seed(a) ==
  /\ row[a] # 0 /\ price[a] = 0
  /\ price' = [price EXCEPT ![a] = Start[a]]
  /\ Note(a, Start[a])
  /\ UNCHANGED <<now, row, settled, auction, token, state, gets, bid, stream, seen, crossed>>

\* The script takes a bid: the price rises, and the hub has an update for its
\* subscribers, which it may drop.
Take(a, p) ==
  /\ row[a] # 0 /\ price[a] < p
  /\ price' = [price EXCEPT ![a] = p]
  /\ Note(a, p)
  /\ inbox' \in {inbox} \cup
                (IF subscribed /\ Len(inbox) < Frames
                 THEN {Append(inbox, PriceUpdate(a, p))} ELSE {})

OtherBid(a, p) ==
  /\ Take(a, p)
  /\ UNCHANGED <<now, row, settled, auction, token, state, gets, bid, socket, timer,
                 subscribed, seen, crossed>>

\* The worker writes the price of Redis to the row, once.
Settle(a) ==
  /\ EndOf[a] <= now /\ a \notin settled /\ price[a] # 0
  /\ row' = [row EXCEPT ![a] = price[a]] /\ settled' = settled \cup {a}
  /\ UNCHANGED <<now, price, auction, token, state, gets, bid, stream, history>>

\* Its DEL after a settlement, the end of the key's time, or a loss of Redis.
Forget(a) ==
  /\ price[a] # 0
  /\ price' = [price EXCEPT ![a] = 0]
  /\ UNCHANGED <<now, row, settled, auction, token, state, gets, bid, stream, history>>

-----------------------------------------------------------------------------
(* The effect of [auctionId, token]. *)

NewGet(a) == [auction |-> a, st |-> "sent", price |-> 0]

\* Mutant of Dismissed: requests of earlier runs are answered as before.
NotDismissed == gets

\* mounted = false: their answers have no effect.
Dismissed == {}

Connect(signedIn) ==
  /\ socket' = IF signedIn THEN "connecting" ELSE "none"
  /\ timer' = signedIn
  /\ subscribed' = FALSE /\ inbox' = <<>>

Begin(a) ==
  /\ auction' = a
  /\ since' = {row[a], price[a]} \ {0} /\ seen' = {} /\ crossed' = FALSE

Mount(a) ==
  /\ auction = None
  /\ Begin(a)
  /\ token' \in BOOLEAN
  /\ gets' = {NewGet(a)}
  /\ Connect(token')
  /\ UNCHANGED <<now, server, state, bid>>

\* Nothing that arrives later has an effect.
Unmount ==
  /\ auction # None
  /\ auction' = None /\ token' = FALSE
  /\ shown' = 0 /\ deadline' = 0 /\ closed' = FALSE /\ modal' = FALSE /\ paying' = FALSE
  /\ gets' = {} /\ bid' = [b \in Bids |-> NoBid]
  /\ Connect(FALSE)
  /\ since' = {} /\ seen' = {} /\ crossed' = FALSE
  /\ UNCHANGED <<now, server>>

\* Another id in the URL, by the redirect after a sign-in or the back button;
\* or a render that finds the user signed in.
Rerun(a) ==
  /\ auction # None
  /\ token' \in {token, TRUE}
  /\ a # auction \/ token' # token
  /\ Begin(a)
  /\ gets' = Dismissed \cup {NewGet(a)}
  /\ bid' = [b \in Bids |-> [bid[b] EXCEPT !.early = bid[b].st # "idle"]]
  /\ Connect(token')
  /\ UNCHANGED <<now, server, state>>

-----------------------------------------------------------------------------
(* GET /auctions/{id} *)

ReadRow(g) ==
  /\ g \in gets /\ g.st = "sent"
  /\ gets' = (gets \ {g}) \cup {[g EXCEPT !.st = "row", !.price = row[g.auction]]}
  /\ UNCHANGED <<now, server, auction, token, state, bid, stream, history>>

\* The price of Redis replaces the row's.
ReadPrice(g) ==
  /\ g \in gets /\ g.st = "row"
  /\ price[g.auction] # 0
  /\ gets' = (gets \ {g}) \cup {[g EXCEPT !.st = "redis", !.price = price[g.auction]]}
  /\ UNCHANGED <<now, server, auction, token, state, bid, stream, history>>

\* The answer: the row's price, where Redis has failed or has no key.  One
\* without a price leaves the shown one alone.
Loaded(g) ==
  /\ g \in gets /\ g.st \in {"row", "redis"}
  /\ gets' = gets \ {g}
  /\ shown' = IF g.price # 0 THEN g.price ELSE shown
  /\ deadline' = EndOf[g.auction]
  /\ seen' = seen \cup {"end"} \cup (IF g.price # 0 THEN {"price"} ELSE {})
  /\ UNCHANGED <<now, server, auction, token, closed, modal, paying, bid, stream,
                 since, crossed>>

\* Shows an error at most.
NotLoaded(g) ==
  /\ g \in gets
  /\ gets' = gets \ {g}
  /\ UNCHANGED <<now, server, auction, token, state, bid, stream, history>>

-----------------------------------------------------------------------------
(* connectAuctionStream *)

HalfOpen == {"connecting", "open"}

SocketOpens ==
  /\ socket = "connecting"
  /\ socket' = "open"
  /\ UNCHANGED <<now, server, auction, token, state, gets, bid, timer, subscribed, inbox,
                 history>>

\* The type of the first frame this client sends.
FirstFrame == "auth"

ServerGreets ==
  /\ socket = "open" /\ ~subscribed
  /\ \E Takes \in Servers : FirstFrame \in Takes
  /\ subscribed' = TRUE /\ inbox' = Append(inbox, AuthSuccess)
  /\ UNCHANGED <<now, server, auction, token, state, gets, bid, socket, timer, history>>

\* AUTH_ERROR, and the server closes.
ServerRefuses ==
  /\ socket = "open" /\ ~subscribed
  /\ \E Takes \in Servers : FirstFrame \notin Takes
  /\ socket' = "refused" /\ timer' = FALSE /\ inbox' = <<>>
  /\ UNCHANGED <<now, server, auction, token, state, gets, bid, subscribed, history>>

\* Mutant of ForThisAuction: the updates of all auctions are shown.
ForAnyAuction(frame) == frame.type = "PRICE_UPDATE"

ForThisAuction(frame) == frame.type = "PRICE_UPDATE" /\ frame.auction = auction

Receive ==
  /\ socket \in {"open", "live"} /\ inbox # <<>>
  /\ inbox' = Tail(inbox)
  /\ IF Head(inbox).type = "AUTH_SUCCESS"
     THEN socket' = "live" /\ timer' = FALSE
     ELSE UNCHANGED <<socket, timer>>
  /\ IF ForThisAuction(Head(inbox))
     THEN shown' = Head(inbox).price /\ seen' = seen \cup {"price"}
     ELSE UNCHANGED <<shown, seen>>
  /\ UNCHANGED <<now, server, auction, token, deadline, closed, modal, paying, gets,
                 bid, subscribed, since, crossed>>

\* The timer of 3 s.  socket.close(1008, ...) throws InvalidAccessError in a
\* browser, which lets a page close with 1000 or 3000-4999 only: the socket stays.
AuthTimeout ==
  /\ timer
  /\ timer' = FALSE
  /\ UNCHANGED <<now, server, auction, token, state, gets, bid, socket, subscribed, inbox,
                 history>>

\* Another AUTH_ERROR, or the network or the server failing.  There is no
\* reconnection.
SocketFails ==
  /\ socket \in HalfOpen \cup {"live"}
  /\ socket' = "closed" /\ timer' = FALSE /\ subscribed' = FALSE /\ inbox' = <<>>
  /\ UNCHANGED <<now, server, auction, token, state, gets, bid, history>>

-----------------------------------------------------------------------------
(* submitBid, as often as the user likes. *)

Submit(b) ==
  /\ auction # None /\ token /\ bid[b] = NoBid
  /\ \E p \in Prices(auction) :
       bid' = [bid EXCEPT ![b] = [auction |-> auction, amount |-> p, st |-> "sent",
                                  early |-> FALSE]]
  /\ UNCHANGED <<now, server, auction, token, state, gets, stream, history>>

ServerTakes(b) ==
  /\ bid[b].st = "sent"
  /\ Take(bid[b].auction, bid[b].amount)
  /\ bid' = [bid EXCEPT ![b].st = "taken"]
  /\ UNCHANGED <<now, row, settled, auction, token, state, gets, socket, timer, subscribed,
                 seen, crossed>>

\* Only a 201 gets past placeBid.
Shows(b) == bid[b].st = "taken"

\* 201; or a refusal, or a failure of the network before or after the bid is taken.
BidAnswered(b) ==
  /\ bid[b].st \in {"sent", "taken"}
  /\ bid' = [bid EXCEPT ![b] = NoBid]
  /\ IF Shows(b)
     THEN /\ shown' = bid[b].amount
          /\ seen' = IF bid[b].early THEN seen ELSE seen \cup {"price"}
          /\ crossed' = (crossed \/ bid[b].early)
     ELSE UNCHANGED <<shown, seen, crossed>>
  /\ UNCHANGED <<now, server, auction, token, deadline, closed, modal, paying, gets,
                 stream, since>>

BidFails(b) ==
  /\ bid[b].st = "taken"
  /\ bid' = [bid EXCEPT ![b] = NoBid]
  /\ UNCHANGED <<now, server, auction, token, state, gets, stream, history>>

-----------------------------------------------------------------------------
(* The countdown and PaymentModal. *)

CountdownEnds ==
  /\ auction # None
  /\ deadline # 0 /\ deadline <= now /\ ~closed
  /\ closed' = TRUE /\ modal' = TRUE
  /\ UNCHANGED <<now, server, auction, token, shown, deadline, paying, gets, bid,
                 stream, history>>

\* The overlay closes the modal even during a payment; Cancel does not.
CloseModal ==
  /\ modal
  /\ modal' = FALSE
  /\ UNCHANGED <<now, server, auction, token, shown, deadline, closed, paying, gets,
                 bid, stream, history>>

Pay ==
  /\ modal /\ ~paying
  /\ paying' = TRUE
  /\ UNCHANGED <<now, server, auction, token, shown, deadline, closed, modal, gets,
                 bid, stream, history>>

\* After 2 s.
Paid ==
  /\ paying
  /\ paying' = FALSE /\ modal' = FALSE
  /\ UNCHANGED <<now, server, auction, token, shown, deadline, closed, gets, bid,
                 stream, history>>

-----------------------------------------------------------------------------
Next ==
  \/ Tick \/ Unmount
  \/ \E a \in Auctions : \/ Mount(a) \/ Rerun(a)
                         \/ Seed(a) \/ Settle(a) \/ Forget(a)
                         \/ \E p \in Prices(a) : OtherBid(a, p)
  \/ \E g \in gets : ReadRow(g) \/ ReadPrice(g) \/ Loaded(g) \/ NotLoaded(g)
  \/ SocketOpens \/ ServerGreets \/ ServerRefuses \/ Receive
  \/ AuthTimeout \/ SocketFails
  \/ \E b \in Bids : \/ Submit(b) \/ ServerTakes(b) \/ BidAnswered(b) \/ BidFails(b)
  \/ CountdownEnds \/ CloseModal \/ Pay \/ Paid

Spec == Init /\ [][Next]_vars

-----------------------------------------------------------------------------
(* Properties. *)

FrameRecords == [type : {"AUTH_SUCCESS", "PRICE_UPDATE"}, auction : Auctions \cup {None},
                 price : Nat]

TypeOK ==
  /\ now \in Nat /\ row \in [Auctions -> Nat] /\ settled \subseteq Auctions
  /\ price \in [Auctions -> Nat]
  /\ auction \in Auctions \cup {None} /\ token \in BOOLEAN
  /\ shown \in Nat /\ deadline \in Nat
  /\ closed \in BOOLEAN /\ modal \in BOOLEAN /\ paying \in BOOLEAN
  /\ gets \subseteq [auction : {auction} \cap Auctions, st : {"sent", "row", "redis"},
                   price : Nat]
  /\ bid \in [Bids -> [auction : Auctions \cup {None}, amount : Nat,
                       st : {"idle", "sent", "taken"}, early : BOOLEAN]]
  /\ socket \in {"none", "connecting", "open", "live", "refused", "closed"}
  /\ timer \in BOOLEAN /\ subscribed \in BOOLEAN /\ inbox \in Seq(FrameRecords)
  /\ since \subseteq Nat /\ seen \subseteq {"price", "end"} /\ crossed \in BOOLEAN

\* However late an answer is, and in whatever order GET, stream and own bids
\* arrive, the price shown is one this auction has had, in its row or in Redis,
\* since the user came.  Not if a bid on an auction that the same terminal showed
\* before is answered only now: its amount is shown.
ShownPriceIsOurs == auction # None /\ "price" \in seen /\ ~crossed => shown \in since

\* Payment is asked for at the auction's own end, not before it, once GET has
\* brought that end: no answer for an earlier auction replaces it.
ModalAtItsEnd ==
  [][~modal /\ modal' /\ "end" \in seen => EndOf[auction] <= now]_vars

-----------------------------------------------------------------------------
\* docs/rest-websocket-api-contract.md:441: clients "should keep the greatest
\* observed price".  The terminal does not.
PriceNeverFalls ==
  [][auction' = auction /\ "price" \in seen /\ ~crossed' => shown <= shown']_vars
=============================================================================
