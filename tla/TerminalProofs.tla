---------------------------- MODULE TerminalProofs ----------------------------
(***************************************************************************)
(* Theorems about Terminal: for any auctions, ends, prices, numbers of     *)
(* bids under way and bound on the clock.                                  *)
(***************************************************************************)
EXTENDS Terminal, TLAPS

-----------------------------------------------------------------------------
(* Types, one part per group of variables. *)

ServerTypes ==
  /\ now \in Nat /\ row \in [Auctions -> Nat] /\ settled \subseteq Auctions
  /\ price \in [Auctions -> Nat]

StateTypes ==
  /\ shown \in Nat /\ deadline \in Nat
  /\ closed \in BOOLEAN /\ modal \in BOOLEAN /\ paying \in BOOLEAN

PageTypes == auction \in Auctions \cup {None} /\ token \in BOOLEAN

GetRecords ==
  [auction : {auction} \cap Auctions, st : {"sent", "row", "redis"}, price : Nat]

GetTypes == gets \subseteq GetRecords

BidRecords == [auction : Auctions \cup {None}, amount : Nat,
               st : {"idle", "sent", "taken"}, early : BOOLEAN]

BidTypes == bid \in [Bids -> BidRecords]

Sockets == {"none", "connecting", "open", "live", "refused", "closed"}

StreamTypes ==
  /\ socket \in Sockets
  /\ timer \in BOOLEAN /\ subscribed \in BOOLEAN /\ inbox \in Seq(FrameRecords)

HistoryTypes == since \subseteq Nat /\ seen \subseteq {"price", "end"} /\ crossed \in BOOLEAN

Types ==
  /\ ServerTypes /\ StateTypes /\ PageTypes /\ GetTypes /\ BidTypes /\ StreamTypes
  /\ HistoryTypes

LEMMA TypesAreTypeOK == Types <=> TypeOK
  BY DEF Types, ServerTypes, StateTypes, PageTypes, GetTypes, BidRecords, BidTypes,
         StreamTypes, HistoryTypes, GetRecords, Sockets, TypeOK

LEMMA FrameFacts ==
  /\ AuthSuccess \in FrameRecords
  /\ \A a \in Auctions, p \in Nat : PriceUpdate(a, p) \in FrameRecords
  BY DEF AuthSuccess, PriceUpdate, FrameRecords

LEMMA NoBidType == NoBid \in BidRecords
  BY DEF NoBid, BidRecords

LEMMA PriceTypes ==
  ASSUME NEW a \in Auctions, NEW p \in Prices(a)
  PROVE  p \in Nat
  BY TerminalAssumption DEF Prices

LEMMA NoteTypes ==
  ASSUME Types, NEW a, NEW p \in Nat, Note(a, p), UNCHANGED <<seen, crossed>>
  PROVE  HistoryTypes'
  BY DEF Note, Types, HistoryTypes

\* A bid that is taken.
LEMMA TakeTypes ==
  ASSUME Types, NEW a, NEW p \in Nat, PriceUpdate(a, p) \in FrameRecords, Take(a, p),
         UNCHANGED <<now, row, settled, socket, timer, subscribed, seen, crossed>>
  PROVE  ServerTypes' /\ StreamTypes' /\ HistoryTypes'
  <1>1. ServerTypes'
    BY DEF Take, Types, ServerTypes
  <1>2. HistoryTypes'
    BY NoteTypes DEF Take
  <1>3. inbox' \in Seq(FrameRecords)
    <2>1. Append(inbox, PriceUpdate(a, p)) \in Seq(FrameRecords)
      BY DEF Types, StreamTypes
    <2> QED BY <2>1 DEF Take, Types, StreamTypes
  <1> QED BY <1>1, <1>2, <1>3 DEF Types, StreamTypes

LEMMA ConnectTypes ==
  ASSUME NEW signedIn \in BOOLEAN, Connect(signedIn)
  PROVE  StreamTypes'
  <1>1. inbox' \in Seq(FrameRecords) /\ socket' \in Sockets
    BY DEF Connect, Sockets
  <1>2. timer' \in BOOLEAN /\ subscribed' \in BOOLEAN
    BY Zenon DEF Connect
  <1> QED BY <1>1, <1>2 DEF StreamTypes

LEMMA BeginTypes ==
  ASSUME Types, NEW a \in Auctions, Begin(a)
  PROVE  HistoryTypes' /\ auction' \in Auctions \cup {None}
  <1>1. row[a] \in Nat /\ price[a] \in Nat
    BY DEF Types, ServerTypes
  <1> QED BY <1>1 DEF Begin, HistoryTypes

\* Bids are given up, sent, or marked as an earlier auction's.
LEMMA BidChanges ==
  ASSUME Types, NEW b \in Bids
  PROVE  /\ \A r \in BidRecords : [bid EXCEPT ![b] = r] \in [Bids -> BidRecords]
         /\ [bid EXCEPT ![b].st = "taken"] \in [Bids -> BidRecords]
  <1>1. [bid[b] EXCEPT !.st = "taken"] \in BidRecords
    BY DEF Types, BidTypes, BidRecords
  <1> QED BY <1>1 DEF Types, BidTypes

LEMMA InitTypes == Init => Types
  <1> SUFFICES ASSUME Init PROVE Types
    OBVIOUS
  <1>1. ServerTypes /\ PageTypes /\ GetTypes
    <2>1. PICK Priced \in SUBSET Auctions :
            row = [a \in Auctions |-> IF a \in Priced THEN Start[a] ELSE 0]
      BY DEF Init
    <2>2. row \in [Auctions -> Nat]
      BY <2>1, TerminalAssumption
    <2> QED BY <2>2 DEF Init, ServerTypes, PageTypes, GetTypes
  <1>2. StateTypes /\ HistoryTypes
    BY DEF Init, StateTypes, HistoryTypes
  <1>3. BidTypes
    BY NoBidType DEF Init, BidTypes
  <1>4. StreamTypes
    <2>1. inbox \in Seq(FrameRecords) /\ socket \in Sockets
      BY DEF Init, Sockets
    <2>2. timer \in BOOLEAN /\ subscribed \in BOOLEAN
      BY Zenon DEF Init
    <2> QED BY <2>1, <2>2 DEF StreamTypes
  <1> QED BY <1>1, <1>2, <1>3, <1>4 DEF Types

\* Every step keeps the types.
LEMMA StepTypes == Types /\ [Next]_vars => Types'
  <1> SUFFICES ASSUME Types, [Next]_vars PROVE Types'
    OBVIOUS
  <1> USE TerminalAssumption DEF server, GetRecords
  <1>1. CASE Tick
    BY <1>1 DEF Tick, Types, ServerTypes, StateTypes, PageTypes, GetTypes, BidTypes,
                StreamTypes, HistoryTypes, state, stream, history
  <1>2. CASE Unmount
    <2>1. ServerTypes' /\ GetTypes' /\ PageTypes'
      BY <1>2 DEF Unmount, Types, ServerTypes, GetTypes, PageTypes
    <2>2. StateTypes' /\ HistoryTypes'
      BY <1>2 DEF Unmount, StateTypes, HistoryTypes
    <2>3. BidTypes'
      BY <1>2, NoBidType DEF Unmount, BidTypes
    <2>4. StreamTypes'
      BY <1>2, ConnectTypes DEF Unmount
    <2> QED BY <2>1, <2>2, <2>3, <2>4 DEF Types
  <1>3. ASSUME NEW a \in Auctions, Mount(a) PROVE Types'
    <2>1. StreamTypes' /\ HistoryTypes' /\ auction' \in Auctions \cup {None}
      BY <1>3, ConnectTypes, BeginTypes DEF Mount
    <2>2. token' \in BOOLEAN /\ auction' = a
      BY <1>3 DEF Mount, Begin
    <2>3. GetTypes'
      BY <1>3, <2>2 DEF Mount, NewGet, GetTypes
    <2> QED BY <1>3, <2>1, <2>2, <2>3
            DEF Mount, Types, ServerTypes, StateTypes, PageTypes, BidTypes, state
  <1>4. ASSUME NEW a \in Auctions, Rerun(a) PROVE Types'
    <2>1. token' \in BOOLEAN
      BY <1>4 DEF Rerun, Types, PageTypes
    <2>2. StreamTypes' /\ HistoryTypes' /\ auction' \in Auctions \cup {None}
      BY <1>4, <2>1, ConnectTypes, BeginTypes DEF Rerun
    <2>3. GetTypes'
      BY <1>4 DEF Rerun, Begin, Dismissed, NewGet, GetTypes
    <2>4. BidTypes'
      <3>1. ASSUME NEW b \in Bids
            PROVE  [bid[b] EXCEPT !.early = bid[b].st # "idle"] \in BidRecords
        BY DEF Types, BidTypes, BidRecords
      <3> QED BY <1>4, <3>1 DEF Rerun, BidTypes
    <2> QED BY <1>4, <2>1, <2>2, <2>3, <2>4
            DEF Rerun, Types, ServerTypes, StateTypes, PageTypes, state
  <1>5. ASSUME NEW a \in Auctions, NEW p \in Prices(a), OtherBid(a, p) PROVE Types'
    <2>1. p \in Nat /\ PriceUpdate(a, p) \in FrameRecords
      BY PriceTypes, FrameFacts
    <2>2. ServerTypes' /\ StreamTypes' /\ HistoryTypes'
      BY <1>5, <2>1, TakeTypes DEF OtherBid
    <2> QED BY <1>5, <2>2 DEF OtherBid, Types, StateTypes, PageTypes, GetTypes,
                              BidTypes, state
  <1>server. ASSUME NEW a \in Auctions, Seed(a) \/ Settle(a) \/ Forget(a) PROVE Types'
    <2>1. ServerTypes'
      BY <1>server DEF Seed, Settle, Forget, Types, ServerTypes
    <2>2. HistoryTypes'
      <3>1. CASE Seed(a)
        BY <3>1, NoteTypes DEF Seed
      <3>2. CASE Settle(a) \/ Forget(a)
        BY <3>2 DEF Settle, Forget, Types, HistoryTypes, history
      <3> QED BY <1>server, <3>1, <3>2
    <2>3. UNCHANGED <<auction, token, state, gets, bid, stream>>
      BY <1>server DEF Seed, Settle, Forget
    <2> QED BY <2>1, <2>2, <2>3 DEF Types, StateTypes, PageTypes, GetTypes,
                                    BidTypes, StreamTypes, state, stream
  <1>6. ASSUME NEW g \in gets, ReadRow(g) \/ ReadPrice(g) PROVE Types'
    <2>1. g \in GetRecords /\ row[g.auction] \in Nat /\ price[g.auction] \in Nat
      BY DEF Types, GetTypes, ServerTypes
    <2>2. /\ [g EXCEPT !.st = "row", !.price = row[g.auction]] \in GetRecords
          /\ [g EXCEPT !.st = "redis", !.price = price[g.auction]] \in GetRecords
      BY <2>1 DEF GetRecords
    <2>3. gets' \subseteq GetRecords
      BY <1>6, <2>2 DEF ReadRow, ReadPrice, Types, GetTypes
    <2>4. UNCHANGED <<now, server, auction, token, state, bid, stream, history>>
      BY <1>6 DEF ReadRow, ReadPrice
    <2> QED BY <2>3, <2>4 DEF Types, ServerTypes, StateTypes, PageTypes, GetTypes,
                              BidTypes, StreamTypes, HistoryTypes, server, state, stream,
                              history
  <1>7. ASSUME NEW g \in gets, Loaded(g) PROVE Types'
    <2>1. GetTypes'
      BY <1>7 DEF Loaded, Types, GetTypes
    <2>2. g.auction \in Auctions /\ g.price \in Nat
      BY DEF Types, GetTypes
    <2>3. shown' \in Nat /\ deadline' \in Nat /\ seen' \subseteq {"price", "end"}
      BY <1>7, <2>2 DEF Loaded, Types, StateTypes, HistoryTypes
    <2> QED BY <1>7, <2>1, <2>3 DEF Loaded, Types, ServerTypes, StateTypes, PageTypes,
                                    BidTypes, StreamTypes, HistoryTypes, stream
  <1>8. ASSUME NEW g \in gets, NotLoaded(g) PROVE Types'
    <2>1. GetTypes'
      BY <1>8 DEF NotLoaded, Types, GetTypes
    <2> QED BY <1>8, <2>1 DEF NotLoaded, Types, ServerTypes, StateTypes, PageTypes,
                              BidTypes, StreamTypes, HistoryTypes, state, stream, history
  <1>9. CASE SocketOpens \/ ServerGreets \/ ServerRefuses \/ AuthTimeout \/ SocketFails
    <2>1. inbox' \in Seq(FrameRecords)
      <3>0. inbox \in Seq(FrameRecords)
        BY DEF Types, StreamTypes
      <3>1. CASE ServerGreets
        <4>1. inbox' = Append(inbox, AuthSuccess)
          BY <3>1 DEF ServerGreets
        <4> QED BY <3>0, <4>1, FrameFacts
      <3>2. CASE SocketOpens \/ ServerRefuses \/ AuthTimeout \/ SocketFails
        <4>1. inbox' = inbox \/ inbox' = <<>>
          BY <3>2 DEF SocketOpens, ServerRefuses, AuthTimeout, SocketFails
        <4>2. <<>> \in Seq(FrameRecords)
          OBVIOUS
        <4> QED BY <3>0, <4>1, <4>2
      <3> QED BY <1>9, <3>1, <3>2
    <2>2. socket' \in Sockets
      BY <1>9 DEF SocketOpens, ServerGreets, ServerRefuses, AuthTimeout, SocketFails, Types,
                  StreamTypes, Sockets
    <2>3. timer' \in BOOLEAN /\ subscribed' \in BOOLEAN
      BY <1>9, Zenon DEF SocketOpens, ServerGreets, ServerRefuses, AuthTimeout, SocketFails,
                         Types, StreamTypes
    <2>4. UNCHANGED <<now, server, auction, token, state, gets, bid, history>>
      BY <1>9 DEF SocketOpens, ServerGreets, ServerRefuses, AuthTimeout, SocketFails
    <2> QED BY <2>1, <2>2, <2>3, <2>4
            DEF Types, ServerTypes, StateTypes, PageTypes, GetTypes, BidTypes,
                StreamTypes, HistoryTypes, server, state, history
  <1>10. CASE Receive
    <2>1. Head(inbox) \in FrameRecords /\ inbox' \in Seq(FrameRecords)
      BY <1>10 DEF Receive, Types, StreamTypes
    <2>2. shown' \in Nat /\ seen' \subseteq {"price", "end"}
      BY <1>10, <2>1 DEF Receive, FrameRecords, Types, StateTypes, HistoryTypes
    <2>3. StreamTypes'
      <3>1. CASE Head(inbox).type = "AUTH_SUCCESS"
        <4>1. socket' \in Sockets /\ subscribed' = subscribed
          BY <1>10, <3>1 DEF Receive, Sockets
        <4>2. timer' \in BOOLEAN
          BY <1>10, <3>1, Zenon DEF Receive
        <4> QED BY <2>1, <4>1, <4>2 DEF Types, StreamTypes
      <3>2. CASE Head(inbox).type # "AUTH_SUCCESS"
        BY <1>10, <2>1, <3>2 DEF Receive, Types, StreamTypes
      <3> QED BY <3>1, <3>2
    <2> QED BY <1>10, <2>2, <2>3 DEF Receive, Types, ServerTypes, StateTypes, PageTypes,
                                     GetTypes, BidTypes, HistoryTypes
  <1>12. ASSUME NEW b \in Bids, Submit(b) PROVE Types'
    <2>1. PICK p \in Prices(auction) :
            bid' = [bid EXCEPT ![b] = [auction |-> auction, amount |-> p, st |-> "sent",
                                       early |-> FALSE]]
      BY <1>12 DEF Submit
    <2>2. [auction |-> auction, amount |-> p, st |-> "sent", early |-> FALSE] \in BidRecords
      BY <1>12, PriceTypes DEF Submit, Types, PageTypes, BidRecords
    <2>3. BidTypes'
      BY <2>1, <2>2, BidChanges DEF BidTypes
    <2> QED BY <1>12, <2>3 DEF Submit, Types, ServerTypes, StateTypes, PageTypes, GetTypes,
                               StreamTypes, HistoryTypes, state, stream, history
  <1>13. ASSUME NEW b \in Bids, ServerTakes(b) PROVE Types'
    <2>1. bid[b].amount \in Nat /\ bid[b].auction \in Auctions \cup {None}
      BY DEF Types, BidTypes, BidRecords
    <2>2. PriceUpdate(bid[b].auction, bid[b].amount) \in FrameRecords
      BY <2>1 DEF PriceUpdate, FrameRecords
    <2>3. ServerTypes' /\ StreamTypes' /\ HistoryTypes'
      BY <1>13, <2>1, <2>2, TakeTypes DEF ServerTakes
    <2>4. BidTypes'
      BY <1>13, BidChanges DEF ServerTakes, BidTypes
    <2> QED BY <1>13, <2>3, <2>4 DEF ServerTakes, Types, StateTypes, PageTypes, GetTypes,
                                     GetRecords, state
  <1>14. ASSUME NEW b \in Bids, BidAnswered(b) PROVE Types'
    <2>1. bid[b].amount \in Nat /\ bid[b].early \in BOOLEAN
      BY DEF Types, BidTypes, BidRecords
    <2>2. BidTypes'
      BY <1>14, NoBidType, BidChanges DEF BidAnswered, BidTypes
    <2>3. shown' \in Nat /\ seen' \subseteq {"price", "end"}
      BY <1>14, <2>1 DEF BidAnswered, Types, StateTypes, HistoryTypes
    <2>4. crossed' \in BOOLEAN
      BY <1>14, <2>1, Zenon DEF BidAnswered, Types, HistoryTypes
    <2> QED BY <1>14, <2>2, <2>3, <2>4
            DEF BidAnswered, Types, ServerTypes, StateTypes, PageTypes, GetTypes,
                StreamTypes, HistoryTypes, stream
  <1>15. ASSUME NEW b \in Bids, BidFails(b) PROVE Types'
    <2>1. BidTypes'
      BY <1>15, NoBidType, BidChanges DEF BidFails, BidTypes
    <2> QED BY <1>15, <2>1 DEF BidFails, Types, ServerTypes, StateTypes, PageTypes, GetTypes,
                               StreamTypes, HistoryTypes, state, stream, history
  <1>16. CASE CountdownEnds \/ CloseModal \/ Pay \/ Paid
    <2>1. StateTypes'
      BY <1>16 DEF CountdownEnds, CloseModal, Pay, Paid, Types, StateTypes
    <2>2. UNCHANGED <<now, server, auction, token, gets, bid, stream, history>>
      BY <1>16 DEF CountdownEnds, CloseModal, Pay, Paid
    <2> QED BY <2>1, <2>2 DEF Types, ServerTypes, PageTypes, GetTypes, BidTypes,
                              StreamTypes, HistoryTypes, stream, history
  <1>17. CASE UNCHANGED vars
    BY <1>17 DEF vars, Types, ServerTypes, StateTypes, PageTypes, GetTypes, BidTypes,
                 StreamTypes, HistoryTypes, state, stream, history
  <1> QED
    BY <1>1, <1>2, <1>3, <1>4, <1>5, <1>6, <1>7, <1>8, <1>9, <1>10, <1>server, <1>12, <1>13,
       <1>14, <1>15, <1>16, <1>17 DEF Next

\* The types of Terminal hold for every value of the constants.
THEOREM TypeCorrect == Spec => []TypeOK
  <1>1. Spec => []Types
    BY InitTypes, StepTypes, PTL DEF Spec
  <1> QED BY <1>1, TypesAreTypeOK, PTL

-----------------------------------------------------------------------------
(* The end of an auction. *)

\* Once the GET of this run has been answered, the deadline is the auction's.
DeadlineInv == auction # None /\ "end" \in seen => deadline = EndOf[auction]

LEMMA StepDeadline == Types /\ DeadlineInv /\ [Next]_vars => DeadlineInv'
  <1> SUFFICES ASSUME Types, DeadlineInv, [Next]_vars PROVE DeadlineInv'
    OBVIOUS
  <1>0. ASSUME UNCHANGED <<auction, deadline>>,
               "end" \in seen' => "end" \in seen
        PROVE  DeadlineInv'
    BY <1>0 DEF DeadlineInv
  <1>1. CASE Tick \/ CountdownEnds \/ CloseModal \/ Pay \/ Paid
    BY <1>0, <1>1 DEF Tick, CountdownEnds, CloseModal, Pay, Paid, state, history
  <1>2. CASE Unmount
    BY <1>2 DEF Unmount, DeadlineInv
  <1>3. ASSUME NEW a \in Auctions, Mount(a) \/ Rerun(a) PROVE DeadlineInv'
    BY <1>3 DEF Mount, Rerun, Begin, DeadlineInv
  <1>4. ASSUME NEW a \in Auctions,
               Seed(a) \/ Settle(a) \/ Forget(a) \/ \E p \in Prices(a) : OtherBid(a, p)
        PROVE  DeadlineInv'
    BY <1>0, <1>4 DEF Seed, Settle, Forget, OtherBid, state, history
  <1>5. ASSUME NEW g \in gets, ReadRow(g) \/ ReadPrice(g) \/ NotLoaded(g)
        PROVE  DeadlineInv'
    BY <1>0, <1>5 DEF ReadRow, ReadPrice, NotLoaded, state, history
  <1>6. ASSUME NEW g \in gets, Loaded(g) PROVE DeadlineInv'
    <2>1. g.auction = auction
      BY DEF Types, GetTypes, GetRecords
    <2> QED BY <1>6, <2>1 DEF Loaded, DeadlineInv
  <1>7. CASE Receive
    BY <1>0, <1>7 DEF Receive
  <1>8. CASE SocketOpens \/ ServerGreets \/ ServerRefuses \/ AuthTimeout \/ SocketFails
    BY <1>0, <1>8 DEF SocketOpens, ServerGreets, ServerRefuses, AuthTimeout, SocketFails,
                      state, history
  <1>9. ASSUME NEW b \in Bids, Submit(b) \/ ServerTakes(b) \/ BidFails(b) PROVE DeadlineInv'
    BY <1>0, <1>9 DEF Submit, ServerTakes, BidFails, state, history
  <1>10. ASSUME NEW b \in Bids, BidAnswered(b) PROVE DeadlineInv'
    BY <1>0, <1>10 DEF BidAnswered
  <1>11. CASE UNCHANGED vars
    BY <1>0, <1>11 DEF vars, state, history
  <1> QED
    BY <1>1, <1>2, <1>3, <1>4, <1>5, <1>6, <1>7, <1>8, <1>9, <1>10, <1>11 DEF Next

\* Only the countdown opens the dialogue, and by the deadline it has.
LEMMA StepModal ==
  ASSUME Types, DeadlineInv, Next, ~modal, modal', "end" \in seen
  PROVE  EndOf[auction] <= now
  <1>0. ~UNCHANGED modal
    OBVIOUS
  <1>1. CASE CountdownEnds
    BY <1>1 DEF CountdownEnds, DeadlineInv
  <1>2. ASSUME NEW a \in Auctions,
               Seed(a) \/ Settle(a) \/ Forget(a) \/ \E p \in Prices(a) : OtherBid(a, p)
        PROVE  FALSE
    BY <1>0, <1>2 DEF Seed, Settle, Forget, OtherBid, state
  <1>3. ASSUME NEW a \in Auctions, Mount(a) \/ Rerun(a) PROVE FALSE
    BY <1>0, <1>3 DEF Mount, Rerun, state
  <1>4. ASSUME NEW g \in gets, ReadRow(g) \/ ReadPrice(g) \/ Loaded(g) \/ NotLoaded(g)
        PROVE  FALSE
    BY <1>0, <1>4 DEF ReadRow, ReadPrice, Loaded, NotLoaded, state
  <1>5. ASSUME NEW b \in Bids,
               Submit(b) \/ ServerTakes(b) \/ BidAnswered(b) \/ BidFails(b) PROVE FALSE
    BY <1>0, <1>5 DEF Submit, ServerTakes, BidAnswered, BidFails, state
  <1>6. CASE \/ Tick \/ SocketOpens \/ ServerGreets \/ ServerRefuses \/ Receive
             \/ AuthTimeout \/ SocketFails
    BY <1>0, <1>6 DEF Tick, SocketOpens, ServerGreets, ServerRefuses, Receive, AuthTimeout,
                      SocketFails, state
  <1>7. CASE Unmount \/ CloseModal \/ Pay \/ Paid
    BY <1>0, <1>7, Zenon DEF Unmount, CloseModal, Pay, Paid
  <1> QED BY <1>1, <1>2, <1>3, <1>4, <1>5, <1>6, <1>7 DEF Next

\* Payment is asked for at the auction's own end, whatever answers for earlier
\* ones are still to come (AuctionTerminal.jsx 51, 78-81).
THEOREM ModalOpensAtItsEnd == Spec => ModalAtItsEnd
  <1>1. Init => DeadlineInv
    BY DEF Init, DeadlineInv
  <1>2. Types /\ DeadlineInv /\ [Next]_vars =>
          [~modal /\ modal' /\ "end" \in seen => EndOf[auction] <= now]_vars
    BY StepModal
  <1> QED BY <1>1, <1>2, InitTypes, StepTypes, StepDeadline, PTL DEF Spec, ModalAtItsEnd

-----------------------------------------------------------------------------
(* The price shown. *)

\* ShownPriceIsOurs is not inductive: a price may still be on its way, in the
\* answer of a GET, in a frame or with a bid, or yet be read.
PricesAreNoted == auction # None => {row[auction], price[auction]} \ {0} \subseteq since

GetsAreOurs == \A g \in gets : g.st # "sent" /\ g.price # 0 => g.price \in since

FramesAreOurs ==
  \A i \in 1..Len(inbox) :
    auction # None /\ ForThisAuction(inbox[i]) => inbox[i].price \in since

BidIsOurs(r) ==
  r.st # "idle" =>
    /\ r.auction \in Auctions
    /\ ~r.early => r.auction = auction /\ (r.st = "taken" => r.amount \in since)

BidsAreOurs == \A b \in Bids : BidIsOurs(bid[b])

PriceInv ==
  PricesAreNoted /\ ShownPriceIsOurs /\ GetsAreOurs /\ FramesAreOurs /\ BidsAreOurs

\* What a step keeps that forgets none of the prices, or drops what is under way.
LEMMA ShownKept ==
  ASSUME ShownPriceIsOurs, since \subseteq since', UNCHANGED <<auction, shown, seen, crossed>>
  PROVE  ShownPriceIsOurs'
  BY DEF ShownPriceIsOurs

LEMMA GetsKept ==
  ASSUME GetsAreOurs, since \subseteq since', gets' \subseteq gets
  PROVE  GetsAreOurs'
  BY DEF GetsAreOurs

LEMMA FramesKept ==
  ASSUME FramesAreOurs, since \subseteq since', UNCHANGED auction,
         \A i \in 1..Len(inbox') : \E j \in 1..Len(inbox) : inbox'[i] = inbox[j]
  PROVE  FramesAreOurs'
  <1> SUFFICES ASSUME NEW i \in 1..Len(inbox'), auction # None, ForThisAuction(inbox'[i])
               PROVE  inbox'[i].price \in since
    BY DEF FramesAreOurs, ForThisAuction
  <1>1. PICK j \in 1..Len(inbox) : inbox'[i] = inbox[j]
    OBVIOUS
  <1> QED BY <1>1 DEF FramesAreOurs

LEMMA NoBidIsOurs == BidIsOurs(NoBid) /\ BidIsOurs(NoBid)'
  BY DEF BidIsOurs, NoBid

\* b becomes any bid of this auction, or none.
LEMMA BidsKept ==
  ASSUME Types, BidsAreOurs, since \subseteq since', UNCHANGED auction,
         \A b \in Bids : bid'[b] \in {bid[b], NoBid} \/ BidIsOurs(bid[b])'
  PROVE  BidsAreOurs'
  <1> SUFFICES ASSUME NEW b \in Bids PROVE BidIsOurs(bid[b])'
    BY DEF BidsAreOurs
  <1>1. CASE bid'[b] = bid[b]
    BY <1>1 DEF BidsAreOurs, BidIsOurs
  <1>2. CASE bid'[b] = NoBid
    BY <1>2, NoBidIsOurs DEF BidIsOurs
  <1> QED BY <1>1, <1>2

\* A new run of the effect: nothing of the earlier one is counted.
LEMMA BeginHolds ==
  ASSUME Types, PriceInv, NEW a \in Auctions, Begin(a), UNCHANGED server,
         gets' = {NewGet(a)}, inbox' = <<>>,
         \A b \in Bids : \/ bid'[b] = [bid[b] EXCEPT !.early = bid[b].st # "idle"]
                         \/ bid'[b] = bid[b] /\ auction = None
  PROVE  PriceInv'
  <1>1. /\ auction' = a /\ since' = {row[a], price[a]} \ {0} /\ seen' = {}
        /\ row' = row /\ price' = price
    BY DEF Begin, server
  <1>2. PricesAreNoted' /\ ShownPriceIsOurs'
    BY <1>1 DEF PricesAreNoted, ShownPriceIsOurs
  <1>3. GetsAreOurs' /\ FramesAreOurs'
    BY DEF GetsAreOurs, NewGet, FramesAreOurs
  <1>4. BidsAreOurs'
    <2> SUFFICES ASSUME NEW b \in Bids PROVE BidIsOurs(bid[b])'
      BY DEF BidsAreOurs
    <2>1. bid[b] \in BidRecords /\ BidIsOurs(bid[b])
      BY DEF Types, BidTypes, PriceInv, BidsAreOurs
    <2>2. CASE bid[b].st = "idle"
      BY <2>1, <2>2 DEF BidIsOurs, BidRecords
    <2>3. CASE bid[b].st # "idle"
      <3>1. bid'[b].early
        <4>1. CASE bid'[b] = [bid[b] EXCEPT !.early = bid[b].st # "idle"]
          BY <2>1, <2>3, <4>1 DEF BidRecords
        <4>2. CASE bid'[b] = bid[b] /\ auction = None
          BY <2>1, <2>3, <4>2, TerminalAssumption DEF BidIsOurs, BidRecords
        <4> QED BY <4>1, <4>2
      <3>2. bid'[b].auction = bid[b].auction
        BY <2>1 DEF BidRecords
      <3> QED BY <2>1, <2>3, <3>1, <3>2 DEF BidIsOurs
    <2> QED BY <2>2, <2>3
  <1> QED BY <1>2, <1>3, <1>4 DEF PriceInv

\* A new price of an auction, by a seed or a bid, is noted where it is this one's.
LEMMA NewPriceNoted ==
  ASSUME Types, PricesAreNoted, NEW a \in Auctions, NEW p,
         price' = [price EXCEPT ![a] = p], Note(a, p), UNCHANGED <<auction, row>>
  PROVE  PricesAreNoted' /\ since \subseteq since'
  <1>1. since \subseteq since' /\ (a = auction => p \in since')
    BY DEF Note
  <1>2. auction # None => price'[auction] = IF auction = a THEN p ELSE price[auction]
    BY DEF Types, ServerTypes, PageTypes
  <1> QED BY <1>1, <1>2 DEF PricesAreNoted

\* An update is put on its way, or dropped.
LEMMA TakeFrames ==
  ASSUME Types, FramesAreOurs, NEW a, NEW p, Take(a, p), UNCHANGED auction
  PROVE  FramesAreOurs'
  <1>1. since \subseteq since' /\ (a = auction => p \in since')
    BY DEF Take, Note
  <1>2. CASE inbox' = inbox
    BY <1>1, <1>2, FramesKept
  <1>3. CASE inbox' = Append(inbox, PriceUpdate(a, p))
    <2> SUFFICES ASSUME NEW i \in 1..Len(inbox'), auction # None, ForThisAuction(inbox'[i])
                 PROVE  inbox'[i].price \in since'
      BY DEF FramesAreOurs, ForThisAuction
    <2>1. inbox \in Seq(FrameRecords)
      BY DEF Types, StreamTypes
    <2>2. CASE i = Len(inbox) + 1
      <3>1. inbox'[i] = PriceUpdate(a, p)
        BY <1>3, <2>1, <2>2
      <3> QED BY <1>1, <3>1 DEF PriceUpdate, ForThisAuction
    <2>3. CASE i # Len(inbox) + 1
      <3>1. i \in 1..Len(inbox) /\ inbox'[i] = inbox[i]
        BY <1>3, <2>1, <2>3
      <3> QED BY <1>1, <3>1 DEF FramesAreOurs
    <2> QED BY <2>2, <2>3
  <1> QED BY <1>2, <1>3 DEF Take

LEMMA StepPrice == Types /\ PriceInv /\ [Next]_vars => PriceInv'
  <1> SUFFICES ASSUME Types, PriceInv, [Next]_vars PROVE PriceInv'
    OBVIOUS
  <1> USE DEF PriceInv
  <1>kept. ASSUME UNCHANGED <<row, price, auction, since, bid>>, gets' \subseteq gets,
               \/ UNCHANGED <<shown, seen, crossed>>
               \/ ShownPriceIsOurs',
               \/ inbox' = <<>>
               \/ \A i \in 1..Len(inbox') : \E j \in 1..Len(inbox) : inbox'[i] = inbox[j]
        PROVE  PriceInv'
    <2>1. PricesAreNoted'
      BY <1>kept DEF PricesAreNoted
    <2>2. FramesAreOurs'
      BY <1>kept, FramesKept DEF FramesAreOurs
    <2> QED BY <1>kept, <2>1, <2>2, ShownKept, GetsKept, BidsKept
  <1>1. CASE \/ Tick \/ SocketOpens \/ ServerRefuses \/ AuthTimeout \/ SocketFails
             \/ CountdownEnds \/ CloseModal \/ Pay \/ Paid
    <2>1. /\ UNCHANGED <<row, price, auction, since, bid, gets, shown, seen, crossed>>
          /\ inbox' = inbox \/ inbox' = <<>>
      BY <1>1 DEF Tick, SocketOpens, ServerRefuses, AuthTimeout, SocketFails, CountdownEnds,
                  CloseModal, Pay, Paid, server, state, stream, history
    <2> QED BY <1>kept, <2>1
  <1>2. CASE Unmount
    <2>1. auction' = None /\ gets' = {} /\ inbox' = <<>> /\ \A b \in Bids : bid'[b] = NoBid
      BY <1>2 DEF Unmount, Connect
    <2>2. BidsAreOurs'
      BY <2>1, NoBidIsOurs DEF BidsAreOurs, BidIsOurs
    <2> QED BY <2>1, <2>2 DEF PricesAreNoted, ShownPriceIsOurs, GetsAreOurs, FramesAreOurs
  <1>3. ASSUME NEW a \in Auctions, Mount(a) PROVE PriceInv'
    BY <1>3, BeginHolds DEF Mount, Connect
  <1>4. ASSUME NEW a \in Auctions, Rerun(a) PROVE PriceInv'
    <2>1. \A b \in Bids : bid'[b] = [bid[b] EXCEPT !.early = bid[b].st # "idle"]
      BY <1>4 DEF Rerun
    <2>2. gets' = {NewGet(a)} /\ inbox' = <<>> /\ Begin(a) /\ UNCHANGED server
      BY <1>4 DEF Rerun, Dismissed, Connect
    <2> QED BY <2>1, <2>2, BeginHolds
  <1>5. ASSUME NEW a \in Auctions, NEW p \in Prices(a), OtherBid(a, p) PROVE PriceInv'
    <2>1. Take(a, p) /\ UNCHANGED <<row, auction, shown, seen, crossed, bid, gets>>
      BY <1>5 DEF OtherBid, state
    <2>2. PricesAreNoted' /\ since \subseteq since'
      BY <2>1, NewPriceNoted DEF Take
    <2> QED BY <2>1, <2>2, ShownKept, GetsKept, TakeFrames, BidsKept
  <1>6. ASSUME NEW a \in Auctions, Seed(a) PROVE PriceInv'
    <2>1. UNCHANGED <<row, auction, shown, seen, crossed, bid, gets, inbox>>
      BY <1>6 DEF Seed, state, stream
    <2>2. PricesAreNoted' /\ since \subseteq since'
      BY <1>6, <2>1, NewPriceNoted DEF Seed
    <2>3. \A i \in 1..Len(inbox') : \E j \in 1..Len(inbox) : inbox'[i] = inbox[j]
      BY <2>1
    <2> QED BY <2>1, <2>2, <2>3, ShownKept, GetsKept, FramesKept, BidsKept
  <1>7. ASSUME NEW a \in Auctions, Settle(a) \/ Forget(a) PROVE PriceInv'
    <2>1. UNCHANGED <<auction, since, shown, seen, crossed, bid, gets, inbox>>
      BY <1>7 DEF Settle, Forget, state, stream, history
    <2>2. PricesAreNoted'
      <3> SUFFICES ASSUME auction # None
                   PROVE  {row'[auction], price'[auction]} \ {0} \subseteq since
        BY <2>1 DEF PricesAreNoted
      <3>1. {row'[auction], price'[auction]} \subseteq {row[auction], price[auction], 0}
        BY <1>7 DEF Settle, Forget, Types, ServerTypes, PageTypes
      <3> QED BY <3>1 DEF PricesAreNoted
    <2>3. \A i \in 1..Len(inbox') : \E j \in 1..Len(inbox) : inbox'[i] = inbox[j]
      BY <2>1
    <2> QED BY <2>1, <2>2, <2>3, ShownKept, GetsKept, FramesKept, BidsKept
  <1>8. ASSUME NEW g \in gets, ReadRow(g) \/ ReadPrice(g) PROVE PriceInv'
    <2>1. UNCHANGED <<row, price, auction, since, shown, seen, crossed, bid, inbox>>
      BY <1>8 DEF ReadRow, ReadPrice, server, state, stream, history
    <2>2. g.auction = auction /\ auction # None
      BY TerminalAssumption DEF Types, GetTypes, GetRecords
    <2>3. GetsAreOurs'
      <3> SUFFICES ASSUME NEW h \in gets', h.st # "sent" /\ h.price # 0
                   PROVE  h.price \in since
        BY <2>1 DEF GetsAreOurs
      <3>1. h \in gets \/ h.price \in {row[auction], price[auction]}
        BY <1>8, <2>2 DEF ReadRow, ReadPrice, Types, GetTypes, GetRecords
      <3> QED BY <2>2, <3>1 DEF GetsAreOurs, PricesAreNoted
    <2>4. \A i \in 1..Len(inbox') : \E j \in 1..Len(inbox) : inbox'[i] = inbox[j]
      BY <2>1
    <2>5. PricesAreNoted'
      BY <2>1 DEF PricesAreNoted
    <2> QED BY <2>1, <2>3, <2>4, <2>5, ShownKept, FramesKept, BidsKept
  <1>9. ASSUME NEW g \in gets, Loaded(g) PROVE PriceInv'
    <2>1. UNCHANGED <<row, price, auction, since, crossed, bid, inbox>> /\ gets' \subseteq gets
      BY <1>9 DEF Loaded, server, stream
    <2>2. ShownPriceIsOurs'
      <3>1. CASE g.price = 0
        BY <1>9, <2>1, <3>1 DEF Loaded, ShownPriceIsOurs
      <3>2. CASE g.price # 0
        <4>1. shown' = g.price /\ g.price \in since
          BY <1>9, <3>2 DEF Loaded, GetsAreOurs
        <4> QED BY <2>1, <4>1 DEF ShownPriceIsOurs
      <3> QED BY <3>1, <3>2
    <2> QED BY <1>kept, <2>1, <2>2
  <1>10. ASSUME NEW g \in gets, NotLoaded(g) PROVE PriceInv'
    <2>1. UNCHANGED <<row, price, auction, since, shown, seen, crossed, bid, inbox>>
          /\ gets' \subseteq gets
      BY <1>10 DEF NotLoaded, server, state, stream, history
    <2> QED BY <1>kept, <2>1
  <1>11. CASE ServerGreets
    <2>1. /\ UNCHANGED <<row, price, auction, since, shown, seen, crossed, bid, gets>>
          /\ inbox' = Append(inbox, AuthSuccess)
      BY <1>11 DEF ServerGreets, server, state, history
    <2>2. FramesAreOurs'
      <3> SUFFICES ASSUME NEW i \in 1..Len(inbox'), auction # None, ForThisAuction(inbox'[i])
                   PROVE  inbox'[i].price \in since
        BY <2>1 DEF FramesAreOurs, ForThisAuction
      <3>1. inbox \in Seq(FrameRecords)
        BY DEF Types, StreamTypes
      <3>2. i # Len(inbox) + 1
        BY <2>1, <3>1 DEF ForThisAuction, AuthSuccess
      <3>3. i \in 1..Len(inbox) /\ inbox'[i] = inbox[i]
        BY <2>1, <3>1, <3>2
      <3> QED BY <3>3 DEF FramesAreOurs
    <2>3. PricesAreNoted'
      BY <2>1 DEF PricesAreNoted
    <2> QED BY <2>1, <2>2, <2>3, ShownKept, GetsKept, BidsKept
  <1>12. CASE Receive
    <2>1. /\ UNCHANGED <<row, price, auction, since, crossed, bid, gets>>
          /\ inbox' = Tail(inbox) /\ inbox # <<>> /\ inbox \in Seq(FrameRecords)
      BY <1>12 DEF Receive, Types, StreamTypes, server
    <2>2. \A i \in 1..Len(inbox') : \E j \in 1..Len(inbox) : inbox'[i] = inbox[j]
      <3> SUFFICES ASSUME NEW i \in 1..Len(inbox')
                   PROVE  \E j \in 1..Len(inbox) : inbox'[i] = inbox[j]
        OBVIOUS
      <3>1. inbox'[i] = inbox[i + 1] /\ i + 1 \in 1..Len(inbox)
        BY <2>1
      <3> QED BY <3>1
    <2>3. ShownPriceIsOurs'
      <3>1. CASE ForThisAuction(Head(inbox))
        <4>1. shown' = inbox[1].price /\ 1 \in 1..Len(inbox) /\ ForThisAuction(inbox[1])
          BY <1>12, <2>1, <3>1 DEF Receive
        <4>2. auction # None => inbox[1].price \in since
          BY <4>1 DEF FramesAreOurs
        <4> QED BY <2>1, <4>1, <4>2 DEF ShownPriceIsOurs
      <3>2. CASE ~ForThisAuction(Head(inbox))
        <4>1. UNCHANGED <<shown, seen>>
          BY <1>12, <3>2 DEF Receive
        <4> QED BY <2>1, <4>1 DEF ShownPriceIsOurs
      <3> QED BY <3>1, <3>2
    <2> QED BY <1>kept, <2>1, <2>2, <2>3
  <1>13. ASSUME NEW b \in Bids, Submit(b) PROVE PriceInv'
    <2>1. UNCHANGED <<row, price, auction, since, shown, seen, crossed, gets, inbox>>
      BY <1>13 DEF Submit, server, state, stream, history
    <2>2. PICK p \in Prices(auction) :
            bid' = [bid EXCEPT ![b] = [auction |-> auction, amount |-> p, st |-> "sent",
                                       early |-> FALSE]]
      BY <1>13 DEF Submit
    <2>3. BidIsOurs(bid[b])'
      BY <1>13, <2>1, <2>2 DEF Submit, Types, BidTypes, PageTypes, BidIsOurs
    <2>4. \A c \in Bids \ {b} : bid'[c] = bid[c]
      BY <2>2 DEF Types, BidTypes
    <2>5. BidsAreOurs'
      BY <2>1, <2>3, <2>4, BidsKept
    <2>6. PricesAreNoted' /\ FramesAreOurs'
      BY <2>1 DEF PricesAreNoted, FramesAreOurs, ForThisAuction
    <2> QED BY <2>1, <2>5, <2>6, ShownKept, GetsKept
  <1>14. ASSUME NEW b \in Bids, ServerTakes(b) PROVE PriceInv'
    <2>1. /\ UNCHANGED <<row, auction, shown, seen, crossed, gets>>
          /\ Take(bid[b].auction, bid[b].amount)
      BY <1>14 DEF ServerTakes, state
    <2>2. bid[b] \in BidRecords /\ BidIsOurs(bid[b]) /\ bid[b].st = "sent"
      BY <1>14 DEF ServerTakes, Types, BidTypes, BidsAreOurs
    <2>3. bid[b].auction \in Auctions /\ (~bid[b].early => bid[b].auction = auction)
      BY <2>2 DEF BidIsOurs
    <2>4. PricesAreNoted' /\ since \subseteq since'
      BY <2>1, <2>3, NewPriceNoted DEF Take
    <2>5. BidIsOurs(bid[b])'
      <3>1. bid'[b] = [bid[b] EXCEPT !.st = "taken"]
        BY <1>14 DEF ServerTakes, Types, BidTypes
      <3>2. /\ bid'[b].auction = bid[b].auction /\ bid'[b].amount = bid[b].amount
            /\ bid'[b].early = bid[b].early
        BY <2>2, <3>1 DEF BidRecords
      <3>3. bid[b].auction = auction => bid[b].amount \in since'
        BY <2>1 DEF Take, Note
      <3> QED BY <2>1, <2>3, <3>2, <3>3 DEF BidIsOurs
    <2>6. \A c \in Bids \ {b} : bid'[c] = bid[c]
      BY <1>14 DEF ServerTakes, Types, BidTypes
    <2>7. BidsAreOurs'
      BY <2>1, <2>4, <2>5, <2>6, BidsKept
    <2> QED BY <2>1, <2>4, <2>7, ShownKept, GetsKept, TakeFrames
  <1>15. ASSUME NEW b \in Bids, BidAnswered(b) \/ BidFails(b) PROVE PriceInv'
    <2>1. UNCHANGED <<row, price, auction, since, gets, inbox>>
      BY <1>15 DEF BidAnswered, BidFails, server, stream, history
    <2>2. \A c \in Bids : bid'[c] \in {bid[c], NoBid}
      BY <1>15 DEF BidAnswered, BidFails, Types, BidTypes
    <2>3. BidIsOurs(bid[b])
      BY DEF BidsAreOurs
    <2>4. ShownPriceIsOurs'
      <3>1. CASE UNCHANGED <<shown, seen, crossed>>
        BY <2>1, <3>1 DEF ShownPriceIsOurs
      <3>2. CASE BidAnswered(b) /\ Shows(b) /\ bid[b].early
        <4>1. crossed'
          BY <3>2 DEF BidAnswered
        <4> QED BY <4>1 DEF ShownPriceIsOurs
      <3>3. CASE BidAnswered(b) /\ Shows(b) /\ ~bid[b].early
        <4>1. shown' = bid[b].amount
          BY <3>3 DEF BidAnswered
        <4>2. bid[b].amount \in since
          BY <2>3, <3>3 DEF Shows, BidIsOurs
        <4> QED BY <2>1, <4>1, <4>2 DEF ShownPriceIsOurs
      <3> QED BY <1>15, <3>1, <3>2, <3>3 DEF BidAnswered, BidFails, state, history
    <2>5. PricesAreNoted' /\ FramesAreOurs'
      BY <2>1 DEF PricesAreNoted, FramesAreOurs, ForThisAuction
    <2> QED BY <2>1, <2>2, <2>4, <2>5, GetsKept, BidsKept
  <1>16. CASE UNCHANGED vars
    <2>1. UNCHANGED <<row, price, auction, since, shown, seen, crossed, bid, gets, inbox>>
      BY <1>16 DEF vars, server, state, stream, history
    <2> QED BY <1>kept, <2>1
  <1> QED
    BY <1>1, <1>2, <1>3, <1>4, <1>5, <1>6, <1>7, <1>8, <1>9, <1>10, <1>11, <1>12, <1>13,
       <1>14, <1>15, <1>16 DEF Next

\* The price shown is one this auction has had since the user came, whichever of
\* row and Redis a GET was answered from, whatever was settled, lost or seeded
\* meanwhile, and in whatever order GET, stream and bids are answered
\* (AuctionTerminal.jsx 50-61, 92; handlers.go 600-611).
THEOREM ShownPriceHolds == Spec => []ShownPriceIsOurs
  <1>1. Init => PriceInv
    BY DEF Init, PriceInv, PricesAreNoted, ShownPriceIsOurs, GetsAreOurs, FramesAreOurs,
           BidsAreOurs, BidIsOurs, NoBid
  <1>2. PriceInv => ShownPriceIsOurs
    BY DEF PriceInv
  <1> QED BY <1>1, <1>2, InitTypes, StepTypes, StepPrice, PTL DEF Spec
=============================================================================
