--------------------------------- MODULE Hub ---------------------------------
(***************************************************************************)
(* The WebSocket hub: for every connection one run of Hub.ServeHTTP, which *)
(* authenticates, greets, starts the goroutines writer and subscribe, and  *)
(* then reads until the connection breaks.  subscribe hands each update    *)
(* that Redis publishes to a channel of Buffer places that writer empties; *)
(* it never waits for a place.  The updates of all auctions are published  *)
(* on channels that one pattern matches: update i is the i-th published.   *)
(***************************************************************************)
EXTENDS Integers, Sequences

CONSTANTS Conns,         \* the connections: a client that reconnects is another
          FrameType,     \* FrameType[c]: "type" in the first frame c's client sends
          Buffer,        \* the 32 places of Conn.send
          MaxPublished,  \* bound on the updates
          MaxFaults      \* bound on failures

ASSUME HubAssumption ==
  /\ Buffer \in Nat \ {0}
  /\ {MaxPublished, MaxFaults} \subseteq Nat

VARIABLES
  published, faults,
  phase,     \* where ServeHTTP is
  clients,   \* the connections whose client is still there
  sub, next, held,   \* subscribe: its step, the next update that Redis has for
                     \* it, and the update between ReceiveMessage and select
  queue,     \* Conn.send
  writer,
  got,       \* the frames the client has received, 0 standing for AUTH_SUCCESS
  since,     \* history: the first update of the subscription
  dropped    \* history: updates for which the channel had no place

conn == <<phase, clients, sub, next, held, queue, writer, got, since, dropped>>
vars == <<published, faults, conn>>

\* "read" until the reader returns; then ServeHTTP cancels the context, waits
\* for subscribe and closes the channel.
Phases == {"auth", "greet", "start", "read", "wait", "ended", "refused"}
SubSteps == {"none", "subscribe", "receive", "select", "done"}
AuthSuccess == 0

Cancelled(c) == phase[c] \in {"wait", "ended"}
ChannelClosed(c) == phase[c] = "ended"
SocketOpen(c) == phase[c] \in {"greet", "start", "read"}

Init ==
  /\ published = 0 /\ faults = 0
  /\ phase = [c \in Conns |-> "auth"]
  /\ clients = Conns
  /\ sub = [c \in Conns |-> "none"]
  /\ next = [c \in Conns |-> 0] /\ held = [c \in Conns |-> 0]
  /\ queue = [c \in Conns |-> <<>>]
  /\ writer = [c \in Conns |-> "none"]
  /\ got = [c \in Conns |-> <<>>]
  /\ since = [c \in Conns |-> 0]
  /\ dropped = [c \in Conns |-> {}]

-----------------------------------------------------------------------------
(* The environment. *)

Fault == faults < MaxFaults /\ faults' = faults + 1

\* The bid script's or the worker's PUBLISH.
Publish ==
  /\ published < MaxPublished
  /\ published' = published + 1
  /\ UNCHANGED <<faults, conn>>

\* The client closes the connection, or loses it.
PeerLeaves(c) ==
  /\ c \in clients /\ phase[c] # "refused"
  /\ Fault
  /\ clients' = clients \ {c}
  /\ UNCHANGED <<published, phase, sub, next, held, queue, writer, got, since,
                 dropped>>

Deliver(c, frame) ==
  got' = IF c \in clients THEN [got EXCEPT ![c] = Append(@, frame)] ELSE got

-----------------------------------------------------------------------------
(* ServeHTTP. *)

\* The first frame arrives in time, asks for "AUTH" and carries a token whose
\* user exists; the connection joins h.conns.
Authenticate(c) ==
  /\ phase[c] = "auth"
  /\ FrameType[c] = "AUTH"
  /\ phase' = [phase EXCEPT ![c] = "greet"]
  /\ UNCHANGED <<published, faults, clients, sub, next, held, queue, writer, got,
                 since, dropped>>

\* Another type of frame, or (a fault) none within three seconds, an unknown
\* user, or PostgreSQL failing.  AUTH_ERROR, and the connection is closed.
RefuseConnection(c) ==
  /\ phase[c] = "auth"
  /\ \/ (FrameType[c] # "AUTH" \/ c \notin clients) /\ UNCHANGED faults
     \/ FrameType[c] = "AUTH" /\ c \in clients /\ Fault
  /\ phase' = [phase EXCEPT ![c] = "refused"]
  /\ UNCHANGED <<published, clients, sub, next, held, queue, writer, got, since,
                 dropped>>

\* The error of the write is ignored.
Greet(c) ==
  /\ phase[c] = "greet"
  /\ phase' = [phase EXCEPT ![c] = "start"]
  /\ Deliver(c, AuthSuccess)
  /\ UNCHANGED <<published, faults, clients, sub, next, held, queue, writer, since,
                 dropped>>

\* Mutant of Start: the goroutines are started before AUTH_SUCCESS is written.
StartBeforeGreeting(c) ==
  /\ phase[c] \in {"greet", "start"}
  /\ sub[c] = "none"
  /\ phase' = [phase EXCEPT ![c] = IF @ = "start" THEN "read" ELSE @]
  /\ sub' = [sub EXCEPT ![c] = "subscribe"]
  /\ writer' = [writer EXCEPT ![c] = "run"]
  /\ UNCHANGED <<published, faults, clients, next, held, queue, got, since,
                 dropped>>

Start(c) ==
  /\ phase[c] = "start"
  /\ phase' = [phase EXCEPT ![c] = "read"]
  /\ sub' = [sub EXCEPT ![c] = "subscribe"]
  /\ writer' = [writer EXCEPT ![c] = "run"]
  /\ UNCHANGED <<published, faults, clients, next, held, queue, got, since,
                 dropped>>

\* Mutant of ReaderEnds: the deferred calls do not wait for subscribe.
ReaderEndsAtOnce(c) ==
  /\ phase[c] = "read"
  /\ \/ (c \notin clients \/ writer[c] = "done") /\ UNCHANGED faults
     \/ c \in clients /\ writer[c] # "done" /\ Fault
  /\ phase' = [phase EXCEPT ![c] = "ended"]
  /\ UNCHANGED <<published, clients, sub, next, held, queue, writer, got, since,
                 dropped>>

\* The read fails: the client has gone, or no pong has come for 60 s, because
\* nobody sends pings any more or (a fault) they are late.  The reader removes
\* the connection from h.conns and closes the socket; the context is cancelled.
ReaderEnds(c) ==
  /\ phase[c] = "read"
  /\ \/ (c \notin clients \/ writer[c] = "done") /\ UNCHANGED faults
     \/ c \in clients /\ writer[c] # "done" /\ Fault
  /\ phase' = [phase EXCEPT ![c] = "wait"]
  /\ UNCHANGED <<published, clients, sub, next, held, queue, writer, got, since,
                 dropped>>

\* <-subscribeDone; close(c.send).
CloseChannel(c) ==
  /\ phase[c] = "wait" /\ sub[c] = "done"
  /\ phase' = [phase EXCEPT ![c] = "ended"]
  /\ UNCHANGED <<published, faults, clients, sub, next, held, queue, writer, got,
                 since, dropped>>

-----------------------------------------------------------------------------
(* The goroutine subscribe. *)

\* Redis registers the subscription: it has the updates published from now on.
Subscribe(c) ==
  /\ sub[c] = "subscribe"
  /\ sub' = [sub EXCEPT ![c] = "receive"]
  /\ next' = [next EXCEPT ![c] = published + 1]
  /\ since' = [since EXCEPT ![c] = published + 1]
  /\ UNCHANGED <<published, faults, phase, clients, held, queue, writer, got,
                 dropped>>

\* Mutant of Receive: only the last update is taken.
ReceiveLatest(c) ==
  /\ sub[c] = "receive" /\ next[c] <= published
  /\ sub' = [sub EXCEPT ![c] = "select"]
  /\ held' = [held EXCEPT ![c] = published]
  /\ next' = [next EXCEPT ![c] = published + 1]
  /\ UNCHANGED <<published, faults, phase, clients, queue, writer, got, since,
                 dropped>>

Receive(c) ==
  /\ sub[c] = "receive" /\ next[c] <= published
  /\ sub' = [sub EXCEPT ![c] = "select"]
  /\ held' = [held EXCEPT ![c] = next[c]]
  /\ next' = [next EXCEPT ![c] = next[c] + 1]
  /\ UNCHANGED <<published, faults, phase, clients, queue, writer, got, since,
                 dropped>>

\* ReceiveMessage fails, with Redis or because the context is cancelled:
\* subscribe returns for good and the connection stays as it is.
StopReceiving(c) ==
  /\ sub[c] \in {"subscribe", "receive"}
  /\ \/ Cancelled(c) /\ UNCHANGED faults
     \/ ~Cancelled(c) /\ Fault
  /\ sub' = [sub EXCEPT ![c] = "done"]
  /\ UNCHANGED <<published, phase, clients, next, held, queue, writer, got, since,
                 dropped>>

\* Mutant of HasPlace: a channel without a bound.
AlwaysAPlace(c) == TRUE

HasPlace(c) == Len(queue[c]) < Buffer

\* The select: the update is sent, or dropped when there is no place, or, once
\* the context is cancelled, subscribe returns.
Select(c) ==
  /\ sub[c] = "select"
  /\ held' = [held EXCEPT ![c] = 0]
  /\ \/ /\ HasPlace(c)
        /\ queue' = [queue EXCEPT ![c] = Append(@, held[c])]
        /\ sub' = [sub EXCEPT ![c] = "receive"]
        /\ UNCHANGED dropped
     \/ /\ ~HasPlace(c) /\ ~Cancelled(c)
        /\ dropped' = [dropped EXCEPT ![c] = @ \cup {held[c]}]
        /\ sub' = [sub EXCEPT ![c] = "receive"]
        /\ UNCHANGED queue
     \/ /\ Cancelled(c)
        /\ sub' = [sub EXCEPT ![c] = "done"]
        /\ UNCHANGED <<queue, dropped>>
  /\ UNCHANGED <<published, faults, phase, clients, next, writer, got, since>>

-----------------------------------------------------------------------------
(* The goroutine writer. *)

\* It takes an update and writes it.  A write to a socket that is closed fails,
\* one to a client that has gone may; any other failure is a fault.
Write(c) ==
  /\ writer[c] = "run" /\ queue[c] # <<>>
  /\ queue' = [queue EXCEPT ![c] = Tail(@)]
  /\ \/ /\ SocketOpen(c)
        /\ Deliver(c, Head(queue[c]))
        /\ UNCHANGED <<faults, writer>>
     \/ /\ \/ (~SocketOpen(c) \/ c \notin clients) /\ UNCHANGED faults
           \/ SocketOpen(c) /\ c \in clients /\ Fault
        /\ writer' = [writer EXCEPT ![c] = "done"]
        /\ UNCHANGED got
  /\ UNCHANGED <<published, phase, clients, sub, next, held, since, dropped>>

\* A ping fails, the context is cancelled or the channel is closed and empty.
WriterStops(c) ==
  /\ writer[c] = "run"
  /\ \/ (Cancelled(c) \/ c \notin clients) /\ UNCHANGED faults
     \/ ~Cancelled(c) /\ c \in clients /\ Fault
  /\ writer' = [writer EXCEPT ![c] = "done"]
  /\ UNCHANGED <<published, phase, clients, sub, next, held, queue, got, since,
                 dropped>>

-----------------------------------------------------------------------------
Serve(c) ==
  \/ Authenticate(c) \/ RefuseConnection(c) \/ Greet(c) \/ Start(c)
  \/ ReaderEnds(c) \/ CloseChannel(c)

Relay(c) == Subscribe(c) \/ Receive(c) \/ StopReceiving(c) \/ Select(c)

Next ==
  \/ Publish
  \/ \E c \in Conns : \/ PeerLeaves(c) \/ Serve(c) \/ Relay(c)
                     \/ Write(c) \/ WriterStops(c)

Spec == Init /\ [][Next]_vars

\* Every goroutine that can run does; nothing is owed to a call that may fail.
FairSpec ==
  /\ Spec
  /\ \A c \in Conns : /\ WF_vars(Receive(c)) /\ WF_vars(Select(c))
                      /\ WF_vars(Write(c))

-----------------------------------------------------------------------------
(* Properties. *)

Elements(s) == {s[i] : i \in 1..Len(s)}
Received(c) == Elements(got[c])
Queued(c) == Elements(queue[c])

TypeOK ==
  /\ published \in 0..MaxPublished /\ faults \in 0..MaxFaults
  /\ phase \in [Conns -> Phases] /\ clients \subseteq Conns
  /\ sub \in [Conns -> SubSteps] /\ writer \in [Conns -> {"none", "run", "done"}]
  /\ next \in [Conns -> Nat] /\ held \in [Conns -> Nat]
  /\ since \in [Conns -> Nat]
  /\ queue \in [Conns -> Seq(Nat)] /\ got \in [Conns -> Seq(Nat)]
  /\ dropped \in [Conns -> SUBSET Nat]
  /\ \A c \in Conns : Len(queue[c]) <= Buffer

\* subscribe never finds its channel closed when it sends: Go would panic, and
\* the whole server with it.  ServeHTTP waits for subscribe before it closes.
NeverSendsOnClosedChannel ==
  \A c \in Conns : sub[c] = "select" => ~ChannelClosed(c)

\* A client gets AUTH_SUCCESS first, then updates in the order in which Redis
\* published them, none twice, whatever is dropped.
ReceivesInOrder ==
  \A c \in Conns : \A i, j \in 1..Len(got[c]) : i < j => got[c][i] < got[c][j]

\* On a connection that works, every update since the subscription has reached
\* the client, is on its way, or was dropped for want of a place.
UpdatesAccountedFor ==
  \A c \in Conns :
    /\ sub[c] \in {"receive", "select"} /\ writer[c] = "run"
    /\ phase[c] = "read" /\ c \in clients
    => \A m \in since[c]..published :
         m \in Received(c) \cup Queued(c) \cup {held[c]} \cup dropped[c]
               \cup (next[c]..published)

\* The hub is such a stream to every client, until the connection stops working
\* and from whatever fails: a client that is never Buffer updates behind misses
\* none of those since its subscription.
Stream == INSTANCE UpdateStream
            WITH Readers <- Conns, Capacity <- Buffer, Greeting <- AuthSuccess,
                 log <- published, delivered <- got, from <- since, lost <- dropped

ImplementsStream == Stream!Spec

\* Such an update is not only on its way: it arrives, unless it is dropped or
\* the connection stops working.
UpdatesArrive ==
  \A c \in Conns, m \in 1..MaxPublished :
    (since[c] \in 1..m /\ m <= published)
      ~> \/ m \in Received(c) \cup dropped[c]
         \/ sub[c] = "done" \/ writer[c] = "done"
         \/ phase[c] # "read" \/ c \notin clients
=============================================================================
