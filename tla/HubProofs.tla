------------------------------- MODULE HubProofs -------------------------------
(***************************************************************************)
(* The hub's promises for any number of connections, any buffer and any    *)
(* number of failures.  Life says how the three goroutines of a connection *)
(* depend on where ServeHTTP is; Order says that what the client has got,  *)
(* the channel and the update subscribe holds are one increasing sequence. *)
(* Flow adds that this sequence has no gaps but what was dropped; with it  *)
(* the hub implements UpdateStream.                                        *)
(***************************************************************************)
EXTENDS Hub, FiniteSetTheorems, TLAPS

LEMMA AppendElements ==
  ASSUME NEW s \in Seq(Nat), NEW e \in Nat
  PROVE  /\ Append(s, e) \in Seq(Nat)
         /\ Len(Append(s, e)) = Len(s) + 1
         /\ \A i \in 1..Len(s) : Append(s, e)[i] = s[i]
         /\ Append(s, e)[Len(s) + 1] = e
         /\ Elements(Append(s, e)) = Elements(s) \cup {e}
<1>1. /\ Append(s, e) \in Seq(Nat)
      /\ Len(s) \in Nat /\ Len(Append(s, e)) = Len(s) + 1
      /\ \A i \in 1..Len(s) : Append(s, e)[i] = s[i]
      /\ Append(s, e)[Len(s) + 1] = e
  OBVIOUS
<1>2. 1..(Len(s) + 1) = (1..Len(s)) \cup {Len(s) + 1}
  BY <1>1
<1>3. Elements(Append(s, e)) = Elements(s) \cup {e}
  <2> DEFINE a == Append(s, e)
  <2>1. Elements(a) = {a[i] : i \in (1..Len(s)) \cup {Len(s) + 1}}
    BY <1>1, <1>2 DEF Elements
  <2>2. Elements(a) = {a[i] : i \in 1..Len(s)} \cup {a[Len(s) + 1]}
    BY <2>1
  <2>3. {a[i] : i \in 1..Len(s)} = Elements(s)
    BY <1>1 DEF Elements
  <2> QED BY <2>2, <2>3, <1>1
<1> QED BY <1>1, <1>3

LEMMA TailElements ==
  ASSUME NEW s \in Seq(Nat), s # <<>>
  PROVE  /\ Tail(s) \in Seq(Nat) /\ Head(s) \in Nat /\ Head(s) = s[1]
         /\ Len(s) \in Nat /\ Len(s) > 0 /\ Len(Tail(s)) = Len(s) - 1
         /\ \A i \in 1..Len(Tail(s)) : Tail(s)[i] = s[i + 1]
         /\ Elements(s) = {Head(s)} \cup Elements(Tail(s))
<1>1. /\ Tail(s) \in Seq(Nat) /\ Head(s) \in Nat /\ Head(s) = s[1]
      /\ Len(s) \in Nat /\ Len(s) > 0 /\ Len(Tail(s)) = Len(s) - 1
      /\ \A i \in 1..Len(Tail(s)) : Tail(s)[i] = s[i + 1]
  OBVIOUS
<1>2. ASSUME NEW x \in Elements(s) PROVE x \in {Head(s)} \cup Elements(Tail(s))
  <2>1. PICK i \in 1..Len(s) : x = s[i]
    BY DEF Elements
  <2>2. CASE i = 1
    BY <2>1, <2>2, <1>1
  <2>3. CASE i # 1
    <3>1. i - 1 \in 1..Len(Tail(s)) /\ (i - 1) + 1 = i
      BY <2>3, <1>1
    <3> QED BY <2>1, <3>1, <1>1 DEF Elements
  <2> QED BY <2>2, <2>3
<1>3. ASSUME NEW x \in {Head(s)} \cup Elements(Tail(s)) PROVE x \in Elements(s)
  <2>1. CASE x = Head(s)
    BY <2>1, <1>1 DEF Elements
  <2>2. CASE x \in Elements(Tail(s))
    <3>1. PICK i \in 1..Len(Tail(s)) : x = Tail(s)[i]
      BY <2>2 DEF Elements
    <3>2. i + 1 \in 1..Len(s) /\ x = s[i + 1]
      BY <3>1, <1>1
    <3> QED BY <3>2 DEF Elements
  <2> QED BY <2>1, <2>2
<1> QED BY <1>1, <1>2, <1>3

LEMMA FaultsBounded ==
  ASSUME faults \in 0..MaxFaults, UNCHANGED faults \/ Fault
  PROVE  faults' \in 0..MaxFaults
BY HubAssumption DEF Fault

LEMMA QueueReplaced ==
  ASSUME TypeOK, NEW c \in Conns, NEW q \in Seq(Nat), Len(q) <= Buffer,
         queue' = [queue EXCEPT ![c] = q]
  PROVE  queue' \in [Conns -> Seq(Nat)] /\ \A d \in Conns : Len(queue'[d]) <= Buffer
<1>1. queue \in [Conns -> Seq(Nat)] /\ \A d \in Conns : Len(queue[d]) <= Buffer
  BY DEF TypeOK
<1>2. queue' \in [Conns -> Seq(Nat)]
  BY <1>1
<1>3. ASSUME NEW d \in Conns PROVE Len(queue'[d]) <= Buffer
  BY <1>1, <1>3
<1> QED BY <1>2, <1>3

\* Every variable keeps its type, and no channel holds more than Buffer updates.
THEOREM TypeCorrect == Spec => []TypeOK
<1>1. Init => TypeOK
  BY HubAssumption DEF Init, TypeOK, Phases, SubSteps
<1>2. TypeOK /\ [Next]_vars => TypeOK'
  <2> SUFFICES ASSUME TypeOK, [Next]_vars PROVE TypeOK'
    OBVIOUS
  <2> USE HubAssumption DEF TypeOK, Phases, SubSteps
  <2>1. CASE Publish
    BY <2>1 DEF Publish, conn
  <2>2. ASSUME NEW c \in Conns, PeerLeaves(c) PROVE TypeOK'
    <3>1. UNCHANGED faults \/ Fault
      BY <2>2 DEF PeerLeaves
    <3> QED BY <2>2, <3>1, FaultsBounded DEF PeerLeaves
  <2>3. ASSUME NEW c \in Conns, Authenticate(c) PROVE TypeOK'
    BY <2>3 DEF Authenticate
  <2>4. ASSUME NEW c \in Conns, RefuseConnection(c) PROVE TypeOK'
    <3>1. UNCHANGED faults \/ Fault
      BY <2>4 DEF RefuseConnection
    <3> QED BY <2>4, <3>1, FaultsBounded DEF RefuseConnection
  <2>5. ASSUME NEW c \in Conns, Greet(c) PROVE TypeOK'
    <3>1. Append(got[c], AuthSuccess) \in Seq(Nat)
      BY AppendElements DEF AuthSuccess
    <3>2. got' \in [Conns -> Seq(Nat)]
      BY <2>5, <3>1 DEF Greet, Deliver
    <3>3. phase' \in [Conns -> Phases]
      BY <2>5 DEF Greet
    <3>4. UNCHANGED <<published, faults, clients, sub, next, held, queue, writer,
                      since, dropped>>
      BY <2>5 DEF Greet
    <3> QED BY <3>2, <3>3, <3>4
  <2>6. ASSUME NEW c \in Conns, Start(c) PROVE TypeOK'
    BY <2>6 DEF Start
  <2>7. ASSUME NEW c \in Conns, ReaderEnds(c) PROVE TypeOK'
    <3>1. UNCHANGED faults \/ Fault
      BY <2>7 DEF ReaderEnds
    <3> QED BY <2>7, <3>1, FaultsBounded DEF ReaderEnds
  <2>8. ASSUME NEW c \in Conns, CloseChannel(c) PROVE TypeOK'
    BY <2>8 DEF CloseChannel
  <2>9. ASSUME NEW c \in Conns, Subscribe(c) PROVE TypeOK'
    <3>1. published + 1 \in Nat
      OBVIOUS
    <3>2. next' \in [Conns -> Nat] /\ since' \in [Conns -> Nat]
      BY <2>9, <3>1 DEF Subscribe
    <3>3. /\ sub' \in [Conns -> SubSteps]
          /\ UNCHANGED <<published, faults, phase, clients, held, queue, writer,
                         got, dropped>>
      BY <2>9 DEF Subscribe
    <3> QED BY <3>2, <3>3
  <2>10. ASSUME NEW c \in Conns, Receive(c) PROVE TypeOK'
    <3>1. next[c] \in Nat /\ next[c] + 1 \in Nat
      OBVIOUS
    <3>2. held' \in [Conns -> Nat] /\ next' \in [Conns -> Nat]
      BY <2>10, <3>1 DEF Receive
    <3>3. /\ sub' \in [Conns -> SubSteps]
          /\ UNCHANGED <<published, faults, phase, clients, queue, writer, got,
                         since, dropped>>
      BY <2>10 DEF Receive
    <3> QED BY <3>2, <3>3
  <2>11. ASSUME NEW c \in Conns, StopReceiving(c) PROVE TypeOK'
    <3>1. UNCHANGED faults \/ Fault
      BY <2>11 DEF StopReceiving
    <3> QED BY <2>11, <3>1, FaultsBounded DEF StopReceiving
  <2>12. ASSUME NEW c \in Conns, Select(c) PROVE TypeOK'
    <3>1. Append(queue[c], held[c]) \in Seq(Nat)
          /\ Len(Append(queue[c], held[c])) = Len(queue[c]) + 1
      BY AppendElements
    <3>2. Len(queue[c]) \in Nat /\ Buffer \in Nat /\ queue[c] \in Seq(Nat)
      OBVIOUS
    <3>3. \/ HasPlace(c) /\ queue' = [queue EXCEPT ![c] = Append(@, held[c])]
             /\ sub' = [sub EXCEPT ![c] = "receive"] /\ dropped' = dropped
          \/ queue' = queue /\ sub' = [sub EXCEPT ![c] = "receive"]
             /\ dropped' = [dropped EXCEPT ![c] = @ \cup {held[c]}]
          \/ queue' = queue /\ sub' = [sub EXCEPT ![c] = "done"] /\ dropped' = dropped
      BY <2>12 DEF Select
    <3>4. queue' \in [Conns -> Seq(Nat)] /\ \A d \in Conns : Len(queue'[d]) <= Buffer
      <4>1. CASE HasPlace(c) /\ queue' = [queue EXCEPT ![c] = Append(@, held[c])]
        <5>1. Len(Append(queue[c], held[c])) <= Buffer
          BY <3>1, <3>2, <4>1 DEF HasPlace
        <5> QED BY <3>1, <4>1, <5>1, QueueReplaced
      <4>2. CASE queue' = queue
        BY <4>2
      <4> QED BY <3>3, <4>1, <4>2
    <3>5. held[c] \in Nat /\ dropped[c] \in SUBSET Nat
      OBVIOUS
    <3>7. dropped' \in [Conns -> SUBSET Nat]
      <4>1. dropped[c] \cup {held[c]} \in SUBSET Nat
        BY <3>5
      <4>2. dropped' = dropped \/ dropped' = [dropped EXCEPT ![c] = dropped[c] \cup {held[c]}]
        BY <3>3
      <4> QED BY <4>1, <4>2
    <3>8. sub' \in [Conns -> SubSteps]
      BY <3>3
    <3>6. held' \in [Conns -> Nat]
      BY <2>12 DEF Select
    <3> QED BY <2>12, <3>4, <3>6, <3>7, <3>8 DEF Select
  <2>13. ASSUME NEW c \in Conns, Write(c) PROVE TypeOK'
    <3>1. queue[c] \in Seq(Nat) /\ queue[c] # <<>>
      BY <2>13 DEF Write
    <3>2. Tail(queue[c]) \in Seq(Nat) /\ Len(Tail(queue[c])) = Len(queue[c]) - 1
          /\ Head(queue[c]) \in Nat /\ Len(queue[c]) \in Nat
      BY <3>1, TailElements
    <3>3. queue' = [queue EXCEPT ![c] = Tail(queue[c])]
      BY <2>13 DEF Write
    <3>4. queue' \in [Conns -> Seq(Nat)] /\ \A d \in Conns : Len(queue'[d]) <= Buffer
      <4>1. Len(Tail(queue[c])) <= Buffer
        BY <3>2
      <4> QED BY <3>2, <3>3, <4>1, QueueReplaced
    <3>5. got' = got \/ got' = [got EXCEPT ![c] = Append(@, Head(queue[c]))]
      BY <2>13 DEF Write, Deliver
    <3>6. Append(got[c], Head(queue[c])) \in Seq(Nat)
      BY <3>2, AppendElements
    <3>7. got' \in [Conns -> Seq(Nat)]
      BY <3>5, <3>6
    <3>8. UNCHANGED faults \/ Fault
      BY <2>13 DEF Write
    <3>9. writer' \in [Conns -> {"none", "run", "done"}]
      BY <2>13 DEF Write
    <3> QED BY <2>13, <3>4, <3>7, <3>8, <3>9, FaultsBounded DEF Write
  <2>14. ASSUME NEW c \in Conns, WriterStops(c) PROVE TypeOK'
    <3>1. UNCHANGED faults \/ Fault
      BY <2>14 DEF WriterStops
    <3> QED BY <2>14, <3>1, FaultsBounded DEF WriterStops
  <2>15. CASE UNCHANGED vars
    BY <2>15 DEF vars, conn
  <2> QED BY <2>1, <2>2, <2>3, <2>4, <2>5, <2>6, <2>7, <2>8, <2>9, <2>10, <2>11,
             <2>12, <2>13, <2>14, <2>15 DEF Next, Serve, Relay
<1> QED BY <1>1, <1>2, PTL DEF Spec

-----------------------------------------------------------------------------
(* Where ServeHTTP is decides what its goroutines may be doing. *)

Life(c) ==
  /\ phase[c] \in {"auth", "greet", "start", "refused"} => sub[c] = "none" /\ writer[c] = "none"
  /\ phase[c] \in {"auth", "greet", "refused"} => got[c] = <<>>
  /\ phase[c] = "start" => \A i \in 1..Len(got[c]) : got[c][i] = 0 /\ i = 1
  /\ phase[c] = "ended" => sub[c] = "done"
  /\ sub[c] = "none" => phase[c] \in {"auth", "greet", "start", "refused"}
  /\ sub[c] = "subscribe" => \A i \in 1..Len(got[c]) : got[c][i] = 0 /\ i = 1
  /\ sub[c] \in {"none", "subscribe"} => queue[c] = <<>>
  /\ sub[c] # "select" => held[c] = 0
  /\ sub[c] \in {"receive", "select"} =>
       next[c] <= published + 1 /\ 1 <= since[c] /\ since[c] <= next[c]
  /\ sub[c] = "select" => held[c] < next[c] /\ since[c] <= held[c]

LifeInv == \A c \in Conns : Life(c)

\* What an action that leaves connection d alone does not change of it.
Same(d) ==
  /\ phase'[d] = phase[d] /\ sub'[d] = sub[d] /\ next'[d] = next[d]
  /\ held'[d] = held[d] /\ queue'[d] = queue[d] /\ writer'[d] = writer[d]
  /\ got'[d] = got[d] /\ since'[d] = since[d] /\ dropped'[d] = dropped[d]
  /\ published' = published /\ (d \in clients' <=> d \in clients)

LEMMA OthersUntouched ==
  ASSUME TypeOK, NEW c \in Conns, NEW d \in Conns \ {c},
         PeerLeaves(c) \/ Serve(c) \/ Relay(c) \/ Write(c) \/ WriterStops(c)
  PROVE  Same(d)
<1> USE DEF TypeOK, Same
<1>1. CASE PeerLeaves(c)
  BY <1>1 DEF PeerLeaves
<1>2. CASE Authenticate(c) \/ RefuseConnection(c) \/ Start(c)
  BY <1>2 DEF Authenticate, RefuseConnection, Start
<1>3. CASE Greet(c)
  BY <1>3 DEF Greet, Deliver
<1>4. CASE ReaderEnds(c) \/ CloseChannel(c)
  BY <1>4 DEF ReaderEnds, CloseChannel
<1>5. CASE Subscribe(c) \/ Receive(c) \/ StopReceiving(c)
  BY <1>5 DEF Subscribe, Receive, StopReceiving
<1>6. CASE Select(c)
  BY <1>6 DEF Select
<1>7. CASE Write(c)
  BY <1>7 DEF Write, Deliver
<1>8. CASE WriterStops(c)
  BY <1>8 DEF WriterStops
<1> QED BY <1>1, <1>2, <1>3, <1>4, <1>5, <1>6, <1>7, <1>8 DEF Serve, Relay

\* What a step that relays an update does to its connection.
LEMMA SelectShape ==
  ASSUME TypeOK, NEW c \in Conns, Select(c)
  PROVE  /\ phase'[c] = phase[c] /\ writer'[c] = writer[c] /\ got'[c] = got[c]
         /\ next'[c] = next[c] /\ since'[c] = since[c] /\ published' = published
         /\ held'[c] = 0 /\ clients' = clients
         /\ \/ sub'[c] = "receive" /\ queue'[c] = Append(queue[c], held[c])
               /\ dropped'[c] = dropped[c]
            \/ sub'[c] = "receive" /\ queue'[c] = queue[c]
               /\ dropped'[c] = dropped[c] \cup {held[c]}
            \/ sub'[c] = "done" /\ queue'[c] = queue[c] /\ Cancelled(c)
               /\ dropped'[c] = dropped[c]
BY DEF TypeOK, Select

LEMMA WriteShape ==
  ASSUME TypeOK, NEW c \in Conns, Write(c)
  PROVE  /\ phase'[c] = phase[c] /\ sub'[c] = sub[c] /\ next'[c] = next[c]
         /\ since'[c] = since[c] /\ published' = published /\ held'[c] = held[c]
         /\ dropped'[c] = dropped[c] /\ clients' = clients
         /\ queue[c] # <<>> /\ queue'[c] = Tail(queue[c])
         /\ \/ got'[c] = Append(got[c], Head(queue[c])) /\ c \in clients
            \/ got'[c] = got[c] /\ c \notin clients
            \/ got'[c] = got[c] /\ writer'[c] = "done"
         /\ writer'[c] \in {writer[c], "done"}
BY DEF TypeOK, Write, Deliver

THEOREM LifeIsSound == Spec => []LifeInv
<1>1. Init => LifeInv
  <2> SUFFICES ASSUME Init, NEW c \in Conns
               PROVE  Life(c)
    BY DEF LifeInv
  <2>1. /\ phase[c] = "auth" /\ sub[c] = "none" /\ writer[c] = "none"
        /\ got[c] = <<>> /\ queue[c] = <<>> /\ held[c] = 0
    BY DEF Init
  <2> QED BY <2>1 DEF Life
<1>2. TypeOK /\ LifeInv /\ [Next]_vars => LifeInv'
  <2> SUFFICES ASSUME TypeOK, LifeInv, [Next]_vars PROVE LifeInv'
    OBVIOUS
  <2>1. CASE Publish
    <3> SUFFICES ASSUME NEW c \in Conns PROVE Life(c)'
      BY DEF LifeInv
    <3>1. published' = published + 1 /\ UNCHANGED conn /\ published \in Nat
          /\ next[c] \in Nat /\ since[c] \in Nat /\ held[c] \in Nat
      BY <2>1 DEF Publish, TypeOK
    <3> QED BY <3>1 DEF LifeInv, Life, conn
  <2>2. ASSUME NEW c \in Conns,
               PeerLeaves(c) \/ Serve(c) \/ Relay(c) \/ Write(c) \/ WriterStops(c)
        PROVE  LifeInv'
    <3>1. ASSUME NEW d \in Conns \ {c} PROVE Life(d)'
      BY <2>2, <3>1, OthersUntouched DEF LifeInv, Life, Same
    <3>2. Life(c)'
      <4> USE DEF TypeOK
      <4>0. Life(c) /\ published \in Nat /\ next[c] \in Nat /\ since[c] \in Nat
            /\ held[c] \in Nat
        BY DEF LifeInv
      <4>1. CASE PeerLeaves(c)
        BY <4>0, <4>1 DEF PeerLeaves, Life
      <4>2. CASE Authenticate(c) \/ RefuseConnection(c)
        BY <4>0, <4>2 DEF Authenticate, RefuseConnection, Life
      <4>3. CASE Greet(c)
        <5>1. got[c] = <<>> /\ phase[c] = "greet" /\ phase'[c] = "start"
              /\ UNCHANGED <<published, sub, writer, queue, held, next, since>>
          BY <4>0, <4>3 DEF Greet, Life
        <5>2. got'[c] = Append(<<>>, 0) \/ got'[c] = <<>>
          BY <4>3, <5>1 DEF Greet, Deliver, AuthSuccess
        <5>3. \A i \in 1..Len(got'[c]) : got'[c][i] = 0 /\ i = 1
          <6>1. <<>> \in Seq(Nat) /\ Len(<<>>) = 0 /\ 0 \in Nat
            OBVIOUS
          <6>2. Len(Append(<<>>, 0)) = 1 /\ Append(<<>>, 0)[1] = 0
            BY <6>1, AppendElements
          <6>3. CASE got'[c] = Append(<<>>, 0)
            BY <6>2, <6>3
          <6>4. CASE got'[c] = <<>>
            BY <6>4
          <6> QED BY <5>2, <6>3, <6>4
        <5> QED BY <4>0, <5>1, <5>3 DEF Life
      <4>4. CASE Start(c)
        BY <4>0, <4>4 DEF Start, Life
      <4>5. CASE ReaderEnds(c) \/ CloseChannel(c)
        BY <4>0, <4>5 DEF ReaderEnds, CloseChannel, Life
      <4>6. CASE Subscribe(c)
        BY <4>0, <4>6 DEF Subscribe, Life
      <4>7. CASE Receive(c)
        BY <4>0, <4>7 DEF Receive, Life
      <4>8. CASE StopReceiving(c)
        BY <4>0, <4>8 DEF StopReceiving, Life
      <4>9. CASE Select(c)
        <5>1. sub[c] = "select"
          BY <4>9 DEF Select
        <5> QED BY <4>0, <4>9, <5>1, SelectShape DEF Life
      <4>10. CASE Write(c)
        <5>1. writer[c] = "run"
          BY <4>10 DEF Write
        <5>2. sub[c] \notin {"none", "subscribe"}
          BY <4>0, <4>10, WriteShape DEF Life
        <5> QED BY <4>0, <4>10, <5>1, <5>2, WriteShape DEF Life
      <4>11. CASE WriterStops(c)
        BY <4>0, <4>11 DEF WriterStops, Life
      <4> QED BY <2>2, <4>1, <4>2, <4>3, <4>4, <4>5, <4>6, <4>7, <4>8, <4>9,
                 <4>10, <4>11 DEF Serve, Relay
    <3> QED BY <3>1, <3>2 DEF LifeInv
  <2>3. CASE UNCHANGED vars
    BY <2>3 DEF vars, conn, LifeInv, Life
  <2> QED BY <2>1, <2>2, <2>3 DEF Next
<1> QED BY <1>1, <1>2, TypeCorrect, PTL DEF Spec

\* subscribe never sends on a closed channel: ServeHTTP closes it after
\* subscribe has returned.
THEOREM NeverPanics == Spec => []NeverSendsOnClosedChannel
<1>1. LifeInv => NeverSendsOnClosedChannel
  BY DEF LifeInv, Life, NeverSendsOnClosedChannel, ChannelClosed
<1> QED BY <1>1, LifeIsSound, PTL

-----------------------------------------------------------------------------
(* What the client has got, the channel and the update that subscribe holds *)
(* are one increasing sequence.                                             *)

Increasing(s) == \A i, j \in 1..Len(s) : i < j => s[i] < s[j]
Below(s, n) == \A i \in 1..Len(s) : s[i] < n
Before(s, t) == \A i \in 1..Len(s), j \in 1..Len(t) : s[i] < t[j]

Order(c) ==
  /\ Increasing(got[c]) /\ Increasing(queue[c]) /\ Before(got[c], queue[c])
  /\ sub[c] = "receive" => Below(got[c], next[c]) /\ Below(queue[c], next[c])
  /\ sub[c] = "select" => Below(got[c], held[c]) /\ Below(queue[c], held[c])

OrderInv == \A c \in Conns : Order(c)

LEMMA BelowMore ==
  ASSUME NEW s \in Seq(Nat), NEW m \in Nat, NEW n \in Nat, Below(s, m), m <= n
  PROVE  Below(s, n)
<1>1. \A i \in 1..Len(s) : s[i] \in Nat
  OBVIOUS
<1> QED BY <1>1 DEF Below

LEMMA AppendKeepsOrder ==
  ASSUME NEW s \in Seq(Nat), NEW e \in Nat, Below(s, e)
  PROVE  /\ Increasing(s) => Increasing(Append(s, e))
         /\ \A n \in Nat : e < n => Below(Append(s, e), n)
         /\ \A g \in Seq(Nat) : Before(g, s) /\ Below(g, e) => Before(g, Append(s, e))
<1> DEFINE a == Append(s, e)
<1>1. /\ Len(s) \in Nat /\ Len(a) = Len(s) + 1
      /\ \A i \in 1..Len(s) : a[i] = s[i]
      /\ a[Len(s) + 1] = e
      /\ \A i \in 1..Len(s) : s[i] \in Nat
  BY AppendElements
<1> HIDE DEF a
<1>2. \A i \in 1..Len(a) : i \in 1..Len(s) \/ i = Len(s) + 1
  BY <1>1
<1>3. Increasing(s) => Increasing(a)
  <2> SUFFICES ASSUME Increasing(s), NEW i \in 1..Len(a), NEW j \in 1..Len(a), i < j
               PROVE  a[i] < a[j]
    BY DEF Increasing
  <2>1. i \in 1..Len(s)
    BY <1>1
  <2>2. CASE j \in 1..Len(s)
    BY <1>1, <2>1, <2>2 DEF Increasing
  <2>3. CASE j = Len(s) + 1
    BY <1>1, <2>1, <2>3 DEF Below
  <2> QED BY <1>2, <2>2, <2>3
<1>4. ASSUME NEW n \in Nat, e < n PROVE Below(a, n)
  <2>1. ASSUME NEW i \in 1..Len(s) PROVE a[i] < n
    BY <1>1, <1>4 DEF Below
  <2> QED BY <1>1, <1>2, <1>4, <2>1 DEF Below
<1>5. ASSUME NEW g \in Seq(Nat), Before(g, s), Below(g, e) PROVE Before(g, a)
  <2> SUFFICES ASSUME NEW i \in 1..Len(g), NEW j \in 1..Len(a) PROVE g[i] < a[j]
    BY DEF Before
  <2>1. CASE j \in 1..Len(s)
    BY <1>1, <1>5, <2>1 DEF Before
  <2>2. CASE j = Len(s) + 1
    BY <1>1, <1>5, <2>2 DEF Below
  <2> QED BY <1>2, <2>1, <2>2
<1> QED BY <1>3, <1>4, <1>5 DEF a

LEMMA TailKeepsOrder ==
  ASSUME NEW s \in Seq(Nat), s # <<>>, Increasing(s), NEW g \in Seq(Nat), Before(g, s)
  PROVE  /\ Increasing(Tail(s)) /\ Before(g, Tail(s)) /\ Below(g, Head(s))
         /\ Before(Append(g, Head(s)), Tail(s))
         /\ \A n \in Nat : Below(s, n) => Below(Tail(s), n) /\ Head(s) < n
<1> DEFINE t == Tail(s)  h == Head(s)  a == Append(g, h)
<1>1. /\ t \in Seq(Nat) /\ h \in Nat /\ h = s[1]
      /\ Len(s) \in Nat /\ Len(s) > 0 /\ Len(t) = Len(s) - 1
      /\ \A i \in 1..Len(t) : t[i] = s[i + 1]
  BY TailElements
<1>2. /\ Len(g) \in Nat /\ Len(a) = Len(g) + 1
      /\ \A i \in 1..Len(g) : a[i] = g[i]
      /\ a[Len(g) + 1] = h
  BY <1>1, AppendElements
<1> HIDE DEF t, h, a
<1>3. \A i \in 1..Len(t) : i + 1 \in 1..Len(s)
  BY <1>1
<1>4. 1 \in 1..Len(s)
  BY <1>1
<1>5. Increasing(t)
  <2> SUFFICES ASSUME NEW i \in 1..Len(t), NEW j \in 1..Len(t), i < j
               PROVE  t[i] < t[j]
    BY DEF Increasing
  <2>1. i + 1 \in 1..Len(s) /\ j + 1 \in 1..Len(s) /\ i + 1 < j + 1
    BY <1>1, <1>3
  <2> QED BY <1>1, <2>1 DEF Increasing
<1>6. Before(g, t)
  BY <1>1, <1>3 DEF Before
<1>7. Below(g, h)
  BY <1>1, <1>4 DEF Before, Below
<1>8. Before(a, t)
  <2> SUFFICES ASSUME NEW i \in 1..Len(a), NEW j \in 1..Len(t) PROVE a[i] < t[j]
    BY DEF Before
  <2>1. CASE i \in 1..Len(g)
    BY <1>2, <1>6, <2>1 DEF Before
  <2>2. CASE i = Len(g) + 1
    <3>1. 1 < j + 1 /\ j + 1 \in 1..Len(s)
      BY <1>1, <1>3
    <3>2. s[1] < s[j + 1]
      BY <3>1, <1>4 DEF Increasing
    <3> QED BY <1>1, <1>2, <2>2, <3>2
  <2> QED BY <1>2, <2>1, <2>2
<1>9. ASSUME NEW n \in Nat, Below(s, n) PROVE Below(t, n) /\ h < n
  BY <1>1, <1>3, <1>4, <1>9 DEF Below
<1> QED BY <1>5, <1>6, <1>7, <1>8, <1>9 DEF t, h, a

LEMMA OrderKept ==
  ASSUME TypeOK, NEW c \in Conns, Life(c), Order(c), Serve(c) \/ Relay(c) \/ Write(c)
  PROVE  Order(c)'
<1>0. /\ got[c] \in Seq(Nat) /\ queue[c] \in Seq(Nat)
      /\ next[c] \in Nat /\ held[c] \in Nat /\ published \in Nat
  BY DEF TypeOK
<1>1. CASE Authenticate(c) \/ RefuseConnection(c) \/ ReaderEnds(c) \/ CloseChannel(c)
  BY <1>1 DEF Authenticate, RefuseConnection, ReaderEnds, CloseChannel, Order
<1>2. CASE Start(c)
  BY <1>2 DEF Start, Order, TypeOK
<1>3. CASE Greet(c)
  <2>1. /\ got[c] = <<>> /\ queue[c] = <<>> /\ sub[c] = "none"
        /\ queue' = queue /\ sub' = sub
    BY <1>3 DEF Greet, Life
  <2>2. got'[c] = Append(<<>>, 0) \/ got'[c] = <<>>
    BY <1>3, <2>1 DEF Greet, Deliver, AuthSuccess, TypeOK
  <2>3. Increasing(got'[c])
    <3>1. <<>> \in Seq(Nat) /\ 0 \in Nat /\ Increasing(<<>>) /\ Below(<<>>, 0)
      BY DEF Increasing, Below
    <3> QED BY <2>2, <3>1, AppendKeepsOrder
  <2>4. Increasing(<<>>) /\ Before(got'[c], <<>>)
    BY DEF Increasing, Before
  <2> QED BY <2>1, <2>3, <2>4 DEF Order
<1>4. CASE Subscribe(c)
  <2>1. /\ queue[c] = <<>> /\ \A i \in 1..Len(got[c]) : got[c][i] = 0
        /\ sub'[c] = "receive" /\ next'[c] = published + 1
        /\ UNCHANGED <<queue, got>>
    BY <1>4 DEF Subscribe, Life, TypeOK
  <2>2. Below(got[c], published + 1) /\ Below(<<>>, published + 1)
    BY <1>0, <2>1 DEF Below
  <2> QED BY <2>1, <2>2 DEF Order
<1>5. CASE Receive(c)
  BY <1>5 DEF Receive, Order, TypeOK
<1>6. CASE StopReceiving(c)
  BY <1>6 DEF StopReceiving, Order, TypeOK
<1>7. CASE Select(c)
  <2>1. sub[c] = "select" /\ held[c] < next[c]
    BY <1>7 DEF Select, Life
  <2>2. /\ Below(got[c], held[c]) /\ Below(queue[c], held[c])
        /\ Below(got[c], next[c]) /\ Below(queue[c], next[c])
    BY <1>0, <2>1, BelowMore DEF Order
  <2>3. CASE queue'[c] = queue[c]
    BY <1>7, <2>2, <2>3, SelectShape DEF Order
  <2>4. CASE sub'[c] = "receive" /\ queue'[c] = Append(queue[c], held[c])
    <3>1. /\ Increasing(Append(queue[c], held[c]))
          /\ Before(got[c], Append(queue[c], held[c]))
          /\ Below(Append(queue[c], held[c]), next[c])
      BY <1>0, <2>1, <2>2, AppendKeepsOrder DEF Order
    <3> QED BY <1>7, <2>2, <2>4, <3>1, SelectShape DEF Order
  <2> QED BY <1>7, <2>3, <2>4, SelectShape
<1>8. CASE Write(c)
  <2> DEFINE h == Head(queue[c])  t == Tail(queue[c])
  <2>1. queue[c] # <<>> /\ queue'[c] = t
        /\ sub'[c] = sub[c] /\ next'[c] = next[c] /\ held'[c] = held[c]
        /\ (got'[c] = got[c] \/ got'[c] = Append(got[c], h))
    BY <1>8, WriteShape
  <2>2. /\ h \in Nat /\ t \in Seq(Nat)
        /\ Increasing(t) /\ Before(got[c], t) /\ Below(got[c], h)
        /\ Before(Append(got[c], h), t)
        /\ \A n \in Nat : Below(queue[c], n) => Below(t, n) /\ h < n
    BY <1>0, <2>1, TailKeepsOrder, TailElements DEF Order
  <2>3. /\ Increasing(Append(got[c], h))
        /\ \A n \in Nat : h < n => Below(Append(got[c], h), n)
    BY <1>0, <2>2, AppendKeepsOrder DEF Order
  <2> HIDE DEF h, t
  <2> QED BY <1>0, <2>1, <2>2, <2>3 DEF Order
<1> QED BY <1>1, <1>2, <1>3, <1>4, <1>5, <1>6, <1>7, <1>8 DEF Serve, Relay

\* What the client has got, the channel and the update that subscribe holds stay
\* one increasing sequence, whatever is dropped and whatever fails.
THEOREM OrderIsSound == Spec => []OrderInv
<1>1. Init => OrderInv
  <2> SUFFICES ASSUME Init, NEW c \in Conns
               PROVE  Order(c)
    BY DEF OrderInv
  <2>1. got[c] = <<>> /\ queue[c] = <<>> /\ sub[c] = "none" /\ phase[c] = "auth"
    BY DEF Init
  <2>2. Increasing(<<>>) /\ Before(<<>>, <<>>)
    BY DEF Increasing, Before
  <2> QED BY <2>1, <2>2 DEF Order
<1>2. TypeOK /\ LifeInv /\ OrderInv /\ [Next]_vars => OrderInv'
  <2> SUFFICES ASSUME TypeOK, LifeInv, OrderInv, [Next]_vars, NEW d \in Conns
               PROVE  Order(d)'
    BY DEF OrderInv
  <2>1. Order(d) /\ Life(d)
    BY DEF OrderInv, LifeInv
  <2>2. CASE Publish \/ UNCHANGED vars
    BY <2>1, <2>2 DEF Publish, vars, conn, Order
  <2>3. ASSUME NEW c \in Conns,
               PeerLeaves(c) \/ Serve(c) \/ Relay(c) \/ Write(c) \/ WriterStops(c)
        PROVE  Order(d)'
    <3>1. CASE d # c
      BY <2>1, <2>3, <3>1, OthersUntouched DEF Order, Same
    <3>2. CASE d = c /\ (PeerLeaves(c) \/ WriterStops(c))
      BY <2>1, <3>2 DEF PeerLeaves, WriterStops, Order
    <3> QED BY <2>1, <2>3, <3>1, <3>2, OrderKept
  <2> QED BY <2>2, <2>3 DEF Next
<1> QED BY <1>1, <1>2, TypeCorrect, LifeIsSound, PTL DEF Spec

\* A client gets AUTH_SUCCESS first and then updates in the order in which
\* Redis published them, whatever is dropped and whatever fails.
THEOREM AlwaysInOrder == Spec => []ReceivesInOrder
<1>1. OrderInv => ReceivesInOrder
  BY DEF OrderInv, Order, Increasing, ReceivesInOrder
<1> QED BY <1>1, OrderIsSound, PTL

-----------------------------------------------------------------------------
(* Nothing is lost but what is dropped. *)

Works(c) ==
  /\ sub[c] \in {"receive", "select"} /\ writer[c] = "run"
  /\ phase[c] = "read" /\ c \in clients

Known(c) == Received(c) \cup Queued(c) \cup {held[c]} \cup dropped[c]

Accounted(c) ==
  Works(c) => \A m \in since[c]..published : m \in Known(c) \cup (next[c]..published)

\* On a connection that works, an update is received, on its way or dropped.
THEOREM AlwaysAccountedFor == Spec => []UpdatesAccountedFor
<1> DEFINE Inv == \A c \in Conns : Accounted(c)
<1>1. Init => Inv
  BY DEF Init, Accounted, Works
<1>2. TypeOK /\ LifeInv /\ Inv /\ [Next]_vars => Inv'
  <2> SUFFICES ASSUME TypeOK, LifeInv, Inv, [Next]_vars, NEW d \in Conns
               PROVE  Accounted(d)'
    OBVIOUS
  <2>1. Accounted(d) /\ Life(d)
    BY DEF LifeInv
  <2>2. /\ got[d] \in Seq(Nat) /\ queue[d] \in Seq(Nat) /\ held[d] \in Nat
        /\ next[d] \in Nat /\ since[d] \in Nat /\ published \in Nat
    BY DEF TypeOK
  <2> USE DEF Accounted, Works, Known, Received, Queued
  <2>3. CASE UNCHANGED vars
    BY <2>1, <2>3 DEF vars, conn
  <2>4. CASE Publish
    <3>1. published' = published + 1 /\ UNCHANGED conn
      BY <2>4 DEF Publish
    <3> QED BY <2>1, <2>2, <3>1 DEF conn, Life
  <2>5. ASSUME NEW c \in Conns,
               PeerLeaves(c) \/ Serve(c) \/ Relay(c) \/ Write(c) \/ WriterStops(c)
        PROVE  Accounted(d)'
    <3>1. CASE d # c
      BY <2>1, <2>5, <3>1, OthersUntouched DEF Same
    <3>2. CASE d = c /\ (PeerLeaves(c) \/ WriterStops(c))
      BY <2>1, <3>2 DEF PeerLeaves, WriterStops, TypeOK
    <3>3. CASE d = c /\ Serve(c)
      BY <2>1, <3>3 DEF Serve, Authenticate, RefuseConnection, Greet, Start,
                        ReaderEnds, CloseChannel, Life, TypeOK
    <3>4. CASE d = c /\ Subscribe(c)
      <4>1. since'[d] = published + 1 /\ published' = published
        BY <3>4 DEF Subscribe, TypeOK
      <4> QED BY <2>2, <4>1
    <3>5. CASE d = c /\ Receive(c)
      <4>1. /\ sub[d] = "receive" /\ held[d] = 0 /\ 1 <= since[d]
            /\ held'[d] = next[d] /\ next'[d] = next[d] + 1
            /\ UNCHANGED <<published, phase, writer, clients, got, queue, since,
                           dropped>>
        BY <2>1, <3>5 DEF Receive, Life, TypeOK
      <4> QED BY <2>1, <2>2, <4>1
    <3>6. CASE d = c /\ StopReceiving(c)
      BY <3>6 DEF StopReceiving, TypeOK
    <3>7. CASE d = c /\ Select(c)
      <4>1. sub[d] = "select"
        BY <3>7 DEF Select
      <4>2. Elements(Append(queue[d], held[d])) = Elements(queue[d]) \cup {held[d]}
        BY <2>2, AppendElements
      <4>3. CASE sub'[d] = "done"
        BY <4>3
      <4>4. CASE sub'[d] # "done"
        <5>1. /\ Elements(queue'[d]) \cup dropped'[d]
                 = Elements(queue[d]) \cup dropped[d] \cup {held[d]}
          BY <3>7, <4>2, <4>4, SelectShape
        <5>2. /\ phase'[d] = phase[d] /\ writer'[d] = writer[d] /\ clients' = clients
              /\ got'[d] = got[d] /\ since'[d] = since[d] /\ next'[d] = next[d]
              /\ published' = published
          BY <3>7, SelectShape
        <5> QED BY <2>1, <4>1, <5>1, <5>2
      <4> QED BY <4>3, <4>4
    <3>8. CASE d = c /\ Write(c)
      <4>1. Elements(queue[d]) = {Head(queue[d])} \cup Elements(Tail(queue[d]))
            /\ Head(queue[d]) \in Nat
        BY <2>2, <3>8, WriteShape, TailElements
      <4>2. Elements(Append(got[d], Head(queue[d]))) = Elements(got[d]) \cup {Head(queue[d])}
        BY <2>2, <4>1, AppendElements
      <4>3. writer[d] = "run"
        BY <3>8 DEF Write
      <4> QED BY <2>1, <3>8, <4>1, <4>2, <4>3, WriteShape
    <3> QED BY <2>5, <3>1, <3>2, <3>3, <3>4, <3>5, <3>6, <3>7, <3>8 DEF Relay
  <2> QED BY <2>3, <2>4, <2>5 DEF Next
<1>3. Inv => UpdatesAccountedFor
  BY DEF Accounted, Works, Known, UpdatesAccountedFor
<1> QED BY <1>1, <1>2, <1>3, TypeCorrect, LifeIsSound, PTL DEF Spec

-----------------------------------------------------------------------------
(* The hub is an UpdateStream. *)

\* The updates up to m that nobody waits for any more, or that are on their way.
Settled(c) == Received(c) \cup Queued(c) \cup dropped[c]

\* The updates subscribe has dealt with are those before this one.
Reached(c) == IF sub[c] = "select" THEN held[c] ELSE next[c]

\* What is dropped lies before what is held or comes next and is in no queue;
\* and while the client is served, nothing before what is on its way is missing.
Flow(c) ==
  /\ sub[c] \in {"none", "subscribe"} => since[c] = 0 /\ dropped[c] = {}
  /\ c \in clients /\ phase[c] \notin {"auth", "greet", "refused"} => got[c] # <<>>
  /\ sub[c] = "select" => next[c] = held[c] + 1
  /\ \A m \in Queued(c) :
       since[c] # 0 /\ since[c] <= m /\ m <= published /\ m \notin dropped[c]
  /\ sub[c] \in {"receive", "select"} => \A m \in dropped[c] : m < Reached(c)
  /\ c \in clients /\ writer[c] = "run" =>
       /\ \A m \in Queued(c) : since[c]..m \subseteq Settled(c)
       /\ sub[c] \in {"receive", "select"} =>
            since[c]..(Reached(c) - 1) \subseteq Settled(c)

FlowInv == \A c \in Conns : Flow(c)

\* A step of another connection, or of the environment, leaves Flow as it is.
LEMMA FlowOfOthers ==
  ASSUME NEW d \in Conns, Flow(d), Same(d)
  PROVE  Flow(d)'
BY DEF Flow, Same, Settled, Reached, Received, Queued

\* A step of the connection itself keeps it.
LEMMA FlowKept ==
  ASSUME TypeOK, NEW c \in Conns, Life(c), Order(c), Flow(c),
         PeerLeaves(c) \/ Serve(c) \/ Relay(c) \/ Write(c) \/ WriterStops(c)
  PROVE  Flow(c)'
<1>0. /\ got[c] \in Seq(Nat) /\ queue[c] \in Seq(Nat) /\ dropped[c] \subseteq Nat
      /\ next[c] \in Nat /\ held[c] \in Nat /\ since[c] \in Nat /\ published \in Nat
  BY DEF TypeOK
<1>1. Queued(c) \subseteq Nat /\ Received(c) \subseteq Nat
  BY <1>0 DEF Queued, Received, Elements
<1>2. CASE PeerLeaves(c) \/ WriterStops(c)
  BY <1>2 DEF PeerLeaves, WriterStops, Flow, Settled, Reached, Received, Queued, TypeOK
<1>3. CASE Authenticate(c) \/ RefuseConnection(c) \/ ReaderEnds(c) \/ CloseChannel(c)
  BY <1>3 DEF Authenticate, RefuseConnection, ReaderEnds, CloseChannel, Flow, Settled,
              Reached, Received, Queued, TypeOK
<1>4. CASE Greet(c)
  <2>1. /\ phase[c] = "greet" /\ sub[c] = "none" /\ got[c] = <<>> /\ writer[c] = "none"
        /\ queue[c] = <<>>
        /\ UNCHANGED <<published, sub, writer, queue, held, next, since, dropped,
                       clients>>
    BY <1>4 DEF Greet, Life
  <2>2. c \in clients => got'[c] = Append(<<>>, 0)
    BY <1>4, <2>1 DEF Greet, Deliver, AuthSuccess, TypeOK
  <2>3. c \in clients => got'[c] # <<>>
    BY <2>2
  <2>4. Elements(<<>>) = {}
    BY DEF Elements
  <2> QED BY <2>1, <2>3, <2>4 DEF Flow, Queued
<1>5. CASE Start(c)
  <2>1. /\ phase[c] = "start" /\ sub[c] = "none" /\ queue[c] = <<>>
        /\ sub'[c] = "subscribe" /\ phase'[c] = "read"
        /\ UNCHANGED <<published, queue, held, next, since, dropped, clients, got>>
    BY <1>5 DEF Start, Life, TypeOK
  <2>2. Elements(<<>>) = {}
    BY DEF Elements
  <2> QED BY <2>1, <2>2 DEF Flow, Queued
<1>6. CASE Subscribe(c)
  <2>1. /\ sub[c] = "subscribe" /\ queue[c] = <<>> /\ dropped[c] = {}
        /\ sub'[c] = "receive" /\ next'[c] = published + 1 /\ since'[c] = published + 1
        /\ UNCHANGED <<published, phase, writer, queue, held, dropped, clients, got>>
    BY <1>6 DEF Subscribe, Life, Flow, TypeOK
  <2>2. Elements(<<>>) = {}
    BY DEF Elements
  <2>3. (since[c]..(Reached(c) - 1))' = {}
    BY <1>0, <2>1 DEF Reached
  <2> QED BY <2>1, <2>2, <2>3 DEF Flow, Queued
<1>7. CASE Receive(c)
  <2>1. /\ sub[c] = "receive" /\ sub'[c] = "select" /\ held'[c] = next[c]
        /\ next'[c] = next[c] + 1
        /\ UNCHANGED <<published, phase, writer, queue, dropped, clients, got, since>>
    BY <1>7 DEF Receive, TypeOK
  <2>2. Reached(c)' = Reached(c) /\ Settled(c)' = Settled(c) /\ Queued(c)' = Queued(c)
    BY <2>1 DEF Reached, Settled, Received, Queued
  <2> QED BY <2>1, <2>2 DEF Flow
<1>8. CASE StopReceiving(c)
  <2>1. /\ sub'[c] = "done"
        /\ UNCHANGED <<published, phase, writer, queue, dropped, clients, got, since>>
    BY <1>8 DEF StopReceiving, TypeOK
  <2>2. Settled(c)' = Settled(c) /\ Queued(c)' = Queued(c)
    BY <2>1 DEF Settled, Received, Queued
  <2> QED BY <2>1, <2>2 DEF Flow
<1>9. CASE Select(c)
  <2>1. /\ sub[c] = "select" /\ next[c] = held[c] + 1 /\ since[c] <= held[c]
        /\ 1 <= since[c] /\ next[c] <= published + 1 /\ Reached(c) = held[c]
    BY <1>9 DEF Select, Life, Flow, Reached
  <2>2. /\ phase'[c] = phase[c] /\ writer'[c] = writer[c] /\ got'[c] = got[c]
        /\ next'[c] = next[c] /\ since'[c] = since[c] /\ published' = published
        /\ clients' = clients
    BY <1>9, SelectShape
  <2>3. Received(c)' = Received(c)
    BY <2>2 DEF Received
  <2>4. \A m \in dropped[c] : m < held[c]
    BY <2>1 DEF Flow
  <2>5. \A m \in Queued(c) : m < held[c]
    BY <2>1 DEF Order, Below, Queued, Elements
  <2>6. CASE sub'[c] = "receive" /\ queue'[c] = Append(queue[c], held[c])
             /\ dropped'[c] = dropped[c]
    <3>1. Queued(c)' = Queued(c) \cup {held[c]}
      BY <1>0, <2>6, AppendElements DEF Queued
    <3>2. Settled(c)' = Settled(c) \cup {held[c]} /\ Reached(c)' = held[c] + 1
      BY <2>1, <2>2, <2>3, <2>6, <3>1 DEF Settled, Reached
    <3>3. since[c]..held[c] = (since[c]..(held[c] - 1)) \cup {held[c]}
      BY <1>0, <2>1
    <3>4. held[c] \notin dropped[c] /\ held[c] <= published /\ since[c] # 0
      BY <1>0, <2>1, <2>4
    <3>5. (c \in clients /\ writer[c] = "run") =>
             /\ \A m \in Queued(c)' : (since[c]..m) \subseteq Settled(c)'
             /\ since[c]..held[c] \subseteq Settled(c)'
      BY <2>1, <3>1, <3>2, <3>3 DEF Flow
    <3>6. \A m \in Queued(c)' :
            since[c] # 0 /\ since[c] <= m /\ m <= published /\ m \notin dropped[c]
      BY <2>1, <3>1, <3>4 DEF Flow
    <3>7. \A m \in dropped[c] : m < held[c] + 1
      BY <1>0, <2>4
    <3>8. (since[c]..(Reached(c) - 1))' = since[c]..held[c]
      BY <1>0, <2>2, <3>2
    <3> QED BY <2>1, <2>2, <2>6, <3>2, <3>5, <3>6, <3>7, <3>8 DEF Flow
  <2>7. CASE sub'[c] = "receive" /\ queue'[c] = queue[c]
             /\ dropped'[c] = dropped[c] \cup {held[c]}
    <3>1. Queued(c)' = Queued(c)
      BY <2>7 DEF Queued
    <3>2. Settled(c)' = Settled(c) \cup {held[c]} /\ Reached(c)' = held[c] + 1
      BY <2>1, <2>2, <2>3, <2>7, <3>1 DEF Settled, Reached
    <3>3. since[c]..held[c] = (since[c]..(held[c] - 1)) \cup {held[c]}
      BY <1>0, <2>1
    <3>4. \A m \in Queued(c) : m \notin dropped'[c]
      BY <1>0, <1>1, <2>5, <2>7 DEF Flow
    <3>5. (c \in clients /\ writer[c] = "run") =>
             /\ \A m \in Queued(c)' : (since[c]..m) \subseteq Settled(c)'
             /\ since[c]..held[c] \subseteq Settled(c)'
      BY <2>1, <3>1, <3>2, <3>3 DEF Flow
    <3>6. \A m \in Queued(c)' :
            since[c] # 0 /\ since[c] <= m /\ m <= published /\ m \notin dropped'[c]
      BY <3>1, <3>4 DEF Flow
    <3>7. \A m \in dropped'[c] : m < held[c] + 1
      BY <1>0, <2>4, <2>7
    <3>8. (since[c]..(Reached(c) - 1))' = since[c]..held[c]
      BY <1>0, <2>2, <3>2
    <3> QED BY <2>1, <2>2, <2>7, <3>2, <3>5, <3>6, <3>7, <3>8 DEF Flow
  <2>8. CASE sub'[c] = "done" /\ queue'[c] = queue[c] /\ dropped'[c] = dropped[c]
    <3>1. Queued(c)' = Queued(c) /\ Settled(c)' = Settled(c)
      BY <2>3, <2>8 DEF Queued, Settled
    <3> QED BY <2>2, <2>8, <3>1 DEF Flow
  <2> QED BY <1>9, <2>6, <2>7, <2>8, SelectShape
<1>10. CASE Write(c)
  <2>1. /\ phase'[c] = phase[c] /\ sub'[c] = sub[c] /\ next'[c] = next[c]
        /\ since'[c] = since[c] /\ published' = published /\ held'[c] = held[c]
        /\ dropped'[c] = dropped[c] /\ clients' = clients
        /\ queue[c] # <<>> /\ queue'[c] = Tail(queue[c]) /\ writer[c] = "run"
    BY <1>10, WriteShape DEF Write
  <2>2. Head(queue[c]) \in Nat
        /\ Queued(c) = {Head(queue[c])} \cup Queued(c)'
    BY <1>0, <2>1, TailElements DEF Queued
  <2>3. CASE got'[c] = Append(got[c], Head(queue[c])) /\ c \in clients
    <3>1. Received(c)' = Received(c) \cup {Head(queue[c])}
      BY <1>0, <2>2, <2>3, AppendElements DEF Received
    <3>2. Settled(c)' = Settled(c) /\ Reached(c)' = Reached(c)
      BY <2>1, <2>2, <3>1 DEF Settled, Reached
    <3>3. got'[c] # <<>>
      <4>1. Len(got'[c]) = Len(got[c]) + 1 /\ Len(got[c]) \in Nat /\ Len(<<>>) = 0
        BY <1>0, <2>2, <2>3, AppendElements
      <4> QED BY <4>1
    <3> QED BY <2>1, <2>2, <3>2, <3>3 DEF Flow
  <2>4. CASE got'[c] = got[c] /\ (c \notin clients \/ writer'[c] = "done")
    <3>1. Reached(c)' = Reached(c)
      BY <2>1 DEF Reached
    <3> QED BY <2>1, <2>2, <2>4, <3>1 DEF Flow
  <2> QED BY <1>10, <2>3, <2>4, WriteShape
<1> QED BY <1>2, <1>3, <1>4, <1>5, <1>6, <1>7, <1>8, <1>9, <1>10 DEF Serve, Relay

\* While a client is served nothing before what is on its way is missing, and
\* what was dropped lies before what comes next.
THEOREM FlowIsSound == Spec => []FlowInv
<1>1. Init => FlowInv
  <2> SUFFICES ASSUME Init, NEW c \in Conns PROVE Flow(c)
    BY DEF FlowInv
  <2>1. /\ phase[c] = "auth" /\ sub[c] = "none" /\ writer[c] = "none"
        /\ queue[c] = <<>> /\ since[c] = 0 /\ dropped[c] = {}
    BY DEF Init
  <2>2. Queued(c) = {}
    BY <2>1 DEF Queued, Elements
  <2> QED BY <2>1, <2>2 DEF Flow
<1>2. TypeOK /\ LifeInv /\ OrderInv /\ FlowInv /\ [Next]_vars => FlowInv'
  <2> SUFFICES ASSUME TypeOK, LifeInv, OrderInv, FlowInv, [Next]_vars, NEW d \in Conns
               PROVE  Flow(d)'
    BY DEF FlowInv
  <2>1. Flow(d) /\ Order(d) /\ Life(d)
    BY DEF FlowInv, OrderInv, LifeInv
  <2>2. CASE UNCHANGED vars
    BY <2>1, <2>2, FlowOfOthers DEF vars, conn, Same
  <2>3. CASE Publish
    <3>1. published' = published + 1 /\ published \in Nat /\ UNCHANGED conn
      BY <2>3 DEF Publish, TypeOK
    <3>2. \A m \in Queued(d) : m \in Nat
      BY DEF TypeOK, Queued, Elements
    <3>3. /\ Queued(d)' = Queued(d) /\ Settled(d)' = Settled(d)
          /\ Reached(d)' = Reached(d)
      BY <3>1 DEF conn, Queued, Settled, Received, Reached
    <3>4. \A m \in Queued(d) : m <= published'
      BY <2>1, <3>1, <3>2 DEF Flow
    <3> QED BY <2>1, <3>1, <3>3, <3>4 DEF conn, Flow
  <2>4. ASSUME NEW c \in Conns,
               PeerLeaves(c) \/ Serve(c) \/ Relay(c) \/ Write(c) \/ WriterStops(c)
        PROVE  Flow(d)'
    <3>1. CASE d # c
      BY <2>1, <2>4, <3>1, OthersUntouched, FlowOfOthers
    <3> QED BY <2>1, <2>4, <3>1, FlowKept
  <2> QED BY <2>2, <2>3, <2>4 DEF Next
<1> QED BY <1>1, <1>2, TypeCorrect, LifeIsSound, OrderIsSound, PTL DEF Spec

\* An increasing sequence has as many elements as places.
LEMMA ElementsCounted ==
  ASSUME NEW s \in Seq(Nat), Increasing(s)
  PROVE  IsFiniteSet(Elements(s)) /\ Cardinality(Elements(s)) = Len(s)
<1> DEFINE I == 1..Len(s)  f == [i \in I |-> s[i]]
<1>1. Len(s) \in Nat /\ \A i \in I : s[i] \in Nat
  OBVIOUS
<1>2. IsFiniteSet(I) /\ Cardinality(I) = Len(s)
  BY <1>1, FS_Interval
<1>3. f \in [I -> Elements(s)]
  BY DEF Elements
<1>4. ASSUME NEW i \in I, NEW j \in I, f[i] = f[j] PROVE i = j
  <2>1. ~(i < j) /\ ~(j < i)
    BY <1>1, <1>4 DEF Increasing
  <2> QED BY <1>1, <2>1
<1>5. \A e \in Elements(s) : \E i \in I : f[i] = e
  BY DEF Elements
<1>6. f \in Bijection(I, Elements(s))
  BY <1>3, <1>4, <1>5 DEF Bijection, Injection, Surjection, IsInjective
<1>7. ExistsBijection(I, Elements(s))
  BY <1>6 DEF ExistsBijection
<1> QED BY <1>2, <1>7, FS_Bijection

\* When Select drops an update, the client is Buffer updates behind.
LEMMA DropIsLoss ==
  ASSUME TypeOK, NEW c \in Conns, Life(c), Order(c), Flow(c), sub[c] = "select",
         ~HasPlace(c)
  PROVE  /\ since[c] # 0 /\ since[c] <= held[c] /\ held[c] <= published
         /\ held[c] \in 1..published
         /\ held[c] \notin Stream!Got(c) /\ held[c] \notin dropped[c]
         /\ Cardinality(Stream!Owed(c, held[c])) >= Buffer
<1> DEFINE O == Stream!Owed(c, held[c])
<1>0. /\ got[c] \in Seq(Nat) /\ queue[c] \in Seq(Nat) /\ Len(queue[c]) \in Nat
      /\ next[c] \in Nat /\ held[c] \in Nat /\ since[c] \in Nat /\ published \in Nat
      /\ Buffer \in Nat
  BY HubAssumption DEF TypeOK
<1>1. Stream!Got(c) = Received(c)
  BY DEF Stream!Got, Received, Elements
<1>2. /\ 1 <= since[c] /\ since[c] <= held[c] /\ next[c] = held[c] + 1
      /\ next[c] <= published + 1
  BY DEF Life, Flow
<1>3. since[c] # 0 /\ held[c] <= published /\ held[c] \in 1..published
  BY <1>0, <1>2
<1>4. \A m \in Received(c) : m < held[c]
  BY DEF Order, Below, Received, Elements
<1>5. \A m \in dropped[c] : m < held[c]
  BY DEF Flow, Reached
<1>6. \A m \in Queued(c) : m \in Nat /\ m < held[c]
  BY <1>0 DEF Order, Below, Queued, Elements
<1>7. \A m \in Queued(c) : m \notin Received(c)
  <2> SUFFICES ASSUME NEW m \in Queued(c), m \in Received(c) PROVE FALSE
    OBVIOUS
  <2>1. PICK i \in 1..Len(got[c]), j \in 1..Len(queue[c]) :
               got[c][i] = m /\ queue[c][j] = m
    BY DEF Queued, Received, Elements
  <2>2. m < m /\ m \in Nat
    BY <1>6, <2>1 DEF Order, Before
  <2> QED BY <2>2
<1>8. Queued(c) \subseteq O
  <2> SUFFICES ASSUME NEW m \in Queued(c) PROVE m \in O
    OBVIOUS
  <2>1. since[c] <= m /\ m \notin dropped[c]
    BY DEF Flow
  <2>2. m \in since[c]..(held[c] - 1)
    BY <1>0, <1>6, <2>1
  <2> QED BY <1>1, <1>7, <2>1, <2>2 DEF Stream!Owed
<1>9. IsFiniteSet(O)
  <2>1. O \subseteq since[c]..(held[c] - 1)
    BY DEF Stream!Owed
  <2>2. IsFiniteSet(since[c]..(held[c] - 1))
    <3>1. since[c] \in Int /\ held[c] - 1 \in Int
      BY <1>0
    <3> QED BY <3>1, FS_Interval
  <2> QED BY <2>1, <2>2, FS_Subset
<1>10. Cardinality(Queued(c)) <= Cardinality(O)
  BY <1>8, <1>9, FS_Subset
<1>11. Cardinality(Queued(c)) = Len(queue[c])
  BY <1>0, ElementsCounted DEF Order, Queued
<1>12. Len(queue[c]) >= Buffer
  BY <1>0 DEF HasPlace
<1>13. Cardinality(O) \in Nat
  BY <1>9, FS_CardinalityType
<1>14. Cardinality(O) >= Buffer
  BY <1>0, <1>10, <1>11, <1>12, <1>13
<1>15. held[c] \notin Received(c) /\ held[c] \notin dropped[c]
  BY <1>0, <1>4, <1>5
<1> QED BY <1>1, <1>2, <1>3, <1>14, <1>15

\* When an update reaches the client, no earlier one is still owed to it.
LEMMA ArrivalIsDelivery ==
  ASSUME TypeOK, NEW c \in Conns, Life(c), Order(c), Flow(c),
         queue[c] # <<>>, c \in clients, writer[c] = "run"
  PROVE  LET h == Head(queue[c])
         IN  /\ got[c] # <<>> /\ since[c] # 0
             /\ since[c] <= h /\ h <= published /\ h \in 1..published
             /\ h \notin Stream!Got(c) /\ h \notin dropped[c]
             /\ Stream!Owed(c, h) = {}
<1> DEFINE h == Head(queue[c])
<1>0. /\ got[c] \in Seq(Nat) /\ queue[c] \in Seq(Nat)
      /\ since[c] \in Nat /\ published \in Nat
  BY DEF TypeOK
<1>1. /\ h \in Nat /\ Queued(c) = {h} \cup Elements(Tail(queue[c]))
      /\ Tail(queue[c]) \in Seq(Nat) /\ h = queue[c][1]
      /\ Len(queue[c]) \in Nat /\ Len(queue[c]) > 0
  BY <1>0, TailElements DEF Queued
<1>2. Stream!Got(c) = Received(c)
  BY DEF Stream!Got, Received, Elements
<1>3. h \in Queued(c)
  BY <1>1
<1> HIDE DEF h
<1>4. since[c] # 0 /\ since[c] <= h /\ h <= published /\ h \notin dropped[c]
  BY <1>3 DEF Flow
<1>5. h \in 1..published
  BY <1>0, <1>1, <1>4
<1>6. got[c] # <<>>
  <2>1. phase[c] \notin {"auth", "greet", "refused"}
    BY DEF Life
  <2> QED BY <2>1 DEF Flow
<1>7. h \notin Received(c)
  <2> SUFFICES ASSUME h \in Received(c) PROVE FALSE
    OBVIOUS
  <2>1. PICK i \in 1..Len(got[c]) : got[c][i] = h
    BY DEF Received, Elements
  <2>2. 1 \in 1..Len(queue[c])
    BY <1>1
  <2>3. h < h
    BY <1>1, <2>1, <2>2 DEF Order, Before
  <2> QED BY <1>1, <2>3
<1>8. \A m \in Queued(c) : m >= h
  <2> SUFFICES ASSUME NEW m \in Queued(c) PROVE m >= h
    OBVIOUS
  <2>1. PICK j \in 1..Len(queue[c]) : queue[c][j] = m
    BY DEF Queued, Elements
  <2>2. 1 \in 1..Len(queue[c]) /\ (j = 1 \/ 1 < j)
    BY <1>1
  <2>3. m = h \/ h < m
    BY <1>1, <2>1, <2>2 DEF Order, Increasing
  <2>4. m \in Nat
    BY <1>0, <2>1
  <2> QED BY <1>1, <2>3, <2>4
<1>9. since[c]..h \subseteq Settled(c)
  BY <1>3 DEF Flow
<1>10. Stream!Owed(c, h) = {}
  <2> SUFFICES ASSUME NEW k \in since[c]..(h - 1), k \notin Received(c),
                      k \notin dropped[c]
               PROVE  FALSE
    BY <1>2 DEF Stream!Owed
  <2>1. k \in since[c]..h /\ ~(k >= h)
    BY <1>0, <1>1
  <2>2. k \in Queued(c)
    BY <1>9, <2>1 DEF Settled
  <2> QED BY <1>8, <2>1, <2>2
<1> QED BY <1>2, <1>4, <1>5, <1>6, <1>7, <1>10 DEF h

\* Cardinality as UpdateStream and as this module have it from FiniteSets.
LEMMA SameCardinality == \A S : Stream!Cardinality(S) = Cardinality(S)
BY DEF Cardinality, Stream!Cardinality

\* The two halves of the refinement: the initial states, and every step.
LEMMA StreamInit == Init => Stream!Init
BY DEF Init, Stream!Init

LEMMA StreamStep ==
  ASSUME TypeOK, LifeInv, OrderInv, FlowInv, [Next]_vars
  PROVE  [Stream!Next]_(Stream!svars)
<1>1. CASE UNCHANGED vars
  BY <1>1 DEF vars, conn, Stream!svars
<1>2. CASE Publish
  BY <1>2 DEF Publish, conn, Stream!Next, Stream!Extend
<1>3. ASSUME NEW c \in Conns,
             PeerLeaves(c) \/ Serve(c) \/ Relay(c) \/ Write(c) \/ WriterStops(c)
      PROVE  [Stream!Next]_(Stream!svars)
  <2>0. Life(c) /\ Order(c) /\ Flow(c)
    BY DEF LifeInv, OrderInv, FlowInv
  <2>1. CASE PeerLeaves(c) \/ WriterStops(c)
    BY <2>1 DEF PeerLeaves, WriterStops, Stream!svars
  <2>2. CASE Authenticate(c) \/ RefuseConnection(c) \/ Start(c)
    BY <2>2 DEF Authenticate, RefuseConnection, Start, Stream!svars
  <2>3. CASE ReaderEnds(c) \/ CloseChannel(c) \/ Receive(c) \/ StopReceiving(c)
    BY <2>3 DEF ReaderEnds, CloseChannel, Receive, StopReceiving, Stream!svars
  <2>4. CASE Greet(c)
    <3>1. got[c] = <<>> /\ since[c] = 0
      BY <2>0, <2>4 DEF Greet, Life, Flow
    <3>2. UNCHANGED <<published, since, dropped>>
      BY <2>4 DEF Greet
    <3>3. CASE c \in clients
      <4>1. Stream!Greet(c)
        BY <2>4, <3>1, <3>2, <3>3 DEF Greet, Deliver, Stream!Greet, Stream!Append1
      <4> QED BY <4>1 DEF Stream!Next
    <3>4. CASE c \notin clients
      BY <2>4, <3>2, <3>4 DEF Greet, Deliver, Stream!svars
    <3> QED BY <3>3, <3>4
  <2>5. CASE Subscribe(c)
    <3>1. Stream!Join(c)
      BY <2>0, <2>5 DEF Subscribe, Flow, Stream!Join
    <3> QED BY <3>1 DEF Stream!Next
  <2>6. CASE Select(c)
    <3>1. sub[c] = "select" /\ UNCHANGED <<published, got, since>>
      BY <2>6 DEF Select
    <3>2. CASE UNCHANGED dropped
      BY <3>1, <3>2 DEF Stream!svars
    <3>3. CASE ~HasPlace(c) /\ dropped' = [dropped EXCEPT ![c] = @ \cup {held[c]}]
      <4>1. Stream!Lose(c, held[c]) /\ held[c] \in 1..published
        BY <2>0, <3>1, <3>3, DropIsLoss, SameCardinality DEF Stream!Lose
      <4> QED BY <4>1 DEF Stream!Next
    <3> QED BY <2>6, <3>2, <3>3 DEF Select
  <2>7. CASE Write(c)
    <3>1. queue[c] # <<>> /\ writer[c] = "run" /\ UNCHANGED <<published, since, dropped>>
      BY <2>7 DEF Write
    <3>2. CASE UNCHANGED got
      BY <3>1, <3>2 DEF Stream!svars
    <3>3. CASE c \in clients /\ got' = [got EXCEPT ![c] = Append(@, Head(queue[c]))]
      <4>1. Stream!Deliver(c, Head(queue[c])) /\ Head(queue[c]) \in 1..published
        BY <2>0, <3>1, <3>3, ArrivalIsDelivery DEF Stream!Deliver, Stream!Append1
      <4> QED BY <4>1 DEF Stream!Next
    <3> QED BY <2>7, <3>2, <3>3 DEF Write, Deliver
  <2> QED BY <1>3, <2>1, <2>2, <2>3, <2>4, <2>5, <2>6, <2>7 DEF Serve, Relay
<1> QED BY <1>1, <1>2, <1>3 DEF Next

\* The hub implements the update stream: whatever is published, fails or stops,
\* a client is greeted, joins once, and misses no update since then but those
\* that came while it was Buffer updates behind.
THEOREM HubIsUpdateStream == Spec => ImplementsStream
<1>1. TypeOK /\ LifeInv /\ OrderInv /\ FlowInv /\ [Next]_vars
        => [Stream!Next]_(Stream!svars)
  BY StreamStep
<1> QED BY <1>1, StreamInit, TypeCorrect, LifeIsSound, OrderIsSound, FlowIsSound, PTL
        DEF Spec, ImplementsStream, Stream!Spec

\* A client that has an update has every earlier one of its subscription too,
\* or that one was dropped: there is no other gap in what it was sent.
NothingSkipped ==
  \A c \in Conns : \A m \in Received(c) :
    m # AuthSuccess => since[c]..(m - 1) \subseteq Received(c) \cup dropped[c]

NoGap ==
  \A c \in Conns : \A m \in Stream!Got(c) :
    m # 0 => since[c] # 0 /\ Stream!Owed(c, m) = {}

\* What follows from the abstract stream alone: no gap, whichever steps the hub
\* takes to implement it.
THEOREM NothingIsSkipped == Spec => []NothingSkipped
<1>1. Stream!Init => NoGap
  BY DEF Stream!Init, NoGap, Stream!Got
<1>2. TypeOK /\ NoGap /\ [Stream!Next]_(Stream!svars) => NoGap'
  <2> SUFFICES ASSUME TypeOK, NoGap, [Stream!Next]_(Stream!svars),
                      NEW d \in Conns, NEW m \in Stream!Got(d)', m # 0
               PROVE  (since[d] # 0 /\ Stream!Owed(d, m) = {})'
    BY DEF NoGap
  <2> USE DEF Stream!Owed
  <2>1. got \in [Conns -> Seq(Nat)] /\ since \in [Conns -> Nat] /\ published \in Nat
        /\ dropped \in [Conns -> SUBSET Nat]
    BY DEF TypeOK
  <2>2. ASSUME UNCHANGED <<got, since>>, dropped[d] \subseteq dropped'[d]
        PROVE  (since[d] # 0 /\ Stream!Owed(d, m) = {})'
    BY <2>2 DEF NoGap, Stream!Got
  <2>3. CASE UNCHANGED Stream!svars \/ Stream!Extend
    BY <2>2, <2>3 DEF Stream!svars, Stream!Extend
  <2>4. ASSUME NEW c \in Conns, Stream!Greet(c)
        PROVE  (since[d] # 0 /\ Stream!Owed(d, m) = {})'
    <3>1. got' = [got EXCEPT ![c] = Append(@, 0)] /\ got[c] = <<>>
          /\ UNCHANGED <<since, dropped>>
      BY <2>4 DEF Stream!Greet, Stream!Append1, AuthSuccess
    <3>2. CASE d = c
      <4>1. <<>> \in Seq(Nat) /\ Elements(<<>>) = {} /\ 0 \in Nat
        BY DEF Elements
      <4>2. got'[d] = Append(<<>>, 0)
        BY <2>1, <3>1, <3>2
      <4>3. Elements(Append(<<>>, 0)) = Elements(<<>>) \cup {0}
        BY <4>1, AppendElements
      <4>4. Stream!Got(d)' = {0}
        BY <4>1, <4>2, <4>3 DEF Stream!Got, Elements
      <4> QED BY <4>4
    <3>3. CASE d # c
      BY <2>1, <3>1, <3>3 DEF NoGap, Stream!Got
    <3> QED BY <3>2, <3>3
  <2>5. ASSUME NEW c \in Conns, Stream!Join(c)
        PROVE  (since[d] # 0 /\ Stream!Owed(d, m) = {})'
    <3>1. since[c] = 0 /\ since' = [since EXCEPT ![c] = published + 1]
          /\ UNCHANGED <<got, dropped>>
      BY <2>5 DEF Stream!Join
    <3>2. m \in Stream!Got(d)
      BY <3>1 DEF Stream!Got
    <3>3. d # c
      BY <3>1, <3>2 DEF NoGap
    <3> QED BY <2>1, <3>1, <3>2, <3>3 DEF NoGap, Stream!Got
  <2>6. ASSUME NEW c \in Conns, NEW k \in 1..published, Stream!Deliver(c, k)
        PROVE  (since[d] # 0 /\ Stream!Owed(d, m) = {})'
    <3>1. got' = [got EXCEPT ![c] = Append(@, k)] /\ since[c] # 0
          /\ Stream!Owed(c, k) = {} /\ UNCHANGED <<since, dropped>>
      BY <2>6 DEF Stream!Deliver, Stream!Append1
    <3>2. CASE d = c
      <4>1. got[d] \in Seq(Nat) /\ k \in Nat /\ got'[d] = Append(got[d], k)
        BY <2>1, <3>1, <3>2
      <4>2. Elements(got'[d]) = Elements(got[d]) \cup {k}
        BY <4>1, AppendElements
      <4>3. Stream!Got(d)' = Stream!Got(d) \cup {k}
        BY <4>2 DEF Stream!Got, Elements
      <4>4. CASE m = k
        BY <3>1, <3>2, <4>3, <4>4
      <4>5. CASE m # k
        BY <3>1, <4>3, <4>5 DEF NoGap
      <4> QED BY <4>4, <4>5
    <3>3. CASE d # c
      BY <2>1, <3>1, <3>3 DEF NoGap, Stream!Got
    <3> QED BY <3>2, <3>3
  <2>7. ASSUME NEW c \in Conns, NEW k \in 1..published, Stream!Lose(c, k)
        PROVE  (since[d] # 0 /\ Stream!Owed(d, m) = {})'
    <3>1. dropped' = [dropped EXCEPT ![c] = @ \cup {k}] /\ UNCHANGED <<got, since>>
      BY <2>7 DEF Stream!Lose
    <3>2. dropped[d] \subseteq dropped'[d]
      BY <2>1, <3>1
    <3> QED BY <2>2, <3>1, <3>2
  <2> QED BY <2>3, <2>4, <2>5, <2>6, <2>7 DEF Stream!Next
<1>3. NoGap => NothingSkipped
  BY DEF NoGap, NothingSkipped, Stream!Got, Stream!Owed, Received, Elements, AuthSuccess
<1> QED BY <1>1, <1>2, <1>3, TypeCorrect, HubIsUpdateStream, PTL
        DEF ImplementsStream, Stream!Spec
=============================================================================
