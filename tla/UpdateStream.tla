----------------------------- MODULE UpdateStream -----------------------------
(***************************************************************************)
(* What the WebSocket hub promises: a log of updates, and readers that are *)
(* greeted, join the log at its end and from then on are delivered its     *)
(* updates in order, none twice and none left out but those that were lost *)
(* because Capacity earlier ones were still to be delivered.  A reader may *)
(* be left waiting at any point.                                           *)
(***************************************************************************)
EXTENDS Integers, Sequences, FiniteSets

CONSTANTS Readers, Capacity, Greeting

VARIABLES
  log,        \* number of updates published; they are numbered from 1
  delivered,  \* what each reader has been delivered
  from,       \* the first update of a reader that has joined, 0 if it has not
  lost        \* what each reader will never be delivered

svars == <<log, delivered, from, lost>>

Init ==
  /\ log = 0
  /\ delivered = [r \in Readers |-> <<>>]
  /\ from = [r \in Readers |-> 0]
  /\ lost = [r \in Readers |-> {}]

Got(r) == {delivered[r][i] : i \in 1..Len(delivered[r])}

\* The updates before m that reader r is still owed.
Owed(r, m) == {k \in from[r]..(m - 1) : k \notin Got(r) /\ k \notin lost[r]}

Append1(r, x) == delivered' = [delivered EXCEPT ![r] = Append(@, x)]

Extend == log' = log + 1 /\ UNCHANGED <<delivered, from, lost>>

Greet(r) ==
  /\ delivered[r] = <<>> /\ from[r] = 0
  /\ Append1(r, Greeting)
  /\ UNCHANGED <<log, from, lost>>

Join(r) ==
  /\ from[r] = 0
  /\ from' = [from EXCEPT ![r] = log + 1]
  /\ UNCHANGED <<log, delivered, lost>>

Deliver(r, m) ==
  /\ delivered[r] # <<>> /\ from[r] # 0
  /\ from[r] <= m /\ m <= log
  /\ m \notin Got(r) /\ m \notin lost[r]
  /\ Owed(r, m) = {}
  /\ Append1(r, m)
  /\ UNCHANGED <<log, from, lost>>

Lose(r, m) ==
  /\ from[r] # 0
  /\ from[r] <= m /\ m <= log
  /\ m \notin Got(r) /\ m \notin lost[r]
  /\ Cardinality(Owed(r, m)) >= Capacity
  /\ lost' = [lost EXCEPT ![r] = @ \cup {m}]
  /\ UNCHANGED <<log, delivered, from>>

Next ==
  \/ Extend
  \/ \E r \in Readers :
       \/ Greet(r) \/ Join(r)
       \/ \E m \in 1..log : Deliver(r, m) \/ Lose(r, m)

Spec == Init /\ [][Next]_svars
=============================================================================
