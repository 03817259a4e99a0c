--------------------------- MODULE RateLimiterProofs ---------------------------
(***************************************************************************)
(* What a fixed window gives, for any limits, any length of a minute and   *)
(* any number of hosts.                                                    *)
(*                                                                         *)
(* The bound on any minute does not follow from the counts alone.  Its     *)
(* invariant is about the positions at which windows were opened: every    *)
(* request let through is less than Max behind one (Covered), two of them  *)
(* are a minute apart (Apart), and the entry is the last of them (Current).*)
(***************************************************************************)
EXTENDS RateLimiter, TLAPS

Ordered(b) ==
  /\ \A i \in 1..Len(granted[b]) : granted[b][i] <= now
  /\ \A i, j \in 1..Len(granted[b]) : i <= j => granted[b][i] <= granted[b][j]

Covered(b) ==
  \A i \in 1..Len(granted[b]) :
    \E s \in opened[b] : s <= i /\ i < s + Max[b[1]]

Apart(b) ==
  \A s, t \in opened[b] : s < t => granted[b][t] - granted[b][s] >= Minute

First(b) == Len(granted[b]) - entry[b].n + 1

Current(b) ==
  /\ entry[b].n = 0 => granted[b] = <<>>
  /\ entry[b].n > 0 => /\ First(b) \in opened[b]
                       /\ granted[b][First(b)] = entry[b].at
  /\ \A s \in opened[b] : s \in 1..Len(granted[b]) /\ s <= First(b)

WindowInv == \A b \in Buckets : Ordered(b) /\ Covered(b) /\ Apart(b) /\ Current(b)

LEMMA BucketLimit == ASSUME NEW b \in Buckets PROVE Max[b[1]] \in Nat \ {0}
BY LimitAssumption DEF Buckets

LEMMA MinuteLength == Minute \in Nat /\ Second \in Nat \ {0}
BY ClockAssumption

\* Every variable keeps its type and no count passes its limit.
THEOREM TypeCorrect == Spec => []TypeOK
<1>1. Init => TypeOK
  BY BucketLimit, ClockAssumption DEF Init, TypeOK, NoEntry, NoRefusal
<1>2. TypeOK /\ [Next]_vars => TypeOK'
  <2> SUFFICES ASSUME TypeOK, [Next]_vars PROVE TypeOK'
    OBVIOUS
  <2> USE DEF TypeOK
  <2>1. CASE Tick
    BY <2>1, ClockAssumption DEF Tick
  <2>2. ASSUME NEW b \in Buckets, Allow(b) PROVE TypeOK'
    <3> USE BucketLimit
    <3>1. CASE OpenWindow(b)
      <4>1. now \in Nat /\ Len(granted[b]) + 1 \in Nat /\ Append(granted[b], now) \in Seq(Nat)
        OBVIOUS
      <4>2. entry' \in [Buckets -> [at : Nat, n : Nat]]
        BY <3>1, <4>1 DEF OpenWindow
      <4>3. \A c \in Buckets : entry'[c].n <= Max[c[1]]
        BY <3>1 DEF OpenWindow
      <4>4. granted' \in [Buckets -> Seq(Nat)] /\ opened' \in [Buckets -> SUBSET Nat]
        BY <3>1, <4>1 DEF OpenWindow, LetThrough
      <4>5. now' = now /\ refused' = refused
        BY <3>1 DEF OpenWindow, LetThrough
      <4> QED BY <4>2, <4>3, <4>4, <4>5
    <3>2. CASE CountRequest(b)
      <4>1. entry[b].at \in Nat /\ entry[b].n \in Nat /\ entry[b].n + 1 <= Max[b[1]]
        BY <3>2 DEF CountRequest, Full
      <4>2. entry' \in [Buckets -> [at : Nat, n : Nat]]
        BY <3>2, <4>1 DEF CountRequest
      <4>3. \A c \in Buckets : entry'[c].n <= Max[c[1]]
        BY <3>2, <4>1 DEF CountRequest
      <4>4. granted' \in [Buckets -> Seq(Nat)]
        BY <3>2 DEF CountRequest, LetThrough
      <4> QED BY <3>2, <4>2, <4>3, <4>4 DEF CountRequest, LetThrough
    <3>3. CASE Refuse(b)
      <4>1. RetryAfter(b) \in Nat
        BY MinuteLength DEF RetryAfter
      <4> QED BY <3>3, <4>1 DEF Refuse
    <3> QED BY <2>2, <3>1, <3>2, <3>3 DEF Allow
  <2>3. ASSUME NEW h \in Hosts, NEW kind \in {"login", "other"}, Request(h, kind)
        PROVE  TypeOK'
    <3>1. <<LimiterFor(kind), h>> \in Buckets
      BY DEF LimiterFor, Buckets, Limiters
    <3> QED BY <2>2, <2>3, <3>1 DEF Request
  <2>4. CASE UNCHANGED vars
    BY <2>4 DEF vars
  <2> QED BY <2>1, <2>3, <2>4 DEF Next
<1> QED BY <1>1, <1>2, PTL DEF Spec

\* What letting a request through does to the history of grants.
LEMMA GrantShape ==
  ASSUME TypeOK, NEW b \in Buckets, LetThrough(b)
  PROVE  /\ now' = now
         /\ Len(granted'[b]) = Len(granted[b]) + 1
         /\ \A i \in 1..Len(granted[b]) : granted'[b][i] = granted[b][i]
         /\ granted'[b][Len(granted[b]) + 1] = now
         /\ \A c \in Buckets \ {b} : granted'[c] = granted[c]
<1>1. granted[b] \in Seq(Nat) /\ now \in Nat
  BY DEF TypeOK
<1>2. granted'[b] = Append(granted[b], now)
  BY DEF TypeOK, LetThrough
<1> QED BY <1>1, <1>2 DEF TypeOK, LetThrough

LEMMA OrderKept ==
  ASSUME TypeOK, NEW b \in Buckets, LetThrough(b), Ordered(b)
  PROVE  Ordered(b)'
<1>1. Len(granted[b]) \in Nat /\ now \in Int
  BY DEF TypeOK
<1>2. \A i \in 1..(Len(granted[b]) + 1) : i \in 1..Len(granted[b]) \/ i = Len(granted[b]) + 1
  BY <1>1
<1>3. \A i \in 1..Len(granted[b]) : granted[b][i] \in Int
  BY DEF TypeOK
<1>4. \A i \in 1..Len(granted'[b]) : granted'[b][i] <= now'
  BY <1>1, <1>2, GrantShape DEF Ordered
<1>5. ASSUME NEW i \in 1..Len(granted'[b]), NEW j \in 1..Len(granted'[b]), i <= j
      PROVE  granted'[b][i] <= granted'[b][j]
  <2>1. CASE j \in 1..Len(granted[b])
    <3>1. i \in 1..Len(granted[b])
      BY <2>1, <1>5, <1>1, GrantShape
    <3> QED BY <2>1, <3>1, <1>5, GrantShape DEF Ordered
  <2>2. CASE j = Len(granted[b]) + 1
    BY <2>2, <1>4, GrantShape
  <2> QED BY <2>1, <2>2, <1>2, GrantShape
<1> QED BY <1>4, <1>5 DEF Ordered

\* The request that opens a window is a minute after the one that opened the last.
LEMMA OpenWindowKept ==
  ASSUME TypeOK, NEW b \in Buckets, OpenWindow(b),
         Ordered(b), Covered(b), Apart(b), Current(b)
  PROVE  Covered(b)' /\ Apart(b)' /\ Current(b)'
<1> DEFINE L == Len(granted[b])
<1>1. L \in Nat /\ now \in Int /\ entry[b].n \in Nat /\ entry[b].at \in Int
      /\ Max[b[1]] \in Nat \ {0} /\ Minute \in Nat
  BY BucketLimit, MinuteLength DEF TypeOK
<1>2. opened'[b] = opened[b] \cup {L + 1}
      /\ entry'[b].n = 1 /\ entry'[b].at = now
  BY DEF TypeOK, OpenWindow
<1>3. /\ now' = now /\ Len(granted'[b]) = L + 1 /\ granted'[b][L + 1] = now
      /\ \A i \in 1..L : granted'[b][i] = granted[b][i]
  BY GrantShape DEF OpenWindow
<1>4. opened[b] \subseteq 1..L
  BY DEF Current
<1>5. Covered(b)'
  <2> SUFFICES ASSUME NEW i \in 1..(L + 1)
               PROVE  \E s \in opened'[b] : s <= i /\ i < s + Max[b[1]]
    BY <1>3 DEF Covered
  <2>1. CASE i \in 1..L
    BY <2>1, <1>2 DEF Covered
  <2>2. CASE i = L + 1
    <3>1. L + 1 \in opened'[b] /\ L + 1 <= i /\ i < L + 1 + Max[b[1]]
      BY <2>2, <1>1, <1>2
    <3> QED BY <3>1
  <2> QED BY <2>1, <2>2, <1>1
<1>6. ASSUME NEW s \in opened[b] PROVE now - granted[b][s] >= Minute
  <2>1. s \in 1..L /\ s <= First(b) /\ L > 0
    BY <1>1, <1>6 DEF Current
  <2>2. entry[b].n > 0
    BY <2>1, <1>1 DEF Current
  <2>3. now - entry[b].at >= Minute
    BY <2>2, <1>1 DEF OpenWindow, Expired
  <2>4. First(b) \in 1..L /\ granted[b][First(b)] = entry[b].at
    BY <2>2, <1>4 DEF Current
  <2>5. granted[b][s] <= entry[b].at
    BY <2>1, <2>4 DEF Ordered
  <2>6. granted[b][s] \in Int
    BY <2>1 DEF TypeOK
  <2> QED BY <2>3, <2>5, <2>6, <1>1
<1>7. Apart(b)'
  <2> SUFFICES ASSUME NEW s \in opened'[b], NEW t \in opened'[b], s < t
               PROVE  granted'[b][t] - granted'[b][s] >= Minute
    BY DEF Apart
  <2>1. s \in opened[b] /\ s \in 1..L
    BY <1>1, <1>2, <1>4
  <2>2. CASE t \in opened[b]
    BY <2>1, <2>2, <1>3, <1>4 DEF Apart
  <2>3. CASE t = L + 1
    BY <2>1, <2>3, <1>3, <1>6
  <2> QED BY <2>2, <2>3, <1>2
<1>8. Current(b)'
  <2>1. First(b)' = L + 1
    BY <1>1, <1>2, <1>3 DEF First
  <2>2. \A s \in opened'[b] : s \in 1..(L + 1)
    BY <1>1, <1>2, <1>4
  <2> QED BY <2>1, <2>2, <1>1, <1>2, <1>3 DEF Current
<1> QED BY <1>5, <1>7, <1>8

\* A request counted in the window is less than Max behind the one that opened it.
LEMMA CountRequestKept ==
  ASSUME TypeOK, NEW b \in Buckets, CountRequest(b),
         Ordered(b), Covered(b), Apart(b), Current(b)
  PROVE  Covered(b)' /\ Apart(b)' /\ Current(b)'
<1> DEFINE L == Len(granted[b])
<1>1. L \in Nat /\ now \in Int /\ entry[b].n \in Nat /\ entry[b].at \in Int
      /\ Max[b[1]] \in Nat \ {0} /\ Minute \in Nat
  BY BucketLimit, MinuteLength DEF TypeOK
<1>2. opened'[b] = opened[b]
      /\ entry'[b].n = entry[b].n + 1 /\ entry'[b].at = entry[b].at
  BY DEF TypeOK, CountRequest
<1>3. /\ now' = now /\ Len(granted'[b]) = L + 1 /\ granted'[b][L + 1] = now
      /\ \A i \in 1..L : granted'[b][i] = granted[b][i]
  BY GrantShape DEF CountRequest
<1>4. opened[b] \subseteq 1..L
  BY DEF Current
<1>5. entry[b].n > 0 /\ entry[b].n < Max[b[1]]
  BY <1>1 DEF CountRequest, Expired, Full
<1>6. First(b)' = First(b) /\ First(b) \in opened[b] /\ First(b) \in Int
  <2>1. First(b) = L - entry[b].n + 1
    BY DEF First
  <2>2. First(b)' = (L + 1) - (entry[b].n + 1) + 1
    BY <1>2, <1>3 DEF First
  <2>3. (L + 1) - (entry[b].n + 1) + 1 = L - entry[b].n + 1 /\ L - entry[b].n + 1 \in Int
    <3>1. \A x, y \in Int : (x + 1) - (y + 1) + 1 = x - y + 1 /\ x - y + 1 \in Int
      OBVIOUS
    <3>2. L \in Int /\ entry[b].n \in Int
      BY <1>1
    <3> HIDE DEF L
    <3> QED BY <3>1, <3>2
  <2>4. First(b) \in opened[b]
    BY <1>5 DEF Current
  <2> QED BY <2>1, <2>2, <2>3, <2>4
<1>7. Covered(b)'
  <2> SUFFICES ASSUME NEW i \in 1..(L + 1)
               PROVE  \E s \in opened[b] : s <= i /\ i < s + Max[b[1]]
    BY <1>2, <1>3 DEF Covered
  <2>1. CASE i \in 1..L
    BY <2>1 DEF Covered
  <2>2. CASE i = L + 1
    <3>1. First(b) <= i /\ i < First(b) + Max[b[1]]
      BY <2>2, <1>1, <1>5 DEF First
    <3> QED BY <3>1, <1>6
  <2> QED BY <2>1, <2>2, <1>1
<1>8. Apart(b)'
  BY <1>2, <1>3, <1>4 DEF Apart
<1>9. Current(b)'
  <2>1. \A s \in opened[b] : s \in 1..(L + 1) /\ s <= First(b)
    BY <1>1, <1>4 DEF Current
  <2>2. granted'[b][First(b)] = entry[b].at
    BY <1>3, <1>4, <1>5, <1>6 DEF Current
  <2> QED BY <2>1, <2>2, <1>1, <1>2, <1>3, <1>6 DEF Current
<1> QED BY <1>7, <1>8, <1>9

\* The shape of every host's history: requests let through are covered by the
\* windows' first ones, and these are a minute apart.
THEOREM WindowsAreSound == Spec => []WindowInv
<1>1. Init => WindowInv
  BY DEF Init, WindowInv, Ordered, Covered, Apart, Current, First, NoEntry
<1>2. TypeOK /\ WindowInv /\ [Next]_vars => WindowInv'
  <2> SUFFICES ASSUME TypeOK, WindowInv, [Next]_vars, NEW c \in Buckets
               PROVE  (Ordered(c) /\ Covered(c) /\ Apart(c) /\ Current(c))'
    BY DEF WindowInv
  <2>1. Ordered(c) /\ Covered(c) /\ Apart(c) /\ Current(c)
    BY DEF WindowInv
  <2>2. CASE Tick
    <3>1. now' = now + 1 /\ UNCHANGED <<entry, granted, opened>>
      BY <2>2 DEF Tick
    <3>2. Ordered(c)'
      <4>1. now \in Int /\ \A i \in 1..Len(granted[c]) : granted[c][i] \in Int
        BY DEF TypeOK
      <4> QED BY <2>1, <3>1, <4>1 DEF Ordered
    <3> QED BY <2>1, <3>1, <3>2 DEF Covered, Apart, Current, First
  <2>3. ASSUME NEW b \in Buckets, Allow(b)
        PROVE  (Ordered(c) /\ Covered(c) /\ Apart(c) /\ Current(c))'
    <3>1. CASE Refuse(b)
      BY <3>1, <2>1 DEF Refuse, Ordered, Covered, Apart, Current, First
    <3>2. CASE c # b /\ (OpenWindow(b) \/ CountRequest(b))
      <4>1. now' = now /\ entry'[c] = entry[c] /\ granted'[c] = granted[c]
            /\ opened'[c] = opened[c]
        BY <3>2 DEF OpenWindow, CountRequest, LetThrough, TypeOK
      <4> QED BY <2>1, <4>1 DEF Ordered, Covered, Apart, Current, First
    <3>3. CASE c = b /\ OpenWindow(b)
      BY <3>3, <2>1, OrderKept, OpenWindowKept DEF OpenWindow
    <3>4. CASE c = b /\ CountRequest(b)
      BY <3>4, <2>1, OrderKept, CountRequestKept DEF CountRequest
    <3> QED BY <2>3, <3>1, <3>2, <3>3, <3>4 DEF Allow
  <2>4. ASSUME NEW h \in Hosts, NEW kind \in {"login", "other"}, Request(h, kind)
        PROVE  (Ordered(c) /\ Covered(c) /\ Apart(c) /\ Current(c))'
    <3>1. <<LimiterFor(kind), h>> \in Buckets
      BY DEF LimiterFor, Buckets, Limiters
    <3> QED BY <2>3, <2>4, <3>1 DEF Request
  <2>5. CASE UNCHANGED vars
    BY <2>5, <2>1 DEF vars, Ordered, Covered, Apart, Current, First
  <2> QED BY <2>2, <2>4, <2>5 DEF Next
<1> QED BY <1>1, <1>2, TypeCorrect, PTL DEF Spec

\* In any minute at most 2 * Max - 1 requests of a host are let through: between
\* two requests further apart than that lie the starts of two windows.
THEOREM AnyMinuteIsBounded == Spec => []AnyMinuteBounded
<1>1. TypeOK /\ WindowInv => AnyMinuteBounded
  <2> SUFFICES ASSUME TypeOK, WindowInv, NEW b \in Buckets,
                      NEW i \in 1..Len(granted[b]), NEW j \in 1..Len(granted[b]),
                      j - i >= 2 * Max[b[1]] - 1
               PROVE  granted[b][j] - granted[b][i] >= Minute
    BY DEF AnyMinuteBounded
  <2>1. PICK M \in Nat \ {0} : M = Max[b[1]]
    BY BucketLimit
  <2>2. PICK L \in Nat : L = Len(granted[b])
    BY DEF TypeOK
  <2>3. i \in 1..L /\ j \in 1..L /\ j - i >= 2 * M - 1
    BY <2>1, <2>2
  <2>4. opened[b] \subseteq 1..L
    BY <2>2 DEF WindowInv, Current
  <2>5. PICK t \in 1..L : t \in opened[b] /\ t <= j /\ j < t + M
    BY <2>1, <2>3, <2>4 DEF WindowInv, Covered
  <2>6. t - 1 \in 1..L /\ t - 1 >= i + M - 1
    BY <2>3, <2>5
  <2>7. PICK s \in 1..L : s \in opened[b] /\ s <= t - 1 /\ t - 1 < s + M
    BY <2>1, <2>2, <2>4, <2>6 DEF WindowInv, Covered
  <2>8. i <= s /\ s < t
    BY <2>3, <2>6, <2>7
  <2>9. granted[b][t] - granted[b][s] >= Minute
    BY <2>5, <2>7, <2>8 DEF WindowInv, Apart
  <2>10. granted[b][i] <= granted[b][s] /\ granted[b][t] <= granted[b][j]
    BY <2>2, <2>3, <2>5, <2>7, <2>8 DEF WindowInv, Ordered
  <2>11. /\ granted[b][i] \in Int /\ granted[b][s] \in Int
         /\ granted[b][t] \in Int /\ granted[b][j] \in Int
    <3>1. \A k \in 1..L : granted[b][k] \in Int
      BY <2>2 DEF TypeOK
    <3> QED BY <3>1, <2>3
  <2>12. \A p, q, r, u, m \in Int : q - r >= m /\ p <= r /\ q <= u => u - p >= m
    OBVIOUS
  <2>13. Minute \in Int
    BY MinuteLength
  <2> QED BY <2>9, <2>10, <2>11, <2>12, <2>13
<1> QED BY <1>1, TypeCorrect, WindowsAreSound, PTL

LEMMA DivisionDropsAFraction ==
  ASSUME NEW a \in Int, NEW d \in Nat \ {0}
  PROVE  a \div d \in Int /\ a < ((a \div d) + 1) * d
OBVIOUS

\* The end of the window that refused a request is at most one second further
\* than the Retry-After of the refusal.
RetryInv(b) ==
  /\ entry[b].at <= now /\ refused[b].at <= now
  /\ entry[b].n = 0 => refused[b].retry = 0
  /\ refused[b].retry > 0 /\ entry[b].at <= refused[b].at =>
       /\ refused[b].at - entry[b].at < Minute
       /\ entry[b].at + Minute <= refused[b].at + (refused[b].retry + 1) * Second

\* After Retry-After and one second more, the host's window is over.
THEOREM RetryAfterAlwaysSuffices == Spec => []RetryAfterSuffices
<1> DEFINE Inv == \A b \in Buckets : RetryInv(b)
<1>1. Init => Inv
  BY DEF Init, RetryInv, NoEntry, NoRefusal
<1>2. TypeOK /\ Inv /\ [Next]_vars => Inv'
  <2> SUFFICES ASSUME TypeOK, Inv, [Next]_vars, NEW c \in Buckets
               PROVE  RetryInv(c)'
    OBVIOUS
  <2>1. RetryInv(c)
    OBVIOUS
  <2>2. /\ now \in Nat /\ entry[c].at \in Nat /\ entry[c].n \in Nat
        /\ refused[c].at \in Nat /\ refused[c].retry \in Nat
        /\ Minute \in Nat \ {0} /\ Second \in Nat \ {0}
    BY ClockAssumption DEF TypeOK
  <2>3. CASE Tick
    BY <2>1, <2>2, <2>3 DEF Tick, RetryInv
  <2>4. ASSUME NEW b \in Buckets, Allow(b) PROVE RetryInv(c)'
    <3>1. CASE b # c
      <4>1. now' = now /\ entry'[c] = entry[c] /\ refused'[c] = refused[c]
        BY <2>4, <3>1 DEF Allow, OpenWindow, CountRequest, Refuse, LetThrough, TypeOK
      <4> QED BY <2>1, <4>1 DEF RetryInv
    <3>2. CASE b = c /\ OpenWindow(c)
      <4>1. now' = now /\ entry'[c].at = now /\ entry'[c].n = 1 /\ refused'[c] = refused[c]
        BY <3>2 DEF OpenWindow, LetThrough, TypeOK
      <4>2. entry[c].n = 0 \/ now - entry[c].at >= Minute
        BY <3>2 DEF OpenWindow, Expired
      <4> QED BY <2>1, <2>2, <4>1, <4>2 DEF RetryInv
    <3>3. CASE b = c /\ CountRequest(c)
      <4>1. /\ now' = now /\ refused'[c] = refused[c]
            /\ entry'[c].at = entry[c].at /\ entry'[c].n = entry[c].n + 1
        BY <3>3 DEF CountRequest, LetThrough, TypeOK
      <4> QED BY <2>1, <2>2, <4>1 DEF RetryInv
    <3>4. CASE b = c /\ Refuse(c)
      <4>1. /\ now' = now /\ entry' = entry
            /\ refused'[c].at = now /\ refused'[c].retry = RetryAfter(c)
        BY <3>4 DEF Refuse, TypeOK
      <4>2. now - entry[c].at < Minute /\ entry[c].n # 0
        BY <3>4, <2>2 DEF Refuse, Expired
      <4>3. Minute - (now - entry[c].at) \in Int
        BY <2>2
      <4>4. Minute - (now - entry[c].at) < (RetryAfter(c) + 1) * Second
        <5> DEFINE left == (Minute - (now - entry[c].at)) \div Second
        <5>1. left \in Int /\ Minute - (now - entry[c].at) < (left + 1) * Second
          BY <2>2, <4>3, DivisionDropsAFraction
        <5>2. CASE left < 1
          <6>1. RetryAfter(c) = 1
            BY <5>2 DEF RetryAfter
          <6>2. (left + 1) * Second <= 1 * Second
            <7> HIDE DEF left
            <7> QED BY <5>1, <5>2, <2>2
          <6> HIDE DEF left
          <6> QED BY <5>1, <6>1, <6>2, <2>2, <4>3
        <5>3. CASE ~(left < 1)
          BY <5>1, <5>3 DEF RetryAfter
        <5> QED BY <5>2, <5>3
      <4>5. RetryAfter(c) \in Nat
        BY <2>2 DEF RetryAfter
      <4>6. (RetryAfter(c) + 1) * Second \in Int
        BY <4>5, <2>2
      <4> HIDE DEF RetryAfter
      <4> QED BY <2>1, <2>2, <4>1, <4>2, <4>4, <4>5, <4>6 DEF RetryInv
    <3> QED BY <2>4, <3>1, <3>2, <3>3, <3>4 DEF Allow
  <2>5. ASSUME NEW h \in Hosts, NEW kind \in {"login", "other"}, Request(h, kind)
        PROVE  RetryInv(c)'
    <3>1. <<LimiterFor(kind), h>> \in Buckets
      BY DEF LimiterFor, Buckets, Limiters
    <3> QED BY <2>4, <2>5, <3>1 DEF Request
  <2>6. CASE UNCHANGED vars
    BY <2>6, <2>1 DEF vars, RetryInv
  <2> QED BY <2>3, <2>5, <2>6 DEF Next
<1>3. TypeOK /\ Inv => RetryAfterSuffices
  <2> SUFFICES ASSUME TypeOK, Inv, NEW b \in Buckets, refused[b].retry > 0,
                      now >= refused[b].at + (refused[b].retry + 1) * Second,
                      entry[b].at <= refused[b].at
               PROVE  now - entry[b].at >= Minute
    BY DEF RetryAfterSuffices, Expired
  <2>1. entry[b].at + Minute <= refused[b].at + (refused[b].retry + 1) * Second
    BY DEF RetryInv
  <2>2. /\ now \in Nat /\ entry[b].at \in Nat
        /\ refused[b].at \in Nat /\ refused[b].retry \in Nat
        /\ Minute \in Nat \ {0} /\ Second \in Nat \ {0}
    BY ClockAssumption DEF TypeOK
  <2>3. (refused[b].retry + 1) * Second \in Int
    BY <2>2
  <2> QED BY <2>1, <2>2, <2>3
<1> QED BY <1>1, <1>2, <1>3, TypeCorrect, PTL DEF Spec

-----------------------------------------------------------------------------
(* What it takes to be refused. *)

\* Max requests of b were let through in the minute that ends at t.
UsedUp(b, t) ==
  \E i, j \in 1..Len(granted[b]) :
    /\ j - i = Max[b[1]] - 1
    /\ t - granted[b][i] < Minute
    /\ granted[b][j] <= t

\* A window that is full has just let Max requests through.
LEMMA FullWindowIsUsedUp ==
  ASSUME TypeOK, NEW b \in Buckets, Ordered(b), Current(b), ~Expired(b), Full(b)
  PROVE  UsedUp(b, now)
<1>0. Len(granted[b]) \in Nat
  BY DEF TypeOK
<1>1. PICK L \in Nat, M \in Nat \ {0} : L = Len(granted[b]) /\ M = Max[b[1]]
  BY <1>0, BucketLimit
<1>2. /\ entry[b].n \in Nat /\ entry[b].at \in Nat /\ now \in Nat /\ Minute \in Nat
      /\ entry[b].n <= M
  BY <1>1, MinuteLength DEF TypeOK
<1>3. entry[b].n = M /\ now - entry[b].at < Minute
  BY <1>1, <1>2 DEF Expired, Full
<1>4. First(b) \in opened[b] /\ granted[b][First(b)] = entry[b].at
  BY <1>1, <1>3 DEF Current
<1>5. First(b) \in 1..L /\ First(b) = L - M + 1
  BY <1>1, <1>3, <1>4 DEF Current, First
<1>6. L \in 1..L /\ L - First(b) = M - 1
  BY <1>1, <1>5
<1>7. granted[b][L] <= now
  BY <1>1, <1>6 DEF Ordered
<1> QED BY <1>1, <1>3, <1>4, <1>5, <1>6, <1>7 DEF UsedUp

\* Requests let through later do not change what was used up.
LEMMA UsedUpLater ==
  ASSUME TypeOK, NEW b \in Buckets, LetThrough(b), NEW t, UsedUp(b, t)
  PROVE  UsedUp(b, t)'
<1>1. PICK L \in Nat : L = Len(granted[b])
  BY DEF TypeOK
<1>2. PICK i \in 1..L, j \in 1..L :
        j - i = Max[b[1]] - 1 /\ t - granted[b][i] < Minute /\ granted[b][j] <= t
  BY <1>1 DEF UsedUp
<1>3. Len(granted'[b]) = L + 1 /\ granted'[b][i] = granted[b][i]
      /\ granted'[b][j] = granted[b][j]
  BY <1>1, <1>2, GrantShape
<1>4. i \in 1..Len(granted'[b]) /\ j \in 1..Len(granted'[b])
  BY <1>1, <1>3
<1> QED BY <1>2, <1>3, <1>4 DEF UsedUp

\* Nobody is refused who has not had Max requests let through within the minute:
\* neither refused requests, nor other hosts, nor the other limiter count.
THEOREM RefusalAlwaysEarned == Spec => []RefusalIsEarned
<1> DEFINE Inv == \A b \in Buckets : refused[b].retry > 0 => UsedUp(b, refused[b].at)
<1>1. Init => Inv
  BY DEF Init, NoRefusal
<1>2. TypeOK /\ WindowInv /\ Inv /\ [Next]_vars => Inv'
  <2> SUFFICES ASSUME TypeOK, WindowInv, Inv, [Next]_vars, NEW c \in Buckets,
                      refused'[c].retry > 0
               PROVE  UsedUp(c, refused[c].at)'
    OBVIOUS
  <2>0. PICK t : t = refused'[c].at
    OBVIOUS
  <2>1. ASSUME refused'[c] = refused[c] PROVE UsedUp(c, t)
    BY <2>0, <2>1
  <2>2. CASE Tick \/ UNCHANGED vars
    BY <2>0, <2>1, <2>2 DEF Tick, vars, UsedUp
  <2>3. ASSUME NEW b \in Buckets, Allow(b) PROVE UsedUp(c, refused[c].at)'
    <3>1. CASE Refuse(b)
      <4>1. UNCHANGED <<now, granted>>
        BY <3>1 DEF Refuse
      <4>2. CASE b = c
        <5>1. t = now
          BY <2>0, <3>1, <4>2 DEF Refuse, TypeOK
        <5>2. UsedUp(c, now)
          BY <3>1, <4>2, FullWindowIsUsedUp DEF Refuse, WindowInv
        <5> QED BY <2>0, <4>1, <5>1, <5>2 DEF UsedUp
      <4>3. CASE b # c
        <5>1. refused'[c] = refused[c]
          BY <3>1, <4>3 DEF Refuse, TypeOK
        <5> QED BY <2>0, <2>1, <4>1, <5>1 DEF UsedUp
      <4> QED BY <4>2, <4>3
    <3>2. CASE OpenWindow(b) \/ CountRequest(b)
      <4>1. LetThrough(b) /\ refused' = refused
        BY <3>2 DEF OpenWindow, CountRequest, LetThrough
      <4>2. UsedUp(c, t)
        BY <2>1, <4>1
      <4>3. CASE b = c
        <5>1. UsedUp(c, t)'
          BY <4>1, <4>2, <4>3, UsedUpLater
        <5> QED BY <2>0, <5>1 DEF UsedUp
      <4>4. CASE b # c
        <5>1. granted'[c] = granted[c]
          BY <4>1, <4>4, GrantShape
        <5> QED BY <2>0, <4>2, <5>1 DEF UsedUp
      <4> QED BY <4>3, <4>4
    <3> QED BY <2>3, <3>1, <3>2 DEF Allow
  <2>4. ASSUME NEW h \in Hosts, NEW kind \in {"login", "other"}, Request(h, kind)
        PROVE  UsedUp(c, refused[c].at)'
    <3>1. <<LimiterFor(kind), h>> \in Buckets
      BY DEF LimiterFor, Buckets, Limiters
    <3> QED BY <2>3, <2>4, <3>1 DEF Request
  <2> QED BY <2>2, <2>4 DEF Next
<1>3. Inv => RefusalIsEarned
  BY DEF UsedUp, RefusalIsEarned
<1> QED BY <1>1, <1>2, <1>3, TypeCorrect, WindowsAreSound, PTL DEF Spec
=============================================================================
