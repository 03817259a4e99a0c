------------------------------ MODULE RateLimiter ------------------------------
(***************************************************************************)
(* The rate limiter in front of every REST handler: Limiter.Allow and      *)
(* App.withMiddleware.  A limiter keeps, for each host, the instant of the *)
(* first request of its window and a count; a request a minute or more     *)
(* after that instant opens the next window.  Allow holds the limiter's    *)
(* mutex while it reads the clock, so one action is one request.  The      *)
(* clock counts ticks, finer than the whole seconds of Retry-After.        *)
(***************************************************************************)
EXTENDS Integers, Sequences

CONSTANTS Hosts,
          Max,              \* Max[l]: requests a window of limiter l has
          Second, Minute,   \* in ticks
          MaxTime           \* bound on the clock

Limiters == {"general", "auth"}

ASSUME LimitAssumption == Max \in [Limiters -> Nat \ {0}]
ASSUME ClockAssumption == {Second, Minute} \subseteq Nat \ {0} /\ MaxTime \in Nat

VARIABLES
  now,
  entry,    \* entry[b]: a host's limitEntry in a limiter, n = 0 if it has none
  granted,  \* history: the instants of the requests let through, in order
  opened,   \* history: the positions in granted of those that opened a window
  refused   \* history: the last 429, its instant and its Retry-After

vars == <<now, entry, granted, opened, refused>>

Buckets == Limiters \X Hosts
NoEntry == [at |-> 0, n |-> 0]
NoRefusal == [at |-> 0, retry |-> 0]

Init ==
  /\ now = 0
  /\ entry = [b \in Buckets |-> NoEntry]
  /\ granted = [b \in Buckets |-> <<>>]
  /\ opened = [b \in Buckets |-> {}]
  /\ refused = [b \in Buckets |-> NoRefusal]

Tick ==
  /\ now < MaxTime
  /\ now' = now + 1
  /\ UNCHANGED <<entry, granted, opened, refused>>

LetThrough(b) ==
  /\ granted' = [granted EXCEPT ![b] = Append(@, now)]
  /\ UNCHANGED <<now, refused>>

\* Mutant of Expired: the window ends one tick before the minute does.
ExpiredEarly(b) == entry[b].n = 0 \/ now - entry[b].at >= Minute - 1

Expired(b) == entry[b].n = 0 \/ now - entry[b].at >= Minute

OpenWindow(b) ==
  /\ Expired(b)
  /\ entry' = [entry EXCEPT ![b] = [at |-> now, n |-> 1]]
  /\ opened' = [opened EXCEPT ![b] = @ \cup {Len(granted[b]) + 1}]
  /\ LetThrough(b)

\* Mutants of Full: > in the place of >=; the request that asks is counted, too.
FullTooLate(b) == entry[b].n > Max[b[1]]

FullTooSoon(b) == entry[b].n + 1 >= Max[b[1]]

Full(b) == entry[b].n >= Max[b[1]]

CountRequest(b) ==
  /\ ~Expired(b) /\ ~Full(b)
  /\ entry' = [entry EXCEPT ![b] = [at |-> entry[b].at, n |-> entry[b].n + 1]]
  /\ LetThrough(b)
  /\ UNCHANGED opened

\* int((time.Minute - elapsed).Seconds()) drops the fraction of a second.
RetryAfter(b) ==
  LET left == (Minute - (now - entry[b].at)) \div Second
  IN  IF left < 1 THEN 1 ELSE left

\* Mutant of Refuse: a refused request starts the window afresh.
RefuseAndExtend(b) ==
  /\ ~Expired(b) /\ Full(b)
  /\ refused' = [refused EXCEPT ![b] = [at |-> now, retry |-> RetryAfter(b)]]
  /\ entry' = [entry EXCEPT ![b] = [at |-> now, n |-> entry[b].n]]
  /\ UNCHANGED <<now, granted, opened>>

Refuse(b) ==
  /\ ~Expired(b) /\ Full(b)
  /\ refused' = [refused EXCEPT ![b] = [at |-> now, retry |-> RetryAfter(b)]]
  /\ UNCHANGED <<now, entry, granted, opened>>

Allow(b) == OpenWindow(b) \/ CountRequest(b) \/ Refuse(b)

\* withMiddleware: a POST under /api/v1/auth is the auth limiter's, any other
\* request but a preflight the general one's.
LimiterFor(kind) == IF kind = "login" THEN "auth" ELSE "general"

Request(h, kind) == Allow(<<LimiterFor(kind), h>>)

Next == Tick \/ \E h \in Hosts, kind \in {"login", "other"} : Request(h, kind)

Spec == Init /\ [][Next]_vars

-----------------------------------------------------------------------------
(* Properties. *)

TypeOK ==
  /\ now \in 0..MaxTime
  /\ entry \in [Buckets -> [at : Nat, n : Nat]]
  /\ granted \in [Buckets -> Seq(Nat)]
  /\ opened \in [Buckets -> SUBSET Nat]
  /\ refused \in [Buckets -> [at : Nat, retry : Nat]]
  /\ \A b \in Buckets : entry[b].n <= Max[b[1]]

\* What a fixed window really gives the configured "per minute": in any minute,
\* wherever it starts, at most 2 * Max - 1 requests of a host are let through
\* (the end of one window and the whole of the next), never 2 * Max.
AnyMinuteBounded ==
  \A b \in Buckets : \A i, j \in 1..Len(granted[b]) :
    j - i >= 2 * Max[b[1]] - 1 => granted[b][j] - granted[b][i] >= Minute

\* A 429 says how long to wait: one second more than Retry-After (whose
\* fraction of a second is dropped) always suffices, because a refused request
\* does not prolong its window.
RetryAfterSuffices ==
  \A b \in Buckets :
    /\ refused[b].retry > 0
    /\ now >= refused[b].at + (refused[b].retry + 1) * Second
    /\ entry[b].at <= refused[b].at
    => Expired(b)

\* The other side of the bound: a host is refused only if Max of its requests
\* were let through in the minute that ends with the refusal.  Requests that
\* were refused themselves, those of other hosts and those that the other
\* limiter counts do not use its quota up.
RefusalIsEarned ==
  \A b \in Buckets :
    refused[b].retry > 0 =>
      \E i, j \in 1..Len(granted[b]) :
        /\ j - i = Max[b[1]] - 1
        /\ refused[b].at - granted[b][i] < Minute
        /\ granted[b][j] <= refused[b].at
=============================================================================
