-------------------------------- MODULE SignIn --------------------------------
(***************************************************************************)
(* The password form of AuthScreen.jsx and its lockout.  A screen is one   *)
(* mounted AuthScreen, in a tab of its own or after another of its tab: a  *)
(* reload closes a screen and mounts the next.  All share localStorage,    *)
(* which each reads when it is mounted and writes later on; a handler that *)
(* awaits an answer keeps the values of the render it was made in, and     *)
(* goes on after its screen is unmounted unless the page is closed.        *)
(***************************************************************************)
EXTENDS Integers, FiniteSets

CONSTANTS Screens,
          GoogleUsers,  \* the screens whose user may sign in with Google
          Max,      \* maxAttempts
          Lockout,  \* lockoutDuration, 5 minutes
          Expiry,   \* the 15 minutes after which a stored count is forgotten
          MaxTime   \* bound on the clock

ASSUME LockoutAssumption ==
  /\ Max \in Nat \ {0} /\ Lockout \in Nat \ {0} /\ Expiry \in Nat \ {0}
  /\ MaxTime \in Nat \ {0}
  /\ GoogleUsers \subseteq Screens

VARIABLES
  now,
  stored,       \* localStorage: failed attempts, their timestamp, lockout's end
  mounted,
  attempts, ends,  \* the screens' state
  locked,       \* the screens whose last render found ends in the future
  captcha,      \* turnstileToken: none, fresh, or sent with a request
  login,        \* the attempts in the closure of a handleLogin that awaits
  google,       \* the screens with a Google callback that awaits
  redirecting,  \* the screens whose setTimeout will navigate away
  synced,       \* history: no other screen has written localStorage since this
                \* one was mounted or wrote it
  fails         \* history: when a screen was answered 401, and which of that time
                \* it is, since it was mounted or signed in; what is a lockout
                \* or more ago is dropped

ui == <<attempts, ends, locked, captcha>>
awaits == <<login, google, redirecting>>
vars == <<now, stored, mounted, ui, awaits, synced, fails>>

Idle == -1
Nothing == [attempts |-> 0, stamp |-> 0, ends |-> 0]

\* "0" stands for an absent key, so the clock does not start there.
Init ==
  /\ now = 1
  /\ stored = Nothing
  /\ mounted = {} /\ locked = {} /\ google = {} /\ redirecting = {} /\ synced = {}
  /\ attempts = [s \in Screens |-> 0] /\ ends = [s \in Screens |-> 0]
  /\ captcha = [s \in Screens |-> "none"]
  /\ login = [s \in Screens |-> Idle]
  /\ fails = [s \in Screens |-> {}]

Tick ==
  /\ now < MaxTime
  /\ now' = now + 1
  /\ fails' = [s \in Screens |-> {f \in fails[s] : now' - f[1] < Lockout}]
  /\ UNCHANGED <<stored, mounted, ui, awaits, synced>>

-----------------------------------------------------------------------------
(* State and storage. *)

\* setAttempts and setLockoutEnds, and the render that follows; without effect
\* on a screen that is no longer mounted.
Show(s, a, e) ==
  /\ attempts' = IF s \in mounted THEN [attempts EXCEPT ![s] = a] ELSE attempts
  /\ ends' = IF s \in mounted THEN [ends EXCEPT ![s] = e] ELSE ends
  /\ locked' = IF s \in mounted /\ e > now THEN locked \cup {s} ELSE locked \ {s}

Render(s) == Show(s, attempts[s], ends[s])

Store(s, entry) ==
  /\ stored' = entry
  /\ synced' = synced \cap {s}

\* The three removeItem calls.
Forget == Nothing

Busy(s) == login[s] # Idle \/ s \in google

-----------------------------------------------------------------------------
(* Mounting. *)

Stale == stored.stamp # 0 /\ now - stored.stamp > Expiry

Mount(s) ==
  /\ s \notin mounted \cup redirecting /\ ~Busy(s)
  /\ mounted' = mounted \cup {s}
  /\ attempts' = [attempts EXCEPT ![s] = IF Stale THEN 0 ELSE stored.attempts]
  /\ ends' = [ends EXCEPT ![s] = stored.ends]
  /\ locked' = IF stored.ends > now THEN locked \cup {s} ELSE locked
  /\ IF Stale
     THEN /\ stored' = [Nothing EXCEPT !.ends = stored.ends]
          /\ synced' = {s}
     ELSE /\ synced' = synced \cup {s}
          /\ UNCHANGED stored
  /\ fails' = [fails EXCEPT ![s] = {}]
  /\ UNCHANGED <<now, captcha, awaits>>

Unmount(s) ==
  /\ mounted' = mounted \ {s}
  /\ attempts' = [attempts EXCEPT ![s] = 0] /\ ends' = [ends EXCEPT ![s] = 0]
  /\ locked' = locked \ {s} /\ synced' = synced \ {s}
  /\ captcha' = [captcha EXCEPT ![s] = "none"]
  /\ UNCHANGED <<now, stored, fails>>

\* The user goes to another page of the application.
Leave(s) ==
  /\ s \in mounted
  /\ Unmount(s)
  /\ UNCHANGED awaits

\* The page is closed or reloaded.
Close(s) ==
  /\ s \in mounted \cup redirecting \/ Busy(s)
  /\ Unmount(s)
  /\ login' = [login EXCEPT ![s] = Idle]
  /\ google' = google \ {s} /\ redirecting' = redirecting \ {s}

\* navigate('/assets/108')
Redirect(s) ==
  /\ s \in redirecting
  /\ Unmount(s)
  /\ redirecting' = redirecting \ {s}
  /\ UNCHANGED <<login, google>>

-----------------------------------------------------------------------------
(* The captcha, as the widget's callbacks set it. *)

Solve(s) ==
  /\ s \in mounted /\ captcha[s] = "none"
  /\ captcha' = [captcha EXCEPT ![s] = "fresh"]
  /\ Render(s)
  /\ UNCHANGED <<now, stored, mounted, awaits, synced, fails>>

Expire(s) ==
  /\ s \in mounted /\ captcha[s] # "none"
  /\ captcha' = [captcha EXCEPT ![s] = "none"]
  /\ Render(s)
  /\ UNCHANGED <<now, stored, mounted, awaits, synced, fails>>

\* Mutant of ResetTurnstile: the token of a failed request is kept.
KeepToken(s) == UNCHANGED captcha

ResetTurnstile(s) == captcha' = [captcha EXCEPT ![s] = "none"]

-----------------------------------------------------------------------------
(* Signing in. *)

\* The fields, and the button in the place of the lockout card.
FormUsable(s) == s \in mounted \ locked /\ ~Busy(s)
ButtonUsable(s) == FormUsable(s) /\ captcha[s] # "none"

\* Mutant of Exhausted: > in the place of >=.
ExhaustedLate(n) == n > Max

Exhausted(n) == n >= Max

\* An expired lockout that no timer has lifted yet is begun anew.
LockAgain(s) ==
  /\ ButtonUsable(s) /\ Exhausted(attempts[s])
  /\ Show(s, attempts[s], now + Lockout)
  /\ Store(s, [stored EXCEPT !.ends = now + Lockout])
  /\ UNCHANGED <<now, mounted, captcha, awaits, fails>>

Send(s) ==
  /\ ButtonUsable(s) /\ ~Exhausted(attempts[s])
  /\ login' = [login EXCEPT ![s] = attempts[s]]
  /\ captcha' = [captcha EXCEPT ![s] = "spent"]
  /\ Render(s)
  /\ UNCHANGED <<now, stored, mounted, google, redirecting, synced, fails>>

\* 401; n is the attempt's number.  A lockout follows the last attempt.
CountFailure(s, n) ==
  LET e == IF Exhausted(n) THEN now + Lockout ELSE ends[s]
  IN  /\ Show(s, n, e)
      /\ Store(s, [attempts |-> n, stamp |-> now,
                   ends |-> IF Exhausted(n) THEN e ELSE stored.ends])
      /\ fails' = [fails EXCEPT ![s] = @ \cup {<<now, Cardinality(@)>>}]

\* Answers that are not counted: 429, a captcha that is refused, the service or
\* the network failing, an unusable session.
OtherError(s) == Render(s) /\ UNCHANGED <<stored, synced, fails>>

CompleteLogin(s) ==
  /\ Store(s, Forget)
  /\ Show(s, 0, 0)
  /\ redirecting' = redirecting \cup {s}
  /\ fails' = [fails EXCEPT ![s] = {}]

LoginAnswer(s) ==
  /\ login[s] # Idle
  /\ login' = [login EXCEPT ![s] = Idle]
  /\ \/ CompleteLogin(s) /\ UNCHANGED captcha
     \/ /\ ResetTurnstile(s)
        /\ CountFailure(s, login[s] + 1) \/ OtherError(s)
        /\ UNCHANGED redirecting
  /\ UNCHANGED <<now, mounted, google>>

\* Google's button does not look at the lockout, nor at a login under way.
GoogleCallback(s) ==
  /\ s \in (mounted \cap GoogleUsers) \ google
  /\ google' = google \cup {s}
  /\ Render(s)
  /\ UNCHANGED <<now, stored, mounted, captcha, login, redirecting, synced, fails>>

GoogleAnswer(s) ==
  /\ s \in google
  /\ google' = google \ {s}
  /\ \/ CompleteLogin(s)
     \/ OtherError(s) /\ UNCHANGED redirecting
  /\ UNCHANGED <<now, mounted, captcha, login>>

-----------------------------------------------------------------------------
(* The interval of the lockout. *)

\* Mutant of Lift: the state is reset and localStorage is not.
LiftStateOnly(s) ==
  /\ Show(s, 0, 0)
  /\ UNCHANGED <<stored, synced>>

\* Mutant of Lift: only localStorage is reset.
LiftStorageOnly(s) ==
  /\ Render(s)
  /\ Store(s, Forget)

Lift(s) ==
  /\ Show(s, 0, 0)
  /\ Store(s, Forget)

LockoutTimer(s) ==
  /\ s \in mounted /\ ends[s] # 0
  /\ \/ ends[s] <= now /\ Lift(s)
     \/ ends[s] > now /\ Render(s) /\ UNCHANGED <<stored, synced>>
  /\ UNCHANGED <<now, mounted, captcha, awaits, fails>>

\* Feedback, typing and toasts render the screen too.
OtherRender(s) ==
  /\ s \in mounted
  /\ Render(s)
  /\ UNCHANGED <<now, stored, mounted, captcha, awaits, synced, fails>>

-----------------------------------------------------------------------------
ScreenStep(s) ==
  \/ Mount(s) \/ Leave(s) \/ Close(s) \/ Redirect(s)
  \/ Solve(s) \/ Expire(s)
  \/ LockAgain(s) \/ Send(s) \/ LoginAnswer(s)
  \/ GoogleCallback(s) \/ GoogleAnswer(s)
  \/ LockoutTimer(s) \/ OtherRender(s)

Next == Tick \/ \E s \in Screens : ScreenStep(s)

Spec == Init /\ [][Next]_vars

\* Time passes and an interval goes on firing; users and servers owe nothing.
FairSpec ==
  /\ Spec
  /\ WF_vars(Tick) /\ \A s \in Screens : WF_vars(LockoutTimer(s))

-----------------------------------------------------------------------------
(* Properties. *)

TypeOK ==
  /\ now \in 1..MaxTime
  /\ stored \in [attempts : 0..Max, stamp : Nat, ends : Nat]
  /\ mounted \subseteq Screens /\ locked \subseteq Screens /\ google \subseteq Screens
  /\ redirecting \subseteq Screens /\ synced \subseteq Screens
  /\ attempts \in [Screens -> 0..Max] /\ ends \in [Screens -> Nat]
  /\ captcha \in [Screens -> {"none", "fresh", "spent"}]
  /\ login \in [Screens -> {Idle} \cup 0..(Max - 1)]
  /\ fails \in [Screens -> SUBSET ((1..MaxTime) \X Nat)]

\* What the lockout bounds, whatever other tabs do to localStorage and however
\* late the timers are: less than 2 * Max wrong passwords on a screen within the
\* length of a lockout.  (Not Max: a screen may be mounted with the end of an
\* old lockout, whose timer then clears the count.)
FailuresBounded == \A s \in Screens : Cardinality(fails[s]) < 2 * Max

\* A reload is no amnesty and no sentence: unless another screen wrote to
\* localStorage, it holds what the screen shows.
StorageInStep ==
  \A s \in mounted \cap synced :
    stored.attempts = attempts[s] /\ stored.ends = ends[s]

\* A captcha token is sent once, but for the second between a sign-in and its
\* redirect: no error path leaves a spent token behind.
TokenSpentOnce ==
  [][\A s \in Screens :
       login[s] = Idle /\ login'[s] # Idle =>
         captcha[s] = "fresh" \/ s \in redirecting]_vars

\* A lockout is lifted once it is over, without a reload (or, by an attempt
\* before the timer, prolonged beyond the model's time).
LockoutIsLifted ==
  \A s \in Screens :
    (s \in mounted /\ ends[s] # 0) ~> (s \notin mounted \/ ends[s] \notin 1..MaxTime)
=============================================================================
