----------------------------- MODULE SignInProofs -----------------------------
(***************************************************************************)
(* Theorems about SignIn: for any number of screens and attempts and any   *)
(* length of the lockout.                                                  *)
(***************************************************************************)
EXTENDS SignIn, FiniteSetTheorems, TLAPS

-----------------------------------------------------------------------------
(* Types, one part per group of variables. *)

StoredTypes == stored \in [attempts : 0..Max, stamp : Nat, ends : Nat]

PlaceTypes == mounted \subseteq Screens /\ synced \subseteq Screens

UiTypes ==
  attempts \in [Screens -> 0..Max] /\ ends \in [Screens -> Nat] /\ locked \subseteq Screens

CaptchaTypes == captcha \in [Screens -> {"none", "fresh", "spent"}]

AwaitTypes ==
  /\ login \in [Screens -> {Idle} \cup 0..(Max - 1)]
  /\ google \subseteq Screens /\ redirecting \subseteq Screens

FailTypes ==
  /\ fails \in [Screens -> SUBSET ((1..MaxTime) \X Nat)]
  /\ \A s \in Screens : IsFiniteSet(fails[s])

Types ==
  /\ now \in 1..MaxTime
  /\ StoredTypes /\ PlaceTypes /\ UiTypes /\ CaptchaTypes /\ AwaitTypes /\ FailTypes

LEMMA TypesGiveTypeOK == Types => TypeOK
  BY DEF Types, StoredTypes, PlaceTypes, UiTypes, CaptchaTypes, AwaitTypes, FailTypes, TypeOK

LEMMA ShowTypes ==
  ASSUME UiTypes, NEW s \in Screens, NEW a \in 0..Max, NEW e \in Nat, Show(s, a, e)
  PROVE  UiTypes'
  BY DEF Show, UiTypes

LEMMA RenderTypes == ASSUME UiTypes, NEW s \in Screens, Render(s) PROVE UiTypes'
  <1>1. attempts[s] \in 0..Max /\ ends[s] \in Nat
    BY DEF UiTypes
  <1> QED BY <1>1, ShowTypes DEF Render

LEMMA StoreTypes ==
  ASSUME PlaceTypes, NEW s, NEW entry, Store(s, entry), UNCHANGED mounted,
         entry \in [attempts : 0..Max, stamp : Nat, ends : Nat]
  PROVE  StoredTypes' /\ PlaceTypes'
  BY DEF Store, StoredTypes, PlaceTypes

LEMMA ForgetTypes == Forget \in [attempts : 0..Max, stamp : Nat, ends : Nat]
  BY LockoutAssumption DEF Forget, Nothing

LEMMA UnmountTypes ==
  ASSUME Types, NEW s \in Screens, Unmount(s)
  PROVE  now' \in 1..MaxTime /\ StoredTypes' /\ PlaceTypes' /\ UiTypes' /\ CaptchaTypes'
         /\ FailTypes'
  <1>1. StoredTypes' /\ PlaceTypes' /\ FailTypes' /\ now' \in 1..MaxTime
    BY DEF Unmount, Types, StoredTypes, PlaceTypes, FailTypes
  <1>2. UiTypes' /\ CaptchaTypes'
    BY LockoutAssumption DEF Unmount, Types, UiTypes, CaptchaTypes
  <1> QED BY <1>1, <1>2

\* The failures of a screen are forgotten.
LEMMA NoFailTypes ==
  ASSUME FailTypes, NEW s \in Screens, fails' = [fails EXCEPT ![s] = {}]
  PROVE  FailTypes'
  BY FS_EmptySet DEF FailTypes

\* Signing in, by either way.
LEMMA CompleteTypes ==
  ASSUME Types, NEW s \in Screens, CompleteLogin(s), UNCHANGED mounted
  PROVE  StoredTypes' /\ PlaceTypes' /\ UiTypes' /\ FailTypes' /\ redirecting' \subseteq Screens
  <1>1. StoredTypes' /\ PlaceTypes'
    BY StoreTypes, ForgetTypes DEF CompleteLogin, Types
  <1>2. UiTypes'
    BY ShowTypes, LockoutAssumption DEF CompleteLogin, Types
  <1>3. FailTypes' /\ redirecting' \subseteq Screens
    BY NoFailTypes DEF CompleteLogin, Types, AwaitTypes
  <1> QED BY <1>1, <1>2, <1>3

\* A counted failure.
LEMMA FailureTypes ==
  ASSUME Types, NEW s \in Screens, NEW n \in 1..Max, CountFailure(s, n), UNCHANGED mounted
  PROVE  StoredTypes' /\ PlaceTypes' /\ UiTypes' /\ FailTypes'
  <1> DEFINE e == IF Exhausted(n) THEN now + Lockout ELSE ends[s]
  <1>1. e \in Nat /\ now \in Nat /\ stored.ends \in Nat /\ n \in 0..Max
    BY LockoutAssumption DEF Types, UiTypes, StoredTypes
  <1>2. Show(s, n, e)
    BY DEF CountFailure
  <1>3. UiTypes'
    BY <1>1, <1>2, ShowTypes DEF Types
  <1>4. StoredTypes' /\ PlaceTypes'
    BY <1>1, StoreTypes DEF CountFailure, Types
  <1>5. FailTypes'
    <2>1. Cardinality(fails[s]) \in Nat
      BY FS_CardinalityType DEF Types, FailTypes
    <2>2. fails[s] \cup {<<now, Cardinality(fails[s])>>} \in SUBSET ((1..MaxTime) \X Nat)
      BY <2>1 DEF Types, FailTypes
    <2>3. IsFiniteSet(fails[s] \cup {<<now, Cardinality(fails[s])>>})
      BY FS_AddElement DEF Types, FailTypes
    <2>4. fails' = [fails EXCEPT ![s] = fails[s] \cup {<<now, Cardinality(fails[s])>>}]
      BY DEF CountFailure
    <2> QED BY <2>2, <2>3, <2>4 DEF Types, FailTypes
  <1> QED BY <1>3, <1>4, <1>5

LEMMA InitTypes == Init => Types
  <1> SUFFICES ASSUME Init PROVE Types
    OBVIOUS
  <1> USE LockoutAssumption
  <1>1. now \in 1..MaxTime /\ StoredTypes /\ PlaceTypes
    BY DEF Init, Nothing, StoredTypes, PlaceTypes
  <1>2. UiTypes /\ CaptchaTypes /\ AwaitTypes
    BY DEF Init, UiTypes, CaptchaTypes, AwaitTypes
  <1>3. FailTypes
    BY FS_EmptySet DEF Init, FailTypes
  <1> QED BY <1>1, <1>2, <1>3 DEF Types

\* What was a lockout ago is dropped.
LEMMA TickFails ==
  ASSUME Types, Tick
  PROVE  /\ FailTypes'
         /\ \A s \in Screens : /\ fails'[s] \subseteq fails[s]
                               /\ Cardinality(fails'[s]) <= Cardinality(fails[s])
                               /\ \A f \in fails'[s] : now' - f[1] < Lockout
  <1>1. \A s \in Screens : fails'[s] = {f \in fails[s] : now' - f[1] < Lockout}
    BY DEF Tick
  <1>2. ASSUME NEW s \in Screens
        PROVE  IsFiniteSet(fails'[s]) /\ Cardinality(fails'[s]) <= Cardinality(fails[s])
    <2>1. fails'[s] \in SUBSET fails[s]
      BY <1>1
    <2> QED BY <2>1, FS_Subset DEF Types, FailTypes
  <1>3. fails' \in [Screens -> SUBSET ((1..MaxTime) \X Nat)]
    BY DEF Tick, Types, FailTypes
  <1>4. FailTypes'
    BY <1>2, <1>3, Zenon DEF FailTypes
  <1>5. \A s \in Screens : /\ fails'[s] \subseteq fails[s]
                            /\ \A f \in fails'[s] : now' - f[1] < Lockout
    BY <1>1
  <1> QED BY <1>2, <1>4, <1>5

\* Every step of a screen keeps the types.
LEMMA ScreenTypes == ASSUME Types, NEW s \in Screens, ScreenStep(s) PROVE Types'
  <1> USE LockoutAssumption
  <1>1. CASE Mount(s)
    <2>1. FailTypes'
      BY <1>1, NoFailTypes DEF Mount, Types
    <2>2. StoredTypes' /\ PlaceTypes'
      <3>1. [Nothing EXCEPT !.ends = stored.ends] \in
              [attempts : 0..Max, stamp : Nat, ends : Nat]
        BY DEF Nothing, Types, StoredTypes
      <3>2. StoredTypes'
        BY <1>1, <3>1, Zenon DEF Mount, Types, StoredTypes
      <3>3. PlaceTypes'
        BY <1>1 DEF Mount, Types, PlaceTypes
      <3> QED BY <3>2, <3>3
    <2>3. UiTypes'
      BY <1>1 DEF Mount, Types, StoredTypes, UiTypes
    <2> QED BY <1>1, <2>1, <2>2, <2>3 DEF Mount, awaits, Types, CaptchaTypes, AwaitTypes
  <1>2. CASE Leave(s) \/ Close(s) \/ Redirect(s)
    <2>1. Unmount(s)
      BY <1>2 DEF Leave, Close, Redirect
    <2>2. AwaitTypes'
      BY <1>2 DEF Leave, Close, Redirect, awaits, Types, AwaitTypes
    <2> QED BY <2>1, <2>2, UnmountTypes DEF Types
  <1>3. CASE Solve(s) \/ Expire(s)
    <2>1. UiTypes' /\ CaptchaTypes'
      BY <1>3, RenderTypes DEF Solve, Expire, Types, CaptchaTypes
    <2>2. UNCHANGED <<now, stored, mounted, awaits, synced, fails>>
      BY <1>3 DEF Solve, Expire
    <2> QED BY <2>1, <2>2 DEF awaits, Types, StoredTypes, PlaceTypes, AwaitTypes, FailTypes
  <1>4. CASE LockAgain(s)
    <2>1. attempts[s] \in 0..Max /\ now + Lockout \in Nat
      BY DEF Types, UiTypes
    <2>2. UiTypes'
      BY <1>4, <2>1, ShowTypes DEF LockAgain, Types
    <2>3. StoredTypes' /\ PlaceTypes'
      <3>1. [stored EXCEPT !.ends = now + Lockout] \in
              [attempts : 0..Max, stamp : Nat, ends : Nat]
        BY <2>1 DEF Types, StoredTypes
      <3> QED BY <1>4, <3>1, StoreTypes DEF LockAgain, Types
    <2> QED BY <1>4, <2>2, <2>3
            DEF LockAgain, awaits, Types, CaptchaTypes, AwaitTypes, FailTypes
  <1>5. CASE Send(s)
    <2>1. UiTypes' /\ CaptchaTypes'
      BY <1>5, RenderTypes DEF Send, Types, CaptchaTypes
    <2>2. attempts[s] \in 0..(Max - 1)
      BY <1>5 DEF Send, Exhausted, Types, UiTypes
    <2>3. AwaitTypes'
      BY <1>5, <2>2 DEF Send, Types, AwaitTypes
    <2> QED BY <1>5, <2>1, <2>3 DEF Send, Types, StoredTypes, PlaceTypes, FailTypes
  <1>6. CASE LoginAnswer(s)
    <2>1. login[s] + 1 \in 1..Max /\ UNCHANGED <<now, mounted, google>>
      BY <1>6 DEF LoginAnswer, Types, AwaitTypes
    <2>2. login' \in [Screens -> {Idle} \cup 0..(Max - 1)]
      BY <1>6 DEF LoginAnswer, Types, AwaitTypes
    <2>3. CASE CompleteLogin(s) /\ UNCHANGED captcha
      BY <2>1, <2>2, <2>3, CompleteTypes DEF Types, CaptchaTypes, AwaitTypes
    <2>4. CASE ResetTurnstile(s) /\ CountFailure(s, login[s] + 1) /\ UNCHANGED redirecting
      <3>1. CaptchaTypes'
        BY <2>4 DEF ResetTurnstile, Types, CaptchaTypes
      <3> QED BY <2>1, <2>2, <2>4, <3>1, FailureTypes DEF Types, AwaitTypes
    <2>5. CASE ResetTurnstile(s) /\ OtherError(s) /\ UNCHANGED redirecting
      <3>1. CaptchaTypes' /\ UiTypes'
        BY <2>5, RenderTypes DEF ResetTurnstile, OtherError, Types, CaptchaTypes
      <3> QED BY <2>1, <2>2, <2>5, <3>1
              DEF OtherError, Types, AwaitTypes, StoredTypes, PlaceTypes, FailTypes
    <2> QED BY <1>6, <2>3, <2>4, <2>5 DEF LoginAnswer
  <1>7. CASE GoogleCallback(s)
    <2>1. UiTypes' /\ google' \subseteq Screens
      BY <1>7, RenderTypes DEF GoogleCallback, Types, AwaitTypes
    <2> QED BY <1>7, <2>1
            DEF GoogleCallback, Types, CaptchaTypes, AwaitTypes, StoredTypes, PlaceTypes,
                FailTypes
  <1>8. CASE GoogleAnswer(s)
    <2>1. UNCHANGED <<now, mounted, captcha, login>> /\ google' \subseteq Screens
      BY <1>8 DEF GoogleAnswer, Types, AwaitTypes
    <2>2. CASE CompleteLogin(s)
      BY <2>1, <2>2, CompleteTypes DEF Types, CaptchaTypes, AwaitTypes
    <2>3. CASE OtherError(s) /\ UNCHANGED redirecting
      <3>1. UiTypes'
        BY <2>3, RenderTypes DEF OtherError, Types
      <3> QED BY <2>1, <2>3, <3>1
              DEF OtherError, Types, CaptchaTypes, AwaitTypes, StoredTypes, PlaceTypes,
                  FailTypes
    <2> QED BY <1>8, <2>2, <2>3 DEF GoogleAnswer
  <1>9. CASE LockoutTimer(s)
    <2>1. UNCHANGED <<now, mounted, captcha, awaits, fails>>
      BY <1>9 DEF LockoutTimer
    <2>2. UiTypes' /\ StoredTypes' /\ PlaceTypes'
      <3>1. CASE Lift(s)
        BY <2>1, <3>1, ShowTypes, StoreTypes, ForgetTypes DEF Lift, Types
      <3>2. CASE Render(s) /\ UNCHANGED <<stored, synced>>
        BY <2>1, <3>2, RenderTypes DEF Types, StoredTypes, PlaceTypes
      <3> QED BY <1>9, <3>1, <3>2 DEF LockoutTimer
    <2> QED BY <2>1, <2>2 DEF awaits, Types, CaptchaTypes, AwaitTypes, FailTypes
  <1>10. CASE OtherRender(s)
    <2>1. UiTypes'
      BY <1>10, RenderTypes DEF OtherRender, Types
    <2> QED BY <1>10, <2>1
            DEF OtherRender, awaits, Types, CaptchaTypes, AwaitTypes, StoredTypes,
                PlaceTypes, FailTypes
  <1> QED
    BY <1>1, <1>2, <1>3, <1>4, <1>5, <1>6, <1>7, <1>8, <1>9, <1>10 DEF ScreenStep

LEMMA StepTypes == Types /\ [Next]_vars => Types'
  <1> SUFFICES ASSUME Types, [Next]_vars PROVE Types'
    OBVIOUS
  <1>1. CASE Tick
    <2>1. FailTypes' /\ now' \in 1..MaxTime
      BY <1>1, TickFails, LockoutAssumption DEF Tick, Types
    <2> QED BY <1>1, <2>1 DEF Tick, ui, awaits, Types, StoredTypes, PlaceTypes, UiTypes,
                              CaptchaTypes, AwaitTypes
  <1>2. CASE UNCHANGED vars
    BY <1>2 DEF vars, ui, awaits, Types, StoredTypes, PlaceTypes, UiTypes, CaptchaTypes,
                AwaitTypes, FailTypes
  <1> QED BY <1>1, <1>2, ScreenTypes DEF Next

\* The types of SignIn hold for every value of the constants; the counts never
\* pass maxAttempts.
THEOREM TypeCorrect == Spec => []TypeOK
  <1>1. Spec => []Types
    BY InitTypes, StepTypes, PTL DEF Spec
  <1> QED BY <1>1, TypesGiveTypeOK, PTL

-----------------------------------------------------------------------------
(* localStorage and the screens. *)

LEMMA ScreenStorage ==
  ASSUME Types, StorageInStep, NEW s \in Screens, ScreenStep(s)
  PROVE  StorageInStep'
  <1> SUFFICES ASSUME NEW t \in mounted' \cap synced'
               PROVE  stored'.attempts = attempts'[t] /\ stored'.ends = ends'[t]
    BY DEF StorageInStep
  <1> USE LockoutAssumption
  <1>a. ASSUME UNCHANGED <<stored, synced, mounted>>, Render(s)
        PROVE  stored'.attempts = attempts'[t] /\ stored'.ends = ends'[t]
    BY <1>a DEF Render, Show, Types, PlaceTypes, UiTypes, StorageInStep
  <1>b. ASSUME UNCHANGED mounted,
               NEW a, NEW e, NEW entry, Show(s, a, e), Store(s, entry),
               s \in mounted \cap synced => entry.attempts = a /\ entry.ends = e
        PROVE  stored'.attempts = attempts'[t] /\ stored'.ends = ends'[t]
    BY <1>b DEF Show, Store, Types, UiTypes
  <1>c. Forget.attempts = 0 /\ Forget.ends = 0
    BY DEF Forget, Nothing
  <1>d. s \in mounted \cap synced => stored.attempts = attempts[s] /\ stored.ends = ends[s]
    BY DEF StorageInStep
  <1>1. CASE Mount(s)
    <2>1. CASE t = s
      <3>1. attempts'[s] = IF Stale THEN 0 ELSE stored.attempts
        BY <1>1 DEF Mount, Types, UiTypes
      <3>2. ends'[s] = stored.ends
        BY <1>1 DEF Mount, Types, UiTypes
      <3>3. CASE Stale
        BY <1>1, <2>1, <3>1, <3>2, <3>3 DEF Mount, Nothing
      <3>4. CASE ~Stale
        BY <1>1, <2>1, <3>1, <3>2, <3>4 DEF Mount
      <3> QED BY <3>3, <3>4
    <2>2. CASE t # s
      <3>1. ~Stale /\ t \in mounted \cap synced /\ UNCHANGED stored
        BY <1>1, <2>2 DEF Mount
      <3>2. attempts'[t] = attempts[t] /\ ends'[t] = ends[t]
        BY <1>1, <2>2, <3>1 DEF Mount, Types, UiTypes, PlaceTypes
      <3> QED BY <3>1, <3>2 DEF StorageInStep
    <2> QED BY <2>1, <2>2
  <1>2. CASE Leave(s) \/ Close(s) \/ Redirect(s)
    <2>1. Unmount(s)
      BY <1>2 DEF Leave, Close, Redirect
    <2>2. t # s /\ t \in mounted \cap synced /\ UNCHANGED stored
      BY <2>1 DEF Unmount
    <2>3. attempts'[t] = attempts[t] /\ ends'[t] = ends[t]
      BY <2>1, <2>2 DEF Unmount, Types, UiTypes, PlaceTypes
    <2> QED BY <2>2, <2>3 DEF StorageInStep
  <1>3. CASE Solve(s) \/ Expire(s) \/ Send(s) \/ GoogleCallback(s) \/ OtherRender(s)
    <2>1. UNCHANGED <<stored, synced, mounted>> /\ Render(s)
      BY <1>3 DEF Solve, Expire, Send, GoogleCallback, OtherRender
    <2> QED BY <1>a, <2>1
  <1>4. CASE LockAgain(s)
    <2> DEFINE entry == [stored EXCEPT !.ends = now + Lockout]
    <2>1. entry.attempts = stored.attempts /\ entry.ends = now + Lockout
      BY DEF Types, StoredTypes
    <2>2. Show(s, attempts[s], now + Lockout) /\ Store(s, entry) /\ UNCHANGED mounted
      BY <1>4 DEF LockAgain
    <2> HIDE DEF entry
    <2> QED BY <1>b, <1>d, <2>1, <2>2
  <1>5. CASE LoginAnswer(s) \/ GoogleAnswer(s)
    <2>0. UNCHANGED mounted
      BY <1>5 DEF LoginAnswer, GoogleAnswer
    <2>1. CASE CompleteLogin(s)
      BY <1>b, <1>c, <2>0, <2>1 DEF CompleteLogin
    <2>2. CASE OtherError(s)
      BY <1>a, <2>0, <2>2 DEF OtherError
    <2>3. CASE CountFailure(s, login[s] + 1)
      <3> DEFINE n == login[s] + 1
                 e == IF Exhausted(n) THEN now + Lockout ELSE ends[s]
                 entry == [attempts |-> n, stamp |-> now,
                           ends |-> IF Exhausted(n) THEN e ELSE stored.ends]
      <3>1. Show(s, n, e) /\ Store(s, entry)
        BY <2>3 DEF CountFailure
      <3>2. s \in mounted \cap synced => entry.attempts = n /\ entry.ends = e
        BY <1>d
      <3> HIDE DEF n, e, entry
      <3> QED BY <1>b, <2>0, <3>1, <3>2
    <2> QED BY <1>5, <2>1, <2>2, <2>3 DEF LoginAnswer, GoogleAnswer
  <1>6. CASE LockoutTimer(s)
    <2>1. UNCHANGED mounted
      BY <1>6 DEF LockoutTimer
    <2>2. CASE Lift(s)
      BY <1>b, <1>c, <2>1, <2>2 DEF Lift
    <2>3. CASE Render(s) /\ UNCHANGED <<stored, synced>>
      BY <1>a, <2>1, <2>3
    <2> QED BY <1>6, <2>2, <2>3 DEF LockoutTimer
  <1> QED BY <1>1, <1>2, <1>3, <1>4, <1>5, <1>6 DEF ScreenStep

\* What a screen shows is what a reload would find, unless another screen wrote
\* since (AuthScreen.jsx 45-56, 106-108, 166-172, 475-479, 512-520): the lockout is neither lost
\* nor prolonged by one.
THEOREM StorageHolds == Spec => []StorageInStep
  <1>1. Init => StorageInStep
    BY DEF Init, StorageInStep
  <1>2. Types /\ StorageInStep /\ [Next]_vars => StorageInStep'
    <2> SUFFICES ASSUME Types, StorageInStep, Tick \/ UNCHANGED vars PROVE StorageInStep'
      BY ScreenStorage DEF Next
    <2>1. UNCHANGED <<stored, mounted, synced, attempts, ends>>
      BY DEF Tick, vars, ui
    <2> QED BY <2>1 DEF StorageInStep
  <1> QED BY <1>1, <1>2, InitTypes, StepTypes, PTL DEF Spec

-----------------------------------------------------------------------------
(* Captcha tokens. *)

\* A spent token is kept only as long as its request awaits the answer, or the
\* page the redirect.
TokenInv ==
  \A s \in Screens : captcha[s] = "spent" => login[s] # Idle \/ s \in redirecting

LEMMA ScreenToken ==
  ASSUME Types, TokenInv, NEW s \in Screens, ScreenStep(s)
  PROVE  TokenInv'
  <1> SUFFICES ASSUME NEW t \in Screens, captcha'[t] = "spent"
               PROVE  login'[t] # Idle \/ t \in redirecting'
    BY DEF TokenInv
  <1>a. ASSUME UNCHANGED <<captcha, login>>, redirecting \subseteq redirecting'
        PROVE  login'[t] # Idle \/ t \in redirecting'
    BY <1>a DEF TokenInv
  <1>1. CASE Mount(s) \/ LockAgain(s) \/ LockoutTimer(s) \/ OtherRender(s)
             \/ GoogleCallback(s)
    BY <1>a, <1>1 DEF Mount, LockAgain, LockoutTimer, OtherRender, GoogleCallback, awaits
  <1>2. CASE GoogleAnswer(s)
    BY <1>a, <1>2 DEF GoogleAnswer, CompleteLogin
  <1>3. CASE Leave(s) \/ Close(s) \/ Redirect(s)
    <2>1. captcha' = [captcha EXCEPT ![s] = "none"]
      BY <1>3 DEF Leave, Close, Redirect, Unmount
    <2>2. t # s /\ captcha[t] = "spent"
      BY <2>1 DEF Types, CaptchaTypes
    <2>3. login'[t] = login[t] /\ (t \in redirecting => t \in redirecting')
      BY <1>3, <2>2 DEF Leave, Close, Redirect, awaits, Types, AwaitTypes
    <2> QED BY <2>2, <2>3 DEF TokenInv
  <1>4. CASE Solve(s) \/ Expire(s)
    <2>1. captcha[t] = "spent"
      BY <1>4 DEF Solve, Expire, Types, CaptchaTypes
    <2>2. UNCHANGED <<login, redirecting>>
      BY <1>4 DEF Solve, Expire, awaits
    <2> QED BY <2>1, <2>2 DEF TokenInv
  <1>5. CASE Send(s)
    <2>1. login' = [login EXCEPT ![s] = attempts[s]] /\ UNCHANGED redirecting
      BY <1>5 DEF Send
    <2>2. attempts[s] # Idle
      BY LockoutAssumption DEF Types, UiTypes, Idle
    <2>3. t # s => captcha[t] = "spent"
      BY <1>5 DEF Send, Types, CaptchaTypes
    <2> QED BY <2>1, <2>2, <2>3 DEF TokenInv, Types, AwaitTypes
  <1>6. CASE LoginAnswer(s)
    <2>1. login' = [login EXCEPT ![s] = Idle]
      BY <1>6 DEF LoginAnswer
    <2>2. CASE CompleteLogin(s) /\ UNCHANGED captcha
      BY <2>1, <2>2 DEF CompleteLogin, TokenInv, Types, AwaitTypes
    <2>3. CASE ResetTurnstile(s) /\ UNCHANGED redirecting
      <3>1. t # s /\ captcha[t] = "spent"
        BY <2>3 DEF ResetTurnstile, Types, CaptchaTypes
      <3> QED BY <2>1, <2>3, <3>1 DEF TokenInv, Types, AwaitTypes
    <2> QED BY <1>6, <2>2, <2>3 DEF LoginAnswer
  <1> QED BY <1>1, <1>2, <1>3, <1>4, <1>5, <1>6 DEF ScreenStep

\* A request takes the token that is there, which is not a spent one.
LEMMA SendsFresh ==
  ASSUME Types, TokenInv, Next, NEW s \in Screens, login[s] = Idle, login'[s] # Idle
  PROVE  captcha[s] = "fresh" \/ s \in redirecting
  <1>0. ~UNCHANGED login
    OBVIOUS
  <1>1. CASE Tick
    BY <1>0, <1>1 DEF Tick, awaits
  <1>2. ASSUME NEW t \in Screens, ScreenStep(t), ~Send(t) PROVE FALSE
    <2>1. CASE Close(t) \/ LoginAnswer(t)
      BY <2>1 DEF Close, LoginAnswer, Types, AwaitTypes
    <2>2. CASE Mount(t) \/ Leave(t) \/ Redirect(t) \/ Solve(t) \/ Expire(t)
      BY <1>0, <2>2 DEF Mount, Leave, Redirect, Solve, Expire, awaits
    <2>3. CASE LockAgain(t) \/ GoogleCallback(t) \/ GoogleAnswer(t) \/ LockoutTimer(t)
               \/ OtherRender(t)
      BY <1>0, <2>3 DEF LockAgain, GoogleCallback, GoogleAnswer, LockoutTimer, OtherRender,
                        awaits
    <2> QED BY <1>2, <2>1, <2>2, <2>3 DEF ScreenStep
  <1>3. ASSUME NEW t \in Screens, Send(t) PROVE captcha[s] = "fresh" \/ s \in redirecting
    <2>1. t = s
      BY <1>3 DEF Send, Types, AwaitTypes
    <2>2. captcha[s] # "none"
      BY <1>3, <2>1 DEF Send, ButtonUsable
    <2> QED BY <2>2 DEF TokenInv, Types, CaptchaTypes
  <1> QED BY <1>1, <1>2, <1>3 DEF Next

\* Cloudflare accepts a token once; every path that fails resets the captcha
\* (AuthScreen.jsx 485-537).
THEOREM TokensSpentOnce == Spec => TokenSpentOnce
  <1>1. Init => TokenInv
    BY DEF Init, TokenInv
  <1>2. Types /\ TokenInv /\ [Next]_vars => TokenInv'
    <2> SUFFICES ASSUME Types, TokenInv, Tick \/ UNCHANGED vars PROVE TokenInv'
      BY ScreenToken DEF Next
    <2>1. UNCHANGED <<captcha, login, redirecting>>
      BY DEF Tick, vars, ui, awaits
    <2> QED BY <2>1 DEF TokenInv
  <1>3. Types /\ TokenInv /\ [Next]_vars =>
          [\A s \in Screens :
             login[s] = Idle /\ login'[s] # Idle =>
               captcha[s] = "fresh" \/ s \in redirecting]_vars
    BY SendsFresh
  <1> QED BY <1>1, <1>2, <1>3, InitTypes, StepTypes, PTL DEF Spec, TokenSpentOnce

-----------------------------------------------------------------------------
(* The lockout. *)

\* FailuresBounded needs to know which failures the count still stands for.
\* Without a lockout there are at most Max - 1 more than the count says: those
\* from before an old lockout was lifted.  With one there are no more than it
\* says, or the count is full and every failure is a lockout before its end.
Failures(s) == Cardinality(fails[s])

Recent(s) == \A f \in fails[s] : f[1] <= now /\ now - f[1] < Lockout

Counted(s) ==
  \/ ends[s] = 0 /\ Failures(s) < Max + attempts[s]
  \/ ends[s] # 0 /\ attempts[s] < Max /\ Failures(s) <= attempts[s]
  \/ /\ ends[s] # 0 /\ attempts[s] = Max /\ login[s] = Idle
     /\ \A f \in fails[s] : f[1] + Lockout <= ends[s]

Awaited(s) ==
  login[s] # Idle =>
    /\ Failures(s) < Max + login[s]
    /\ s \in mounted /\ ends[s] # 0 => login[s] = attempts[s]

CountInv(s) ==
  /\ Failures(s) < 2 * Max
  /\ Recent(s)
  /\ s \in mounted => Counted(s)
  /\ Awaited(s)

LEMMA CountTypes ==
  ASSUME Types, NEW s \in Screens
  PROVE  /\ Failures(s) \in Nat
         /\ attempts[s] \in 0..Max /\ ends[s] \in Nat
         /\ login[s] \in {Idle} \cup 0..(Max - 1)
         /\ now \in Nat /\ Max \in Nat \ {0} /\ Lockout \in Nat \ {0}
         /\ fails[s] \subseteq Nat \X Nat
  <1>1. Failures(s) \in Nat
    BY FS_CardinalityType DEF Types, FailTypes, Failures
  <1>2. fails[s] \subseteq Nat \X Nat
    BY DEF Types, FailTypes
  <1>3. now \in Nat
    BY DEF Types
  <1> QED BY <1>1, <1>2, <1>3, LockoutAssumption DEF Types, UiTypes, AwaitTypes

LEMMA CountTypeLater == ASSUME Types', NEW s \in Screens PROVE Failures(s)' \in Nat
  <1>1. IsFiniteSet(fails'[s])
    BY DEF Types, FailTypes
  <1> QED BY <1>1, FS_CardinalityType DEF Failures

\* What a step that does not touch a screen's counts keeps.
LEMMA CountKept ==
  ASSUME Types, NEW s \in Screens, CountInv(s), UNCHANGED now,
         fails'[s] = fails[s], attempts'[s] = attempts[s], ends'[s] = ends[s],
         login'[s] = login[s], s \in mounted' => s \in mounted
  PROVE  CountInv(s)'
  BY DEF CountInv, Failures, Recent, Counted, Awaited

\* A screen that is left, and its request too or not.
LEMMA CountLeft ==
  ASSUME Types, NEW s \in Screens, CountInv(s), UNCHANGED <<now, fails>>,
         login'[s] \in {login[s], Idle}, s \notin mounted'
  PROVE  CountInv(s)'
  BY DEF CountInv, Failures, Recent, Awaited

\* No failure is remembered.
LEMMA CountEmpty ==
  ASSUME Types, Types', NEW s \in Screens, fails'[s] = {},
         s \in mounted' /\ login'[s] # Idle => ends'[s] = 0
  PROVE  CountInv(s)'
  <1>1. /\ Failures(s)' = 0 /\ Max \in Nat \ {0} /\ attempts'[s] \in 0..Max
        /\ login'[s] \in {Idle} \cup 0..(Max - 1)
    BY FS_EmptySet, LockoutAssumption DEF Failures, Types, UiTypes, AwaitTypes
  <1>2. Recent(s)'
    BY DEF Recent
  <1>3. Failures(s)' < 2 * Max
    BY <1>1
  <1>4. Awaited(s)'
    BY <1>1 DEF Awaited, Idle
  <1>5. s \in mounted' => Counted(s)'
    <2>1. CASE ends'[s] = 0
      BY <1>1, <2>1 DEF Counted
    <2>2. CASE ends'[s] # 0 /\ attempts'[s] < Max
      BY <1>1, <2>2 DEF Counted
    <2>3. CASE ends'[s] # 0 /\ attempts'[s] = Max
      BY <2>3 DEF Counted
    <2> QED BY <1>1, <2>1, <2>2, <2>3
  <1> QED BY <1>2, <1>3, <1>4, <1>5 DEF CountInv

\* A counted failure adds one to both, or begins a lockout after all of them.
LEMMA CountFails ==
  ASSUME Types, Types', NEW s \in Screens, CountInv(s), login[s] # Idle, login'[s] = Idle,
         CountFailure(s, login[s] + 1), UNCHANGED <<now, mounted>>
  PROVE  CountInv(s)'
  <1> DEFINE n == login[s] + 1
  <1>0. Failures(s)' \in Nat /\ login[s] \in 0..(Max - 1)
    BY CountTypes, CountTypeLater
  <1>1. /\ Failures(s) \in Nat /\ Failures(s)' \in Nat /\ n \in 1..Max
        /\ now \in Nat /\ Max \in Nat \ {0} /\ Lockout \in Nat \ {0}
        /\ ends[s] \in Nat /\ fails[s] \subseteq Nat \X Nat /\ attempts[s] \in 0..Max
    BY <1>0, CountTypes
  <1>2. fails'[s] = fails[s] \cup {<<now, Cardinality(fails[s])>>}
    BY DEF CountFailure, Types, FailTypes
  <1>3. Failures(s)' <= Failures(s) + 1
    <2>1. IsFiniteSet(fails[s])
      BY DEF Types, FailTypes
    <2> DEFINE f == <<now, Cardinality(fails[s])>>
    <2>2. Cardinality(fails[s] \cup {f}) =
            IF f \in fails[s] THEN Cardinality(fails[s]) ELSE Cardinality(fails[s]) + 1
      BY <2>1, FS_AddElement
    <2>3. Cardinality(fails'[s]) = Cardinality(fails[s] \cup {f})
      BY <1>2
    <2>4. Cardinality(fails[s]) \in Nat
      BY <1>1 DEF Failures
    <2> HIDE DEF f
    <2> QED BY <2>2, <2>3, <2>4 DEF Failures
  <1>4. Failures(s)' < Max + n
    BY <1>0, <1>1, <1>3 DEF CountInv, Awaited
  <1>5. \A f \in fails'[s] : f[1] <= now
    BY <1>1, <1>2 DEF CountInv, Recent
  <1>6. Recent(s)'
    BY <1>1, <1>2, <1>5 DEF CountInv, Recent
  <1>7. s \in mounted' => Counted(s)'
    <2> SUFFICES ASSUME s \in mounted PROVE Counted(s)'
      OBVIOUS
    <2>1. attempts'[s] = n
      BY DEF CountFailure, Show, Types, UiTypes
    <2>2. ends'[s] = IF Exhausted(n) THEN now + Lockout ELSE ends[s]
      BY DEF CountFailure, Show, Types, UiTypes
    <2>3. CASE Exhausted(n)
      <3>1. n = Max
        BY <1>1, <2>3 DEF Exhausted
      <3>2. ends'[s] = now + Lockout /\ ends'[s] # 0
        BY <1>1, <2>2, <2>3
      <3>3. \A f \in fails'[s] : f[1] + Lockout <= ends'[s]
        <4> SUFFICES ASSUME NEW f \in fails'[s] PROVE f[1] + Lockout <= ends'[s]
          OBVIOUS
        <4>1. f[1] \in Nat
          BY <1>1, <1>2
        <4> QED BY <1>1, <1>5, <3>2, <4>1
      <3> QED BY <2>1, <3>1, <3>2, <3>3 DEF Counted
    <2>4. CASE ~Exhausted(n)
      <3>1. n < Max /\ ends'[s] = ends[s]
        BY <1>1, <2>2, <2>4 DEF Exhausted
      <3>2. CASE ends[s] = 0
        BY <1>4, <2>1, <3>1, <3>2 DEF Counted
      <3>3. CASE ends[s] # 0
        <4>1. login[s] = attempts[s]
          BY <3>3 DEF CountInv, Awaited
        <4>2. Failures(s) <= attempts[s]
          BY <3>3 DEF CountInv, Counted
        <4>3. Failures(s)' <= n
          BY <1>1, <1>3, <4>1, <4>2
        <4> QED BY <2>1, <3>1, <3>3, <4>3 DEF Counted
      <3> QED BY <3>2, <3>3
    <2> QED BY <2>3, <2>4
  <1>8. Failures(s)' < 2 * Max
    BY <1>1, <1>4
  <1> QED BY <1>6, <1>7, <1>8 DEF CountInv, Awaited

\* The timer lifts a lockout only when its failures are no longer recent.
LEMMA CountLifted ==
  ASSUME Types, Types', NEW s \in Screens, CountInv(s), s \in mounted, ends[s] # 0,
         ends[s] <= now, UNCHANGED <<now, mounted, login, fails>>,
         attempts'[s] = 0, ends'[s] = 0
  PROVE  CountInv(s)'
  <1>1. /\ Failures(s) \in Nat /\ now \in Nat /\ Max \in Nat \ {0} /\ Lockout \in Nat \ {0}
        /\ fails[s] \subseteq Nat \X Nat /\ ends[s] \in Nat
    BY CountTypes
  <1>2. Failures(s) < Max
    <2>1. CASE attempts[s] < Max /\ Failures(s) <= attempts[s]
      BY <1>1, <2>1, CountTypes
    <2>2. CASE \A f \in fails[s] : f[1] + Lockout <= ends[s]
      <3>1. ASSUME NEW f \in fails[s] PROVE FALSE
        <4>1. f[1] \in Nat /\ f[1] + Lockout <= ends[s] /\ now - f[1] < Lockout
          BY <1>1, <2>2 DEF CountInv, Recent
        <4> QED BY <1>1, <4>1
      <3>2. fails[s] = {}
        BY <3>1
      <3> QED BY <1>1, <3>2, FS_EmptySet DEF Failures
    <2> QED BY <2>1, <2>2 DEF CountInv, Counted
  <1>3. Counted(s)'
    BY <1>1, <1>2 DEF Counted, Failures
  <1> QED BY <1>3 DEF CountInv, Failures, Recent, Awaited

LEMMA ScreenCount ==
  ASSUME Types, Types', \A t \in Screens : CountInv(t), NEW s \in Screens, ScreenStep(s)
  PROVE  \A t \in Screens : CountInv(t)'
  <1> SUFFICES ASSUME NEW t \in Screens PROVE CountInv(t)'
    OBVIOUS
  <1>a. ASSUME UNCHANGED <<now, fails, login, mounted>>, Render(s) PROVE CountInv(t)'
    <2>1. attempts'[t] = attempts[t] /\ ends'[t] = ends[t]
      BY <1>a DEF Render, Show, Types, UiTypes
    <2> QED BY <1>a, <2>1, CountKept
  \* The screen itself apart, nothing changes.
  <1>b. CASE t # s
    <2>1. fails'[t] = fails[t] /\ login'[t] = login[t]
      BY <1>b DEF ScreenStep, Mount, Leave, Close, Redirect, Unmount, Solve, Expire,
                  LockAgain, Send, LoginAnswer, GoogleCallback, GoogleAnswer, LockoutTimer,
                  OtherRender, CompleteLogin, CountFailure, OtherError, awaits, Types,
                  AwaitTypes, FailTypes
    <2>2. attempts'[t] = attempts[t] /\ ends'[t] = ends[t]
      BY <1>b DEF ScreenStep, Mount, Leave, Close, Redirect, Unmount, Solve, Expire,
                  LockAgain, Send, LoginAnswer, GoogleCallback, GoogleAnswer, LockoutTimer,
                  OtherRender, CompleteLogin, CountFailure, OtherError, Lift, Render, Show,
                  Types, UiTypes
    <2>3. UNCHANGED now /\ (t \in mounted' => t \in mounted)
      BY <1>b DEF ScreenStep, Mount, Leave, Close, Redirect, Unmount, Solve, Expire,
                  LockAgain, Send, LoginAnswer, GoogleCallback, GoogleAnswer, LockoutTimer,
                  OtherRender
    <2> QED BY <2>1, <2>2, <2>3, CountKept
  <1>1. CASE t = s /\ Mount(s)
    <2>1. fails'[s] = {} /\ login'[s] = Idle
      BY <1>1 DEF Mount, Busy, awaits, Types, FailTypes
    <2> QED BY <1>1, <2>1, CountEmpty
  <1>2. CASE t = s /\ (Leave(s) \/ Close(s) \/ Redirect(s))
    <2>1. UNCHANGED <<now, fails>> /\ s \notin mounted'
      BY <1>2 DEF Leave, Close, Redirect, Unmount
    <2>2. login'[s] \in {login[s], Idle}
      BY <1>2 DEF Leave, Close, Redirect, awaits, Types, AwaitTypes
    <2> QED BY <1>2, <2>1, <2>2, CountLeft
  <1>3. CASE Solve(s) \/ Expire(s) \/ GoogleCallback(s) \/ OtherRender(s)
    <2>1. UNCHANGED <<now, fails, login, mounted>> /\ Render(s)
      BY <1>3 DEF Solve, Expire, GoogleCallback, OtherRender, awaits
    <2> QED BY <1>a, <2>1
  <1>4. CASE t = s /\ LockAgain(s)
    <2>1. /\ UNCHANGED <<now, fails, login, mounted>> /\ s \in mounted /\ login[s] = Idle
          /\ attempts[s] = Max
      BY <1>4, CountTypes DEF LockAgain, ButtonUsable, FormUsable, Busy, Exhausted, awaits
    <2>2. attempts'[s] = Max /\ ends'[s] = now + Lockout
      BY <1>4, <2>1 DEF LockAgain, Show, Types, UiTypes
    <2>3. Counted(s)'
      <3>1. ends'[s] # 0
        BY <2>2, CountTypes
      <3>2. \A f \in fails[s] : f[1] + Lockout <= ends'[s]
        <4> SUFFICES ASSUME NEW f \in fails[s] PROVE f[1] + Lockout <= ends'[s]
          OBVIOUS
        <4>1. f[1] \in Nat /\ f[1] <= now
          BY CountTypes DEF CountInv, Recent
        <4> QED BY <2>2, <4>1, CountTypes
      <3> QED BY <2>1, <2>2, <3>1, <3>2 DEF Counted
    <2> QED BY <1>4, <2>1, <2>3 DEF CountInv, Failures, Recent, Awaited
  <1>5. CASE t = s /\ Send(s)
    <2>1. /\ UNCHANGED <<now, fails, mounted>> /\ s \in mounted /\ attempts[s] < Max
          /\ login'[s] = attempts[s]
      BY <1>5, CountTypes DEF Send, ButtonUsable, FormUsable, Exhausted, Types, AwaitTypes
    <2>2. attempts'[s] = attempts[s] /\ ends'[s] = ends[s]
      BY <1>5 DEF Send, Render, Show, Types, UiTypes
    <2>3. Failures(s) < Max + attempts[s] /\ Counted(s)
      BY <2>1, CountTypes DEF CountInv, Counted
    <2>4. Counted(s)'
      BY <2>1, <2>2, <2>3, CountTypes DEF Counted, Failures
    <2>5. Awaited(s)'
      BY <2>1, <2>2, <2>3 DEF Awaited, Failures
    <2> QED BY <1>5, <2>1, <2>4, <2>5 DEF CountInv, Failures, Recent
  <1>6. CASE t = s /\ LoginAnswer(s)
    <2>1. login[s] # Idle /\ login'[s] = Idle /\ UNCHANGED <<now, mounted>>
      BY <1>6 DEF LoginAnswer, Types, AwaitTypes
    <2>2. CASE CompleteLogin(s)
      <3>1. fails'[s] = {}
        BY <2>2 DEF CompleteLogin, Types, FailTypes
      <3> QED BY <1>6, <2>1, <3>1, CountEmpty
    <2>3. CASE CountFailure(s, login[s] + 1)
      BY <1>6, <2>1, <2>3, CountFails
    <2>4. CASE OtherError(s)
      <3>1. attempts'[s] = attempts[s] /\ ends'[s] = ends[s] /\ UNCHANGED fails
        BY <2>4 DEF OtherError, Render, Show, Types, UiTypes
      <3> QED BY <1>6, <2>1, <3>1 DEF CountInv, Failures, Recent, Counted, Awaited
    <2> QED BY <1>6, <2>2, <2>3, <2>4 DEF LoginAnswer
  <1>7. CASE t = s /\ GoogleAnswer(s)
    <2>1. UNCHANGED <<now, login, mounted>>
      BY <1>7 DEF GoogleAnswer
    <2>2. CASE CompleteLogin(s)
      <3>1. fails'[s] = {} /\ (s \in mounted => ends'[s] = 0)
        BY <2>2 DEF CompleteLogin, Show, Types, FailTypes, UiTypes
      <3> QED BY <1>7, <2>1, <3>1, CountEmpty
    <2>3. CASE OtherError(s)
      BY <1>a, <2>1, <2>3 DEF OtherError
    <2> QED BY <1>7, <2>2, <2>3 DEF GoogleAnswer
  <1>8. CASE t = s /\ LockoutTimer(s)
    <2>1. UNCHANGED <<now, mounted, login, fails>> /\ s \in mounted /\ ends[s] # 0
      BY <1>8 DEF LockoutTimer, awaits
    <2>2. CASE ends[s] <= now /\ Lift(s)
      <3>1. attempts'[s] = 0 /\ ends'[s] = 0
        BY <2>1, <2>2 DEF Lift, Show, Types, UiTypes
      <3> QED BY <1>8, <2>1, <2>2, <3>1, CountLifted
    <2>3. CASE Render(s)
      BY <1>a, <2>1, <2>3
    <2> QED BY <1>8, <2>2, <2>3 DEF LockoutTimer
  <1> QED
    BY <1>b, <1>1, <1>2, <1>3, <1>4, <1>5, <1>6, <1>7, <1>8 DEF ScreenStep

\* Time makes failures fewer.
LEMMA TickCount ==
  ASSUME Types, Types', NEW s \in Screens, CountInv(s), Tick
  PROVE  CountInv(s)'
  <1>1. /\ Failures(s)' <= Failures(s) /\ fails'[s] \subseteq fails[s]
        /\ \A f \in fails'[s] : now' - f[1] < Lockout
    BY TickFails DEF Failures
  <1>2. /\ Failures(s) \in Nat /\ Failures(s)' \in Nat /\ now \in Nat /\ now' = now + 1
        /\ UNCHANGED <<attempts, ends, login, mounted>>
    BY CountTypes, CountTypeLater DEF Types, Tick, ui, awaits
  <1>3. /\ attempts[s] \in 0..Max /\ Max \in Nat \ {0} /\ fails[s] \subseteq Nat \X Nat
        /\ login[s] \in {Idle} \cup 0..(Max - 1)
    BY CountTypes
  <1>4. Recent(s)'
    <2> SUFFICES ASSUME NEW f \in fails'[s] PROVE f[1] <= now'
      BY <1>1 DEF Recent
    <2>1. f[1] \in Nat /\ f[1] <= now
      BY <1>1, <1>3 DEF CountInv, Recent
    <2> QED BY <1>2, <2>1
  <1>5. s \in mounted' => Counted(s)'
    BY <1>1, <1>2, <1>3 DEF CountInv, Counted
  <1>6. Awaited(s)'
    <2>1. login[s] # Idle => Failures(s)' < Max + login[s]
      BY <1>1, <1>2, <1>3 DEF CountInv, Awaited
    <2> QED BY <1>2, <2>1 DEF CountInv, Awaited
  <1>7. Failures(s)' < 2 * Max
    BY <1>1, <1>2, <1>3 DEF CountInv
  <1> QED BY <1>4, <1>5, <1>6, <1>7 DEF CountInv

\* Less than 2 * maxAttempts wrong passwords on a screen within the length of a
\* lockout, whatever other tabs write and however late timers and answers are
\* (AuthScreen.jsx 166-172, 475-479, 512-520).
THEOREM FailuresAreBounded == Spec => []FailuresBounded
  <1> DEFINE Inv == \A s \in Screens : CountInv(s)
  <1>1. Init => Inv
    <2> SUFFICES ASSUME Init, NEW s \in Screens PROVE CountInv(s)
      OBVIOUS
    <2>1. fails[s] = {} /\ login[s] = Idle /\ s \notin mounted
      BY DEF Init
    <2>2. Failures(s) = 0 /\ Max \in Nat \ {0}
      BY <2>1, FS_EmptySet, LockoutAssumption DEF Failures
    <2> QED BY <2>1, <2>2 DEF CountInv, Recent, Awaited
  <1>2. Types /\ Types' /\ Inv /\ [Next]_vars => Inv'
    <2> SUFFICES ASSUME Types, Types', Inv, [Next]_vars PROVE Inv'
      OBVIOUS
    <2>1. CASE Tick
      BY <2>1, TickCount
    <2>2. CASE UNCHANGED vars
      BY <2>2, CountKept DEF vars, ui, awaits
    <2> QED BY <2>1, <2>2, ScreenCount DEF Next
  <1>3. Inv => FailuresBounded
    BY DEF CountInv, Failures, FailuresBounded
  <1> QED BY <1>1, <1>2, <1>3, InitTypes, StepTypes, PTL DEF Spec

-----------------------------------------------------------------------------
(* The end of a lockout. *)

\* The safety half of LockoutIsLifted: a screen that refuses the form has its
\* timer running, for an end that lies a lockout ahead at most, and a reload or
\* another tab would find no later one in localStorage.
LockoutsEnd ==
  /\ stored.ends <= now + Lockout
  /\ \A s \in Screens :
       /\ ends[s] <= now + Lockout
       /\ s \in locked => s \in mounted /\ ends[s] # 0

LEMMA ShownEnds ==
  ASSUME Types, LockoutsEnd, NEW s \in Screens, NEW a, NEW e \in Nat, Show(s, a, e),
         e <= now + Lockout, UNCHANGED <<now, mounted>>,
         stored'.ends = stored.ends \/ stored'.ends <= now + Lockout
  PROVE  LockoutsEnd'
  <1>0. now \in Nat /\ Lockout \in Nat /\ stored.ends \in Nat
    BY LockoutAssumption DEF Types, StoredTypes
  <1>1. ASSUME NEW t \in Screens
        PROVE  /\ ends'[t] <= now' + Lockout
               /\ t \in locked' => t \in mounted' /\ ends'[t] # 0
    <2>1. CASE t = s /\ s \in mounted
      <3>1. ends'[t] = e /\ (t \in locked' => e > now \/ t \in locked \ {s})
        BY <2>1 DEF Show, Types, UiTypes
      <3> QED BY <1>0, <2>1, <3>1
    <2>2. CASE t = s /\ s \notin mounted
      BY <2>2 DEF Show, LockoutsEnd
    <2>3. CASE t # s
      <3>1. ends'[t] = ends[t] /\ (t \in locked' <=> t \in locked)
        BY <2>3 DEF Show, Types, UiTypes
      <3> QED BY <3>1 DEF LockoutsEnd
    <2> QED BY <2>1, <2>2, <2>3
  <1>2. stored'.ends <= now' + Lockout
    BY DEF LockoutsEnd
  <1> QED BY <1>1, <1>2 DEF LockoutsEnd

LEMMA ScreenEnds ==
  ASSUME Types, LockoutsEnd, NEW s \in Screens, ScreenStep(s)
  PROVE  LockoutsEnd'
  <1>0. /\ now \in Nat /\ Lockout \in Nat \ {0} /\ stored.ends \in Nat
        /\ ends[s] \in Nat /\ ends[s] <= now + Lockout /\ now + Lockout \in Nat
        /\ stored.ends <= now + Lockout
    BY LockoutAssumption DEF Types, StoredTypes, UiTypes, LockoutsEnd
  <1>a. ASSUME UNCHANGED <<now, stored, mounted>>, Render(s) PROVE LockoutsEnd'
    BY <1>a, <1>0, ShownEnds DEF Render
  <1>b. Forget.ends = 0
    BY DEF Forget, Nothing
  <1>1. CASE Mount(s)
    <2>1. stored'.ends = stored.ends /\ now' = now
      BY <1>1, <1>0 DEF Mount, Types, StoredTypes, Nothing
    <2>2. ASSUME NEW t \in Screens
          PROVE  /\ ends'[t] <= now' + Lockout
                 /\ t \in locked' => t \in mounted' /\ ends'[t] # 0
      <3>1. CASE t = s
        <4>1. s \notin mounted /\ ends'[t] = stored.ends /\ t \in mounted'
          BY <1>1, <3>1 DEF Mount, Types, UiTypes
        <4>2. s \notin locked
          BY <4>1 DEF LockoutsEnd
        <4>3. t \in locked' => stored.ends > now
          BY <1>1, <3>1, <4>2 DEF Mount
        <4> QED BY <1>0, <2>1, <4>1, <4>3
      <3>2. CASE t # s
        <4>1. /\ ends'[t] = ends[t] /\ (t \in locked' <=> t \in locked)
              /\ (t \in mounted => t \in mounted')
          BY <1>1, <3>2 DEF Mount, Types, UiTypes
        <4> QED BY <2>1, <4>1 DEF LockoutsEnd
      <3> QED BY <3>1, <3>2
    <2> QED BY <1>0, <2>1, <2>2 DEF LockoutsEnd
  <1>2. CASE Leave(s) \/ Close(s) \/ Redirect(s)
    <2>1. Unmount(s)
      BY <1>2 DEF Leave, Close, Redirect
    <2>2. ASSUME NEW t \in Screens
          PROVE  /\ ends'[t] <= now' + Lockout
                 /\ t \in locked' => t \in mounted' /\ ends'[t] # 0
      <3>1. CASE t = s
        <4>1. ends'[t] = 0 /\ t \notin locked' /\ now' = now
          BY <2>1, <3>1 DEF Unmount, Types, UiTypes
        <4> QED BY <1>0, <4>1
      <3>2. CASE t # s
        <4>1. /\ ends'[t] = ends[t] /\ (t \in locked' <=> t \in locked)
              /\ (t \in mounted <=> t \in mounted') /\ now' = now
          BY <2>1, <3>2 DEF Unmount, Types, UiTypes
        <4> QED BY <4>1 DEF LockoutsEnd
      <3> QED BY <3>1, <3>2
    <2>3. UNCHANGED <<now, stored>>
      BY <2>1 DEF Unmount
    <2> QED BY <1>0, <2>2, <2>3 DEF LockoutsEnd
  <1>3. CASE Solve(s) \/ Expire(s) \/ Send(s) \/ GoogleCallback(s) \/ OtherRender(s)
    <2>1. UNCHANGED <<now, stored, mounted>> /\ Render(s)
      BY <1>3 DEF Solve, Expire, Send, GoogleCallback, OtherRender
    <2> QED BY <1>a, <2>1
  <1>4. CASE LockAgain(s)
    <2>1. /\ Show(s, attempts[s], now + Lockout) /\ UNCHANGED <<now, mounted>>
          /\ stored'.ends = now + Lockout
      BY <1>4 DEF LockAgain, Store, Types, StoredTypes
    <2> QED BY <1>0, <2>1, ShownEnds
  <1>5. CASE LoginAnswer(s) \/ GoogleAnswer(s)
    <2>0. UNCHANGED <<now, mounted>>
      BY <1>5 DEF LoginAnswer, GoogleAnswer
    <2>1. CASE CompleteLogin(s)
      <3>1. Show(s, 0, 0) /\ stored'.ends = 0
        BY <1>b, <2>1 DEF CompleteLogin, Store
      <3> QED BY <1>0, <2>0, <3>1, ShownEnds
    <2>2. CASE OtherError(s)
      BY <1>a, <2>0, <2>2 DEF OtherError
    <2>3. CASE CountFailure(s, login[s] + 1)
      <3> DEFINE n == login[s] + 1
                 e == IF Exhausted(n) THEN now + Lockout ELSE ends[s]
      <3>1. Show(s, n, e) /\ stored'.ends = IF Exhausted(n) THEN e ELSE stored.ends
        BY <2>3 DEF CountFailure, Store
      <3>2. e \in Nat /\ e <= now + Lockout
        BY <1>0
      <3> HIDE DEF n, e
      <3> QED BY <2>0, <3>1, <3>2, ShownEnds
    <2> QED BY <1>5, <2>1, <2>2, <2>3 DEF LoginAnswer, GoogleAnswer
  <1>6. CASE LockoutTimer(s)
    <2>1. UNCHANGED <<now, mounted>>
      BY <1>6 DEF LockoutTimer
    <2>2. CASE Lift(s)
      <3>1. Show(s, 0, 0) /\ stored'.ends = 0
        BY <1>b, <2>2 DEF Lift, Store
      <3> QED BY <1>0, <2>1, <3>1, ShownEnds
    <2>3. CASE Render(s) /\ UNCHANGED <<stored, synced>>
      BY <1>a, <2>1, <2>3
    <2> QED BY <1>6, <2>2, <2>3 DEF LockoutTimer
  <1> QED BY <1>1, <1>2, <1>3, <1>4, <1>5, <1>6 DEF ScreenStep

\* No lockout outlasts its length, whichever tabs wrote it, and none is left
\* without a timer: what LockoutIsLifted needs beside a fair clock
\* (AuthScreen.jsx 45-56, 106-108, 166-172, 475-479, 512-520).
THEOREM LockoutsAlwaysEnd == Spec => []LockoutsEnd
  <1>1. Init => LockoutsEnd
    BY LockoutAssumption DEF Init, Nothing, LockoutsEnd
  <1>2. Types /\ LockoutsEnd /\ [Next]_vars => LockoutsEnd'
    <2> SUFFICES ASSUME Types, LockoutsEnd, [Next]_vars PROVE LockoutsEnd'
      OBVIOUS
    <2>0. now \in Nat /\ Lockout \in Nat /\ stored.ends \in Nat
          /\ \A s \in Screens : ends[s] \in Nat
      BY LockoutAssumption DEF Types, StoredTypes, UiTypes
    <2>1. CASE Tick
      BY <2>0, <2>1 DEF Tick, ui, LockoutsEnd
    <2>2. ASSUME NEW s \in Screens, ScreenStep(s) PROVE LockoutsEnd'
      BY <2>2, ScreenEnds
    <2>3. CASE UNCHANGED vars
      BY <2>3 DEF vars, ui, LockoutsEnd
    <2> QED BY <2>1, <2>2, <2>3 DEF Next
  <1> QED BY <1>1, <1>2, InitTypes, StepTypes, PTL DEF Spec
=============================================================================
