---------------------------- MODULE WidgetsProofs ----------------------------
(***************************************************************************)
(* The promises of the two widgets.  What OneCaptcha and TokenIsCurrent    *)
(* need is RunsAreBounded: a run of an effect outlives neither the screen  *)
(* nor, uncancelled, the login form, and Turnstile's runs are rejected     *)
(* only by a script that will never load.                                  *)
(***************************************************************************)
EXTENDS Widgets, TLAPS

ScriptStates == {"absent", "loading", "loaded", "empty", "failed"}

\* Appended touches no tag that is in the document.
LEMMA AppendedKeepsTags ==
  ASSUME TypeOK, NEW ks \in SUBSET Kinds
  PROVE  /\ Appended(ks) \in [Kinds -> ScriptStates]
         /\ \A k \in Kinds : script[k] # "absent" => Appended(ks)[k] = script[k]
BY DEF TypeOK, Appended, ScriptStates

\* A run that goes on leaves pending, which keeps the others.
LEMMA LoadedShape ==
  ASSUME TypeOK, NEW k \in Kinds, NEW run \in Runs, Loaded(k, run)
  PROVE  /\ pending' \in [Kinds -> SUBSET Runs]
         /\ \A j \in Kinds : pending'[j] \subseteq pending[j]
<1>1. pending \in [Kinds -> SUBSET Runs] /\ pending' = [pending EXCEPT ![k] = @ \ {run}]
  BY DEF TypeOK, Loaded
<1>2. pending[k] \ {run} \in SUBSET Runs
  BY <1>1
<1>3. pending' \in [Kinds -> SUBSET Runs]
  BY <1>1, <1>2
<1>4. ASSUME NEW j \in Kinds PROVE pending'[j] \subseteq pending[j]
  BY <1>1, <1>4
<1> QED BY <1>3, <1>4

\* What SwitchMode does to the scripts, the runs and the widget.
LEMMA SwitchShape ==
  ASSUME TypeOK, SwitchMode
  PROVE  /\ script' \in [Kinds -> ScriptStates]
         /\ \A k \in Kinds : script[k] # "absent" => script'[k] = script[k]
         /\ pending' \in [Kinds -> SUBSET Runs] /\ rejected' \in [Kinds -> SUBSET Runs]
         /\ rejected["turnstile"] = {} => rejected'["turnstile"] = {}
         /\ mode = "login" => "live" \notin pending'["turnstile"]
         /\ mode' \in {"login", "register"} /\ (mode' = "register" => mode = "login")
         /\ loading' \in SUBSET Kinds
<1> DEFINE again == configured \cap {"turnstile"} \cap
                      (IF mode = "login" THEN {} ELSE Kinds)
           runsAgain == Cancelled(pending["turnstile"]) \cup
                          (IF again = {} THEN {} ELSE {"live"})
<1>1. configured \subseteq Kinds /\ mode \in {"login", "register"} /\ again \in SUBSET Kinds
      /\ loading \subseteq Kinds
  BY DEF TypeOK, Kinds
<1>2. script' = Appended(again)
      /\ loading' = (loading \ {"turnstile"}) \cup again
      /\ mode' = IF mode = "login" THEN "register" ELSE "login"
  BY DEF SwitchMode
<1>3. pending' = [pending EXCEPT !["turnstile"] = runsAgain]
  BY DEF SwitchMode
<1>4. rejected' = [rejected EXCEPT !["turnstile"] = Cancelled(rejected["turnstile"])]
  BY DEF SwitchMode
<1>5. runsAgain \in SUBSET Runs /\ Cancelled(rejected["turnstile"]) \in SUBSET Runs
  BY DEF Cancelled, Runs
<1>6. pending \in [Kinds -> SUBSET Runs] /\ rejected \in [Kinds -> SUBSET Runs]
      /\ "turnstile" \in Kinds
  BY DEF TypeOK, Kinds
<1>7. mode = "login" => "live" \notin runsAgain
  BY DEF Cancelled
<1> HIDE DEF again, runsAgain
<1>8. pending' \in [Kinds -> SUBSET Runs] /\ pending'["turnstile"] = runsAgain
  BY <1>3, <1>5, <1>6
<1>9. rejected' \in [Kinds -> SUBSET Runs]
      /\ rejected'["turnstile"] = Cancelled(rejected["turnstile"])
  BY <1>4, <1>5, <1>6
<1>10. /\ script' \in [Kinds -> ScriptStates]
       /\ \A k \in Kinds : script[k] # "absent" => script'[k] = script[k]
  BY <1>1, <1>2, AppendedKeepsTags
<1> QED BY <1>1, <1>2, <1>7, <1>8, <1>9, <1>10 DEF Cancelled

-----------------------------------------------------------------------------
(* The inductive invariant. *)

RunsAreBounded ==
  /\ ~mounted => busy = {} /\ \A k \in Kinds : pending[k] = {} /\ rejected[k] = {}
  /\ "live" \in pending["turnstile"] => mode = "login"
  /\ rejected["turnstile"] # {} => script["turnstile"] = "failed"

WidgetsInv == TypeOK /\ OneCaptcha /\ TokenIsCurrent /\ RunsAreBounded

LEMMA WidgetsInit == Init => WidgetsInv
<1> SUFFICES ASSUME Init PROVE WidgetsInv
  OBVIOUS
<1>1. TypeOK
  <2>1. /\ script \in [Kinds -> {"absent", "loading", "loaded", "empty", "failed"}]
        /\ pending \in [Kinds -> SUBSET Runs] /\ rejected \in [Kinds -> SUBSET Runs]
    BY DEF Init
  <2>2. configured \subseteq Kinds /\ loading \subseteq Kinds
        /\ busy \subseteq {"login", "google"}
    BY DEF Init
  <2>3. rendered \in 0..1 /\ mode \in {"login", "register"}
    BY DEF Init
  <2>4. /\ strict \in BOOLEAN /\ mounted \in BOOLEAN /\ widget \in BOOLEAN
        /\ token \in BOOLEAN /\ ready \in BOOLEAN /\ button \in BOOLEAN
    BY Zenon DEF Init
  <2> QED BY <2>1, <2>2, <2>3, <2>4, Zenon DEF TypeOK
<1>2. OneCaptcha /\ TokenIsCurrent
  BY DEF Init, OneCaptcha, TokenIsCurrent
<1>3. RunsAreBounded
  BY DEF Init, RunsAreBounded, Kinds
<1> QED BY <1>1, <1>2, <1>3 DEF WidgetsInv

\* The steps of the screen: mounting it, leaving it, switching the form.
LEMMA ScreenKeepsInv ==
  ASSUME WidgetsInv, Mount \/ Leave \/ SwitchMode
  PROVE  WidgetsInv'
<1>0. TypeOK /\ OneCaptcha /\ TokenIsCurrent /\ RunsAreBounded /\ "turnstile" \in Kinds
  BY DEF WidgetsInv, Kinds
<1>1. CASE Mount
  <2> DEFINE started == [k \in Kinds |->
                   IF k \notin configured THEN {}
                   ELSE IF strict THEN {"live", "dead"} ELSE {"live"}]
  <2>1. /\ ~mounted /\ mounted' = TRUE /\ mode' = "login"
        /\ script' = Appended(configured) /\ loading' = configured
        /\ UNCHANGED <<configured, strict, rejected, widget, rendered, token, ready,
                       button, busy>>
    BY <1>1 DEF Mount, config, captcha
  <2>2. pending' = started
    BY <1>1 DEF Mount
  <2>3. configured \in SUBSET Kinds
    BY <1>0 DEF TypeOK
  <2>4. script' \in [Kinds -> ScriptStates]
    BY <1>0, <2>1, <2>3, AppendedKeepsTags
  <2>5. started \in [Kinds -> SUBSET Runs]
    BY DEF Runs
  <2> HIDE DEF started
  <2>6. TypeOK'
    BY <1>0, <2>1, <2>2, <2>4, <2>5 DEF TypeOK, ScriptStates
  <2>7. ~widget /\ rejected["turnstile"] = {}
    BY <1>0, <2>1 DEF OneCaptcha, RunsAreBounded
  <2>8. OneCaptcha' /\ TokenIsCurrent'
    BY <1>0, <2>1, <2>7 DEF OneCaptcha, TokenIsCurrent
  <2>9. RunsAreBounded'
    BY <2>1, <2>7 DEF RunsAreBounded
  <2> QED BY <2>6, <2>8, <2>9 DEF WidgetsInv
<1>2. CASE Leave
  <2>1. /\ mounted' = FALSE /\ pending' = [k \in Kinds |-> {}]
        /\ rejected' = [k \in Kinds |-> {}] /\ loading' = {} /\ busy' = {}
        /\ button' = FALSE /\ widget' = FALSE /\ token' = FALSE /\ ready' = FALSE
        /\ rendered' = IF widget THEN rendered - 1 ELSE rendered
        /\ UNCHANGED <<configured, strict, script, mode>>
    BY <1>2 DEF Leave, RemoveWidget, config
  <2>2. rendered' = 0
    BY <1>0, <2>1 DEF OneCaptcha
  <2>3. TypeOK'
    <3>1. /\ pending' \in [Kinds -> SUBSET Runs] /\ rejected' \in [Kinds -> SUBSET Runs]
          /\ loading' \subseteq Kinds /\ busy' \subseteq {"login", "google"}
      BY <2>1
    <3>2. rendered' \in 0..1
      BY <2>2
    <3>3. /\ mounted' \in BOOLEAN /\ widget' \in BOOLEAN /\ token' \in BOOLEAN
          /\ ready' \in BOOLEAN /\ button' \in BOOLEAN
      BY <2>1, Zenon
    <3>4. configured' = configured /\ strict' = strict /\ script' = script /\ mode' = mode
      BY <2>1
    <3> QED BY <1>0, <3>1, <3>2, <3>3, <3>4, Zenon DEF TypeOK
  <2>4. OneCaptcha' /\ TokenIsCurrent'
    BY <2>1, <2>2 DEF OneCaptcha, TokenIsCurrent
  <2>5. RunsAreBounded'
    BY <1>0, <2>1 DEF RunsAreBounded
  <2> QED BY <2>3, <2>4, <2>5 DEF WidgetsInv
<1>3. CASE SwitchMode
  <2>1. /\ mounted /\ busy = {} /\ widget' = FALSE /\ token' = FALSE /\ ready' = FALSE
        /\ rendered' = IF widget THEN rendered - 1 ELSE rendered
        /\ button' = FALSE /\ UNCHANGED <<configured, strict, mounted, busy>>
    BY <1>3 DEF SwitchMode, ToggleUsable, RemoveWidget, config
  <2>2. rendered' = 0
    BY <1>0, <2>1 DEF OneCaptcha
  <2>3. TypeOK'
    <3>1. /\ script' \in [Kinds -> {"absent", "loading", "loaded", "empty", "failed"}]
          /\ pending' \in [Kinds -> SUBSET Runs] /\ rejected' \in [Kinds -> SUBSET Runs]
          /\ loading' \subseteq Kinds /\ mode' \in {"login", "register"}
      BY <1>0, <1>3, SwitchShape DEF ScriptStates
    <3>2. rendered' \in 0..1
      BY <2>2
    <3>3. /\ widget' \in BOOLEAN /\ token' \in BOOLEAN /\ ready' \in BOOLEAN
          /\ button' \in BOOLEAN
      BY <2>1, Zenon
    <3>4. configured' = configured /\ strict' = strict /\ mounted' = mounted /\ busy' = busy
      BY <2>1
    <3> QED BY <1>0, <3>1, <3>2, <3>3, <3>4, Zenon DEF TypeOK
  <2>4. OneCaptcha' /\ TokenIsCurrent'
    BY <2>1, <2>2 DEF OneCaptcha, TokenIsCurrent
  <2>5. "live" \in pending'["turnstile"] => mode' = "login"
    BY <1>0, <1>3, SwitchShape
  <2>6. rejected'["turnstile"] # {} => script'["turnstile"] = "failed"
    BY <1>0, <1>3, SwitchShape DEF RunsAreBounded
  <2>7. RunsAreBounded'
    BY <2>1, <2>5, <2>6 DEF RunsAreBounded
  <2> QED BY <2>3, <2>4, <2>7 DEF WidgetsInv
<1> QED BY <1>1, <1>2, <1>3

\* The steps of the scripts and of the runs that wait for them.
LEMMA RunsKeepInv ==
  ASSUME WidgetsInv, NEW k \in Kinds, NEW run \in Runs,
         \/ ScriptLoads(k) \/ ScriptFails(k) \/ GiveUp(k, run) \/ Fail(k, run)
         \/ RenderTurnstile \/ InitializeGoogle
  PROVE  WidgetsInv'
<1>0. TypeOK /\ OneCaptcha /\ TokenIsCurrent /\ RunsAreBounded
      /\ "turnstile" \in Kinds /\ "google" \in Kinds /\ "live" \in Runs
  BY DEF WidgetsInv, Kinds, Runs
<1>1. CASE ScriptLoads(k)
  <2>1. script[k] = "loading" /\ script' \in [Kinds -> ScriptStates]
        /\ \A j \in Kinds : script[j] # "loading" => script'[j] = script[j]
    BY <1>0, <1>1 DEF ScriptLoads, TypeOK, ScriptStates
  <2>2. UNCHANGED <<configured, strict, pending, rejected, mounted, mode, loading,
                    widget, rendered, token, ready, button, busy>>
    BY <1>1 DEF ScriptLoads, config, runs, captcha
  <2>3. TypeOK'
    BY <1>0, <2>1, <2>2 DEF TypeOK, ScriptStates
  <2>4. OneCaptcha' /\ TokenIsCurrent' /\ RunsAreBounded'
    BY <1>0, <2>1, <2>2 DEF OneCaptcha, TokenIsCurrent, RunsAreBounded
  <2> QED BY <2>3, <2>4 DEF WidgetsInv
<1>2. CASE ScriptFails(k)
  <2>1. script[k] = "loading" /\ script' = [script EXCEPT ![k] = "failed"]
        /\ rejected' = [rejected EXCEPT ![k] = Rejected(k)]
        /\ pending' = [pending EXCEPT ![k] = {}]
        /\ UNCHANGED <<configured, strict, mounted, mode, loading,
                    widget, rendered, token, ready, button, busy>>
    BY <1>2 DEF ScriptFails, config, captcha
  <2>2. Rejected(k) \in SUBSET Runs
    BY <1>0 DEF Rejected, TypeOK
  <2>3. script' \in [Kinds -> ScriptStates] /\ rejected' \in [Kinds -> SUBSET Runs]
        /\ pending' \in [Kinds -> SUBSET Runs]
    BY <1>0, <2>1, <2>2 DEF TypeOK, ScriptStates
  <2>4. TypeOK'
    BY <1>0, <2>1, <2>3 DEF TypeOK, ScriptStates
  <2>5. OneCaptcha' /\ TokenIsCurrent'
    BY <1>0, <2>1 DEF OneCaptcha, TokenIsCurrent, TypeOK
  <2>6. \A j \in Kinds : pending'[j] \subseteq pending[j]
    BY <1>0, <2>1 DEF TypeOK
  <2>7. \A j \in Kinds : pending[j] = {} /\ rejected[j] = {} => rejected'[j] = {}
    BY <1>0, <2>1 DEF TypeOK, Rejected
  <2>8. rejected'["turnstile"] # {} => script'["turnstile"] = "failed"
    BY <1>0, <2>1 DEF TypeOK, RunsAreBounded
  <2>9. RunsAreBounded'
    BY <1>0, <2>1, <2>6, <2>7, <2>8 DEF RunsAreBounded
  <2> QED BY <2>4, <2>5, <2>9 DEF WidgetsInv
<1>3. CASE GiveUp(k, run)
  <2>1. /\ loading' = loading \ {k}
        /\ UNCHANGED <<configured, strict, script, rejected, mounted, mode,
                       widget, rendered, token, ready, button, busy>>
    BY <1>3 DEF GiveUp, config, captcha
  <2>2. pending' \in [Kinds -> SUBSET Runs] /\ \A j \in Kinds : pending'[j] \subseteq pending[j]
    BY <1>0, <1>3, LoadedShape DEF GiveUp
  <2>3. TypeOK'
    BY <1>0, <2>1, <2>2 DEF TypeOK
  <2>4. OneCaptcha' /\ TokenIsCurrent'
    BY <1>0, <2>1 DEF OneCaptcha, TokenIsCurrent
  <2>5. RunsAreBounded'
    BY <1>0, <2>1, <2>2 DEF RunsAreBounded
  <2> QED BY <2>3, <2>4, <2>5 DEF WidgetsInv
<1>4. CASE Fail(k, run)
  <2>1. /\ run \in rejected[k] /\ rejected' = [rejected EXCEPT ![k] = @ \ {run}]
        /\ loading' = loading \ {k} /\ ready' = (ready /\ k # "turnstile")
        /\ UNCHANGED <<configured, strict, script, pending, mounted, mode,
                       widget, rendered, token, button, busy>>
    BY <1>4 DEF Fail, config
  <2>2. rejected' \in [Kinds -> SUBSET Runs] /\ \A j \in Kinds : rejected'[j] \subseteq rejected[j]
    <3>1. rejected[k] \ {run} \in SUBSET Runs /\ rejected \in [Kinds -> SUBSET Runs]
      BY <1>0 DEF TypeOK
    <3> QED BY <2>1, <3>1
  <2>3. ready' \in BOOLEAN
    BY <2>1
  <2>4. TypeOK'
    BY <1>0, <2>1, <2>2, <2>3 DEF TypeOK
  <2>5. OneCaptcha'
    BY <1>0, <2>1 DEF OneCaptcha
  <2>6. k = "turnstile" => ~token
    <3>1. k = "turnstile" => script["turnstile"] # "loaded"
      BY <1>0, <2>1 DEF RunsAreBounded
    <3> QED BY <1>0, <3>1 DEF OneCaptcha, TokenIsCurrent
  <2>7. TokenIsCurrent'
    BY <1>0, <2>1, <2>6 DEF TokenIsCurrent
  <2>8. RunsAreBounded'
    BY <1>0, <2>1, <2>2 DEF RunsAreBounded
  <2> QED BY <2>4, <2>5, <2>7, <2>8 DEF WidgetsInv
<1>5. CASE RenderTurnstile
  <2>1. /\ "live" \in pending["turnstile"] /\ script["turnstile"] = "loaded"
        /\ token' = FALSE /\ ready' = FALSE
        /\ UNCHANGED <<configured, strict, script, rejected, mounted, mode, button, busy>>
    BY <1>5 DEF RenderTurnstile, Loaded, LibraryMissing, config
  <2>2. pending' \in [Kinds -> SUBSET Runs] /\ \A j \in Kinds : pending'[j] \subseteq pending[j]
    BY <1>0, <1>5, LoadedShape DEF RenderTurnstile
  <2>3. mounted /\ mode = "login"
    BY <1>0, <2>1 DEF RunsAreBounded
  <2>4. /\ loading' \in SUBSET Kinds
        /\ \/ widget' = TRUE /\ rendered' = (IF widget THEN rendered - 1 ELSE rendered) + 1
           \/ widget' = widget /\ rendered' = rendered
    BY <1>0, <1>5 DEF RenderTurnstile, TypeOK
  <2>5. widget' \in BOOLEAN /\ rendered' = (IF widget' THEN 1 ELSE 0) /\ (widget => widget')
    <3>1. widget \in BOOLEAN /\ rendered = (IF widget THEN 1 ELSE 0)
      BY <1>0, Zenon DEF OneCaptcha, TypeOK
    <3>2. CASE widget' = TRUE /\ rendered' = (IF widget THEN rendered - 1 ELSE rendered) + 1
      BY <3>1, <3>2
    <3>3. CASE widget' = widget /\ rendered' = rendered
      BY <3>1, <3>3, Zenon
    <3> QED BY <2>4, <3>2, <3>3
  <2>6. TypeOK'
    <3>1. rendered' \in 0..1
      BY <2>5
    <3>2. token' \in BOOLEAN /\ ready' \in BOOLEAN /\ loading' \subseteq Kinds
      BY <2>1, <2>4, Zenon
    <3> QED BY <1>0, <2>1, <2>2, <2>5, <3>1, <3>2 DEF TypeOK
  <2>7. OneCaptcha' /\ TokenIsCurrent'
    BY <1>0, <2>1, <2>3, <2>5 DEF OneCaptcha, TokenIsCurrent
  <2>8. RunsAreBounded'
    BY <1>0, <2>1, <2>2 DEF RunsAreBounded
  <2> QED BY <2>6, <2>7, <2>8 DEF WidgetsInv
<1>6. CASE InitializeGoogle
  <2>1. /\ loading' = loading \ {"google"} /\ button' \in BOOLEAN
        /\ UNCHANGED <<configured, strict, script, rejected, mounted, mode,
                       widget, rendered, token, ready, busy>>
    BY <1>6 DEF InitializeGoogle, config, captcha
  <2>2. pending' \in [Kinds -> SUBSET Runs] /\ \A j \in Kinds : pending'[j] \subseteq pending[j]
    BY <1>0, <1>6, LoadedShape DEF InitializeGoogle
  <2>3. TypeOK'
    BY <1>0, <2>1, <2>2 DEF TypeOK
  <2>4. OneCaptcha' /\ TokenIsCurrent'
    BY <1>0, <2>1 DEF OneCaptcha, TokenIsCurrent
  <2>5. RunsAreBounded'
    BY <1>0, <2>1, <2>2 DEF RunsAreBounded
  <2> QED BY <2>3, <2>4, <2>5 DEF WidgetsInv
<1> QED BY <1>1, <1>2, <1>3, <1>4, <1>5, <1>6

\* The callbacks of the widgets, and the sign-ins.
LEMMA CallbacksKeepInv ==
  ASSUME WidgetsInv, Solved \/ Unsolved \/ Submit \/ Answered \/ GoogleCallback
                     \/ GoogleAnswered
  PROVE  WidgetsInv'
<1>0. TypeOK /\ OneCaptcha /\ TokenIsCurrent /\ RunsAreBounded
  BY DEF WidgetsInv
<1>1. /\ loading' \in SUBSET Kinds
      /\ token' \in BOOLEAN /\ ready' \in BOOLEAN /\ busy' \in SUBSET {"login", "google"}
  BY <1>0 DEF TypeOK, Solved, Unsolved, Submit, Answered, GoogleCallback,
              GoogleAnswered, captcha
<1>2. UNCHANGED <<configured, strict, script, pending, rejected, mounted, mode, widget,
                  rendered, button>>
  BY DEF Solved, Unsolved, Submit, Answered, GoogleCallback, GoogleAnswered, config,
         runs, captcha
<1>3. TypeOK'
  BY <1>0, <1>1, <1>2 DEF TypeOK
<1>4. OneCaptcha'
  BY <1>0, <1>2 DEF OneCaptcha
<1>5. token' => ready' /\ widget'
  BY <1>0, <1>2 DEF TokenIsCurrent, Solved, Unsolved, Submit, Answered, GoogleCallback,
                    GoogleAnswered, captcha
<1>6. "login" \in busy' => widget'
  <2>1. CASE Submit
    BY <1>0, <1>2, <2>1 DEF Submit, CaptchaBlocking, TokenIsCurrent
  <2>2. CASE ~Submit
    <3>1. "login" \in busy' => "login" \in busy
      BY <2>2 DEF Solved, Unsolved, Answered, GoogleCallback, GoogleAnswered
    <3> QED BY <1>0, <1>2, <3>1 DEF TokenIsCurrent
  <2> QED BY <2>1, <2>2
<1>7. ~mounted => busy' = {}
  BY <1>0 DEF RunsAreBounded, OneCaptcha, Solved, Unsolved, Submit, Answered,
              GoogleCallback, GoogleAnswered
<1>8. RunsAreBounded'
  BY <1>0, <1>2, <1>7 DEF RunsAreBounded
<1> QED BY <1>3, <1>4, <1>5, <1>6, <1>8 DEF WidgetsInv, TokenIsCurrent

LEMMA WidgetsStep == WidgetsInv /\ [Next]_vars => WidgetsInv'
<1> SUFFICES ASSUME WidgetsInv, [Next]_vars PROVE WidgetsInv'
  OBVIOUS
<1>1. CASE Mount \/ Leave \/ SwitchMode
  BY <1>1, ScreenKeepsInv
<1>2. CASE RenderTurnstile \/ InitializeGoogle
  <2>1. "turnstile" \in Kinds /\ "live" \in Runs
    BY DEF Kinds, Runs
  <2> QED BY <1>2, <2>1, RunsKeepInv
<1>3. ASSUME NEW k \in Kinds,
             ScriptLoads(k) \/ ScriptFails(k) \/ \E run \in Runs : GiveUp(k, run) \/ Fail(k, run)
      PROVE  WidgetsInv'
  <2>1. "live" \in Runs
    BY DEF Runs
  <2> QED BY <1>3, <2>1, RunsKeepInv
<1>4. CASE Solved \/ Unsolved \/ Submit \/ Answered \/ GoogleCallback \/ GoogleAnswered
  BY <1>4, CallbacksKeepInv
<1>5. CASE UNCHANGED vars
  BY <1>5 DEF vars, config, runs, captcha, WidgetsInv, TypeOK, OneCaptcha,
              TokenIsCurrent, RunsAreBounded
<1> QED BY <1>1, <1>2, <1>3, <1>4, <1>5 DEF Next

THEOREM WidgetsAreSound == Spec => []WidgetsInv
BY WidgetsInit, WidgetsStep, PTL DEF Spec

-----------------------------------------------------------------------------
\* Every variable of the two widgets keeps its type.
THEOREM TypeCorrect == Spec => []TypeOK
<1>1. WidgetsInv => TypeOK
  BY DEF WidgetsInv
<1> QED BY <1>1, WidgetsAreSound, PTL

\* However mounts, scripts, cancelled runs and switches of the form interleave,
\* at most one captcha is rendered, it is the one AuthScreen.jsx refers to, and
\* it is gone with the login form.
THEOREM AlwaysOneCaptcha == Spec => []OneCaptcha
<1>1. WidgetsInv => OneCaptcha
  BY DEF WidgetsInv
<1> QED BY <1>1, WidgetsAreSound, PTL

\* The token that a submit sends is of the captcha on the screen, and the captcha
\* outlives the sign-in that used it: an error finds it there to be reset.
THEOREM TokenAlwaysCurrent == Spec => []TokenIsCurrent
<1>1. WidgetsInv => TokenIsCurrent
  BY DEF WidgetsInv
<1> QED BY <1>1, WidgetsAreSound, PTL
=============================================================================
