------------------------------- MODULE Widgets -------------------------------
(***************************************************************************)
(* The two third-party widgets of AuthScreen.jsx in one page: Turnstile's  *)
(* captcha and Google's button.  Each is mounted by an effect that first   *)
(* awaits its script.  The script's tag stays in the document for the life *)
(* of the page, while the screen is mounted, left, mounted again and       *)
(* switched between signing in and registering, each time cancelling the   *)
(* runs of the effects that are still waiting.                             *)
(***************************************************************************)
EXTENDS Integers

Kinds == {"turnstile", "google"}
Runs == {"live", "dead"}

VARIABLES
  configured,  \* the kinds whose key or client id is valid
  strict,      \* React runs every effect twice when a screen is mounted
  script,      \* the script tags
  pending,     \* the runs of an effect that await loadScript: at most one is
               \* live, the others, alike, are cancelled
  rejected,    \* those whose promise is rejected and that have not gone on
  mounted, mode,
  loading,     \* the kinds whose spinner is shown
  widget,      \* turnstileWidget.current is a widget
  rendered,    \* number of widgets rendered and not removed
  token, ready,
  button,      \* Google's button is in the login form
  busy         \* the sign-ins under way

config == <<configured, strict>>
runs == <<pending, rejected>>
captcha == <<widget, rendered, token, ready>>
vars == <<config, script, runs, mounted, mode, loading, captcha, button, busy>>

Init ==
  /\ configured \in SUBSET Kinds /\ strict \in BOOLEAN
  /\ script = [k \in Kinds |-> "absent"]
  /\ pending = [k \in Kinds |-> {}] /\ rejected = [k \in Kinds |-> {}]
  /\ mounted = FALSE /\ mode = "login"
  /\ loading = {} /\ busy = {}
  /\ widget = FALSE /\ rendered = 0 /\ token = FALSE /\ ready = FALSE
  /\ button = FALSE

-----------------------------------------------------------------------------
(* The scripts. *)

\* loadScript of a new run appends the tag unless there is one.
Appended(ks) ==
  [k \in Kinds |-> IF k \in ks /\ script[k] = "absent" THEN "loading" ELSE script[k]]

\* A tag may load without bringing its library, as one that is blocked does.
ScriptLoads(k) ==
  /\ script[k] = "loading"
  /\ \E outcome \in {"loaded", "empty"} : script' = [script EXCEPT ![k] = outcome]
  /\ UNCHANGED <<config, runs, mounted, mode, loading, captcha, button, busy>>

\* Mutant of Rejected: the error event reaches the run that appended the tag only.
RejectedOnce(k) == rejected[k] \cup (pending[k] \cap {"dead"})

\* The error event reaches every run that listens; the next run will listen in
\* vain.
Rejected(k) == rejected[k] \cup pending[k]

ScriptFails(k) ==
  /\ script[k] = "loading"
  /\ script' = [script EXCEPT ![k] = "failed"]
  /\ rejected' = [rejected EXCEPT ![k] = Rejected(k)]
  /\ pending' = [pending EXCEPT ![k] = {}]
  /\ UNCHANGED <<config, mounted, mode, loading, captcha, button, busy>>

-----------------------------------------------------------------------------
(* Mounting, leaving and switching. *)

Cancelled(S) == IF S = {} THEN {} ELSE {"dead"}

\* Mutant of RemoveWidget: the reference is dropped and the widget is not removed.
ForgetWidget == widget' = FALSE /\ UNCHANGED rendered

RemoveWidget ==
  /\ widget' = FALSE
  /\ rendered' = IF widget THEN rendered - 1 ELSE rendered

\* Runs of a screen that is gone have no effect on this one.
Mount ==
  /\ ~mounted
  /\ mounted' = TRUE /\ mode' = "login"
  /\ script' = Appended(configured)
  /\ pending' = [k \in Kinds |->
                   IF k \notin configured THEN {}
                   ELSE IF strict THEN {"live", "dead"} ELSE {"live"}]
  /\ loading' = configured
  /\ UNCHANGED <<config, rejected, captcha, button, busy>>

Leave ==
  /\ mounted
  /\ mounted' = FALSE
  /\ pending' = [k \in Kinds |-> {}] /\ rejected' = [k \in Kinds |-> {}]
  /\ loading' = {} /\ busy' = {} /\ button' = FALSE
  /\ RemoveWidget /\ token' = FALSE /\ ready' = FALSE
  /\ UNCHANGED <<config, script, mode>>

\* Mutant of ToggleUsable: the toggle is not disabled during a sign-in.
ToggleAlways == mounted

ToggleUsable == mounted /\ busy = {}

\* switchMode, and the effects of the next render: Turnstile's is cleaned up and
\* runs anew, but without a host in the registration form it does nothing;
\* Google's is not, and its host is another element from now on.
SwitchMode ==
  /\ ToggleUsable
  /\ mode' = IF mode = "login" THEN "register" ELSE "login"
  /\ LET again == configured \cap {"turnstile"} \cap
                    (IF mode = "login" THEN {} ELSE Kinds)
     IN  /\ script' = Appended(again)
         /\ pending' = [pending EXCEPT !["turnstile"] = Cancelled(@) \cup
                          (IF again = {} THEN {} ELSE {"live"})]
         /\ loading' = (loading \ {"turnstile"}) \cup again
  /\ rejected' = [rejected EXCEPT !["turnstile"] = Cancelled(@)]
  /\ RemoveWidget /\ token' = FALSE /\ ready' = FALSE
  /\ button' = FALSE
  /\ UNCHANGED <<config, mounted, busy>>

-----------------------------------------------------------------------------
(* A run of an effect goes on. *)

LibraryMissing(k) == script[k] = "empty"

Loaded(k, run) ==
  /\ run \in pending[k] /\ script[k] \in {"loaded", "empty"}
  /\ pending' = [pending EXCEPT ![k] = @ \ {run}]

\* Cancelled or without a library: only the spinner is stopped, even if it is a
\* later run's.
GiveUp(k, run) ==
  /\ Loaded(k, run)
  /\ run = "dead" \/ LibraryMissing(k)
  /\ loading' = loading \ {k}
  /\ UNCHANGED <<config, script, rejected, mounted, mode, captcha, button, busy>>

\* The spinner goes on until the widget calls back.
RenderTurnstile ==
  /\ Loaded("turnstile", "live") /\ ~LibraryMissing("turnstile")
  /\ token' = FALSE /\ ready' = FALSE
  /\ \/ /\ widget' = TRUE
        /\ rendered' = (IF widget THEN rendered - 1 ELSE rendered) + 1
        /\ UNCHANGED loading
     \/ /\ loading' = loading \ {"turnstile"}
        /\ UNCHANGED <<widget, rendered>>
  /\ UNCHANGED <<config, script, rejected, mounted, mode, button, busy>>

\* initialize, and renderButton if the form is there; either may throw.
InitializeGoogle ==
  /\ Loaded("google", "live") /\ ~LibraryMissing("google")
  /\ \E shown \in BOOLEAN : button' = (shown /\ mode = "login")
  /\ loading' = loading \ {"google"}
  /\ UNCHANGED <<config, script, rejected, mounted, mode, captcha, busy>>

\* The catch clauses, which do not ask whether the run was cancelled.
Fail(k, run) ==
  /\ run \in rejected[k]
  /\ rejected' = [rejected EXCEPT ![k] = @ \ {run}]
  /\ loading' = loading \ {k}
  /\ ready' = (ready /\ k # "turnstile")
  /\ UNCHANGED <<config, script, pending, mounted, mode, widget, rendered, token,
                 button, busy>>

-----------------------------------------------------------------------------
(* The widgets call back; signing in. *)

Solved ==
  /\ widget
  /\ token' = TRUE /\ ready' = TRUE
  /\ loading' = loading \ {"turnstile"}
  /\ UNCHANGED <<config, script, runs, mounted, mode, widget, rendered, button, busy>>

\* expired-callback and timeout-callback leave the spinner as it is,
\* error-callback stops it.
Unsolved ==
  /\ widget
  /\ token' = FALSE /\ ready' = FALSE
  /\ loading' \in {loading, loading \ {"turnstile"}}
  /\ UNCHANGED <<config, script, runs, mounted, mode, widget, rendered, button, busy>>

CaptchaBlocking == ~ready \/ ~token \/ "turnstile" \in loading

Submit ==
  /\ mounted /\ mode = "login" /\ busy = {}
  /\ ~CaptchaBlocking
  /\ busy' = {"login"}
  /\ UNCHANGED <<config, script, runs, mounted, mode, loading, captcha, button>>

\* An error resets the captcha, a success leaves it.
Answered ==
  /\ "login" \in busy
  /\ busy' = busy \ {"login"}
  /\ \/ token' = FALSE /\ ready' = FALSE
     \/ UNCHANGED <<token, ready>>
  /\ UNCHANGED <<config, script, runs, mounted, mode, loading, widget, rendered, button>>

\* The button's popup may answer after the form has been switched.
GoogleCallback ==
  /\ mounted /\ "google" \in configured
  /\ script["google"] = "loaded" /\ "live" \notin pending["google"]
  /\ busy' = busy \cup {"google"}
  /\ UNCHANGED <<config, script, runs, mounted, mode, loading, captcha, button>>

GoogleAnswered ==
  /\ "google" \in busy
  /\ busy' = busy \ {"google"}
  /\ UNCHANGED <<config, script, runs, mounted, mode, loading, captcha, button>>

-----------------------------------------------------------------------------
Next ==
  \/ Mount \/ Leave \/ SwitchMode
  \/ RenderTurnstile \/ InitializeGoogle
  \/ Solved \/ Unsolved \/ Submit \/ Answered \/ GoogleCallback \/ GoogleAnswered
  \/ \E k \in Kinds :
       \/ ScriptLoads(k) \/ ScriptFails(k)
       \/ \E run \in Runs : GiveUp(k, run) \/ Fail(k, run)

Spec == Init /\ [][Next]_vars

\* The browser settles every script, and promises that are settled go on.
FairSpec ==
  /\ Spec
  /\ WF_vars(RenderTurnstile) /\ WF_vars(InitializeGoogle)
  /\ \A k \in Kinds :
       /\ WF_vars(ScriptLoads(k) \/ ScriptFails(k))
       /\ \A run \in Runs : WF_vars(GiveUp(k, run)) /\ WF_vars(Fail(k, run))

-----------------------------------------------------------------------------
(* Properties. *)

TypeOK ==
  /\ configured \subseteq Kinds /\ strict \in BOOLEAN
  /\ script \in [Kinds -> {"absent", "loading", "loaded", "empty", "failed"}]
  /\ pending \in [Kinds -> SUBSET Runs] /\ rejected \in [Kinds -> SUBSET Runs]
  /\ mounted \in BOOLEAN /\ mode \in {"login", "register"}
  /\ loading \subseteq Kinds /\ busy \subseteq {"login", "google"}
  /\ widget \in BOOLEAN /\ rendered \in 0..1 /\ token \in BOOLEAN /\ ready \in BOOLEAN
  /\ button \in BOOLEAN

\* Through every mount, cancelled run and switch of the form there is one captcha
\* at most, the one the screen knows, and none outside the login form.
OneCaptcha ==
  /\ rendered = IF widget THEN 1 ELSE 0
  /\ widget => mounted /\ mode = "login" /\ script["turnstile"] = "loaded"

\* A token is of the captcha on the screen, never of one that was removed; and
\* while a password is under way the captcha stays, for the answer to reset it.
TokenIsCurrent ==
  /\ token => ready /\ widget
  /\ "login" \in busy => widget

\* A spinner stops, or (Turnstile's) a captcha is rendered.  Not if the script
\* had failed before the screen was mounted: its tag is still there, and the new
\* run waits for events that have been.
SpinnersStop ==
  \A k \in Kinds :
    (k \in loading /\ script[k] # "failed")
      ~> (k \notin loading \/ (k = "turnstile" /\ widget))
=============================================================================
