------------------------------- MODULE Browsing -------------------------------
(***************************************************************************)
(* One tab of the client: its routes (main.jsx, Layout.jsx), the session   *)
(* that api.js keeps in the module's memory and in sessionStorage, and the *)
(* list of AssetList.jsx.  A reload evaluates the module anew; a page of   *)
(* the application that is left is unmounted, but a sign-in or a redirect  *)
(* it has begun goes on.                                                   *)
(***************************************************************************)
EXTENDS Integers

CONSTANTS Lots,      \* the ids of the lots
          FirstLot,  \* "108"
          Requests,  \* bound on the sign-ins under way
          Life,      \* expires_in
          Waiting,   \* bound on the loads and redirects that wait for another
          MaxTime    \* bound on the clock

ASSUME BrowsingAssumption ==
  /\ FirstLot \in Lots
  /\ Life \in Nat \ {0} /\ MaxTime \in Nat \ {0} /\ Waiting \in Nat

Lists == {"/", "/assets"}
Pages == Lists \cup {"/auth"} \cup Lots
ASSUME PagesAssumption == Lots \cap (Lists \cup {"/auth", "none"}) = {}

VARIABLES
  now,
  page,
  back,       \* the page that going back (or forward) shows, if any
  token,      \* authToken: the end of its session, 0 if empty
  stored,     \* the same in sessionStorage
  full,       \* sessionStorage.setItem throws
  sent,       \* the sign-ins under way
  redirects,  \* setTimeouts that will navigate
  loads,      \* the list's loads under way
  loading, assets,  \* its state
  listToken,  \* token in its last render
  loaded,     \* history: when the module was evaluated
  told        \* history: the end of the session last announced to the user

session == <<token, stored, full, told>>
list == <<loads, loading, assets, listToken>>
vars == <<now, page, back, session, sent, redirects, list, loaded>>

-----------------------------------------------------------------------------
(* The session. *)

Expired(until) == until <= now

\* restoreSession: an expired session is dropped, from both.
RestoreSession ==
  IF stored = 0 THEN UNCHANGED <<token, stored>>
  ELSE IF Expired(stored) THEN token' = 0 /\ stored' = 0
  ELSE token' = stored /\ UNCHANGED stored

\* getAuthToken, whose token in memory may have expired.
GetAuthToken == IF token = 0 THEN RestoreSession ELSE UNCHANGED <<token, stored>>

\* Mutant of Until: seconds are added to milliseconds.
UntilNow == now

\* The server counts from when it issued the token.
Until == now + Life

\* Mutant of Persisted: a session that could not be stored is a success.
PersistedAnyway == TRUE

Persisted == ~full

\* persistSession: the token is in memory before storing it may fail.
PersistSession ==
  /\ token' = Until
  /\ stored' = IF full THEN stored ELSE Until

-----------------------------------------------------------------------------
(* The list. *)

\* StrictMode loads it twice while developing.
MountList ==
  /\ loads' \in {1, 2} /\ loading' = TRUE /\ assets' = "none"
  /\ listToken' = token'

NoList == loads' = 0 /\ loading' = FALSE /\ assets' = "none" /\ listToken' = 0

\* Both routes show the same component, which is kept.
ListAt(p) ==
  IF p \notin Lists THEN NoList
  ELSE IF page \in Lists THEN UNCHANGED list
  ELSE MountList

\* A render that finds another token runs the effect again.
ReloadList ==
  /\ page \in Lists /\ listToken # token /\ loads <= Waiting
  /\ loads' = loads + 1 /\ loading' = TRUE
  /\ listToken' = token
  /\ UNCHANGED <<now, page, back, session, sent, redirects, assets, loaded>>

\* What GET /auctions is answered: a page, which may be empty, or an error; and
\* no answer at all is an error as well.
Answers == [fields : {{"items", "next_cursor", "has_more"}}, auctions : BOOLEAN]
             \cup [fields : {{"error"}}, auctions : {FALSE}]

\* auctions or assets, and the mock list in the place of an empty one.
GetAllAssets(answer) ==
  IF answer.auctions /\ answer.fields \cap {"auctions", "assets"} # {}
  THEN "server" ELSE "mock"

\* The first answer stops the spinner of every load.
LoadAssets ==
  /\ loads > 0
  /\ loads' = loads - 1 /\ loading' = FALSE
  /\ \E answer \in Answers : assets' = GetAllAssets(answer)
  /\ UNCHANGED <<now, page, back, session, sent, redirects, listToken, loaded>>

-----------------------------------------------------------------------------
(* Pages. *)

Init ==
  /\ now = 1 /\ loaded = 1
  /\ page \in Pages /\ back = "none"
  /\ token = 0 /\ stored = 0 /\ full \in BOOLEAN /\ told = 0
  /\ sent = {} /\ redirects = 0
  /\ IF page \in Lists
     THEN loads \in {1, 2} /\ loading = TRUE
     ELSE loads = 0 /\ loading = FALSE
  /\ assets = "none" /\ listToken = 0

\* A link to sign in is not on every page.
Links ==
  IF page = "/auth" THEN {"/assets"}
  ELSE {"/assets"} \cup (IF page = "/" THEN {} ELSE {"/auth"})
                   \cup (IF page \in Lists /\ ~loading THEN Lots ELSE {})

Show(p) ==
  /\ page' = p /\ back' = page
  /\ IF p = "/auth" THEN UNCHANGED <<token, stored>> ELSE GetAuthToken
  /\ ListAt(p)
  /\ UNCHANGED <<now, full, told, sent, loaded>>

Navigate(p) ==
  /\ p \in Links \cup {back} /\ p \notin {page, "none"}
  /\ Show(p)
  /\ UNCHANGED redirects

\* A second after a sign-in, wherever the user is by then.
Redirect ==
  /\ redirects > 0
  /\ redirects' = redirects - 1
  /\ IF page = FirstLot THEN UNCHANGED <<now, page, back, session, sent, list, loaded>>
     ELSE Show(FirstLot)

\* A reload, or a URL typed in; an unknown one is the list.
Reload(p) ==
  /\ page' = p /\ back' = "none"
  /\ IF stored = 0 THEN token' = 0 /\ UNCHANGED stored ELSE RestoreSession
  /\ sent' = {} /\ redirects' = 0
  /\ IF p \in Lists THEN MountList ELSE NoList
  /\ loaded' = now
  /\ UNCHANGED <<now, full, told>>

-----------------------------------------------------------------------------
(* Signing in: login and loginWithGoogle. *)

PostAuth(r) ==
  /\ page = "/auth" /\ r \notin sent /\ redirects <= Waiting
  /\ sent' = sent \cup {r}
  /\ UNCHANGED <<now, page, back, session, redirects, list, loaded>>

SignedIn(r) ==
  /\ r \in sent
  /\ sent' = sent \ {r}
  /\ PersistSession
  /\ IF Persisted
     THEN told' = Until /\ redirects' = redirects + 1
     ELSE UNCHANGED <<told, redirects>>
  /\ UNCHANGED <<now, page, back, full, list, loaded>>

\* NETWORK_ERROR, a status that is not ok, or a payload without token or user.
NotSignedIn(r) ==
  /\ r \in sent
  /\ sent' = sent \ {r}
  /\ UNCHANGED <<now, page, back, session, redirects, list, loaded>>

\* Another page of the origin fills the storage, or makes room.
StorageChanges ==
  /\ full' = ~full
  /\ UNCHANGED <<now, page, back, token, stored, told, sent, redirects, list, loaded>>

Tick ==
  /\ now < MaxTime
  /\ now' = now + 1
  /\ UNCHANGED <<page, back, session, sent, redirects, list, loaded>>

-----------------------------------------------------------------------------
Next ==
  \/ Tick \/ StorageChanges \/ Redirect \/ ReloadList \/ LoadAssets
  \/ \E p \in Pages : Navigate(p) \/ Reload(p)
  \/ \E r \in Requests : PostAuth(r) \/ SignedIn(r) \/ NotSignedIn(r)

Spec == Init /\ [][Next]_vars

-----------------------------------------------------------------------------
(* Properties. *)

Ends == {0} \cup (Life + 1)..(MaxTime + Life)

TypeOK ==
  /\ now \in 1..MaxTime /\ loaded \in 1..MaxTime
  /\ page \in Pages /\ back \in Pages \cup {"none"}
  /\ token \in Ends /\ stored \in Ends /\ told \in Ends /\ listToken \in Ends
  /\ full \in BOOLEAN /\ loading \in BOOLEAN
  /\ sent \subseteq Requests /\ redirects \in Nat /\ loads \in Nat
  /\ assets \in {"none", "mock", "server"}

\* A session the user was told of holds to its end, through links, reloads,
\* redirects and later sign-ins that fail; and no reload revives one that is over.
SessionHolds ==
  /\ told > now => token >= told /\ stored = told
  /\ token # 0 => loaded < token
=============================================================================
