---------------------------- MODULE BrowsingProofs ----------------------------
(***************************************************************************)
(* Theorems about Browsing: for every set of lots, number of sign-ins,     *)
(* length of a session and bound on the clock.                             *)
(***************************************************************************)
EXTENDS Browsing, TLAPS

\* What restoreSession leaves in memory and storage was stored.
LEMMA RestoreTypes ==
  ASSUME TypeOK, RestoreSession
  PROVE  token' \in Ends /\ stored' \in Ends
  BY DEF TypeOK, RestoreSession, Ends

\* The same of getAuthToken.
LEMMA GetTypes ==
  ASSUME TypeOK, GetAuthToken
  PROVE  token' \in Ends /\ stored' \in Ends
  BY RestoreTypes DEF TypeOK, GetAuthToken, Ends

\* The list's part of the type, whatever page is shown next.
ListTypeOK ==
  /\ loads \in Nat /\ loading \in BOOLEAN /\ listToken \in Ends
  /\ assets \in {"none", "mock", "server"}

LEMMA NoListTypes == NoList => ListTypeOK'
  <1> SUFFICES ASSUME NoList PROVE ListTypeOK'
    OBVIOUS
  <1>1. loading' \in BOOLEAN
    BY DEF NoList
  <1>2. loads' \in Nat /\ listToken' \in Ends /\ assets' \in {"none", "mock", "server"}
    BY DEF NoList, Ends
  <1> QED BY <1>1, <1>2 DEF ListTypeOK

LEMMA MountListTypes ==
  ASSUME MountList, token' \in Ends
  PROVE  ListTypeOK'
  <1>1. loading' \in BOOLEAN
    BY Zenon DEF MountList
  <1>2. loads' \in Nat /\ listToken' \in Ends /\ assets' \in {"none", "mock", "server"}
    BY DEF MountList
  <1> QED BY <1>1, <1>2 DEF ListTypeOK

LEMMA ListTypes ==
  ASSUME TypeOK, token' \in Ends, NEW p, ListAt(p)
  PROVE  ListTypeOK'
  <1>1. CASE p \notin Lists
    BY <1>1, NoListTypes DEF ListAt
  <1>2. CASE p \in Lists /\ page \in Lists
    BY <1>2 DEF ListAt, ListTypeOK, TypeOK, Ends, list
  <1>3. CASE p \in Lists /\ page \notin Lists
    BY <1>3, MountListTypes DEF ListAt
  <1> QED BY <1>1, <1>2, <1>3

\* Showing a page keeps the types.
LEMMA ShowTypes ==
  ASSUME TypeOK, NEW p \in Pages, Show(p), redirects' \in Nat
  PROVE  TypeOK'
  <1>1. token' \in Ends /\ stored' \in Ends
    <2>1. CASE p = "/auth"
      BY <2>1 DEF Show, TypeOK, Ends
    <2>2. CASE p # "/auth"
      BY <2>2, GetTypes DEF Show
    <2> QED BY <2>1, <2>2
  <1>2. ListTypeOK'
    BY <1>1, ListTypes DEF Show
  <1>3. page' \in Pages /\ back' \in Pages \cup {"none"}
    BY DEF Show, TypeOK
  <1>4. UNCHANGED <<now, full, told, sent, loaded>>
    BY DEF Show
  <1> QED BY <1>1, <1>2, <1>3, <1>4 DEF TypeOK, ListTypeOK, Ends

LEMMA InitTypes == Init => TypeOK
  <1> SUFFICES ASSUME Init PROVE TypeOK
    OBVIOUS
  <1>1. loads \in Nat /\ loading \in BOOLEAN
    <2>1. loads \in Nat
      BY DEF Init
    <2>2. loading \in BOOLEAN
      BY Zenon DEF Init
    <2> QED BY <2>1, <2>2
  <1>2. now \in 1..MaxTime /\ loaded \in 1..MaxTime
    BY BrowsingAssumption DEF Init
  <1>3. /\ token \in Ends /\ stored \in Ends /\ told \in Ends /\ listToken \in Ends
        /\ redirects \in Nat
    BY DEF Init, Ends
  <1>4. page \in Pages /\ back \in Pages \cup {"none"} /\ full \in BOOLEAN
    BY DEF Init
  <1>5. sent \subseteq Requests /\ assets \in {"none", "mock", "server"}
    BY DEF Init
  <1> QED BY <1>1, <1>2, <1>3, <1>4, <1>5 DEF TypeOK

\* Every step keeps the types.
LEMMA StepTypes == TypeOK /\ [Next]_vars => TypeOK'
  <1> SUFFICES ASSUME TypeOK, [Next]_vars PROVE TypeOK'
    OBVIOUS
  <1> USE BrowsingAssumption
  <1>1. CASE Tick
    BY <1>1 DEF Tick, TypeOK, session, list
  <1>2. CASE StorageChanges
    BY <1>2 DEF StorageChanges, TypeOK, session, list
  <1>3. CASE Redirect
    <2>1. redirects' \in Nat
      BY <1>3 DEF Redirect, TypeOK
    <2>2. CASE page = FirstLot
      BY <1>3, <2>1, <2>2 DEF Redirect, TypeOK, session, list
    <2>3. CASE page # FirstLot
      BY <1>3, <2>1, <2>3, ShowTypes DEF Redirect, Pages
    <2> QED BY <2>2, <2>3
  <1>4. CASE ReloadList
    BY <1>4 DEF ReloadList, TypeOK, session
  <1>5. CASE LoadAssets
    <2>1. loads' \in Nat
      BY <1>5 DEF LoadAssets, TypeOK
    <2>2. loading' \in BOOLEAN /\ assets' \in {"none", "mock", "server"}
      BY <1>5 DEF LoadAssets, GetAllAssets
    <2>3. UNCHANGED <<now, page, back, session, sent, redirects, listToken, loaded>>
      BY <1>5 DEF LoadAssets
    <2> QED BY <2>1, <2>2, <2>3 DEF TypeOK, session, Ends
  <1>6. ASSUME NEW p \in Pages, Navigate(p) PROVE TypeOK'
    BY <1>6, ShowTypes DEF Navigate, TypeOK
  <1>7. ASSUME NEW p \in Pages, Reload(p) PROVE TypeOK'
    <2>1. token' \in Ends /\ stored' \in Ends
      BY <1>7, RestoreTypes DEF Reload, TypeOK, Ends
    <2>2. ListTypeOK'
      BY <1>7, <2>1, NoListTypes, MountListTypes DEF Reload
    <2> QED BY <1>7, <2>1, <2>2 DEF Reload, TypeOK, ListTypeOK, Ends
  <1>8. ASSUME NEW r \in Requests, PostAuth(r) PROVE TypeOK'
    BY <1>8 DEF PostAuth, TypeOK, session, list
  <1>9. ASSUME NEW r \in Requests, SignedIn(r) PROVE TypeOK'
    <2>1. Until \in Ends
      BY DEF Until, Ends, TypeOK
    <2>2. token' \in Ends /\ stored' \in Ends /\ told' \in Ends /\ redirects' \in Nat
      BY <1>9, <2>1 DEF SignedIn, PersistSession, Persisted, TypeOK, Ends
    <2>3. UNCHANGED <<now, page, back, full, list, loaded>> /\ sent' \subseteq Requests
      BY <1>9 DEF SignedIn, TypeOK
    <2> QED BY <2>2, <2>3 DEF TypeOK, list, Ends
  <1>10. ASSUME NEW r \in Requests, NotSignedIn(r) PROVE TypeOK'
    BY <1>10 DEF NotSignedIn, TypeOK, session, list
  <1>11. CASE UNCHANGED vars
    BY <1>11 DEF vars, TypeOK, session, list
  <1> QED
    BY <1>1, <1>2, <1>3, <1>4, <1>5, <1>6, <1>7, <1>8, <1>9, <1>10, <1>11 DEF Next

\* The types of Browsing hold for every value of the constants.
THEOREM TypeCorrect == Spec => []TypeOK
  <1> QED BY InitTypes, StepTypes, PTL DEF Spec

-----------------------------------------------------------------------------
(* Sessions. *)

\* SessionHolds, and what makes it inductive: no session ends later than one
\* begun now, and the module was not evaluated in the future.
SessionInv ==
  /\ SessionHolds
  /\ told <= now + Life /\ loaded <= now

\* Reading the session changes nothing for a user who has one.
LEMMA RestoreHolds ==
  ASSUME TypeOK, SessionInv, RestoreSession, UNCHANGED <<now, told>>,
         loaded' \in {loaded, now}
  PROVE  /\ told' > now' => token' >= told' /\ stored' = told'
         /\ stored # 0 => (token' # 0 => loaded' < token')
         /\ stored = 0 => UNCHANGED token
  <1>1. now \in Nat /\ stored \in Nat /\ told \in Nat /\ token \in Nat /\ loaded \in Nat
    BY BrowsingAssumption DEF TypeOK, Ends
  <1> QED BY <1>1 DEF SessionInv, SessionHolds, RestoreSession, Expired

LEMMA GetHolds ==
  ASSUME TypeOK, SessionInv, GetAuthToken, UNCHANGED <<now, told, loaded>>
  PROVE  SessionInv'
  <1>1. CASE token = 0
    BY <1>1, RestoreHolds, BrowsingAssumption
       DEF TypeOK, SessionInv, SessionHolds, GetAuthToken
  <1>2. CASE token # 0
    BY <1>2 DEF TypeOK, SessionInv, SessionHolds, GetAuthToken
  <1> QED BY <1>1, <1>2

LEMMA ShowHolds ==
  ASSUME TypeOK, SessionInv, NEW p, Show(p)
  PROVE  SessionInv'
  <1>1. UNCHANGED <<now, told, loaded>>
    BY DEF Show
  <1>2. CASE p = "/auth"
    BY <1>1, <1>2 DEF Show, SessionInv, SessionHolds
  <1>3. CASE p # "/auth"
    BY <1>1, <1>3, GetHolds DEF Show
  <1> QED BY <1>2, <1>3

\* Every step keeps sessions.
LEMMA StepHolds == TypeOK /\ SessionInv /\ [Next]_vars => SessionInv'
  <1> SUFFICES ASSUME TypeOK, SessionInv, [Next]_vars PROVE SessionInv'
    OBVIOUS
  <1> USE BrowsingAssumption
  <1>0. ASSUME UNCHANGED <<now, session, loaded>> PROVE SessionInv'
    BY <1>0 DEF SessionInv, SessionHolds, session
  <1>1. CASE Tick
    <2>1. now \in Nat /\ stored \in Nat /\ told \in Nat /\ token \in Nat /\ loaded \in Nat
      BY DEF TypeOK, Ends
    <2> QED BY <1>1, <2>1 DEF Tick, SessionInv, SessionHolds, session
  <1>2. CASE StorageChanges
    BY <1>2 DEF StorageChanges, SessionInv, SessionHolds
  <1>3. CASE Redirect
    BY <1>0, <1>3, ShowHolds DEF Redirect
  <1>4. CASE ReloadList
    BY <1>0, <1>4 DEF ReloadList
  <1>5. CASE LoadAssets
    BY <1>0, <1>5 DEF LoadAssets
  <1>6. ASSUME NEW p \in Pages, Navigate(p) PROVE SessionInv'
    BY <1>6, ShowHolds DEF Navigate
  <1>7. ASSUME NEW p \in Pages, Reload(p) PROVE SessionInv'
    <2>1. loaded' = now /\ UNCHANGED <<now, told>>
      BY <1>7 DEF Reload
    <2>2. CASE stored = 0
      BY <1>7, <2>1, <2>2 DEF Reload, TypeOK, SessionInv, SessionHolds
    <2>3. CASE stored # 0
      BY <1>7, <2>1, <2>3, RestoreHolds DEF Reload, TypeOK, SessionInv, SessionHolds
    <2> QED BY <2>2, <2>3
  <1>8. ASSUME NEW r \in Requests, PostAuth(r) PROVE SessionInv'
    BY <1>0, <1>8 DEF PostAuth
  <1>9. ASSUME NEW r \in Requests, SignedIn(r) PROVE SessionInv'
    BY <1>9 DEF SignedIn, PersistSession, Persisted, Until, TypeOK, SessionInv,
                SessionHolds
  <1>10. ASSUME NEW r \in Requests, NotSignedIn(r) PROVE SessionInv'
    BY <1>0, <1>10 DEF NotSignedIn
  <1>11. CASE UNCHANGED vars
    BY <1>0, <1>11 DEF vars
  <1> QED
    BY <1>1, <1>2, <1>3, <1>4, <1>5, <1>6, <1>7, <1>8, <1>9, <1>10, <1>11 DEF Next

\* A session the user was told of holds to its end, and none that is over is
\* revived, for every length of a session and number of sign-ins (api.js).
THEOREM SessionsHold == Spec => []SessionHolds
  <1>1. Init => SessionInv
    BY BrowsingAssumption DEF Init, SessionInv, SessionHolds
  <1>2. SessionInv => SessionHolds
    BY DEF SessionInv
  <1> QED BY <1>1, <1>2, TypeCorrect, StepHolds, PTL DEF Spec
=============================================================================
