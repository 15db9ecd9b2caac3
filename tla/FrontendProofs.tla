----------------------------- MODULE FrontendProofs ----------------------------
(***************************************************************************)
(* Theorems about the browser: about Session, for any tabs, users, tokens  *)
(* and bounds; and about Dashboard, for any windows, filters, tests and    *)
(* bounds.  The two share no state.                                        *)
(***************************************************************************)
EXTENDS Session, Dashboard, TLAPS

\* What TypeOK says of everything but the tabs: the server, and what they share.
ServerOK ==
    /\ adminToken \in issued \cup {None}
    /\ account \in BOOLEAN /\ (issued # {} => account)
    /\ hashing \in Nat
    /\ issued \subseteq Admins /\ expired \subseteq Users \cup Admins
    /\ actions \in 0..MaxActions /\ faults \in 0..MaxFaults
SharedOK == storage \in Saved /\ opened \subseteq Tabs /\ wandered \subseteq Tabs /\ ServerOK

\* A tab shows p, holds s, is loading (i), waits for v, went to the callbacks r, asks a.
Tab(p, s, i, v, r, a) ==
    /\ p \in Routes /\ s \in Saved /\ i \in BOOLEAN /\ v \in Users \cup {None}
    /\ r \in SUBSET Users /\ a \in Asking
    /\ a.left > 0 => p = "adminDashboard"
    /\ a.submitting => p = "adminLogin"
    /\ i => v # None

\* What a tab that did not wander while it waited shows.
Shown(s, i, v) ==
    /\ i = (v # None)
    /\ i => s.token = v
    /\ ~i /\ s.isAuthenticated => Whole(s)

TabsOK ==
    /\ page = [t \in Tabs |-> page[t]] /\ store = [t \in Tabs |-> store[t]]
    /\ isLoading = [t \in Tabs |-> isLoading[t]]
    /\ verifying = [t \in Tabs |-> verifying[t]] /\ returned = [t \in Tabs |-> returned[t]]
    /\ asking = [t \in Tabs |-> asking[t]]
    /\ \A t \in Tabs :
         /\ Tab(page[t], store[t], isLoading[t], verifying[t], returned[t], asking[t])
         /\ t \notin wandered => Shown(store[t], isLoading[t], verifying[t])

\* SessionsAreWhole, tab by tab.
LEMMA WholeTabs == SessionsAreWhole <=> SharedOK /\ TabsOK
<1>1. ASSUME SessionsAreWhole PROVE SharedOK /\ TabsOK
  <2>1. TypeOK BY <1>1 DEF SessionsAreWhole
  <2>2. SharedOK BY <2>1 DEF TypeOK, SharedOK, ServerOK
  <2>3. ASSUME NEW t \in Tabs
        PROVE  /\ Tab(page[t], store[t], isLoading[t], verifying[t], returned[t], asking[t])
               /\ t \notin wandered => Shown(store[t], isLoading[t], verifying[t])
    <3>1. Tab(page[t], store[t], isLoading[t], verifying[t], returned[t], asking[t])
      BY <2>1 DEF TypeOK, Tab
    <3>2. t \notin wandered => Shown(store[t], isLoading[t], verifying[t])
      BY <1>1 DEF SessionsAreWhole, Shown
    <3>. QED BY <3>1, <3>2
  <2>. QED BY <2>1, <2>2, <2>3 DEF TypeOK, TabsOK
<1>2. ASSUME SharedOK, TabsOK PROVE SessionsAreWhole
  <2>1. /\ page \in [Tabs -> Routes] /\ store \in [Tabs -> Saved]
        /\ isLoading \in [Tabs -> BOOLEAN] /\ verifying \in [Tabs -> Users \cup {None}]
        /\ returned \in [Tabs -> SUBSET Users] /\ asking \in [Tabs -> Asking]
    BY <1>2 DEF Tab, TabsOK
  <2>2. TypeOK BY <1>2, <2>1 DEF Tab, TabsOK, TypeOK, SharedOK, ServerOK
  <2>. QED BY <1>2, <2>2 DEF TabsOK, Shown, SessionsAreWhole
<1>. QED BY <1>1, <1>2

\* A step of one tab, with what is shared.
LEMMA TabStep ==
    ASSUME SessionsAreWhole, SharedOK', NEW t \in Tabs,
           NEW p, NEW s, NEW i, NEW v, NEW r, NEW a, Tab(p, s, i, v, r, a),
           t \notin wandered' => Shown(s, i, v), wandered' \ {t} = wandered \ {t},
           page' = [page EXCEPT ![t] = p], store' = [store EXCEPT ![t] = s],
           isLoading' = [isLoading EXCEPT ![t] = i],
           verifying' = [verifying EXCEPT ![t] = v],
           returned' = [returned EXCEPT ![t] = r], asking' = [asking EXCEPT ![t] = a]
    PROVE  SessionsAreWhole'
<1>1. TabsOK BY WholeTabs
<1>2. ASSUME NEW u \in Tabs
      PROVE  /\ Tab(page'[u], store'[u], isLoading'[u], verifying'[u], returned'[u], asking'[u])
             /\ u \notin wandered' => Shown(store'[u], isLoading'[u], verifying'[u])
  <2>1. CASE u = t
    <3>1. /\ page'[u] = p /\ store'[u] = s /\ isLoading'[u] = i
          /\ verifying'[u] = v /\ returned'[u] = r /\ asking'[u] = a
      BY <1>1, <2>1 DEF TabsOK
    <3>. QED BY <2>1, <3>1
  <2>2. CASE u # t
    <3>1. /\ page'[u] = page[u] /\ store'[u] = store[u] /\ isLoading'[u] = isLoading[u]
          /\ verifying'[u] = verifying[u] /\ returned'[u] = returned[u]
          /\ asking'[u] = asking[u]
      BY <1>1, <2>2 DEF TabsOK
    <3>2. u \in wandered' <=> u \in wandered BY <2>2
    <3>. QED BY <1>1, <3>1, <3>2 DEF TabsOK
  <2>. QED BY <2>1, <2>2
<1>3. TabsOK'
  <2>1. /\ page' = [u \in Tabs |-> page'[u]] /\ store' = [u \in Tabs |-> store'[u]]
        /\ isLoading' = [u \in Tabs |-> isLoading'[u]]
        /\ verifying' = [u \in Tabs |-> verifying'[u]]
        /\ returned' = [u \in Tabs |-> returned'[u]] /\ asking' = [u \in Tabs |-> asking'[u]]
    BY <1>1 DEF TabsOK
  <2>. QED BY <1>2, <2>1 DEF TabsOK
<1>4. (SessionsAreWhole <=> SharedOK /\ TabsOK)' BY WholeTabs, PTL
<1>. QED BY <1>3, <1>4

\* A step that no tab takes part in.
LEMMA ServerStep ==
    ASSUME SessionsAreWhole, ServerOK', UNCHANGED browser
    PROVE  SessionsAreWhole'
<1>1. SharedOK /\ TabsOK BY WholeTabs
<1>2. SharedOK' /\ TabsOK' BY <1>1 DEF SharedOK, TabsOK, browser, user
<1>3. (SessionsAreWhole <=> SharedOK /\ TabsOK)' BY WholeTabs, PTL
<1>. QED BY <1>2, <1>3

LEMMA NothingFacts ==
    /\ Nothing \in Asking /\ Nothing.left = 0 /\ ~(Nothing.left > 0) /\ Nothing.late = 0
    /\ ~Nothing.submitting /\ Nothing.stale = {}
BY DEF Nothing, Asking

\* What becomes of the requests of a page that goes, and what the dashboard starts.
LEMMA UnawaitedFacts ==
    ASSUME NEW a \in Asking
    PROVE  /\ Unawaited(a) \in Asking /\ Unawaited(a).left = 0 /\ ~Unawaited(a).submitting
           /\ ~a.submitting => Unawaited(a).late = a.late
           /\ a.left = 0 => Unawaited(a).stale = a.stale
<1>1. /\ a.submitting \in BOOLEAN /\ a.late \in Nat /\ a.left \in 0..3
      /\ a.token \in Admins \cup {None} /\ a.stale \in SUBSET (Admins \cup {None})
  BY DEF Asking
<1> DEFINE late == IF a.submitting THEN a.late + 1 ELSE a.late
           stale == IF a.left > 0 THEN a.stale \cup {a.token} ELSE a.stale
<1>2. late \in Nat /\ stale \in SUBSET (Admins \cup {None}) BY <1>1
<1>3. (~a.submitting => late = a.late) /\ (a.left = 0 => stale = a.stale) OBVIOUS
<1>4. Unawaited(a) = [submitting |-> FALSE, late |-> late, left |-> 0, token |-> None,
                      stale |-> stale]
  BY DEF Unawaited
<1> HIDE DEF late, stale
<1>. QED BY <1>2, <1>3, <1>4 DEF Asking

LEMMA FetchFacts ==
    ASSUME NEW a \in Asking, NEW token \in Admins \cup {None}
    PROVE  LET f == fetchDashboardData(a, token)
           IN  /\ f \in Asking /\ f.left = 3 /\ f.token = token /\ ~f.submitting
               /\ f.late = Unawaited(a).late /\ f.stale = Unawaited(a).stale
<1> DEFINE u == Unawaited(a)
<1>1. u \in Asking /\ ~u.submitting BY UnawaitedFacts
<1> HIDE DEF u
<1>2. fetchDashboardData(a, token) = [u EXCEPT !.left = 3, !.token = token]
  BY DEF fetchDashboardData, u
<1> DEFINE f == [u EXCEPT !.left = 3, !.token = token]
           g == [u EXCEPT !.left = 3]
<1>. f = [g EXCEPT !.token = token] OBVIOUS
<1>3. f = [submitting |-> u.submitting, late |-> u.late, left |-> 3, token |-> token,
           stale |-> u.stale]
  <2>1. g = [submitting |-> u.submitting, late |-> u.late, left |-> 3, token |-> u.token,
             stale |-> u.stale]
    BY <1>1 DEF Asking
  <2> HIDE DEF g
  <2>. QED BY <2>1
<1>4. u.submitting \in BOOLEAN /\ u.late \in Nat /\ u.stale \in SUBSET (Admins \cup {None})
  BY <1>1 DEF Asking
<1> HIDE DEF f
<1>5. f \in Asking BY <1>3, <1>4 DEF Asking
<1>6. /\ f.left = 3 /\ f.token = token /\ ~f.submitting
      /\ f.late = u.late /\ f.stale = u.stale
  BY <1>1, <1>3
<1>. QED BY <1>2, <1>5, <1>6 DEF f, u

LEMMA NobodyFacts == Nobody \in Saved /\ Nobody.token = None /\ ~Nobody.isAuthenticated
BY DEF Nobody, Saved

\* A page load, whatever session, whole or half, it finds.
LEMMA LoadStep ==
    ASSUME SessionsAreWhole, ServerOK', NEW t \in Tabs, NEW route \in Routes,
           NEW saved \in Saved, Loaded(t, route, saved),
           NEW a \in Asking, a.left > 0 => route = "adminDashboard", ~a.submitting,
           asking' = [asking EXCEPT ![t] = a],
           NEW r \in SUBSET Users, returned' = [returned EXCEPT ![t] = r]
    PROVE  SessionsAreWhole'
<1>1. SharedOK /\ TabsOK BY WholeTabs
<1> DEFINE s == [saved EXCEPT !.isAuthenticated = @ /\ saved.token # None]
           i == saved.token # None
<1>2. s \in Saved /\ s.token = saved.token /\ (s.isAuthenticated => saved.token # None)
  BY DEF Saved
<1>3. /\ store' = [store EXCEPT ![t] = s] /\ store'[t] = s /\ storage' = s
      /\ verifying' = [verifying EXCEPT ![t] = saved.token]
      /\ isLoading' = [isLoading EXCEPT ![t] = i]
      /\ page' = [page EXCEPT ![t] = Routed(route, s)] /\ opened' = opened \cup {t}
      /\ wandered' = wandered \ {t}
  <2>1. store' = [store EXCEPT ![t] = s] BY DEF Loaded
  <2> HIDE DEF s
  <2>2. store'[t] = s BY <1>1, <2>1 DEF TabsOK
  <2>. QED BY <2>1, <2>2 DEF Loaded
<1> HIDE DEF s
<1>4. Routed(route, s) \in Routes /\ (route = "adminDashboard" => Routed(route, s) = route)
  BY DEF Routed, Routes, UserRoutes
<1>5. Tab(Routed(route, s), s, i, saved.token, r, a)
  BY <1>2, <1>4 DEF Tab, Saved
<1>6. Shown(s, i, saved.token) BY <1>2 DEF Shown
<1>7. SharedOK' BY <1>1, <1>2, <1>3 DEF SharedOK
<1> HIDE DEF i
<1>. QED BY <1>3, <1>5, <1>6, <1>7, TabStep

\* set() of a tab's store.
LEMMA SetStep ==
    ASSUME SessionsAreWhole, ServerOK', NEW t \in Tabs, NEW saved \in Saved,
           NEW route \in Routes, Set(t, route, saved),
           (asking[t].left = 0 /\ ~asking[t].submitting) \/ route = page[t],
           NEW i \in BOOLEAN, isLoading' = [isLoading EXCEPT ![t] = i],
           NEW v \in Users \cup {None}, verifying' = [verifying EXCEPT ![t] = v],
           i => v # None, t \notin wandered' => Shown(saved, i, v),
           wandered' \subseteq Tabs, wandered' \ {t} = wandered \ {t},
           UNCHANGED <<returned, asking, opened>>
    PROVE  SessionsAreWhole'
<1>1. SharedOK /\ TabsOK BY WholeTabs
<1>2. /\ store' = [store EXCEPT ![t] = saved] /\ storage' = saved
      /\ page' = [page EXCEPT ![t] = Routed(route, saved)]
      /\ asking' = [asking EXCEPT ![t] = asking[t]]
      /\ returned' = [returned EXCEPT ![t] = returned[t]]
  BY <1>1 DEF Set, TabsOK
<1>3. Tab(page[t], store[t], isLoading[t], verifying[t], returned[t], asking[t])
  BY <1>1 DEF TabsOK
<1>4. asking[t].left \in 0..3 BY <1>3 DEF Tab, Asking
<1>5. Tab(Routed(route, saved), saved, i, v, returned[t], asking[t])
  <2>1. Routed(route, saved) \in Routes BY DEF Routed, Routes, UserRoutes
  <2>2. route \in {"adminLogin", "adminDashboard"} => Routed(route, saved) = route
    BY DEF Routed
  <2>. QED BY <1>3, <1>4, <2>1, <2>2 DEF Tab
<1>6. SharedOK' BY <1>1, <1>2 DEF SharedOK
<1>. QED BY <1>2, <1>5, <1>6, TabStep

\* A step of the administrator's part of a tab, or a move within its page: its route and
\* its requests.
LEMMA AskStep ==
    ASSUME SessionsAreWhole, ServerOK', NEW t \in Tabs, NEW p \in Routes, NEW a \in Asking,
           a.left > 0 => p = "adminDashboard", a.submitting => p = "adminLogin",
           page' = [page EXCEPT ![t] = p], asking' = [asking EXCEPT ![t] = a],
           wandered' \in {wandered, wandered \cup {t}}, UNCHANGED <<user, opened>>
    PROVE  SessionsAreWhole'
<1>1. SharedOK /\ TabsOK BY WholeTabs
<1>2. /\ store' = [store EXCEPT ![t] = store[t]]
      /\ isLoading' = [isLoading EXCEPT ![t] = isLoading[t]]
      /\ verifying' = [verifying EXCEPT ![t] = verifying[t]]
      /\ returned' = [returned EXCEPT ![t] = returned[t]]
  BY <1>1 DEF TabsOK, user
<1>3. Tab(p, store[t], isLoading[t], verifying[t], returned[t], a)
      /\ (t \notin wandered => Shown(store[t], isLoading[t], verifying[t]))
  BY <1>1 DEF Tab, TabsOK
<1>4. SharedOK' BY <1>1 DEF SharedOK, user
<1>5. t \notin wandered' => t \notin wandered OBVIOUS
<1>6. wandered' \ {t} = wandered \ {t} OBVIOUS
<1>. QED BY <1>2, <1>3, <1>4, <1>5, <1>6, TabStep

LEMMA InitWhole == Init => SessionsAreWhole
<1> SUFFICES ASSUME Init PROVE SessionsAreWhole OBVIOUS
<1>1. ServerOK
  <2>1. actions \in 0..MaxActions /\ faults \in 0..MaxFaults
    BY SessionAssumption DEF Init
  <2>2. issued = {} /\ expired = {} /\ hashing \in Nat /\ adminToken = None
    BY DEF Init
  <2>3. account \in BOOLEAN BY DEF Init
  <2>. QED BY <2>1, <2>2, <2>3 DEF ServerOK
<1>2. SharedOK BY <1>1, NobodyFacts DEF Init, SharedOK
<1>3. ASSUME NEW t \in Tabs
      PROVE  /\ Tab(page[t], store[t], isLoading[t], verifying[t], returned[t], asking[t])
             /\ t \notin wandered => Shown(store[t], isLoading[t], verifying[t])
  BY NobodyFacts, NothingFacts DEF Init, Tab, Shown, Routes
<1>4. TabsOK BY <1>3 DEF Init, TabsOK
<1>. QED BY <1>2, <1>4, WholeTabs

LEMMA BoundedFacts == ServerOK /\ Action => actions' \in 0..MaxActions
BY SessionAssumption DEF ServerOK, Action
LEMMA FaultFacts == ServerOK /\ Fault => faults' \in 0..MaxFaults
BY SessionAssumption DEF ServerOK, Fault

\* The steps of a tab: of a user (page loads, callbacks, verification, logout) and of the
\* administrator (logins, requests, logout), with the moves within the page.
UserStep(t) ==
    \/ \E route \in {"login", "dashboard", "adminLogin", "adminDashboard"} : Open(t, route)
    \/ \E u \in Users \cup {None} : AuthCallback(t, u) \/ ReturnToCallback(t, u)
    \/ googleLogin(t) \/ logout(t) \/ Answer(t)
AdminStep(t) ==
    \/ \E route \in {"login", "dashboard", "adminLogin", "adminDashboard"} : Traverse(t, route)
    \/ SubmitLogin(t) \/ handleLogout(t) \/ Refresh(t) \/ AdminAnswer(t)

LEMMA UserKeepsWhole ==
    ASSUME SessionsAreWhole, NEW t \in Tabs, UserStep(t)
    PROVE  SessionsAreWhole'
<1>1. SharedOK /\ TabsOK BY WholeTabs
<1>2. ServerOK /\ wandered \subseteq Tabs BY <1>1 DEF SharedOK
<1>3. /\ Tab(page[t], store[t], isLoading[t], verifying[t], returned[t], asking[t])
      /\ t \notin wandered => Shown(store[t], isLoading[t], verifying[t])
  BY <1>1 DEF TabsOK
<1>4. /\ page[t] \in Routes /\ store[t] \in Saved /\ verifying[t] \in Users \cup {None}
      /\ returned[t] \in SUBSET Users /\ asking[t].left \in 0..3 /\ storage \in Saved
      /\ asking[t].left > 0 => page[t] = "adminDashboard"
      /\ asking[t].submitting => page[t] = "adminLogin"
  BY <1>1, <1>3 DEF Tab, Asking, SharedOK
<1>5. ASSUME NEW route \in {"login", "dashboard", "adminLogin", "adminDashboard"},
             Open(t, route)
      PROVE  SessionsAreWhole'
  <2> DEFINE a == IF route = "adminDashboard" THEN fetchDashboardData(Nothing, adminToken)
                  ELSE Nothing
  <2>1. ServerOK' BY <1>2, <1>5, BoundedFacts DEF Open, ServerOK, server
  <2>2. adminToken \in Admins \cup {None} BY <1>2 DEF ServerOK
  <2>3. a \in Asking /\ ~a.submitting /\ (a.left > 0 => route = "adminDashboard")
    BY <2>2, NothingFacts, FetchFacts
  <2>4. returned' = [returned EXCEPT ![t] = returned[t]] BY <1>1, <1>5 DEF Open, TabsOK
  <2>5. Loaded(t, route, storage) /\ asking' = [asking EXCEPT ![t] = a] /\ route \in Routes
    BY <1>5 DEF Open, Routes, UserRoutes
  <2> HIDE DEF a
  <2>. QED BY <1>4, <2>1, <2>3, <2>4, <2>5, LoadStep
<1>6. ASSUME googleLogin(t) PROVE SessionsAreWhole'
  <2>1. SharedOK' BY <1>1, <1>6, BoundedFacts DEF googleLogin, SharedOK, ServerOK, server
  <2>2. /\ page' = [page EXCEPT ![t] = "google"] /\ store' = [store EXCEPT ![t] = Nobody]
        /\ verifying' = [verifying EXCEPT ![t] = None]
        /\ isLoading' = [isLoading EXCEPT ![t] = FALSE]
        /\ returned' = [returned EXCEPT ![t] = returned[t]]
        /\ asking' = [asking EXCEPT ![t] = asking[t]] /\ wandered' = wandered
    BY <1>1, <1>6 DEF googleLogin, TabsOK
  <2>3. Tab("google", Nobody, FALSE, None, returned[t], asking[t])
    BY <1>3, <1>6, NobodyFacts DEF googleLogin, Tab, Routes, UserRoutes
  <2>4. Shown(Nobody, FALSE, None) BY NobodyFacts DEF Shown
  <2>. QED BY <2>1, <2>2, <2>3, <2>4, TabStep
<1>7. ASSUME NEW u \in Users, SignedIn(u) \notin Saved \/ ~Whole(SignedIn(u)) PROVE FALSE
  BY <1>7, SessionAssumption DEF SignedIn, Saved, Whole
<1>8. ASSUME NEW u \in Users \cup {None}, AuthCallback(t, u) PROVE SessionsAreWhole'
  <2> DEFINE r == returned[t] \cup ({u} \ {None})
  <2>1. ServerOK'
    <3>1. actions' \in 0..MaxActions BY <1>2, <1>8, BoundedFacts DEF AuthCallback, ServerOK
    <3>. QED BY <1>2, <1>8, <3>1 DEF AuthCallback, ServerOK, server
  <2>2. asking' = [asking EXCEPT ![t] = Nothing] BY <1>8 DEF AuthCallback
  <2>3. returned' = [returned EXCEPT ![t] = r] /\ r \in SUBSET Users
    BY <1>4, <1>8 DEF AuthCallback
  <2>4. "login" \in Routes /\ "dashboard" \in Routes BY DEF Routes, UserRoutes
  <2> HIDE DEF r
  <2>5. CASE u = None
    <3>1. Loaded(t, "login", storage) BY <1>8, <2>5 DEF AuthCallback
    <3>. QED BY <1>4, <2>1, <2>2, <2>3, <2>4, <3>1, NothingFacts, LoadStep
  <2>6. CASE u # None
    <3>1. Loaded(t, "dashboard", SignedIn(u)) BY <1>8, <2>6 DEF AuthCallback
    <3>2. SignedIn(u) \in Saved BY <1>7, <2>6
    <3>. QED BY <2>1, <2>2, <2>3, <2>4, <3>1, <3>2, NothingFacts, LoadStep
  <2>. QED BY <2>5, <2>6
<1>9. ASSUME NEW u \in Users \cup {None}, ReturnToCallback(t, u) PROVE SessionsAreWhole'
  <2>1. ServerOK' BY <1>2, <1>9, BoundedFacts DEF ReturnToCallback, ServerOK, server
  <2>2. /\ u \in Users /\ Set(t, "dashboard", SignedIn(u)) /\ page[t] \in {"login", "dashboard"}
        /\ isLoading' = [isLoading EXCEPT ![t] = FALSE]
        /\ verifying' = [verifying EXCEPT ![t] = verifying[t]]
        /\ UNCHANGED <<returned, asking, opened>>
    BY <1>1, <1>4, <1>9 DEF ReturnToCallback, TabsOK
  <2>3. SignedIn(u) \in Saved /\ Whole(SignedIn(u)) BY <1>7, <2>2
  <2>4. "dashboard" \in Routes BY DEF Routes, UserRoutes
  <2>5. asking[t].left = 0 /\ ~asking[t].submitting BY <1>4, <2>2
  <2>6. wandered' = IF verifying[t] # None THEN wandered \cup {t} ELSE wandered
    BY <1>9 DEF ReturnToCallback
  <2>7. t \notin wandered' => Shown(SignedIn(u), FALSE, verifying[t])
    BY <2>3, <2>6 DEF Shown
  <2>8. wandered' \subseteq Tabs /\ wandered' \ {t} = wandered \ {t} BY <1>2, <2>6
  <2>. QED BY <1>4, <2>1, <2>2, <2>3, <2>4, <2>5, <2>7, <2>8, SetStep
<1>10. ASSUME logout(t) PROVE SessionsAreWhole'
  <2>1. ServerOK' BY <1>2, <1>10, BoundedFacts DEF logout, ServerOK, server
  <2>2. /\ isLoading' = [isLoading EXCEPT ![t] = FALSE] /\ ~isLoading[t]
        /\ verifying' = [verifying EXCEPT ![t] = verifying[t]] /\ Set(t, page[t], Nobody)
        /\ UNCHANGED <<returned, asking, opened>> /\ wandered' = wandered
    BY <1>1, <1>10 DEF logout, HeaderShown, TabsOK
  <2>3. t \notin wandered => Shown(Nobody, FALSE, verifying[t])
    BY <1>3, <2>2, NobodyFacts DEF Shown
  <2>. QED BY <1>2, <1>4, <2>1, <2>2, <2>3, NobodyFacts, SetStep
<1>11. ASSUME VerifySucceeds(t) PROVE SessionsAreWhole'
  <2> DEFINE saved == [store[t] EXCEPT !.user = verifying[t], !.isAuthenticated = TRUE]
  <2>1. ServerOK' BY <1>2, <1>11 DEF VerifySucceeds, ServerOK, server
  <2>2. verifying[t] # None BY <1>11 DEF VerifySucceeds
  <2>3. saved \in Saved /\ saved.user = verifying[t] /\ saved.token = store[t].token
    BY <1>4 DEF Saved
  <2>4. /\ verifying' = [verifying EXCEPT ![t] = None] /\ Set(t, page[t], saved)
        /\ isLoading' = [isLoading EXCEPT ![t] = FALSE]
        /\ UNCHANGED <<returned, asking, opened>> /\ wandered' = wandered
    BY <1>11 DEF VerifySucceeds
  <2> HIDE DEF saved
  <2>5. t \notin wandered => Shown(saved, FALSE, None)
    BY <1>3, <2>2, <2>3 DEF Shown, Whole
  <2>. QED BY <1>2, <1>4, <2>1, <2>3, <2>4, <2>5, SetStep
<1>12. ASSUME VerifyFails(t) PROVE SessionsAreWhole'
  <2>1. ServerOK' BY <1>2, <1>12, FaultFacts DEF VerifyFails, ServerOK, server
  <2>2. /\ verifying' = [verifying EXCEPT ![t] = None] /\ Set(t, page[t], Nobody)
        /\ isLoading' = [isLoading EXCEPT ![t] = FALSE]
        /\ UNCHANGED <<returned, asking, opened>> /\ wandered' = wandered
    BY <1>12 DEF VerifyFails, Rejected
  <2>3. Shown(Nobody, FALSE, None) BY NobodyFacts DEF Shown
  <2>. QED BY <1>2, <1>4, <2>1, <2>2, <2>3, NobodyFacts, SetStep
<1>. QED BY <1>5, <1>6, <1>8, <1>9, <1>10, <1>11, <1>12 DEF UserStep, Answer

LEMMA AdminKeepsWhole ==
    ASSUME SessionsAreWhole, NEW t \in Tabs, AdminStep(t)
    PROVE  SessionsAreWhole'
<1>1. SharedOK /\ TabsOK BY WholeTabs
<1>2. ServerOK BY <1>1 DEF SharedOK
<1>3. /\ Tab(page[t], store[t], isLoading[t], verifying[t], returned[t], asking[t])
      /\ page = [u \in Tabs |-> page[u]] /\ asking = [u \in Tabs |-> asking[u]]
      /\ returned = [u \in Tabs |-> returned[u]]
  BY <1>1 DEF TabsOK
<1>4. /\ page[t] \in Routes /\ asking[t] \in Asking
      /\ asking[t].left > 0 => page[t] = "adminDashboard"
      /\ asking[t].submitting => page[t] = "adminLogin"
  BY <1>3 DEF Tab
<1>5. /\ asking[t].submitting \in BOOLEAN /\ asking[t].late \in Nat
      /\ asking[t].left \in 0..3 /\ asking[t].token \in Admins \cup {None}
      /\ asking[t].stale \in SUBSET (Admins \cup {None})
  BY <1>4 DEF Asking
<1>6. "adminDashboard" \in Routes /\ "adminLogin" \in Routes BY DEF Routes
<1>7. page' = page => page' = [page EXCEPT ![t] = page[t]] BY <1>3
<1>8. ASSUME NEW a \in Asking, asking' = [asking EXCEPT ![t] = a], ServerOK',
             a.left > 0 => asking[t].left > 0 \/ page[t] = "adminDashboard",
             a.submitting => asking[t].submitting \/ page[t] = "adminLogin",
             UNCHANGED <<page, user, opened, wandered>>
      PROVE  SessionsAreWhole'
  BY <1>4, <1>7, <1>8, AskStep
<1>9. ASSUME NEW own \in BOOLEAN, LoginInFlight(t, own)
      PROVE  /\ LoginAnswered(t, own) \in Asking
             /\ LoginAnswered(t, own).left = asking[t].left
             /\ LoginAnswered(t, own).submitting => asking[t].submitting
  <2>1. CASE own BY <1>4, <1>5, <2>1 DEF LoginAnswered, Asking
  <2>2. CASE ~own
    <3>1. asking[t].late - 1 \in Nat BY <1>5, <1>9, <2>2 DEF LoginInFlight
    <3>. QED BY <1>4, <1>5, <2>2, <3>1 DEF LoginAnswered, Asking
  <2>. QED BY <2>1, <2>2
<1>10. ASSUME NEW route \in {"login", "dashboard", "adminLogin", "adminDashboard"},
              Traverse(t, route)
       PROVE  SessionsAreWhole'
  <2> DEFINE a == IF route = "adminDashboard" THEN fetchDashboardData(asking[t], adminToken)
                  ELSE Unawaited(asking[t])
             p == Routed(route, store[t])
  <2>1. ServerOK' BY <1>2, <1>10, BoundedFacts DEF Traverse, ServerOK, server
  <2>2. adminToken \in Admins \cup {None} BY <1>2 DEF ServerOK
  <2>3. a \in Asking /\ ~a.submitting /\ (a.left > 0 => route = "adminDashboard")
    BY <1>4, <2>2, FetchFacts, UnawaitedFacts
  <2>4. p \in Routes /\ (route = "adminDashboard" => p = route)
    BY DEF Routed, Routes, UserRoutes
  <2>5. /\ asking' = [asking EXCEPT ![t] = a] /\ page' = [page EXCEPT ![t] = p]
        /\ wandered' \in {wandered, wandered \cup {t}} /\ UNCHANGED <<user, opened>>
    BY <1>3, <1>10 DEF Traverse
  <2> HIDE DEF a, p
  <2>. QED BY <2>1, <2>3, <2>4, <2>5, AskStep
<1>11. ASSUME SubmitLogin(t) PROVE SessionsAreWhole'
  <2> DEFINE a == [asking[t] EXCEPT !.submitting = TRUE]
  <2>1. ServerOK' BY <1>2, <1>11, BoundedFacts DEF SubmitLogin, ServerOK, server
  <2>2. a \in Asking /\ a.left = asking[t].left BY <1>4, <1>5 DEF Asking
  <2>3. /\ asking' = [asking EXCEPT ![t] = a] /\ page[t] = "adminLogin"
        /\ UNCHANGED <<page, user, opened, wandered>>
    BY <1>3, <1>11 DEF SubmitLogin
  <2> HIDE DEF a
  <2>. QED BY <1>8, <2>1, <2>2, <2>3
<1>12. ASSUME NEW own \in BOOLEAN, LoginFails(t, own) PROVE SessionsAreWhole'
  <2>1. ServerOK' BY <1>2, <1>12, FaultFacts DEF LoginFails, ServerOK, server
  <2>2. LoginInFlight(t, own) /\ asking' = [asking EXCEPT ![t] = LoginAnswered(t, own)]
        /\ UNCHANGED <<page, user, opened, wandered>>
    BY <1>12 DEF LoginFails
  <2>. QED BY <1>8, <1>9, <2>1, <2>2
<1>13. ASSUME handleLogout(t) PROVE SessionsAreWhole'
  <2>1. ServerOK' BY <1>2, <1>13, BoundedFacts DEF handleLogout, ServerOK, server
  <2>2. /\ asking' = [asking EXCEPT ![t] = Unawaited(asking[t])]
        /\ page' = [page EXCEPT ![t] = "adminLogin"] /\ UNCHANGED <<user, opened, wandered>>
    BY <1>3, <1>13 DEF handleLogout
  <2> DEFINE a == Unawaited(asking[t])
  <2>3. a \in Asking /\ ~(a.left > 0) /\ ~a.submitting BY <1>4, UnawaitedFacts
  <2>4. asking' = [asking EXCEPT ![t] = a] BY <2>2
  <2> HIDE DEF a
  <2>. QED BY <1>6, <2>1, <2>2, <2>3, <2>4, AskStep
<1>14. ASSUME Refresh(t) PROVE SessionsAreWhole'
  <2> DEFINE a == fetchDashboardData(asking[t], adminToken)
  <2>1. ServerOK' BY <1>2, <1>14, BoundedFacts DEF Refresh, ServerOK, server
  <2>2. a \in Asking /\ ~a.submitting BY <1>2, <1>4, FetchFacts DEF ServerOK
  <2>3. /\ asking' = [asking EXCEPT ![t] = a] /\ page[t] = "adminDashboard"
        /\ UNCHANGED <<page, user, opened, wandered>>
    BY <1>3, <1>14 DEF Refresh, AdminShown
  <2> HIDE DEF a
  <2>. QED BY <1>8, <2>1, <2>2, <2>3
<1>15. ASSUME NEW own \in BOOLEAN, LoginSucceeds(t, own) PROVE SessionsAreWhole'
  <2> DEFINE b == LoginAnswered(t, own)
             a(token) == IF page[t] = "adminDashboard" THEN b ELSE fetchDashboardData(b, token)
  <2>1. PICK token \in Admins \ issued :
          /\ issued' = issued \cup {token} /\ adminToken' = token
          /\ asking' = [asking EXCEPT ![t] = a(token)]
    BY <1>15 DEF LoginSucceeds
  <2>2. /\ LoginInFlight(t, own) /\ account
        /\ UNCHANGED <<user, opened, wandered, account, hashing, expired, actions, faults>>
        /\ page' = [page EXCEPT ![t] = "adminDashboard"]
    BY <1>15 DEF LoginSucceeds
  <2>3. ServerOK' BY <1>2, <2>1, <2>2 DEF ServerOK
  <2>4. b \in Asking /\ (b.submitting => asking[t].submitting) BY <1>9, <2>2
  <2> HIDE DEF b
  <2>5. a(token) \in Asking /\ ~a(token).submitting
    <3>1. CASE page[t] = "adminDashboard" BY <1>4, <2>4, <3>1
    <3>2. CASE page[t] # "adminDashboard" BY <2>4, <3>2, FetchFacts
    <3>. QED BY <3>1, <3>2
  <2> HIDE DEF a
  <2>. QED BY <1>6, <2>1, <2>2, <2>3, <2>5, AskStep
<1>16. ASSUME Unauthorized(t), ServerOK' PROVE SessionsAreWhole'
  <2>1. storage \in Saved BY <1>1 DEF SharedOK
  <2>2. returned' = [returned EXCEPT ![t] = returned[t]] /\ returned[t] \in SUBSET Users
    BY <1>3, <1>16 DEF Unauthorized, Tab
  <2>. QED BY <1>6, <1>16, <2>1, <2>2, NothingFacts, LoadStep DEF Unauthorized
<1>17. ASSUME LoginRefused(t) PROVE SessionsAreWhole'
  <2>1. ServerOK' BY <1>2, <1>17 DEF LoginRefused, Unauthorized, ServerOK, server
  <2>. QED BY <1>16, <1>17, <2>1 DEF LoginRefused
<1>18. ASSUME NEW token \in Admins \cup {None}, DataRefused(t, token)
       PROVE  SessionsAreWhole'
  <2>1. ServerOK' BY <1>2, <1>18 DEF DataRefused, Unauthorized, ServerOK, server
  <2>. QED BY <1>16, <1>18, <2>1 DEF DataRefused
<1>19. ASSUME NEW fails \in BOOLEAN, Answered(t, fails), ServerOK' PROVE SessionsAreWhole'
  <2> DEFINE b == [asking[t] EXCEPT !.left = @ - 1]
             a == IF fails \/ b.left = 0 THEN Unawaited(b) ELSE b
  <2>1. /\ b \in Asking /\ b.submitting = asking[t].submitting
    BY <1>4, <1>5, <1>19 DEF Answered, Asking
  <2>2. asking' = [asking EXCEPT ![t] = a] BY <1>19 DEF Answered
  <2> HIDE DEF b
  <2>3. a \in Asking /\ (a.submitting => asking[t].submitting)
    BY <2>1, UnawaitedFacts
  <2> HIDE DEF a
  <2>. QED BY <1>4, <1>8, <1>19, <2>2, <2>3 DEF Answered
<1>20. ASSUME DataArrives(t) PROVE SessionsAreWhole'
  <2>1. ServerOK' BY <1>2, <1>20 DEF DataArrives, Answered, ServerOK, server
  <2>. QED BY <1>19, <1>20, <2>1 DEF DataArrives
<1>21. ASSUME DataFails(t) PROVE SessionsAreWhole'
  <2>1. ServerOK' BY <1>2, <1>21, FaultFacts DEF DataFails, Answered, ServerOK, server
  <2>. QED BY <1>19, <1>21, <2>1 DEF DataFails
<1>22. ASSUME NEW token \in Admins \cup {None}, StaleAnswered(t, token)
       PROVE  SessionsAreWhole'
  <2> DEFINE a == [asking[t] EXCEPT !.stale = @ \ {token}]
  <2>1. ServerOK' BY <1>2, <1>22 DEF StaleAnswered, ServerOK, server
  <2>2. a \in Asking /\ a.left = asking[t].left /\ a.submitting = asking[t].submitting
    BY <1>4, <1>5 DEF Asking
  <2>3. asking' = [asking EXCEPT ![t] = a] /\ UNCHANGED <<page, user, opened, wandered>>
    BY <1>3, <1>22 DEF StaleAnswered
  <2> HIDE DEF a
  <2>. QED BY <1>8, <2>1, <2>2, <2>3
<1>. QED
  BY <1>10, <1>11, <1>12, <1>13, <1>14, <1>15, <1>17, <1>18, <1>20, <1>21, <1>22
  DEF AdminStep, AdminAnswer

LEMMA NextKeepsWhole == SessionsAreWhole /\ [Next]_vars => SessionsAreWhole'
<1> SUFFICES ASSUME SessionsAreWhole, [Next]_vars PROVE SessionsAreWhole' OBVIOUS
<1>1. ServerOK BY WholeTabs DEF SharedOK
<1>2. ASSUME UNCHANGED vars PROVE SessionsAreWhole'
  <2>1. UNCHANGED browser /\ UNCHANGED <<adminToken, server, actions, faults>>
    BY <1>2 DEF vars, browser
  <2>2. ServerOK' BY <1>1, <2>1 DEF server, ServerOK
  <2>. QED BY <2>1, <2>2, ServerStep
<1>3. ASSUME FindAdmin \/ CreateAdmin \/ \E token \in Users \cup Admins : Expire(token)
      PROVE  SessionsAreWhole'
  <2>1. UNCHANGED browser BY <1>3 DEF FindAdmin, CreateAdmin, Expire
  <2>2. CASE FindAdmin
    <3>1. ServerOK' BY <1>1, <2>2, BoundedFacts DEF FindAdmin, browser, ServerOK
    <3>. QED BY <2>1, <3>1, ServerStep
  <2>3. CASE CreateAdmin
    <3>1. ServerOK' BY <1>1, <2>3 DEF CreateAdmin, browser, ServerOK
    <3>. QED BY <2>1, <3>1, ServerStep
  <2>4. ASSUME NEW token \in Users \cup Admins, Expire(token) PROVE SessionsAreWhole'
    <3>1. ServerOK' BY <1>1, <2>4 DEF Expire, browser, ServerOK
    <3>. QED BY <2>1, <3>1, ServerStep
  <2>. QED BY <1>3, <2>2, <2>3, <2>4
<1>. QED BY <1>2, <1>3, UserKeepsWhole, AdminKeepsWhole
     DEF Next, UserStep, AdminStep

\* Whatever half session a load finds, a tab that has verified its token and did not wander
\* while it waited shows the user of that token, for any tabs and users.
THEOREM SessionsStayWhole == Spec => []SessionsAreWhole
BY InitWhole, NextKeepsWhole, PTL DEF Spec
-------------------------------------------------------------------------------
\* A tab that was never opened waits for nothing.
UnopenedInv ==
    \A t \in Tabs \ opened :
        page[t] = "closed" /\ verifying[t] = None /\ returned[t] = {} /\ asking[t] = Nothing

\* What a tab that is alone relies on: it shows what storage holds and, until a request
\* fails or it leaves a page that waits, all that is in flight is what its page waits for,
\* and carries the token stored.
Own(t) ==
    /\ (opened = {t} /\ page[t] \in {"login", "dashboard"}) => storage.token = store[t].token
    /\ (opened = {t} /\ t \notin wandered /\ faults = MaxFaults)
         => /\ asking[t].stale = {} /\ asking[t].late = 0
            /\ asking[t].left > 0 => asking[t].token = adminToken

SessionInv == SessionsAreWhole /\ UnopenedInv /\ \A t \in Tabs : Own(t)

\* The step of a tab changes no other tab.
Untouched(u) ==
    /\ page'[u] = page[u] /\ verifying'[u] = verifying[u]
    /\ returned'[u] = returned[u] /\ asking'[u] = asking[u]
Leaves(t) ==
    /\ \A u \in Tabs \ {t} : Untouched(u)
    /\ t \in opened' /\ opened' = opened \cup {t}

LEMMA OneTab ==
    ASSUME SessionsAreWhole, NEW t \in Tabs, NEW p, NEW v, NEW r, NEW a,
           page' = [page EXCEPT ![t] = p], verifying' = [verifying EXCEPT ![t] = v],
           returned' = [returned EXCEPT ![t] = r], asking' = [asking EXCEPT ![t] = a],
           t \in opened', opened' = opened \cup {t}
    PROVE  Leaves(t)
<1>1. TabsOK BY WholeTabs
<1>2. ASSUME NEW u \in Tabs \ {t} PROVE Untouched(u) BY <1>1 DEF TabsOK, Untouched
<1>. QED BY <1>2 DEF Leaves

LEMMA OneOpenTab ==
    ASSUME SessionsAreWhole, NEW t \in Tabs, NEW p, NEW v, NEW r, NEW a,
           page' = [page EXCEPT ![t] = p], verifying' = [verifying EXCEPT ![t] = v],
           returned' = [returned EXCEPT ![t] = r], asking' = [asking EXCEPT ![t] = a],
           t \in opened, UNCHANGED opened
    PROVE  Leaves(t)
<1>1. t \in opened' /\ opened' = opened \cup {t} OBVIOUS
<1>. QED BY <1>1, OneTab

LEMMA LoadLeaves ==
    ASSUME SessionsAreWhole, NEW t \in Tabs, NEW route, NEW saved, Loaded(t, route, saved),
           NEW a, asking' = [asking EXCEPT ![t] = a],
           NEW r, returned' = [returned EXCEPT ![t] = r]
    PROVE  Leaves(t)
<1> DEFINE p == Routed(route, store'[t])
<1>1. page' = [page EXCEPT ![t] = p] /\ verifying' = [verifying EXCEPT ![t] = saved.token]
      /\ opened' = opened \cup {t}
  BY DEF Loaded
<1> HIDE DEF p
<1>. QED BY <1>1, OneTab

LEMMA UserLeaves ==
    ASSUME SessionsAreWhole, UnopenedInv, NEW t \in Tabs, UserStep(t) PROVE Leaves(t)
<1>1. TabsOK BY WholeTabs
<1>2. page[t] # "closed" \/ verifying[t] # None => t \in opened BY DEF UnopenedInv
<1>3. /\ asking = [asking EXCEPT ![t] = asking[t]]
      /\ returned = [returned EXCEPT ![t] = returned[t]]
      /\ verifying = [verifying EXCEPT ![t] = verifying[t]]
  BY <1>1 DEF TabsOK
<1>4. ASSUME NEW route \in {"login", "dashboard", "adminLogin", "adminDashboard"},
             Open(t, route)
      PROVE  Leaves(t)
  BY <1>3, <1>4, LoadLeaves DEF Open
<1>5. ASSUME NEW u \in Users \cup {None}, AuthCallback(t, u) PROVE Leaves(t)
  BY <1>5, LoadLeaves DEF AuthCallback
<1>6. ASSUME NEW route, NEW saved, Set(t, route, saved), NEW v,
             verifying' = [verifying EXCEPT ![t] = v],
             UNCHANGED <<returned, asking, opened>>, t \in opened
      PROVE  Leaves(t)
  <2> DEFINE p == Routed(route, saved)
  <2>1. page' = [page EXCEPT ![t] = p] BY <1>6 DEF Set
  <2>2. asking' = [asking EXCEPT ![t] = asking[t]]
        /\ returned' = [returned EXCEPT ![t] = returned[t]]
    BY <1>3, <1>6
  <2> HIDE DEF p
  <2>. QED BY <1>6, <2>1, <2>2, OneOpenTab
<1>7. CASE googleLogin(t)
  <2>1. /\ page' = [page EXCEPT ![t] = "google"] /\ verifying' = [verifying EXCEPT ![t] = None]
        /\ UNCHANGED <<returned, asking, opened>> /\ t \in opened
    BY <1>2, <1>7 DEF googleLogin
  <2>2. asking' = [asking EXCEPT ![t] = asking[t]]
        /\ returned' = [returned EXCEPT ![t] = returned[t]]
    BY <1>3, <2>1
  <2>. QED BY <2>1, <2>2, OneOpenTab
<1>8. CASE logout(t)
  <2>1. /\ Set(t, page[t], Nobody) /\ UNCHANGED <<returned, asking, opened>> /\ t \in opened
        /\ verifying' = [verifying EXCEPT ![t] = verifying[t]]
    BY <1>2, <1>3, <1>8 DEF logout, HeaderShown
  <2>. QED BY <1>6, <2>1
<1>9. ASSUME NEW u \in Users \cup {None}, ReturnToCallback(t, u) PROVE Leaves(t)
  <2>1. /\ Set(t, "dashboard", SignedIn(u)) /\ UNCHANGED <<returned, asking, opened>>
        /\ verifying' = [verifying EXCEPT ![t] = verifying[t]] /\ t \in opened
    BY <1>2, <1>3, <1>9 DEF ReturnToCallback
  <2>. QED BY <1>6, <2>1
<1>10. CASE VerifySucceeds(t) BY <1>2, <1>6, <1>10 DEF VerifySucceeds
<1>11. CASE VerifyFails(t) BY <1>2, <1>6, <1>11 DEF VerifyFails, Rejected
<1>. QED BY <1>4, <1>5, <1>7, <1>8, <1>9, <1>10, <1>11 DEF UserStep, Answer

LEMMA AdminLeaves ==
    ASSUME SessionsAreWhole, UnopenedInv, NEW t \in Tabs, AdminStep(t) PROVE Leaves(t)
<1>1. TabsOK BY WholeTabs
<1>2. /\ page[t] # "closed" => t \in opened
      /\ (asking[t].submitting \/ asking[t].late > 0) => t \in opened
      /\ (asking[t].left > 0 \/ asking[t].stale # {}) => t \in opened
  BY NothingFacts DEF UnopenedInv
<1>3. /\ page = [page EXCEPT ![t] = page[t]] /\ returned = [returned EXCEPT ![t] = returned[t]]
      /\ verifying = [verifying EXCEPT ![t] = verifying[t]]
  BY <1>1 DEF TabsOK
<1>4. ASSUME NEW p, NEW a, page' = [page EXCEPT ![t] = p], asking' = [asking EXCEPT ![t] = a],
             UNCHANGED <<user, opened>>, t \in opened
      PROVE  Leaves(t)
  BY <1>3, <1>4, OneOpenTab DEF user
<1>5. ASSUME NEW a, UNCHANGED page, asking' = [asking EXCEPT ![t] = a],
             UNCHANGED <<user, opened>>, t \in opened
      PROVE  Leaves(t)
  BY <1>3, <1>4, <1>5
<1>6. ASSUME NEW route \in {"login", "dashboard", "adminLogin", "adminDashboard"},
             Traverse(t, route)
      PROVE  Leaves(t)
  <2>1. t \in opened BY <1>2, <1>6 DEF Traverse
  <2>. QED BY <1>4, <1>6, <2>1 DEF Traverse
<1>7. CASE SubmitLogin(t) BY <1>2, <1>5, <1>7 DEF SubmitLogin
<1>8. ASSUME NEW own \in BOOLEAN, LoginInFlight(t, own) PROVE t \in opened
  BY <1>2, <1>8 DEF LoginInFlight
<1>9. ASSUME NEW own \in BOOLEAN, LoginFails(t, own) PROVE Leaves(t)
  BY <1>5, <1>8, <1>9 DEF LoginFails
<1>10. CASE handleLogout(t) BY <1>2, <1>4, <1>10 DEF handleLogout, AdminShown
<1>11. CASE Refresh(t) BY <1>2, <1>5, <1>11 DEF Refresh, AdminShown
<1>12. ASSUME NEW own \in BOOLEAN, LoginSucceeds(t, own) PROVE Leaves(t)
  BY <1>4, <1>8, <1>12 DEF LoginSucceeds
<1>13. ASSUME Unauthorized(t) PROVE Leaves(t)
  <2>1. returned' = [returned EXCEPT ![t] = returned[t]] BY <1>3, <1>13 DEF Unauthorized
  <2>. QED BY <1>13, <2>1, LoadLeaves DEF Unauthorized
<1>14. CASE LoginRefused(t) BY <1>13, <1>14 DEF LoginRefused
<1>15. ASSUME NEW token \in Admins \cup {None}, DataRefused(t, token) PROVE Leaves(t)
  BY <1>13, <1>15 DEF DataRefused
<1>16. ASSUME NEW fails \in BOOLEAN, Answered(t, fails) PROVE Leaves(t)
  BY <1>2, <1>5, <1>16 DEF Answered
<1>17. CASE DataArrives(t) BY <1>16, <1>17 DEF DataArrives
<1>18. CASE DataFails(t) BY <1>16, <1>18 DEF DataFails
<1>19. ASSUME NEW token \in Admins \cup {None}, StaleAnswered(t, token) PROVE Leaves(t)
  BY <1>2, <1>5, <1>19 DEF StaleAnswered
<1>. QED
  BY <1>6, <1>7, <1>9, <1>10, <1>11, <1>12, <1>14, <1>15, <1>17, <1>18, <1>19
  DEF AdminStep, AdminAnswer

LEMMA FaultsFall == ServerOK /\ (Fault \/ UNCHANGED faults) /\ faults' = MaxFaults
                        => faults = MaxFaults /\ ~Fault
BY SessionAssumption DEF ServerOK, Fault

LEMMA OwnAfterLoad ==
    ASSUME SessionsAreWhole, NEW t \in Tabs, NEW route, NEW saved, Loaded(t, route, saved),
           NEW a, asking' = [asking EXCEPT ![t] = a], a.stale = {}, a.late = 0,
           a.left > 0 => a.token = adminToken'
    PROVE  Own(t)'
<1>1. TabsOK BY WholeTabs
<1>2. storage' = store'[t] BY DEF Loaded
<1>3. asking'[t] = a BY <1>1 DEF TabsOK
<1>. QED BY <1>2, <1>3 DEF Own

LEMMA OwnAfterSet ==
    ASSUME SessionsAreWhole, NEW t \in Tabs, Own(t), NEW route, NEW saved,
           Set(t, route, saved), wandered \subseteq wandered',
           UNCHANGED <<asking, opened, adminToken>>, Fault \/ UNCHANGED faults
    PROVE  Own(t)'
<1>1. TabsOK /\ ServerOK BY WholeTabs DEF SharedOK
<1>2. storage' = saved /\ store'[t] = saved BY <1>1 DEF Set, TabsOK
<1>3. faults' = MaxFaults => faults = MaxFaults BY <1>1, FaultsFall
<1>. QED BY <1>2, <1>3 DEF Own

LEMMA UserKeepsOwn ==
    ASSUME SessionsAreWhole, NEW t \in Tabs, Own(t), UserStep(t) PROVE Own(t)'
<1>1. TabsOK /\ ServerOK BY WholeTabs DEF SharedOK
<1>2. ASSUME NEW route \in {"login", "dashboard", "adminLogin", "adminDashboard"},
             Open(t, route)
      PROVE  Own(t)'
  <2>1. Loaded(t, route, storage) /\ adminToken' = adminToken BY <1>2 DEF Open
  <2>2. CASE route = "adminDashboard"
    <3> DEFINE a == fetchDashboardData(Nothing, adminToken)
    <3>1. asking' = [asking EXCEPT ![t] = a] BY <1>2, <2>2 DEF Open
    <3>2. a.stale = {} /\ a.late = 0 /\ a.token = adminToken
      BY <1>1, NothingFacts, UnawaitedFacts, FetchFacts DEF ServerOK
    <3> HIDE DEF a
    <3>. QED BY <2>1, <3>1, <3>2, OwnAfterLoad
  <2>3. CASE route # "adminDashboard"
    <3>1. asking' = [asking EXCEPT ![t] = Nothing] BY <1>2, <2>3 DEF Open
    <3>. QED BY <2>1, <3>1, NothingFacts, OwnAfterLoad
  <2>. QED BY <2>2, <2>3
<1>3. ASSUME NEW u \in Users \cup {None}, AuthCallback(t, u) PROVE Own(t)'
  <2>1. asking' = [asking EXCEPT ![t] = Nothing] BY <1>3 DEF AuthCallback
  <2>. QED BY <1>3, <2>1, NothingFacts, OwnAfterLoad DEF AuthCallback
<1>4. ASSUME NEW u \in Users \cup {None}, ReturnToCallback(t, u) PROVE Own(t)'
  <2>1. wandered \subseteq wandered' BY <1>4 DEF ReturnToCallback
  <2>. QED BY <1>4, <2>1, OwnAfterSet DEF ReturnToCallback
<1>5. CASE googleLogin(t)
  <2>1. /\ page'[t] = "google" /\ UNCHANGED <<asking, opened, wandered, adminToken, faults>>
    BY <1>1, <1>5 DEF googleLogin, TabsOK
  <2>. QED BY <2>1 DEF Own
<1>6. CASE logout(t) BY <1>6, OwnAfterSet DEF logout
<1>7. CASE VerifySucceeds(t) BY <1>7, OwnAfterSet DEF VerifySucceeds
<1>8. CASE VerifyFails(t) BY <1>8, OwnAfterSet DEF VerifyFails, Rejected
<1>. QED BY <1>2, <1>3, <1>4, <1>5, <1>6, <1>7, <1>8 DEF UserStep, Answer

LEMMA AdminKeepsOwn ==
    ASSUME SessionsAreWhole, NEW t \in Tabs, Own(t), AdminStep(t)
    PROVE  Own(t)'
<1>1. TabsOK /\ ServerOK BY WholeTabs DEF SharedOK
<1>2. Tab(page[t], store[t], isLoading[t], verifying[t], returned[t], asking[t])
  BY <1>1 DEF TabsOK
<1>3. /\ asking[t] \in Asking /\ adminToken \in Admins \cup {None}
      /\ asking[t].left > 0 => page[t] = "adminDashboard"
      /\ asking[t].submitting => page[t] = "adminLogin"
  BY <1>1, <1>2 DEF Tab, ServerOK
<1>4. /\ asking[t].submitting \in BOOLEAN /\ asking[t].late \in Nat
      /\ asking[t].left \in 0..3 /\ asking[t].token \in Admins \cup {None}
      /\ asking[t].stale \in SUBSET (Admins \cup {None})
  BY <1>3 DEF Asking
\* What the lone tab has in flight, and what must be shown of it after the step.
<1> DEFINE Calm == opened = {t} /\ t \notin wandered /\ faults = MaxFaults
           Ours(a) == /\ a.stale = {} /\ a.late = 0
                      /\ a.left > 0 => a.token = adminToken'
<1>5. Calm => asking[t].stale = {} /\ asking[t].late = 0
              /\ (asking[t].left > 0 => asking[t].token = adminToken)
  BY DEF Own
<1>6. ASSUME NEW p, NEW a, page' = [page EXCEPT ![t] = p], asking' = [asking EXCEPT ![t] = a],
             p \in {"login", "dashboard"} => page[t] \in {"login", "dashboard"},
             UNCHANGED <<user, opened>>, wandered \subseteq wandered',
             Fault \/ UNCHANGED faults,
             Calm /\ t \notin wandered' /\ ~Fault => Ours(a)
      PROVE  Own(t)'
  <2>1. page'[t] = p /\ asking'[t] = a BY <1>1, <1>6 DEF TabsOK
  <2>2. faults' = MaxFaults => faults = MaxFaults /\ ~Fault BY <1>1, <1>6, FaultsFall
  <2>3. storage' = storage /\ store' = store BY <1>6 DEF user
  <2>4. (opened' = {t} /\ page'[t] \in {"login", "dashboard"}) => storage'.token = store'[t].token
    BY <1>6, <2>1, <2>3 DEF Own
  <2>5. (opened' = {t} /\ t \notin wandered' /\ faults' = MaxFaults) => Ours(a)
    BY <1>6, <2>2
  <2>. QED BY <2>1, <2>4, <2>5 DEF Own
<1>7. page = [page EXCEPT ![t] = page[t]] BY <1>1 DEF TabsOK
<1> HIDE DEF Calm, Ours
<1>8. ASSUME NEW route \in {"login", "dashboard", "adminLogin", "adminDashboard"},
             Traverse(t, route)
      PROVE  Own(t)'
  <2> DEFINE a == IF route = "adminDashboard" THEN fetchDashboardData(asking[t], adminToken)
                  ELSE Unawaited(asking[t])
             p == Routed(route, store[t])
  <2>1. /\ page' = [page EXCEPT ![t] = p] /\ asking' = [asking EXCEPT ![t] = a]
        /\ UNCHANGED <<user, opened, adminToken, faults>>
        /\ wandered' = IF asking[t].submitting \/ asking[t].left > 0
                       THEN wandered \cup {t} ELSE wandered
    BY <1>1, <1>8 DEF Traverse, TabsOK
  <2>2. p \in {"login", "dashboard"} => page[t] \in {"login", "dashboard"}
    <3>1. {page[t], route} \in {{"login", "dashboard"}, {"adminLogin", "adminDashboard"}}
      BY <1>8 DEF Traverse
    <3>2. page[t] \in {"login", "dashboard"} <=> route \in {"login", "dashboard"} BY <3>1
    <3>. QED BY <3>2 DEF Routed
  <2>3. ASSUME Calm, t \notin wandered' PROVE Ours(a)
    <3>1. ~asking[t].submitting /\ asking[t].left = 0 BY <1>4, <2>1, <2>3
    <3>2. asking[t].stale = {} /\ asking[t].late = 0 BY <1>5, <2>3
    <3>3. Unawaited(asking[t]).stale = {} /\ Unawaited(asking[t]).late = 0
          /\ Unawaited(asking[t]).left = 0
      BY <1>3, <3>1, <3>2, UnawaitedFacts
    <3>4. fetchDashboardData(asking[t], adminToken).stale = {}
          /\ fetchDashboardData(asking[t], adminToken).late = 0
          /\ fetchDashboardData(asking[t], adminToken).token = adminToken
      BY <1>3, <3>3, FetchFacts
    <3>. QED BY <2>1, <3>3, <3>4 DEF Ours
  <2> HIDE DEF a, p
  <2>. QED BY <1>6, <2>1, <2>2, <2>3
<1>9. CASE SubmitLogin(t)
  <2> DEFINE a == [asking[t] EXCEPT !.submitting = TRUE]
  <2>1. /\ asking' = [asking EXCEPT ![t] = a]
        /\ UNCHANGED <<page, user, opened, wandered, adminToken, faults>>
    BY <1>1, <1>9 DEF SubmitLogin, TabsOK
  <2>2. Calm => Ours(a) BY <1>3, <1>5, <2>1 DEF Ours, Asking
  <2> HIDE DEF a
  <2>. QED BY <1>6, <1>7, <2>1, <2>2
<1>10. ASSUME NEW own \in BOOLEAN, LoginFails(t, own) PROVE Own(t)'
  BY <1>6, <1>7, <1>10 DEF LoginFails
<1>11. CASE handleLogout(t)
  <2>1. /\ page' = [page EXCEPT ![t] = "adminLogin"]
        /\ asking' = [asking EXCEPT ![t] = Unawaited(asking[t])]
        /\ UNCHANGED <<user, opened, wandered, faults>>
        /\ asking[t].left = 0 /\ page[t] = "adminDashboard"
    BY <1>1, <1>11 DEF handleLogout, AdminShown, TabsOK
  <2>2. ~asking[t].submitting BY <1>3, <2>1
  <2>3. Calm => Ours(Unawaited(asking[t]))
    BY <1>3, <1>5, <2>1, <2>2, UnawaitedFacts DEF Ours
  <2>. QED BY <1>6, <2>1, <2>3
<1>12. CASE Refresh(t)
  <2> DEFINE a == fetchDashboardData(asking[t], adminToken)
  <2>1. /\ asking' = [asking EXCEPT ![t] = a]
        /\ UNCHANGED <<page, user, opened, wandered, adminToken, faults>>
        /\ asking[t].left = 0 /\ page[t] = "adminDashboard"
    BY <1>1, <1>12 DEF Refresh, AdminShown, TabsOK
  <2>2. ~asking[t].submitting BY <1>3, <2>1
  <2>3. Calm => Ours(a)
    BY <1>3, <1>5, <2>1, <2>2, UnawaitedFacts, FetchFacts DEF Ours
  <2> HIDE DEF a
  <2>. QED BY <1>6, <1>7, <2>1, <2>3
<1>13. ASSUME NEW own \in BOOLEAN, LoginSucceeds(t, own) PROVE Own(t)'
  <2> DEFINE b == LoginAnswered(t, own)
             a(token) == IF page[t] = "adminDashboard" THEN b ELSE fetchDashboardData(b, token)
  <2>1. PICK token \in Admins \ issued :
          adminToken' = token /\ asking' = [asking EXCEPT ![t] = a(token)]
    BY <1>13 DEF LoginSucceeds
  <2>2. /\ LoginInFlight(t, own) /\ page' = [page EXCEPT ![t] = "adminDashboard"]
        /\ UNCHANGED <<user, opened, wandered, faults>>
    BY <1>13 DEF LoginSucceeds
  <2>3. ASSUME Calm PROVE Ours(a(token))
    <3>1. own /\ asking[t].submitting BY <1>5, <2>2, <2>3 DEF LoginInFlight
    <3>2. page[t] = "adminLogin" /\ asking[t].left = 0 BY <1>3, <1>4, <3>1
    <3>3. /\ b \in Asking /\ ~b.submitting /\ b.late = 0 /\ b.left = 0 /\ b.stale = {}
      BY <1>3, <1>4, <1>5, <2>3, <3>1, <3>2 DEF LoginAnswered, Asking
    <3> HIDE DEF b
    <3>4. a(token) = fetchDashboardData(b, token) BY <3>2
    <3>5. token \in Admins \cup {None} OBVIOUS
    <3>. QED BY <2>1, <3>3, <3>4, <3>5, UnawaitedFacts, FetchFacts DEF Ours
  <2> HIDE DEF a
  <2>. QED BY <1>6, <2>1, <2>2, <2>3
<1>14. ASSUME Unauthorized(t) PROVE Own(t)'
  BY <1>14, NothingFacts, OwnAfterLoad DEF Unauthorized
<1>15. CASE LoginRefused(t) BY <1>14, <1>15 DEF LoginRefused
<1>16. ASSUME NEW token \in Admins \cup {None}, DataRefused(t, token) PROVE Own(t)'
  BY <1>14, <1>16 DEF DataRefused
<1>17. CASE DataArrives(t)
  <2> DEFINE b == [asking[t] EXCEPT !.left = @ - 1]
             a == IF b.left = 0 THEN Unawaited(b) ELSE b
  <2>1. /\ asking' = [asking EXCEPT ![t] = a] /\ asking[t].left > 0
        /\ UNCHANGED <<page, user, opened, wandered, adminToken, faults>>
    BY <1>17 DEF DataArrives, Answered
  <2>2. /\ b \in Asking /\ ~b.submitting /\ b.late = asking[t].late
        /\ b.stale = asking[t].stale /\ b.token = asking[t].token
    BY <1>3, <1>4, <2>1 DEF Asking
  <2> HIDE DEF b
  <2>3. Calm => Ours(a) BY <1>5, <2>1, <2>2, UnawaitedFacts DEF Ours
  <2> HIDE DEF a
  <2>. QED BY <1>6, <1>7, <2>1, <2>3
<1>18. CASE DataFails(t)
  <2> DEFINE b == [asking[t] EXCEPT !.left = @ - 1]
  <2>1. /\ asking' = [asking EXCEPT ![t] = Unawaited(b)] /\ Fault
        /\ UNCHANGED <<page, user, opened, wandered, adminToken>>
    BY <1>18 DEF DataFails, Answered
  <2> HIDE DEF b
  <2>. QED BY <1>6, <1>7, <2>1
<1>19. ASSUME NEW token \in Admins \cup {None}, StaleAnswered(t, token) PROVE Own(t)'
  <2> DEFINE a == [asking[t] EXCEPT !.stale = @ \ {token}]
  <2>1. /\ asking' = [asking EXCEPT ![t] = a] /\ token \in asking[t].stale
        /\ UNCHANGED <<page, user, opened, wandered, adminToken, faults>>
    BY <1>1, <1>19 DEF StaleAnswered, TabsOK
  <2>2. ~Calm BY <1>5, <2>1
  <2> HIDE DEF a
  <2>. QED BY <1>6, <1>7, <2>1, <2>2
<1>. QED
  BY <1>8, <1>9, <1>10, <1>11, <1>12, <1>13, <1>15, <1>16, <1>17, <1>18, <1>19
  DEF AdminStep, AdminAnswer

LEMMA InitSession == Init => SessionInv
<1> SUFFICES ASSUME Init PROVE SessionInv OBVIOUS
<1>1. UnopenedInv BY DEF Init, UnopenedInv
<1>2. ASSUME NEW t \in Tabs PROVE Own(t) BY NothingFacts DEF Init, Own
<1>. QED BY <1>1, <1>2, InitWhole DEF SessionInv

LEMMA NextKeepsSession == SessionInv /\ [Next]_vars => SessionInv'
<1> SUFFICES ASSUME SessionInv, [Next]_vars PROVE SessionInv' OBVIOUS
<1>1. /\ SessionsAreWhole /\ UnopenedInv /\ (\A t \in Tabs : Own(t))
      /\ ServerOK /\ SharedOK /\ TabsOK
  BY WholeTabs DEF SessionInv, SharedOK
<1>2. SessionsAreWhole' BY <1>1, NextKeepsWhole
<1>3. ASSUME NEW t \in Tabs, UserStep(t) \/ AdminStep(t) PROVE SessionInv'
  <2>1. Leaves(t) BY <1>1, <1>3, UserLeaves, AdminLeaves
  <2>2. Own(t)' BY <1>1, <1>3, UserKeepsOwn, AdminKeepsOwn
  <2>3. UnopenedInv' BY <1>1, <2>1 DEF UnopenedInv, Leaves, Untouched
  <2>4. ASSUME NEW u \in Tabs, u # t PROVE Own(u)'
    <3>1. opened' # {u} BY <2>1, <2>4 DEF Leaves
    <3>. QED BY <3>1 DEF Own
  <2>. QED BY <1>2, <2>2, <2>3, <2>4 DEF SessionInv
<1>4. ASSUME UNCHANGED <<browser, faults>> PROVE SessionInv'
  <2>1. UnopenedInv' BY <1>1, <1>4 DEF browser, user, UnopenedInv
  <2>2. ASSUME NEW u \in Tabs PROVE Own(u)' BY <1>1, <1>4 DEF browser, user, Own
  <2>. QED BY <1>2, <2>1, <2>2 DEF SessionInv
<1>5. CASE UNCHANGED vars BY <1>4, <1>5 DEF vars
<1>6. CASE FindAdmin \/ CreateAdmin \/ \E token \in Users \cup Admins : Expire(token)
  BY <1>4, <1>6 DEF FindAdmin, CreateAdmin, Expire
<1>. QED BY <1>3, <1>5, <1>6 DEF Next, UserStep, AdminStep

\* The requests of a tab that is alone carry the token that its page is signed in with.
THEOREM AloneAsks == Spec => []AloneAsksAsShown
<1>1. SessionInv => AloneAsksAsShown BY DEF SessionInv, Own, AloneAsksAsShown
<1>. QED BY <1>1, InitSession, NextKeepsSession, PTL DEF Spec

LEMMA KeepsToken ==
    ASSUME SessionInv, [Next]_vars, NEW t \in Tabs, opened = {t}, t \notin wandered,
           faults' = MaxFaults, adminToken \notin expired \cup {None}, adminToken' = None
    PROVE  handleLogout(t) \/ LoginRefused(t)
<1>1. /\ SessionsAreWhole /\ UnopenedInv /\ Own(t) /\ ServerOK /\ TabsOK
  BY WholeTabs DEF SessionInv, SharedOK
<1>2. adminToken' # adminToken OBVIOUS
<1>3. ~ UNCHANGED browser BY <1>2 DEF browser
<1>4. PICK u \in Tabs : UserStep(u) \/ AdminStep(u)
  BY <1>3 DEF Next, UserStep, AdminStep, vars, FindAdmin, CreateAdmin, Expire, browser
<1>5. ~UserStep(u)
  BY <1>2 DEF UserStep, Answer, Open, googleLogin, AuthCallback, ReturnToCallback, logout,
              VerifySucceeds, VerifyFails
<1>6. u \notin opened =>
        page[u] = "closed" /\ ~asking[u].submitting /\ asking[u].late = 0
        /\ asking[u].left = 0 /\ asking[u].stale = {}
  BY <1>1, NothingFacts DEF UnopenedInv
<1>7. CASE handleLogout(u)
  <2>1. u \in opened BY <1>6, <1>7 DEF handleLogout, AdminShown
  <2>. QED BY <1>7, <2>1
<1>8. CASE LoginRefused(u)
  <2>1. u \in opened BY <1>6, <1>8 DEF LoginRefused, LoginInFlight
  <2>. QED BY <1>8, <2>1
<1>9. ~ \E own \in BOOLEAN : LoginSucceeds(u, own)
  BY SessionAssumption DEF LoginSucceeds
<1>10. ASSUME NEW token \in Admins \cup {None}, DataRefused(u, token) PROVE FALSE
  <2>1. /\ (asking[u].left > 0 /\ token = asking[u].token) \/ token \in asking[u].stale
        /\ token \in {None} \cup expired /\ faults = MaxFaults
    BY <1>10 DEF DataRefused
  <2>2. u = t BY <1>6, <2>1
  <2>3. token = adminToken BY <1>1, <2>1, <2>2 DEF Own
  <2>. QED BY <2>1, <2>3
<1>11. /\ ~ SubmitLogin(u) /\ ~ Refresh(u) /\ ~ DataArrives(u) /\ ~ DataFails(u)
       /\ ~ \E own \in BOOLEAN : LoginFails(u, own)
       /\ ~ \E token \in Admins \cup {None} : StaleAnswered(u, token)
       /\ ~ \E route \in {"login", "dashboard", "adminLogin", "adminDashboard"} :
              Traverse(u, route)
  BY <1>2 DEF SubmitLogin, Refresh, LoginFails, DataArrives, DataFails, Answered,
              StaleAnswered, Traverse
<1>. QED BY <1>4, <1>5, <1>7, <1>8, <1>9, <1>10, <1>11 DEF AdminStep, AdminAnswer

\* A tab that is alone and never leaves a page that waits keeps its administrator's token
\* until a logout or a refused login.
THEOREM AloneKeeps == Spec => AloneKeepsToken
<1>1. SessionInv /\ [Next]_vars =>
        [\A t \in Tabs :
           (/\ opened = {t} /\ t \notin wandered /\ faults' = MaxFaults
            /\ adminToken \notin expired \cup {None} /\ adminToken' = None)
              => handleLogout(t) \/ LoginRefused(t)]_vars
  BY KeepsToken
<1>. QED BY <1>1, InitSession, NextKeepsSession, PTL DEF Spec, AloneKeepsToken

-------------------------------------------------------------------------------
(* The dashboard page: its invariant.                                       *)

\* A panel's tests are in flight once, each of a button of its own.
RunsInv ==
    \A r \in Mine : running[r] = 1 /\ \A s \in Mine : s.what = r.what => s = r

\* As long as the calm lasts, all in flight ask with the filters in force.
CalmInv ==
    calm => /\ \A q \in BagToSet(asked) : q.filters = Effective(filters)
            /\ \A f \in BagToSet(askedStats) : f = Effective(filters)

\* A field the form leaves unset does not filter.
FormInv ==
    ~cleared => \A f \in Fields : filterValues[f] = Unset => Effective(filters)[f] = Blank

PageInv ==
    /\ SpinnersAreHonest /\ RunsInv /\ CalmInv /\ QuietIsCurrent /\ FormInv
-------------------------------------------------------------------------------
(* Bags.                                                                    *)

\* One more copy of x.
LEMMA AddOne ==
    ASSUME NEW B, IsABag(B), NEW x
    PROVE  /\ IsABag(With(B, x)) /\ BagToSet(With(B, x)) = BagToSet(B) \cup {x}
           /\ With(B, x) # EmptyBag
           /\ x \notin BagToSet(B) => With(B, x)[x] = 1
           /\ \A y \in BagToSet(B) : y # x => With(B, x)[y] = B[y]
<1> DEFINE C == With(B, x)
<1>1. DOMAIN C = DOMAIN B \cup {x}
  BY DEF With, (+), SetToBag
<1>2. \A y \in DOMAIN B : B[y] \in Nat /\ B[y] > 0
  BY DEF IsABag
<1>3. \A y \in DOMAIN C : C[y] = (IF y \in DOMAIN B THEN B[y] ELSE 0) + (IF y = x THEN 1 ELSE 0)
  BY DEF With, (+), SetToBag
<1>4. C = [y \in DOMAIN C |-> C[y]]
  BY DEF With, (+)
<1>5. \A y \in DOMAIN C : C[y] \in Nat /\ C[y] > 0
  BY <1>1, <1>2, <1>3
<1>6. x \notin DOMAIN B => C[x] = 1
  BY <1>1, <1>3
<1>7. \A y \in DOMAIN B : y # x => C[y] = B[y]
  BY <1>1, <1>2, <1>3
<1>8. DOMAIN EmptyBag = {}
  BY DEF EmptyBag, SetToBag
<1> HIDE DEF C
<1>9. IsABag(C)
  BY <1>4, <1>5 DEF IsABag
<1>10. C # EmptyBag
  BY <1>1, <1>8
<1>11. BagToSet(C) = BagToSet(B) \cup {x}
  BY <1>1 DEF BagToSet
<1> QED  BY <1>6, <1>7, <1>9, <1>10, <1>11 DEF C, BagToSet

\* One copy of x less.
LEMMA RemoveOne ==
    ASSUME NEW B, IsABag(B), NEW x \in BagToSet(B)
    PROVE  /\ IsABag(Without(B, x)) /\ BagToSet(Without(B, x)) \subseteq BagToSet(B)
           /\ BagToSet(B) \ {x} \subseteq BagToSet(Without(B, x))
           /\ B[x] = 1 => x \notin BagToSet(Without(B, x))
           /\ \A y \in BagToSet(Without(B, x)) : y # x => Without(B, x)[y] = B[y]
<1> DEFINE C == Without(B, x)
           count(y) == IF y = x THEN B[y] - 1 ELSE B[y]
<1>1. \A y \in DOMAIN B : B[y] \in Nat /\ B[y] > 0
  BY DEF IsABag
<1>2. C = [y \in {z \in DOMAIN B : count(z) > 0} |-> count(y)]
  BY DEF Without, (-), SetToBag
<1>3. DOMAIN C = {y \in DOMAIN B : count(y) > 0} /\ \A y \in DOMAIN C : C[y] = count(y)
  BY <1>2
<1>4. C = [y \in DOMAIN C |-> C[y]]
  BY <1>2
<1>5. \A y \in DOMAIN C : C[y] \in Nat /\ C[y] > 0
  BY <1>1, <1>3
<1>6. DOMAIN B \ {x} \subseteq DOMAIN C
  BY <1>1, <1>3
<1>7. B[x] = 1 => x \notin DOMAIN C
  BY <1>3
<1>8. \A y \in DOMAIN C : y # x => C[y] = B[y]
  BY <1>3
<1> HIDE DEF C
<1>9. IsABag(C)
  BY <1>4, <1>5 DEF IsABag
<1> QED  BY <1>3, <1>6, <1>7, <1>8, <1>9 DEF C, BagToSet

\* What a panel leaves behind.
LEMMA OrphanedRuns ==
    ASSUME PageTypeOK
    PROVE  /\ IsABag(Orphaned) /\ BagToSet(Orphaned) \subseteq Run
           /\ \A r \in BagToSet(Orphaned) : ~r.mine
<1> DEFINE apart == [r \in BagToSet(running) \ Mine |-> running[r]]
           left == [r \in {[q EXCEPT !.mine = FALSE] : q \in Mine}
                      |-> running[[r EXCEPT !.mine = TRUE]]]
<1>1. \A r \in DOMAIN running : running[r] \in Nat /\ running[r] > 0 /\ r \in Run
  BY DEF PageTypeOK, IsABag, BagToSet
<1>2. /\ \A r \in DOMAIN apart : apart[r] \in Nat /\ apart[r] > 0 /\ r \in Run /\ ~r.mine
      /\ apart = [r \in DOMAIN apart |-> apart[r]]
  BY <1>1 DEF Mine, BagToSet
<1>3. /\ \A r \in DOMAIN left : left[r] \in Nat /\ left[r] > 0 /\ r \in Run /\ ~r.mine
      /\ left = [r \in DOMAIN left |-> left[r]]
  <2>1. \A q \in Mine : LET r == [q EXCEPT !.mine = FALSE]
                        IN  r \in Run /\ ~r.mine /\ [r EXCEPT !.mine = TRUE] = q
    BY <1>1 DEF Run, Mine, BagToSet
  <2>2. /\ DOMAIN left = {[q EXCEPT !.mine = FALSE] : q \in Mine}
        /\ \A r \in DOMAIN left : left[r] = running[[r EXCEPT !.mine = TRUE]]
        /\ left = [r \in DOMAIN left |-> left[r]]
    OBVIOUS
  <2>3. ASSUME NEW r \in DOMAIN left
        PROVE  left[r] \in Nat /\ left[r] > 0 /\ r \in Run /\ ~r.mine
    <3>1. PICK q \in Mine : r = [q EXCEPT !.mine = FALSE]
      BY <2>2
    <3>2. r \in Run /\ ~r.mine /\ [r EXCEPT !.mine = TRUE] = q
      BY <2>1, <3>1
    <3>3. left[r] = running[q] /\ q \in DOMAIN running
      BY <2>2, <3>2 DEF Mine, BagToSet
    <3> QED  BY <1>1, <3>2, <3>3
  <2> HIDE DEF left
  <2> QED  BY <2>2, <2>3
<1>4. Orphaned = apart (+) left
  BY DEF Orphaned
<1> HIDE DEF apart, left
<1>5. /\ DOMAIN Orphaned = DOMAIN apart \cup DOMAIN left
      /\ \A r \in DOMAIN Orphaned : Orphaned[r] \in Nat /\ Orphaned[r] > 0
      /\ Orphaned = [r \in DOMAIN Orphaned |-> Orphaned[r]]
  BY <1>2, <1>3, <1>4 DEF (+)
<1>6. IsABag(Orphaned)
  BY <1>5 DEF IsABag
<1> QED  BY <1>2, <1>3, <1>5, <1>6 DEF BagToSet
-------------------------------------------------------------------------------
(* Fetches.                                                                 *)

\* The types of the fetches in flight.
FetchesOK ==
    /\ IsABag(asked) /\ BagToSet(asked) \subseteq Question
    /\ IsABag(askedStats) /\ BagToSet(askedStats) \subseteq Filters
    /\ isLoadingLogs \in BOOLEAN /\ isLoadingStats \in BOOLEAN /\ calm \in BOOLEAN
SpinInv ==
    (isLoadingLogs => asked # EmptyBag) /\ (isLoadingStats => askedStats # EmptyBag)

\* What is asked and what is shown is of the page's types.
LEMMA Effectives ==
    /\ \A form \in Form : Effective(form) \in Filters
    /\ \A q \in Question : q.window \in Windows /\ q.filters \in Filters
    /\ NoFilters \in Form
BY DashboardAssumption DEF Form, Effective, Filters, Question, NoFilters

\* The effect fetches what the page shows now, or nothing.
LEMMA FetchKeeps ==
    ASSUME PageTypeOK
    PROVE  \A q \in Question : \A pending :
              IsABag(pending) /\ BagToSet(pending) \subseteq Question /\ Fetch(q, pending)
                 => /\ FetchesOK' /\ SpinInv' /\ CalmInv'
                    /\ asked' # EmptyBag /\ askedStats' # EmptyBag
<1> SUFFICES ASSUME NEW q \in Question, NEW pending,
                    IsABag(pending), BagToSet(pending) \subseteq Question, Fetch(q, pending)
             PROVE  /\ FetchesOK' /\ SpinInv' /\ CalmInv'
                    /\ asked' # EmptyBag /\ askedStats' # EmptyBag
  OBVIOUS
<1>1. /\ IsABag(asked') /\ BagToSet(asked') \subseteq Question /\ asked' # EmptyBag
  BY AddOne DEF Fetch
<1>2. q.filters \in Filters /\ IsABag(askedStats) /\ BagToSet(askedStats) \subseteq Filters
  BY Effectives DEF PageTypeOK
<1>3. /\ IsABag(askedStats') /\ BagToSet(askedStats') \subseteq Filters
      /\ askedStats' # EmptyBag
  BY <1>2, AddOne DEF Fetch
<1>4. isLoadingLogs' /\ isLoadingStats' /\ calm' \in BOOLEAN
  BY DEF Fetch
<1>5. calm' => /\ \A p \in BagToSet(asked') : p.filters = Effective(filters')
               /\ \A f \in BagToSet(askedStats') : f = Effective(filters')
  BY DEF Fetch
<1>6. CalmInv'
  BY <1>5 DEF CalmInv
<1>7. FetchesOK' /\ SpinInv'
  BY <1>1, <1>3, <1>4 DEF FetchesOK, SpinInv, Fetch
<1> QED  BY <1>1, <1>3, <1>6, <1>7

\* With no more in flight than before and the same filters, the calm lasts.
LEMMA FewerFetches ==
    ASSUME PageTypeOK, SpinInv, CalmInv, filters' = filters, calm' = calm,
           IsABag(asked'), BagToSet(asked') \subseteq BagToSet(asked),
           IsABag(askedStats'), BagToSet(askedStats') \subseteq BagToSet(askedStats),
           isLoadingLogs' \in BOOLEAN, isLoadingLogs' => asked' # EmptyBag,
           isLoadingStats' \in BOOLEAN, isLoadingStats' => askedStats' # EmptyBag
    PROVE  FetchesOK' /\ SpinInv' /\ CalmInv'
<1>1. FetchesOK'
  BY DEF FetchesOK, PageTypeOK
<1>2. CalmInv'
  BY DEF CalmInv
<1> QED  BY <1>1, <1>2 DEF SpinInv

\* The spinners and the calm through every step.
LEMMA FetchesStep ==
    ASSUME PageTypeOK, SpinInv, CalmInv, [PageNext]_pageVars
    PROVE  FetchesOK' /\ SpinInv' /\ CalmInv'
<1> DEFINE Goal == FetchesOK' /\ SpinInv' /\ CalmInv'
<1>0. /\ IsABag(asked) /\ BagToSet(asked) \subseteq Question
      /\ IsABag(askedStats) /\ BagToSet(askedStats) \subseteq Filters
      /\ pagination.window \in Windows /\ filters \in Form
      /\ isLoadingLogs \in BOOLEAN /\ isLoadingStats \in BOOLEAN
  BY DEF PageTypeOK
<1>1. ASSUME UNCHANGED <<filters, fetching>> PROVE Goal
  <2>1. /\ filters' = filters /\ calm' = calm /\ asked' = asked /\ askedStats' = askedStats
        /\ isLoadingLogs' = isLoadingLogs /\ isLoadingStats' = isLoadingStats
    BY <1>1 DEF fetching
  <2> QED  BY <1>0, <2>1, FewerFetches DEF SpinInv
<1>2. ASSUME NEW q \in BagToSet(asked), AnswerLogs(q) PROVE Goal
  <2>1. /\ IsABag(Without(asked, q)) /\ BagToSet(Without(asked, q)) \subseteq BagToSet(asked)
    BY <1>0, RemoveOne
  <2>2. q \in Question /\ q.window \in Windows
    BY <1>0, Effectives
  <2>3. Current' \in Question
    BY <1>0, <1>2, <2>2, Effectives DEF AnswerLogs, Current, Question
  <2>4. CASE pagination' # pagination
    BY <1>0, <1>2, <2>1, <2>3, <2>4, FetchKeeps DEF AnswerLogs, Effect, Refetch
  <2>5. CASE pagination' = pagination
    <3>1. /\ asked' = Without(asked, q) /\ isLoadingLogs' = FALSE /\ filters' = filters
          /\ askedStats' = askedStats /\ isLoadingStats' = isLoadingStats /\ calm' = calm
      BY <1>2, <2>5 DEF AnswerLogs, Effect, Refetch
    <3> QED  BY <1>0, <2>1, <3>1, FewerFetches DEF SpinInv
  <2> QED  BY <2>4, <2>5
<1>3. ASSUME NEW q \in BagToSet(asked), FailLogs(q) PROVE Goal
  <2>1. /\ IsABag(Without(asked, q)) /\ BagToSet(Without(asked, q)) \subseteq BagToSet(asked)
    BY <1>0, RemoveOne
  <2>2. /\ asked' = Without(asked, q) /\ isLoadingLogs' = FALSE /\ filters' = filters
        /\ askedStats' = askedStats /\ isLoadingStats' = isLoadingStats /\ calm' = calm
    BY <1>3 DEF FailLogs
  <2> QED  BY <1>0, <2>1, <2>2, FewerFetches DEF SpinInv
<1>4. ASSUME NEW f \in BagToSet(askedStats), EndStats(f) PROVE Goal
  <2>1. /\ IsABag(Without(askedStats, f))
        /\ BagToSet(Without(askedStats, f)) \subseteq BagToSet(askedStats)
    BY <1>0, RemoveOne
  <2>2. /\ askedStats' = Without(askedStats, f) /\ isLoadingStats' = FALSE
        /\ filters' = filters /\ asked' = asked /\ isLoadingLogs' = isLoadingLogs /\ calm' = calm
    BY <1>4 DEF EndStats
  <2> QED  BY <1>0, <2>1, <2>2, FewerFetches DEF SpinInv
<1>5. ASSUME NEW w \in Windows, handlePaginationModelChange(w) PROVE Goal
  <2>1. Current' \in Question
    BY <1>0, <1>5, Effectives DEF handlePaginationModelChange, Current, Question
  <2>2. CASE pagination' # pagination
    BY <1>0, <1>5, <2>1, <2>2, FetchKeeps DEF handlePaginationModelChange, Effect, Refetch
  <2>3. CASE pagination' = pagination
    <3>1. UNCHANGED <<filters, fetching>>
      BY <1>5, <2>3 DEF handlePaginationModelChange, Effect, Refetch, fetching
    <3> QED  BY <1>1, <3>1
  <2> QED  BY <2>2, <2>3
<1>6. ASSUME NEW form \in Form, setFilters(form) PROVE Goal
  <2>1. filters' \in Form
    BY <1>0, <1>6 DEF setFilters, Form
  <2>2. Current' \in Question
    BY <1>0, <1>6, <2>1, Effectives DEF setFilters, Current, Question
  <2>3. Fetch(Current', asked)
    BY <1>6 DEF setFilters, Effect, Refetch
  <2> QED  BY <1>0, <2>2, <2>3, FetchKeeps
<1>7. ASSUME NEW r \in BagToSet(running), Complete(r) PROVE Goal
  <2>1. r.question \in Question
    BY DEF PageTypeOK, Run
  <2> QED  BY <1>0, <1>7, <2>1, FetchKeeps DEF Complete
<1>8. filterValues \in Form /\ NoFilters \in Form
  BY Effectives DEF PageTypeOK
<1>9. CASE LogsArrive
  BY <1>2, <1>3, <1>9 DEF LogsArrive
<1>10. CASE StatsArrive
  BY <1>4, <1>10 DEF StatsArrive, AnswerStats, FailStats
<1>11. CASE RunEnds
  <2>1. ASSUME NEW r \in BagToSet(running), FailRun(r) PROVE Goal
    BY <1>1, <2>1 DEF FailRun
  <2> QED  BY <1>7, <1>11, <2>1 DEF RunEnds
<1>12. CASE User
  <2>1. handleApplyFilters \/ handleClearFilters => Goal
    BY <1>6, <1>8 DEF handleApplyFilters, handleClearFilters
  <2>2. ASSUME NEW f \in Fields, NEW text \in Texts \cup {Blank}, EditField(f, text)
        PROVE  Goal
    BY <1>1, <2>2 DEF EditField
  <2>3. ASSUME NEW t, handleTabChange(t) PROVE Goal
    BY <1>1, <2>3 DEF handleTabChange
  <2>4. ASSUME NEW what, Start(what) PROVE Goal
    BY <1>1, <2>4 DEF Start
  <2> QED  BY <1>5, <1>12, <2>1, <2>2, <2>3, <2>4 DEF User, handleSeedData, runTest
<1>13. CASE UNCHANGED pageVars
  BY <1>1, <1>13 DEF pageVars
<1> QED  BY <1>9, <1>10, <1>11, <1>12, <1>13 DEF PageNext
-------------------------------------------------------------------------------
(* The store, the form and the panel.                                       *)

\* What PageTypeOK says of what is not a fetch and not a run.
StoreOK ==
    /\ pagination \in [window : Windows, text : BOOLEAN]
    /\ filters \in Form /\ filterValues \in Form
    /\ logs \in Question \cup {Unfetched} /\ stats \in Filters \cup {Unfetched}
    /\ tab \in {"dashboard", "settings", "tests"} /\ cleared \in BOOLEAN
    /\ clicks \in 0..MaxClicks /\ failures \in 0..MaxFailures
PanelOK ==
    /\ IsABag(running) /\ BagToSet(running) \subseteq Run
    /\ loading = {r.what : r \in Mine} /\ (loading # {} => tab = "tests")
    /\ runs \in 0..MaxRuns

LEMMA TypeParts == PageTypeOK <=> FetchesOK /\ StoreOK /\ PanelOK
BY DEF PageTypeOK, FetchesOK, StoreOK, PanelOK

\* The types of the store and of the form through every step.
LEMMA StoreStep ==
    ASSUME PageTypeOK, [PageNext]_pageVars
    PROVE  StoreOK'
<1>0. StoreOK /\ MaxClicks \in Nat /\ MaxFailures \in Nat
  BY TypeParts, DashboardAssumption
<1>1. \A q \in BagToSet(asked) : q \in Question /\ q.window \in Windows
  BY Effectives DEF PageTypeOK
<1>2. \A f \in BagToSet(askedStats) : f \in Filters
  BY DEF PageTypeOK
<1>3. Failure => failures' \in 0..MaxFailures
  BY <1>0 DEF Failure, StoreOK
<1>4. Click => clicks' \in 0..MaxClicks
  BY <1>0 DEF Click, StoreOK
<1>5. CASE LogsArrive
  <2>1. ASSUME NEW q \in BagToSet(asked), AnswerLogs(q) PROVE StoreOK'
    BY <1>0, <1>1, <2>1 DEF AnswerLogs, StoreOK
  <2>2. ASSUME NEW q \in BagToSet(asked), FailLogs(q) PROVE StoreOK'
    BY <1>0, <1>3, <2>2 DEF FailLogs, StoreOK, shown
  <2> QED  BY <1>5, <2>1, <2>2 DEF LogsArrive
<1>6. CASE StatsArrive
  BY <1>0, <1>2, <1>3, <1>6 DEF StatsArrive, AnswerStats, FailStats, EndStats, StoreOK
<1>7. CASE RunEnds
  BY <1>0, <1>3, <1>7 DEF RunEnds, Complete, FailRun, StoreOK, shown
<1>8. ASSUME NEW form \in Form, setFilters(form)
      PROVE  filters' \in Form
  BY <1>0, <1>8 DEF setFilters, Form, StoreOK
<1>9. NoFilters \in Form
  BY Effectives
<1>10. CASE User
  <2>1. ASSUME NEW w \in Windows, handlePaginationModelChange(w) PROVE StoreOK'
    BY <1>0, <1>4, <2>1 DEF handlePaginationModelChange, StoreOK, shown
  <2>2. ASSUME NEW f \in Fields, NEW text \in Texts \cup {Blank}, EditField(f, text)
        PROVE  StoreOK'
    <3>1. filterValues' \in Form
      BY <1>0, <2>2 DEF EditField, StoreOK, Form
    <3> QED  BY <1>0, <1>4, <2>2, <3>1 DEF EditField, StoreOK, shown
  <2>3. ASSUME handleApplyFilters PROVE StoreOK'
    BY <1>0, <1>4, <1>8, <2>3 DEF handleApplyFilters, setFilters, StoreOK, shown
  <2>4. ASSUME handleClearFilters PROVE StoreOK'
    BY <1>0, <1>4, <1>8, <1>9, <2>4 DEF handleClearFilters, setFilters, StoreOK, shown
  <2>5. ASSUME NEW t \in {"dashboard", "settings", "tests"}, handleTabChange(t)
        PROVE  StoreOK'
    BY <1>0, <2>5 DEF handleTabChange, Mounted, StoreOK, shown
  <2>6. ASSUME NEW what, Start(what) PROVE StoreOK'
    BY <1>0, <2>6 DEF Start, StoreOK, shown
  <2> QED  BY <1>10, <2>1, <2>2, <2>3, <2>4, <2>5, <2>6 DEF User, handleSeedData, runTest
<1>11. CASE UNCHANGED pageVars
  BY <1>0, <1>11 DEF pageVars, StoreOK, shown
<1> QED  BY <1>5, <1>6, <1>7, <1>10, <1>11 DEF PageNext

\* A button waits for exactly the test it started, through every step.
LEMMA PanelStep ==
    ASSUME PageTypeOK, RunsInv, [PageNext]_pageVars
    PROVE  PanelOK' /\ RunsInv'
<1> DEFINE Goal == PanelOK' /\ RunsInv'
<1>0. PanelOK /\ MaxRuns \in Nat /\ Current \in Question
  BY TypeParts, Effectives, DashboardAssumption DEF Current, Question, PageTypeOK
<1>1. ASSUME UNCHANGED <<panel, tab>> PROVE Goal
  BY <1>0, <1>1 DEF panel, PanelOK, RunsInv, Mine
<1>2. ASSUME NEW what \in Tests \cup {Seed}, Start(what),
             IF what \in Tests
             THEN tab = "tests" /\ what \notin loading /\ loading' = loading \cup {what}
             ELSE loading' = loading
      PROVE  Goal
  <2> DEFINE run == [what |-> what, question |-> Current, mine |-> what \in Tests]
  <2>1. running' = With(running, run) /\ tab' = tab /\ runs' \in 0..MaxRuns
    BY <1>0, <1>2 DEF Start, PanelOK
  <2>2. run \in Run /\ run.mine = (what \in Tests) /\ run.what = what
    BY <1>0 DEF Run
  <2> HIDE DEF run
  <2>3. /\ IsABag(running') /\ BagToSet(running') = BagToSet(running) \cup {run}
        /\ run \notin BagToSet(running) => running'[run] = 1
        /\ \A y \in BagToSet(running) : y # run => running'[y] = running[y]
    BY <1>0, <2>1, AddOne DEF PanelOK
  <2>4. CASE what \in Tests
    <3>1. Mine' = Mine \cup {run} /\ \A r \in Mine : r.what # what
      BY <1>0, <1>2, <2>2, <2>3, <2>4 DEF Mine, PanelOK
    <3>2. run \notin BagToSet(running) /\ \A r \in Mine : r # run
      BY <2>2, <2>4, <3>1 DEF Mine
    <3>3. loading' = {r.what : r \in Mine'} /\ tab' = "tests"
      BY <1>0, <1>2, <2>1, <2>2, <2>4, <3>1 DEF PanelOK
    <3>4. RunsInv'
      <4>1. running'[run] = 1 /\ \A r \in Mine : running'[r] = running[r]
        BY <2>3, <3>2 DEF Mine
      <4> QED  BY <2>2, <3>1, <3>2, <4>1 DEF RunsInv
    <3> QED  BY <1>0, <2>1, <2>2, <2>3, <3>3, <3>4 DEF PanelOK
  <2>5. CASE what \notin Tests
    <3>1. Mine' = Mine
      BY <2>2, <2>3, <2>5 DEF Mine
    <3>2. \A r \in Mine : r # run
      BY <2>2, <2>5 DEF Mine
    <3>3. RunsInv'
      BY <2>3, <3>1, <3>2 DEF RunsInv, Mine
    <3> QED  BY <1>0, <1>2, <2>1, <2>2, <2>3, <2>5, <3>1, <3>3 DEF PanelOK
  <2> QED  BY <2>4, <2>5
<1>3. ASSUME NEW r \in BagToSet(running), running' = Without(running, r),
             loading' = Ended(r), tab' = tab, runs' = runs
      PROVE  Goal
  <2>1. /\ IsABag(running') /\ BagToSet(running') \subseteq BagToSet(running)
        /\ BagToSet(running) \ {r} \subseteq BagToSet(running')
        /\ running[r] = 1 => r \notin BagToSet(running')
        /\ \A y \in BagToSet(running') : y # r => running'[y] = running[y]
    BY <1>0, <1>3, RemoveOne DEF PanelOK
  <2>2. CASE r.mine
    <3>1. r \in Mine /\ running[r] = 1 /\ \A s \in Mine : s.what = r.what => s = r
      BY <2>2 DEF RunsInv, Mine
    <3>2. Mine' = Mine \ {r}
      BY <2>1, <3>1 DEF Mine
    <3>3. loading' = {s.what : s \in Mine'}
      BY <1>0, <1>3, <2>2, <3>1, <3>2 DEF Ended, PanelOK
    <3>4. RunsInv'
      BY <2>1, <3>2 DEF RunsInv, Mine
    <3> QED  BY <1>0, <1>3, <2>1, <2>2, <3>3, <3>4 DEF PanelOK, Ended
  <2>3. CASE ~r.mine
    <3>1. Mine' = Mine /\ \A s \in Mine : s # r
      BY <2>1, <2>3 DEF Mine
    <3>2. RunsInv'
      BY <2>1, <3>1 DEF RunsInv, Mine
    <3> QED  BY <1>0, <1>3, <2>1, <2>3, <3>1, <3>2 DEF PanelOK, Ended
  <2> QED  BY <2>2, <2>3
<1>4. ASSUME NEW t, handleTabChange(t) PROVE Goal
  <2>1. running' = Orphaned /\ loading' = {} /\ runs' = runs
    BY <1>4 DEF handleTabChange
  <2>2. Mine' = {}
    BY <2>1, OrphanedRuns DEF Mine
  <2> QED  BY <1>0, <2>1, <2>2, OrphanedRuns DEF PanelOK, RunsInv
<1>5. CASE LogsArrive \/ StatsArrive
  BY <1>1, <1>5 DEF LogsArrive, StatsArrive, AnswerLogs, FailLogs, AnswerStats, FailStats, EndStats
<1>6. CASE RunEnds
  BY <1>3, <1>6 DEF RunEnds, Complete, FailRun
<1>7. CASE User
  <2>1. ASSUME handleSeedData PROVE Goal
    BY <1>2, <2>1, DashboardAssumption DEF handleSeedData
  <2>2. ASSUME NEW what \in Tests, runTest(what) PROVE Goal
    BY <1>2, <2>2 DEF runTest
  <2> QED  BY <1>1, <1>4, <1>7, <2>1, <2>2
           DEF User, handlePaginationModelChange, EditField, handleApplyFilters,
               handleClearFilters, setFilters
<1>8. CASE UNCHANGED pageVars
  BY <1>1, <1>8 DEF pageVars
<1> QED  BY <1>5, <1>6, <1>7, <1>8 DEF PageNext
-------------------------------------------------------------------------------
(* What is on screen.                                                       *)

\* The two halves of QuietIsCurrent.
LogsCurrent ==
    asked = EmptyBag =>
        /\ logs # Unfetched /\ logs.window = pagination.window
        /\ calm => logs.filters = Effective(filters)
StatsCurrent == (askedStats = EmptyBag /\ calm) => stats = Effective(filters)

LEMMA QuietParts == QuietIsCurrent <=> (failures = MaxFailures => LogsCurrent /\ StatsCurrent)
BY DEF QuietIsCurrent, LogsCurrent, StatsCurrent

\* A fetch leaves neither half anything to say; the answer that leaves nothing in
\* flight is the one on screen.
LEMMA QuietStep ==
    ASSUME PageTypeOK, SpinInv, CalmInv, QuietIsCurrent, [PageNext]_pageVars
    PROVE  QuietIsCurrent'
<1> SUFFICES ASSUME failures' = MaxFailures
             PROVE  LogsCurrent' /\ StatsCurrent'
  BY DEF QuietIsCurrent, LogsCurrent, StatsCurrent
<1> DEFINE Goal == LogsCurrent' /\ StatsCurrent'
<1>0. /\ IsABag(asked) /\ BagToSet(asked) \subseteq Question
      /\ IsABag(askedStats) /\ BagToSet(askedStats) \subseteq Filters
      /\ pagination.window \in Windows /\ filters \in Form
      /\ failures \in 0..MaxFailures /\ MaxFailures \in Nat
  BY DashboardAssumption DEF PageTypeOK
<1>1. ~Failure
  BY <1>0 DEF Failure
<1>2. ASSUME NEW q \in Question, NEW pending, IsABag(pending),
             BagToSet(pending) \subseteq Question
      PROVE  Fetch(q, pending) => Goal
  BY <1>2, FetchKeeps DEF LogsCurrent, StatsCurrent
<1>3. ASSUME UNCHANGED <<pagination, filters, fetching, shown>>, failures' = failures PROVE Goal
  BY <1>3, QuietParts DEF LogsCurrent, StatsCurrent, fetching, shown
<1>4. ASSUME NEW q \in BagToSet(asked), AnswerLogs(q) PROVE Goal
  <2>1. /\ IsABag(Without(asked, q)) /\ BagToSet(Without(asked, q)) \subseteq Question
    BY <1>0, RemoveOne
  <2>2. q \in Question /\ q.window \in Windows /\ q # Unfetched
    BY <1>0, Effectives, DashboardAssumption
  <2>3. Current' \in Question
    BY <1>0, <1>4, <2>2, Effectives DEF AnswerLogs, Current, Question
  <2>4. CASE pagination' # pagination
    <3>1. Fetch(Current', Without(asked, q))
      BY <1>4, <2>4 DEF AnswerLogs, Effect, Refetch
    <3>2. asked' # EmptyBag /\ askedStats' # EmptyBag
      BY <2>1, <2>3, <3>1, FetchKeeps
    <3> QED  BY <3>2 DEF LogsCurrent, StatsCurrent
  <2>5. CASE pagination' = pagination
    <3>1. /\ logs' = q /\ pagination'.window = q.window /\ filters' = filters
          /\ stats' = stats /\ askedStats' = askedStats /\ calm' = calm /\ failures' = failures
      BY <1>4, <2>5 DEF AnswerLogs, Effect, Refetch
    <3>2. calm => q.filters = Effective(filters)
      BY DEF CalmInv
    <3> QED  BY <2>2, <3>1, <3>2, QuietParts DEF LogsCurrent, StatsCurrent
  <2> QED  BY <2>4, <2>5
<1>5. ASSUME NEW f \in BagToSet(askedStats), AnswerStats(f) PROVE Goal
  <2>1. /\ stats' = f /\ logs' = logs /\ pagination' = pagination /\ filters' = filters
        /\ asked' = asked /\ calm' = calm /\ failures' = failures
    BY <1>5 DEF AnswerStats, EndStats
  <2>2. calm => f = Effective(filters)
    BY DEF CalmInv
  <2> QED  BY <2>1, <2>2, QuietParts DEF LogsCurrent, StatsCurrent
<1>6. ASSUME NEW w \in Windows, handlePaginationModelChange(w) PROVE Goal
  <2>1. Current' \in Question
    BY <1>0, <1>6, Effectives DEF handlePaginationModelChange, Current, Question
  <2>2. CASE pagination' # pagination
    <3>1. Fetch(Current', asked)
      BY <1>6, <2>2 DEF handlePaginationModelChange, Effect, Refetch
    <3>2. asked' # EmptyBag /\ askedStats' # EmptyBag
      BY <1>0, <2>1, <3>1, FetchKeeps
    <3> QED  BY <3>2 DEF LogsCurrent, StatsCurrent
  <2>3. CASE pagination' = pagination
    <3>1. UNCHANGED <<pagination, filters, fetching, shown>> /\ failures' = failures
      BY <1>6, <2>3 DEF handlePaginationModelChange, Effect, Refetch, fetching
    <3> QED  BY <1>3, <3>1
  <2> QED  BY <2>2, <2>3
<1>7. ASSUME NEW form \in Form, setFilters(form) PROVE Goal
  <2>1. filters' \in Form
    BY <1>0, <1>7 DEF setFilters, Form
  <2>2. Current' \in Question
    BY <1>0, <1>7, <2>1, Effectives DEF setFilters, Current, Question
  <2>3. Fetch(Current', asked)
    BY <1>7 DEF setFilters, Effect, Refetch
  <2>4. asked' # EmptyBag /\ askedStats' # EmptyBag
    BY <1>0, <2>2, <2>3, FetchKeeps
  <2> QED  BY <2>4 DEF LogsCurrent, StatsCurrent
<1>8. ASSUME NEW r \in BagToSet(running), Complete(r) PROVE Goal
  <2>1. r.question \in Question
    BY DEF PageTypeOK, Run
  <2> QED  BY <1>0, <1>2, <1>8, <2>1 DEF Complete
<1>9. filterValues \in Form /\ NoFilters \in Form
  BY Effectives DEF PageTypeOK
<1>10. CASE LogsArrive
  BY <1>1, <1>4, <1>10 DEF LogsArrive, FailLogs
<1>11. CASE StatsArrive
  BY <1>1, <1>5, <1>11 DEF StatsArrive, FailStats
<1>12. CASE RunEnds
  BY <1>1, <1>8, <1>12 DEF RunEnds, FailRun
<1>13. CASE User
  <2>1. handleApplyFilters \/ handleClearFilters => Goal
    BY <1>7, <1>9 DEF handleApplyFilters, handleClearFilters
  <2>2. ASSUME NEW f, NEW text, EditField(f, text) PROVE Goal
    BY <1>3, <2>2 DEF EditField
  <2>3. ASSUME NEW t, handleTabChange(t) PROVE Goal
    BY <1>3, <2>3 DEF handleTabChange
  <2>4. ASSUME NEW what, Start(what) PROVE Goal
    BY <1>3, <2>4 DEF Start
  <2> QED  BY <1>6, <1>13, <2>1, <2>2, <2>3, <2>4 DEF User, handleSeedData, runTest
<1>14. CASE UNCHANGED pageVars
  BY <1>3, <1>14 DEF pageVars
<1> QED  BY <1>10, <1>11, <1>12, <1>13, <1>14 DEF PageNext

\* A field the form shows unset does not filter, through every step but a clearing.
LEMMA FormStep ==
    ASSUME PageTypeOK, FormInv, [PageNext]_pageVars
    PROVE  FormInv'
<1>0. filters \in Form /\ filterValues \in Form
  BY DEF PageTypeOK
<1>1. ASSUME UNCHANGED <<filters, filterValues, cleared>> PROVE FormInv'
  BY <1>1 DEF FormInv, Effective
<1>2. ASSUME NEW f \in Fields, NEW text \in Texts \cup {Blank}, EditField(f, text)
      PROVE  FormInv'
  <2>1. /\ filters' = filters /\ cleared' = cleared
        /\ \A g \in Fields : filterValues'[g] = Unset => filterValues[g] = Unset
    BY <1>0, <1>2, DashboardAssumption DEF EditField, Form
  <2> QED  BY <2>1 DEF FormInv, Effective
<1>3. ASSUME handleApplyFilters PROVE FormInv'
  <2>1. /\ filterValues' = filterValues /\ cleared' = cleared
        /\ \A f \in Fields : filterValues[f] = Unset => filters'[f] = filters[f]
    BY <1>3 DEF handleApplyFilters, setFilters
  <2> QED  BY <2>1 DEF FormInv, Effective
<1>4. ASSUME handleClearFilters PROVE FormInv'
  BY <1>4 DEF handleClearFilters, FormInv
<1>5. ASSUME NEW t, handleTabChange(t) PROVE FormInv'
  <2>1. filters' = filters /\ cleared' = (cleared /\ t # "dashboard")
    BY <1>5 DEF handleTabChange
  <2>2. CASE t = "dashboard"
    <3>1. filterValues' = filters
      BY <1>5, <2>2 DEF handleTabChange, Mounted
    <3> QED  BY <2>1, <3>1 DEF FormInv, Effective
  <2>3. CASE t # "dashboard"
    <3>1. filterValues' = filterValues
      BY <1>5, <2>3 DEF handleTabChange, Mounted
    <3> QED  BY <2>1, <2>3, <3>1 DEF FormInv, Effective
  <2> QED  BY <2>2, <2>3
<1>6. CASE LogsArrive \/ StatsArrive
  BY <1>1, <1>6 DEF LogsArrive, StatsArrive, AnswerLogs, FailLogs, AnswerStats, FailStats, EndStats
<1>7. CASE RunEnds
  BY <1>1, <1>7 DEF RunEnds, Complete, FailRun
<1>8. CASE User
  BY <1>1, <1>2, <1>3, <1>4, <1>5, <1>8
     DEF User, handlePaginationModelChange, handleSeedData, runTest, Start
<1>9. CASE UNCHANGED pageVars
  BY <1>1, <1>9 DEF pageVars
<1> QED  BY <1>6, <1>7, <1>8, <1>9 DEF PageNext
-------------------------------------------------------------------------------
\* The first state, with its first fetches, has it.
LEMMA PageAtFirst == PageInit => PageInv
<1> SUFFICES ASSUME PageInit PROVE PageInv
  OBVIOUS
<1>1. Current \in Question /\ Effective(filters) \in Filters /\ NoFilters \in Form
  BY Effectives, DashboardAssumption DEF PageInit, Current, Question
<1>2. IsABag(EmptyBag) /\ BagToSet(EmptyBag) = {}
  BY DEF IsABag, EmptyBag, SetToBag, BagToSet
<1>0. ASSUME NEW x PROVE /\ IsABag(SetToBag({x})) /\ BagToSet(SetToBag({x})) = {x}
                         /\ SetToBag({x}) # EmptyBag
  BY DEF IsABag, EmptyBag, SetToBag, BagToSet
<1>3. /\ IsABag(asked) /\ BagToSet(asked) = {Current} /\ asked # EmptyBag
      /\ IsABag(askedStats) /\ BagToSet(askedStats) = {Effective(filters)}
      /\ askedStats # EmptyBag
  BY <1>0 DEF PageInit
<1>4. FetchesOK /\ SpinInv
  BY <1>1, <1>3 DEF PageInit, FetchesOK, SpinInv
<1>5. StoreOK
  <2>1. /\ pagination \in [window : Windows, text : BOOLEAN]
        /\ MaxClicks \in 0..MaxClicks /\ MaxFailures \in 0..MaxFailures
    BY DashboardAssumption DEF PageInit
  <2> QED  BY <1>1, <2>1 DEF PageInit, StoreOK
<1>6. PanelOK /\ RunsInv
  BY <1>2, DashboardAssumption DEF PageInit, PanelOK, RunsInv, Mine
<1>7. CalmInv
  BY <1>3 DEF PageInit, CalmInv, Current
<1>8. QuietIsCurrent
  BY <1>3 DEF PageInit, QuietIsCurrent
<1>9. FormInv
  BY DEF PageInit, FormInv, Effective, NoFilters
<1> QED  BY <1>4, <1>5, <1>6, <1>7, <1>8, <1>9, TypeParts DEF PageInv, SpinnersAreHonest, SpinInv


\* Every step keeps it.
LEMMA PageKept == PageInv /\ [PageNext]_pageVars => PageInv'
<1> SUFFICES ASSUME PageInv, [PageNext]_pageVars PROVE PageInv'
  OBVIOUS
<1>1. PageTypeOK /\ SpinInv /\ RunsInv /\ CalmInv /\ QuietIsCurrent /\ FormInv
  BY DEF PageInv, SpinnersAreHonest, SpinInv
<1>2. FetchesOK' /\ SpinInv' /\ CalmInv' /\ StoreOK' /\ PanelOK' /\ RunsInv'
  BY <1>1, FetchesStep, StoreStep, PanelStep
<1>3. PageTypeOK'
  BY <1>2 DEF PageTypeOK, FetchesOK, StoreOK, PanelOK, Mine
<1> QED  BY <1>1, <1>2, <1>3, QuietStep, FormStep DEF PageInv, SpinnersAreHonest, SpinInv

\* It is an invariant.
LEMMA PageInvariant == PageSpec => []PageInv
<1>1. PageInit => PageInv BY PageAtFirst
<1>2. PageInv /\ [PageNext]_pageVars => PageInv' BY PageKept
<1> QED BY <1>1, <1>2, PTL DEF PageSpec

\* A spinner of the page turns only while a request is in flight, and a button of the
\* panel waits only for a test of that panel, whatever answers overlap, fail or overtake
\* one another.
THEOREM SpinnersHonest == PageSpec => []SpinnersAreHonest
<1>1. PageInv => SpinnersAreHonest BY DEF PageInv
<1> QED  BY <1>1, PageInvariant, PTL

\* With no fetch in flight and no failure so far, the logs are those of the page of the
\* grid; and of the filters in force, as are the statistics, if none in flight asked with
\* other filters when the last fetch began.
THEOREM QuietPageIsCurrent == PageSpec => []QuietIsCurrent
<1>1. PageInv => QuietIsCurrent BY DEF PageInv
<1> QED  BY <1>1, PageInvariant, PTL

\* The filters in force after Apply are the form's, unless it was cleared since it was
\* mounted.
THEOREM AppliedFiltersApply == PageSpec => AppliedIsInForce
<1>1. ASSUME PageInv, handleApplyFilters, ~cleared
      PROVE  Effective(filters') = Effective(filterValues)
  <2>1. \A f \in Fields :
          filters'[f] = IF filterValues[f] = Unset THEN filters[f] ELSE filterValues[f]
    BY <1>1 DEF handleApplyFilters, setFilters
  <2>2. ASSUME NEW f \in Fields
        PROVE  Effective(filters')[f] = Effective(filterValues)[f]
    <3>1. filterValues[f] = Unset => Effective(filters)[f] = Blank
      BY <1>1 DEF PageInv, FormInv
    <3> QED  BY <2>1, <3>1 DEF Effective
  <2> QED  BY <2>2 DEF Effective
<1>2. PageInv => (handleApplyFilters /\ ~cleared => Effective(filters') = Effective(filterValues))
  BY <1>1
<1> QED  BY <1>2, PageInvariant, PTL DEF PageSpec, AppliedIsInForce
===============================================================================
