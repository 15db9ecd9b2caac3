-------------------------------- MODULE Session --------------------------------
(***************************************************************************)
(* Signed-in users and administrators in the browser.  The tabs of one     *)
(* browser share localStorage: the user's session under auth-storage,      *)
(* which every set() of a tab's store overwrites and a tab reads when its  *)
(* page loads, while API requests read it each time; and admin_token with  *)
(* admin_user, which no store mirrors.  A page load drops the store and    *)
(* the requests in flight of its tab, and verifies the user's token once.  *)
(* Back and Forward load a page, or move between the routes of the page    *)
(* that is loaded, and then its store and its requests live on; of the     *)
(* history only the addresses with a token are kept, so that Back may find *)
(* a route that was not visited.  A page that the browser freezes and      *)
(* thaws (its back/forward cache) is not modelled.  The administrator's    *)
(* account is created by a check followed by an insert.                    *)
(***************************************************************************)
EXTENDS Naturals, FiniteSets

CONSTANTS
    Tabs,
    Users,          \* the users' tokens; each stands for its user, too
    Admins,         \* the administrator's tokens
    None,
    MaxActions,     \* bound: actions of people
    MaxExpiries,    \* bound: tokens that expire
    MaxFaults       \* bound: requests that fail otherwise

ASSUME SessionAssumption ==
    /\ None \notin Users \cup Admins /\ Users \cap Admins = {}
    /\ MaxActions \in Nat /\ MaxExpiries \in Nat /\ MaxFaults \in Nat

VARIABLES
    page,           \* the route each tab shows
    store,          \* each tab's authStore, isLoading apart
    isLoading,
    verifying,      \* the token each tab's verifyAuth waits for
    returned,       \* the tokens of the callback addresses in each tab's history
    storage,        \* auth-storage
    adminToken,     \* admin_token; admin_user is set and removed with it
    asking,         \* each tab's requests to the administrator's endpoints
    account,        \* whether the account admin is there
    hashing,        \* creations that found no account and hash the password
    issued, expired,    \* the administrator's tokens given out; tokens refused now
    opened,         \* history: the tabs ever opened
    wandered,       \* history: the tabs that went back or forward while they waited
    actions, faults

user == <<store, isLoading, verifying, returned, storage>>
browser == <<page, user, adminToken, asking, opened, wandered>>
server == <<account, hashing, issued, expired>>
vars == <<browser, server, actions, faults>>

UserRoutes == {"login", "dashboard", "google"}
Routes == {"closed", "adminLogin", "adminDashboard"} \cup UserRoutes

Saved == [token : Users \cup {None}, user : Users \cup {None}, isAuthenticated : BOOLEAN]
Nobody == [token |-> None, user |-> None, isAuthenticated |-> FALSE]

\* submitting: the login form waits for an answer.  left: the requests the dashboard on
\* screen waits for, behind its spinner; token: what they carry.  late, stale: the logins
\* in flight, and the tokens of the requests in flight, that no page waits for.
Asking == [submitting : BOOLEAN, late : Nat, left : 0..3, token : Admins \cup {None},
           stale : SUBSET (Admins \cup {None})]
Nothing == [submitting |-> FALSE, late |-> 0, left |-> 0, token |-> None, stale |-> {}]

TypeOK ==
    /\ page \in [Tabs -> Routes]
    /\ store \in [Tabs -> Saved] /\ storage \in Saved
    /\ verifying \in [Tabs -> Users \cup {None}] /\ isLoading \in [Tabs -> BOOLEAN]
    /\ returned \in [Tabs -> SUBSET Users]
    /\ adminToken \in issued \cup {None}
    /\ asking \in [Tabs -> Asking]
    /\ \A t \in Tabs : /\ asking[t].left > 0 => page[t] = "adminDashboard"
                       /\ asking[t].submitting => page[t] = "adminLogin"
                       /\ isLoading[t] => verifying[t] # None
    /\ account \in BOOLEAN /\ (issued # {} => account)
    /\ hashing \in Nat
    /\ issued \subseteq Admins /\ expired \subseteq Users \cup Admins
    /\ opened \subseteq Tabs /\ wandered \subseteq Tabs
    /\ actions \in 0..MaxActions /\ faults \in 0..MaxFaults

Init ==
    /\ page = [t \in Tabs |-> "closed"]
    /\ store = [t \in Tabs |-> Nobody] /\ storage = Nobody
    /\ verifying = [t \in Tabs |-> None] /\ isLoading = [t \in Tabs |-> FALSE]
    /\ returned = [t \in Tabs |-> {}]
    /\ adminToken = None /\ asking = [t \in Tabs |-> Nothing]
    /\ account = FALSE /\ hashing = 0
    /\ issued = {} /\ expired = {} /\ opened = {} /\ wandered = {}
    /\ actions = MaxActions /\ faults = MaxFaults

Action == actions > 0 /\ actions' = actions - 1
Fault == faults > 0 /\ faults' = faults - 1
-------------------------------------------------------------------------------
\* ProtectedRoute sends who is not authenticated from the dashboard to /login.
Routed(route, saved) ==
    IF route = "dashboard" /\ ~saved.isAuthenticated THEN "login" ELSE route

\* A page loads with what auth-storage held; its effects run children first: the
\* login of a callback, the requests of the administrator's dashboard, then
\* verifyAuth, which starts a request if there is a token.
Loaded(t, route, saved) ==
    /\ opened' = opened \cup {t} /\ wandered' = wandered \ {t}
    /\ store' = [store EXCEPT ![t] =
          [saved EXCEPT !.isAuthenticated = @ /\ saved.token # None]]
    /\ storage' = store'[t]
    /\ verifying' = [verifying EXCEPT ![t] = saved.token]
    /\ isLoading' = [isLoading EXCEPT ![t] = saved.token # None]
    /\ page' = [page EXCEPT ![t] = Routed(route, store'[t])]

\* A page goes, or a batch has failed: what is in flight goes on, awaited by nobody.
Unawaited(a) ==
    [submitting |-> FALSE, late |-> IF a.submitting THEN a.late + 1 ELSE a.late,
     left |-> 0, token |-> None,
     stale |-> IF a.left > 0 THEN a.stale \cup {a.token} ELSE a.stale]

\* fetchDashboardData: three requests with the token of this moment.
fetchDashboardData(a, token) == [Unawaited(a) EXCEPT !.left = 3, !.token = token]

\* Someone opens, reloads or types an address, or goes back to another page.
Open(t, route) ==
    /\ Action
    /\ Loaded(t, route, storage)
    /\ asking' = [asking EXCEPT ![t] =
          IF route = "adminDashboard" THEN fetchDashboardData(Nothing, adminToken) ELSE Nothing]
    /\ UNCHANGED <<returned, adminToken, server, faults>>

\* Back or Forward within the page.  The routes of users and of the administrator have
\* no link between them, only addresses to load.
Traverse(t, route) ==
    /\ {page[t], route} \in {{"login", "dashboard"}, {"adminLogin", "adminDashboard"}}
    /\ Action
    /\ page' = [page EXCEPT ![t] = Routed(route, store[t])]
    /\ asking' = [asking EXCEPT ![t] =
          IF route = "adminDashboard" THEN fetchDashboardData(@, adminToken) ELSE Unawaited(@)]
    /\ wandered' = IF asking[t].submitting \/ asking[t].left > 0
                   THEN wandered \cup {t} ELSE wandered
    /\ UNCHANGED <<user, adminToken, opened, server, faults>>

\* googleLogin leaves the page for the server's.
googleLogin(t) ==
    /\ page[t] = "login" /\ Action
    /\ page' = [page EXCEPT ![t] = "google"]
    /\ store' = [store EXCEPT ![t] = Nobody] /\ verifying' = [verifying EXCEPT ![t] = None]
    /\ isLoading' = [isLoading EXCEPT ![t] = FALSE]
    /\ UNCHANGED <<returned, storage, adminToken, asking, opened, wandered, server, faults>>

SignedIn(u) == [token |-> u, user |-> u, isAuthenticated |-> TRUE]

\* The address /auth/callback loads: from Google with a token that can be decoded or
\* without one, or once more from the tab's history.
AuthCallback(t, u) ==
    /\ \/ page[t] = "google" /\ UNCHANGED actions
       \/ u \in returned[t] /\ Action
    /\ IF u = None THEN Loaded(t, "login", storage) ELSE Loaded(t, "dashboard", SignedIn(u))
    /\ returned' = [returned EXCEPT ![t] = @ \cup ({u} \ {None})]
    /\ asking' = [asking EXCEPT ![t] = Nothing]
    /\ UNCHANGED <<adminToken, server, faults>>

\* set() of a tab's store, which persists it; the tab shows where that leads.
Set(t, route, saved) ==
    /\ store' = [store EXCEPT ![t] = saved] /\ storage' = saved
    /\ page' = [page EXCEPT ![t] = Routed(route, saved)]

\* Back or Forward within the page to /auth/callback, which pushed /dashboard: it signs
\* in with the token of its address and pushes /dashboard again.
ReturnToCallback(t, u) ==
    /\ page[t] \in {"login", "dashboard"} /\ u \in returned[t] /\ Action
    /\ Set(t, "dashboard", SignedIn(u))
    /\ isLoading' = [isLoading EXCEPT ![t] = FALSE]
    /\ wandered' = IF verifying[t] # None THEN wandered \cup {t} ELSE wandered
    /\ UNCHANGED <<verifying, returned, adminToken, asking, opened, server, faults>>

VerifySucceeds(t) ==
    /\ verifying[t] \notin expired \cup {None}
    /\ verifying' = [verifying EXCEPT ![t] = None]
    /\ isLoading' = [isLoading EXCEPT ![t] = FALSE]
    /\ Set(t, page[t], [store[t] EXCEPT !.user = verifying[t], !.isAuthenticated = TRUE])
    /\ UNCHANGED <<returned, adminToken, asking, opened, wandered, server, actions, faults>>

\* Mutants of Rejected: the spinner is left as it is; the store is reset without
\* being persisted.
RejectedSpinning(t) == UNCHANGED isLoading /\ Set(t, page[t], Nobody)
RejectedUnsaved(t) ==
    /\ isLoading' = [isLoading EXCEPT ![t] = FALSE] /\ UNCHANGED storage
    /\ store' = [store EXCEPT ![t] = Nobody]
    /\ page' = [page EXCEPT ![t] = Routed(@, Nobody)]

\* The catch of verifyAuth signs out.
Rejected(t) ==
    isLoading' = [isLoading EXCEPT ![t] = FALSE] /\ Set(t, page[t], Nobody)

\* verifyToken turns every failure into an invalid token.
VerifyFails(t) ==
    /\ verifying[t] # None /\ verifying' = [verifying EXCEPT ![t] = None]
    /\ \/ verifying[t] \in expired /\ UNCHANGED faults
       \/ Fault
    /\ Rejected(t)
    /\ UNCHANGED <<returned, adminToken, asking, opened, wandered, server, actions>>

\* Mutant of HeaderShown: the spinner does not hide the page.
HeaderShownAlways(t) == page[t] = "dashboard"
\* The header with its logout is part of the protected page.
HeaderShown(t) == page[t] = "dashboard" /\ ~isLoading[t]

logout(t) ==
    /\ HeaderShown(t) /\ Action
    /\ Set(t, page[t], Nobody)
    /\ isLoading' = [isLoading EXCEPT ![t] = FALSE]
    /\ UNCHANGED <<verifying, returned, adminToken, asking, opened, wandered, server, faults>>
-------------------------------------------------------------------------------
\* AdminLogin.handleSubmit, once at a time.
SubmitLogin(t) ==
    /\ page[t] = "adminLogin" /\ ~asking[t].submitting /\ Action
    /\ asking' = [asking EXCEPT ![t].submitting = TRUE]
    /\ UNCHANGED <<page, user, adminToken, opened, wandered, server, faults>>

\* A login is answered: the one the form waits for (own), or one of a form that is gone.
LoginInFlight(t, own) == IF own THEN asking[t].submitting ELSE asking[t].late > 0
LoginAnswered(t, own) ==
    IF own THEN [asking[t] EXCEPT !.submitting = FALSE] ELSE [asking[t] EXCEPT !.late = @ - 1]

\* AdminService.login finds the account and the password is right: a new token is
\* stored, and the dashboard mounts without a page load, unless it is shown already.
LoginSucceeds(t, own) ==
    /\ LoginInFlight(t, own) /\ account
    /\ \E a \in Admins \ issued :
         /\ issued' = issued \cup {a}
         /\ adminToken' = a
         /\ asking' = [asking EXCEPT ![t] =
               IF page[t] = "adminDashboard" THEN LoginAnswered(t, own)
               ELSE fetchDashboardData(LoginAnswered(t, own), a)]
    /\ page' = [page EXCEPT ![t] = "adminDashboard"]
    /\ UNCHANGED <<user, opened, wandered, account, hashing, expired, actions, faults>>

\* The response interceptor on 401: the token goes, whichever it is now, and the
\* page loads anew.
Unauthorized(t) ==
    /\ adminToken' = None
    /\ Loaded(t, "adminLogin", storage)
    /\ asking' = [asking EXCEPT ![t] = Nothing]
    /\ UNCHANGED returned

\* No account, or a wrong password: the server answers 401.
LoginRefused(t) ==
    /\ \E own \in BOOLEAN : LoginInFlight(t, own)
    /\ Unauthorized(t)
    /\ UNCHANGED <<server, actions, faults>>

LoginFails(t, own) ==
    /\ LoginInFlight(t, own) /\ Fault
    /\ asking' = [asking EXCEPT ![t] = LoginAnswered(t, own)]
    /\ UNCHANGED <<page, user, adminToken, opened, wandered, server, actions>>

\* One answer less for the dashboard to wait for: the last one ends its spinner, and so
\* does the first failure, while others are still in flight.
Answered(t, fails) ==
    /\ asking[t].left > 0
    /\ LET a == [asking[t] EXCEPT !.left = @ - 1]
       IN  asking' = [asking EXCEPT ![t] = IF fails \/ a.left = 0 THEN Unawaited(a) ELSE a]
    /\ UNCHANGED <<page, user, adminToken, opened, wandered, server, actions>>

\* AdminAuthGuard accepts the token of a request.
DataArrives(t) ==
    /\ asking[t].token \in issued \ expired
    /\ Answered(t, FALSE) /\ UNCHANGED faults

\* The network or the server fails.
DataFails(t) == Answered(t, TRUE) /\ Fault

\* The last of the requests with a token that no page waits for arrives, or fails: the
\* answers of the others change nothing.
StaleAnswered(t, token) ==
    /\ token \in asking[t].stale
    /\ asking' = [asking EXCEPT ![t].stale = @ \ {token}]
    /\ UNCHANGED <<page, user, adminToken, opened, wandered, server, actions, faults>>

\* AdminAuthGuard refuses a request, whoever waits for it: no token, or an expired one.
DataRefused(t, token) ==
    /\ \/ asking[t].left > 0 /\ token = asking[t].token
       \/ token \in asking[t].stale
    /\ token \in {None} \cup expired
    /\ Unauthorized(t)
    /\ UNCHANGED <<server, actions, faults>>

\* Mutant of AdminShown: the spinner does not hide the page.
AdminShownAlways(t) == page[t] = "adminDashboard"
\* The dashboard with its logout and its buttons.
AdminShown(t) == page[t] = "adminDashboard" /\ asking[t].left = 0

\* AdminDashboard.handleLogout moves to the login page without a page load.
handleLogout(t) ==
    /\ AdminShown(t) /\ Action
    /\ adminToken' = None
    /\ page' = [page EXCEPT ![t] = "adminLogin"]
    /\ asking' = [asking EXCEPT ![t] = Unawaited(@)]
    /\ UNCHANGED <<user, opened, wandered, server, faults>>

\* The button that fetches the dashboard's data again.
Refresh(t) ==
    /\ AdminShown(t) /\ Action
    /\ asking' = [asking EXCEPT ![t] = fetchDashboardData(@, adminToken)]
    /\ UNCHANGED <<page, user, adminToken, opened, wandered, server, faults>>
-------------------------------------------------------------------------------
\* createDefaultAdmin, of the dashboard's button or called by an operator: findOne,
\* then hash and create; the username is unique.
FindAdmin ==
    /\ Action
    /\ hashing' = IF account THEN hashing ELSE hashing + 1
    /\ UNCHANGED <<browser, account, issued, expired, faults>>
CreateAdmin ==
    /\ hashing > 0 /\ hashing' = hashing - 1
    /\ account' = TRUE
    /\ UNCHANGED <<browser, issued, expired, actions, faults>>

Expire(token) ==
    /\ Cardinality(expired) < MaxExpiries
    /\ token \in (Users \cup issued) \ expired
    /\ expired' = expired \cup {token}
    /\ UNCHANGED <<browser, account, hashing, issued, actions, faults>>

Answer(t) == VerifySucceeds(t) \/ VerifyFails(t)
AdminAnswer(t) ==
    \/ \E own \in BOOLEAN : LoginSucceeds(t, own) \/ LoginFails(t, own)
    \/ LoginRefused(t)
    \/ DataArrives(t) \/ DataFails(t)
    \/ \E token \in Admins \cup {None} : StaleAnswered(t, token) \/ DataRefused(t, token)

Next ==
    \/ \E t \in Tabs :
         \/ \E route \in {"login", "dashboard", "adminLogin", "adminDashboard"} :
                Open(t, route) \/ Traverse(t, route)
         \/ \E u \in Users \cup {None} : AuthCallback(t, u) \/ ReturnToCallback(t, u)
         \/ googleLogin(t) \/ logout(t)
         \/ SubmitLogin(t) \/ handleLogout(t) \/ Refresh(t)
         \/ Answer(t) \/ AdminAnswer(t)
    \/ FindAdmin \/ CreateAdmin
    \/ \E token \in Users \cup Admins : Expire(token)

Spec == Init /\ [][Next]_vars

\* Requests are answered, or fail.
FairSpec == Spec /\ \A t \in Tabs : WF_vars(Answer(t)) /\ WF_vars(AdminAnswer(t))
-------------------------------------------------------------------------------
Whole(saved) == saved.token # None /\ saved.user = saved.token

\* A tab that is signed in and has verified its token shows the user of that token, not
\* half a session nor the name of another, however verifications, logouts and page loads
\* of several tabs interleave and whatever half session another tab stored: unless Back
\* or Forward signed in while the tab's verification was in flight, which then answers
\* for a token the tab no longer holds.  (The variables have their types, too.)
SessionsAreWhole ==
    /\ TypeOK
    /\ \A t \in Tabs \ wandered :
         /\ isLoading[t] = (verifying[t] # None)
         /\ isLoading[t] => store[t].token = verifying[t]
         /\ ~isLoading[t] /\ store[t].isAuthenticated => Whole(store[t])

\* As long as a browser has had one tab only, its API requests carry the token that its
\* page is signed in with.  (Another tab that signs in or out changes it for both.  Whose
\* name the page shows beside that token, SessionsAreWhole says.)
AloneAsksAsShown ==
    \A t \in Tabs :
        opened = {t} /\ page[t] \in {"login", "dashboard"} => storage.token = store[t].token

\* As long as a browser has had one tab only, no request failed and Back or Forward left
\* no page of the administrator that was waiting, a token that the server accepts is
\* removed by a logout or a refused login only: no refusal of an older token reaches the
\* page that holds a newer one.
AloneKeepsToken ==
    [][\A t \in Tabs :
         (/\ opened = {t} /\ t \notin wandered /\ faults' = MaxFaults
          /\ adminToken \notin expired \cup {None} /\ adminToken' = None)
            => handleLogout(t) \/ LoginRefused(t)]_vars

\* No spinner turns for ever, and a token that has expired when the page loads leaves
\* the tab at /login, or elsewhere than the dashboard, not signed in.
EventuallyVerified ==
    \A t \in Tabs :
        /\ isLoading[t] ~> ~isLoading[t]
        /\ asking[t].left > 0 ~> asking[t].left = 0
        /\ (isLoading[t] /\ verifying[t] \in expired)
              ~> (store[t].token = None \/ store[t].token \notin expired)
===============================================================================
