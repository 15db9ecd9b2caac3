------------------------------ MODULE Onboarding ------------------------------
(***************************************************************************)
(* How tenants and users come to be: the Google sign-in, which gives a new *)
(* profile a tenant and a user (AuthService.validateUser), and POST        *)
(* /api/tenant, which gives the caller a further tenant with an owner      *)
(* (TenantService.createTenant).                                           *)
(*                                                                         *)
(* Both insert a tenant, await, and insert a user; no transaction joins    *)
(* the two inserts, and nothing is undone when the second one fails.  Two  *)
(* requests are kept apart by the unique indexes alone: a tenant's name, a *)
(* tenant's slug, a user's email.                                          *)
(***************************************************************************)
EXTENDS Naturals, Sequences

CONSTANTS
    Profiles,       \* Google profiles that may sign in
    EmailOf,        \* the email address of a profile
    NameOf,         \* the tenant name built from display name and address
    Emails, Names, Slugs,
    NoEmail,        \* the caller's token carries no email (an administrator's)
    Null,
    Registered,     \* the tenants that are there when requests are first served
    Requests,       \* the requests ever made
    MaxFaults       \* bound: database calls that fail, and stops of the process

ASSUME OnboardingAssumption ==
    /\ EmailOf \in [Profiles -> Emails]
    /\ \A p, q \in Profiles : EmailOf[p] = EmailOf[q] => p = q
    /\ NameOf \in [Profiles -> Names]
    /\ NoEmail \notin Emails
    /\ Null \notin Profiles \cup Emails \cup Names \cup Slugs
    /\ Registered \in Seq([name : Names, slug : Slugs])
    /\ \A i, j \in DOMAIN Registered : Registered[i].name = Registered[j].name => i = j
    /\ MaxFaults \in Nat

VARIABLES
    tenants,        \* the tenants collection; the id of a tenant is its place
    users,          \* the users collection
    requests,       \* each request: the await it stands at and what it holds
    faults          \* failures still to come

vars == <<tenants, users, requests, faults>>

Tenant == [name : Names, slug : Slugs]
User == [googleId : Profiles \cup {Null}, email : Emails, tenant : Nat]

\* The awaits of validateUser with createNewUserWithTenant, and of createTenant.
Pending == {"finding", "touching", "checking", "creating_tenant", "creating_user",
            "populating", "validated"}

Request == [kind : {"none", "sign_in", "post"},
            pc : {"idle", "answered", "failed", "lost"} \cup Pending,
            googleId : Profiles \cup {Null},
            email : Emails \cup {NoEmail, Null},
            name : Names \cup {Null},
            slug : Slugs \cup {Null},
            tenant : Nat]   \* the id of the tenant it inserted, 0 before

TypeOK ==
    /\ tenants \in Seq(Tenant)
    /\ users \in Seq(User)
    /\ \A i \in DOMAIN users : users[i].tenant \in DOMAIN tenants
    /\ requests \in [Requests -> Request]
    /\ faults \in Nat

Idle == [kind |-> "none", pc |-> "idle", googleId |-> Null, email |-> Null,
         name |-> Null, slug |-> Null, tenant |-> 0]

Init ==
    /\ tenants = Registered
    /\ users = << >>
    /\ requests = [r \in Requests |-> Idle]
    /\ faults = MaxFaults
-------------------------------------------------------------------------------
Goes(r, pc) == requests' = [requests EXCEPT ![r].pc = pc]

\* GoogleStrategy.validate calls validateUser with the profile Google sent.
SignIn(r, p) ==
    /\ requests[r].pc = "idle"
    /\ requests' = [requests EXCEPT ![r] =
          [Idle EXCEPT !.kind = "sign_in", !.pc = "finding", !.googleId = p,
                       !.email = EmailOf[p], !.name = NameOf[p]]]
    /\ UNCHANGED <<tenants, users, faults>>

\* TenantController.createTenant: the owner is the caller, known from a token
\* that names a user or, for an administrator, nobody.  The owner's googleId
\* would be the caller's database id, which no profile has.
Post(r, e, n, s) ==
    /\ requests[r].pc = "idle"
    /\ e = NoEmail \/ \E i \in DOMAIN users : users[i].email = e
    /\ requests' = [requests EXCEPT ![r] =
          [Idle EXCEPT !.kind = "post", !.pc = "checking", !.email = e,
                       !.name = n, !.slug = s]]
    /\ UNCHANGED <<tenants, users, faults>>

\* userModel.findOne by Google id; who is known only has lastLoginAt updated.
FindUser(r) ==
    /\ requests[r].pc = "finding"
    /\ Goes(r, IF \E i \in DOMAIN users : users[i].googleId = requests[r].googleId
               THEN "touching" ELSE "creating_tenant")
    /\ UNCHANGED <<tenants, users, faults>>

Touch(r) ==
    /\ requests[r].pc = "touching"
    /\ Goes(r, "populating")
    /\ UNCHANGED <<tenants, users, faults>>

\* Mutant of CheckSlug: a taken slug is not answered.
WaitForSlug(r) ==
    /\ requests[r].pc = "checking"
    /\ \A i \in DOMAIN tenants : tenants[i].slug # requests[r].slug
    /\ Goes(r, "creating_tenant")
    /\ UNCHANGED <<tenants, users, faults>>

\* tenantModel.findOne by slug: ConflictException if it is taken.
CheckSlug(r) ==
    /\ requests[r].pc = "checking"
    /\ Goes(r, IF \E i \in DOMAIN tenants : tenants[i].slug = requests[r].slug
               THEN "failed" ELSE "creating_tenant")
    /\ UNCHANGED <<tenants, users, faults>>

\* Mutant of TenantTaken: the name is not unique.
SlugTaken(n, s) == \E i \in DOMAIN tenants : tenants[i].slug = s

\* The unique indexes.
TenantTaken(n, s) == \E i \in DOMAIN tenants : tenants[i].name = n \/ tenants[i].slug = s
EmailTaken(e) == \E i \in DOMAIN users : users[i].email = e

\* The slug a sign-in tries ends in six digits of the clock; a POST brings its own.
SlugTried(r, s) == requests[r].kind = "post" => s = requests[r].slug

InsertTenant(r, s) ==
    tenants' = Append(tenants, [name |-> requests[r].name, slug |-> s])

\* Mutants of CreateTenant: a tenant of the same name is used instead; the error
\* of a refused insert is swallowed.
FindOrCreateTenant(r, s) ==
    /\ requests[r].pc = "creating_tenant" /\ SlugTried(r, s)
    /\ \/ \E i \in DOMAIN tenants :
             /\ tenants[i].name = requests[r].name
             /\ requests' = [requests EXCEPT ![r] =
                   [@ EXCEPT !.pc = "creating_user", !.tenant = i]]
             /\ UNCHANGED tenants
       \/ /\ ~TenantTaken(requests[r].name, s)
          /\ InsertTenant(r, s)
          /\ requests' = [requests EXCEPT ![r] =
                [@ EXCEPT !.pc = "creating_user", !.tenant = Len(tenants) + 1]]
    /\ UNCHANGED <<users, faults>>

CreateTenantAnyway(r, s) ==
    /\ requests[r].pc = "creating_tenant" /\ SlugTried(r, s)
    /\ IF TenantTaken(requests[r].name, s)
       THEN Goes(r, "creating_user") /\ UNCHANGED tenants
       ELSE /\ InsertTenant(r, s)
            /\ requests' = [requests EXCEPT ![r] =
                  [@ EXCEPT !.pc = "creating_user", !.tenant = Len(tenants) + 1]]
    /\ UNCHANGED <<users, faults>>

CreateTenant(r, s) ==
    /\ requests[r].pc = "creating_tenant" /\ SlugTried(r, s)
    /\ \/ /\ TenantTaken(requests[r].name, s)
          /\ Goes(r, "failed")
          /\ UNCHANGED tenants
       \/ /\ ~TenantTaken(requests[r].name, s)
          /\ InsertTenant(r, s)
          /\ requests' = [requests EXCEPT ![r] =
                [@ EXCEPT !.pc = "creating_user", !.tenant = Len(tenants) + 1]]
    /\ UNCHANGED <<users, faults>>

\* Refused by the schema (email is required) or by the index.
UserRefused(r) == requests[r].email = NoEmail \/ EmailTaken(requests[r].email)

InsertUser(r) ==
    users' = Append(users, [googleId |-> requests[r].googleId,
                            email |-> requests[r].email, tenant |-> requests[r].tenant])

CreateUser(r) ==
    /\ requests[r].pc = "creating_user"
    /\ \/ UserRefused(r) /\ Goes(r, "failed") /\ UNCHANGED users
       \/ /\ ~UserRefused(r)
          /\ InsertUser(r)
          /\ Goes(r, IF requests[r].kind = "sign_in" THEN "populating" ELSE "answered")
    /\ UNCHANGED <<tenants, faults>>

\* user.populate; the strategy is done and the callback route takes over.
Populate(r) ==
    /\ requests[r].pc = "populating"
    /\ Goes(r, "validated")
    /\ UNCHANGED <<tenants, users, faults>>

\* googleAuthRedirect validates req.user a second time.  That is the user
\* document, which has no emails: validateUser throws, no token is signed.
Redirect(r) ==
    /\ requests[r].pc = "validated"
    /\ Goes(r, "failed")
    /\ UNCHANGED <<tenants, users, faults>>

\* A database call of r rejects; an insert may have taken effect all the same.
DbFails(r) ==
    /\ requests[r].pc \in Pending \ {"validated"}
    /\ faults > 0 /\ faults' = faults - 1
    /\ Goes(r, "failed")
    /\ \/ UNCHANGED <<tenants, users>>
       \/ /\ requests[r].pc = "creating_tenant"
          /\ \E s \in Slugs : /\ SlugTried(r, s) /\ ~TenantTaken(requests[r].name, s)
                              /\ InsertTenant(r, s)
          /\ UNCHANGED users
       \/ /\ requests[r].pc = "creating_user" /\ ~UserRefused(r)
          /\ InsertUser(r)
          /\ UNCHANGED tenants

\* The process stops: what was inserted stays, nobody goes on.
Crash ==
    /\ faults > 0 /\ faults' = faults - 1
    /\ requests' = [r \in Requests |-> IF requests[r].pc \in Pending
                                       THEN [requests[r] EXCEPT !.pc = "lost"]
                                       ELSE requests[r]]
    /\ UNCHANGED <<tenants, users>>
-------------------------------------------------------------------------------
Step(r) ==
    \/ FindUser(r) \/ Touch(r) \/ CheckSlug(r)
    \/ \E s \in Slugs : CreateTenant(r, s)
    \/ CreateUser(r) \/ Populate(r) \/ Redirect(r)

Arrive(r) ==
    \/ \E p \in Profiles : SignIn(r, p)
    \/ \E e \in Emails \cup {NoEmail}, n \in Names, s \in Slugs : Post(r, e, n, s)

Next ==
    \/ \E r \in Requests : Arrive(r) \/ Step(r) \/ DbFails(r)
    \/ Crash

Spec == Init /\ [][Next]_vars

\* Every database call is answered in the end.
FairSpec == Spec /\ \A r \in Requests : WF_vars(Step(r))
-------------------------------------------------------------------------------
\* No two users share a tenant: however sign-ins and POSTs race, collide in
\* their names or fail half-way, nobody is let into a tenant made for another.
PrivateTenants ==
    \A i, j \in DOMAIN users : users[i].tenant = users[j].tenant => i = j

Owned(t) == \E i \in DOMAIN users : users[i].tenant = t

\* Sign-ins alone leave no tenant without a user: the tenant's name, the same in
\* every first sign-in of a profile, lets one of them through and stops the others
\* before they insert anything.  Only a failed call or a stop leaves such a tenant.
RacesLeaveNoOrphan ==
    \A r \in Requests :
        /\ requests[r].kind = "sign_in" /\ requests[r].tenant # 0
        /\ requests[r].pc # "creating_user"
        /\ faults = MaxFaults
        => Owned(requests[r].tenant)

SignedUp(p) == \E i \in DOMAIN users : users[i].googleId = p

\* The name of p's tenant is taken, p has no user, and no sign-in of p that holds
\* a tenant, or may insert one, is under way.
Barred(p) ==
    /\ ~SignedUp(p)
    /\ \E i \in DOMAIN tenants : tenants[i].name = NameOf[p]
    /\ \A r \in Requests : requests[r].googleId = p => requests[r].pc # "creating_user"

\* A profile that was left half-way, or whose tenant name another one has, is
\* never signed up by trying again.
BarredForGood == [][\A p \in Profiles : Barred(p) => Barred(p)']_vars

\* A sign-in whose user was validated is answered with a token
\* (auth.controller.ts:24: "returns a JWT after a successful login").
ValidatedGetsToken ==
    [][\A r \in Requests : requests[r].pc = "validated" /\ faults' = faults
                             => requests'[r].pc # "failed"]_vars

\* Every request is answered, fails, or is lost with the process.
EventuallyEnds ==
    \A r \in Requests :
        requests[r].pc # "idle" ~> requests[r].pc \in {"answered", "failed", "lost"}
===============================================================================
