--------------------------- MODULE OnboardingProofs ---------------------------
(***************************************************************************)
(* What sign-in and tenant creation guarantee for any profiles, requests   *)
(* and failures: users do not share tenants, races alone leave no orphaned *)
(* tenant, and a profile left half-way never gets in.                      *)
(***************************************************************************)
EXTENDS Onboarding, TLAPS, SequenceTheorems

\* What a request carries is what its kind says.  The owner a POST names has an
\* account already, or no address.
Carries(r) ==
    /\ requests[r].pc = "idle" => requests[r] = Idle
    /\ requests[r].pc # "idle" => requests[r].kind # "none"
    /\ requests[r].kind = "sign_in" =>
         /\ requests[r].googleId \in Profiles
         /\ requests[r].email = EmailOf[requests[r].googleId]
         /\ requests[r].name = NameOf[requests[r].googleId]
    /\ requests[r].kind = "post" =>
         /\ requests[r].googleId = Null
         /\ requests[r].name \in Names
         /\ UserRefused(r)

RequestInv == \A r \in Requests : Carries(r)

\* r's tenant belongs to nobody.
Vacant(r) ==
    /\ requests[r].tenant # 0
    /\ \A i \in DOMAIN users : users[i].tenant # requests[r].tenant

\* The index on names, and who inserted a tenant: one request, which keeps it to
\* itself until it inserts the user.
TenantInv ==
    /\ \A i, j \in DOMAIN tenants : tenants[i].name = tenants[j].name => i = j
    /\ \A r \in Requests :
         /\ requests[r].pc = "creating_user" => Vacant(r)
         /\ requests[r].tenant # 0 =>
              /\ requests[r].tenant \in DOMAIN tenants
              /\ tenants[requests[r].tenant].name = requests[r].name
    /\ \A r, q \in Requests :
         requests[r].tenant # 0 /\ requests[r].tenant = requests[q].tenant => r = q

\* Users come from sign-ins, each with the tenant named after the profile.
UserInv ==
    \A i \in DOMAIN users :
        /\ users[i].googleId \in Profiles
        /\ users[i].email = EmailOf[users[i].googleId]
        /\ tenants[users[i].tenant].name = NameOf[users[i].googleId]

OnboardingInv ==
    /\ TypeOK
    /\ RequestInv
    /\ TenantInv
    /\ UserInv
    /\ PrivateTenants
    /\ RacesLeaveNoOrphan
    /\ faults <= MaxFaults
-------------------------------------------------------------------------------
(* The kinds of steps.                                                      *)

\* r moves on or gives up and inserts nothing.
Walks(r) ==
    /\ UNCHANGED <<tenants, users>>
    /\ requests[r].pc \in Pending
    /\ \E pc \in (Pending \ {"creating_user"}) \cup {"failed"} : Goes(r, pc)
    /\ \/ faults' = faults /\ (requests[r].pc = "creating_user" => UserRefused(r))
       \/ faults' \in Nat /\ faults' < faults

\* r inserts a tenant; if its reply is lost r does not know.
Founds(r) ==
    /\ UNCHANGED users
    /\ requests[r].pc = "creating_tenant"
    /\ \E s \in Slugs : ~TenantTaken(requests[r].name, s) /\ InsertTenant(r, s)
    /\ \/ /\ faults' = faults
          /\ requests' = [requests EXCEPT ![r] =
               [@ EXCEPT !.pc = "creating_user", !.tenant = Len(tenants) + 1]]
       \/ faults' \in Nat /\ faults' < faults /\ Goes(r, "failed")

\* r inserts its user.
Joins(r) ==
    /\ UNCHANGED tenants
    /\ requests[r].pc = "creating_user" /\ ~UserRefused(r)
    /\ InsertUser(r)
    /\ \E pc \in {"populating", "answered", "failed"} : Goes(r, pc)
    /\ faults' \in Nat /\ faults' <= faults

\* Every step is a stutter, a stop, an arrival, a move, or one insert.
LEMMA StepKinds ==
    ASSUME TypeOK, [Next]_vars
    PROVE  \/ UNCHANGED vars
           \/ Crash
           \/ \E r \in Requests : Arrive(r) \/ Walks(r) \/ Founds(r) \/ Joins(r)
<1>1. ASSUME NEW r \in Requests,
             FindUser(r) \/ Touch(r) \/ CheckSlug(r) \/ Populate(r) \/ Redirect(r)
      PROVE  Walks(r)
  BY <1>1 DEF FindUser, Touch, CheckSlug, Populate, Redirect, Walks, Pending, Goes
<1>2. ASSUME NEW r \in Requests, NEW s \in Slugs, CreateTenant(r, s)
      PROVE  Walks(r) \/ Founds(r)
  BY <1>2 DEF CreateTenant, Walks, Founds, Pending, Goes
<1>3. ASSUME NEW r \in Requests, CreateUser(r)
      PROVE  Walks(r) \/ Joins(r)
  BY <1>3 DEF CreateUser, Walks, Joins, Pending, Goes, TypeOK
<1>4. ASSUME NEW r \in Requests, DbFails(r)
      PROVE  Walks(r) \/ Founds(r) \/ Joins(r)
  <2>1. faults' \in Nat /\ faults' < faults /\ requests[r].pc \in Pending /\ Goes(r, "failed")
    BY <1>4 DEF DbFails, TypeOK
  <2>2. CASE UNCHANGED <<tenants, users>>
    BY <2>1, <2>2 DEF Walks
  <2>3. CASE /\ requests[r].pc = "creating_tenant" /\ UNCHANGED users
             /\ \E s \in Slugs : ~TenantTaken(requests[r].name, s) /\ InsertTenant(r, s)
    BY <2>1, <2>3 DEF Founds
  <2>4. CASE /\ requests[r].pc = "creating_user" /\ ~UserRefused(r)
             /\ InsertUser(r) /\ UNCHANGED tenants
    BY <2>1, <2>4 DEF Joins, TypeOK
  <2> QED  BY <1>4, <2>2, <2>3, <2>4 DEF DbFails
<1> QED  BY <1>1, <1>2, <1>3, <1>4 DEF Next, Step

\* What appending does to a sequence, in the form the steps need.
LEMMA Appended ==
    ASSUME NEW S, NEW q \in Seq(S), NEW e \in S
    PROVE  /\ Append(q, e) \in Seq(S)
           /\ Len(q) \in Nat /\ DOMAIN q = 1..Len(q)
           /\ DOMAIN Append(q, e) = 1..(Len(q) + 1)
           /\ \A i \in DOMAIN q : Append(q, e)[i] = q[i]
           /\ Append(q, e)[Len(q) + 1] = e
  BY AppendProperties, LenProperties

\* The tenant that is inserted.
LEMMA TenantAppended ==
    ASSUME TypeOK, RequestInv, NEW r \in Requests, Founds(r)
    PROVE  /\ tenants' \in Seq(Tenant)
           /\ Len(tenants) \in Nat /\ DOMAIN tenants = 1..Len(tenants)
           /\ DOMAIN tenants' = 1..(Len(tenants) + 1)
           /\ \A i \in DOMAIN tenants : tenants'[i] = tenants[i]
           /\ tenants'[Len(tenants) + 1].name = requests[r].name
           /\ \A i \in DOMAIN tenants : tenants[i].name # requests[r].name
<1>1. PICK s \in Slugs : ~TenantTaken(requests[r].name, s) /\ InsertTenant(r, s)
  BY DEF Founds
<1>2. requests[r].name \in Names
  <2>1. requests[r].kind \in {"sign_in", "post"}
    BY DEF Founds, RequestInv, Carries, TypeOK, Request
  <2> QED  BY <2>1, OnboardingAssumption DEF RequestInv, Carries
<1>3. [name |-> requests[r].name, slug |-> s] \in Tenant
  BY <1>2 DEF Tenant
<1> QED  BY <1>1, <1>3, Appended DEF InsertTenant, TenantTaken, TypeOK

\* The user that is inserted: by a sign-in, for a POST is always refused.
LEMMA UserAppended ==
    ASSUME TypeOK, RequestInv, NEW r \in Requests, Joins(r)
    PROVE  /\ users' \in Seq(User)
           /\ Len(users) \in Nat /\ DOMAIN users = 1..Len(users)
           /\ DOMAIN users' = 1..(Len(users) + 1)
           /\ \A i \in DOMAIN users : users'[i] = users[i]
           /\ requests[r].kind = "sign_in"
           /\ users'[Len(users) + 1] =
                [googleId |-> requests[r].googleId, email |-> requests[r].email,
                 tenant |-> requests[r].tenant]
<1>1. requests[r].kind = "sign_in"
  BY DEF Joins, RequestInv, Carries, TypeOK, Request
<1>2. requests[r].email \in Emails
  BY <1>1, OnboardingAssumption DEF RequestInv, Carries
<1>3. [googleId |-> requests[r].googleId, email |-> requests[r].email,
       tenant |-> requests[r].tenant] \in User
  BY <1>2 DEF User, TypeOK, Request
<1> QED  BY <1>1, <1>3, Appended DEF Joins, InsertUser, TypeOK

\* Nothing is ever removed or changed.
LEMMA Grow ==
    ASSUME TypeOK, RequestInv, [Next]_vars
    PROVE  /\ \A i \in DOMAIN tenants : i \in DOMAIN tenants' /\ tenants'[i] = tenants[i]
           /\ \A i \in DOMAIN users : i \in DOMAIN users' /\ users'[i] = users[i]
<1>1. ASSUME NEW r \in Requests, Founds(r)
      PROVE  /\ \A i \in DOMAIN tenants : i \in DOMAIN tenants' /\ tenants'[i] = tenants[i]
             /\ users' = users
  <2>1. /\ DOMAIN tenants = 1..Len(tenants) /\ DOMAIN tenants' = 1..(Len(tenants) + 1)
        /\ Len(tenants) \in Nat /\ \A i \in DOMAIN tenants : tenants'[i] = tenants[i]
    BY <1>1, TenantAppended
  <2> QED  BY <1>1, <2>1 DEF Founds
<1>2. ASSUME NEW r \in Requests, Joins(r)
      PROVE  /\ \A i \in DOMAIN users : i \in DOMAIN users' /\ users'[i] = users[i]
             /\ tenants' = tenants
  <2>1. /\ DOMAIN users = 1..Len(users) /\ DOMAIN users' = 1..(Len(users) + 1)
        /\ Len(users) \in Nat /\ \A i \in DOMAIN users : users'[i] = users[i]
    BY <1>2, UserAppended
  <2> QED  BY <1>2, <2>1 DEF Joins
<1>3. ASSUME NEW r \in Requests, Arrive(r) \/ Walks(r)
      PROVE  UNCHANGED <<tenants, users>>
  BY <1>3 DEF Arrive, SignIn, Post, Walks
<1>4. ASSUME Crash PROVE UNCHANGED <<tenants, users>>
  BY <1>4 DEF Crash
<1> QED  BY <1>1, <1>2, <1>3, <1>4, StepKinds DEF vars

\* Requests stay well-typed; one step of the proof per kind.
LEMMA RequestTypeStep ==
    ASSUME TypeOK, RequestInv, [Next]_vars
    PROVE  requests' \in [Requests -> Request] /\ faults' \in Nat /\ faults' <= faults
<1>0. MaxFaults \in Nat /\ faults \in Nat /\ requests \in [Requests -> Request]
  BY OnboardingAssumption DEF TypeOK
<1>a. ASSUME NEW r \in Requests,
             NEW pc \in Pending \cup {"failed", "answered"}, Goes(r, pc)
      PROVE  requests' \in [Requests -> Request]
  BY <1>0, <1>a DEF Goes, Request
<1>1. ASSUME NEW r \in Requests, Walks(r) \/ Joins(r)
      PROVE  requests' \in [Requests -> Request] /\ faults' \in Nat /\ faults' <= faults
  <2>1. \E pc \in Pending \cup {"failed", "answered"} : Goes(r, pc)
    BY <1>1 DEF Walks, Joins, Pending
  <2>2. faults' \in Nat /\ faults' <= faults
    BY <1>0, <1>1 DEF Walks, Joins
  <2> QED  BY <1>a, <2>1, <2>2
<1>2. ASSUME NEW r \in Requests, Founds(r)
      PROVE  requests' \in [Requests -> Request] /\ faults' \in Nat /\ faults' <= faults
  <2>1. Len(tenants) + 1 \in Nat
    BY LenProperties DEF TypeOK
  <2>2. [requests[r] EXCEPT !.pc = "creating_user", !.tenant = Len(tenants) + 1] \in Request
    BY <1>0, <2>1 DEF Request, Pending
  <2>3. CASE Goes(r, "failed") /\ faults' \in Nat /\ faults' < faults
    BY <1>0, <1>a, <2>3
  <2>4. CASE faults' = faults /\ requests' = [requests EXCEPT ![r] =
                [@ EXCEPT !.pc = "creating_user", !.tenant = Len(tenants) + 1]]
    BY <1>0, <2>2, <2>4
  <2> QED  BY <1>2, <2>3, <2>4 DEF Founds
<1>3. ASSUME NEW r \in Requests, NEW p \in Profiles, SignIn(r, p)
      PROVE  requests' \in [Requests -> Request] /\ faults' = faults
  BY <1>0, <1>3, OnboardingAssumption DEF SignIn, Idle, Request, Pending
<1>4. ASSUME NEW r \in Requests, NEW e \in Emails \cup {NoEmail}, NEW n \in Names,
             NEW s \in Slugs, Post(r, e, n, s)
      PROVE  requests' \in [Requests -> Request] /\ faults' = faults
  BY <1>0, <1>4 DEF Post, Idle, Request, Pending
<1>5. ASSUME Crash PROVE requests' \in [Requests -> Request] /\ faults' \in Nat /\ faults' <= faults
  BY <1>0, <1>5 DEF Crash, Request
<1>6. requests' \in [Requests -> Request] /\ faults' \in Nat /\ faults' <= faults
  <2>1. ASSUME NEW r \in Requests, Arrive(r)
        PROVE  requests' \in [Requests -> Request] /\ faults' = faults
    BY <1>3, <1>4, <2>1 DEF Arrive
  <2>2. ASSUME UNCHANGED vars
        PROVE  requests' \in [Requests -> Request] /\ faults' = faults
    BY <1>0, <2>2 DEF vars
  <2> QED  BY <1>0, <1>1, <1>2, <1>5, <2>1, <2>2, StepKinds
<1> QED  BY <1>6

\* Types hold in the next state.
LEMMA TypeStep ==
    ASSUME TypeOK, RequestInv, TenantInv, [Next]_vars
    PROVE  TypeOK'
<1>1. requests' \in [Requests -> Request] /\ faults' \in Nat
  BY RequestTypeStep
<1>2. ASSUME NEW r \in Requests, Founds(r) PROVE TypeOK'
  <2>1. tenants' \in Seq(Tenant) /\ \A i \in DOMAIN tenants : i \in DOMAIN tenants'
    BY <1>2, Grow, TenantAppended
  <2>2. users' = users
    BY <1>2 DEF Founds
  <2> QED  BY <1>1, <2>1, <2>2 DEF TypeOK
<1>3. ASSUME NEW r \in Requests, Joins(r) PROVE TypeOK'
  <2>1. requests[r].tenant \in DOMAIN tenants
    BY <1>3 DEF Joins, TenantInv, Vacant
  <2>2. \A i \in DOMAIN users' : users'[i].tenant \in DOMAIN tenants
    <3>1. /\ DOMAIN users = 1..Len(users) /\ DOMAIN users' = 1..(Len(users) + 1)
          /\ Len(users) \in Nat /\ \A i \in DOMAIN users : users'[i] = users[i]
      BY <1>3, UserAppended
    <3>2. users'[Len(users) + 1] =
            [googleId |-> requests[r].googleId, email |-> requests[r].email,
             tenant |-> requests[r].tenant]
      BY <1>3, UserAppended
    <3>3. users'[Len(users) + 1].tenant = requests[r].tenant
      BY <3>2
    <3> QED  BY <2>1, <3>1, <3>3 DEF TypeOK
  <2>3. users' \in Seq(User) /\ tenants' = tenants
    BY <1>3, UserAppended DEF Joins
  <2> QED  BY <1>1, <2>2, <2>3 DEF TypeOK
<1>4. CASE UNCHANGED <<tenants, users>>
  BY <1>1, <1>4 DEF TypeOK
<1>5. ASSUME NEW r \in Requests, Arrive(r) \/ Walks(r)
      PROVE  UNCHANGED <<tenants, users>>
  BY <1>5 DEF Arrive, SignIn, Post, Walks
<1>6. ASSUME Crash PROVE UNCHANGED <<tenants, users>>
  BY <1>6 DEF Crash
<1> QED  BY <1>2, <1>3, <1>4, <1>5, <1>6, StepKinds DEF vars
-------------------------------------------------------------------------------
(* The steps keep the invariant.                                            *)

\* A request keeps what it carries, or has just arrived.
Kept(r) ==
    /\ requests'[r].kind = requests[r].kind
    /\ requests'[r].googleId = requests[r].googleId
    /\ requests'[r].email = requests[r].email
    /\ requests'[r].name = requests[r].name
    /\ requests[r].pc = "idle" => requests'[r] = requests[r]
    /\ requests[r].pc # "idle" => requests'[r].pc # "idle"

SignedIn(r, p) == [Idle EXCEPT !.kind = "sign_in", !.pc = "finding", !.googleId = p,
                               !.email = EmailOf[p], !.name = NameOf[p]]
Posted(r, e, n, s) == [Idle EXCEPT !.kind = "post", !.pc = "checking", !.email = e,
                                   !.name = n, !.slug = s]

Arrives(r) ==
    /\ requests[r].pc = "idle"
    /\ \/ \E p \in Profiles : requests'[r] = SignedIn(r, p)
       \/ \E e \in Emails \cup {NoEmail}, n \in Names, s \in Slugs :
            /\ e = NoEmail \/ EmailTaken(e)
            /\ requests'[r] = Posted(r, e, n, s)

\* Every request keeps what it carries, or has just arrived.
LEMMA RequestKinds ==
    ASSUME TypeOK, [Next]_vars, NEW r \in Requests
    PROVE  Kept(r) \/ Arrives(r)
<1> USE DEF TypeOK
<1>1. ASSUME NEW q \in Requests, NEW pc, pc # "idle", requests[q].pc # "idle", Goes(q, pc)
      PROVE  Kept(r)
  BY <1>1 DEF Goes, Kept, Request
<1>2. ASSUME NEW q \in Requests, Walks(q) \/ Joins(q) PROVE Kept(r)
  BY <1>1, <1>2 DEF Walks, Joins, Pending
<1>3. ASSUME NEW q \in Requests, Founds(q) PROVE Kept(r)
  <2>1. CASE requests' = [requests EXCEPT ![q] =
               [@ EXCEPT !.pc = "creating_user", !.tenant = Len(tenants) + 1]]
    BY <1>3, <2>1 DEF Kept, Request, Founds
  <2> QED  BY <1>1, <1>3, <2>1 DEF Founds
<1>4. ASSUME NEW q \in Requests, NEW p \in Profiles, SignIn(q, p)
      PROVE  Kept(r) \/ Arrives(r)
  <2>1. CASE q = r
    BY <1>4, <2>1 DEF SignIn, Arrives, SignedIn
  <2>2. CASE q # r
    BY <1>4, <2>2 DEF SignIn, Kept
  <2> QED  BY <2>1, <2>2
<1>5. ASSUME NEW q \in Requests, NEW e \in Emails \cup {NoEmail}, NEW n \in Names,
             NEW s \in Slugs, Post(q, e, n, s)
      PROVE  Kept(r) \/ Arrives(r)
  <2>1. CASE q = r
    <3>1. /\ requests[r].pc = "idle" /\ requests'[r] = Posted(r, e, n, s)
          /\ e = NoEmail \/ EmailTaken(e)
      BY <1>5, <2>1 DEF Post, EmailTaken, Posted
    <3> QED  BY <3>1 DEF Arrives
  <2>2. CASE q # r
    BY <1>5, <2>2 DEF Post, Kept
  <2> QED  BY <2>1, <2>2
<1>6. ASSUME Crash PROVE Kept(r)
  BY <1>6 DEF Crash, Kept, Request, Pending
<1>7. ASSUME UNCHANGED vars PROVE Kept(r)
  BY <1>7 DEF vars, Kept
<1> QED  BY <1>2, <1>3, <1>4, <1>5, <1>6, <1>7, StepKinds DEF Arrive

\* What a request carries is right in the next state.
LEMMA RequestStep ==
    ASSUME TypeOK, RequestInv, [Next]_vars
    PROVE  RequestInv'
<1> SUFFICES ASSUME NEW r \in Requests PROVE Carries(r)'
  BY DEF RequestInv
<1>1. \A e : EmailTaken(e) => EmailTaken(e)'
  BY Grow DEF EmailTaken
<1>2. CASE Kept(r)
  <2>1. Carries(r) /\ (UserRefused(r) => UserRefused(r)')
    BY <1>1, <1>2 DEF RequestInv, Kept, UserRefused
  <2> QED  BY <1>2, <2>1 DEF Carries, Kept
<1>3. CASE Arrives(r)
  <2>1. CASE \E p \in Profiles : requests'[r] = SignedIn(r, p)
    BY <2>1 DEF SignedIn, Carries, Idle
  <2>2. ASSUME NEW e \in Emails \cup {NoEmail}, NEW n \in Names, NEW s \in Slugs,
               e = NoEmail \/ EmailTaken(e), requests'[r] = Posted(r, e, n, s)
        PROVE  Carries(r)'
    <3>1. /\ requests'[r].kind = "post" /\ requests'[r].pc = "checking"
          /\ requests'[r].googleId = Null /\ requests'[r].name = n
          /\ requests'[r].email = e
      BY <2>2 DEF Posted, Idle
    <3>2. UserRefused(r)'
      BY <1>1, <2>2, <3>1 DEF UserRefused
    <3> QED  BY <3>1, <3>2 DEF Carries
  <2> QED  BY <1>3, <2>1, <2>2 DEF Arrives
<1> QED  BY <1>2, <1>3, RequestKinds

\* Nothing of r changes that the tenants are about.
Stays(r) ==
    /\ requests'[r].tenant = requests[r].tenant
    /\ requests'[r].pc = "creating_user" => requests[r].pc = "creating_user"

\* r has inserted a tenant and knows it.
HasFounded(r) ==
    /\ Founds(r)
    /\ requests' = [requests EXCEPT ![r] =
          [@ EXCEPT !.pc = "creating_user", !.tenant = Len(tenants) + 1]]

\* The id of a request's tenant changes only when that request inserts it.
LEMMA TenantKinds ==
    ASSUME TypeOK, RequestInv, [Next]_vars, NEW r \in Requests
    PROVE  Stays(r) \/ HasFounded(r)
<1> USE DEF TypeOK
<1>1. ASSUME NEW q \in Requests, NEW pc, pc # "creating_user", Goes(q, pc)
      PROVE  Stays(r)
  BY <1>1 DEF Goes, Stays, Request
<1>2. ASSUME NEW q \in Requests, Walks(q) \/ Joins(q) PROVE Stays(r)
  BY <1>1, <1>2 DEF Walks, Joins, Pending
<1>3. ASSUME NEW q \in Requests, Founds(q) PROVE Stays(r) \/ HasFounded(r)
  <2>1. CASE requests' = [requests EXCEPT ![q] =
               [@ EXCEPT !.pc = "creating_user", !.tenant = Len(tenants) + 1]]
    <3>1. CASE q = r
      BY <1>3, <2>1, <3>1 DEF HasFounded
    <3>2. CASE q # r
      BY <2>1, <3>2 DEF Stays
    <3> QED  BY <3>1, <3>2
  <2> QED  BY <1>1, <1>3, <2>1 DEF Founds
<1>4. ASSUME NEW q \in Requests, Arrive(q) PROVE Stays(r)
  <2>1. requests[q] = Idle
    BY <1>4 DEF Arrive, SignIn, Post, RequestInv, Carries
  <2>2. CASE q = r
    <3>1. ASSUME NEW p \in Profiles, SignIn(r, p) PROVE Stays(r)
      <4>1. requests'[r] = SignedIn(r, p)
        BY <3>1 DEF SignIn, SignedIn
      <4> QED  BY <2>1, <2>2, <4>1 DEF SignedIn, Stays, Idle
    <3>2. ASSUME NEW e \in Emails \cup {NoEmail}, NEW n \in Names, NEW s \in Slugs,
                 Post(r, e, n, s)
          PROVE  Stays(r)
      <4>1. requests'[r] = Posted(r, e, n, s)
        BY <3>2 DEF Post, Posted
      <4> QED  BY <2>1, <2>2, <4>1 DEF Posted, Stays, Idle
    <3> QED  BY <1>4, <2>2, <3>1, <3>2 DEF Arrive
  <2>3. CASE q # r
    BY <1>4, <2>3 DEF Arrive, SignIn, Post, Stays
  <2> QED  BY <2>2, <2>3
<1>5. ASSUME Crash PROVE Stays(r)
  BY <1>5 DEF Crash, Stays, Request, Pending
<1>6. ASSUME UNCHANGED vars PROVE Stays(r)
  BY <1>6 DEF vars, Stays
<1> QED  BY <1>2, <1>3, <1>4, <1>5, <1>6, StepKinds

\* The collections change by one insertion at a time.
LEMMA InsertKinds ==
    ASSUME TypeOK, [Next]_vars
    PROVE  /\ UNCHANGED tenants \/ \E r \in Requests : Founds(r)
           /\ UNCHANGED users \/ \E r \in Requests : Joins(r)
<1>1. ASSUME NEW r \in Requests, Arrive(r) \/ Walks(r)
      PROVE  UNCHANGED <<tenants, users>>
  BY <1>1 DEF Arrive, SignIn, Post, Walks
<1>2. ASSUME NEW r \in Requests, Founds(r) PROVE UNCHANGED users
  BY <1>2 DEF Founds
<1>3. ASSUME NEW r \in Requests, Joins(r) PROVE UNCHANGED tenants
  BY <1>3 DEF Joins
<1>4. ASSUME Crash PROVE UNCHANGED <<tenants, users>>
  BY <1>4 DEF Crash
<1> QED  BY <1>1, <1>2, <1>3, <1>4, StepKinds DEF vars

\* Users stay tied to the tenants named after their profiles.
LEMMA UserStep ==
    ASSUME TypeOK, RequestInv, TenantInv, UserInv, [Next]_vars
    PROVE  UserInv'
<1>1. \A i \in DOMAIN tenants : tenants'[i] = tenants[i]
  BY Grow
<1>2. CASE UNCHANGED users
  BY <1>1, <1>2 DEF UserInv, TypeOK
<1>3. ASSUME NEW r \in Requests, Joins(r) PROVE UserInv'
  <2>1. /\ DOMAIN users = 1..Len(users) /\ DOMAIN users' = 1..(Len(users) + 1)
        /\ Len(users) \in Nat /\ \A i \in DOMAIN users : users'[i] = users[i]
        /\ requests[r].kind = "sign_in"
        /\ users'[Len(users) + 1] =
             [googleId |-> requests[r].googleId, email |-> requests[r].email,
              tenant |-> requests[r].tenant]
    BY <1>3, UserAppended
  <2>2. /\ users'[Len(users) + 1].googleId = requests[r].googleId
        /\ users'[Len(users) + 1].email = requests[r].email
        /\ users'[Len(users) + 1].tenant = requests[r].tenant
    BY <2>1
  <2>3. /\ requests[r].googleId \in Profiles
        /\ requests[r].email = EmailOf[requests[r].googleId]
        /\ requests[r].name = NameOf[requests[r].googleId]
    BY <2>1 DEF RequestInv, Carries
  <2>4. tenants'[requests[r].tenant].name = requests[r].name
    BY <1>1, <1>3 DEF Joins, TenantInv, Vacant
  <2>5. ASSUME NEW i \in DOMAIN users
        PROVE  /\ users'[i].googleId \in Profiles
               /\ users'[i].email = EmailOf[users'[i].googleId]
               /\ tenants'[users'[i].tenant].name = NameOf[users'[i].googleId]
    BY <1>1, <2>1 DEF UserInv, TypeOK
  <2>6. \A i \in DOMAIN users' : i \in DOMAIN users \/ i = Len(users) + 1
    BY <2>1
  <2> QED  BY <2>2, <2>3, <2>4, <2>5, <2>6 DEF UserInv
<1> QED  BY <1>2, <1>3, InsertKinds

\* A request that has inserted a tenant still carries the name it gave it.
LEMMA NameKept ==
    ASSUME TypeOK, RequestInv, [Next]_vars, NEW r \in Requests, requests[r].tenant # 0
    PROVE  requests'[r].name = requests[r].name /\ requests'[r].kind = requests[r].kind
<1>1. requests[r].pc # "idle"
  BY DEF RequestInv, Carries, Idle
<1> QED  BY <1>1, RequestKinds DEF Kept, Arrives

\* Names stay unique: the insert of a taken one is refused.
LEMMA NamesStep ==
    ASSUME TypeOK, RequestInv, TenantInv, [Next]_vars
    PROVE  \A i, j \in DOMAIN tenants' : tenants'[i].name = tenants'[j].name => i = j
<1>1. CASE UNCHANGED tenants
  BY <1>1 DEF TenantInv
<1>2. ASSUME NEW r \in Requests, Founds(r)
      PROVE  \A i, j \in DOMAIN tenants' : tenants'[i].name = tenants'[j].name => i = j
  <2>1. /\ Len(tenants) \in Nat /\ DOMAIN tenants = 1..Len(tenants)
        /\ DOMAIN tenants' = 1..(Len(tenants) + 1)
        /\ \A i \in DOMAIN tenants : tenants'[i] = tenants[i]
        /\ tenants'[Len(tenants) + 1].name = requests[r].name
        /\ \A i \in DOMAIN tenants : tenants[i].name # requests[r].name
    BY <1>2, TenantAppended
  <2>2. \A i \in DOMAIN tenants' : i \in DOMAIN tenants \/ i = Len(tenants) + 1
    BY <2>1
  <2>3. \A i, j \in DOMAIN tenants : tenants[i].name = tenants[j].name => i = j
    BY DEF TenantInv
  <2> QED  BY <2>1, <2>2, <2>3
<1> QED  BY <1>1, <1>2, InsertKinds

\* A request's tenant is in the collection, under the request's name.
LEMMA HeldStep ==
    ASSUME TypeOK, RequestInv, TenantInv, [Next]_vars, NEW r \in Requests,
           requests'[r].tenant # 0
    PROVE  /\ requests'[r].tenant \in DOMAIN tenants'
           /\ tenants'[requests'[r].tenant].name = requests'[r].name
<1>1. CASE Stays(r)
  <2>1. /\ requests'[r].tenant = requests[r].tenant
        /\ requests[r].tenant \in DOMAIN tenants
        /\ tenants[requests[r].tenant].name = requests[r].name
    BY <1>1 DEF Stays, TenantInv
  <2>2. requests'[r].name = requests[r].name
    BY <2>1, NameKept
  <2> QED  BY <2>1, <2>2, Grow
<1>2. CASE HasFounded(r)
  <2>1. Founds(r)
    BY <1>2 DEF HasFounded
  <2>2. /\ Len(tenants) \in Nat
        /\ DOMAIN tenants' = 1..(Len(tenants) + 1)
        /\ tenants'[Len(tenants) + 1].name = requests[r].name
    BY <2>1, TenantAppended
  <2>3. requests'[r].tenant = Len(tenants) + 1 /\ requests'[r].name = requests[r].name
    BY <1>2 DEF HasFounded, TypeOK, Request
  <2> QED  BY <2>2, <2>3
<1> QED  BY <1>1, <1>2, TenantKinds

\* Two requests never hold the same tenant.
LEMMA ApartStep ==
    ASSUME TypeOK, RequestInv, TenantInv, [Next]_vars,
           NEW r \in Requests, NEW q \in Requests,
           requests'[r].tenant # 0, requests'[r].tenant = requests'[q].tenant
    PROVE  r = q
<1>1. ASSUME NEW a \in Requests, NEW b \in Requests, a # b, HasFounded(a)
      PROVE  requests'[a].tenant # requests'[b].tenant
  <2>1. requests'[a].tenant = Len(tenants) + 1 /\ requests'[b].tenant = requests[b].tenant
    BY <1>1 DEF HasFounded, TypeOK, Request
  <2>2. Len(tenants) \in Nat /\ DOMAIN tenants = 1..Len(tenants)
    BY <1>1, TenantAppended DEF HasFounded
  <2>3. requests[b].tenant = 0 \/ requests[b].tenant \in DOMAIN tenants
    BY DEF TenantInv
  <2> QED  BY <2>1, <2>2, <2>3
<1>2. CASE Stays(r) /\ Stays(q)
  BY <1>2 DEF Stays, TenantInv
<1> QED  BY <1>1, <1>2, TenantKinds

\* A tenant whose request is about to insert its user belongs to nobody yet.
LEMMA VacantStep ==
    ASSUME TypeOK, RequestInv, TenantInv, [Next]_vars, NEW r \in Requests,
           requests'[r].pc = "creating_user"
    PROVE  Vacant(r)'
<1>1. CASE HasFounded(r)
  <2>1. requests'[r].tenant = Len(tenants) + 1 /\ users' = users
    BY <1>1 DEF HasFounded, Founds, TypeOK, Request
  <2>2. Len(tenants) \in Nat /\ DOMAIN tenants = 1..Len(tenants)
    BY <1>1, TenantAppended DEF HasFounded
  <2> QED  BY <2>1, <2>2 DEF TypeOK, Vacant
<1>2. CASE Stays(r)
  <2>1. /\ requests'[r].tenant = requests[r].tenant
        /\ Vacant(r)
    BY <1>2 DEF Stays, TenantInv
  <2>2. CASE UNCHANGED users
    BY <2>1, <2>2 DEF Vacant
  <2>3. ASSUME NEW q \in Requests, Joins(q) PROVE Vacant(r)'
    <3>1. q # r
      BY <2>3 DEF Joins, Goes, TypeOK
    <3>2. requests[q].tenant # requests[r].tenant
      BY <2>1, <3>1 DEF TenantInv, Vacant
    <3>3. /\ DOMAIN users = 1..Len(users) /\ DOMAIN users' = 1..(Len(users) + 1)
          /\ Len(users) \in Nat /\ \A i \in DOMAIN users : users'[i] = users[i]
          /\ users'[Len(users) + 1] =
               [googleId |-> requests[q].googleId, email |-> requests[q].email,
                tenant |-> requests[q].tenant]
      BY <2>3, UserAppended
    <3>4. users'[Len(users) + 1].tenant = requests[q].tenant
      BY <3>3
    <3>5. \A i \in DOMAIN users' : i \in DOMAIN users \/ i = Len(users) + 1
      BY <3>3
    <3> QED  BY <2>1, <3>2, <3>3, <3>4, <3>5 DEF Vacant
  <2> QED  BY <2>1, <2>2, <2>3, InsertKinds
<1> QED  BY <1>1, <1>2, TenantKinds

\* The facts about tenants hold in the next state.
LEMMA TenantStep ==
    ASSUME TypeOK, RequestInv, TenantInv, [Next]_vars
    PROVE  TenantInv'
<1>1. \A i, j \in DOMAIN tenants' : tenants'[i].name = tenants'[j].name => i = j
  BY NamesStep
<1>2. ASSUME NEW r \in Requests
      PROVE  requests'[r].pc = "creating_user" => Vacant(r)'
  BY VacantStep
<1>3. ASSUME NEW r \in Requests
      PROVE  requests'[r].tenant # 0 =>
               /\ requests'[r].tenant \in DOMAIN tenants'
               /\ tenants'[requests'[r].tenant].name = requests'[r].name
  BY HeldStep
<1>4. ASSUME NEW r \in Requests, NEW q \in Requests
      PROVE  requests'[r].tenant # 0 /\ requests'[r].tenant = requests'[q].tenant => r = q
  BY ApartStep
<1> QED  BY <1>1, <1>2, <1>3, <1>4 DEF TenantInv

\* The user that joins takes a tenant nobody has.
LEMMA PrivateStep ==
    ASSUME TypeOK, RequestInv, TenantInv, PrivateTenants, [Next]_vars
    PROVE  PrivateTenants'
<1>1. CASE UNCHANGED users
  BY <1>1 DEF PrivateTenants
<1>2. ASSUME NEW r \in Requests, Joins(r) PROVE PrivateTenants'
  <2>1. /\ DOMAIN users = 1..Len(users) /\ DOMAIN users' = 1..(Len(users) + 1)
        /\ Len(users) \in Nat /\ \A i \in DOMAIN users : users'[i] = users[i]
        /\ users'[Len(users) + 1] =
             [googleId |-> requests[r].googleId, email |-> requests[r].email,
              tenant |-> requests[r].tenant]
    BY <1>2, UserAppended
  <2>2. users'[Len(users) + 1].tenant = requests[r].tenant
    BY <2>1
  <2>3. \A i \in DOMAIN users : users[i].tenant # requests[r].tenant
    BY <1>2 DEF Joins, TenantInv, Vacant
  <2>4. \A i \in DOMAIN users' : i \in DOMAIN users \/ i = Len(users) + 1
    BY <2>1
  <2>5. \A i, j \in DOMAIN users : users[i].tenant = users[j].tenant => i = j
    BY DEF PrivateTenants
  <2> QED  BY <2>1, <2>2, <2>3, <2>4, <2>5 DEF PrivateTenants
<1> QED  BY <1>1, <1>2, InsertKinds

\* Failures are only used up.
LEMMA FaultsStep ==
    ASSUME TypeOK, RequestInv, [Next]_vars
    PROVE  faults' \in Nat /\ faults' <= faults
  BY RequestTypeStep

\* A user stays, and so does who owns a tenant.
LEMMA OwnedStays ==
    ASSUME TypeOK, RequestInv, [Next]_vars, NEW t, Owned(t)
    PROVE  \E i \in DOMAIN users' : users'[i].tenant = t
  BY Grow DEF Owned

\* A sign-in whose user insert is refused finds its own profile signed up already,
\* in the one tenant of that name: its own.
LEMMA RefusedIsOwned ==
    ASSUME TypeOK, RequestInv, TenantInv, UserInv, NEW r \in Requests,
           requests[r].kind = "sign_in", requests[r].tenant # 0, UserRefused(r)
    PROVE  Owned(requests[r].tenant)
<1>1. /\ requests[r].googleId \in Profiles
      /\ requests[r].email = EmailOf[requests[r].googleId]
      /\ requests[r].name = NameOf[requests[r].googleId]
  BY DEF RequestInv, Carries
<1>2. requests[r].email # NoEmail
  BY <1>1, OnboardingAssumption
<1>3. PICK i \in DOMAIN users : users[i].email = requests[r].email
  BY <1>2 DEF UserRefused, EmailTaken
<1>4. users[i].googleId = requests[r].googleId
  BY <1>1, <1>3, OnboardingAssumption DEF UserInv
<1>5. tenants[users[i].tenant].name = tenants[requests[r].tenant].name
  BY <1>1, <1>4 DEF UserInv, TenantInv
<1>6. users[i].tenant \in DOMAIN tenants /\ requests[r].tenant \in DOMAIN tenants
  BY DEF TypeOK, TenantInv
<1>7. users[i].tenant = requests[r].tenant
  BY <1>5, <1>6 DEF TenantInv
<1> QED  BY <1>7 DEF Owned

\* As long as nothing fails, a request that leaves the insert of its user behind
\* leaves an owned tenant behind.
LEMMA LeavesOwned ==
    ASSUME TypeOK, RequestInv, TenantInv, UserInv, [Next]_vars, NEW r \in Requests,
           requests[r].kind = "sign_in", requests[r].tenant # 0, faults' = faults,
           requests[r].pc = "creating_user", requests'[r].pc # "creating_user"
    PROVE  \E i \in DOMAIN users' : users'[i].tenant = requests[r].tenant
<1>1. CASE Owned(requests[r].tenant)
  BY <1>1, OwnedStays
<1>2. ASSUME Walks(r) PROVE Owned(requests[r].tenant)
  <2>1. UserRefused(r)
    BY <1>2 DEF Walks, TypeOK
  <2> QED  BY <2>1, RefusedIsOwned
<1>3. ASSUME Joins(r) PROVE \E i \in DOMAIN users' : users'[i].tenant = requests[r].tenant
  <2>1. /\ DOMAIN users' = 1..(Len(users) + 1) /\ Len(users) \in Nat
        /\ users'[Len(users) + 1] =
             [googleId |-> requests[r].googleId, email |-> requests[r].email,
              tenant |-> requests[r].tenant]
    BY <1>3, UserAppended
  <2>2. users'[Len(users) + 1].tenant = requests[r].tenant /\ Len(users) + 1 \in DOMAIN users'
    BY <2>1
  <2> QED  BY <2>2
<1>4. ASSUME NEW q \in Requests, q # r, Walks(q) \/ Joins(q)
      PROVE  FALSE
  <2>1. PICK pc : Goes(q, pc)
    BY <1>4 DEF Walks, Joins
  <2> QED  BY <1>4, <2>1 DEF Goes, TypeOK
<1>5. ASSUME NEW q \in Requests, Founds(q)
      PROVE  FALSE
  <2>1. q # r
    BY <1>5 DEF Founds
  <2> QED  BY <1>5, <2>1 DEF Founds, Goes, TypeOK
<1>6. ASSUME NEW q \in Requests, Arrive(q)
      PROVE  FALSE
  BY <1>6 DEF Arrive, SignIn, Post, TypeOK
<1>7. ~Crash
  BY DEF Crash, TypeOK
<1>8. ~UNCHANGED vars
  BY DEF vars
<1> QED  BY <1>1, <1>2, <1>3, <1>4, <1>5, <1>6, <1>7, <1>8, StepKinds

\* A request whose tenant is owned, or becomes so as it moves on, stays that way.
LEMMA OrphanStep ==
    ASSUME TypeOK, RequestInv, TenantInv, UserInv, RacesLeaveNoOrphan,
           faults <= MaxFaults, [Next]_vars
    PROVE  RacesLeaveNoOrphan'
<1> SUFFICES ASSUME NEW r \in Requests,
                    requests'[r].kind = "sign_in", requests'[r].tenant # 0,
                    requests'[r].pc # "creating_user", faults' = MaxFaults
             PROVE  \E i \in DOMAIN users' : users'[i].tenant = requests'[r].tenant
  BY DEF RacesLeaveNoOrphan, Owned
<1>1. requests'[r].tenant = requests[r].tenant
  <2>1. CASE HasFounded(r)
    BY <2>1 DEF HasFounded, TypeOK, Request
  <2> QED  BY <2>1, TenantKinds DEF Stays
<1>2. requests[r].kind = "sign_in"
  BY <1>1, NameKept
<1>3. faults' = faults
  BY FaultsStep, OnboardingAssumption DEF TypeOK
<1>4. CASE requests[r].pc = "creating_user"
  BY <1>1, <1>2, <1>3, <1>4, LeavesOwned
<1>5. CASE requests[r].pc # "creating_user"
  <2>1. Owned(requests[r].tenant)
    BY <1>1, <1>2, <1>3, <1>5 DEF RacesLeaveNoOrphan
  <2> QED  BY <1>1, <2>1, OwnedStays
<1> QED  BY <1>4, <1>5

\* A barred profile stays barred.
LEMMA BarredStep ==
    ASSUME TypeOK, RequestInv, [Next]_vars, NEW p \in Profiles, Barred(p)
    PROVE  Barred(p)'
<1>1. \E i \in DOMAIN tenants' : tenants'[i].name = NameOf[p]
  BY Grow DEF Barred
<1>2. \A i \in DOMAIN users' : users'[i].googleId # p
  <2>1. CASE UNCHANGED users
    BY <2>1 DEF Barred, SignedUp
  <2>2. ASSUME NEW r \in Requests, Joins(r)
        PROVE  \A i \in DOMAIN users' : users'[i].googleId # p
    <3>1. requests[r].googleId # p
      BY <2>2 DEF Joins, Barred
    <3>2. /\ DOMAIN users = 1..Len(users) /\ DOMAIN users' = 1..(Len(users) + 1)
          /\ Len(users) \in Nat /\ \A i \in DOMAIN users : users'[i] = users[i]
          /\ users'[Len(users) + 1] =
               [googleId |-> requests[r].googleId, email |-> requests[r].email,
                tenant |-> requests[r].tenant]
      BY <2>2, UserAppended
    <3>3. users'[Len(users) + 1].googleId = requests[r].googleId
      BY <3>2
    <3>4. \A i \in DOMAIN users' : i \in DOMAIN users \/ i = Len(users) + 1
      BY <3>2
    <3> QED  BY <3>1, <3>2, <3>3, <3>4 DEF Barred, SignedUp
  <2> QED  BY <2>1, <2>2, InsertKinds
<1>3. ASSUME NEW r \in Requests, requests'[r].googleId = p, requests'[r].pc = "creating_user"
      PROVE  FALSE
  <2>1. requests[r].googleId = p
    BY <1>3, RequestKinds DEF Kept, Arrives, SignedIn, Posted, Idle
  <2>2. CASE Stays(r)
    BY <1>3, <2>1, <2>2 DEF Stays, Barred
  <2>3. CASE Founds(r)
    <3>1. requests[r].kind = "sign_in"
      BY <2>1, <2>3, OnboardingAssumption DEF Founds, RequestInv, Carries, TypeOK, Request
    <3>2. requests[r].name = NameOf[p]
      BY <2>1, <3>1 DEF RequestInv, Carries
    <3>3. \A i \in DOMAIN tenants : tenants[i].name # requests[r].name
      BY <2>3, TenantAppended
    <3> QED  BY <3>2, <3>3 DEF Barred
  <2> QED  BY <2>2, <2>3, TenantKinds DEF HasFounded
<1> QED  BY <1>1, <1>2, <1>3 DEF Barred, SignedUp
-------------------------------------------------------------------------------
(* The theorems.                                                            *)

\* The invariant holds at the start.
LEMMA InitInv == Init => OnboardingInv
<1> SUFFICES ASSUME Init PROVE OnboardingInv
  OBVIOUS
<1>1. TypeOK
  BY OnboardingAssumption DEF Init, TypeOK, Tenant, User, Request, Idle
<1>2. RequestInv
  BY DEF Init, RequestInv, Carries, Idle
<1>3. TenantInv
  BY OnboardingAssumption DEF Init, TenantInv, Idle
<1>4. UserInv /\ PrivateTenants
  BY DEF Init, UserInv, PrivateTenants
<1>5. RacesLeaveNoOrphan /\ faults <= MaxFaults
  BY OnboardingAssumption DEF Init, RacesLeaveNoOrphan, Idle
<1> QED  BY <1>1, <1>2, <1>3, <1>4, <1>5 DEF OnboardingInv

\* Every step keeps the invariant.
LEMMA StepInv == OnboardingInv /\ [Next]_vars => OnboardingInv'
<1> SUFFICES ASSUME OnboardingInv, [Next]_vars PROVE OnboardingInv'
  OBVIOUS
<1>1. /\ TypeOK /\ RequestInv /\ TenantInv /\ UserInv /\ PrivateTenants
      /\ RacesLeaveNoOrphan /\ faults <= MaxFaults
  BY DEF OnboardingInv
<1>2. TypeOK'
  BY <1>1, TypeStep
<1>3. RequestInv'
  BY <1>1, RequestStep
<1>4. TenantInv'
  BY <1>1, TenantStep
<1>5. UserInv'
  BY <1>1, UserStep
<1>6. PrivateTenants'
  BY <1>1, PrivateStep
<1>7. RacesLeaveNoOrphan'
  BY <1>1, OrphanStep
<1>8. faults' <= MaxFaults
  BY <1>1, FaultsStep, OnboardingAssumption DEF TypeOK
<1> QED  BY <1>2, <1>3, <1>4, <1>5, <1>6, <1>7, <1>8 DEF OnboardingInv

\* The invariant holds in every state.
LEMMA Invariance == Spec => []OnboardingInv
  BY InitInv, StepInv, PTL DEF Spec

\* Every state has its type, and every user's tenant is in the collection.
THEOREM OnboardingTypeCorrect == Spec => []TypeOK
<1>1. OnboardingInv => TypeOK
  BY DEF OnboardingInv
<1> QED  BY <1>1, Invariance, PTL

\* No two users share a tenant, however sign-ins and POSTs race, collide or fail.
THEOREM TenantsArePrivate == Spec => []PrivateTenants
<1>1. OnboardingInv => PrivateTenants
  BY DEF OnboardingInv
<1> QED  BY <1>1, Invariance, PTL

\* Racing sign-ins that do not fail leave no tenant without its user.
THEOREM NoOrphanFromRaces == Spec => []RacesLeaveNoOrphan
<1>1. OnboardingInv => RacesLeaveNoOrphan
  BY DEF OnboardingInv
<1> QED  BY <1>1, Invariance, PTL

\* A profile whose tenant name is taken while it has no user never gets one.
THEOREM NeverUnbarred == Spec => BarredForGood
<1>1. OnboardingInv /\ [Next]_vars => [\A p \in Profiles : Barred(p) => Barred(p)']_vars
  <2> SUFFICES ASSUME OnboardingInv, [Next]_vars, NEW p \in Profiles, Barred(p)
               PROVE  Barred(p)'
    OBVIOUS
  <2> QED  BY BarredStep DEF OnboardingInv
<1> QED  BY <1>1, Invariance, PTL DEF Spec, BarredForGood
===============================================================================
