# Verification of the WAF dashboard

This directory holds TLA+ models of the WAF project (a ModSecurity proxy, a
NestJS backend on MongoDB and a React dashboard), the TLC configurations that
check them on small instances, and TLAPS proofs of their main properties for
every instance. All paths below are relative to the repository.

## The system

nginx with ModSecurity protects a backend and appends one JSON object per
request to `audit.log`. The dashboard backend follows that file, turns each line
into a WafLog document of a tenant, and counts the tenant's requests of the
month. Users sign in with Google, which creates a tenant for them; the dashboard
asks the backend for logs and statistics, edits the tenant's configuration and
sends test attacks through the proxy. An administrator reads figures over all
tenants.

| Component | State | Operations | Interacts with | What makes it correct |
|---|---|---|---|---|
| Audit ingest (`backend/src/audit-ingest/audit-ingest.service.ts`) | the tail and its position, the retry timer, the uncategorized tenant's id, one pending continuation per line | boot, retry, tail error, line, resolve, save, schedule the usage update | audit.log, the tenants and waflogs collections, tenant resolver, usage metering | it follows the file exactly once; a line becomes at most one document, of the right tenant; the retry loop never dies |
| Tenant resolver (`tenant-resolver.service.ts`) | none (the cache is never filled) | look a header up | tenants collection | a document is never given to a third tenant |
| Usage metering (`audit-ingest.service.ts` 195-218) | `usage` of each tenant document, a snapshot per pending callback | read, reset in a new month, add one, save | tenants collection, wall clock | no request is invented; exact when updates take turns |
| Tenant service and its controllers (`backend/src/tenant`) | tenant documents | create with owner, update settings, update WAF configuration, read usage | users, tenants, WafConfigPanel | a save keeps to the limit it has read, and replaces only what it has read |
| Sign-in and onboarding (`backend/src/auth`) | users, tenants, JWTs | find or create user and tenant, sign a token | Google, tenants | users never share a tenant, races leave no tenant without its user, every sign-in ends |
| Guards (`roles.guard.ts`, `admin-auth.guard.ts`) | none | allow or reject a request | JWT | the role decides |
| Billing (`backend/src/billing`) | account and ledger of a tenant | charge, deduct, inquire | tenants | no account claims what the ledger does not show; an account without overlaps is a book; a balance stays covered unless an amount is negative |
| Administrators (`backend/src/admin`) | admin documents | create default, log in | JWT, AdminLogin | one default account |
| Admin monitoring (`backend/src/admin`, controller) | none | figures, pages of users | users, tenants, waflogs | the figures agree with one another |
| Log queries (`backend/src/waf-logs/waf-logs.service.ts`) | none | pages, totals, statistics | waflogs | pages miss nothing; numbers belong to the time of the request |
| Security tests and seed (the same service) | none of their own | simulated attacks, seed of dummy logs | proxy, waflogs, tenants | a result is logged, once, under the caller's tenant; only an empty collection is seeded |
| Traffic generators (`real-data.service.ts`, `traffic-generator.service.ts`) | counters of one run | send requests through the proxy | proxy | stop when told |
| Dashboard page (`frontend/src/components/WafDashboard.tsx`, `WafLogsTable.tsx`, `SecurityTestPanel.tsx`, `stores/wafLogsStore.ts`) | logs, statistics, window, filters, spinners | fetch, page, filter, run tests | log queries, security tests | what is shown is what was asked for last; spinners end |
| Configuration panel (`WafConfigPanel.tsx`) | an edited copy of the configuration | fetch, edit, save | tenant service | it saves what was edited |
| Browser sessions (`stores/authStore.ts`, `lib/*.ts`, `AuthCallback.tsx`, `AdminDashboard.tsx`, ...) | localStorage, a store per tab | sign in, verify, sign out, administrator's login and requests | auth, administrators | no half session on screen; a valid token is kept; spinners end |
| Container scripts (`src/opt/modsecurity`, `nginx/docker-entrypoint.d`) | the CRS set-up file | rewrite rules from the environment | environment | each variable reaches its rule |

The behaviours that are hard to test: line handlers that interleave at every `await`;
read errors, restarts and retries of the tail; replies of the database that fail or get
lost; read-modify-write of one document by several callbacks, panels or operations; the
end of a month between read and save; two-step creations without transactions; requests
whose bodies nothing checks; queries of one request that see different moments; answers
that overtake one another in the browser; tabs that share storage; Back and Forward
within a page whose requests live on. `PROJECT.json` lists each hazard at its line.

## Modules

| Module | Models |
|---|---|
| `AuditLine` | a line of the audit log, reduced to what the service tells apart |
| `AuditStore` | abstract: what the ingest service promises its readers |
| `AuditIngest` | the ingest service with the tenant resolver, tail, file, tenants and waflogs collections; implements `AuditStore` |
| `UsageMeter` | the monthly counter and the callbacks that update it |
| `IngestMetering` | `AuditIngest` and `UsageMeter` joined as `persistEntry` joins them |
| `Onboarding` | Google sign-in and POST /api/tenant: the two inserts each makes and the unique indexes between them |
| `TenantConfig` | one tenant's configuration document, updateWafConfig and updateTenant, and the panels that edit it |
| `AccountBook` | abstract: what a prepaid account promises |
| `Billing` | charges, deductions and inquiries; implements `AccountBook` |
| `LogQueries` | pages, statistics and the administrator's figures, read while documents are inserted |
| `SecurityTester` | the simulated attacks with their logs, and the seed of dummy logs |
| `Dashboard` | the dashboard page: effect, store, filter form, tests and their answers |
| `Session` | tabs of one browser, users' and administrators' tokens, and the administrator's account |
| `AuditIngestProofs` | theorems about `AuditIngest` and `IngestMetering` |
| `FrontendProofs` | theorems about `Session` and `Dashboard` |
| `UsageMeterProofs`, `OnboardingProofs`, `BillingProofs`, `TenantConfigProofs`, `LogQueriesProofs`, `SecurityTesterProofs` | theorems about the module each is named after |
| `MC*` | instances for TLC |

An action is one turn of an event loop, or the part of an asynchronous function
between two awaits; a record per request, callback or handler holds the await it
stands at (`pc`) and the local variables that live on. A database call takes
effect at the action that continues after it, and a failing one may have taken
effect all the same. History variables (`overlapped`, `settled`, `calm`,
`edited`, `overtaken`, `late`, `cleared`, `opened`, `wandered`) are read by properties
only.

### AuditIngest

One variable per piece of state: `timers` counts pending `retryTimer`s, `tails`
lists the Tail objects with their position in `log`, `jobs` has one record per
'line' event with the `await` it stands at, `docs` is the waflogs collection,
`known` the tenant ids. `EnsureDemo` is the rest of `onModuleInit` after the
first tenant is confirmed, including the first `beginWithRetry`; `RetryTimer` is
the timer's callback; `TailError` the error handler with `stopTail`; `Deliver`
the line handler up to its first real `await`; `Resolve`, `Save`, `Track` the
continuations. `persistEntry` without a header awaits only resolved promises
before the save, so it goes to "saving" in the turn of the line itself.

A `Crash` takes timers, tails and pending handlers along and leaves the
collections and the file. `SaveFails` covers schema validation, a refused insert
and an insert whose acknowledgement is lost. Tails of one process share the
watcher of the file (the `tail` package uses `fs.watchFile`); a tail whose block
could not be read keeps it at the head of its queue and delivers no more, and
the next tail starts somewhere behind that block: `Starts` allows every such
position, and the end of the file for the first tail of a process
(`fromBeginning: false`). These facts about the package are external: they are
read from how the service uses it, not from code in this repository.

What the service loses is part of the model: lines written while it is down,
while no tail is live, or whose handler fails. `AuditStore` therefore promises
at most one document, never one document, per line. A look-up that fails sends a
line with a valid X-Tenant-ID to the uncategorized tenant. The tenant is found by that header alone:
the comments that speak of the client's address (`audit-ingest.service.ts` 160, the
docstring of `resolveTenantForRequest`) describe what the code no longer does.

### UsageMeter

`Fetch`, `Count` and `Save` are the three parts of the callback. The database
serves `findById` at `Fetch`; `Count` computes the reset and the new count from
the snapshot and the clock; `Save` writes the fields the callback assigned:
always the count, `last_reset` only if it was reset. Nothing versions these
fields, so a late save may bring last month's count into the new month. `Reject`
is a database call that fails: nobody catches the rejection, which stops the
process, so all callbacks are lost, and a save may have happened all the same.

`trackRequest` of the tenant service looks alike but takes the time before it reads the
tenant (`tenant.service.ts` 99-100), where the callback takes it after: if the month
turns in between, even a lone `trackRequest` carries the old month's count on. It has no
caller and is not modelled; what is said of the counter is said of the ingest's
callback. A `usage` that the body of an updateTenant request names is not modelled
either.

### IngestMetering

`HandOver(j)` is the one step of both parts: the acknowledged save of handler j
schedules callback j. `StopAll` and `CallbackRejects` stop both. All other steps
belong to one part and leave the other alone.

### Onboarding

One record per HTTP request; `tenants` and `users` are the collections, and the id
of a tenant is its place. `SignIn` is `GoogleStrategy.validate`; `FindUser`,
`CreateTenant`, `CreateUser`, `Touch` and `Populate` are the awaits of
`validateUser` with `createNewUserWithTenant`; `Redirect` is the callback route,
which runs `validateUser` again. `Post` is POST /api/tenant, `CheckSlug` the look-up
of the slug, and `CreateTenant` and `CreateUser` its two saves, the same two inserts
as in a sign-in. An insert is refused when it breaks a unique index (`TenantTaken`,
`EmailTaken`) or lacks a required field (`UserRefused`: an administrator's token
carries no email, and a POST therefore leaves a tenant without owner). Nothing
undoes a first insert.

The slug a sign-in tries ends in the clock's last six digits, so any slug may come
up; the tenant name depends on the profile alone (display name and address
prefix), and two profiles may share it. `DbFails` is a call that rejects, with an
insert that may have happened all the same; `Crash` drops every pending request.
The controllers' answers are `"answered"` and `"failed"`. A route whose guard
rejects the caller does not begin.

What this design promises is less than one would wish, and the properties say how
much: users never share a tenant; racing sign-ins leave no tenant without a user;
but a profile whose tenant exists while its user does not can never sign in again
(`BarredForGood`), be it because a call failed between the inserts or because
somebody else's tenant has the name. The name is made of the profile, so this is of a
profile that stays the same: after its display name has changed, another tenant is tried.

### TenantConfig

`doc` is the tenant document with the version Mongoose keeps (`__v`). Backend:
`FindTenant` and `Save` (with `Conflict` and `VersionError`) are updateWafConfig.
`updateTenant` is `$set: updateDto` with the request's body as it comes: the interface
`UpdateTenantRequest` is gone at run time, so `Sent` lets a request store any rules, any
limit, any level, and another version, together or apart. Three facts about Mongoose are
used: a save sends the paths that changed since the read, as absolute values; setting a
whole array makes the save conditional on the version read, and raises it;
`findByIdAndUpdate` leaves the version, unless it is sent. The level, clamped to 1..4 by
updateWafConfig only, stands for every field that is not an array. `overtaken` of a save
under way says what updateTenant has changed since the document was read for it.

A plan's limit is therefore a promise of saves alone: `RulesWithinPlan` is about the rules
a `Save` stores, whatever updateTenant stored before; and as the limit is checked on what
was read, a limit changed in between binds the next save only. Not modelled: bodies that
leave a subdocument null or a limit that is no number, after which updateWafConfig throws
or compares with NaN; and a level outside the slider's range that was there before the
first fetch, which the next save clamps unedited.

Browser: `ReadConfig` and `ConfigArrives` are fetchWafConfig, whose answer replaces
the edited copy whenever it comes; the panel's spinner depends on the subscription
alone (`SubscriptionArrives`, `SubscriptionFails`); `setLevel`,
`handleAddCustomRule` and `handleRemoveCustomRule` edit, also while a save is on its
way; `handleSaveConfig` to `SaveReturns` is one save. Edits made during a save, or
before the first answer, are overwritten or stored along with defaults:
`SavesOnlyEdits` says when not.

### AccountBook and Billing

One record per operation: `Begin` (charge and adminCharge are alike),
`getOrCreateBilling` in `Find`, `FindNone`, `Create`, `CreateRefused`; `Refuse` is
the balance check, `CreateTransaction` writes the ledger, `Save` the account (the
changed fields, as absolute values), `Inform` answers an inquiry, which creates the
account before it looks the tenant up. Prices are in half won, so that they are integers.
Nothing checks an amount (`billing.controller.ts` 36-41), so `Charges` and `Counts` are any
integers: an amount of zero writes a transaction and moves nothing, a negative charge takes
from the balance, and a negative deduction adds to it. Amounts sent as text, which would be
appended and not added, are not modelled. `monthly_usage` moves with `totalUsed`, as nothing
resets it. The module is not imported by `app.module.ts`, and `deductUsage` has no caller:
it is code at rest.

`AccountBook` promises credits, and debits that the balance covers, until two
operations of a tenant overlap; then only that no balance becomes negative. A tenant of
which a negative amount was asked (`Reversed`) keeps less: its credits may go either way,
and below zero; no debit leaves a negative balance even then, because a deduction saves
what it has checked.

### LogQueries

Writers insert logs, tenants and users at any time; nothing is removed. One reader at
a time: `findAll` and `getAllUsers` read a page (`Find`), then the total (`Count`), and
`NextPage` turns the page; equal times come in any order at each `Find`. `getStats`
runs five queries side by side, each answering at its own moment. `getAdminDashboard`
awaits its reads one after the other. A reader changes nothing, so one stands for all.

### SecurityTester

A call is a list of tests; each is `Respond` or `RequestFails`, `FindTenant`,
`CreateTenant` (default-test, for a caller without a tenant), `SaveLog`. `Thrown` is
the catch around all of them: it writes a log of its own, of a blocked request with
code 0, and an error in it rejects the call. `seedDummyData` counts, and inserts two
awaits later. Five payloads per attack are `Payloads`, a hundred dummy logs `SeedSize`.

### Dashboard

`logs` and `stats` are the questions whose answers are shown; `asked` and `askedStats`
the fetches in flight, as bags, answered in any order. `Effect` is the effect of
WafDashboard on page, limit and filters: it follows each turn in which one changed. An
answer stores the pagination the server repeats as text, which differs from the
number it was and fires the effect once more. `Complete` is the end of a test or a
seed, which fetches with the page and the filters of the render it began in.
`handleTabChange` unmounts what is not on screen. `setFilters` merges; the form's
`handleClearFilters` merges nothing and therefore leaves the filters in force.
Nothing polls: the page fetches on changes only.

### Session

The tabs share `storage` (auth-storage) and `adminToken`; `store` is what a tab holds
in memory. `Loaded` is a page load with its effects in React's order. `Set` is any
`set()` of the store, which persists it. `AuthCallback` is the return from Google with
a token; such tokens come from outside the model, as `googleAuthRedirect` rejects (see
the finding). `Unauthorized` is the interceptor on 401: it removes whatever token is
stored when it arrives and loads the login page, also after a wrong password. Each
administrator's request carries the token of when it was sent. `FindAdmin` and
`CreateAdmin` are createDefaultAdmin.

A page load drops a tab's requests; Back and Forward between routes of the loaded page
(`Traverse`, and `ReturnToCallback` for a callback's address, whose tokens `returned`
keeps) do not, as BrowserRouter only swaps the component. What a page no longer waits for
goes on in `late` and `stale` of `asking`: logins of a form that is gone, and requests
left by a page or by a failed batch, beside which `Refresh`, the button, starts three more.
So Back to a callback during a verification leaves one user beside the token of another,
and Back to the login form with an old token's requests in flight lets their 401 remove
the token of the new login. The code allows both; `wandered` marks a tab that went back or
forward while it waited, until its next page load, and `SessionsAreWhole` and
`AloneKeepsToken` leave it out. Of the history only the callbacks' addresses are kept, so
that Back may find any route of the page. Not modelled: a page that the browser freezes and
thaws whole (its back/forward cache), and several requests of one token that nobody waits
for are answered as one, as all but a 401 change nothing.

## Runs

| Run | Shows |
|---|---|
| `ingest_safety` | types; exactly one way to hear of new lines in a running service (`OneFollower`); at most one document per line (`StoredOnce`); usage is tracked only for stored documents (`TrackedIsStored`); `AuditIngest` implements `AuditStore` (`ImplementsStore`) |
| `meter` | no request is invented (`NeverOvercounts`); exact when updates of a tenant take turns (`ExactWhenSerial`); no update hangs (`EventuallyMetered`) |
| `meter_lost_update` | finding: overlapping updates lose requests (`EveryRequestCounted`) |
| `metering` | no counter ahead of the tenant's documents (`NeverAheadOfDocs`); what is stored is metered unless the process stops (`StoredIsMetered`); the retry loop comes to follow a mounted file (`EventuallyFollows`); delivered lines settle (`EventuallySettled`); a live tail delivers (`EventuallyDelivered`) |
| `onboarding` | types; no two users share a tenant (`PrivateTenants`); sign-ins that race without failures leave none without a user (`RacesLeaveNoOrphan`); a profile left half-way never gets in (`BarredForGood`); every request is answered, fails, or is lost with the process (`EventuallyEnds`) |
| `onboarding_token` | finding: the callback route validates the user document as if it were a profile, and fails (`ValidatedGetsToken`) |
| `tenant_config` | the rules a save stores stay within the limit it read, and within the plan unless updateTenant changed it since (`RulesWithinPlan`); no save replaces rules it has not read (`NoRulesUnread`); with one careful user, a save stores the edits and nothing else (`SavesOnlyEdits`) |
| `billing` | each figure of an account is a sum of some of its saved transactions (`LedgerCoversTotals`); without overlap it is what its entries add up to (`LedgerExplainsAccount`); `Billing` implements `AccountBook` (`ImplementsBook`) |
| `log_queries` | reading all pages misses no document (`PagesMissNothing`); rows within the announced total (`RowsWithinTotal`); each statistic is of the time of the request (`StatsInWindow`); the administrator's figures agree (`DashboardAgrees`) |
| `security_tester` | each result is in the logs with its verdict (`ResultIsLogged`); only racing callers without a tenant are misjudged (`OnlyTheRaceMisjudges`); only an empty collection is seeded (`SeedsEmptyOnly`); calls end (`EventuallyAnswered`) |
| `dashboard` | spinners turn only for requests in flight (`SpinnersAreHonest`); a quiet page shows its window and its filters (`QuietIsCurrent`); what is applied is in force (`AppliedIsInForce`); the page comes to rest (`EventuallyQuiet`) |
| `session` | no half session on screen (`SessionsAreWhole`); a lone tab asks with the token it is signed in with (`AloneAsksAsShown`) and keeps a valid token (`AloneKeepsToken`); spinners end, expired tokens sign out (`EventuallyVerified`) |

The type invariants of `LogQueries`, `SecurityTester`, `Dashboard`, `Session` and of
the composition are conjuncts of `RowsWithinTotal`, `ResultIsLogged`,
`SpinnersAreHonest`, `SessionsAreWhole` and `NeverAheadOfDocs`; those of `UsageMeter`,
`Billing` and `TenantConfig` are proved.

### Bounds

Ingest: `MaxLines` 3 (2 in `metering`) gives two handlers that interleave and a third
line that a second tail may repeat or miss; `MaxCrashes` 1 gives two processes;
`MaxTailFaults` 2 gives a failed start and a read error in either order, hence up to
three tails; `MaxDbFaults` 1 puts one failure at every await of one handler while the
other goes on. The lines are one of each kind the handler tells apart. Three tenants
are the two system tenants and one customer, who may register at any moment.

Metering: three callbacks and three months let a snapshot be two months and two saves
old. `metering` has two lines, hence two handlers and their callbacks at once, and one
fault of each kind.

Onboarding: three requests of two profiles that share a tenant name, and POSTs, race
for names, slugs and addresses, with one failure or stop at any await; the demo tenant
holds one of the three slugs.

TenantConfig: two panels, one rule that may be added or removed, limits 1 and 2, one
edit, two saves and one call of updateTenant or failure: two saves overlap in every
way, each with or without new rules. updateTenant may send no rules or two, more than the
lower limit, a level beyond the slider's, and the version back to 0. Billing: three
operations on two ids, one of them no tenant, charges of 1.5 won and of less than nothing
(-0.5), deductions of -1, 0 and 1 logs and requests, hence of both signs and of zero, and
one failure: the third operation sees what two overlapping ones left.

LogQueries: four logs of two tenants, two of the same time, two users, pages of one or
two rows up to the third page, lists of the single most blocked: an insert may move
rows between pages, and a list leaves something out. SecurityTester: two calls or seeds
of up to five tests in all (a full round of the five attacks), with one failure.

Dashboard: two windows, one filter field, two fetches in flight by the user and two of
statistics, two tests or seeds, three other clicks and one failure; two pages may then
answer each other, and a closure may be two questions old. Session: two tabs, two
users, two administrator's tokens, five actions of people, one expiry and one failure:
enough for a login, a way back and another login in one tab around a request of the other,
or for a batch that fails, a refresh and a logout beside what is left of it.

Deadlock is checked in `log_queries` only, where the reader may always ask again; the
other environments are bounded, and the system then has nothing to do.

The environment is free (tenants may be registered before the start, the file
may be there or not), so every hazard in `PROJECT.json` that names a property
occurs within these bounds.

### Fairness

The event loop runs what is ready, and a started database call is answered or
rejected, so boot, timer, delivery and each handler are weakly fair, each handler
by itself; so is each sign-in or POST under way, each test call and seed, each
callback. In the browser, each kind of request in flight is answered or fails; which
one comes first is open. Nothing obliges the environment: no file, no line, no click and
no restart is promised (`docker-compose.yaml` gives the backend no restart policy), and
faults are never fair. Properties that need the process therefore say "unless it stops".
`TenantConfig` and `Billing` state no liveness.

## Proofs

`AuditIngestProofs` proves, for any number of lines, tenants, crashes and faults,
`TypeCorrect`, `FollowsOnce`, `AtMostOneDocument`, `OnlyStoredIsTracked` and
`Refinement` (`AuditIngest` implements `AuditStore`). None of them is inductive.
`IngestInv` adds to them four parts. `FollowerInv`: only the newest tail may be
live, and a running service has it or exactly one retry. `CursorInv`: no handler or
document is past `Reach`, the newest tail's position, or the end of the file while
the process has no tail; a tail therefore delivers lines that have no handler and
no document. `HandlerInv`: a line has one handler, and no document until that
handler saves it. `TenantInv`: a handler about to save holds a registered tenant,
the fallback or the one its header names. Without `CursorInv` a second tail could
deliver a line again, without `HandlerInv` two saves could store it twice. The
proof takes one step per action; the refinement adds that every `Save` is a `Store`
of `AuditStore`, and that every other action is another of its steps or a stutter.

The same module proves `CounterBehindDocs` of `IngestMetering`: a tenant's counter is
never ahead of its documents. `CountInv` of `UsageMeterProofs`, used through an
instance, bounds the counter by the updates that took effect; `LinkInv` says that
callback j exists only once handler j has its save acknowledged, for the tenant it
meters; `IngestInv` that handlers have lines and documents of their own. Callbacks
therefore map one-to-one into the tenant's documents, and the larger set has the larger
size.

`IngestMetering` joins the two modules and adds no step to either (`IngestPart`,
`MeterPart`): `WholeIsIngest` and `WholeIsMeter` say that it implements both, so what is
proved of each alone holds of the whole (`WholeKeepsPromises`, `WholeCountsExactly`).

`UsageMeterProofs` proves `MeterTypeCorrect`, `NoOvercount` and `ExactSerial`. The
steps are first sorted into four kinds (`StepKinds`): those that touch no tenant
document, `Fetch`, `Count`, and an update taking effect. `NoOvercount` needs that
a snapshot is never ahead of the finished updates (`SnapshotInv`). `ExactSerial`
needs that a tenant's only holder of a snapshot is current and that no update is
counted for a later month than the document's (`TakesTurns`).

`OnboardingProofs` proves `OnboardingTypeCorrect`, `TenantsArePrivate`,
`NoOrphanFromRaces` and `NeverUnbarred`. Every step is a stutter, a stop, an
arrival, a move (`Walks`), an insert of a tenant (`Founds`) or of a user (`Joins`).
The invariant says what a request carries (`RequestInv`; the owner a POST names
has an account or no address, so that insert is always refused), that names are
unique and a request keeps the tenant it inserted to itself until its user is in
(`TenantInv`), and that a user's tenant is named after the profile (`UserInv`). The
argument for `NoOrphanFromRaces`: if a sign-in is refused its user, the profile has
one already, whose tenant has the same name, so it is the tenant just inserted.

`BillingProofs` proves `BillingTypeCorrect` and `BillingImplementsBook`, for any integer
amounts. `Inv` says that an operation under way names a tenant whose account exists from
the moment it is found (`Grounded`), that a recorded deduction can be paid from its
snapshot (`Affords`), that the snapshot of a tenant without overlap is what is stored
(`Fresh`) and that such a tenant has one holder (`Exclusive`). `Solvent` says that no
balance, stored or held in a snapshot, is negative of a tenant with no negative amount;
a snapshot must be in it, as it is what a save adds to. Every action but `Begin`, `Got`,
`CreateTransaction` and `Save` only ends or moves an operation. A `Save` is a `Credit`
or a `Debit` where `Fresh` holds, a `Drift` elsewhere, a stutter if the amount is zero;
`Begin` is a `Reverse` if its amount is negative; nothing else moves the book.

`LedgerCovers` and `LedgerExplains` need `LedgerInv`: an operation has one entry, there
from `CreateTransaction` on (`Recorded`); the figures of an account, and of a snapshot
that will be saved, are sums of some of the tenant's settled entries (`Covers`, `Covered`),
and stay so when more entries settle; a save adds its own entry to a sum that cannot hold
it yet, as it was not settled; and an account without overlap is the sum of all of them
(`Explains`). With negative amounts a bound on the figures would say nothing, hence sums of
subsets. The library's sum over a set is a recursive function: that it grows by what an
entry adds (`TotalAdd`) is proved by a smallest counterexample, as induction theorems
cannot be instantiated here.

`TenantConfigProofs` proves `ConfigTypeCorrect`, `ConfigRulesWithinPlan` and
`ConfigNoRulesUnread`. The first needs that an edit keeps a form a configuration
(`RemoveAtIsSeq`); the second that what a read-and-checked save holds is within the limit
that was read, which is the document's unless updateTenant has overtaken it (`Checked`);
the third that a save that read the document's present version read its rules, unless
updateTenant has overtaken configuration or version (`Versioned`). `ConfigSavesOnlyEdits`
needs `CalmInv`: as long as it is calm, one panel is there, no fetch is in flight while a
save is, what was fetched is what is stored, and what the panel shows or sends is stored
but for the fields edited; a stored level is within 1..4, so that the clamp leaves it
alone.

`LogQueriesProofs` proves `PagesWithinTotal`, `ReadersMissNothing`,
`StatsAreOfTheWindow` and `DashboardFiguresAgree`, from one invariant, `QueryInv`.
Collections only grow, so what a request found at its start is there when it is
answered (`BaseInv`), and each figure lies between that and what is there now
(`StatInv`, `OverviewInv`). `SeenInv` carries the argument for the pages: a document
with a time of its own that was not met has at least as many newer ones before it as
the pages read hold, so inserts push it back but never onto a page already read
(`RowsOfPage`, `Rank`); on the last page nobody is left (`LastPage`). That groups add
up to the collection they split (`GroupsAddUp`) is again a smallest counterexample.

`SecurityTesterProofs` proves `ResultsAreLogged`, `RaceOnly` and `SeedsOnce` from
`TesterInv`: every result has its log and, until something fails, every log its result
(`LoggedInv`); without a failure the catch is entered before the first result only, by
a call without a tenant, which the unique name of default-test refused (`JudgedInv`); a
seed that was called late still finds what it must be turned away by (`SeedInv`).

`FrontendProofs` proves, of `Session`, `SessionsStayWhole`, `AloneAsks` and `AloneKeeps`.
The first is inductive and taken tab by tab: `SharedOK` is what the tabs share, `TabsOK`
what each holds and, unless it wandered, shows (`Shown`: a tab that loads verifies the
token it holds, and one that does not is nobody's or whole). A step is a page load
(`LoadStep`), a `set()` (`SetStep`), a request (`AskStep`) or one of the server
(`ServerStep`), each of which changes one tab at most. What `storage` holds is no part of
it: a load may find half a session, and it is the verification that makes it whole.
The other two need `UnopenedInv`, a tab never opened waits for nothing, so that only
the lone tab acts, and `Own`: the lone tab holds the token of the storage; and until a
request fails or the tab leaves a page that waits, nothing in flight goes unawaited, and
what is in flight carries the stored token.

The same module proves `SpinnersHonest`, `QuietPageIsCurrent` and `AppliedFiltersApply`
of `Dashboard`, which shares no state with `Session`. `PageInv` adds to the types that
the panel's tests in flight are one per button (`RunsInv`), that in a calm everything in
flight asks with the filters in force (`CalmInv`), and that a field the form leaves
unset filters by nothing (`FormInv`), which is what makes Apply exact although the store merges. Bags are
unfolded in three lemmas (`AddOne`, `RemoveOne`, `OrphanedRuns`).

The proofs assume only the named assumptions of the modules (`LineAssumption`,
`BoundAssumption`, `MeterAssumption`, `OnboardingAssumption`, `BillingAssumption`,
`ConfigAssumption`, `MonthAssumption`, `QueriesAssumption`, `TesterAssumption`,
`SessionAssumption`, `DashboardAssumption`): the special values are distinct, the bounds
and times are naturals, callbacks and operations are finitely many, profiles have
addresses of their own, the tenants there at the start have names of their own, amounts
are integers, and what is first stored is a configuration.

Each strengthened invariant (`LedgerInv`, `TesterInv`, `QueryInv`, `PageInv`, `CalmInv`,
`SessionInv` and those before them) was first checked by TLC on the instances of the runs.

Only model-checked: the liveness properties, as fairness and ENABLED are beyond the
prover. Every invariant and every action property the runs check is a theorem.

## What remains

1. Liveness of `TenantConfig`: no panel saves for ever.
2. The classification helpers of the ingest (`inferAttackTypeFromRule`,
   `isBlockedFromMessages`) as functions, once a property tells their results apart.

## Not modelled

- Documents' contents beyond what a property needs, logging, HTTP and rendering
  (`LoginPage`, `WafStatsCards`, the results list of `SecurityTestPanel`).
- The traffic generators: they send random requests and count answers; they share no
  state with anything else.
- `RawAuditLogViewer` and the service's raw reader: one read of a file as it is.
- `getTransactions`, `findById`, the administrator's lists, system-health: single
  reads or reports without state.
- The container scripts: they compute text from the environment, and that text is all
  there is to state.
- ModSecurity's rules and third-party images; shared type declarations; `generateJwt`,
  which copies a user's fields into a token.
- File rotation of `audit.log`: no configuration in this repository rotates it.
- React's StrictMode, which in development runs effects twice: the production build
  does not.
