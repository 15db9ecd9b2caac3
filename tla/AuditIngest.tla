----------------------------- MODULE AuditIngest ------------------------------
(***************************************************************************)
(* The audit-ingest service of the backend: it makes sure its two tenants  *)
(* exist, waits for audit.log to be mounted, follows it, and turns each    *)
(* line into a WafLog document of a tenant.                                *)
(*                                                                         *)
(* The handler of a line is asynchronous and the tail does not wait for    *)
(* it, so any number of handlers run interleaved; each is a job that stops *)
(* at every await of persistEntry.  The process may stop at any time, the  *)
(* tail may report a read error, and the database may refuse a call.       *)
(***************************************************************************)
EXTENDS AuditLine, Naturals, Sequences, FiniteSets

CONSTANTS
    MaxLines,       \* bound: lines ModSecurity writes
    MaxCrashes,     \* bound: times the process is killed
    MaxTailFaults,  \* bound: times starting or reading the tail fails
    MaxDbFaults     \* bound: times the database fails a call

ASSUME BoundAssumption ==
    {MaxLines, MaxCrashes, MaxTailFaults, MaxDbFaults} \subseteq Nat

VARIABLES
    phase,          \* of the process: off, the two steps of booting, running
    known,          \* tenants collection: the ids registered
    docs,           \* waflogs collection, in the order of the saves
    fileExists,     \* audit.log is mounted
    log,            \* the lines of audit.log
    uncategorizedTenantId,
    timers,         \* retry timers pending
    tails,          \* the Tail objects this process created, dropped ones too
    jobs,           \* the 'line' events handled so far, by every process
    faults          \* failures the environment may still cause

processVars == <<phase, uncategorizedTenantId, timers, tails>>
vars == <<processVars, known, docs, fileExists, log, jobs, faults>>

Phases == {"off", "booting", "seeding", "running"}

\* A job awaits the tenant lookup, then the save, then the setImmediate that
\* starts the usage update; the other states are final.
Pending == {"resolving", "saving", "saved"}
Final == {"ignored", "dropped", "tracked", "lost"}

Job == [line : 1..MaxLines, pc : Pending \cup Final, tenant : Tenants \cup {Null}]
Follower == [live : BOOLEAN, pos : 0..MaxLines]
Doc == [line : 1..MaxLines, tenant : Tenants]

TypeOK ==
    /\ phase \in Phases
    /\ known \in SUBSET Tenants
    /\ docs \in Seq(Doc)
    /\ fileExists \in BOOLEAN
    /\ log \in Seq(Lines) /\ Len(log) <= MaxLines
    /\ uncategorizedTenantId \in {Uncategorized, Null}
    /\ timers \in Nat
    /\ tails \in Seq(Follower)
    /\ jobs \in Seq(Job)
    /\ faults \in [crash : Nat, tail : Nat, db : Nat]

Init ==
    /\ phase = "off"
    /\ known \in SUBSET Tenants
    /\ docs = << >>
    /\ fileExists \in BOOLEAN
    /\ log = << >>
    /\ uncategorizedTenantId = Null
    /\ timers = 0
    /\ tails = << >>
    /\ jobs = << >>
    /\ faults = [crash |-> MaxCrashes, tail |-> MaxTailFaults, db |-> MaxDbFaults]
-------------------------------------------------------------------------------
(* The environment: nginx with ModSecurity, the other modules, the host.    *)

FileAppears ==
    /\ ~fileExists
    /\ fileExists' = TRUE
    /\ UNCHANGED <<processVars, known, docs, log, jobs, faults>>

WriteLine(l) ==
    /\ fileExists
    /\ Len(log) < MaxLines
    /\ log' = Append(log, l)
    /\ UNCHANGED <<processVars, known, docs, fileExists, jobs, faults>>

RegisterTenant(t) ==
    /\ t \notin known
    /\ known' = known \cup {t}
    /\ UNCHANGED <<processVars, docs, fileExists, log, jobs, faults>>

\* A fault of the given kind happens now.
Spend(kind) ==
    /\ faults[kind] > 0
    /\ faults' = [faults EXCEPT ![kind] = @ - 1]

\* The memory of the process goes: timers, tails and handlers in flight.
Stop ==
    /\ phase' = "off"
    /\ uncategorizedTenantId' = Null
    /\ timers' = 0
    /\ tails' = << >>
    /\ jobs' = [j \in DOMAIN jobs |->
                  IF jobs[j].pc \in Pending THEN [jobs[j] EXCEPT !.pc = "lost"]
                                            ELSE jobs[j]]

Crash ==
    /\ phase # "off"
    /\ Spend("crash")
    /\ Stop
    /\ UNCHANGED <<known, docs, fileExists, log>>

Boot ==
    /\ phase = "off"
    /\ phase' = "booting"
    /\ UNCHANGED <<known, docs, fileExists, log, uncategorizedTenantId, timers,
                   tails, jobs, faults>>
-------------------------------------------------------------------------------
(* Starting and retrying.                                                   *)

\* Mutant of Starts: fromBeginning: true.
StartsFromBeginning == {0}

\* The watcher of a file is shared by the tails of a process, dropped ones too:
\* a later tail starts behind the block the last one failed on, the first one
\* at the end of the file (fromBeginning: false).
Starts == IF tails = << >> THEN {Len(log)}
          ELSE {n \in 1..Len(log) : n > tails[Len(tails)].pos}

startTailInternal ==
    \E n \in Starts : tails' = Append(tails, [live |-> TRUE, pos |-> n])

\* Mutant of beginWithRetry: polls in any case, as setInterval would.
PollsInAnyCase(pending) ==
    /\ timers' = pending + 1
    /\ \/ ~fileExists /\ UNCHANGED <<tails, faults>>
       \/ fileExists /\ startTailInternal /\ UNCHANGED faults
       \/ fileExists /\ Spend("tail") /\ UNCHANGED tails

\* Mutant of beginWithRetry: the catch forgets to arm the timer.
GivesUp(pending) ==
    \/ ~fileExists /\ timers' = pending + 1 /\ UNCHANGED <<tails, faults>>
    \/ fileExists /\ startTailInternal /\ timers' = pending /\ UNCHANGED faults
    \/ fileExists /\ Spend("tail") /\ timers' = pending /\ UNCHANGED tails

\* pending: the timers left once the one that fired, or is cleared, is gone.
beginWithRetry(pending) ==
    \/ /\ ~fileExists
       /\ timers' = pending + 1
       /\ UNCHANGED <<tails, faults>>
    \/ /\ fileExists
       /\ startTailInternal
       /\ timers' = pending
       /\ UNCHANGED faults
    \/ /\ fileExists
       /\ Spend("tail")
       /\ timers' = pending + 1
       /\ UNCHANGED tails

\* onModuleInit, up to the reply that confirms the uncategorized tenant.
EnsureUncategorized ==
    /\ phase = "booting"
    /\ phase' = "seeding"
    /\ known' = known \cup {Uncategorized}
    /\ uncategorizedTenantId' = Uncategorized
    /\ UNCHANGED <<docs, fileExists, log, timers, tails, jobs, faults>>

\* The rest of onModuleInit: the demo tenant, then the first attempt to follow.
EnsureDemo ==
    /\ phase = "seeding"
    /\ phase' = "running"
    /\ known' = known \cup {DemoTenant}
    /\ beginWithRetry(timers)
    /\ UNCHANGED <<docs, fileExists, log, uncategorizedTenantId, jobs>>

\* onModuleInit rejects: the application does not come up.
BootFails ==
    /\ phase \in {"booting", "seeding"}
    /\ Spend("db")
    /\ Stop
    /\ UNCHANGED <<known, docs, fileExists, log>>

\* The usage update of a stored log rejects, which nobody catches: Node stops
\* the process.  (What the update does is in UsageMeter.)
UnhandledRejection ==
    /\ \E j \in DOMAIN jobs : jobs[j].pc = "tracked"
    /\ phase = "running"
    /\ Spend("db")
    /\ Stop
    /\ UNCHANGED <<known, docs, fileExists, log>>

RetryTimer ==
    /\ timers > 0
    /\ beginWithRetry(timers - 1)
    /\ UNCHANGED <<phase, known, docs, fileExists, log, uncategorizedTenantId, jobs>>

\* A block cannot be read.  The block stays at the head of the failed tail's
\* queue, so that tail delivers nothing more; the handler arms the timer.
TailError(k) ==
    /\ tails[k].live /\ tails[k].pos < Len(log)
    /\ Spend("tail")
    /\ tails' = [tails EXCEPT ![k].live = FALSE]
    /\ timers' = timers + 1
    /\ UNCHANGED <<phase, known, docs, fileExists, log, uncategorizedTenantId, jobs>>
-------------------------------------------------------------------------------
(* One line: the 'line' handler, persistEntry and the tenant resolver.      *)

\* Mutant of Entered: health checks and junk are not skipped.
EnteredUnfiltered(i) ==
    LET pc == IF log[i].header = NoHeader THEN "saving" ELSE "resolving"
    IN  [line |-> i, pc |-> pc,
         tenant |-> IF pc = "saving" THEN uncategorizedTenantId ELSE Null]

\* Where a line stands at its first await, or at the end if it is skipped.
Entered(i) ==
    LET pc == IF ~Relevant(log[i]) THEN "ignored"
              ELSE IF log[i].header = NoHeader THEN "saving"
              ELSE "resolving"
    IN  [line |-> i, pc |-> pc,
         tenant |-> IF pc = "saving" THEN uncategorizedTenantId ELSE Null]

\* Mutant of Deliver: an exception of a line handler ends the tail's loop.
DeliverUntilFailure(k) ==
    /\ \A j \in DOMAIN jobs : jobs[j].pc # "dropped"
    /\ tails[k].live /\ tails[k].pos < Len(log)
    /\ tails' = [tails EXCEPT ![k].pos = @ + 1]
    /\ jobs' = Append(jobs, Entered(tails[k].pos + 1))
    /\ UNCHANGED <<phase, known, docs, fileExists, log, uncategorizedTenantId,
                   timers, faults>>

Deliver(k) ==
    /\ tails[k].live /\ tails[k].pos < Len(log)
    /\ tails' = [tails EXCEPT ![k].pos = @ + 1]
    /\ jobs' = Append(jobs, Entered(tails[k].pos + 1))
    /\ UNCHANGED <<phase, known, docs, fileExists, log, uncategorizedTenantId,
                   timers, faults>>

Header(j) == log[jobs[j].line].header

ResolvedTo(j, t) ==
    /\ jobs' = [jobs EXCEPT ![j] = [@ EXCEPT !.pc = "saving", !.tenant = t]]
    /\ UNCHANGED <<processVars, known, docs, fileExists, log>>

\* Mutant of Resolve: a lookup that finds nobody is not answered.
ResolveOnlyKnown(j) ==
    /\ jobs[j].pc = "resolving" /\ Header(j) \in known
    /\ ResolvedTo(j, Header(j))
    /\ UNCHANGED faults

\* The tenant lookup answers: the named tenant, or nobody.
Resolve(j) ==
    /\ jobs[j].pc = "resolving"
    /\ ResolvedTo(j, IF Header(j) \in known THEN Header(j) ELSE uncategorizedTenantId)
    /\ UNCHANGED faults

\* The lookup fails; the inner catch reports an invalid header.
ResolveFails(j) ==
    /\ jobs[j].pc = "resolving"
    /\ Spend("db")
    /\ ResolvedTo(j, uncategorizedTenantId)

\* Schema validation, which precedes the insert: tenant is required.
Validates(j) == log[jobs[j].line].valid /\ jobs[j].tenant # Null

\* Mutant of Inserted: the header is stored, not the tenant it resolved to.
InsertedVerbatim(j) == Append(docs, [line |-> jobs[j].line, tenant |-> Header(j)])

Inserted(j) == Append(docs, [line |-> jobs[j].line, tenant |-> jobs[j].tenant])

Save(j) ==
    /\ jobs[j].pc = "saving"
    /\ Validates(j)
    /\ docs' = Inserted(j)
    /\ jobs' = [jobs EXCEPT ![j].pc = "saved"]
    /\ UNCHANGED <<processVars, known, fileExists, log, faults>>

\* Mutant of SaveFails: the error is swallowed and the handler goes on.
SaveFailsSilently(j) ==
    /\ jobs[j].pc = "saving"
    /\ \/ ~Validates(j) /\ UNCHANGED <<docs, faults>>
       \/ Validates(j) /\ Spend("db") /\ docs' \in {docs, Inserted(j)}
    /\ jobs' = [jobs EXCEPT ![j].pc = "saved"]
    /\ UNCHANGED <<processVars, known, fileExists, log>>

\* The handler's catch drops the line.  A database error may also come back
\* after the insert took effect.
SaveFails(j) ==
    /\ jobs[j].pc = "saving"
    /\ \/ ~Validates(j) /\ UNCHANGED <<docs, faults>>
       \/ Validates(j) /\ Spend("db") /\ docs' \in {docs, Inserted(j)}
    /\ jobs' = [jobs EXCEPT ![j].pc = "dropped"]
    /\ UNCHANGED <<processVars, known, fileExists, log>>

\* The save is acknowledged: the usage update is scheduled (setImmediate).
Track(j) ==
    /\ jobs[j].pc = "saved"
    /\ jobs' = [jobs EXCEPT ![j].pc = "tracked"]
    /\ UNCHANGED <<processVars, known, docs, fileExists, log, faults>>
-------------------------------------------------------------------------------
Environment ==
    \/ FileAppears
    \/ \E l \in Lines : WriteLine(l)
    \/ \E t \in Tenants : RegisterTenant(t)
    \/ Crash
    \/ Boot

Starting == EnsureUncategorized \/ EnsureDemo \/ BootFails

JobStep(j) ==
    \/ Resolve(j) \/ ResolveFails(j)
    \/ Save(j) \/ SaveFails(j)
    \/ Track(j)

Next ==
    \/ Environment
    \/ Starting
    \/ UnhandledRejection
    \/ RetryTimer
    \/ \E k \in DOMAIN tails : TailError(k) \/ Deliver(k)
    \/ \E j \in DOMAIN jobs : JobStep(j)

Spec == Init /\ [][Next]_vars
-------------------------------------------------------------------------------
Live == {k \in DOMAIN tails : tails[k].live}

\* A running service has exactly one way to hear of new lines, a live tail or
\* one pending retry, whatever sequence of missing files, failed starts and
\* read errors led here (beginWithRetry and the tail's 'error' handler).
OneFollower ==
    /\ phase = "running" => Cardinality(Live) + timers = 1
    /\ phase # "running" => Live = {} /\ timers = 0

\* No line becomes two documents, across tail errors, restarts and saves whose
\* acknowledgement is lost: the tail's start position and the serial 'line'
\* events are all that prevents it, the waflogs collection has no unique key.
StoredOnce ==
    \A p, q \in DOMAIN docs : docs[p].line = docs[q].line => p = q

\* The usage update is only ever scheduled for a document that is in the
\* collection, under the tenant that is going to be metered (persistEntry).
TrackedIsStored ==
    \A j \in DOMAIN jobs : jobs[j].pc \in {"saved", "tracked"} =>
        \E p \in DOMAIN docs : docs[p] = [line |-> jobs[j].line, tenant |-> jobs[j].tenant]

\* The service keeps the promise of AuditStore.
Store == INSTANCE AuditStore WITH stored <- docs
ImplementsStore == Store!Spec

\* A running service whose file is mounted comes to follow it, unless it stops
\* (the retry loop of beginWithRetry).
EventuallyFollows ==
    (phase = "running" /\ fileExists) ~> (Live # {} \/ phase = "off")

\* Every delivered line is settled: stored, dropped, ignored or lost with the
\* process; no handler waits for ever.
EventuallySettled ==
    \A j \in 1..MaxLines :
        j \in DOMAIN jobs ~> (j \in DOMAIN jobs /\ jobs[j].pc \in Final)

\* A line written while a tail is live is delivered by that tail, unless the
\* tail fails or the process stops first.
EventuallyDelivered ==
    \A k \in 1..(MaxTailFaults + 1), i \in 1..MaxLines :
        (k \in Live /\ i <= Len(log))
          ~> (k \notin Live \/ (k \in DOMAIN tails /\ tails[k].pos >= i))
===============================================================================
