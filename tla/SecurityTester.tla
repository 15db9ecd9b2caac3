---------------------------- MODULE SecurityTester ----------------------------
(***************************************************************************)
(* The security tests of WafLogsService and its seed of dummy logs.        *)
(*                                                                         *)
(* A test sends one payload through the proxy and writes a log of the      *)
(* outcome; both awaits stand in one try, whose catch writes a log of its  *)
(* own, of a blocked request with response code 0, and counts the test as  *)
(* blocked.  What is caught may be the proxy not answering, the lookup of  *)
(* the tenant or the save of the first log; what the catch itself raises   *)
(* rejects the whole call.  A caller without a tenant (an administrator)   *)
(* tests for the tenant of slug default-test, which the first test or the  *)
(* seed creates: a check followed by an insert under a unique index.       *)
(***************************************************************************)
EXTENDS Naturals, Sequences, FiniteSets

CONSTANTS
    Calls,      \* the calls of the test endpoints ever made
    Seeds,      \* the calls of the seed endpoint ever made
    Tenants,    \* the tenants callers belong to; no code removes a tenant
    Null,       \* a caller without a tenant
    Statuses,   \* what the proxy may answer
    Payloads,   \* the payloads of one attack (five in the code)
    SeedSize,   \* the logs of one seed (a hundred in the code)
    MaxTests,   \* bound: tests ever begun
    MaxBegun,   \* bound: calls and seeds ever begun
    MaxFaults   \* bound: HTTP and database calls that fail, stops of the process

ASSUME TesterAssumption ==
    /\ Null \notin Tenants
    /\ Statuses \in SUBSET (Nat \ {0})
    /\ Payloads \in Nat \ {0} /\ SeedSize \in Nat \ {0}
    /\ MaxTests \in Nat /\ MaxBegun \in Nat /\ MaxFaults \in Nat

VARIABLES
    logs,           \* the documents tests wrote
    dummies,        \* how many documents each seed wrote
    defaultTest,    \* whether the tenant default-test is there
    calls,          \* each call: the await it stands at and what it holds
    seeds,          \* each seed: the await it stands at
    faults          \* failures still to come

vars == <<logs, dummies, defaultTest, calls, seeds, faults>>

AllAttacks == <<"SQL Injection", "XSS", "Command Injection",
                "Directory Traversal", "Malicious File Upload">>
Attacks == {AllAttacks[i] : i \in DOMAIN AllAttacks}

\* Statuses that count as blocked: an upload may also be refused as unacceptable.
Refusals(attack) == IF attack = "Malicious File Upload" THEN {403, 406} ELSE {403}

\* served: what the proxy answered, 0 if it did not.  status: what the caller is
\* told, 0 for 'ERROR'.
Outcome == [served : Statuses \cup {0}, status : Statuses \cup {0}, blocked : BOOLEAN]
Log == [call : Calls, test : Nat, tenant : Tenants \cup {Null}, attack : Attacks,
        status : Statuses \cup {0}, blocked : BOOLEAN]

\* The awaits: the request, findById or findOne, create, save.
Pending == {"requesting", "finding", "creating", "saving"}
Call == [pc : {"idle", "done", "failed"} \cup Pending,
         tests : Seq(Attacks), tenant : Tenants \cup {Null},
         results : Seq(Outcome), served : Statuses \cup {0}, caught : BOOLEAN]

Seeding == {"counting", "finding", "creating", "inserting"}
\* late: a document was there when the call was made.
Seed == [pc : {"idle", "exists", "created", "failed"} \cup Seeding, late : BOOLEAN]

TypeOK ==
    /\ logs \in SUBSET Log
    /\ dummies \in [Seeds -> 0..SeedSize]
    /\ defaultTest \in BOOLEAN
    /\ calls \in [Calls -> Call]
    /\ \A c \in Calls :
         /\ calls[c].pc \in Pending => Len(calls[c].results) < Len(calls[c].tests)
         /\ calls[c].pc = "done" => Len(calls[c].results) = Len(calls[c].tests)
    /\ seeds \in [Seeds -> Seed]
    /\ faults \in Nat

Idle == [pc |-> "idle", tests |-> << >>, tenant |-> Null, results |-> << >>,
         served |-> 0, caught |-> FALSE]

Init ==
    /\ logs = {}
    /\ dummies = [s \in Seeds |-> 0]
    /\ defaultTest = FALSE
    /\ calls = [c \in Calls |-> Idle]
    /\ seeds = [s \in Seeds |-> [pc |-> "idle", late |-> FALSE]]
    /\ faults = MaxFaults

Fault == faults > 0 /\ faults' = faults - 1
NoDocument == logs = {} /\ \A s \in Seeds : dummies[s] = 0
-------------------------------------------------------------------------------
\* Calls and seeds begun, and tests begun.
Begun == {c \in Calls : calls[c].pc # "idle"} \cup {s \in Seeds : seeds[s].pc # "idle"}
TestsBegun == Cardinality(UNION {{c} \X DOMAIN calls[c].tests : c \in Calls})

\* An endpoint of WafLogsController begins its tests, for the caller's tenant.
Begin(c, tests, t) ==
    /\ calls[c].pc = "idle"
    /\ TestsBegun + Len(tests) <= MaxTests /\ Cardinality(Begun) < MaxBegun
    /\ calls' = [calls EXCEPT ![c] =
          [Idle EXCEPT !.pc = IF tests = << >> THEN "done" ELSE "requesting",
                       !.tests = tests, !.tenant = t]]
    /\ UNCHANGED <<logs, dummies, defaultTest, seeds, faults>>

Each(attack) == [i \in 1..Payloads |-> attack]

simulateSqlInjectionAttack(c, t) == Begin(c, Each("SQL Injection"), t)
simulateXssAttack(c, t) == Begin(c, Each("XSS"), t)
simulateCommandInjectionAttack(c, t) == Begin(c, Each("Command Injection"), t)
simulateDirectoryTraversalAttack(c, t) == Begin(c, Each("Directory Traversal"), t)
simulateFileUploadAttack(c, t) == Begin(c, Each("Malicious File Upload"), t)

\* The five attacks one after the other, count times.
Rounds(count) ==
    [i \in 1..(count * 5 * Payloads) |-> AllAttacks[(((i - 1) \div Payloads) % 5) + 1]]
simulateAllAttacks(c, count, t) == Begin(c, Rounds(count), t)

\* The attack under way.
Current(c) == calls[c].tests[Len(calls[c].results) + 1]

\* Any status is a response: validateStatus accepts all.
Respond(c, status) ==
    /\ calls[c].pc = "requesting"
    /\ calls' = [calls EXCEPT ![c] = [@ EXCEPT !.pc = "finding", !.served = status]]
    /\ UNCHANGED <<logs, dummies, defaultTest, seeds, faults>>

\* The catch begins a log of its own; an error in the catch rejects the call.
Thrown(c) ==
    calls' = [calls EXCEPT ![c] =
        IF @.caught THEN [@ EXCEPT !.pc = "failed"]
        ELSE [@ EXCEPT !.pc = "finding", !.caught = TRUE]]

\* Unreachable, or no answer within fifteen seconds.
RequestFails(c) ==
    /\ calls[c].pc = "requesting" /\ Fault
    /\ Thrown(c)
    /\ UNCHANGED <<logs, dummies, defaultTest, seeds>>

\* createTestLogEntry: findById of the caller's tenant, else findOne by slug.
FindTenant(c) ==
    /\ calls[c].pc = "finding"
    /\ calls' = [calls EXCEPT ![c].pc =
          IF calls[c].tenant # Null \/ defaultTest THEN "saving" ELSE "creating"]
    /\ UNCHANGED <<logs, dummies, defaultTest, seeds, faults>>

\* Mutant of CreateTenant: who comes second waits for the other one.
CreateTenantAlone(c) ==
    /\ calls[c].pc = "creating" /\ ~defaultTest
    /\ calls' = [calls EXCEPT ![c].pc = "saving"]
    /\ defaultTest' = TRUE
    /\ UNCHANGED <<logs, dummies, seeds, faults>>

\* The insert of default-test: refused if another one came first.
CreateTenant(c) ==
    /\ calls[c].pc = "creating"
    /\ IF defaultTest THEN Thrown(c)
       ELSE calls' = [calls EXCEPT ![c].pc = "saving"]
    /\ defaultTest' = TRUE
    /\ UNCHANGED <<logs, dummies, seeds, faults>>

\* Mutant of Verdict: every refusal of any kind counts as blocked.
VerdictOfAnyRefusal(c) ==
    LET status == IF calls[c].caught THEN 0 ELSE calls[c].served
    IN  [served |-> calls[c].served, status |-> status,
         blocked |-> calls[c].caught \/ status >= 400]

\* What the try, or else the catch, makes of the test under way.
Verdict(c) ==
    LET status == IF calls[c].caught THEN 0 ELSE calls[c].served
    IN  [served |-> calls[c].served, status |-> status,
         blocked |-> calls[c].caught \/ status \in Refusals(Current(c))]

\* The document createTestLogEntry builds; the default tenant's is Null here.
Entry(c) ==
    [call |-> c, test |-> Len(calls[c].results) + 1, tenant |-> calls[c].tenant,
     attack |-> Current(c),
     status |-> IF calls[c].caught THEN 0 ELSE calls[c].served,
     blocked |-> calls[c].caught \/ calls[c].served \in Refusals(Current(c))]

\* The loop after one test more: next payload, or the end.
Advanced(c) ==
    [calls[c] EXCEPT !.results = Append(@, Verdict(c)), !.served = 0, !.caught = FALSE,
                     !.pc = IF Len(calls[c].results) + 1 < Len(calls[c].tests)
                            THEN "requesting" ELSE "done"]

\* Mutant of SaveLog: the save is not awaited, and the test may end without it.
SaveLogLater(c) ==
    /\ calls[c].pc = "saving"
    /\ logs' \in {logs, logs \cup {Entry(c)}}
    /\ calls' = [calls EXCEPT ![c] = Advanced(c)]
    /\ UNCHANGED <<dummies, defaultTest, seeds, faults>>

\* The save, the result and the next test of the loop.
SaveLog(c) ==
    /\ calls[c].pc = "saving"
    /\ logs' = logs \cup {Entry(c)}
    /\ calls' = [calls EXCEPT ![c] = Advanced(c)]
    /\ UNCHANGED <<dummies, defaultTest, seeds, faults>>

\* A database call rejects; an insert may have taken effect all the same.
DatabaseFails(c) ==
    /\ calls[c].pc \in {"finding", "creating", "saving"} /\ Fault
    /\ Thrown(c)
    /\ defaultTest' \in {defaultTest, defaultTest \/ calls[c].pc = "creating"}
    /\ logs' \in {logs, IF calls[c].pc = "saving" THEN logs \cup {Entry(c)} ELSE logs}
    /\ UNCHANGED <<dummies, seeds>>
-------------------------------------------------------------------------------
SeedGoes(s, pc) == seeds' = [seeds EXCEPT ![s].pc = pc]

seedDummyData(s) ==
    /\ seeds[s].pc = "idle" /\ Cardinality(Begun) < MaxBegun
    /\ seeds' = [seeds EXCEPT ![s] = [pc |-> "counting", late |-> ~NoDocument]]
    /\ UNCHANGED <<logs, dummies, defaultTest, calls, faults>>

\* Mutant of CountLogs: only the logs of other seeds are counted.
CountDummies(s) ==
    /\ seeds[s].pc = "counting"
    /\ SeedGoes(s, IF \A o \in Seeds : dummies[o] = 0 THEN "finding" ELSE "exists")
    /\ UNCHANGED <<logs, dummies, defaultTest, calls, faults>>

\* countDocuments: only an empty collection is seeded.
CountLogs(s) ==
    /\ seeds[s].pc = "counting"
    /\ SeedGoes(s, IF NoDocument THEN "finding" ELSE "exists")
    /\ UNCHANGED <<logs, dummies, defaultTest, calls, faults>>

\* generateDummyLogs: find or create the default tenant.
FindDefault(s) ==
    /\ seeds[s].pc = "finding"
    /\ SeedGoes(s, IF defaultTest THEN "inserting" ELSE "creating")
    /\ UNCHANGED <<logs, dummies, defaultTest, calls, faults>>

CreateDefault(s) ==
    /\ seeds[s].pc = "creating"
    /\ SeedGoes(s, IF defaultTest THEN "failed" ELSE "inserting")
    /\ defaultTest' = TRUE
    /\ UNCHANGED <<logs, dummies, calls, faults>>

InsertDummies(s) ==
    /\ seeds[s].pc = "inserting"
    /\ SeedGoes(s, "created")
    /\ dummies' = [dummies EXCEPT ![s] = SeedSize]
    /\ UNCHANGED <<logs, defaultTest, calls, faults>>

\* A database call of the seed rejects; an ordered insertMany may have written
\* any number of its documents.
SeedFails(s) ==
    /\ seeds[s].pc \in Seeding /\ Fault
    /\ SeedGoes(s, "failed")
    /\ defaultTest' \in {defaultTest, defaultTest \/ seeds[s].pc = "creating"}
    /\ \E n \in 0..(IF seeds[s].pc = "inserting" THEN SeedSize ELSE 0) :
           dummies' = [dummies EXCEPT ![s] = n]
    /\ UNCHANGED <<logs, calls>>

\* The process stops; what was written stays.
Stop ==
    /\ Fault
    /\ calls' = [c \in Calls |-> IF calls[c].pc \in Pending
                                 THEN [calls[c] EXCEPT !.pc = "failed"] ELSE calls[c]]
    /\ seeds' = [s \in Seeds |-> IF seeds[s].pc \in Seeding
                                 THEN [seeds[s] EXCEPT !.pc = "failed"] ELSE seeds[s]]
    /\ UNCHANGED <<logs, dummies, defaultTest>>

Simulate(c, t) ==
    \/ simulateSqlInjectionAttack(c, t)
    \/ simulateXssAttack(c, t)
    \/ simulateCommandInjectionAttack(c, t)
    \/ simulateDirectoryTraversalAttack(c, t)
    \/ simulateFileUploadAttack(c, t)
    \/ \E count \in 0..MaxTests : simulateAllAttacks(c, count, t)

TestStep(c) ==
    \/ \E status \in Statuses : Respond(c, status)
    \/ FindTenant(c) \/ CreateTenant(c) \/ SaveLog(c)

SeedStep(s) == CountLogs(s) \/ FindDefault(s) \/ CreateDefault(s) \/ InsertDummies(s)

Next ==
    \/ \E c \in Calls, t \in Tenants \cup {Null} : Simulate(c, t)
    \/ \E c \in Calls : TestStep(c) \/ RequestFails(c) \/ DatabaseFails(c)
    \/ \E s \in Seeds : seedDummyData(s) \/ SeedStep(s) \/ SeedFails(s)
    \/ Stop

Spec == Init /\ [][Next]_vars

\* The proxy answers or the request times out; the database answers.
FairSpec ==
    /\ Spec
    /\ \A c \in Calls : WF_vars(TestStep(c))
    /\ \A s \in Seeds : WF_vars(SeedStep(s))
-------------------------------------------------------------------------------
\* Every result a caller is given, of an allowed, a blocked or a failed test, is
\* in the dashboard's logs under the caller's tenant and with the same verdict,
\* whatever failed on the way (SecurityTestPanel.tsx:457: "test results are
\* recorded in the dashboard logs in real time").  As long as nothing fails, it is
\* there once, though the try or the catch may have written it; after a lost reply
\* to a save there are two.  (The variables have their types, too.)
ResultIsLogged ==
    /\ TypeOK
    /\ \A c \in Calls : \A i \in DOMAIN calls[c].results :
         \E log \in logs :
             /\ log.call = c /\ log.test = i
             /\ log.tenant = calls[c].tenant /\ log.attack = calls[c].tests[i]
             /\ log.status = calls[c].results[i].status
             /\ log.blocked = calls[c].results[i].blocked
    /\ faults = MaxFaults =>
         \A p, q \in logs : p.call = q.call /\ p.test = q.test => p = q

\* As long as nothing fails, blocked means refused by the proxy, but for one
\* case: calls without a tenant that race to create default-test, where the
\* losers' first test ends in the catch and counts as blocked.  And whatever fails,
\* a test the proxy refused counts as blocked.
OnlyTheRaceMisjudges ==
    \A c \in Calls : \A i \in DOMAIN calls[c].results :
        LET outcome == calls[c].results[i]
            refused == outcome.served \in Refusals(calls[c].tests[i])
        IN  /\ refused => outcome.blocked
            /\ (faults = MaxFaults /\ outcome.blocked /\ ~refused)
                  => i = 1 /\ calls[c].tenant = Null /\ outcome.status = 0

\* A seed that is called when there are logs already adds none, however it
\* interleaves with tests and other seeds; who is told "created" has all of its
\* logs.
SeedsEmptyOnly ==
    \A s \in Seeds : /\ seeds[s].late => dummies[s] = 0
                     /\ seeds[s].pc = "created" => dummies[s] = SeedSize

\* Every call and every seed is answered.
EventuallyAnswered ==
    /\ \A c \in Calls : calls[c].pc \in Pending ~> calls[c].pc \in {"done", "failed"}
    /\ \A s \in Seeds : seeds[s].pc \in Seeding ~> seeds[s].pc \notin Seeding
===============================================================================
