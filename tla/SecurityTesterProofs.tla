------------------------- MODULE SecurityTesterProofs -------------------------
(***************************************************************************)
(* What the security tests and the seed guarantee for any number of calls, *)
(* payloads, statuses and failures.  TesterInv is the inductive invariant: *)
(* LoggedInv, about tests and their logs, JudgedInv, about what counts as  *)
(* blocked, and SeedInv, about the dummy logs.                             *)
(***************************************************************************)
EXTENDS SecurityTester, TLAPS

\* The log of test i of call c tells what the caller is told.
IsLogOf(log, c, i) ==
    /\ log.call = c /\ log.test = i
    /\ log.tenant = calls[c].tenant /\ log.attack = calls[c].tests[i]
    /\ log.status = calls[c].results[i].status
    /\ log.blocked = calls[c].results[i].blocked

\* Every result has its log; and as long as nothing fails, no test that has no
\* result yet has a log, and no test has two.
LoggedInv ==
    /\ \A c \in Calls : \A i \in DOMAIN calls[c].results :
         \E log \in logs : IsLogOf(log, c, i)
    /\ faults = MaxFaults =>
         /\ \A log \in logs : log.test <= Len(calls[log.call].results)
         /\ \A p, q \in logs : p.call = q.call /\ p.test = q.test => p = q

\* A call without a tenant creates default-test before its first log, and only
\* there, in the race for it, can it get into the catch without a failure.
Judged(c) ==
    /\ calls[c].pc = "idle" => calls[c] = Idle
    /\ calls[c].pc = "creating" => calls[c].tenant = Null /\ calls[c].results = << >>
    /\ calls[c].tenant = Null /\ (calls[c].pc = "saving" \/ calls[c].results # << >>)
         => defaultTest
    /\ faults = MaxFaults /\ calls[c].caught
         => calls[c].tenant = Null /\ calls[c].results = << >>
JudgedInv == \A c \in Calls : Judged(c)

\* A seed has written nothing before its insert, and one called late is turned
\* away by the count: what it would find is there to stay.
SeedInv ==
    \A s \in Seeds :
        /\ seeds[s].pc \in {"idle"} \cup Seeding => dummies[s] = 0
        /\ seeds[s].late => seeds[s].pc \in {"counting", "exists", "failed"} /\ ~NoDocument

TesterInv ==
    /\ TypeOK /\ faults <= MaxFaults
    /\ LoggedInv
    /\ JudgedInv /\ OnlyTheRaceMisjudges
    /\ SeedInv /\ SeedsEmptyOnly
-------------------------------------------------------------------------------
(* What the steps do to tests and their logs.                               *)

\* A call begins, with the attacks it is to test.
Begins(c) ==
    \E tests \in Seq(Attacks), t \in Tenants \cup {Null} : Begin(c, tests, t)

\* A test under way goes on, to its next await, into the catch or out of it, without
\* a result; it gets into the catch without a failure only where it creates
\* default-test.  A failed save may have written the log all the same.
GoesTo(c, pc, served, caught) ==
    /\ calls' = [calls EXCEPT ![c] =
                   [@ EXCEPT !.pc = pc, !.served = served, !.caught = caught]]
    /\ pc = "creating" => calls[c].tenant = Null /\ ~defaultTest
    /\ pc = "saving" /\ calls[c].tenant = Null => defaultTest'
    /\ caught /\ ~calls[c].caught /\ faults' = faults => calls[c].pc = "creating"
Goes(c) ==
    /\ calls[c].pc \in Pending
    /\ \E pc \in Pending \cup {"failed"}, served \in Statuses \cup {0}, caught \in BOOLEAN :
         GoesTo(c, pc, served, caught)
    /\ defaultTest' \in BOOLEAN /\ (defaultTest => defaultTest')
    /\ \/ UNCHANGED <<logs, faults>>
       \/ Fault /\ logs' = logs
       \/ Fault /\ logs' = logs \cup {Entry(c)}
    /\ UNCHANGED <<dummies, seeds>>

\* A seed is called, goes on or fails.
SeedMoves(s) == seedDummyData(s) \/ SeedStep(s) \/ SeedFails(s)

\* Seeds leave tests and their logs alone.
TestsAside ==
    /\ UNCHANGED <<logs, calls>>
    /\ defaultTest' \in BOOLEAN /\ (defaultTest => defaultTest')
    /\ faults' = faults \/ Fault

\* A seed's step is no step of a test.
LEMMA SeedsAside ==
    ASSUME TypeOK, NEW s \in Seeds, SeedMoves(s)
    PROVE  TestsAside
BY DEF SeedMoves, seedDummyData, SeedStep, CountLogs, FindDefault, CreateDefault,
   InsertDummies, SeedFails, TestsAside, TypeOK

\* The calls, one by one.
LEMMA CallTypes ==
    ASSUME TypeOK, NEW c \in Calls
    PROVE  /\ calls[c] \in Call
           /\ calls[c].tests \in Seq(Attacks) /\ Len(calls[c].tests) \in Nat
           /\ calls[c].results \in Seq(Outcome) /\ Len(calls[c].results) \in Nat
           /\ DOMAIN calls[c].results = 1..Len(calls[c].results)
           /\ calls[c].pc \in Pending => Len(calls[c].results) < Len(calls[c].tests)
           /\ faults \in Nat /\ defaultTest \in BOOLEAN
BY DEF TypeOK, Call

\* The test under way is one of the attacks, and its outcome and log are well formed.
LEMMA EntryTypes ==
    ASSUME TypeOK, NEW c \in Calls, calls[c].pc \in Pending
    PROVE  /\ Current(c) \in Attacks /\ Current(c) = calls[c].tests[Len(calls[c].results) + 1]
           /\ Verdict(c) \in Outcome /\ Entry(c) \in Log
<1>1. Current(c) \in Attacks
  <2>1. Len(calls[c].results) + 1 \in 1..Len(calls[c].tests)
    BY CallTypes
  <2> QED  BY <2>1, CallTypes DEF Current
<1>2. /\ calls[c].served \in Statuses \cup {0} /\ calls[c].caught \in BOOLEAN
      /\ calls[c].tenant \in Tenants \cup {Null}
  BY CallTypes DEF Call
<1>3. Verdict(c) \in Outcome
  BY <1>2 DEF Verdict, Outcome
<1>4. Entry(c) \in Log
  BY <1>1, <1>2, CallTypes DEF Entry, Log
<1> QED  BY <1>1, <1>3, <1>4 DEF Current

\* The attacks an endpoint tests are the ones listed.
LEMMA TestsTypes ==
    /\ \A attack \in Attacks : Each(attack) \in Seq(Attacks)
    /\ \A count \in Nat : Rounds(count) \in Seq(Attacks)
<1>1. Payloads \in Nat \ {0}
  BY TesterAssumption
<1>2. \A attack \in Attacks : Each(attack) \in Seq(Attacks)
  BY <1>1 DEF Each
<1>3. ASSUME NEW count \in Nat PROVE Rounds(count) \in Seq(Attacks)
  <2>1. count * 5 * Payloads \in Nat
    BY <1>1, <1>3
  <2>2. ASSUME NEW i \in 1..(count * 5 * Payloads)
        PROVE  AllAttacks[(((i - 1) \div Payloads) % 5) + 1] \in Attacks
    <3>1. (i - 1) \div Payloads \in Nat
      BY <1>1, <2>1
    <3>2. (((i - 1) \div Payloads) % 5) + 1 \in 1..5
      BY <3>1
    <3>3. DOMAIN AllAttacks = 1..5
      BY DEF AllAttacks
    <3> QED  BY <3>2, <3>3 DEF Attacks
  <2> QED  BY <2>1, <2>2 DEF Rounds
<1> QED  BY <1>2, <1>3

\* Every step is of one of these six kinds.
LEMMA StepKinds ==
    ASSUME TypeOK, [Next]_vars
    PROVE  \/ \E c \in Calls : Begins(c) \/ Goes(c) \/ SaveLog(c)
           \/ \E s \in Seeds : SeedMoves(s)
           \/ Stop \/ UNCHANGED vars
<1>1. ASSUME NEW c \in Calls, NEW t \in Tenants \cup {Null}, Simulate(c, t)
      PROVE  Begins(c)
  <2>1. /\ "SQL Injection" \in Attacks /\ "XSS" \in Attacks
        /\ "Command Injection" \in Attacks /\ "Directory Traversal" \in Attacks
        /\ "Malicious File Upload" \in Attacks
    <3>1. /\ AllAttacks[1] = "SQL Injection" /\ AllAttacks[2] = "XSS"
          /\ AllAttacks[3] = "Command Injection" /\ AllAttacks[4] = "Directory Traversal"
          /\ AllAttacks[5] = "Malicious File Upload" /\ DOMAIN AllAttacks = 1..5
      BY DEF AllAttacks
    <3>2. \A i \in 1..5 : AllAttacks[i] \in Attacks
      <4>1. \A i \in DOMAIN AllAttacks : AllAttacks[i] \in Attacks
        BY DEF Attacks
      <4> QED  BY <3>1, <4>1
    <3>3. {1, 2, 3, 4, 5} \subseteq 1..5
      OBVIOUS
    <3> QED  BY <3>1, <3>2, <3>3
  <2>2. 0..MaxTests \subseteq Nat
    BY TesterAssumption
  <2> QED
    <3>1. \A attack \in Attacks : Begin(c, Each(attack), t) => Begins(c)
      BY TestsTypes DEF Begins
    <3>2. \A count \in 0..MaxTests : Begin(c, Rounds(count), t) => Begins(c)
      BY <2>2, TestsTypes DEF Begins
    <3> QED
      BY <1>1, <2>1, <3>1, <3>2
         DEF Simulate, simulateSqlInjectionAttack, simulateXssAttack,
             simulateCommandInjectionAttack, simulateDirectoryTraversalAttack,
             simulateFileUploadAttack, simulateAllAttacks
<1>2. ASSUME NEW c \in Calls, calls[c].pc \in Pending,
             calls' = [calls EXCEPT ![c] =
                IF @.caught THEN [@ EXCEPT !.pc = "failed"]
                ELSE [@ EXCEPT !.pc = "finding", !.caught = TRUE]],
             defaultTest' \in BOOLEAN, defaultTest => defaultTest',
             \/ UNCHANGED <<logs, faults>> /\ calls[c].pc = "creating"
             \/ Fault /\ logs' = logs
             \/ Fault /\ logs' = logs \cup {Entry(c)},
             UNCHANGED <<dummies, seeds>>
      PROVE  Goes(c)
  <2> DEFINE r == calls[c]
  <2>1. r \in Call /\ calls \in [Calls -> Call] /\ faults \in Nat
    BY DEF TypeOK
  <2>2. faults' = faults => calls[c].pc = "creating"
    BY <1>2, <2>1 DEF Fault
  <2>3. CASE r.caught
    <3>1. [r EXCEPT !.pc = "failed"] = [r EXCEPT !.pc = "failed", !.served = r.served, !.caught = TRUE]
      BY <2>1, <2>3 DEF Call
    <3>2. calls' = [calls EXCEPT ![c] = [r EXCEPT !.pc = "failed", !.served = r.served, !.caught = TRUE]]
      BY <1>2, <2>3, <3>1
    <3>3. r.served \in Statuses \cup {0}
      BY <2>1 DEF Call
    <3>4. GoesTo(c, "failed", r.served, TRUE)
      BY <2>3, <3>2 DEF GoesTo
    <3> QED  BY <1>2, <3>3, <3>4 DEF Goes
  <2>4. CASE ~r.caught
    <3>1. [r EXCEPT !.pc = "finding", !.caught = TRUE]
            = [r EXCEPT !.pc = "finding", !.served = r.served, !.caught = TRUE]
      BY <2>1 DEF Call
    <3>2. calls' = [calls EXCEPT ![c] = [r EXCEPT !.pc = "finding", !.served = r.served, !.caught = TRUE]]
      BY <1>2, <2>4, <3>1
    <3>3. r.served \in Statuses \cup {0} /\ "finding" \in Pending
      BY <2>1 DEF Call, Pending
    <3>4. GoesTo(c, "finding", r.served, TRUE)
      BY <2>2, <3>2 DEF GoesTo
    <3> QED  BY <1>2, <3>3, <3>4 DEF Goes
  <2> QED  BY <2>3, <2>4
<1>3. ASSUME NEW c \in Calls, calls[c].pc \in Pending,
             NEW pc \in Pending, calls' = [calls EXCEPT ![c].pc = pc],
             pc = "creating" => calls[c].tenant = Null /\ ~defaultTest,
             pc = "saving" /\ calls[c].tenant = Null => defaultTest',
             defaultTest' \in BOOLEAN, defaultTest => defaultTest',
             UNCHANGED <<logs, dummies, seeds, faults>>
      PROVE  Goes(c)
  <2> DEFINE r == calls[c]
  <2>1. r \in Call /\ calls \in [Calls -> Call]
    BY DEF TypeOK
  <2>2. [r EXCEPT !.pc = pc] = [r EXCEPT !.pc = pc, !.served = r.served, !.caught = r.caught]
    BY <2>1 DEF Call
  <2>3. calls' = [calls EXCEPT ![c] = [r EXCEPT !.pc = pc, !.served = r.served, !.caught = r.caught]]
    BY <1>3, <2>2
  <2>4. r.served \in Statuses \cup {0} /\ r.caught \in BOOLEAN
    BY <2>1 DEF Call
  <2>5. GoesTo(c, pc, r.served, r.caught)
    BY <1>3, <2>3 DEF GoesTo
  <2> QED  BY <1>3, <2>4, <2>5 DEF Goes
<1>4. ASSUME NEW c \in Calls, NEW status \in Statuses, Respond(c, status) PROVE Goes(c)
  <2> DEFINE r == calls[c]
  <2>1. r \in Call /\ calls \in [Calls -> Call] /\ defaultTest \in BOOLEAN
    BY DEF TypeOK
  <2>2. [r EXCEPT !.pc = "finding", !.served = status]
          = [r EXCEPT !.pc = "finding", !.served = status, !.caught = r.caught]
    BY <2>1 DEF Call
  <2>3. calls' = [calls EXCEPT ![c] = [r EXCEPT !.pc = "finding", !.served = status, !.caught = r.caught]]
    BY <1>4, <2>2 DEF Respond
  <2>4. r.caught \in BOOLEAN /\ {"finding", "requesting"} \subseteq Pending
    BY <2>1 DEF Call, Pending
  <2>5. GoesTo(c, "finding", status, r.caught)
    BY <2>3 DEF GoesTo
  <2> QED  BY <1>4, <2>1, <2>4, <2>5 DEF Goes, Respond
<1>5. ASSUME NEW c \in Calls, RequestFails(c) \/ DatabaseFails(c) PROVE Goes(c)
  BY <1>2, <1>5 DEF RequestFails, DatabaseFails, Thrown, Pending, TypeOK
<1>6. ASSUME NEW c \in Calls, FindTenant(c) PROVE Goes(c)
  BY <1>3, <1>6 DEF FindTenant, Pending, TypeOK
<1>7. ASSUME NEW c \in Calls, CreateTenant(c) PROVE Goes(c)
  BY <1>2, <1>3, <1>7 DEF CreateTenant, Thrown, Pending, TypeOK
<1> QED  BY <1>1, <1>4, <1>5, <1>6, <1>7 DEF Next, TestStep, SeedMoves
-------------------------------------------------------------------------------
(* Types.                                                                   *)

\* A call as TypeOK wants it: under way exactly as long as tests are left.
WellFormed(r) ==
    /\ r \in Call
    /\ r.pc \in Pending => Len(r.results) < Len(r.tests)
    /\ r.pc = "done" => Len(r.results) = Len(r.tests)

\* A step of one call leaves all of them well formed if it leaves that one so.
LEMMA CallSet ==
    ASSUME TypeOK, NEW c \in Calls, NEW r, WellFormed(r), calls' = [calls EXCEPT ![c] = r]
    PROVE  calls' \in [Calls -> Call] /\ \A d \in Calls : WellFormed(calls'[d])
BY DEF TypeOK, WellFormed

\* One outcome more.
LEMMA AdvancedIs ==
    ASSUME TypeOK, NEW c \in Calls, calls[c].pc = "saving"
    PROVE  /\ WellFormed(Advanced(c))
           /\ Advanced(c).results = Append(calls[c].results, Verdict(c))
           /\ Advanced(c).tests = calls[c].tests /\ Advanced(c).tenant = calls[c].tenant
           /\ Advanced(c).pc \in {"requesting", "done"} /\ Advanced(c).caught = FALSE
<1>1. /\ Verdict(c) \in Outcome /\ calls[c] \in Call
      /\ Len(calls[c].results) \in Nat /\ Len(calls[c].tests) \in Nat
      /\ Len(calls[c].results) < Len(calls[c].tests)
  BY CallTypes, EntryTypes DEF Pending
<1> DEFINE results == Append(calls[c].results, Verdict(c))
<1>2. results \in Seq(Outcome) /\ Len(results) = Len(calls[c].results) + 1
  BY <1>1, CallTypes
<1>3. /\ Advanced(c).results = results
      /\ Advanced(c).tests = calls[c].tests /\ Advanced(c).tenant = calls[c].tenant
      /\ Advanced(c).pc = IF Len(calls[c].results) + 1 < Len(calls[c].tests)
                          THEN "requesting" ELSE "done"
      /\ Advanced(c).caught = FALSE
  BY <1>1 DEF Advanced, Call
<1>4. Advanced(c) \in Call
  <2> HIDE DEF results
  <2>1. Advanced(c) = [calls[c] EXCEPT !.results = results, !.served = 0, !.caught = FALSE,
                         !.pc = IF Len(calls[c].results) + 1 < Len(calls[c].tests)
                                THEN "requesting" ELSE "done"]
    BY DEF Advanced, results
  <2> QED  BY <1>1, <1>2, <2>1 DEF Call, Pending
<1> QED  BY <1>1, <1>2, <1>3, <1>4 DEF WellFormed, Pending

\* A call that begins has all of its tests before it.
LEMMA BegunIs ==
    ASSUME NEW tests \in Seq(Attacks), NEW t \in Tenants \cup {Null}, NEW r,
           r = [Idle EXCEPT !.pc = IF tests = << >> THEN "done" ELSE "requesting",
                            !.tests = tests, !.tenant = t]
    PROVE  /\ WellFormed(r) /\ r.results = << >> /\ r.caught = FALSE
           /\ r.pc \in {"requesting", "done"}
<1>1. Idle \in Call
  BY DEF Idle, Call
<1>2. /\ r \in Call /\ r.results = << >> /\ r.caught = FALSE /\ r.tests = tests
      /\ r.pc = IF tests = << >> THEN "done" ELSE "requesting"
  BY <1>1 DEF Idle, Call, Pending
<1>3. Len(tests) \in Nat /\ (tests # << >> => Len(tests) > 0)
  OBVIOUS
<1> QED  BY <1>2, <1>3 DEF WellFormed, Pending

\* Every step keeps the types.
LEMMA TypeStep == TypeOK /\ [Next]_vars => TypeOK'
<1> SUFFICES ASSUME TypeOK, [Next]_vars PROVE TypeOK'
  OBVIOUS
<1>1. ASSUME NEW c \in Calls, Begins(c) PROVE TypeOK'
  <2>1. PICK tests \in Seq(Attacks), t \in Tenants \cup {Null} : Begin(c, tests, t)
    BY <1>1 DEF Begins
  <2>2. calls' \in [Calls -> Call] /\ \A d \in Calls : WellFormed(calls'[d])
    BY <2>1, BegunIs, CallSet DEF Begin
  <2> QED  BY <2>1, <2>2 DEF TypeOK, Begin, WellFormed
<1>2. ASSUME NEW c \in Calls, Goes(c) PROVE TypeOK'
  <2>1. PICK pc \in Pending \cup {"failed"}, served \in Statuses \cup {0}, caught \in BOOLEAN :
          GoesTo(c, pc, served, caught)
    BY <1>2 DEF Goes
  <2>2. WellFormed([calls[c] EXCEPT !.pc = pc, !.served = served, !.caught = caught])
    BY <1>2, CallTypes DEF WellFormed, Call, Goes, Pending
  <2>3. calls' \in [Calls -> Call] /\ \A d \in Calls : WellFormed(calls'[d])
    BY <2>1, <2>2, CallSet DEF GoesTo
  <2>4. logs' \in SUBSET Log /\ faults' \in Nat
    BY <1>2, EntryTypes DEF Goes, Fault, TypeOK
  <2> QED  BY <1>2, <2>3, <2>4 DEF Goes, TypeOK, WellFormed
<1>3. ASSUME NEW c \in Calls, SaveLog(c) PROVE TypeOK'
  <2>1. calls' \in [Calls -> Call] /\ \A d \in Calls : WellFormed(calls'[d])
    BY <1>3, AdvancedIs, CallSet DEF SaveLog
  <2>2. logs' \in SUBSET Log
    BY <1>3, EntryTypes DEF SaveLog, TypeOK, Pending
  <2> QED  BY <1>3, <2>1, <2>2 DEF SaveLog, TypeOK, WellFormed
<1>4. ASSUME NEW s \in Seeds, SeedMoves(s)
      PROVE  dummies' \in [Seeds -> 0..SeedSize] /\ seeds' \in [Seeds -> Seed]
  <2>1. SeedSize \in Nat
    BY TesterAssumption
  <2>2. \A pc \in {"exists", "created", "failed"} \cup Seeding :
          SeedGoes(s, pc) => seeds' \in [Seeds -> Seed]
    BY DEF SeedGoes, TypeOK, Seed
  <2>3. CASE seedDummyData(s)
    BY <2>3 DEF seedDummyData, TypeOK, Seed, Seeding
  <2>4. CASE CountLogs(s) \/ FindDefault(s) \/ CreateDefault(s)
    BY <2>2, <2>4 DEF CountLogs, FindDefault, CreateDefault, Seeding, TypeOK
  <2>5. CASE InsertDummies(s)
    BY <2>1, <2>2, <2>5 DEF InsertDummies, TypeOK
  <2>6. CASE SeedFails(s)
    BY <2>1, <2>2, <2>6 DEF SeedFails, TypeOK
  <2> QED  BY <1>4, <2>3, <2>4, <2>5, <2>6 DEF SeedMoves, SeedStep
<1>5. CASE Stop
  <2>1. \A d \in Calls : WellFormed(calls'[d])
    BY <1>5 DEF Stop, TypeOK, Call, WellFormed, Pending
  <2>2. calls' \in [Calls -> Call] /\ seeds' \in [Seeds -> Seed]
    BY <1>5, <2>1 DEF Stop, WellFormed, TypeOK, Seed, Seeding
  <2> QED  BY <1>5, <2>1, <2>2 DEF Stop, Fault, TypeOK, WellFormed
<1>6. CASE UNCHANGED vars
  BY <1>6 DEF vars, TypeOK
<1>7. CASE \E s \in Seeds : SeedMoves(s)
  <2>1. TestsAside
    BY <1>7, SeedsAside
  <2> QED  BY <1>4, <1>7, <2>1 DEF TestsAside, Fault, TypeOK
<1> QED  BY <1>1, <1>2, <1>3, <1>5, <1>6, <1>7, StepKinds
-------------------------------------------------------------------------------
(* Results and their logs.                                                  *)

\* All steps but the save leave the results, and what was tested for them.
SameResults ==
    \A d \in Calls :
        /\ calls'[d].results = calls[d].results
        /\ calls[d].results # << >> => /\ calls'[d].tests = calls[d].tests
                                       /\ calls'[d].tenant = calls[d].tenant

\* So they keep the logs; a failure uses up the budget that says nothing failed.
LEMMA ResultsKept ==
    ASSUME TypeOK, JudgedInv, faults <= MaxFaults, [Next]_vars,
           ~ \E c \in Calls : SaveLog(c)
    PROVE  /\ SameResults /\ logs \subseteq logs'
           /\ faults' \in Nat /\ faults' <= MaxFaults
           /\ faults' = MaxFaults => faults = MaxFaults /\ logs' = logs
<1>0. MaxFaults \in Nat /\ faults \in Nat
  BY TesterAssumption DEF TypeOK
<1>1. ASSUME NEW c \in Calls, Begins(c)
      PROVE  SameResults /\ UNCHANGED <<logs, faults>>
  <2>1. PICK tests \in Seq(Attacks), t \in Tenants \cup {Null} : Begin(c, tests, t)
    BY <1>1 DEF Begins
  <2>2. /\ \A d \in Calls \ {c} : calls'[d] = calls[d]
        /\ calls'[c].results = << >>
    BY <2>1 DEF Begin, TypeOK, Idle
  <2>3. calls[c].results = << >>
    BY <2>1 DEF Begin, JudgedInv, Judged, Idle
  <2> QED  BY <2>1, <2>2, <2>3 DEF Begin, SameResults
<1>2. ASSUME NEW c \in Calls, Goes(c)
      PROVE  /\ SameResults /\ logs \subseteq logs'
             /\ UNCHANGED <<logs, faults>> \/ Fault
  <2>1. PICK pc, served, caught : GoesTo(c, pc, served, caught)
    BY <1>2 DEF Goes
  <2>2. /\ \A d \in Calls \ {c} : calls'[d] = calls[d]
        /\ calls'[c].results = calls[c].results /\ calls'[c].tests = calls[c].tests
        /\ calls'[c].tenant = calls[c].tenant
    BY <2>1 DEF GoesTo, TypeOK, Call
  <2> QED  BY <1>2, <2>2 DEF Goes, SameResults
<1>3. ASSUME NEW s \in Seeds, SeedMoves(s)
      PROVE  SameResults /\ logs' = logs /\ (faults' = faults \/ Fault)
  BY <1>3, SeedsAside DEF TestsAside, SameResults
<1>4. CASE Stop
  <2>1. SameResults
    BY <1>4 DEF Stop, SameResults, TypeOK, Call
  <2> QED  BY <1>0, <1>4, <2>1 DEF Stop, Fault
<1>5. CASE UNCHANGED vars
  BY <1>0, <1>5 DEF vars, SameResults
<1>6. Fault => faults' \in Nat /\ faults' < MaxFaults
  BY <1>0 DEF Fault
<1> QED  BY <1>0, <1>1, <1>2, <1>3, <1>4, <1>5, <1>6, StepKinds

\* The save adds one result to its call, and the log of it.
LEMMA SaveEffect ==
    ASSUME TypeOK, NEW c \in Calls, SaveLog(c), NEW n, n = Len(calls[c].results) + 1
    PROVE  /\ n \in Nat /\ n \notin DOMAIN calls[c].results
           /\ DOMAIN calls'[c].results = DOMAIN calls[c].results \cup {n}
           /\ \A i \in DOMAIN calls[c].results : calls'[c].results[i] = calls[c].results[i]
           /\ calls'[c].results[n] = Verdict(c) /\ Len(calls'[c].results) = n
           /\ calls'[c].tests = calls[c].tests /\ calls'[c].tenant = calls[c].tenant
           /\ calls'[c].tests[n] = Current(c)
           /\ calls'[c].pc \in {"requesting", "done"} /\ calls'[c].caught = FALSE
           /\ \A d \in Calls \ {c} : calls'[d] = calls[d]
           /\ logs' = logs \cup {Entry(c)} /\ UNCHANGED <<defaultTest, faults, dummies, seeds>>
<1>1. calls[c].pc = "saving" /\ calls' = [calls EXCEPT ![c] = Advanced(c)]
  BY DEF SaveLog
<1>2. calls'[c] = Advanced(c) /\ \A d \in Calls \ {c} : calls'[d] = calls[d]
  BY <1>1 DEF TypeOK
<1>3. /\ calls[c].results \in Seq(Outcome) /\ Len(calls[c].results) \in Nat
      /\ DOMAIN calls[c].results = 1..Len(calls[c].results) /\ Verdict(c) \in Outcome
      /\ Current(c) = calls[c].tests[n]
  BY <1>1, CallTypes, EntryTypes DEF Pending
<1>4. /\ calls'[c].results = Append(calls[c].results, Verdict(c))
      /\ calls'[c].tests = calls[c].tests /\ calls'[c].tenant = calls[c].tenant
      /\ calls'[c].pc \in {"requesting", "done"} /\ calls'[c].caught = FALSE
  BY <1>1, <1>2, AdvancedIs
<1>5. /\ n \in Nat /\ n \notin DOMAIN calls[c].results
      /\ DOMAIN calls'[c].results = DOMAIN calls[c].results \cup {n}
      /\ \A i \in DOMAIN calls[c].results : calls'[c].results[i] = calls[c].results[i]
      /\ calls'[c].results[n] = Verdict(c) /\ Len(calls'[c].results) = n
  BY <1>3, <1>4
<1> QED  BY <1>2, <1>3, <1>4, <1>5 DEF SaveLog

\* A result comes with its log, and no other step takes one away.
LEMMA LoggedStep ==
    ASSUME TypeOK, JudgedInv, LoggedInv, faults <= MaxFaults, [Next]_vars
    PROVE  LoggedInv' /\ faults' <= MaxFaults
<1>1. ASSUME ~ \E c \in Calls : SaveLog(c) PROVE LoggedInv' /\ faults' <= MaxFaults
  <2>1. /\ SameResults /\ logs \subseteq logs' /\ faults' <= MaxFaults
        /\ faults' = MaxFaults => faults = MaxFaults /\ logs' = logs
    BY <1>1, ResultsKept
  <2>2. ASSUME NEW c \in Calls, NEW i \in DOMAIN calls'[c].results
        PROVE  \E log \in logs' : IsLogOf(log, c, i)'
    <3>1. calls'[c].results = calls[c].results /\ calls[c].results # << >>
          /\ calls'[c].tests = calls[c].tests /\ calls'[c].tenant = calls[c].tenant
      BY <2>1, <2>2 DEF SameResults
    <3>2. PICK log \in logs : IsLogOf(log, c, i)
      BY <2>2, <3>1 DEF LoggedInv
    <3> QED  BY <2>1, <3>1, <3>2 DEF IsLogOf
  <2>3. \A log \in logs : log.call \in Calls
    BY DEF TypeOK, Log
  <2>4. ASSUME faults' = MaxFaults
        PROVE  /\ \A log \in logs' : log.test <= Len(calls'[log.call].results)
               /\ \A p, q \in logs' : p.call = q.call /\ p.test = q.test => p = q
    BY <2>1, <2>3, <2>4 DEF LoggedInv, SameResults
  <2> QED  BY <2>1, <2>2, <2>4 DEF LoggedInv
<1>2. ASSUME NEW c \in Calls, SaveLog(c) PROVE LoggedInv' /\ faults' <= MaxFaults
  <2>1. PICK n : n = Len(calls[c].results) + 1
    OBVIOUS
  <2>2. /\ n \in Nat /\ n \notin DOMAIN calls[c].results
        /\ DOMAIN calls'[c].results = DOMAIN calls[c].results \cup {n}
        /\ \A i \in DOMAIN calls[c].results : calls'[c].results[i] = calls[c].results[i]
        /\ calls'[c].results[n] = Verdict(c) /\ Len(calls'[c].results) = n
        /\ calls'[c].tests = calls[c].tests /\ calls'[c].tenant = calls[c].tenant
        /\ calls'[c].tests[n] = Current(c)
        /\ \A d \in Calls \ {c} : calls'[d] = calls[d]
        /\ logs' = logs \cup {Entry(c)} /\ faults' = faults
    BY <1>2, <2>1, SaveEffect
  <2>3. PICK e : e = Entry(c)
    OBVIOUS
  <2>4. e.call = c /\ e.test = n /\ IsLogOf(e, c, n)'
    <3>1. PICK v : v = Verdict(c)
      OBVIOUS
    <3>2. /\ e.call = c /\ e.test = n /\ e.tenant = calls[c].tenant /\ e.attack = Current(c)
          /\ e.status = v.status /\ e.blocked = v.blocked
      BY <2>1, <2>3, <3>1 DEF Entry, Verdict
    <3> QED  BY <2>2, <3>1, <3>2 DEF IsLogOf
  <2>5. ASSUME NEW d \in Calls, NEW i \in DOMAIN calls'[d].results
        PROVE  \E log \in logs' : IsLogOf(log, d, i)'
    <3>1. CASE d = c /\ i = n
      BY <2>2, <2>3, <2>4, <3>1
    <3>2. CASE ~(d = c /\ i = n)
      <4>1. /\ i \in DOMAIN calls[d].results
            /\ calls'[d].results[i] = calls[d].results[i]
            /\ calls'[d].tests = calls[d].tests /\ calls'[d].tenant = calls[d].tenant
        BY <2>2, <2>5, <3>2
      <4>2. PICK log \in logs : IsLogOf(log, d, i)
        BY <4>1 DEF LoggedInv
      <4> QED  BY <2>2, <4>1, <4>2 DEF IsLogOf
    <3> QED  BY <3>1, <3>2
  <2>6. ASSUME faults' = MaxFaults
        PROVE  /\ \A log \in logs' : log.test <= Len(calls'[log.call].results)
               /\ \A p, q \in logs' : p.call = q.call /\ p.test = q.test => p = q
    <3>1. \A log \in logs : /\ log.call \in Calls /\ log.test \in Nat
                            /\ log.test <= Len(calls[log.call].results)
      BY <2>2, <2>6 DEF TypeOK, Log, LoggedInv
    <3>2. Len(calls[c].results) \in Nat
      BY CallTypes
    <3>3. \A log \in logs : log.call = c => log.test < n
      BY <2>1, <3>1, <3>2
    <3>4. \A log \in logs' : log \in logs \/ log = e
      BY <2>2, <2>3
    <3>5. \A log \in logs' : log.test <= Len(calls'[log.call].results)
      BY <2>2, <2>4, <3>1, <3>3, <3>4
    <3>6. \A p, q \in logs : p.call = q.call /\ p.test = q.test => p = q
      BY <2>2, <2>6 DEF LoggedInv
    <3>7. \A p, q \in logs' : p.call = q.call /\ p.test = q.test => p = q
      BY <2>2, <2>4, <3>1, <3>3, <3>4, <3>6
    <3> QED  BY <3>5, <3>7
  <2>7. LoggedInv'
    BY <2>5, <2>6 DEF LoggedInv
  <2> QED  BY <2>2, <2>7
<1> QED  BY <1>1, <1>2
-------------------------------------------------------------------------------
(* What counts as blocked.                                                  *)

\* Only the race for default-test leads into the catch without a failure.
LEMMA JudgedStep ==
    ASSUME TypeOK, JudgedInv, faults <= MaxFaults, [Next]_vars
    PROVE  JudgedInv'
<1>0. MaxFaults \in Nat /\ faults \in Nat
  BY TesterAssumption DEF TypeOK
<1>1. \A d \in Calls : Judged(d)
  BY DEF JudgedInv
<1>2. ASSUME NEW d \in Calls, calls'[d] = calls[d], defaultTest => defaultTest',
             faults' = faults \/ Fault
      PROVE  Judged(d)'
  BY <1>0, <1>1, <1>2 DEF Fault, Judged
<1>3. ASSUME NEW c \in Calls, Begins(c) PROVE \A d \in Calls : Judged(d)'
  <2>1. PICK tests \in Seq(Attacks), t \in Tenants \cup {Null} : Begin(c, tests, t)
    BY <1>3 DEF Begins
  <2>2. \A d \in Calls \ {c} : calls'[d] = calls[d]
    BY <2>1 DEF Begin, TypeOK
  <2>3. calls'[c] = [Idle EXCEPT !.pc = IF tests = << >> THEN "done" ELSE "requesting",
                                 !.tests = tests, !.tenant = t]
    BY <2>1 DEF Begin, TypeOK
  <2>4. /\ calls'[c].results = << >> /\ calls'[c].caught = FALSE
        /\ calls'[c].pc \in {"requesting", "done"}
    <3>1. Idle.results = << >> /\ Idle.caught = FALSE /\ Idle \in Call
      BY DEF Idle, Call
    <3> QED  BY <2>3, <3>1 DEF Call
  <2>5. Judged(c)'
    BY <2>4 DEF Judged
  <2> QED  BY <1>2, <2>1, <2>2, <2>5 DEF Begin
<1>4. ASSUME NEW c \in Calls, Goes(c) PROVE \A d \in Calls : Judged(d)'
  <2>1. PICK pc \in Pending \cup {"failed"}, served \in Statuses \cup {0}, caught \in BOOLEAN :
          GoesTo(c, pc, served, caught)
    BY <1>4 DEF Goes
  <2>2. /\ \A d \in Calls \ {c} : calls'[d] = calls[d]
        /\ calls'[c].results = calls[c].results /\ calls'[c].tenant = calls[c].tenant
        /\ calls'[c].pc = pc /\ calls'[c].caught = caught
    BY <2>1 DEF GoesTo, TypeOK, Call
  <2>3. (defaultTest => defaultTest') /\ (faults' = faults \/ Fault)
    BY <1>4 DEF Goes
  <2>4. calls'[c].pc # "idle"
    BY <2>2 DEF Pending
  <2>5. calls'[c].pc = "creating" => calls'[c].tenant = Null /\ calls'[c].results = << >>
    BY <1>1, <2>1, <2>2 DEF GoesTo, Judged
  <2>6. calls'[c].tenant = Null /\ (calls'[c].pc = "saving" \/ calls'[c].results # << >>)
          => defaultTest'
    BY <1>1, <2>1, <2>2, <2>3 DEF GoesTo, Judged
  <2>7. faults' = MaxFaults /\ calls'[c].caught
          => calls'[c].tenant = Null /\ calls'[c].results = << >>
    <3>1. faults' = MaxFaults => faults' = faults
      BY <1>0, <2>3 DEF Fault
    <3> QED  BY <1>1, <2>1, <2>2, <3>1 DEF GoesTo, Judged
  <2>8. Judged(c)'
    BY <2>4, <2>5, <2>6, <2>7 DEF Judged
  <2> QED  BY <1>2, <2>2, <2>3, <2>8
<1>5. ASSUME NEW c \in Calls, SaveLog(c) PROVE \A d \in Calls : Judged(d)'
  <2>1. /\ calls'[c].tenant = calls[c].tenant
        /\ calls'[c].pc \in {"requesting", "done"} /\ calls'[c].caught = FALSE
        /\ \A d \in Calls \ {c} : calls'[d] = calls[d]
        /\ UNCHANGED <<defaultTest, faults>>
    BY <1>5, SaveEffect
  <2>2. calls[c].pc = "saving"
    BY <1>5 DEF SaveLog
  <2>3. Judged(c)'
    BY <1>1, <2>1, <2>2 DEF Judged
  <2> QED  BY <1>2, <2>1, <2>3
<1>6. ASSUME NEW s \in Seeds, SeedMoves(s) PROVE \A d \in Calls : Judged(d)'
  <2>1. calls' = calls /\ (defaultTest => defaultTest') /\ (faults' = faults \/ Fault)
    BY <1>6, SeedsAside DEF TestsAside
  <2> QED  BY <1>2, <2>1
<1>7. ASSUME Stop PROVE \A d \in Calls : Judged(d)'
  <2>1. defaultTest' = defaultTest /\ faults' # MaxFaults
    BY <1>0, <1>7 DEF Stop, Fault
  <2>2. ASSUME NEW d \in Calls PROVE Judged(d)'
    <3>1. \/ calls'[d] = calls[d]
          \/ calls'[d] = [calls[d] EXCEPT !.pc = "failed"]
      BY <1>7 DEF Stop
    <3>2. calls[d] \in Call
      BY CallTypes
    <3>3. \/ calls'[d] = calls[d]
          \/ /\ calls'[d].pc = "failed" /\ calls'[d].tenant = calls[d].tenant
             /\ calls'[d].results = calls[d].results
      BY <3>1, <3>2 DEF Call
    <3> QED  BY <1>1, <2>1, <3>3 DEF Judged
  <2> QED  BY <2>2
<1>8. ASSUME UNCHANGED vars PROVE \A d \in Calls : Judged(d)'
  <2>1. UNCHANGED <<calls, defaultTest, faults>>
    BY <1>8 DEF vars
  <2> QED  BY <1>2, <2>1
<1>9. \A d \in Calls : Judged(d)'
  BY <1>3, <1>4, <1>5, <1>6, <1>7, <1>8, StepKinds
<1> QED  BY <1>9 DEF JudgedInv

\* So the verdict of a test is the proxy's, but for those that lost that race.
LEMMA RaceStep ==
    ASSUME TypeOK, JudgedInv, OnlyTheRaceMisjudges, faults <= MaxFaults, [Next]_vars
    PROVE  OnlyTheRaceMisjudges'
<1> DEFINE Fair(outcome, attack, tenant, i, spotless) ==
        /\ outcome.served \in Refusals(attack) => outcome.blocked
        /\ (spotless /\ outcome.blocked /\ outcome.served \notin Refusals(attack))
              => i = 1 /\ tenant = Null /\ outcome.status = 0
<1>1. \A d \in Calls : \A i \in DOMAIN calls[d].results :
        Fair(calls[d].results[i], calls[d].tests[i], calls[d].tenant, i, faults = MaxFaults)
  BY DEF OnlyTheRaceMisjudges
<1>2. ASSUME ~ \E c \in Calls : SaveLog(c),
             NEW d \in Calls, NEW i \in DOMAIN calls'[d].results
      PROVE  Fair(calls'[d].results[i], calls'[d].tests[i], calls'[d].tenant, i,
                  faults' = MaxFaults)
  <2>1. SameResults /\ (faults' = MaxFaults => faults = MaxFaults)
    BY <1>2, ResultsKept
  <2>2. /\ calls'[d].results = calls[d].results /\ calls[d].results # << >>
        /\ calls'[d].tests = calls[d].tests /\ calls'[d].tenant = calls[d].tenant
    BY <1>2, <2>1 DEF SameResults
  <2> QED  BY <1>1, <1>2, <2>1, <2>2
<1>3. ASSUME NEW c \in Calls, SaveLog(c),
             NEW d \in Calls, NEW i \in DOMAIN calls'[d].results
      PROVE  Fair(calls'[d].results[i], calls'[d].tests[i], calls'[d].tenant, i,
                  faults' = MaxFaults)
  <2>1. PICK n : n = Len(calls[c].results) + 1
    OBVIOUS
  <2>2. /\ DOMAIN calls'[c].results = DOMAIN calls[c].results \cup {n}
        /\ \A k \in DOMAIN calls[c].results : calls'[c].results[k] = calls[c].results[k]
        /\ calls'[c].results[n] = Verdict(c)
        /\ calls'[c].tests = calls[c].tests /\ calls'[c].tenant = calls[c].tenant
        /\ calls'[c].tests[n] = Current(c)
        /\ \A e \in Calls \ {c} : calls'[e] = calls[e]
        /\ faults' = faults
    BY <1>3, <2>1, SaveEffect
  <2>3. CASE d = c /\ i = n
    <3>1. PICK v : v = Verdict(c)
      OBVIOUS
    <3>2. /\ v.served = calls[c].served
          /\ v.status = IF calls[c].caught THEN 0 ELSE calls[c].served
          /\ v.blocked = (calls[c].caught \/ v.status \in Refusals(Current(c)))
      BY <3>1 DEF Verdict
    <3>3. faults = MaxFaults /\ calls[c].caught
            => n = 1 /\ calls[c].tenant = Null
      BY <2>1 DEF JudgedInv, Judged
    <3>4. Fair(v, Current(c), calls[c].tenant, n, faults = MaxFaults)
      BY <3>2, <3>3
    <3> QED  BY <2>2, <2>3, <3>1, <3>4
  <2>4. CASE ~(d = c /\ i = n)
    <3>1. /\ i \in DOMAIN calls[d].results
          /\ calls'[d].results[i] = calls[d].results[i]
          /\ calls'[d].tests = calls[d].tests /\ calls'[d].tenant = calls[d].tenant
      BY <1>3, <2>2, <2>4
    <3> QED  BY <1>1, <2>2, <3>1
  <2> QED  BY <2>3, <2>4
<1> HIDE DEF Fair
<1>4. \A d \in Calls : \A i \in DOMAIN calls'[d].results :
        Fair(calls'[d].results[i], calls'[d].tests[i], calls'[d].tenant, i, faults' = MaxFaults)
  BY <1>2, <1>3
<1> QED  BY <1>4 DEF Fair, OnlyTheRaceMisjudges
-------------------------------------------------------------------------------
(* The seed.                                                                *)

\* A document that is there stays, so a late seed is turned away by its count.
LEMMA SeedStepKept ==
    ASSUME TypeOK, SeedInv, SeedsEmptyOnly, [Next]_vars
    PROVE  SeedInv' /\ SeedsEmptyOnly'
<1>1. /\ dummies \in [Seeds -> 0..SeedSize] /\ seeds \in [Seeds -> Seed]
      /\ SeedSize \in Nat \ {0} /\ NoDocument \in BOOLEAN
  BY TesterAssumption DEF TypeOK, NoDocument
<1>2. ASSUME logs \subseteq logs', dummies' = dummies, seeds' = seeds
      PROVE  SeedInv' /\ SeedsEmptyOnly'
  <2>1. NoDocument' => NoDocument
    BY <1>2 DEF NoDocument
  <2> QED  BY <1>2, <2>1 DEF SeedInv, SeedsEmptyOnly
<1>3. ASSUME NEW c \in Calls, Begins(c) \/ Goes(c) \/ SaveLog(c)
      PROVE  SeedInv' /\ SeedsEmptyOnly'
  <2>1. logs \subseteq logs' /\ dummies' = dummies /\ seeds' = seeds
    BY <1>3 DEF Begins, Begin, Goes, SaveLog
  <2> QED  BY <1>2, <2>1
<1>4. CASE UNCHANGED vars
  BY <1>2, <1>4 DEF vars
<1>5. CASE Stop
  <2>1. \A s \in Seeds : /\ seeds'[s].late = seeds[s].late
                         /\ \/ seeds'[s].pc = seeds[s].pc /\ seeds[s].pc \notin Seeding
                            \/ seeds'[s].pc = "failed" /\ seeds[s].pc \in Seeding
    BY <1>1, <1>5 DEF Stop, Seed
  <2>2. dummies' = dummies /\ (NoDocument' <=> NoDocument)
    BY <1>5 DEF Stop, NoDocument
  <2> QED  BY <2>1, <2>2 DEF SeedInv, SeedsEmptyOnly, Seeding
<1>6. ASSUME NEW s \in Seeds, NEW pc, SeedGoes(s, pc)
      PROVE  /\ seeds'[s].pc = pc /\ seeds'[s].late = seeds[s].late
             /\ \A o \in Seeds \ {s} : seeds'[o] = seeds[o]
  BY <1>1, <1>6 DEF SeedGoes, Seed
<1>7. ASSUME NEW s \in Seeds, SeedMoves(s) PROVE SeedInv' /\ SeedsEmptyOnly'
  <2>1. CASE seedDummyData(s)
    <3>1. /\ seeds[s].pc = "idle"
          /\ seeds'[s].pc = "counting" /\ (seeds'[s].late => ~NoDocument)
          /\ \A o \in Seeds \ {s} : seeds'[o] = seeds[o]
          /\ dummies' = dummies /\ logs' = logs
      BY <1>1, <2>1 DEF seedDummyData
    <3>2. dummies[s] = 0 /\ (NoDocument' <=> NoDocument)
      BY <3>1 DEF SeedInv, NoDocument
    <3>3. SeedInv'
      BY <3>1, <3>2 DEF SeedInv
    <3>4. SeedsEmptyOnly'
      BY <3>1, <3>2 DEF SeedsEmptyOnly
    <3> QED  BY <3>3, <3>4
  <2>2. CASE CountLogs(s) \/ FindDefault(s) \/ CreateDefault(s)
    <3>1. /\ dummies' = dummies /\ logs' = logs /\ seeds'[s].late = seeds[s].late
          /\ \A o \in Seeds \ {s} : seeds'[o] = seeds[o]
          /\ seeds[s].pc \in Seeding
          /\ seeds'[s].pc \in {"exists", "failed"} \cup Seeding
          /\ seeds[s].late => seeds[s].pc = "counting" /\ seeds'[s].pc = "exists"
      <4>1. seeds[s].late => seeds[s].pc \in {"counting", "exists", "failed"} /\ ~NoDocument
        BY DEF SeedInv
      <4> QED  BY <1>6, <2>2, <4>1 DEF CountLogs, FindDefault, CreateDefault, Seeding
    <3>2. NoDocument' <=> NoDocument
      BY <3>1 DEF NoDocument
    <3>3. dummies[s] = 0
      BY <3>1 DEF SeedInv
    <3>4. SeedInv'
      BY <3>1, <3>2, <3>3 DEF SeedInv
    <3>5. SeedsEmptyOnly'
      BY <3>1, <3>3 DEF SeedsEmptyOnly, Seeding
    <3> QED  BY <3>4, <3>5
  <2>3. CASE InsertDummies(s)
    <3>1. /\ seeds[s].pc = "inserting" /\ seeds'[s].pc = "created" /\ seeds'[s].late = seeds[s].late
          /\ \A o \in Seeds \ {s} : seeds'[o] = seeds[o] /\ dummies'[o] = dummies[o]
          /\ dummies'[s] = SeedSize
      BY <1>1, <1>6, <2>3 DEF InsertDummies
    <3>2. ~seeds[s].late
      BY <3>1 DEF SeedInv
    <3>3. ~NoDocument'
      BY <1>1, <3>1 DEF NoDocument
    <3> QED  BY <3>1, <3>2, <3>3 DEF SeedInv, SeedsEmptyOnly, Seeding
  <2>4. CASE SeedFails(s)
    <3>1. /\ seeds[s].pc \in Seeding /\ seeds'[s].pc = "failed" /\ seeds'[s].late = seeds[s].late
          /\ \A o \in Seeds \ {s} : seeds'[o] = seeds[o] /\ dummies'[o] = dummies[o]
          /\ dummies'[s] \in Nat /\ (seeds[s].pc # "inserting" => dummies'[s] = 0)
          /\ logs' = logs
      BY <1>1, <1>6, <2>4 DEF SeedFails
    <3>2. dummies[s] = 0 /\ (seeds[s].late => seeds[s].pc # "inserting")
      BY <3>1 DEF SeedInv
    <3>3. NoDocument' => NoDocument
      BY <3>1, <3>2 DEF NoDocument
    <3> QED  BY <3>1, <3>2, <3>3 DEF SeedInv, SeedsEmptyOnly, Seeding
  <2> QED  BY <1>7, <2>1, <2>2, <2>3, <2>4 DEF SeedMoves, SeedStep
<1> QED  BY <1>3, <1>4, <1>5, <1>7, StepKinds
-------------------------------------------------------------------------------
(* The results.                                                             *)

\* The parts together are inductive.
LEMMA TesterInvariant == Spec => []TesterInv
<1>1. Init => TesterInv
  <2> SUFFICES ASSUME Init PROVE TesterInv
    OBVIOUS
  <2>1. Idle \in Call /\ Idle.pc = "idle" /\ Idle.results = << >> /\ Idle.caught = FALSE
    BY DEF Idle, Call
  <2>2. \A c \in Calls : calls[c] = Idle
    BY DEF Init
  <2>3. TypeOK
    <3>1. calls \in [Calls -> Call] /\ \A c \in Calls : calls[c].pc = "idle"
      BY <2>1 DEF Init
    <3>2. seeds \in [Seeds -> Seed] /\ dummies \in [Seeds -> 0..SeedSize]
      BY TesterAssumption DEF Init, Seed
    <3> QED  BY <3>1, <3>2, TesterAssumption DEF Init, TypeOK, Pending
  <2>4. faults <= MaxFaults
    BY TesterAssumption DEF Init
  <2>5. \A c \in Calls : DOMAIN calls[c].results = {}
    BY <2>1, <2>2
  <2>6. LoggedInv /\ OnlyTheRaceMisjudges
    BY <2>5 DEF Init, LoggedInv, OnlyTheRaceMisjudges
  <2>7. JudgedInv
    BY <2>1, <2>2 DEF JudgedInv, Judged
  <2>8. SeedInv /\ SeedsEmptyOnly
    BY DEF Init, SeedInv, SeedsEmptyOnly, Seeding
  <2> QED  BY <2>3, <2>4, <2>6, <2>7, <2>8 DEF TesterInv
<1>2. TesterInv /\ [Next]_vars => TesterInv'
  <2> SUFFICES ASSUME TesterInv, [Next]_vars PROVE TesterInv'
    OBVIOUS
  <2>1. TypeOK'
    BY TypeStep DEF TesterInv
  <2>2. LoggedInv' /\ faults' <= MaxFaults
    BY LoggedStep DEF TesterInv
  <2>3. JudgedInv' /\ OnlyTheRaceMisjudges'
    BY JudgedStep, RaceStep DEF TesterInv
  <2>4. SeedInv' /\ SeedsEmptyOnly'
    BY SeedStepKept DEF TesterInv
  <2> QED  BY <2>1, <2>2, <2>3, <2>4 DEF TesterInv
<1> QED  BY <1>1, <1>2, PTL DEF Spec

\* Every result a caller is given has its log, with the same verdict and tenant,
\* for any number of calls and failures; and one only, as long as nothing fails.
THEOREM ResultsAreLogged == Spec => []ResultIsLogged
<1>1. TesterInv => ResultIsLogged
  <2> SUFFICES ASSUME TesterInv PROVE ResultIsLogged
    OBVIOUS
  <2>1. \A c \in Calls : \A i \in DOMAIN calls[c].results :
          \E log \in logs : IsLogOf(log, c, i)
    BY DEF TesterInv, LoggedInv
  <2>2. faults = MaxFaults =>
          \A p, q \in logs : p.call = q.call /\ p.test = q.test => p = q
    BY DEF TesterInv, LoggedInv
  <2> QED  BY <2>1, <2>2 DEF TesterInv, ResultIsLogged, IsLogOf
<1> QED  BY <1>1, TesterInvariant, PTL

\* As long as nothing fails, only the first test of a call that lost the race to
\* create default-test counts as blocked without a refusal.
THEOREM RaceOnly == Spec => []OnlyTheRaceMisjudges
<1>1. TesterInv => OnlyTheRaceMisjudges
  BY DEF TesterInv
<1> QED  BY <1>1, TesterInvariant, PTL

\* A seed adds logs to an empty collection only, and all of them if it says so, for
\* any number of seeds and tests that overlap it.
THEOREM SeedsOnce == Spec => []SeedsEmptyOnly
<1>1. TesterInv => SeedsEmptyOnly
  BY DEF TesterInv
<1> QED  BY <1>1, TesterInvariant, PTL
===============================================================================
