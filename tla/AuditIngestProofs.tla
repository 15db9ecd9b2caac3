-------------------------- MODULE AuditIngestProofs ---------------------------
(***************************************************************************)
(* What AuditIngest guarantees, alone and together with the usage counter  *)
(* (IngestMetering), for every set of lines and tenants and for every      *)
(* bound.  IngestInv is the inductive invariant; its parts say why each    *)
(* line is handed to at most one handler and written by it at most once.   *)
(* A step of the composition is, to each of its two parts, a step of its   *)
(* own or none, so the invariants of both hold of it; LinkInv joins them.  *)
(***************************************************************************)
EXTENDS IngestMetering, TLAPS, FiniteSetTheorems, SequenceTheorems

\* Only the newest tail can be live, and either it is or a retry is pending.
FollowerInv ==
    /\ phase = "running" =>
         \/ timers = 0 /\ tails # << >> /\ Live = {Len(tails)}
         \/ timers = 1 /\ Live = {}
    /\ phase # "running" => timers = 0 /\ tails = << >>

\* How far the file has been given out: to the newest tail's position, or, as
\* long as the process has none, to the end of the file, where one would start.
Reach == IF tails = << >> THEN Len(log) ELSE tails[Len(tails)].pos

\* No tail is past the end of the file, no handler or document past Reach.
CursorInv ==
    /\ \A k \in DOMAIN tails : tails[k].pos <= Len(log)
    /\ \A j \in DOMAIN jobs : jobs[j].line <= Reach
    /\ \A p \in DOMAIN docs : docs[p].line <= Reach

\* A line has one handler, and no document until that handler saves it.
HandlerInv ==
    /\ \A i, j \in DOMAIN jobs : jobs[i].line = jobs[j].line => i = j
    /\ \A p \in DOMAIN docs, j \in DOMAIN jobs :
         docs[p].line = jobs[j].line => jobs[j].pc \notin {"ignored", "resolving", "saving"}

\* Handlers past the filters work for a line worth keeping, and those past the
\* resolver for a registered tenant: the fallback or the one the header names.
TenantInv ==
    /\ phase \in {"seeding", "running"} => uncategorizedTenantId = Uncategorized
    /\ uncategorizedTenantId = Uncategorized => Uncategorized \in known
    /\ \A j \in DOMAIN jobs :
         /\ jobs[j].pc \in Pending => phase = "running" /\ Relevant(log[jobs[j].line])
         /\ jobs[j].pc = "saving" =>
              jobs[j].tenant \in known \cap {Uncategorized, log[jobs[j].line].header}

IngestInv ==
    /\ TypeOK
    /\ FollowerInv
    /\ CursorInv
    /\ HandlerInv
    /\ TenantInv
    /\ StoredOnce
    /\ TrackedIsStored
-------------------------------------------------------------------------------
(* Types.                                                                   *)

\* The elements of the four sequences, and their indices.
LEMMA Elements ==
    ASSUME TypeOK
    PROVE  /\ DOMAIN tails = 1..Len(tails) /\ Len(tails) \in Nat
           /\ DOMAIN jobs = 1..Len(jobs) /\ Len(jobs) \in Nat
           /\ DOMAIN docs = 1..Len(docs) /\ Len(docs) \in Nat
           /\ DOMAIN log = 1..Len(log) /\ Len(log) \in Nat /\ Len(log) <= MaxLines
           /\ tails # << >> => Len(tails) \in DOMAIN tails
           /\ \A k \in DOMAIN tails : tails[k] \in Follower
           /\ \A j \in DOMAIN jobs : jobs[j] \in Job
           /\ \A p \in DOMAIN docs : docs[p] \in Doc
           /\ \A i \in DOMAIN log : log[i] \in Line
BY LineAssumption, BoundAssumption, ElementOfSeq, LenProperties, EmptySeq DEF TypeOK

\* A spent fault leaves budgets that are naturals (Spend).
LEMMA SpendType ==
    ASSUME faults \in [crash : Nat, tail : Nat, db : Nat],
           NEW kind \in {"crash", "tail", "db"}, Spend(kind)
    PROVE  faults' \in [crash : Nat, tail : Nat, db : Nat]
BY DEF Spend

\* What an attempt to follow the file may do: arm one timer, or append one live
\* tail that starts no earlier than the newest one stands (beginWithRetry).
LEMMA RetryEffect ==
    ASSUME TypeOK, NEW pending \in Nat, beginWithRetry(pending)
    PROVE  /\ faults' \in [crash : Nat, tail : Nat, db : Nat]
           /\ \/ timers' = pending + 1 /\ tails' = tails
              \/ /\ timers' = pending
                 /\ \E n \in 0..Len(log) :
                      /\ tails' = Append(tails, [live |-> TRUE, pos |-> n])
                      /\ tails # << >> => n >= tails[Len(tails)].pos
                      /\ tails = << >> => n = Len(log)
<1>1. CASE ~fileExists /\ timers' = pending + 1 /\ UNCHANGED <<tails, faults>>
  BY <1>1 DEF TypeOK
<1>2. CASE fileExists /\ startTailInternal /\ timers' = pending /\ UNCHANGED faults
  <2>1. PICK n \in Starts : tails' = Append(tails, [live |-> TRUE, pos |-> n])
    BY <1>2 DEF startTailInternal
  <2>2. Len(log) \in Nat
    BY DEF TypeOK
  <2>3. CASE tails = << >>
    <3>1. n = Len(log) /\ n \in 0..Len(log)
      BY <2>1, <2>2, <2>3 DEF Starts
    <3> QED  BY <1>2, <2>1, <2>3, <3>1 DEF TypeOK
  <2>4. CASE tails # << >>
    <3>1. n \in 1..Len(log) /\ n > tails[Len(tails)].pos
      BY <2>1, <2>4 DEF Starts
    <3>2. tails[Len(tails)].pos \in Nat
      <4>1. tails[Len(tails)] \in Follower
        BY <2>4, Elements DEF TypeOK
      <4> QED  BY <4>1, BoundAssumption DEF Follower
    <3>3. n \in 0..Len(log) /\ n >= tails[Len(tails)].pos
      BY <2>2, <3>1, <3>2
    <3> QED  BY <1>2, <2>1, <2>4, <3>3 DEF TypeOK
  <2> QED  BY <2>3, <2>4
<1>3. CASE fileExists /\ Spend("tail") /\ timers' = pending + 1 /\ UNCHANGED tails
  BY <1>3, SpendType DEF TypeOK
<1> QED  BY <1>1, <1>2, <1>3 DEF beginWithRetry

\* A stop keeps the types and empties the memory of the process (Stop).
LEMMA StopEffect ==
    ASSUME TypeOK, Stop
    PROVE  /\ phase' = "off" /\ timers' = 0 /\ tails' = << >>
           /\ uncategorizedTenantId' = Null
           /\ jobs' \in Seq(Job) /\ DOMAIN jobs' = DOMAIN jobs
           /\ \A j \in DOMAIN jobs :
                /\ jobs'[j].line = jobs[j].line /\ jobs'[j].tenant = jobs[j].tenant
                /\ jobs'[j].pc = IF jobs[j].pc \in Pending THEN "lost" ELSE jobs[j].pc
<1>1. jobs \in Seq(Job) /\ DOMAIN jobs = 1..Len(jobs) /\ Len(jobs) \in Nat
  BY DEF TypeOK
<1> DEFINE Ended(j) == IF jobs[j].pc \in Pending
                       THEN [jobs[j] EXCEPT !.pc = "lost"] ELSE jobs[j]
<1>2. jobs' = [j \in 1..Len(jobs) |-> Ended(j)]
  BY <1>1 DEF Stop
<1>3. \A j \in 1..Len(jobs) : jobs[j] \in Job
  BY <1>1
<1>4. \A j \in 1..Len(jobs) :
        /\ Ended(j) \in Job
        /\ Ended(j).line = jobs[j].line /\ Ended(j).tenant = jobs[j].tenant
        /\ Ended(j).pc = IF jobs[j].pc \in Pending THEN "lost" ELSE jobs[j].pc
  BY <1>3 DEF Job, Final
<1> HIDE DEF Ended
<1>5. jobs' \in Seq(Job) /\ DOMAIN jobs' = DOMAIN jobs
  BY <1>1, <1>2, <1>4
<1> QED  BY <1>1, <1>2, <1>4, <1>5 DEF Stop

\* Every step keeps the types; one step of the proof per action.
LEMMA TypeStep == TypeOK /\ [Next]_vars => TypeOK'
<1> SUFFICES ASSUME TypeOK, [Next]_vars PROVE TypeOK'
  OBVIOUS
<1> USE LineAssumption, BoundAssumption
<1>1. CASE FileAppears
  BY <1>1 DEF FileAppears, TypeOK, processVars
<1>2. ASSUME NEW l \in Lines, WriteLine(l) PROVE TypeOK'
  BY <1>2 DEF WriteLine, TypeOK, processVars
<1>3. ASSUME NEW t \in Tenants, RegisterTenant(t) PROVE TypeOK'
  BY <1>3 DEF RegisterTenant, TypeOK, processVars
<1>4. ASSUME Stop, UNCHANGED <<known, docs, fileExists, log>>,
             \E kind \in {"crash", "tail", "db"} : Spend(kind)
      PROVE  TypeOK'
  <2>1. faults' \in [crash : Nat, tail : Nat, db : Nat]
    BY <1>4, SpendType DEF TypeOK
  <2>2. tails' \in Seq(Follower)
    BY <1>4, StopEffect
  <2> QED  BY <1>4, <2>1, <2>2, StopEffect DEF TypeOK, Phases
<1>5. CASE Boot
  BY <1>5 DEF Boot, TypeOK, Phases
<1>6. CASE EnsureUncategorized
  BY <1>6 DEF EnsureUncategorized, TypeOK, Phases
<1>7. ASSUME NEW pending \in Nat, beginWithRetry(pending)
      PROVE  timers' \in Nat /\ tails' \in Seq(Follower)
             /\ faults' \in [crash : Nat, tail : Nat, db : Nat]
  <2>1. CASE timers' = pending + 1 /\ tails' = tails
    BY <1>7, <2>1, RetryEffect DEF TypeOK
  <2>2. ASSUME timers' = pending,
               NEW n \in 0..Len(log), tails' = Append(tails, [live |-> TRUE, pos |-> n])
        PROVE  timers' \in Nat /\ tails' \in Seq(Follower)
    <3>1. [live |-> TRUE, pos |-> n] \in Follower
      BY <2>2 DEF TypeOK, Follower
    <3> QED  BY <2>2, <3>1 DEF TypeOK
  <2> QED  BY <1>7, <2>1, <2>2, RetryEffect
<1>8. CASE EnsureDemo
  BY <1>8, <1>7 DEF EnsureDemo, TypeOK, Phases
<1>9. CASE RetryTimer
  <2>1. timers - 1 \in Nat
    BY <1>9 DEF RetryTimer, TypeOK
  <2> QED  BY <1>9, <2>1, <1>7 DEF RetryTimer, TypeOK
<1>10. ASSUME NEW k \in DOMAIN tails, TailError(k) PROVE TypeOK'
  <2>1. tails' \in Seq(Follower)
    <3>1. [tails[k] EXCEPT !.live = FALSE] \in Follower
      BY Elements DEF Follower
    <3> QED  BY <1>10, <3>1, Elements, ExceptSeq DEF TailError, TypeOK
  <2>2. faults' \in [crash : Nat, tail : Nat, db : Nat]
    BY <1>10, SpendType DEF TailError, TypeOK
  <2>3. /\ timers' = timers + 1
        /\ UNCHANGED <<phase, known, docs, fileExists, log, uncategorizedTenantId, jobs>>
    BY <1>10 DEF TailError
  <2> QED  BY <2>1, <2>2, <2>3 DEF TypeOK
<1>11. ASSUME NEW k \in DOMAIN tails, Deliver(k) PROVE TypeOK'
  <2>1. tails[k] \in Follower /\ tails[k].pos + 1 \in 1..MaxLines
    BY <1>11, Elements DEF Deliver, Follower
  <2>2. tails' \in Seq(Follower)
    <3>1. [tails[k] EXCEPT !.pos = @ + 1] \in Follower
      BY <2>1 DEF Follower
    <3> QED  BY <1>11, <3>1, Elements, ExceptSeq DEF Deliver, TypeOK
  <2>3. Entered(tails[k].pos + 1) \in Job
    BY <2>1 DEF Entered, Job, TypeOK, Pending, Final
  <2>4. jobs' \in Seq(Job)
    BY <1>11, <2>3 DEF Deliver, TypeOK
  <2> QED  BY <1>11, <2>2, <2>4 DEF Deliver, TypeOK
<1>12. ASSUME NEW j \in DOMAIN jobs, NEW t \in Tenants \cup {Null}, ResolvedTo(j, t),
              faults' \in [crash : Nat, tail : Nat, db : Nat]
       PROVE  TypeOK'
  <2>1. jobs' \in Seq(Job)
    <3>1. [jobs[j] EXCEPT !.pc = "saving", !.tenant = t] \in Job
      BY Elements DEF Job, Pending
    <3> QED  BY <1>12, <3>1, Elements, ExceptSeq DEF ResolvedTo, TypeOK
  <2> QED  BY <1>12, <2>1 DEF ResolvedTo, TypeOK, processVars
<1>13. ASSUME NEW j \in DOMAIN jobs, Resolve(j) PROVE TypeOK'
  <2>1. (IF Header(j) \in known THEN Header(j) ELSE uncategorizedTenantId)
          \in Tenants \cup {Null}
    BY DEF TypeOK
  <2> QED  BY <1>13, <2>1, <1>12 DEF Resolve, TypeOK
<1>14. ASSUME NEW j \in DOMAIN jobs, ResolveFails(j) PROVE TypeOK'
  <2>1. uncategorizedTenantId \in Tenants \cup {Null}
    BY DEF TypeOK
  <2> QED  BY <1>14, <2>1, <1>12, SpendType DEF ResolveFails, TypeOK
<1>15. ASSUME NEW j \in DOMAIN jobs, NEW pc \in Pending \cup Final,
              jobs' = [jobs EXCEPT ![j].pc = pc]
       PROVE  jobs' \in Seq(Job)
  <2>1. [jobs[j] EXCEPT !.pc = pc] \in Job
    BY Elements DEF Job
  <2> QED  BY <1>15, <2>1, Elements, ExceptSeq DEF TypeOK
<1>16. ASSUME NEW j \in DOMAIN jobs, Validates(j) PROVE Inserted(j) \in Seq(Doc)
  <2>1. jobs[j] \in Job
    BY DEF TypeOK
  <2>2. [line |-> jobs[j].line, tenant |-> jobs[j].tenant] \in Doc
    BY <1>16, <2>1 DEF Validates, Job, Doc
  <2> QED  BY <2>2 DEF Inserted, TypeOK
<1>17. ASSUME NEW j \in DOMAIN jobs, Save(j) PROVE TypeOK'
  BY <1>15, <1>16, <1>17 DEF Save, TypeOK, Pending, processVars
<1>18. ASSUME NEW j \in DOMAIN jobs, SaveFails(j) PROVE TypeOK'
  <2>1. docs' \in Seq(Doc) /\ faults' \in [crash : Nat, tail : Nat, db : Nat]
    BY <1>16, <1>18, SpendType DEF SaveFails, TypeOK
  <2>2. jobs' \in Seq(Job)
    BY <1>15, <1>18 DEF SaveFails, Final
  <2> QED  BY <1>18, <2>1, <2>2 DEF SaveFails, TypeOK, processVars
<1>19. ASSUME NEW j \in DOMAIN jobs, Track(j) PROVE TypeOK'
  BY <1>15, <1>19 DEF Track, TypeOK, Final, processVars
<1>20. CASE UNCHANGED vars
  BY <1>20 DEF vars, processVars, TypeOK
<1>21. CASE Crash \/ BootFails \/ UnhandledRejection
  BY <1>4, <1>21 DEF Crash, BootFails, UnhandledRejection
<1> QED
  BY <1>1, <1>2, <1>3, <1>5, <1>6, <1>8, <1>9, <1>10, <1>11, <1>13, <1>14, <1>17,
     <1>18, <1>19, <1>20, <1>21 DEF Next, Environment, Starting, JobStep

\* Type correctness of the service, for every instance.
THEOREM TypeCorrect == Spec => []TypeOK
<1>1. Init => TypeOK
  BY BoundAssumption DEF Init, TypeOK, Phases
<1> QED  BY <1>1, TypeStep, PTL DEF Spec
-------------------------------------------------------------------------------
(* What the steps that move a line do, in the terms of the invariant.       *)

\* One handler moves on: it is resolved, refused, inserted or acknowledged.
LEMMA JobEffect ==
    ASSUME TypeOK, NEW j \in DOMAIN jobs, JobStep(j)
    PROVE  /\ UNCHANGED <<processVars, known, fileExists, log>>
           /\ DOMAIN jobs' = DOMAIN jobs
           /\ \A i \in DOMAIN jobs : /\ jobs'[i].line = jobs[i].line
                                     /\ i # j => jobs'[i] = jobs[i]
           /\ \/ /\ jobs[j].pc = "resolving" /\ jobs'[j].pc = "saving" /\ docs' = docs
                 /\ \/ jobs'[j].tenant = uncategorizedTenantId
                    \/ jobs'[j].tenant = Header(j) /\ Header(j) \in known
              \/ /\ jobs[j].pc = "saving" /\ jobs'[j].pc = "dropped" /\ docs' = docs
              \/ /\ jobs[j].pc = "saving" /\ jobs'[j].pc \in {"saved", "dropped"}
                 /\ docs' = Inserted(j) /\ Validates(j) /\ jobs'[j].tenant = jobs[j].tenant
              \/ /\ jobs[j].pc = "saved" /\ jobs'[j].pc = "tracked" /\ docs' = docs
                 /\ jobs'[j].tenant = jobs[j].tenant
<1> USE Elements
<1>1. ASSUME NEW pc \in Pending \cup Final, jobs' = [jobs EXCEPT ![j].pc = pc]
      PROVE  /\ DOMAIN jobs' = DOMAIN jobs
             /\ jobs'[j].pc = pc /\ jobs'[j].tenant = jobs[j].tenant
             /\ \A i \in DOMAIN jobs : /\ jobs'[i].line = jobs[i].line
                                       /\ i # j => jobs'[i] = jobs[i]
  BY <1>1 DEF TypeOK, Job
<1>2. ASSUME NEW t, jobs' = [jobs EXCEPT ![j] = [@ EXCEPT !.pc = "saving", !.tenant = t]]
      PROVE  /\ DOMAIN jobs' = DOMAIN jobs
             /\ jobs'[j].pc = "saving" /\ jobs'[j].tenant = t
             /\ \A i \in DOMAIN jobs : /\ jobs'[i].line = jobs[i].line
                                       /\ i # j => jobs'[i] = jobs[i]
  BY <1>2 DEF TypeOK, Job
<1>3. CASE Resolve(j)
  BY <1>2, <1>3 DEF Resolve, ResolvedTo
<1>4. CASE ResolveFails(j)
  BY <1>2, <1>4 DEF ResolveFails, ResolvedTo
<1>5. CASE Save(j)
  BY <1>1, <1>5 DEF Save, Pending
<1>6. CASE SaveFails(j)
  BY <1>1, <1>6 DEF SaveFails, Final
<1>7. CASE Track(j)
  BY <1>1, <1>7 DEF Track, Final
<1> QED  BY <1>3, <1>4, <1>5, <1>6, <1>7 DEF JobStep

\* The steps that touch neither handlers nor documents nor tails.
Quiet ==
    /\ UNCHANGED <<docs, jobs, timers, tails>>
    /\ known \subseteq known'
    /\ \/ log' = log
       \/ \E l \in Lines : log' = Append(log, l)
    /\ \/ UNCHANGED <<phase, uncategorizedTenantId>>
       \/ phase = "off" /\ phase' = "booting" /\ UNCHANGED uncategorizedTenantId
       \/ /\ phase = "booting" /\ phase' = "seeding"
          /\ uncategorizedTenantId' = Uncategorized /\ Uncategorized \in known'

\* The steps that try to follow the file.
Retry ==
    /\ UNCHANGED <<docs, jobs, log, uncategorizedTenantId>>
    /\ known \subseteq known'
    /\ \/ phase = "seeding" /\ phase' = "running" /\ beginWithRetry(timers)
       \/ timers > 0 /\ phase' = phase /\ beginWithRetry(timers - 1)

StopStep == Stop /\ UNCHANGED <<known, docs, log>>

\* Every step is of one of these six kinds.
LEMMA StepKinds ==
    ASSUME TypeOK, [Next]_vars
    PROVE  \/ Quiet \/ Retry \/ StopStep
           \/ \E k \in DOMAIN tails : TailError(k) \/ Deliver(k)
           \/ \E j \in DOMAIN jobs : JobStep(j)
<1>1. CASE FileAppears \/ Boot \/ EnsureUncategorized \/ UNCHANGED vars
  BY <1>1 DEF FileAppears, Boot, EnsureUncategorized, Quiet, vars, processVars
<1>2. CASE \E l \in Lines : WriteLine(l)
  BY <1>2 DEF WriteLine, Quiet, processVars
<1>3. CASE \E t \in Tenants : RegisterTenant(t)
  BY <1>3 DEF RegisterTenant, Quiet, processVars
<1>4. CASE Crash \/ BootFails \/ UnhandledRejection
  BY <1>4 DEF Crash, BootFails, UnhandledRejection, StopStep
<1>5. CASE EnsureDemo \/ RetryTimer
  BY <1>5 DEF EnsureDemo, RetryTimer, Retry
<1> QED  BY <1>1, <1>2, <1>3, <1>4, <1>5 DEF Next, Environment, Starting
-------------------------------------------------------------------------------
(* The invariant, one part after the other.                                 *)

\* Retries and tails exclude each other.
LEMMA FollowerStep == TypeOK /\ FollowerInv /\ [Next]_vars => FollowerInv'
<1> SUFFICES ASSUME TypeOK, FollowerInv, [Next]_vars PROVE FollowerInv'
  OBVIOUS
<1> USE Elements
<1>1. CASE Quiet
  BY <1>1 DEF Quiet, FollowerInv, Live
<1>2. CASE Retry
  <2>1. timers \in {0, 1} /\ phase' = "running" /\ Live = {}
    BY <1>2 DEF Retry, FollowerInv, TypeOK, Live
  <2>2. PICK pending \in Nat : pending = 0 /\ beginWithRetry(pending)
    BY <1>2 DEF Retry, FollowerInv, TypeOK
  <2>3. CASE timers' = 1 /\ tails' = tails
    BY <2>1, <2>3 DEF FollowerInv, Live
  <2>4. ASSUME timers' = 0, NEW n \in 0..Len(log),
               tails' = Append(tails, [live |-> TRUE, pos |-> n])
        PROVE  FollowerInv'
    <3>1. /\ DOMAIN tails' = 1..Len(tails) + 1 /\ Len(tails') = Len(tails) + 1
          /\ \A k \in DOMAIN tails : tails'[k] = tails[k]
          /\ tails'[Len(tails) + 1].live
      BY <2>4
    <3>2. DOMAIN tails = 1..Len(tails) /\ Len(tails) \in Nat
      OBVIOUS
    <3>3. \A k \in 1..Len(tails) : ~tails'[k].live
      BY <2>1, <3>1, <3>2 DEF Live
    <3>4. \A k \in DOMAIN tails' : tails'[k].live <=> k = Len(tails) + 1
      BY <3>1, <3>2, <3>3
    <3>5. Live' = {Len(tails')}
      BY <3>1, <3>2, <3>4 DEF Live
    <3> QED  BY <2>1, <2>4, <3>1, <3>2, <3>5 DEF FollowerInv
  <2>5. \/ timers' = 1 /\ tails' = tails
        \/ /\ timers' = 0
           /\ \E n \in 0..Len(log) : tails' = Append(tails, [live |-> TRUE, pos |-> n])
    <3>1. \/ timers' = pending + 1 /\ tails' = tails
          \/ /\ timers' = pending
             /\ \E n \in 0..Len(log) : tails' = Append(tails, [live |-> TRUE, pos |-> n])
      BY <2>2, RetryEffect
    <3> QED  BY <2>2, <3>1
  <2> QED  BY <2>3, <2>4, <2>5
<1>3. CASE StopStep
  BY <1>3, StopEffect DEF StopStep, FollowerInv
<1>4. ASSUME NEW k \in DOMAIN tails, TailError(k) PROVE FollowerInv'
  <2>1. phase = "running" /\ timers = 0 /\ Live = {k}
    BY <1>4 DEF TailError, FollowerInv, Live
  <2>2. Live' = {}
    BY <1>4, <2>1 DEF TailError, Live, Follower
  <2> QED  BY <1>4, <2>1, <2>2 DEF TailError, FollowerInv
<1>5. ASSUME NEW k \in DOMAIN tails, Deliver(k) PROVE FollowerInv'
  <2>1. Len(tails') = Len(tails) /\ DOMAIN tails' = DOMAIN tails
    BY <1>5 DEF Deliver, TypeOK
  <2>2. \A i \in DOMAIN tails : tails'[i].live = tails[i].live
    BY <1>5 DEF Deliver, TypeOK, Follower
  <2>3. Live' = Live /\ tails' # << >>
    BY <2>1, <2>2 DEF Live
  <2> QED  BY <1>5, <2>1, <2>3 DEF Deliver, FollowerInv
<1>6. ASSUME NEW j \in DOMAIN jobs, JobStep(j) PROVE FollowerInv'
  BY <1>6, JobEffect DEF FollowerInv, Live, processVars
<1> QED  BY <1>1, <1>2, <1>3, <1>4, <1>5, <1>6, StepKinds

\* Delivery is the newest tail's: the next line goes to a new handler.
LEMMA DeliverEffect ==
    ASSUME TypeOK, FollowerInv, NEW k \in DOMAIN tails, Deliver(k)
    PROVE  /\ k = Len(tails) /\ phase = "running" /\ tails[k].pos \in Nat
           /\ tails[k].pos + 1 <= Len(log)
           /\ Len(tails') = Len(tails) /\ DOMAIN tails' = DOMAIN tails
           /\ tails'[k].pos = tails[k].pos + 1
           /\ \A i \in DOMAIN tails \ {k} : tails'[i] = tails[i]
           /\ DOMAIN jobs' = 1..Len(jobs) + 1
           /\ \A j \in DOMAIN jobs : jobs'[j] = jobs[j]
           /\ jobs'[Len(jobs) + 1] = Entered(tails[k].pos + 1)
           /\ UNCHANGED <<phase, known, docs, log, uncategorizedTenantId>>
<1> USE Elements
<1>1. k = Len(tails) /\ phase = "running"
  BY DEF Deliver, FollowerInv, Live
<1>2. tails[k].pos \in Nat
  BY BoundAssumption DEF Follower
<1>3. /\ Len(tails') = Len(tails) /\ DOMAIN tails' = DOMAIN tails
      /\ tails'[k].pos = tails[k].pos + 1
      /\ \A i \in DOMAIN tails \ {k} : tails'[i] = tails[i]
  BY DEF Deliver, TypeOK, Follower
<1>4. /\ DOMAIN jobs' = 1..Len(jobs) + 1
      /\ \A j \in DOMAIN jobs : jobs'[j] = jobs[j]
      /\ jobs'[Len(jobs) + 1] = Entered(tails[k].pos + 1)
  BY DEF Deliver, TypeOK
<1> QED  BY <1>1, <1>2, <1>3, <1>4 DEF Deliver

\* An insert appends one document for the line of its handler.
LEMMA InsertEffect ==
    ASSUME TypeOK, NEW j \in DOMAIN jobs, docs' = Inserted(j), Validates(j)
    PROVE  /\ DOMAIN docs' = 1..Len(docs) + 1
           /\ \A p \in DOMAIN docs : docs'[p] = docs[p]
           /\ docs'[Len(docs) + 1] = [line |-> jobs[j].line, tenant |-> jobs[j].tenant]
BY Elements DEF Inserted, TypeOK

\* Reach is a position of the file.
LEMMA ReachType ==
    ASSUME TypeOK, CursorInv
    PROVE  Reach \in Nat /\ Reach <= Len(log)
<1>1. CASE tails = << >>
  BY <1>1, Elements DEF Reach
<1>2. CASE tails # << >>
  <2>1. Len(tails) \in DOMAIN tails
    BY <1>2, Elements
  <2>2. tails[Len(tails)].pos \in Nat
    BY <2>1, Elements, BoundAssumption DEF Follower
  <2> QED  BY <1>2, <2>1, <2>2 DEF Reach, CursorInv
<1> QED  BY <1>1, <1>2

\* What a retry appends starts at Reach or behind it.
LEMMA RetryReach ==
    ASSUME TypeOK, CursorInv, Retry
    PROVE  /\ \A k \in DOMAIN tails' : tails'[k].pos <= Len(log)
           /\ Reach' \in Nat /\ Reach' >= Reach
<1>0. log' = log
  BY DEF Retry
<1>1. PICK pending \in Nat : beginWithRetry(pending)
  BY DEF Retry, TypeOK
<1>2. CASE tails' = tails
  BY <1>0, <1>2, ReachType DEF CursorInv, Reach
<1>3. ASSUME NEW n \in 0..Len(log), tails' = Append(tails, [live |-> TRUE, pos |-> n]),
             tails # << >> => n >= tails[Len(tails)].pos, tails = << >> => n = Len(log)
      PROVE  /\ \A k \in DOMAIN tails' : tails'[k].pos <= Len(log)
             /\ Reach' \in Nat /\ Reach' >= Reach
  <2>1. /\ DOMAIN tails = 1..Len(tails) /\ Len(tails) \in Nat /\ Len(log) \in Nat
        /\ n \in Nat /\ n <= Len(log)
    BY Elements
  <2>2. /\ DOMAIN tails' = 1..Len(tails) + 1 /\ Len(tails') = Len(tails) + 1
        /\ \A k \in DOMAIN tails : tails'[k] = tails[k]
        /\ tails'[Len(tails) + 1].pos = n
    BY <1>3 DEF TypeOK
  <2>3. \A k \in DOMAIN tails' : k \in DOMAIN tails \/ k = Len(tails) + 1
    BY <2>1, <2>2
  <2>4. \A k \in DOMAIN tails' : tails'[k].pos <= Len(log)
    BY <2>1, <2>2, <2>3 DEF CursorInv
  <2>5. tails' # << >> /\ Reach' = n
    BY <2>1, <2>2 DEF Reach
  <2>6. n >= Reach
    BY <1>3, <2>1 DEF Reach
  <2> QED  BY <2>1, <2>4, <2>5, <2>6
<1>4. \/ tails' = tails
      \/ \E n \in 0..Len(log) :
           /\ tails' = Append(tails, [live |-> TRUE, pos |-> n])
           /\ tails # << >> => n >= tails[Len(tails)].pos
           /\ tails = << >> => n = Len(log)
  BY <1>1, RetryEffect
<1> QED  BY <1>2, <1>3, <1>4

\* Reach never goes back, and stays within the file.
LEMMA ReachStep ==
    ASSUME TypeOK, TypeOK', FollowerInv, CursorInv, [Next]_vars
    PROVE  /\ \A k \in DOMAIN tails' : tails'[k].pos <= Len(log')
           /\ Reach' \in Nat /\ Reach' >= Reach
<1>a. Reach \in Nat /\ Reach <= Len(log) /\ Len(log) \in Nat
  BY ReachType, Elements
<1>1. CASE Quiet
  <2>1. Len(log') \in Nat /\ Len(log') >= Len(log) /\ tails' = tails
    BY <1>1, <1>a DEF Quiet, TypeOK
  <2>2. \A k \in DOMAIN tails : tails[k].pos \in Nat
    BY Elements, BoundAssumption DEF Follower
  <2>3. \A k \in DOMAIN tails' : tails'[k].pos <= Len(log')
    BY <1>a, <2>1, <2>2 DEF CursorInv
  <2> QED  BY <1>a, <2>1, <2>3 DEF Reach
<1>2. CASE Retry
  BY <1>2, RetryReach DEF Retry
<1>3. CASE StopStep
  BY <1>3, <1>a, StopEffect DEF StopStep, Reach
<1>4. ASSUME NEW k \in DOMAIN tails, TailError(k)
      PROVE  /\ \A i \in DOMAIN tails' : tails'[i].pos <= Len(log')
             /\ Reach' \in Nat /\ Reach' >= Reach
  <2>1. /\ Len(tails') = Len(tails) /\ DOMAIN tails' = DOMAIN tails
        /\ \A i \in DOMAIN tails : tails'[i].pos = tails[i].pos
    BY <1>4, Elements DEF TailError, TypeOK, Follower
  <2>2. tails # << >> /\ tails' # << >> /\ log' = log
    BY <1>4, <2>1 DEF TailError
  <2>3. Len(tails) \in DOMAIN tails
    BY <2>2, Elements
  <2>4. Reach' = Reach
    BY <2>1, <2>2, <2>3 DEF Reach
  <2> QED  BY <1>a, <2>1, <2>2, <2>4 DEF CursorInv
<1>5. ASSUME NEW k \in DOMAIN tails, Deliver(k)
      PROVE  /\ \A i \in DOMAIN tails' : tails'[i].pos <= Len(log')
             /\ Reach' \in Nat /\ Reach' >= Reach
  <2>1. tails # << >> /\ tails' # << >> /\ Reach' = Reach + 1
    BY <1>5, DeliverEffect DEF Reach
  <2>2. \A i \in DOMAIN tails' : tails'[i].pos <= Len(log')
    BY <1>5, DeliverEffect DEF CursorInv
  <2> QED  BY <1>a, <2>1, <2>2
<1>6. ASSUME NEW j \in DOMAIN jobs, JobStep(j)
      PROVE  /\ \A i \in DOMAIN tails' : tails'[i].pos <= Len(log')
             /\ Reach' \in Nat /\ Reach' >= Reach
  BY <1>6, <1>a, JobEffect DEF processVars, Reach, CursorInv
<1> QED  BY <1>1, <1>2, <1>3, <1>4, <1>5, <1>6, StepKinds

\* How the documents and the handlers of one step relate to those before it:
\* what was there stays, with its line, and what is new is on the line Reach
\* moved to, or on the line of the handler that saved.
LEMMA LinesStep ==
    ASSUME TypeOK, FollowerInv, CursorInv, [Next]_vars
    PROVE  /\ \A j \in DOMAIN jobs' :
                \/ j \in DOMAIN jobs /\ jobs'[j].line = jobs[j].line
                \/ /\ \E k \in DOMAIN tails : Deliver(k)
                   /\ j = Len(jobs) + 1 /\ jobs'[j].line = Reach + 1 /\ Reach' = Reach + 1
           /\ \A p \in DOMAIN docs' :
                \/ p \in DOMAIN docs /\ docs'[p] = docs[p]
                \/ /\ p = Len(docs) + 1
                   /\ \E j \in DOMAIN jobs :
                        /\ JobStep(j) /\ jobs[j].pc = "saving" /\ docs' = Inserted(j)
                        /\ docs'[p] = [line |-> jobs[j].line, tenant |-> jobs[j].tenant]
<1>1. CASE Quiet \/ Retry \/ \E k \in DOMAIN tails : TailError(k)
  BY <1>1 DEF Quiet, Retry, TailError
<1>2. CASE StopStep
  BY <1>2, StopEffect DEF StopStep
<1>3. ASSUME NEW k \in DOMAIN tails, Deliver(k)
      PROVE  /\ docs' = docs /\ Reach' = Reach + 1
             /\ \A j \in DOMAIN jobs' :
                  \/ j \in DOMAIN jobs /\ jobs'[j].line = jobs[j].line
                  \/ j = Len(jobs) + 1 /\ jobs'[j].line = Reach + 1
  <2>1. tails # << >> /\ tails' # << >> /\ Reach' = Reach + 1
    BY <1>3, DeliverEffect DEF Reach
  <2>2. jobs'[Len(jobs) + 1].line = Reach + 1
    <3>1. k = Len(tails) /\ jobs'[Len(jobs) + 1] = Entered(tails[k].pos + 1)
      BY <1>3, DeliverEffect
    <3>2. Entered(tails[k].pos + 1).line = tails[k].pos + 1
      BY DEF Entered
    <3> QED  BY <2>1, <3>1, <3>2 DEF Reach
  <2>3. \A j \in DOMAIN jobs' : j \in DOMAIN jobs \/ j = Len(jobs) + 1
    BY <1>3, DeliverEffect, Elements
  <2> QED  BY <1>3, <2>1, <2>2, <2>3, DeliverEffect
<1>4. ASSUME NEW j \in DOMAIN jobs, JobStep(j)
      PROVE  /\ \A i \in DOMAIN jobs' : i \in DOMAIN jobs /\ jobs'[i].line = jobs[i].line
             /\ \A p \in DOMAIN docs' :
                  \/ p \in DOMAIN docs /\ docs'[p] = docs[p]
                  \/ /\ p = Len(docs) + 1 /\ jobs[j].pc = "saving" /\ docs' = Inserted(j)
                     /\ docs'[p] = [line |-> jobs[j].line, tenant |-> jobs[j].tenant]
  <2>1. CASE docs' = docs
    BY <1>4, <2>1, JobEffect
  <2>2. CASE jobs[j].pc = "saving" /\ docs' = Inserted(j) /\ Validates(j)
    <3>1. \A p \in DOMAIN docs' : p \in DOMAIN docs \/ p = Len(docs) + 1
      <4>1. DOMAIN docs' = 1..Len(docs) + 1
        BY <2>2, InsertEffect
      <4>2. DOMAIN docs = 1..Len(docs) /\ Len(docs) \in Nat
        BY Elements
      <4> QED  BY <4>1, <4>2
    <3> QED  BY <1>4, <2>2, <3>1, InsertEffect, JobEffect
  <2> QED  BY <1>4, <2>1, <2>2, JobEffect
<1> QED  BY <1>1, <1>2, <1>3, <1>4, StepKinds

\* Nothing overtakes Reach.
LEMMA CursorStep ==
    ASSUME TypeOK, TypeOK', FollowerInv, CursorInv, [Next]_vars
    PROVE  CursorInv'
<1>1. Reach \in Nat /\ Reach' \in Nat /\ Reach' >= Reach
  BY ReachType, ReachStep
<1>2. /\ \A j \in DOMAIN jobs : jobs[j].line \in Nat /\ jobs[j].line <= Reach
      /\ \A p \in DOMAIN docs : docs[p].line \in Nat /\ docs[p].line <= Reach
  BY Elements, BoundAssumption DEF CursorInv, Job, Doc
<1>3. \A j \in DOMAIN jobs' : jobs'[j].line <= Reach'
  BY <1>1, <1>2, LinesStep
<1>4. \A p \in DOMAIN docs' : docs'[p].line <= Reach'
  BY <1>1, <1>2, LinesStep
<1> QED  BY <1>3, <1>4, ReachStep DEF CursorInv

\* No handler's line is given out again, nor stored before its handler saves.
LEMMA HandlerStep ==
    ASSUME TypeOK, FollowerInv, CursorInv, HandlerInv, [Next]_vars
    PROVE  HandlerInv'
<1> DEFINE Early == {"ignored", "resolving", "saving"}
<1>1. /\ Reach \in Nat
      /\ \A j \in DOMAIN jobs : jobs[j].line \in Nat /\ jobs[j].line <= Reach
      /\ \A p \in DOMAIN docs : docs[p].line \in Nat /\ docs[p].line <= Reach
  BY ReachType, Elements, BoundAssumption DEF CursorInv, Job, Doc
<1>2. \A j \in DOMAIN jobs' :
        \/ j \in DOMAIN jobs /\ jobs'[j].line = jobs[j].line
        \/ j = Len(jobs) + 1 /\ jobs'[j].line = Reach + 1
  BY LinesStep
<1>3. \A i, j \in DOMAIN jobs' : jobs'[i].line = jobs'[j].line => i = j
  BY <1>1, <1>2 DEF HandlerInv
<1>4. CASE Quiet \/ Retry \/ \E k \in DOMAIN tails : TailError(k)
  BY <1>4 DEF Quiet, Retry, TailError, HandlerInv
<1>5. CASE StopStep
  BY <1>3, <1>5, StopEffect DEF StopStep, HandlerInv
<1>6. ASSUME NEW k \in DOMAIN tails, Deliver(k) PROVE HandlerInv'
  <2>1. docs' = docs /\ \A j \in DOMAIN jobs : jobs'[j] = jobs[j]
    BY <1>6, DeliverEffect
  <2>2. \A p \in DOMAIN docs', j \in DOMAIN jobs' :
          docs'[p].line = jobs'[j].line => jobs'[j].pc \notin Early
    BY <1>1, <1>2, <2>1 DEF HandlerInv
  <2> QED  BY <1>3, <2>2 DEF HandlerInv
<1>7. ASSUME NEW j \in DOMAIN jobs, JobStep(j) PROVE HandlerInv'
  <2>1. /\ DOMAIN jobs' = DOMAIN jobs
        /\ \A i \in DOMAIN jobs : /\ jobs'[i].line = jobs[i].line
                                  /\ i # j => jobs'[i] = jobs[i]
    BY <1>7, JobEffect
  <2>2. CASE jobs[j].pc \in Early /\ docs' = docs
    BY <1>3, <2>1, <2>2 DEF HandlerInv
  <2>3. CASE jobs'[j].pc \notin Early /\ docs' = docs
    BY <1>3, <2>1, <2>3 DEF HandlerInv
  <2>4. CASE jobs'[j].pc \notin Early /\ docs' = Inserted(j) /\ Validates(j)
    <3>1. DOMAIN docs' = 1..Len(docs) + 1
      BY <2>4, InsertEffect
    <3>2. DOMAIN docs = 1..Len(docs) /\ Len(docs) \in Nat
      BY Elements
    <3>3. \A p \in DOMAIN docs' : p \in DOMAIN docs \/ p = Len(docs) + 1
      BY <3>1, <3>2
    <3>4. \A p \in DOMAIN docs' :
            (p \in DOMAIN docs /\ docs'[p] = docs[p]) \/ docs'[p].line = jobs[j].line
      <4>1. \A p \in DOMAIN docs : docs'[p] = docs[p]
        BY <2>4, InsertEffect
      <4>2. docs'[Len(docs) + 1] = [line |-> jobs[j].line, tenant |-> jobs[j].tenant]
        BY <2>4, InsertEffect
      <4> QED  BY <3>3, <4>1, <4>2
    <3>5. ASSUME NEW p \in DOMAIN docs', NEW i \in DOMAIN jobs',
                 docs'[p].line = jobs'[i].line
          PROVE  jobs'[i].pc \notin Early
      <4>1. i \in DOMAIN jobs /\ jobs'[i].line = jobs[i].line
        BY <2>1
      <4>2. CASE i = j
        BY <2>4, <4>2
      <4>3. CASE i # j
        <5>1. jobs'[i] = jobs[i] /\ jobs[i].line # jobs[j].line
          BY <2>1, <4>1, <4>3 DEF HandlerInv
        <5>2. p \in DOMAIN docs /\ docs'[p] = docs[p]
          BY <3>4, <3>5, <4>1, <5>1
        <5> QED  BY <3>5, <4>1, <5>1, <5>2 DEF HandlerInv
      <4> QED  BY <4>2, <4>3
    <3> QED  BY <1>3, <3>5 DEF HandlerInv
  <2>5. \/ jobs[j].pc \in Early /\ docs' = docs
        \/ jobs'[j].pc \notin Early /\ docs' = docs
        \/ jobs'[j].pc \notin Early /\ docs' = Inserted(j) /\ Validates(j)
    BY <1>7, JobEffect
  <2> QED  BY <2>2, <2>3, <2>4, <2>5
<1> QED  BY <1>4, <1>5, <1>6, <1>7, StepKinds

\* A document that is added is the first of its line.
LEMMA StoredOnceStep ==
    ASSUME TypeOK, FollowerInv, CursorInv, HandlerInv, StoredOnce, [Next]_vars
    PROVE  StoredOnce'
<1>1. \A p \in DOMAIN docs' :
        \/ p \in DOMAIN docs /\ docs'[p] = docs[p]
        \/ /\ p = Len(docs) + 1
           /\ \E j \in DOMAIN jobs : jobs[j].pc = "saving" /\ docs'[p].line = jobs[j].line
  BY LinesStep
<1>2. \A p \in DOMAIN docs' :
        \/ p \in DOMAIN docs /\ docs'[p] = docs[p]
        \/ p = Len(docs) + 1 /\ \A q \in DOMAIN docs : docs[q].line # docs'[p].line
  BY <1>1 DEF HandlerInv
<1> QED  BY <1>2 DEF StoredOnce

\* A handler past the save has its document.
LEMMA TrackedStep ==
    ASSUME TypeOK, FollowerInv, CursorInv, TrackedIsStored, [Next]_vars
    PROVE  TrackedIsStored'
<1> DEFINE HasDoc(j) == \E p \in DOMAIN docs :
                           docs[p] = [line |-> jobs[j].line, tenant |-> jobs[j].tenant]
<1>1. CASE Quiet \/ Retry \/ \E k \in DOMAIN tails : TailError(k)
  BY <1>1 DEF Quiet, Retry, TailError, TrackedIsStored
<1>2. CASE StopStep
  BY <1>2, StopEffect DEF StopStep, TrackedIsStored
<1>3. ASSUME NEW k \in DOMAIN tails, Deliver(k) PROVE TrackedIsStored'
  <2>1. /\ docs' = docs /\ DOMAIN jobs' = 1..Len(jobs) + 1
        /\ \A j \in DOMAIN jobs : jobs'[j] = jobs[j]
        /\ jobs'[Len(jobs) + 1] = Entered(tails[k].pos + 1)
    BY <1>3, DeliverEffect
  <2>2. Entered(tails[k].pos + 1).pc \notin {"saved", "tracked"}
    BY DEF Entered
  <2>3. \A j \in DOMAIN jobs' : j \in DOMAIN jobs \/ j = Len(jobs) + 1
    BY <2>1, Elements
  <2> QED  BY <2>1, <2>2, <2>3 DEF TrackedIsStored
<1>4. ASSUME NEW j \in DOMAIN jobs, JobStep(j) PROVE TrackedIsStored'
  <2>1. /\ DOMAIN jobs' = DOMAIN jobs /\ jobs'[j].line = jobs[j].line
        /\ \A i \in DOMAIN jobs : i # j => jobs'[i] = jobs[i]
    BY <1>4, JobEffect
  <2>2. CASE docs' = docs /\ jobs'[j].pc \notin {"saved", "tracked"}
    BY <2>1, <2>2 DEF TrackedIsStored
  <2>3. CASE docs' = docs /\ jobs[j].pc = "saved" /\ jobs'[j].tenant = jobs[j].tenant
    BY <2>1, <2>3 DEF TrackedIsStored
  <2>4. CASE docs' = Inserted(j) /\ Validates(j) /\ jobs'[j].tenant = jobs[j].tenant
    <3>1. DOMAIN docs' = 1..Len(docs) + 1 /\ \A p \in DOMAIN docs : docs'[p] = docs[p]
      BY <2>4, InsertEffect
    <3>2. DOMAIN docs = 1..Len(docs) /\ Len(docs) \in Nat
      BY Elements
    <3>3. docs'[Len(docs) + 1] = [line |-> jobs'[j].line, tenant |-> jobs'[j].tenant]
      BY <2>1, <2>4, InsertEffect
    <3>4. Len(docs) + 1 \in DOMAIN docs' /\ DOMAIN docs \subseteq DOMAIN docs'
      BY <3>1, <3>2
    <3> QED  BY <2>1, <3>1, <3>3, <3>4 DEF TrackedIsStored
  <2>5. \/ docs' = docs /\ jobs'[j].pc \notin {"saved", "tracked"}
        \/ docs' = docs /\ jobs[j].pc = "saved" /\ jobs'[j].tenant = jobs[j].tenant
        \/ docs' = Inserted(j) /\ Validates(j) /\ jobs'[j].tenant = jobs[j].tenant
    BY <1>4, JobEffect
  <2> QED  BY <2>2, <2>3, <2>4, <2>5
<1> QED  BY <1>1, <1>2, <1>3, <1>4, StepKinds

\* A handler past the resolver has a tenant it may store under.
LEMMA TenantStep ==
    ASSUME TypeOK, FollowerInv, CursorInv, TenantInv, [Next]_vars
    PROVE  TenantInv'
<1> DEFINE Works(j) ==
      /\ jobs[j].pc \in Pending => phase = "running" /\ Relevant(log[jobs[j].line])
      /\ jobs[j].pc = "saving" =>
           jobs[j].tenant \in known \cap {Uncategorized, log[jobs[j].line].header}
<1>0. \A j \in DOMAIN jobs : jobs[j].line \in DOMAIN log
  <2>1. \A j \in DOMAIN jobs : jobs[j].line \in Nat /\ jobs[j].line >= 1 /\ jobs[j].line <= Reach
    BY Elements, BoundAssumption DEF CursorInv, Job
  <2> QED  BY <2>1, ReachType, Elements
<1>1. CASE Quiet
  <2>1. \A i \in DOMAIN log : log'[i] = log[i]
    <3>1. DOMAIN log = 1..Len(log) /\ Len(log) \in Nat
      BY Elements
    <3>2. ASSUME NEW l \in Lines, log' = Append(log, l)
          PROVE  \A i \in DOMAIN log : log'[i] = log[i]
      BY <3>1, <3>2 DEF TypeOK
    <3> QED  BY <1>1, <3>2 DEF Quiet
  <2>2. known \subseteq known' /\ jobs' = jobs
    BY <1>1 DEF Quiet
  <2>3. phase = "running" => phase' = "running"
    BY <1>1 DEF Quiet
  <2>4. \A j \in DOMAIN jobs' : Works(j)'
    BY <1>0, <2>1, <2>2, <2>3 DEF TenantInv
  <2>5. /\ phase' \in {"seeding", "running"} => uncategorizedTenantId' = Uncategorized
        /\ uncategorizedTenantId' = Uncategorized => Uncategorized \in known'
    BY <1>1 DEF Quiet, TenantInv
  <2> QED  BY <2>4, <2>5 DEF TenantInv
<1>2. CASE Retry
  <2>1. phase \in {"seeding", "running"} /\ phase' = "running"
    BY <1>2 DEF Retry, FollowerInv, TypeOK
  <2> QED  BY <1>2, <2>1 DEF Retry, TenantInv
<1>3. CASE StopStep
  <2>1. \A j \in DOMAIN jobs' : jobs'[j].pc \notin Pending
    BY <1>3, StopEffect DEF StopStep, Pending
  <2> QED  BY <1>3, <2>1, StopEffect, LineAssumption DEF StopStep, TenantInv, Pending
<1>4. ASSUME NEW k \in DOMAIN tails, TailError(k) PROVE TenantInv'
  BY <1>4 DEF TailError, TenantInv
<1>5. ASSUME NEW k \in DOMAIN tails, Deliver(k) PROVE TenantInv'
  <2> DEFINE i == tails[k].pos + 1
  <2>1. /\ phase = "running" /\ i \in DOMAIN log
        /\ UNCHANGED <<phase, known, log, uncategorizedTenantId>>
    BY <1>5, DeliverEffect, Elements
  <2>2. uncategorizedTenantId = Uncategorized /\ Uncategorized \in known
    BY <2>1 DEF TenantInv
  <2>3. /\ Entered(i).line = i
        /\ Entered(i).pc \in Pending => Relevant(log[i])
        /\ Entered(i).pc = "saving" => Entered(i).tenant = Uncategorized
    BY <2>2 DEF Entered, Pending
  <2>4. /\ \A j \in DOMAIN jobs : jobs'[j] = jobs[j]
        /\ \A j \in DOMAIN jobs' : j \in DOMAIN jobs \/ jobs'[j] = Entered(i)
    <3>1. /\ DOMAIN jobs' = 1..Len(jobs) + 1 /\ jobs'[Len(jobs) + 1] = Entered(i)
          /\ \A j \in DOMAIN jobs : jobs'[j] = jobs[j]
      BY <1>5, DeliverEffect
    <3> QED  BY <3>1, Elements
  <2> HIDE DEF i
  <2>5. \A j \in DOMAIN jobs' : Works(j)'
    BY <2>1, <2>2, <2>3, <2>4 DEF TenantInv
  <2> QED  BY <2>1, <2>2, <2>5 DEF TenantInv
<1>6. ASSUME NEW j \in DOMAIN jobs, JobStep(j) PROVE TenantInv'
  <2>1. /\ UNCHANGED <<phase, known, log, uncategorizedTenantId>>
        /\ DOMAIN jobs' = DOMAIN jobs /\ jobs'[j].line = jobs[j].line
        /\ \A i \in DOMAIN jobs : i # j => jobs'[i] = jobs[i]
    BY <1>6, JobEffect DEF processVars
  <2>2. jobs[j].pc \in Pending
    BY <1>6, JobEffect DEF Pending
  <2>3. /\ phase = "running" /\ Relevant(log[jobs[j].line])
        /\ uncategorizedTenantId = Uncategorized /\ Uncategorized \in known
    BY <2>2 DEF TenantInv
  <2>4. jobs'[j].pc = "saving" =>
          jobs'[j].tenant \in known \cap {Uncategorized, log[jobs[j].line].header}
    BY <1>6, <2>3, JobEffect DEF Header
  <2>5. \A i \in DOMAIN jobs' : Works(i)'
    BY <2>1, <2>3, <2>4 DEF TenantInv
  <2> QED  BY <2>1, <2>3, <2>5 DEF TenantInv
<1> QED  BY <1>1, <1>2, <1>3, <1>4, <1>5, <1>6, StepKinds
-------------------------------------------------------------------------------
(* The results.                                                             *)

\* The service starts in the invariant.
LEMMA IngestInit == Init => IngestInv
<1> SUFFICES ASSUME Init PROVE IngestInv
  OBVIOUS
<1>1. TypeOK
  BY BoundAssumption DEF Init, TypeOK, Phases
<1>2. Live = {} /\ Reach = 0
  BY DEF Init, Live, Reach
<1> QED
  BY <1>1, <1>2, LineAssumption DEF Init, IngestInv, FollowerInv, CursorInv, HandlerInv,
     TenantInv, StoredOnce, TrackedIsStored

\* Every step keeps it: the parts together are inductive.
LEMMA IngestKept == IngestInv /\ [Next]_vars => IngestInv'
<1> SUFFICES ASSUME IngestInv, [Next]_vars PROVE IngestInv'
  OBVIOUS
<1> USE DEF IngestInv
<1>1. TypeOK' /\ FollowerInv'
  BY TypeStep, FollowerStep
<1>2. CursorInv'
  BY <1>1, CursorStep
<1> QED  BY <1>1, <1>2, HandlerStep, TenantStep, StoredOnceStep, TrackedStep

\* The service never leaves it.
LEMMA IngestInvariant == Spec => []IngestInv
BY IngestInit, IngestKept, PTL DEF Spec

\* However the file comes and goes, starts fail and reads fail, a running service
\* has one live tail or one pending retry, and a stopped one has neither.
THEOREM FollowsOnce == Spec => []OneFollower
<1>1. IngestInv => OneFollower
  <2> SUFFICES ASSUME IngestInv PROVE OneFollower
    OBVIOUS
  <2>1. CASE phase = "running"
    <3>1. CASE timers = 0 /\ Live = {Len(tails)}
      <4>1. Cardinality({Len(tails)}) = 1
        BY FS_Singleton
      <4> QED  BY <2>1, <3>1, <4>1 DEF OneFollower
    <3>2. CASE timers = 1 /\ Live = {}
      BY <2>1, <3>2, FS_EmptySet DEF OneFollower
    <3> QED  BY <2>1, <3>1, <3>2 DEF IngestInv, FollowerInv
  <2>2. CASE phase # "running"
    BY <2>2 DEF IngestInv, FollowerInv, OneFollower, Live
  <2> QED  BY <2>1, <2>2
<1> QED  BY <1>1, IngestInvariant, PTL

\* No line becomes two documents, for any lines, tenants, crashes and failures.
THEOREM AtMostOneDocument == Spec => []StoredOnce
<1>1. IngestInv => StoredOnce
  BY DEF IngestInv
<1> QED  BY <1>1, IngestInvariant, PTL

\* Usage is tracked only for documents that exist, under their tenant.
THEOREM OnlyStoredIsTracked == Spec => []TrackedIsStored
<1>1. IngestInv => TrackedIsStored
  BY DEF IngestInv
<1> QED  BY <1>1, IngestInvariant, PTL

\* A handler's step is a Store step of AuditStore, or invisible to it.
LEMMA JobStepImplements ==
    ASSUME IngestInv, NEW j \in DOMAIN jobs, JobStep(j)
    PROVE  Store!Next \/ UNCHANGED Store!vars
<1> USE DEF IngestInv
<1>1. UNCHANGED <<known, log>>
  BY JobEffect
<1>2. CASE docs' = docs
  BY <1>1, <1>2 DEF Store!vars
<1>3. CASE jobs[j].pc = "saving" /\ docs' = Inserted(j)
  <2> DEFINE i == jobs[j].line
             t == jobs[j].tenant
  <2>1. i \in DOMAIN log /\ Relevant(log[i])
    <3>1. i \in Nat /\ i >= 1 /\ i <= Reach
      BY Elements, BoundAssumption DEF Job, CursorInv
    <3> QED  BY <1>3, <3>1, ReachType, Elements DEF TenantInv, Pending
  <2>2. t \in known \cap {Uncategorized, log[i].header} /\ t \in Tenants
    BY <1>3 DEF TenantInv, TypeOK
  <2>3. \A p \in DOMAIN docs : docs[p].line # i
    BY <1>3 DEF HandlerInv
  <2>4. docs' = Append(docs, [line |-> i, tenant |-> t])
    BY <1>3 DEF Inserted
  <2>5. Store!Store(i, t)
    BY <1>1, <2>1, <2>2, <2>3, <2>4 DEF Store!Store, Store!Relevant, Relevant
  <2> QED  BY <2>1, <2>2, <2>5 DEF Store!Next
<1> QED  BY <1>2, <1>3, JobEffect

\* Every step of the service is a step of AuditStore, or invisible to it.
LEMMA StepImplements ==
    ASSUME IngestInv, [Next]_vars
    PROVE  Store!Next \/ UNCHANGED Store!vars
<1>1. CASE FileAppears \/ Boot \/ RetryTimer \/ UNCHANGED vars
  BY <1>1 DEF FileAppears, Boot, RetryTimer, vars, Store!vars
<1>2. CASE Crash \/ BootFails \/ UnhandledRejection
  BY <1>2 DEF Crash, BootFails, UnhandledRejection, Store!vars
<1>3. ASSUME NEW k \in DOMAIN tails, TailError(k) \/ Deliver(k)
      PROVE  UNCHANGED Store!vars
  BY <1>3 DEF TailError, Deliver, Store!vars
<1>4. ASSUME NEW l \in Lines, WriteLine(l) PROVE Store!Next
  BY <1>4 DEF WriteLine, Store!Next, Store!Write
<1>5. ASSUME NEW t \in Tenants, RegisterTenant(t) PROVE Store!Next
  BY <1>5 DEF RegisterTenant, Store!Next, Store!Register
<1>6. CASE EnsureUncategorized \/ EnsureDemo
  BY <1>6, LineAssumption
     DEF EnsureUncategorized, EnsureDemo, Store!Next, Store!Register
<1> QED
  BY <1>1, <1>2, <1>3, <1>4, <1>5, <1>6, JobStepImplements
     DEF Next, Environment, Starting

\* The service keeps the promise of AuditStore: documents are only ever added,
\* one per relevant line, for the named tenant or the uncategorized one.
THEOREM Refinement == Spec => ImplementsStore
<1>1. Init => Store!Init
  BY DEF Init, Store!Init
<1>2. IngestInv /\ [Next]_vars => [Store!Next]_(Store!vars)
  BY StepImplements
<1> QED  BY <1>1, <1>2, IngestInvariant, PTL DEF Spec, ImplementsStore, Store!Spec
-------------------------------------------------------------------------------
(* The ingest with its counter.                                              *)

\* What is proved of the counter, for the callbacks of this composition.
Metering == INSTANCE UsageMeterProofs WITH Callbacks <- 1..MaxLines

\* A callback was handed over by the line handler of its number, whose save was
\* acknowledged and whose tenant it meters.
LinkInv ==
    \A c \in 1..MaxLines :
        callbacks[c].pc # "idle" =>
            /\ c \in DOMAIN jobs
            /\ jobs[c].pc = "tracked" /\ jobs[c].tenant = callbacks[c].tenant

MeteredInv ==
    /\ IngestInv
    /\ Metering!CountInv
    /\ LinkInv
-------------------------------------------------------------------------------
(* The two views of the counter agree.                                      *)

\* The finite sets and sizes of the counter's module are those used here.
LEMMA SameSizes ==
    \A S : /\ Metering!IsFiniteSet(S) <=> IsFiniteSet(S)
           /\ Metering!Cardinality(S) = Cardinality(S)
<1>1. \A S : Metering!IsFiniteSet(S) <=> IsFiniteSet(S)
  BY DEF Metering!IsFiniteSet, IsFiniteSet
<1>2. \A S : Metering!Cardinality(S) = Cardinality(S)
  BY DEF Metering!Cardinality, Cardinality
<1> QED  BY <1>1, <1>2

\* What the counter assumes of its constants holds of the line numbers.
LEMMA MeterConstants ==
    Metering!IsFiniteSet(1..MaxLines) /\ Null \notin Tenants /\ MaxMonth \in Nat
<1>1. IsFiniteSet(1..MaxLines)
  BY BoundAssumption, FS_Interval
<1> QED  BY <1>1, MonthAssumption, LineAssumption, SameSizes

\* The counter IngestMetering composes is the one UsageMeterProofs is about.
LEMMA SameMeter ==
    /\ Meter!Init <=> Metering!Init
    /\ Meter!Next <=> Metering!Next
    /\ Meter!TypeOK <=> Metering!TypeOK
<1>1. Meter!Init <=> Metering!Init
  BY DEF Meter!Init, Metering!Init, Meter!NoUsage, Metering!NoUsage
<1>2. Meter!Next <=> Metering!Next
  BY DEF Meter!Next, Metering!Next, Meter!MonthTurns, Metering!MonthTurns,
     Meter!Stop, Metering!Stop, Meter!Stopped, Metering!Stopped,
     Meter!Schedule, Metering!Schedule, Meter!Reject, Metering!Reject,
     Meter!Step, Metering!Step, Meter!Fetch, Metering!Fetch, Meter!Count, Metering!Count,
     Meter!Save, Metering!Save, Meter!Written, Metering!Written,
     Meter!Holding, Metering!Holding, Meter!Unfinished, Metering!Unfinished
<1>3. Meter!TypeOK <=> Metering!TypeOK
  BY DEF Meter!TypeOK, Metering!TypeOK, Meter!Usage, Metering!Usage,
     Meter!Months, Metering!Months, Meter!Callback, Metering!Callback,
     Meter!Unfinished, Metering!Unfinished
<1> QED  BY <1>1, <1>2, <1>3
-------------------------------------------------------------------------------
(* The steps of the whole.                                                  *)

\* There are never more handlers than lines may be written: each has its own line.
LEMMA HandlersBounded == IngestInv => DOMAIN jobs \subseteq 1..MaxLines
<1> SUFFICES ASSUME IngestInv PROVE Len(jobs) <= MaxLines
  BY Elements, BoundAssumption DEF IngestInv
<1>1. /\ DOMAIN jobs = 1..Len(jobs) /\ Len(jobs) \in Nat /\ MaxLines \in Nat
      /\ \A j \in DOMAIN jobs : jobs[j].line \in 1..MaxLines
  BY Elements, BoundAssumption DEF IngestInv, Job
<1> DEFINE lineOf == [j \in 1..Len(jobs) |-> jobs[j].line]
<1>2. lineOf \in Injection(1..Len(jobs), 1..MaxLines)
  BY <1>1 DEF IngestInv, HandlerInv, Injection, IsInjective
<1>3. IsFiniteSet(1..MaxLines) /\ Cardinality(1..MaxLines) = MaxLines
  BY <1>1, FS_Interval
<1>4. Cardinality(1..Len(jobs)) = Len(jobs)
  BY <1>1, FS_Interval
<1> HIDE DEF lineOf
<1>5. Cardinality(1..Len(jobs)) <= Cardinality(1..MaxLines)
  BY <1>2, <1>3, FS_Injection
<1> QED  BY <1>3, <1>4, <1>5

\* Every step of the whole is a step of audit ingest, or invisible to it.
LEMMA IngestPart == [MeteredNext]_allVars => [Next]_vars
<1> SUFFICES ASSUME [MeteredNext]_allVars PROVE [Next]_vars
  OBVIOUS
<1>1. CASE IngestAlone
  BY <1>1 DEF IngestAlone, Next, Environment, Starting, JobStep
<1>2. CASE StopAll \/ \E c \in 1..MaxLines : CallbackRejects(c)
  BY <1>2 DEF StopAll, CallbackRejects, Next, Environment, Starting
<1>3. CASE \E j \in DOMAIN jobs : HandOver(j)
  BY <1>3 DEF HandOver, Next, JobStep
<1>4. CASE UNCHANGED vars
  BY <1>4
<1> QED  BY <1>1, <1>2, <1>3, <1>4 DEF MeteredNext, allVars

\* A handler past the save has a tenant that can be metered.
LEMMA SavedHasTenant ==
    ASSUME IngestInv, NEW j \in DOMAIN jobs, jobs[j].pc \in {"saved", "tracked"}
    PROVE  /\ jobs[j].tenant \in Tenants
           /\ \E p \in DOMAIN docs : docs[p] = [line |-> jobs[j].line, tenant |-> jobs[j].tenant]
<1>1. PICK p \in DOMAIN docs : docs[p] = [line |-> jobs[j].line, tenant |-> jobs[j].tenant]
  BY DEF IngestInv, TrackedIsStored
<1>2. docs[p] \in Doc
  BY Elements DEF IngestInv
<1> QED  BY <1>1, <1>2 DEF Doc

\* Every step of the whole is a step of the counter, or invisible to it.
LEMMA MeterPart ==
    IngestInv /\ [MeteredNext]_allVars => [Metering!Next]_(Metering!vars)
<1> SUFFICES ASSUME IngestInv, [MeteredNext]_allVars
             PROVE  Meter!Next \/ UNCHANGED meterVars
  BY SameMeter DEF Metering!vars, meterVars
<1>1. CASE MeterAlone \/ StopAll \/ \E c \in 1..MaxLines : CallbackRejects(c)
  BY <1>1 DEF MeterAlone, StopAll, CallbackRejects, Meter!Next
<1>2. ASSUME NEW j \in DOMAIN jobs, HandOver(j) PROVE Meter!Next
  <2>1. j \in 1..MaxLines
    BY HandlersBounded
  <2>2. jobs[j].pc = "saved" /\ Meter!Schedule(j, jobs[j].tenant)
    BY <1>2 DEF HandOver, Track
  <2>3. jobs[j].tenant \in Tenants
    BY <2>2, SavedHasTenant
  <2> QED  BY <2>1, <2>2, <2>3 DEF Meter!Next
<1>3. CASE UNCHANGED meterVars
  BY <1>3
<1> QED  BY <1>1, <1>2, <1>3 DEF MeteredNext, allVars
-------------------------------------------------------------------------------
(* The invariant.                                                           *)

\* The counter's invariant is kept, as UsageMeterProofs shows.
LEMMA CountKept ==
    Metering!CountInv /\ [Metering!Next]_(Metering!vars) => Metering!CountInv'
<1> SUFFICES ASSUME Metering!CountInv, [Metering!Next]_(Metering!vars)
             PROVE  Metering!CountInv'
  OBVIOUS
<1>1. Metering!TypeOK' /\ Metering!ScheduledInv'
  BY Metering!TypeStep, MeterConstants DEF Metering!CountInv
<1>2. Metering!SnapshotInv' /\ Metering!NeverOvercounts'
  BY Metering!CountStep, MeterConstants DEF Metering!CountInv
<1> QED  BY <1>1, <1>2 DEF Metering!CountInv

\* A handler that handed over stays as it is, whatever happens to the process.
LEMMA TrackedStays ==
    ASSUME IngestInv, [Next]_vars, NEW j \in DOMAIN jobs, jobs[j].pc = "tracked"
    PROVE  j \in DOMAIN jobs' /\ jobs'[j].pc = "tracked" /\ jobs'[j].tenant = jobs[j].tenant
<1> USE DEF IngestInv
<1>1. CASE Quiet \/ Retry \/ \E k \in DOMAIN tails : TailError(k)
  BY <1>1 DEF Quiet, Retry, TailError
<1>2. CASE StopStep
  BY <1>2, StopEffect DEF StopStep, Pending
<1>3. ASSUME NEW k \in DOMAIN tails, Deliver(k)
      PROVE  j \in DOMAIN jobs' /\ jobs'[j] = jobs[j]
  BY <1>3, DeliverEffect, Elements
<1>4. ASSUME NEW i \in DOMAIN jobs, JobStep(i)
      PROVE  j \in DOMAIN jobs' /\ jobs'[j] = jobs[j]
  <2>1. i # j
    BY <1>4, JobEffect
  <2> QED  BY <1>4, <2>1, JobEffect
<1> QED  BY <1>1, <1>2, <1>3, <1>4, StepKinds

\* Callbacks appear when their handler hands over, and keep their tenant.
LEMMA LinkStep == MeteredInv /\ [MeteredNext]_allVars => LinkInv'
<1> SUFFICES ASSUME MeteredInv, [MeteredNext]_allVars, NEW c \in 1..MaxLines,
                    callbacks'[c].pc # "idle"
             PROVE  /\ c \in DOMAIN jobs'
                    /\ jobs'[c].pc = "tracked" /\ jobs'[c].tenant = callbacks'[c].tenant
  BY DEF LinkInv
<1>1. ASSUME callbacks[c].pc # "idle", callbacks'[c].tenant = callbacks[c].tenant
      PROVE  /\ c \in DOMAIN jobs'
             /\ jobs'[c].pc = "tracked" /\ jobs'[c].tenant = callbacks'[c].tenant
  <2>1. c \in DOMAIN jobs /\ jobs[c].pc = "tracked" /\ jobs[c].tenant = callbacks[c].tenant
    BY <1>1 DEF MeteredInv, LinkInv
  <2> QED  BY <1>1, <2>1, IngestPart, TrackedStays DEF MeteredInv
<1>2. callbacks \in [1..MaxLines -> Meter!Callback]
  BY SameMeter DEF MeteredInv, Metering!CountInv, Meter!TypeOK
<1>3. CASE UNCHANGED meterVars
  BY <1>1, <1>3 DEF meterVars
<1>4. ASSUME NEW d \in 1..MaxLines, Meter!Step(d)
      PROVE  callbacks[c].pc # "idle" /\ callbacks'[c].tenant = callbacks[c].tenant
  <2>1. /\ \A e \in 1..MaxLines \ {d} : callbacks'[e] = callbacks[e]
        /\ callbacks[d].pc # "idle" /\ callbacks'[d].tenant = callbacks[d].tenant
    <3>1. CASE Meter!Fetch(d)
      BY <1>2, <3>1 DEF Meter!Fetch, Meter!Callback
    <3>2. CASE Meter!Count(d)
      BY <1>2, <3>2 DEF Meter!Count, Meter!Callback
    <3>3. CASE Meter!Save(d)
      BY <1>2, <3>3 DEF Meter!Save, Meter!Callback
    <3> QED  BY <1>4, <3>1, <3>2, <3>3 DEF Meter!Step
  <2> QED  BY <2>1
<1>5. CASE MeterAlone
  BY <1>1, <1>4, <1>5 DEF MeterAlone, Meter!MonthTurns
<1>a. Meter!Stopped[c].pc # "idle" => callbacks[c].pc # "idle"
  BY <1>2 DEF Meter!Stopped, Meter!Callback, Meter!Unfinished
<1>b. Meter!Stopped[c].tenant = callbacks[c].tenant
  BY <1>2 DEF Meter!Stopped, Meter!Callback
<1>6. CASE Meter!Stop
  BY <1>1, <1>6, <1>a, <1>b DEF Meter!Stop
<1>7. ASSUME NEW d \in 1..MaxLines, Meter!Reject(d)
      PROVE  callbacks[c].pc # "idle" /\ callbacks'[c].tenant = callbacks[c].tenant
  <2>1. CASE callbacks' = Meter!Stopped
    BY <1>a, <1>b, <2>1
  <2>2. CASE /\ callbacks[d].pc = "saving"
             /\ callbacks' = [Meter!Stopped EXCEPT ![d] = [callbacks[d] EXCEPT !.pc = "done"]]
    <3>1. CASE c = d
      <4>1. callbacks'[c] = [callbacks[c] EXCEPT !.pc = "done"]
        BY <2>2, <3>1 DEF Meter!Stopped
      <4> QED  BY <1>2, <2>2, <3>1, <4>1 DEF Meter!Callback
    <3>2. CASE c # d
      <4>1. callbacks'[c] = Meter!Stopped[c]
        BY <2>2, <3>2 DEF Meter!Stopped
      <4> QED  BY <1>a, <1>b, <4>1
    <3> QED  BY <3>1, <3>2
  <2> QED  BY <1>7, <2>1, <2>2 DEF Meter!Reject, Meter!Stop
<1>8. ASSUME NEW j \in DOMAIN jobs, HandOver(j)
      PROVE  /\ c \in DOMAIN jobs'
             /\ jobs'[c].pc = "tracked" /\ jobs'[c].tenant = callbacks'[c].tenant
  <2>1. CASE c = j
    <3>1. /\ callbacks'[j].tenant = jobs[j].tenant
          /\ jobs' = [jobs EXCEPT ![j].pc = "tracked"]
      BY <1>2, <1>8, <2>1 DEF HandOver, Track, Meter!Schedule, Meter!Callback
    <3>2. jobs[j] \in Job
      BY Elements DEF MeteredInv, IngestInv
    <3>3. jobs'[j].pc = "tracked" /\ jobs'[j].tenant = jobs[j].tenant /\ j \in DOMAIN jobs'
      BY <3>1, <3>2 DEF Job
    <3> QED  BY <2>1, <3>1, <3>3
  <2>2. CASE c # j
    BY <1>1, <1>2, <1>8, <2>2 DEF HandOver, Meter!Schedule
  <2> QED  BY <2>1, <2>2
<1> QED
  BY <1>1, <1>3, <1>5, <1>6, <1>7, <1>8 DEF MeteredNext, StopAll, CallbackRejects, allVars

\* The invariants of both parts hold of the whole, and so does the link.
LEMMA MeteredInvariant == MeteredSpec => []MeteredInv
<1>1. MeteredInit => MeteredInv
  <2> SUFFICES ASSUME MeteredInit PROVE MeteredInv
    OBVIOUS
  <2>1. IngestInv
    BY IngestInit DEF MeteredInit
  <2>2. Metering!CountInv
    BY SameMeter, MeterConstants, Metering!CountInit DEF MeteredInit
  <2>3. LinkInv
    BY DEF MeteredInit, Meter!Init, LinkInv
  <2> QED  BY <2>1, <2>2, <2>3 DEF MeteredInv
<1>2. MeteredInv /\ [MeteredNext]_allVars => MeteredInv'
  <2> SUFFICES ASSUME MeteredInv, [MeteredNext]_allVars PROVE MeteredInv'
    OBVIOUS
  <2>1. IngestInv'
    BY IngestPart, IngestKept DEF MeteredInv
  <2>2. Metering!CountInv'
    BY MeterPart, CountKept DEF MeteredInv
  <2>3. LinkInv'
    BY LinkStep
  <2> QED  BY <2>1, <2>2, <2>3 DEF MeteredInv
<1> QED  BY <1>1, <1>2, PTL DEF MeteredSpec
-------------------------------------------------------------------------------
\* The updates of a tenant that took effect are no more than its documents: each
\* has one of its own, that of its handler's line.
LEMMA DoneHasDoc ==
    ASSUME MeteredInv, NEW t \in Tenants
    PROVE  /\ IsFiniteSet(DocsOf(t)) /\ Cardinality(DocsOf(t)) \in Nat
           /\ Cardinality(Metering!Done(t)) <= Cardinality(DocsOf(t))
<1>1. IsFiniteSet(DocsOf(t)) /\ Cardinality(DocsOf(t)) \in Nat
  <2>1. DOMAIN docs = 1..Len(docs) /\ Len(docs) \in Nat
    BY Elements DEF MeteredInv, IngestInv
  <2>2. IsFiniteSet(DOMAIN docs) /\ DocsOf(t) \subseteq DOMAIN docs
    BY <2>1, FS_Interval DEF DocsOf
  <2> QED  BY <2>2, FS_Subset, FS_CardinalityType
<1> DEFINE IsDocOf(p, c) == p \in DocsOf(t) /\ docs[p].line = jobs[c].line
           docOf == [c \in Metering!Done(t) |-> CHOOSE p : IsDocOf(p, c)]
<1>2. ASSUME NEW c \in Metering!Done(t)
      PROVE  c \in DOMAIN jobs /\ \E p : IsDocOf(p, c)
  <2>1. c \in DOMAIN jobs /\ jobs[c].pc = "tracked" /\ jobs[c].tenant = t
    BY DEF MeteredInv, LinkInv, Metering!Done
  <2>2. PICK p \in DOMAIN docs : docs[p] = [line |-> jobs[c].line, tenant |-> jobs[c].tenant]
    BY <2>1, SavedHasTenant DEF MeteredInv
  <2> QED  BY <2>1, <2>2 DEF DocsOf
<1>3. \A c \in Metering!Done(t) : IsDocOf(docOf[c], c)
  BY <1>2
<1>4. ASSUME NEW c \in Metering!Done(t), NEW d \in Metering!Done(t), docOf[c] = docOf[d]
      PROVE  c = d
  <2>1. jobs[c].line = jobs[d].line
    BY <1>3, <1>4
  <2> QED  BY <1>2, <2>1 DEF MeteredInv, IngestInv, HandlerInv
<1>5. docOf \in Injection(Metering!Done(t), DocsOf(t))
  <2>1. docOf \in [Metering!Done(t) -> DocsOf(t)]
    BY <1>3
  <2> QED  BY <1>4, <2>1 DEF Injection, IsInjective
<1> HIDE DEF docOf
<1>6. Cardinality(Metering!Done(t)) <= Cardinality(DocsOf(t))
  BY <1>1, <1>5, FS_Injection
<1> QED  BY <1>1, <1>6

\* Nobody pays for a request that has no document: with any number of lines,
\* callbacks that overlap, crashes, restarts and months, a tenant's counter is at
\* most the number of its stored logs.
THEOREM CounterBehindDocs == MeteredSpec => []NeverAheadOfDocs
<1>1. MeteredInv => NeverAheadOfDocs
  <2> SUFFICES ASSUME MeteredInv PROVE NeverAheadOfDocs
    OBVIOUS
  <2>1. TypeOK /\ Meter!TypeOK
    BY SameMeter DEF MeteredInv, IngestInv, Metering!CountInv
  <2>2. ASSUME NEW t \in Tenants
        PROVE  usage[t].requests_this_month <= Cardinality(DocsOf(t))
    <3>1. usage[t].requests_this_month \in Nat
      BY <2>1 DEF Meter!TypeOK, Meter!Usage
    <3>2. usage[t].requests_this_month <= Cardinality(Metering!Done(t))
      BY SameSizes DEF MeteredInv, Metering!CountInv, Metering!NeverOvercounts
    <3>3. Cardinality(Metering!Done(t)) \in Nat
      BY Metering!DoneFinite, MeterConstants, SameSizes
    <3> QED  BY <3>1, <3>2, <3>3, DoneHasDoc
  <2> QED  BY <2>1, <2>2 DEF NeverAheadOfDocs, MeteredTypeOK
<1> QED  BY <1>1, MeteredInvariant, PTL
-------------------------------------------------------------------------------
(* The whole implements both parts, and so keeps what each promises alone.  *)

\* Joined with the counter, audit ingest still does what AuditIngest says: the callbacks
\* take no step of the service, and stop it only as UnhandledRejection allows.
THEOREM WholeIsIngest == MeteredSpec => Spec
<1>1. MeteredInit => Init
  BY DEF MeteredInit
<1> QED  BY <1>1, IngestPart, PTL DEF MeteredSpec, Spec

\* Joined with audit ingest, the counter still does what UsageMeter says, which lets any
\* callback be scheduled once, for any tenant: line handlers hand over no callback twice.
THEOREM WholeIsMeter == MeteredSpec => Meter!Spec
<1>1. MeteredInit => Meter!Init
  BY DEF MeteredInit
<1>2. MeteredInv /\ [MeteredNext]_allVars => [Meter!Next]_(Meter!vars)
  <2> SUFFICES ASSUME MeteredInv, [MeteredNext]_allVars PROVE [Meter!Next]_(Meter!vars)
    OBVIOUS
  <2>1. Metering!Next \/ UNCHANGED Metering!vars
    BY MeterPart DEF MeteredInv
  <2> QED  BY <2>1, SameMeter DEF Meter!vars, Metering!vars
<1> QED  BY <1>1, <1>2, MeteredInvariant, PTL DEF MeteredSpec, Meter!Spec

\* Both together keep the promises of audit ingest: one follower, one document per line,
\* usage tracked for stored documents only, and what AuditStore promises its readers.
THEOREM WholeKeepsPromises ==
    MeteredSpec => [](OneFollower /\ StoredOnce /\ TrackedIsStored) /\ ImplementsStore
BY WholeIsIngest, FollowsOnce, AtMostOneDocument, OnlyStoredIsTracked, Refinement, PTL

\* And the promise of the counter: it is exact for a tenant whose callbacks took turns,
\* across crashes and restarts of the service and the ends of months.
THEOREM WholeCountsExactly == MeteredSpec => []Meter!ExactWhenSerial
<1>1. Meter!Spec => Metering!Spec
  <2>1. [Meter!Next]_(Meter!vars) => [Metering!Next]_(Metering!vars)
    BY SameMeter DEF Meter!vars, Metering!vars
  <2>2. Meter!Init => Metering!Init
    BY SameMeter
  <2> QED  BY <2>1, <2>2, PTL DEF Meter!Spec, Metering!Spec
<1>2. Metering!Spec => []Metering!ExactWhenSerial
  BY Metering!ExactSerial, MeterConstants
<1>3. Metering!ExactWhenSerial <=> Meter!ExactWhenSerial
  <2>1. \A S : Metering!Cardinality(S) = Meter!Cardinality(S)
    BY DEF Metering!Cardinality, Meter!Cardinality
  <2>2. \A t, m : Metering!DoneIn(t, m) = Meter!DoneIn(t, m)
    BY DEF Metering!DoneIn, Meter!DoneIn, Metering!Done, Meter!Done
  <2> QED  BY <2>1, <2>2 DEF Metering!ExactWhenSerial, Meter!ExactWhenSerial
<1> QED  BY <1>1, <1>2, <1>3, WholeIsMeter, PTL
===============================================================================
