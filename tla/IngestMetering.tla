---------------------------- MODULE IngestMetering ----------------------------
(***************************************************************************)
(* Audit ingest and the usage counter together, as persistEntry joins      *)
(* them: the acknowledged save of line handler j schedules usage callback  *)
(* j, both run in one process, and a rejected database call of a callback  *)
(* stops that process, line handlers and tail included.                    *)
(***************************************************************************)
EXTENDS AuditIngest

CONSTANT MaxMonth   \* bound: the last month

ASSUME MonthAssumption == MaxMonth \in Nat

VARIABLES usage, month, callbacks, overlapped

Meter == INSTANCE UsageMeter WITH Callbacks <- 1..MaxLines

meterVars == <<usage, month, callbacks, overlapped>>
allVars == <<vars, meterVars>>

MeteredInit == Init /\ Meter!Init

\* Mutants of HandOver: the tenant the header names is metered; logs of the
\* uncategorized tenant are not metered.
HandOverHeader(j) == Track(j) /\ Meter!Schedule(j, Header(j))
HandOverCustomers(j) ==
    /\ Track(j)
    /\ IF jobs[j].tenant = Uncategorized THEN UNCHANGED meterVars
       ELSE Meter!Schedule(j, jobs[j].tenant)

\* The two steps that belong to both: a handler hands over to its callback, and
\* a stop of the process takes the callbacks along.
HandOver(j) == Track(j) /\ Meter!Schedule(j, jobs[j].tenant)
StopAll == (Crash \/ BootFails) /\ Meter!Stop

\* A callback's database call rejects: the process stops from within.
CallbackRejects(c) == UnhandledRejection /\ Meter!Reject(c)

\* Steps of line handlers and tail that the callbacks take no part in.
IngestAlone ==
    \/ FileAppears \/ Boot \/ RetryTimer \/ EnsureUncategorized \/ EnsureDemo
    \/ \E l \in Lines : WriteLine(l)
    \/ \E t \in Tenants : RegisterTenant(t)
    \/ \E k \in DOMAIN tails : TailError(k) \/ Deliver(k)
    \/ \E j \in DOMAIN jobs : Resolve(j) \/ ResolveFails(j) \/ Save(j) \/ SaveFails(j)

MeterAlone ==
    \/ Meter!MonthTurns
    \/ \E c \in 1..MaxLines : Meter!Step(c)

MeteredNext ==
    \/ IngestAlone /\ UNCHANGED meterVars
    \/ MeterAlone /\ UNCHANGED vars
    \/ StopAll
    \/ \E j \in DOMAIN jobs : HandOver(j)
    \/ \E c \in 1..MaxLines : CallbackRejects(c)

MeteredSpec == MeteredInit /\ [][MeteredNext]_allVars

\* The process starts and its timers fire, tails deliver, and handlers and callbacks go
\* on: database calls are answered.
MeteredFairSpec ==
    /\ MeteredSpec
    /\ WF_allVars((EnsureUncategorized \/ EnsureDemo) /\ UNCHANGED meterVars)
    /\ WF_allVars(RetryTimer /\ UNCHANGED meterVars)
    /\ WF_allVars((\E k \in DOMAIN tails : Deliver(k)) /\ UNCHANGED meterVars)
    /\ \A j \in 1..MaxLines :
         /\ WF_allVars(j \in DOMAIN jobs /\ (\/ Resolve(j) /\ UNCHANGED meterVars
                                             \/ Save(j) /\ UNCHANGED meterVars
                                             \/ HandOver(j)))
         /\ WF_allVars(Meter!Step(j) /\ UNCHANGED vars)
-------------------------------------------------------------------------------
MeteredTypeOK == TypeOK /\ Meter!TypeOK

DocsOf(t) == {p \in DOMAIN docs : docs[p].tenant = t}

\* The counter of a tenant never runs ahead of its stored logs, however lines,
\* callbacks, crashes and restarts interleave: nobody pays for a request that
\* has no document (persistEntry counts after the save).  (With the types of both.)
NeverAheadOfDocs ==
    /\ MeteredTypeOK
    /\ \A t \in Tenants : usage[t].requests_this_month <= Cardinality(DocsOf(t))

\* A stored and acknowledged log is metered, or its update is lost with the
\* process.
StoredIsMetered ==
    \A j \in 1..MaxLines :
        (j \in DOMAIN jobs /\ jobs[j].pc = "saved")
          ~> ((j \in DOMAIN jobs /\ jobs[j].pc = "lost") \/ callbacks[j].pc \in {"done", "lost"})
===============================================================================
