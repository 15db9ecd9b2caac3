------------------------------ MODULE UsageMeter ------------------------------
(***************************************************************************)
(* The monthly request counter of a tenant, as the ingest counts it:       *)
(* persistEntry schedules one callback per stored log.  (trackRequest of   *)
(* the tenant service, which has no caller, is not modelled: it takes the  *)
(* time before it reads the tenant, and not after, as the callback does;   *)
(* nor is an update of the tenant whose request body names usage.)         *)
(*                                                                         *)
(* A callback reads the tenant document (findById), works on its snapshot  *)
(* and saves.  mongoose's save sends the fields the callback assigned as   *)
(* absolute values, and no version guards them, so callbacks of one tenant *)
(* that overlap overwrite one another.  A rejected call is caught by       *)
(* nobody: the try around setImmediate has returned long since, and the    *)
(* process dies of the unhandled rejection with every callback in flight.  *)
(***************************************************************************)
EXTENDS Naturals, FiniteSets

CONSTANTS
    Tenants,    \* the tenants metered; no code removes a tenant
    Callbacks,  \* the usage updates ever scheduled
    Null,       \* the tenant of a callback not scheduled yet
    MaxMonth    \* bound: the last month

ASSUME MeterAssumption ==
    IsFiniteSet(Callbacks) /\ Null \notin Tenants /\ MaxMonth \in Nat

VARIABLES
    usage,      \* the usage subdocument of each tenant document
    month,      \* the month of the wall clock
    callbacks,  \* each callback's progress, its snapshot and what it assigned
    overlapped  \* history: tenants two of whose callbacks have overlapped

vars == <<usage, month, callbacks, overlapped>>

Months == 0..MaxMonth
Usage == [requests_this_month : Nat, last_reset : Months]

\* scheduled: findById is to be served.  fetched: the snapshot is on its way.
\* saving: the update is to be served.  done: it took effect.
Unfinished == {"scheduled", "fetched", "saving"}
Callback == [pc : {"idle", "done", "lost"} \cup Unfinished,
             tenant : Tenants \cup {Null}, usage : Usage, reset : BOOLEAN, now : Months]

TypeOK ==
    /\ usage \in [Tenants -> Usage]
    /\ month \in Months
    /\ callbacks \in [Callbacks -> Callback]
    /\ overlapped \in SUBSET Tenants

NoUsage == [requests_this_month |-> 0, last_reset |-> 0]

Init ==
    /\ usage = [t \in Tenants |-> NoUsage]
    /\ month = 0
    /\ callbacks = [c \in Callbacks |-> [pc |-> "idle", tenant |-> Null,
                       usage |-> NoUsage, reset |-> FALSE, now |-> 0]]
    /\ overlapped = {}

MonthTurns ==
    /\ month < MaxMonth
    /\ month' = month + 1
    /\ UNCHANGED <<usage, callbacks, overlapped>>

\* setImmediate in persistEntry, after a log of tenant t was saved.
Schedule(c, t) ==
    /\ callbacks[c].pc = "idle"
    /\ callbacks' = [callbacks EXCEPT ![c] = [@ EXCEPT !.pc = "scheduled", !.tenant = t]]
    /\ UNCHANGED <<usage, month, overlapped>>

\* Callbacks of t that hold a snapshot not written back yet.
Holding(t) == {c \in Callbacks : callbacks[c].tenant = t
                                 /\ callbacks[c].pc \in {"fetched", "saving"}}

\* The database serves findById.
Fetch(c) ==
    LET t == callbacks[c].tenant
    IN  /\ callbacks[c].pc = "scheduled"
        /\ callbacks' = [callbacks EXCEPT ![c] = [@ EXCEPT !.pc = "fetched", !.usage = usage[t]]]
        /\ overlapped' = IF Holding(t) = {} THEN overlapped ELSE overlapped \cup {t}
        /\ UNCHANGED <<usage, month>>

\* Mutant of Count: a request is counted twice.
CountTwice(c) ==
    LET snapshot == callbacks[c].usage
        reset == month # snapshot.last_reset
    IN  /\ callbacks[c].pc = "fetched"
        /\ callbacks' = [callbacks EXCEPT ![c] =
              [@ EXCEPT !.pc = "saving", !.now = month, !.reset = reset,
                        !.usage = [snapshot EXCEPT !.requests_this_month =
                                     IF reset THEN 2 ELSE @ + 2]]]
        /\ UNCHANGED <<usage, month, overlapped>>

\* Mutant of Count: a new month sets last_reset but not the counter.
CountOn(c) ==
    LET snapshot == callbacks[c].usage
    IN  /\ callbacks[c].pc = "fetched"
        /\ callbacks' = [callbacks EXCEPT ![c] =
              [@ EXCEPT !.pc = "saving", !.now = month,
                        !.reset = (month # snapshot.last_reset),
                        !.usage = [snapshot EXCEPT !.requests_this_month = @ + 1]]]
        /\ UNCHANGED <<usage, month, overlapped>>

\* Mutant of Count: the branch of a new month never saves.
CountWithinMonth(c) ==
    LET snapshot == callbacks[c].usage
    IN  /\ callbacks[c].pc = "fetched" /\ month = snapshot.last_reset
        /\ callbacks' = [callbacks EXCEPT ![c] =
              [@ EXCEPT !.pc = "saving", !.now = month, !.reset = FALSE,
                        !.usage = [snapshot EXCEPT !.requests_this_month = @ + 1]]]
        /\ UNCHANGED <<usage, month, overlapped>>

\* The body of the callback between its awaits: reset in a new month, add one.
Count(c) ==
    LET snapshot == callbacks[c].usage
        reset == month # snapshot.last_reset
        requests == IF reset THEN 1 ELSE snapshot.requests_this_month + 1
    IN  /\ callbacks[c].pc = "fetched"
        /\ callbacks' = [callbacks EXCEPT ![c] =
              [@ EXCEPT !.pc = "saving", !.now = month, !.reset = reset,
                        !.usage = [snapshot EXCEPT !.requests_this_month = requests]]]
        /\ UNCHANGED <<usage, month, overlapped>>

\* The document after the save of c: last_reset is sent only if it was assigned.
Written(c) ==
    LET cb == callbacks[c]
    IN  [usage EXCEPT ![cb.tenant] =
           [requests_this_month |-> cb.usage.requests_this_month,
            last_reset |-> IF cb.reset THEN cb.now ELSE @.last_reset]]

Save(c) ==
    /\ callbacks[c].pc = "saving"
    /\ usage' = Written(c)
    /\ callbacks' = [callbacks EXCEPT ![c].pc = "done"]
    /\ UNCHANGED <<month, overlapped>>

\* What a stop of the process leaves of the callbacks.
Stopped == [c \in Callbacks |-> IF callbacks[c].pc \in Unfinished
                                THEN [callbacks[c] EXCEPT !.pc = "lost"]
                                ELSE callbacks[c]]

Stop ==
    /\ callbacks' = Stopped
    /\ UNCHANGED <<usage, month, overlapped>>

\* A database call of c rejects, and nobody catches it.  A save may have taken
\* effect all the same.
Reject(c) ==
    \/ callbacks[c].pc \in {"scheduled", "saving"} /\ Stop
    \/ /\ callbacks[c].pc = "saving"
       /\ usage' = Written(c)
       /\ callbacks' = [Stopped EXCEPT ![c] = [callbacks[c] EXCEPT !.pc = "done"]]
       /\ UNCHANGED <<month, overlapped>>

Step(c) == Fetch(c) \/ Count(c) \/ Save(c)

Next ==
    \/ MonthTurns
    \/ Stop
    \/ \E c \in Callbacks, t \in Tenants : Schedule(c, t)
    \/ \E c \in Callbacks : Step(c) \/ Reject(c)

Spec == Init /\ [][Next]_vars

\* The driver answers and the event loop runs the continuation.
FairSpec == Spec /\ \A c \in Callbacks : WF_vars(Step(c))
-------------------------------------------------------------------------------
Done(t) == {c \in Callbacks : callbacks[c].tenant = t /\ callbacks[c].pc = "done"}
DoneIn(t, m) == {c \in Done(t) : callbacks[c].now = m}

\* A tenant is never charged a request nobody made: however callbacks overlap,
\* fail or straddle a month, the counter is at most the updates that took effect.
NeverOvercounts ==
    \A t \in Tenants : usage[t].requests_this_month <= Cardinality(Done(t))

\* If no two callbacks of the ingest for a tenant ever overlapped, the counter is exact
\* for the month it was last reset in, across month ends and stops of the process.
ExactWhenSerial ==
    \A t \in Tenants \ overlapped :
        usage[t].requests_this_month = Cardinality(DoneIn(t, usage[t].last_reset))

\* Every update that took effect is counted, within one month
\* (audit-ingest.service.ts:195: "track the tenant's usage when a log is created").
EveryRequestCounted ==
    month = 0 => \A t \in Tenants : usage[t].requests_this_month = Cardinality(Done(t))

\* A scheduled update takes effect or is lost with the process; none hangs.
EventuallyMetered ==
    \A c \in Callbacks : callbacks[c].pc = "scheduled" ~> callbacks[c].pc \in {"done", "lost"}
===============================================================================
