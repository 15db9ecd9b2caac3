--------------------------- MODULE UsageMeterProofs ---------------------------
(***************************************************************************)
(* What the usage counter guarantees for any tenants, callbacks and        *)
(* months: it never overcounts, and it is exact for a tenant whose         *)
(* callbacks never overlapped.                                             *)
(***************************************************************************)
EXTENDS UsageMeter, TLAPS, FiniteSetTheorems

\* Whoever has been scheduled has a tenant.
ScheduledInv ==
    \A c \in Callbacks : callbacks[c].pc # "idle" => callbacks[c].tenant \in Tenants

\* A snapshot is never ahead of the updates that took effect, and what a
\* callback is about to write is ahead by its own request at most.
SnapshotInv ==
    \A c \in Callbacks :
        LET cb == callbacks[c]
        IN  /\ cb.pc = "fetched" =>
                 cb.usage.requests_this_month <= Cardinality(Done(cb.tenant))
            /\ cb.pc = "saving" =>
                 cb.usage.requests_this_month <= Cardinality(Done(cb.tenant)) + 1

CountInv ==
    /\ TypeOK
    /\ ScheduledInv
    /\ SnapshotInv
    /\ NeverOvercounts

\* What callback c of t holds is current, and what it will write is the next
\* count: one more, or one in a month later than any counted so far.
Current(t, c) ==
    LET cb == callbacks[c]
        requests == cb.usage.requests_this_month
    IN  /\ cb.pc = "fetched" => cb.usage = usage[t]
        /\ cb.pc = "saving" /\ cb.reset =>
             cb.now > usage[t].last_reset /\ cb.now <= month /\ requests = 1
        /\ cb.pc = "saving" /\ ~cb.reset =>
             cb.now = usage[t].last_reset /\ requests = usage[t].requests_this_month + 1

\* As long as the callbacks of t take turns, at most one of them holds a snapshot,
\* the snapshot is current, and no update is counted for a month to come.
TakesTurns(t) ==
    /\ usage[t].requests_this_month = Cardinality(DoneIn(t, usage[t].last_reset))
    /\ usage[t].last_reset <= month
    /\ \A c \in Done(t) : callbacks[c].now <= usage[t].last_reset
    /\ \A c, d \in Holding(t) : c = d
    /\ \A c \in Holding(t) : Current(t, c)

SerialInv == \A t \in Tenants \ overlapped : TakesTurns(t)
-------------------------------------------------------------------------------
\* Every step keeps the types; one step of the proof per action.
LEMMA TypeStep == TypeOK /\ ScheduledInv /\ [Next]_vars => TypeOK' /\ ScheduledInv'
<1> SUFFICES ASSUME TypeOK, ScheduledInv, [Next]_vars
             PROVE  TypeOK' /\ ScheduledInv'
  OBVIOUS
<1> USE MeterAssumption DEF TypeOK, ScheduledInv
<1>1. CASE MonthTurns
  BY <1>1 DEF MonthTurns, Months
<1>2. CASE Stop
  <2>1. Stopped \in [Callbacks -> Callback]
    BY DEF Stopped, Callback
  <2> QED  BY <1>2, <2>1 DEF Stop, Stopped, Callback, Unfinished
<1>3. ASSUME NEW c \in Callbacks, NEW t \in Tenants, Schedule(c, t)
      PROVE  TypeOK' /\ ScheduledInv'
  BY <1>3 DEF Schedule, Callback, Unfinished
<1>4. ASSUME NEW c \in Callbacks, Fetch(c) PROVE TypeOK' /\ ScheduledInv'
  <2>1. callbacks[c].tenant \in Tenants /\ usage[callbacks[c].tenant] \in Usage
    BY <1>4 DEF Fetch
  <2> QED  BY <1>4, <2>1 DEF Fetch, Callback, Unfinished
<1>5. ASSUME NEW c \in Callbacks, Count(c) PROVE TypeOK' /\ ScheduledInv'
  <2>1. callbacks[c].usage \in Usage /\ month \in Months
    BY DEF Callback
  <2>2. \A n \in Nat : [callbacks[c].usage EXCEPT !.requests_this_month = n] \in Usage
    BY <2>1 DEF Usage
  <2>3. (IF month # callbacks[c].usage.last_reset THEN 1
         ELSE callbacks[c].usage.requests_this_month + 1) \in Nat
    BY <2>1 DEF Usage
  <2> QED  BY <1>5, <2>1, <2>2, <2>3 DEF Count, Callback, Unfinished
<1>6. ASSUME NEW c \in Callbacks, callbacks[c].pc = "saving"
      PROVE  Written(c) \in [Tenants -> Usage]
  BY <1>6 DEF Written, Callback, Usage
<1>7. ASSUME NEW c \in Callbacks, Save(c) PROVE TypeOK' /\ ScheduledInv'
  BY <1>6, <1>7 DEF Save, Callback
<1>8. ASSUME NEW c \in Callbacks, Reject(c) PROVE TypeOK' /\ ScheduledInv'
  <2>1. CASE Stop
    BY <1>2, <2>1
  <2>2. CASE /\ callbacks[c].pc = "saving" /\ usage' = Written(c)
             /\ callbacks' = [Stopped EXCEPT ![c] = [callbacks[c] EXCEPT !.pc = "done"]]
             /\ UNCHANGED <<month, overlapped>>
    <3>1. Stopped \in [Callbacks -> Callback]
      BY DEF Stopped, Callback
    <3>2. callbacks' \in [Callbacks -> Callback]
      BY <2>2, <3>1 DEF Callback
    <3> QED  BY <1>6, <2>2, <3>2 DEF Stopped, Callback, Unfinished
  <2> QED  BY <1>8, <2>1, <2>2 DEF Reject
<1>9. CASE UNCHANGED vars
  BY <1>9 DEF vars
<1> QED  BY <1>1, <1>2, <1>3, <1>4, <1>5, <1>7, <1>8, <1>9 DEF Next, Step

\* Type correctness of the counter, for every instance.
THEOREM MeterTypeCorrect == Spec => []TypeOK
<1>1. Init => TypeOK /\ ScheduledInv
  BY MeterAssumption
     DEF Init, TypeOK, ScheduledInv, NoUsage, Usage, Callback, Months
<1> QED  BY <1>1, TypeStep, PTL DEF Spec
-------------------------------------------------------------------------------
(* What the steps do to the counter.                                        *)

\* Done and its part of one month are finite, so their sizes are naturals.
LEMMA DoneFinite ==
    \A t, m : /\ IsFiniteSet(Done(t)) /\ Cardinality(Done(t)) \in Nat
             /\ IsFiniteSet(DoneIn(t, m)) /\ Cardinality(DoneIn(t, m)) \in Nat
<1> SUFFICES ASSUME NEW t, NEW m
             PROVE  /\ IsFiniteSet(Done(t)) /\ Cardinality(Done(t)) \in Nat
                    /\ IsFiniteSet(DoneIn(t, m)) /\ Cardinality(DoneIn(t, m)) \in Nat
  OBVIOUS
<1>1. IsFiniteSet(Done(t))
  BY MeterAssumption, FS_Subset DEF Done
<1>2. IsFiniteSet(DoneIn(t, m))
  BY <1>1, FS_Subset DEF DoneIn
<1> QED  BY <1>1, <1>2, FS_CardinalityType

\* The steps that neither read nor write a tenant document: callbacks appear or
\* are lost, the month turns.
Aside ==
    /\ UNCHANGED <<usage, overlapped>>
    /\ month' \in {month, month + 1}
    /\ \A c \in Callbacks :
         \/ callbacks'[c] = callbacks[c]
         \/ callbacks[c].pc # "done" /\ callbacks'[c].pc \in {"scheduled", "lost"}

\* The update of c takes effect; the process may stop with it.
Takes(c) ==
    /\ callbacks[c].pc = "saving"
    /\ usage' = Written(c)
    /\ callbacks'[c] = [callbacks[c] EXCEPT !.pc = "done"]
    /\ \A d \in Callbacks \ {c} :
         \/ callbacks'[d] = callbacks[d]
         \/ callbacks[d].pc # "done" /\ callbacks'[d].pc = "lost"
    /\ UNCHANGED <<month, overlapped>>

\* Every step is of one of these four kinds.
LEMMA StepKinds ==
    ASSUME TypeOK, [Next]_vars
    PROVE  Aside \/ \E c \in Callbacks : Fetch(c) \/ Count(c) \/ Takes(c)
<1>1. ASSUME NEW c \in Callbacks, Save(c) PROVE Takes(c)
  BY <1>1 DEF Save, Takes, TypeOK
<1>2. CASE Stop
  BY <1>2 DEF Stop, Stopped, Aside, Unfinished, TypeOK, Callback
<1>3. ASSUME NEW c \in Callbacks, Reject(c) PROVE Stop \/ Takes(c)
  <2>1. CASE /\ callbacks[c].pc = "saving" /\ usage' = Written(c)
             /\ callbacks' = [Stopped EXCEPT ![c] = [callbacks[c] EXCEPT !.pc = "done"]]
             /\ UNCHANGED <<month, overlapped>>
    <3>1. /\ callbacks'[c] = [callbacks[c] EXCEPT !.pc = "done"]
          /\ \A d \in Callbacks \ {c} : callbacks'[d] = Stopped[d]
      BY <2>1 DEF Stopped
    <3>2. \A d \in Callbacks :
            \/ Stopped[d] = callbacks[d]
            \/ callbacks[d].pc # "done" /\ Stopped[d].pc = "lost"
      BY DEF Stopped, Unfinished, TypeOK, Callback
    <3> QED  BY <2>1, <3>1, <3>2 DEF Takes
  <2> QED  BY <1>3, <2>1 DEF Reject
<1>4. ASSUME NEW c \in Callbacks, NEW t \in Tenants, Schedule(c, t) PROVE Aside
  BY <1>4 DEF Schedule, Aside, TypeOK, Callback
<1>5. CASE MonthTurns \/ UNCHANGED vars
  BY <1>5 DEF MonthTurns, Aside, vars
<1> QED  BY <1>1, <1>2, <1>3, <1>4, <1>5 DEF Next, Step

\* Only an update that takes effect changes what is done.
LEMMA DoneUnchanged ==
    ASSUME TypeOK, Aside \/ \E c \in Callbacks : Fetch(c) \/ Count(c)
    PROVE  /\ \A t : Done(t)' = Done(t)
           /\ \A c \in Callbacks : callbacks[c].pc = "done" => callbacks'[c] = callbacks[c]
<1>1. \A c \in Callbacks :
        \/ callbacks'[c] = callbacks[c]
        \/ callbacks[c].pc # "done" /\ callbacks'[c].pc # "done"
  BY DEF Aside, Fetch, Count, TypeOK, Callback
<1> QED  BY <1>1 DEF Done

\* It adds itself to the updates of its tenant.
LEMMA DoneGrows ==
    ASSUME TypeOK, NEW c \in Callbacks, Takes(c), NEW t, t = callbacks[c].tenant
    PROVE  /\ \A u : u # t => Done(u)' = Done(u)
           /\ Done(t)' = Done(t) \cup {c}
           /\ Cardinality(Done(t)') = Cardinality(Done(t)) + 1
<1>1. /\ \A u : u # t => Done(u)' = Done(u)
      /\ Done(t)' = Done(t) \cup {c} /\ c \notin Done(t)
  BY DEF Takes, Done, TypeOK, Callback
<1>2. Cardinality(Done(t) \cup {c}) = Cardinality(Done(t)) + 1
  BY <1>1, DoneFinite, FS_AddElement
<1> QED  BY <1>1, <1>2
-------------------------------------------------------------------------------
(* The counter never overcounts.                                            *)

LEMMA CountStep ==
    ASSUME TypeOK, ScheduledInv, SnapshotInv, NeverOvercounts, [Next]_vars
    PROVE  SnapshotInv' /\ NeverOvercounts'
<1>a. /\ \A t \in Tenants : usage[t].requests_this_month \in Nat
      /\ \A c \in Callbacks : callbacks[c].usage.requests_this_month \in Nat
      /\ \A t : Cardinality(Done(t)) \in Nat
  BY DoneFinite DEF TypeOK, Usage, Callback
<1>1. ASSUME Aside PROVE SnapshotInv' /\ NeverOvercounts'
  <2>1. \A t : Done(t)' = Done(t)
    BY <1>1, DoneUnchanged
  <2>2. NeverOvercounts'
    BY <1>1, <2>1 DEF Aside, NeverOvercounts
  <2>3. \A c \in Callbacks : \/ callbacks'[c] = callbacks[c]
                             \/ callbacks'[c].pc \notin {"fetched", "saving"}
    BY <1>1 DEF Aside
  <2> QED  BY <2>1, <2>2, <2>3 DEF SnapshotInv
<1>2. ASSUME NEW c \in Callbacks, Fetch(c) PROVE SnapshotInv' /\ NeverOvercounts'
  <2>1. \A t : Done(t)' = Done(t)
    BY <1>2, DoneUnchanged
  <2>2. NeverOvercounts'
    BY <1>2, <2>1 DEF Fetch, NeverOvercounts
  <2>3. /\ \A d \in Callbacks \ {c} : callbacks'[d] = callbacks[d]
        /\ callbacks'[c].pc = "fetched" /\ callbacks'[c].tenant = callbacks[c].tenant
        /\ callbacks'[c].usage = usage[callbacks[c].tenant]
    BY <1>2 DEF Fetch, TypeOK, Callback
  <2>4. callbacks[c].tenant \in Tenants
    BY <1>2 DEF Fetch, ScheduledInv
  <2> QED  BY <2>1, <2>2, <2>3, <2>4 DEF SnapshotInv, NeverOvercounts
<1>3. ASSUME NEW c \in Callbacks, Count(c) PROVE SnapshotInv' /\ NeverOvercounts'
  <2>1. \A t : Done(t)' = Done(t)
    BY <1>3, DoneUnchanged
  <2>2. NeverOvercounts'
    BY <1>3, <2>1 DEF Count, NeverOvercounts
  <2>3. /\ \A d \in Callbacks \ {c} : callbacks'[d] = callbacks[d]
        /\ callbacks'[c].pc = "saving" /\ callbacks'[c].tenant = callbacks[c].tenant
        /\ callbacks'[c].usage.requests_this_month
             \in {1, callbacks[c].usage.requests_this_month + 1}
    BY <1>3 DEF Count, TypeOK, Callback, Usage
  <2>4. callbacks[c].usage.requests_this_month <= Cardinality(Done(callbacks[c].tenant))
    BY <1>3 DEF Count, SnapshotInv
  <2>5. callbacks'[c].usage.requests_this_month <= Cardinality(Done(callbacks[c].tenant)) + 1
    BY <1>a, <2>3, <2>4
  <2> QED  BY <2>1, <2>2, <2>3, <2>5 DEF SnapshotInv
<1>4. ASSUME NEW c \in Callbacks, Takes(c) PROVE SnapshotInv' /\ NeverOvercounts'
  <2>1. PICK t \in Tenants : t = callbacks[c].tenant
    BY <1>4 DEF Takes, ScheduledInv
  <2>2. /\ \A u : u # t => Done(u)' = Done(u)
        /\ Cardinality(Done(t)') = Cardinality(Done(t)) + 1
    BY <1>4, <2>1, DoneGrows
  <2>3. /\ usage'[t].requests_this_month = callbacks[c].usage.requests_this_month
        /\ \A u \in Tenants \ {t} : usage'[u] = usage[u]
    BY <1>4, <2>1 DEF Takes, Written, TypeOK
  <2>4. callbacks[c].usage.requests_this_month <= Cardinality(Done(t)) + 1
    BY <1>4, <2>1 DEF Takes, SnapshotInv
  <2>5. NeverOvercounts'
    <3>1. \A u \in Tenants : usage'[u].requests_this_month <= Cardinality(Done(u)')
      BY <2>2, <2>3, <2>4 DEF NeverOvercounts
    <3> QED  BY <3>1 DEF NeverOvercounts
  <2>6. \A d \in Callbacks : \/ callbacks'[d] = callbacks[d]
                             \/ callbacks'[d].pc \notin {"fetched", "saving"}
    BY <1>4 DEF Takes, TypeOK, Callback
  <2>7. \A u : /\ Cardinality(Done(u)') \in Nat
               /\ Cardinality(Done(u)') >= Cardinality(Done(u))
    BY <1>a, <2>2
  <2>8. ASSUME NEW d \in Callbacks, callbacks'[d] = callbacks[d],
               NEW u, u = callbacks[d].tenant, NEW n \in {0, 1},
               callbacks[d].usage.requests_this_month <= Cardinality(Done(u)) + n
        PROVE  callbacks'[d].usage.requests_this_month <= Cardinality(Done(u)') + n
    BY <1>a, <2>7, <2>8
  <2>9. SnapshotInv'
    <3> SUFFICES ASSUME NEW d \in Callbacks, NEW u, u = callbacks'[d].tenant
                 PROVE  /\ callbacks'[d].pc = "fetched" =>
                             callbacks'[d].usage.requests_this_month <= Cardinality(Done(u)')
                        /\ callbacks'[d].pc = "saving" =>
                             callbacks'[d].usage.requests_this_month <= Cardinality(Done(u)') + 1
      BY DEF SnapshotInv
    <3>1. CASE callbacks'[d] = callbacks[d]
      <4>1. callbacks[d].pc = "fetched" =>
              callbacks'[d].usage.requests_this_month <= Cardinality(Done(u)') + 0
        BY <1>a, <2>8, <3>1 DEF SnapshotInv
      <4>2. callbacks[d].pc = "saving" =>
              callbacks'[d].usage.requests_this_month <= Cardinality(Done(u)') + 1
        BY <2>8, <3>1 DEF SnapshotInv
      <4> QED  BY <2>7, <3>1, <4>1, <4>2
    <3>2. CASE callbacks'[d].pc \notin {"fetched", "saving"}
      BY <3>2
    <3> QED  BY <2>6, <3>1, <3>2
  <2> QED  BY <2>5, <2>9
<1> QED  BY <1>1, <1>2, <1>3, <1>4, StepKinds

\* The counter starts in the invariant.
LEMMA CountInit == Init => CountInv
<1> SUFFICES ASSUME Init PROVE CountInv
  OBVIOUS
<1>1. TypeOK /\ ScheduledInv
  BY MeterAssumption
     DEF Init, TypeOK, ScheduledInv, NoUsage, Usage, Callback, Months
<1>2. \A t \in Tenants : usage[t].requests_this_month = 0 /\ Cardinality(Done(t)) \in Nat
  BY DoneFinite DEF Init, NoUsage
<1>3. SnapshotInv
  BY DEF Init, SnapshotInv
<1>4. NeverOvercounts
  BY <1>2 DEF NeverOvercounts
<1> QED  BY <1>1, <1>3, <1>4 DEF CountInv

\* The counter of a tenant is at most the number of the ingest's updates that took
\* effect, for any number of overlapping callbacks, failures and months.
THEOREM NoOvercount == Spec => []NeverOvercounts
<1>1. CountInv /\ [Next]_vars => CountInv'
  BY TypeStep, CountStep DEF CountInv
<1>2. CountInv => NeverOvercounts
  BY DEF CountInv
<1> QED  BY CountInit, <1>1, <1>2, PTL DEF Spec
-------------------------------------------------------------------------------
(* Callbacks that take turns count exactly.                                 *)

\* What a step does to TakesTurns(t) when it leaves the document of t and the
\* finished updates alone, and makes no callback of t hold a snapshot.
LEMMA TurnKept ==
    ASSUME NEW t \in Tenants, TypeOK, TakesTurns(t),
           usage'[t] = usage[t], month' \in {month, month + 1},
           Done(t)' = Done(t),
           \A c \in Done(t) : callbacks'[c] = callbacks[c],
           \A c \in Holding(t)' : c \in Holding(t) /\ callbacks'[c] = callbacks[c]
    PROVE  TakesTurns(t)'
<1>1. month \in Nat /\ month <= month' /\ usage[t].last_reset \in Nat
  BY DEF TypeOK, Months, Usage
<1>2. \A m : DoneIn(t, m)' = DoneIn(t, m)
  <2> SUFFICES ASSUME NEW m PROVE DoneIn(t, m)' = DoneIn(t, m)
    OBVIOUS
  <2> QED  BY DEF DoneIn
<1>3. PICK m : m = usage[t].last_reset
  OBVIOUS
<1>4. usage'[t].requests_this_month = Cardinality(DoneIn(t, usage[t].last_reset)')
  <2>1. usage[t].requests_this_month = Cardinality(DoneIn(t, m))
    BY <1>3 DEF TakesTurns
  <2>2. usage'[t].requests_this_month = Cardinality(DoneIn(t, m)')
    BY <1>2, <2>1
  <2>3. m = usage'[t].last_reset
    BY <1>3
  <2> QED  BY <2>2, <2>3 DEF DoneIn
<1>5. /\ usage'[t].last_reset <= month'
      /\ \A c \in Done(t)' : callbacks'[c].now <= usage'[t].last_reset
      /\ \A c, d \in Holding(t)' : c = d
  BY <1>1 DEF TakesTurns
<1>6. ASSUME NEW c \in Holding(t)' PROVE Current(t, c)'
  <2>1. c \in Holding(t) /\ callbacks'[c] = callbacks[c] /\ callbacks[c].now \in Nat
    BY <1>6 DEF TypeOK, Callback, Months, Holding
  <2>2. Current(t, c)
    BY <2>1 DEF TakesTurns
  <2>3. callbacks[c].now <= month => callbacks[c].now <= month'
    BY <1>1, <2>1
  <2> QED  BY <2>1, <2>2, <2>3 DEF Current
<1> QED  BY <1>4, <1>5, <1>6 DEF TakesTurns

\* The same when the only callback of t to hold a snapshot afterwards is current.
LEMMA TurnHeld ==
    ASSUME NEW t \in Tenants, TypeOK, TakesTurns(t),
           usage'[t] = usage[t], month' = month,
           Done(t)' = Done(t),
           \A c \in Done(t) : callbacks'[c] = callbacks[c],
           NEW c, \A d \in Holding(t)' : d = c, Current(t, c)'
    PROVE  TakesTurns(t)'
<1>1. PICK m : m = usage[t].last_reset
  OBVIOUS
<1>2. DoneIn(t, m)' = DoneIn(t, m)
  BY DEF DoneIn
<1>3. usage'[t].requests_this_month = Cardinality(DoneIn(t, usage[t].last_reset)')
  <2>1. usage'[t].requests_this_month = Cardinality(DoneIn(t, m)')
    BY <1>1, <1>2 DEF TakesTurns
  <2>2. m = usage'[t].last_reset
    BY <1>1
  <2> QED  BY <2>1, <2>2 DEF DoneIn
<1> QED  BY <1>3 DEF TakesTurns

\* An update that takes effect is the next count of its tenant, and ends its turn.
LEMMA TurnTaken ==
    ASSUME TypeOK, NEW c \in Callbacks, Takes(c),
           NEW t \in Tenants, t = callbacks[c].tenant, TakesTurns(t)
    PROVE  TakesTurns(t)'
<1>1. c \in Holding(t) /\ Holding(t)' = {} /\ Current(t, c)
  <2>1. c \in Holding(t)
    BY DEF Holding, Takes
  <2>2. \A d \in Holding(t) : d = c
    BY <2>1 DEF TakesTurns
  <2>3. \A d \in Callbacks : d \notin Holding(t)'
    BY <2>2 DEF Holding, Takes, TypeOK, Callback
  <2>4. Holding(t)' = {}
    BY <2>3 DEF Holding
  <2> QED  BY <2>1, <2>4 DEF TakesTurns
<1>2. PICK m : m = usage'[t].last_reset
  OBVIOUS
<1>3. /\ usage'[t].requests_this_month = callbacks[c].usage.requests_this_month
      /\ m = IF callbacks[c].reset THEN callbacks[c].now ELSE usage[t].last_reset
      /\ callbacks[c].now = m /\ m \in Nat /\ m <= month /\ month' = month
      /\ usage[t].last_reset \in Nat /\ usage[t].last_reset <= m
  <2>1. /\ usage'[t].requests_this_month = callbacks[c].usage.requests_this_month
        /\ m = IF callbacks[c].reset THEN callbacks[c].now ELSE usage[t].last_reset
    BY <1>2 DEF Takes, Written, TypeOK
  <2>2. /\ callbacks[c].now \in Nat /\ usage[t].last_reset \in Nat /\ month \in Nat
        /\ callbacks[c].reset \in BOOLEAN /\ month' = month
    BY DEF Takes, TypeOK, Callback, Usage, Months
  <2>3. usage[t].last_reset <= month /\ callbacks[c].pc = "saving"
    BY DEF TakesTurns, Takes
  <2> QED  BY <1>1, <2>1, <2>2, <2>3 DEF Current
<1>4. /\ DoneIn(t, m)' = DoneIn(t, m) \cup {c} /\ c \notin DoneIn(t, m)
      /\ \A d \in Done(t)' : d = c \/ (d \in Done(t) /\ callbacks'[d] = callbacks[d])
      /\ callbacks'[c].now = m
  <2>1. Done(t)' = Done(t) \cup {c}
    BY DoneGrows
  <2>2. callbacks'[c].now = callbacks[c].now /\ c \notin Done(t)
    BY DEF Takes, TypeOK, Callback, Done
  <2>3. \A d \in Done(t) : callbacks'[d] = callbacks[d]
    BY DEF Takes, Done
  <2> QED  BY <1>3, <2>1, <2>2, <2>3 DEF DoneIn
<1>5. Cardinality(DoneIn(t, m) \cup {c}) = Cardinality(DoneIn(t, m)) + 1
  BY <1>4, DoneFinite, FS_AddElement
<1>6. usage'[t].requests_this_month = Cardinality(DoneIn(t, m)) + 1
  <2>1. CASE callbacks[c].reset
    <3>1. DoneIn(t, m) = {}
      <4>1. m > usage[t].last_reset
        BY <1>1, <1>3, <2>1 DEF Current, Takes
      <4>2. \A d \in Done(t) : callbacks[d].now \in Nat /\ callbacks[d].now <= usage[t].last_reset
        BY DEF TakesTurns, Done, TypeOK, Callback, Months
      <4> QED  BY <1>3, <4>1, <4>2 DEF DoneIn
    <3>2. callbacks[c].usage.requests_this_month = 1
      BY <1>1, <2>1 DEF Current, Takes
    <3>3. Cardinality(DoneIn(t, m)) = 0
      BY <3>1, FS_EmptySet, Zenon
    <3> QED  BY <1>3, <3>2, <3>3
  <2>2. CASE ~callbacks[c].reset
    <3>1. m = usage[t].last_reset
      BY <1>3, <2>2
    <3>2. usage[t].requests_this_month = Cardinality(DoneIn(t, m))
      BY <3>1 DEF TakesTurns
    <3>3. callbacks[c].usage.requests_this_month = usage[t].requests_this_month + 1
      BY <1>1, <2>2 DEF Current, Takes
    <3> QED  BY <1>3, <3>2, <3>3
  <2> QED  BY <2>1, <2>2
<1>7. usage'[t].requests_this_month = Cardinality(DoneIn(t, usage[t].last_reset)')
  <2>1. usage'[t].requests_this_month = Cardinality(DoneIn(t, m)')
    BY <1>4, <1>5, <1>6
  <2> QED  BY <1>2, <2>1 DEF DoneIn
<1>8. \A d \in Done(t)' : callbacks'[d].now <= m
  <2>1. \A d \in Done(t) : callbacks[d].now \in Nat /\ callbacks[d].now <= usage[t].last_reset
    BY DEF TakesTurns, Done, TypeOK, Callback, Months
  <2> QED  BY <1>3, <1>4, <2>1
<1> QED  BY <1>1, <1>2, <1>3, <1>7, <1>8 DEF TakesTurns

\* Every step keeps the turns of the tenants that never overlapped.
LEMMA SerialStep ==
    ASSUME TypeOK, ScheduledInv, SerialInv, [Next]_vars
    PROVE  SerialInv'
<1> SUFFICES ASSUME NEW t \in Tenants \ overlapped' PROVE TakesTurns(t)'
  BY DEF SerialInv
<1>1. overlapped \subseteq overlapped'
  BY StepKinds DEF Aside, Fetch, Count, Takes
<1>2. TakesTurns(t)
  BY <1>1 DEF SerialInv
<1>3. CASE Aside
  <2>1. /\ Done(t)' = Done(t) /\ usage'[t] = usage[t]
        /\ \A c \in Done(t) : callbacks'[c] = callbacks[c]
    BY <1>3, DoneUnchanged DEF Aside, Done
  <2>2. \A c \in Holding(t)' : c \in Holding(t) /\ callbacks'[c] = callbacks[c]
    BY <1>3 DEF Aside, Holding
  <2>3. month' \in {month, month + 1}
    BY <1>3 DEF Aside
  <2> QED  BY <1>2, <2>1, <2>2, <2>3, TurnKept
<1>4. ASSUME NEW c \in Callbacks, Fetch(c) PROVE TakesTurns(t)'
  <2>1. /\ Done(t)' = Done(t) /\ usage'[t] = usage[t] /\ month' = month
        /\ \A d \in Done(t) : callbacks'[d] = callbacks[d]
    BY <1>4, DoneUnchanged DEF Fetch, Done
  <2>2. CASE callbacks[c].tenant # t
    <3>1. \A d \in Holding(t)' : d \in Holding(t) /\ callbacks'[d] = callbacks[d]
      BY <1>4, <2>2 DEF Fetch, Holding, TypeOK, Callback
    <3> QED  BY <1>2, <2>1, <3>1, TurnKept
  <2>3. CASE callbacks[c].tenant = t
    <3>1. Holding(t) = {}
      BY <1>4, <2>3 DEF Fetch
    <3>2. \A d \in Callbacks \ {c} : callbacks'[d] = callbacks[d]
      BY <1>4 DEF Fetch, TypeOK
    <3>3. callbacks'[c].pc = "fetched" /\ callbacks'[c].usage = usage'[t]
      BY <1>4, <2>1, <2>3 DEF Fetch, TypeOK, Callback
    <3>4. \A d \in Holding(t)' : d = c
      BY <3>1, <3>2 DEF Holding
    <3>5. Current(t, c)'
      BY <3>3 DEF Current
    <3> QED  BY <1>2, <2>1, <3>4, <3>5, TurnHeld
  <2> QED  BY <2>2, <2>3
<1>5. ASSUME NEW c \in Callbacks, Count(c) PROVE TakesTurns(t)'
  <2>1. /\ Done(t)' = Done(t) /\ usage'[t] = usage[t] /\ month' = month
        /\ \A d \in Done(t) : callbacks'[d] = callbacks[d]
        /\ \A d \in Callbacks \ {c} : callbacks'[d] = callbacks[d]
    BY <1>5, DoneUnchanged DEF Count, Done, TypeOK
  <2>2. CASE callbacks[c].tenant # t
    <3>1. \A d \in Holding(t)' : d \in Holding(t) /\ callbacks'[d] = callbacks[d]
      BY <1>5, <2>2 DEF Count, Holding, TypeOK, Callback
    <3> QED  BY <1>2, <2>1, <3>1, TurnKept
  <2>3. CASE callbacks[c].tenant = t
    <3>1. c \in Holding(t)
      BY <1>5, <2>3 DEF Count, Holding
    <3>2. \A d \in Holding(t) : d = c
      BY <1>2, <3>1 DEF TakesTurns
    <3>3. \A d \in Holding(t)' : d = c
      BY <2>1, <3>2 DEF Holding
    <3>4. callbacks[c].usage = usage[t] /\ usage[t].last_reset <= month
      BY <1>2, <1>5, <3>1 DEF TakesTurns, Current, Count
    <3>5. Current(t, c)'
      <4>1. /\ usage[t].last_reset \in Nat /\ usage[t].requests_this_month \in Nat
            /\ month \in Nat /\ usage[t] \in Usage
        BY DEF TypeOK, Usage, Months
      <4>2. /\ callbacks'[c].pc = "saving" /\ callbacks'[c].now = month
            /\ callbacks'[c].reset <=> month # usage[t].last_reset
            /\ callbacks'[c].usage = [usage[t] EXCEPT !.requests_this_month =
                 IF month # usage[t].last_reset THEN 1
                 ELSE usage[t].requests_this_month + 1]
        BY <1>5, <3>4 DEF Count, TypeOK, Callback
      <4>3. callbacks'[c].usage.requests_this_month =
              IF month # usage[t].last_reset THEN 1
              ELSE usage[t].requests_this_month + 1
        BY <4>1, <4>2 DEF Usage
      <4> QED  BY <2>1, <3>4, <4>1, <4>2, <4>3 DEF Current
    <3> QED  BY <1>2, <2>1, <3>3, <3>5, TurnHeld
  <2> QED  BY <2>2, <2>3
<1>6. ASSUME NEW c \in Callbacks, Takes(c) PROVE TakesTurns(t)'
  <2>1. CASE callbacks[c].tenant # t
    <3>1. /\ Done(t)' = Done(t) /\ usage'[t] = usage[t] /\ month' = month
          /\ \A d \in Done(t) : callbacks'[d] = callbacks[d]
      <4>1. PICK u : u = callbacks[c].tenant
        OBVIOUS
      <4>2. t # u /\ Done(t)' = Done(t)
        BY <1>6, <2>1, <4>1, DoneGrows
      <4>3. usage'[t] = usage[t] /\ month' = month
        BY <1>6, <2>1 DEF Takes, Written, TypeOK
      <4>4. \A d \in Done(t) : callbacks'[d] = callbacks[d]
        BY <1>6 DEF Takes, Done
      <4> QED  BY <4>2, <4>3, <4>4
    <3>2. \A d \in Holding(t)' : d \in Holding(t) /\ callbacks'[d] = callbacks[d]
      BY <1>6, <2>1 DEF Takes, Holding, TypeOK, Callback
    <3> QED  BY <1>2, <3>1, <3>2, TurnKept
  <2>2. CASE callbacks[c].tenant = t
    BY <1>2, <1>6, <2>2, TurnTaken
  <2> QED  BY <2>1, <2>2
<1> QED  BY <1>3, <1>4, <1>5, <1>6, StepKinds

\* The counter is exact for a tenant whose updates by the ingest's callback, which takes
\* the time after the read, never overlapped: for any number of them, of months and of
\* stops of the process.
THEOREM ExactSerial == Spec => []ExactWhenSerial
<1>1. Init => TypeOK /\ ScheduledInv /\ SerialInv
  <2> SUFFICES ASSUME Init PROVE TypeOK /\ ScheduledInv /\ SerialInv
    OBVIOUS
  <2>1. TypeOK /\ ScheduledInv
    BY MeterAssumption
       DEF Init, TypeOK, ScheduledInv, NoUsage, Usage, Callback, Months
  <2>2. \A t \in Tenants : TakesTurns(t)
    <3> SUFFICES ASSUME NEW t \in Tenants PROVE TakesTurns(t)
      OBVIOUS
    <3>1. Done(t) = {} /\ Holding(t) = {} /\ DoneIn(t, 0) = {}
      BY DEF Init, Done, DoneIn, Holding
    <3>2. Cardinality(DoneIn(t, 0)) = 0
      BY <3>1, FS_EmptySet, Zenon
    <3>3. usage[t].requests_this_month = 0 /\ usage[t].last_reset = 0 /\ month = 0
      BY DEF Init, NoUsage
    <3> QED  BY <3>1, <3>2, <3>3 DEF TakesTurns
  <2> QED  BY <2>1, <2>2 DEF SerialInv
<1>2. TypeOK /\ ScheduledInv /\ SerialInv /\ [Next]_vars => (TypeOK /\ ScheduledInv /\ SerialInv)'
  BY TypeStep, SerialStep
<1>3. SerialInv => ExactWhenSerial
  BY DEF SerialInv, TakesTurns, ExactWhenSerial
<1> QED  BY <1>1, <1>2, <1>3, PTL DEF Spec
===============================================================================
