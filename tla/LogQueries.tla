------------------------------ MODULE LogQueries ------------------------------
(***************************************************************************)
(* The queries over logs, users and tenants: a page of logs or of users    *)
(* (a find, then a count), the statistics (five queries at once) and the   *)
(* administrator's dashboard (counts, the statistics, an aggregation, one  *)
(* after the other).  Documents are inserted between any two of their      *)
(* reads and are never removed.  A reader changes nothing, so readers do   *)
(* not meet: one at a time stands for all.                                 *)
(***************************************************************************)
EXTENDS Naturals, FiniteSets, Sequences, SequencesExt

CONSTANTS
    Logs,       \* the documents of waflogs that may be inserted
    Users,      \* the documents of users that may be inserted
    Tenants,    \* the tenants that may be registered
    Null,       \* no tenant, no rule, no type
    Filters,    \* the filters readers ask with
    Limits,     \* page sizes
    Top,        \* length of a list of the most blocked (ten in the code)
    MaxPage     \* bound: pages asked for

ASSUME QueriesAssumption ==
    /\ Logs \cap Users = {} /\ Null \notin Tenants
    /\ \A d \in Logs \cup Users : d.time \in Nat
    /\ Limits \subseteq Nat \ {0} /\ Top \in Nat \ {0} /\ MaxPage \in Nat

VARIABLES
    logs, users, tenants,   \* the three collections
    reader                  \* the request being answered

vars == <<logs, users, tenants, reader>>

Everything == [tenant |-> Null, from |-> 0, to |-> Null, rule |-> Null]

\* findAll and getStats: the caller's own tenant unless an administrator, or a
\* caller without one, asks; $gte and $lte on the timestamp; the rule.
Matches(d, filter) ==
    /\ filter.tenant \in {Null, d.tenant}
    /\ d.time >= filter.from /\ (filter.to # Null => d.time <= filter.to)
    /\ filter.rule \in {Null, d.rule}
Matching(docs, filter) == {d \in docs : Matches(d, filter)}

Queries == {"total", "blocked", "ips", "rules", "types"}

\* base: the documents there, of those asked for, when the request came in.
Nobody == [kind |-> "none", pc |-> "idle", filter |-> Everything, base |-> {},
           first |-> 0, page |-> 0, limit |-> 1, rows |-> {}, seen |-> {}, count |-> 0,
           pending |-> {}, total |-> 0, blocked |-> 0,
           ips |-> {}, rules |-> {}, types |-> {},
           totalUsers |-> 0, totalTenants |-> 0, activeUsers |-> 0, usage |-> {}]

TypeOK ==
    /\ logs \subseteq Logs /\ users \subseteq Users /\ tenants \subseteq Tenants
    /\ \A u \in users : u.tenant \in tenants
    /\ reader.kind \in {"none", "logs", "users", "stats", "overview"}
    /\ reader.pc \in {"idle", "finding", "counting", "users", "tenants", "active",
                      "stats", "usage", "answered"}
    /\ reader.rows \subseteq reader.seen /\ reader.seen \subseteq logs \cup users
    /\ Cardinality(reader.rows) <= reader.limit
    /\ reader.pending \subseteq Queries
    /\ (reader.kind = "stats" /\ reader.pc = "stats") = (reader.pending # {})

Init ==
    /\ logs = {} /\ users = {} /\ tenants = {}
    /\ reader = Nobody
-------------------------------------------------------------------------------
\* The writers: the ingest and the security tests; onboarding, which creates the
\* tenant before its user.
InsertLog(d) ==
    /\ d \in Logs \ logs /\ d.tenant \in tenants
    /\ logs' = logs \cup {d}
    /\ UNCHANGED <<users, tenants, reader>>
InsertTenant(t) ==
    /\ t \in Tenants \ tenants
    /\ tenants' = tenants \cup {t}
    /\ UNCHANGED <<logs, users, reader>>
InsertUser(u) ==
    /\ u \in Users \ users /\ u.tenant \in tenants
    /\ users' = users \cup {u}
    /\ UNCHANGED <<logs, tenants, reader>>
Insert ==
    \/ \E d \in Logs : InsertLog(d)
    \/ \E t \in Tenants : InsertTenant(t)
    \/ \E u \in Users : InsertUser(u)

Reads(update) == reader' = update /\ UNCHANGED <<logs, users, tenants>>
Free == reader.pc \in {"idle", "answered"}
-------------------------------------------------------------------------------
\* The collection a pager reads, newest first; equal times come in any order.
Collection == IF reader.kind = "users" THEN users ELSE Matching(logs, reader.filter)
Orders(docs) ==
    {o \in SetToSeqs(docs) :
        \A i, j \in DOMAIN o : i < j => o[i].time >= o[j].time}
Pages(total, limit) == (total + limit - 1) \div limit

\* A page of logs, or of users, is asked for: any page, by a reader who starts.
findAll(filter, page, limit) ==
    /\ Free
    /\ Reads([Nobody EXCEPT !.kind = "logs", !.pc = "finding", !.filter = filter,
                            !.base = Matching(logs, filter),
                            !.first = page, !.page = page, !.limit = limit])
getAllUsers(page, limit) ==
    /\ Free
    /\ Reads([Nobody EXCEPT !.kind = "users", !.pc = "finding", !.base = users,
                            !.first = page, !.page = page, !.limit = limit])

\* The reader of an answered page turns to the next.
NextPage ==
    /\ reader.kind \in {"logs", "users"} /\ reader.pc = "answered"
    /\ reader.page < MaxPage
    /\ Reads([reader EXCEPT !.pc = "finding", !.page = @ + 1, !.rows = {}])

\* Mutant of Rows: pages counted from zero.
RowsFromZero(order, page, limit) ==
    {order[i] : i \in {j \in DOMAIN order : j > page * limit /\ j <= (page + 1) * limit}}

\* The documents of the page, of one order of the collection.
Rows(order, page, limit) ==
    {order[i] : i \in {j \in DOMAIN order : j > (page - 1) * limit /\ j <= page * limit}}

\* await find().sort().skip().limit()
Find ==
    /\ reader.pc = "finding"
    /\ \E order \in Orders(Collection) :
         LET rows == Rows(order, reader.page, reader.limit)
         IN  Reads([reader EXCEPT !.pc = "counting", !.rows = rows, !.seen = @ \cup rows])

\* Mutant of Count: the total is the one of when the first page was asked for.
CountOnce ==
    /\ reader.pc = "counting"
    /\ Reads([reader EXCEPT !.pc = "answered", !.count = Cardinality(reader.base)])

\* await countDocuments()
Count ==
    /\ reader.pc = "counting"
    /\ Reads([reader EXCEPT !.pc = "answered", !.count = Cardinality(Collection)])
-------------------------------------------------------------------------------
\* The statistics: their filter is built once, their queries run side by side.
getStats(filter) ==
    /\ Free
    /\ Reads([Nobody EXCEPT !.kind = "stats", !.pc = "stats", !.filter = filter,
                            !.base = Matching(logs, filter), !.pending = Queries])

CountOf(docs, field, value) == Cardinality({d \in docs : d[field] = value})
\* $group by a field that exists, with the number of documents of each value.
Grouped(docs, field) ==
    {<<v, CountOf(docs, field, v)>> : v \in {d[field] : d \in docs} \ {Null}}
\* $sort by the number and $limit; equal numbers in any order.
Tops(groups) ==
    {top \in SUBSET groups :
        /\ Cardinality(top) = IF Cardinality(groups) < Top THEN Cardinality(groups) ELSE Top
        /\ \A g \in top, h \in groups \ top : g[2] >= h[2]}

\* Mutant of Blocked: the filter is not spread into the condition.
BlockedOfAll(filter) == {d \in logs : d.blocked}
Blocked(filter) == {d \in Matching(logs, filter) : d.blocked}

\* One of the five answers; the last one completes the statistics.
Answer(query, update) ==
    /\ query \in reader.pending
    /\ Reads([update EXCEPT !.pending = @ \ {query},
                            !.pc = IF reader.pending = {query} THEN "answered" ELSE "stats"])
CountTotal ==
    Answer("total", [reader EXCEPT !.total = Cardinality(Matching(logs, reader.filter))])
CountBlocked == Answer("blocked", [reader EXCEPT !.blocked = Cardinality(Blocked(reader.filter))])
TopBlockedIps ==
    \E top \in Tops(Grouped(Blocked(reader.filter), "ip")) :
        Answer("ips", [reader EXCEPT !.ips = top])
TopBlockedRules ==
    \E top \in Tops(Grouped(Blocked(reader.filter), "rule")) :
        Answer("rules", [reader EXCEPT !.rules = top])
AttackTypes ==
    Answer("types", [reader EXCEPT !.types = Grouped(Matching(logs, reader.filter), "type")])
-------------------------------------------------------------------------------
\* The dashboard's reads, each awaited before the next.
getAdminDashboard ==
    /\ Free
    /\ Reads([Nobody EXCEPT !.kind = "overview", !.pc = "users", !.base = logs \cup users])
CountUsers ==
    /\ reader.pc = "users"
    /\ Reads([reader EXCEPT !.pc = "tenants", !.totalUsers = Cardinality(users)])
CountTenants ==
    /\ reader.pc = "tenants"
    /\ Reads([reader EXCEPT !.pc = "active", !.totalTenants = Cardinality(tenants)])
\* Those who signed in within thirty days: any of them.
CountActive ==
    /\ reader.pc = "active"
    /\ \E n \in 0..Cardinality(users) :
         Reads([reader EXCEPT !.pc = "stats", !.activeUsers = n])
\* await getStats({}): the queries above; its answer does not touch the others.
AwaitStats ==
    /\ reader.kind = "overview" /\ reader.pc = "stats"
    /\ Reads([reader EXCEPT !.pc = "usage"])
\* Mutant of TenantUsage: the largest tenants only.
TopTenants ==
    /\ reader.pc = "usage"
    /\ \E top \in Tops(Grouped(users, "tenant")) :
         Reads([reader EXCEPT !.pc = "answered", !.usage = top])
\* $group by tenant, then the tenant's document ($lookup, $unwind).
TenantUsage ==
    /\ reader.pc = "usage"
    /\ Reads([reader EXCEPT !.pc = "answered",
                !.usage = {g \in Grouped(users, "tenant") : g[1] \in tenants}])

Ask ==
    \/ \E filter \in Filters, page \in 1..MaxPage, limit \in Limits :
           findAll(filter, page, limit)
    \/ \E page \in 1..MaxPage, limit \in Limits : getAllUsers(page, limit)
    \/ NextPage
    \/ \E filter \in Filters : getStats(filter)
    \/ getAdminDashboard

Read ==
    \/ Find \/ Count
    \/ CountTotal \/ CountBlocked \/ TopBlockedIps \/ TopBlockedRules \/ AttackTypes
    \/ CountUsers \/ CountTenants \/ CountActive \/ AwaitStats \/ TenantUsage

Next == Insert \/ Ask \/ Read

Spec == Init /\ [][Next]_vars
-------------------------------------------------------------------------------
Answered(kind) == reader.kind = kind /\ reader.pc = "answered"
Paging == reader.kind \in {"logs", "users"}

\* Whoever reads from the first page to the last one announced has seen every
\* document that was there at the beginning, however many were inserted between
\* the pages and between a page and its total; but for documents of the same time,
\* which no order keeps apart from one page to the next.
PagesMissNothing ==
    (Paging /\ reader.pc = "answered" /\ reader.first = 1
            /\ reader.page >= Pages(reader.count, reader.limit))
        => \A d \in reader.base :
              (\A e \in Collection : e.time = d.time => e = d) => d \in reader.seen

\* A page never shows documents beyond the total announced with it, and none of
\* another tenant or outside the filter.  (The variables have their types, too.)
RowsWithinTotal ==
    /\ TypeOK
    /\ (Paging /\ reader.pc = "answered" /\ reader.rows # {})
         => /\ (reader.page - 1) * reader.limit + Cardinality(reader.rows) <= reader.count
            /\ reader.rows \subseteq Collection

\* A number lies between what it was when the request came in and what it is when
\* the last query answers.
Between(n, test(_)) ==
    /\ Cardinality({d \in reader.base \cap logs : test(d)}) <= n
    /\ n <= Cardinality({d \in Matching(logs, reader.filter) : test(d)})
ListBetween(list, field, test(_)) ==
    \A g \in list : Between(g[2], LAMBDA d : test(d) /\ d[field] = g[1])
\* What a list leaves out had, when the request came in, no more than any it shows.
LeftOut(list, field) ==
    \A g \in list : \A d \in reader.base \cap logs :
        d.blocked /\ d[field] \notin {h[1] : h \in list} \cup {Null}
            => CountOf({e \in reader.base \cap logs : e.blocked}, field, d[field]) <= g[2]

\* The five queries of the statistics see different moments, and blocked may exceed
\* total; but each number and list is one of the caller's own logs, of a moment
\* between the request and the answer, and with no insert meanwhile they agree.
StatsInWindow ==
    Answered("stats") =>
        /\ Between(reader.total, LAMBDA d : TRUE)
        /\ Between(reader.blocked, LAMBDA d : d.blocked)
        /\ ListBetween(reader.ips, "ip", LAMBDA d : d.blocked)
        /\ ListBetween(reader.rules, "rule", LAMBDA d : d.blocked)
        /\ ListBetween(reader.types, "type", LAMBDA d : TRUE)
        /\ LeftOut(reader.ips, "ip") /\ LeftOut(reader.rules, "rule")
        /\ Cardinality(reader.ips) <= Top /\ Cardinality(reader.rules) <= Top

\* The administrator's figures are read one after the other, but in an order in
\* which they agree: the tenants counted cover those of the users counted before,
\* and the usage per tenant adds up to no fewer users than the total.
DashboardAgrees ==
    Answered("overview") =>
        /\ Cardinality({u.tenant : u \in reader.base \cap users}) <= reader.totalTenants
        /\ MapThenSumSet(LAMBDA g : g[2], reader.usage) >= reader.totalUsers
        /\ \A u \in reader.base \cap users : u.tenant \in {g[1] : g \in reader.usage}
===============================================================================
