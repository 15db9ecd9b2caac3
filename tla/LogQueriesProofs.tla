--------------------------- MODULE LogQueriesProofs ---------------------------
(***************************************************************************)
(* What the queries of LogQueries promise, for every set of documents,     *)
(* every filter and every page size.                                       *)
(*                                                                         *)
(* Documents are only ever added, so a number read of a collection lies    *)
(* between what it was at the request and what it is now (StatInv).  A     *)
(* document a reader of successive pages has not met has as many newer     *)
(* ones before it as those pages hold (SeenInv): inserts push it back, and *)
(* never off a page to come.                                               *)
(***************************************************************************)
EXTENDS LogQueries, FiniteSetTheorems, TLAPS

\* The collections are finite at every moment; the request has all its fields.
Finite == IsFiniteSet(logs) /\ IsFiniteSet(users) /\ IsFiniteSet(tenants)
Shaped == DOMAIN reader = DOMAIN Nobody

\* What each kind of request goes through.
KindInv ==
    /\ reader.kind = "none" => reader.pc = "idle"
    /\ Paging => /\ reader.pc \in {"finding", "counting", "answered"}
                 /\ reader.page \in Nat \ {0}
    /\ reader.kind = "stats" => reader.pc \in {"stats", "answered"}
    /\ reader.kind = "overview" =>
         reader.pc \in {"users", "tenants", "active", "stats", "usage", "answered"}
    /\ reader.limit \in Nat \ {0}

\* What was there when the request came in is there now.
BaseInv ==
    /\ Paging => reader.base \subseteq Collection
    /\ reader.kind = "stats" => reader.base \subseteq Matching(logs, reader.filter)
    /\ reader.kind = "overview" => reader.base \subseteq logs \cup users

\* The rows of the page at hand are within a collection of n documents.
Within(n) ==
    reader.rows # {} =>
        (reader.page - 1) * reader.limit + Cardinality(reader.rows) <= n
PageInv ==
    Paging =>
        /\ reader.rows \subseteq Collection
        /\ reader.pc = "counting" => Within(Cardinality(Collection))
        /\ reader.pc = "answered" => reader.count \in Nat /\ Within(reader.count)

\* d is alone with its time among docs; the documents of docs before it.
Single(d, docs) == \A e \in docs : e.time = d.time => e = d
Newer(d, docs) == {e \in docs : e.time > d.time}
\* The documents not met.
Missed == {d \in reader.base : Single(d, Collection) /\ d \notin reader.seen}
PagesRead == IF reader.pc = "finding" THEN reader.page - 1 ELSE reader.page
SeenInv ==
    Paging /\ reader.first = 1 =>
        /\ \A d \in Missed :
              PagesRead * reader.limit <= Cardinality(Newer(d, Collection))
        /\ reader.pc = "answered" /\ reader.count <= reader.page * reader.limit
              => Missed = {}

\* n is a number of the documents of old at least, and of new at most.
InWindow(n, old, new) == n \in Nat /\ Cardinality(old) <= n /\ n <= Cardinality(new)
With(docs, field, value) == {d \in docs : d[field] = value}
Listed(list, field, old, new) ==
    \A g \in list : InWindow(g[2], With(old, field, g[1]), With(new, field, g[1]))
BaseBlocked == {d \in reader.base : d.blocked}
\* No value of an old document that the list leaves out outnumbers one it has.
NoneAbove(list, field, old) ==
    \A g \in list, d \in old :
        d[field] \notin {h[1] : h \in list} \cup {Null}
            => Cardinality(With(old, field, d[field])) <= g[2]
TopList(list, field) ==
    /\ Listed(list, field, BaseBlocked, Blocked(reader.filter))
    /\ NoneAbove(list, field, BaseBlocked)
    /\ Cardinality(list) <= Top
StatInv ==
    reader.kind = "stats" =>
        /\ "total" \notin reader.pending =>
             InWindow(reader.total, reader.base, Matching(logs, reader.filter))
        /\ "blocked" \notin reader.pending =>
             InWindow(reader.blocked, BaseBlocked, Blocked(reader.filter))
        /\ "ips" \notin reader.pending => TopList(reader.ips, "ip")
        /\ "rules" \notin reader.pending => TopList(reader.rules, "rule")
        /\ "types" \notin reader.pending =>
             Listed(reader.types, "type", reader.base, Matching(logs, reader.filter))

\* The users who were there when the dashboard was asked for, and what their
\* tenants are to the figures.
BaseUsers == reader.base \cap users
TenantsOf(docs) == {u.tenant : u \in docs}
UsageTotal(groups) == MapThenSumSet(LAMBDA g : g[2], groups)
OverviewInv ==
    reader.kind = "overview" =>
        /\ reader.pc # "users" =>
             reader.totalUsers \in Nat /\ reader.totalUsers <= Cardinality(users)
        /\ reader.pc \notin {"users", "tenants"} =>
             Cardinality(TenantsOf(BaseUsers)) <= reader.totalTenants
        /\ reader.pc = "answered" =>
             /\ UsageTotal(reader.usage) >= reader.totalUsers
             /\ TenantsOf(BaseUsers) \subseteq {g[1] : g \in reader.usage}

QueryInv ==
    /\ TypeOK /\ Finite /\ Shaped
    /\ KindInv /\ BaseInv /\ PageInv /\ SeenInv /\ StatInv /\ OverviewInv
-------------------------------------------------------------------------------
(* Sizes of finite sets.                                                    *)

\* A subset of a finite set is finite and no larger.
LEMMA Sizes ==
    \A S, T : IsFiniteSet(T) /\ S \subseteq T =>
        /\ IsFiniteSet(S) /\ Cardinality(S) \in Nat /\ Cardinality(T) \in Nat
        /\ Cardinality(S) <= Cardinality(T)
<1> SUFFICES ASSUME NEW S, NEW T, IsFiniteSet(T), S \in SUBSET T
             PROVE  /\ IsFiniteSet(S) /\ Cardinality(S) \in Nat /\ Cardinality(T) \in Nat
                    /\ Cardinality(S) <= Cardinality(T)
  OBVIOUS
<1> QED  BY FS_Subset, FS_CardinalityType

\* An image of a finite set is finite and no larger.
LEMMA ImageSize ==
    ASSUME NEW S, IsFiniteSet(S), NEW f, DOMAIN f = S
    PROVE  LET T == {f[x] : x \in S}
           IN  IsFiniteSet(T) /\ Cardinality(T) <= Cardinality(S)
<1> DEFINE T == {f[x] : x \in S}
           g == [x \in S |-> f[x]]
<1>1. g \in Surjection(S, T)
  BY DEF Surjection
<1> QED  BY <1>1, FS_Surjection

\* The size of an interval of natural numbers that starts after a.
LEMMA IntervalSize ==
    ASSUME NEW a \in Nat, NEW b \in Nat
    PROVE  /\ IsFiniteSet((a + 1)..b)
           /\ a <= b => Cardinality((a + 1)..b) = b - a
           /\ b <= a => Cardinality((a + 1)..b) = 0
<1>1. a + 1 \in Int /\ b \in Int
  OBVIOUS
<1>2. /\ IsFiniteSet((a + 1)..b)
      /\ Cardinality((a + 1)..b) = IF a + 1 > b THEN 0 ELSE b - (a + 1) + 1
  BY <1>1, FS_Interval
<1> QED  BY <1>2
-------------------------------------------------------------------------------
(* One order of a collection, and one page of it.                           *)

\* The index before a page's first row, and its last.
LEMMA PageEnds ==
    ASSUME NEW page \in Nat \ {0}, NEW limit \in Nat \ {0}
    PROVE  /\ (page - 1) * limit \in Nat /\ page * limit \in Nat
           /\ page * limit = (page - 1) * limit + limit
OBVIOUS

\* An order is an injection of the numbers up to the collection's size onto it.
LEMMA OrderIsBijection ==
    ASSUME NEW docs, IsFiniteSet(docs), NEW order \in Orders(docs)
    PROVE  /\ Cardinality(docs) \in Nat
           /\ DOMAIN order = 1..Cardinality(docs)
           /\ order \in Bijection(1..Cardinality(docs), docs)
           /\ \A i, j \in 1..Cardinality(docs) : i < j => order[i].time >= order[j].time
<1> DEFINE n == Cardinality(docs)
<1>1. n \in Nat
  BY FS_CardinalityType
<1>2. /\ order \in [1..n -> docs]
      /\ \A i, j \in 1..n : i # j => order[i] # order[j]
      /\ \A i, j \in DOMAIN order : i < j => order[i].time >= order[j].time
  BY DEF Orders, SetToSeqs
<1>3. order \in Injection(1..n, docs)
  BY <1>2 DEF Injection, IsInjective
<1>4. IsFiniteSet(1..n) /\ Cardinality(1..n) = n
  BY <1>1, IntervalSize
<1>5. order \in Surjection(1..n, docs)
  BY <1>3, <1>4, FS_Injection
<1> QED  BY <1>1, <1>2, <1>3, <1>5 DEF Bijection

\* A page is of the collection, no longer than its limit, and ends within it.
LEMMA RowsOfPage ==
    ASSUME NEW docs, IsFiniteSet(docs), NEW order \in Orders(docs),
           NEW page \in Nat \ {0}, NEW limit \in Nat \ {0}
    PROVE  LET rows == Rows(order, page, limit)
           IN  /\ rows \subseteq docs
               /\ IsFiniteSet(rows) /\ Cardinality(rows) <= limit
               /\ rows # {} =>
                    (page - 1) * limit + Cardinality(rows) <= Cardinality(docs)
<1> DEFINE n == Cardinality(docs)
           a == (page - 1) * limit
           b == page * limit
           I == {j \in DOMAIN order : j > a /\ j <= b}
           f == [i \in I |-> order[i]]
           rows == {f[i] : i \in I}
<1>1. n \in Nat /\ DOMAIN order = 1..n /\ order \in [1..n -> docs]
  BY OrderIsBijection DEF Bijection, Injection
<1>2. a \in Nat /\ b \in Nat /\ b = a + limit
  BY PageEnds
<1>3. rows = Rows(order, page, limit)
  BY DEF Rows
<1>4. rows \subseteq docs
  BY <1>1
<1> HIDE DEF a, b
<1>5. IsFiniteSet(I) /\ Cardinality(I) \in Nat /\ Cardinality(I) <= limit
  <2>1. I \subseteq (a + 1)..b
    BY <1>1, <1>2
  <2>2. IsFiniteSet((a + 1)..b) /\ Cardinality((a + 1)..b) = limit
    BY <1>2, IntervalSize
  <2> QED  BY <2>1, <2>2, Sizes
<1>6. ASSUME I # {} PROVE a + Cardinality(I) <= n
  <2>1. a <= n /\ I \subseteq (a + 1)..n
    BY <1>1, <1>2, <1>6
  <2>2. IsFiniteSet((a + 1)..n) /\ Cardinality((a + 1)..n) = n - a
    BY <1>1, <1>2, <2>1, IntervalSize
  <2>3. Cardinality(I) <= n - a
    BY <2>1, <2>2, Sizes
  <2> QED  BY <1>1, <1>2, <1>5, <2>3
<1>7. IsFiniteSet(rows) /\ Cardinality(rows) <= Cardinality(I) /\ Cardinality(rows) \in Nat
  <2>1. DOMAIN f = I
    OBVIOUS
  <2>2. IsFiniteSet(rows) /\ Cardinality(rows) <= Cardinality(I)
    <3> HIDE DEF f, I
    <3> QED  BY <1>5, <2>1, ImageSize
  <2> QED  BY <2>2, FS_CardinalityType
<1>8. rows # {} => I # {}
  OBVIOUS
<1> HIDE DEF I, f, rows
<1>9. Cardinality(rows) <= limit
  BY <1>5, <1>7
<1>10. rows # {} => a + Cardinality(rows) <= n
  BY <1>1, <1>2, <1>5, <1>6, <1>7, <1>8
<1> QED  BY <1>3, <1>4, <1>7, <1>9, <1>10 DEF a

\* A document alone with its time comes right after the newer ones.
LEMMA Rank ==
    ASSUME NEW docs, IsFiniteSet(docs), NEW order \in Orders(docs),
           \A e \in docs : e.time \in Nat,
           NEW d \in docs, Single(d, docs)
    PROVE  LET k == Cardinality(Newer(d, docs)) + 1
           IN  k \in DOMAIN order /\ order[k] = d
<1> DEFINE n == Cardinality(docs)
<1>1. /\ n \in Nat /\ DOMAIN order = 1..n
      /\ order \in [1..n -> docs]
      /\ \A i, j \in 1..n : i # j => order[i] # order[j]
      /\ \A e \in docs : \E i \in 1..n : order[i] = e
      /\ \A i, j \in 1..n : i < j => order[i].time >= order[j].time
  BY OrderIsBijection DEF Bijection, Injection, IsInjective, Surjection
<1> HIDE DEF n
<1>2. PICK k \in 1..n : order[k] = d
  BY <1>1
<1> DEFINE before == [i \in 1..(k - 1) |-> order[i]]
<1>3. ASSUME NEW i \in 1..n PROVE i < k <=> order[i] \in Newer(d, docs)
  <2>1. order[i] \in docs /\ order[i].time \in Nat /\ d.time \in Nat
    BY <1>1
  <2>2. CASE i < k
    <3>1. order[i].time >= d.time /\ order[i] # d
      BY <1>1, <1>2, <2>2
    <3>2. order[i].time # d.time
      BY <2>1, <3>1 DEF Single
    <3> QED  BY <2>1, <2>2, <3>1, <3>2 DEF Newer
  <2>3. CASE i >= k
    <3>1. i = k \/ d.time >= order[i].time
      BY <1>1, <1>2, <2>3
    <3> QED  BY <1>2, <2>1, <2>3, <3>1 DEF Newer
  <2> QED  BY <2>2, <2>3
<1>4. before \in Bijection(1..(k - 1), Newer(d, docs))
  <2>1. \A i \in 1..(k - 1) : before[i] \in Newer(d, docs)
    <3>1. \A i \in 1..(k - 1) : i \in 1..n /\ i < k
      BY <1>1
    <3> QED  BY <1>3, <3>1
  <2>2. \A i, j \in 1..(k - 1) : i # j => before[i] # before[j]
    BY <1>1
  <2>3. \A e \in Newer(d, docs) : \E i \in 1..(k - 1) : before[i] = e
    <3>1. TAKE e \in Newer(d, docs)
    <3>2. PICK i \in 1..n : order[i] = e
      BY <1>1 DEF Newer
    <3>3. i < k
      BY <1>3, <3>2
    <3> QED  BY <3>2, <3>3
  <2>4. before \in [1..(k - 1) -> Newer(d, docs)]
    BY <2>1
  <2> QED  BY <2>2, <2>3, <2>4 DEF Bijection, Injection, IsInjective, Surjection
<1>5. ExistsBijection(1..(k - 1), Newer(d, docs)) /\ k - 1 \in Nat
  BY <1>4 DEF ExistsBijection
<1>6. Cardinality(Newer(d, docs)) = k - 1
  BY <1>5, FS_CountingElements
<1> QED  BY <1>1, <1>2, <1>6
-------------------------------------------------------------------------------
(* The usage per tenant.  A sum folds over a set in the order CHOOSE picks  *)
(* its members; here the function by which it does is known: it counts the  *)
(* users of the tenants at hand.                                            *)

First(s) == CHOOSE g \in s : TRUE
Adds(f, E) ==
    f = [s \in SUBSET E |-> IF s = {} THEN 0 ELSE First(s)[2] + f[s \ {First(s)}]]

\* Among subsets of a finite set, one contains no other of them.
LEMMA Smallest ==
    ASSUME NEW E, IsFiniteSet(E), NEW B \in SUBSET (SUBSET E), B # {}
    PROVE  \E s \in B : \A r \in B : r \subseteq s => r = s
<1>1. IsWellFoundedOn(StrictSubsetOrdering(E), FiniteSubsetsOf(E))
  BY FS_StrictSubsetOrderingWellFounded
<1>2. B \subseteq FiniteSubsetsOf(E)
  BY FS_FiniteSubsetsOfFinite
<1>3. PICK s \in B : \A r \in B : ~(<<r, s>> \in StrictSubsetOrdering(E))
  BY <1>1, <1>2, WFMin
<1> QED  BY <1>3 DEF StrictSubsetOrdering

\* Two functions that add up the same groups agree.
LEMMA AddsUnique ==
    ASSUME NEW E, IsFiniteSet(E), NEW f, NEW h, Adds(f, E), Adds(h, E)
    PROVE  f[E] = h[E]
<1> DEFINE B == {s \in SUBSET E : f[s] # h[s]}
<1>1. SUFFICES ASSUME B # {} PROVE FALSE
  OBVIOUS
<1>2. PICK s \in B : \A r \in B : r \subseteq s => r = s
  <2>1. B \in SUBSET (SUBSET E)
    OBVIOUS
  <2> HIDE DEF B
  <2> QED  BY <1>1, <2>1, Smallest
<1>3. /\ f[s] = IF s = {} THEN 0 ELSE First(s)[2] + f[s \ {First(s)}]
      /\ h[s] = IF s = {} THEN 0 ELSE First(s)[2] + h[s \ {First(s)}]
  BY <1>2 DEF Adds
<1>4. First(s) \in s
  BY <1>2, <1>3 DEF First
<1>5. s \ {First(s)} \in SUBSET E /\ s \ {First(s)} # s /\ s \ {First(s)} \subseteq s
  BY <1>2, <1>4
<1>6. f[s \ {First(s)}] = h[s \ {First(s)}]
  BY <1>2, <1>5
<1> QED  BY <1>2, <1>3, <1>6

\* The sum over groups is what any function that adds them up says.
LEMMA UsageAdds ==
    ASSUME NEW E, IsFiniteSet(E), NEW f, Adds(f, E)
    PROVE  UsageTotal(E) = f[E]
<1> DEFINE h == CHOOSE h : Adds(h, E)
<1>1. Adds(h, E)
  OBVIOUS
<1>2. UsageTotal(E) = h[E]
  BY DEF UsageTotal, MapThenSumSet, MapThenFoldSet, Adds, First
<1> HIDE DEF h
<1> QED  BY <1>1, <1>2, AddsUnique

\* Every document is counted in one group: the groups add up to their number.
LEMMA GroupsAddUp ==
    ASSUME NEW docs, IsFiniteSet(docs)
    PROVE  UsageTotal({<<t, CountOf(docs, "tenant", t)>> : t \in TenantsOf(docs)})
              = Cardinality(docs)
<1> DEFINE E == {<<t, CountOf(docs, "tenant", t)>> : t \in TenantsOf(docs)}
           Owned(s) == {u \in docs : \E g \in s : g[1] = u.tenant}
           f == [s \in SUBSET E |-> Cardinality(Owned(s))]
<1>1. IsFiniteSet(E)
  <2> DEFINE groupOf == [u \in docs |-> <<u.tenant, CountOf(docs, "tenant", u.tenant)>>]
  <2>1. E = {groupOf[u] : u \in docs}
    BY DEF TenantsOf
  <2>2. DOMAIN groupOf = docs
    OBVIOUS
  <2> HIDE DEF groupOf, E
  <2> QED  BY <2>1, <2>2, ImageSize
<1>2. ASSUME NEW s \in SUBSET E, s # {}
      PROVE  f[s] = First(s)[2] + f[s \ {First(s)}]
  <2> DEFINE g == First(s)
             rest == s \ {g}
  <2>1. g \in s
    BY <1>2 DEF First
  <2>2. g[2] = Cardinality(With(docs, "tenant", g[1]))
    <3>1. \A h \in E : h[2] = CountOf(docs, "tenant", h[1])
      OBVIOUS
    <3>2. g \in E
      BY <2>1
    <3> HIDE DEF E, g
    <3> QED  BY <3>1, <3>2 DEF CountOf, With
  <2>3. Owned(s) = With(docs, "tenant", g[1]) \cup Owned(rest)
    BY <2>1 DEF With
  <2>4. With(docs, "tenant", g[1]) \cap Owned(rest) = {}
    <3>1. \A h \in rest : h[1] # g[1]
      BY <2>1
    <3> QED  BY <3>1 DEF With
  <2>5. /\ IsFiniteSet(With(docs, "tenant", g[1]))
        /\ IsFiniteSet(Owned(rest))
    BY FS_Subset DEF With
  <2>6. Cardinality(Owned(s))
          = Cardinality(With(docs, "tenant", g[1])) + Cardinality(Owned(rest)) - 0
    BY <2>3, <2>4, <2>5, FS_Union, FS_EmptySet
  <2>7. Cardinality(Owned(rest)) \in Nat
    BY <2>5, FS_CardinalityType
  <2>8. rest \in SUBSET E
    OBVIOUS
  <2>9. f[s] = Cardinality(Owned(s)) /\ f[rest] = Cardinality(Owned(rest))
    BY <2>8
  <2>10. Cardinality(With(docs, "tenant", g[1])) \in Nat
    BY <2>5, FS_CardinalityType
  <2> HIDE DEF f, Owned
  <2>11. Cardinality(Owned(s))
          = Cardinality(With(docs, "tenant", g[1])) + Cardinality(Owned(rest))
    BY <2>6, <2>7, <2>10
  <2> QED  BY <2>2, <2>9, <2>11
<1>3. f[{}] = 0
  <2>1. Owned({}) = {}
    OBVIOUS
  <2> QED  BY <2>1, FS_EmptySet
<1>4. Adds(f, E)
  <2>1. f = [s \in SUBSET E |-> f[s]]
    OBVIOUS
  <2> HIDE DEF f, E
  <2> QED  BY <1>2, <1>3, <2>1 DEF Adds
<1>5. f[E] = Cardinality(docs)
  <2>1. \A u \in docs : <<u.tenant, CountOf(docs, "tenant", u.tenant)>> \in E
    BY DEF TenantsOf
  <2>2. \A u \in docs : \E g \in E : g[1] = u.tenant
    <3>1. TAKE u \in docs
    <3>2. <<u.tenant, CountOf(docs, "tenant", u.tenant)>>[1] = u.tenant
      OBVIOUS
    <3> QED  BY <2>1, <3>2
  <2>3. Owned(E) = docs
    BY <2>2
  <2>4. E \in SUBSET E
    OBVIOUS
  <2> QED  BY <2>3, <2>4
<1> HIDE DEF f, E
<1>6. UsageTotal(E) = Cardinality(docs)
  BY <1>1, <1>4, <1>5, UsageAdds
<1> QED  BY <1>6 DEF E
-------------------------------------------------------------------------------
(* The steps.                                                               *)

FieldNames == {"kind", "pc", "filter", "base", "first", "page", "limit", "rows", "seen",
               "count", "pending", "total", "blocked", "ips", "rules", "types",
               "totalUsers", "totalTenants", "activeUsers", "usage"}

\* The step changes these fields of the request only, and no collection.
Only(changed) ==
    /\ UNCHANGED <<logs, users, tenants>>
    /\ DOMAIN reader' = FieldNames
    /\ \A f \in FieldNames \ changed : reader'[f] = reader[f]

\* A collection grows by a document and nothing else changes.
Grows ==
    /\ reader' = reader
    /\ \/ \E d \in Logs \ logs : logs' = logs \cup {d} /\ UNCHANGED <<users, tenants>>
       \/ \E t \in Tenants \ tenants : tenants' = tenants \cup {t} /\ UNCHANGED <<logs, users>>
       \/ \E u \in Users \ users :
            u.tenant \in tenants /\ users' = users \cup {u} /\ UNCHANGED <<logs, tenants>>

\* A request comes in.
Begins ==
    /\ UNCHANGED <<logs, users, tenants>> /\ DOMAIN reader' = FieldNames
    /\ reader'.rows = {} /\ reader'.seen = {}
    /\ \/ /\ reader'.kind \in {"logs", "users"} /\ reader'.pc = "finding"
          /\ reader'.base = Collection' /\ reader'.pending = {}
          /\ reader'.page \in Nat \ {0} /\ reader'.first = reader'.page
          /\ reader'.limit \in Nat \ {0}
       \/ /\ reader'.kind = "stats" /\ reader'.pc = "stats"
          /\ reader'.base = Matching(logs, reader'.filter) /\ reader'.pending = Queries
          /\ reader'.limit = 1
       \/ /\ reader'.kind = "overview" /\ reader'.pc = "users"
          /\ reader'.base = logs \cup users /\ reader'.pending = {} /\ reader'.limit = 1

FindStep ==
    /\ Only({"pc", "rows", "seen"}) /\ reader.pc = "finding" /\ reader'.pc = "counting"
    /\ reader'.seen = reader.seen \cup reader'.rows
    /\ \E order \in Orders(Collection) :
         reader'.rows = Rows(order, reader.page, reader.limit)

AnswerStep(query, field) ==
    /\ Only({field, "pending", "pc"}) /\ query \in reader.pending
    /\ reader'.pending = reader.pending \ {query}
    /\ reader'.pc = IF reader.pending = {query} THEN "answered" ELSE "stats"

\* The fields of a request.
LEMMA Names == DOMAIN Nobody = FieldNames
BY DEF Nobody, FieldNames

\* An insert grows one collection.
LEMMA InsertGrows == Insert => Grows
BY DEF Insert, InsertLog, InsertTenant, InsertUser, Grows

\* A request is a new one, or for the next page.
LEMMA AskBegins ==
    ASSUME Shaped, Ask
    PROVE  \/ Begins
           \/ /\ Only({"pc", "page", "rows"}) /\ Paging /\ reader.pc = "answered"
              /\ reader'.pc = "finding" /\ reader'.page = reader.page + 1 /\ reader'.rows = {}
<1> USE Names DEF Shaped, Reads, FieldNames
<1>1. ASSUME NEW filter \in Filters, NEW page \in 1..MaxPage, NEW limit \in Limits,
             findAll(filter, page, limit)
      PROVE  Begins
  <2>1. /\ UNCHANGED <<logs, users, tenants>> /\ DOMAIN reader' = FieldNames
        /\ reader'.rows = {} /\ reader'.seen = {} /\ reader'.pending = {}
        /\ reader'.kind = "logs" /\ reader'.pc = "finding"
        /\ reader'.page = page /\ reader'.first = page /\ reader'.limit = limit
        /\ reader'.filter = filter /\ reader'.base = Matching(logs, filter)
    BY <1>1 DEF findAll, Nobody
  <2>2. page \in Nat \ {0} /\ limit \in Nat \ {0}
    BY QueriesAssumption
  <2>3. reader'.base = Collection'
    BY <2>1 DEF Collection
  <2> QED  BY <2>1, <2>2, <2>3 DEF Begins
<1>2. ASSUME NEW page \in 1..MaxPage, NEW limit \in Limits, getAllUsers(page, limit)
      PROVE  Begins
  BY <1>2, QueriesAssumption DEF getAllUsers, Begins, Collection, Nobody
<1>3. ASSUME NEW filter \in Filters, getStats(filter) PROVE Begins
  BY <1>3 DEF getStats, Begins, Nobody
<1>4. ASSUME getAdminDashboard PROVE Begins
  BY <1>4 DEF getAdminDashboard, Begins, Nobody
<1>5. ASSUME NextPage
      PROVE  /\ Only({"pc", "page", "rows"}) /\ Paging /\ reader.pc = "answered"
             /\ reader'.pc = "finding" /\ reader'.page = reader.page + 1 /\ reader'.rows = {}
  BY <1>5 DEF NextPage, Only, Paging
<1> QED  BY <1>1, <1>2, <1>3, <1>4, <1>5 DEF Ask

\* One page is found.
LEMMA FindIsStep == Shaped /\ Find => FindStep
BY Names DEF Shaped, Reads, FieldNames, Find, FindStep, Only

\* Its total is counted.
LEMMA CountIsStep ==
    Shaped /\ Count =>
        /\ Only({"pc", "count"}) /\ reader.pc = "counting" /\ reader'.pc = "answered"
        /\ reader'.count = Cardinality(Collection)
BY Names DEF Shaped, Reads, FieldNames, Count, Only

\* One of the five queries of the statistics is answered.
LEMMA AnswerIsStep ==
    ASSUME Shaped
    PROVE  /\ CountTotal =>
                AnswerStep("total", "total")
                /\ reader'.total = Cardinality(Matching(logs, reader.filter))
           /\ CountBlocked =>
                AnswerStep("blocked", "blocked")
                /\ reader'.blocked = Cardinality(Blocked(reader.filter))
           /\ TopBlockedIps =>
                AnswerStep("ips", "ips")
                /\ reader'.ips \in Tops(Grouped(Blocked(reader.filter), "ip"))
           /\ TopBlockedRules =>
                AnswerStep("rules", "rules")
                /\ reader'.rules \in Tops(Grouped(Blocked(reader.filter), "rule"))
           /\ AttackTypes =>
                AnswerStep("types", "types")
                /\ reader'.types = Grouped(Matching(logs, reader.filter), "type")
<1> USE Names DEF Shaped, Reads, FieldNames, AnswerStep, Only, Answer
<1>1. CountTotal =>
        AnswerStep("total", "total")
        /\ reader'.total = Cardinality(Matching(logs, reader.filter))
  BY DEF CountTotal
<1>2. CountBlocked =>
        AnswerStep("blocked", "blocked")
        /\ reader'.blocked = Cardinality(Blocked(reader.filter))
  BY DEF CountBlocked
<1>3. TopBlockedIps =>
        AnswerStep("ips", "ips")
        /\ reader'.ips \in Tops(Grouped(Blocked(reader.filter), "ip"))
  BY DEF TopBlockedIps
<1>4. TopBlockedRules =>
        AnswerStep("rules", "rules")
        /\ reader'.rules \in Tops(Grouped(Blocked(reader.filter), "rule"))
  BY DEF TopBlockedRules
<1>5. AttackTypes =>
        AnswerStep("types", "types")
        /\ reader'.types = Grouped(Matching(logs, reader.filter), "type")
  BY DEF AttackTypes
<1> QED  BY <1>1, <1>2, <1>3, <1>4, <1>5

\* One of the dashboard's reads.
OverviewStep(from, to, field) ==
    /\ Only({"pc", field}) /\ reader.pc = from /\ reader'.pc = to
OverviewSteps ==
    \/ OverviewStep("users", "tenants", "totalUsers")
       /\ reader'.totalUsers = Cardinality(users)
    \/ OverviewStep("tenants", "active", "totalTenants")
       /\ reader'.totalTenants = Cardinality(tenants)
    \/ OverviewStep("active", "stats", "activeUsers")
    \/ OverviewStep("stats", "usage", "pc") /\ reader.kind = "overview"
    \/ OverviewStep("usage", "answered", "usage")
       /\ reader'.usage = {g \in Grouped(users, "tenant") : g[1] \in tenants}

\* The dashboard reads one figure at a time.
LEMMA OverviewIsStep ==
    ASSUME Shaped, CountUsers \/ CountTenants \/ CountActive \/ AwaitStats \/ TenantUsage
    PROVE  OverviewSteps
<1> USE Names DEF Shaped, Reads, FieldNames, OverviewStep, Only
<1>1. CountUsers => OverviewSteps
  BY DEF CountUsers, OverviewSteps
<1>2. CountTenants => OverviewSteps
  BY DEF CountTenants, OverviewSteps
<1>3. CountActive => OverviewSteps
  BY DEF CountActive, OverviewSteps
<1>4. AwaitStats => OverviewSteps
  BY DEF AwaitStats, OverviewSteps
<1>5. TenantUsage => OverviewSteps
  BY DEF TenantUsage, OverviewSteps
<1> QED  BY <1>1, <1>2, <1>3, <1>4, <1>5

\* The next page is asked for; the total of a page is counted.
NextPageStep ==
    /\ Only({"pc", "page", "rows"}) /\ Paging /\ reader.pc = "answered"
    /\ reader'.pc = "finding" /\ reader'.page = reader.page + 1 /\ reader'.rows = {}
CountStep ==
    /\ Only({"pc", "count"}) /\ reader.pc = "counting" /\ reader'.pc = "answered"
    /\ reader'.count = Cardinality(Collection)
StatStep ==
    \/ AnswerStep("total", "total")
       /\ reader'.total = Cardinality(Matching(logs, reader.filter))
    \/ AnswerStep("blocked", "blocked")
       /\ reader'.blocked = Cardinality(Blocked(reader.filter))
    \/ AnswerStep("ips", "ips")
       /\ reader'.ips \in Tops(Grouped(Blocked(reader.filter), "ip"))
    \/ AnswerStep("rules", "rules")
       /\ reader'.rules \in Tops(Grouped(Blocked(reader.filter), "rule"))
    \/ AnswerStep("types", "types")
       /\ reader'.types = Grouped(Matching(logs, reader.filter), "type")

\* Every step is of one of these kinds.
LEMMA StepKinds ==
    ASSUME Shaped, [Next]_vars
    PROVE  \/ UNCHANGED vars \/ Grows \/ Begins \/ NextPageStep
           \/ FindStep \/ CountStep \/ StatStep \/ OverviewSteps
<1>1. Ask => Begins \/ NextPageStep
  BY AskBegins DEF NextPageStep
<1>2. CountTotal \/ CountBlocked \/ TopBlockedIps \/ TopBlockedRules \/ AttackTypes
        => StatStep
  BY AnswerIsStep DEF StatStep
<1>3. Read => FindStep \/ CountStep \/ StatStep \/ OverviewSteps
  BY <1>2, FindIsStep, CountIsStep, OverviewIsStep DEF Read, CountStep
<1> QED  BY <1>1, <1>3, InsertGrows DEF Next

\* A step of the reader's leaves the collection it reads as it is.
LEMMA SameCollection ==
    ASSUME NEW changed, Only(changed), "kind" \notin changed, "filter" \notin changed
    PROVE  /\ reader'.kind = reader.kind /\ reader'.filter = reader.filter
           /\ Collection' = Collection
           /\ Matching(logs, reader.filter)' = Matching(logs, reader.filter)
           /\ Blocked(reader.filter)' = Blocked(reader.filter)
<1>1. /\ logs' = logs /\ users' = users
      /\ reader'.kind = reader.kind /\ reader'.filter = reader.filter
  BY DEF Only, FieldNames
<1> QED  BY <1>1 DEF Collection, Matching, Blocked

\* An insert only adds to them.
LEMMA CollectionGrows ==
    ASSUME TypeOK, Finite, Grows
    PROVE  /\ logs \subseteq logs' /\ users \subseteq users' /\ tenants \subseteq tenants'
           /\ Collection \subseteq Collection'
           /\ Matching(logs, reader.filter) \subseteq Matching(logs, reader.filter)'
           /\ Blocked(reader.filter) \subseteq Blocked(reader.filter)'
           /\ Finite'
<1>1. logs \subseteq logs' /\ users \subseteq users' /\ tenants \subseteq tenants'
  BY DEF Grows
<1>2. Matching(logs, reader.filter) \subseteq Matching(logs, reader.filter)'
  BY <1>1 DEF Grows, Matching
<1>3. Blocked(reader.filter) \subseteq Blocked(reader.filter)'
  BY <1>1 DEF Grows, Matching, Blocked
<1>4. Collection \subseteq Collection'
  BY <1>1 DEF Grows, Matching, Collection
<1>5. Finite'
  BY FS_AddElement DEF Grows, Finite
<1> QED  BY <1>1, <1>2, <1>3, <1>4, <1>5

\* What is read is finite, of the collections, and has times.
LEMMA Collections ==
    ASSUME TypeOK, Finite
    PROVE  /\ IsFiniteSet(Collection) /\ Collection \subseteq logs \cup users
           /\ \A d \in Collection : d.time \in Nat
           /\ IsFiniteSet(Matching(logs, reader.filter))
           /\ Matching(logs, reader.filter) \subseteq logs
           /\ Blocked(reader.filter) \subseteq Matching(logs, reader.filter)
           /\ IsFiniteSet(Blocked(reader.filter))
<1>1. /\ Collection \subseteq logs \cup users
      /\ Collection = users \/ Collection = Matching(logs, reader.filter)
      /\ Matching(logs, reader.filter) \subseteq logs
      /\ Blocked(reader.filter) \subseteq Matching(logs, reader.filter)
  BY DEF Collection, Matching, Blocked
<1>2. IsFiniteSet(Matching(logs, reader.filter))
  BY <1>1, FS_Subset DEF Finite
<1>3. IsFiniteSet(Blocked(reader.filter))
  BY <1>1, <1>2, FS_Subset
<1>4. \A d \in Collection : d.time \in Nat
  BY <1>1, QueriesAssumption DEF TypeOK
<1> QED  BY <1>1, <1>2, <1>3, <1>4 DEF Finite
-------------------------------------------------------------------------------
(* The invariant, one part after the other.                                 *)

\* One page is found, of the collection and within its limit.
LEMMA PageFound ==
    ASSUME TypeOK, Finite, KindInv, Paging, FindStep
    PROVE  /\ reader'.rows \subseteq Collection
           /\ Cardinality(reader'.rows) <= reader.limit
           /\ reader'.rows # {} =>
                (reader.page - 1) * reader.limit + Cardinality(reader'.rows)
                   <= Cardinality(Collection)
<1>1. PICK order \in Orders(Collection) :
            reader'.rows = Rows(order, reader.page, reader.limit)
  BY DEF FindStep
<1>2. reader.page \in Nat \ {0} /\ reader.limit \in Nat \ {0}
  BY DEF KindInv
<1>3. IsFiniteSet(Collection)
  BY Collections
<1> QED  BY <1>1, <1>2, <1>3, RowsOfPage

\* A page is found, or counted, for a pager.
LEMMA PagesArePaged ==
    TypeOK /\ KindInv /\ reader.pc \in {"finding", "counting"} => Paging
BY DEF TypeOK, KindInv, Paging

\* The initial state is idle and empty.
LEMMA StateInit == Init => TypeOK /\ Finite /\ Shaped /\ KindInv /\ BaseInv
<1> SUFFICES ASSUME Init PROVE TypeOK /\ Finite /\ Shaped /\ KindInv /\ BaseInv
  OBVIOUS
<1>1. Cardinality({}) = 0 /\ IsFiniteSet({})
  BY FS_EmptySet
<1>2. reader = Nobody /\ logs = {} /\ users = {} /\ tenants = {}
  BY DEF Init
<1>3. TypeOK
  BY <1>1, <1>2 DEF TypeOK, Nobody, Queries
<1> QED  BY <1>1, <1>2, <1>3 DEF Finite, Shaped, KindInv, BaseInv, Nobody, Paging

\* The types, the course of each kind of request, and its base.
LEMMA StateStep ==
    ASSUME TypeOK, Finite, Shaped, KindInv, BaseInv, [Next]_vars
    PROVE  TypeOK' /\ Finite' /\ Shaped' /\ KindInv' /\ BaseInv'
<1> DEFINE StateInv == TypeOK /\ Finite /\ Shaped /\ KindInv /\ BaseInv
<1>1. CASE UNCHANGED vars
  BY <1>1 DEF vars, TypeOK, Finite, Shaped, KindInv, BaseInv, Nobody, Paging, Collection
<1>2. ASSUME Grows PROVE StateInv'
  <2>1. TypeOK'
    BY <1>2 DEF TypeOK, Grows
  <2>2. Shaped' /\ KindInv'
    BY <1>2 DEF Grows, Shaped, KindInv, Paging, Nobody
  <2>3. BaseInv'
    BY <1>2, CollectionGrows DEF Grows, BaseInv, Paging
  <2> QED  BY <1>2, <2>1, <2>2, <2>3, CollectionGrows
<1>3. ASSUME Begins PROVE StateInv'
  <2>1. TypeOK'
    BY <1>3, FS_EmptySet DEF TypeOK, Begins, Queries
  <2>2. Finite' /\ Shaped' /\ KindInv'
    BY <1>3, Names DEF Begins, Finite, Shaped, KindInv, Paging
  <2>3. BaseInv'
    BY <1>3 DEF Begins, BaseInv, Paging
  <2> QED  BY <2>1, <2>2, <2>3
<1>4. ASSUME NEW changed, Only(changed),
             changed \cap {"kind", "filter", "base", "limit"} = {},
             TypeOK', (Paging => reader'.page \in Nat \ {0}),
             reader'.kind = reader.kind =>
               /\ reader.kind = "none" => reader'.pc = "idle"
               /\ Paging => reader'.pc \in {"finding", "counting", "answered"}
               /\ reader.kind = "stats" => reader'.pc \in {"stats", "answered"}
               /\ reader.kind = "overview" =>
                    reader'.pc \in {"users", "tenants", "active", "stats", "usage", "answered"}
      PROVE  StateInv'
  <2>1. /\ reader'.kind = reader.kind /\ reader'.limit = reader.limit
        /\ reader'.base = reader.base
        /\ logs' = logs /\ users' = users /\ tenants' = tenants
        /\ DOMAIN reader' = FieldNames
    BY <1>4 DEF Only, FieldNames
  <2>2. /\ Collection' = Collection
        /\ Matching(logs, reader.filter)' = Matching(logs, reader.filter)
    BY <1>4, SameCollection
  <2>3. KindInv'
    BY <1>4, <2>1 DEF KindInv, Paging
  <2>4. Finite' /\ Shaped'
    BY <2>1, Names DEF Finite, Shaped
  <2>5. BaseInv'
    BY <2>1, <2>2 DEF BaseInv, Paging
  <2> QED  BY <1>4, <2>3, <2>4, <2>5
<1>5. ASSUME NextPageStep PROVE StateInv'
  <2>1. /\ \A f \in FieldNames \ {"pc", "page", "rows"} : reader'[f] = reader[f]
        /\ UNCHANGED <<logs, users, tenants>>
        /\ reader'.rows = {} /\ reader'.pc = "finding"
    BY <1>5 DEF NextPageStep, Only
  <2>2. /\ reader'.kind = reader.kind /\ reader'.seen = reader.seen
        /\ reader'.limit = reader.limit /\ reader'.pending = reader.pending
    BY <2>1 DEF FieldNames
  <2>3. TypeOK'
    BY <1>5, <2>1, <2>2, FS_EmptySet DEF TypeOK, KindInv, NextPageStep, Paging
  <2>4. reader'.page \in Nat \ {0} /\ reader.kind \in {"logs", "users"}
    BY <1>5 DEF NextPageStep, KindInv, Paging
  <2> QED  BY <1>4, <1>5, <2>1, <2>3, <2>4 DEF NextPageStep, Paging
<1>6. ASSUME FindStep PROVE StateInv'
  <2>1. Paging
    BY <1>6, PagesArePaged DEF FindStep
  <2>2. /\ \A f \in FieldNames \ {"pc", "rows", "seen"} : reader'[f] = reader[f]
        /\ UNCHANGED <<logs, users, tenants>>
        /\ reader'.pc = "counting" /\ reader'.seen = reader.seen \cup reader'.rows
    BY <1>6 DEF FindStep, Only
  <2>3. /\ reader'.kind = reader.kind /\ reader'.page = reader.page
        /\ reader'.limit = reader.limit /\ reader'.pending = reader.pending
    BY <2>2 DEF FieldNames
  <2>4. TypeOK'
    BY <1>6, <2>1, <2>2, <2>3, PageFound, Collections DEF TypeOK, Paging
  <2>5. Only({"pc", "rows", "seen"}) /\ reader'.page \in Nat \ {0}
    BY <1>6, <2>1, <2>3 DEF FindStep, KindInv
  <2> QED  BY <1>4, <2>1, <2>2, <2>4, <2>5 DEF Paging
<1>7. ASSUME CountStep PROVE StateInv'
  <2>1. Paging
    BY <1>7, PagesArePaged DEF CountStep
  <2>2. /\ \A f \in FieldNames \ {"pc", "count"} : reader'[f] = reader[f]
        /\ UNCHANGED <<logs, users, tenants>>
        /\ reader'.pc = "answered"
    BY <1>7 DEF CountStep, Only
  <2>3. /\ reader'.kind = reader.kind /\ reader'.page = reader.page
        /\ reader'.limit = reader.limit /\ reader'.pending = reader.pending
        /\ reader'.rows = reader.rows /\ reader'.seen = reader.seen
    BY <2>2 DEF FieldNames
  <2>4. TypeOK'
    BY <2>1, <2>2, <2>3 DEF TypeOK, Paging
  <2>5. Only({"pc", "count"}) /\ reader'.page \in Nat \ {0}
    BY <1>7, <2>1, <2>3 DEF CountStep, KindInv
  <2> QED  BY <1>4, <2>1, <2>2, <2>4, <2>5 DEF Paging
<1>8. ASSUME NEW query, NEW field \in {"total", "blocked", "ips", "rules", "types"},
             AnswerStep(query, field)
      PROVE  StateInv'
  <2>1. reader.kind = "stats" /\ reader.pc = "stats"
    BY <1>8 DEF AnswerStep, TypeOK
  <2>2. /\ \A f \in FieldNames \ {field, "pending", "pc"} : reader'[f] = reader[f]
        /\ UNCHANGED <<logs, users, tenants>>
        /\ reader'.pending = reader.pending \ {query}
        /\ reader'.pc = IF reader.pending = {query} THEN "answered" ELSE "stats"
    BY <1>8 DEF AnswerStep, Only
  <2>3. /\ reader'.kind = reader.kind /\ reader'.limit = reader.limit
        /\ reader'.rows = reader.rows /\ reader'.seen = reader.seen
    BY <2>2 DEF FieldNames
  <2>4. (reader'.pc = "stats") = (reader'.pending # {})
    BY <1>8, <2>2 DEF AnswerStep
  <2>5. TypeOK'
    BY <2>1, <2>2, <2>3, <2>4 DEF TypeOK
  <2>6. Only({field, "pending", "pc"}) /\ ~Paging
    BY <1>8, <2>1 DEF AnswerStep, Paging
  <2> QED  BY <1>4, <2>1, <2>2, <2>5, <2>6
<1>9. ASSUME NEW from, NEW to \in {"tenants", "active", "stats", "usage", "answered"},
             NEW field \in {"totalUsers", "totalTenants", "activeUsers", "pc", "usage"},
             OverviewStep(from, to, field), reader.kind = "overview"
      PROVE  StateInv'
  <2>1. /\ \A f \in FieldNames \ {"pc", field} : reader'[f] = reader[f]
        /\ UNCHANGED <<logs, users, tenants>>
        /\ reader'.pc = to
    BY <1>9 DEF OverviewStep, Only
  <2>2. /\ reader'.kind = reader.kind /\ reader'.limit = reader.limit
        /\ reader'.rows = reader.rows /\ reader'.seen = reader.seen
        /\ reader'.pending = reader.pending
    BY <2>1 DEF FieldNames
  <2>3. TypeOK'
    BY <1>9, <2>1, <2>2 DEF TypeOK
  <2>4. Only({"pc", field}) /\ ~Paging
    BY <1>9 DEF OverviewStep, Paging
  <2> QED  BY <1>4, <1>9, <2>1, <2>3, <2>4
<1>10. ASSUME OverviewSteps PROVE StateInv'
  <2>1. reader.kind = "overview"
    BY <1>10 DEF OverviewSteps, OverviewStep, KindInv, TypeOK, Paging
  <2> QED  BY <1>9, <1>10, <2>1 DEF OverviewSteps
<1>11. ASSUME StatStep PROVE StateInv'
  BY <1>8, <1>11 DEF StatStep
<1> QED  BY <1>1, <1>2, <1>3, <1>5, <1>6, <1>7, <1>10, <1>11, StepKinds

\* So the collection a pager reads is finite after a step, too.
LEMMA StateStepFinite ==
    ASSUME TypeOK, Finite, Shaped, KindInv, BaseInv, [Next]_vars
    PROVE  /\ IsFiniteSet(Collection') /\ \A d \in Collection' : d.time \in Nat
           /\ IsFiniteSet(Matching(logs, reader.filter)')
           /\ IsFiniteSet(Blocked(reader.filter)')
<1>1. TypeOK' /\ Finite'
  BY StateStep
<1>2. /\ Collection' \subseteq logs' \cup users'
      /\ Matching(logs, reader.filter)' \subseteq logs'
      /\ Blocked(reader.filter)' \subseteq logs'
      /\ Collection' = users' \/ Collection' \subseteq logs'
  BY DEF Collection, Matching, Blocked
<1>3. \A d \in Collection' : d.time \in Nat
  BY <1>1, <1>2, QueriesAssumption DEF TypeOK
<1>4. /\ IsFiniteSet(Matching(logs, reader.filter)')
      /\ IsFiniteSet(Blocked(reader.filter)')
      /\ IsFiniteSet(Collection')
  BY <1>1, <1>2, Sizes DEF Finite
<1> QED  BY <1>3, <1>4

\* Other steps of a request than a pager's do not concern pages.
LEMMA NoPager ==
    ASSUME TypeOK, KindInv, StatStep \/ OverviewSteps
    PROVE  ~Paging /\ ~Paging'
<1>1. ASSUME NEW query, NEW field \in {"total", "blocked", "ips", "rules", "types"},
             AnswerStep(query, field)
      PROVE  reader.kind = "stats" /\ reader'.kind = "stats"
  BY <1>1 DEF AnswerStep, TypeOK, Only, FieldNames
<1>2. StatStep => reader.kind = "stats" /\ reader'.kind = "stats"
  BY <1>1 DEF StatStep
<1>3. ASSUME NEW from \in {"users", "tenants", "active", "stats", "usage"}, NEW to,
             NEW field \in {"totalUsers", "totalTenants", "activeUsers", "pc", "usage"},
             OverviewStep(from, to, field), from = "stats" => reader.kind = "overview"
      PROVE  reader.kind = "overview" /\ reader'.kind = "overview"
  BY <1>3 DEF OverviewStep, TypeOK, KindInv, Paging, Only, FieldNames
<1>4. OverviewSteps => reader.kind = "overview" /\ reader'.kind = "overview"
  BY <1>3 DEF OverviewSteps
<1> QED  BY <1>2, <1>4 DEF Paging

\* The rows of a page, and its total.
LEMMA PageStep ==
    ASSUME TypeOK, Finite, Shaped, KindInv, BaseInv, PageInv, [Next]_vars
    PROVE  PageInv'
<1>1. CASE UNCHANGED vars
  BY <1>1 DEF vars, PageInv, Paging, Collection, Within
<1>2. ASSUME Grows PROVE PageInv'
  <2>1. Collection \subseteq Collection' /\ reader' = reader
    BY <1>2, CollectionGrows DEF Grows
  <2>2. /\ Cardinality(Collection) \in Nat /\ Cardinality(Collection') \in Nat
        /\ Cardinality(Collection) <= Cardinality(Collection')
    BY <1>2, <2>1, CollectionGrows, Collections, Sizes, StateStepFinite
  <2> SUFFICES ASSUME Paging PROVE PageInv'
    BY <2>1 DEF PageInv, Paging
  <2>3. (reader.page - 1) * reader.limit \in Nat
    BY PageEnds DEF KindInv
  <2>4. reader.rows \subseteq Collection /\ Cardinality(reader.rows) \in Nat
    BY Collections, Sizes DEF PageInv
  <2>5. Within(Cardinality(Collection)) => Within(Cardinality(Collection'))
    BY <2>2, <2>3, <2>4 DEF Within
  <2> QED  BY <2>1, <2>4, <2>5 DEF PageInv, Within
<1>3. ASSUME Begins PROVE PageInv'
  BY <1>3 DEF Begins, PageInv, Paging
<1>4. ASSUME NextPageStep PROVE PageInv'
  <2>1. Collection' = Collection /\ reader'.kind = reader.kind
    BY <1>4, SameCollection DEF NextPageStep
  <2> QED  BY <1>4, <2>1 DEF NextPageStep, PageInv, Paging
<1>5. ASSUME FindStep PROVE PageInv'
  <2>1. Paging
    BY <1>5, PagesArePaged DEF FindStep
  <2>2. Collection' = Collection /\ reader'.kind = reader.kind
    BY <1>5, SameCollection DEF FindStep
  <2>3. reader'.pc = "counting" /\ reader'.page = reader.page /\ reader'.limit = reader.limit
    BY <1>5 DEF FindStep, Only, FieldNames
  <2> QED  BY <1>5, <2>1, <2>2, <2>3, PageFound DEF PageInv, Within
<1>6. ASSUME CountStep PROVE PageInv'
  <2>1. Paging /\ PageInv
    BY <1>6, PagesArePaged DEF CountStep
  <2>2. Collection' = Collection /\ reader'.kind = reader.kind
    BY <1>6, SameCollection DEF CountStep
  <2>3. /\ reader'.page = reader.page /\ reader'.limit = reader.limit
        /\ reader'.rows = reader.rows
        /\ reader.pc = "counting" /\ reader'.pc = "answered"
        /\ reader'.count = Cardinality(Collection)
    BY <1>6 DEF CountStep, Only, FieldNames
  <2>4. Cardinality(Collection) \in Nat
    BY Collections, FS_CardinalityType
  <2> QED  BY <2>1, <2>2, <2>3, <2>4 DEF PageInv, Within
<1>7. ASSUME StatStep \/ OverviewSteps PROVE PageInv'
  BY <1>7, NoPager DEF PageInv
<1> QED  BY <1>1, <1>2, <1>3, <1>4, <1>5, <1>6, <1>7, StepKinds

\* What the reader of successive pages has not met is yet to come.
LEMMA SeenStep ==
    ASSUME TypeOK, Finite, Shaped, KindInv, BaseInv, SeenInv, [Next]_vars
    PROVE  SeenInv'
<1> USE DEF SeenInv
<1>1. CASE UNCHANGED vars
  BY <1>1 DEF vars, Paging, Collection, Missed, PagesRead
<1>2. ASSUME Grows, Paging, reader.first = 1 PROVE SeenInv'
  <2>1. Collection \subseteq Collection' /\ reader' = reader
    BY <1>2, CollectionGrows DEF Grows
  <2>2. Missed' \subseteq Missed
    BY <2>1 DEF Missed, Single
  <2>3. ASSUME NEW d
        PROVE  /\ Cardinality(Newer(d, Collection)) \in Nat
               /\ Cardinality(Newer(d, Collection')) \in Nat
               /\ Cardinality(Newer(d, Collection)) <= Cardinality(Newer(d, Collection'))
    <3>1. IsFiniteSet(Newer(d, Collection'))
      BY <1>2, CollectionGrows, StateStepFinite, Sizes DEF Newer
    <3>2. Newer(d, Collection) \subseteq Newer(d, Collection')
      BY <2>1 DEF Newer
    <3> QED  BY <3>1, <3>2, Sizes
  <2>4. PagesRead' = PagesRead /\ PagesRead * reader.limit \in Int
    BY <1>2, <2>1 DEF PagesRead, KindInv
  <2>5. \A d \in Missed' :
           PagesRead * reader.limit <= Cardinality(Newer(d, Collection'))
    BY <1>2, <2>2, <2>3, <2>4
  <2> QED  BY <1>2, <2>1, <2>2, <2>4, <2>5 DEF Paging
<1>3. ASSUME Begins PROVE SeenInv'
  <2> SUFFICES ASSUME Paging', reader'.first = 1
               PROVE  /\ \A d \in Missed' :
                            PagesRead' * reader'.limit <= Cardinality(Newer(d, Collection'))
                      /\ reader'.pc # "answered"
    OBVIOUS
  <2>1. reader'.pc = "finding" /\ reader'.page = 1 /\ reader'.limit \in Nat
    BY <1>3 DEF Begins, Paging
  <2>2. PagesRead' * reader'.limit = 0
    BY <2>1 DEF PagesRead
  <2>3. \A d : Cardinality(Newer(d, Collection')) \in Nat
    BY <1>3, StateStepFinite, Sizes DEF Newer
  <2> QED  BY <2>1, <2>2, <2>3
<1>4. ASSUME NEW changed \in SUBSET {"pc", "page", "rows", "count"}, Only(changed)
      PROVE  /\ Collection' = Collection /\ Missed' = Missed
             /\ Paging' = Paging /\ reader'.first = reader.first
             /\ reader'.limit = reader.limit
  <2>1. Collection' = Collection /\ reader'.kind = reader.kind
    BY <1>4, SameCollection
  <2>2. /\ reader'.base = reader.base /\ reader'.seen = reader.seen
        /\ reader'.first = reader.first /\ reader'.limit = reader.limit
    BY <1>4 DEF Only, FieldNames
  <2> QED  BY <2>1, <2>2 DEF Missed, Paging
<1>5. ASSUME NextPageStep, Paging, reader.first = 1 PROVE SeenInv'
  <2>1. PagesRead' = PagesRead /\ reader'.pc = "finding"
    BY <1>5 DEF NextPageStep, PagesRead, KindInv
  <2>2. /\ Collection' = Collection /\ Missed' = Missed /\ reader'.limit = reader.limit
    BY <1>4, <1>5 DEF NextPageStep
  <2> QED  BY <1>5, <2>1, <2>2
<1>6. ASSUME FindStep, Paging, reader.first = 1 PROVE SeenInv'
  <2>1. /\ Collection' = Collection /\ reader'.kind = reader.kind
        /\ reader'.base = reader.base /\ reader'.seen = reader.seen \cup reader'.rows
        /\ reader'.page = reader.page /\ reader'.limit = reader.limit
        /\ reader.pc = "finding" /\ reader'.pc = "counting"
    BY <1>6, SameCollection DEF FindStep, Only, FieldNames
  <2>2. PICK order \in Orders(Collection) :
              reader'.rows = Rows(order, reader.page, reader.limit)
    BY <1>6 DEF FindStep
  <2>3. ASSUME NEW d \in Missed'
        PROVE  reader.page * reader.limit <= Cardinality(Newer(d, Collection))
    <3> DEFINE k == Cardinality(Newer(d, Collection)) + 1
    <3>1. d \in Missed /\ d \in Collection /\ Single(d, Collection) /\ d \notin reader'.rows
      BY <1>6, <2>1 DEF Missed, BaseInv
    <3>2. k \in DOMAIN order /\ order[k] = d
      BY <3>1, Collections, Rank
    <3>3. (reader.page - 1) * reader.limit <= Cardinality(Newer(d, Collection))
      BY <1>6, <2>1, <3>1 DEF PagesRead
    <3>4. /\ (reader.page - 1) * reader.limit \in Nat /\ reader.page * reader.limit \in Nat
      BY <1>6, PageEnds DEF KindInv
    <3>5. Cardinality(Newer(d, Collection)) \in Nat
      BY Collections, Sizes DEF Newer
    <3>6. ~(k > (reader.page - 1) * reader.limit /\ k <= reader.page * reader.limit)
      BY <2>2, <3>1, <3>2 DEF Rows
    <3> QED  BY <3>3, <3>4, <3>5, <3>6
  <2>4. PagesRead' = reader.page
    BY <2>1 DEF PagesRead
  <2> QED  BY <2>1, <2>3, <2>4
<1>7. ASSUME CountStep, Paging, reader.first = 1 PROVE SeenInv'
  <2>1. /\ Collection' = Collection /\ Missed' = Missed /\ reader'.limit = reader.limit
    BY <1>4, <1>7 DEF CountStep
  <2>2. /\ reader'.page = reader.page /\ reader.pc = "counting" /\ reader'.pc = "answered"
        /\ reader'.count = Cardinality(Collection)
    BY <1>7 DEF CountStep, Only, FieldNames
  <2>3. PagesRead' = PagesRead /\ PagesRead = reader.page
    BY <2>2 DEF PagesRead
  <2>4. ASSUME NEW d \in Missed
        PROVE  reader.page * reader.limit < Cardinality(Collection)
    <3>1. d \in Collection
      BY <1>7 DEF Missed, BaseInv
    <3>2. d.time \in Nat /\ IsFiniteSet(Collection)
      BY <3>1, Collections
    <3>3. Newer(d, Collection) \subseteq Collection /\ d \notin Newer(d, Collection)
      BY <3>2 DEF Newer
    <3>4. Cardinality(Newer(d, Collection)) # Cardinality(Collection)
      BY <3>1, <3>2, <3>3, FS_Subset
    <3>5. /\ Cardinality(Newer(d, Collection)) <= Cardinality(Collection)
          /\ Cardinality(Newer(d, Collection)) \in Nat /\ Cardinality(Collection) \in Nat
      BY <3>2, <3>3, Sizes
    <3>6. reader.page * reader.limit <= Cardinality(Newer(d, Collection))
      BY <1>7, <2>3
    <3>7. reader.page * reader.limit \in Nat
      BY <1>7, PageEnds DEF KindInv
    <3> QED  BY <3>4, <3>5, <3>6, <3>7
  <2>5. /\ Cardinality(Collection) \in Nat /\ reader.page * reader.limit \in Nat
    BY <1>7, Collections, FS_CardinalityType, PageEnds DEF KindInv
  <2>6. Cardinality(Collection) <= reader.page * reader.limit => Missed = {}
    BY <2>4, <2>5
  <2> QED  BY <1>7, <2>1, <2>2, <2>3, <2>6
<1>8. ASSUME StatStep \/ OverviewSteps PROVE SeenInv'
  BY <1>8, NoPager
<1>9. ASSUME Grows \/ NextPageStep \/ FindStep \/ CountStep, Paging', reader'.first = 1
      PROVE  Paging /\ reader.first = 1
  <2>1. reader'.kind = reader.kind /\ reader'.first = reader.first
    BY <1>9 DEF Grows, NextPageStep, FindStep, CountStep, Only, FieldNames
  <2> QED  BY <1>9, <2>1 DEF Paging
<1> QED  BY <1>1, <1>2, <1>3, <1>5, <1>6, <1>7, <1>8, <1>9, StepKinds
-------------------------------------------------------------------------------
(* The statistics.                                                          *)

\* With more documents of now, a number that was in the window still is.
LEMMA WindowGrows ==
    ASSUME NEW old, NEW new, NEW later, IsFiniteSet(later), new \subseteq later
    PROVE  /\ \A n : InWindow(n, old, new) => InWindow(n, old, later)
           /\ \A list, field : Listed(list, field, old, new) => Listed(list, field, old, later)
<1>0. \A S, T : S \subseteq T /\ T \subseteq later =>
        \A n, U : InWindow(n, U, S) => InWindow(n, U, T)
  <2> SUFFICES ASSUME NEW S, NEW T, S \subseteq T, T \subseteq later
               PROVE  \A n, U : InWindow(n, U, S) => InWindow(n, U, T)
    OBVIOUS
  <2>1. Cardinality(S) \in Nat /\ Cardinality(T) \in Nat /\ Cardinality(S) <= Cardinality(T)
    BY Sizes
  <2> QED  BY <2>1 DEF InWindow
<1>1. \A n : InWindow(n, old, new) => InWindow(n, old, later)
  BY <1>0
<1>2. \A field, value : /\ With(new, field, value) \subseteq With(later, field, value)
                        /\ With(later, field, value) \subseteq later
  BY DEF With
<1>3. \A list, field : Listed(list, field, old, new) => Listed(list, field, old, later)
  BY <1>0, <1>2 DEF Listed
<1> QED  BY <1>1, <1>3

\* A number of the documents there now is in the window.
LEMMA WindowOfNow ==
    ASSUME NEW new, IsFiniteSet(new), NEW old \in SUBSET new
    PROVE  InWindow(Cardinality(new), old, new)
BY Sizes DEF InWindow

\* The groups of now count what there is of each value, and every value has one.
LEMMA GroupsOfNow ==
    ASSUME NEW new, IsFiniteSet(new), NEW old \in SUBSET new, NEW field
    PROVE  /\ IsFiniteSet(Grouped(new, field))
           /\ Listed(Grouped(new, field), field, old, new)
           /\ \A d \in old : d[field] # Null =>
                \E g \in Grouped(new, field) :
                   /\ g[1] = d[field] /\ g[2] = Cardinality(With(new, field, d[field]))
                   /\ g[2] \in Nat /\ Cardinality(With(old, field, d[field])) \in Nat
                   /\ Cardinality(With(old, field, d[field])) <= g[2]
<1>1. \A value : /\ IsFiniteSet(With(new, field, value))
                 /\ With(old, field, value) \in SUBSET With(new, field, value)
  BY Sizes DEF With
<1>2. \A value : /\ Cardinality(With(new, field, value)) \in Nat
                 /\ Cardinality(With(old, field, value)) \in Nat
                 /\ Cardinality(With(old, field, value)) <= Cardinality(With(new, field, value))
  BY <1>1, Sizes
<1>3. \A g \in Grouped(new, field) : g[2] = Cardinality(With(new, field, g[1]))
  <2>1. \A value : CountOf(new, field, value) = Cardinality(With(new, field, value))
    BY DEF CountOf, With
  <2>2. \A g \in Grouped(new, field) : \E value : g = <<value, CountOf(new, field, value)>>
    BY DEF Grouped
  <2> QED  BY <2>1, <2>2
<1>4. Listed(Grouped(new, field), field, old, new)
  BY <1>2, <1>3 DEF Listed, InWindow
<1>5. IsFiniteSet(Grouped(new, field))
  <2> DEFINE groupOf == [d \in new |-> <<d[field], CountOf(new, field, d[field])>>]
             all == {groupOf[d] : d \in new}
  <2>1. Grouped(new, field) \subseteq all
    BY DEF Grouped
  <2>2. DOMAIN groupOf = new
    OBVIOUS
  <2>3. IsFiniteSet(all)
    <3> HIDE DEF groupOf
    <3> QED  BY <2>2, ImageSize
  <2> HIDE DEF all
  <2> QED  BY <2>1, <2>3, FS_Subset
<1>6. ASSUME NEW d \in old, d[field] # Null
      PROVE  <<d[field], Cardinality(With(new, field, d[field]))>> \in Grouped(new, field)
  <2>1. d[field] \in {e[field] : e \in new} \ {Null}
    BY <1>6
  <2> QED  BY <2>1 DEF Grouped, CountOf, With
<1> QED  BY <1>2, <1>4, <1>5, <1>6

\* A list of the most blocked of now.
LEMMA TopsOfNow ==
    ASSUME NEW new, IsFiniteSet(new), NEW old \in SUBSET new, NEW field,
           NEW list \in Tops(Grouped(new, field))
    PROVE  Listed(list, field, old, new) /\ NoneAbove(list, field, old) /\ Cardinality(list) <= Top
<1> DEFINE groups == Grouped(new, field)
<1>1. /\ list \subseteq groups
      /\ Cardinality(list) = IF Cardinality(groups) < Top THEN Cardinality(groups) ELSE Top
      /\ \A g \in list, h \in groups \ list : g[2] >= h[2]
  BY DEF Tops
<1>2. IsFiniteSet(groups) /\ Listed(groups, field, old, new)
  BY GroupsOfNow
<1>3. Listed(list, field, old, new)
  BY <1>1, <1>2 DEF Listed
<1>4. Cardinality(list) <= Top
  BY <1>1, <1>2, FS_CardinalityType, QueriesAssumption
<1>5. ASSUME NEW g \in list, NEW d \in old,
             d[field] \notin {h[1] : h \in list} \cup {Null}
      PROVE  Cardinality(With(old, field, d[field])) <= g[2]
  <2>1. PICK h \in groups :
          /\ h[1] = d[field] /\ h[2] \in Nat
          /\ Cardinality(With(old, field, d[field])) \in Nat
          /\ Cardinality(With(old, field, d[field])) <= h[2]
    BY <1>5, GroupsOfNow
  <2>2. h \notin list
    BY <1>5, <2>1
  <2>3. g[2] >= h[2] /\ g[2] \in Nat
    BY <1>1, <1>3, <2>2 DEF Listed, InWindow
  <2> QED  BY <2>1, <2>3
<1> QED  BY <1>3, <1>4, <1>5 DEF NoneAbove

\* The statistics stay in their windows.
LEMMA StatsStep ==
    ASSUME TypeOK, Finite, Shaped, KindInv, BaseInv, StatInv, [Next]_vars
    PROVE  StatInv'
<1>1. CASE UNCHANGED vars
  BY <1>1 DEF vars, StatInv, TopList, BaseBlocked, Matching, Blocked
<1>2. ASSUME Grows, reader.kind = "stats" PROVE StatInv'
  <2> DEFINE all == Matching(logs, reader.filter)
             blocked == Blocked(reader.filter)
  <2>1. reader' = reader /\ all \subseteq all' /\ blocked \subseteq blocked'
    BY <1>2, CollectionGrows DEF Grows
  <2>2. IsFiniteSet(all') /\ IsFiniteSet(blocked')
    BY StateStepFinite
  <2>3. BaseBlocked' = BaseBlocked
    BY <2>1 DEF BaseBlocked
  <2>4. /\ \A n : InWindow(n, reader.base, all) => InWindow(n, reader.base, all')
        /\ \A n : InWindow(n, BaseBlocked, blocked) => InWindow(n, BaseBlocked, blocked')
        /\ \A list, field : Listed(list, field, reader.base, all)
              => Listed(list, field, reader.base, all')
        /\ \A list, field : Listed(list, field, BaseBlocked, blocked)
              => Listed(list, field, BaseBlocked, blocked')
    <3> HIDE DEF all, blocked
    <3> QED  BY <2>1, <2>2, WindowGrows
  <2>5. \A list, field : TopList(list, field) =>
          /\ Listed(list, field, BaseBlocked, blocked')
          /\ NoneAbove(list, field, BaseBlocked)
          /\ Cardinality(list) <= Top
    BY <2>4 DEF TopList
  <2> QED  BY <1>2, <2>1, <2>3, <2>4, <2>5 DEF StatInv, TopList
<1>3. ASSUME Begins PROVE StatInv'
  BY <1>3 DEF Begins, StatInv, Queries
<1>4. ASSUME NextPageStep \/ FindStep \/ CountStep \/ OverviewSteps PROVE StatInv'
  <2>1. reader.kind # "stats" /\ reader'.kind = reader.kind
    <3>1. CASE NextPageStep
      BY <3>1 DEF NextPageStep, Paging, Only, FieldNames
    <3>2. CASE FindStep
      BY <3>2, PagesArePaged DEF FindStep, Paging, Only, FieldNames
    <3>3. CASE CountStep
      BY <3>3, PagesArePaged DEF CountStep, Paging, Only, FieldNames
    <3>4. ASSUME NEW from \in {"users", "tenants", "active", "stats", "usage"}, NEW to,
                 NEW field \in {"totalUsers", "totalTenants", "activeUsers", "pc", "usage"},
                 OverviewStep(from, to, field), from = "stats" => reader.kind = "overview"
          PROVE  reader.kind # "stats" /\ reader'.kind = reader.kind
      BY <3>4 DEF OverviewStep, KindInv, Only, FieldNames
    <3>5. CASE OverviewSteps
      BY <3>4, <3>5 DEF OverviewSteps
    <3> QED  BY <1>4, <3>1, <3>2, <3>3, <3>5
  <2> QED  BY <2>1 DEF StatInv
<1>5. ASSUME StatStep PROVE StatInv'
  <2> DEFINE all == Matching(logs, reader.filter)
             blocked == Blocked(reader.filter)
  <2>1. ASSUME NEW query \in Queries, AnswerStep(query, query)
        PROVE  /\ reader'.kind = reader.kind /\ reader.kind = "stats"
               /\ BaseBlocked' = BaseBlocked /\ reader'.base = reader.base
               /\ all' = all /\ blocked' = blocked
               /\ reader'.pending = reader.pending \ {query}
               /\ \A f \in Queries \ {query} : reader'[f] = reader[f]
    <3>1. /\ Only({query, "pending", "pc"})
          /\ "kind" \notin {query, "pending", "pc"} /\ "filter" \notin {query, "pending", "pc"}
      BY <2>1 DEF AnswerStep, Queries
    <3>2. all' = all /\ blocked' = blocked /\ reader'.kind = reader.kind
      BY <3>1, SameCollection
    <3>3. reader'.base = reader.base /\ reader.kind = "stats"
      BY <2>1, <3>1 DEF Only, FieldNames, Queries, AnswerStep, TypeOK
    <3>4. \A f \in Queries \ {query} : reader'[f] = reader[f]
      BY <3>1 DEF Only, FieldNames, Queries
    <3> QED  BY <2>1, <3>2, <3>3, <3>4 DEF AnswerStep, BaseBlocked
  <2>2. StatStep => reader.kind = "stats"
    BY <2>1 DEF StatStep, Queries
  <2>3. /\ IsFiniteSet(all) /\ IsFiniteSet(blocked)
        /\ reader.base \in SUBSET all /\ BaseBlocked \in SUBSET blocked
    BY <1>5, <2>2, Collections DEF BaseInv, BaseBlocked, Blocked
  <2>4. /\ InWindow(Cardinality(all), reader.base, all)
        /\ InWindow(Cardinality(blocked), BaseBlocked, blocked)
        /\ \A list, field : list \in Tops(Grouped(blocked, field)) => TopList(list, field)
        /\ Listed(Grouped(all, "type"), "type", reader.base, all)
    <3>1. /\ InWindow(Cardinality(all), reader.base, all)
          /\ InWindow(Cardinality(blocked), BaseBlocked, blocked)
      <4> HIDE DEF all, blocked
      <4> QED  BY <2>3, WindowOfNow
    <3>2. Listed(Grouped(all, "type"), "type", reader.base, all)
      <4> HIDE DEF all
      <4> QED  BY <2>3, GroupsOfNow
    <3>3. ASSUME NEW list, NEW field, list \in Tops(Grouped(blocked, field))
          PROVE  TopList(list, field)
      BY <2>3, <3>3, TopsOfNow DEF TopList
    <3> QED  BY <3>1, <3>2, <3>3
  <2> HIDE DEF all, blocked
  <2>5. \A list, field : TopList(list, field) <=>
          /\ Listed(list, field, BaseBlocked, blocked)
          /\ NoneAbove(list, field, BaseBlocked)
          /\ Cardinality(list) <= Top
    BY DEF TopList, blocked
  <2>6. \A list, field : TopList(list, field)' <=>
          /\ Listed(list, field, BaseBlocked', blocked')
          /\ NoneAbove(list, field, BaseBlocked')
          /\ Cardinality(list) <= Top
    BY DEF TopList, blocked
  <2>7. CASE AnswerStep("total", "total") /\ reader'.total = Cardinality(all)
    <3>1. /\ reader'.kind = "stats" /\ BaseBlocked' = BaseBlocked /\ reader'.base = reader.base
          /\ all' = all /\ blocked' = blocked
          /\ reader'.pending = reader.pending \ {"total"}
          /\ \A f \in Queries \ {"total"} : reader'[f] = reader[f]
      BY <2>1, <2>7 DEF Queries
    <3>2. /\ reader'.blocked = reader.blocked /\ reader'.ips = reader.ips
          /\ reader'.rules = reader.rules /\ reader'.types = reader.types
      BY <3>1 DEF Queries
    <3> QED  BY <1>5, <2>2, <2>4, <2>5, <2>6, <2>7, <3>1, <3>2 DEF StatInv, all, blocked
  <2>8. CASE AnswerStep("blocked", "blocked") /\ reader'.blocked = Cardinality(blocked)
    <3>1. /\ reader'.kind = "stats" /\ BaseBlocked' = BaseBlocked /\ reader'.base = reader.base
          /\ all' = all /\ blocked' = blocked
          /\ reader'.pending = reader.pending \ {"blocked"}
          /\ \A f \in Queries \ {"blocked"} : reader'[f] = reader[f]
      BY <2>1, <2>8 DEF Queries
    <3>2. /\ reader'.total = reader.total /\ reader'.ips = reader.ips
          /\ reader'.rules = reader.rules /\ reader'.types = reader.types
      BY <3>1 DEF Queries
    <3> QED  BY <1>5, <2>2, <2>4, <2>5, <2>6, <2>8, <3>1, <3>2 DEF StatInv, all, blocked
  <2>9. CASE AnswerStep("ips", "ips") /\ reader'.ips \in Tops(Grouped(blocked, "ip"))
    <3>1. /\ reader'.kind = "stats" /\ BaseBlocked' = BaseBlocked /\ reader'.base = reader.base
          /\ all' = all /\ blocked' = blocked
          /\ reader'.pending = reader.pending \ {"ips"}
          /\ \A f \in Queries \ {"ips"} : reader'[f] = reader[f]
      BY <2>1, <2>9 DEF Queries
    <3>2. /\ reader'.total = reader.total /\ reader'.blocked = reader.blocked
          /\ reader'.rules = reader.rules /\ reader'.types = reader.types
      BY <3>1 DEF Queries
    <3> QED  BY <1>5, <2>2, <2>4, <2>5, <2>6, <2>9, <3>1, <3>2 DEF StatInv, all, blocked
  <2>10. CASE AnswerStep("rules", "rules") /\ reader'.rules \in Tops(Grouped(blocked, "rule"))
    <3>1. /\ reader'.kind = "stats" /\ BaseBlocked' = BaseBlocked /\ reader'.base = reader.base
          /\ all' = all /\ blocked' = blocked
          /\ reader'.pending = reader.pending \ {"rules"}
          /\ \A f \in Queries \ {"rules"} : reader'[f] = reader[f]
      BY <2>1, <2>10 DEF Queries
    <3>2. /\ reader'.total = reader.total /\ reader'.blocked = reader.blocked
          /\ reader'.ips = reader.ips /\ reader'.types = reader.types
      BY <3>1 DEF Queries
    <3> QED  BY <1>5, <2>2, <2>4, <2>5, <2>6, <2>10, <3>1, <3>2 DEF StatInv, all, blocked
  <2>11. CASE AnswerStep("types", "types") /\ reader'.types = Grouped(all, "type")
    <3>1. /\ reader'.kind = "stats" /\ BaseBlocked' = BaseBlocked /\ reader'.base = reader.base
          /\ all' = all /\ blocked' = blocked
          /\ reader'.pending = reader.pending \ {"types"}
          /\ \A f \in Queries \ {"types"} : reader'[f] = reader[f]
      BY <2>1, <2>11 DEF Queries
    <3>2. /\ reader'.total = reader.total /\ reader'.blocked = reader.blocked
          /\ reader'.ips = reader.ips /\ reader'.rules = reader.rules
      BY <3>1 DEF Queries
    <3> QED  BY <1>5, <2>2, <2>4, <2>5, <2>6, <2>11, <3>1, <3>2 DEF StatInv, all, blocked
  <2> QED  BY <1>5, <2>7, <2>8, <2>9, <2>10, <2>11 DEF StatStep, all, blocked
<1> QED  BY <1>1, <1>2, <1>3, <1>4, <1>5, StepKinds DEF Grows, StatInv
-------------------------------------------------------------------------------
(* The administrator's dashboard.                                           *)

\* The users there at the request are the same ones later: a document inserted
\* since was not there, and none is of both collections.
LEMMA SameBaseUsers ==
    ASSUME TypeOK, BaseInv, Grows, reader.kind = "overview"
    PROVE  BaseUsers' = BaseUsers
<1>1. reader' = reader /\ reader.base \subseteq logs \cup users
  BY DEF Grows, BaseInv
<1>2. \A u \in users' \ users : u \notin logs \cup users
  BY QueriesAssumption DEF Grows, TypeOK
<1>3. users \subseteq users'
  BY DEF Grows
<1> QED  BY <1>1, <1>2, <1>3 DEF BaseUsers

\* The figures agree in the order they are read.
LEMMA OverviewStepKeeps ==
    ASSUME TypeOK, Finite, Shaped, KindInv, BaseInv, OverviewInv, [Next]_vars
    PROVE  OverviewInv'
<1>1. CASE UNCHANGED vars
  BY <1>1 DEF vars, OverviewInv, BaseUsers
<1>2. ASSUME Grows, reader.kind = "overview" PROVE OverviewInv'
  <2>1. reader' = reader /\ BaseUsers' = BaseUsers
    BY <1>2, SameBaseUsers DEF Grows
  <2>2. users \subseteq users' /\ IsFiniteSet(users')
    BY <1>2, CollectionGrows DEF Finite
  <2>3. /\ Cardinality(users) \in Nat /\ Cardinality(users') \in Nat
        /\ Cardinality(users) <= Cardinality(users')
    BY <2>2, Sizes
  <2> QED  BY <1>2, <2>1, <2>3 DEF OverviewInv
<1>3. ASSUME Begins PROVE OverviewInv'
  BY <1>3 DEF Begins, OverviewInv
<1>4. ASSUME NextPageStep \/ FindStep \/ CountStep \/ StatStep PROVE OverviewInv'
  <2>1. reader'.kind = reader.kind /\ reader.kind # "overview"
    <3>1. CASE NextPageStep
      BY <3>1 DEF NextPageStep, Paging, Only, FieldNames
    <3>2. CASE FindStep
      BY <3>2, PagesArePaged DEF FindStep, Paging, Only, FieldNames
    <3>3. CASE CountStep
      BY <3>3, PagesArePaged DEF CountStep, Paging, Only, FieldNames
    <3>4. ASSUME NEW query \in Queries, AnswerStep(query, query)
          PROVE  reader'.kind = reader.kind /\ reader.kind # "overview"
      BY <3>4 DEF AnswerStep, TypeOK, Only, FieldNames, Queries
    <3>5. CASE StatStep
      BY <3>4, <3>5 DEF StatStep, Queries
    <3> QED  BY <1>4, <3>1, <3>2, <3>3, <3>5
  <2> QED  BY <2>1 DEF OverviewInv
<1>5. ASSUME NEW from, NEW to,
             NEW field \in {"totalUsers", "totalTenants", "activeUsers", "pc", "usage"},
             OverviewStep(from, to, field)
      PROVE  /\ users' = users /\ BaseUsers' = BaseUsers
             /\ reader.pc = from /\ reader'.pc = to
             /\ reader'.kind = reader.kind
             /\ field # "totalUsers" => reader'.totalUsers = reader.totalUsers
             /\ field # "totalTenants" => reader'.totalTenants = reader.totalTenants
  BY <1>5 DEF OverviewStep, Only, FieldNames, BaseUsers
<1>6. BaseUsers \subseteq users /\ TenantsOf(users) \subseteq tenants /\ IsFiniteSet(users)
  BY DEF BaseUsers, TenantsOf, TypeOK, Finite
<1>7. CASE /\ OverviewStep("users", "tenants", "totalUsers")
           /\ reader'.totalUsers = Cardinality(users)
  BY <1>5, <1>6, <1>7, FS_CardinalityType DEF OverviewInv
<1>8. CASE /\ OverviewStep("tenants", "active", "totalTenants")
           /\ reader'.totalTenants = Cardinality(tenants)
  <2>1. TenantsOf(BaseUsers) \subseteq tenants
    BY <1>6 DEF TenantsOf
  <2>2. Cardinality(TenantsOf(BaseUsers)) <= Cardinality(tenants)
    BY <2>1, Sizes DEF Finite
  <2> QED  BY <1>5, <1>8, <2>2 DEF OverviewInv
<1>9. CASE OverviewStep("active", "stats", "activeUsers")
  BY <1>5, <1>9 DEF OverviewInv
<1>10. CASE OverviewStep("stats", "usage", "pc")
  BY <1>5, <1>10 DEF OverviewInv
<1>11. CASE /\ OverviewStep("usage", "answered", "usage")
            /\ reader'.usage = {g \in Grouped(users, "tenant") : g[1] \in tenants}
  <2>1. Null \notin tenants
    BY QueriesAssumption DEF TypeOK
  <2>2. reader'.usage = {<<t, CountOf(users, "tenant", t)>> : t \in TenantsOf(users)}
    <3>1. Grouped(users, "tenant")
            = {<<t, CountOf(users, "tenant", t)>> : t \in TenantsOf(users) \ {Null}}
      BY DEF Grouped, TenantsOf
    <3>2. TenantsOf(users) \ {Null} = TenantsOf(users)
      BY <1>6, <2>1
    <3>3. \A g \in {<<t, CountOf(users, "tenant", t)>> : t \in TenantsOf(users)} :
             g[1] \in tenants
      BY <1>6
    <3> QED  BY <1>11, <3>1, <3>2, <3>3
  <2>3. UsageTotal(reader'.usage) = Cardinality(users)
    BY <1>6, <2>2, GroupsAddUp
  <2>4. TenantsOf(users) \subseteq {g[1] : g \in reader'.usage}
    <3>1. \A t \in TenantsOf(users) : <<t, CountOf(users, "tenant", t)>> \in reader'.usage
      BY <2>2
    <3>2. \A t : <<t, CountOf(users, "tenant", t)>>[1] = t
      OBVIOUS
    <3> QED  BY <3>1, <3>2
  <2>5. TenantsOf(BaseUsers) \subseteq TenantsOf(users)
    BY <1>6 DEF TenantsOf
  <2>6. Cardinality(users) \in Nat
    BY <1>6, FS_CardinalityType
  <2> QED  BY <1>5, <1>11, <2>3, <2>4, <2>5, <2>6 DEF OverviewInv
<1>12. ASSUME OverviewSteps PROVE OverviewInv'
  BY <1>7, <1>8, <1>9, <1>10, <1>11, <1>12 DEF OverviewSteps
<1>13. Grows /\ reader.kind # "overview" => OverviewInv'
  BY DEF Grows, OverviewInv
<1> QED  BY <1>1, <1>2, <1>3, <1>4, <1>12, <1>13, StepKinds
-------------------------------------------------------------------------------
(* The theorems.                                                            *)

\* All the parts hold at first and are kept.
LEMMA QueriesInvariant == Spec => []QueryInv
<1>1. Init => QueryInv
  <2> SUFFICES ASSUME Init PROVE QueryInv
    OBVIOUS
  <2>1. reader.kind = "none"
    BY DEF Init, Nobody
  <2> QED  BY <2>1, StateInit
           DEF QueryInv, PageInv, SeenInv, StatInv, OverviewInv, Paging
<1>2. QueryInv /\ [Next]_vars => QueryInv'
  BY StateStep, PageStep, SeenStep, StatsStep, OverviewStepKeeps DEF QueryInv
<1> QED  BY <1>1, <1>2, PTL DEF Spec

\* For every set of documents and every page size: a page never shows documents
\* beyond the total announced with it, nor any that was not asked for.
THEOREM PagesWithinTotal == Spec => []RowsWithinTotal
<1>1. QueryInv => RowsWithinTotal
  BY DEF QueryInv, RowsWithinTotal, PageInv, Within
<1> QED  BY <1>1, QueriesInvariant, PTL

\* The last page announced ends at the total or after it.
LEMMA LastPage ==
    ASSUME NEW count \in Nat, NEW page \in Nat, NEW limit \in Nat \ {0},
           page >= Pages(count, limit)
    PROVE  count <= page * limit
<1> DEFINE n == count + limit - 1
           q == n \div limit
           r == n % limit
<1>1. n \in Nat /\ limit \in Nat /\ limit > 0
  OBVIOUS
<1>2. q \in Nat /\ r \in 0..(limit - 1) /\ n = q * limit + r
  <2> HIDE DEF n
  <2> QED  BY <1>1
<1>3. q <= page
  BY DEF Pages
<1> HIDE DEF q, r
<1>4. q * limit <= page * limit /\ q * limit \in Nat /\ page * limit \in Nat
  BY <1>1, <1>2, <1>3
<1> QED  BY <1>1, <1>2, <1>4

\* For every order of inserts between the pages: whoever reads from the first page
\* to the last one announced has seen what was there at the beginning.
THEOREM ReadersMissNothing == Spec => []PagesMissNothing
<1>1. QueryInv => PagesMissNothing
  <2> SUFFICES ASSUME QueryInv, Paging, reader.pc = "answered", reader.first = 1,
                      reader.page >= Pages(reader.count, reader.limit),
                      NEW d \in reader.base,
                      \A e \in Collection : e.time = d.time => e = d
               PROVE  d \in reader.seen
    BY DEF PagesMissNothing
  <2>1. /\ reader.page \in Nat \ {0} /\ reader.limit \in Nat \ {0} /\ reader.count \in Nat
    BY DEF QueryInv, KindInv, PageInv
  <2>2. reader.count <= reader.page * reader.limit
    BY <2>1, LastPage
  <2>3. Missed = {}
    BY <2>2 DEF QueryInv, SeenInv
  <2> QED  BY <2>3 DEF Missed, Single
<1> QED  BY <1>1, QueriesInvariant, PTL

\* For every interleaving of inserts with the five queries: each number and list of
\* the statistics is one of a moment between the request and the answer.
THEOREM StatsAreOfTheWindow == Spec => []StatsInWindow
<1>1. QueryInv => StatsInWindow
  <2> SUFFICES ASSUME QueryInv, Answered("stats") PROVE StatsInWindow
    BY DEF StatsInWindow
  <2>1. reader.kind = "stats" /\ reader.pending = {}
    BY DEF QueryInv, TypeOK, Answered
  <2>2. reader.base \cap logs = reader.base
    BY <2>1, Collections DEF QueryInv, BaseInv
  <2>3. /\ InWindow(reader.total, reader.base, Matching(logs, reader.filter))
        /\ InWindow(reader.blocked, BaseBlocked, Blocked(reader.filter))
        /\ TopList(reader.ips, "ip") /\ TopList(reader.rules, "rule")
        /\ Listed(reader.types, "type", reader.base, Matching(logs, reader.filter))
    BY <2>1 DEF QueryInv, StatInv
  <2>4. Between(reader.total, LAMBDA d : TRUE)
    <3>1. \A S : {d \in S : TRUE} = S
      OBVIOUS
    <3> QED  BY <2>2, <2>3, <3>1 DEF Between, InWindow
  <2>5. Between(reader.blocked, LAMBDA d : d.blocked)
    BY <2>2, <2>3 DEF Between, InWindow, BaseBlocked, Blocked
  <2>6. ASSUME NEW list, NEW field, TopList(list, field)
        PROVE  /\ ListBetween(list, field, LAMBDA d : d.blocked)
               /\ LeftOut(list, field) /\ Cardinality(list) <= Top
    <3>1. \A value :
            /\ {d \in reader.base : d.blocked /\ d[field] = value}
                 = With(BaseBlocked, field, value)
            /\ {d \in Matching(logs, reader.filter) : d.blocked /\ d[field] = value}
                 = With(Blocked(reader.filter), field, value)
            /\ CountOf({e \in reader.base : e.blocked}, field, value)
                 = Cardinality(With(BaseBlocked, field, value))
      BY DEF With, BaseBlocked, Blocked, CountOf
    <3>2. ListBetween(list, field, LAMBDA d : d.blocked)
      BY <2>2, <2>6, <3>1 DEF ListBetween, Between, TopList, Listed, InWindow
    <3>3. LeftOut(list, field)
      BY <2>2, <2>6, <3>1 DEF LeftOut, TopList, NoneAbove, BaseBlocked
    <3> QED  BY <2>6, <3>2, <3>3 DEF TopList
  <2>7. ListBetween(reader.types, "type", LAMBDA d : TRUE)
    <3>1. \A S, value : {d \in S : TRUE /\ d["type"] = value} = With(S, "type", value)
      BY DEF With
    <3> QED  BY <2>2, <2>3, <3>1 DEF ListBetween, Between, Listed, InWindow
  <2> QED  BY <2>3, <2>4, <2>5, <2>6, <2>7 DEF StatsInWindow
<1> QED  BY <1>1, QueriesInvariant, PTL

\* For every interleaving of inserts with the dashboard's reads: its figures agree.
THEOREM DashboardFiguresAgree == Spec => []DashboardAgrees
<1>1. QueryInv => DashboardAgrees
  <2> SUFFICES ASSUME QueryInv, Answered("overview") PROVE DashboardAgrees
    BY DEF DashboardAgrees
  <2>1. /\ Cardinality(TenantsOf(BaseUsers)) <= reader.totalTenants
        /\ UsageTotal(reader.usage) >= reader.totalUsers
        /\ TenantsOf(BaseUsers) \subseteq {g[1] : g \in reader.usage}
    BY DEF QueryInv, OverviewInv, Answered
  <2> QED  BY <2>1 DEF DashboardAgrees, TenantsOf, BaseUsers, UsageTotal
<1> QED  BY <1>1, QueriesInvariant, PTL
===============================================================================
