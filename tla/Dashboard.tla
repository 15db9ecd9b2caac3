------------------------------- MODULE Dashboard -------------------------------
(***************************************************************************)
(* The dashboard page: WafDashboard with its store, its table of logs and  *)
(* its panel of security tests.  An effect fetches logs and statistics     *)
(* whenever the page, the page size or the filters change; answers arrive  *)
(* in any order and each one overwrites the logs and the pagination of the *)
(* store, which may fire the effect again.  The completion of a test or of *)
(* a seed fetches with the page and the filters of the moment it was       *)
(* started.  An answer, the renders and the effect it causes are one turn  *)
(* of the event loop, hence one action.                                    *)
(***************************************************************************)
EXTENDS Naturals, Bags

CONSTANTS
    Windows,    \* page and page size
    FirstPage,  \* the store's initial window
    Fields,     \* the fields of the filter
    Texts,      \* what a field may hold
    Blank,      \* an emptied field, which does not filter
    Unset,      \* a field that was never set, nor does this
    Tests,      \* the buttons of the panel
    Seed,       \* the button that seeds dummy logs
    Unfetched,  \* nothing fetched yet
    MaxFetches, \* bound: fetches of logs in flight by actions of the user
    MaxStats,   \* bound: fetches of statistics in flight; a new one waits
    MaxRuns,    \* bound: tests and seeds ever started
    MaxClicks,  \* bound: other actions of the user, tabs apart
    MaxFailures \* bound: requests that fail

VARIABLES
    pagination,     \* the store's window; text: as the server repeats it
    filters,        \* the store's filters
    logs, stats,    \* the questions whose answers the store holds
    isLoadingLogs, isLoadingStats,  \* isLoading and isLoadingStats
    asked, askedStats,  \* the fetches in flight: bags of questions
    tab,            \* the tab on screen
    filterValues,   \* the table's filter form
    loading,        \* the panel's tests that are under way
    running,        \* the tests and seeds in flight: a bag
    calm,           \* history: when the last fetch began, all asked with its filters
    cleared,        \* history: the form was cleared since it was mounted
    runs, clicks, failures    \* starts, other actions and failures still to come

fetching == <<asked, askedStats, isLoadingLogs, isLoadingStats, calm>>
shown == <<logs, stats>>
panel == <<loading, running, runs>>
pageVars == <<pagination, filters, fetching, shown, tab, filterValues, panel, cleared,
              clicks, failures>>

Form == [Fields -> Texts \cup {Blank, Unset}]
NoFilters == [f \in Fields |-> Unset]

\* What the server filters by.
Effective(form) == [f \in Fields |-> IF form[f] = Unset THEN Blank ELSE form[f]]
Filters == [Fields -> Texts \cup {Blank}]
Question == [window : Windows, filters : Filters]

ASSUME DashboardAssumption ==
    /\ FirstPage \in Windows /\ Seed \notin Tests /\ Unfetched \notin Question
    /\ Blank \notin Texts /\ Unset \notin Texts \cup {Blank}
    /\ MaxFetches \in Nat /\ MaxStats \in Nat \ {0} /\ MaxRuns \in Nat
    /\ MaxClicks \in Nat /\ MaxFailures \in Nat

\* A test or a seed in flight, with the question its closure would ask; mine: the
\* panel that started it is still mounted.
Run == [what : Tests \cup {Seed}, question : Question, mine : BOOLEAN]
Mine == {r \in BagToSet(running) : r.mine}

PageTypeOK ==
    /\ pagination \in [window : Windows, text : BOOLEAN]
    /\ filters \in Form /\ filterValues \in Form
    /\ logs \in Question \cup {Unfetched} /\ stats \in Filters \cup {Unfetched}
    /\ IsABag(asked) /\ BagToSet(asked) \subseteq Question
    /\ IsABag(askedStats) /\ BagToSet(askedStats) \subseteq Filters
    /\ isLoadingLogs \in BOOLEAN /\ isLoadingStats \in BOOLEAN
    /\ tab \in {"dashboard", "settings", "tests"}
    /\ IsABag(running) /\ BagToSet(running) \subseteq Run
    /\ loading = {r.what : r \in Mine} /\ (loading # {} => tab = "tests")
    /\ calm \in BOOLEAN /\ cleared \in BOOLEAN
    /\ runs \in 0..MaxRuns /\ clicks \in 0..MaxClicks /\ failures \in 0..MaxFailures

With(bag, e) == bag (+) SetToBag({e})
Without(bag, e) == bag (-) SetToBag({e})
Current == [window |-> pagination.window, filters |-> Effective(filters)]

\* The page has just been mounted.
PageInit ==
    /\ pagination = [window |-> FirstPage, text |-> FALSE]
    /\ filters = NoFilters /\ filterValues = NoFilters
    /\ logs = Unfetched /\ stats = Unfetched
    /\ asked = SetToBag({Current}) /\ askedStats = SetToBag({Effective(filters)})
    /\ isLoadingLogs = TRUE /\ isLoadingStats = TRUE
    /\ tab = "dashboard" /\ loading = {} /\ running = EmptyBag
    /\ calm = TRUE /\ cleared = FALSE
    /\ runs = MaxRuns /\ clicks = MaxClicks /\ failures = MaxFailures
-------------------------------------------------------------------------------
\* fetchLogs and fetchStats up to their awaits; pending: what is in flight besides.
Fetch(question, pending) ==
    /\ BagCardinality(askedStats) < MaxStats
    /\ asked' = With(pending, question)
    /\ askedStats' = With(askedStats, question.filters)
    /\ isLoadingLogs' = TRUE /\ isLoadingStats' = TRUE
    /\ calm' = /\ \A q \in BagToSet(asked') : q.filters = Effective(filters')
               /\ \A f \in BagToSet(askedStats') : f = Effective(filters')

\* The effect after a turn that leaves pending in flight and the spinner as given;
\* changed: one of its dependencies did.
Refetch(changed, pending, spinner) ==
    IF changed THEN Fetch(Current', pending)
    ELSE /\ asked' = pending /\ isLoadingLogs' = spinner
         /\ UNCHANGED <<askedStats, isLoadingStats, calm>>

\* Mutants of Effect: the dependencies lack the filters; the pagination object, which
\* every answer replaces, is one.
EffectOfWindow(changed, pending, spinner) ==
    Refetch(pagination' # pagination, pending, spinner)
EffectOfObject(changed, pending, spinner) == Refetch(TRUE, pending, spinner)

Effect(changed, pending, spinner) == Refetch(changed, pending, spinner)

\* getLogs answers: logs and pagination are stored, the spinner stops; page and
\* limit come back as text, which is not the number they were.
AnswerLogs(q) ==
    /\ q \in BagToSet(asked)
    /\ logs' = q
    /\ pagination' = [window |-> q.window, text |-> TRUE]
    /\ UNCHANGED <<filters, stats, tab, filterValues, panel, cleared, clicks, failures>>
    /\ Effect(pagination' # pagination, Without(asked, q), FALSE)

Failure == failures > 0 /\ failures' = failures - 1

\* Mutant of FailLogs: the spinner stops with an answer only.
FailLogsSpinning(q) ==
    /\ q \in BagToSet(asked) /\ Failure
    /\ asked' = Without(asked, q)
    /\ UNCHANGED <<pagination, filters, shown, askedStats, isLoadingLogs, isLoadingStats,
                   calm, tab, filterValues, panel, cleared, clicks>>
FailLogs(q) ==
    /\ q \in BagToSet(asked) /\ Failure
    /\ asked' = Without(asked, q) /\ isLoadingLogs' = FALSE
    /\ UNCHANGED <<pagination, filters, shown, askedStats, isLoadingStats, calm,
                   tab, filterValues, panel, cleared, clicks>>

EndStats(f) ==
    /\ f \in BagToSet(askedStats)
    /\ askedStats' = Without(askedStats, f) /\ isLoadingStats' = FALSE
    /\ UNCHANGED <<pagination, filters, logs, asked, isLoadingLogs, calm, tab,
                   filterValues, panel, cleared, clicks>>
AnswerStats(f) == EndStats(f) /\ stats' = f /\ UNCHANGED failures
FailStats(f) == EndStats(f) /\ Failure /\ UNCHANGED stats
-------------------------------------------------------------------------------
Click == clicks > 0 /\ BagCardinality(asked) < MaxFetches /\ clicks' = clicks - 1

\* The grid's page or page size; as numbers.
handlePaginationModelChange(w) ==
    /\ tab = "dashboard" /\ Click
    /\ pagination' = [window |-> w, text |-> FALSE]
    /\ UNCHANGED <<filters, shown, tab, filterValues, panel, cleared, failures>>
    /\ Effect(pagination' # pagination, asked, isLoadingLogs)

EditField(f, text) ==
    /\ tab = "dashboard" /\ Click /\ filterValues[f] # text
    /\ filterValues' = [filterValues EXCEPT ![f] = text]
    /\ UNCHANGED <<pagination, filters, fetching, shown, tab, panel, cleared, failures>>

\* setFilters merges, and always makes a new object: the effect fires.
setFilters(form) ==
    /\ filters' = [f \in Fields |-> IF form[f] = Unset THEN filters[f] ELSE form[f]]
    /\ UNCHANGED <<pagination, shown, tab, panel, failures>>
    /\ Effect(TRUE, asked, isLoadingLogs)

handleApplyFilters ==
    /\ tab = "dashboard" /\ Click
    /\ setFilters(filterValues)
    /\ UNCHANGED <<filterValues, cleared>>

handleClearFilters ==
    /\ tab = "dashboard" /\ Click
    /\ filterValues' = NoFilters /\ cleared' = TRUE
    /\ setFilters(NoFilters)

\* Mutant of Mounted: the form comes up empty.
MountedEmpty(t) == NoFilters
\* The form of a table that is mounted with tab t.
Mounted(t) == IF t = "dashboard" THEN filters ELSE filterValues

\* The runs in flight when the panel goes: those that had none, and those that lose it.
Orphaned ==
    [r \in BagToSet(running) \ Mine |-> running[r]]
      (+) [r \in {[q EXCEPT !.mine = FALSE] : q \in Mine} |-> running[[r EXCEPT !.mine = TRUE]]]

\* Only the tab on screen is mounted: the form starts anew from the filters, and
\* tests in flight belong to a panel that is gone.
handleTabChange(t) ==
    /\ t # tab
    /\ tab' = t /\ filterValues' = Mounted(t)
    /\ cleared' = (cleared /\ t # "dashboard")
    /\ loading' = {} /\ running' = Orphaned
    /\ UNCHANGED <<pagination, filters, fetching, shown, runs, clicks, failures>>
-------------------------------------------------------------------------------
Start(what) ==
    /\ runs > 0 /\ runs' = runs - 1
    /\ running' = With(running, [what |-> what, question |-> Current, mine |-> what \in Tests])
    /\ UNCHANGED <<pagination, filters, fetching, shown, tab, filterValues, cleared,
                   clicks, failures>>

\* The button is disabled while logs are loading, not while a seed is under way.
handleSeedData == tab = "dashboard" /\ ~isLoadingLogs /\ Start(Seed) /\ UNCHANGED loading

\* runSqlInjectionTest and the seven others, each with a button of its own.
runTest(what) ==
    /\ tab = "tests" /\ what \notin loading
    /\ loading' = loading \cup {what}
    /\ Start(what)

\* The finally of a run: the flag of the panel that started it.
Ended(r) == IF r.mine THEN loading \ {r.what} ELSE loading

\* A test or a seed succeeds: fetchLogs and fetchStats of the render it began in.
Complete(r) ==
    /\ r \in BagToSet(running)
    /\ running' = Without(running, r) /\ loading' = Ended(r)
    /\ UNCHANGED <<pagination, filters, shown, tab, filterValues, cleared, runs,
                   clicks, failures>>
    /\ Fetch(r.question, asked)

FailRun(r) ==
    /\ r \in BagToSet(running) /\ Failure
    /\ running' = Without(running, r) /\ loading' = Ended(r)
    /\ UNCHANGED <<pagination, filters, fetching, shown, tab, filterValues, cleared,
                   runs, clicks>>

LogsArrive == \E q \in BagToSet(asked) : AnswerLogs(q) \/ FailLogs(q)
StatsArrive == \E f \in BagToSet(askedStats) : AnswerStats(f) \/ FailStats(f)
RunEnds == \E r \in BagToSet(running) : Complete(r) \/ FailRun(r)

User ==
    \/ \E w \in Windows : handlePaginationModelChange(w)
    \/ \E f \in Fields, text \in Texts \cup {Blank} : EditField(f, text)
    \/ handleApplyFilters \/ handleClearFilters
    \/ \E t \in {"dashboard", "settings", "tests"} : handleTabChange(t)
    \/ handleSeedData
    \/ \E what \in Tests : runTest(what)

PageNext == LogsArrive \/ StatsArrive \/ RunEnds \/ User

PageSpec == PageInit /\ [][PageNext]_pageVars

\* Every request is answered or fails; nothing is assumed of the order, or of the
\* user.
FairPageSpec ==
    /\ PageSpec
    /\ WF_pageVars(LogsArrive) /\ WF_pageVars(StatsArrive) /\ WF_pageVars(RunEnds)
-------------------------------------------------------------------------------
\* A spinner turns only while a request is in flight, whatever answers overlap,
\* fail or come in another order; and a button of the panel that is on screen waits
\* for a test of that panel (with the types of the variables, in PageTypeOK).
SpinnersAreHonest ==
    /\ PageTypeOK
    /\ isLoadingLogs => asked # EmptyBag
    /\ isLoadingStats => askedStats # EmptyBag

\* Once no fetch is in flight, and unless a request failed, the logs on screen are
\* those of the page the grid shows, however pages, answers and completions of tests
\* overlapped; and logs and statistics are those of the filters in force, if no fetch
\* with other filters was in flight when the last one began.  (If one was, the older
\* answer may come last and stay.)
QuietIsCurrent ==
    failures = MaxFailures =>
        /\ asked = EmptyBag =>
             /\ logs # Unfetched /\ logs.window = pagination.window
             /\ calm => logs.filters = Effective(filters)
        /\ (askedStats = EmptyBag /\ calm) => stats = Effective(filters)

\* What the form shows when it is applied is in force afterwards, whatever was
\* applied before and however often the table was left and mounted again; unless it
\* was cleared, which leaves filters in force that the form no longer shows.
AppliedIsInForce ==
    [][handleApplyFilters /\ ~cleared => Effective(filters') = Effective(filterValues)]_pageVars

\* All fetches in flight, and those to come from runs, ask for the page of the store.
OnePage ==
    /\ \A q \in BagToSet(asked) : q.window = pagination.window
    /\ \A r \in BagToSet(running) : r.question.window = pagination.window

\* The page comes to rest: if from some time on all fetches ask for one page, nothing
\* is in flight and no spinner turns in the end.  (Two pages in flight answer each
\* other for ever: each answer stores its page, which fetches it again.)
EventuallyQuiet ==
    <>[]OnePage => <>[](asked = EmptyBag /\ askedStats = EmptyBag
                        /\ ~isLoadingLogs /\ ~isLoadingStats /\ loading = {})
===============================================================================
