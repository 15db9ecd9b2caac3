------------------------------ MODULE AccountBook ------------------------------
(***************************************************************************)
(* What a prepaid account promises: it moves by credits, and by debits it  *)
(* can afford.  Once two operations of a tenant have overlapped (torn), no *)
(* more is promised than a balance that does not become negative.  Of a    *)
(* tenant with a negative amount (reversed), a credit may take from the    *)
(* balance, below zero too; a debit still leaves none that is negative.    *)
(***************************************************************************)
EXTENDS Integers

CONSTANT Ids    \* the tenants

VARIABLES book, torn, reversed

Unused == [balance |-> 0, totalCharged |-> 0, totalUsed |-> 0]

Init == book = [t \in Ids |-> Unused] /\ torn = {} /\ reversed = {}

Only(t) == (\A u \in Ids \ {t} : book'[u] = book[u]) /\ UNCHANGED <<torn, reversed>>

Credit(t) ==
    /\ t \notin torn
    /\ Only(t)
    /\ t \notin reversed => book'[t].totalCharged > book[t].totalCharged
    /\ book'[t].balance - book[t].balance = book'[t].totalCharged - book[t].totalCharged
    /\ book'[t].totalUsed = book[t].totalUsed

Debit(t) ==
    /\ t \notin torn
    /\ Only(t)
    /\ t \notin reversed => book'[t].totalUsed > book[t].totalUsed
    /\ book[t].balance - book'[t].balance = book'[t].totalUsed - book[t].totalUsed
    /\ book'[t].balance >= 0
    /\ book'[t].totalCharged = book[t].totalCharged

Drift(t) ==
    /\ t \in torn
    /\ Only(t)
    /\ book'[t].balance >= 0 \/ (t \in reversed /\ book'[t].totalUsed = book[t].totalUsed)

Tear(t) == torn' = torn \cup {t} /\ UNCHANGED <<book, reversed>>
Reverse(t) == reversed' = reversed \cup {t} /\ UNCHANGED <<book, torn>>

Next == \E t \in Ids : Credit(t) \/ Debit(t) \/ Drift(t) \/ Tear(t) \/ Reverse(t)

Spec == Init /\ [][Next]_<<book, torn, reversed>>
===============================================================================
