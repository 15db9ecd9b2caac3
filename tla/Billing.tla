-------------------------------- MODULE Billing --------------------------------
(***************************************************************************)
(* BillingService: charges, deductions of usage and inquiries, one await   *)
(* at a time.  An operation finds the account (or creates it), checks its  *)
(* snapshot, writes the transaction, and saves what it computed from the   *)
(* snapshot: absolute values, of the fields it changed.  Nothing checks an *)
(* amount, so charges and deductions may be of any number, also negative.  *)
(* monthly_usage moves with totalUsed (nothing resets it) and is left out. *)
(***************************************************************************)
EXTENDS Integers, FiniteSets, FiniteSetsExt

CONSTANTS
    Ids,            \* tenant ids that requests name
    Tenants,        \* those of them that are tenants
    Ops,            \* operations ever begun
    Charges,        \* amounts charged, as sent: any
    Counts,         \* logs or requests deducted at once: any
    PerLog, PerRequest, \* pricing, in half won (2 and 1)
    None,
    MaxFailures     \* bound: operations that fail

ASSUME BillingAssumption ==
    /\ Tenants \subseteq Ids /\ None \notin Ids
    /\ None \notin [balance : Int, totalCharged : Int, totalUsed : Int]
    /\ IsFiniteSet(Ops)
    /\ Charges \subseteq Int /\ Counts \subseteq Int
    /\ PerLog \in Nat /\ PerRequest \in Nat /\ MaxFailures \in Nat

VARIABLES
    accounts,       \* the account of each tenant, None before it is created
    ledger,         \* the transactions
    ops,            \* each operation's progress, input and snapshot
    failures,
    overlapped,     \* history: tenants of which two operations held a snapshot at once
    settled         \* history: operations whose save took effect

vars == <<accounts, ledger, ops, failures, overlapped, settled>>

Account == [balance : Int, totalCharged : Int, totalUsed : Int]
NewAccount == [balance |-> 0, totalCharged |-> 0, totalUsed |-> 0]

\* finding: findOne is out.  missing: it found none.  found: the operation holds its
\* snapshot.  recorded: the transaction is written.  saved: the account is.
InFlight == {"finding", "missing", "found", "recorded", "saved"}
Operation == [pc : {"idle", "done", "refused", "failed"} \cup InFlight,
              kind : {"charge", "usage", "info"}, tenant : Ids \cup {None},
              amount : Int, account : Account]
Idle == [pc |-> "idle", kind |-> "info", tenant |-> None, amount |-> 0,
         account |-> NewAccount]

Transaction == [op : Ops, tenant : Ids, type : {"charge", "usage"}, amount : Int]

TypeOK ==
    /\ accounts \in [Ids -> Account \cup {None}]
    /\ ledger \in SUBSET Transaction
    /\ ops \in [Ops -> Operation]
    /\ failures \in Nat
    /\ overlapped \in SUBSET Ids
    /\ settled \in SUBSET Ops

Init ==
    /\ accounts = [t \in Ids |-> None]
    /\ ledger = {}
    /\ ops = [o \in Ops |-> Idle]
    /\ failures = 0
    /\ overlapped = {} /\ settled = {}
-------------------------------------------------------------------------------
Begin(o, kind, t, amount) ==
    /\ ops[o].pc = "idle"
    /\ ops' = [ops EXCEPT ![o] = [Idle EXCEPT !.pc = "finding", !.kind = kind,
                                            !.tenant = t, !.amount = amount]]
    /\ UNCHANGED <<accounts, ledger, failures, overlapped, settled>>

charge(o, t) == \E amount \in Charges : Begin(o, "charge", t, amount)
deductUsage(o, t) ==
    \E logs \in Counts, requests \in Counts :
        Begin(o, "usage", t, logs * PerLog + requests * PerRequest)
getBillingInfo(o, t) == Begin(o, "info", t, 0)

\* A charge or deduction that holds a snapshot it will save from.
Holds(o) == ops[o].pc \in {"found", "recorded"} /\ ops[o].kind # "info"

\* o gets its document.
Got(o, account) ==
    /\ ops' = [ops EXCEPT ![o].pc = "found", ![o].account = account]
    /\ overlapped' = IF /\ ops[o].kind # "info"
                        /\ \E q \in Ops : Holds(q) /\ ops[q].tenant = ops[o].tenant
                     THEN overlapped \cup {ops[o].tenant} ELSE overlapped

\* getOrCreateBilling
Find(o) ==
    /\ ops[o].pc = "finding" /\ accounts[ops[o].tenant] # None
    /\ Got(o, accounts[ops[o].tenant])
    /\ UNCHANGED <<accounts, ledger, failures, settled>>
FindNone(o) ==
    /\ ops[o].pc = "finding" /\ accounts[ops[o].tenant] = None
    /\ ops' = [ops EXCEPT ![o].pc = "missing"]
    /\ UNCHANGED <<accounts, ledger, failures, overlapped, settled>>

\* The index on tenant is unique.
Free(t) == accounts[t] = None

Create(o) ==
    /\ ops[o].pc = "missing" /\ Free(ops[o].tenant)
    /\ accounts' = [accounts EXCEPT ![ops[o].tenant] = NewAccount]
    /\ Got(o, NewAccount)
    /\ UNCHANGED <<ledger, failures, settled>>
CreateRefused(o) ==
    /\ ops[o].pc = "missing" /\ ~Free(ops[o].tenant)
    /\ ops' = [ops EXCEPT ![o].pc = "failed"]
    /\ UNCHANGED <<accounts, ledger, failures, overlapped, settled>>

\* getBillingInfo: the tenant is looked up after its account was made.
Inform(o) ==
    /\ ops[o].pc = "found" /\ ops[o].kind = "info"
    /\ ops' = [ops EXCEPT ![o].pc = IF ops[o].tenant \in Tenants THEN "done" ELSE "failed"]
    /\ UNCHANGED <<accounts, ledger, failures, overlapped, settled>>

\* Mutant of Affordable: the balance is not compared with the cost.
AffordableAlways(o) == TRUE
\* Only a deduction is checked.
Affordable(o) == ops[o].kind = "usage" => ops[o].account.balance >= ops[o].amount

Refuse(o) ==
    /\ ops[o].pc = "found" /\ ops[o].kind # "info" /\ ~Affordable(o)
    /\ ops' = [ops EXCEPT ![o].pc = "refused"]
    /\ UNCHANGED <<accounts, ledger, failures, overlapped, settled>>

\* Mutant of CreateTransaction: nothing is written for a deduction.
CreateTransactionOfCharge(o) ==
    /\ ops[o].pc = "found" /\ ops[o].kind # "info" /\ Affordable(o)
    /\ ledger' = ledger \cup {e \in {[op |-> o, tenant |-> ops[o].tenant,
                                      type |-> ops[o].kind, amount |-> ops[o].amount]} :
                                e.type = "charge"}
    /\ ops' = [ops EXCEPT ![o].pc = "recorded"]
    /\ UNCHANGED <<accounts, failures, overlapped, settled>>
\* transactionModel.create
CreateTransaction(o) ==
    /\ ops[o].pc = "found" /\ ops[o].kind # "info" /\ Affordable(o)
    /\ ledger' = ledger \cup {[op |-> o, tenant |-> ops[o].tenant, type |-> ops[o].kind,
                               amount |-> ops[o].amount]}
    /\ ops' = [ops EXCEPT ![o].pc = "recorded"]
    /\ UNCHANGED <<accounts, failures, overlapped, settled>>

\* Mutant of Moved: a charge saves every field of its snapshot, and forgets the total.
MovedWhole(o) ==
    LET snapshot == ops[o].account
        amount == ops[o].amount
    IN  IF ops[o].kind = "charge"
        THEN [snapshot EXCEPT !.balance = @ + amount]
        ELSE [snapshot EXCEPT !.balance = @ - amount, !.totalUsed = @ + amount]
\* The account after the save: the fields that the operation changed are set to what it
\* computed, the others stay what is stored.
Moved(o) ==
    LET stored == accounts[ops[o].tenant]
        snapshot == ops[o].account
        amount == ops[o].amount
    IN  IF amount = 0 THEN stored
        ELSE IF ops[o].kind = "charge"
        THEN [stored EXCEPT !.balance = snapshot.balance + amount,
                            !.totalCharged = snapshot.totalCharged + amount]
        ELSE [stored EXCEPT !.balance = snapshot.balance - amount,
                            !.totalUsed = snapshot.totalUsed + amount]

Save(o) ==
    /\ ops[o].pc = "recorded"
    /\ accounts' = [accounts EXCEPT ![ops[o].tenant] = Moved(o)]
    /\ ops' = [ops EXCEPT ![o].pc = "saved"]
    /\ settled' = settled \cup {o}
    /\ UNCHANGED <<ledger, failures, overlapped>>
Return(o) ==
    /\ ops[o].pc = "saved"
    /\ ops' = [ops EXCEPT ![o].pc = "done"]
    /\ UNCHANGED <<accounts, ledger, failures, overlapped, settled>>

\* A database call fails, before or after it took effect, or the process stops: what
\* was written stays.
Fail(o) ==
    /\ ops[o].pc \in InFlight /\ failures < MaxFailures
    /\ ops' = [ops EXCEPT ![o].pc = "failed"]
    /\ failures' = failures + 1
    /\ UNCHANGED <<accounts, ledger, overlapped, settled>>

Begins(o) == \E t \in Ids : charge(o, t) \/ deductUsage(o, t) \/ getBillingInfo(o, t)
GetOrCreate(o) == Find(o) \/ FindNone(o) \/ Create(o) \/ CreateRefused(o)
Step(o) == Inform(o) \/ Refuse(o) \/ CreateTransaction(o) \/ Save(o) \/ Return(o)

Next == \E o \in Ops : Begins(o) \/ GetOrCreate(o) \/ Step(o) \/ Fail(o)

Spec == Init /\ [][Next]_vars
-------------------------------------------------------------------------------
Stored(t) == IF accounts[t] = None THEN NewAccount ELSE accounts[t]
Total(entries) == FoldSet(LAMBDA e, sum : sum + e.amount, 0, entries)
Entries(t, type) == {e \in ledger : e.tenant = t /\ e.type = type}

\* Those whose save took effect.
Settled(t, type) == {e \in Entries(t, type) : e.op \in settled}
PartialSums(entries) == {Total(some) : some \in SUBSET entries}

\* Tenants that were charged a negative amount, or of which one was deducted.
Reversed == {t \in Ids : \E o \in Ops : ops[o].tenant = t /\ ops[o].amount < 0}

Book == INSTANCE AccountBook WITH book <- [t \in Ids |-> Stored(t)], torn <- overlapped,
                                  reversed <- Reversed

\* Every account moves by credits and by debits it can afford until two operations of
\* the tenant overlap; after that, no deduction leaves a negative balance either, as it
\* saves what it has checked.  Only a negative charge makes a balance negative.
ImplementsBook == Book!Spec

\* Overlaps and failures lose updates and never invent one: each figure of an account
\* is a sum of some of the tenant's transactions whose save took effect, none counted
\* twice, the balance the difference of two such sums.  So if no amount is negative, no
\* account claims more than its transactions show.
LedgerCoversTotals ==
    \A t \in Ids :
        LET charged == PartialSums(Settled(t, "charge"))
            used == PartialSums(Settled(t, "usage"))
        IN  /\ Stored(t).totalCharged \in charged /\ Stored(t).totalUsed \in used
            /\ \E c \in charged, u \in used : Stored(t).balance = c - u

\* Without overlap an account is the sum of the transactions whose save took effect,
\* the balance their difference, whatever failed: not so for one operation that was
\* recorded and failed before its save.
LedgerExplainsAccount ==
    \A t \in Ids \ overlapped :
        /\ Stored(t).totalCharged = Total(Settled(t, "charge"))
        /\ Stored(t).totalUsed = Total(Settled(t, "usage"))
        /\ Stored(t).balance = Total(Settled(t, "charge")) - Total(Settled(t, "usage"))
===============================================================================
