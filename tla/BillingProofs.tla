----------------------------- MODULE BillingProofs -----------------------------
(***************************************************************************)
(* Type correctness of Billing, that it implements AccountBook, and what   *)
(* its ledger says of its accounts.                                        *)
(*                                                                         *)
(* Two saves of a tenant's account conflict only if both operations hold a *)
(* snapshot at once, and the second of them to get its snapshot puts the   *)
(* tenant into overlapped.  So a snapshot of a tenant that is not there is *)
(* the stored account (Fresh), and a save from it moves the stored account *)
(* by the operation's amount.  A recorded deduction has been compared with *)
(* its snapshot (Affords): the balance it saves is not negative, whatever  *)
(* the amount.  A charge saves a negative balance only if its amount or    *)
(* its snapshot's balance is negative, and both need a negative amount     *)
(* (Solvent).                                                              *)
(*                                                                         *)
(* What is stored and each snapshot are sums of settled entries (Covered): *)
(* a save adds its own entry, which is written and not settled before; and *)
(* an entry counts as settled exactly when the account moves by it.        *)
(***************************************************************************)
EXTENDS Billing, FiniteSetTheorems, TLAPS

Grounded == \A o \in Ops :
    /\ ops[o].pc # "idle" => ops[o].tenant \in Ids
    /\ ops[o].pc \in {"found", "recorded"} => accounts[ops[o].tenant] # None
    /\ ops[o].pc = "recorded" => ops[o].kind # "info"
    /\ ops[o].pc = "idle" => ops[o].amount = 0

Affords == \A o \in Ops :
    (ops[o].pc = "recorded" /\ ops[o].kind = "usage") => ops[o].amount <= ops[o].account.balance

Fresh == \A o \in Ops :
    (Holds(o) /\ ops[o].tenant \notin overlapped) => ops[o].account = accounts[ops[o].tenant]

Exclusive == \A o, q \in Ops :
    (o # q /\ Holds(o) /\ Holds(q) /\ ops[o].tenant = ops[q].tenant)
        => ops[o].tenant \in overlapped

\* Of a tenant without negative amounts no balance is negative, stored or held.
Solvent ==
    /\ \A t \in Ids \ Reversed : Stored(t).balance >= 0
    /\ \A o \in Ops : (ops[o].pc \in {"found", "recorded"} /\ ops[o].tenant \notin Reversed)
                        => ops[o].account.balance >= 0

Inv == TypeOK /\ Grounded /\ Affords /\ Fresh /\ Exclusive

-------------------------------------------------------------------------------
LEMMA InitInv == Init => Inv
<1> SUFFICES ASSUME Init PROVE Inv OBVIOUS
<1>1. NewAccount \in Account BY DEF NewAccount, Account
<1>2. Idle \in Operation BY <1>1 DEF Idle, Operation, InFlight
<1>3. TypeOK BY <1>2 DEF Init, TypeOK
<1>4. \A o \in Ops : ops[o] = Idle BY DEF Init
<1>5. \A o \in Ops : ops[o].pc = "idle" /\ ops[o].amount = 0 BY <1>4 DEF Idle
<1>6. \A o \in Ops : ~Holds(o) BY <1>5 DEF Holds
<1> QED BY <1>3, <1>5, <1>6 DEF Inv, Grounded, Affords, Fresh, Exclusive

\* What a save writes is an account, and a deduction leaves no debt.
LEMMA MovedFacts ==
    ASSUME Inv, NEW o \in Ops, ops[o].pc = "recorded"
    PROVE  /\ Moved(o) \in Account
           /\ ops[o].amount # 0 /\ ops[o].kind = "usage" => Moved(o).balance >= 0
<1> DEFINE a == ops[o].account
           s == accounts[ops[o].tenant]
           n == ops[o].amount
<1>1. ops[o] \in Operation BY DEF Inv, TypeOK
<1>2. a \in Account /\ n \in Int /\ ops[o].kind \in {"charge", "usage"}
  BY <1>1 DEF Inv, Grounded, Operation
<1>3. ops[o].tenant \in Ids /\ s # None BY DEF Inv, Grounded
<1>4. s \in Account BY <1>3 DEF Inv, TypeOK
<1>5. a.balance \in Int /\ a.totalCharged \in Int /\ a.totalUsed \in Int
  BY <1>2 DEF Account
<1>6. CASE ops[o].kind = "charge"
  <2>1. a.balance + n \in Int /\ a.totalCharged + n \in Int BY <1>2, <1>5
  <2> HIDE DEF a, s, n
  <2>2. [s EXCEPT !.balance = a.balance + n, !.totalCharged = a.totalCharged + n] \in Account
    BY <2>1, <1>4 DEF Account
  <2> QED BY <2>2, <1>4, <1>6 DEF Moved, a, s, n
<1>7. CASE ops[o].kind = "usage"
  <2>1. n <= a.balance BY <1>7 DEF Inv, Affords
  <2>2. a.balance - n \in Int /\ a.totalUsed + n \in Int /\ a.balance - n >= 0
    BY <2>1, <1>2, <1>5
  <2> DEFINE d == [s EXCEPT !.balance = a.balance - n, !.totalUsed = a.totalUsed + n]
  <2> HIDE DEF a, s, n
  <2>3. d \in Account /\ d.balance = a.balance - n BY <2>2, <1>4 DEF Account
  <2>4. Moved(o) = IF n = 0 THEN s ELSE d BY <1>7 DEF Moved, a, s, n
  <2> HIDE DEF d
  <2> QED BY <2>2, <2>3, <2>4, <1>4 DEF n
<1> QED BY <1>2, <1>6, <1>7

\* The fields it sets.
LEMMA MovedFields ==
    ASSUME Inv, NEW o \in Ops, ops[o].pc = "recorded",
           NEW s \in Account, s = accounts[ops[o].tenant]
    PROVE  LET n == ops[o].amount
               a == ops[o].account
           IN  /\ n = 0 => Moved(o) = s
               /\ n # 0 /\ ops[o].kind = "charge" =>
                    /\ Moved(o).balance = a.balance + n
                    /\ Moved(o).totalCharged = a.totalCharged + n
                    /\ Moved(o).totalUsed = s.totalUsed
               /\ n # 0 /\ ops[o].kind = "usage" =>
                    /\ Moved(o).balance = a.balance - n
                    /\ Moved(o).totalUsed = a.totalUsed + n
                    /\ Moved(o).totalCharged = s.totalCharged
<1> DEFINE n == ops[o].amount
           a == ops[o].account
           c == [s EXCEPT !.balance = a.balance + n, !.totalCharged = a.totalCharged + n]
           d == [s EXCEPT !.balance = a.balance - n, !.totalUsed = a.totalUsed + n]
<1>1. /\ c.balance = a.balance + n /\ c.totalCharged = a.totalCharged + n
      /\ c.totalUsed = s.totalUsed
  BY DEF Account
<1>2. /\ d.balance = a.balance - n /\ d.totalUsed = a.totalUsed + n
      /\ d.totalCharged = s.totalCharged
  BY DEF Account
<1>3. ops[o].kind \in {"charge", "usage"} BY DEF Inv, TypeOK, Grounded, Operation
<1>4. Moved(o) = IF n = 0 THEN s ELSE IF ops[o].kind = "charge" THEN c ELSE d
  BY DEF Moved
<1> HIDE DEF c, d
<1> QED BY <1>1, <1>2, <1>3, <1>4

\* The costs are integers.
LEMMA BeginsAmount ==
    ASSUME NEW o \in Ops, Begins(o)
    PROVE  \E kind \in {"charge", "usage", "info"}, t \in Ids, n \in Int : Begin(o, kind, t, n)
<1>1. PICK t \in Ids : charge(o, t) \/ deductUsage(o, t) \/ getBillingInfo(o, t) BY DEF Begins
<1>2. CASE charge(o, t) BY <1>2, BillingAssumption DEF charge
<1>3. CASE deductUsage(o, t)
  <2>1. PICK l \in Counts, r \in Counts : Begin(o, "usage", t, l * PerLog + r * PerRequest)
    BY <1>3 DEF deductUsage
  <2>2. l \in Int /\ r \in Int /\ PerLog \in Int /\ PerRequest \in Int BY BillingAssumption
  <2>3. l * PerLog \in Int /\ r * PerRequest \in Int BY <2>2
  <2>4. l * PerLog + r * PerRequest \in Int BY <2>3
  <2> QED BY <2>1, <2>4
<1>4. CASE getBillingInfo(o, t) BY <1>4 DEF getBillingInfo
<1> QED BY <1>1, <1>2, <1>3, <1>4

\* Nothing is recorded yet.
Early == {"idle", "finding", "missing", "found"}

\* o leaves its snapshot alone, or gives it up.
Ends(o) ==
    \E r \in Operation :
        /\ ops' = [ops EXCEPT ![o] = r]
        /\ r.pc \in Early => ops[o].pc \in Early
        /\ r.pc \notin {"idle", "found", "recorded"} /\ r.tenant \in Ids
        /\ ops[o].pc = "idle" \/ (r.tenant = ops[o].tenant /\ r.amount = ops[o].amount)
        /\ UNCHANGED <<accounts, overlapped, settled>>
        /\ ledger' = ledger /\ failures' \in Nat

LEMMA PcEnds ==
    ASSUME Inv, NEW o \in Ops, ops[o].pc # "idle",
           NEW pc \in {"missing", "done", "refused", "failed"},
           pc = "missing" => ops[o].pc \in Early,
           ops' = [ops EXCEPT ![o].pc = pc],
           UNCHANGED <<accounts, ledger, overlapped, settled>>, failures' \in Nat
    PROVE  Ends(o)
<1> DEFINE r == [ops[o] EXCEPT !.pc = pc]
<1>1. ops[o] \in Operation /\ ops[o].tenant \in Ids BY DEF Inv, TypeOK, Grounded
<1>2. r \in Operation /\ r.pc = pc /\ r.tenant = ops[o].tenant /\ r.amount = ops[o].amount
  BY <1>1 DEF Operation, InFlight
<1>3. ops' = [ops EXCEPT ![o] = r] BY DEF Inv, TypeOK
<1> QED BY <1>1, <1>2, <1>3 DEF Ends, Early

LEMMA StepKinds ==
    ASSUME Inv, NEW o \in Ops, Begins(o) \/ GetOrCreate(o) \/ Step(o) \/ Fail(o)
    PROVE  Ends(o) \/ Find(o) \/ Create(o) \/ CreateTransaction(o) \/ Save(o)
<1>0. failures \in Nat BY DEF Inv, TypeOK
<1>1. CASE Begins(o)
  <2>1. PICK kind \in {"charge", "usage", "info"}, t \in Ids, n \in Int : Begin(o, kind, t, n)
    BY <1>1, BeginsAmount
  <2> DEFINE r == [Idle EXCEPT !.pc = "finding", !.kind = kind, !.tenant = t, !.amount = n]
  <2>2. NewAccount \in Account BY DEF NewAccount, Account
  <2>3. r \in Operation /\ r.pc = "finding" /\ r.tenant = t
    BY <2>2 DEF Operation, Idle, InFlight
  <2>4. ops' = [ops EXCEPT ![o] = r] BY <2>1 DEF Begin
  <2>5. UNCHANGED <<accounts, ledger, failures, overlapped, settled>> BY <2>1 DEF Begin
  <2>6. ops[o].pc \in Early /\ ops[o].pc = "idle" BY <2>1 DEF Begin, Early
  <2> QED BY <2>3, <2>4, <2>5, <2>6, <1>0 DEF Ends
<1>2. CASE FindNone(o) BY <1>2, <1>0, PcEnds DEF FindNone, Early
<1>3. CASE CreateRefused(o) BY <1>3, <1>0, PcEnds DEF CreateRefused
<1>4. CASE Inform(o)
  <2> DEFINE pc == IF ops[o].tenant \in Tenants THEN "done" ELSE "failed"
  <2>1. pc \in {"missing", "done", "refused", "failed"} OBVIOUS
  <2>2. /\ ops[o].pc # "idle" /\ ops' = [ops EXCEPT ![o].pc = pc]
        /\ UNCHANGED <<accounts, ledger, failures, overlapped, settled>>
    BY <1>4 DEF Inform
  <2> QED BY <2>1, <2>2, <1>0, PcEnds
<1>5. CASE Refuse(o) BY <1>5, <1>0, PcEnds DEF Refuse
<1>6. CASE Return(o) BY <1>6, <1>0, PcEnds DEF Return
<1>7. CASE Fail(o)
  <2>1. failures' \in Nat BY <1>7, <1>0 DEF Fail
  <2>2. /\ ops[o].pc # "idle" /\ ops' = [ops EXCEPT ![o].pc = "failed"]
        /\ UNCHANGED <<accounts, ledger, overlapped, settled>>
    BY <1>7 DEF Fail, InFlight
  <2> QED BY <2>1, <2>2, PcEnds
<1> QED BY <1>1, <1>2, <1>3, <1>4, <1>5, <1>6, <1>7 DEF GetOrCreate, Step

LEMMA EndsKeepsInv ==
    ASSUME Inv, NEW o \in Ops, Ends(o)
    PROVE  Inv'
<1>1. PICK r \in Operation :
        /\ ops' = [ops EXCEPT ![o] = r]
        /\ r.pc \notin {"idle", "found", "recorded"} /\ r.tenant \in Ids
        /\ UNCHANGED <<accounts, overlapped, settled>>
        /\ ledger' = ledger /\ failures' \in Nat
  BY DEF Ends
<1>2. ops'[o] = r /\ \A q \in Ops \ {o} : ops'[q] = ops[q] BY <1>1 DEF Inv, TypeOK
<1>3. TypeOK' BY <1>1 DEF Inv, TypeOK
<1>4. ~Holds(o)' /\ \A q \in Ops \ {o} : Holds(q)' <=> Holds(q) BY <1>1, <1>2 DEF Holds
<1>5. Grounded' BY <1>1, <1>2 DEF Inv, Grounded
<1>6. Affords' BY <1>1, <1>2 DEF Inv, Affords
<1>7. Fresh' BY <1>1, <1>2, <1>4 DEF Inv, Fresh
<1>8. Exclusive' BY <1>1, <1>2, <1>4 DEF Inv, Exclusive
<1> QED BY <1>3, <1>5, <1>6, <1>7, <1>8 DEF Inv

\* o gets the account that is then stored.
LEMMA GotKeepsInv ==
    ASSUME Inv, NEW o \in Ops, NEW account \in Account, ops[o].pc \notin {"idle"},
           Got(o, account), accounts' = [accounts EXCEPT ![ops[o].tenant] = account],
           accounts[ops[o].tenant] \in {None, account},
           UNCHANGED <<ledger, failures, settled>>
    PROVE  Inv'
<1> DEFINE t == ops[o].tenant
           r == [ops[o] EXCEPT !.pc = "found", !.account = account]
<1>0. account # None BY BillingAssumption DEF Account
<1>1. ops[o] \in Operation /\ t \in Ids BY DEF Inv, TypeOK, Grounded
<1>2. /\ r \in Operation /\ r.pc = "found" /\ r.tenant = t /\ r.kind = ops[o].kind
      /\ r.account = account /\ r.amount = ops[o].amount
  BY <1>1 DEF Operation, InFlight
<1>3. ops' = [ops EXCEPT ![o] = r] BY DEF Got, Inv, TypeOK
<1> HIDE DEF r
<1>4. ops'[o] = r /\ \A q \in Ops \ {o} : ops'[q] = ops[q] BY <1>3 DEF Inv, TypeOK
<1>5. accounts'[t] = account /\ \A u \in Ids \ {t} : accounts'[u] = accounts[u]
  BY <1>1 DEF Inv, TypeOK
<1>6. overlapped' \in SUBSET Ids /\ overlapped \subseteq overlapped'
  BY <1>1 DEF Got, Inv, TypeOK
<1>7. TypeOK'
  <2>1. accounts' \in [Ids -> Account \cup {None}] BY <1>1 DEF Inv, TypeOK
  <2>2. ops' \in [Ops -> Operation] BY <1>2, <1>3 DEF Inv, TypeOK
  <2> QED BY <2>1, <2>2, <1>6 DEF Inv, TypeOK
<1>8. \A q \in Ops \ {o} : Holds(q)' <=> Holds(q) BY <1>4 DEF Holds
<1>9. Holds(o)' <=> ops[o].kind # "info" BY <1>2, <1>4 DEF Holds
<1>10. \A q \in Ops \ {o} : ops[q].tenant \in Ids /\ accounts[ops[q].tenant] # None
                               => accounts'[ops[q].tenant] = accounts[ops[q].tenant]
  BY <1>5
<1>11. Grounded' BY <1>0, <1>1, <1>2, <1>4, <1>5, <1>10 DEF Inv, Grounded
<1>12. Affords' BY <1>2, <1>4 DEF Inv, Affords
<1>13. Fresh'
  <2> SUFFICES ASSUME NEW q \in Ops, Holds(q)', ops'[q].tenant \notin overlapped'
               PROVE  ops'[q].account = accounts'[ops'[q].tenant]
    BY DEF Fresh
  <2>1. CASE q = o BY <2>1, <1>2, <1>4, <1>5
  <2>2. CASE q # o
    <3>1. Holds(q) /\ ops'[q] = ops[q] BY <2>2, <1>4, <1>8
    <3>2. ops[q].account = accounts[ops[q].tenant] BY <3>1, <1>6 DEF Inv, Fresh
    <3>3. ops[q].tenant \in Ids /\ accounts[ops[q].tenant] # None
      BY <3>1 DEF Inv, Grounded, Holds
    <3> QED BY <3>1, <3>2, <3>3, <2>2, <1>10
  <2> QED BY <2>1, <2>2
<1>14. Exclusive'
  <2> SUFFICES ASSUME NEW p \in Ops, NEW q \in Ops, p # q, Holds(p)', Holds(q)',
                      ops'[p].tenant = ops'[q].tenant
               PROVE  ops'[p].tenant \in overlapped'
    BY DEF Exclusive
  <2>1. CASE p # o /\ q # o BY <2>1, <1>4, <1>6, <1>8 DEF Inv, Exclusive
  <2>2. ASSUME NEW x \in Ops, x # o, Holds(x)', Holds(o)', ops'[x].tenant = ops'[o].tenant
        PROVE  t \in overlapped'
    <3>1. Holds(x) /\ ops[x].tenant = t /\ ops[o].kind # "info"
      BY <2>2, <1>2, <1>4, <1>8, <1>9
    <3> QED BY <3>1 DEF Got
  <2>3. CASE p = o BY <2>2, <2>3, <1>2, <1>4
  <2>4. CASE q = o BY <2>2, <2>4, <1>2, <1>4
  <2> QED BY <2>1, <2>3, <2>4
<1> QED BY <1>7, <1>11, <1>12, <1>13, <1>14 DEF Inv

LEMMA CreateTransactionKeepsInv ==
    ASSUME Inv, NEW o \in Ops, CreateTransaction(o)
    PROVE  Inv'
<1> DEFINE r == [ops[o] EXCEPT !.pc = "recorded"]
           e == [op |-> o, tenant |-> ops[o].tenant, type |-> ops[o].kind,
                 amount |-> ops[o].amount]
<1>1. ops[o] \in Operation /\ ops[o].tenant \in Ids /\ ops[o].kind # "info"
  BY DEF Inv, TypeOK, Grounded, CreateTransaction
<1>2. /\ r \in Operation /\ r.pc = "recorded" /\ r.tenant = ops[o].tenant
      /\ r.kind = ops[o].kind /\ r.account = ops[o].account /\ r.amount = ops[o].amount
  BY <1>1 DEF Operation, InFlight
<1>3. ops' = [ops EXCEPT ![o] = r] BY DEF CreateTransaction, Inv, TypeOK
<1> HIDE DEF r
<1>4. ops'[o] = r /\ \A q \in Ops \ {o} : ops'[q] = ops[q] BY <1>3 DEF Inv, TypeOK
<1>5. UNCHANGED <<accounts, failures, overlapped, settled>> BY DEF CreateTransaction
<1>6. ops[o].pc = "found" /\ Affordable(o) BY DEF CreateTransaction
<1>7. TypeOK'
  <2>1. e \in Transaction BY <1>1 DEF Operation, Transaction
  <2>2. ledger' = ledger \cup {e} BY DEF CreateTransaction
  <2>3. ops' \in [Ops -> Operation] BY <1>2, <1>3 DEF Inv, TypeOK
  <2>4. ledger' \in SUBSET Transaction BY <2>1, <2>2 DEF Inv, TypeOK
  <2> QED BY <2>3, <2>4, <1>5 DEF Inv, TypeOK
<1>8. \A q \in Ops : /\ Holds(q)' <=> Holds(q)
                     /\ ops'[q].tenant = ops[q].tenant /\ ops'[q].account = ops[q].account
  BY <1>1, <1>2, <1>4, <1>6 DEF Holds
<1>9. Grounded' BY <1>1, <1>2, <1>4, <1>5, <1>6 DEF Inv, Grounded
<1>10. Affords'
  <2>1. ops[o].kind = "usage" => ops[o].amount <= ops[o].account.balance
    <3>1. ops[o].amount \in Int /\ ops[o].account.balance \in Int
      BY <1>1 DEF Operation, Account
    <3> QED BY <3>1, <1>6 DEF Affordable
  <2> QED BY <2>1, <1>2, <1>4 DEF Inv, Affords
<1>11. Fresh' BY <1>5, <1>8 DEF Inv, Fresh
<1>12. Exclusive' BY <1>5, <1>8 DEF Inv, Exclusive
<1> QED BY <1>7, <1>9, <1>10, <1>11, <1>12 DEF Inv

LEMMA SaveKeepsInv ==
    ASSUME Inv, NEW o \in Ops, Save(o)
    PROVE  Inv'
<1> DEFINE r == [ops[o] EXCEPT !.pc = "saved"]
           t == ops[o].tenant
<1>1. ops[o] \in Operation /\ t \in Ids /\ ops[o].kind # "info" /\ ops[o].pc = "recorded"
  BY DEF Inv, TypeOK, Grounded, Save
<1>2. Holds(o) BY <1>1 DEF Holds
<1>3. r \in Operation /\ r.pc = "saved" /\ r.tenant = t
  BY <1>1 DEF Operation, InFlight
<1>4. ops' = [ops EXCEPT ![o] = r] BY DEF Save, Inv, TypeOK
<1> HIDE DEF r
<1>5. ops'[o] = r /\ \A q \in Ops \ {o} : ops'[q] = ops[q] BY <1>4 DEF Inv, TypeOK
<1>6. PICK moved \in Account : moved = Moved(o) BY <1>1, MovedFacts
<1>7. accounts' = [accounts EXCEPT ![t] = moved] /\ moved # None
  BY <1>6, BillingAssumption DEF Save, Account
<1>8. accounts'[t] = moved /\ \A u \in Ids \ {t} : accounts'[u] = accounts[u]
  BY <1>1, <1>7 DEF Inv, TypeOK
<1>9. UNCHANGED <<ledger, failures, overlapped>> /\ settled' = settled \cup {o} BY DEF Save
<1>10. TypeOK'
  <2>1. ops' \in [Ops -> Operation] BY <1>3, <1>4 DEF Inv, TypeOK
  <2>2. accounts' \in [Ids -> Account \cup {None}] BY <1>1, <1>7 DEF Inv, TypeOK
  <2> QED BY <2>1, <2>2, <1>9 DEF Inv, TypeOK
<1>11. ~Holds(o)' /\ \A q \in Ops \ {o} : Holds(q)' <=> Holds(q)
  BY <1>3, <1>5 DEF Holds
<1>12. Grounded' BY <1>1, <1>3, <1>5, <1>7, <1>8 DEF Inv, Grounded
<1>13. Affords' BY <1>3, <1>5 DEF Inv, Affords
<1>14. Fresh'
  <2> SUFFICES ASSUME NEW q \in Ops, Holds(q)', ops'[q].tenant \notin overlapped'
               PROVE  ops'[q].account = accounts'[ops'[q].tenant]
    BY DEF Fresh
  <2>1. q # o /\ Holds(q) /\ ops'[q] = ops[q] BY <1>5, <1>11
  <2>2. ops[q].tenant # t BY <2>1, <1>2, <1>9 DEF Inv, Exclusive
  <2>3. ops[q].tenant \in Ids BY <2>1 DEF Inv, Grounded, Holds
  <2>4. ops[q].account = accounts[ops[q].tenant] BY <2>1, <1>9 DEF Inv, Fresh
  <2> QED BY <2>1, <2>2, <2>3, <2>4, <1>8
<1>15. Exclusive' BY <1>5, <1>9, <1>11 DEF Inv, Exclusive
<1> QED BY <1>10, <1>12, <1>13, <1>14, <1>15 DEF Inv

LEMMA FindGets ==
    ASSUME Inv, NEW o \in Ops, Find(o) \/ Create(o)
    PROVE  \E account \in Account :
             /\ Got(o, account) /\ ops[o].pc \notin {"idle"}
             /\ accounts' = [accounts EXCEPT ![ops[o].tenant] = account]
             /\ accounts[ops[o].tenant] \in {None, account}
             /\ accounts[ops[o].tenant] = None => account = NewAccount
             /\ UNCHANGED <<ledger, failures, settled>>
<1>1. CASE Find(o)
  <2> DEFINE a == accounts[ops[o].tenant]
  <2>1. ops[o].tenant \in Ids /\ a # None BY <1>1 DEF Find, Inv, Grounded
  <2>2. a \in Account BY <2>1 DEF Inv, TypeOK
  <2>3. accounts' = [accounts EXCEPT ![ops[o].tenant] = a]
    BY <1>1, <2>1 DEF Find, Inv, TypeOK
  <2> QED BY <1>1, <2>1, <2>2, <2>3 DEF Find
<1>2. CASE Create(o)
  <2>1. NewAccount \in Account BY DEF NewAccount, Account
  <2> QED BY <1>2, <2>1 DEF Create, Free
<1> QED BY <1>1, <1>2

LEMMA NextKeepsInv == Inv /\ [Next]_vars => Inv'
<1> SUFFICES ASSUME Inv, [Next]_vars PROVE Inv' OBVIOUS
<1>1. CASE UNCHANGED vars
  <2>1. UNCHANGED <<accounts, ledger, ops, failures, overlapped, settled>> BY <1>1 DEF vars
  <2> QED BY <2>1 DEF Inv, TypeOK, Grounded, Affords, Fresh, Exclusive, Holds
<1>2. CASE Next
  <2>1. PICK o \in Ops : Begins(o) \/ GetOrCreate(o) \/ Step(o) \/ Fail(o)
    BY <1>2 DEF Next
  <2>2. CASE Ends(o) BY <2>2, EndsKeepsInv
  <2>3. CASE Find(o) \/ Create(o)
    <3>1. PICK account \in Account :
             /\ Got(o, account) /\ ops[o].pc \notin {"idle"}
             /\ accounts' = [accounts EXCEPT ![ops[o].tenant] = account]
             /\ accounts[ops[o].tenant] \in {None, account}
             /\ UNCHANGED <<ledger, failures, settled>>
      BY <2>3, FindGets
    <3> QED BY <3>1, GotKeepsInv
  <2>4. CASE CreateTransaction(o) BY <2>4, CreateTransactionKeepsInv
  <2>5. CASE Save(o) BY <2>5, SaveKeepsInv
  <2> QED BY <2>1, <2>2, <2>3, <2>4, <2>5, StepKinds
<1> QED BY <1>1, <1>2

-------------------------------------------------------------------------------
LEMMA StoredIsAccount == Inv => \A t \in Ids : Stored(t) \in Account
BY DEF Inv, TypeOK, Stored, NewAccount, Account

\* What an operation is asked for stays, so a reversed tenant stays one; a new operation
\* may reverse its tenant.
LEMMA SameReversed ==
    ASSUME Inv, NEW o \in Ops, Find(o) \/ Create(o) \/ CreateTransaction(o) \/ Save(o)
    PROVE  /\ Reversed' = Reversed /\ ops[o].tenant \in Ids
           /\ ops[o].pc # "idle" /\ \A q \in Ops \ {o} : ops'[q] = ops[q]
<1>1. ops[o] \in Operation /\ ops[o].pc # "idle" /\ ops[o].tenant \in Ids
  BY DEF Inv, TypeOK, Grounded, Find, Create, CreateTransaction, Save
<1>2. PICK r : /\ ops' = [ops EXCEPT ![o] = r]
               /\ r.tenant = ops[o].tenant /\ r.amount = ops[o].amount
  <2>1. CASE Find(o) \/ Create(o)
    <3>1. PICK account \in Account : Got(o, account) BY <2>1, FindGets
    <3> DEFINE r == [ops[o] EXCEPT !.pc = "found", !.account = account]
    <3>2. ops' = [ops EXCEPT ![o] = r] BY <3>1 DEF Got, Inv, TypeOK
    <3>3. r.tenant = ops[o].tenant /\ r.amount = ops[o].amount BY <1>1 DEF Operation
    <3> QED BY <3>2, <3>3
  <2>2. ASSUME NEW pc, ops' = [ops EXCEPT ![o].pc = pc]
        PROVE  \E r : /\ ops' = [ops EXCEPT ![o] = r]
                      /\ r.tenant = ops[o].tenant /\ r.amount = ops[o].amount
    <3> DEFINE r == [ops[o] EXCEPT !.pc = pc]
    <3>1. ops' = [ops EXCEPT ![o] = r] BY <2>2 DEF Inv, TypeOK
    <3>2. r.tenant = ops[o].tenant /\ r.amount = ops[o].amount BY <1>1 DEF Operation
    <3> QED BY <3>1, <3>2
  <2> QED BY <2>1, <2>2 DEF CreateTransaction, Save
<1>3. /\ \A q \in Ops \ {o} : ops'[q] = ops[q]
      /\ \A q \in Ops : ops'[q].tenant = ops[q].tenant /\ ops'[q].amount = ops[q].amount
  BY <1>2 DEF Inv, TypeOK
<1> QED BY <1>1, <1>3 DEF Reversed

LEMMA EndsReversed ==
    ASSUME Inv, NEW o \in Ops, Ends(o)
    PROVE  \E t \in Ids : Reversed' \in {Reversed, Reversed \cup {t}}
<1>1. PICK r \in Operation :
        /\ ops' = [ops EXCEPT ![o] = r] /\ r.tenant \in Ids
        /\ ops[o].pc = "idle" \/ (r.tenant = ops[o].tenant /\ r.amount = ops[o].amount)
  BY DEF Ends
<1>2. ops'[o] = r /\ \A q \in Ops \ {o} : ops'[q] = ops[q] BY <1>1 DEF Inv, TypeOK
<1>3. CASE ops[o].pc = "idle"
  <2>1. ~(ops[o].amount < 0) BY <1>3 DEF Inv, Grounded
  <2>2. Reversed' = IF r.amount < 0 THEN Reversed \cup {r.tenant} ELSE Reversed
    BY <1>1, <1>2, <2>1 DEF Reversed
  <2> QED BY <1>1, <2>2
<1>4. CASE r.tenant = ops[o].tenant /\ r.amount = ops[o].amount
  <2>1. Reversed' = Reversed BY <1>2, <1>4 DEF Reversed
  <2> QED BY <1>1, <2>1
<1> QED BY <1>1, <1>3, <1>4

\* What Save(o) does to what is stored.
LEMMA SaveFacts ==
    ASSUME Inv, NEW o \in Ops, Save(o)
    PROVE  \E t \in Ids :
             /\ t = ops[o].tenant
             /\ Stored(t)' = Moved(o) /\ Moved(o) \in Account
             /\ Stored(t) = accounts[t]
             /\ \A u \in Ids \ {t} : Stored(u)' = Stored(u)
<1>1. ops[o].tenant \in Ids /\ accounts[ops[o].tenant] # None /\ ops[o].pc = "recorded"
  BY DEF Inv, Grounded, Save
<1>2. PICK moved \in Account : moved = Moved(o) BY <1>1, MovedFacts
<1>3. accounts' = [accounts EXCEPT ![ops[o].tenant] = moved] /\ moved # None
  BY <1>2, BillingAssumption DEF Save, Account
<1>5. PICK t \in Ids : t = ops[o].tenant BY <1>1
<1>6. accounts'[t] = moved /\ \A u \in Ids \ {t} : accounts'[u] = accounts[u]
  BY <1>3, <1>5 DEF Inv, TypeOK
<1>7. \A u \in Ids : Stored(u)' = IF accounts'[u] = None THEN NewAccount ELSE accounts'[u]
  BY DEF Stored
<1>8. Stored(t)' = moved /\ \A u \in Ids \ {t} : Stored(u)' = Stored(u)
  BY <1>3, <1>6, <1>7 DEF Stored
<1> QED BY <1>1, <1>2, <1>5, <1>8 DEF Stored

\* And what o gets is what is stored.
LEMMA GotFacts ==
    ASSUME Inv, NEW o \in Ops, Find(o) \/ Create(o)
    PROVE  /\ \A u \in Ids : Stored(u)' = Stored(u)
           /\ ops'[o].account = Stored(ops[o].tenant) /\ ops'[o].tenant = ops[o].tenant
           /\ ops'[o].pc = "found"
<1>1. PICK account \in Account :
        /\ Got(o, account) /\ ops[o].pc \notin {"idle"}
        /\ accounts' = [accounts EXCEPT ![ops[o].tenant] = account]
        /\ accounts[ops[o].tenant] \in {None, account}
        /\ accounts[ops[o].tenant] = None => account = NewAccount
  BY FindGets
<1>2. PICK t \in Ids : t = ops[o].tenant BY <1>1 DEF Inv, Grounded
<1>3. accounts'[t] = account /\ \A u \in Ids \ {t} : accounts'[u] = accounts[u]
  BY <1>1, <1>2 DEF Inv, TypeOK
<1>4. account # None BY BillingAssumption DEF Account
<1>5. \A u \in Ids : Stored(u)' = Stored(u) BY <1>1, <1>2, <1>3, <1>4 DEF Stored
<1>6. account = Stored(t) BY <1>1, <1>2, <1>4 DEF Stored
<1> DEFINE r == [ops[o] EXCEPT !.pc = "found", !.account = account]
<1>7. ops' = [ops EXCEPT ![o] = r] BY <1>1 DEF Got, Inv, TypeOK
<1>8. r.account = account /\ r.tenant = t /\ r.pc = "found" BY <1>2 DEF Inv, TypeOK, Operation
<1> HIDE DEF r
<1>9. ops'[o] = r BY <1>7 DEF Inv, TypeOK
<1> QED BY <1>2, <1>5, <1>6, <1>8, <1>9

LEMMA NextKeepsSolvent == Inv /\ Solvent /\ [Next]_vars => Solvent'
<1> SUFFICES ASSUME Inv, Solvent, [Next]_vars PROVE Solvent' OBVIOUS
<1>1. CASE UNCHANGED vars
  BY <1>1 DEF vars, Solvent, Reversed, Stored
<1>2. CASE Next
  <2>1. PICK o \in Ops : Begins(o) \/ GetOrCreate(o) \/ Step(o) \/ Fail(o)
    BY <1>2 DEF Next
  <2>2. ASSUME Ends(o) PROVE Solvent'
    <3>1. PICK r \in Operation :
            /\ ops' = [ops EXCEPT ![o] = r]
            /\ r.pc \notin {"idle", "found", "recorded"} /\ UNCHANGED accounts
      BY <2>2 DEF Ends
    <3>2. ops'[o] = r /\ \A q \in Ops \ {o} : ops'[q] = ops[q] BY <3>1 DEF Inv, TypeOK
    <3>3. Reversed \subseteq Reversed' BY <2>2, EndsReversed
    <3>4. \A t \in Ids : Stored(t)' = Stored(t) BY <3>1 DEF Stored
    <3> QED BY <3>1, <3>2, <3>3, <3>4 DEF Solvent
  <2>3. ASSUME Find(o) \/ Create(o) PROVE Solvent'
    <3>1. /\ Reversed' = Reversed /\ ops[o].tenant \in Ids
          /\ \A q \in Ops \ {o} : ops'[q] = ops[q]
      BY <2>3, SameReversed
    <3>2. PICK t \in Ids : t = ops[o].tenant BY <3>1
    <3>3. /\ \A u \in Ids : Stored(u)' = Stored(u)
          /\ ops'[o].account = Stored(t) /\ ops'[o].tenant = t
      BY <2>3, <3>2, GotFacts
    <3>4. t \notin Reversed => Stored(t).balance >= 0 BY DEF Solvent
    <3>5. \A u \in Ids \ Reversed' : Stored(u)'.balance >= 0 BY <3>1, <3>3 DEF Solvent
    <3>6. ASSUME NEW q \in Ops, ops'[q].pc \in {"found", "recorded"},
                 ops'[q].tenant \notin Reversed'
          PROVE  ops'[q].account.balance >= 0
      <4>1. CASE q = o BY <4>1, <3>1, <3>3, <3>4, <3>6
      <4>2. CASE q # o BY <4>2, <3>1, <3>6 DEF Solvent
      <4> QED BY <4>1, <4>2
    <3> QED BY <3>5, <3>6 DEF Solvent
  <2>4. ASSUME CreateTransaction(o) PROVE Solvent'
    <3>1. Reversed' = Reversed /\ \A q \in Ops \ {o} : ops'[q] = ops[q]
      BY <2>4, SameReversed
    <3>2. ops[o].pc = "found" /\ UNCHANGED accounts BY <2>4 DEF CreateTransaction
    <3>3. ops'[o].account = ops[o].account /\ ops'[o].tenant = ops[o].tenant
      BY <2>4 DEF CreateTransaction, Inv, TypeOK, Operation
    <3>4. \A t \in Ids : Stored(t)' = Stored(t) BY <3>2 DEF Stored
    <3> QED BY <3>1, <3>2, <3>3, <3>4 DEF Solvent
  <2>5. ASSUME Save(o) PROVE Solvent'
    <3>1. Reversed' = Reversed /\ \A q \in Ops \ {o} : ops'[q] = ops[q]
      BY <2>5, SameReversed
    <3>2. PICK t \in Ids : /\ t = ops[o].tenant
                           /\ Stored(t)' = Moved(o) /\ Stored(t) = accounts[t]
                           /\ \A u \in Ids \ {t} : Stored(u)' = Stored(u)
      BY <2>5, SaveFacts
    <3>3. ops'[o].pc = "saved" BY <2>5 DEF Save, Inv, TypeOK, Operation
    <3>4. ASSUME t \notin Reversed PROVE Moved(o).balance >= 0
      <4>1. ops[o].pc = "recorded" BY <2>5 DEF Save
      <4>2. ops[o] \in Operation /\ ops[o].kind \in {"charge", "usage"}
        BY <4>1 DEF Inv, TypeOK, Grounded, Operation
      <4>3. ops[o].amount \in Int /\ ~(ops[o].amount < 0)
        BY <3>2, <3>4, <4>2 DEF Reversed, Operation
      <4>4. ops[o].account.balance >= 0 /\ accounts[t].balance >= 0
        BY <3>2, <3>4, <4>1 DEF Solvent
      <4>5. CASE ops[o].amount # 0 /\ ops[o].kind = "charge"
        <5>1. accounts[t] \in Account /\ ops[o].account \in Account
          BY <3>2, <4>2, StoredIsAccount DEF Operation
        <5>2. Moved(o).balance = ops[o].account.balance + ops[o].amount
          <6> DEFINE s == accounts[t]
                     b == ops[o].account.balance + ops[o].amount
                     c == ops[o].account.totalCharged + ops[o].amount
          <6>1. Moved(o) = [s EXCEPT !.balance = b, !.totalCharged = c]
            BY <4>5, <3>2 DEF Moved
          <6> HIDE DEF s, b, c
          <6>2. [s EXCEPT !.balance = b, !.totalCharged = c].balance = b
            BY <5>1 DEF Account, s
          <6> QED BY <6>1, <6>2 DEF b
        <5>3. ops[o].account.balance \in Int BY <5>1 DEF Account
        <5> QED BY <4>3, <4>4, <5>2, <5>3
      <4>6. CASE ops[o].amount # 0 /\ ops[o].kind = "usage" BY <4>1, <4>6, MovedFacts
      <4>7. CASE ops[o].amount = 0 BY <3>2, <4>4, <4>7 DEF Moved
      <4> QED BY <4>2, <4>5, <4>6, <4>7
    <3>5. \A u \in Ids \ Reversed' : Stored(u)'.balance >= 0
      BY <3>1, <3>2, <3>4 DEF Solvent
    <3>6. \A q \in Ops : (ops'[q].pc \in {"found", "recorded"} /\ ops'[q].tenant \notin Reversed')
                            => ops'[q].account.balance >= 0
      BY <3>1, <3>3 DEF Solvent
    <3> QED BY <3>5, <3>6 DEF Solvent
  <2> QED BY <2>1, <2>2, <2>3, <2>4, <2>5, StepKinds
<1> QED BY <1>1, <1>2

LEMMA InitSolvent == Init => Solvent
BY DEF Init, Idle, Solvent, Stored, NewAccount

\* Under any interleaving and any failure, and for any integers charged and deducted,
\* accounts, operations and ledger keep their shape; and a tenant has no negative
\* balance, stored or held, before a negative amount is asked for.
THEOREM BillingTypeCorrect == Spec => [](TypeOK /\ Solvent)
<1>1. Inv => TypeOK BY DEF Inv
<1>2. Inv /\ Solvent /\ [Next]_vars => Inv' /\ Solvent' BY NextKeepsInv, NextKeepsSolvent
<1> QED BY <1>1, <1>2, InitInv, InitSolvent, PTL DEF Spec
-------------------------------------------------------------------------------
book == [t \in Ids |-> Stored(t)]


\* A step that leaves what is stored as it was, and may tear or reverse one tenant.
LEMMA QuietStep ==
    ASSUME \A u \in Ids : Stored(u)' = Stored(u), NEW t \in Ids,
           \/ overlapped' \in {overlapped, overlapped \cup {t}} /\ Reversed' = Reversed
           \/ overlapped' = overlapped /\ Reversed' \in {Reversed, Reversed \cup {t}}
    PROVE  [Book!Next]_<<book, overlapped, Reversed>>
<1>1. book' = book BY DEF book
<1>2. CASE overlapped' = overlapped /\ Reversed' = Reversed BY <1>1, <1>2
<1>3. CASE overlapped' = overlapped \cup {t} /\ Reversed' = Reversed
  BY <1>1, <1>3 DEF Book!Next, Book!Tear, book
<1>4. CASE overlapped' = overlapped /\ Reversed' = Reversed \cup {t}
  BY <1>1, <1>4 DEF Book!Next, Book!Reverse, book
<1> QED BY <1>2, <1>3, <1>4

\* A save of a tenant that is not torn moves the stored account by its amount; a save
\* leaves a balance that is not negative, unless it is a charge of a reversed tenant.
LEMMA SaveMovesBook ==
    ASSUME Inv, Solvent', NEW o \in Ops, Save(o)
    PROVE  [Book!Next]_<<book, overlapped, Reversed>>
<1>0. PICK t \in Ids : /\ t = ops[o].tenant
                       /\ Stored(t)' = Moved(o) /\ Moved(o) \in Account
                       /\ Stored(t) = accounts[t]
                       /\ \A u \in Ids \ {t} : Stored(u)' = Stored(u)
  BY SaveFacts
<1>n. PICK n : n = ops[o].amount OBVIOUS
<1>1. ops[o] \in Operation /\ ops[o].kind \in {"charge", "usage"} /\ ops[o].pc = "recorded"
  BY DEF Inv, TypeOK, Grounded, Save, Operation
<1>2. PICK moved \in Account : moved = Moved(o) BY <1>0
<1>3. book'[t] = moved /\ \A u \in Ids \ {t} : book'[u] = book[u]
  BY <1>0, <1>2 DEF book
<1>4. book[t] = accounts[t] /\ accounts[t] \in Account
  BY <1>0, StoredIsAccount DEF book
<1>5. UNCHANGED <<overlapped, Reversed>> BY SameReversed DEF Save
<1>6. Book!Only(t) BY <1>3, <1>5 DEF Book!Only, book
<1>7. t \notin Reversed => moved.balance >= 0 /\ ~(n < 0)
  BY <1>0, <1>n, <1>2, <1>5 DEF Solvent, Reversed
<1>8. n # 0 /\ ops[o].kind = "usage" => moved.balance >= 0 BY <1>1, <1>n, <1>2, MovedFacts
<1>9. PICK s \in Account : s = accounts[t] BY <1>4
<1>10. ops[o].account \in Account BY <1>1 DEF Operation
<1>11. /\ n = 0 => moved = s
       /\ n # 0 /\ ops[o].kind = "charge" =>
            /\ moved.balance = ops[o].account.balance + n
            /\ moved.totalCharged = ops[o].account.totalCharged + n
            /\ moved.totalUsed = s.totalUsed
       /\ n # 0 /\ ops[o].kind = "usage" =>
            /\ moved.balance = ops[o].account.balance - n
            /\ moved.totalUsed = ops[o].account.totalUsed + n
            /\ moved.totalCharged = s.totalCharged
  BY <1>0, <1>n, <1>1, <1>2, <1>9, MovedFields
<1>12. CASE n = 0
  <2>1. \A u \in Ids : book'[u] = book[u] BY <1>3, <1>4, <1>9, <1>11, <1>12
  <2>2. book' = book BY <2>1 DEF book
  <2> QED BY <2>2, <1>5
<1>13. CASE n # 0 /\ t \in overlapped
  <2>1. moved.balance >= 0 \/ (t \in Reversed /\ moved.totalUsed = s.totalUsed)
    BY <1>1, <1>7, <1>8, <1>11, <1>13
  <2>2. Book!Drift(t) BY <1>3, <1>4, <1>6, <1>9, <1>13, <2>1 DEF Book!Drift, book
  <2> QED BY <1>1, <2>2 DEF Book!Next
<1>14. CASE n # 0 /\ t \notin overlapped
  <2>1. ops[o].account = s BY <1>0, <1>1, <1>9, <1>14 DEF Inv, Fresh, Holds
  <2>2. s.balance \in Int /\ s.totalCharged \in Int /\ s.totalUsed \in Int /\ n \in Int
    BY <1>n, <1>1, <1>9 DEF Account, Operation
  <2>3. t \notin Reversed => n > 0 BY <1>7, <1>14, <2>2
  <2>4. CASE ops[o].kind = "charge"
    <3>1. /\ moved.totalUsed = s.totalUsed /\ moved.totalCharged = s.totalCharged + n
          /\ moved.balance = s.balance + n
      BY <1>11, <1>14, <2>1, <2>4
    <3>2. /\ t \notin Reversed => moved.totalCharged > s.totalCharged
          /\ moved.balance - s.balance = moved.totalCharged - s.totalCharged
      BY <3>1, <2>2, <2>3
    <3>3. Book!Credit(t)
      BY <3>1, <3>2, <1>3, <1>4, <1>6, <1>9, <1>14 DEF Book!Credit, book
    <3> QED BY <1>1, <3>3 DEF Book!Next
  <2>5. CASE ops[o].kind = "usage"
    <3>1. /\ moved.totalCharged = s.totalCharged /\ moved.totalUsed = s.totalUsed + n
          /\ moved.balance = s.balance - n
      BY <1>11, <1>14, <2>1, <2>5
    <3>2. /\ t \notin Reversed => moved.totalUsed > s.totalUsed
          /\ s.balance - moved.balance = moved.totalUsed - s.totalUsed
      BY <3>1, <2>2, <2>3
    <3>3. Book!Debit(t)
      BY <3>1, <3>2, <1>3, <1>4, <1>6, <1>8, <1>9, <1>14, <2>5 DEF Book!Debit, book
    <3> QED BY <1>1, <3>3 DEF Book!Next
  <2> QED BY <1>1, <2>4, <2>5
<1> QED BY <1>12, <1>13, <1>14

LEMMA StepsBook == Inv /\ Solvent' /\ [Next]_vars => [Book!Next]_<<book, overlapped, Reversed>>
<1> SUFFICES ASSUME Inv, Solvent', [Next]_vars
             PROVE  [Book!Next]_<<book, overlapped, Reversed>>
  OBVIOUS
<1>1. CASE UNCHANGED vars BY <1>1 DEF vars, book, Stored, Reversed
<1>2. CASE Next
  <2>1. PICK o \in Ops : Begins(o) \/ GetOrCreate(o) \/ Step(o) \/ Fail(o)
    BY <1>2 DEF Next
  <2>2. ASSUME Ends(o) PROVE [Book!Next]_<<book, overlapped, Reversed>>
    <3>1. UNCHANGED <<accounts, overlapped>> BY <2>2 DEF Ends
    <3>2. \A u \in Ids : Stored(u)' = Stored(u) BY <3>1 DEF Stored
    <3>3. PICK t \in Ids : Reversed' \in {Reversed, Reversed \cup {t}} BY <2>2, EndsReversed
    <3> QED BY <3>1, <3>2, <3>3, QuietStep
  <2>3. ASSUME Find(o) \/ Create(o) PROVE [Book!Next]_<<book, overlapped, Reversed>>
    <3>1. \A u \in Ids : Stored(u)' = Stored(u) BY <2>3, GotFacts
    <3>2. PICK t \in Ids : t = ops[o].tenant BY <2>3, SameReversed
    <3>3. overlapped' \in {overlapped, overlapped \cup {t}} BY <2>3, <3>2, FindGets DEF Got
    <3>4. Reversed' = Reversed BY <2>3, SameReversed
    <3> QED BY <3>1, <3>3, <3>4, QuietStep
  <2>4. ASSUME CreateTransaction(o) PROVE [Book!Next]_<<book, overlapped, Reversed>>
    <3>1. UNCHANGED <<accounts, overlapped>> BY <2>4 DEF CreateTransaction
    <3>2. \A u \in Ids : Stored(u)' = Stored(u) BY <3>1 DEF Stored
    <3>3. Reversed' = Reversed /\ ops[o].tenant \in Ids BY <2>4, SameReversed
    <3> QED BY <3>1, <3>2, <3>3, QuietStep
  <2>5. CASE Save(o) BY <2>5, SaveMovesBook
  <2> QED BY <2>1, <2>2, <2>3, <2>4, <2>5, StepKinds
<1> QED BY <1>1, <1>2

\* Charges, deductions and inquiries of any integers implement the account book: until
\* two operations of a tenant overlap its account moves only by credits and by debits it
\* can afford; after that, too, only a negative charge makes its balance negative.
THEOREM BillingImplementsBook == Spec => ImplementsBook
<1>1. Init => Book!Init
  BY DEF Init, Book!Init, Book!Unused, Stored, NewAccount, Idle, Reversed
<1>2. Inv /\ Solvent /\ [Next]_vars => Inv' /\ Solvent' BY NextKeepsInv, NextKeepsSolvent
<1>3. Inv /\ Solvent' /\ [Next]_vars
        => [Book!Next]_<<[t \in Ids |-> Stored(t)], overlapped, Reversed>>
  BY StepsBook DEF book
<1> QED BY <1>1, <1>2, <1>3, InitInv, InitSolvent, PTL DEF Spec, ImplementsBook, Book!Spec
-------------------------------------------------------------------------------
\* The sums of amounts.  Total folds over the entries in the order CHOOSE picks them;
\* Sums(E) is the function by which it does.
First(s) == CHOOSE x \in s : TRUE
Adds(f, E) ==
    f = [s \in SUBSET E |-> IF s = {} THEN 0 ELSE f[s \ {First(s)}] + First(s).amount]
Sums(E) == CHOOSE f : Adds(f, E)

\* Among subsets of a finite set, one contains no other of them.
LEMMA Smallest ==
    ASSUME NEW E, IsFiniteSet(E), NEW B \in SUBSET (SUBSET E), B # {}
    PROVE  \E s \in B : \A r \in B : r \subseteq s => r = s
<1>1. IsWellFoundedOn(StrictSubsetOrdering(E), FiniteSubsetsOf(E))
  BY FS_StrictSubsetOrderingWellFounded
<1>2. B \subseteq FiniteSubsetsOf(E) BY FS_FiniteSubsetsOfFinite
<1>3. PICK s \in B : \A r \in B : ~ (<<r, s>> \in StrictSubsetOrdering(E))
  BY <1>1, <1>2, WFMin
<1>4. \A r \in B : r \subseteq s => r = s BY <1>3 DEF StrictSubsetOrdering
<1>. QED BY <1>4

LEMMA FirstIn == \A s : s # {} => First(s) \in s
BY DEF First

LEMMA AddsUnique ==
    ASSUME NEW E, IsFiniteSet(E), NEW f, NEW g, Adds(f, E), Adds(g, E)
    PROVE  \A s \in SUBSET E : f[s] = g[s]
<1>. DEFINE B == {s \in SUBSET E : f[s] # g[s]}
<1>1. SUFFICES ASSUME B # {} PROVE FALSE OBVIOUS
<1>2. B \in SUBSET (SUBSET E) OBVIOUS
<1>3. PICK s \in B : \A r \in B : r \subseteq s => r = s
  <2>. HIDE DEF B
  <2>. QED BY <1>1, <1>2, Smallest
<1>4. /\ f[s] = IF s = {} THEN 0 ELSE f[s \ {First(s)}] + First(s).amount
      /\ g[s] = IF s = {} THEN 0 ELSE g[s \ {First(s)}] + First(s).amount
  BY <1>3 DEF Adds
<1>5. s # {} BY <1>3, <1>4
<1>6. First(s) \in s BY <1>5, FirstIn
<1>7. s \ {First(s)} \in SUBSET E /\ s \ {First(s)} # s /\ s \ {First(s)} \subseteq s
  BY <1>3, <1>6
<1>8. f[s \ {First(s)}] = g[s \ {First(s)}] BY <1>3, <1>7
<1>. QED BY <1>3, <1>4, <1>8

LEMMA AddsRestrict ==
    ASSUME NEW E, NEW V \in SUBSET E, NEW f, Adds(f, E)
    PROVE  Adds([s \in SUBSET V |-> f[s]], V)
<1>. DEFINE g == [s \in SUBSET V |-> f[s]]
<1>1. \A s \in SUBSET V :
        f[s] = IF s = {} THEN 0 ELSE f[s \ {First(s)}] + First(s).amount
  BY DEF Adds
<1>2. \A s \in SUBSET V : s \ {First(s)} \in SUBSET V OBVIOUS
<1>3. \A s \in SUBSET V : g[s \ {First(s)}] = f[s \ {First(s)}] BY <1>2
<1>4. g = [s \in SUBSET V |-> IF s = {} THEN 0 ELSE g[s \ {First(s)}] + First(s).amount]
  BY <1>1, <1>3
<1>. QED BY <1>4 DEF Adds

LEMMA AddsExists ==
    ASSUME NEW E, IsFiniteSet(E)
    PROVE  Adds(Sums(E), E)
<1>. DEFINE B == {s \in SUBSET E : ~ \E f : Adds(f, s)}
<1>1. SUFFICES ASSUME B # {} PROVE FALSE
  <2>1. ~ (E \in B) => \E f : Adds(f, E) OBVIOUS
  <2>. QED BY <2>1 DEF Sums
<1>2. B \in SUBSET (SUBSET E) OBVIOUS
<1>3. PICK s \in B : \A r \in B : r \subseteq s => r = s
  <2>. HIDE DEF B
  <2>. QED BY <1>1, <1>2, Smallest
<1>. DEFINE g == [r \in SUBSET s |-> IF r = {} THEN 0
                    ELSE Sums(r \ {First(r)})[r \ {First(r)}] + First(r).amount]
<1>4. \A U \in SUBSET s : U # s => Adds(Sums(U), U) BY <1>3 DEF Sums
<1>5. ASSUME NEW r \in SUBSET s, r # {}
      PROVE  g[r \ {First(r)}] = Sums(r \ {First(r)})[r \ {First(r)}]
  <2>. DEFINE U == r \ {First(r)}
             W == U \ {First(U)}
  <2>1. First(r) \in r BY <1>5, FirstIn
  <2>2. U \in SUBSET s /\ U # s /\ U \in SUBSET E BY <2>1
  <2>3. Adds(Sums(U), U) BY <1>4, <2>2
  <2>4. Sums(U)[U] = IF U = {} THEN 0 ELSE Sums(U)[W] + First(U).amount
    <3>. HIDE DEF U
    <3>. QED BY <2>3 DEF Adds
  <2>5. g[U] = IF U = {} THEN 0 ELSE Sums(W)[W] + First(U).amount
    BY <2>2
  <2>6. CASE U = {} BY <2>4, <2>5, <2>6
  <2>7. CASE U # {}
    <3>1. First(U) \in U BY <2>7, FirstIn
    <3>2. W \in SUBSET U /\ W \in SUBSET s /\ W # s BY <2>2, <3>1
    <3>3. Adds(Sums(W), W) BY <1>4, <3>2
    <3>4. Adds([v \in SUBSET W |-> Sums(U)[v]], W) BY <2>3, <3>2, AddsRestrict
    <3>5. IsFiniteSet(W) BY <2>2, <3>2, FS_Subset
    <3>6. [v \in SUBSET W |-> Sums(U)[v]][W] = Sums(W)[W]
      <4>. HIDE DEF W, U
      <4>. QED BY <3>3, <3>4, <3>5, AddsUnique
    <3>7. Sums(U)[W] = Sums(W)[W] BY <3>6
    <3>. QED BY <3>7, <2>4, <2>5, <2>7
  <2>. QED BY <2>6, <2>7
<1>6. g = [r \in SUBSET s |-> IF r = {} THEN 0 ELSE g[r \ {First(r)}] + First(r).amount]
  BY <1>5
<1>7. Adds(g, s)
  <2>. HIDE DEF g
  <2>. QED BY <1>6 DEF Adds
<1>. QED BY <1>3, <1>7

LEMMA TotalIsSums == \A E : Total(E) = Sums(E)[E]
BY DEF Total, FoldSet, MapThenFoldSet, Sums, Adds, First

LEMMA TotalEmpty == Total({}) = 0
<1>1. Adds(Sums({}), {}) BY AddsExists, FS_EmptySet
<1>. QED BY <1>1, TotalIsSums DEF Adds

LEMMA TotalFirst ==
    ASSUME NEW E, IsFiniteSet(E), E # {}
    PROVE  Total(E) = Total(E \ {First(E)}) + First(E).amount
<1>. DEFINE V == E \ {First(E)}
<1>1. Adds(Sums(E), E) BY AddsExists
<1>2. Sums(E)[E] = Sums(E)[V] + First(E).amount BY <1>1 DEF Adds
<1>3. IsFiniteSet(V) BY FS_Subset
<1>4. Adds([s \in SUBSET V |-> Sums(E)[s]], V) BY <1>1, AddsRestrict
<1>5. Adds(Sums(V), V) BY <1>3, AddsExists
<1>6. [s \in SUBSET V |-> Sums(E)[s]][V] = Sums(V)[V]
  <2>. HIDE DEF V
  <2>. QED BY <1>3, <1>4, <1>5, AddsUnique
<1>. QED BY <1>2, <1>6, TotalIsSums

LEMMA TotalIsInt ==
    ASSUME NEW E, IsFiniteSet(E), \A e \in E : e.amount \in Int
    PROVE  Total(E) \in Int
<1>. DEFINE B == {s \in SUBSET E : Total(s) \notin Int}
<1>1. SUFFICES ASSUME B # {} PROVE FALSE OBVIOUS
<1>2. B \in SUBSET (SUBSET E) OBVIOUS
<1>3. PICK s \in B : \A r \in B : r \subseteq s => r = s
  <2>. HIDE DEF B
  <2>. QED BY <1>1, <1>2, Smallest
<1>4. s # {} BY <1>3, TotalEmpty
<1>5. First(s) \in s BY <1>4, FirstIn
<1>6. s \ {First(s)} \in SUBSET E /\ s \ {First(s)} # s BY <1>3, <1>5
<1>7. Total(s \ {First(s)}) \in Int /\ First(s).amount \in Int BY <1>3, <1>5, <1>6
<1>8. IsFiniteSet(s) BY <1>3, FS_Subset
<1>9. Total(s) = Total(s \ {First(s)}) + First(s).amount BY <1>4, <1>8, TotalFirst
<1>. QED BY <1>3, <1>7, <1>9

\* The order in which the amounts are added does not matter.
LEMMA TotalRemove ==
    ASSUME NEW E, IsFiniteSet(E), \A e \in E : e.amount \in Int, NEW x \in E
    PROVE  Total(E) = Total(E \ {x}) + x.amount
<1>. DEFINE B == {s \in SUBSET E : \E y \in s : Total(s) # Total(s \ {y}) + y.amount}
<1>1. SUFFICES ASSUME B # {} PROVE FALSE OBVIOUS
<1>2. B \in SUBSET (SUBSET E) OBVIOUS
<1>3. PICK s \in B : \A r \in B : r \subseteq s => r = s
  <2>. HIDE DEF B
  <2>. QED BY <1>1, <1>2, Smallest
<1>4. PICK y \in s : Total(s) # Total(s \ {y}) + y.amount BY <1>3
<1>5. \A r \in SUBSET E : IsFiniteSet(r) /\ Total(r) \in Int
  <2>1. \A r \in SUBSET E : IsFiniteSet(r) BY FS_Subset
  <2>. QED BY <2>1, TotalIsInt
<1>. DEFINE c == First(s)
<1>6. c \in s BY <1>4, FirstIn
<1>7. Total(s) = Total(s \ {c}) + c.amount BY <1>3, <1>4, <1>5, TotalFirst
<1>8. y # c BY <1>4, <1>7
<1>. HIDE DEF c
<1>9. Total(s \ {c}) = Total((s \ {c}) \ {y}) + y.amount
  <2>1. s \ {c} \in SUBSET E /\ s \ {c} # s /\ s \ {c} \subseteq s BY <1>3, <1>6
  <2>2. s \ {c} \notin B BY <1>3, <2>1
  <2>. QED BY <2>1, <2>2, <1>4, <1>8
<1>10. Total(s \ {y}) = Total((s \ {y}) \ {c}) + c.amount
  <2>1. s \ {y} \in SUBSET E /\ s \ {y} # s /\ s \ {y} \subseteq s BY <1>3, <1>4
  <2>2. s \ {y} \notin B BY <1>3, <2>1
  <2>. QED BY <2>1, <2>2, <1>6, <1>8
<1>11. (s \ {c}) \ {y} = (s \ {y}) \ {c} OBVIOUS
<1>12. Total((s \ {c}) \ {y}) \in Int /\ y.amount \in Int /\ c.amount \in Int
  BY <1>3, <1>4, <1>5, <1>6
<1>13. Total(s) = Total(s \ {y}) + y.amount
  <2>. DEFINE k == Total((s \ {c}) \ {y})
  <2>1. Total(s) = (k + y.amount) + c.amount BY <1>7, <1>9
  <2>2. Total(s \ {y}) = k + c.amount BY <1>10, <1>11
  <2>. HIDE DEF k
  <2>3. k \in Int BY <1>12 DEF k
  <2>. QED BY <2>1, <2>2, <2>3, <1>12
<1>. QED BY <1>4, <1>13

LEMMA TotalAdd ==
    ASSUME NEW E, IsFiniteSet(E), \A e \in E : e.amount \in Int,
           NEW x, x \notin E, x.amount \in Int
    PROVE  Total(E \cup {x}) = Total(E) + x.amount
<1>1. IsFiniteSet(E \cup {x}) BY FS_AddElement
<1>2. (E \cup {x}) \ {x} = E OBVIOUS
<1>. QED BY <1>1, <1>2, TotalRemove
-------------------------------------------------------------------------------
\* What the ledger must contain for the totals to be explained by it.
Of(L, t, type) == {e \in L : e.tenant = t /\ e.type = type}
SettledLedger == {e \in ledger : e.op \in settled}
EntryOf(o) ==
    [op |-> o, tenant |-> ops[o].tenant, type |-> ops[o].kind, amount |-> ops[o].amount]

\* An operation writes one entry, after its snapshot and before its save.
Recorded ==
    /\ IsFiniteSet(ledger)
    /\ \A e, f \in ledger : e.op = f.op => e = f
    /\ \A o \in Ops :
         /\ ops[o].pc \in Early => o \notin settled /\ \A e \in ledger : e.op # o
         /\ ops[o].pc = "recorded" => o \notin settled /\ EntryOf(o) \in ledger

\* The figures of a are sums of entries in L.
Summed(a, t, L) ==
    LET charged == PartialSums(Of(L, t, "charge"))
        used == PartialSums(Of(L, t, "usage"))
    IN  /\ a.totalCharged \in charged /\ a.totalUsed \in used
        /\ \E c \in charged, u \in used : a.balance = c - u

\* What an operation holds is covered by settled entries, its own not among them.
Covered ==
    \A o \in Ops : ops[o].pc \in {"found", "recorded"} =>
                      Summed(ops[o].account, ops[o].tenant, SettledLedger)

Explains(t) ==
    /\ Stored(t).totalCharged = Total(Of(SettledLedger, t, "charge"))
    /\ Stored(t).totalUsed = Total(Of(SettledLedger, t, "usage"))
    /\ Stored(t).balance = Total(Of(SettledLedger, t, "charge"))
                             - Total(Of(SettledLedger, t, "usage"))
Covers(t) == Summed(Stored(t), t, SettledLedger)

LedgerInv ==
    /\ Inv /\ Recorded /\ Covered
    /\ \A t \in Ids : Covers(t)
    /\ \A t \in Ids \ overlapped : Explains(t)

LEMMA OfAdd ==
    ASSUME NEW L, IsFiniteSet(L), \A e \in L : e.amount \in Int,
           NEW x, x \notin L, x.amount \in Int, NEW t, NEW type
    PROVE  /\ Total(Of(L, t, type)) \in Int
           /\ Total(Of(L \cup {x}, t, type)) =
                Total(Of(L, t, type)) + (IF x.tenant = t /\ x.type = type THEN x.amount ELSE 0)
<1>. DEFINE S == Of(L, t, type)
<1>1. S \in SUBSET L /\ x \notin S BY DEF Of
<1>2. IsFiniteSet(S) /\ \A e \in S : e.amount \in Int BY <1>1, FS_Subset
<1>3. Of(L \cup {x}, t, type) = IF x.tenant = t /\ x.type = type THEN S \cup {x} ELSE S
  BY DEF Of
<1>. HIDE DEF S
<1>4. Total(S) \in Int BY <1>2, TotalIsInt
<1>5. Total(S \cup {x}) = Total(S) + x.amount BY <1>1, <1>2, TotalAdd
<1>6. Total(S) = Total(S) + 0 BY <1>4
<1>. QED BY <1>3, <1>4, <1>5, <1>6 DEF S

\* More entries have more sums: an entry added to L may be added to each sum of L's.
LEMMA SumsGrow ==
    ASSUME NEW L, NEW M, L \subseteq M, NEW t, NEW type
    PROVE  PartialSums(Of(L, t, type)) \subseteq PartialSums(Of(M, t, type))
<1>1. Of(L, t, type) \subseteq Of(M, t, type) BY DEF Of
<1> QED BY <1>1 DEF PartialSums

LEMMA SumsAdd ==
    ASSUME NEW L, IsFiniteSet(L), \A e \in L : e.amount \in Int,
           NEW x, x \notin L, x.amount \in Int, NEW t, NEW type, x.tenant = t, x.type = type,
           NEW k \in PartialSums(Of(L, t, type))
    PROVE  k \in Int /\ k + x.amount \in PartialSums(Of(L \cup {x}, t, type))
<1>1. PICK some \in SUBSET Of(L, t, type) : k = Total(some) BY DEF PartialSums
<1>2. some \subseteq L /\ x \notin some BY <1>1 DEF Of
<1>3. IsFiniteSet(some) /\ \A e \in some : e.amount \in Int BY <1>2, FS_Subset
<1>4. Total(some \cup {x}) = Total(some) + x.amount /\ Total(some) \in Int
  BY <1>2, <1>3, TotalAdd, TotalIsInt
<1>5. some \cup {x} \in SUBSET Of(L \cup {x}, t, type) BY <1>1 DEF Of
<1> QED BY <1>1, <1>4, <1>5 DEF PartialSums

LEMMA SummedGrows ==
    ASSUME NEW L, NEW M, L \subseteq M, NEW t, NEW a, Summed(a, t, L)
    PROVE  Summed(a, t, M)
<1>1. \A type : PartialSums(Of(L, t, type)) \subseteq PartialSums(Of(M, t, type))
  BY SumsGrow
<1> QED BY <1>1 DEF Summed

LEMMA Amounts == Inv => \A e \in ledger : e.amount \in Int
BY DEF Inv, TypeOK, Transaction

LEMMA SettledIsOf == \A t, type : Settled(t, type) = Of(SettledLedger, t, type)
BY DEF Settled, Entries, Of, SettledLedger

LEMMA InitLedgerInv == Init => LedgerInv
<1> SUFFICES ASSUME Init PROVE LedgerInv OBVIOUS
<1>1. Inv BY InitInv
<1>2. \A o \in Ops : ops[o].pc = "idle" BY DEF Init, Idle
<1>3. ledger = {} /\ settled = {} /\ SettledLedger = {} BY DEF Init, SettledLedger
<1>4. Recorded BY <1>2, <1>3, FS_EmptySet DEF Recorded
<1>5. Covered BY <1>2 DEF Covered
<1>6. \A t, type : Of({}, t, type) = {} BY DEF Of
<1>7. \A t, type : Total(Of(ledger, t, type)) = 0 /\ Total(Of(SettledLedger, t, type)) = 0
  BY <1>3, <1>6, TotalEmpty
<1>8. \A t \in Ids : Stored(t) = NewAccount BY DEF Init, Stored
<1>9. 0 \in PartialSums({})
  BY TotalEmpty DEF PartialSums
<1>10. \A t \in Ids : Covers(t) /\ Explains(t)
  BY <1>3, <1>6, <1>7, <1>8, <1>9 DEF Covers, Summed, Explains, NewAccount
<1> QED BY <1>1, <1>4, <1>5, <1>10 DEF LedgerInv

\* Steps that leave the ledger, what is stored and what has settled alone.
LEMMA QuietKeepsLedger ==
    ASSUME LedgerInv, Inv', Recorded', Covered',
           UNCHANGED <<ledger, settled>>, \A t \in Ids : Stored(t)' = Stored(t),
           overlapped \subseteq overlapped'
    PROVE  LedgerInv'
<1>1. SettledLedger' = SettledLedger BY DEF SettledLedger
<1>2. \A t \in Ids : Covers(t)' BY <1>1 DEF LedgerInv, Covers
<1>3. \A t \in Ids \ overlapped' : Explains(t)' BY <1>1 DEF LedgerInv, Explains
<1> QED BY <1>2, <1>3 DEF LedgerInv

LEMMA EndsKeepsLedger ==
    ASSUME LedgerInv, NEW o \in Ops, Ends(o)
    PROVE  LedgerInv'
<1>0. Inv BY DEF LedgerInv
<1>1. PICK r \in Operation :
        /\ ops' = [ops EXCEPT ![o] = r]
        /\ r.pc \in Early => ops[o].pc \in Early
        /\ r.pc \notin {"found", "recorded"}
        /\ UNCHANGED <<accounts, overlapped, settled>> /\ ledger' = ledger
  BY DEF Ends
<1>2. ops'[o] = r /\ \A q \in Ops \ {o} : ops'[q] = ops[q] BY <1>0, <1>1 DEF Inv, TypeOK
<1>3. Recorded'
  <2>1. \A q \in Ops \ {o} : EntryOf(q)' = EntryOf(q) BY <1>2 DEF EntryOf
  <2> QED BY <1>1, <1>2, <2>1 DEF LedgerInv, Recorded
<1>4. Covered'
  <2>1. SettledLedger' = SettledLedger BY <1>1 DEF SettledLedger
  <2> QED BY <1>1, <1>2, <2>1 DEF LedgerInv, Covered
<1>5. \A t \in Ids : Stored(t)' = Stored(t) BY <1>1 DEF Stored
<1> QED BY <1>0, <1>1, <1>3, <1>4, <1>5, EndsKeepsInv, QuietKeepsLedger

\* The account o gets is the stored one, which settled entries cover.
LEMMA GotKeepsLedger ==
    ASSUME LedgerInv, NEW o \in Ops, Find(o) \/ Create(o)
    PROVE  LedgerInv'
<1>0. Inv BY DEF LedgerInv
<1>1. PICK account \in Account :
        /\ Got(o, account) /\ ops[o].pc \notin {"idle"}
        /\ accounts' = [accounts EXCEPT ![ops[o].tenant] = account]
        /\ accounts[ops[o].tenant] \in {None, account}
        /\ UNCHANGED <<ledger, failures, settled>>
  BY <1>0, FindGets
<1>2. Inv' BY <1>0, <1>1, GotKeepsInv
<1>3. /\ \A u \in Ids : Stored(u)' = Stored(u)
      /\ ops'[o].account = Stored(ops[o].tenant) /\ ops'[o].tenant = ops[o].tenant
      /\ ops'[o].pc = "found" /\ ops[o].tenant \in Ids
      /\ \A q \in Ops \ {o} : ops'[q] = ops[q]
  BY <1>0, GotFacts, SameReversed
<1>4. Recorded'
  <2>1. \A q \in Ops \ {o} : EntryOf(q)' = EntryOf(q) BY <1>3 DEF EntryOf
  <2>2. ops[o].pc \in Early BY DEF Find, Create, Early
  <2> QED BY <1>1, <1>3, <2>1, <2>2 DEF LedgerInv, Recorded
<1>5. Covered'
  <2>1. SettledLedger' = SettledLedger BY <1>1 DEF SettledLedger
  <2>2. Covers(ops[o].tenant) BY <1>3 DEF LedgerInv
  <2>3. Summed(ops'[o].account, ops'[o].tenant, SettledLedger) BY <1>3, <2>2 DEF Covers
  <2> QED BY <1>3, <2>1, <2>3 DEF LedgerInv, Covered
<1>6. overlapped \subseteq overlapped' BY <1>1 DEF Got
<1> QED BY <1>1, <1>2, <1>3, <1>4, <1>5, <1>6, QuietKeepsLedger

\* An entry that is not settled covers nothing yet.
LEMMA RecordKeepsLedger ==
    ASSUME LedgerInv, NEW o \in Ops, CreateTransaction(o)
    PROVE  LedgerInv'
<1>0. Inv BY DEF LedgerInv
<1>e. PICK e : e = EntryOf(o) OBVIOUS
<1>1. ops[o] \in Operation /\ ops[o].pc = "found"
  BY <1>0 DEF Inv, TypeOK, CreateTransaction
<1>2. ledger' = ledger \cup {e} /\ UNCHANGED <<accounts, overlapped, settled>>
  BY <1>e DEF CreateTransaction, EntryOf
<1>3. Inv' BY <1>0, CreateTransactionKeepsInv
<1>4. /\ ops'[o].pc = "recorded" /\ ops'[o].tenant = ops[o].tenant /\ ops'[o].kind = ops[o].kind
      /\ ops'[o].amount = ops[o].amount /\ ops'[o].account = ops[o].account
      /\ \A q \in Ops \ {o} : ops'[q] = ops[q]
  <2> DEFINE r == [ops[o] EXCEPT !.pc = "recorded"]
  <2>1. /\ r.pc = "recorded" /\ r.tenant = ops[o].tenant /\ r.kind = ops[o].kind
        /\ r.amount = ops[o].amount /\ r.account = ops[o].account
    BY <1>1 DEF Operation
  <2>2. ops' = [ops EXCEPT ![o] = r] BY <1>0 DEF CreateTransaction, Inv, TypeOK
  <2> HIDE DEF r
  <2>3. ops'[o] = r /\ \A q \in Ops \ {o} : ops'[q] = ops[q] BY <1>0, <2>2 DEF Inv, TypeOK
  <2> QED BY <2>1, <2>3
<1>5. o \notin settled /\ \A f \in ledger : f.op # o
  BY <1>1 DEF LedgerInv, Recorded, Early
<1>6. e.op = o BY <1>e DEF EntryOf
<1>7. SettledLedger' = SettledLedger BY <1>2, <1>5, <1>6 DEF SettledLedger
<1>8. Recorded'
  <2>1. \A q \in Ops \ {o} : EntryOf(q)' = EntryOf(q) BY <1>4 DEF EntryOf
  <2>2. EntryOf(o)' = e BY <1>e, <1>4 DEF EntryOf
  <2>3. IsFiniteSet(ledger') BY <1>2, FS_AddElement DEF LedgerInv, Recorded
  <2>4. ops'[o].pc \notin Early BY <1>4 DEF Early
  <2>5. \A f, g \in ledger' : f.op = g.op => f = g
    BY <1>2, <1>5, <1>6 DEF LedgerInv, Recorded
  <2>6. \A q \in Ops \ {o} : ops[q].pc \in Early => q \notin settled /\ \A f \in ledger' : f.op # q
    BY <1>2, <1>6 DEF LedgerInv, Recorded
  <2>7. \A q \in Ops \ {o} : ops[q].pc = "recorded" => q \notin settled /\ EntryOf(q) \in ledger'
    BY <1>2 DEF LedgerInv, Recorded
  <2>8. EntryOf(o)' \in ledger' /\ o \notin settled' BY <1>2, <1>5, <2>2
  <2>9. \A q \in Ops :
         /\ ops'[q].pc \in Early => q \notin settled' /\ \A f \in ledger' : f.op # q
         /\ ops'[q].pc = "recorded" => q \notin settled' /\ EntryOf(q)' \in ledger'
    <3> SUFFICES ASSUME NEW q \in Ops
                 PROVE  /\ ops'[q].pc \in Early => q \notin settled' /\ \A f \in ledger' : f.op # q
                        /\ ops'[q].pc = "recorded" => q \notin settled' /\ EntryOf(q)' \in ledger'
      OBVIOUS
    <3>1. CASE q = o BY <3>1, <2>4, <2>8
    <3>2. CASE q # o BY <3>2, <1>2, <1>4, <2>1, <2>6, <2>7
    <3> QED BY <3>1, <3>2
  <2> QED BY <2>3, <2>5, <2>9 DEF Recorded
<1>9. Covered' BY <1>1, <1>4, <1>7 DEF LedgerInv, Covered
<1>10. \A u \in Ids : Stored(u)' = Stored(u) BY <1>2 DEF Stored
<1>11. \A u \in Ids : Covers(u)' BY <1>7, <1>10 DEF LedgerInv, Covers
<1>12. \A u \in Ids \ overlapped' : Explains(u)'
  BY <1>2, <1>7, <1>10 DEF LedgerInv, Explains
<1> QED BY <1>3, <1>8, <1>9, <1>11, <1>12 DEF LedgerInv

\* A save within the ledger: the figures it sets are covered with its entry, the other is
\* left as stored; and the entry settles what it adds to an account it has alone.
LEMMA SaveKeepsLedger ==
    ASSUME LedgerInv, NEW o \in Ops, Save(o)
    PROVE  LedgerInv'
<1>0. Inv BY DEF LedgerInv
<1>t. PICK t \in Ids : /\ t = ops[o].tenant
                       /\ Stored(t)' = Moved(o) /\ Stored(t) = accounts[t]
                       /\ \A u \in Ids \ {t} : Stored(u)' = Stored(u)
  BY <1>0, SaveFacts
<1>e. PICK e : e = EntryOf(o) OBVIOUS
<1>n. PICK n, a : n = ops[o].amount /\ a = ops[o].account OBVIOUS
<1>1. /\ ops[o] \in Operation /\ t \in Ids /\ ops[o].pc = "recorded"
      /\ ops[o].kind \in {"charge", "usage"} /\ a \in Account /\ n \in Int
  BY <1>0, <1>t, <1>n DEF Inv, TypeOK, Grounded, Save, Operation
<1>2. Inv' BY <1>0, SaveKeepsInv
<1>3. /\ ops'[o].pc = "saved" /\ \A q \in Ops \ {o} : ops'[q] = ops[q]
  <2> DEFINE r == [ops[o] EXCEPT !.pc = "saved"]
  <2>1. r.pc = "saved" BY <1>1 DEF Operation
  <2>2. ops' = [ops EXCEPT ![o] = r] BY <1>0 DEF Save, Inv, TypeOK
  <2> HIDE DEF r
  <2>3. ops'[o] = r /\ \A q \in Ops \ {o} : ops'[q] = ops[q] BY <1>0, <2>2 DEF Inv, TypeOK
  <2> QED BY <2>1, <2>3
<1>4. PICK moved \in Account : moved = Moved(o) BY <1>0, <1>1, MovedFacts
<1>5. /\ Stored(t)' = moved /\ Stored(t) = accounts[t]
      /\ \A u \in Ids \ {t} : Stored(u)' = Stored(u)
  BY <1>t, <1>4
<1>6. UNCHANGED <<ledger, overlapped>> /\ settled' = settled \cup {o} BY DEF Save
<1>7. PICK s \in Account : s = accounts[t] BY <1>0, <1>1, <1>5, StoredIsAccount
<1>8. /\ a.balance \in Int /\ a.totalCharged \in Int /\ a.totalUsed \in Int
      /\ s.balance \in Int /\ s.totalCharged \in Int /\ s.totalUsed \in Int
  BY <1>1, <1>7 DEF Account
<1>9. /\ n = 0 => moved = s
      /\ (n # 0 /\ ops[o].kind = "charge") =>
           /\ moved.totalCharged = a.totalCharged + n /\ moved.totalUsed = s.totalUsed
           /\ moved.balance = a.balance + n
      /\ (n # 0 /\ ops[o].kind = "usage") =>
           /\ moved.totalUsed = a.totalUsed + n /\ moved.totalCharged = s.totalCharged
           /\ moved.balance = a.balance - n
  BY <1>0, <1>1, <1>4, <1>7, <1>t, <1>n, MovedFields
<1>10. Recorded'
  <2>1. \A q \in Ops \ {o} : EntryOf(q)' = EntryOf(q) BY <1>3 DEF EntryOf
  <2>2. ops'[o].pc \notin Early \cup {"recorded"} BY <1>3 DEF Early
  <2> QED BY <1>3, <1>6, <2>1, <2>2 DEF LedgerInv, Recorded
<1>11. e.op = o /\ e.amount = n /\ e.tenant = t /\ e.type = ops[o].kind
  BY <1>e, <1>t, <1>n DEF EntryOf
<1>12. o \notin settled /\ e \in ledger /\ \A f \in ledger : f.op = o => f = e
  BY <1>1, <1>e, <1>11 DEF LedgerInv, Recorded
<1>13. PICK L : L = SettledLedger OBVIOUS
<1>14. /\ SettledLedger' = L \cup {e} /\ e \notin L
       /\ IsFiniteSet(L) /\ \A f \in L : f.amount \in Int
  <2>1. SettledLedger' = SettledLedger \cup {e} /\ e \notin SettledLedger
    BY <1>6, <1>11, <1>12 DEF SettledLedger
  <2>2. SettledLedger \in SUBSET ledger BY DEF SettledLedger
  <2>3. IsFiniteSet(SettledLedger) BY <2>2, FS_Subset DEF LedgerInv, Recorded
  <2> QED BY <2>1, <2>2, <2>3, <1>0, <1>13, Amounts
<1>15. Covered'
  <2> SUFFICES ASSUME NEW q \in Ops, ops'[q].pc \in {"found", "recorded"}
               PROVE  Summed(ops'[q].account, ops'[q].tenant, SettledLedger')
    BY DEF Covered
  <2>1. q # o /\ ops'[q] = ops[q] BY <1>3
  <2>2. Summed(ops[q].account, ops[q].tenant, L) BY <2>1, <1>13 DEF LedgerInv, Covered
  <2>3. Summed(ops[q].account, ops[q].tenant, L \cup {e}) BY <2>2, SummedGrows
  <2> QED BY <2>1, <2>3, <1>14
<1>16. Summed(moved, t, L \cup {e})
  <2>1. Summed(a, t, L) BY <1>1, <1>t, <1>n, <1>13 DEF LedgerInv, Covered
  <2>2. Summed(s, t, L) BY <1>1, <1>5, <1>7, <1>13 DEF LedgerInv, Covers
  <2>3. Summed(s, t, L \cup {e}) BY <2>2, SummedGrows
  <2>4. \A type : PartialSums(Of(L, t, type)) \subseteq PartialSums(Of(L \cup {e}, t, type))
    BY SumsGrow
  <2>5. \A k \in PartialSums(Of(L, t, ops[o].kind)) :
          k \in Int /\ k + n \in PartialSums(Of(L \cup {e}, t, ops[o].kind))
    BY <1>1, <1>11, <1>14, SumsAdd
  <2>6. CASE n = 0 BY <2>3, <2>6, <1>9
  <2>7. PICK c \in PartialSums(Of(L, t, "charge")), u \in PartialSums(Of(L, t, "usage")) :
          a.balance = c - u
    BY <2>1 DEF Summed
  <2>8. c \in Int /\ u \in Int
    <3>1. \A k \in PartialSums(Of(L, t, "charge")) \cup PartialSums(Of(L, t, "usage")) : k \in Int
      <4> SUFFICES ASSUME NEW type, NEW some \in SUBSET Of(L, t, type) PROVE Total(some) \in Int
        BY DEF PartialSums
      <4>1. some \subseteq L BY DEF Of
      <4> QED BY <4>1, <1>14, FS_Subset, TotalIsInt
    <3> QED BY <3>1
  <2>9. CASE n # 0 /\ ops[o].kind = "charge"
    <3>1. /\ a.totalCharged + n \in PartialSums(Of(L \cup {e}, t, "charge"))
          /\ s.totalUsed \in PartialSums(Of(L \cup {e}, t, "usage"))
      BY <2>1, <2>3, <2>5, <2>9 DEF Summed
    <3>2. /\ c + n \in PartialSums(Of(L \cup {e}, t, "charge"))
          /\ u \in PartialSums(Of(L \cup {e}, t, "usage"))
      BY <2>4, <2>5, <2>7, <2>9
    <3>3. moved.balance = (c + n) - u BY <1>1, <1>9, <2>7, <2>8, <2>9
    <3> QED BY <1>9, <2>9, <3>1, <3>2, <3>3 DEF Summed
  <2>10. CASE n # 0 /\ ops[o].kind = "usage"
    <3>1. /\ a.totalUsed + n \in PartialSums(Of(L \cup {e}, t, "usage"))
          /\ s.totalCharged \in PartialSums(Of(L \cup {e}, t, "charge"))
      BY <2>1, <2>3, <2>5, <2>10 DEF Summed
    <3>2. /\ u + n \in PartialSums(Of(L \cup {e}, t, "usage"))
          /\ c \in PartialSums(Of(L \cup {e}, t, "charge"))
      BY <2>4, <2>5, <2>7, <2>10
    <3>3. moved.balance = c - (u + n) BY <1>1, <1>9, <2>7, <2>8, <2>10
    <3> QED BY <1>9, <2>10, <3>1, <3>2, <3>3 DEF Summed
  <2> QED BY <1>1, <2>6, <2>9, <2>10
<1>17. \A u \in Ids : Covers(u)'
  <2> SUFFICES ASSUME NEW u \in Ids PROVE Summed(Stored(u)', u, SettledLedger')
    BY DEF Covers
  <2>1. CASE u = t BY <2>1, <1>5, <1>14, <1>16
  <2>2. CASE u # t
    <3>1. Summed(Stored(u), u, L) BY <1>13 DEF LedgerInv, Covers
    <3>2. Summed(Stored(u), u, L \cup {e}) BY <3>1, SummedGrows
    <3> QED BY <2>2, <3>2, <1>5, <1>14
  <2> QED BY <2>1, <2>2
<1>18. \A u, type : /\ Total(Of(L, u, type)) \in Int
                    /\ Total(Of(L \cup {e}, u, type)) = Total(Of(L, u, type))
                         + (IF t = u /\ ops[o].kind = type THEN n ELSE 0)
  <2> SUFFICES ASSUME NEW u, NEW type
               PROVE  /\ Total(Of(L, u, type)) \in Int
                      /\ Total(Of(L \cup {e}, u, type)) = Total(Of(L, u, type))
                           + (IF t = u /\ ops[o].kind = type THEN n ELSE 0)
    OBVIOUS
  <2>1. IsFiniteSet(L) /\ (\A f \in L : f.amount \in Int) /\ e \notin L /\ e.amount \in Int
    BY <1>1, <1>11, <1>14
  <2>2. /\ Total(Of(L, u, type)) \in Int
        /\ Total(Of(L \cup {e}, u, type)) = Total(Of(L, u, type))
             + (IF e.tenant = u /\ e.type = type THEN e.amount ELSE 0)
    BY <2>1, OfAdd
  <2> QED BY <2>2, <1>11
<1>19. \A u \in Ids \ overlapped' : Explains(u)'
  <2> SUFFICES ASSUME NEW u \in Ids, u \notin overlapped PROVE Explains(u)'
    BY <1>6
  <2>1. PICK C, U, c2, u2 : /\ C = Total(Of(L, u, "charge")) /\ U = Total(Of(L, u, "usage"))
                            /\ c2 = Total(Of(L \cup {e}, u, "charge"))
                            /\ u2 = Total(Of(L \cup {e}, u, "usage"))
    OBVIOUS
  <2>2. /\ Stored(u).totalCharged = C /\ Stored(u).totalUsed = U /\ Stored(u).balance = C - U
    BY <2>1, <1>13 DEF LedgerInv, Explains
  <2>3. /\ C \in Int /\ U \in Int
        /\ c2 = C + (IF t = u /\ ops[o].kind = "charge" THEN n ELSE 0)
        /\ u2 = U + (IF t = u /\ ops[o].kind = "usage" THEN n ELSE 0)
    BY <2>1, <1>18
  <2>4. /\ Stored(u)'.totalCharged = c2 /\ Stored(u)'.totalUsed = u2
        /\ Stored(u)'.balance = c2 - u2
    <3>1. CASE u # t BY <3>1, <1>5, <2>2, <2>3
    <3>2. CASE u = t
      <4>1. a = s BY <3>2, <1>t, <1>n, <1>0, <1>1, <1>7 DEF Inv, Fresh, Holds
      <4>2. s.totalCharged = C /\ s.totalUsed = U /\ s.balance = C - U
        BY <3>2, <2>2, <1>5, <1>7
      <4> QED BY <3>2, <4>1, <4>2, <2>3, <1>1, <1>5, <1>8, <1>9
    <3> QED BY <3>1, <3>2
  <2> QED BY <2>1, <2>4, <1>14 DEF Explains
<1> QED BY <1>2, <1>10, <1>15, <1>17, <1>19 DEF LedgerInv

LEMMA NextKeepsLedger == LedgerInv /\ [Next]_vars => LedgerInv'
<1> SUFFICES ASSUME LedgerInv, [Next]_vars PROVE LedgerInv' OBVIOUS
<1>0. Inv /\ Inv' BY NextKeepsInv DEF LedgerInv
<1>1. CASE UNCHANGED vars
  <2>1. UNCHANGED <<accounts, ledger, ops, overlapped, settled>> BY <1>1 DEF vars
  <2>2. Recorded' BY <2>1 DEF LedgerInv, Recorded, EntryOf
  <2>3. Covered' BY <2>1 DEF LedgerInv, Covered, SettledLedger
  <2>4. \A t \in Ids : Stored(t)' = Stored(t) BY <2>1 DEF Stored
  <2> QED BY <1>0, <2>1, <2>2, <2>3, <2>4, QuietKeepsLedger
<1>2. CASE Next
  <2>1. PICK o \in Ops : Begins(o) \/ GetOrCreate(o) \/ Step(o) \/ Fail(o)
    BY <1>2 DEF Next
  <2>2. CASE Ends(o) BY <2>2, EndsKeepsLedger
  <2>3. CASE Find(o) \/ Create(o) BY <2>3, GotKeepsLedger
  <2>4. CASE CreateTransaction(o) BY <2>4, RecordKeepsLedger
  <2>5. CASE Save(o) BY <2>5, SaveKeepsLedger
  <2> QED BY <1>0, <2>1, <2>2, <2>3, <2>4, <2>5, StepKinds
<1> QED BY <1>1, <1>2

\* Whatever overlaps and fails, and whatever integers are charged and deducted, the
\* figures of an account are sums of transactions whose save took effect.
THEOREM LedgerCovers == Spec => []LedgerCoversTotals
<1>1. LedgerInv => LedgerCoversTotals
  BY SettledIsOf DEF LedgerInv, Covers, Summed, LedgerCoversTotals
<1> QED BY <1>1, InitLedgerInv, NextKeepsLedger, PTL DEF Spec

\* Without overlap, an account is the sum of all its transactions whose save took effect.
THEOREM LedgerExplains == Spec => []LedgerExplainsAccount
<1>1. LedgerInv => LedgerExplainsAccount
  BY SettledIsOf DEF LedgerInv, Explains, LedgerExplainsAccount
<1> QED BY <1>1, InitLedgerInv, NextKeepsLedger, PTL DEF Spec
===============================================================================
