------------------------------ MODULE AuditStore ------------------------------
(***************************************************************************)
(* What the audit-ingest service promises its readers (README.md 34-37):   *)
(* the lines ModSecurity appends to audit.log become WafLog documents, a   *)
(* document is never changed or removed, a line becomes at most one        *)
(* document, and a document belongs to the tenant named by the X-Tenant-ID *)
(* header of its request or to the "uncategorized" tenant, never to a      *)
(* third one.  How lines are followed, retried, lost or interleaved is     *)
(* left to AuditIngest, which implements this module.                      *)
(***************************************************************************)
EXTENDS AuditLine, Naturals, Sequences

VARIABLES
    log,            \* the lines written so far
    known,          \* the tenants registered so far
    stored          \* the documents, in the order they were saved

vars == <<log, known, stored>>

Init ==
    /\ log = << >>
    /\ known \in SUBSET Tenants
    /\ stored = << >>

Write(l) ==
    /\ log' = Append(log, l)
    /\ UNCHANGED <<known, stored>>

Register(t) ==
    /\ known' = known \cup {t}
    /\ UNCHANGED <<log, stored>>

\* A document needs a registered tenant: the fallback one or the one named.
Store(i, t) ==
    /\ Relevant(log[i])
    /\ \A p \in DOMAIN stored : stored[p].line # i
    /\ t \in known \cap {Uncategorized, log[i].header}
    /\ stored' = Append(stored, [line |-> i, tenant |-> t])
    /\ UNCHANGED <<log, known>>

Next ==
    \/ \E l \in Lines : Write(l)
    \/ \E t \in Tenants : Register(t)
    \/ \E i \in DOMAIN log, t \in Tenants : Store(i, t)

Spec == Init /\ [][Next]_vars
===============================================================================
