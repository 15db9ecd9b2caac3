------------------------------ MODULE AuditLine -------------------------------
(***************************************************************************)
(* One line of ModSecurity's serial JSON audit log, reduced to what the    *)
(* audit-ingest service tells apart: whether it carries a request to keep, *)
(* the X-Tenant-ID header of that request, and whether the document built  *)
(* from it passes the WafLog schema.                                       *)
(***************************************************************************)
CONSTANTS
    Tenants,        \* the tenant ids that may ever exist
    Uncategorized,  \* the id of the tenant with slug 'uncategorized-logs'
    DemoTenant,     \* the id of the tenant with slug 'demo-tenant'
    NoHeader,       \* the request has no X-Tenant-ID header
    BadHeader,      \* the header names no tenant, or is no ObjectId at all
    Null,           \* null: no tenant decided
    Lines           \* the lines ModSecurity can write

\* "blank", "junk" and "no_transaction" are the early returns of the line
\* handler and of persistEntry, "healthz" the request uri it skips.
Entries == {"blank", "junk", "no_transaction", "healthz", "traffic"}

Headers == Tenants \cup {NoHeader, BadHeader}

Line == [entry : Entries, header : Headers, valid : BOOLEAN]

Relevant(l) == l.entry = "traffic"

ASSUME LineAssumption ==
    /\ {Uncategorized, DemoTenant} \subseteq Tenants
    /\ Uncategorized # DemoTenant
    /\ NoHeader # BadHeader
    /\ {NoHeader, BadHeader, Null} \cap Tenants = {}
    /\ Lines \subseteq Line
===============================================================================
