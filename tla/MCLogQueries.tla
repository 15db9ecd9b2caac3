----------------------------- MODULE MCLogQueries -----------------------------
(* Small instances of LogQueries: logs of two tenants, an administrator's and  *)
(* a tenant's filters, times that come out of order and one that is shared.    *)
EXTENDS LogQueries

Log(n, tenant, time, ip, rule, type, blocked) ==
    [n |-> n, tenant |-> tenant, time |-> time, ip |-> ip, rule |-> rule,
     type |-> type, blocked |-> blocked]

CONSTANTS acme, globex

MCTenants == {acme, globex}
MCLogs == {Log(1, acme, 3, "a", "r1", "sqli", TRUE), Log(2, acme, 2, "b", Null, Null, FALSE),
           Log(3, globex, 1, "b", "r1", "xss", TRUE), Log(4, acme, 3, "b", "r2", "sqli", TRUE)}
MCUsers == {[n |-> 1, tenant |-> acme, time |-> 1], [n |-> 2, tenant |-> globex, time |-> 2]}
MCFilters == {Everything, [Everything EXCEPT !.tenant = acme],
              [Everything EXCEPT !.tenant = acme, !.from = 2, !.to = 3, !.rule = "r1"]}
===============================================================================
