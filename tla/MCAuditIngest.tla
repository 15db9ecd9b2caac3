---------------------------- MODULE MCAuditIngest -----------------------------
(***************************************************************************)
(* Small instances of AuditIngest.  The lines are one of each kind the     *)
(* handler tells apart: skipped, without a header, with the header of a    *)
(* tenant, with a header that names nobody, and with a document that fails *)
(* validation.                                                             *)
(***************************************************************************)
EXTENDS AuditIngest

CONSTANT Acme   \* a tenant of a customer

MCTenants == {Uncategorized, DemoTenant, Acme}

Traffic(header, valid) == [entry |-> "traffic", header |-> header, valid |-> valid]

MCLines ==
    { [entry |-> "healthz", header |-> NoHeader, valid |-> TRUE],
      Traffic(NoHeader, TRUE), Traffic(Acme, TRUE), Traffic(Acme, FALSE),
      Traffic(BadHeader, TRUE) }
===============================================================================
