--------------------------- MODULE MCIngestMetering ---------------------------
(* Small instances of IngestMetering.  Every line is a request with a header  *)
(* for one tenant; it is stored under that tenant or, while the tenant is not *)
(* registered, under the uncategorized one, so two counters are in play.      *)
EXTENDS IngestMetering

CONSTANT Acme   \* a tenant of a customer

MCTenants == {Uncategorized, DemoTenant, Acme}

MCLines == { [entry |-> "traffic", header |-> Acme, valid |-> TRUE] }
===============================================================================
