---------------------------- MODULE MCTenantConfig ----------------------------
(* Small instances of TenantConfig.                                            *)
EXTENDS TenantConfig

CONSTANTS p1, p2, r1

MCPanels == {p1, p2}
MCSymmetry == Permutations(MCPanels)
MCRules == {r1}
MCSentRules == {<< >>, <<r1, r1>>}
MCStored == {[level |-> 4, rules |-> <<r1>>]}
===============================================================================
