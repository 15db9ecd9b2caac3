------------------------------ MODULE MCBilling ------------------------------
(* Small instances of Billing.                                                *)
EXTENDS Billing, TLC

CONSTANTS o1, o2, o3, t1, t2

MCOps == {o1, o2, o3}
MCIds == {t1, t2}
MCTenants == {t1}
MCCharges == {-1, 3}
MCCounts == {-1, 0, 1}
MCSymmetry == Permutations(MCOps)
===============================================================================
