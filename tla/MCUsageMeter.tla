----------------------------- MODULE MCUsageMeter -----------------------------
(* Small instances of UsageMeter.  Callbacks and tenants are alike.         *)
EXTENDS UsageMeter, TLC

Symmetry == Permutations(Callbacks) \cup Permutations(Tenants)
===============================================================================
