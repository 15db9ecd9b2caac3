------------------------------ MODULE MCSession -------------------------------
(* Small instances of Session.                                                 *)
EXTENDS Session

CONSTANTS t1, t2, u1, u2, a1, a2

MCTabs == {t1, t2}
MCUsers == {u1, u2}
MCAdmins == {a1, a2}
===============================================================================
