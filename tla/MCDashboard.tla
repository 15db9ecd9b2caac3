----------------------------- MODULE MCDashboard ------------------------------
(* Small instances of Dashboard: two pages, one filter field.                  *)
EXTENDS Dashboard

CONSTANTS w1, w2

MCWindows == {w1, w2}
===============================================================================
