--------------------------- MODULE MCSecurityTester ---------------------------
(* Small instances of SecurityTester.  Of the proxy's answers, 406 refuses an *)
(* upload only and 403 refuses every attack.                                  *)
EXTENDS SecurityTester

MCStatuses == {403, 406}
===============================================================================
