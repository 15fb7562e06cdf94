--------------------------- MODULE MCEventQueue ---------------------------
EXTENDS EventQueue, TLC

CONSTANTS e1, e2, i1, s1

\* Two deliveries of one issue.
OneIssue == (e1 :> i1) @@ (e2 :> i1)
===========================================================================
