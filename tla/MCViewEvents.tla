----------------------------- MODULE MCViewEvents -----------------------------
(* Small instances of ViewEvents.                                             *)
EXTENDS ViewEvents
CONSTANTS e1, e2, w1, w2, r1
================================================================================
