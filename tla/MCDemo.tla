------------------------------- MODULE MCDemo -------------------------------
(* An instance of Demo for TLC.                                             *)
EXTENDS Demo, TLC

CONSTANTS c1, c2, s1

OneSubmit == {s1}
TwoConflicts == {c1, c2}
=============================================================================
