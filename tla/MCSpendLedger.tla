--------------------------- MODULE MCSpendLedger ---------------------------
(* Instances of SpendLedger for TLC.  A call reserves 3 and costs 1, or is    *)
(* charged 3; the provider may also report 4, which is refused.  The caps let *)
(* three calls be paid on the same day, or two after a deployment lowered     *)
(* them, and the unused part of one settlement pay for another call.          *)
EXTENDS SpendLedger, TLC

CONSTANTS r1, r2, f1, f2, f3, f4

TwoRuns == {r1, r2}
FourCalls == {f1, f2, f3, f4}
ReportedCosts == {1, 4}
OneConfig == {[daily |-> 7, run |-> 7]}
TwoConfigs == {[daily |-> 9, run |-> 7], [daily |-> 6, run |-> 4]}

RunAndCallSymmetry == Permutations(TwoRuns) \cup Permutations(FourCalls)
=============================================================================
