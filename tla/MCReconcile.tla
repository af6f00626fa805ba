----------------------------- MODULE MCReconcile -----------------------------
(* Instances of Reconcile for TLC.                                            *)
EXTENDS Reconcile, TLC

CONSTANTS e1, e2, r1, r2, f1, f2, f3

TwoExecutions == {e1, e2}
OneRun == {r1}
TwoRuns == {r1, r2}
TwoCalls == {f1, f2}
ThreeCalls == {f1, f2, f3}
ReportedCosts == {1, 4}
OneConfig == {[daily |-> 9, run |-> 9]}
TwoConfigs == {[daily |-> 6, run |-> 6], [daily |-> 2, run |-> 2]}

ReconcileSymmetry ==
  Permutations(TwoExecutions) \cup Permutations(ThreeCalls)
=============================================================================
