----------------------------- MODULE MCJobQueue -----------------------------
(* Finite instances of JobQueue for TLC.                                   *)
EXTENDS JobQueue, TLC

CONSTANTS j1, j2, w1, w2

NoJob == {}
OneJob == {j1}
OtherJob == {j2}
OneWorker == {w1}
TwoWorkers == {w1, w2}
AllOutcomes == {"complete", "halted", "error"}
FailOrComplete == {"complete", "error"}
WorkerSymmetry == Permutations(TwoWorkers)
=============================================================================
