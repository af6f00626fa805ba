------------------------ MODULE MCProposalLifecycle ------------------------
(* Instances of ProposalLifecycle for TLC: two conflicts, one of them not     *)
(* eligible for auto-apply, reviewers that race for the same proposal and two *)
(* executions of the stretch job at once.                                     *)
EXTENDS ProposalLifecycle, TLC

CONSTANTS c1, c2, v1, v2, a1, a2

TwoConflicts == {c1, c2}
FirstConflict == {c1}
TwoReviewers == {v1, v2}
TwoAppliers == {a1, a2}

ActorSymmetry == Permutations(TwoReviewers) \cup Permutations(TwoAppliers)
=============================================================================
