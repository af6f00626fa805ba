------------------------------- MODULE MCSync -------------------------------
(***************************************************************************)
(* A small instance of Sync.  The first run finds every conflict; the      *)
(* other two find one each.  Both resolve the third, they want the rows of *)
(* the first two in opposite orders, and a conflict can come back.         *)
(***************************************************************************)
EXTENDS Sync, TLC

MCConflict == {1, 2, 3}
MCDetects == [r1 |-> {1, 2, 3}, r2 |-> {2}, r3 |-> {1}]
MCCutover == <<"crm", "app">>
Symmetry == Permutations(Execution)
=============================================================================
