---------------------------- MODULE MCDashboard -----------------------------
(* Instances of Dashboard for TLC.                                           *)
EXTENDS Dashboard, TLC

CONSTANTS e1, e2, e3

Jobs == {e1, e2, e3}
Conflicts == 1..3
TwoCounts == {1, 2}

\* Patterns on a line, at the numbers of their conflicts; the centroid is the mean.
Abs(n) == IF n < 0 THEN -n ELSE n
OnALine(c, cluster) ==
  LET n == Cardinality(cluster)
  IN  Abs(n * c - FoldSet(LAMBDA d, sum : d + sum, 0, cluster)) \div n

Types == [c \in Conflicts |-> c % 2]

JobSymmetry == Permutations(Jobs)

\* The stretch jobs, the overview and the list are clients of the same tables and
\* do not disturb each other: one kind of client at a time shows all of each.
OneClient ==
  LET grouping == \E e \in Jobs : pc[e] # "start"
      overview == asked # {"all"}
  IN  /\ ~(grouping /\ overview)
      /\ ~(grouping /\ walk.started)
      /\ ~(overview /\ walk.started)

\* What the client at work does not read, or its properties do not speak of.
Relevant ==
  LET grouping == {e \in Jobs : pc[e] # "start"}
      later == {e \in Jobs : pc[e] \in {"tickets", "apply", "retain", "done"}}
  IN  /\ (grouping # {} \/ walk.started) => run.status \in {"none", "running"}
      /\ (grouping # {} \/ asked # {"all"}) => status[3] = "absent"
      /\ grouping # {} => clock <= 3 /\ active = 0 /\ sync.at \in {"idle", "read", "persisted"}
      /\ grouping # {} => sync.at = "idle" \/ sync.accepted = 1
      /\ Cardinality(grouping) > 1 => pending = {} /\ alert = "none" /\ later = {}
      /\ Cardinality(grouping) > 2 => clock <= 2 /\ \A e \in Jobs : pc[e] # "failed"
      /\ from \in {0, 2}
      /\ pending \subseteq {1} \/ asked # {"all"}
      /\ walk.started => pending = {}
      /\ grouping = {} => alert = "none"
      /\ "sync" \notin wrote
=============================================================================
