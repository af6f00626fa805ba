----------------------------- MODULE MCSources ------------------------------
(* An instance of Sources for TLC: a profile, and a reduced one.            *)
EXTENDS Sources, TLC

CONSTANTS i1, i2, r1, r2

Inits == {i1, i2}
Places == <<[id |-> "ea", student |-> "a"], [id |-> "eb", student |-> "b"]>>
Pupils == <<[id |-> "a", student |-> "a"], [id |-> "b", student |-> "b"]>>

Full == [name |-> "full", files |-> <<[version |-> 1, checksum |-> 1]>>,
         students |-> Pupils, enrollments |-> Places,
         tenant |-> "t1", slug |-> "school", client |-> "demo"]

\* The first migration is another file in the release that was changed by hand.
Reduced(checksum) ==
  [name |-> "reduced", files |-> <<[version |-> 1, checksum |-> checksum], [version |-> 2, checksum |-> 1]>>,
   students |-> SubSeq(Pupils, 1, 1), enrollments |-> SubSeq(Places, 1, 1),
   tenant |-> "t2", slug |-> "school-10pct", client |-> "demo"]

\* The tenant has a new id and its old name.
Renumbered == [Full EXCEPT !.tenant = "t2"]

Releases == {Full, Renumbered, Reduced(1), Reduced(2)}
Tenants == {"t1", "t2"}
Runs == {r1, r2}

Symmetry == Permutations(Inits) \cup Permutations(Runs)
AtWork(i) == init[i].at \notin {"new", "done", "dead"}

\* Loads overlap, and releases that are refused are tried, before the first reader; what they leave
\* is read once later.  The second reader starts between loads.  Reads of files and faults
\* are looked at without loads, with which they share nothing.
OneAtATime ==
  /\ Cardinality({i \in Inits : AtWork(i)}) > 1 => starts = 0
  /\ starts > 0 /\ ~load.alone => \A i \in Inits : ~AtWork(i)
  /\ starts > 1 => load.alone /\ \A i \in Inits : ~AtWork(i)
  /\ starts > 0 => \A i \in Inits : init[i].at # "new" => init[i].release \notin {Renumbered, Reduced(2)}
  /\ exec.at # "idle" =>
       /\ exec.fault # "none" => \A i \in Inits : ~AtWork(i)
       /\ exec.gen = 1
       /\ exec.attempt > 0 \/ exec.aborted \/ exec.fault # "none" => starts = 1
  /\ files # NoFiles =>
       /\ exec.at = "reading" /\ exec.attempt = 0 /\ ~exec.aborted /\ exec.fault = "none"
       /\ exec.asked = Pending /\ starts = 1
       /\ \A i \in Inits : ~AtWork(i)
=============================================================================
