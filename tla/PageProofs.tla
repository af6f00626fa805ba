----------------------------- MODULE PageProofs -----------------------------
(***************************************************************************)
(* Proofs about what the page is told and what it shows: the rebuilds of   *)
(* the incident groups, the overview and the pages of the list, for any    *)
(* conflicts, distances, executions, sync runs and page size; and the      *)
(* requests of the page to the hosted demo, for any conflicts, submits,    *)
(* jobs of the bootstrap, faults and clicks.                               *)
(***************************************************************************)
EXTENDS Dashboard, Demo, FiniteSetTheorems, WellFoundedInduction, TLAPS

-----------------------------------------------------------------------------
(* Sets of numbers.                                                        *)

\* Induction over the natural numbers, for a set.
LEMMA InductiveSet ==
  ASSUME NEW N \in SUBSET Nat, 0 \in N, \A n \in N : n + 1 \in N
  PROVE  N = Nat
<1> DEFINE Outside == Nat \ N
           Less == {p \in Nat \X Nat : p[1] < p[2]}
<1>1. SUFFICES ASSUME Outside # {} PROVE FALSE
  OBVIOUS
<1>2. IsWellFoundedOn(Less, Nat)
  BY NatLessThanWellFounded DEF OpToRel
<1>3. PICK n \in Outside : \A k \in Outside : <<k, n>> \notin Less
  <2>1. Outside \subseteq Nat
    OBVIOUS
  <2> HIDE DEF Outside, Less
  <2> QED BY <1>1, <1>2, <2>1, WFMin
<1>4. n - 1 \in Nat /\ n - 1 < n
  OBVIOUS
<1>5. n - 1 \in N
  BY <1>3, <1>4
<1> QED BY <1>4, <1>5

\* A finite set of numbers has a greatest one.
LEMMA MaxIsGreatest ==
  ASSUME NEW S \in SUBSET Nat, IsFiniteSet(S), S # {}
  PROVE  Max(S) \in S /\ \A k \in S : k <= Max(S)
<1> DEFINE HasMax(T) == \E m \in T : \A k \in T : k <= m
           N == {n \in Nat : \A T \in SUBSET Nat :
                   IsFiniteSet(T) /\ T # {} /\ Cardinality(T) = n => HasMax(T)}
<1>1. 0 \in N
  BY FS_EmptySet
<1>2. ASSUME NEW n \in N PROVE n + 1 \in N
  <2> SUFFICES ASSUME NEW T \in SUBSET Nat, IsFiniteSet(T), T # {}, Cardinality(T) = n + 1
               PROVE  HasMax(T)
    OBVIOUS
  <2>1. PICK k \in T : TRUE
    OBVIOUS
  <2>2. IsFiniteSet(T \ {k}) /\ Cardinality(T \ {k}) = n
    <3>1. n \in Nat /\ n + 1 - 1 = n
      OBVIOUS
    <3>2. IsFiniteSet(T \ {k}) /\ Cardinality(T \ {k}) = Cardinality(T) - 1
      BY <2>1, FS_RemoveElement
    <3> QED BY <3>1, <3>2
  <2>3. CASE T \ {k} = {}
    BY <2>3
  <2>4. CASE T \ {k} # {}
    <3>1. T \ {k} \in SUBSET Nat
      OBVIOUS
    <3>2. HasMax(T \ {k})
      BY <2>2, <2>4, <3>1
    <3> QED BY <3>2
  <2> QED BY <2>3, <2>4
<1>3. N = Nat
  <2>1. N \in SUBSET Nat
    OBVIOUS
  <2> HIDE DEF N
  <2> QED BY <1>1, <1>2, <2>1, InductiveSet
<1>4. HasMax(S)
  BY <1>3, FS_CardinalityType
<1> QED BY <1>4 DEF Max

-----------------------------------------------------------------------------
(* Clusters.                                                               *)

\* A sequence of sets of these conflicts, no conflict in two of them.
Apart(clusters, ids) ==
  /\ clusters \in Seq(SUBSET ids)
  /\ \A i, j \in DOMAIN clusters : i # j => clusters[i] \cap clusters[j] = {}

\* What the recursion of the fold of Clusters is, for the sets of some conflicts.
Joins(clusters, s) ==
  IF s = {} THEN <<>> ELSE Join(clusters[s \ {Max(s)}], Max(s))

LEMMA JoinKeepsApart ==
  ASSUME NEW ids, NEW c, c \notin ids, NEW clusters, Apart(clusters, ids)
  PROVE  Apart(Join(clusters, c), ids \cup {c})
<1> DEFINE i == Nearest(c, clusters)
           n == Len(clusters)
           more == ids \cup {c}
           joined == [clusters EXCEPT ![i] = @ \cup {c}]
           opened == Append(clusters, {c})
<1>1. /\ n \in Nat /\ DOMAIN clusters = 1..n
      /\ \A j \in 1..n : clusters[j] \subseteq ids
      /\ clusters = [j \in 1..n |-> clusters[j]]
  BY DEF Apart
<1>2. Apart(joined, more)
  <2>1. /\ DOMAIN joined = 1..n
        /\ \A j \in 1..n : joined[j] = clusters[j] \/ (j = i /\ joined[j] = clusters[j] \cup {c})
    BY <1>1
  <2>2. joined = [j \in 1..n |-> joined[j]]
    BY <1>1
  <2>3. \A j \in 1..n : joined[j] \in SUBSET more
    BY <1>1, <2>1
  <2>4. joined \in Seq(SUBSET more)
    <3> HIDE DEF joined, more
    <3> QED BY <1>1, <2>2, <2>3
  <2>5. \A j, k \in 1..n : j # k => joined[j] \cap joined[k] = {}
    BY <1>1, <2>1 DEF Apart
  <2> QED BY <2>1, <2>4, <2>5 DEF Apart
<1>3. Apart(opened, more)
  <2>1. /\ DOMAIN opened = 1..(n + 1)
        /\ \A j \in 1..n : opened[j] = clusters[j]
        /\ opened[n + 1] = {c}
    BY <1>1 DEF Apart
  <2>2. clusters \in Seq(SUBSET more) /\ {c} \in SUBSET more
    <3>1. \A j \in 1..n : clusters[j] \in SUBSET more
      BY <1>1
    <3> HIDE DEF more
    <3> QED BY <1>1, <3>1 DEF Apart, more
  <2>3. opened \in Seq(SUBSET more)
    <3> HIDE DEF more
    <3> QED BY <2>2
  <2>4. \A j, k \in 1..(n + 1) : j # k => opened[j] \cap opened[k] = {}
    <3> SUFFICES ASSUME NEW j \in 1..(n + 1), NEW k \in 1..(n + 1), j # k
                 PROVE  opened[j] \cap opened[k] = {}
      OBVIOUS
    <3>1. (j \in 1..n \/ j = n + 1) /\ (k \in 1..n \/ k = n + 1)
      BY <1>1
    <3> HIDE DEF opened, n
    <3> QED BY <1>1, <2>1, <3>1 DEF Apart
  <2> QED BY <2>1, <2>3, <2>4 DEF Apart
<1> HIDE DEF i, joined, opened, more
<1> QED BY <1>2, <1>3 DEF Join, i, joined, opened, more

\* The function the fold is defined by exists, because every set it is applied to is smaller.
LEMMA FoldIsDefined ==
  ASSUME NEW ids \in SUBSET Conflict
  PROVE  \E f : f = [s \in SUBSET ids |-> Joins(f, s)]
<1> DEFINE Level(n) == {s \in SUBSET ids : Cardinality(s) <= n}
           N == {n \in Nat : \E f : f = [s \in Level(n) |-> Joins(f, s)]}
<1>1. /\ IsFiniteSet(ids) /\ ids \in SUBSET Nat
      /\ \A s \in SUBSET ids : IsFiniteSet(s) /\ Cardinality(s) \in Nat /\ s \in SUBSET Nat
  <2>1. IsFiniteSet(ids) /\ ids \in SUBSET Nat
    BY StretchAssumption, FS_Subset
  <2> QED BY <2>1, FS_Subset, FS_CardinalityType
<1>2. 0 \in N
  <2>1. Level(0) = {{}}
    <3>1. \A s \in SUBSET ids : Cardinality(s) = 0 <=> s = {}
      BY <1>1, FS_EmptySet
    <3>2. \A s \in SUBSET ids : Cardinality(s) <= 0 <=> s = {}
      BY <1>1, <3>1
    <3> QED BY <3>2
  <2>2. [s \in {{}} |-> <<>>] = [s \in Level(0) |-> Joins([t \in {{}} |-> <<>>], s)]
    BY <2>1 DEF Joins
  <2> HIDE DEF Level
  <2> QED BY <2>2
<1>3. ASSUME NEW n \in N PROVE n + 1 \in N
  <2>1. PICK f : f = [s \in Level(n) |-> Joins(f, s)]
    BY <1>3
  <2> DEFINE g == [s \in Level(n + 1) |-> Joins(f, s)]
  <2>2. \A s \in Level(n) : s \in Level(n + 1) /\ g[s] = f[s]
    <3>1. \A s \in Level(n) : s \in Level(n + 1)
      BY <1>1
    <3>2. \A s \in Level(n) : f[s] = Joins(f, s)
      BY <2>1
    <3> HIDE DEF Level
    <3> QED BY <3>1, <3>2
  <2>3. ASSUME NEW s \in Level(n + 1), s # {} PROVE s \ {Max(s)} \in Level(n)
    <3>1. Max(s) \in s
      BY <1>1, <2>3, MaxIsGreatest
    <3>2. s \in SUBSET ids /\ Cardinality(s) <= n + 1 /\ Cardinality(s) \in Nat /\ n \in Nat
      BY <1>1
    <3>3. Cardinality(s \ {Max(s)}) = Cardinality(s) - 1
      BY <1>1, <3>1, <3>2, FS_RemoveElement
    <3> QED BY <3>2, <3>3
  <2>4. \A s \in Level(n + 1) : Joins(f, s) = Joins(g, s)
    <3> SUFFICES ASSUME NEW s \in Level(n + 1) PROVE Joins(f, s) = Joins(g, s)
      OBVIOUS
    <3>1. s # {} => f[s \ {Max(s)}] = g[s \ {Max(s)}]
      BY <2>2, <2>3
    <3> HIDE DEF g, Level
    <3> QED BY <3>1 DEF Joins
  <2>5. g = [s \in Level(n + 1) |-> Joins(g, s)]
    <3>1. g = [s \in Level(n + 1) |-> Joins(f, s)]
      OBVIOUS
    <3> HIDE DEF g, Level
    <3> QED BY <2>4, <3>1
  <2>6. n + 1 \in Nat
    OBVIOUS
  <2> HIDE DEF g, Level
  <2> QED BY <2>5, <2>6
<1>4. Cardinality(ids) \in N
  <2>1. N \in SUBSET Nat
    OBVIOUS
  <2>2. N = Nat
    <3> HIDE DEF N
    <3> QED BY <1>2, <1>3, <2>1, InductiveSet
  <2> HIDE DEF N
  <2> QED BY <1>1, <2>2
<1>5. Level(Cardinality(ids)) = SUBSET ids
  <2>1. \A s \in SUBSET ids : Cardinality(s) <= Cardinality(ids)
    BY <1>1, FS_Subset
  <2> QED BY <2>1
<1> HIDE DEF Level
<1> QED BY <1>4, <1>5

\* No conflict is in two clusters.
LEMMA ClustersAreApart ==
  ASSUME NEW ids \in SUBSET Conflict,
         NEW g \in Clusters(ids), NEW h \in Clusters(ids), g # h
  PROVE  g \cap h = {}
<1> DEFINE f == CHOOSE f : f = [s \in SUBSET ids |-> Joins(f, s)]
           N == {n \in Nat : \A s \in SUBSET ids : Cardinality(s) = n => Apart(f[s], s)}
<1>1. /\ IsFiniteSet(ids) /\ ids \in SUBSET Nat
      /\ \A s \in SUBSET ids : IsFiniteSet(s) /\ Cardinality(s) \in Nat /\ s \in SUBSET Nat
  <2>1. IsFiniteSet(ids) /\ ids \in SUBSET Nat
    BY StretchAssumption, FS_Subset
  <2> QED BY <2>1, FS_Subset, FS_CardinalityType
<1>2. \A s \in SUBSET ids : f[s] = Joins(f, s)
  <2>1. f = [s \in SUBSET ids |-> Joins(f, s)]
    BY FoldIsDefined
  <2> HIDE DEF f
  <2> QED BY <2>1
<1>3. Clusters(ids) = Range(f[ids])
  BY DEF Clusters, MapThenFoldSet, Joins
<1> HIDE DEF f
<1>4. 0 \in N
  <2>1. \A s \in SUBSET ids : Cardinality(s) = 0 => s = {}
    BY <1>1, FS_EmptySet
  <2>2. Apart(<<>>, {})
    BY DEF Apart
  <2> QED BY <1>2, <2>1, <2>2 DEF Joins
<1>5. ASSUME NEW n \in N PROVE n + 1 \in N
  <2> SUFFICES ASSUME NEW s \in SUBSET ids, Cardinality(s) = n + 1 PROVE Apart(f[s], s)
    OBVIOUS
  <2>1. s # {} /\ n + 1 - 1 = n /\ n \in Nat
    BY FS_EmptySet
  <2>2. Max(s) \in s
    BY <1>1, <2>1, MaxIsGreatest
  <2>3. s \ {Max(s)} \in SUBSET ids /\ Cardinality(s \ {Max(s)}) = n
    <3>1. Cardinality(s \ {Max(s)}) = Cardinality(s) - 1
      BY <1>1, <2>2, FS_RemoveElement
    <3> QED BY <2>1, <3>1
  <2>4. Apart(f[s \ {Max(s)}], s \ {Max(s)})
    BY <1>5, <2>3
  <2>5. Apart(Join(f[s \ {Max(s)}], Max(s)), (s \ {Max(s)}) \cup {Max(s)})
    BY <2>4, JoinKeepsApart
  <2>6. (s \ {Max(s)}) \cup {Max(s)} = s
    BY <2>2
  <2> QED BY <1>2, <2>1, <2>5, <2>6 DEF Joins
<1>6. Apart(f[ids], ids)
  <2>1. N \in SUBSET Nat
    OBVIOUS
  <2>2. N = Nat
    <3> HIDE DEF N
    <3> QED BY <1>4, <1>5, <2>1, InductiveSet
  <2> QED BY <1>1, <2>2
<1> QED BY <1>3, <1>6 DEF Apart, Range

-----------------------------------------------------------------------------
(* The inductive invariant.                                                *)

Tables == {"members", "groups", "embeddings"}
Labels ==
  {"start", "members", "delete_members", "groups", "delete_groups", "embeddings",
   "delete_embeddings", "insert", "commit", "grouped", "tickets", "apply", "retain", "done", "failed"}

StretchTypes ==
  /\ clock \in 1..MaxClock
  /\ status \in [Conflict -> Statuses]
  /\ lastSeen \in [Conflict -> 0..MaxClock]
  /\ pending \in SUBSET Conflict
  /\ tickets \in [Conflict -> 0..MaxClock]
  /\ pc \in [Job -> Labels]
  /\ seen \in [Job -> [Conflict -> 0..MaxClock]]
  /\ DOMAIN rows = Tables
  /\ DOMAIN snapshot = Job
  /\ DOMAIN gone = Job /\ \A e \in Job : DOMAIN gone[e] = Tables
  /\ DOMAIN beside = Job

\* Executions that have not committed their groups.
Building == {e \in Job : pc[e] \in {"start", "members"}} \cup Open

\* What is in the tables was committed: a rebuild's rows appear when it ends.
RowsAreCommitted ==
  \A t \in Tables : \A x \in rows[t] : x.run \in Job \ Building

\* Deleted rows stay in the tables until the transaction commits, and are its own.
GoneAreLocked ==
  /\ \A e \in Job, t \in Tables : gone[e][t] \subseteq rows[t]
  /\ \A e, f \in Job : e # f => \A t \in Tables : gone[e][t] \cap gone[f][t] = {}
  /\ \A e \in Job : pc[e] \notin {"embeddings", "delete_embeddings", "insert", "commit"} =>
       gone[e].groups = {}
  /\ \A e \in Job : e \notin Open => \A t \in Tables : gone[e][t] = {}

MembersHaveGroups ==
  \A m \in rows.members : \E g \in rows.groups : g.run = m.run /\ g.group = m.group

\* The foreign key: a deleted group has no member but deleted ones, not even one that another
\* transaction has inserted meanwhile.
GoneGroupsAreEmpty ==
  \A e \in Job : \A g \in gone[e].groups : \A m \in rows.members \ gone[e].members :
    ~(m.run = g.run /\ m.group = g.group)

BesideIsMutual == \A e, f \in Open : e # f => f \in beside[e]

\* A member a rebuild does not delete is from one that ran beside it.
Meets(e, n) == n.run \in beside[e] /\ e \in beside[n.run]

OthersAreBeside ==
  \A e \in Open : \A n \in rows.members :
    \/ pc[e] = "delete_members" /\ n \in snapshot[e]
    \/ pc[e] # "delete_members" /\ n \in gone[e].members
    \/ Meets(e, n)

\* The keys of the groups: what a rebuild is about to commit is new.
GroupsAreNew ==
  /\ \A e, f \in Job : e # f /\ pc[e] = "commit" /\ pc[f] = "commit" =>
       Clusters(Found(e)) \cap Clusters(Found(f)) = {}
  /\ \A e \in Job : pc[e] = "commit" =>
       \A n \in rows.members \ gone[e].members : n.group \notin Clusters(Found(e))

GroupInv ==
  /\ RowsAreCommitted
  /\ GoneAreLocked
  /\ MembersHaveGroups
  /\ GoneGroupsAreEmpty
  /\ BesideIsMutual
  /\ OthersAreBeside
  /\ GroupsAreNew
  /\ OneGroupUnlessBeside

\* The rows a sync run leaves behind, step by step.
SyncInv ==
  /\ sync.at \in {"idle", "read", "persisted", "switched", "unchecked"}
  /\ sync = IF sync.at = "idle" THEN [at |-> "idle"] ELSE [at |-> sync.at, accepted |-> sync.accepted]
  /\ sync.at = "read" => clock < MaxClock
  /\ sync.at # "idle" => run.status = "running"
  /\ sync.at = "switched" => active = sync.accepted
  /\ run.status \in {"none", "running"} => run.accepted = {}
  /\ run.status = "complete" => run.accepted = {active}
  /\ run.status \in {"none", "running", "complete", "partial"}

\* An evaluation holds until the next one: only it changes the status of a conflict.
EvaluationInv ==
  /\ evaluated.status \in {"none", "complete", "partial"}
  /\ evaluated.failing \subseteq Conflict
  /\ evaluated.status = "none" => evaluated.failing = {} /\ Ids({"active"}) = {}
  /\ evaluated.status = "complete" =>
       /\ Ids({"active"}) \subseteq evaluated.failing
       /\ evaluated.failing \subseteq Ids({"active", "oscillation_hold"})

\* The figures the overview has are those it would get now, but for the proposals if they
\* were decided meanwhile, and unless a sync run has written.
FiguresInv ==
  /\ from \in Nat
  /\ asked = {"all"} \/ asked \subseteq Query
  /\ DOMAIN figures = Query
  /\ asked # {"all"} =>
       \A q \in Query \ asked :
         "sync" \notin wrote /\ (q = "proposals" => wrote = {}) => figures[q] = AnswerOf(q)

\* A row whose millisecond a page ended in, after the whole millisecond.
SharesAMilli(c) ==
  \E p \in walk.ends : Milli(lastSeen[c]) = Milli(p[1]) /\ p[1] # Milli(p[1])

\* What a reader has not seen yet comes after the cursor.
WalkInv ==
  /\ walk = [open |-> walk.open, started |-> walk.started, cursor |-> walk.cursor,
             listed |-> walk.listed, ends |-> walk.ends, there |-> walk.there,
             touched |-> walk.touched]
  /\ walk.listed \subseteq Conflict
  /\ walk.there \subseteq Conflict
  /\ ~walk.started => walk = NoWalk
  /\ walk.started /\ walk.open => walk.cursor \in Nat \X Conflict
  /\ walk.started => \A c \in walk.there \ walk.touched : status[c] = "active"
  /\ walk.started => \A c \in Unseen :
       (walk.open /\ Before(Position(c), walk.cursor)) \/ SharesAMilli(c)

IInv == StretchTypes /\ GroupInv /\ SyncInv /\ EvaluationInv /\ FiguresInv /\ WalkInv

-----------------------------------------------------------------------------
(* The tables of a rebuild, action by action.                              *)

LEMMA TableNames ==
  /\ Range(Table) = Tables
  /\ DOMAIN Table = 1..3 /\ Len(Table) = 3
  /\ DOMAIN NoRows = Tables /\ \A t \in Tables : NoRows[t] = {}
<1>1. DOMAIN Table = 1..3 /\ Len(Table) = 3
  BY DEF Table
<1>2. Table[1] = "members" /\ Table[2] = "groups" /\ Table[3] = "embeddings"
  BY DEF Table
<1>3. Range(Table) = {Table[i] : i \in 1..3}
  BY <1>1 DEF Range
<1>4. Range(Table) = Tables
  <2>1. \A i \in 1..3 : i = 1 \/ i = 2 \/ i = 3
    OBVIOUS
  <2> QED BY <1>2, <1>3, <2>1 DEF Tables
<1> QED BY <1>1, <1>4 DEF NoRows

LEMMA FoundIsConflict == \A e : Found(e) \in SUBSET Conflict
BY DEF Found

\* A step outside a rebuild, or before its transaction.
LEMMA QuietStep ==
  ASSUME StretchTypes, GroupInv, NEW e \in Job, NEW l, Goto(e, l), UNCHANGED groupVars,
         \/ pc[e] = "start" /\ l = "members"
         \/ /\ pc[e] \in {"grouped", "tickets", "apply", "retain", "done", "failed"}
            /\ l \in {"grouped", "tickets", "apply", "retain", "done", "failed"},
         \A f \in Job : f # e => seen'[f] = seen[f]
  PROVE  GroupInv'
<1>1. /\ UNCHANGED <<rows, snapshot, gone, beside>>
      /\ pc'[e] = l /\ \A f \in Job : f # e => pc'[f] = pc[f]
  BY DEF groupVars, Goto, StretchTypes
<1>2. \A f \in Job : pc'[f] # pc[f] => f = e /\ f \notin Open /\ f \notin Open'
  BY <1>1 DEF Open
<1>3. Open' = Open /\ Building' = Building
  BY <1>1 DEF Open, Building
<1>4. \A f \in Job : pc'[f] = "commit" => pc[f] = "commit" /\ Found(f)' = Found(f)
  BY <1>1 DEF Found
<1>5. RowsAreCommitted' /\ MembersHaveGroups' /\ GoneGroupsAreEmpty' /\ BesideIsMutual'
        /\ OneGroupUnlessBeside'
  BY <1>1, <1>3 DEF GroupInv, RowsAreCommitted, MembersHaveGroups, GoneGroupsAreEmpty,
     BesideIsMutual, OneGroupUnlessBeside
<1>6. GoneAreLocked'
  BY <1>1, <1>3 DEF GroupInv, GoneAreLocked
<1>7. OthersAreBeside'
  BY <1>1, <1>2, <1>3 DEF GroupInv, OthersAreBeside, Meets, Open
<1>8. GroupsAreNew'
  BY <1>1, <1>4 DEF GroupInv, GroupsAreNew
<1> QED BY <1>5, <1>6, <1>7, <1>8 DEF GroupInv

\* Nothing of a rebuild changes.
LEMMA IdleStep ==
  ASSUME GroupInv, UNCHANGED <<groupVars, pc, seen>>
  PROVE  GroupInv'
<1>1. UNCHANGED <<rows, snapshot, gone, beside, pc, seen>>
  BY DEF groupVars
<1>2. Open' = Open /\ Building' = Building /\ \A f : Found(f)' = Found(f)
  BY <1>1 DEF Open, Building, Found
<1> QED
  BY <1>1, <1>2 DEF GroupInv, RowsAreCommitted, GoneAreLocked, MembersHaveGroups,
     GoneGroupsAreEmpty, BesideIsMutual, OthersAreBeside, Meets, GroupsAreNew, OneGroupUnlessBeside

\* A rebuild that is rolled back leaves the tables as they were.
LEMMA RolledBackStep ==
  ASSUME StretchTypes, GroupInv, NEW e \in Job, Roll(e), Goto(e, "failed"),
         UNCHANGED <<rows, beside, seen>>
  PROVE  GroupInv'
<1>1. /\ UNCHANGED <<rows, beside, seen>>
      /\ pc'[e] = "failed" /\ \A f \in Job : f # e => pc'[f] = pc[f]
      /\ gone'[e] = NoRows /\ \A f \in Job : f # e => gone'[f] = gone[f]
      /\ \A f \in Job : f # e => snapshot'[f] = snapshot[f]
  BY DEF Roll, Goto, StretchTypes
<1>2. Open' = Open \ {e} /\ Building' = Building \ {e}
  BY <1>1 DEF Open, Building
<1>3. \A t \in Tables : gone'[e][t] = {}
  BY <1>1, TableNames
<1>4. \A f : Found(f)' = Found(f)
  BY <1>1 DEF Found
<1>5. RowsAreCommitted' /\ MembersHaveGroups' /\ BesideIsMutual' /\ OneGroupUnlessBeside'
  BY <1>1, <1>2 DEF GroupInv, RowsAreCommitted, MembersHaveGroups, BesideIsMutual,
     OneGroupUnlessBeside
<1>6. GoneAreLocked'
  BY <1>1, <1>2, <1>3 DEF GroupInv, GoneAreLocked, Tables
<1>7. GoneGroupsAreEmpty'
  BY <1>1, <1>3 DEF GroupInv, GoneGroupsAreEmpty, Tables
<1>8. OthersAreBeside'
  BY <1>1, <1>2 DEF GroupInv, OthersAreBeside, Meets, Open
<1>9. GroupsAreNew'
  BY <1>1, <1>4 DEF GroupInv, GroupsAreNew
<1> QED BY <1>5, <1>6, <1>7, <1>8, <1>9 DEF GroupInv

LEMMA ScanStep ==
  ASSUME StretchTypes, GroupInv, NEW e \in Job, Scan(e)
  PROVE  GroupInv'
<1>1. /\ pc[e] \in Tables /\ pc'[e] = Deleting[pc[e]] /\ \A f \in Job : f # e => pc'[f] = pc[f]
      /\ UNCHANGED <<rows, gone, seen>>
      /\ snapshot'[e] = rows[pc[e]] /\ \A f \in Job : f # e => snapshot'[f] = snapshot[f]
  BY TableNames DEF Scan, Goto, StretchTypes
<1>2. Open' = Open \cup {e} /\ Building' = Building
  BY <1>1 DEF Open, Building, Deleting, Tables
<1>3. CASE pc[e] = "members"
  <2>1. /\ beside'[e] = Open
        /\ \A f \in Job : f # e => beside'[f] = IF f \in Open THEN beside[f] \cup {e} ELSE beside[f]
    BY <1>3 DEF Scan
  <2>2. \A m \in rows.members : m.run \in Job /\ m.run # e /\ beside[m.run] \subseteq beside'[m.run]
    BY <1>3, <2>1 DEF GroupInv, RowsAreCommitted, Building, Tables
  <2>3. BesideIsMutual'
    <3>1. \A f \in Open : f # e => f \in beside'[e] /\ e \in beside'[f]
      BY <2>1 DEF Open
    <3> QED BY <1>2, <2>1, <3>1 DEF GroupInv, BesideIsMutual, Open
  <2>4. OthersAreBeside'
    <3> SUFFICES ASSUME NEW f \in Open', NEW n \in rows'.members
                 PROVE  \/ pc'[f] = "delete_members" /\ n \in snapshot'[f]
                        \/ pc'[f] # "delete_members" /\ n \in gone'[f].members
                        \/ Meets(f, n)'
      BY DEF OthersAreBeside
    <3>1. CASE f = e
      BY <1>1, <1>3, <3>1 DEF Deleting
    <3>2. CASE f # e
      <4>1. f \in Open /\ f \in Job /\ n \in rows.members
        BY <1>1, <1>2, <3>2 DEF Open
      <4>2. Meets(f, n) => Meets(f, n)'
        BY <2>1, <2>2, <3>2, <4>1 DEF Meets
      <4> QED BY <1>1, <3>2, <4>1, <4>2 DEF GroupInv, OthersAreBeside
    <3> QED BY <3>1, <3>2
  <2>5. OneGroupUnlessBeside'
    BY <1>1, <2>2 DEF GroupInv, OneGroupUnlessBeside
  <2> QED BY <1>1, <1>2, <2>3, <2>4, <2>5, <1>3 DEF GroupInv, RowsAreCommitted, GoneAreLocked,
             MembersHaveGroups, GoneGroupsAreEmpty, GroupsAreNew, Deleting, Found
<1>4. CASE pc[e] # "members"
  <2>1. beside' = beside /\ e \in Open /\ pc[e] # "delete_members" /\ pc'[e] # "delete_members"
        /\ Open' = Open
    BY <1>1, <1>2, <1>4 DEF Scan, Open, Tables, Deleting
  <2>2. OthersAreBeside'
    BY <1>1, <2>1 DEF GroupInv, OthersAreBeside, Meets, Open
  <2>3. GoneAreLocked'
    BY <1>1, <1>4, <2>1 DEF GroupInv, GoneAreLocked, Tables, Deleting
  <2>4. GroupsAreNew'
    BY <1>1 DEF GroupInv, GroupsAreNew, Tables, Deleting, Found
  <2> QED BY <1>1, <1>2, <2>1, <2>2, <2>3, <2>4 DEF GroupInv, RowsAreCommitted, MembersHaveGroups,
             GoneGroupsAreEmpty, BesideIsMutual, OneGroupUnlessBeside
<1> QED BY <1>3, <1>4

LEMMA DeleteStep ==
  ASSUME StretchTypes, GroupInv, NEW e \in Job, Delete(e)
  PROVE  GroupInv'
<1>1. PICK i \in 1..3 :
        LET t == Table[i]
            found == snapshot[e] \cap rows[t]
        IN  /\ pc[e] = Deleting[t]
            /\ found \cap Locked(e, t) = {}
            /\ ~(t = "groups" /\ Referenced(e, found))
            /\ gone' = [gone EXCEPT ![e][t] = found]
            /\ snapshot' = [snapshot EXCEPT ![e] = {}]
            /\ Goto(e, IF i = 3 THEN "insert" ELSE Table[i + 1])
            /\ UNCHANGED <<rows, beside, seen>>
  BY TableNames DEF Delete
<1> DEFINE t == Table[i]
           found == snapshot[e] \cap rows[t]
           next == IF i = 3 THEN "insert" ELSE Table[i + 1]
<1>2. \/ i = 1 /\ t = "members" /\ next = "groups" /\ pc[e] = "delete_members"
      \/ i = 2 /\ t = "groups" /\ next = "embeddings" /\ pc[e] = "delete_groups"
      \/ i = 3 /\ t = "embeddings" /\ next = "insert" /\ pc[e] = "delete_embeddings"
  BY <1>1 DEF Table, Deleting
<1> HIDE DEF next
<1>3. /\ t \in Tables
      /\ UNCHANGED <<rows, beside, seen>>
      /\ pc'[e] = next /\ \A f \in Job : f # e => pc'[f] = pc[f]
      /\ gone'[e][t] = found /\ \A u \in Tables : u # t => gone'[e][u] = gone[e][u]
      /\ \A f \in Job : f # e => gone'[f] = gone[f] /\ snapshot'[f] = snapshot[f]
      /\ found \subseteq rows[t]
      /\ \A f \in Job : f # e => found \cap gone[f][t] = {}
      /\ t = "groups" => ~Referenced(e, found)
  BY <1>1, <1>2 DEF Goto, StretchTypes, Tables, Locked, next
<1> HIDE DEF t, found
<1>4. Open' = Open /\ Building' = Building /\ e \in Open
  BY <1>2, <1>3 DEF Open, Building
<1>5. t # "groups" => gone'[e].groups = gone[e].groups
  BY <1>3 DEF Tables
<1>6. t # "members" => gone'[e].members = gone[e].members
  BY <1>3 DEF Tables
<1>7. pc[e] = "delete_members" => gone[e].groups = {}
  BY DEF GroupInv, GoneAreLocked
<1>8. GoneAreLocked'
  <2>1. ASSUME NEW f \in Job, NEW u \in Tables PROVE gone'[f][u] \subseteq rows'[u]
    BY <1>3 DEF GroupInv, GoneAreLocked
  <2>2. ASSUME NEW f \in Job, NEW g \in Job, f # g, NEW u \in Tables
        PROVE  gone'[f][u] \cap gone'[g][u] = {}
    BY <1>3, <2>2 DEF GroupInv, GoneAreLocked
  <2>3. ASSUME NEW f \in Job, pc'[f] \notin {"embeddings", "delete_embeddings", "insert", "commit"}
        PROVE  gone'[f].groups = {}
    BY <1>2, <1>3, <1>5, <1>7, <2>3 DEF GroupInv, GoneAreLocked
  <2>4. ASSUME NEW f \in Job, f \notin Open', NEW u \in Tables PROVE gone'[f][u] = {}
    BY <1>3, <1>4, <2>4 DEF GroupInv, GoneAreLocked
  <2> QED BY <2>1, <2>2, <2>3, <2>4 DEF GoneAreLocked
<1>9. GoneGroupsAreEmpty'
  <2> SUFFICES ASSUME NEW f \in Job, NEW g \in gone'[f].groups,
                      NEW m \in rows'.members \ gone'[f].members
               PROVE  ~(m.run = g.run /\ m.group = g.group)
    BY DEF GoneGroupsAreEmpty
  <2>1. CASE f # e
    BY <1>3, <2>1 DEF GroupInv, GoneGroupsAreEmpty
  <2>2. CASE f = e /\ t = "members"
    BY <1>2, <1>5, <1>7, <2>2
  <2>3. CASE f = e /\ t = "groups"
    <3>1. g \in found /\ m \in rows.members \ gone[e].members
      BY <1>3, <1>6, <2>3
    <3> QED BY <1>3, <2>3, <3>1 DEF Referenced
  <2>4. CASE f = e /\ t = "embeddings"
    BY <1>3, <1>5, <1>6, <2>4 DEF GroupInv, GoneGroupsAreEmpty
  <2> QED BY <1>3, <2>1, <2>2, <2>3, <2>4 DEF Tables
<1>10. OthersAreBeside'
  <2> SUFFICES ASSUME NEW f \in Open, NEW n \in rows.members
               PROVE  \/ pc'[f] = "delete_members" /\ n \in snapshot'[f]
                      \/ pc'[f] # "delete_members" /\ n \in gone'[f].members
                      \/ Meets(f, n)
    BY <1>3, <1>4 DEF OthersAreBeside, Meets
  <2>1. CASE f # e
    BY <1>3, <2>1 DEF GroupInv, OthersAreBeside, Open
  <2>2. CASE f = e /\ t = "members"
    <3>1. n \in snapshot[e] => n \in found
      BY <2>2 DEF found
    <3> QED BY <1>2, <1>3, <2>2, <3>1 DEF GroupInv, OthersAreBeside
  <2>3. CASE f = e /\ t # "members"
    BY <1>2, <1>3, <1>6, <2>3 DEF GroupInv, OthersAreBeside
  <2> QED BY <2>1, <2>2, <2>3
<1>11. GroupsAreNew'
  <2>1. \A f \in Job : pc'[f] = "commit" => f # e
    BY <1>2, <1>3
  <2> QED BY <1>3, <2>1 DEF GroupInv, GroupsAreNew, Found
<1>12. RowsAreCommitted' /\ MembersHaveGroups' /\ BesideIsMutual' /\ OneGroupUnlessBeside'
  BY <1>3, <1>4 DEF GroupInv, RowsAreCommitted, MembersHaveGroups, BesideIsMutual,
     OneGroupUnlessBeside
<1> QED BY <1>8, <1>9, <1>10, <1>11, <1>12 DEF GroupInv

\* What a rebuild inserts.
LEMMA Inserted ==
  ASSUME NEW e
  PROVE  /\ \A m \in NewRows(e).members :
              /\ m.run = e /\ m.group \in Clusters(Found(e)) /\ m.conflict \in m.group
              /\ m = [run |-> e, group |-> m.group, conflict |-> m.conflict]
              /\ \E g \in NewRows(e).groups : g.run = e /\ g.group = m.group
         /\ \A g \in NewRows(e).groups : g.run = e
         /\ \A x \in Clusters(Found(e)) : \E g \in NewRows(e).groups : g.group = x
         /\ \A x \in NewRows(e).embeddings : x.run = e
<1> DEFINE clusters == Clusters(Found(e))
<1>1. /\ NewRows(e).members = UNION {{[run |-> e, group |-> g, conflict |-> c] : c \in g} : g \in clusters}
      /\ NewRows(e).groups = {[run |-> e, group |-> g, label |-> MajorityLabel(g),
                                count |-> Cardinality(g)] : g \in clusters}
      /\ NewRows(e).embeddings = {[run |-> e, conflict |-> c] : c \in Found(e)}
  BY DEF NewRows
<1> HIDE DEF clusters
<1>2. ASSUME NEW x \in clusters
      PROVE  \E g \in NewRows(e).groups : g.run = e /\ g.group = x
  <2> DEFINE row == [run |-> e, group |-> x, label |-> MajorityLabel(x), count |-> Cardinality(x)]
  <2>1. row \in NewRows(e).groups /\ row.run = e /\ row.group = x
    BY <1>1
  <2> QED BY <2>1
<1>3. ASSUME NEW m \in NewRows(e).members
      PROVE  /\ m.run = e /\ m.group \in clusters /\ m.conflict \in m.group
             /\ m = [run |-> e, group |-> m.group, conflict |-> m.conflict]
  <2>1. PICK g \in clusters : \E c \in g : m = [run |-> e, group |-> g, conflict |-> c]
    BY <1>1
  <2> QED BY <2>1
<1>4. (\A g \in NewRows(e).groups : g.run = e) /\ (\A x \in NewRows(e).embeddings : x.run = e)
  BY <1>1
<1> QED BY <1>2, <1>3, <1>4 DEF clusters

LEMMA InsertStep ==
  ASSUME StretchTypes, GroupInv, NEW e \in Job, Insert(e)
  PROVE  GroupInv'
<1>1. /\ UNCHANGED <<rows, snapshot, gone, beside, seen>>
      /\ pc[e] = "insert" /\ pc'[e] = "commit" /\ \A f \in Job : f # e => pc'[f] = pc[f]
      /\ ~MustWait(e) /\ ~Clashes(e, Visible(e))
  BY DEF Insert, Goto, StretchTypes, groupVars
<1>2. Open' = Open /\ Building' = Building
  BY <1>1 DEF Open, Building
<1>3. \A f : Found(f)' = Found(f)
  BY <1>1 DEF Found
<1>4. ASSUME NEW f \in Job, f # e, pc[f] = "commit"
      PROVE  Clusters(Found(e)) \cap Clusters(Found(f)) = {}
  <2>1. \A g \in NewRows(f).groups : g.group \notin Clusters(Found(e))
    BY <1>1, <1>4 DEF MustWait, Clashes
  <2> QED BY <2>1, Inserted
<1>5. ASSUME NEW n \in rows.members \ gone[e].members
      PROVE  n.group \notin Clusters(Found(e))
  <2>1. PICK g \in rows.groups : g.run = n.run /\ g.group = n.group
    BY DEF GroupInv, MembersHaveGroups
  <2>2. g \in Visible(e).groups
    BY <2>1, TableNames DEF GroupInv, GoneGroupsAreEmpty, Visible, Tables
  <2> QED BY <1>1, <2>1, <2>2 DEF Clashes
<1>6. GroupsAreNew'
  <2>1. ASSUME NEW f \in Job, NEW g \in Job, f # g, pc'[f] = "commit", pc'[g] = "commit"
        PROVE  Clusters(Found(f)) \cap Clusters(Found(g)) = {}
    BY <1>1, <1>4, <2>1 DEF GroupInv, GroupsAreNew
  <2>2. ASSUME NEW f \in Job, pc'[f] = "commit", NEW n \in rows.members \ gone[f].members
        PROVE  n.group \notin Clusters(Found(f))
    BY <1>1, <1>5, <2>2 DEF GroupInv, GroupsAreNew
  <2> QED BY <1>1, <1>3, <2>1, <2>2 DEF GroupsAreNew
<1>7. GoneAreLocked'
  BY <1>1, <1>2 DEF GroupInv, GoneAreLocked
<1>8. OthersAreBeside'
  BY <1>1, <1>2 DEF GroupInv, OthersAreBeside, Meets, Open
<1>9. RowsAreCommitted' /\ MembersHaveGroups' /\ GoneGroupsAreEmpty' /\ BesideIsMutual'
        /\ OneGroupUnlessBeside'
  BY <1>1, <1>2 DEF GroupInv, RowsAreCommitted, MembersHaveGroups, GoneGroupsAreEmpty,
     BesideIsMutual, OneGroupUnlessBeside
<1> QED BY <1>6, <1>7, <1>8, <1>9 DEF GroupInv

\* The rows of a rebuild replace those it has deleted.
LEMMA CommitStep ==
  ASSUME StretchTypes, GroupInv, NEW e \in Job, Commit(e)
  PROVE  GroupInv'
<1> DEFINE new == NewRows(e)
<1>1. /\ UNCHANGED <<beside, seen>>
      /\ pc[e] = "commit" /\ pc'[e] = "grouped" /\ \A f \in Job : f # e => pc'[f] = pc[f]
      /\ \A t \in Tables : rows'[t] = (rows[t] \ gone[e][t]) \cup new[t]
      /\ gone'[e] = NoRows
      /\ \A f \in Job : f # e => gone'[f] = gone[f] /\ snapshot'[f] = snapshot[f]
  BY TableNames DEF Commit, Goto, StretchTypes, Roll, Visible
<1>2. /\ \A t \in Tables : gone'[e][t] = {}
      /\ "members" \in Tables /\ "groups" \in Tables
  BY <1>1, TableNames DEF Tables
<1>3. /\ rows'.members = (rows.members \ gone[e].members) \cup new.members
      /\ rows'.groups = (rows.groups \ gone[e].groups) \cup new.groups
  BY <1>1, <1>2
<1>4. Open' = Open \ {e} /\ Building' = Building \ {e} /\ e \in Open /\ e \in Building
  BY <1>1 DEF Open, Building
<1>5. \A f : Found(f)' = Found(f)
  BY <1>1 DEF Found
<1>6. \A t \in Tables : \A x \in new[t] : x.run = e
  BY Inserted DEF Tables
<1> HIDE DEF new
<1>7. RowsAreCommitted'
  BY <1>1, <1>4, <1>6 DEF GroupInv, RowsAreCommitted
<1>8. GoneAreLocked'
  <2>1. ASSUME NEW f \in Job, NEW t \in Tables PROVE gone'[f][t] \subseteq rows'[t]
    BY <1>1, <1>2 DEF GroupInv, GoneAreLocked
  <2>2. ASSUME NEW f \in Job, NEW g \in Job, f # g, NEW t \in Tables
        PROVE  gone'[f][t] \cap gone'[g][t] = {}
    BY <1>1, <1>2, <2>2 DEF GroupInv, GoneAreLocked
  <2>3. ASSUME NEW f \in Job, pc'[f] \notin {"embeddings", "delete_embeddings", "insert", "commit"}
        PROVE  gone'[f].groups = {}
    BY <1>1, <1>2, <2>3 DEF GroupInv, GoneAreLocked
  <2>4. ASSUME NEW f \in Job, f \notin Open', NEW t \in Tables PROVE gone'[f][t] = {}
    BY <1>1, <1>2, <1>4, <2>4 DEF GroupInv, GoneAreLocked
  <2> QED BY <2>1, <2>2, <2>3, <2>4 DEF GoneAreLocked
<1>9. MembersHaveGroups'
  <2> SUFFICES ASSUME NEW m \in rows'.members
               PROVE  \E g \in rows'.groups : g.run = m.run /\ g.group = m.group
    BY DEF MembersHaveGroups
  <2>1. CASE m \in rows.members \ gone[e].members
    BY <1>3, <2>1 DEF GroupInv, MembersHaveGroups, GoneGroupsAreEmpty
  <2>2. CASE m \in new.members
    BY <1>3, <2>2, Inserted DEF new
  <2> QED BY <1>3, <2>1, <2>2
<1>10. GoneGroupsAreEmpty'
  <2> SUFFICES ASSUME NEW f \in Job, NEW g \in gone'[f].groups,
                      NEW m \in rows'.members \ gone'[f].members
               PROVE  ~(m.run = g.run /\ m.group = g.group)
    BY DEF GoneGroupsAreEmpty
  <2>1. f # e /\ g \in gone[f].groups /\ g \in rows.groups /\ m \notin gone[f].members
    BY <1>1, <1>2 DEF GroupInv, GoneAreLocked
  <2>2. CASE m \in rows.members
    BY <2>1, <2>2 DEF GroupInv, GoneGroupsAreEmpty
  <2>3. CASE m \in new.members
    <3>1. m.run = e /\ g.run # e
      BY <1>2, <1>4, <1>6, <2>1, <2>3 DEF GroupInv, RowsAreCommitted
    <3> QED BY <3>1
  <2> QED BY <1>3, <2>2, <2>3
<1>11. BesideIsMutual'
  BY <1>1, <1>4 DEF GroupInv, BesideIsMutual
<1>12. OthersAreBeside'
  <2> SUFFICES ASSUME NEW f \in Open, f # e, NEW n \in rows'.members
               PROVE  \/ pc'[f] = "delete_members" /\ n \in snapshot'[f]
                      \/ pc'[f] # "delete_members" /\ n \in gone'[f].members
                      \/ Meets(f, n)
    BY <1>1, <1>4 DEF OthersAreBeside, Meets
  <2>1. f \in Job
    BY DEF Open
  <2>2. CASE n \in rows.members
    BY <1>1, <2>1, <2>2 DEF GroupInv, OthersAreBeside
  <2>3. CASE n \in new.members
    BY <1>2, <1>4, <1>6, <2>3 DEF GroupInv, BesideIsMutual, Meets
  <2> QED BY <1>3, <2>2, <2>3
<1>13. GroupsAreNew'
  <2>1. ASSUME NEW f \in Job, NEW g \in Job, f # g, pc'[f] = "commit", pc'[g] = "commit"
        PROVE  Clusters(Found(f)) \cap Clusters(Found(g)) = {}
    BY <1>1, <2>1 DEF GroupInv, GroupsAreNew
  <2>2. ASSUME NEW f \in Job, pc'[f] = "commit", NEW n \in rows'.members \ gone'[f].members
        PROVE  n.group \notin Clusters(Found(f))
    <3>1. f # e /\ pc[f] = "commit" /\ gone'[f] = gone[f]
      BY <1>1, <2>2
    <3>2. CASE n \in rows.members
      BY <2>2, <3>1, <3>2 DEF GroupInv, GroupsAreNew
    <3>3. CASE n \in new.members
      <4>1. n.group \in Clusters(Found(e))
        BY <3>3, Inserted DEF new
      <4> QED BY <1>1, <3>1, <4>1 DEF GroupInv, GroupsAreNew
    <3> QED BY <1>3, <3>2, <3>3
  <2> QED BY <1>5, <2>1, <2>2 DEF GroupsAreNew
<1>14. OneGroupUnlessBeside'
  <2> SUFFICES ASSUME NEW m \in rows'.members, NEW n \in rows'.members,
                      m.conflict = n.conflict, m # n
               PROVE  m.group # n.group /\ n.run \in beside[m.run]
    BY <1>1 DEF OneGroupUnlessBeside
  <2>1. ASSUME NEW k \in rows.members \ gone[e].members
        PROVE  /\ k.group \notin Clusters(Found(e))
               /\ k.run \in beside[e] /\ e \in beside[k.run]
    BY <1>1, <1>4 DEF GroupInv, GroupsAreNew, OthersAreBeside, Meets
  <2>2. \A k \in new.members : k.run = e /\ k.group \in Clusters(Found(e))
    BY Inserted DEF new
  <2>3. CASE m \in rows.members \ gone[e].members /\ n \in rows.members \ gone[e].members
    BY <2>3 DEF GroupInv, OneGroupUnlessBeside
  <2>4. CASE m \in new.members /\ n \in rows.members \ gone[e].members
    BY <2>1, <2>2, <2>4
  <2>5. CASE m \in rows.members \ gone[e].members /\ n \in new.members
    BY <2>1, <2>2, <2>5
  <2>6. CASE m \in new.members /\ n \in new.members
    <3>1. m.group = n.group
      BY <2>6, Inserted, FoundIsConflict, ClustersAreApart DEF new
    <3>2. m = n
      BY <2>6, <3>1, Inserted DEF new
    <3> QED BY <3>2
  <2> QED BY <1>3, <2>3, <2>4, <2>5, <2>6
<1> QED BY <1>7, <1>8, <1>9, <1>10, <1>11, <1>12, <1>13, <1>14 DEF GroupInv

LEMMA StretchStepGroups == StretchTypes /\ GroupInv /\ StretchStep => GroupInv'
<1> SUFFICES ASSUME StretchTypes, GroupInv, NEW e \in Job,
               \/ ReadActive(e) \/ Scan(e) \/ Delete(e) \/ DeleteRefused(e)
               \/ Insert(e) \/ InsertRefused(e) \/ Commit(e)
               \/ ReadTickets(e) \/ UpsertTickets(e) \/ AutoApply(e) \/ EndApply(e)
               \/ Retain(e) \/ Throw(e)
             PROVE  GroupInv'
  BY DEF StretchStep
<1>1. CASE ReadActive(e)
  BY <1>1, QuietStep DEF ReadActive, Read, StretchTypes
<1>2. CASE DeleteRefused(e) \/ InsertRefused(e) \/ Throw(e)
  BY <1>2, RolledBackStep DEF DeleteRefused, InsertRefused, Throw
<1>3. CASE ReadTickets(e)
  BY <1>3, QuietStep DEF ReadTickets, Read, StretchTypes
<1>4. CASE UpsertTickets(e) \/ EndApply(e) \/ Retain(e)
  BY <1>4, QuietStep DEF UpsertTickets, EndApply, Retain
<1>5. CASE AutoApply(e)
  BY <1>5, IdleStep DEF AutoApply
<1> QED
  BY <1>1, <1>2, <1>3, <1>4, <1>5, ScanStep, DeleteStep, InsertStep, CommitStep

-----------------------------------------------------------------------------
(* The types of the tables and of the executions.                          *)

\* A step of an execution changes neither the conflicts nor the clock, and of the
\* proposals only what it applies.
LEMMA StretchFrame ==
  StretchStep => UNCHANGED conflictVars /\ pending' \subseteq pending
<1> SUFFICES ASSUME NEW e \in Job,
               \/ ReadActive(e) \/ Scan(e) \/ Delete(e) \/ DeleteRefused(e)
               \/ Insert(e) \/ InsertRefused(e) \/ Commit(e)
               \/ ReadTickets(e) \/ UpsertTickets(e) \/ AutoApply(e) \/ EndApply(e)
               \/ Retain(e) \/ Throw(e)
             PROVE  UNCHANGED conflictVars /\ pending' \subseteq pending
  BY DEF StretchStep
<1> QED BY DEF ReadActive, Scan, Delete, DeleteRefused, Insert, InsertRefused, Commit, ReadTickets,
       UpsertTickets, AutoApply, EndApply, Retain, Throw

LEMMA RollTypes ==
  ASSUME StretchTypes, NEW e \in Job, Roll(e)
  PROVE  /\ DOMAIN snapshot' = Job
         /\ DOMAIN gone' = Job /\ \A f \in Job : DOMAIN gone'[f] = Tables
<1>1. DOMAIN NoRows = Tables
  BY TableNames
<1> QED BY <1>1 DEF Roll, StretchTypes

LEMMA StretchStepTypes == StretchTypes /\ StretchStep => StretchTypes'
<1> SUFFICES ASSUME StretchTypes, StretchStep PROVE StretchTypes'
  OBVIOUS
<1>1. PICK e \in Job :
        \/ ReadActive(e) \/ Scan(e) \/ Delete(e) \/ DeleteRefused(e)
        \/ Insert(e) \/ InsertRefused(e) \/ Commit(e)
        \/ ReadTickets(e) \/ UpsertTickets(e) \/ AutoApply(e) \/ EndApply(e)
        \/ Retain(e) \/ Throw(e)
  BY DEF StretchStep
<1>2. /\ clock' \in 1..MaxClock
      /\ status' \in [Conflict -> Statuses]
      /\ lastSeen' \in [Conflict -> 0..MaxClock]
      /\ pending' \in SUBSET Conflict
  BY StretchFrame DEF StretchTypes, conflictVars
<1>3. ASSUME NEW l \in Labels, Goto(e, l) PROVE pc' \in [Job -> Labels]
  BY <1>3 DEF Goto, StretchTypes
<1>4. ASSUME NEW statuses, NEW column \in [Conflict -> 0..MaxClock], Read(e, statuses, column)
      PROVE  seen' \in [Job -> [Conflict -> 0..MaxClock]]
  <2> DEFINE read == [c \in Conflict |-> IF status[c] \in statuses THEN column[c] ELSE 0]
  <2>1. read \in [Conflict -> 0..MaxClock]
    BY <1>4, StretchAssumption
  <2>2. seen' = [seen EXCEPT ![e] = read]
    BY <1>4 DEF Read
  <2> HIDE DEF read
  <2> QED BY <2>1, <2>2 DEF StretchTypes
<1> USE <1>2, <1>3, <1>4 DEF StretchTypes, groupVars, Labels
<1>5. CASE ReadActive(e)
  <2>1. [c \in Conflict |-> 1] \in [Conflict -> 0..MaxClock]
    BY StretchAssumption
  <2> QED BY <1>5, <2>1 DEF ReadActive
<1>6. CASE Scan(e)
  <2>1. Deleting[pc[e]] \in Labels
    BY <1>6, TableNames DEF Scan, Deleting, Tables
  <2>2. DOMAIN beside' = Job /\ DOMAIN snapshot' = Job
    BY <1>6 DEF Scan
  <2> QED BY <1>6, <2>1, <2>2 DEF Scan
<1>7. CASE Delete(e)
  <2>1. PICK i \in 1..3 :
          LET t == Table[i]
              found == snapshot[e] \cap rows[t]
          IN  /\ gone' = [gone EXCEPT ![e][t] = found]
              /\ snapshot' = [snapshot EXCEPT ![e] = {}]
              /\ Goto(e, IF i = 3 THEN "insert" ELSE Table[i + 1])
              /\ UNCHANGED <<rows, beside, seen, tickets>>
    BY <1>7, TableNames DEF Delete
  <2>2. (IF i = 3 THEN "insert" ELSE Table[i + 1]) \in Labels
    BY DEF Table
  <2>3. \A f \in Job : DOMAIN gone'[f] = Tables
    BY <2>1
  <2> QED BY <2>1, <2>2, <2>3
<1>8. CASE DeleteRefused(e) \/ InsertRefused(e) \/ Throw(e)
  BY <1>8, RollTypes DEF DeleteRefused, InsertRefused, Throw
<1>9. CASE Insert(e)
  BY <1>9 DEF Insert
<1>10. CASE Commit(e)
  <2>1. DOMAIN rows' = Tables
    BY <1>10, TableNames DEF Commit
  <2> QED BY <1>10, <2>1, RollTypes DEF Commit
<1>11. CASE ReadTickets(e)
  BY <1>11 DEF ReadTickets
<1>12. CASE UpsertTickets(e)
  <2>1. tickets' \in [Conflict -> 0..MaxClock]
    BY <1>12 DEF UpsertTickets
  <2> QED BY <1>12, <2>1 DEF UpsertTickets
<1>13. CASE AutoApply(e) \/ EndApply(e) \/ Retain(e)
  BY <1>13 DEF AutoApply, EndApply, Retain
<1> QED
  BY <1>1, <1>5, <1>6, <1>7, <1>8, <1>9, <1>10, <1>11, <1>12, <1>13

-----------------------------------------------------------------------------
(* What the steps of the dashboard leave alone.                            *)

SyncStep ==
  \/ BeginSync \/ PersistInvariants \/ CutOver \/ StoreUnchecked \/ FinishSync \/ SyncDies

LEMMA NextSteps ==
  Next <=> \/ SyncStep \/ Propose \/ Decide \/ Alert \/ StretchRuns
           \/ Ask \/ Answer \/ TurnPage
BY DEF Next, SyncStep

\* Steps that write nothing an evaluation or a sync run has left behind.
LEMMA OtherSteps ==
  ASSUME Propose \/ Decide \/ Alert \/ StretchRuns \/ Ask \/ Answer \/ TurnPage
  PROVE  UNCHANGED <<conflictVars, syncVars>>
<1>1. CASE StretchRuns
  BY <1>1, StretchFrame DEF StretchRuns
<1> QED
  BY <1>1 DEF Propose, Decide, Alert, Ask, Answer, TurnPage, stretchVars

LEMMA TypesHold == IInv /\ [Next]_vars => StretchTypes'
<1> SUFFICES ASSUME IInv, [Next]_vars PROVE StretchTypes'
  OBVIOUS
<1> USE DEF IInv
<1>1. CASE BeginSync \/ CutOver \/ StoreUnchecked \/ FinishSync \/ SyncDies \/ Ask \/ Answer
           \/ TurnPage \/ UNCHANGED vars
  <2>1. UNCHANGED stretchVars
    BY <1>1 DEF BeginSync, CutOver, StoreUnchecked, FinishSync, SyncDies, Ask, Answer, TurnPage, vars
  <2> QED BY <2>1 DEF stretchVars, conflictVars, groupVars, StretchTypes
<1>2. CASE PersistInvariants
  <2>1. PICK detected \in SUBSET Conflict, held \in SUBSET Conflict :
          LET closed == Ids({"active"}) \ detected
          IN  /\ status' = [c \in Conflict |->
                   CASE c \in closed -> "resolved"
                     [] c \in held -> "oscillation_hold"
                     [] c \in detected \ held /\ status[c] # "oscillation_hold" -> "active"
                     [] OTHER -> status[c]]
              /\ lastSeen' = [c \in Conflict |-> IF c \in detected \cup closed THEN clock ELSE lastSeen[c]]
    BY <1>2 DEF PersistInvariants
  <2>2. status' \in [Conflict -> Statuses]
    BY <2>1 DEF StretchTypes, Statuses
  <2>3. lastSeen' \in [Conflict -> 0..MaxClock]
    BY <2>1, StretchAssumption DEF StretchTypes
  <2>4. clock' \in 1..MaxClock
    BY <1>2, StretchAssumption DEF PersistInvariants, StretchTypes, SyncInv
  <2> QED BY <1>2, <2>2, <2>3, <2>4 DEF PersistInvariants, StretchTypes, groupVars
<1>3. CASE Propose \/ Decide \/ Alert
  BY <1>3 DEF Propose, Decide, Alert, StretchTypes, conflictVars, groupVars, Ids
<1>4. CASE StretchRuns
  BY <1>4, StretchStepTypes DEF StretchRuns
<1> QED BY <1>1, <1>2, <1>3, <1>4, NextSteps DEF SyncStep

LEMMA GroupsHold == IInv /\ [Next]_vars => GroupInv'
<1> SUFFICES ASSUME IInv, [Next]_vars PROVE GroupInv'
  OBVIOUS
<1>1. CASE StretchRuns
  BY <1>1, StretchStepGroups DEF StretchRuns, IInv
<1>2. CASE ~StretchRuns
  <2>1. UNCHANGED <<groupVars, pc, seen>>
    BY <1>2, NextSteps DEF SyncStep, BeginSync, PersistInvariants, CutOver, StoreUnchecked, FinishSync,
       SyncDies, Propose, Decide, Alert, Ask, Answer, TurnPage, stretchVars, vars
  <2> QED BY <2>1, IdleStep DEF IInv
<1> QED BY <1>1, <1>2

LEMMA SyncHolds == IInv /\ [Next]_vars => SyncInv'
<1> SUFFICES ASSUME SyncInv, [Next]_vars PROVE SyncInv'
  BY DEF IInv
<1> USE DEF SyncInv
<1>1. CASE BeginSync
  BY <1>1 DEF BeginSync, stretchVars, conflictVars
<1>2. CASE PersistInvariants
  BY <1>2 DEF PersistInvariants
<1>3. CASE CutOver
  BY <1>3 DEF CutOver
<1>4. CASE StoreUnchecked
  BY <1>4 DEF StoreUnchecked
<1>5. CASE FinishSync
  BY <1>5 DEF FinishSync
<1>6. CASE SyncDies
  BY <1>6 DEF SyncDies
<1>7. CASE UNCHANGED <<conflictVars, syncVars>>
  BY <1>7 DEF conflictVars, syncVars
<1>8. UNCHANGED vars => UNCHANGED <<conflictVars, syncVars>>
  BY DEF vars, stretchVars
<1> QED
  BY <1>1, <1>2, <1>3, <1>4, <1>5, <1>6, <1>7, <1>8, OtherSteps, NextSteps DEF SyncStep

LEMMA EvaluationHolds == IInv /\ [Next]_vars => EvaluationInv'
<1> SUFFICES ASSUME StretchTypes, EvaluationInv, [Next]_vars PROVE EvaluationInv'
  BY DEF IInv
<1>1. CASE PersistInvariants
  <2>1. PICK detected \in SUBSET Conflict, held \in SUBSET Conflict :
          LET closed == Ids({"active"}) \ detected
          IN  /\ held \subseteq detected \cap Ids({"resolved"})
              /\ status' = [c \in Conflict |->
                   CASE c \in closed -> "resolved"
                     [] c \in held -> "oscillation_hold"
                     [] c \in detected \ held /\ status[c] # "oscillation_hold" -> "active"
                     [] OTHER -> status[c]]
              /\ evaluated' = [status |-> "complete", failing |-> detected]
    BY <1>1 DEF PersistInvariants
  <2>2. \A c \in Conflict : status'[c] = "active" => c \in detected
    BY <2>1 DEF Ids
  <2>3. \A c \in detected : status'[c] \in {"active", "oscillation_hold"}
    BY <2>1 DEF Ids
  <2> QED BY <2>1, <2>2, <2>3 DEF EvaluationInv, Ids
<1>2. CASE StoreUnchecked
  BY <1>2 DEF StoreUnchecked, EvaluationInv
<1>3. CASE ~(PersistInvariants \/ StoreUnchecked)
  <2>1. UNCHANGED <<status, evaluated>>
    BY <1>3, OtherSteps, NextSteps DEF SyncStep, BeginSync, CutOver, FinishSync, SyncDies, conflictVars,
       syncVars, stretchVars, vars
  <2> QED BY <2>1 DEF EvaluationInv, Ids
<1> QED BY <1>1, <1>2, <1>3

-----------------------------------------------------------------------------
(* The figures of the overview.                                            *)

\* A figure stays true as long as nothing that it counts is written.
LEMMA AnswerStays ==
  ASSUME UNCHANGED <<syncVars, status, lastSeen, from>>, NEW q \in Query,
         q = "proposals" => UNCHANGED pending
  PROVE  AnswerOf(q)' = AnswerOf(q)
<1>1. UNCHANGED <<run, evaluated, active, status, lastSeen, from>>
  BY DEF syncVars
<1>2. \A s : Ids(s)' = Ids(s)
  BY <1>1 DEF Ids
<1>3. InWindow(Ids({"active"}))' = InWindow(Ids({"active"}))
  BY <1>1, <1>2 DEF InWindow
<1>4. InWindow(evaluated.failing)' = InWindow(evaluated.failing)
  BY <1>1 DEF InWindow
<1>5. q = "proposals" => InWindow(pending)' = InWindow(pending)
  BY <1>1 DEF InWindow
<1>6. q = "sources" \/ q = "conflicts" \/ q = "proposals" \/ q = "invariant" \/ q = "run"
  BY DEF Query
<1> QED BY <1>1, <1>3, <1>4, <1>5, <1>6 DEF AnswerOf

LEMMA FiguresHold == IInv /\ [Next]_vars => FiguresInv'
<1> SUFFICES ASSUME StretchTypes, FiguresInv, [Next]_vars PROVE FiguresInv'
  BY DEF IInv
<1>1. "all" \notin Query
  BY DEF Query
<1>2. CASE SyncStep
  <2>1. Disturb("sync", {}) \/ \E touched : Disturb("sync", touched)
    BY <1>2 DEF SyncStep, BeginSync, PersistInvariants, CutOver, StoreUnchecked, FinishSync, SyncDies
  <2>2. /\ UNCHANGED <<asked, from, figures>>
        /\ asked # {"all"} => "sync" \in wrote'
    BY <2>1 DEF Disturb
  <2> QED BY <2>2 DEF FiguresInv
<1>3. CASE Propose \/ Decide \/ Alert \/ StretchRuns
  <2>1. \E who \in {"proposals", "alerts", "stretch"} : Disturb(who, {})
    BY <1>3 DEF Propose, Decide, Alert, StretchRuns
  <2>2. /\ UNCHANGED <<asked, from, figures>>
        /\ asked # {"all"} => wrote' # {} /\ wrote \subseteq wrote'
    BY <2>1 DEF Disturb
  <2>3. UNCHANGED <<syncVars, status, lastSeen, from>>
    BY <1>3, <2>2, OtherSteps DEF conflictVars
  <2>4. ASSUME NEW q \in Query, q # "proposals"
        PROVE  AnswerOf(q)' = AnswerOf(q)
    BY <2>3, <2>4, AnswerStays
  <2> QED BY <2>2, <2>4 DEF FiguresInv
<1>4. CASE Ask
  <2>1. asked' = Query /\ DOMAIN figures' = Query /\ from' \in Nat
    BY <1>4 DEF Ask, NoFigures, StretchTypes
  <2> QED BY <2>1 DEF FiguresInv
<1>5. CASE Answer
  <2>1. PICK q \in asked \ {"all"} :
          figures' = [figures EXCEPT ![q] = AnswerOf(q)] /\ asked' = asked \ {q}
    BY <1>5 DEF Answer
  <2>2. asked \subseteq Query /\ asked' \subseteq Query /\ q \in Query /\ asked # {"all"}
    BY <1>1, <2>1 DEF FiguresInv
  <2>3. UNCHANGED <<syncVars, status, lastSeen, pending, from, wrote>>
    BY <1>5 DEF Answer, stretchVars, conflictVars
  <2>4. ASSUME NEW r \in Query PROVE AnswerOf(r)' = AnswerOf(r)
    BY <2>3, AnswerStays
  <2>5. ASSUME NEW r \in Query \ asked', "sync" \notin wrote', r = "proposals" => wrote' = {}
        PROVE  figures'[r] = AnswerOf(r)
    BY <2>1, <2>2, <2>3, <2>5 DEF FiguresInv
  <2> QED BY <2>1, <2>2, <2>3, <2>4, <2>5 DEF FiguresInv
<1>6. CASE TurnPage \/ UNCHANGED vars
  <2>1. UNCHANGED <<syncVars, status, lastSeen, pending, from, wrote, asked, figures>>
    BY <1>6 DEF TurnPage, vars, stretchVars, conflictVars, overviewVars
  <2>2. ASSUME NEW r \in Query PROVE AnswerOf(r)' = AnswerOf(r)
    BY <2>1, AnswerStays
  <2> QED BY <2>1, <2>2 DEF FiguresInv
<1> QED BY <1>2, <1>3, <1>4, <1>5, <1>6, NextSteps

\* Two finite sets of conflicts, one in the other, are equal if their figures are.
LEMMA WindowsAreFinite ==
  ASSUME NEW S \in SUBSET Conflict, NEW T \in SUBSET S
  PROVE  /\ Cardinality(InWindow(T)) \in Nat /\ Cardinality(InWindow(S)) \in Nat
         /\ Cardinality(InWindow(T)) <= Cardinality(InWindow(S))
         /\ Cardinality(InWindow(T)) = Cardinality(InWindow(S)) => InWindow(T) = InWindow(S)
<1>1. InWindow(S) \subseteq Conflict /\ InWindow(T) \subseteq InWindow(S)
  BY DEF InWindow
<1>2. IsFiniteSet(InWindow(S))
  BY <1>1, FS_Subset, StretchAssumption
<1>3. IsFiniteSet(InWindow(T))
  BY <1>1, <1>2, FS_Subset
<1>4. /\ Cardinality(InWindow(T)) <= Cardinality(InWindow(S))
      /\ Cardinality(InWindow(T)) = Cardinality(InWindow(S)) => InWindow(T) = InWindow(S)
  BY <1>1, <1>2, FS_Subset
<1> QED BY <1>2, <1>3, <1>4, FS_CardinalityType

LEMMA AnswersByName ==
  /\ AnswerOf("sources") = active
  /\ AnswerOf("conflicts") = Cardinality(InWindow(Ids({"active"})))
  /\ AnswerOf("proposals") = Cardinality(InWindow(pending))
  /\ AnswerOf("invariant") = [status |-> evaluated.status,
                              fail |-> Cardinality(InWindow(evaluated.failing))]
  /\ AnswerOf("run") = run
  /\ {"sources", "conflicts", "proposals", "invariant", "run"} = Query
BY DEF AnswerOf, Query

LEMMA AlignedHolds == IInv => AlignedIsTrue
<1> SUFFICES ASSUME IInv, Shown, "sync" \notin wrote, Posture = "complete"
             PROVE  /\ run.status = "complete" /\ run.accepted = {active}
                    /\ InWindow(Ids({"active"})) = InWindow(evaluated.failing)
  BY DEF AlignedIsTrue
<1>1. asked # {"all"} /\ asked = {}
  BY DEF Shown
<1>2. \A q \in Query : q # "proposals" => figures[q] = AnswerOf(q)
  BY <1>1 DEF IInv, FiguresInv
<1>3. /\ figures.run = run
      /\ figures.conflicts = Cardinality(InWindow(Ids({"active"})))
      /\ figures.invariant = [status |-> evaluated.status,
                              fail |-> Cardinality(InWindow(evaluated.failing))]
  BY <1>2, AnswersByName
<1>4. Reconciled /\ figures.run.status = "complete" /\ figures.invariant.status = "complete"
  <2>1. Reconciled \in BOOLEAN
    BY DEF Reconciled
  <2> QED BY <2>1 DEF Posture
<1>5. run.status = "complete" /\ evaluated.status = "complete"
  BY <1>3, <1>4
<1>6. run.accepted = {active}
  BY <1>5 DEF IInv, SyncInv
<1>7. Cardinality(InWindow(Ids({"active"}))) = Cardinality(InWindow(evaluated.failing))
  BY <1>3, <1>4 DEF Reconciled
<1>8. Ids({"active"}) \subseteq evaluated.failing /\ evaluated.failing \subseteq Conflict
  BY <1>5 DEF IInv, EvaluationInv
<1> QED BY <1>5, <1>6, <1>7, <1>8, WindowsAreFinite

LEMMA AlarmHolds == IInv => AlarmIsExplained
<1> SUFFICES ASSUME IInv, Shown, wrote = {}, Posture = "failed",
                    run.status \notin {"partial", "running"},
                    evaluated.status # "partial",
                    \A c \in evaluated.failing : status[c] # "oscillation_hold",
                    \A c \in pending : status[c] = "active"
             PROVE  FALSE
  BY DEF AlarmIsExplained
<1>1. asked # {"all"} /\ asked = {}
  BY DEF Shown
<1>2. \A q \in Query : figures[q] = AnswerOf(q)
  BY <1>1 DEF IInv, FiguresInv
<1>3. /\ figures.run = run /\ figures.sources = active
      /\ figures.conflicts = Cardinality(InWindow(Ids({"active"})))
      /\ figures.proposals = Cardinality(InWindow(pending))
      /\ figures.invariant = [status |-> evaluated.status,
                              fail |-> Cardinality(InWindow(evaluated.failing))]
  BY <1>2, AnswersByName
<1>4. ~Reconciled
  <2>1. Reconciled \in BOOLEAN
    BY DEF Reconciled
  <2> QED BY <2>1 DEF Posture
<1>5. run.accepted \subseteq {active}
  BY DEF IInv, SyncInv
<1>6. evaluated.failing = Ids({"active"})
  <2>1. CASE evaluated.status = "none"
    BY <2>1 DEF IInv, EvaluationInv
  <2>2. CASE evaluated.status = "complete"
    BY <2>2 DEF IInv, EvaluationInv, Ids
  <2> QED BY <2>1, <2>2 DEF IInv, EvaluationInv
<1>7. pending \subseteq Ids({"active"}) /\ Ids({"active"}) \subseteq Conflict
  BY DEF Ids, IInv, StretchTypes
<1>8. figures.proposals <= figures.conflicts
  BY <1>3, <1>7, WindowsAreFinite
<1>9. figures.conflicts = figures.invariant.fail
  BY <1>3, <1>6
<1> QED BY <1>3, <1>4, <1>5, <1>8, <1>9 DEF Reconciled

-----------------------------------------------------------------------------
(* The pages of the list.                                                  *)

\* Rounding down to a millisecond keeps the order, and what lies between a time
\* and its millisecond has the same one.
LEMMA MilliFacts ==
  ASSUME NEW u \in Nat
  PROVE  /\ Milli(u) \in Nat /\ Milli(u) <= u
         /\ \A t \in Nat : Milli(u) <= t /\ t <= u => Milli(t) = Milli(u)
<1>1. Micros \in Nat /\ Micros > 0
  BY DashboardAssumption
<1>2. \A t \in Nat : t % Micros \in 0..(Micros - 1) /\ t = Micros * (t \div Micros) + (t % Micros)
                     /\ t \div Micros \in Nat
  BY <1>1
<1>3. \A t \in Nat : Milli(t) = Micros * (t \div Micros)
  BY <1>1, <1>2 DEF Milli
<1>4. Milli(u) \in Nat /\ Milli(u) <= u
  BY <1>1, <1>2 DEF Milli
<1>5. ASSUME NEW t \in Nat, Milli(u) <= t, t <= u PROVE Milli(t) = Milli(u)
  <2> DEFINE a == u \div Micros
             b == t \div Micros
  <2>1. a \in Nat /\ b \in Nat /\ u = Micros * a + (u % Micros) /\ t = Micros * b + (t % Micros)
        /\ u % Micros \in 0..(Micros - 1) /\ t % Micros \in 0..(Micros - 1)
    BY <1>2
  <2>2. Micros * a <= t
    BY <1>3, <1>5
  <2> HIDE DEF a, b
  <2>3. ~(b < a)
    <3>1. ASSUME b + 1 <= a PROVE Micros * b + Micros <= Micros * a
      BY <1>1, <2>1, <3>1
    <3> QED BY <1>1, <2>1, <2>2, <3>1
  <2>4. ~(a < b)
    <3>1. ASSUME a + 1 <= b PROVE Micros * a + Micros <= Micros * b
      BY <1>1, <2>1, <3>1
    <3> QED BY <1>1, <1>5, <2>1, <3>1
  <2>5. a = b
    BY <2>1, <2>3, <2>4
  <2> QED BY <1>3, <2>5 DEF a, b
<1> QED BY <1>4, <1>5

\* The order of the list is total.
LEMMA PositionsAreOrdered ==
  ASSUME StretchTypes, NEW c \in Conflict, NEW d \in Conflict
  PROVE  /\ ~Before(Position(c), Position(c))
         /\ c # d => Before(Position(c), Position(d)) \/ Before(Position(d), Position(c))
         /\ \A e \in Conflict : Before(Position(c), Position(d)) /\ Before(Position(d), Position(e))
              => Before(Position(c), Position(e))
<1>1. \A e \in Conflict : Position(e)[1] = lastSeen[e] /\ Position(e)[2] = e
                          /\ lastSeen[e] \in Nat /\ e \in Nat
  BY StretchAssumption DEF Position, StretchTypes
<1> QED BY <1>1 DEF Before

\* Who comes earlier in the list has the lesser rank.
LEMMA RanksFollowTheOrder ==
  ASSUME StretchTypes, NEW listed \in SUBSET Conflict, NEW c \in listed
  PROVE  /\ Rank(c, listed) \in Nat
         /\ Rank(c, listed) < Cardinality(listed) /\ Cardinality(listed) \in Nat
         /\ \A d \in listed : Before(Position(c), Position(d)) => Rank(d, listed) < Rank(c, listed)
<1> DEFINE Earlier(x) == {d \in listed : Before(Position(x), Position(d))}
<1>1. IsFiniteSet(listed)
  BY FS_Subset, StretchAssumption
<1>2. ASSUME NEW S, NEW T, IsFiniteSet(S), T \subseteq S, NEW x \in S, x \notin T
      PROVE  Cardinality(T) \in Nat /\ Cardinality(S) \in Nat /\ Cardinality(T) < Cardinality(S)
  <2>1. IsFiniteSet(S \ {x}) /\ Cardinality(S \ {x}) = Cardinality(S) - 1
    BY <1>2, FS_RemoveElement
  <2>2. T \subseteq S \ {x}
    BY <1>2
  <2>3. IsFiniteSet(T) /\ Cardinality(T) <= Cardinality(S \ {x})
    BY <2>1, <2>2, FS_Subset
  <2>4. Cardinality(T) \in Nat /\ Cardinality(S) \in Nat
    BY <1>2, <2>3, FS_CardinalityType
  <2> QED BY <2>1, <2>3, <2>4
<1>3. \A x : Rank(x, listed) = Cardinality(Earlier(x))
  BY DEF Rank
<1>4. Earlier(c) \subseteq listed /\ c \notin Earlier(c)
  BY PositionsAreOrdered
<1>5. Rank(c, listed) \in Nat /\ Rank(c, listed) < Cardinality(listed) /\ Cardinality(listed) \in Nat
  <2> HIDE DEF Earlier
  <2> QED BY <1>1, <1>2, <1>3, <1>4
<1>6. ASSUME NEW d \in listed, Before(Position(c), Position(d))
      PROVE  Rank(d, listed) < Rank(c, listed)
  <2>1. Earlier(d) \subseteq Earlier(c) /\ d \in Earlier(c) /\ d \notin Earlier(d)
    BY <1>6, PositionsAreOrdered
  <2>2. IsFiniteSet(Earlier(c))
    BY <1>1, <1>4, FS_Subset
  <2> HIDE DEF Earlier
  <2> QED BY <1>2, <1>3, <2>1, <2>2
<1> QED BY <1>5, <1>6

\* A list that is not empty has a page, and the page a last row.
LEMMA PagesHaveEnds ==
  ASSUME StretchTypes, NEW listed \in SUBSET Conflict, listed # {}
  PROVE  \E x \in Items(listed) : PageEnd(listed) = Position(x)
<1> DEFINE ranks == {Rank(d, listed) : d \in Items(listed)}
<1>1. Limit \in Nat /\ Limit > 0
  BY DashboardAssumption
<1>2. \A d \in listed : Rank(d, listed) \in Nat
  BY RanksFollowTheOrder
<1>3. Items(listed) # {}
  <2> DEFINE Least(n) == \E d \in listed : Rank(d, listed) = n
             reached == {n \in Nat : Least(n)}
             Less == {p \in Nat \X Nat : p[1] < p[2]}
  <2>1. IsWellFoundedOn(Less, Nat)
    BY NatLessThanWellFounded DEF OpToRel
  <2>2. reached # {} /\ reached \subseteq Nat
    BY <1>2
  <2>3. PICK n \in reached : \A k \in reached : <<k, n>> \notin Less
    <3> HIDE DEF reached, Less
    <3> QED BY <2>1, <2>2, WFMin
  <2>4. PICK d \in listed : Rank(d, listed) = n
    BY <2>3
  <2>5. \A x \in listed : ~Before(Position(d), Position(x))
    <3>1. SUFFICES ASSUME NEW x \in listed, Before(Position(d), Position(x)) PROVE FALSE
      OBVIOUS
    <3>2. Rank(x, listed) < n /\ Rank(x, listed) \in reached
      BY <1>2, <2>4, <3>1, RanksFollowTheOrder
    <3> QED BY <2>3, <3>2
  <2>6. Rank(d, listed) = 0
    <3>1. {x \in listed : Before(Position(d), Position(x))} = {}
      BY <2>5
    <3> QED BY <3>1, FS_EmptySet DEF Rank
  <2> QED BY <1>1, <2>4, <2>6 DEF Items
<1>4. PICK x \in Items(listed) : \A d \in Items(listed) : Rank(d, listed) <= Rank(x, listed)
  <2>1. ranks \in SUBSET Nat /\ ranks # {}
    BY <1>2, <1>3 DEF Items
  <2>2. IsFiniteSet(ranks)
    <3>1. \A r \in ranks : r <= Limit
      BY <1>1, <1>2 DEF Items
    <3> HIDE DEF ranks
    <3> QED BY <1>1, <2>1, <3>1, FS_BoundedSetOfNaturals
  <2>3. Max(ranks) \in ranks /\ \A k \in ranks : k <= Max(ranks)
    <3> HIDE DEF ranks
    <3> QED BY <2>1, <2>2, MaxIsGreatest
  <2> QED BY <2>3
<1> QED BY <1>4 DEF PageEnd

\* What is not on a page comes after the row it ends with.
LEMMA PageEndIsLast ==
  ASSUME StretchTypes, NEW listed \in SUBSET Conflict, NEW c \in listed, c \notin Items(listed)
  PROVE  /\ Cardinality(listed) > Limit
         /\ \E x \in Items(listed) :
              PageEnd(listed) = Position(x) /\ Before(Position(c), Position(x))
<1>1. Limit \in Nat /\ Limit > 0
  BY DashboardAssumption
<1>2. \A d \in listed : Rank(d, listed) \in Nat
  BY RanksFollowTheOrder
<1>3. Rank(c, listed) >= Limit
  BY <1>1, <1>2 DEF Items
<1>4. Cardinality(listed) > Limit
  BY <1>1, <1>3, RanksFollowTheOrder
<1>5. PICK x \in Items(listed) : PageEnd(listed) = Position(x)
  BY PagesHaveEnds
<1>6. x \in listed /\ x # c /\ Rank(x, listed) < Limit
  BY DEF Items
<1>7. ~Before(Position(x), Position(c))
  BY <1>1, <1>2, <1>3, <1>6, RanksFollowTheOrder
<1> QED BY <1>4, <1>5, <1>6, <1>7, PositionsAreOrdered

\* A step that turns no page leaves alone what a reader can still reach.
LEMMA WalkStays ==
  ASSUME WalkInv, NEW touched \in SUBSET Conflict,
         walk' = IF walk.started THEN [walk EXCEPT !.touched = @ \cup touched] ELSE walk,
         \A c \in Conflict \ touched : status'[c] = status[c] /\ lastSeen'[c] = lastSeen[c]
  PROVE  WalkInv'
<1>1. CASE ~walk.started
  BY <1>1 DEF WalkInv, NoWalk
<1>2. CASE walk.started
  <2>1. /\ walk'.open = walk.open /\ walk'.started = walk.started /\ walk'.cursor = walk.cursor
        /\ walk'.listed = walk.listed /\ walk'.ends = walk.ends /\ walk'.there = walk.there
        /\ walk'.touched = walk.touched \cup touched
        /\ walk' = [open |-> walk.open, started |-> walk.started, cursor |-> walk.cursor,
                    listed |-> walk.listed, ends |-> walk.ends, there |-> walk.there,
                    touched |-> walk.touched \cup touched]
    BY <1>2 DEF WalkInv
  <2>2. /\ walk.listed \subseteq Conflict /\ walk.there \subseteq Conflict
        /\ walk.open => walk.cursor \in Nat \X Conflict
        /\ \A c \in walk.there \ walk.touched : status[c] = "active"
    BY <1>2 DEF WalkInv
  <2>3. \A c \in walk'.there \ walk'.touched : status'[c] = "active" /\ lastSeen'[c] = lastSeen[c]
    BY <2>1, <2>2
  <2>4. ASSUME NEW c \in Unseen'
        PROVE  (walk'.open /\ Before(Position(c)', walk'.cursor)) \/ SharesAMilli(c)'
    <3>1. c \in Unseen /\ lastSeen'[c] = lastSeen[c]
      BY <2>1, <2>3 DEF Unseen
    <3>2. Position(c)' = Position(c) /\ (SharesAMilli(c) => SharesAMilli(c)')
      BY <2>1, <3>1 DEF Position, SharesAMilli
    <3> QED BY <1>2, <2>1, <3>1, <3>2 DEF WalkInv
  <2>5. walk' = [open |-> walk'.open, started |-> walk'.started, cursor |-> walk'.cursor,
                 listed |-> walk'.listed, ends |-> walk'.ends, there |-> walk'.there,
                 touched |-> walk'.touched]
    BY <2>1
  <2> QED BY <1>2, <2>1, <2>2, <2>3, <2>4, <2>5 DEF WalkInv
<1> QED BY <1>1, <1>2

\* What a page does not show comes after its last row, unless the cursor rounds it away.
LEMMA TurnPageStep == StretchTypes /\ WalkInv /\ TurnPage => WalkInv'
<1> SUFFICES ASSUME StretchTypes, WalkInv, TurnPage PROVE WalkInv'
  OBVIOUS
<1> DEFINE listed == PageRows(walk.cursor)
           more == Cardinality(listed) > Limit
           there == IF walk.started THEN walk.there ELSE Ids({"active"})
           end == PageEnd(listed)
<1>1. UNCHANGED <<status, lastSeen>> /\ (~walk.started \/ walk.open)
  BY DEF TurnPage, stretchVars, conflictVars
<1> DEFINE fresh == IF walk.started THEN walk
                    ELSE [NoWalk EXCEPT !.started = TRUE, !.there = Ids({"active"})]
           cursor == IF more THEN CursorAt(end) ELSE <<>>
<1>2. PICK o, k : fresh = [open |-> o, started |-> TRUE, cursor |-> k, listed |-> walk.listed,
                        ends |-> walk.ends, there |-> there, touched |-> walk.touched]
  BY DEF WalkInv, NoWalk
<1>3. walk' = [fresh EXCEPT
        !.open = more,
        !.listed = fresh.listed \cup Items(listed),
        !.cursor = cursor,
        !.ends = IF more THEN fresh.ends \cup {end} ELSE fresh.ends]
  BY DEF TurnPage
<1> DEFINE ends == IF more THEN walk.ends \cup {end} ELSE walk.ends
           shown == walk.listed \cup Items(listed)
<1> HIDE DEF fresh, listed, more, there, end, cursor
<1>4. fresh.listed = walk.listed /\ fresh.ends = walk.ends
  BY <1>2
<1>5. walk' = [fresh EXCEPT !.open = more, !.listed = shown, !.cursor = cursor, !.ends = ends]
  BY <1>3, <1>4
<1> HIDE DEF shown, ends
<1>6. walk' = [open |-> more, started |-> TRUE, cursor |-> cursor,
               listed |-> shown, ends |-> ends, there |-> there, touched |-> walk.touched]
  BY <1>2, <1>5
<1>7. listed \in SUBSET Conflict /\ listed \subseteq Ids({"active"})
  BY DEF PageRows, Ids, listed
<1>8. Items(listed) \subseteq Conflict /\ walk'.listed \subseteq Conflict
      /\ there \subseteq Conflict
  BY <1>6, <1>7 DEF Items, WalkInv, Ids, there, shown
<1>9. /\ walk'.open = more /\ walk'.started /\ walk'.there = there /\ walk'.touched = walk.touched
      /\ walk'.listed = walk.listed \cup Items(listed)
      /\ walk'.cursor = IF more THEN CursorAt(end) ELSE <<>>
      /\ walk'.ends = IF more THEN walk.ends \cup {end} ELSE walk.ends
      /\ walk' = [open |-> walk'.open, started |-> walk'.started, cursor |-> walk'.cursor,
                  listed |-> walk'.listed, ends |-> walk'.ends, there |-> walk'.there,
                  touched |-> walk'.touched]
  BY <1>6 DEF cursor, ends, shown
<1>10. \A c \in there \ walk.touched : status'[c] = "active"
  BY <1>1 DEF there, WalkInv, Ids
<1>11. \A c \in listed \ Items(listed) :
        more /\ \E x \in Items(listed) : end = Position(x) /\ Before(Position(c), end)
  BY <1>7, PageEndIsLast DEF more, end
<1>12. ASSUME more PROVE CursorAt(end) \in Nat \X Conflict
  <2>1. listed # {}
    <3>1. Limit \in Nat
      BY DashboardAssumption
    <3> QED BY <1>12, <3>1, FS_EmptySet DEF more
  <2>2. PICK x \in Items(listed) : end = Position(x)
    BY <1>7, <2>1, PagesHaveEnds DEF end
  <2>3. x \in Conflict /\ lastSeen[x] \in Nat
    BY <1>8 DEF StretchTypes
  <2> QED BY <2>2, <2>3, MilliFacts DEF CursorAt, Position
<1>13. ASSUME NEW c \in Unseen'
      PROVE  (walk'.open /\ Before(Position(c)', walk'.cursor)) \/ SharesAMilli(c)'
  <2>1. c \in there /\ c \notin walk.listed /\ c \notin Items(listed) /\ c \notin walk.touched
        /\ c \in Conflict /\ status[c] = "active"
    BY <1>1, <1>8, <1>9, <1>10 DEF Unseen
  <2>2. SharesAMilli(c) => SharesAMilli(c)'
    BY <1>1, <1>9 DEF SharesAMilli
  <2>3. CASE c \in listed
    <3>1. PICK x \in Items(listed) : end = Position(x) /\ Before(Position(c), end)
      BY <1>11, <2>1, <2>3
    <3>2. more /\ x \in Conflict /\ x \in Nat /\ c \in Nat
      BY <1>8, <1>11, <2>1, <2>3, StretchAssumption
    <3> DEFINE t == lastSeen[c]
               u == lastSeen[x]
    <3>3. t \in Nat /\ u \in Nat
      BY <2>1, <3>2 DEF StretchTypes
    <3>4. /\ Position(c)' = <<t, c>> /\ end = <<u, x>> /\ t = lastSeen'[c]
          /\ walk'.cursor = <<Milli(u), x>> /\ end \in walk'.ends /\ walk'.open
      BY <1>1, <1>9, <3>1, <3>2 DEF Position, CursorAt
    <3>5. t < u \/ (t = u /\ c < x)
      BY <3>1, <3>4 DEF Before, Position
    <3> HIDE DEF t, u
    <3>6. CASE Milli(u) = u \/ t < Milli(u)
      BY <3>2, <3>3, <3>4, <3>5, <3>6 DEF Before
    <3>7. CASE Milli(u) # u /\ ~(t < Milli(u))
      <4>1. Milli(t) = Milli(u)
        BY <3>3, <3>5, <3>7, MilliFacts
      <4>2. end[1] = u
        BY <3>4
      <4> QED BY <3>4, <3>7, <4>1, <4>2 DEF SharesAMilli
    <3> QED BY <3>6, <3>7
  <2>4. CASE c \notin listed
    <3>1. walk.cursor # <<>> /\ ~Before(Position(c), walk.cursor)
      BY <2>1, <2>4 DEF listed, PageRows, Ids
    <3>2. walk.started
      BY <3>1 DEF WalkInv, NoWalk
    <3>3. c \in Unseen
      BY <2>1, <3>2 DEF Unseen, there
    <3> QED BY <2>2, <3>1, <3>2, <3>3 DEF WalkInv
  <2> QED BY <2>3, <2>4
<1> QED BY <1>8, <1>9, <1>10, <1>12, <1>13 DEF WalkInv

LEMMA WalkHolds == IInv /\ [Next]_vars => WalkInv'
<1> SUFFICES ASSUME StretchTypes, WalkInv, [Next]_vars PROVE WalkInv'
  BY DEF IInv
<1>1. CASE TurnPage
  BY <1>1, TurnPageStep
<1>2. CASE PersistInvariants
  <2>1. PICK detected \in SUBSET Conflict, held \in SUBSET Conflict :
          LET closed == Ids({"active"}) \ detected
          IN  /\ held \subseteq detected
              /\ status' = [c \in Conflict |->
                   CASE c \in closed -> "resolved"
                     [] c \in held -> "oscillation_hold"
                     [] c \in detected \ held /\ status[c] # "oscillation_hold" -> "active"
                     [] OTHER -> status[c]]
              /\ lastSeen' = [c \in Conflict |-> IF c \in detected \cup closed THEN clock ELSE lastSeen[c]]
              /\ Disturb("sync", detected \cup closed)
    BY <1>2 DEF PersistInvariants
  <2> DEFINE touched == detected \cup (Ids({"active"}) \ detected)
  <2>2. touched \in SUBSET Conflict
    BY DEF Ids
  <2>3. walk' = IF walk.started THEN [walk EXCEPT !.touched = @ \cup touched] ELSE walk
    BY <2>1 DEF Disturb
  <2>4. \A c \in Conflict \ touched : status'[c] = status[c] /\ lastSeen'[c] = lastSeen[c]
    BY <2>1
  <2> HIDE DEF touched
  <2> QED BY <2>2, <2>3, <2>4, WalkStays
<1>3. CASE Ask \/ Answer \/ UNCHANGED vars
  <2>1. UNCHANGED <<status, lastSeen, walk>>
    BY <1>3 DEF Ask, Answer, vars, stretchVars, conflictVars
  <2>2. PICK none \in SUBSET Conflict : none = {}
    OBVIOUS
  <2>3. [walk EXCEPT !.touched = @ \cup none] = walk
    BY <2>2 DEF WalkInv
  <2>4. walk' = IF walk.started THEN [walk EXCEPT !.touched = @ \cup none] ELSE walk
    BY <2>1, <2>3
  <2> QED BY <2>1, <2>4, WalkStays
<1>4. CASE BeginSync \/ CutOver \/ StoreUnchecked \/ FinishSync \/ SyncDies
           \/ Propose \/ Decide \/ Alert \/ StretchRuns
  <2>1. UNCHANGED <<status, lastSeen>>
    BY <1>4, OtherSteps DEF BeginSync, CutOver, StoreUnchecked, FinishSync, SyncDies, stretchVars,
       conflictVars
  <2>2. \E who \in {"sync", "proposals", "alerts", "stretch"} : Disturb(who, {})
    BY <1>4 DEF BeginSync, CutOver, StoreUnchecked, FinishSync, SyncDies, Propose, Decide, Alert,
       StretchRuns
  <2>3. PICK none \in SUBSET Conflict : none = {}
    OBVIOUS
  <2>4. walk' = IF walk.started THEN [walk EXCEPT !.touched = @ \cup none] ELSE walk
    BY <2>2, <2>3 DEF Disturb
  <2> QED BY <2>1, <2>4, WalkStays
<1> QED BY <1>1, <1>2, <1>3, <1>4, NextSteps DEF SyncStep

-----------------------------------------------------------------------------
(* The theorems.                                                           *)

LEMMA InitHolds == Init => IInv
<1> SUFFICES ASSUME Init PROVE IInv
  OBVIOUS
<1> USE DEF Init, InitStretch
<1>1. /\ rows = NoRows /\ \A e \in Job : gone[e] = NoRows
      /\ pc = [e \in Job |-> "start"]
  OBVIOUS
<1>2. /\ DOMAIN rows = Tables /\ \A t \in Tables : rows[t] = {}
      /\ rows.members = {} /\ rows.groups = {}
      /\ \A e \in Job : DOMAIN gone[e] = Tables /\ gone[e].groups = {} /\ \A t \in Tables : gone[e][t] = {}
  <2>1. DOMAIN NoRows = Tables /\ (\A t \in Tables : NoRows[t] = {})
        /\ "members" \in Tables /\ "groups" \in Tables
    BY TableNames DEF Tables
  <2> QED BY <1>1, <2>1
<1>3. Open = {}
  BY DEF Open
<1>4. StretchTypes
  <2>1. 1 \in 1..MaxClock /\ 0 \in 0..MaxClock
    BY StretchAssumption
  <2> QED BY <1>2, <2>1 DEF StretchTypes, Statuses, Labels
<1>5. GroupInv
  <2>1. \A e \in Job : pc[e] # "commit"
    OBVIOUS
  <2> QED BY <1>2, <1>3, <2>1 DEF GroupInv, RowsAreCommitted, GoneAreLocked, MembersHaveGroups,
             GoneGroupsAreEmpty, BesideIsMutual, OthersAreBeside, GroupsAreNew, OneGroupUnlessBeside
<1>6. SyncInv /\ EvaluationInv
  BY DEF SyncInv, EvaluationInv, Ids
<1>7. FiguresInv
  BY DEF FiguresInv, NoFigures
<1>8. WalkInv
  BY DEF WalkInv, NoWalk
<1> QED BY <1>4, <1>5, <1>6, <1>7, <1>8 DEF IInv

LEMMA StepHolds == IInv /\ [Next]_vars => IInv'
BY TypesHold, GroupsHold, SyncHolds, EvaluationHolds, FiguresHold, WalkHolds DEF IInv

THEOREM Inductive == Spec => []IInv
BY InitHolds, StepHolds, PTL DEF Spec

\* The rows of the tables fit together, in every state, and a conflict is in two groups of the
\* incident grouping only if two rebuilds, whose DELETE statements read different rows, ran
\* beside each other.
THEOREM GroupsAreSoundHolds == Spec => []GroupsAreSound
<1>1. IInv => GroupsAreSound
  <2> SUFFICES ASSUME IInv PROVE GroupsAreSound
    OBVIOUS
  <2>1. asked \subseteq Query \cup {"all"}
    BY DEF IInv, FiguresInv
  <2>2. TypeOK
    BY <2>1 DEF IInv, StretchTypes, GroupInv, MembersHaveGroups, EvaluationInv, WalkInv, TypeOK
  <2> QED BY <2>2 DEF IInv, GroupInv, GroupsAreSound
<1> QED BY <1>1, Inductive, PTL

\* The overview says that the evidence is aligned only if it is, and raises an alarm only for
\* one of the five causes, however its queries, sync runs, reviewers and stretch jobs interleave.
THEOREM PostureIsTrueHolds == Spec => []PostureIsTrue
<1>1. IInv => PostureIsTrue
  BY AlignedHolds, AlarmHolds DEF PostureIsTrue
<1> QED BY <1>1, Inductive, PTL

\* A reader who has turned all pages missed an undisturbed conflict only where a cursor rounded
\* its millisecond away.
THEOREM MissedShareAMilliHolds == Spec => []MissedShareAMilli
<1>1. IInv => MissedShareAMilli
  BY DEF IInv, WalkInv, MissedShareAMilli, SharesAMilli
<1> QED BY <1>1, Inductive, PTL

-----------------------------------------------------------------------------
(* Hosted demo: the inductive invariant.                                   *)
Of(s) == IF s \in Submit \cup {"detail"} THEN ConflictId ELSE {NoConflict}

Requests(s) ==
  [at : {"none"}]
  \cup [at : {"edge", "restarted"}, of : Of(s)]
  \cup [at : {"api"}, of : Of(s), life : Nat]
  \cup [at : {"served"}, of : Of(s), life : Nat, pending : BOOLEAN, answer : {"evidence", "stale"}]
  \cup [at : {"answer"}, of : Of(s), answer : Answers \ {"evidence"}]
  \cup [at : {"answer"}, of : Of(s), life : Nat, pending : BOOLEAN, answer : {"evidence", "stale"}]

Boxes == [at : {"down", "booting", "api"}, life : Nat, jobs : 0..Jobs,
          job : {"none", "queued"}, sentinel : BOOLEAN]

Pages == [phase : {"checking", "restoring", "open"}, overview : States, list : States,
          detail : States, shown : ConflictId \cup {NoConflict}, selected : ConflictId \cup {NoConflict},
          pending : BOOLEAN, form : Submit \cup {"free"}, retry : BOOLEAN]

DemoTypes ==
  /\ box \in Boxes
  /\ faults \in 0..MaxFaults
  /\ decided \subseteq ConflictId
  /\ req = [s \in Slot |-> req[s]]
  /\ \A s \in Slot : req[s] \in Requests(s)
  /\ page \in Pages
  /\ submits \subseteq Submit
  /\ recorded \in [Submit -> SUBSET (Nat \X ConflictId)]

\* Every life but the first needs a fault, and a sentinel that can be seen belongs to a life
\* whose jobs have completed.
BoxInv ==
  /\ box.life <= faults + (IF box.at = "down" THEN 0 ELSE 1)
  /\ box.job = "queued" => box.jobs < Jobs
  /\ box.jobs = Jobs \/ box.sentinel => box.life \in complete

Evident(s) == req[s].at \in {"served", "answer"} /\ req[s].answer = "evidence"

EvidenceInv == \A s \in Slot : Evident(s) => req[s].life \in complete

\* A submit that can still reach the handler has not been recorded.
SubmitInv ==
  \A s \in Submit :
    /\ s \notin submits => req[s].at = "none" /\ recorded[s] = {}
    /\ req[s].at \in {"edge", "restarted", "api"} => recorded[s] = {}
    /\ recorded[s] = {} \/ \E x \in Nat \X ConflictId : recorded[s] = {x}

\* What the detail asks for is selected, and what it displays can be decided on.
DetailInv ==
  /\ req["detail"].at # "none" => req["detail"].of = page.selected
  /\ page.detail = "data" => page.shown \in ConflictId
  /\ page.detail = "loading" => page.selected \in ConflictId

RetryInv == page.retry => page.phase = "restoring"

PageInv == DetailInv /\ RetryInv /\ DetailIsSelected /\ SpinnersHaveRequests /\ GateFollowsOverview

DemoInv == DemoTypes /\ BoxInv /\ EvidenceInv /\ SubmitInv /\ PageInv

-----------------------------------------------------------------------------
(* Hosted demo: slots and requests.                                        *)
LEMMA SlotsAreNamed ==
  /\ "overview" \in Slot /\ "list" \in Slot /\ "detail" \in Slot
  /\ Part \subseteq Slot /\ Submit \subseteq Slot
  /\ \A s \in Submit : s # "overview" /\ s # "list" /\ s # "detail"
BY DemoAssumption DEF Slot, Part

LEMMA RequestsAreTyped ==
  ASSUME NEW s \in Slot, NEW r \in Requests(s)
  PROVE  /\ r.at \in {"none", "edge", "restarted", "api", "served", "answer"}
         /\ r.at # "none" => r.of \in Of(s)
         /\ r.at = "answer" => r.answer \in Answers
         /\ r.at \in {"api", "served"} => r.life \in Nat
         /\ r.at = "served" => r.answer \in {"evidence", "stale"}
         /\ r.at = "answer" /\ r.answer = "evidence" => r.life \in Nat /\ r.pending \in BOOLEAN
BY DEF Requests, Answers

LEMMA NewRequests ==
  ASSUME NEW s \in Slot
  PROVE  /\ None \in Requests(s) /\ None.at = "none"
         /\ \A c \in Of(s) : Send(c) \in Requests(s) /\ Send(c).at = "edge" /\ Send(c).of = c
BY DEF None, Send, Requests

\* One request changes and the others stay.
LEMMA OneRequest ==
  ASSUME DemoTypes, NEW s \in Slot, NEW r \in Requests(s), req' = [req EXCEPT ![s] = r]
  PROVE  /\ req' = [t \in Slot |-> req'[t]]
         /\ \A t \in Slot : req'[t] \in Requests(t)
         /\ req'[s] = r
         /\ \A t \in Slot : t # s => req'[t] = req[t]
BY DEF DemoTypes

\* The effects of the page send conflicts to the slots that ask for one.
LEMMA EffectsSend ==
  ASSUME DemoTypes, NEW parts \in SUBSET Part, NEW phase,
         page'.selected \in ConflictId \cup {NoConflict}
  PROVE  /\ Effects(parts, phase) = [s \in Slot |-> Effects(parts, phase)[s]]
         /\ \A s \in Slot : Effects(parts, phase)[s] \in Requests(s)
         /\ \A s \in Slot : s \notin parts => Effects(parts, phase)[s] = req[s]
         /\ "overview" \in parts => Effects(parts, phase)["overview"].at = "edge"
         /\ "list" \in parts /\ phase = "open" => Effects(parts, phase)["list"].at = "edge"
         /\ "detail" \in parts /\ page'.selected # NoConflict =>
              Effects(parts, phase)["detail"].at = "edge" /\ Effects(parts, phase)["detail"].of = page'.selected
         /\ "detail" \in parts /\ page'.selected = NoConflict => Effects(parts, phase)["detail"].at = "none"
         /\ \A s \in parts : Effects(parts, phase)[s].at \in {"none", "edge"}
<1>1. Effects(parts, phase) = [s \in Slot |-> Effects(parts, phase)[s]]
  BY DEF Effects
<1>2. parts \subseteq {"overview", "list", "detail"} /\ parts \subseteq Slot
  BY DEF Part, Slot
<1>3. \A s \in Slot : s \notin parts => Effects(parts, phase)[s] = req[s]
  BY DEF Effects
<1>4. "overview" \in parts => Effects(parts, phase)["overview"] = Send(NoConflict)
  BY <1>2 DEF Effects, Sent
<1>5. "list" \in parts =>
        Effects(parts, phase)["list"] = IF phase = "open" THEN Send(NoConflict) ELSE None
  BY <1>2 DEF Effects, Sent
<1>6. "detail" \in parts =>
        Effects(parts, phase)["detail"] = IF page'.selected # NoConflict THEN Send(page'.selected) ELSE None
  BY <1>2 DEF Effects, Sent
<1>7. NoConflict \in Of("overview") /\ NoConflict \in Of("list") /\ Of("detail") = ConflictId
  BY SlotsAreNamed DEF Of
<1>8. ASSUME NEW s \in parts
      PROVE  Effects(parts, phase)[s] \in Requests(s) /\ Effects(parts, phase)[s].at \in {"none", "edge"}
  <2>1. /\ None \in Requests(s) /\ None.at = "none"
        /\ \A c \in Of(s) : Send(c) \in Requests(s) /\ Send(c).at = "edge"
    BY <1>2, NewRequests
  <2>2. CASE s = "overview"
    BY <1>4, <1>7, <2>1, <2>2
  <2>3. CASE s = "list"
    BY <1>5, <1>7, <2>1, <2>3
  <2>4. CASE s = "detail"
    <3>1. page'.selected # NoConflict => page'.selected \in Of(s)
      BY <1>7, <2>4
    <3>2. page'.selected # NoConflict => Effects(parts, phase)[s] = Send(page'.selected)
      BY <1>6, <2>4
    <3>3. page'.selected = NoConflict => Effects(parts, phase)[s] = None
      BY <1>6, <2>4
    <3> QED
      BY <2>1, <3>1, <3>2, <3>3
  <2> QED
    BY <1>2, <2>2, <2>3, <2>4
<1>9. \A s \in Slot : Effects(parts, phase)[s] \in Requests(s)
  BY <1>3, <1>8 DEF DemoTypes
<1> QED
  BY <1>1, <1>2, <1>3, <1>4, <1>5, <1>6, <1>7, <1>8, <1>9, NewRequests, SlotsAreNamed

-----------------------------------------------------------------------------
(* Hosted demo: what each part of the invariant depends on.                *)
\* The steps of the container change neither requests nor the page.
Rest == <<req, pageVars, recorded, submits, clicks>>

LEMMA BoxSteps ==
  ASSUME DemoInv, box' \in Boxes, faults' \in 0..MaxFaults, decided' \subseteq ConflictId,
         BoxInv', complete \subseteq complete', UNCHANGED Rest
  PROVE  DemoInv'
<1>1. /\ req' = req /\ page' = page /\ aborted' = aborted /\ again' = again
      /\ recorded' = recorded /\ submits' = submits
  BY DEF Rest, pageVars
<1>2. DemoTypes'
  BY <1>1 DEF DemoInv, DemoTypes, Requests, Of
<1>3. EvidenceInv'
  BY <1>1 DEF DemoInv, EvidenceInv, Evident
<1>4. SubmitInv'
  BY <1>1 DEF DemoInv, SubmitInv
<1>5. PageInv'
  BY <1>1 DEF DemoInv, PageInv, DetailInv, RetryInv, DetailIsSelected, SpinnersHaveRequests, GateFollowsOverview
<1> QED
  BY <1>2, <1>3, <1>4, <1>5 DEF DemoInv

\* A step that moves one request on leaves the page and does not forget the request.
LEMMA RequestSteps ==
  ASSUME DemoInv, NEW s \in Slot, NEW r \in Requests(s), req' = [req EXCEPT ![s] = r],
         req[s].at # "none", r.at # "none", r.of = req[s].of,
         r.at \in {"served", "answer"} /\ r.answer = "evidence" => r.life \in complete,
         UNCHANGED <<pageVars, submits, complete>>,
         box' \in Boxes, faults' \in 0..MaxFaults, decided' \subseteq ConflictId, BoxInv',
         recorded' \in [Submit -> SUBSET (Nat \X ConflictId)],
         SubmitInv'
  PROVE  DemoInv'
<1>1. page' = page /\ aborted' = aborted /\ again' = again /\ submits' = submits /\ complete' = complete
  BY DEF pageVars
<1>2. /\ req' = [t \in Slot |-> req'[t]]
      /\ \A t \in Slot : req'[t] \in Requests(t)
      /\ req'[s] = r
      /\ \A t \in Slot : t # s => req'[t] = req[t]
  BY OneRequest DEF DemoInv
<1>3. DemoTypes'
  BY <1>1, <1>2 DEF DemoInv, DemoTypes, Requests, Of
<1>4. EvidenceInv'
  BY <1>1, <1>2 DEF DemoInv, EvidenceInv, Evident
<1>5. \A t \in Slot : (req'[t].at # "none" <=> req[t].at # "none")
                      /\ (req[t].at # "none" => req'[t].of = req[t].of)
  BY <1>2
<1>6. PageInv'
  BY <1>1, <1>5, SlotsAreNamed
     DEF DemoInv, PageInv, DetailInv, RetryInv, DetailIsSelected, SpinnersHaveRequests, GateFollowsOverview
<1> QED
  BY <1>3, <1>4, <1>6 DEF DemoInv

\* A request that leaves the way to the handler needs no record.
LEMMA SubmitMoves ==
  ASSUME DemoInv, NEW s \in Slot, NEW r \in Requests(s), req' = [req EXCEPT ![s] = r],
         r.at \in {"edge", "restarted", "api"} => req[s].at \in {"edge", "restarted", "api"},
         req[s].at # "none", UNCHANGED <<submits, recorded>>
  PROVE  SubmitInv'
<1>1. req'[s] = r /\ \A t \in Slot : t # s => req'[t] = req[t]
  BY OneRequest DEF DemoInv
<1> QED
  BY <1>1, SlotsAreNamed DEF DemoInv, SubmitInv

LEMMA BoxStays ==
  ASSUME DemoInv, UNCHANGED <<box, complete, faults>>
  PROVE  box' \in Boxes /\ faults' \in 0..MaxFaults /\ BoxInv'
BY DEF DemoInv, DemoTypes, BoxInv, Boxes

-----------------------------------------------------------------------------
(* Hosted demo: steps of the container.                                    *)
LEMMA BootSteps ==
  ASSUME DemoInv, Boot
  PROVE  DemoInv'
<1> USE DemoAssumption DEF DemoInv, DemoTypes, BoxInv, Boxes, Rest, pageVars, bounds
<1>1. CASE OpenPort
  BY <1>1, BoxSteps DEF OpenPort
<1>2. CASE TriggerJob
  BY <1>2, BoxSteps DEF TriggerJob
<1>3. CASE PollJob
  <2>1. /\ box.jobs < Jobs /\ box' = [box EXCEPT !.jobs = @ + 1, !.job = "none"]
        /\ complete' = IF box.jobs + 1 = Jobs THEN complete \cup {box.life} ELSE complete
        /\ UNCHANGED <<decided, req, pageVars, recorded, bounds>>
    BY <1>3 DEF PollJob
  <2>2. /\ box' \in Boxes /\ box'.jobs = box.jobs + 1 /\ box'.job = "none" /\ box'.life = box.life
        /\ box'.at = box.at /\ box'.sentinel = box.sentinel
    <3>1. box.jobs + 1 \in 0..Jobs
      BY <2>1
    <3> QED
      BY <2>1, <3>1, Zenon
  <2>3. complete \subseteq complete' /\ (box'.jobs = Jobs => box'.life \in complete')
    BY <2>1, <2>2
  <2>4. BoxInv'
    BY <2>1, <2>2, <2>3
  <2> QED
    BY <2>1, <2>2, <2>3, <2>4, BoxSteps
<1>4. CASE WriteSentinel
  BY <1>4, BoxSteps DEF WriteSentinel
<1> QED
  BY <1>1, <1>2, <1>3, <1>4 DEF Boot

LEMMA StopSteps ==
  ASSUME DemoInv, StopBox
  PROVE  DemoInv'
<1>1. PICK trapped \in BOOLEAN :
        box' = [box EXCEPT !.at = "down", !.job = "none", !.sentinel = @ /\ ~trapped]
  BY DEF StopBox
<1>2. /\ box' \in Boxes /\ box'.at = "down" /\ box'.job = "none" /\ box'.life = box.life
      /\ box'.jobs = box.jobs /\ (box'.sentinel => box.sentinel)
  BY <1>1, Zenon DEF DemoInv, DemoTypes, Boxes
<1>3. /\ box.at # "down" /\ faults < MaxFaults /\ faults' = faults + 1
      /\ UNCHANGED <<submits, clicks, decided, complete, req, pageVars, recorded>>
  BY DEF StopBox, Fault
<1>4. faults' \in 0..MaxFaults
  BY <1>3, DemoAssumption DEF DemoInv, DemoTypes
<1>5. BoxInv'
  BY <1>2, <1>3, DemoAssumption DEF DemoInv, DemoTypes, BoxInv, Boxes
<1> QED
  BY <1>2, <1>3, <1>4, <1>5, BoxSteps DEF DemoInv, DemoTypes, Rest

LEMMA WakeSteps ==
  ASSUME DemoInv, NEW s \in Slot, WakeBox(s)
  PROVE  DemoInv'
<1>1. /\ box.at = "down"
      /\ box' = [at |-> "booting", life |-> box.life + 1, jobs |-> 0, job |-> "none", sentinel |-> FALSE]
      /\ decided' = {}
      /\ UNCHANGED <<complete, req, pageVars, recorded, bounds>>
  BY DEF WakeBox, StartBox
<1>2. box' \in Boxes /\ BoxInv'
  BY <1>1, DemoAssumption DEF DemoInv, DemoTypes, BoxInv, Boxes, bounds
<1> QED
  BY <1>1, <1>2, BoxSteps DEF DemoInv, DemoTypes, Rest, bounds

-----------------------------------------------------------------------------
(* Hosted demo: steps of a request.                                        *)
LEMMA AnswerSteps ==
  ASSUME DemoInv, NEW s \in Slot, req[s].at # "none", NEW answer \in Answers \ {"evidence"},
         Reply(s, answer), UNCHANGED <<box, complete, pageVars, submits, recorded>>,
         decided' \subseteq ConflictId, faults' \in 0..MaxFaults, BoxInv'
  PROVE  DemoInv'
<1> DEFINE r == [at |-> "answer", of |-> req[s].of, answer |-> answer]
<1>1. req[s].of \in Of(s)
  BY RequestsAreTyped DEF DemoInv, DemoTypes
<1>2. r \in Requests(s) /\ r.at = "answer" /\ r.of = req[s].of /\ r.answer # "evidence"
  BY <1>1 DEF Requests
<1>3. req' = [req EXCEPT ![s] = r]
  BY DEF Reply
<1> HIDE DEF r
<1>4. SubmitInv'
  BY <1>2, <1>3, SubmitMoves
<1> QED
  BY <1>2, <1>3, <1>4, RequestSteps DEF DemoInv, DemoTypes

LEMMA RefusalSteps ==
  ASSUME DemoInv, NEW s \in Slot, GiveUp(s) \/ Refuse(s) \/ Lost(s)
  PROVE  DemoInv'
<1>1. PICK answer \in {"unavailable", "bootstrap"} : Reply(s, answer)
  BY DEF GiveUp, Refuse, Lost
<1>2. req[s].at # "none" /\ UNCHANGED <<boxVars, pageVars, recorded, bounds>>
  BY DEF GiveUp, Refuse, Lost, Waits, AtApi
<1>3. answer \in Answers \ {"evidence"}
  BY DEF Answers
<1> QED
  BY <1>1, <1>2, <1>3, BoxStays, AnswerSteps DEF DemoInv, DemoTypes, boxVars, bounds

LEMMA BreakSteps ==
  ASSUME DemoInv, NEW s \in Slot, Break(s)
  PROVE  DemoInv'
<1>1. PICK answer \in {"error", "unavailable"} : Reply(s, answer)
  BY DEF Break
<1>2. /\ req[s].at # "none" /\ UNCHANGED <<boxVars, pageVars, recorded, submits, clicks>>
      /\ faults < MaxFaults /\ faults' = faults + 1
  BY DEF Break, Fault
<1>3. answer \in Answers \ {"evidence"}
  BY DEF Answers
<1>4. faults' \in 0..MaxFaults /\ BoxInv'
  BY <1>2, DemoAssumption DEF DemoInv, DemoTypes, BoxInv, Boxes, boxVars
<1> QED
  BY <1>1, <1>2, <1>3, <1>4, AnswerSteps DEF DemoInv, DemoTypes, boxVars

LEMMA RestartSteps ==
  ASSUME DemoInv, NEW s \in Slot, PortRace(s)
  PROVE  DemoInv'
<1> DEFINE r == [req[s] EXCEPT !.at = "restarted"]
<1>1. req[s] \in [at : {"edge", "restarted"}, of : Of(s)]
  BY DEF PortRace, DemoInv, DemoTypes, Requests
<1>2. r \in [at : {"edge", "restarted"}, of : Of(s)] /\ r.at = "restarted" /\ r.of = req[s].of
  BY <1>1
<1>3. r \in Requests(s)
  BY <1>2 DEF Requests
<1>4. req' = [req EXCEPT ![s] = r]
  BY DEF PortRace
<1> HIDE DEF r
<1>5. /\ req[s].at = "edge" /\ box.at # "down" /\ faults < MaxFaults /\ faults' = faults + 1
      /\ box' = [box EXCEPT !.at = "down", !.job = "none", !.sentinel = FALSE]
      /\ UNCHANGED <<submits, clicks, decided, complete, pageVars, recorded>>
  BY DEF PortRace, Fault
<1>6. faults' \in 0..MaxFaults /\ box' \in Boxes /\ BoxInv'
  <2>1. faults' \in 0..MaxFaults
    BY <1>5, DemoAssumption DEF DemoInv, DemoTypes
  <2>2. /\ box' \in Boxes /\ box'.at = "down" /\ box'.job = "none" /\ box'.life = box.life
        /\ box'.jobs = box.jobs /\ ~box'.sentinel
    BY <1>5 DEF DemoInv, DemoTypes, Boxes
  <2> QED
    BY <1>5, <2>1, <2>2, DemoAssumption DEF DemoInv, DemoTypes, BoxInv, Boxes
<1>7. SubmitInv'
  BY <1>2, <1>3, <1>4, <1>5, SubmitMoves
<1> QED
  BY <1>2, <1>3, <1>4, <1>5, <1>6, <1>7, RequestSteps DEF DemoInv, DemoTypes

LEMMA ForwardSteps ==
  ASSUME DemoInv, NEW s \in Slot, Forward(s)
  PROVE  DemoInv'
<1> DEFINE r == [at |-> "api", of |-> req[s].of, life |-> box.life]
<1>1. req[s].at \in {"edge", "restarted"} /\ req[s].at # "none"
  BY DEF Forward, Waits
<1>2. req[s].of \in Of(s) /\ box.life \in Nat
  BY <1>1, RequestsAreTyped DEF DemoInv, DemoTypes, Boxes
<1>3. r \in Requests(s) /\ r.at = "api" /\ r.of = req[s].of
  BY <1>2 DEF Requests
<1>4. req' = [req EXCEPT ![s] = r] /\ UNCHANGED <<boxVars, pageVars, recorded, bounds>>
  BY DEF Forward
<1> HIDE DEF r
<1>5. SubmitInv'
  BY <1>1, <1>3, <1>4, SubmitMoves DEF bounds
<1> QED
  BY <1>1, <1>3, <1>4, <1>5, BoxStays, RequestSteps DEF DemoInv, DemoTypes, boxVars, bounds

LEMMA ReturnSteps ==
  ASSUME DemoInv, NEW s \in Slot, Return(s)
  PROVE  DemoInv'
<1> DEFINE r == [req[s] EXCEPT !.at = "answer"]
<1>1. req[s].at = "served"
  BY DEF Return, AtApi
<1>2. req[s] \in [at : {"served"}, of : Of(s), life : Nat, pending : BOOLEAN, answer : {"evidence", "stale"}]
  BY <1>1 DEF DemoInv, DemoTypes, Requests
<1>3. /\ r \in [at : {"answer"}, of : Of(s), life : Nat, pending : BOOLEAN, answer : {"evidence", "stale"}]
      /\ r.at = "answer" /\ r.of = req[s].of /\ r.life = req[s].life /\ r.answer = req[s].answer
  BY <1>2
<1>4. r \in Requests(s)
  BY <1>3 DEF Requests
<1>5. r.answer = "evidence" => r.life \in complete
  BY <1>1, <1>3 DEF DemoInv, EvidenceInv, Evident
<1>6. req' = [req EXCEPT ![s] = r] /\ UNCHANGED <<boxVars, pageVars, recorded, bounds>>
  BY DEF Return
<1> HIDE DEF r
<1>7. SubmitInv'
  BY <1>1, <1>3, <1>4, <1>6, SubmitMoves DEF bounds
<1> QED
  BY <1>1, <1>3, <1>4, <1>5, <1>6, <1>7, BoxStays, RequestSteps DEF DemoInv, DemoTypes, boxVars, bounds

\* The handler serves evidence only over a sentinel, and takes the submit with its record.
LEMMA ServeSteps ==
  ASSUME DemoInv, NEW s \in Slot, Serve(s)
  PROVE  DemoInv'
<1> DEFINE c == req[s].of
           records == s \in Submit /\ c \notin decided
           r == [at |-> "served", of |-> c, life |-> box.life, pending |-> c \notin decided,
                 answer |-> IF s \in Submit /\ ~records THEN "stale" ELSE "evidence"]
<1>1. req[s].at = "api" /\ box.sentinel
  BY DEF Serve, AtApi
<1>2. c \in Of(s) /\ box.life \in Nat
  BY <1>1, RequestsAreTyped DEF DemoInv, DemoTypes, Boxes
<1>3. r \in Requests(s) /\ r.at = "served" /\ r.of = c /\ r.life = box.life
  BY <1>2 DEF Requests
<1>4. r.life \in complete
  BY <1>1, <1>3 DEF DemoInv, BoxInv
<1>5. /\ req' = [req EXCEPT ![s] = r]
      /\ decided' = IF records THEN decided \cup {c} ELSE decided
      /\ recorded' = IF records THEN [recorded EXCEPT ![s] = @ \cup {<<box.life, c>>}] ELSE recorded
      /\ UNCHANGED <<box, complete, pageVars, bounds>>
  BY DEF Serve
<1>6. records => c \in ConflictId /\ <<box.life, c>> \in Nat \X ConflictId
  BY <1>2 DEF Of
<1> HIDE DEF r
<1>7. decided' \subseteq ConflictId /\ recorded' \in [Submit -> SUBSET (Nat \X ConflictId)]
  BY <1>5, <1>6 DEF DemoInv, DemoTypes
<1>8. req'[s] = r /\ \A t \in Slot : t # s => req'[t] = req[t]
  BY <1>3, <1>5, OneRequest DEF DemoInv
<1>9. \A t \in Submit : t # s => recorded'[t] = recorded[t]
  BY <1>5 DEF DemoInv, DemoTypes
<1>10. s \in Submit => s \in submits /\ recorded[s] = {}
  BY <1>1 DEF DemoInv, SubmitInv
<1>11. s \in Submit => recorded'[s] = {} \/ (records /\ recorded'[s] = {<<box.life, c>>})
  BY <1>5, <1>6, <1>10 DEF DemoInv, DemoTypes
<1>12. SubmitInv'
  <2> SUFFICES ASSUME NEW t \in Submit
               PROVE  /\ t \notin submits => req'[t].at = "none" /\ recorded'[t] = {}
                      /\ req'[t].at \in {"edge", "restarted", "api"} => recorded'[t] = {}
                      /\ recorded'[t] = {} \/ \E x \in Nat \X ConflictId : recorded'[t] = {x}
    BY <1>5 DEF SubmitInv, bounds
  <2>1. CASE t = s
    BY <1>3, <1>6, <1>8, <1>10, <1>11, <2>1
  <2>2. CASE t # s
    BY <1>8, <1>9, <2>2, SlotsAreNamed DEF DemoInv, SubmitInv
  <2> QED
    BY <2>1, <2>2
<1> QED
  BY <1>1, <1>3, <1>4, <1>5, <1>7, <1>12, BoxStays, RequestSteps DEF DemoInv, DemoTypes, bounds

-----------------------------------------------------------------------------
(* Hosted demo: steps of the page.                                         *)
\* A step of the page keeps a request, drops it or sends it from the start.
LEMMA PageSteps ==
  ASSUME DemoInv, page' \in Pages, PageInv',
         req' = [s \in Slot |-> req'[s]], \A s \in Slot : req'[s] \in Requests(s),
         \A s \in Slot : req'[s] = req[s] \/ req'[s].at \in {"none", "edge"},
         \A s \in Submit : req'[s] = req[s] \/ (s \in submits /\ req'[s].at = "none"),
         UNCHANGED <<boxVars, recorded, faults, submits>>
  PROVE  DemoInv'
<1>1. DemoTypes' /\ BoxInv'
  BY DEF DemoInv, DemoTypes, BoxInv, boxVars, Requests, Of
<1>2. EvidenceInv'
  BY DEF DemoInv, EvidenceInv, Evident, boxVars
<1>3. SubmitInv'
  BY DEF DemoInv, SubmitInv
<1> QED
  BY <1>1, <1>2, <1>3 DEF DemoInv

LEMMA AbortsKeep ==
  ASSUME NEW s \in Slot, NEW state \in States
  PROVE  Aborts(s, state) \in {state, "error"} /\ Aborts(s, state) \in States
BY DEF Aborts, States

LEMMA RenderedPages ==
  ASSUME NEW state \in Pages
  PROVE  /\ Rendered(state) \in Pages
         /\ Rendered(state).phase = state.phase /\ Rendered(state).overview = state.overview
         /\ Rendered(state).list = state.list /\ Rendered(state).detail = state.detail
         /\ Rendered(state).selected = state.selected /\ Rendered(state).retry = state.retry
         /\ state.detail = "data" => Rendered(state).shown = state.shown
         /\ state.detail # "data" => Rendered(state).shown = NoConflict
<1>1. CASE state.detail = "data"
  BY <1>1 DEF Rendered
<1>2. CASE state.detail # "data"
  <2>1. Rendered(state) = [state EXCEPT !.form = "free", !.shown = NoConflict]
    BY <1>2 DEF Rendered
  <2> QED
    BY <1>2, <2>1, Zenon DEF Pages
<1> QED
  BY <1>1, <1>2

LEMMA LoadedStates == \A answer : Loaded(answer) \in {"data", "error"}
BY DEF Loaded

\* After a refresh every part has sent its request again, but for a closed gate.
LEMMA RefreshSteps ==
  ASSUME DemoInv, NEW next \in Pages, Refreshed(next), next.phase # "open",
         next.detail = "data" => next.shown \in ConflictId /\ next.shown = next.selected,
         next.detail = "loading" => next.selected \in ConflictId,
         \A s \in Part : req'[s] = Effects(Part, page'.phase)[s]
  PROVE  page' \in Pages /\ PageInv'
<1> DEFINE phase == Reopened(next.phase)
           state == [next EXCEPT !.phase = phase, !.retry = FALSE,
             !.overview = Aborts("overview", @), !.list = Aborts("list", @),
             !.detail = Aborts("detail", @)]
<1>1. phase \in {next.phase, "open"} /\ (phase = "open" => req["overview"].at # "none")
  BY DEF Reopened
<1>2. page' = Rendered(state) /\ aborted' = (req["overview"].at # "none") /\ again' = FALSE
  BY DEF Refreshed
<1>3. /\ Aborts("overview", next.overview) \in States /\ Aborts("list", next.list) \in States
      /\ Aborts("detail", next.detail) \in States
      /\ Aborts("detail", next.detail) \in {next.detail, "error"}
  BY AbortsKeep, SlotsAreNamed DEF Pages
<1>4. /\ state \in Pages /\ state.phase = phase /\ state.retry = FALSE
      /\ state.detail = Aborts("detail", next.detail) /\ state.shown = next.shown
      /\ state.selected = next.selected
  <2>1. phase \in {"checking", "restoring", "open"}
    BY <1>1 DEF Pages
  <2> HIDE DEF phase
  <2> QED
    BY <1>3, <2>1, Zenon DEF Pages
<1> HIDE DEF phase, state
<1>5. /\ page' \in Pages /\ page'.phase = phase /\ page'.retry = FALSE
      /\ page'.detail \in {next.detail, "error"} /\ page'.selected = next.selected
      /\ page'.detail = "data" => page'.shown = next.shown
      /\ page'.detail # "data" => page'.shown = NoConflict
  BY <1>2, <1>3, <1>4, RenderedPages
<1>6. page'.selected \in ConflictId \cup {NoConflict}
  BY <1>5 DEF Pages
<1>7. /\ req'["overview"].at = "edge"
      /\ page'.phase = "open" => req'["list"].at = "edge"
      /\ page'.selected # NoConflict =>
           req'["detail"].at = "edge" /\ req'["detail"].of = page'.selected
      /\ page'.selected = NoConflict => req'["detail"].at = "none"
  <2>1. "overview" \in Part /\ "list" \in Part /\ "detail" \in Part
    BY DEF Part
  <2> QED
    BY <1>6, <2>1, EffectsSend DEF DemoInv
<1>8. DetailInv' /\ DetailIsSelected'
  BY <1>5, <1>6, <1>7 DEF DetailInv, DetailIsSelected
<1>9. RetryInv' /\ SpinnersHaveRequests' /\ GateFollowsOverview'
  BY <1>1, <1>2, <1>5, <1>7, <1>8, DemoAssumption
     DEF RetryInv, SpinnersHaveRequests, GateFollowsOverview, DetailInv
<1> QED
  BY <1>5, <1>8, <1>9 DEF PageInv

\* What the requests are after a refresh, the submit that caused it included.
LEMMA RefreshSends ==
  ASSUME DemoInv, page' \in Pages, NEW S \in SUBSET submits,
         req' = [s \in Slot |-> IF s \in S THEN None ELSE Effects(Part, page'.phase)[s]]
  PROVE  /\ req' = [s \in Slot |-> req'[s]]
         /\ \A s \in Slot : req'[s] \in Requests(s)
         /\ \A s \in Slot : req'[s] = req[s] \/ req'[s].at \in {"none", "edge"}
         /\ \A s \in Submit : req'[s] = req[s] \/ (s \in submits /\ req'[s].at = "none")
<1>1. page'.selected \in ConflictId \cup {NoConflict}
  BY DEF Pages
<1>2. \A s \in Submit : s \notin Part
  BY DemoAssumption
<1> DEFINE sent == Effects(Part, page'.phase)
<1>3. /\ \A s \in Slot : sent[s] \in Requests(s)
      /\ \A s \in Slot : s \notin Part => sent[s] = req[s]
      /\ \A s \in Part : sent[s].at \in {"none", "edge"}
  <2>1. Part \in SUBSET Part
    OBVIOUS
  <2> QED
    BY <1>1, <2>1, EffectsSend DEF DemoInv
<1> HIDE DEF sent
<1>4. \A s \in Slot : req'[s] = IF s \in S THEN None ELSE sent[s]
  BY DEF sent
<1>5. \A s \in Slot : req'[s] \in Requests(s)
  BY <1>3, <1>4, NewRequests
<1>6. \A s \in Slot : req'[s] = req[s] \/ req'[s].at \in {"none", "edge"}
  BY <1>3, <1>4, NewRequests
<1>7. \A s \in Submit : req'[s] = req[s] \/ (s \in submits /\ req'[s].at = "none")
  BY <1>2, <1>3, <1>4, NewRequests, SlotsAreNamed
<1>8. req' = [s \in Slot |-> req'[s]]
  OBVIOUS
<1> QED
  BY <1>5, <1>6, <1>7, <1>8

LEMMA RetrySteps ==
  ASSUME DemoInv, Retry
  PROVE  DemoInv'
<1>1. page \in Pages /\ page.retry /\ page.phase = "restoring"
  BY DEF Retry, DemoInv, DemoTypes, PageInv, RetryInv
<1>2. /\ Refreshed(page) /\ req' = Effects(Part, page'.phase)
      /\ UNCHANGED <<boxVars, recorded, bounds>>
  BY DEF Retry
<1>3. /\ page.detail = "data" => page.shown \in ConflictId /\ page.shown = page.selected
      /\ page.detail = "loading" => page.selected \in ConflictId
  BY DemoAssumption DEF DemoInv, PageInv, DetailInv, DetailIsSelected
<1>4. page' \in Pages /\ PageInv'
  BY <1>1, <1>2, <1>3, RefreshSteps
<1>5. req' = [s \in Slot |-> IF s \in {} THEN None ELSE Effects(Part, page'.phase)[s]]
  BY <1>2 DEF Effects
<1>6. {} \in SUBSET submits
  OBVIOUS
<1>7. /\ req' = [s \in Slot |-> req'[s]]
      /\ \A s \in Slot : req'[s] \in Requests(s)
      /\ \A s \in Slot : req'[s] = req[s] \/ req'[s].at \in {"none", "edge"}
      /\ \A s \in Submit : req'[s] = req[s] \/ (s \in submits /\ req'[s].at = "none")
  BY <1>4, <1>5, <1>6, RefreshSends
<1> QED
  BY <1>2, <1>4, <1>7, PageSteps DEF bounds

LEMMA ReloadingPages ==
  ASSUME DemoInv
  PROVE  /\ Reloading(page) \in Pages /\ Reloading(page).phase = "checking"
         /\ Reloading(page).detail = "data" =>
              Reloading(page).shown \in ConflictId /\ Reloading(page).shown = Reloading(page).selected
         /\ Reloading(page).detail = "loading" => Reloading(page).selected \in ConflictId
<1>1. page \in Pages
  BY DEF DemoInv, DemoTypes
<1> DEFINE detail == IF page.selected # NoConflict THEN "loading" ELSE page.detail
<1>2. detail \in States
  BY <1>1 DEF Pages, States
<1>3. Reloading(page) = [page EXCEPT !.overview = "loading", !.list = "loading",
                            !.phase = "checking", !.detail = detail]
  BY DEF Reloading
<1> HIDE DEF detail
<1>4. /\ Reloading(page) \in Pages /\ Reloading(page).phase = "checking"
      /\ Reloading(page).detail = detail /\ Reloading(page).shown = page.shown
      /\ Reloading(page).selected = page.selected
  <2>1. "loading" \in States
    BY DEF States
  <2> QED
    BY <1>1, <1>2, <1>3, <2>1, Zenon DEF Pages
<1>5. /\ detail = "data" => page.shown \in ConflictId /\ page.shown = page.selected
      /\ detail = "loading" => page.selected \in ConflictId
  BY <1>1, DemoAssumption DEF detail, DemoInv, PageInv, DetailInv, DetailIsSelected, Pages
<1> QED
  BY <1>4, <1>5

LEMMA RefreshButton ==
  ASSUME DemoInv, Refresh
  PROVE  DemoInv'
<1>1. /\ Refreshed(Reloading(page)) /\ req' = Effects(Part, page'.phase)
      /\ UNCHANGED <<boxVars, recorded, faults, submits>>
  BY DEF Refresh, Click
<1>2. Reloading(page).phase # "open"
  BY ReloadingPages
<1>3. page' \in Pages /\ PageInv'
  BY <1>1, <1>2, ReloadingPages, RefreshSteps
<1>4. req' = [s \in Slot |-> IF s \in {} THEN None ELSE Effects(Part, page'.phase)[s]]
  BY <1>1 DEF Effects
<1>5. {} \in SUBSET submits
  OBVIOUS
<1>6. /\ req' = [s \in Slot |-> req'[s]]
      /\ \A s \in Slot : req'[s] \in Requests(s)
      /\ \A s \in Slot : req'[s] = req[s] \/ req'[s].at \in {"none", "edge"}
      /\ \A s \in Submit : req'[s] = req[s] \/ (s \in submits /\ req'[s].at = "none")
  BY <1>3, <1>4, <1>5, RefreshSends
<1> QED
  BY <1>1, <1>3, <1>6, PageSteps

LEMMA DecisionSteps ==
  ASSUME DemoInv, NEW s \in Submit, ReceiveDecision(s)
  PROVE  DemoInv'
<1>1. req[s].at = "answer" /\ s \in submits /\ s \in Slot /\ s \notin Part
  BY SlotsAreNamed, DemoAssumption DEF ReceiveDecision, DemoInv, SubmitInv
<1>2. UNCHANGED <<boxVars, recorded, faults, submits>>
  BY DEF ReceiveDecision, bounds
<1>3. CASE req[s].answer = "evidence"
  <2>1. Refreshed(Reloading(page)) /\ req' = [Effects(Part, page'.phase) EXCEPT ![s] = None]
    BY <1>3 DEF ReceiveDecision
  <2>2. req' = [t \in Slot |-> IF t \in {s} THEN None ELSE Effects(Part, page'.phase)[t]]
    BY <2>1 DEF Effects
  <2>3. \A t \in Part : req'[t] = Effects(Part, page'.phase)[t]
    BY <1>1, <2>2, SlotsAreNamed
  <2>4. page' \in Pages /\ PageInv'
    <3>1. Reloading(page).phase # "open"
      BY ReloadingPages
    <3> QED
      BY <2>1, <2>3, <3>1, ReloadingPages, RefreshSteps
  <2>5. {s} \in SUBSET submits
    BY <1>1
  <2> QED
    BY <1>2, <2>2, <2>4, <2>5, RefreshSends, PageSteps
<1>4. CASE req[s].answer # "evidence"
  <2>1. /\ page' = [page EXCEPT !.form = IF @ = s THEN "free" ELSE @]
        /\ req' = [req EXCEPT ![s] = None] /\ UNCHANGED <<aborted, again>>
    BY <1>4 DEF ReceiveDecision
  <2>2. /\ page' \in Pages /\ page'.phase = page.phase /\ page'.overview = page.overview
        /\ page'.list = page.list /\ page'.detail = page.detail /\ page'.shown = page.shown
        /\ page'.selected = page.selected /\ page'.retry = page.retry
    <3>1. page \in Pages
      BY DEF DemoInv, DemoTypes
    <3>2. (IF page.form = s THEN "free" ELSE page.form) \in Submit \cup {"free"}
      BY <3>1 DEF Pages
    <3> QED
      BY <2>1, <3>1, <3>2, Zenon DEF Pages
  <2>3. /\ req' = [t \in Slot |-> req'[t]] /\ \A t \in Slot : req'[t] \in Requests(t)
        /\ req'[s] = None /\ \A t \in Slot : t # s => req'[t] = req[t]
    BY <1>1, <2>1, NewRequests, OneRequest DEF DemoInv
  <2>4. /\ req'["overview"] = req["overview"] /\ req'["list"] = req["list"]
        /\ req'["detail"] = req["detail"]
    BY <1>1, <2>3, SlotsAreNamed
  <2>5. PageInv'
    BY <2>1, <2>2, <2>4 DEF DemoInv, PageInv, DetailInv, RetryInv, DetailIsSelected,
       SpinnersHaveRequests, GateFollowsOverview
  <2> QED
    BY <1>1, <1>2, <2>2, <2>3, <2>5, NewRequests, SlotsAreNamed, PageSteps
<1> QED
  BY <1>3, <1>4

LEMMA OverviewSteps ==
  ASSUME DemoInv, ReceiveOverview
  PROVE  DemoInv'
<1> DEFINE answer == req["overview"].answer
           phase == IF Transient(answer) THEN "restoring" ELSE "open"
           effects == IF phase = page.phase THEN {} ELSE {"list"}
           overview == IF Transient(answer) THEN page.overview ELSE Loaded(answer)
           list == IF effects = {} THEN page.list ELSE Aborts("list", page.list)
           sent == Effects(effects, phase)
<1>1. /\ page' = [page EXCEPT !.phase = phase, !.retry = Transient(answer),
                    !.overview = overview, !.list = list]
      /\ req' = [sent EXCEPT !["overview"] = None]
      /\ UNCHANGED <<boxVars, aborted, again, recorded, bounds>>
  BY DEF ReceiveOverview
<1>2. page \in Pages
  BY DEF DemoInv, DemoTypes
<1>3. /\ phase \in {"restoring", "open"} /\ (Transient(answer) <=> phase = "restoring")
      /\ (Transient(answer) = TRUE \/ Transient(answer) = FALSE)
      /\ overview \in States /\ (phase = "open" => overview # "loading")
  <2>1. page.overview \in States /\ Loaded(answer) \in {"data", "error"}
    BY <1>2, LoadedStates DEF Pages
  <2> QED
    BY <2>1 DEF Transient, States
<1>4. list \in States /\ list \in {page.list, "error"}
  <2>1. page.list \in States
    BY <1>2 DEF Pages
  <2> QED
    BY <2>1, AbortsKeep, SlotsAreNamed
<1> HIDE DEF overview, list
<1>5. /\ page' \in Pages /\ page'.phase = phase /\ page'.retry = Transient(answer)
      /\ page'.overview = overview /\ page'.list = list /\ page'.detail = page.detail
      /\ page'.shown = page.shown /\ page'.selected = page.selected
  BY <1>1, <1>2, <1>3, <1>4, Zenon DEF Pages
<1>6. /\ effects \in SUBSET Part /\ effects \subseteq {"list"}
      /\ page'.selected \in ConflictId \cup {NoConflict}
      /\ (phase # page.phase => "list" \in effects)
      /\ (phase = page.phase => list = page.list)
  BY <1>5 DEF Part, Pages, list
<1> HIDE DEF effects, phase
<1>7. /\ sent = [s \in Slot |-> sent[s]]
      /\ \A s \in Slot : sent[s] \in Requests(s)
      /\ \A s \in Slot : s \notin effects => sent[s] = req[s]
      /\ \A s \in effects : sent[s].at \in {"none", "edge"}
      /\ "list" \in effects /\ phase = "open" => sent["list"].at = "edge"
  <2>1. DemoTypes
    BY DEF DemoInv
  <2> QED
    BY <1>6, <2>1, EffectsSend
<1> HIDE DEF sent
<1>8. /\ req' = [s \in Slot |-> req'[s]]
      /\ req'["overview"] = None
      /\ \A s \in Slot : s # "overview" => req'[s] = sent[s]
  BY <1>1, <1>7, SlotsAreNamed
<1>9. \A s \in Slot : req'[s] \in Requests(s)
  BY <1>7, <1>8, NewRequests
<1>10. \A s \in Slot : req'[s] = req[s] \/ req'[s].at \in {"none", "edge"}
  BY <1>7, <1>8, NewRequests, SlotsAreNamed
<1>11. \A s \in Submit : req'[s] = req[s]
  BY <1>6, <1>7, <1>8, SlotsAreNamed
<1>12. /\ req'["detail"] = req["detail"]
       /\ phase = page.phase => req'["list"] = req["list"]
       /\ phase # page.phase /\ phase = "open" => req'["list"].at = "edge"
  BY <1>6, <1>7, <1>8, SlotsAreNamed DEF effects
<1>13. PageInv'
  BY <1>1, <1>3, <1>5, <1>6, <1>12 DEF DemoInv, PageInv, DetailInv, RetryInv, DetailIsSelected,
     SpinnersHaveRequests, GateFollowsOverview
<1> QED
  BY <1>1, <1>5, <1>8, <1>9, <1>10, <1>11, <1>13, PageSteps DEF bounds

\* An answer is taken and its slot is free again.
LEMMA TakenSlot ==
  ASSUME DemoInv, NEW s \in Part, req' = [req EXCEPT ![s] = None]
  PROVE  /\ req' = [t \in Slot |-> req'[t]]
         /\ \A t \in Slot : req'[t] \in Requests(t)
         /\ \A t \in Slot : req'[t] = req[t] \/ req'[t].at \in {"none", "edge"}
         /\ \A t \in Submit : req'[t] = req[t]
         /\ req'[s].at = "none"
         /\ \A t \in Part : t # s => req'[t] = req[t]
<1>1. s \in Slot /\ s \notin Submit
  BY SlotsAreNamed, DemoAssumption
<1>2. /\ req' = [t \in Slot |-> req'[t]] /\ \A t \in Slot : req'[t] \in Requests(t)
      /\ req'[s] = None /\ \A t \in Slot : t # s => req'[t] = req[t]
  BY <1>1, NewRequests, OneRequest DEF DemoInv
<1> QED
  BY <1>1, <1>2, NewRequests, SlotsAreNamed

LEMMA ListSteps ==
  ASSUME DemoInv, ReceiveList
  PROVE  DemoInv'
<1> DEFINE loaded == Loaded(req["list"].answer)
<1>1. /\ page' = [page EXCEPT !.list = loaded] /\ req' = [req EXCEPT !["list"] = None]
      /\ UNCHANGED <<boxVars, aborted, again, recorded, bounds>>
  BY DEF ReceiveList
<1>2. loaded \in {"data", "error"} /\ loaded \in States
  BY LoadedStates DEF States
<1> HIDE DEF loaded
<1>3. /\ page' \in Pages /\ page'.phase = page.phase /\ page'.retry = page.retry
      /\ page'.overview = page.overview /\ page'.list = loaded /\ page'.detail = page.detail
      /\ page'.shown = page.shown /\ page'.selected = page.selected
  <2>1. page \in Pages
    BY DEF DemoInv, DemoTypes
  <2> QED
    BY <1>1, <1>2, <2>1, Zenon DEF Pages
<1>4. "list" \in Part /\ "overview" \in Part /\ "detail" \in Part
  BY DEF Part
<1>5. req'["overview"] = req["overview"] /\ req'["detail"] = req["detail"]
  BY <1>1, <1>4, TakenSlot
<1>6. PageInv'
  BY <1>1, <1>2, <1>3, <1>5 DEF DemoInv, PageInv, DetailInv, RetryInv, DetailIsSelected,
     SpinnersHaveRequests, GateFollowsOverview
<1>7. /\ req' = [t \in Slot |-> req'[t]] /\ \A t \in Slot : req'[t] \in Requests(t)
      /\ \A t \in Slot : req'[t] = req[t] \/ req'[t].at \in {"none", "edge"}
      /\ \A t \in Submit : req'[t] = req[t]
  BY <1>1, <1>4, TakenSlot
<1> QED
  BY <1>1, <1>3, <1>6, <1>7, PageSteps DEF bounds

\* The detail that arrives is that of the conflict that is selected.
LEMMA DetailSteps ==
  ASSUME DemoInv, ReceiveDetail
  PROVE  DemoInv'
<1> DEFINE answer == req["detail"]
<1>1. /\ page' = IF answer.answer = "evidence"
                 THEN [page EXCEPT !.detail = "data", !.shown = answer.of, !.pending = answer.pending]
                 ELSE Rendered([page EXCEPT !.detail = "error"])
      /\ answer.at = "answer" /\ req' = [req EXCEPT !["detail"] = None]
      /\ UNCHANGED <<boxVars, aborted, again, recorded, bounds>>
  BY DEF ReceiveDetail
<1>2. page \in Pages /\ answer \in Requests("detail") /\ "detail" \in Slot
  BY SlotsAreNamed DEF DemoInv, DemoTypes
<1>3. /\ answer.of \in ConflictId /\ answer.of = page.selected
      /\ answer.answer = "evidence" => answer.pending \in BOOLEAN
  <2>1. Of("detail") = ConflictId
    BY DEF Of
  <2>2. answer.of = page.selected
    BY <1>1 DEF DemoInv, PageInv, DetailInv
  <2> QED
    BY <1>1, <1>2, <2>1, <2>2, RequestsAreTyped
<1> HIDE DEF answer
<1>4. "list" \in Part /\ "overview" \in Part /\ "detail" \in Part
  BY DEF Part
<1>5. req'["overview"] = req["overview"] /\ req'["list"] = req["list"] /\ req'["detail"].at = "none"
  <2>1. req' = [req EXCEPT !["detail"] = None]
    BY <1>1
  <2>2. /\ req'["detail"].at = "none"
        /\ \A t \in Part : t # "detail" => req'[t] = req[t]
    BY <1>4, <2>1, TakenSlot
  <2> QED
    BY <1>4, <2>2
<1>6. /\ page' \in Pages /\ page'.phase = page.phase /\ page'.retry = page.retry
      /\ page'.overview = page.overview /\ page'.list = page.list /\ page'.selected = page.selected
      /\ \/ page'.detail = "data" /\ page'.shown = page.selected
         \/ page'.detail = "error" /\ page'.shown = NoConflict
  <2>1. CASE answer.answer = "evidence"
    <3>1. page' = [page EXCEPT !.detail = "data", !.shown = answer.of, !.pending = answer.pending]
      BY <1>1, <2>1
    <3>2. "data" \in States /\ answer.of \in ConflictId \cup {NoConflict} /\ answer.pending \in BOOLEAN
      BY <1>3, <2>1 DEF States
    <3>3. /\ page' \in Pages /\ page'.phase = page.phase /\ page'.retry = page.retry
          /\ page'.overview = page.overview /\ page'.list = page.list /\ page'.selected = page.selected
          /\ page'.detail = "data" /\ page'.shown = answer.of
      BY <1>2, <3>1, <3>2, Zenon DEF Pages
    <3> QED
      BY <1>3, <3>3
  <2>2. CASE answer.answer # "evidence"
    <3> DEFINE state == [page EXCEPT !.detail = "error"]
    <3>1. /\ state \in Pages /\ state.phase = page.phase /\ state.retry = page.retry
          /\ state.overview = page.overview /\ state.list = page.list
          /\ state.selected = page.selected /\ state.detail = "error"
      <4>1. "error" \in States
        BY DEF States
      <4> QED
        BY <1>2, <4>1, Zenon DEF Pages
    <3>2. page' = Rendered(state)
      BY <1>1, <2>2
    <3> HIDE DEF state
    <3> QED
      BY <3>1, <3>2, RenderedPages
  <2> QED
    BY <2>1, <2>2
<1>7. PageInv'
  BY <1>1, <1>3, <1>5, <1>6 DEF DemoInv, PageInv, DetailInv, RetryInv, DetailIsSelected,
     SpinnersHaveRequests, GateFollowsOverview
<1>8. /\ req' = [t \in Slot |-> req'[t]] /\ \A t \in Slot : req'[t] \in Requests(t)
      /\ \A t \in Slot : req'[t] = req[t] \/ req'[t].at \in {"none", "edge"}
      /\ \A t \in Submit : req'[t] = req[t]
  BY <1>1, <1>4, TakenSlot
<1> QED
  BY <1>1, <1>6, <1>7, <1>8, PageSteps DEF bounds

\* What the effects of some parts leave of the requests.
LEMMA SomeEffects ==
  ASSUME DemoInv, page' \in Pages, NEW parts \in SUBSET Part, NEW phase,
         req' = Effects(parts, phase)
  PROVE  /\ req' = [s \in Slot |-> req'[s]]
         /\ \A s \in Slot : req'[s] \in Requests(s)
         /\ \A s \in Slot : req'[s] = req[s] \/ req'[s].at \in {"none", "edge"}
         /\ \A s \in Submit : req'[s] = req[s]
         /\ \A s \in Part : s \notin parts => req'[s] = req[s]
         /\ "overview" \in parts => req'["overview"].at = "edge"
         /\ "list" \in parts /\ phase = "open" => req'["list"].at = "edge"
         /\ "detail" \in parts /\ page'.selected # NoConflict =>
              req'["detail"].at = "edge" /\ req'["detail"].of = page'.selected
         /\ "detail" \in parts /\ page'.selected = NoConflict => req'["detail"].at = "none"
<1>1. page'.selected \in ConflictId \cup {NoConflict}
  BY DEF Pages
<1>2. \A s \in Submit : s \in Slot /\ s \notin parts
  BY DemoAssumption, SlotsAreNamed
<1>3. DemoTypes /\ Part \subseteq Slot
  BY SlotsAreNamed DEF DemoInv
<1>4. /\ req' = [s \in Slot |-> req'[s]]
      /\ \A s \in Slot : req'[s] \in Requests(s)
      /\ \A s \in Slot : s \notin parts => req'[s] = req[s]
      /\ \A s \in parts : req'[s].at \in {"none", "edge"}
  BY <1>1, <1>3, EffectsSend
<1>5. /\ "overview" \in parts => req'["overview"].at = "edge"
      /\ "list" \in parts /\ phase = "open" => req'["list"].at = "edge"
      /\ "detail" \in parts /\ page'.selected # NoConflict =>
           req'["detail"].at = "edge" /\ req'["detail"].of = page'.selected
      /\ "detail" \in parts /\ page'.selected = NoConflict => req'["detail"].at = "none"
  BY <1>1, <1>3, EffectsSend
<1> QED
  BY <1>2, <1>3, <1>4, <1>5

LEMMA FilterSteps ==
  ASSUME DemoInv, ChangeFilters
  PROVE  DemoInv'
<1>1. PICK window \in BOOLEAN :
        /\ page' = [page EXCEPT !.list = Aborts("list", "loading"),
             !.overview = IF window THEN Aborts("overview", @) ELSE @]
        /\ req' = Effects(IF window THEN {"overview", "list"} ELSE {"list"}, "open")
        /\ aborted' = (aborted \/ (window /\ req["overview"].at # "none"))
  BY DEF ChangeFilters
<1>2. page.phase = "open" /\ UNCHANGED <<boxVars, again, recorded, faults, submits>>
  BY DEF ChangeFilters, Click
<1> DEFINE parts == IF window THEN {"overview", "list"} ELSE {"list"}
           list == Aborts("list", "loading")
           overview == IF window THEN Aborts("overview", page.overview) ELSE page.overview
<1>3. page \in Pages /\ page.overview \in States /\ "loading" \in States
  BY DEF DemoInv, DemoTypes, Pages, States
<1>4. list \in States /\ overview \in States /\ overview \in {page.overview, "error"}
  BY <1>3, AbortsKeep, SlotsAreNamed
<1> HIDE DEF list, overview
<1>5. /\ page' \in Pages /\ page'.phase = page.phase /\ page'.retry = page.retry
      /\ page'.overview = overview /\ page'.list = list /\ page'.selected = page.selected
      /\ page'.detail = page.detail /\ page'.shown = page.shown
  <2>1. page' = [page EXCEPT !.list = list, !.overview = overview]
    BY <1>1 DEF list, overview
  <2> QED
    BY <1>3, <1>4, <2>1, Zenon DEF Pages
<1>6. parts \in SUBSET Part /\ "list" \in parts /\ "detail" \notin parts
      /\ (window <=> "overview" \in parts) /\ "overview" \in Part /\ "detail" \in Part
  BY DEF Part
<1>7. req' = Effects(parts, "open")
  BY <1>1
<1> HIDE DEF parts
<1>8. /\ req' = [s \in Slot |-> req'[s]]
      /\ \A s \in Slot : req'[s] \in Requests(s)
      /\ \A s \in Slot : req'[s] = req[s] \/ req'[s].at \in {"none", "edge"}
      /\ \A s \in Submit : req'[s] = req[s]
      /\ req'["detail"] = req["detail"]
      /\ req'["overview"] = req["overview"] \/ req'["overview"].at = "edge"
      /\ req'["list"].at = "edge"
  BY <1>5, <1>6, <1>7, SomeEffects
<1>9. PageInv'
  BY <1>1, <1>2, <1>4, <1>5, <1>8 DEF DemoInv, PageInv, DetailInv, RetryInv, DetailIsSelected,
     SpinnersHaveRequests, GateFollowsOverview
<1> QED
  BY <1>2, <1>5, <1>8, <1>9, PageSteps

LEMMA SelectSteps ==
  ASSUME DemoInv, NEW c \in ConflictId, Select(c)
  PROVE  DemoInv'
<1> DEFINE detail == IF c = page.selected THEN "loading" ELSE Aborts("detail", "loading")
           state == [page EXCEPT !.selected = c, !.detail = detail]
           parts == IF c = page.selected THEN {} ELSE {"detail"}
<1>1. /\ page' = Rendered(state) /\ req' = Effects(parts, page.phase)
      /\ again' = (c = page.selected) /\ page.phase = "open"
      /\ UNCHANGED <<boxVars, aborted, recorded, faults, submits>>
  BY DEF Select, Click
<1>2. page \in Pages /\ "loading" \in States
  BY DEF DemoInv, DemoTypes, States
<1>3. detail \in {"loading", "error"} /\ detail \in States
  BY <1>2, AbortsKeep, SlotsAreNamed
<1> HIDE DEF detail
<1>4. /\ state \in Pages /\ state.phase = page.phase /\ state.retry = page.retry
      /\ state.overview = page.overview /\ state.list = page.list
      /\ state.selected = c /\ state.detail = detail
  BY <1>2, <1>3, Zenon DEF Pages
<1> HIDE DEF state
<1>5. /\ page' \in Pages /\ page'.phase = page.phase /\ page'.retry = page.retry
      /\ page'.overview = page.overview /\ page'.list = page.list
      /\ page'.selected = c /\ page'.detail = detail /\ page'.shown = NoConflict
  <2>1. detail # "data"
    BY <1>3
  <2> QED
    BY <1>1, <1>4, <2>1, RenderedPages
<1>6. /\ parts \in SUBSET Part /\ (c # page.selected => "detail" \in parts)
      /\ (c = page.selected => parts = {}) /\ parts \subseteq {"detail"}
      /\ "overview" \in Part /\ "detail" \in Part /\ "list" \in Part
  BY DEF Part
<1> HIDE DEF parts
<1>7. c # NoConflict
  BY DemoAssumption
<1>8. /\ req' = [s \in Slot |-> req'[s]]
      /\ \A s \in Slot : req'[s] \in Requests(s)
      /\ \A s \in Slot : req'[s] = req[s] \/ req'[s].at \in {"none", "edge"}
      /\ \A s \in Submit : req'[s] = req[s]
  BY <1>1, <1>5, <1>6, SomeEffects
<1>9. /\ req'["overview"] = req["overview"] /\ req'["list"] = req["list"]
      /\ c # page.selected => req'["detail"].at = "edge" /\ req'["detail"].of = c
      /\ c = page.selected => req'["detail"] = req["detail"]
  BY <1>1, <1>5, <1>6, <1>7, SomeEffects
<1>10. PageInv'
  BY <1>1, <1>3, <1>5, <1>7, <1>9 DEF DemoInv, PageInv, DetailInv, RetryInv, DetailIsSelected,
     SpinnersHaveRequests, GateFollowsOverview
<1> QED
  BY <1>1, <1>5, <1>8, <1>10, PageSteps

LEMMA CloseSteps ==
  ASSUME DemoInv, CloseDetail
  PROVE  DemoInv'
<1> DEFINE detail == Aborts("detail", "empty")
           state == [page EXCEPT !.selected = NoConflict, !.detail = detail]
<1>1. /\ page' = Rendered(state) /\ req' = Effects({"detail"}, page.phase) /\ again' = FALSE
      /\ UNCHANGED <<boxVars, aborted, recorded, faults, submits>>
  BY DEF CloseDetail, Click
<1>2. page \in Pages /\ "empty" \in States
  BY DEF DemoInv, DemoTypes, States
<1>3. detail \in {"empty", "error"} /\ detail \in States
  BY <1>2, AbortsKeep, SlotsAreNamed
<1> HIDE DEF detail
<1>4. /\ state \in Pages /\ state.phase = page.phase /\ state.retry = page.retry
      /\ state.overview = page.overview /\ state.list = page.list
      /\ state.selected = NoConflict /\ state.detail = detail
  BY <1>2, <1>3, Zenon DEF Pages
<1> HIDE DEF state
<1>5. /\ page' \in Pages /\ page'.phase = page.phase /\ page'.retry = page.retry
      /\ page'.overview = page.overview /\ page'.list = page.list
      /\ page'.selected = NoConflict /\ page'.detail = detail /\ page'.shown = NoConflict
  <2>1. detail # "data"
    BY <1>3
  <2> QED
    BY <1>1, <1>4, <2>1, RenderedPages
<1>6. {"detail"} \in SUBSET Part /\ "overview" \in Part /\ "list" \in Part
  BY DEF Part
<1>7. /\ req' = [s \in Slot |-> req'[s]]
      /\ \A s \in Slot : req'[s] \in Requests(s)
      /\ \A s \in Slot : req'[s] = req[s] \/ req'[s].at \in {"none", "edge"}
      /\ \A s \in Submit : req'[s] = req[s]
      /\ req'["overview"] = req["overview"] /\ req'["list"] = req["list"]
      /\ req'["detail"].at = "none"
  BY <1>1, <1>5, <1>6, SomeEffects
<1>8. PageInv'
  BY <1>1, <1>3, <1>5, <1>7 DEF DemoInv, PageInv, DetailInv, RetryInv, DetailIsSelected,
     SpinnersHaveRequests, GateFollowsOverview
<1> QED
  BY <1>1, <1>5, <1>7, <1>8, PageSteps

\* A submit that is used for the first time has no record yet.
LEMMA SubmitSteps ==
  ASSUME DemoInv, SubmitDecision
  PROVE  DemoInv'
<1> DEFINE s == CHOOSE s \in Submit : s \notin submits
<1>1. /\ page.detail = "data" /\ submits # Submit
      /\ page' = [page EXCEPT !.form = s] /\ req' = [req EXCEPT ![s] = Send(page.shown)]
      /\ submits' = submits \cup {s}
      /\ UNCHANGED <<boxVars, aborted, again, recorded, faults, clicks>>
  BY DEF SubmitDecision
<1>2. s \in Submit /\ s \notin submits
  <2>1. submits \subseteq Submit
    BY DEF DemoInv, DemoTypes
  <2>2. \E t \in Submit : t \notin submits
    BY <1>1, <2>1
  <2> QED
    BY <2>2
<1> HIDE DEF s
<1>3. /\ page' \in Pages /\ page'.phase = page.phase /\ page'.retry = page.retry
      /\ page'.overview = page.overview /\ page'.list = page.list
      /\ page'.selected = page.selected /\ page'.detail = page.detail /\ page'.shown = page.shown
  <2>1. page \in Pages
    BY DEF DemoInv, DemoTypes
  <2> QED
    BY <1>1, <1>2, <2>1, Zenon DEF Pages
<1>4. s \in Slot /\ s \notin Part /\ page.shown \in Of(s)
  BY <1>1, <1>2, SlotsAreNamed, DemoAssumption DEF DemoInv, PageInv, DetailInv, Of
<1>5. Send(page.shown) \in Requests(s) /\ Send(page.shown).at = "edge"
  BY <1>4, NewRequests
<1>6. /\ req' = [t \in Slot |-> req'[t]] /\ \A t \in Slot : req'[t] \in Requests(t)
      /\ req'[s] = Send(page.shown) /\ \A t \in Slot : t # s => req'[t] = req[t]
  BY <1>1, <1>4, <1>5, OneRequest DEF DemoInv
<1>7. \A t \in Part : req'[t] = req[t]
  BY <1>4, <1>6, SlotsAreNamed
<1>8. PageInv'
  <2>1. "overview" \in Part /\ "list" \in Part /\ "detail" \in Part
    BY DEF Part
  <2> QED
    BY <1>1, <1>3, <1>7, <2>1 DEF DemoInv, PageInv, DetailInv, RetryInv, DetailIsSelected,
       SpinnersHaveRequests, GateFollowsOverview
<1>9. DemoTypes' /\ BoxInv'
  BY <1>1, <1>2, <1>3, <1>6 DEF DemoInv, DemoTypes, BoxInv, boxVars, Requests, Of
<1>10. EvidenceInv'
  BY <1>1, <1>5, <1>6 DEF DemoInv, EvidenceInv, Evident, boxVars
<1>11. SubmitInv'
  BY <1>1, <1>2, <1>6, SlotsAreNamed DEF DemoInv, SubmitInv
<1> QED
  BY <1>8, <1>9, <1>10, <1>11 DEF DemoInv

-----------------------------------------------------------------------------
(* Hosted demo: every step.                                                *)
LEMMA DemoStarts == InitDemo => DemoInv
<1> SUFFICES ASSUME InitDemo PROVE DemoInv
  OBVIOUS
<1> USE DemoAssumption
<1>1. \A s \in Slot : req[s] \in Requests(s) /\ req[s].at = IF s = "overview" THEN "edge" ELSE "none"
  <2>1. NoConflict \in Of("overview")
    BY SlotsAreNamed DEF Of
  <2> QED
    BY <2>1, NewRequests, SlotsAreNamed DEF InitDemo
<1>2. page \in Pages
  BY DEF InitDemo, Pages, States
<1>3. DemoTypes
  BY <1>1, <1>2 DEF InitDemo, DemoTypes, Boxes
<1>4. BoxInv /\ EvidenceInv /\ SubmitInv
  BY <1>1, SlotsAreNamed DEF InitDemo, BoxInv, EvidenceInv, Evident, SubmitInv
<1>5. PageInv
  BY <1>1, SlotsAreNamed DEF InitDemo, PageInv, DetailInv, RetryInv, DetailIsSelected,
     SpinnersHaveRequests, GateFollowsOverview
<1> QED
  BY <1>3, <1>4, <1>5 DEF DemoInv

LEMMA DemoSteps == DemoInv /\ [DemoStep]_demoVars => DemoInv'
<1> SUFFICES ASSUME DemoInv, [DemoStep]_demoVars PROVE DemoInv'
  OBVIOUS
<1>1. CASE Boot
  BY <1>1, BootSteps
<1>2. CASE StopBox
  BY <1>2, StopSteps
<1>3. CASE Retry
  BY <1>3, RetrySteps
<1>4. CASE User
  BY <1>4, RefreshButton, FilterSteps, SelectSteps, CloseSteps, SubmitSteps DEF User
<1>5. ASSUME NEW s \in Slot, Carry(s) PROVE DemoInv'
  BY <1>5, WakeSteps, ForwardSteps, RefusalSteps, ServeSteps, ReturnSteps DEF Carry
<1>6. ASSUME NEW s \in Slot, Receive(s) PROVE DemoInv'
  BY <1>6, OverviewSteps, ListSteps, DetailSteps, DecisionSteps DEF Receive
<1>7. ASSUME NEW s \in Slot, PortRace(s) \/ Break(s) PROVE DemoInv'
  BY <1>7, RestartSteps, BreakSteps
<1>8. CASE UNCHANGED demoVars
  <2>1. UNCHANGED <<box, complete, faults, decided>> /\ UNCHANGED Rest
    BY <1>8 DEF demoVars, boxVars, pageVars, bounds, Rest
  <2>2. decided \subseteq ConflictId
    BY DEF DemoInv, DemoTypes
  <2> QED
    BY <2>1, <2>2, BoxStays, BoxSteps
<1> QED
  BY <1>1, <1>2, <1>3, <1>4, <1>5, <1>6, <1>7, <1>8 DEF DemoStep

LEMMA DemoInvariance == DemoSpec => []DemoInv
BY DemoStarts, DemoSteps, PTL DEF DemoSpec

LEMMA DemoIsSound == DemoInv => EvidenceIsBootstrapped /\ RecordedOnce /\ PageFollowsRequests
<1> SUFFICES ASSUME DemoInv PROVE EvidenceIsBootstrapped /\ RecordedOnce /\ PageFollowsRequests
  OBVIOUS
<1>1. EvidenceIsBootstrapped
  BY DEF DemoInv, EvidenceInv, Evident, EvidenceIsBootstrapped
<1>2. RecordedOnce
  <2> SUFFICES ASSUME NEW s \in Submit PROVE Cardinality(recorded[s]) <= 1
    BY DEF RecordedOnce
  <2>1. CASE recorded[s] = {}
    <3>1. Cardinality(recorded[s]) = 0
      BY <2>1, FS_EmptySet
    <3> QED
      BY <3>1
  <2>2. CASE \E x \in Nat \X ConflictId : recorded[s] = {x}
    <3>1. PICK x \in Nat \X ConflictId : recorded[s] = {x}
      BY <2>2
    <3>2. Cardinality({x}) = 1
      BY FS_Singleton
    <3> QED
      BY <3>1, <3>2
  <2> QED
    BY <2>1, <2>2 DEF DemoInv, SubmitInv
<1>3. DemoTypeOK
  <2>1. box.life \in 0..(MaxFaults + 1)
    BY DemoAssumption DEF DemoInv, DemoTypes, BoxInv, Boxes
  <2>2. \A s \in Slot : /\ req[s].at \in {"none", "edge", "restarted", "api", "served", "answer"}
                        /\ req[s].at = "answer" => req[s].answer \in Answers
    BY RequestsAreTyped DEF DemoInv, DemoTypes
  <2> QED
    BY <2>1, <2>2 DEF DemoTypeOK, DemoInv, DemoTypes, Boxes, Pages
<1> QED
  BY <1>1, <1>2, <1>3 DEF PageFollowsRequests, DemoInv, PageInv

\* Evidence comes from a bootstrapped life, whatever stops, restarts or kills containers.
THEOREM EvidenceIsAlwaysBootstrapped == DemoSpec => []EvidenceIsBootstrapped
BY DemoInvariance, DemoIsSound, PTL

\* A submit is recorded in one life at most, for any number of submits and faults.
THEOREM SubmitsAreRecordedOnce == DemoSpec => []RecordedOnce
BY DemoInvariance, DemoIsSound, PTL

\* What the page shows fits what it has selected and waits for.
THEOREM PageAlwaysFollowsRequests == DemoSpec => []PageFollowsRequests
BY DemoInvariance, DemoIsSound, PTL
=============================================================================
