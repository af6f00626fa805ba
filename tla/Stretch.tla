------------------------------- MODULE Stretch -------------------------------
(***************************************************************************)
(* Executions of the stretch job: group the active conflicts, extract      *)
(* tickets, apply eligible proposals, delete old alerts.  Each part reads  *)
(* what it works on first and then writes it in a transaction of its own,  *)
(* while sync runs change the conflicts and other executions do the same.  *)
(*                                                                         *)
(* The grouping transaction rebuilds three tables.  It runs at READ        *)
(* COMMITTED: each DELETE works on the rows committed when it starts,      *)
(* waits for those another transaction has deleted, and does not see what  *)
(* that transaction inserts.                                               *)
(***************************************************************************)
EXTENDS Naturals, Sequences, FiniteSets, FiniteSetsExt, Functions

CONSTANTS
  Conflict,        \* ids of conflicts: numbers, in their order
  Distance(_, _),  \* cosine distance of a conflict's pattern to the centroid of a group
  GroupThreshold,  \* GROUPING_DISTANCE_THRESHOLD
  TypeOf,          \* conflicts.type, numbered in the order of localeCompare
  Job,             \* executions of the stretch job
  MaxClock         \* bound of the clock

ASSUME StretchAssumption ==
  /\ Conflict \subseteq Nat
  /\ IsFiniteSet(Conflict)
  /\ TypeOf \in [Conflict -> Nat]
  /\ MaxClock \in Nat \ {0}

VARIABLES
  clock,    \* the time of the database, in microseconds
  status,   \* conflicts.status
  lastSeen, \* conflicts.last_seen_at
  pending,  \* conflicts that have a pending proposal
  alert,    \* the latest row of alert_events: absent, younger or older than the retention
  tickets,  \* extracted_tickets.opened_at, by the conflict of the message
  rows,     \* the committed rows of the three grouping tables
  pc,       \* what an execution does next
  seen,     \* what it has read of each conflict: last_seen_at or 1; 0 if nothing
  snapshot, \* the rows its DELETE has found
  gone,     \* the rows its open transaction has deleted
  beside    \* auxiliary: executions whose transactions were open beside its own

conflictVars == <<clock, status, lastSeen>>
groupVars == <<rows, snapshot, gone, beside>>
stretchVars == <<conflictVars, pending, alert, tickets, groupVars, pc, seen>>

Table == <<"members", "groups", "embeddings">>
NoRows == [t \in Range(Table) |-> {}]

\* A statement reads the rows it will delete, and then deletes them.
Deleting == [members |-> "delete_members", groups |-> "delete_groups",
             embeddings |-> "delete_embeddings"]

InitStretch ==
  /\ clock = 1
  /\ status = [c \in Conflict |-> "absent"]
  /\ lastSeen = [c \in Conflict |-> 0]
  /\ pending = {}
  /\ alert = "none"
  /\ tickets = [c \in Conflict |-> 0]
  /\ rows = NoRows
  /\ pc = [e \in Job |-> "start"]
  /\ seen = [e \in Job |-> [c \in Conflict |-> 0]]
  /\ snapshot = [e \in Job |-> {}]
  /\ gone = [e \in Job |-> NoRows]
  /\ beside = [e \in Job |-> {}]

Ids(statuses) == {c \in Conflict : status[c] \in statuses}
Read(e, statuses, column) ==
  seen' = [seen EXCEPT ![e] = [c \in Conflict |-> IF status[c] \in statuses THEN column[c] ELSE 0]]
Found(e) == {c \in Conflict : seen[e][c] > 0}
Goto(e, label) == pc' = [pc EXCEPT ![e] = label]

-----------------------------------------------------------------------------
(* Clusters, in the order in which they were opened.                       *)

\* The first of the nearest clusters; 0 if there is none.
Nearest(c, clusters) ==
  IF clusters = <<>> THEN 0
  ELSE CHOOSE i \in DOMAIN clusters :
         /\ \A j \in DOMAIN clusters : Distance(c, clusters[i]) <= Distance(c, clusters[j])
         /\ \A j \in 1..(i - 1) : Distance(c, clusters[i]) < Distance(c, clusters[j])

\* Mutant of Join: who has joined a cluster opens one as well.
JoinAndOpen(clusters, c) ==
  LET i == Nearest(c, clusters)
      joined == IF i > 0 /\ Distance(c, clusters[i]) <= GroupThreshold
                THEN [clusters EXCEPT ![i] = @ \cup {c}] ELSE clusters
  IN  Append(joined, {c})

Join(clusters, c) ==
  LET i == Nearest(c, clusters)
  IN  IF i > 0 /\ Distance(c, clusters[i]) <= GroupThreshold
      THEN [clusters EXCEPT ![i] = @ \cup {c}]
      ELSE Append(clusters, {c})

\* Every conflict joins in its turn, the least id first.
Clusters(ids) ==
  Range(MapThenFoldSet(LAMBDA c, clusters : Join(clusters, c), <<>>, LAMBDA c : c, Max, ids))

\* The most frequent type of a cluster, the first of them in a draw.
MajorityLabel(ids) ==
  LET Count(t) == Cardinality({c \in ids : TypeOf[c] = t})
      types == {TypeOf[c] : c \in ids}
  IN  CHOOSE t \in types :
        \A u \in types \ {t} : Count(u) < Count(t) \/ (Count(u) = Count(t) /\ t < u)

\* What an execution inserts.  The id of a group is a hash of the ids in it.
NewRows(e) ==
  LET clusters == Clusters(Found(e))
  IN  [members    |-> UNION {{[run |-> e, group |-> g, conflict |-> c] : c \in g} : g \in clusters},
       groups     |-> {[run |-> e, group |-> g, label |-> MajorityLabel(g),
                        count |-> Cardinality(g)] : g \in clusters},
       embeddings |-> {[run |-> e, conflict |-> c] : c \in Found(e)}]

-----------------------------------------------------------------------------
(* groupIncidents.                                                         *)

ReadActive(e) ==
  /\ pc[e] = "start"
  /\ Read(e, {"active"}, [c \in Conflict |-> 1])
  /\ Goto(e, "members")
  /\ UNCHANGED <<conflictVars, pending, alert, tickets, groupVars>>

\* Executions whose transaction is open: it starts with the first DELETE.
Open == {f \in Job : pc[f] \in {"delete_members", "groups", "delete_groups", "embeddings",
                                "delete_embeddings", "insert", "commit"}}

\* A DELETE starts: its snapshot is what is committed now.
Scan(e) ==
  /\ pc[e] \in Range(Table)
  /\ snapshot' = [snapshot EXCEPT ![e] = rows[pc[e]]]
  /\ beside' = IF pc[e] # "members" THEN beside
               ELSE [f \in Job |-> IF f = e THEN Open ELSE IF f \in Open THEN beside[f] \cup {e} ELSE beside[f]]
  /\ Goto(e, Deleting[pc[e]])
  /\ UNCHANGED <<conflictVars, pending, alert, tickets, rows, gone, seen>>

\* Rows an open transaction of another execution has deleted are locked.
Locked(e, t) == UNION {gone[f][t] : f \in Job \ {e}}

\* A group that still has a committed member cannot be deleted.
Referenced(e, found) ==
  \E m \in rows.members \ gone[e].members, g \in found : m.group = g.group

Roll(e) ==
  /\ gone' = [gone EXCEPT ![e] = NoRows]
  /\ snapshot' = [snapshot EXCEPT ![e] = {}]

Delete(e) ==
  \E i \in DOMAIN Table :
    LET t == Table[i]
        found == snapshot[e] \cap rows[t]
    IN  /\ pc[e] = Deleting[t]
        /\ found \cap Locked(e, t) = {}
        /\ ~(t = "groups" /\ Referenced(e, found))
        /\ gone' = [gone EXCEPT ![e][t] = found]
        /\ snapshot' = [snapshot EXCEPT ![e] = {}]
        /\ Goto(e, IF i = Len(Table) THEN "insert" ELSE Table[i + 1])
        /\ UNCHANGED <<conflictVars, pending, alert, tickets, rows, beside, seen>>

\* The foreign key refuses the DELETE, and the job fails.
DeleteRefused(e) ==
  /\ pc[e] = "delete_groups"
  /\ snapshot[e] \cap rows.groups \cap Locked(e, "groups") = {}
  /\ Referenced(e, snapshot[e] \cap rows.groups)
  /\ Roll(e)
  /\ Goto(e, "failed")
  /\ UNCHANGED <<conflictVars, pending, alert, tickets, rows, beside, seen>>

\* UNIQUE (tenant_id, conflict_id) of the embeddings, the key of the groups.
Clashes(e, table) ==
  \/ \E x \in table.embeddings : x.conflict \in Found(e)
  \/ \E x \in table.groups : x.group \in Clusters(Found(e))

\* An INSERT waits for transactions that have inserted or deleted an equal key.
MustWait(e) ==
  \E f \in Job \ {e} :
    \/ pc[f] = "commit" /\ Clashes(e, NewRows(f))
    \/ Clashes(e, gone[f])

Visible(e) == [t \in Range(Table) |-> rows[t] \ gone[e][t]]

Insert(e) ==
  /\ pc[e] = "insert"
  /\ ~MustWait(e)
  /\ ~Clashes(e, Visible(e))
  /\ Goto(e, "commit")
  /\ UNCHANGED <<conflictVars, pending, alert, tickets, groupVars, seen>>

InsertRefused(e) ==
  /\ pc[e] = "insert"
  /\ ~MustWait(e)
  /\ Clashes(e, Visible(e))
  /\ Roll(e)
  /\ Goto(e, "failed")
  /\ UNCHANGED <<conflictVars, pending, alert, tickets, rows, beside, seen>>

Commit(e) ==
  /\ pc[e] = "commit"
  /\ rows' = [t \in Range(Table) |-> Visible(e)[t] \cup NewRows(e)[t]]
  /\ Roll(e)
  /\ Goto(e, "grouped")
  /\ UNCHANGED <<conflictVars, pending, alert, tickets, beside, seen>>

-----------------------------------------------------------------------------
(* extractTickets, autoApplyEligibleProposals, retainLogs.                 *)

\* The conflicts and the times they were last seen at are read first; the
\* messages are written, and their fields extracted, from what was read.
ReadTickets(e) ==
  /\ pc[e] = "grouped"
  /\ Read(e, {"active", "oscillation_hold"}, lastSeen)
  /\ Goto(e, "tickets")
  /\ UNCHANGED <<conflictVars, pending, alert, tickets, groupVars>>

UpsertTickets(e) ==
  /\ pc[e] = "tickets"
  /\ tickets' = [c \in Conflict |-> IF c \in Found(e) THEN seen[e][c] ELSE tickets[c]]
  /\ Goto(e, "apply")
  /\ UNCHANGED <<conflictVars, pending, alert, groupVars, seen>>

\* The proposals that pass the gate, one transaction each, whatever became of
\* their conflicts.
AutoApply(e) ==
  /\ pc[e] = "apply"
  /\ \E c \in pending : pending' = pending \ {c}
  /\ UNCHANGED <<conflictVars, alert, tickets, groupVars, pc, seen>>

EndApply(e) ==
  /\ pc[e] = "apply"
  /\ Goto(e, "retain")
  /\ UNCHANGED <<conflictVars, pending, alert, tickets, groupVars, seen>>

Retain(e) ==
  /\ pc[e] = "retain"
  /\ alert' = IF alert = "old" THEN "none" ELSE alert
  /\ Goto(e, "done")
  /\ UNCHANGED <<conflictVars, pending, tickets, groupVars, seen>>

\* Anything may throw, and the transaction that is open is rolled back.
Throw(e) ==
  /\ pc[e] \notin {"start", "done", "failed"}
  /\ Roll(e)
  /\ Goto(e, "failed")
  /\ UNCHANGED <<conflictVars, pending, alert, tickets, rows, beside, seen>>

StretchStep ==
  \E e \in Job :
    \/ ReadActive(e) \/ Scan(e) \/ Delete(e) \/ DeleteRefused(e)
    \/ Insert(e) \/ InsertRefused(e) \/ Commit(e)
    \/ ReadTickets(e) \/ UpsertTickets(e) \/ AutoApply(e) \/ EndApply(e)
    \/ Retain(e) \/ Throw(e)

-----------------------------------------------------------------------------
(* Properties.                                                             *)

\* The detail view of a conflict shows the first row of the groups it finds
\* for it (getConflictDetail).  A conflict is in two groups only if they have
\* different members and their rebuilds ran beside each other, so that one rebuild
\* alone mends the tables.  No lock and no key says so.
OneGroupUnlessBeside ==
  \A m, n \in rows.members :
    m.conflict = n.conflict /\ m # n => m.group # n.group /\ n.run \in beside[m.run]
=============================================================================
