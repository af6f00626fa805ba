-------------------------------- MODULE Sync --------------------------------
(***************************************************************************)
(* Sync runs: synchronize reads the sources, stores a snapshot of each,    *)
(* and, when all of them are complete, evaluates the rules, stores the     *)
(* projection and the conflicts, and makes the snapshots the active ones.  *)
(*                                                                         *)
(* Each of these is a transaction, or a statement, of its own; some run at *)
(* the same time (Promise.all) and go on when another of them throws.  The *)
(* job of a run may be executed again after a crash, or twice at once, and *)
(* nothing keeps the runs of two jobs apart but row locks.                 *)
(*                                                                         *)
(* The transaction on conflicts is modelled row by row: an UPDATE fixes    *)
(* the rows it will visit when it starts, waits for the lock of each, and  *)
(* tests the row again once it has it (READ COMMITTED).  What a            *)
(* transaction wrote is invisible to the others until it commits.          *)
(*                                                                         *)
(* The content of a source depends on the generation alone, so what a      *)
(* complete read of a run detects is a constant of the run.                *)
(***************************************************************************)
EXTENDS Naturals, Sequences, FiniteSets

CONSTANTS
  Execution,  \* executions of synchronize that may be alive at once
  Run,        \* sync runs, one per idempotency key
  Conflict,   \* conflict keys, ordered as the code sorts them
  Detects,    \* the conflicts the rules find in the snapshots of a run
  Cutover,    \* the sources in the order the cut-over visits them
  Threshold,  \* OSCILLATION_HOLD_THRESHOLD
  MaxStarts,  \* bound: executions started
  MaxFaults   \* bound: crashes and failed database calls

ASSUME SyncAssumption ==
  /\ Run # {}
  /\ Conflict \subseteq Nat
  /\ Detects \in [Run -> SUBSET Conflict]
  /\ Cutover \in Seq(STRING) /\ Cutover # <<>>
  /\ Threshold \in Nat \ {0}
  /\ MaxStarts \in Nat /\ MaxFaults \in Nat

Source == {Cutover[i] : i \in DOMAIN Cutover}
Availability == {"complete", "partial", "failed"}
NoRun == "none"
NoRow == [status |-> "absent", count |-> 0]
NotWritten == [status |-> "not_written", count |-> 0]

VARIABLES
  run,          \* sync_runs.status
  snapshot,     \* source_snapshots.status, by run and source
  invariantRun, \* invariant_runs.status, by run
  results,      \* the kinds of rows of invariant_results a run has
  projected,    \* runs whose projection is stored
  conflict,     \* conflicts.status and oscillation_count
  active,       \* active_snapshots: the run whose snapshot of a source is active
  pc,           \* where an execution of synchronize is
  job,          \* the run it executes
  outcome,      \* the availability of the sources it read
  persisting,   \* sources whose transaction has not ended
  projecting,   \* the transaction of persistProjection has not ended
  txn,          \* where its transaction on conflicts is
  todo,         \* the rows the current statement has still to visit
  writes,       \* the rows it has written, locked until it ends
  alone,        \* no other transaction on conflicts was open beside it
  switched,     \* rows of active_snapshots its cut-over has written
  starts,       \* executions started so far
  faults        \* faults so far

tables == <<run, snapshot, invariantRun, results, projected, conflict, active>>
txnVars == <<txn, todo, writes, alone>>
local == <<pc, job, outcome, persisting, projecting, txnVars, switched>>
vars == <<tables, local, starts, faults>>

AnyRun == CHOOSE r \in Run : TRUE
Nothing == [c \in Conflict |-> NotWritten]

Init ==
  /\ run = [r \in Run |-> "absent"]
  /\ snapshot = [r \in Run |-> [s \in Source |-> "none"]]
  /\ invariantRun = [r \in Run |-> "absent"]
  /\ results = [r \in Run |-> {}]
  /\ projected = {}
  /\ conflict = [c \in Conflict |-> NoRow]
  /\ active = [s \in Source |-> NoRun]
  /\ pc = [e \in Execution |-> "idle"]
  /\ job = [e \in Execution |-> AnyRun]
  /\ outcome = [e \in Execution |-> [s \in Source |-> "failed"]]
  /\ persisting = [e \in Execution |-> {}]
  /\ projecting = [e \in Execution |-> FALSE]
  /\ txn = [e \in Execution |-> "none"]
  /\ todo = [e \in Execution |-> {}]
  /\ writes = [e \in Execution |-> Nothing]
  /\ alone = [e \in Execution |-> TRUE]
  /\ switched = [e \in Execution |-> 0]
  /\ starts = 0
  /\ faults = 0

-----------------------------------------------------------------------------
(* From the claim of the job to the snapshots.                             *)

Goto(e, step) == pc' = [pc EXCEPT ![e] = step]

\* The SELECT of the run; a complete one is returned as it is.
Look(e, r) ==
  /\ pc[e] = "idle"
  /\ starts < MaxStarts
  /\ starts' = starts + 1
  /\ \/ run[r] = "complete" /\ UNCHANGED <<pc, job>>
     \/ run[r] # "complete" /\ Goto(e, "looked") /\ job' = [job EXCEPT ![e] = r]
  /\ UNCHANGED <<tables, outcome, persisting, projecting, txnVars, switched, faults>>

\* The upsert of the run, whatever became of it since.  readBounded of every adapter, with
\* its retries, follows and touches no table.
Begin(e) ==
  /\ pc[e] = "looked"
  /\ run' = [run EXCEPT ![job[e]] = "running"]
  /\ persisting' = [persisting EXCEPT ![e] = Source]
  /\ Goto(e, "persist")
  /\ UNCHANGED <<snapshot, invariantRun, results, projected, conflict, active, job, outcome,
                 projecting, txnVars, switched, starts, faults>>

\* What a read came to is chosen here: nothing depends on it before.  The transaction of the
\* source stores its source_runs row and, unless the read failed, its snapshot, whose status
\* is overwritten.
PersistSource(e, s) ==
  /\ s \in persisting[e]
  /\ persisting' = [persisting EXCEPT ![e] = @ \ {s}]
  /\ \E read \in Availability :
       /\ outcome' = [outcome EXCEPT ![e][s] = read]
       /\ snapshot' = [snapshot EXCEPT ![job[e]][s] = IF read = "failed" THEN @ ELSE read]
  /\ UNCHANGED <<run, invariantRun, results, projected, conflict, active, pc, job, projecting,
                 txnVars, switched, starts, faults>>

AllComplete(e) == \A s \in Source : outcome[e][s] = "complete"

Evaluate(e) ==
  /\ pc[e] = "persist" /\ persisting[e] = {}
  /\ AllComplete(e)
  /\ Goto(e, "evaluate")
  /\ projecting' = [projecting EXCEPT ![e] = TRUE]
  /\ txn' = [txn EXCEPT ![e] = "begin"]
  /\ UNCHANGED <<tables, job, outcome, persisting, todo, writes, alone, switched, starts, faults>>

\* persistProjection
Project(e) ==
  /\ projecting[e]
  /\ projecting' = [projecting EXCEPT ![e] = FALSE]
  /\ projected' = projected \cup {job[e]}
  /\ UNCHANGED <<run, snapshot, invariantRun, results, conflict, active, pc, job, outcome,
                 persisting, txnVars, switched, starts, faults>>

-----------------------------------------------------------------------------
(* persistInvariants.                                                      *)

Open(e) == txn[e] \in {"resolve", "upsert"}
Locked(e, c) == \E f \in Execution \ {e} : writes[f][c] # NotWritten

\* Mutant: the rows without a conflict key are unique too.
StoredAtAll(e) == results[job[e]] # {}

\* UNIQUE (invariant_run_id, rule_id, entity_ref, conflict_key): only rows with a
\* conflict key can violate it.
AlreadyStored(e) == Detects[job[e]] # {} /\ "fail" \in results[job[e]]

SameRunOpen(e) == \E f \in Execution \ {e} : Open(f) /\ job[f] = job[e]

\* An open transaction has inserted the same invariant_runs row, or the same results: the
\* INSERT waits for its end.
RunInsertWaits(e) == invariantRun[job[e]] = "absent" /\ SameRunOpen(e)
ResultsInsertWaits(e) == Detects[job[e]] # {} /\ SameRunOpen(e)

\* Mutant: the NOT of the condition is lost.
SeenAgain(e) == {c \in Conflict : conflict[c].status = "active" /\ c \in Detects[job[e]]}

Gone(e) == {c \in Conflict : conflict[c].status = "active" /\ c \notin Detects[job[e]]}

\* The INSERTs, and the start of the UPDATE that resolves what is gone: it sees the rows
\* that are committed now.
BeginInvariants(e) ==
  /\ txn[e] = "begin"
  /\ ~AlreadyStored(e) /\ ~RunInsertWaits(e) /\ ~ResultsInsertWaits(e)
  /\ txn' = [txn EXCEPT ![e] = "resolve"]
  /\ todo' = [todo EXCEPT ![e] = Gone(e)]
  /\ alone' = IF \E f \in Execution \ {e} : Open(f)
              THEN [f \in Execution |-> IF f = e \/ Open(f) THEN FALSE ELSE alone[f]]
              ELSE [alone EXCEPT ![e] = TRUE]
  /\ UNCHANGED <<tables, pc, job, outcome, persisting, projecting, writes, switched, starts,
                 faults>>

Write(e, c, row) == writes' = [writes EXCEPT ![e][c] = row]

Resolve(row) == [row EXCEPT !.status = "resolved"]

ResolveRow(e, c) ==
  /\ txn[e] = "resolve" /\ c \in todo[e]
  /\ ~Locked(e, c)
  /\ \/ conflict[c].status = "active" /\ Write(e, c, Resolve(conflict[c]))
     \/ conflict[c].status # "active" /\ UNCHANGED writes
  /\ todo' = [todo EXCEPT ![e] = @ \ {c}]
  /\ UNCHANGED <<tables, pc, job, outcome, persisting, projecting, txn, alone, switched, starts,
                 faults>>

BeginUpsert(e) ==
  /\ txn[e] = "resolve" /\ todo[e] = {}
  /\ txn' = [txn EXCEPT ![e] = "upsert"]
  /\ todo' = [todo EXCEPT ![e] = Detects[job[e]]]
  /\ UNCHANGED <<tables, pc, job, outcome, persisting, projecting, writes, alone, switched, starts,
                 faults>>

\* ON CONFLICT DO UPDATE works on the row that is locked.
Reassert(row) ==
  IF row.status = "resolved"
  THEN [status |-> IF row.count + 1 >= Threshold THEN "oscillation_hold" ELSE "active",
        count |-> row.count + 1]
  ELSE [row EXCEPT !.status = IF @ = "oscillation_hold" THEN @ ELSE "active"]

\* The rows are upserted in the order of their keys.
NextRow(e, c) == c \in todo[e] /\ \A d \in todo[e] : c <= d

\* Mutant: the row is changed without its lock.
Unlocked(e, c) == c \in Conflict

Lockable(e, c) == ~Locked(e, c)

UpsertRow(e, c) ==
  /\ txn[e] = "upsert" /\ NextRow(e, c)
  /\ Lockable(e, c)
  /\ Write(e, c, Reassert(conflict[c]))
  /\ todo' = [todo EXCEPT ![e] = @ \ {c}]
  /\ UNCHANGED <<tables, pc, job, outcome, persisting, projecting, txn, alone, switched, starts,
                 faults>>

Overlay(e) ==
  [c \in Conflict |-> IF writes[e][c] = NotWritten THEN conflict[c] ELSE writes[e][c]]

\* The transaction ends; its locks are gone.
EndTransaction(e) ==
  /\ txn' = [txn EXCEPT ![e] = "done"]
  /\ todo' = [todo EXCEPT ![e] = {}]
  /\ writes' = [writes EXCEPT ![e] = Nothing]
  /\ alone' = [alone EXCEPT ![e] = TRUE]

Commit(e) ==
  /\ txn[e] = "upsert" /\ todo[e] = {}
  /\ conflict' = Overlay(e)
  /\ invariantRun' = [invariantRun EXCEPT ![job[e]] = "complete"]
  /\ results' = [results EXCEPT ![job[e]] = @ \cup IF Detects[job[e]] = {} THEN {} ELSE {"fail"}]
  /\ EndTransaction(e)
  /\ UNCHANGED <<run, snapshot, projected, active, pc, job, outcome, persisting, projecting,
                 switched, starts, faults>>

-----------------------------------------------------------------------------
(* The cut-over, the partial branch and the end of a run.                  *)

\* Mutant: the cut-over does not wait for both transactions.
EitherStored(e) == ~projecting[e] \/ txn[e] = "done"

BothStored(e) == ~projecting[e] /\ txn[e] = "done"

BeginCutover(e) ==
  /\ pc[e] = "evaluate"
  /\ BothStored(e)
  /\ Goto(e, "cutover")
  /\ UNCHANGED <<tables, job, outcome, persisting, projecting, txnVars, switched, starts, faults>>

\* The next row of active_snapshots, once no other cut-over has it locked.
SwitchRow(e) ==
  /\ pc[e] = "cutover"
  /\ switched[e] < Len(Cutover)
  /\ \A f \in Execution \ {e} : switched[f] <= switched[e]
  /\ switched' = [switched EXCEPT ![e] = @ + 1]
  /\ UNCHANGED <<tables, pc, job, outcome, persisting, projecting, txnVars, starts, faults>>

AllSwitched(e) == switched[e] = Len(Cutover)

CommitCutover(e) ==
  /\ pc[e] = "cutover"
  /\ AllSwitched(e)
  /\ active' = [s \in Source |->
       IF \E i \in 1..switched[e] : Cutover[i] = s THEN job[e] ELSE active[s]]
  /\ switched' = [switched EXCEPT ![e] = 0]
  /\ Goto(e, "finish")
  /\ UNCHANGED <<run, snapshot, invariantRun, results, projected, conflict, job, outcome,
                 persisting, projecting, txnVars, starts, faults>>

\* A partial invariant run, unless one exists.
StorePartial(e) ==
  /\ pc[e] = "persist" /\ persisting[e] = {}
  /\ ~AllComplete(e) /\ ~RunInsertWaits(e)
  /\ invariantRun' = [invariantRun EXCEPT ![job[e]] = IF @ = "absent" THEN "partial" ELSE @]
  /\ Goto(e, "unchecked")
  /\ UNCHANGED <<run, snapshot, results, projected, conflict, active, job, outcome, persisting,
                 projecting, txnVars, switched, starts, faults>>

\* Its unchecked results; a retry adds them again.
StoreUnchecked(e) ==
  /\ pc[e] = "unchecked"
  /\ results' = [results EXCEPT ![job[e]] = @ \cup {"unchecked"}]
  /\ Goto(e, "finish")
  /\ UNCHANGED <<run, snapshot, invariantRun, projected, conflict, active, job, outcome,
                 persisting, projecting, txnVars, switched, starts, faults>>

FinalStatus(e) ==
  IF AllComplete(e) THEN "complete"
  ELSE IF \E s \in Source : outcome[e][s] = "complete" THEN "partial" ELSE "failed"

\* The local state of an execution that has ended.
Forget(e) ==
  /\ Goto(e, "idle")
  /\ job' = [job EXCEPT ![e] = AnyRun]
  /\ outcome' = [outcome EXCEPT ![e] = [s \in Source |-> "failed"]]
  /\ persisting' = [persisting EXCEPT ![e] = {}]
  /\ projecting' = [projecting EXCEPT ![e] = FALSE]
  /\ txn' = [txn EXCEPT ![e] = "none"]
  /\ todo' = [todo EXCEPT ![e] = {}]
  /\ writes' = [writes EXCEPT ![e] = Nothing]
  /\ alone' = [alone EXCEPT ![e] = TRUE]
  /\ switched' = [switched EXCEPT ![e] = 0]

\* The UPDATE of the run; the sync_completed audit follows it.
Finish(e) ==
  /\ pc[e] = "finish"
  /\ run' = [run EXCEPT ![job[e]] = FinalStatus(e)]
  /\ Forget(e)
  /\ UNCHANGED <<snapshot, invariantRun, results, projected, conflict, active, starts, faults>>

-----------------------------------------------------------------------------
(* Exceptions and crashes.                                                 *)

Fault ==
  /\ faults < MaxFaults
  /\ faults' = faults + 1

\* The executions that keep e from its next row.
Holders(e, rows) == {f \in Execution \ {e} : \E c \in rows : writes[f][c] # NotWritten}
WaitsOn(e) ==
  IF txn[e] = "resolve" /\ todo[e] # {} /\ \A c \in todo[e] : Locked(e, c)
  THEN Holders(e, todo[e])
  ELSE IF txn[e] = "upsert" THEN Holders(e, {c \in todo[e] : NextRow(e, c)}) ELSE {}

\* Postgres aborts a transaction that waits in a circle.
Deadlocked(e) ==
  \E waiting \in SUBSET Execution :
    e \in waiting /\ \A f \in waiting : WaitsOn(f) # {} /\ WaitsOn(f) \subseteq waiting

\* The transaction on conflicts is rolled back and Promise.all is rejected.
Abort(e) ==
  /\ \/ txn[e] = "begin" /\ AlreadyStored(e) /\ UNCHANGED faults
     \/ Open(e) /\ Deadlocked(e) /\ UNCHANGED faults
     \/ txn[e] \in {"begin", "resolve", "upsert"} /\ Fault
  /\ EndTransaction(e)
  /\ Goto(e, "failed")
  /\ UNCHANGED <<tables, job, outcome, persisting, projecting, switched, starts>>

\* Any other database call fails.  The transactions still open go on.
Throw(e) ==
  /\ Fault
  /\ Goto(e, "failed")
  /\ \/ /\ \E s \in persisting[e] : persisting' = [persisting EXCEPT ![e] = @ \ {s}]
        /\ UNCHANGED <<projecting, switched>>
     \/ /\ projecting[e] /\ projecting' = [projecting EXCEPT ![e] = FALSE]
        /\ UNCHANGED <<persisting, switched>>
     \/ /\ \/ pc[e] \in {"looked", "cutover", "unchecked", "finish"}
           \/ pc[e] = "persist" /\ persisting[e] = {}
           \/ pc[e] = "evaluate" /\ BothStored(e)
        /\ switched' = [switched EXCEPT ![e] = 0]
        /\ UNCHANGED <<persisting, projecting>>
  /\ UNCHANGED <<tables, job, outcome, txnVars, starts>>

\* The job fails at the first exception; what was left running has ended too.
Vanish(e) ==
  /\ pc[e] = "failed"
  /\ persisting[e] = {} /\ ~projecting[e] /\ txn[e] \in {"none", "done"}
  /\ Forget(e)
  /\ UNCHANGED <<tables, starts, faults>>

Crash(e) ==
  /\ pc[e] # "idle"
  /\ Fault
  /\ Forget(e)
  /\ UNCHANGED <<tables, starts>>

-----------------------------------------------------------------------------
Synchronize(e) ==
  \/ \E r \in Run : Look(e, r)
  \/ Begin(e)
  \/ \E s \in Source : PersistSource(e, s)
  \/ Evaluate(e) \/ Project(e)
  \/ BeginInvariants(e) \/ BeginUpsert(e) \/ Commit(e)
  \/ \E c \in Conflict : ResolveRow(e, c) \/ UpsertRow(e, c)
  \/ BeginCutover(e) \/ SwitchRow(e) \/ CommitCutover(e)
  \/ StorePartial(e) \/ StoreUnchecked(e) \/ Finish(e)
  \/ Abort(e) \/ Throw(e) \/ Vanish(e) \/ Crash(e)

Next == \E e \in Execution : Synchronize(e)

Spec == Init /\ [][Next]_vars

-----------------------------------------------------------------------------
(* Properties.                                                             *)

Row == {row \in [status : {"absent", "active", "resolved", "oscillation_hold"}, count : Nat] :
          row.status = "absent" => row.count = 0}

\* What an execution has in hand fits where it is.
InHand(e) ==
  /\ ~Open(e) => todo[e] = {} /\ writes[e] = Nothing
  /\ pc[e] # "cutover" => switched[e] = 0
  /\ pc[e] \notin {"persist", "failed"} => persisting[e] = {}
  /\ pc[e] \notin {"evaluate", "failed"} => ~projecting[e]
  /\ pc[e] \in {"idle", "looked", "persist"} => txn[e] = "none"
  /\ txn[e] \in {"begin", "resolve", "upsert"} => pc[e] \in {"evaluate", "failed"}

\* Every table and every execution keeps its shape; nothing is written outside a
\* transaction, and nothing is left of an execution that has ended.
TypeOK ==
  /\ run \in [Run -> {"absent", "running", "complete", "partial", "failed"}]
  /\ snapshot \in [Run -> [Source -> {"none", "complete", "partial"}]]
  /\ invariantRun \in [Run -> {"absent", "complete", "partial"}]
  /\ results \in [Run -> SUBSET {"fail", "unchecked"}]
  /\ projected \subseteq Run
  /\ conflict \in [Conflict -> Row]
  /\ active \in [Source -> Run \cup {NoRun}]
  /\ pc \in [Execution -> {"idle", "looked", "persist", "evaluate", "cutover",
                           "unchecked", "finish", "failed"}]
  /\ job \in [Execution -> Run]
  /\ outcome \in [Execution -> [Source -> Availability]]
  /\ persisting \in [Execution -> SUBSET Source]
  /\ projecting \in [Execution -> BOOLEAN]
  /\ txn \in [Execution -> {"none", "begin", "resolve", "upsert", "done"}]
  /\ todo \in [Execution -> SUBSET Conflict]
  /\ writes \in [Execution -> [Conflict -> Row \cup {NotWritten}]]
  /\ alone \in [Execution -> BOOLEAN]
  /\ switched \in [Execution -> 0..Len(Cutover)]
  /\ starts \in 0..MaxStarts /\ faults \in 0..MaxFaults
  /\ \A e \in Execution : InHand(e)

\* The active snapshots are those of one run, whatever crashes during a cut-over and
\* however many runs cut over at the same time.
ActiveIsOneRun == \A s, t \in Source : active[s] = active[t]

\* A run that says it is complete has its projection and its conflicts stored, although
\* several executions of it, some of them partial, may have written its rows.
CompleteIsEvaluated ==
  \A r \in Run : run[r] = "complete" => invariantRun[r] = "complete" /\ r \in projected

\* A run whose snapshots are active has its projection and its conflicts stored: the three
\* transactions take effect in this order, though nothing joins them.
ActiveIsEvaluated ==
  \A s \in Source : active[s] # NoRun =>
    /\ invariantRun[active[s]] = "complete"
    /\ active[s] \in projected
    /\ snapshot[active[s]][s] # "none"

\* Whatever is shown as the active evidence, or as a complete run, was evaluated as a whole.
EvidenceIsEvaluated == ActiveIsOneRun /\ CompleteIsEvaluated /\ ActiveIsEvaluated

\* A conflict is held exactly when it has come back Threshold times, or has been held and
\* cannot leave: no path reaches the count and is active or resolved.
HeldAtThreshold ==
  \A c \in Conflict : conflict[c].status = "oscillation_hold" <=> conflict[c].count >= Threshold

\* What a commit does to a conflict is one step of its life, taken from the row that was
\* committed before it: no run overwrites what another run has done meanwhile.
OneTransition ==
  [][\A c \in Conflict : conflict'[c] # conflict[c] =>
       \/ conflict[c].status = "active" /\ conflict'[c] = Resolve(conflict[c])
       \/ conflict'[c] = Reassert(conflict[c])]_vars

\* Conflicts and active snapshots change only by an execution that read every source
\* completely: a partial run never resolves on missing evidence (database/SCHEMA.md:62).
PartialNeverResolves ==
  [][conflict' # conflict \/ active' # active =>
       \E e \in Execution :
         /\ \A s \in Source : outcome[e][s] = "complete"
         /\ Commit(e) \/ CommitCutover(e)]_vars

\* When no other run's transaction was open beside it, a complete run leaves no active
\* conflict it did not detect and every conflict it did detect is open (database/SCHEMA.md:62).
CompleteRunResolves ==
  [][\A e \in Execution :
       Commit(e) /\ alone[e] =>
         \A c \in Conflict :
           /\ conflict'[c].status = "active" => c \in Detects[job[e]]
           /\ c \in Detects[job[e]] => conflict'[c].status \in {"active", "oscillation_hold"}]_vars

\* Conflicts are resolved by complete evidence, and by complete evidence they are.
Resolution == PartialNeverResolves /\ CompleteRunResolves

\* A run fails by itself, with no fault of the database, only when another execution of it
\* has stored its conflicts, or when two transactions wait for each other.  BOOTSTRAP.md:465
\* asks for more, "duplicate delivery safe through database idempotency".
OnlyDuplicatesFail ==
  [][\A e \in Execution : pc[e] = "evaluate" /\ pc'[e] = "failed" =>
       \/ faults' > faults
       \/ invariantRun[job[e]] = "complete"
       \/ Deadlocked(e)]_vars
=============================================================================
