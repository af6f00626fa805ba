------------------------------- MODULE Sources -------------------------------
(***************************************************************************)
(* How a sync run reads its sources, beside executions of init that        *)
(* replace the rows of one of them.  The app adapter asks the database     *)
(* twice, without a common snapshot; the crm and payments adapters wait    *)
(* for one load of the fixture files, which they share.  Each read is      *)
(* tried again when it fails or is aborted.  What was read whole is        *)
(* mirrored under the id of the run, which an execution that retries the   *)
(* run shares with those that died.                                        *)
(***************************************************************************)
EXTENDS Setup

CONSTANTS
  Run,        \* sync jobs, each with one idempotency key
  RetryLimit, \* SOURCE_RETRY_LIMIT
  MaxStarts   \* bound of the executions

ASSUME SourcesAssumption == RetryLimit \in Nat /\ MaxStarts \in Nat

VARIABLES
  exec,   \* the execution at work: its job, its generation, what it reads
  files,  \* the load of the fixture files and the reads that wait for it
  mirror, \* source_records of the app snapshot of each run
  counts, \* the run whose snapshots are active, and what its execution evaluated
  starts, \* executions so far
  reads   \* auxiliary: the snapshots of the app that each run has stored

vars == <<setupVars, exec, files, mirror, counts, starts, reads>>

FileSource == {"crm", "payments"}
Fault == {"none", "5xx", "partial"}
Pending == [t \in Table |-> [answered |-> FALSE]]
Idle == [at |-> "idle"]
NoFiles == [cache |-> "none", loads |-> 0,
            reads |-> [s \in FileSource |-> [at |-> "idle", attempt |-> 0]]]

Init ==
  /\ InitSetup
  /\ exec = Idle
  /\ files = NoFiles
  /\ mirror = [r \in Run |-> {}]
  /\ counts = [run |-> {}, rows |-> {}]
  /\ starts = 0
  /\ reads = [r \in Run |-> {}]

-----------------------------------------------------------------------------
(* AppPostgresAdapter, in readBounded, behind FaultInjectingAdapter.       *)

BeginSync(r) ==
  /\ exec.at = "idle"
  /\ granted
  /\ starts < MaxStarts
  /\ \E gen \in 1..Generations, fault \in Fault :
       exec' = [at |-> "reading", run |-> r, gen |-> gen, fault |-> fault, attempt |-> 0,
                aborted |-> FALSE, asked |-> Pending, saw |-> {}, steady |-> FALSE]
  /\ starts' = starts + 1
  /\ files' = NoFiles
  /\ UNCHANGED <<setupVars, mirror, counts, reads>>

RowsOf(table) == {x \in app[table] : x.gen = exec.gen}

\* One of the two SELECTs.  Auxiliary: the read is steady if the second one sees what the
\* first one saw, after a load that was over and alone.
SelectRows(table) ==
  /\ exec.at = "reading" /\ exec.fault # "5xx" /\ ~exec.asked[table].answered
  /\ exec' = [exec EXCEPT
       !.asked[table] = [answered |-> TRUE, rows |-> RowsOf(table)],
       !.saw = IF @ = {} THEN {app} ELSE {},
       !.steady = IF exec.saw = {} THEN load.alone /\ load.over ELSE @ /\ exec.saw = {app}]
  /\ UNCHANGED <<setupVars, files, mirror, counts, starts, reads>>

\* The timer of the attempt: what is asked goes on, and the answer is thrown away.
Abort ==
  /\ exec.at = "reading" /\ ~exec.aborted
  /\ exec' = [exec EXCEPT !.aborted = TRUE]
  /\ UNCHANGED <<setupVars, files, mirror, counts, starts, reads>>

Answered == \A t \in Table : exec.asked[t].answered
Refused == exec.fault = "5xx" \/ (exec.aborted /\ Answered)

Again == [exec EXCEPT !.attempt = @ + 1, !.aborted = FALSE, !.asked = Pending, !.saw = {}]

\* An attempt fails, by the fault, by a query that throws or because its time was over.
FailAttempt ==
  /\ exec.at = "reading"
  /\ Refused \/ ~Answered
  /\ exec' = IF exec.attempt < RetryLimit THEN Again ELSE [exec EXCEPT !.at = "failed"]
  /\ UNCHANGED <<setupVars, files, mirror, counts, starts, reads>>

Snapshot == UNION {exec.asked[t].rows : t \in Table}

\* The fault adapter passes on one half of the rows and says that they are partial.
Deliver ==
  /\ exec.at = "reading" /\ Answered /\ ~exec.aborted
  /\ exec' = [exec EXCEPT !.at = IF exec.fault = "partial" THEN "partial" ELSE "complete"]
  /\ UNCHANGED <<setupVars, files, mirror, counts, starts, reads>>

-----------------------------------------------------------------------------
(* FileFixtureAdapter and the cache of loads (cacheFixtureSetLoads).       *)

Reader(s) == files.reads[s]

\* Mutant of LoadFiles: every read loads the files for itself.
LoadEachTime(s) ==
  /\ exec.at # "idle" /\ Reader(s).at = "idle"
  /\ files' = [files EXCEPT !.cache = "pending", !.loads = @ + 1,
                 !.reads[s] = [at |-> "waits", attempt |-> @.attempt, load |-> files.loads + 1]]
  /\ UNCHANGED <<setupVars, exec, mirror, counts, starts, reads>>

\* A read takes the load that is cached, whether it is over or not, or starts one.
LoadFiles(s) ==
  /\ exec.at # "idle" /\ Reader(s).at = "idle"
  /\ LET n == IF files.cache = "none" THEN files.loads + 1 ELSE files.loads
     IN  files' = [files EXCEPT !.cache = IF @ = "none" THEN "pending" ELSE @, !.loads = n,
                     !.reads[s] = [at |-> "waits", attempt |-> @.attempt, load |-> n]]
  /\ UNCHANGED <<setupVars, exec, mirror, counts, starts, reads>>

FilesLoaded ==
  /\ files.cache = "pending"
  /\ files' = [files EXCEPT !.cache = "loaded"]
  /\ UNCHANGED <<setupVars, exec, mirror, counts, starts, reads>>

Retried(read) ==
  IF read.attempt < RetryLimit THEN [at |-> "idle", attempt |-> read.attempt + 1]
  ELSE [at |-> "failed", attempt |-> read.attempt]

\* A load that fails leaves the cache before those who wait for it try again.
FilesFail ==
  /\ files.cache = "pending"
  /\ files' = [files EXCEPT !.cache = "none",
                 !.reads = [s \in FileSource |->
                   IF Reader(s).at \in {"waits", "aborted"} THEN Retried(Reader(s)) ELSE Reader(s)]]
  /\ UNCHANGED <<setupVars, exec, mirror, counts, starts, reads>>

AbortFiles(s) ==
  /\ Reader(s).at = "waits"
  /\ files' = [files EXCEPT !.reads[s].at = "aborted"]
  /\ UNCHANGED <<setupVars, exec, mirror, counts, starts, reads>>

\* The load is over: a read in time has its records, one too late tries again.
TakeFiles(s) ==
  /\ files.cache = "loaded" /\ Reader(s).at \in {"waits", "aborted"}
  /\ files' = [files EXCEPT !.reads[s] = IF @.at = "waits" THEN [@ EXCEPT !.at = "read"] ELSE Retried(@)]
  /\ UNCHANGED <<setupVars, exec, mirror, counts, starts, reads>>

-----------------------------------------------------------------------------
(* What becomes of a complete snapshot of the app.                         *)

New(rows, held) == {x \in rows : ~\E y \in held : x.id = y.id}

\* Mutant of Mirrored: the rows are those of the generation.
MirroredForAll(rows) == [r \in Run |-> mirror[r] \cup New(rows, mirror[r])]

\* insertRecords: a row that another execution of the run has stored stays as it is.
Mirrored(rows) == [mirror EXCEPT ![exec.run] = @ \cup New(rows, @)]

\* Without the right to write, the transaction fails.
Persist ==
  /\ exec.at = "complete" /\ granted
  /\ mirror' = Mirrored(Snapshot)
  /\ reads' = [reads EXCEPT ![exec.run] = @ \cup {Snapshot}]
  /\ exec' = [exec EXCEPT !.at = "persisted"]
  /\ UNCHANGED <<setupVars, files, counts, starts>>

\* The other sources were complete too: the run is evaluated on what it has in memory and
\* its snapshots become active.
CutOver ==
  /\ exec.at = "persisted" /\ granted
  /\ counts' = [run |-> {exec.run}, rows |-> Snapshot]
  /\ exec' = Idle
  /\ files' = NoFiles
  /\ UNCHANGED <<setupVars, mirror, starts, reads>>

\* The execution dies, or is over without a complete snapshot of each source.
EndSync ==
  /\ exec.at # "idle"
  /\ exec' = Idle
  /\ files' = NoFiles
  /\ UNCHANGED <<setupVars, mirror, counts, starts, reads>>

-----------------------------------------------------------------------------
Next ==
  \/ SetupStep /\ UNCHANGED <<exec, files, mirror, counts, starts, reads>>
  \/ \E r \in Run : BeginSync(r)
  \/ \E t \in Table : SelectRows(t)
  \/ Abort \/ FailAttempt \/ Deliver
  \/ \E s \in FileSource : LoadFiles(s) \/ AbortFiles(s) \/ TakeFiles(s)
  \/ FilesLoaded \/ FilesFail
  \/ Persist \/ CutOver \/ EndSync

Spec == Init /\ [][Next]_vars

-----------------------------------------------------------------------------
(* Properties.                                                             *)

\* The app adapter calls whatever it reads complete, and a run resolves conflicts on it.
\* It is one profile of one generation, whole, if no load moved the rows between its two
\* queries and the last load was over and alone; nothing else that went before matters,
\* neither attempts that were aborted nor loads that died.
CompleteIsWhole ==
  exec.at = "complete" /\ exec.steady =>
    \E r \in Release : Snapshot = UNION {Range(Rows(r, t, exec.gen)) : t \in Table}

\* The records of the active run are what it was evaluated on, unless another execution of
\* the same run had stored something else before it.
MirrorIsEvaluated ==
  \A r \in counts.run :
    /\ \A x \in counts.rows : \E y \in mirror[r] : x.id = y.id
    /\ mirror[r] = counts.rows \/ Cardinality(reads[r]) > 1

\* The crm and the payments a run puts together come from one load of the files, although
\* loads fail and each source tries again for itself; and who waits, waits for the load in
\* the cache.
FilesAgree ==
  \A s, t \in FileSource :
    /\ Reader(s).at = "read" /\ Reader(t).at = "read" => Reader(s).load = Reader(t).load
    /\ Reader(s).at \in {"waits", "aborted"} =>
         files.cache # "none" /\ Reader(s).load = files.loads

\* What a run reads is one load of the files and one state of the app.
ReadsAreWhole == CompleteIsWhole /\ FilesAgree
=============================================================================
