------------------------------ MODULE JobQueue ------------------------------
(***************************************************************************)
(* Durable jobs: the Postgres table `jobs`, the Redis stream that wakes    *)
(* the workers, the API that creates and publishes jobs, and the worker    *)
(* loop that publishes, reclaims, claims, executes and acknowledges.       *)
(*                                                                         *)
(* Every statement the code sends to Postgres or Redis is one action; a    *)
(* worker may crash between any two of them.  What a job does while it is  *)
(* executed is the subject of other modules: here it ends in one of        *)
(* Outcomes.                                                               *)
(*                                                                         *)
(* Time is counted in ticks and only ages are kept: a running job is stale *)
(* once its started_at is more than ClaimIdle ticks old, and a pending     *)
(* message can be reclaimed once it has been idle for ClaimIdle ticks.     *)
(* Ages, and the attempt counter, saturate where no test can tell larger   *)
(* values apart.                                                           *)
(***************************************************************************)
EXTENDS Naturals, FiniteSets

CONSTANTS
  ApiJob,        \* jobs requested through POST /api/v1/jobs/*
  ScheduledJob,  \* jobs the worker's own schedule enqueues
  Worker,        \* worker processes of the consumer group
  Outcomes,      \* how an execution may end: "complete", "halted", "error"
  MaxAttempts,   \* JOB_RETRY_LIMIT, stored in jobs.max_attempts
  ClaimIdle,     \* QUEUE_CLAIM_IDLE_MS, in ticks
  ReadCount,     \* COUNT of XREADGROUP
  ReclaimCount,  \* COUNT of XAUTOCLAIM
  MaxMsg,        \* bound: messages ever added to the stream
  MaxCrashes     \* bound: worker crashes

ASSUME ConstantsAssumption ==
  /\ ApiJob \cup ScheduledJob # {}
  /\ MaxAttempts \in Nat \ {0}
  /\ ClaimIdle \in Nat \ {0}
  /\ ReadCount \in Nat \ {0}
  /\ ReclaimCount \in Nat \ {0}
  /\ MaxMsg \in Nat
  /\ MaxCrashes \in Nat
  /\ Outcomes \subseteq {"complete", "halted", "error"}

Job == ApiJob \cup ScheduledJob
MsgId == 1..MaxMsg
NoMsg == 0

AttemptCap == MaxAttempts + 1  \* attempt_count saturates: one past the limit
StaleAge == ClaimIdle + 1      \* started_at < now() - QUEUE_CLAIM_IDLE_MS

\* Mutant: a failed attempt is never picked up again.
ReadyQueuedOnly == {"queued"}

Ready == {"queued", "retry_wait"}
Terminal == {"complete", "halted", "failed"}
Status == {"absent", "published", "running"} \cup Ready \cup Terminal

VARIABLES
  status,        \* jobs.status; "absent" before the row is inserted
  attemptCount,  \* jobs.attempt_count
  startedAge,    \* age of jobs.started_at, kept from the first claim on
  backoff,       \* TRUE while next_attempt_at is in the future
  lastMsg,       \* id of the newest stream entry; ids grow with the stream
  msgJob,        \* the job_id field of each entry
  msgState,      \* "new" (undelivered), "pending" (in the PEL) or "acked"
  idle,          \* idle time of a pending entry
  api,           \* progress of the API request that created a job
  pc,            \* where each worker is in consume()
  phase,         \* which of the loops of consume() it is in
  ready,         \* jobs publishReadyJobs selected and has still to publish
  publishing,    \* jobs of `ready` whose XADD is done and UPDATE is not
  batch,         \* delivered messages processMessages has still to handle
  current,       \* the message being handled
  attempt,       \* attempt_count RETURNING'd by the claim
  crashes        \* crashes so far

jobVars == <<status, attemptCount, startedAge, backoff>>
streamVars == <<lastMsg, msgJob, msgState, idle>>
workerVars == <<pc, phase, ready, publishing, batch, current, attempt>>
vars == <<jobVars, streamVars, workerVars, api, crashes>>

-----------------------------------------------------------------------------
Init ==
  /\ status = [j \in Job |-> "absent"]
  /\ attemptCount = [j \in Job |-> 0]
  /\ startedAge = [j \in Job |-> 0]
  /\ backoff = [j \in Job |-> FALSE]
  /\ lastMsg = 0
  /\ msgJob = [m \in MsgId |-> CHOOSE j \in Job : TRUE]
  /\ msgState = [m \in MsgId |-> "absent"]
  /\ idle = [m \in MsgId |-> 0]
  /\ api = [j \in Job |-> "none"]
  /\ pc = [w \in Worker |-> "loop"]
  /\ phase = [w \in Worker |-> "schedule"]
  /\ ready = [w \in Worker |-> {}]
  /\ publishing = [w \in Worker |-> {}]
  /\ batch = [w \in Worker |-> {}]
  /\ current = [w \in Worker |-> NoMsg]
  /\ attempt = [w \in Worker |-> 0]
  /\ crashes = 0

-----------------------------------------------------------------------------
(* The two halves of publishJob, and the entries a group read returns.     *)

\* XADD: the entry is in the stream although the row does not say so yet.
XAdd(j) ==
  /\ lastMsg < MaxMsg
  /\ lastMsg' = lastMsg + 1
  /\ msgJob' = [msgJob EXCEPT ![lastMsg + 1] = j]
  /\ msgState' = [msgState EXCEPT ![lastMsg + 1] = "new"]
  /\ idle' = [idle EXCEPT ![lastMsg + 1] = 0]

\* Mutants: the UPDATE forgets its CASE; it marks what it did not publish.
MarkAlways(j) == status' = [status EXCEPT ![j] = "published"]
MarkDuplicate(j) ==
  status' = [status EXCEPT ![j] = IF @ \in Ready THEN "published" ELSE "duplicate"]

\* The UPDATE that follows: only a row still queued or in retry_wait changes.
MarkPublished(j) ==
  status' = [status EXCEPT ![j] = IF @ \in Ready THEN "published" ELSE @]

\* Mutant: the row is stored as if it had been published already.
InsertPublished(j) ==
  /\ status[j] = "absent"
  /\ status' = [status EXCEPT ![j] = "published"]

\* createDurableJob: INSERT ... ON CONFLICT DO NOTHING, due at once.
InsertJob(j) ==
  /\ status[j] = "absent"
  /\ status' = [status EXCEPT ![j] = "queued"]

\* The n oldest of the entries in S.
Oldest(S, n) == {m \in S : Cardinality({k \in S : k < m}) < n}

\* Mutant: recovery looks at entries nobody has read.
IdleUndelivered == {m \in MsgId : msgState[m] = "new" /\ idle[m] >= ClaimIdle}

Undelivered == {m \in MsgId : msgState[m] = "new"}
Idle == {m \in MsgId : msgState[m] = "pending" /\ idle[m] >= ClaimIdle}

Deliver(w, S) ==
  /\ msgState' = [m \in MsgId |-> IF m \in S THEN "pending" ELSE msgState[m]]
  /\ idle' = [m \in MsgId |-> IF m \in S THEN 0 ELSE idle[m]]
  /\ batch' = [batch EXCEPT ![w] = S]
  /\ UNCHANGED <<lastMsg, msgJob>>

-----------------------------------------------------------------------------
(* The API.                                                                *)

ApiCreate(j) ==
  /\ j \in ApiJob
  /\ InsertJob(j)
  /\ api' = [api EXCEPT ![j] = "xadd"]
  /\ UNCHANGED <<attemptCount, startedAge, backoff, streamVars, workerVars, crashes>>

ApiXAdd(j) ==
  /\ api[j] = "xadd"
  /\ XAdd(j)
  /\ api' = [api EXCEPT ![j] = "mark"]
  /\ UNCHANGED <<jobVars, workerVars, crashes>>

ApiMark(j) ==
  /\ api[j] = "mark"
  /\ MarkPublished(j)
  /\ api' = [api EXCEPT ![j] = "done"]
  /\ UNCHANGED <<attemptCount, startedAge, backoff, streamVars, workerVars, crashes>>

\* publishJob threw (job_persisted_publish_deferred) or the API died.
ApiDefer(j) ==
  /\ api[j] \in {"xadd", "mark"}
  /\ api' = [api EXCEPT ![j] = "done"]
  /\ UNCHANGED <<jobVars, streamVars, workerVars, crashes>>

-----------------------------------------------------------------------------
(* The worker: consume() from the top of its loop.                         *)

\* The schedule is due; a row that exists already is a duplicate.
EnqueueScheduled(w, j) ==
  /\ pc[w] = "loop"
  /\ j \in ScheduledJob
  /\ \/ /\ InsertJob(j)
        /\ ready' = [ready EXCEPT ![w] = {j}]
        /\ pc' = [pc EXCEPT ![w] = "xadd"]
     \/ /\ status[j] # "absent"
        /\ pc' = [pc EXCEPT ![w] = "select"]
        /\ UNCHANGED <<status, ready>>
  /\ UNCHANGED <<attemptCount, startedAge, backoff, streamVars, phase, publishing,
                 batch, current, attempt, api, crashes>>

\* publishReadyJobs: one SELECT, whose rows are then published one by one.
SelectReady(w) ==
  /\ pc[w] \in {"loop", "select"}
  /\ ready' = [ready EXCEPT ![w] = {j \in Job : status[j] \in Ready /\ ~backoff[j]}]
  /\ phase' = [phase EXCEPT ![w] = "publish"]
  /\ pc' = [pc EXCEPT ![w] = IF ready'[w] = {} THEN "reclaim" ELSE "xadd"]
  /\ UNCHANGED <<jobVars, streamVars, publishing, batch, current, attempt, api, crashes>>

PublishXAdd(w) ==
  /\ pc[w] = "xadd"
  /\ \E j \in ready[w] :
       /\ XAdd(j)
       /\ publishing' = [publishing EXCEPT ![w] = {j}]
  /\ pc' = [pc EXCEPT ![w] = "mark"]
  /\ UNCHANGED <<jobVars, phase, ready, batch, current, attempt, api, crashes>>

AfterPublish(w) ==
  IF phase[w] = "schedule" THEN "select"
  ELSE IF ready'[w] = {} THEN "reclaim" ELSE "xadd"

PublishMark(w) ==
  /\ pc[w] = "mark"
  /\ \E j \in publishing[w] :
       /\ MarkPublished(j)
       /\ ready' = [ready EXCEPT ![w] = @ \ {j}]
  /\ publishing' = [publishing EXCEPT ![w] = {}]
  /\ pc' = [pc EXCEPT ![w] = AfterPublish(w)]
  /\ UNCHANGED <<attemptCount, startedAge, backoff, streamVars, phase, batch, current,
                 attempt, api, crashes>>

\* enqueueScheduledReconcile swallows a failed publish; publishReadyJobs does not.
DeferScheduled(w) ==
  /\ pc[w] \in {"xadd", "mark"}
  /\ phase[w] = "schedule"
  /\ ready' = [ready EXCEPT ![w] = {}]
  /\ publishing' = [publishing EXCEPT ![w] = {}]
  /\ pc' = [pc EXCEPT ![w] = "select"]
  /\ UNCHANGED <<jobVars, streamVars, phase, batch, current, attempt, api, crashes>>

\* XAUTOCLAIM from 0-0: idle pending entries, whichever consumer held them.
Reclaim(w) ==
  /\ pc[w] = "reclaim"
  /\ Deliver(w, Oldest(Idle, ReclaimCount))
  /\ phase' = [phase EXCEPT ![w] = "reclaim"]
  /\ pc' = [pc EXCEPT ![w] = IF batch'[w] = {} THEN "read" ELSE "process"]
  /\ UNCHANGED <<jobVars, ready, publishing, current, attempt, api, crashes>>

\* XREADGROUP '>': new entries, or none when BLOCK runs out.
ReadGroup(w) ==
  /\ pc[w] = "read"
  /\ Deliver(w, Oldest(Undelivered, ReadCount))
  /\ phase' = [phase EXCEPT ![w] = IF batch'[w] = {} THEN "schedule" ELSE "read"]
  /\ pc' = [pc EXCEPT ![w] = IF batch'[w] = {} THEN "loop" ELSE "process"]
  /\ UNCHANGED <<jobVars, ready, publishing, current, attempt, api, crashes>>

-----------------------------------------------------------------------------
(* processMessages and executeJob.                                         *)

IsNext(w, m) == m \in batch[w] /\ \A k \in batch[w] : m <= k

\* Mutant: a message that overtakes the UPDATE of publishJob is refused.
ClaimablePublished(j) ==
  \/ status[j] \in {"published", "retry_wait"}
  \/ status[j] = "running" /\ startedAge[j] >= StaleAge

\* The WHERE clause of claimJob.
Claimable(j) ==
  \/ status[j] \in Ready \cup {"published"}
  \/ status[j] = "running" /\ startedAge[j] >= StaleAge

\* Mutant: a redelivered job keeps its first attempt number.
NextAttemptOnce(n) == IF n = 0 THEN 1 ELSE n

\* attempt_count + 1
NextAttempt(n) == IF n < AttemptCap THEN n + 1 ELSE n

\* started_at = COALESCE(started_at, now()): a later attempt keeps the first age.
ClaimJob(w) ==
  /\ pc[w] = "process"
  /\ \E m \in MsgId : LET j == msgJob[m] IN
       /\ IsNext(w, m)
       /\ Claimable(j)
       /\ current' = [current EXCEPT ![w] = m]
       /\ status' = [status EXCEPT ![j] = "running"]
       /\ attemptCount' = [attemptCount EXCEPT ![j] = NextAttempt(@)]
       /\ attempt' = [attempt EXCEPT ![w] = attemptCount'[j]]
  /\ pc' = [pc EXCEPT ![w] = "execute"]
  /\ UNCHANGED <<startedAge, backoff, streamVars, phase, ready, publishing, batch, api, crashes>>

\* claimJob returned no row: executeJob returns and the message is acknowledged.
SkipJob(w) ==
  /\ pc[w] = "process"
  /\ \E m \in MsgId :
       /\ IsNext(w, m)
       /\ ~Claimable(msgJob[m])
       /\ current' = [current EXCEPT ![w] = m]
  /\ pc' = [pc EXCEPT ![w] = "ack"]
  /\ UNCHANGED <<jobVars, streamVars, phase, ready, publishing, batch, attempt, api, crashes>>

\* The final UPDATE names the job alone, not the attempt that earned it.
FinishJob(w) ==
  /\ pc[w] = "execute"
  /\ \E outcome \in Outcomes \ {"error"} :
       status' = [status EXCEPT ![msgJob[current[w]]] = outcome]
  /\ attempt' = [attempt EXCEPT ![w] = 0]
  /\ pc' = [pc EXCEPT ![w] = "ack"]
  /\ UNCHANGED <<attemptCount, startedAge, backoff, streamVars, phase, ready, publishing,
                 batch, current, api, crashes>>

FailJob(w) ==
  /\ pc[w] = "execute"
  /\ "error" \in Outcomes
  /\ LET j == msgJob[current[w]]
         terminal == attempt[w] >= MaxAttempts
     IN /\ status' = [status EXCEPT ![j] = IF terminal THEN "failed" ELSE "retry_wait"]
        /\ backoff' = [backoff EXCEPT ![j] = TRUE]
  /\ attempt' = [attempt EXCEPT ![w] = 0]
  /\ pc' = [pc EXCEPT ![w] = "ack"]
  /\ UNCHANGED <<attemptCount, startedAge, streamVars, phase, ready, publishing, batch,
                 current, api, crashes>>

Acknowledge(w) ==
  /\ pc[w] = "ack"
  /\ msgState' = [msgState EXCEPT ![current[w]] = "acked"]
  /\ batch' = [batch EXCEPT ![w] = @ \ {current[w]}]
  /\ current' = [current EXCEPT ![w] = NoMsg]
  /\ \/ /\ batch'[w] # {}
        /\ pc' = [pc EXCEPT ![w] = "process"]
        /\ UNCHANGED phase
     \/ /\ batch'[w] = {}
        /\ phase[w] = "reclaim"
        /\ pc' = [pc EXCEPT ![w] = "read"]
        /\ UNCHANGED phase
     \/ /\ batch'[w] = {}
        /\ phase[w] = "read"
        /\ pc' = [pc EXCEPT ![w] = "loop"]
        /\ phase' = [phase EXCEPT ![w] = "schedule"]
  /\ UNCHANGED <<jobVars, lastMsg, msgJob, idle, ready, publishing, attempt, api, crashes>>

-----------------------------------------------------------------------------
(* The environment.                                                        *)

\* A worker dies, or an error escapes consume(), and the container restarts it.
Crash(w) ==
  /\ crashes < MaxCrashes
  /\ crashes' = crashes + 1
  /\ pc' = [pc EXCEPT ![w] = "loop"]
  /\ phase' = [phase EXCEPT ![w] = "schedule"]
  /\ ready' = [ready EXCEPT ![w] = {}]
  /\ publishing' = [publishing EXCEPT ![w] = {}]
  /\ batch' = [batch EXCEPT ![w] = {}]
  /\ current' = [current EXCEPT ![w] = NoMsg]
  /\ attempt' = [attempt EXCEPT ![w] = 0]
  /\ UNCHANGED <<jobVars, streamVars, api>>

Tick ==
  /\ startedAge' = [j \in Job |->
       IF attemptCount[j] > 0 /\ startedAge[j] < StaleAge THEN startedAge[j] + 1
       ELSE startedAge[j]]
  /\ idle' = [m \in MsgId |->
       IF msgState[m] = "pending" /\ idle[m] < ClaimIdle THEN idle[m] + 1 ELSE idle[m]]
  /\ backoff' = [j \in Job |-> FALSE]
  /\ UNCHANGED <<status, attemptCount, lastMsg, msgJob, msgState, workerVars, api, crashes>>

Api(j) == ApiCreate(j) \/ ApiXAdd(j) \/ ApiMark(j) \/ ApiDefer(j)

Work(w) ==
  \/ \E j \in ScheduledJob : EnqueueScheduled(w, j)
  \/ SelectReady(w) \/ PublishXAdd(w) \/ PublishMark(w) \/ DeferScheduled(w)
  \/ Reclaim(w) \/ ReadGroup(w)
  \/ ClaimJob(w) \/ SkipJob(w) \/ FinishJob(w) \/ FailJob(w) \/ Acknowledge(w)

Next ==
  \/ \E j \in Job : Api(j)
  \/ \E w \in Worker : Work(w) \/ Crash(w)
  \/ Tick

Spec == Init /\ [][Next]_vars

\* A live worker keeps looping and an execution ends (every wait inside one has a
\* timeout); clocks advance.  Nothing is assumed of the API.
FairSpec == Spec /\ (\A w \in Worker : WF_vars(Work(w))) /\ WF_vars(Tick)

-----------------------------------------------------------------------------
(* Properties.                                                             *)

JobTypeOK ==
  /\ status \in [Job -> Status]
  /\ attemptCount \in [Job -> 0..AttemptCap]
  /\ startedAge \in [Job -> 0..StaleAge]
  /\ backoff \in [Job -> BOOLEAN]

StreamTypeOK ==
  /\ lastMsg \in 0..MaxMsg
  /\ msgJob \in [MsgId -> Job]
  /\ msgState \in [MsgId -> {"absent", "new", "pending", "acked"}]
  /\ idle \in [MsgId -> 0..ClaimIdle]

WorkerTypeOK ==
  /\ pc \in [Worker -> {"loop", "select", "xadd", "mark", "reclaim", "read", "process",
                        "execute", "ack"}]
  /\ phase \in [Worker -> {"schedule", "publish", "reclaim", "read"}]
  /\ ready \in [Worker -> SUBSET Job]
  /\ publishing \in [Worker -> SUBSET Job]
  /\ batch \in [Worker -> SUBSET MsgId]
  /\ current \in [Worker -> MsgId \cup {NoMsg}]
  /\ attempt \in [Worker -> 0..AttemptCap]

\* Every variable keeps its shape; jobs.status stays within its CHECK constraint.
TypeOK ==
  /\ JobTypeOK
  /\ StreamTypeOK
  /\ WorkerTypeOK
  /\ api \in [Job -> {"none", "xadd", "mark", "done"}]
  /\ crashes \in 0..MaxCrashes

\* A message that a consumer group read will still return, now or after ClaimIdle.
Outstanding(j) == \E m \in MsgId : msgJob[m] = j /\ msgState[m] \in {"new", "pending"}

Executing(w, j) == pc[w] = "execute" /\ msgJob[current[w]] = j

\* Whatever crashes between the INSERT, the XADD and the UPDATE, a job no worker
\* has started is either still selected by publishReadyJobs or has a message in
\* the stream: no request accepted by the API is lost before its first attempt.
UnattemptedJobIsCarried ==
  \A j \in Job : status[j] # "absent" /\ attemptCount[j] = 0 =>
    \/ status[j] = "queued"
    \/ status[j] = "published" /\ Outstanding(j)

\* Two workers never work on the same attempt of a job: when a redelivery makes
\* them execute it together, the claim gave them different attempt numbers
\* (numbers past max_attempts are not told apart here).
AttemptsAreDistinct ==
  \A v, w \in Worker : \A j \in Job :
    (v # w /\ Executing(v, j) /\ Executing(w, j)) =>
      attempt[v] # attempt[w] \/ attempt[v] = AttemptCap

\* A message leaves the pending list only for a job some worker has claimed:
\* acknowledging never precedes the first execution.
AckAfterClaim ==
  [][\A m \in MsgId : (msgState'[m] = "acked" /\ msgState[m] # "acked") =>
       attemptCount[msgJob[m]] > 0]_vars

\* Neither a redelivered message nor a publisher that lags behind puts a finished
\* job back to work: the only way out of a terminal status is the final UPDATE of
\* an execution claimed before the job finished.
FinishedNotRestarted ==
  [][\A j \in Job : (status[j] \in Terminal /\ status'[j] # status[j]) =>
       status'[j] \in Terminal \cup {"retry_wait"} /\ \E w \in Worker : Executing(w, j)]_vars

\* A message that still brings a job to a worker: the acknowledgement of it has not begun.
Returns(j) ==
  \E m \in MsgId :
    /\ msgJob[m] = j /\ msgState[m] \in {"new", "pending"}
    /\ \A w \in Worker : ~(pc[w] = "ack" /\ current[w] = m)

\* Something will still happen to a job: it is selected, delivered or executed.
Carried(j) ==
  \/ status[j] \in {"absent"} \cup Ready \cup Terminal
  \/ Returns(j)
  \/ \E w \in Worker : Executing(w, j)

\* A job that is carried is lost in two ways only, whatever overtakes what: the UPDATE of
\* a publication comes so late that its message has failed already, and takes the job from
\* retry_wait to published; or the worker that executes it dies, and another takes its
\* message for a duplicate, before that or later, while the job still says it is running.
OnlyLateMarksOrCrashesLose ==
  [][\A j \in Job : Carried(j) /\ ~Carried(j)' =>
       \/ status[j] = "retry_wait" /\ status'[j] = "published"
       \/ \E w \in Worker : Executing(w, j) /\ crashes' > crashes
       \/ status'[j] = "running" /\ crashes > 0]_vars

\* Liveness: every inserted job is executed at least once, crashes notwithstanding.
EveryJobIsAttempted == \A j \in Job : (status[j] = "queued") ~> (attemptCount[j] > 0)

\* Liveness: once the request that created it is over, a queued job reaches a
\* terminal status in a bounded number of attempts, unless a worker crashes.
EveryJobEnds ==
  \A j \in Job : (status[j] = "queued" /\ api[j] \in {"none", "done"}) ~>
    (status[j] \in Terminal \/ crashes > 0)

-----------------------------------------------------------------------------
(* What the documents say and the code does not keep.                      *)

\* "delivery is acknowledged only after durable completion" (README.md:32): a job
\* stored as running is executed by a worker or can still be redelivered.
RunningJobIsRecoverable ==
  \A j \in Job : status[j] = "running" =>
    Outstanding(j) \/ \E w \in Worker : Executing(w, j)
=============================================================================
