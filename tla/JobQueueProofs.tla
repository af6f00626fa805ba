--------------------------- MODULE JobQueueProofs ---------------------------
(***************************************************************************)
(* Safety of the durable job queue for any number of jobs, workers,        *)
(* messages and crashes.                                                   *)
(***************************************************************************)
EXTENDS JobQueue, TLAPS

\* Only inserted jobs are published, delivered or being published.
OnlyInsertedJobsTravel ==
  \A j \in Job : status[j] = "absent" =>
    /\ attemptCount[j] = 0
    /\ api[j] \notin {"xadd", "mark"}
    /\ \A w \in Worker : j \notin ready[w] /\ j \notin publishing[w]
    /\ \A m \in MsgId : m <= lastMsg => msgJob[m] # j

\* The stream is filled from the bottom, and workers hold entries it contains.
StreamIsDense ==
  /\ \A m \in MsgId : msgState[m] = "absent" <=> m > lastMsg
  /\ \A w \in Worker : \A m \in batch[w] : m <= lastMsg
  /\ \A w \in Worker : current[w] <= lastMsg

\* A status an execution stores is found only on a job that has been claimed.
ResultAfterClaim ==
  \A j \in Job : attemptCount[j] = 0 => status[j] \in {"absent", "queued", "published"}

\* Between XADD and UPDATE the message is there, unless a worker already started.
PublishedHalfway ==
  \A j \in Job : attemptCount[j] = 0 =>
    /\ api[j] = "mark" => Outstanding(j)
    /\ \A w \in Worker : j \in publishing[w] => Outstanding(j)

\* A worker executes, and acknowledges, only messages of jobs that have been claimed,
\* and the attempt it works on is one of those counted.
HandledJobIsClaimed ==
  \A w \in Worker : pc[w] \in {"execute", "ack"} =>
    /\ current[w] \in MsgId
    /\ attemptCount[msgJob[current[w]]] > 0
    /\ pc[w] = "execute" => attempt[w] <= attemptCount[msgJob[current[w]]]

IInv ==
  /\ TypeOK
  /\ OnlyInsertedJobsTravel
  /\ StreamIsDense
  /\ ResultAfterClaim
  /\ PublishedHalfway
  /\ HandledJobIsClaimed
  /\ UnattemptedJobIsCarried
  /\ AttemptsAreDistinct

-----------------------------------------------------------------------------
LEMMA InitInvariant == Init => IInv
<1> SUFFICES ASSUME Init PROVE IInv
  OBVIOUS
<1> USE ConstantsAssumption DEF Init
<1>1. TypeOK
  BY DEF TypeOK, JobTypeOK, StreamTypeOK, WorkerTypeOK, Job, MsgId, NoMsg, AttemptCap, StaleAge, Status, Ready, Terminal
<1>2. OnlyInsertedJobsTravel /\ StreamIsDense
  BY DEF OnlyInsertedJobsTravel, StreamIsDense, MsgId, NoMsg
<1>3. ResultAfterClaim /\ PublishedHalfway /\ HandledJobIsClaimed
  BY DEF ResultAfterClaim, PublishedHalfway, HandledJobIsClaimed
<1>4. UnattemptedJobIsCarried /\ AttemptsAreDistinct
  BY DEF UnattemptedJobIsCarried, AttemptsAreDistinct, Executing
<1> QED
  BY <1>1, <1>2, <1>3, <1>4 DEF IInv

-----------------------------------------------------------------------------
(* Types.                                                                  *)

LEMMA JobIsUnion == ApiJob \subseteq Job /\ ScheduledJob \subseteq Job
BY DEF Job

LEMMA BoundsAreNaturals ==
  /\ MaxMsg \in Nat /\ MaxCrashes \in Nat
  /\ AttemptCap \in Nat \ {0} /\ StaleAge \in Nat \ {0} /\ ClaimIdle \in Nat
BY ConstantsAssumption DEF AttemptCap, StaleAge

\* A row that is inserted or marked keeps the type of the table.
LEMMA StatusType ==
  ASSUME JobTypeOK, NEW j \in Job, InsertJob(j) \/ MarkPublished(j),
         UNCHANGED <<attemptCount, startedAge, backoff>>
  PROVE  JobTypeOK'
BY DEF JobTypeOK, InsertJob, MarkPublished, Status, Ready

LEMMA XAddType ==
  ASSUME StreamTypeOK, NEW j \in Job, XAdd(j)
  PROVE  StreamTypeOK'
<1>1. lastMsg' \in 0..MaxMsg /\ lastMsg + 1 \in MsgId
  BY BoundsAreNaturals DEF StreamTypeOK, XAdd, MsgId
<1>2. 0 \in 0..ClaimIdle
  BY BoundsAreNaturals
<1> QED
  BY <1>1, <1>2 DEF StreamTypeOK, XAdd

LEMMA DeliverType ==
  ASSUME StreamTypeOK, WorkerTypeOK, NEW w \in Worker, NEW S \in SUBSET MsgId, Deliver(w, S)
  PROVE  StreamTypeOK' /\ batch' \in [Worker -> SUBSET MsgId]
<1>1. 0 \in 0..ClaimIdle
  BY BoundsAreNaturals
<1> QED
  BY <1>1 DEF StreamTypeOK, WorkerTypeOK, Deliver

LEMMA NextAttemptType ==
  ASSUME NEW n \in 0..AttemptCap
  PROVE  /\ NextAttempt(n) \in 1..AttemptCap
         /\ \/ NextAttempt(n) = n + 1
            \/ n = AttemptCap /\ NextAttempt(n) = AttemptCap
<1>1. n \in Nat /\ AttemptCap \in Nat \ {0} /\ n <= AttemptCap
  BY BoundsAreNaturals
<1>2. CASE n < AttemptCap
  BY <1>1, <1>2 DEF NextAttempt
<1>3. CASE n = AttemptCap
  BY <1>1, <1>3 DEF NextAttempt
<1> QED
  BY <1>1, <1>2, <1>3

LEMMA ClaimType ==
  ASSUME TypeOK, NEW w \in Worker, ClaimJob(w)
  PROVE  JobTypeOK' /\ WorkerTypeOK'
<1> PICK m \in MsgId : ClaimJob(w)!2!(m)
  BY DEF ClaimJob
<1> DEFINE j == msgJob[m]
<1>1. j \in Job /\ attemptCount[j] \in 0..AttemptCap
  BY DEF TypeOK, StreamTypeOK, JobTypeOK
<1>2. NextAttempt(attemptCount[j]) \in 0..AttemptCap
  BY <1>1, NextAttemptType, BoundsAreNaturals
<1>3. attemptCount' \in [Job -> 0..AttemptCap]
  BY <1>1, <1>2 DEF TypeOK, JobTypeOK
<1>4. status' \in [Job -> Status]
  BY <1>1 DEF TypeOK, JobTypeOK, Status
<1>5. current' \in [Worker -> MsgId \cup {NoMsg}] /\ attempt' \in [Worker -> 0..AttemptCap]
  BY <1>1, <1>3 DEF TypeOK, WorkerTypeOK
<1>6. pc' \in [Worker -> {"loop", "select", "xadd", "mark", "reclaim", "read", "process",
                          "execute", "ack"}]
  BY DEF ClaimJob, TypeOK, WorkerTypeOK
<1> QED
  BY <1>3, <1>4, <1>5, <1>6 DEF ClaimJob, TypeOK, JobTypeOK, WorkerTypeOK

LEMMA TickType ==
  ASSUME TypeOK, Tick
  PROVE  TypeOK'
<1>1. ASSUME NEW n \in 0..StaleAge PROVE n < StaleAge => n + 1 \in 0..StaleAge
  BY BoundsAreNaturals
<1>2. startedAge' \in [Job -> 0..StaleAge] /\ backoff' \in [Job -> BOOLEAN]
  BY <1>1 DEF Tick, TypeOK, JobTypeOK
<1>3. ASSUME NEW n \in 0..ClaimIdle PROVE n < ClaimIdle => n + 1 \in 0..ClaimIdle
  BY BoundsAreNaturals
<1>4. idle' \in [MsgId -> 0..ClaimIdle]
  BY <1>3 DEF Tick, TypeOK, StreamTypeOK
<1> QED
  BY <1>2, <1>4 DEF Tick, TypeOK, JobTypeOK, StreamTypeOK, WorkerTypeOK, workerVars

\* Every step preserves the types.
LEMMA TypeStep == TypeOK /\ [Next]_vars => TypeOK'
<1> SUFFICES ASSUME TypeOK, [Next]_vars PROVE TypeOK'
  OBVIOUS
<1>u. ASSUME UNCHANGED jobVars PROVE JobTypeOK'
  BY <1>u DEF TypeOK, JobTypeOK, jobVars
<1>v. ASSUME UNCHANGED streamVars PROVE StreamTypeOK'
  BY <1>v DEF TypeOK, StreamTypeOK, streamVars
<1>w. ASSUME UNCHANGED workerVars PROVE WorkerTypeOK'
  BY <1>w DEF TypeOK, WorkerTypeOK, workerVars
<1>z. 0 \in 0..AttemptCap
  BY BoundsAreNaturals
<1>1. ASSUME NEW j \in Job, Api(j) PROVE TypeOK'
  <2>1. CASE ApiCreate(j)
    BY <2>1, <1>v, <1>w, StatusType DEF ApiCreate, TypeOK
  <2>2. CASE ApiXAdd(j)
    BY <2>2, <1>u, <1>w, XAddType DEF ApiXAdd, TypeOK
  <2>3. CASE ApiMark(j)
    BY <2>3, <1>v, <1>w, StatusType DEF ApiMark, TypeOK
  <2>4. CASE ApiDefer(j)
    BY <2>4, <1>u, <1>v, <1>w DEF ApiDefer, TypeOK
  <2> QED
    BY <1>1, <2>1, <2>2, <2>3, <2>4 DEF Api
<1>2. ASSUME NEW w \in Worker, Work(w) PROVE TypeOK'
  <2>1. ASSUME NEW j \in ScheduledJob, EnqueueScheduled(w, j) PROVE TypeOK'
    <3>1. JobTypeOK'
      BY <2>1, <1>u, JobIsUnion, StatusType DEF EnqueueScheduled, TypeOK, jobVars
    <3>2. WorkerTypeOK'
      BY <2>1, JobIsUnion DEF EnqueueScheduled, TypeOK, WorkerTypeOK
    <3> QED
      BY <2>1, <3>1, <3>2, <1>v DEF EnqueueScheduled, TypeOK
  <2>2. CASE SelectReady(w)
    <3>1. WorkerTypeOK'
      BY <2>2 DEF SelectReady, TypeOK, WorkerTypeOK
    <3> QED
      BY <2>2, <3>1, <1>u, <1>v DEF SelectReady, TypeOK
  <2>3. CASE PublishXAdd(w)
    <3>1. WorkerTypeOK'
      BY <2>3 DEF PublishXAdd, TypeOK, WorkerTypeOK
    <3>2. StreamTypeOK'
      BY <2>3, XAddType DEF PublishXAdd, TypeOK, WorkerTypeOK
    <3> QED
      BY <2>3, <3>1, <3>2, <1>u DEF PublishXAdd, TypeOK
  <2>4. CASE PublishMark(w)
    <3>1. WorkerTypeOK'
      BY <2>4 DEF PublishMark, AfterPublish, TypeOK, WorkerTypeOK
    <3>2. JobTypeOK'
      BY <2>4, StatusType DEF PublishMark, TypeOK, WorkerTypeOK
    <3> QED
      BY <2>4, <3>1, <3>2, <1>v DEF PublishMark, TypeOK
  <2>5. CASE DeferScheduled(w)
    <3>1. WorkerTypeOK'
      BY <2>5 DEF DeferScheduled, TypeOK, WorkerTypeOK
    <3> QED
      BY <2>5, <3>1, <1>u, <1>v DEF DeferScheduled, TypeOK
  <2>6. CASE Reclaim(w)
    <3>1. Oldest(Idle, ReclaimCount) \in SUBSET MsgId
      BY DEF Oldest, Idle
    <3>2. StreamTypeOK' /\ batch' \in [Worker -> SUBSET MsgId]
      BY <2>6, <3>1, DeliverType DEF Reclaim, TypeOK
    <3>3. WorkerTypeOK'
      BY <2>6, <3>2 DEF Reclaim, TypeOK, WorkerTypeOK
    <3> QED
      BY <2>6, <3>2, <3>3, <1>u DEF Reclaim, TypeOK
  <2>7. CASE ReadGroup(w)
    <3>1. Oldest(Undelivered, ReadCount) \in SUBSET MsgId
      BY DEF Oldest, Undelivered
    <3>2. StreamTypeOK' /\ batch' \in [Worker -> SUBSET MsgId]
      BY <2>7, <3>1, DeliverType DEF ReadGroup, TypeOK
    <3>3. WorkerTypeOK'
      BY <2>7, <3>2 DEF ReadGroup, TypeOK, WorkerTypeOK
    <3> QED
      BY <2>7, <3>2, <3>3, <1>u DEF ReadGroup, TypeOK
  <2>8. CASE ClaimJob(w)
    BY <2>8, ClaimType, <1>v DEF ClaimJob, TypeOK
  <2>9. CASE SkipJob(w)
    <3>1. WorkerTypeOK'
      BY <2>9 DEF SkipJob, TypeOK, WorkerTypeOK
    <3> QED
      BY <2>9, <3>1, <1>u, <1>v DEF SkipJob, TypeOK
  <2>10. CASE FinishJob(w)
    <3>1. JobTypeOK'
      BY <2>10, ConstantsAssumption DEF FinishJob, TypeOK, JobTypeOK, Status, Terminal
    <3>2. WorkerTypeOK'
      BY <2>10, <1>z DEF FinishJob, TypeOK, WorkerTypeOK
    <3> QED
      BY <2>10, <3>1, <3>2, <1>v DEF FinishJob, TypeOK
  <2>11. CASE FailJob(w)
    <3>1. JobTypeOK'
      BY <2>11 DEF FailJob, TypeOK, JobTypeOK, Status, Terminal, Ready
    <3>2. WorkerTypeOK'
      BY <2>11, <1>z DEF FailJob, TypeOK, WorkerTypeOK
    <3> QED
      BY <2>11, <3>1, <3>2, <1>v DEF FailJob, TypeOK
  <2>12. CASE Acknowledge(w)
    <3>1. StreamTypeOK'
      BY <2>12 DEF Acknowledge, TypeOK, StreamTypeOK
    <3>2. WorkerTypeOK'
      BY <2>12 DEF Acknowledge, TypeOK, WorkerTypeOK
    <3> QED
      BY <2>12, <3>1, <3>2, <1>u DEF Acknowledge, TypeOK
  <2> QED
    BY <1>2, <2>1, <2>2, <2>3, <2>4, <2>5, <2>6, <2>7, <2>8, <2>9, <2>10, <2>11, <2>12
       DEF Work
<1>3. ASSUME NEW w \in Worker, Crash(w) PROVE TypeOK'
  <2>1. crashes' \in 0..MaxCrashes
    BY <1>3, BoundsAreNaturals DEF Crash, TypeOK
  <2>2. WorkerTypeOK'
    BY <1>3, <1>z DEF Crash, TypeOK, WorkerTypeOK
  <2> QED
    BY <1>3, <2>1, <2>2, <1>u, <1>v DEF Crash, TypeOK
<1>4. CASE Tick
  BY <1>4, TickType
<1>5. CASE UNCHANGED vars
  BY <1>5, <1>u, <1>v, <1>w DEF vars, TypeOK
<1> QED
  BY <1>1, <1>2, <1>3, <1>4, <1>5 DEF Next
-----------------------------------------------------------------------------
(* The parts of the invariant, one lemma for each.                             *)

\* The entry XADD appends: above all others, undelivered, about job j.
LEMMA XAddEntry ==
  ASSUME TypeOK, StreamIsDense, NEW j \in Job, XAdd(j)
  PROVE  /\ lastMsg' = lastMsg + 1
         /\ lastMsg + 1 \in MsgId
         /\ msgJob'[lastMsg + 1] = j
         /\ msgState'[lastMsg + 1] = "new"
         /\ \A m \in MsgId : m # lastMsg + 1 =>
              msgJob'[m] = msgJob[m] /\ msgState'[m] = msgState[m]
         /\ \A i \in Job : Outstanding(i) => Outstanding(i)'
         /\ Outstanding(j)'
<1>1. /\ lastMsg' = lastMsg + 1
      /\ lastMsg + 1 \in MsgId
      /\ msgJob'[lastMsg + 1] = j
      /\ msgState'[lastMsg + 1] = "new"
      /\ \A m \in MsgId : m # lastMsg + 1 =>
           msgJob'[m] = msgJob[m] /\ msgState'[m] = msgState[m]
  BY BoundsAreNaturals DEF XAdd, TypeOK, StreamTypeOK, MsgId
<1>2. msgState[lastMsg + 1] = "absent"
  BY <1>1, BoundsAreNaturals DEF StreamIsDense, TypeOK, StreamTypeOK
<1>3. ASSUME NEW i \in Job, Outstanding(i) PROVE Outstanding(i)'
  BY <1>1, <1>2, <1>3 DEF Outstanding
<1>4. Outstanding(j)'
  BY <1>1 DEF Outstanding
<1> QED
  BY <1>1, <1>3, <1>4

\* The appended entry carries no job that has no row.
LEMMA XAddTravels ==
  ASSUME TypeOK, StreamIsDense, OnlyInsertedJobsTravel,
         NEW j \in Job, XAdd(j), status[j] # "absent",
         NEW i \in Job, status[i] = "absent", NEW m \in MsgId, m <= lastMsg'
  PROVE  msgJob'[m] # i
<1>1. CASE m = lastMsg + 1
  BY <1>1, XAddEntry
<1>2. CASE m # lastMsg + 1
  <2>1. m <= lastMsg
    BY <1>2, XAddEntry, BoundsAreNaturals DEF TypeOK, StreamTypeOK, MsgId
  <2> QED
    BY <1>2, <2>1, XAddEntry DEF OnlyInsertedJobsTravel
<1> QED
  BY <1>1, <1>2

LEMMA XAddDense ==
  ASSUME TypeOK, StreamIsDense, NEW j \in Job, XAdd(j)
  PROVE  /\ \A m \in MsgId : msgState'[m] = "absent" <=> m > lastMsg'
         /\ \A m \in MsgId \cup {NoMsg} : m <= lastMsg => m <= lastMsg'
<1> USE XAddEntry, BoundsAreNaturals DEF TypeOK, StreamTypeOK, MsgId, NoMsg
<1>1. ASSUME NEW m \in MsgId PROVE msgState'[m] = "absent" <=> m > lastMsg'
  <2>1. CASE m = lastMsg + 1
    BY <2>1
  <2>2. CASE m # lastMsg + 1
    <3>1. msgState'[m] = msgState[m] /\ (msgState[m] = "absent" <=> m > lastMsg)
      BY <2>2 DEF StreamIsDense
    <3>2. m > lastMsg <=> m > lastMsg'
      BY <2>2
    <3> QED
      BY <3>1, <3>2
  <2> QED
    BY <2>1, <2>2
<1>2. ASSUME NEW m \in MsgId \cup {NoMsg}, m <= lastMsg PROVE m <= lastMsg'
  BY <1>2
<1> QED
  BY <1>1, <1>2

\* A group read hands out entries of the stream.
LEMMA DeliverDense ==
  ASSUME TypeOK, StreamIsDense, NEW w \in Worker, NEW S \in SUBSET MsgId,
         \A m \in S : msgState[m] # "absent", Deliver(w, S), UNCHANGED current
  PROVE  StreamIsDense'
<1>1. \A m \in S : m <= lastMsg
  BY BoundsAreNaturals DEF StreamIsDense, TypeOK, StreamTypeOK, MsgId
<1> QED
  BY <1>1 DEF Deliver, StreamIsDense, TypeOK, StreamTypeOK, WorkerTypeOK

\* What a claim does to the job of the message it takes, and to nothing else.
ClaimOf(w, m) ==
  LET j == msgJob[m] IN
    /\ m \in batch[w] /\ m <= lastMsg /\ j \in Job
    /\ Claimable(j)
    /\ current' = [current EXCEPT ![w] = m]
    /\ status' = [status EXCEPT ![j] = "running"]
    /\ \A i \in Job : i # j => attemptCount'[i] = attemptCount[i]
    /\ attemptCount'[j] \in 1..AttemptCap
    /\ \/ attemptCount'[j] = attemptCount[j] + 1
       \/ attemptCount[j] = AttemptCap /\ attemptCount'[j] = AttemptCap
    /\ attempt' = [attempt EXCEPT ![w] = attemptCount'[j]]

LEMMA ClaimEffect ==
  ASSUME TypeOK, StreamIsDense, NEW w \in Worker, ClaimJob(w)
  PROVE  \E m \in MsgId : ClaimOf(w, m)
<1> PICK m \in MsgId : ClaimJob(w)!2!(m)
  BY DEF ClaimJob
<1> DEFINE j == msgJob[m]
<1>1. m \in batch[w] /\ m <= lastMsg
  BY DEF IsNext, StreamIsDense
<1>2. j \in Job /\ attemptCount[j] \in 0..AttemptCap
  BY DEF TypeOK, StreamTypeOK, JobTypeOK
<1>3. attemptCount' = [attemptCount EXCEPT ![j] = NextAttempt(attemptCount[j])]
  BY <1>2 DEF TypeOK, JobTypeOK
<1>4. /\ attemptCount'[j] = NextAttempt(attemptCount[j])
      /\ \A i \in Job : i # j => attemptCount'[i] = attemptCount[i]
  BY <1>2, <1>3 DEF TypeOK, JobTypeOK
<1>5. NextAttempt(attemptCount[j]) \in 1..AttemptCap
      /\ \/ NextAttempt(attemptCount[j]) = attemptCount[j] + 1
         \/ attemptCount[j] = AttemptCap /\ NextAttempt(attemptCount[j]) = AttemptCap
  BY <1>2, NextAttemptType
<1> QED
  BY <1>1, <1>2, <1>4, <1>5 DEF ClaimOf

\* A job that has no row is in no stream entry and on no publisher's list.
LEMMA StepOnlyInsertedJobsTravel == IInv /\ TypeOK' /\ [Next]_vars => OnlyInsertedJobsTravel'
<1> SUFFICES ASSUME IInv, TypeOK', [Next]_vars PROVE OnlyInsertedJobsTravel'
  OBVIOUS
<1>t. TypeOK /\ OnlyInsertedJobsTravel /\ StreamIsDense /\ ResultAfterClaim
      /\ PublishedHalfway /\ HandledJobIsClaimed /\ UnattemptedJobIsCarried
      /\ AttemptsAreDistinct
  BY DEF IInv
<1> USE <1>t DEF OnlyInsertedJobsTravel, TypeOK, JobTypeOK, StreamTypeOK, WorkerTypeOK, Ready, jobVars, streamVars, workerVars
<1>1. ASSUME NEW j \in Job, Api(j) PROVE OnlyInsertedJobsTravel'
  <2>1. CASE ApiCreate(j)
    BY <2>1 DEF ApiCreate, InsertJob
  <2>2. CASE ApiXAdd(j)
    BY <2>2, XAddTravels DEF ApiXAdd
  <2>3. CASE ApiMark(j)
    BY <2>3 DEF ApiMark, MarkPublished
  <2>4. CASE ApiDefer(j)
    BY <2>4 DEF ApiDefer
  <2> QED
    BY <1>1, <2>1, <2>2, <2>3, <2>4 DEF Api
<1>2. ASSUME NEW w \in Worker, Work(w) PROVE OnlyInsertedJobsTravel'
  <2>1. ASSUME NEW j \in ScheduledJob, EnqueueScheduled(w, j) PROVE OnlyInsertedJobsTravel'
    BY <2>1, JobIsUnion DEF EnqueueScheduled, InsertJob
  <2>2. CASE SelectReady(w)
    BY <2>2 DEF SelectReady
  <2>3. CASE PublishXAdd(w)
    <3> PICK j \in ready[w] : XAdd(j) /\ publishing' = [publishing EXCEPT ![w] = {j}]
      BY <2>3 DEF PublishXAdd
    <3> QED
      BY <2>3, XAddTravels DEF PublishXAdd
  <2>4. CASE PublishMark(w)
    BY <2>4 DEF PublishMark, MarkPublished
  <2>5. CASE DeferScheduled(w)
    BY <2>5 DEF DeferScheduled
  <2>6. CASE Reclaim(w)
    BY <2>6 DEF Reclaim, Deliver, Oldest, Idle
  <2>7. CASE ReadGroup(w)
    BY <2>7 DEF ReadGroup, Deliver, Oldest, Undelivered
  <2>8. CASE ClaimJob(w)
    <3> PICK m \in MsgId : ClaimOf(w, m)
      BY <2>8, ClaimEffect
    <3> QED
      BY <2>8 DEF ClaimJob, ClaimOf
  <2>9. CASE SkipJob(w)
    BY <2>9 DEF SkipJob
  <2>10. CASE FinishJob(w)
    BY <2>10, ConstantsAssumption DEF FinishJob
  <2>11. CASE FailJob(w)
    BY <2>11 DEF FailJob
  <2>12. CASE Acknowledge(w)
    BY <2>12 DEF Acknowledge
  <2> QED
    BY <1>2, <2>1, <2>2, <2>3, <2>4, <2>5, <2>6, <2>7, <2>8, <2>9, <2>10, <2>11, <2>12
       DEF Work
<1>3. ASSUME NEW w \in Worker, Crash(w) PROVE OnlyInsertedJobsTravel'
  BY <1>3 DEF Crash
<1>4. CASE Tick
  BY <1>4 DEF Tick
<1>5. CASE UNCHANGED vars
  BY <1>5 DEF vars
<1> QED
  BY <1>1, <1>2, <1>3, <1>4, <1>5 DEF Next

\* The stream grows by one entry at a time, and workers are handed entries it has.
LEMMA StepStreamIsDense == IInv /\ TypeOK' /\ [Next]_vars => StreamIsDense'
<1> SUFFICES ASSUME IInv, TypeOK', [Next]_vars PROVE StreamIsDense'
  OBVIOUS
<1>t. TypeOK /\ OnlyInsertedJobsTravel /\ StreamIsDense /\ ResultAfterClaim
      /\ PublishedHalfway /\ HandledJobIsClaimed /\ UnattemptedJobIsCarried
      /\ AttemptsAreDistinct
  BY DEF IInv
<1> USE <1>t DEF StreamIsDense, TypeOK, StreamTypeOK, WorkerTypeOK, jobVars, streamVars, workerVars
<1>1. ASSUME NEW j \in Job, Api(j) PROVE StreamIsDense'
  <2>1. CASE ApiCreate(j)
    BY <2>1 DEF ApiCreate, InsertJob
  <2>2. CASE ApiXAdd(j)
    BY <2>2, XAddDense DEF ApiXAdd
  <2>3. CASE ApiMark(j)
    BY <2>3 DEF ApiMark, MarkPublished
  <2>4. CASE ApiDefer(j)
    BY <2>4 DEF ApiDefer
  <2> QED
    BY <1>1, <2>1, <2>2, <2>3, <2>4 DEF Api
<1>2. ASSUME NEW w \in Worker, Work(w) PROVE StreamIsDense'
  <2>1. ASSUME NEW j \in ScheduledJob, EnqueueScheduled(w, j) PROVE StreamIsDense'
    BY <2>1 DEF EnqueueScheduled, InsertJob
  <2>2. CASE SelectReady(w)
    BY <2>2 DEF SelectReady
  <2>3. CASE PublishXAdd(w)
    <3> PICK j \in ready[w] : XAdd(j) /\ publishing' = [publishing EXCEPT ![w] = {j}]
      BY <2>3 DEF PublishXAdd
    <3> QED
      BY <2>3, XAddDense DEF PublishXAdd
  <2>4. CASE PublishMark(w)
    BY <2>4 DEF PublishMark, MarkPublished
  <2>5. CASE DeferScheduled(w)
    BY <2>5 DEF DeferScheduled
  <2>6. CASE Reclaim(w)
    <3>1. Oldest(Idle, ReclaimCount) \in SUBSET MsgId
          /\ \A m \in Oldest(Idle, ReclaimCount) : msgState[m] # "absent"
      BY DEF Oldest, Idle
    <3> QED
      BY <2>6, <3>1, DeliverDense DEF Reclaim
  <2>7. CASE ReadGroup(w)
    <3>1. Oldest(Undelivered, ReadCount) \in SUBSET MsgId
          /\ \A m \in Oldest(Undelivered, ReadCount) : msgState[m] # "absent"
      BY DEF Oldest, Undelivered
    <3> QED
      BY <2>7, <3>1, DeliverDense DEF ReadGroup
  <2>8. CASE ClaimJob(w)
    <3> PICK m \in MsgId : ClaimOf(w, m)
      BY <2>8, ClaimEffect
    <3> QED
      BY <2>8 DEF ClaimJob, ClaimOf
  <2>9. CASE SkipJob(w)
    BY <2>9 DEF SkipJob, IsNext
  <2>10. CASE FinishJob(w)
    BY <2>10 DEF FinishJob
  <2>11. CASE FailJob(w)
    BY <2>11 DEF FailJob
  <2>12. CASE Acknowledge(w)
    BY <2>12, BoundsAreNaturals DEF Acknowledge, NoMsg, MsgId
  <2> QED
    BY <1>2, <2>1, <2>2, <2>3, <2>4, <2>5, <2>6, <2>7, <2>8, <2>9, <2>10, <2>11, <2>12
       DEF Work
<1>3. ASSUME NEW w \in Worker, Crash(w) PROVE StreamIsDense'
  BY <1>3, BoundsAreNaturals DEF Crash, NoMsg, MsgId
<1>4. CASE Tick
  BY <1>4 DEF Tick
<1>5. CASE UNCHANGED vars
  BY <1>5 DEF vars
<1> QED
  BY <1>1, <1>2, <1>3, <1>4, <1>5 DEF Next

\* Only the UPDATEs that follow a claim store a result.
LEMMA StepResultAfterClaim == IInv /\ TypeOK' /\ [Next]_vars => ResultAfterClaim'
<1> SUFFICES ASSUME IInv, TypeOK', [Next]_vars PROVE ResultAfterClaim'
  OBVIOUS
<1>t. TypeOK /\ OnlyInsertedJobsTravel /\ StreamIsDense /\ ResultAfterClaim
      /\ PublishedHalfway /\ HandledJobIsClaimed /\ UnattemptedJobIsCarried
      /\ AttemptsAreDistinct
  BY DEF IInv
<1> USE <1>t DEF ResultAfterClaim, HandledJobIsClaimed, TypeOK, JobTypeOK, StreamTypeOK, WorkerTypeOK, Ready, jobVars, streamVars, workerVars
<1>1. ASSUME NEW j \in Job, Api(j) PROVE ResultAfterClaim'
  <2>1. CASE ApiCreate(j)
    BY <2>1 DEF ApiCreate, InsertJob
  <2>2. CASE ApiXAdd(j)
    BY <2>2 DEF ApiXAdd
  <2>3. CASE ApiMark(j)
    BY <2>3 DEF ApiMark, MarkPublished
  <2>4. CASE ApiDefer(j)
    BY <2>4 DEF ApiDefer
  <2> QED
    BY <1>1, <2>1, <2>2, <2>3, <2>4 DEF Api
<1>2. ASSUME NEW w \in Worker, Work(w) PROVE ResultAfterClaim'
  <2>1. ASSUME NEW j \in ScheduledJob, EnqueueScheduled(w, j) PROVE ResultAfterClaim'
    BY <2>1, JobIsUnion DEF EnqueueScheduled, InsertJob
  <2>2. CASE SelectReady(w)
    BY <2>2 DEF SelectReady
  <2>3. CASE PublishXAdd(w)
    BY <2>3 DEF PublishXAdd
  <2>4. CASE PublishMark(w)
    BY <2>4 DEF PublishMark, MarkPublished
  <2>5. CASE DeferScheduled(w)
    BY <2>5 DEF DeferScheduled
  <2>6. CASE Reclaim(w)
    BY <2>6 DEF Reclaim, Deliver, Oldest, Idle
  <2>7. CASE ReadGroup(w)
    BY <2>7 DEF ReadGroup, Deliver, Oldest, Undelivered
  <2>8. CASE ClaimJob(w)
    <3> PICK m \in MsgId : ClaimOf(w, m)
      BY <2>8, ClaimEffect
    <3> QED
      BY <2>8 DEF ClaimJob, ClaimOf
  <2>9. CASE SkipJob(w)
    BY <2>9 DEF SkipJob
  <2>10. CASE FinishJob(w)
    BY <2>10 DEF FinishJob
  <2>11. CASE FailJob(w)
    BY <2>11 DEF FailJob
  <2>12. CASE Acknowledge(w)
    BY <2>12 DEF Acknowledge
  <2> QED
    BY <1>2, <2>1, <2>2, <2>3, <2>4, <2>5, <2>6, <2>7, <2>8, <2>9, <2>10, <2>11, <2>12
       DEF Work
<1>3. ASSUME NEW w \in Worker, Crash(w) PROVE ResultAfterClaim'
  BY <1>3 DEF Crash
<1>4. CASE Tick
  BY <1>4 DEF Tick
<1>5. CASE UNCHANGED vars
  BY <1>5 DEF vars
<1> QED
  BY <1>1, <1>2, <1>3, <1>4, <1>5 DEF Next

\* No message of a job that was never claimed is acknowledged.
LEMMA StepPublishedHalfway == IInv /\ TypeOK' /\ [Next]_vars => PublishedHalfway'
<1> SUFFICES ASSUME IInv, TypeOK', [Next]_vars PROVE PublishedHalfway'
  OBVIOUS
<1>t. TypeOK /\ OnlyInsertedJobsTravel /\ StreamIsDense /\ ResultAfterClaim
      /\ PublishedHalfway /\ HandledJobIsClaimed /\ UnattemptedJobIsCarried
      /\ AttemptsAreDistinct
  BY DEF IInv
<1> USE <1>t DEF PublishedHalfway, Outstanding, HandledJobIsClaimed, OnlyInsertedJobsTravel, TypeOK, JobTypeOK, StreamTypeOK, WorkerTypeOK, jobVars, streamVars, workerVars
<1>1. ASSUME NEW j \in Job, Api(j) PROVE PublishedHalfway'
  <2>1. CASE ApiCreate(j)
    BY <2>1 DEF ApiCreate, InsertJob
  <2>2. CASE ApiXAdd(j)
    BY <2>2, XAddEntry DEF ApiXAdd
  <2>3. CASE ApiMark(j)
    BY <2>3 DEF ApiMark, MarkPublished
  <2>4. CASE ApiDefer(j)
    BY <2>4 DEF ApiDefer
  <2> QED
    BY <1>1, <2>1, <2>2, <2>3, <2>4 DEF Api
<1>2. ASSUME NEW w \in Worker, Work(w) PROVE PublishedHalfway'
  <2>1. ASSUME NEW j \in ScheduledJob, EnqueueScheduled(w, j) PROVE PublishedHalfway'
    BY <2>1 DEF EnqueueScheduled, InsertJob
  <2>2. CASE SelectReady(w)
    BY <2>2 DEF SelectReady
  <2>3. CASE PublishXAdd(w)
    <3> PICK j \in ready[w] : XAdd(j) /\ publishing' = [publishing EXCEPT ![w] = {j}]
      BY <2>3 DEF PublishXAdd
    <3> QED
      BY <2>3, XAddEntry DEF PublishXAdd
  <2>4. CASE PublishMark(w)
    BY <2>4 DEF PublishMark, MarkPublished
  <2>5. CASE DeferScheduled(w)
    BY <2>5 DEF DeferScheduled
  <2>6. CASE Reclaim(w)
    BY <2>6 DEF Reclaim, Deliver, Oldest, Idle
  <2>7. CASE ReadGroup(w)
    BY <2>7 DEF ReadGroup, Deliver, Oldest, Undelivered
  <2>8. CASE ClaimJob(w)
    <3> PICK m \in MsgId : ClaimOf(w, m)
      BY <2>8, ClaimEffect
    <3> QED
      BY <2>8 DEF ClaimJob, ClaimOf
  <2>9. CASE SkipJob(w)
    BY <2>9 DEF SkipJob
  <2>10. CASE FinishJob(w)
    BY <2>10 DEF FinishJob
  <2>11. CASE FailJob(w)
    BY <2>11 DEF FailJob
  <2>12. CASE Acknowledge(w)
    BY <2>12 DEF Acknowledge
  <2> QED
    BY <1>2, <2>1, <2>2, <2>3, <2>4, <2>5, <2>6, <2>7, <2>8, <2>9, <2>10, <2>11, <2>12
       DEF Work
<1>3. ASSUME NEW w \in Worker, Crash(w) PROVE PublishedHalfway'
  BY <1>3 DEF Crash
<1>4. CASE Tick
  BY <1>4 DEF Tick
<1>5. CASE UNCHANGED vars
  BY <1>5 DEF vars
<1> QED
  BY <1>1, <1>2, <1>3, <1>4, <1>5 DEF Next

\* The message a worker handles is one whose job has been claimed.
LEMMA StepHandledJobIsClaimed == IInv /\ TypeOK' /\ [Next]_vars => HandledJobIsClaimed'
<1> SUFFICES ASSUME IInv, TypeOK', [Next]_vars PROVE HandledJobIsClaimed'
  OBVIOUS
<1>t. TypeOK /\ OnlyInsertedJobsTravel /\ StreamIsDense /\ ResultAfterClaim
      /\ PublishedHalfway /\ HandledJobIsClaimed /\ UnattemptedJobIsCarried
      /\ AttemptsAreDistinct
  BY DEF IInv
<1> USE <1>t DEF HandledJobIsClaimed, ResultAfterClaim, OnlyInsertedJobsTravel, StreamIsDense, TypeOK, JobTypeOK, StreamTypeOK, WorkerTypeOK, jobVars, streamVars, workerVars
<1>1. ASSUME NEW j \in Job, Api(j) PROVE HandledJobIsClaimed'
  <2>1. CASE ApiCreate(j)
    BY <2>1 DEF ApiCreate, InsertJob
  <2>2. CASE ApiXAdd(j)
    BY <2>2, XAddEntry DEF ApiXAdd
  <2>3. CASE ApiMark(j)
    BY <2>3 DEF ApiMark, MarkPublished
  <2>4. CASE ApiDefer(j)
    BY <2>4 DEF ApiDefer
  <2> QED
    BY <1>1, <2>1, <2>2, <2>3, <2>4 DEF Api
<1>2. ASSUME NEW w \in Worker, Work(w) PROVE HandledJobIsClaimed'
  <2>1. ASSUME NEW j \in ScheduledJob, EnqueueScheduled(w, j) PROVE HandledJobIsClaimed'
    BY <2>1 DEF EnqueueScheduled, InsertJob
  <2>2. CASE SelectReady(w)
    BY <2>2 DEF SelectReady
  <2>3. CASE PublishXAdd(w)
    <3> PICK j \in ready[w] : XAdd(j) /\ publishing' = [publishing EXCEPT ![w] = {j}]
      BY <2>3 DEF PublishXAdd
    <3> QED
      BY <2>3, XAddEntry DEF PublishXAdd
  <2>4. CASE PublishMark(w)
    BY <2>4 DEF PublishMark, AfterPublish
  <2>5. CASE DeferScheduled(w)
    BY <2>5 DEF DeferScheduled
  <2>6. CASE Reclaim(w)
    BY <2>6 DEF Reclaim, Deliver, Oldest, Idle
  <2>7. CASE ReadGroup(w)
    BY <2>7 DEF ReadGroup, Deliver, Oldest, Undelivered
  <2>8. CASE ClaimJob(w)
    <3> PICK m \in MsgId : ClaimOf(w, m)
      BY <2>8, ClaimEffect
    <3> QED
      BY <2>8, BoundsAreNaturals DEF ClaimJob, ClaimOf
  <2>9. CASE SkipJob(w)
    BY <2>9 DEF SkipJob, IsNext, Claimable, Ready
  <2>10. CASE FinishJob(w)
    BY <2>10 DEF FinishJob
  <2>11. CASE FailJob(w)
    BY <2>11 DEF FailJob
  <2>12. CASE Acknowledge(w)
    BY <2>12 DEF Acknowledge
  <2> QED
    BY <1>2, <2>1, <2>2, <2>3, <2>4, <2>5, <2>6, <2>7, <2>8, <2>9, <2>10, <2>11, <2>12
       DEF Work
<1>3. ASSUME NEW w \in Worker, Crash(w) PROVE HandledJobIsClaimed'
  BY <1>3 DEF Crash
<1>4. CASE Tick
  BY <1>4 DEF Tick
<1>5. CASE UNCHANGED vars
  BY <1>5 DEF vars
<1> QED
  BY <1>1, <1>2, <1>3, <1>4, <1>5 DEF Next

\* A job nobody has started is queued, or published with a message to be delivered.
LEMMA StepUnattemptedJobIsCarried == IInv /\ TypeOK' /\ [Next]_vars => UnattemptedJobIsCarried'
<1> SUFFICES ASSUME IInv, TypeOK', [Next]_vars PROVE UnattemptedJobIsCarried'
  OBVIOUS
<1>t. TypeOK /\ OnlyInsertedJobsTravel /\ StreamIsDense /\ ResultAfterClaim
      /\ PublishedHalfway /\ HandledJobIsClaimed /\ UnattemptedJobIsCarried
      /\ AttemptsAreDistinct
  BY DEF IInv
<1> USE <1>t DEF UnattemptedJobIsCarried, Outstanding, PublishedHalfway, HandledJobIsClaimed, ResultAfterClaim, TypeOK, JobTypeOK, StreamTypeOK, WorkerTypeOK, Ready, jobVars, streamVars, workerVars
<1>1. ASSUME NEW j \in Job, Api(j) PROVE UnattemptedJobIsCarried'
  <2>1. CASE ApiCreate(j)
    BY <2>1 DEF ApiCreate, InsertJob
  <2>2. CASE ApiXAdd(j)
    BY <2>2, XAddEntry DEF ApiXAdd
  <2>3. CASE ApiMark(j)
    BY <2>3 DEF ApiMark, MarkPublished
  <2>4. CASE ApiDefer(j)
    BY <2>4 DEF ApiDefer
  <2> QED
    BY <1>1, <2>1, <2>2, <2>3, <2>4 DEF Api
<1>2. ASSUME NEW w \in Worker, Work(w) PROVE UnattemptedJobIsCarried'
  <2>1. ASSUME NEW j \in ScheduledJob, EnqueueScheduled(w, j) PROVE UnattemptedJobIsCarried'
    BY <2>1, JobIsUnion DEF EnqueueScheduled, InsertJob
  <2>2. CASE SelectReady(w)
    BY <2>2 DEF SelectReady
  <2>3. CASE PublishXAdd(w)
    <3> PICK j \in ready[w] : XAdd(j) /\ publishing' = [publishing EXCEPT ![w] = {j}]
      BY <2>3 DEF PublishXAdd
    <3> QED
      BY <2>3, XAddEntry DEF PublishXAdd
  <2>4. CASE PublishMark(w)
    BY <2>4 DEF PublishMark, MarkPublished
  <2>5. CASE DeferScheduled(w)
    BY <2>5 DEF DeferScheduled
  <2>6. CASE Reclaim(w)
    BY <2>6 DEF Reclaim, Deliver, Oldest, Idle
  <2>7. CASE ReadGroup(w)
    BY <2>7 DEF ReadGroup, Deliver, Oldest, Undelivered
  <2>8. CASE ClaimJob(w)
    <3> PICK m \in MsgId : ClaimOf(w, m)
      BY <2>8, ClaimEffect
    <3> QED
      BY <2>8 DEF ClaimJob, ClaimOf
  <2>9. CASE SkipJob(w)
    BY <2>9 DEF SkipJob
  <2>10. CASE FinishJob(w)
    BY <2>10 DEF FinishJob
  <2>11. CASE FailJob(w)
    BY <2>11 DEF FailJob
  <2>12. CASE Acknowledge(w)
    BY <2>12 DEF Acknowledge
  <2> QED
    BY <1>2, <2>1, <2>2, <2>3, <2>4, <2>5, <2>6, <2>7, <2>8, <2>9, <2>10, <2>11, <2>12
       DEF Work
<1>3. ASSUME NEW w \in Worker, Crash(w) PROVE UnattemptedJobIsCarried'
  BY <1>3 DEF Crash
<1>4. CASE Tick
  BY <1>4 DEF Tick
<1>5. CASE UNCHANGED vars
  BY <1>5 DEF vars
<1> QED
  BY <1>1, <1>2, <1>3, <1>4, <1>5 DEF Next

\* A claim counts past every attempt that is under way.
LEMMA StepAttemptsAreDistinct == IInv /\ TypeOK' /\ [Next]_vars => AttemptsAreDistinct'
<1> SUFFICES ASSUME IInv, TypeOK', [Next]_vars PROVE AttemptsAreDistinct'
  OBVIOUS
<1>t. TypeOK /\ OnlyInsertedJobsTravel /\ StreamIsDense /\ ResultAfterClaim
      /\ PublishedHalfway /\ HandledJobIsClaimed /\ UnattemptedJobIsCarried
      /\ AttemptsAreDistinct
  BY DEF IInv
<1> USE <1>t DEF AttemptsAreDistinct, Executing, HandledJobIsClaimed, StreamIsDense, TypeOK, JobTypeOK, StreamTypeOK, WorkerTypeOK, jobVars, streamVars, workerVars
<1>1. ASSUME NEW j \in Job, Api(j) PROVE AttemptsAreDistinct'
  <2>1. CASE ApiCreate(j)
    BY <2>1 DEF ApiCreate, InsertJob
  <2>2. CASE ApiXAdd(j)
    BY <2>2, XAddEntry DEF ApiXAdd
  <2>3. CASE ApiMark(j)
    BY <2>3 DEF ApiMark, MarkPublished
  <2>4. CASE ApiDefer(j)
    BY <2>4 DEF ApiDefer
  <2> QED
    BY <1>1, <2>1, <2>2, <2>3, <2>4 DEF Api
<1>2. ASSUME NEW w \in Worker, Work(w) PROVE AttemptsAreDistinct'
  <2>1. ASSUME NEW j \in ScheduledJob, EnqueueScheduled(w, j) PROVE AttemptsAreDistinct'
    BY <2>1 DEF EnqueueScheduled, InsertJob
  <2>2. CASE SelectReady(w)
    BY <2>2 DEF SelectReady
  <2>3. CASE PublishXAdd(w)
    <3> PICK j \in ready[w] : XAdd(j) /\ publishing' = [publishing EXCEPT ![w] = {j}]
      BY <2>3 DEF PublishXAdd
    <3> QED
      BY <2>3, XAddEntry DEF PublishXAdd
  <2>4. CASE PublishMark(w)
    BY <2>4 DEF PublishMark, AfterPublish
  <2>5. CASE DeferScheduled(w)
    BY <2>5 DEF DeferScheduled
  <2>6. CASE Reclaim(w)
    BY <2>6 DEF Reclaim, Deliver, Oldest, Idle
  <2>7. CASE ReadGroup(w)
    BY <2>7 DEF ReadGroup, Deliver, Oldest, Undelivered
  <2>8. CASE ClaimJob(w)
    <3> PICK m \in MsgId : ClaimOf(w, m)
      BY <2>8, ClaimEffect
    <3> QED
      BY <2>8, BoundsAreNaturals DEF ClaimJob, ClaimOf
  <2>9. CASE SkipJob(w)
    BY <2>9 DEF SkipJob
  <2>10. CASE FinishJob(w)
    BY <2>10 DEF FinishJob
  <2>11. CASE FailJob(w)
    BY <2>11 DEF FailJob
  <2>12. CASE Acknowledge(w)
    BY <2>12 DEF Acknowledge
  <2> QED
    BY <1>2, <2>1, <2>2, <2>3, <2>4, <2>5, <2>6, <2>7, <2>8, <2>9, <2>10, <2>11, <2>12
       DEF Work
<1>3. ASSUME NEW w \in Worker, Crash(w) PROVE AttemptsAreDistinct'
  BY <1>3 DEF Crash
<1>4. CASE Tick
  BY <1>4 DEF Tick
<1>5. CASE UNCHANGED vars
  BY <1>5 DEF vars
<1> QED
  BY <1>1, <1>2, <1>3, <1>4, <1>5 DEF Next

-----------------------------------------------------------------------------
LEMMA InvariantStep == IInv /\ [Next]_vars => IInv'
<1> SUFFICES ASSUME IInv, [Next]_vars PROVE IInv'
  OBVIOUS
<1>1. TypeOK'
  BY TypeStep DEF IInv
<1> QED
  BY <1>1, StepOnlyInsertedJobsTravel, StepStreamIsDense, StepResultAfterClaim,
     StepPublishedHalfway, StepHandledJobIsClaimed, StepUnattemptedJobIsCarried,
     StepAttemptsAreDistinct DEF IInv

LEMMA Invariance == Spec => []IInv
BY InitInvariant, InvariantStep, PTL DEF Spec

\* Type correctness of the jobs table, the stream and the workers.
THEOREM TypeCorrect == Spec => []TypeOK
<1>1. IInv => TypeOK
  BY DEF IInv
<1> QED
  BY <1>1, Invariance, PTL

\* No accepted request is lost before its first attempt, wherever publishing stops.
THEOREM AcceptedJobsAreCarried == Spec => []UnattemptedJobIsCarried
<1>1. IInv => UnattemptedJobIsCarried
  BY DEF IInv
<1> QED
  BY <1>1, Invariance, PTL

\* Workers that execute one job at the same time do so under different attempts.
THEOREM NoSharedAttempt == Spec => []AttemptsAreDistinct
<1>1. IInv => AttemptsAreDistinct
  BY DEF IInv
<1> QED
  BY <1>1, Invariance, PTL

\* Only Acknowledge moves an entry to "acked", and its job has been claimed.
LEMMA AckStep ==
  ASSUME IInv, [Next]_vars, NEW m \in MsgId, msgState'[m] = "acked", msgState[m] # "acked"
  PROVE  attemptCount[msgJob[m]] > 0
<1> USE DEF IInv, TypeOK, StreamTypeOK, WorkerTypeOK, jobVars, streamVars, workerVars
<1>1. ASSUME NEW w \in Worker, Acknowledge(w) PROVE attemptCount[msgJob[m]] > 0
  <2>1. m = current[w]
    BY <1>1 DEF Acknowledge
  <2> QED
    BY <1>1, <2>1 DEF Acknowledge, HandledJobIsClaimed
<1>2. ASSUME NEW j \in Job, Api(j) PROVE FALSE
  BY <1>2, XAddEntry DEF Api, ApiCreate, ApiXAdd, ApiMark, ApiDefer
<1>3. ASSUME NEW w \in Worker, Work(w), ~Acknowledge(w) PROVE FALSE
  <2>1. CASE PublishXAdd(w)
    BY <2>1, XAddEntry DEF PublishXAdd
  <2>2. CASE Reclaim(w) \/ ReadGroup(w)
    BY <2>2 DEF Reclaim, ReadGroup, Deliver
  <2>3. CASE UNCHANGED msgState
    BY <2>3
  <2> QED
    BY <1>3, <2>1, <2>2, <2>3 DEF Work, EnqueueScheduled, SelectReady, PublishMark,
       DeferScheduled, ClaimJob, SkipJob, FinishJob, FailJob
<1> QED
  BY <1>1, <1>2, <1>3 DEF Next, Crash, Tick, vars

\* A message is acknowledged only once its job has been claimed.
THEOREM AcknowledgedAfterClaim == Spec => AckAfterClaim
<1>1. IInv /\ [Next]_vars =>
        [\A m \in MsgId : (msgState'[m] = "acked" /\ msgState[m] # "acked") =>
           attemptCount[msgJob[m]] > 0]_vars
  BY AckStep
<1> QED
  BY <1>1, Invariance, PTL DEF Spec, AckAfterClaim

\* Only the final UPDATE of an execution under way changes a terminal status.
LEMMA FinishedStep ==
  ASSUME TypeOK, [Next]_vars, NEW j \in Job, status[j] \in Terminal, status'[j] # status[j]
  PROVE  status'[j] \in Terminal \cup {"retry_wait"} /\ \E w \in Worker : Executing(w, j)
<1> USE DEF TypeOK, JobTypeOK, Terminal, Ready, jobVars, streamVars, workerVars
<1>1. ASSUME NEW w \in Worker, FinishJob(w) \/ FailJob(w)
      PROVE  status'[j] \in Terminal \cup {"retry_wait"} /\ Executing(w, j)
  <2>1. msgJob[current[w]] = j
    BY <1>1 DEF FinishJob, FailJob
  <2>2. status'[j] \in Terminal \cup {"retry_wait"}
    BY <1>1, <2>1, ConstantsAssumption DEF FinishJob, FailJob
  <2> QED
    BY <1>1, <2>1, <2>2 DEF FinishJob, FailJob, Executing
<1>2. ASSUME NEW i \in Job, Api(i) PROVE FALSE
  BY <1>2 DEF Api, ApiCreate, InsertJob, ApiXAdd, ApiMark, MarkPublished, ApiDefer
<1>3. ASSUME NEW w \in Worker, Work(w), ~(FinishJob(w) \/ FailJob(w)) PROVE FALSE
  <2>1. ASSUME NEW i \in ScheduledJob, EnqueueScheduled(w, i) PROVE FALSE
    BY <2>1, JobIsUnion DEF EnqueueScheduled, InsertJob
  <2>2. CASE PublishMark(w)
    BY <2>2 DEF PublishMark, MarkPublished
  <2>3. CASE ClaimJob(w)
    BY <2>3 DEF ClaimJob, Claimable
  <2>4. CASE UNCHANGED status
    BY <2>4
  <2> QED
    BY <1>3, <2>1, <2>2, <2>3, <2>4 DEF Work, SelectReady, PublishXAdd, DeferScheduled,
       Reclaim, ReadGroup, SkipJob, Acknowledge
<1> QED
  BY <1>1, <1>2, <1>3 DEF Next, Crash, Tick, vars

\* Redelivery and late publishers never put a finished job back to work.
THEOREM FinishedStaysFinished == Spec => FinishedNotRestarted
<1>1. TypeOK /\ [Next]_vars =>
        [\A j \in Job : (status[j] \in Terminal /\ status'[j] # status[j]) =>
           status'[j] \in Terminal \cup {"retry_wait"} /\ \E w \in Worker : Executing(w, j)]_vars
  BY FinishedStep
<1> QED
  BY <1>1, TypeCorrect, PTL DEF Spec, FinishedNotRestarted

-----------------------------------------------------------------------------
(* How a job is lost.                                                      *)

\* A queued job has not been claimed yet; unless a worker has crashed, a running one is
\* executed by the worker that claimed it last.
RunningIsExecuted ==
  \A j \in Job :
    /\ status[j] = "queued" => attemptCount[j] = 0
    /\ status[j] = "running" => crashes > 0 \/ \E w \in Worker : Executing(w, j)

LEMMA XAddLeaves ==
  ASSUME TypeOK, StreamIsDense, NEW i \in Job, XAdd(i)
  PROVE  /\ \A m \in MsgId : m <= lastMsg => msgJob'[m] = msgJob[m] /\ msgState'[m] = msgState[m]
         /\ \A m \in MsgId : msgState[m] # "absent" => m <= lastMsg
         /\ \A w \in Worker : current[w] \in MsgId => msgJob'[current[w]] = msgJob[current[w]]
<1>1. lastMsg \in Nat /\ MsgId \subseteq Nat /\ \A w \in Worker : current[w] <= lastMsg
  BY BoundsAreNaturals DEF TypeOK, StreamTypeOK, StreamIsDense, MsgId
<1>2. \A m \in MsgId : m <= lastMsg => m # lastMsg + 1
  BY <1>1
<1>3. \A m \in MsgId : m <= lastMsg => msgJob'[m] = msgJob[m] /\ msgState'[m] = msgState[m]
  BY <1>2 DEF XAdd, TypeOK, StreamTypeOK
<1>4. \A m \in MsgId : msgState[m] # "absent" => m <= lastMsg
  BY <1>1 DEF StreamIsDense
<1> QED
  BY <1>1, <1>3, <1>4

\* A step that leaves the status of a job and its executions alone.
LEMMA RunningKeeps ==
  ASSUME RunningIsExecuted, crashes' >= crashes, crashes \in Nat, crashes' \in Nat,
         UNCHANGED attemptCount,
         \A j \in Job : status'[j] # status[j] => status'[j] # "running"
                                               /\ (status'[j] = "queued" => attemptCount[j] = 0),
         \A j \in Job, w \in Worker : status'[j] = "running" /\ Executing(w, j) => Executing(w, j)'
  PROVE  RunningIsExecuted'
BY DEF RunningIsExecuted

LEMMA StepRunningIsExecuted == IInv /\ RunningIsExecuted /\ [Next]_vars => RunningIsExecuted'
<1> SUFFICES ASSUME IInv, RunningIsExecuted, [Next]_vars PROVE RunningIsExecuted'
  OBVIOUS
<1>t. TypeOK /\ TypeOK' /\ StreamIsDense /\ HandledJobIsClaimed /\ OnlyInsertedJobsTravel
  BY InvariantStep DEF IInv
<1>c. crashes \in Nat /\ crashes' \in Nat
  BY <1>t, BoundsAreNaturals, ConstantsAssumption DEF TypeOK
<1>1. CASE UNCHANGED <<status, attemptCount, pc, current, msgJob, crashes>>
  BY <1>1 DEF RunningIsExecuted, Executing
<1>2. ASSUME NEW j \in Job, Api(j) PROVE RunningIsExecuted'
  <2>1. CASE ApiCreate(j) \/ ApiMark(j)
    <3>1. /\ UNCHANGED <<attemptCount, pc, current, msgJob, crashes>>
          /\ \A i \in Job : status'[i] # status[i] =>
               /\ status'[i] \in {"queued", "published"}
               /\ status'[i] = "queued" => status[i] = "absent"
      BY <1>t, <2>1 DEF ApiCreate, InsertJob, ApiMark, MarkPublished, workerVars, streamVars,
                        TypeOK, JobTypeOK
    <3>2. \A i \in Job : status[i] = "absent" => attemptCount[i] = 0
      BY <1>t DEF OnlyInsertedJobsTravel
    <3> QED
      BY <1>c, <3>1, <3>2, RunningKeeps DEF Executing
  <2>2. CASE ApiXAdd(j)
    <3>1. XAdd(j) /\ UNCHANGED <<status, attemptCount, pc, current, crashes>>
      BY <2>2 DEF ApiXAdd, jobVars, workerVars
    <3>2. \A w \in Worker, i \in Job : Executing(w, i) => Executing(w, i)'
      BY <1>t, <3>1, XAddLeaves DEF Executing, HandledJobIsClaimed
    <3> QED
      BY <1>c, <3>1, <3>2, RunningKeeps
  <2>3. CASE ApiDefer(j)
    BY <1>1, <2>3 DEF ApiDefer, jobVars, workerVars, streamVars
  <2> QED
    BY <1>2, <2>1, <2>2, <2>3 DEF Api
<1>3. ASSUME NEW w \in Worker, Work(w) PROVE RunningIsExecuted'
  <2>1. ASSUME NEW j \in ScheduledJob, EnqueueScheduled(w, j) PROVE RunningIsExecuted'
    <3>1. /\ UNCHANGED <<attemptCount, current, msgJob, crashes>> /\ pc[w] = "loop"
          /\ \A v \in Worker : v # w => pc'[v] = pc[v]
          /\ \A i \in Job : status'[i] # status[i] => status'[i] = "queued" /\ status[i] = "absent"
      BY <1>t, <2>1, JobIsUnion DEF EnqueueScheduled, InsertJob, streamVars, TypeOK, JobTypeOK, WorkerTypeOK
    <3>2. \A i \in Job : status[i] = "absent" => attemptCount[i] = 0
      BY <1>t DEF OnlyInsertedJobsTravel
    <3> QED
      BY <1>c, <3>1, <3>2, RunningKeeps DEF Executing
  <2>2. CASE PublishXAdd(w)
    <3>1. PICK j \in ready[w] : XAdd(j)
      BY <2>2 DEF PublishXAdd
    <3>2. j \in Job /\ UNCHANGED <<status, attemptCount, current, crashes>> /\ pc[w] = "xadd"
          /\ \A v \in Worker : v # w => pc'[v] = pc[v]
      BY <1>t, <2>2 DEF PublishXAdd, jobVars, TypeOK, WorkerTypeOK
    <3>3. \A v \in Worker, i \in Job : Executing(v, i) => Executing(v, i)'
      BY <1>t, <3>1, <3>2, XAddLeaves DEF Executing, HandledJobIsClaimed
    <3> QED
      BY <1>c, <3>2, <3>3, RunningKeeps
  <2>3. CASE SelectReady(w) \/ PublishMark(w) \/ DeferScheduled(w) \/ Reclaim(w) \/ ReadGroup(w)
             \/ SkipJob(w) \/ Acknowledge(w)
    <3>1. /\ UNCHANGED <<attemptCount, msgJob, crashes>> /\ pc[w] # "execute"
          /\ \A v \in Worker : v # w => pc'[v] = pc[v] /\ current'[v] = current[v]
      BY <1>t, <2>3 DEF SelectReady, PublishMark, DeferScheduled, Reclaim, ReadGroup, SkipJob,
                        Acknowledge, Deliver, jobVars, streamVars, TypeOK, WorkerTypeOK
    <3>2. \A i \in Job : status'[i] # status[i] => status'[i] = "published"
      BY <1>t, <2>3 DEF SelectReady, PublishMark, MarkPublished, DeferScheduled, Reclaim, ReadGroup,
                        SkipJob, Acknowledge, jobVars, TypeOK, JobTypeOK
    <3> QED
      BY <1>c, <3>1, <3>2, RunningKeeps DEF Executing
  <2>4. CASE ClaimJob(w)
    <3>1. PICK m \in MsgId : ClaimOf(w, m)
      BY <1>t, <2>4, ClaimEffect
    <3>2. /\ pc[w] = "process" /\ pc' = [pc EXCEPT ![w] = "execute"] /\ UNCHANGED <<msgJob, crashes>>
      BY <2>4 DEF ClaimJob, streamVars
    <3>3. Executing(w, msgJob[m])'
      BY <1>t, <3>1, <3>2 DEF Executing, ClaimOf, TypeOK, WorkerTypeOK
    <3>4. \A v \in Worker, i \in Job : Executing(v, i) => Executing(v, i)'
      BY <1>t, <3>1, <3>2 DEF Executing, ClaimOf, TypeOK, WorkerTypeOK
    <3>5. /\ status'[msgJob[m]] = "running"
          /\ \A i \in Job : i # msgJob[m] => status'[i] = status[i] /\ attemptCount'[i] = attemptCount[i]
      BY <1>t, <3>1 DEF ClaimOf, TypeOK, JobTypeOK
    <3> QED
      BY <3>1, <3>2, <3>3, <3>4, <3>5 DEF RunningIsExecuted, ClaimOf
  <2>5. CASE FinishJob(w) \/ FailJob(w)
    <3> DEFINE j == msgJob[current[w]]
    <3>1. /\ UNCHANGED <<attemptCount, current, msgJob, crashes>>
          /\ \A v \in Worker : v # w => pc'[v] = pc[v]
      BY <1>t, <2>5 DEF FinishJob, FailJob, streamVars, TypeOK, WorkerTypeOK
    <3>2. j \in Job /\ status'[j] \notin {"running", "queued"}
          /\ \A i \in Job : i # j => status'[i] = status[i]
      <4>1. j \in Job
        BY <1>t, <2>5 DEF FinishJob, FailJob, HandledJobIsClaimed, TypeOK, StreamTypeOK
      <4> QED
        BY <1>t, <2>5, <4>1, ConstantsAssumption DEF FinishJob, FailJob, TypeOK, JobTypeOK
    <3>3. \A v \in Worker, i \in Job : i # j /\ Executing(v, i) => Executing(v, i)'
      BY <3>1 DEF Executing
    <3> QED
      BY <1>c, <3>1, <3>2, <3>3, RunningKeeps
  <2> QED
    BY <1>3, <2>1, <2>2, <2>3, <2>4, <2>5 DEF Work
<1>4. ASSUME NEW w \in Worker, Crash(w) PROVE RunningIsExecuted'
  BY <1>4, <1>c DEF Crash, RunningIsExecuted, jobVars
<1>5. CASE Tick \/ UNCHANGED vars
  BY <1>1, <1>5 DEF Tick, vars, jobVars, streamVars, workerVars
<1> QED
  BY <1>2, <1>3, <1>4, <1>5 DEF Next

\* A step that leaves the status, the messages and the executions of a job alone.
LEMMA CarriedKeeps ==
  ASSUME NEW j \in Job, Carried(j), status'[j] = status[j],
         \A m \in MsgId : msgJob[m] = j /\ msgState[m] \in {"new", "pending"} =>
           /\ \A w \in Worker : ~(pc[w] = "ack" /\ current[w] = m) => ~(pc'[w] = "ack" /\ current'[w] = m)
           /\ \/ msgJob'[m] = j /\ msgState'[m] \in {"new", "pending"}
              \/ \E w \in Worker : pc[w] = "ack" /\ current[w] = m,
         \A w \in Worker : Executing(w, j) => Executing(w, j)'
  PROVE  Carried(j)'
<1>1. Returns(j) => Returns(j)'
  BY DEF Returns
<1> QED
  BY <1>1 DEF Carried

\* Between XADD and UPDATE a job that is still queued has a message nobody acknowledges.
LEMMA QueuedReturns ==
  ASSUME IInv, RunningIsExecuted, NEW j \in Job, status[j] = "queued",
         api[j] = "mark" \/ \E w \in Worker : j \in publishing[w]
  PROVE  Returns(j)
<1>1. attemptCount[j] = 0 /\ Outstanding(j)
  BY DEF IInv, PublishedHalfway, RunningIsExecuted
<1>2. \A w \in Worker : pc[w] = "ack" => msgJob[current[w]] # j
  BY <1>1 DEF IInv, HandledJobIsClaimed
<1> QED
  BY <1>1, <1>2 DEF Outstanding, Returns

\* The UPDATE of a publication.
LEMMA MarkCarries ==
  ASSUME IInv, RunningIsExecuted, NEW i \in Job, MarkPublished(i),
         api[i] = "mark" \/ \E w \in Worker : i \in publishing[w],
         UNCHANGED <<msgJob, msgState, current>>,
         \A w \in Worker : pc'[w] = pc[w] \/ (pc[w] \notin {"execute", "ack"} /\ pc'[w] \notin {"execute", "ack"}),
         NEW j \in Job, Carried(j), ~Carried(j)'
  PROVE  status[j] = "retry_wait" /\ status'[j] = "published"
<1>1. Returns(j) => Returns(j)'
  BY DEF Returns
<1>2. \A w \in Worker : Executing(w, j) => Executing(w, j)'
  BY DEF Executing
<1>3. CASE status'[j] = status[j]
  BY <1>1, <1>2, <1>3 DEF Carried
<1>4. CASE status'[j] # status[j]
  <2>1. j = i /\ status[j] \in Ready /\ status'[j] = "published"
    BY <1>4 DEF MarkPublished, IInv, TypeOK, JobTypeOK
  <2>2. status[j] # "queued"
    BY <1>1, <2>1, QueuedReturns DEF Carried
  <2> QED
    BY <2>1, <2>2 DEF Ready
<1> QED
  BY <1>3, <1>4

LEMMA CarriedStep ==
  ASSUME IInv, RunningIsExecuted, [Next]_vars, NEW j \in Job, Carried(j), ~Carried(j)'
  PROVE  \/ status[j] = "retry_wait" /\ status'[j] = "published"
         \/ \E w \in Worker : Executing(w, j) /\ crashes' > crashes
         \/ status'[j] = "running" /\ crashes > 0
<1>t. TypeOK /\ StreamIsDense /\ HandledJobIsClaimed
  BY DEF IInv
<1>c. crashes \in Nat
  BY <1>t, BoundsAreNaturals, ConstantsAssumption DEF TypeOK
<1>1. CASE UNCHANGED <<status, msgJob, msgState, pc, current>>
  BY <1>1, CarriedKeeps DEF Executing
<1>2. ASSUME NEW i \in Job, ApiCreate(i) PROVE FALSE
  <2>1. /\ UNCHANGED <<msgJob, msgState, pc, current>>
        /\ status'[j] = status[j] \/ status'[j] = "queued"
    BY <1>t, <1>2 DEF ApiCreate, InsertJob, streamVars, workerVars, TypeOK, JobTypeOK
  <2>2. CASE status'[j] = status[j]
    BY <2>1, <2>2, CarriedKeeps DEF Executing
  <2>3. CASE status'[j] = "queued"
    BY <2>3 DEF Carried, Ready
  <2> QED
    BY <2>1, <2>2, <2>3
<1>3. ASSUME NEW i \in Job, XAdd(i), UNCHANGED <<status, current>>,
             \A w \in Worker : pc'[w] = pc[w] \/ (pc[w] \notin {"execute", "ack"} /\ pc'[w] \notin {"execute", "ack"})
      PROVE  FALSE
  <2>1. \A m \in MsgId : msgState[m] \in {"new", "pending"} =>
          msgJob'[m] = msgJob[m] /\ msgState'[m] = msgState[m]
    BY <1>t, <1>3, XAddLeaves
  <2>2. \A w \in Worker : Executing(w, j) => Executing(w, j)'
    BY <1>t, <1>3, XAddLeaves DEF Executing, HandledJobIsClaimed
  <2> QED
    BY <1>3, <2>1, <2>2, CarriedKeeps
<1>4. ASSUME NEW i \in Job, Api(i) PROVE status[j] = "retry_wait" /\ status'[j] = "published"
  <2>1. CASE ApiXAdd(i)
    BY <1>3, <2>1 DEF ApiXAdd, jobVars, workerVars
  <2>2. CASE ApiMark(i)
    BY <2>2, MarkCarries DEF ApiMark, streamVars, workerVars
  <2>3. CASE ApiDefer(i)
    BY <1>1, <2>3, CarriedKeeps DEF ApiDefer, jobVars, streamVars, workerVars, Executing
  <2> QED
    BY <1>2, <1>4, <2>1, <2>2, <2>3 DEF Api
<1>5. ASSUME NEW w \in Worker, Work(w)
      PROVE  \/ status[j] = "retry_wait" /\ status'[j] = "published"
             \/ status'[j] = "running" /\ crashes > 0
  <2>1. ASSUME NEW i \in ScheduledJob, EnqueueScheduled(w, i) PROVE FALSE
    <3>1. /\ UNCHANGED <<msgJob, msgState, current>>
          /\ \A v \in Worker : pc'[v] = pc[v] \/ (pc[v] \notin {"execute", "ack"} /\ pc'[v] \notin {"execute", "ack"})
          /\ status'[j] = status[j] \/ status'[j] = "queued"
      BY <1>t, <2>1, JobIsUnion DEF EnqueueScheduled, InsertJob, streamVars, TypeOK, JobTypeOK, WorkerTypeOK
    <3>2. CASE status'[j] = status[j]
      BY <3>1, <3>2, CarriedKeeps DEF Executing
    <3>3. CASE status'[j] = "queued"
      BY <3>3 DEF Carried, Ready
    <3> QED
      BY <3>1, <3>2, <3>3
  <2>2. CASE PublishXAdd(w)
    <3>1. PICK i \in ready[w] : XAdd(i)
      BY <2>2 DEF PublishXAdd
    <3>2. /\ i \in Job /\ UNCHANGED <<status, current>>
          /\ \A v \in Worker : pc'[v] = pc[v] \/ (pc[v] \notin {"execute", "ack"} /\ pc'[v] \notin {"execute", "ack"})
      BY <1>t, <2>2, <3>1 DEF PublishXAdd, jobVars, TypeOK, WorkerTypeOK
    <3> QED
      BY <1>3, <3>1, <3>2
  <2>3. CASE PublishMark(w)
    <3>1. PICK i \in publishing[w] : MarkPublished(i)
      BY <2>3 DEF PublishMark
    <3>2. /\ i \in Job /\ UNCHANGED <<msgJob, msgState, current>>
          /\ \A v \in Worker : pc'[v] = pc[v] \/ (pc[v] \notin {"execute", "ack"} /\ pc'[v] \notin {"execute", "ack"})
      BY <1>t, <2>3, <3>1 DEF PublishMark, AfterPublish, streamVars, TypeOK, WorkerTypeOK
    <3> QED
      BY <3>1, <3>2, MarkCarries
  <2>4. CASE SelectReady(w) \/ DeferScheduled(w)
    <3>1. /\ UNCHANGED <<status, msgJob, msgState, current>>
          /\ \A v \in Worker : pc'[v] = pc[v] \/ (pc[v] \notin {"execute", "ack"} /\ pc'[v] \notin {"execute", "ack"})
      BY <1>t, <2>4 DEF SelectReady, DeferScheduled, jobVars, streamVars, TypeOK, WorkerTypeOK
    <3> QED
      BY <3>1, CarriedKeeps DEF Executing
  <2>5. CASE Reclaim(w) \/ ReadGroup(w)
    <3>1. /\ UNCHANGED <<status, msgJob, current>>
          /\ \A v \in Worker : pc'[v] = pc[v] \/ (pc[v] \notin {"execute", "ack"} /\ pc'[v] \notin {"execute", "ack"})
          /\ \A m \in MsgId : msgState[m] \in {"new", "pending"} => msgState'[m] \in {"new", "pending"}
      BY <1>t, <2>5 DEF Reclaim, ReadGroup, Deliver, jobVars, TypeOK, WorkerTypeOK
    <3> QED
      BY <3>1, CarriedKeeps DEF Executing
  <2>6. CASE ClaimJob(w)
    <3>1. PICK m \in MsgId : ClaimOf(w, m)
      BY <1>t, <2>6, ClaimEffect
    <3>2. pc[w] = "process" /\ pc' = [pc EXCEPT ![w] = "execute"] /\ UNCHANGED <<msgJob, msgState>>
      BY <2>6 DEF ClaimJob, streamVars
    <3>3. /\ Executing(w, msgJob[m])' /\ \A v \in Worker, i \in Job : Executing(v, i) => Executing(v, i)'
      BY <1>t, <3>1, <3>2 DEF Executing, ClaimOf, TypeOK, WorkerTypeOK
    <3>4. j # msgJob[m]
      <4>1. SUFFICES ASSUME j = msgJob[m] PROVE FALSE
        OBVIOUS
      <4>2. pc'[w] = "execute" /\ msgJob'[current'[w]] = msgJob[m]
        BY <1>t, <3>1, <3>2 DEF ClaimOf, TypeOK, WorkerTypeOK
      <4>3. \E v \in Worker : pc'[v] = "execute" /\ msgJob'[current'[v]] = j
        BY <4>1, <4>2
      <4>4. Carried(j)'
        BY <4>3 DEF Carried, Executing
      <4> QED
        BY <4>4
    <3>5. status'[j] = status[j]
      BY <1>t, <3>1, <3>4 DEF ClaimOf, TypeOK, JobTypeOK
    <3>6. \A v \in Worker : /\ pc'[v] = "ack" => pc[v] = "ack" /\ current'[v] = current[v]
      BY <1>t, <3>1, <3>2 DEF ClaimOf, TypeOK, WorkerTypeOK
    <3> QED
      BY <3>2, <3>3, <3>5, <3>6, CarriedKeeps
  <2>7. CASE SkipJob(w)
    <3>1. PICK m \in MsgId : ~Claimable(msgJob[m]) /\ current' = [current EXCEPT ![w] = m]
      BY <2>7 DEF SkipJob
    <3>2. /\ pc[w] = "process" /\ pc' = [pc EXCEPT ![w] = "ack"]
          /\ UNCHANGED <<status, msgJob, msgState>>
      BY <2>7 DEF SkipJob, jobVars, streamVars
    <3>3. \A v \in Worker : Executing(v, j) => Executing(v, j)'
      BY <1>t, <3>1, <3>2 DEF Executing, TypeOK, WorkerTypeOK
    <3>4. CASE j = msgJob[m]
      <4>1. status[j] \notin {"absent"} \cup Ready \cup Terminal
        BY <3>2 DEF Carried
      <4>2. status[j] = "running"
        BY <1>t, <3>1, <3>4, <4>1 DEF Claimable, TypeOK, JobTypeOK, Status
      <4>3. crashes > 0
        BY <3>3, <4>2 DEF RunningIsExecuted, Carried
      <4> QED
        BY <3>2, <4>2, <4>3
    <3>5. CASE j # msgJob[m]
      <4>1. \A v \in Worker, k \in MsgId : pc'[v] = "ack" /\ current'[v] = k /\ msgJob[k] = j =>
              pc[v] = "ack" /\ current[v] = k
        BY <1>t, <3>1, <3>2, <3>5 DEF TypeOK, WorkerTypeOK
      <4> QED
        BY <3>2, <3>3, <4>1, CarriedKeeps
    <3> QED
      BY <3>4, <3>5
  <2>8. CASE FinishJob(w) \/ FailJob(w)
    <3> DEFINE i == msgJob[current[w]]
    <3>1. /\ UNCHANGED <<current, msgJob, msgState>>
          /\ pc[w] = "execute" /\ pc' = [pc EXCEPT ![w] = "ack"]
      BY <2>8 DEF FinishJob, FailJob, streamVars
    <3>2. i \in Job /\ status'[i] \in {"absent"} \cup Ready \cup Terminal
          /\ \A k \in Job : k # i => status'[k] = status[k]
      <4>1. i \in Job
        BY <1>t, <3>1 DEF HandledJobIsClaimed, TypeOK, StreamTypeOK
      <4> QED
        BY <1>t, <2>8, <4>1, ConstantsAssumption
           DEF FinishJob, FailJob, TypeOK, JobTypeOK, Ready, Terminal
    <3>3. j # i
      BY <3>2 DEF Carried
    <3>4. \A v \in Worker : Executing(v, j) => Executing(v, j)'
      BY <1>t, <3>1, <3>3 DEF Executing, TypeOK, WorkerTypeOK
    <3>5. \A v \in Worker, k \in MsgId : pc'[v] = "ack" /\ current'[v] = k /\ msgJob[k] = j =>
            pc[v] = "ack" /\ current[v] = k
      BY <1>t, <3>1, <3>3 DEF TypeOK, WorkerTypeOK
    <3> QED
      BY <3>1, <3>2, <3>3, <3>4, <3>5, CarriedKeeps
  <2>9. CASE Acknowledge(w)
    <3>1. /\ UNCHANGED <<status, msgJob>>
          /\ pc[w] = "ack" /\ pc'[w] # "ack" /\ pc'[w] # "execute"
          /\ \A v \in Worker : v # w => pc'[v] = pc[v] /\ current'[v] = current[v]
          /\ \A m \in MsgId : m # current[w] => msgState'[m] = msgState[m]
      BY <1>t, <2>9 DEF Acknowledge, jobVars, TypeOK, WorkerTypeOK, StreamTypeOK
    <3>2. \A v \in Worker : Executing(v, j) => Executing(v, j)'
      BY <3>1 DEF Executing
    <3>3. \A v \in Worker, m \in MsgId : ~(pc[v] = "ack" /\ current[v] = m) => ~(pc'[v] = "ack" /\ current'[v] = m)
      BY <3>1
    <3>4. \A m \in MsgId : msgJob[m] = j /\ msgState[m] \in {"new", "pending"} =>
            \/ msgJob'[m] = j /\ msgState'[m] \in {"new", "pending"}
            \/ \E v \in Worker : pc[v] = "ack" /\ current[v] = m
      BY <3>1
    <3> QED
      BY <3>1, <3>2, <3>3, <3>4, CarriedKeeps
  <2> QED
    BY <1>5, <2>1, <2>2, <2>3, <2>4, <2>5, <2>6, <2>7, <2>8, <2>9 DEF Work
<1>6. ASSUME NEW w \in Worker, Crash(w) PROVE Executing(w, j) /\ crashes' > crashes
  <2>1. /\ UNCHANGED <<status, msgJob, msgState>> /\ crashes' > crashes
        /\ pc' = [pc EXCEPT ![w] = "loop"] /\ current' = [current EXCEPT ![w] = NoMsg]
    BY <1>6, <1>c DEF Crash, jobVars, streamVars
  <2>2. CASE ~Executing(w, j)
    <3>1. \A v \in Worker : Executing(v, j) => Executing(v, j)'
      BY <1>t, <2>1, <2>2 DEF Executing, TypeOK, WorkerTypeOK
    <3>2. \A v \in Worker, m \in MsgId : pc'[v] = "ack" /\ current'[v] = m => pc[v] = "ack" /\ current[v] = m
      BY <1>t, <2>1 DEF TypeOK, WorkerTypeOK
    <3> QED
      BY <2>1, <3>1, <3>2, CarriedKeeps
  <2> QED
    BY <2>1, <2>2
<1>7. CASE Tick \/ UNCHANGED vars
  <2>1. UNCHANGED <<status, msgJob, msgState, pc, current>>
    BY <1>7 DEF Tick, vars, jobVars, streamVars, workerVars
  <2> QED
    BY <2>1, CarriedKeeps DEF Executing
<1> QED
  BY <1>4, <1>5, <1>6, <1>7 DEF Next

\* Only a late UPDATE of a publication, or a crash, loses a job that is on its way.
THEOREM LostByLateMarkOrCrash == Spec => OnlyLateMarksOrCrashesLose
<1>1. Init => RunningIsExecuted
  BY DEF Init, RunningIsExecuted
<1>2. IInv /\ RunningIsExecuted /\ [Next]_vars => RunningIsExecuted'
  BY StepRunningIsExecuted
<1>3. IInv /\ RunningIsExecuted /\ [Next]_vars =>
        [\A j \in Job : Carried(j) /\ ~Carried(j)' =>
           \/ status[j] = "retry_wait" /\ status'[j] = "published"
           \/ \E w \in Worker : Executing(w, j) /\ crashes' > crashes
           \/ status'[j] = "running" /\ crashes > 0]_vars
  BY CarriedStep
<1> QED
  BY <1>1, <1>2, <1>3, Invariance, PTL DEF Spec, OnlyLateMarksOrCrashesLose
==============================================================================
