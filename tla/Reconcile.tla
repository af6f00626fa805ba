----------------------------- MODULE Reconcile -----------------------------
(***************************************************************************)
(* Executions of reconcile jobs: reconcileConflicts takes the advisory     *)
(* lock of the tenant, loads the active conflicts, reserves the cost of a  *)
(* provider call for each, one after the other, and then works on the      *)
(* reserved ones in lanes that run at the same time: mark, call, settle,   *)
(* insert the proposal.                                                    *)
(*                                                                         *)
(* The module composes the spend ledger: every operation of SpendLedger    *)
(* happens here as one step of an execution, between any two of which the  *)
(* process may die or the database connection may fail.  A lane that       *)
(* throws rejects the whole run, which unlocks and fails, while the other  *)
(* lanes go on: nothing cancels them.                                      *)
(*                                                                         *)
(* Which conflicts are active, and whether the source mirror changed       *)
(* during a run, is decided by sync runs and left open here.               *)
(***************************************************************************)
EXTENDS Integers, FiniteSets

CONSTANTS
  Execution,   \* executions of reconcileConflicts that may be alive at once
  Run,         \* reconcile jobs
  Fingerprint, \* action fingerprints, one per conflict
  Concurrency, \* PROVIDER_WORK_CONCURRENCY
  MaxDay, Estimate, Costs, Configs, \* of SpendLedger
  MaxFaults    \* bound: crashes and failed database calls

ASSUME ReconcileAssumption ==
  /\ Run # {} /\ IsFiniteSet(Fingerprint)
  /\ Concurrency \in Nat \ {0}
  /\ Estimate \in Nat /\ Costs \subseteq Nat
  /\ MaxFaults \in Nat

VARIABLES
  day, bucket, ledger, reservation, capEvents, \* the ledger
  proposals,  \* the fingerprints of the rows of proposals
  failures,   \* those of the proposal_generation_failed audits
  calls,      \* calls of provider.propose, by fingerprint
  jobResult,  \* how the last execution of a job ended
  holder,     \* executions holding the advisory lock
  pc,         \* where reconcileConflicts is
  job,        \* the job it executes
  todo,       \* conflicts it loaded and has not handled
  reserved,   \* conflicts it reserved and no lane has taken
  halted,     \* haltReason is set
  lanes,      \* lanes of forEachConcurrent still alive
  step,       \* what a lane does next for a conflict
  faults      \* faults so far

Ledger == INSTANCE SpendLedger

ledgerVars == <<day, bucket, ledger, reservation, capEvents>>
resultVars == <<proposals, failures, jobResult>>
runVars == <<pc, job, todo, reserved, halted, lanes>>
vars == <<ledgerVars, resultVars, calls, holder, runVars, step, faults>>

AnyRun == CHOOSE r \in Run : TRUE
NoStep == [c \in Fingerprint |-> "none"]

Init ==
  /\ Ledger!Init
  /\ proposals = {}
  /\ failures = {}
  /\ calls = [c \in Fingerprint |-> 0]
  /\ jobResult = [r \in Run |-> "none"]
  /\ holder = {}
  /\ pc = [e \in Execution |-> "idle"]
  /\ job = [e \in Execution |-> AnyRun]
  /\ todo = [e \in Execution |-> {}]
  /\ reserved = [e \in Execution |-> {}]
  /\ halted = [e \in Execution |-> FALSE]
  /\ lanes = [e \in Execution |-> 0]
  /\ step = [e \in Execution |-> NoStep]
  /\ faults = 0

-----------------------------------------------------------------------------
(* The advisory lock and the end of an execution.                          *)

Busy(e) == {c \in Fingerprint : step[e][c] # "none"}

\* Mutant: Promise.all settles when the lanes are between two items.
BetweenItems(e) == Busy(e) = {}

\* No lane is at work and none is left to take what was reserved.
Drained(e) == Busy(e) = {} /\ (reserved[e] = {} \/ lanes[e] = 0)

\* Mutant: the lock is not released when a lane throws.
UnlockOnSuccess(e) == holder' = IF Drained(e) THEN holder \ {e} ELSE holder

\* pg_advisory_unlock, in the finally block.
Unlock(e) == holder' = holder \ {e}

\* The local state of an execution whose process is gone, or that has ended.
Forget(e) ==
  /\ pc' = [pc EXCEPT ![e] = "idle"]
  /\ job' = [job EXCEPT ![e] = AnyRun]
  /\ todo' = [todo EXCEPT ![e] = {}]
  /\ reserved' = [reserved EXCEPT ![e] = {}]
  /\ halted' = [halted EXCEPT ![e] = FALSE]
  /\ lanes' = [lanes EXCEPT ![e] = 0]
  /\ step' = [step EXCEPT ![e] = NoStep]

\* The promise of reconcileConflicts is rejected; lanes still alive go on.
Fail(e) ==
  /\ Unlock(e)
  /\ pc' = [pc EXCEPT ![e] = "failed"]
  /\ jobResult' = [jobResult EXCEPT ![job[e]] = "error"]

Fault ==
  /\ faults < MaxFaults
  /\ faults' = faults + 1

-----------------------------------------------------------------------------
(* Loading and reserving.                                                  *)

\* Mutant: what pg_try_advisory_lock returned is not looked at.
Ignored(e) == e \in Execution

\* pg_try_advisory_lock returned true.
Acquired(e) == holder \subseteq {e}

\* pg_try_advisory_lock does not wait.  The worker claimed the job earlier, and another
\* execution of it may have ended since.
Start(e, r) ==
  /\ pc[e] = "idle"
  /\ Acquired(e)
  /\ holder' = holder \cup {e}
  /\ job' = [job EXCEPT ![e] = r]
  /\ pc' = [pc EXCEPT ![e] = "load"]
  /\ UNCHANGED <<ledgerVars, resultVars, calls, todo, reserved, halted, lanes, step, faults>>

\* reconcile_already_running
Refuse(e, r) ==
  /\ pc[e] = "idle"
  /\ ~Acquired(e)
  /\ jobResult' = [jobResult EXCEPT ![r] = "error"]
  /\ UNCHANGED <<ledgerVars, proposals, failures, calls, holder, runVars, step, faults>>

\* The SELECT of the active conflicts, and ensureSpendRun.
Load(e) ==
  /\ pc[e] = "load"
  /\ \E active \in SUBSET Fingerprint : todo' = [todo EXCEPT ![e] = active]
  /\ \/ Ledger!EnsureRun(job[e])
     \/ ~Ledger!RunMissing(job[e]) /\ UNCHANGED ledgerVars
  /\ pc' = [pc EXCEPT ![e] = "reserve"]
  /\ UNCHANGED <<resultVars, calls, holder, job, reserved, halted, lanes, step, faults>>

\* A proposal with the fingerprint exists, or a reservation does.
Deduplicated(c) == c \in proposals \/ reservation[c].status # "none"

Skip(e, c) ==
  /\ pc[e] = "reserve" /\ c \in todo[e]
  /\ Deduplicated(c)
  /\ todo' = [todo EXCEPT ![e] = @ \ {c}]
  /\ UNCHANGED <<ledgerVars, resultVars, calls, holder, pc, job, reserved, halted, lanes,
                 step, faults>>

Reserve(e, c) ==
  /\ pc[e] = "reserve" /\ c \in todo[e]
  /\ c \notin proposals
  /\ Ledger!ReserveGranted(job[e], c)
  /\ todo' = [todo EXCEPT ![e] = @ \ {c}]
  /\ reserved' = [reserved EXCEPT ![e] = @ \cup {c}]
  /\ UNCHANGED <<resultVars, calls, holder, pc, job, halted, lanes, step, faults>>

\* A cap is reached: no further conflict is looked at.
Halt(e, c) ==
  /\ pc[e] = "reserve" /\ c \in todo[e]
  /\ c \notin proposals
  /\ Ledger!ReserveDenied(job[e], c)
  /\ todo' = [todo EXCEPT ![e] = {}]
  /\ halted' = [halted EXCEPT ![e] = TRUE]
  /\ UNCHANGED <<resultVars, calls, holder, pc, job, reserved, lanes, step, faults>>

\* The upsert of the bucket fails its CHECK: the cap was lowered below what is reserved.
ReserveRefused(e, c) ==
  /\ pc[e] = "reserve" /\ c \in todo[e]
  /\ ~Deduplicated(c)
  /\ \E config \in Configs : ~Ledger!CheckRow(Ledger!UpsertBucket(config.daily))
  /\ Fail(e)
  /\ UNCHANGED <<ledgerVars, proposals, failures, calls, job, todo, reserved, halted, lanes,
                 step, faults>>

\* The connection fails before any lane has started, at the latest after the COMMIT of a
\* reservation.
ReserveThrows(e) ==
  /\ pc[e] \in {"load", "reserve"}
  /\ Fault
  /\ Fail(e)
  /\ \/ \E c \in todo[e] : c \notin proposals /\ Ledger!ReserveGranted(job[e], c)
     \/ UNCHANGED ledgerVars
  /\ UNCHANGED <<proposals, failures, calls, job, todo, reserved, halted, lanes, step>>

-----------------------------------------------------------------------------
(* forEachConcurrent and its callback.                                     *)

BeginWork(e) ==
  /\ pc[e] = "reserve" /\ todo[e] = {}
  /\ pc' = [pc EXCEPT ![e] = "work"]
  /\ lanes' = [lanes EXCEPT ![e] =
       IF Cardinality(reserved[e]) < Concurrency THEN Cardinality(reserved[e]) ELSE Concurrency]
  /\ UNCHANGED <<ledgerVars, resultVars, calls, holder, job, todo, reserved, halted, step, faults>>

Continue(e, c, next) == step' = [step EXCEPT ![e][c] = next]

\* A free lane takes the next item, whether the run was rejected or not.
Take(e, c) ==
  /\ pc[e] \in {"work", "failed"}
  /\ c \in reserved[e]
  /\ Cardinality(Busy(e)) < lanes[e]
  /\ reserved' = [reserved EXCEPT ![e] = @ \ {c}]
  /\ Continue(e, c, "mark")
  /\ UNCHANGED <<ledgerVars, resultVars, calls, holder, pc, job, todo, halted, lanes, faults>>

\* markProviderCallStarted, and the call of provider.propose.
Mark(e, c) ==
  /\ step[e][c] = "mark"
  /\ Ledger!MarkStarted(c)
  /\ calls' = [calls EXCEPT ![c] = @ + 1]
  /\ Continue(e, c, "call")
  /\ UNCHANGED <<resultVars, holder, runVars, faults>>

\* The provider answers, or it fails, times out or breaks its schema.
Answer(e, c) ==
  /\ step[e][c] = "call"
  /\ \E next \in {"settle", "charge"} : Continue(e, c, next)
  /\ UNCHANGED <<ledgerVars, resultVars, calls, holder, runVars, faults>>

Settle(e, c) ==
  /\ step[e][c] = "settle"
  /\ Ledger!Settle(c)
  /\ Continue(e, c, "insert")
  /\ UNCHANGED <<resultVars, calls, holder, runVars, faults>>

\* settleProviderCost throws: actual_cost_invalid, a CHECK of the bucket of a new day, or
\* the connection, before the COMMIT or after it.
SettleThrows(e, c) ==
  /\ step[e][c] = "settle"
  /\ \/ /\ \E cost \in Costs :
             \/ cost > Estimate
             \/ ~Ledger!CheckRow(Ledger!SettleBucket(bucket[day], cost)) /\ bucket[day].exists
        /\ UNCHANGED <<ledgerVars, faults>>
     \/ Fault /\ (Ledger!Settle(c) \/ UNCHANGED ledgerVars)
  /\ Continue(e, c, "charge")
  /\ UNCHANGED <<resultVars, calls, holder, runVars>>

AfterCharge == "audit"

\* In the catch block; a reservation settled already is left as it is.
Charge(e, c) ==
  /\ step[e][c] = "charge"
  /\ \/ Ledger!ChargeWorstCase(c)
     \/ ~Ledger!Open(c) /\ UNCHANGED ledgerVars
  /\ Continue(e, c, AfterCharge)
  /\ UNCHANGED <<resultVars, calls, holder, runVars, faults>>

\* proposal_generation_failed
Audit(e, c) ==
  /\ step[e][c] = "audit"
  /\ failures' = failures \cup {c}
  /\ Continue(e, c, "none")
  /\ UNCHANGED <<ledgerVars, proposals, jobResult, calls, holder, runVars, faults>>

Insert(e, c) ==
  /\ step[e][c] = "insert"
  /\ proposals' = proposals \cup {c}
  /\ Continue(e, c, "none")
  /\ UNCHANGED <<ledgerVars, failures, jobResult, calls, holder, runVars, faults>>

\* A lane ends with an exception.  The first one rejects Promise.all.
Reject(e, c) ==
  /\ Continue(e, c, "none")
  /\ lanes' = [lanes EXCEPT ![e] = @ - 1]
  /\ \/ pc[e] = "work" /\ Fail(e)
     \/ pc[e] = "failed" /\ UNCHANGED <<holder, pc, jobResult>>
  /\ UNCHANGED <<calls, job, todo, reserved, halted>>

\* The connection fails in a lane, outside the try block, before what the lane does next
\* is committed or after it.
LaneThrows(e, c) ==
  /\ Fault
  /\ \/ /\ step[e][c] = "mark" /\ Ledger!MarkStarted(c)
        /\ UNCHANGED <<proposals, failures>>
     \/ /\ step[e][c] = "charge" /\ Ledger!ChargeWorstCase(c)
        /\ UNCHANGED <<proposals, failures>>
     \/ /\ step[e][c] = "audit" /\ failures' = failures \cup {c}
        /\ UNCHANGED <<ledgerVars, proposals>>
     \/ /\ step[e][c] = "insert" /\ proposals' = proposals \cup {c}
        /\ UNCHANGED <<ledgerVars, failures>>
     \/ /\ step[e][c] \in {"mark", "charge", "audit", "insert"}
        /\ UNCHANGED <<ledgerVars, proposals, failures>>
  /\ Reject(e, c)

\* Charging the worst case fails a CHECK: the bucket is not the one of the reservation.
ChargeRefused(e, c) ==
  /\ step[e][c] = "charge"
  /\ Ledger!Open(c)
  /\ bucket[day].exists /\ ~Ledger!CheckRow(Ledger!SettleBucket(bucket[day], Estimate))
  /\ Reject(e, c)
  /\ UNCHANGED <<ledgerVars, proposals, failures, faults>>

Outcome(e) == IF halted[e] THEN "halted" ELSE "complete"

\* The source mirror is hashed again: a sync that cut over meanwhile fails the run.
Complete(e) ==
  /\ pc[e] = "work"
  /\ Drained(e)
  /\ \E result \in {Outcome(e), "error"} :
       jobResult' = [jobResult EXCEPT ![job[e]] = result]
  /\ Unlock(e)
  /\ Forget(e)
  /\ UNCHANGED <<ledgerVars, proposals, failures, calls, faults>>

\* The last lane of a run that failed has ended.
Vanish(e) ==
  /\ pc[e] = "failed"
  /\ Drained(e)
  /\ Forget(e)
  /\ UNCHANGED <<ledgerVars, resultVars, calls, holder, faults>>

\* The process dies: its session ends, and with it the advisory lock.
Crash(e) ==
  /\ pc[e] # "idle"
  /\ Fault
  /\ Unlock(e)
  /\ Forget(e)
  /\ UNCHANGED <<ledgerVars, resultVars, calls>>

NewDay ==
  /\ Ledger!NewDay
  /\ UNCHANGED <<resultVars, calls, holder, runVars, step, faults>>

-----------------------------------------------------------------------------
Lane(e, c) ==
  \/ Take(e, c) \/ Mark(e, c) \/ Answer(e, c) \/ Settle(e, c) \/ SettleThrows(e, c)
  \/ Charge(e, c) \/ ChargeRefused(e, c) \/ Audit(e, c) \/ Insert(e, c)

Proceed(e) ==
  \/ Load(e)
  \/ \E c \in Fingerprint :
       Skip(e, c) \/ Reserve(e, c) \/ Halt(e, c) \/ ReserveRefused(e, c) \/ Lane(e, c)
  \/ BeginWork(e) \/ Complete(e) \/ Vanish(e)

Next ==
  \/ \E e \in Execution :
       \/ \E r \in Run : Start(e, r) \/ Refuse(e, r)
       \/ Proceed(e)
       \/ ReserveThrows(e)
       \/ \E c \in Fingerprint : LaneThrows(e, c)
       \/ Crash(e)
  \/ NewDay

Spec == Init /\ [][Next]_vars

\* A live execution proceeds: every await in it is answered, by Postgres or by the provider.
FairSpec == Spec /\ \A e \in Execution : WF_vars(Proceed(e))

-----------------------------------------------------------------------------
(* Properties.                                                             *)

Step == {"none", "mark", "call", "settle", "charge", "audit", "insert"}

\* Every table and every execution keeps its shape.
TypeOK ==
  /\ Ledger!TypeOK
  /\ proposals \subseteq Fingerprint /\ failures \subseteq Fingerprint
  /\ calls \in [Fingerprint -> Nat]
  /\ jobResult \in [Run -> {"none", "complete", "halted", "error"}]
  /\ holder \subseteq Execution
  /\ pc \in [Execution -> {"idle", "load", "reserve", "work", "failed"}]
  /\ job \in [Execution -> Run]
  /\ todo \in [Execution -> SUBSET Fingerprint]
  /\ reserved \in [Execution -> SUBSET Fingerprint]
  /\ halted \in [Execution -> BOOLEAN]
  /\ lanes \in [Execution -> 0..Concurrency]
  /\ step \in [Execution -> [Fingerprint -> Step]]
  /\ faults \in 0..MaxFaults

\* The provider is called at most once for an action, whatever crashes, retries,
\* redeliveries of the job and lanes left behind there are; and while it is called its
\* worst-case cost stays reserved.
CalledOnce ==
  \A c \in Fingerprint :
    /\ calls[c] <= 1
    /\ \A e \in Execution : step[e][c] = "call" =>
         reservation[c].status = "reserved" /\ reservation[c].started

\* A proposal exists only for a call whose actual cost is in the ledger: never for one
\* that failed and was charged in full, or whose settlement was not acknowledged.
ProposalIsPaid ==
  \A c \in proposals : reservation[c].status = "settled" /\ c \notin failures

\* An action costs one call at most, and a proposal has cost one that is settled.
CallsArePaidOnce == CalledOnce /\ ProposalIsPaid

Spending(e) == \E c \in Fingerprint : step[e][c] \in {"mark", "call"}

\* Of two executions that spend at the same time one has been rejected: the lock keeps two
\* reconciliations apart until a lane throws, whose run unlocks while its other lanes go on.
\* RESEARCH.md:272 asks for more, "it must not run two spend-consuming reconciliations
\* concurrently".
OverlapNeedsRejection ==
  \A d, e \in Execution : d # e /\ Spending(d) /\ Spending(e) => "failed" \in {pc[d], pc[e]}

InHand(c) == \E e \in Execution : c \in reserved[e] \cup Busy(e)

\* What an execution has reserved is proposed or recorded as failed, unless that execution
\* is rejected or dies: completing, halting at a cap and passing from lane to lane drop
\* nothing. RESEARCH.md:613 asks for more, "exactly one `pending` proposal per
\* conflict/action key": what is dropped is never taken up again, because it is reserved.
OnlyRejectionsDrop ==
  [][\A c \in Fingerprint : InHand(c) =>
       \/ InHand(c)'
       \/ c \in proposals' \cup failures'
       \/ faults' > faults
       \/ \E e \in Execution : c \in reserved[e] \cup Busy(e) /\ "failed" \in {pc[e], pc'[e]}]_vars

\* What the executions do to the three tables of the ledger is what SpendLedger allows.
ImplementsLedger == Ledger!Spec

\* Liveness: again and again the lock of the tenant is free, by completion, by an exception
\* in a lane or by the end of the process.
LockIsReleased == []<>(holder = {})
=============================================================================
