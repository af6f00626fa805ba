------------------------- MODULE ProposalLifecycle -------------------------
(***************************************************************************)
(* The life of a proposal: the reconciler creates it for an active         *)
(* conflict, reviewers decide it or roll it back through the API, and the  *)
(* stretch job applies the eligible ones on its own.  Sync runs resolve    *)
(* and reassert the conflicts meanwhile.                                   *)
(*                                                                         *)
(* The action fingerprint of a proposal is computed from its conflict      *)
(* alone, so a conflict has at most one proposal and names it here.        *)
(*                                                                         *)
(* Reviewers and appliers work in transactions that read rows with SELECT  *)
(* ... FOR UPDATE: taking the row locks and committing are separate steps, *)
(* and a transaction decides on the row it read under the lock.  What it   *)
(* writes, the audit event included, becomes visible at once.              *)
(***************************************************************************)
EXTENDS Naturals, Sequences

CONSTANTS
  Conflict,   \* conflict keys
  Applicable, \* conflicts whose candidate action passes evaluateAutoApply
  Reviewer,   \* clients with the reviewer role
  Applier,    \* executions of the stretch job
  Threshold   \* OSCILLATION_HOLD_THRESHOLD

ASSUME LifecycleAssumption ==
  /\ Conflict # {}
  /\ Applicable \subseteq Conflict
  /\ Threshold \in Nat \ {0}
  /\ Reviewer \cap Applier = {}

Actor == Reviewer \cup Applier

VARIABLES
  conflict,    \* conflicts.status and oscillation_count
  proposal,    \* proposals.status and version
  application, \* proposal_applications.status and the version in its snapshot
  decisions,   \* proposal_decisions: the decisions and the versions they were made on
  audit,       \* the audit events of a proposal, oldest first
  candidates,  \* active conflicts a reconcile run has loaded and not yet handled
  pc,          \* the transaction an actor is in, by the locks it holds
  on,          \* the proposal that transaction is about
  read,        \* the proposal row it read under its lock
  page,        \* the proposal, with its version, a reviewer was shown
  scanned      \* the pending rows an applier read and has not handled

reviewVars == <<proposal, application, decisions, audit>>
actorVars == <<pc, on, read, page, scanned>>
vars == <<conflict, reviewVars, candidates, actorVars>>

NoRow == [status |-> "absent", version |-> 0]
NoPage == {}
AnyConflict == CHOOSE c \in Conflict : TRUE

Init ==
  /\ conflict = [c \in Conflict |-> [status |-> "absent", count |-> 0]]
  /\ proposal = [c \in Conflict |-> NoRow]
  /\ application = [c \in Conflict |-> NoRow]
  /\ decisions = [c \in Conflict |-> {}]
  /\ audit = [c \in Conflict |-> <<>>]
  /\ candidates = {}
  /\ pc = [x \in Actor |-> "idle"]
  /\ on = [x \in Actor |-> AnyConflict]
  /\ read = [x \in Actor |-> NoRow]
  /\ page = [v \in Reviewer |-> NoPage]
  /\ scanned = [a \in Applier |-> {}]

-----------------------------------------------------------------------------
(* Sync: persistInvariants.                                                *)

\* The upsert of a detected conflict, and the resolution of one that is gone.
Reassert(k) ==
  IF k.status = "resolved"
  THEN [status |-> IF k.count + 1 >= Threshold THEN "oscillation_hold" ELSE "active",
        count |-> k.count + 1]
  ELSE [k EXCEPT !.status = IF @ = "oscillation_hold" THEN @ ELSE "active"]

Resolve(k) == [k EXCEPT !.status = IF @ = "active" THEN "resolved" ELSE @]

PersistInvariants ==
  /\ \E detected \in SUBSET Conflict :
       conflict' = [c \in Conflict |->
         IF c \in detected THEN Reassert(conflict[c]) ELSE Resolve(conflict[c])]
  /\ UNCHANGED <<reviewVars, candidates, actorVars>>

-----------------------------------------------------------------------------
(* Reconcile: the conflicts are loaded first and handled later, when a sync *)
(* may have resolved them.                                                  *)

LoadActive ==
  /\ candidates = {}
  /\ candidates' = {c \in Conflict : conflict[c].status = "active"}
  /\ UNCHANGED <<conflict, reviewVars, actorVars>>

\* ON CONFLICT (tenant_id, action_fingerprint) DO NOTHING.
Missing(c) == proposal[c].status = "absent"

Propose(c) ==
  /\ c \in candidates
  /\ Missing(c)
  /\ proposal' = [proposal EXCEPT ![c] = [status |-> "pending", version |-> 1]]
  /\ audit' = [audit EXCEPT ![c] = Append(@, "created")]
  /\ candidates' = candidates \ {c}
  /\ UNCHANGED <<conflict, application, decisions, actorVars>>

\* The action is known already, or the provider failed, or the run was halted.
PassOver(c) ==
  /\ c \in candidates
  /\ candidates' = candidates \ {c}
  /\ UNCHANGED <<conflict, reviewVars, actorVars>>

-----------------------------------------------------------------------------
(* Row locks.                                                              *)

\* The transactions that hold the lock of the proposal row of c.
ProposalHolders(c) == {x \in Actor : on[x] = c /\ pc[x] \in {"decide", "apply", "rollback"}}

\* And of the row of its application.
ApplicationHolders(c) == {x \in Actor : on[x] = c /\ pc[x] \in {"application", "rollback"}}

\* Mutant: SELECT without FOR UPDATE.
ReadUnlocked(x, c, step) ==
  /\ pc' = [pc EXCEPT ![x] = step]
  /\ on' = [on EXCEPT ![x] = c]
  /\ read' = [read EXCEPT ![x] = proposal[c]]

\* SELECT ... FOR UPDATE of the proposal row.
ReadForUpdate(x, c, step) ==
  /\ ProposalHolders(c) = {}
  /\ pc' = [pc EXCEPT ![x] = step]
  /\ on' = [on EXCEPT ![x] = c]
  /\ read' = [read EXCEPT ![x] = proposal[c]]

\* UPDATE proposals SET status = ..., version = version + 1, and its audit event.
Advance(c, status) ==
  /\ proposal' = [proposal EXCEPT ![c] = [status |-> status, version |-> @.version + 1]]
  /\ audit' = [audit EXCEPT ![c] = Append(@, status)]

\* COMMIT or ROLLBACK; what the transaction read is forgotten.
EndTransaction(x) ==
  /\ pc' = [pc EXCEPT ![x] = "idle"]
  /\ on' = [on EXCEPT ![x] = AnyConflict]
  /\ read' = [read EXCEPT ![x] = NoRow]

-----------------------------------------------------------------------------
(* Reviewers: decideProposal and rollbackAutoApply.                        *)

OpenPage(v, c) ==
  /\ pc[v] = "idle"
  /\ proposal[c].status # "absent"
  /\ page' = [page EXCEPT ![v] = {[on |-> c, version |-> proposal[c].version]}]
  /\ UNCHANGED <<conflict, reviewVars, candidates, pc, on, read, scanned>>

LockToDecide(v) ==
  /\ pc[v] = "idle"
  /\ \E shown \in page[v] : ReadForUpdate(v, shown.on, "decide")
  /\ UNCHANGED <<conflict, reviewVars, candidates, page, scanned>>

\* Mutant: neither the version the reviewer saw nor the status is compared.
AnyDecision(row, version) == row.status # "absent"

\* proposal_version_stale, and transitionProposal.
Decidable(row, version) == row.version = version /\ row.status = "pending"

Decide(v) ==
  /\ pc[v] = "decide"
  /\ \E shown \in page[v], status \in {"approved", "rejected", "held"} :
       /\ shown.on = on[v]
       /\ Decidable(read[v], shown.version)
       /\ Advance(on[v], status)
       /\ decisions' = [decisions EXCEPT ![on[v]] =
            @ \cup {[decision |-> status, version |-> shown.version]}]
  /\ EndTransaction(v)
  /\ UNCHANGED <<conflict, application, candidates, page, scanned>>

\* The transaction is rolled back with an error.
RefuseDecision(v) ==
  /\ pc[v] = "decide"
  /\ \E shown \in page[v] : shown.on = on[v] /\ ~Decidable(read[v], shown.version)
  /\ EndTransaction(v)
  /\ UNCHANGED <<conflict, reviewVars, candidates, page, scanned>>

\* rollbackAutoApply locks the application before the proposal; without a row in
\* proposal_applications it returns at once.
LockApplication(v, c) ==
  /\ pc[v] = "idle"
  /\ application[c].status # "absent"
  /\ ApplicationHolders(c) = {}
  /\ pc' = [pc EXCEPT ![v] = "application"]
  /\ on' = [on EXCEPT ![v] = c]
  /\ UNCHANGED <<conflict, reviewVars, candidates, read, page, scanned>>

LockToRollBack(v) ==
  /\ pc[v] = "application"
  /\ ReadForUpdate(v, on[v], "rollback")
  /\ UNCHANGED <<conflict, reviewVars, candidates, page, scanned>>

\* transitionRollback.
CanRollBack(row) == row.status = "applied"

RollBack(v) ==
  /\ pc[v] = "rollback"
  /\ CanRollBack(read[v])
  /\ Advance(on[v], "rolled_back")
  /\ application' = [application EXCEPT ![on[v]].status = "rolled_back"]
  /\ EndTransaction(v)
  /\ UNCHANGED <<conflict, decisions, candidates, page, scanned>>

RefuseRollBack(v) ==
  /\ pc[v] = "rollback"
  /\ ~CanRollBack(read[v])
  /\ EndTransaction(v)
  /\ UNCHANGED <<conflict, reviewVars, candidates, page, scanned>>

-----------------------------------------------------------------------------
(* The stretch job: autoApplyEligibleProposals.                            *)

\* One SELECT of all pending proposals, whatever the status of their conflicts.
Scan(a) ==
  /\ pc[a] = "idle"
  /\ scanned[a] = {}
  /\ scanned' = [scanned EXCEPT ![a] =
       {[on |-> c, version |-> proposal[c].version] :
          c \in {k \in Conflict : proposal[k].status = "pending"}}]
  /\ UNCHANGED <<conflict, reviewVars, candidates, pc, on, read, page>>

\* evaluateAutoApply on the rows of the scan.
Eligible(c) == c \in Applicable

Deny(a) ==
  /\ pc[a] = "idle"
  /\ \E row \in scanned[a] :
       /\ ~Eligible(row.on)
       /\ scanned' = [scanned EXCEPT ![a] = @ \ {row}]
  /\ UNCHANGED <<conflict, reviewVars, candidates, pc, on, read, page>>

LockToApply(a) ==
  /\ pc[a] = "idle"
  /\ \E row \in scanned[a] : Eligible(row.on) /\ ReadForUpdate(a, row.on, "apply")
  /\ UNCHANGED <<conflict, reviewVars, candidates, page, scanned>>

\* Mutant: the row of the scan is trusted.
StillScanned(a, row) == row.version > 0

\* current.status !== 'pending' || current.version !== row.version
StillPending(a, row) == read[a].status = "pending" /\ read[a].version = row.version

\* The INSERT ... ON CONFLICT DO NOTHING of the application guards the rest.
Apply(a) ==
  /\ pc[a] = "apply"
  /\ \E row \in scanned[a] :
       /\ row.on = on[a]
       /\ StillPending(a, row)
       /\ application[on[a]].status = "absent"
       /\ Advance(on[a], "applied")
       /\ application' = [application EXCEPT ![on[a]] =
            [status |-> "applied", version |-> row.version]]
       /\ scanned' = [scanned EXCEPT ![a] = @ \ {row}]
  /\ EndTransaction(a)
  /\ UNCHANGED <<conflict, decisions, candidates, page>>

SkipApply(a) ==
  /\ pc[a] = "apply"
  /\ \E row \in scanned[a] :
       /\ row.on = on[a]
       /\ ~StillPending(a, row) \/ application[on[a]].status # "absent"
       /\ scanned' = [scanned EXCEPT ![a] = @ \ {row}]
  /\ EndTransaction(a)
  /\ UNCHANGED <<conflict, reviewVars, candidates, page>>

\* The job's process or its connection dies: its transaction is rolled back and a
\* retry scans again.
Die(a) ==
  /\ scanned[a] # {}
  /\ EndTransaction(a)
  /\ scanned' = [scanned EXCEPT ![a] = {}]
  /\ UNCHANGED <<conflict, reviewVars, candidates, page>>

\* A request times out or its connection is lost.
Disconnect(v) ==
  /\ pc[v] # "idle"
  /\ EndTransaction(v)
  /\ UNCHANGED <<conflict, reviewVars, candidates, page, scanned>>

-----------------------------------------------------------------------------
Reconcile == LoadActive \/ \E c \in Conflict : Propose(c) \/ PassOver(c)

Review(v) ==
  \/ \E c \in Conflict : OpenPage(v, c) \/ LockApplication(v, c)
  \/ LockToDecide(v) \/ Decide(v) \/ RefuseDecision(v)
  \/ LockToRollBack(v) \/ RollBack(v) \/ RefuseRollBack(v)
  \/ Disconnect(v)

AutoApply(a) == Scan(a) \/ Deny(a) \/ LockToApply(a) \/ Apply(a) \/ SkipApply(a) \/ Die(a)

Next ==
  \/ PersistInvariants
  \/ Reconcile
  \/ \E v \in Reviewer : Review(v)
  \/ \E a \in Applier : AutoApply(a)

Spec == Init /\ [][Next]_vars

-----------------------------------------------------------------------------
(* Properties.                                                             *)

ProposalStatus == {"absent", "pending", "approved", "rejected", "held", "applied", "rolled_back"}
Event == (ProposalStatus \ {"absent", "pending"}) \cup {"created"}
Row == [status : ProposalStatus, version : Nat]
Shown == [on : Conflict, version : Nat]

\* Every table and every transaction keeps its shape.
TypeOK ==
  /\ conflict \in [Conflict -> [status : {"absent", "active", "resolved", "oscillation_hold"},
                                count : 0..Threshold]]
  /\ proposal \in [Conflict -> Row]
  /\ application \in [Conflict -> [status : {"absent", "applied", "rolled_back"}, version : Nat]]
  /\ decisions \in [Conflict -> SUBSET [decision : {"approved", "rejected", "held"}, version : Nat]]
  /\ audit \in [Conflict -> Seq(Event)]
  /\ candidates \in SUBSET Conflict
  /\ pc \in [Actor -> {"idle", "decide", "application", "rollback", "apply"}]
  /\ on \in [Actor -> Conflict]
  /\ read \in [Actor -> Row]
  /\ page \in [Reviewer -> SUBSET Shown]
  /\ scanned \in [Applier -> SUBSET Shown]

\* The statuses and the version numbers a proposal may have, with what the other tables
\* then hold: an application exists exactly for what was applied and remembers the
\* version it replaced, and exactly one decision exists for what was decided.
History(c) ==
  \/ /\ proposal[c] = NoRow
     /\ audit[c] = <<>> /\ application[c] = NoRow /\ decisions[c] = {}
  \/ /\ proposal[c] = [status |-> "pending", version |-> 1]
     /\ audit[c] = <<"created">> /\ application[c] = NoRow /\ decisions[c] = {}
  \/ \E status \in {"approved", "rejected", "held"} :
     /\ proposal[c] = [status |-> status, version |-> 2]
     /\ audit[c] = <<"created", status>> /\ application[c] = NoRow
     /\ decisions[c] = {[decision |-> status, version |-> 1]}
  \/ /\ proposal[c] = [status |-> "applied", version |-> 2]
     /\ audit[c] = <<"created", "applied">>
     /\ application[c] = [status |-> "applied", version |-> 1] /\ decisions[c] = {}
  \/ /\ proposal[c] = [status |-> "rolled_back", version |-> 3]
     /\ audit[c] = <<"created", "applied", "rolled_back">>
     /\ application[c] = [status |-> "rolled_back", version |-> 1] /\ decisions[c] = {}

\* The four tables of a proposal tell one story, in every interleaving of reviewers,
\* stretch runs and reconcilers: its status, its audit log, its decisions and its
\* application never disagree.
TablesAgree == \A c \in Conflict : History(c)

\* A transaction that holds the lock of a proposal has read the row as it is now: no
\* other transaction commits to it in between.
ReadIsCurrent ==
  \A x \in Actor : pc[x] \in {"decide", "apply", "rollback"} => read[x] = proposal[on[x]]

\* Only an eligible proposal is ever applied without a reviewer.
OnlyEligibleApplied ==
  \A c \in Conflict : application[c].status # "absent" => c \in Applicable

\* What is stored agrees with itself, what is locked is current, and no gate is passed.
RowsAreSound == TypeOK /\ TablesAgree /\ ReadIsCurrent /\ OnlyEligibleApplied

\* A reviewer's decision only ever changes the version that reviewer was shown.
DecidedAsShown ==
  [][\A c \in Conflict : decisions'[c] # decisions[c] =>
       \E v \in Reviewer : [on |-> c, version |-> proposal[c].version] \in page[v]]_vars

\* The steps of a transaction implement the review log: creation, one decision or one
\* application, and at most one rollback.
Log == INSTANCE ReviewLog WITH log <- audit
ImplementsReviewLog == Log!Spec
=============================================================================
