------------------------------ MODULE Dashboard ------------------------------
(***************************************************************************)
(* What the dashboard shows of the conflicts: the figures of the overview, *)
(* read by queries that run beside each other and share no snapshot, and   *)
(* the pages of the conflict list, read one request at a time.  Sync runs, *)
(* one after the other, and stretch jobs change the tables meanwhile.      *)
(*                                                                         *)
(* The database counts microseconds; a Date of the program, and with it a  *)
(* cursor, counts milliseconds.                                            *)
(***************************************************************************)
EXTENDS Stretch

CONSTANTS
  Accepted, \* numbers of records a sync run may accept
  Micros,   \* microseconds in a millisecond
  Limit     \* rows of a page

ASSUME DashboardAssumption ==
  /\ Accepted \subseteq Nat
  /\ Micros \in Nat \ {0}
  /\ Limit \in Nat \ {0}

VARIABLES
  sync,      \* what the open sync run does next, and what it has read
  run,       \* the latest row of sync_runs; its accepted records once it has a summary
  evaluated, \* the latest row of invariant_runs, with the failures in its results
  active,    \* accepted_count of the active snapshots, all sources together
  asked,     \* the queries of the overview without an answer; "all" before the first
  from,      \* the start of its window; 0: no window
  figures,   \* the answers
  wrote,     \* auxiliary: who has written since the overview was asked for
  walk       \* the pages a reader has turned

syncVars == <<sync, run, evaluated, active>>
overviewVars == <<asked, from, figures, wrote>>
vars == <<stretchVars, syncVars, overviewVars, walk>>

Query == {"sources", "conflicts", "proposals", "invariant", "run"}
NoFigures == [q \in Query |-> "asked"]
NoWalk == [open |-> FALSE, started |-> FALSE, cursor |-> <<>>, listed |-> {}, ends |-> {},
           there |-> {}, touched |-> {}]

Init ==
  /\ InitStretch
  /\ sync = [at |-> "idle"]
  /\ run = [status |-> "none", accepted |-> {}]
  /\ evaluated = [status |-> "none", failing |-> {}]
  /\ active = 0
  /\ asked = {"all"}
  /\ from = 0
  /\ figures = NoFigures
  /\ wrote = {}
  /\ walk = NoWalk

Disturb(who, touched) ==
  /\ wrote' = IF asked = {"all"} THEN {} ELSE wrote \cup {who}
  /\ walk' = IF walk.started THEN [walk EXCEPT !.touched = @ \cup touched] ELSE walk
  /\ UNCHANGED <<asked, from, figures>>

-----------------------------------------------------------------------------
(* The transactions of a sync run that the dashboard can tell apart.       *)

BeginSync ==
  /\ sync.at = "idle"
  /\ clock < MaxClock
  /\ \E a \in Accepted : sync' = [at |-> "read", accepted |-> a]
  /\ run' = [status |-> "running", accepted |-> {}]
  /\ Disturb("sync", {})
  /\ UNCHANGED <<stretchVars, evaluated, active>>

\* persistInvariants: now() is the same in all its statements.  A conflict that
\* comes back may have reached the threshold of oscillations.
PersistInvariants ==
  /\ sync.at = "read"
  /\ \E detected \in SUBSET Conflict, held \in SUBSET Conflict :
       LET closed == Ids({"active"}) \ detected
       IN  /\ held \subseteq detected \cap Ids({"resolved"})
           /\ status' = [c \in Conflict |->
                CASE c \in closed -> "resolved"
                  [] c \in held -> "oscillation_hold"
                  [] c \in detected \ held /\ status[c] # "oscillation_hold" -> "active"
                  [] OTHER -> status[c]]
           /\ lastSeen' = [c \in Conflict |-> IF c \in detected \cup closed THEN clock ELSE lastSeen[c]]
           /\ evaluated' = [status |-> "complete", failing |-> detected]
           /\ Disturb("sync", detected \cup closed)
  /\ clock' = clock + 1
  /\ sync' = [sync EXCEPT !.at = "persisted"]
  /\ UNCHANGED <<pending, alert, tickets, groupVars, pc, seen, run, active>>

CutOver ==
  /\ sync.at = "persisted"
  /\ active' = sync.accepted
  /\ sync' = [sync EXCEPT !.at = "switched"]
  /\ Disturb("sync", {})
  /\ UNCHANGED <<stretchVars, run, evaluated>>

\* Sources failed or were read in part: nothing is evaluated.
StoreUnchecked ==
  /\ sync.at = "read"
  /\ evaluated' = [status |-> "partial", failing |-> {}]
  /\ sync' = [sync EXCEPT !.at = "unchecked"]
  /\ Disturb("sync", {})
  /\ UNCHANGED <<stretchVars, run, active>>

FinishSync ==
  /\ sync.at \in {"switched", "unchecked"}
  /\ run' = [status |-> IF sync.at = "switched" THEN "complete" ELSE "partial",
             accepted |-> {sync.accepted}]
  /\ sync' = [at |-> "idle"]
  /\ Disturb("sync", {})
  /\ UNCHANGED <<stretchVars, evaluated, active>>

\* The execution dies, and its row goes on saying that it runs.
SyncDies ==
  /\ sync.at # "idle"
  /\ sync' = [at |-> "idle"]
  /\ Disturb("sync", {})
  /\ UNCHANGED <<stretchVars, run, evaluated, active>>

\* Reconcile runs propose for active conflicts; reviewers decide.
Propose ==
  /\ \E c \in Ids({"active"}) \ pending : pending' = pending \cup {c}
  /\ Disturb("proposals", {})
  /\ UNCHANGED <<conflictVars, alert, tickets, groupVars, pc, seen, syncVars>>

Decide ==
  /\ \E c \in pending : pending' = pending \ {c}
  /\ Disturb("proposals", {})
  /\ UNCHANGED <<conflictVars, alert, tickets, groupVars, pc, seen, syncVars>>

\* A reconcile run raises an alert, and time passes.
Alert ==
  /\ alert' = IF alert = "fresh" THEN "old" ELSE "fresh"
  /\ Disturb("alerts", {})
  /\ UNCHANGED <<conflictVars, pending, tickets, groupVars, pc, seen, syncVars>>

StretchRuns == StretchStep /\ Disturb("stretch", {}) /\ UNCHANGED syncVars

-----------------------------------------------------------------------------
(* getOverview, once.  A window leaves out what was last seen before it.   *)

Ask ==
  /\ asked = {"all"}
  /\ asked' = Query
  /\ from' \in 0..clock
  /\ figures' = NoFigures
  /\ wrote' = {}
  /\ UNCHANGED <<stretchVars, syncVars, walk>>

InWindow(ids) == {c \in ids : lastSeen[c] >= from}

AnswerOf(q) ==
  CASE q = "sources"   -> active
    [] q = "conflicts" -> Cardinality(InWindow(Ids({"active"})))
    [] q = "proposals" -> Cardinality(InWindow(pending))
    [] q = "invariant" -> [status |-> evaluated.status,
                           fail |-> Cardinality(InWindow(evaluated.failing))]
    [] q = "run"       -> run

Answer ==
  /\ \E q \in asked \ {"all"} :
       /\ figures' = [figures EXCEPT ![q] = AnswerOf(q)]
       /\ asked' = asked \ {q}
  /\ UNCHANGED <<stretchVars, syncVars, from, wrote, walk>>

\* Mutant of Reconciled: failures and active conflicts are not compared.
LooselyReconciled ==
  /\ figures.run.accepted \subseteq {figures.sources}
  /\ figures.proposals <= figures.conflicts

\* reconcileDashboardFigures.  A run without a summary is compared with nothing.
Reconciled ==
  /\ figures.run.accepted \subseteq {figures.sources}
  /\ figures.conflicts = figures.invariant.fail
  /\ figures.proposals <= figures.conflicts

\* The trust posture of the overview panel.
Posture ==
  CASE ~Reconciled -> "failed"
    [] Reconciled /\ (figures.run.status = "none" \/ figures.invariant.status = "none") -> "unchecked"
    [] Reconciled /\ figures.run.status # "none" /\ figures.invariant.status # "none" ->
         IF figures.run.status = "complete" /\ figures.invariant.status = "complete"
         THEN "complete" ELSE "partial"

-----------------------------------------------------------------------------
(* listConflicts, for one status.  Rows are ordered by (last_seen_at, id),  *)
(* the latest first.                                                       *)

Before(x, y) == x[1] < y[1] \/ (x[1] = y[1] /\ x[2] < y[2])
Position(c) == <<lastSeen[c], c>>
Milli(t) == t - (t % Micros)

\* encodeCursor: the position of a row, as a Date.
CursorAt(position) == <<Milli(position[1]), position[2]>>

\* The rows the query finds; it reads one more of them than a page shows.
PageRows(cursor) == {c \in Ids({"active"}) : cursor = <<>> \/ Before(Position(c), cursor)}

\* How many of the rows come before a row.
Rank(c, listed) == Cardinality({d \in listed : Before(Position(c), Position(d))})

Items(listed) == {c \in listed : Rank(c, listed) < Limit}

\* Mutant of PageEnd: the row that shows that there is a next page.
PeekedRow(listed) == Position(CHOOSE c \in listed : Rank(c, listed) = Limit)

\* The last row of a page.
PageEnd(listed) ==
  Position(CHOOSE c \in Items(listed) : \A d \in Items(listed) : Rank(d, listed) <= Rank(c, listed))

TurnPage ==
  /\ ~walk.started \/ walk.open
  /\ LET listed == PageRows(walk.cursor)
         more == Cardinality(listed) > Limit
         fresh == IF walk.started THEN walk
                  ELSE [NoWalk EXCEPT !.started = TRUE, !.there = Ids({"active"})]
     IN  walk' = [fresh EXCEPT
           !.open = more,
           !.listed = @ \cup Items(listed),
           !.cursor = IF more THEN CursorAt(PageEnd(listed)) ELSE <<>>,
           !.ends = IF more THEN @ \cup {PageEnd(listed)} ELSE @]
  /\ UNCHANGED <<stretchVars, syncVars, overviewVars>>

-----------------------------------------------------------------------------
Next ==
  \/ BeginSync \/ PersistInvariants \/ CutOver \/ StoreUnchecked \/ FinishSync \/ SyncDies
  \/ Propose \/ Decide \/ Alert \/ StretchRuns
  \/ Ask \/ Answer \/ TurnPage

Spec == Init /\ [][Next]_vars

-----------------------------------------------------------------------------
(* Properties.                                                             *)

Statuses == {"absent", "active", "resolved", "oscillation_hold"}

\* Every variable holds what its column or the memory of the process can hold.
TypeOK ==
  /\ clock \in 1..MaxClock
  /\ status \in [Conflict -> Statuses]
  /\ lastSeen \in [Conflict -> 0..MaxClock]
  /\ tickets \in [Conflict -> 0..MaxClock]
  /\ pending \subseteq Conflict
  /\ \A m \in rows.members : \E g \in rows.groups : g.run = m.run /\ g.group = m.group
  /\ evaluated.failing \subseteq Conflict
  /\ asked \subseteq Query \cup {"all"}
  /\ walk.listed \subseteq Conflict

\* The tables fit together, and a conflict is in two groups only if two rebuilds ran beside
\* each other.
GroupsAreSound == TypeOK /\ OneGroupUnlessBeside

Shown == asked = {}

\* If no sync run writes while the overview is read, whatever else does, it says
\* that the evidence is aligned only if the active conflicts it counts are the very failures of the
\* latest evaluation, although it compares nothing but counts.
AlignedIsTrue ==
  Shown /\ "sync" \notin wrote /\ Posture = "complete" =>
    /\ run.status = "complete" /\ run.accepted = {active}
    /\ InWindow(Ids({"active"})) = InWindow(evaluated.failing)

\* Figures that do not reconcile, in an overview that nothing disturbed, have one
\* of five causes: the latest run was partial or is not over, the latest evaluation
\* was partial, a failing conflict is held, or a proposal of a conflict that is no
\* longer active is still pending.
AlarmIsExplained ==
  Shown /\ wrote = {} /\ Posture = "failed" =>
    \/ run.status \in {"partial", "running"}
    \/ evaluated.status = "partial"
    \/ \E c \in evaluated.failing : status[c] = "oscillation_hold"
    \/ \E c \in pending : status[c] # "active"

\* The overview raises no false alarm and gives no false assurance but for these causes.
PostureIsTrue == AlignedIsTrue /\ AlarmIsExplained

Unseen == {c \in walk.there : c \notin walk.listed /\ c \notin walk.touched}

\* A reader who turned all pages missed a conflict that was there all the time
\* only where a page ended within the millisecond of that conflict, at a time that
\* is not a whole number of milliseconds.
MissedShareAMilli ==
  walk.started /\ ~walk.open =>
    \A c \in Unseen : \E p \in walk.ends :
      Milli(lastSeen[c]) = Milli(p[1]) /\ p[1] # Milli(p[1])

\* Cursors bind the order of the list, so a reader who turns all pages sees every
\* conflict that was there all the time.
PagesCoverTheList == walk.started /\ ~walk.open => Unseen = {}
=============================================================================
