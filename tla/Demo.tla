-------------------------------- MODULE Demo --------------------------------
(***************************************************************************)
(* The hosted demo: a page in the browser, the edge that forwards its      *)
(* requests, and one container that holds the API, the worker and both     *)
(* stores.  A container that starts has nothing: its entrypoint sets up    *)
(* empty stores, starts the processes and runs three jobs, and only then   *)
(* writes the sentinel without which the API serves no evidence.  It may   *)
(* stop or die at any time and takes everything with it.                   *)
(*                                                                         *)
(* A user selects conflicts, filters, refreshes and decides.  The page     *)
(* aborts requests it no longer wants and starts others.                   *)
(***************************************************************************)
EXTENDS Naturals, FiniteSets

CONSTANTS
  ConflictId, \* ids of conflicts; they are the same in every life of the container
  Jobs,       \* number of jobs of the bootstrap
  MaxFaults,  \* bound of the faults
  Submit,     \* decisions a user may submit
  MaxClicks   \* bound of what the user clicks besides

Part == {"overview", "list", "detail"}
NoConflict == "none"

ASSUME DemoAssumption ==
  /\ Jobs \in Nat \ {0}
  /\ MaxFaults \in Nat
  /\ MaxClicks \in Nat
  /\ Submit \cap Part = {}
  /\ NoConflict \notin ConflictId

VARIABLES
  box,      \* the container: what it does, which life it is in, its bootstrap, its sentinel
  decided,  \* conflicts whose proposal has been decided in this life
  req,      \* the request of each part of the page, and of each submit
  page,     \* the state of the page
  faults,
  submits,  \* submits that have been used
  clicks,
  complete, \* auxiliary: lives in which the three jobs of the bootstrap have completed
  recorded, \* auxiliary: the lives, with the conflicts, each submit has been recorded in
  aborted,  \* auxiliary: the overview was aborted since the page was last refreshed
  again     \* auxiliary: the selected conflict was selected again

boxVars == <<box, decided, complete>>
pageVars == <<page, aborted, again>>
bounds == <<faults, submits, clicks>>
demoVars == <<boxVars, pageVars, req, recorded, bounds>>

Slot == Part \cup Submit
None == [at |-> "none"]
Send(c) == [at |-> "edge", of |-> c]

InitDemo ==
  /\ box = [at |-> "down", life |-> 0, jobs |-> 0, job |-> "none", sentinel |-> FALSE]
  /\ decided = {}
  /\ req = [s \in Slot |-> IF s = "overview" THEN Send(NoConflict) ELSE None]
  /\ page = [phase |-> "checking", overview |-> "loading", list |-> "loading",
             detail |-> "empty", shown |-> NoConflict, selected |-> NoConflict,
             pending |-> FALSE, form |-> "free", retry |-> FALSE]
  /\ faults = 0
  /\ submits = {}
  /\ clicks = 0
  /\ complete = {}
  /\ recorded = [s \in Submit |-> {}]
  /\ aborted = FALSE
  /\ again = FALSE

Fault == faults < MaxFaults /\ faults' = faults + 1 /\ UNCHANGED <<submits, clicks>>

-----------------------------------------------------------------------------
(* The container (ephemeral-entrypoint.sh, bootstrap-demo.ts).             *)

\* Mutant of StartBox: the directory of the sentinel is not removed.
StartOnOldDisk ==
  /\ box' = [at |-> "booting", life |-> box.life + 1, jobs |-> 0, job |-> "none",
             sentinel |-> box.sentinel]
  /\ decided' = {}

\* The disk may still hold the files of an earlier life, so they are removed.
StartBox ==
  /\ box' = [at |-> "booting", life |-> box.life + 1, jobs |-> 0, job |-> "none",
             sentinel |-> FALSE]
  /\ decided' = {}

\* Stores, migrations, fixtures, then the API listens and the worker answers.
OpenPort ==
  /\ box.at = "booting"
  /\ box' = [box EXCEPT !.at = "api"]
  /\ UNCHANGED <<decided, complete, req, pageVars, recorded, bounds>>

\* triggerAndWait, once for each job of the bootstrap.
TriggerJob ==
  /\ box.at = "api" /\ ~box.sentinel
  /\ box.jobs < Jobs /\ box.job = "none"
  /\ box' = [box EXCEPT !.job = "queued"]
  /\ UNCHANGED <<decided, complete, req, pageVars, recorded, bounds>>

\* The job is complete, and its result is what the bootstrap asserts.
PollJob ==
  /\ box.at = "api" /\ box.job = "queued"
  /\ box' = [box EXCEPT !.jobs = @ + 1, !.job = "none"]
  /\ complete' = IF box.jobs + 1 = Jobs THEN complete \cup {box.life} ELSE complete
  /\ UNCHANGED <<decided, req, pageVars, recorded, bounds>>

WriteSentinel ==
  /\ box.at = "api" /\ box.jobs = Jobs /\ ~box.sentinel
  /\ box' = [box EXCEPT !.sentinel = TRUE]
  /\ UNCHANGED <<decided, complete, req, pageVars, recorded, bounds>>

\* SIGTERM, sleep, a process that exits, a job of the bootstrap that fails, halts or
\* never ends: the shutdown trap removes the sentinel.  SIGKILL leaves it.
StopBox ==
  /\ box.at # "down"
  /\ Fault
  /\ \E trapped \in BOOLEAN :
       box' = [box EXCEPT !.at = "down", !.job = "none", !.sentinel = @ /\ ~trapped]
  /\ UNCHANGED <<decided, complete, req, pageVars, recorded>>

-----------------------------------------------------------------------------
(* The edge (forwardToReadyContainer) and the API, for one request.        *)

Waits(s) == req[s].at \in {"edge", "restarted"}
Reply(s, answer) == req' = [req EXCEPT ![s] = [at |-> "answer", of |-> req[s].of, answer |-> answer]]

\* Waiting for the port starts a container that is down.
WakeBox(s) ==
  /\ Waits(s) /\ box.at = "down"
  /\ StartBox
  /\ UNCHANGED <<complete, req, pageVars, recorded, bounds>>

\* The port does not listen after all: stop the container and wait once more.
PortRace(s) ==
  /\ req[s].at = "edge" /\ box.at # "down"
  /\ Fault
  /\ box' = [box EXCEPT !.at = "down", !.job = "none", !.sentinel = FALSE]
  /\ req' = [req EXCEPT ![s].at = "restarted"]
  /\ UNCHANGED <<decided, complete, pageVars, recorded>>

\* The wait ends without a port: 503 backend_unavailable.
GiveUp(s) ==
  /\ Waits(s) /\ box.at = "booting"
  /\ Reply(s, "unavailable")
  /\ UNCHANGED <<boxVars, pageVars, recorded, bounds>>

Forward(s) ==
  /\ Waits(s) /\ box.at = "api"
  /\ req' = [req EXCEPT ![s] = [at |-> "api", of |-> req[s].of, life |-> box.life]]
  /\ UNCHANGED <<boxVars, pageVars, recorded, bounds>>

AtApi(s, at) == req[s].at = at /\ box.at = "api" /\ box.life = req[s].life

\* requireBootstrap: 503 bootstrap_in_progress without the sentinel.
Refuse(s) ==
  /\ AtApi(s, "api") /\ ~box.sentinel
  /\ Reply(s, "bootstrap")
  /\ UNCHANGED <<boxVars, pageVars, recorded, bounds>>

\* The handler: a decision needs the version the page has shown, 409 otherwise.
Serve(s) ==
  /\ AtApi(s, "api") /\ box.sentinel
  /\ LET c == req[s].of
         records == s \in Submit /\ c \notin decided
     IN  /\ req' = [req EXCEPT ![s] = [at |-> "served", of |-> c, life |-> box.life,
              pending |-> c \notin decided,
              answer |-> IF s \in Submit /\ ~records THEN "stale" ELSE "evidence"]]
         /\ decided' = IF records THEN decided \cup {c} ELSE decided
         /\ recorded' = IF records THEN [recorded EXCEPT ![s] = @ \cup {<<box.life, c>>}] ELSE recorded
  /\ UNCHANGED <<box, complete, pageVars, bounds>>

Return(s) ==
  /\ AtApi(s, "served")
  /\ req' = [req EXCEPT ![s].at = "answer"]
  /\ UNCHANGED <<boxVars, pageVars, recorded, bounds>>

\* Mutant of Lost: the edge sends the request again.
ReplayLost(s) ==
  /\ req[s].at \in {"api", "served"} /\ ~AtApi(s, req[s].at)
  /\ req' = [req EXCEPT ![s] = Send(req[s].of)]
  /\ UNCHANGED <<boxVars, pageVars, recorded, bounds>>

\* The container went away with the request: 503 backend_unavailable.
Lost(s) ==
  /\ req[s].at \in {"api", "served"} /\ ~AtApi(s, req[s].at)
  /\ Reply(s, "unavailable")
  /\ UNCHANGED <<boxVars, pageVars, recorded, bounds>>

\* A 500, a rate limit, a network that fails: the answer is lost, its effect is not.
Break(s) ==
  /\ req[s].at # "none"
  /\ Fault
  /\ \E answer \in {"error", "unavailable"} : Reply(s, answer)
  /\ UNCHANGED <<boxVars, pageVars, recorded>>

-----------------------------------------------------------------------------
(* The page (App.tsx).                                                     *)

Transient(answer) == answer \in {"bootstrap", "unavailable"}
Loaded(answer) == IF answer = "evidence" THEN "data" ELSE "error"

\* What an effect sends for its part, the list only if the gate is open.
Sent(s, phase) ==
  CASE s = "overview" -> Send(NoConflict)
    [] s = "list" -> IF phase = "open" THEN Send(NoConflict) ELSE None
    [] s = "detail" -> IF page'.selected # NoConflict THEN Send(page'.selected) ELSE None

\* Mutants of Effects: a request under way is kept; the overview waits for the gate.
KeepRequests(parts, phase) ==
  [s \in Slot |-> IF s \in parts /\ ~(s = "detail" /\ req[s].at # "none") THEN Sent(s, phase) ELSE req[s]]

GatedOverview(parts, phase) ==
  [s \in Slot |-> IF s \notin parts THEN req[s]
                  ELSE IF s = "overview" /\ phase # "open" THEN None ELSE Sent(s, phase)]

\* The effects of a change: each part whose inputs change aborts its request and
\* sends another.
Effects(parts, phase) == [s \in Slot |-> IF s \in parts THEN Sent(s, phase) ELSE req[s]]

\* A request that is aborted while its body is read fails with a message, since
\* the parser of the body hides the abort.
Aborts(s, state) == IF req[s].at = "answer" THEN "error" ELSE state

\* A form lives as long as the detail around it is displayed.
Rendered(state) ==
  IF state.detail = "data" THEN state ELSE [state EXCEPT !.form = "free", !.shown = NoConflict]

\* The catch of an aborted overview opens the gate.
Reopened(phase) == IF req["overview"].at # "none" THEN "open" ELSE phase

\* setRefresh: every effect runs again.
Refreshed(next) ==
  LET phase == Reopened(next.phase)
  IN  /\ page' = Rendered([next EXCEPT !.phase = phase, !.retry = FALSE,
           !.overview = Aborts("overview", @), !.list = Aborts("list", @),
           !.detail = Aborts("detail", @)])
      /\ aborted' = (req["overview"].at # "none")
      /\ again' = FALSE

\* retry: everything loads again.
Reloading(state) ==
  [state EXCEPT !.overview = "loading", !.list = "loading", !.phase = "checking",
     !.detail = IF state.selected # NoConflict THEN "loading" ELSE @]

ReceiveOverview ==
  LET answer == req["overview"].answer
      phase == IF Transient(answer) THEN "restoring" ELSE "open"
      effects == IF phase = page.phase THEN {} ELSE {"list"}
  IN  /\ req["overview"].at = "answer"
      /\ page' = [page EXCEPT !.phase = phase, !.retry = Transient(answer),
           !.overview = IF Transient(answer) THEN @ ELSE Loaded(answer),
           !.list = IF effects = {} THEN @ ELSE Aborts("list", @)]
      /\ req' = [Effects(effects, phase) EXCEPT !["overview"] = None]
      /\ UNCHANGED <<boxVars, aborted, again, recorded, bounds>>

Retry ==
  /\ page.retry
  /\ Refreshed(page)
  /\ req' = Effects(Part, page'.phase)
  /\ UNCHANGED <<boxVars, recorded, bounds>>

ReceiveList ==
  /\ req["list"].at = "answer"
  /\ page' = [page EXCEPT !.list = Loaded(req["list"].answer)]
  /\ req' = [req EXCEPT !["list"] = None]
  /\ UNCHANGED <<boxVars, aborted, again, recorded, bounds>>

ReceiveDetail ==
  /\ req["detail"].at = "answer"
  /\ LET answer == req["detail"]
     IN  page' = IF answer.answer = "evidence"
                 THEN [page EXCEPT !.detail = "data", !.shown = answer.of, !.pending = answer.pending]
                 ELSE Rendered([page EXCEPT !.detail = "error"])
  /\ req' = [req EXCEPT !["detail"] = None]
  /\ UNCHANGED <<boxVars, aborted, again, recorded, bounds>>

\* A recorded decision refreshes the page; another answer becomes the form's error.
ReceiveDecision(s) ==
  /\ req[s].at = "answer"
  /\ IF req[s].answer = "evidence"
     THEN /\ Refreshed(Reloading(page))
          /\ req' = [Effects(Part, page'.phase) EXCEPT ![s] = None]
     ELSE /\ page' = [page EXCEPT !.form = IF @ = s THEN "free" ELSE @]
          /\ req' = [req EXCEPT ![s] = None]
          /\ UNCHANGED <<aborted, again>>
  /\ UNCHANGED <<boxVars, recorded, bounds>>

Click == clicks < MaxClicks /\ clicks' = clicks + 1 /\ UNCHANGED <<faults, submits>>

\* The buttons that refresh are behind the gate, but for the one of the detail.
Refresh ==
  /\ Click
  /\ page.phase = "open" \/ (page.selected # NoConflict /\ page.detail = "error")
  /\ Refreshed(Reloading(page))
  /\ req' = Effects(Part, page'.phase)
  /\ UNCHANGED <<boxVars, recorded>>

\* changeFilters and changePage; the window of the overview is one of the filters.
ChangeFilters ==
  /\ Click
  /\ page.phase = "open"
  /\ \E window \in BOOLEAN :
       /\ window => page.list # "loading"
       /\ page' = [page EXCEPT !.list = Aborts("list", "loading"),
            !.overview = IF window THEN Aborts("overview", @) ELSE @]
       /\ req' = Effects(IF window THEN {"overview", "list"} ELSE {"list"}, "open")
       /\ aborted' = (aborted \/ (window /\ req["overview"].at # "none"))
  /\ UNCHANGED <<boxVars, again, recorded>>

\* Nothing is sent for a conflict that is selected already.
Select(c) ==
  /\ Click
  /\ page.phase = "open"
  /\ page' = Rendered([page EXCEPT !.selected = c,
       !.detail = IF c = page.selected THEN "loading" ELSE Aborts("detail", "loading")])
  /\ req' = Effects(IF c = page.selected THEN {} ELSE {"detail"}, page.phase)
  /\ again' = (c = page.selected)
  /\ UNCHANGED <<boxVars, aborted, recorded>>

CloseDetail ==
  /\ Click
  /\ page.selected # NoConflict
  /\ page' = Rendered([page EXCEPT !.selected = NoConflict, !.detail = Aborts("detail", "empty")])
  /\ req' = Effects({"detail"}, page.phase)
  /\ again' = FALSE
  /\ UNCHANGED <<boxVars, aborted, recorded>>

\* A form is disabled while its own submit is on its way.
SubmitDecision ==
  /\ page.detail = "data" /\ page.pending /\ page.form = "free"
  /\ submits # Submit
  /\ LET s == CHOOSE s \in Submit : s \notin submits
     IN  /\ page' = [page EXCEPT !.form = s]
         /\ req' = [req EXCEPT ![s] = Send(page.shown)]
         /\ submits' = submits \cup {s}
  /\ UNCHANGED <<boxVars, aborted, again, recorded, faults, clicks>>

-----------------------------------------------------------------------------
Boot == OpenPort \/ TriggerJob \/ PollJob \/ WriteSentinel

Carry(s) == WakeBox(s) \/ Forward(s) \/ GiveUp(s) \/ Refuse(s) \/ Serve(s) \/ Return(s) \/ Lost(s)

Receive(s) ==
  \/ s = "overview" /\ ReceiveOverview
  \/ s = "list" /\ ReceiveList
  \/ s = "detail" /\ ReceiveDetail
  \/ s \in Submit /\ ReceiveDecision(s)

User ==
  \/ Refresh \/ ChangeFilters \/ CloseDetail
  \/ \E c \in ConflictId : Select(c)
  \/ SubmitDecision

DemoStep ==
  \/ Boot \/ StopBox \/ Retry \/ User
  \/ \E s \in Slot : Carry(s) \/ Receive(s) \/ PortRace(s) \/ Break(s)

DemoSpec == InitDemo /\ [][DemoStep]_demoVars

FairSpec ==
  /\ DemoSpec
  /\ WF_demoVars(Boot)
  /\ WF_demoVars(Retry)
  /\ \A s \in Slot : WF_demoVars(Carry(s) \/ Receive(s))

-----------------------------------------------------------------------------
(* Properties.                                                             *)

Answers == {"evidence", "stale", "bootstrap", "unavailable", "error"}
States == {"loading", "data", "error", "empty"}

\* Every variable holds what its component can hold, and every answer has a request.
DemoTypeOK ==
  /\ box.at \in {"down", "booting", "api"}
  /\ box.life \in 0..(MaxFaults + 1)
  /\ box.jobs \in 0..Jobs
  /\ box.sentinel \in BOOLEAN
  /\ decided \subseteq ConflictId
  /\ \A s \in Slot : req[s].at \in {"none", "edge", "restarted", "api", "served", "answer"}
  /\ \A s \in Slot : req[s].at = "answer" => req[s].answer \in Answers
  /\ page.phase \in {"checking", "restoring", "open"}
  /\ {page.overview, page.list, page.detail} \subseteq States

\* Evidence is never served by a container whose three jobs have not completed,
\* although containers come and go under a request and a killed one leaves its
\* sentinel on the disk.
EvidenceIsBootstrapped ==
  \A s \in Slot : req[s].at = "answer" /\ req[s].answer = "evidence" => req[s].life \in complete

\* The edge may restart the container under a submit, and the container may die
\* with it, and still a submit is recorded in one life of one conflict at most.
RecordedOnce == \A s \in Submit : Cardinality(recorded[s]) <= 1

\* The detail on display is that of the conflict that is selected, however the
\* answers of earlier selections arrive.
DetailIsSelected == page.shown # NoConflict => page.shown = page.selected

\* Every spinner has a request behind it, except the one of a conflict that was
\* selected again.
SpinnersHaveRequests ==
  /\ page.overview = "loading" => req["overview"].at # "none" \/ page.retry
  /\ page.list = "loading" /\ page.phase = "open" => req["list"].at # "none"
  /\ page.detail = "loading" => req["detail"].at # "none" \/ again

\* The gate is open over an overview that still loads only because an overview was
\* aborted.
GateFollowsOverview == page.phase = "open" /\ page.overview = "loading" => aborted

\* What the page shows fits what it has selected and the requests it waits for.
PageFollowsRequests == DemoTypeOK /\ DetailIsSelected /\ SpinnersHaveRequests /\ GateFollowsOverview

\* Whatever the faults do, the page comes back once they end, with no help from its
\* user.
Recovers == page.phase # "open" ~> page.phase = "open"
=============================================================================
