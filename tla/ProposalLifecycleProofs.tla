---------------------- MODULE ProposalLifecycleProofs ----------------------
(***************************************************************************)
(* Proofs about ProposalLifecycle, for all sets of conflicts, reviewers    *)
(* and stretch runs.                                                       *)
(*                                                                         *)
(* The heart of the induction is that row locks work: two transactions     *)
(* never hold the lock of one proposal (OneHolder), so a transaction       *)
(* commits on the row it read (ReadIsCurrent).  That row pins, through     *)
(* History, what the three other tables hold.                              *)
(***************************************************************************)
EXTENDS ProposalLifecycle, SequenceTheorems, TLAPS

\* A conflict that came back Threshold times is held, no earlier and for good.
HeldAtThreshold ==
  \A c \in Conflict : conflict[c].status = "oscillation_hold" <=> conflict[c].count = Threshold

Locking == {"decide", "apply", "rollback"}

\* Two transactions never hold the lock of one proposal.
OneHolder ==
  \A x, y \in Actor : (pc[x] \in Locking /\ pc[y] \in Locking /\ on[x] = on[y]) => x = y

\* Rows that were shown, scanned or locked exist; no proposal is ever deleted.
Known ==
  /\ \A v \in Reviewer : \A shown \in page[v] : proposal[shown.on].status # "absent"
  /\ \A a \in Applier : \A row \in scanned[a] : proposal[row.on].status # "absent"
  /\ \A x \in Actor : pc[x] \in Locking => proposal[on[x]].status # "absent"
  /\ \A x \in Actor : pc[x] = "application" => application[on[x]].status # "absent"

\* Only eligible proposals are locked by the stretch job.
Gated == \A x \in Actor : pc[x] = "apply" => on[x] \in Applicable

IInv ==
  /\ TypeOK /\ HeldAtThreshold
  /\ TablesAgree /\ ReadIsCurrent /\ OnlyEligibleApplied
  /\ OneHolder /\ Known /\ Gated

-----------------------------------------------------------------------------
(* Logs and rows.                                                          *)

\* Appending to the logs a proposal may have.
LEMMA AppendToOne ==
  ASSUME NEW S, NEW d \in S, NEW e \in S
  PROVE  Append(<<d>>, e) = <<d, e>>
<1> DEFINE u == Append(<<d>>, e)
           t == <<d, e>>
<1>1. <<d>> \in Seq(S) /\ Len(<<d>>) = 1 /\ <<d>>[1] = d
  OBVIOUS
<1>2. t \in Seq(S) /\ Len(t) = 2 /\ t[1] = d /\ t[2] = e
  OBVIOUS
<1>3. u \in Seq(S) /\ Len(u) = 2 /\ u[1] = d /\ u[2] = e
  BY <1>1, AppendProperties
<1> HIDE DEF u, t
<1>4. \A i \in 1..Len(u) : u[i] = t[i]
  BY <1>2, <1>3
<1>5. u = t
  BY <1>2, <1>3, <1>4, SeqEqual
<1> QED
  BY <1>5 DEF u, t

LEMMA AppendToTwo ==
  ASSUME NEW S, NEW d \in S, NEW e \in S, NEW f \in S
  PROVE  Append(<<d, e>>, f) = <<d, e, f>>
<1> DEFINE u == Append(<<d, e>>, f)
           t == <<d, e, f>>
<1>1. <<d, e>> \in Seq(S) /\ Len(<<d, e>>) = 2 /\ <<d, e>>[1] = d /\ <<d, e>>[2] = e
  OBVIOUS
<1>2. t \in Seq(S) /\ Len(t) = 3 /\ t[1] = d /\ t[2] = e /\ t[3] = f
  OBVIOUS
<1>3. u \in Seq(S) /\ Len(u) = 3 /\ u[1] = d /\ u[2] = e /\ u[3] = f
  BY <1>1, AppendProperties
<1> HIDE DEF u, t
<1>4. \A i \in 1..Len(u) : u[i] = t[i]
  BY <1>2, <1>3
<1>5. u = t
  BY <1>2, <1>3, <1>4, SeqEqual
<1> QED
  BY <1>5 DEF u, t

\* A history is kept while no table changes for its conflict.
LEMMA HistoryStays ==
  ASSUME NEW d, History(d),
         proposal'[d] = proposal[d], audit'[d] = audit[d],
         application'[d] = application[d], decisions'[d] = decisions[d]
  PROVE  History(d)'
BY DEF History

\* The status of a proposal pins its version, its log, its application and its decisions.
LEMMA StatusPins ==
  ASSUME NEW c \in Conflict, History(c)
  PROVE  /\ proposal[c].status = "absent" =>
              /\ proposal[c] = NoRow /\ audit[c] = <<>>
              /\ application[c] = NoRow /\ decisions[c] = {}
         /\ proposal[c].status = "pending" =>
              /\ proposal[c].version = 1 /\ audit[c] = <<"created">>
              /\ application[c] = NoRow /\ decisions[c] = {}
         /\ proposal[c].status = "applied" =>
              /\ proposal[c].version = 2 /\ audit[c] = <<"created", "applied">>
              /\ application[c] = [status |-> "applied", version |-> 1] /\ decisions[c] = {}
         /\ application[c].status # "absent" => proposal[c].status # "absent"
BY DEF History, NoRow

-----------------------------------------------------------------------------
(* The inductive invariant: the initial state.                             *)

LEMMA InitEstablishes == Init => IInv
<1> SUFFICES ASSUME Init PROVE IInv
  OBVIOUS
<1> USE DEF Init
<1>0. AnyConflict \in Conflict
  BY LifecycleAssumption DEF AnyConflict
<1>1. TypeOK
  <2>1. conflict \in [Conflict -> [status : {"absent", "active", "resolved", "oscillation_hold"},
                                   count : 0..Threshold]]
    BY LifecycleAssumption
  <2>2. proposal \in [Conflict -> Row] /\ read \in [Actor -> Row]
    BY DEF NoRow, Row, ProposalStatus
  <2>3. application \in [Conflict -> [status : {"absent", "applied", "rolled_back"}, version : Nat]]
    BY DEF NoRow
  <2>4. audit \in [Conflict -> Seq(Event)]
    OBVIOUS
  <2> QED
    BY <1>0, <2>1, <2>2, <2>3, <2>4 DEF TypeOK, NoPage
<1>2. HeldAtThreshold
  BY LifecycleAssumption DEF HeldAtThreshold
<1>3. TablesAgree
  BY DEF TablesAgree, History
<1>4. ReadIsCurrent /\ OneHolder /\ Known /\ Gated
  BY DEF ReadIsCurrent, OneHolder, Known, Gated, Locking, NoPage
<1>5. OnlyEligibleApplied
  BY DEF OnlyEligibleApplied, NoRow
<1> QED
  BY <1>1, <1>2, <1>3, <1>4, <1>5 DEF IInv

-----------------------------------------------------------------------------
(* Steps that leave the tables of the review alone.                        *)

\* Without a change to the tables, only what concerns the actors remains to be shown.
LEMMA TablesStay ==
  ASSUME IInv, UNCHANGED reviewVars
  PROVE  TablesAgree' /\ OnlyEligibleApplied'
BY DEF IInv, reviewVars, TablesAgree, History, OnlyEligibleApplied

\* And without a change to the actors, nothing.
LEMMA ActorsStay ==
  ASSUME IInv, UNCHANGED reviewVars, UNCHANGED actorVars
  PROVE  ReadIsCurrent' /\ OneHolder' /\ Known' /\ Gated'
BY DEF IInv, reviewVars, actorVars, ReadIsCurrent, OneHolder, Known, Gated, Locking

LEMMA SyncPreserves ==
  ASSUME IInv, PersistInvariants
  PROVE  IInv'
<1>1. PICK detected \in SUBSET Conflict :
        conflict' = [c \in Conflict |->
          IF c \in detected THEN Reassert(conflict[c]) ELSE Resolve(conflict[c])]
  BY DEF PersistInvariants
<1>2. UNCHANGED reviewVars /\ UNCHANGED actorVars /\ UNCHANGED candidates
  BY DEF PersistInvariants
<1>3. ASSUME NEW c \in Conflict
      PROVE  /\ conflict'[c] \in [status : {"absent", "active", "resolved", "oscillation_hold"},
                                  count : 0..Threshold]
             /\ conflict'[c].status = "oscillation_hold" <=> conflict'[c].count = Threshold
  <2>1. /\ conflict[c] \in [status : {"absent", "active", "resolved", "oscillation_hold"},
                            count : 0..Threshold]
        /\ conflict[c].status = "oscillation_hold" <=> conflict[c].count = Threshold
        /\ Threshold \in Nat
    BY LifecycleAssumption DEF IInv, TypeOK, HeldAtThreshold
  <2>2. CASE c \in detected
    <3>1. conflict'[c] = Reassert(conflict[c])
      BY <1>1, <2>2
    <3>2. CASE conflict[c].status = "resolved"
      <4>1. conflict'[c] = [status |-> IF conflict[c].count + 1 >= Threshold
                                       THEN "oscillation_hold" ELSE "active",
                            count |-> conflict[c].count + 1]
        BY <3>1, <3>2 DEF Reassert
      <4>2. conflict[c].count \in 0..Threshold /\ conflict[c].count # Threshold
        BY <2>1, <3>2
      <4> QED
        BY <4>1, <4>2, <2>1
    <3>3. CASE conflict[c].status # "resolved"
      BY <2>1, <3>1, <3>3 DEF Reassert
    <3> QED
      BY <3>2, <3>3
  <2>3. CASE c \notin detected
    <3>1. conflict'[c] = Resolve(conflict[c])
      BY <1>1, <2>3
    <3> QED
      BY <2>1, <3>1 DEF Resolve
  <2> QED
    BY <2>2, <2>3
<1>4. TypeOK' /\ HeldAtThreshold'
  <2>1. conflict' \in [Conflict -> [status : {"absent", "active", "resolved", "oscillation_hold"},
                                    count : 0..Threshold]]
    BY <1>1, <1>3
  <2> QED
    BY <1>2, <1>3, <2>1 DEF IInv, TypeOK, HeldAtThreshold, reviewVars, actorVars
<1> QED
  BY <1>2, <1>4, TablesStay, ActorsStay DEF IInv

\* Loading and passing over candidates touches nothing else.
LEMMA CandidatesPreserve ==
  ASSUME IInv, UNCHANGED <<conflict, reviewVars, actorVars>>, candidates' \in SUBSET Conflict
  PROVE  IInv'
<1>1. TypeOK' /\ HeldAtThreshold'
  BY DEF IInv, TypeOK, HeldAtThreshold, reviewVars, actorVars
<1> QED
  BY <1>1, TablesStay, ActorsStay DEF IInv

LEMMA ProposePreserves ==
  ASSUME IInv, NEW c \in Conflict, Propose(c)
  PROVE  IInv'
<1>1. /\ proposal[c].status = "absent"
      /\ proposal' = [proposal EXCEPT ![c] = [status |-> "pending", version |-> 1]]
      /\ audit' = [audit EXCEPT ![c] = Append(@, "created")]
      /\ candidates' = candidates \ {c}
      /\ UNCHANGED <<conflict, application, decisions, pc, on, read, page, scanned>>
  BY DEF Propose, Missing, actorVars
<1>2. /\ proposal'[c] = [status |-> "pending", version |-> 1]
      /\ \A d \in Conflict \ {c} : proposal'[d] = proposal[d] /\ audit'[d] = audit[d]
  BY <1>1 DEF IInv, TypeOK
<1>3. History(c)
  BY DEF IInv, TablesAgree
<1>4. /\ audit'[c] = <<"created">>
      /\ application'[c] = NoRow /\ decisions'[c] = {}
  <2>1. audit[c] = <<>> /\ application[c] = NoRow /\ decisions[c] = {}
    BY <1>1, <1>3, StatusPins
  <2>2. audit'[c] = Append(<<>>, "created")
    BY <1>1, <2>1 DEF IInv, TypeOK
  <2> QED
    BY <1>1, <2>1, <2>2
<1>5. TypeOK'
  <2>1. proposal' \in [Conflict -> Row]
    BY <1>1 DEF IInv, TypeOK, Row, ProposalStatus
  <2>2. audit' \in [Conflict -> Seq(Event)]
    BY <1>1 DEF IInv, TypeOK, Event
  <2> QED
    BY <1>1, <2>1, <2>2 DEF IInv, TypeOK
<1>6. TablesAgree'
  <2>1. History(c)'
    BY <1>2, <1>4 DEF History
  <2>2. ASSUME NEW d \in Conflict \ {c} PROVE History(d)'
    BY <1>1, <1>2 DEF IInv, TablesAgree, History
  <2> QED
    BY <2>1, <2>2 DEF TablesAgree
<1>7. ReadIsCurrent'
  <2> SUFFICES ASSUME NEW x \in Actor, pc[x] \in {"decide", "apply", "rollback"}
               PROVE  read[x] = proposal'[on[x]]
    BY <1>1 DEF ReadIsCurrent
  <2>1. on[x] \in Conflict /\ on[x] # c
    BY <1>1 DEF IInv, TypeOK, Known, Locking
  <2> QED
    BY <1>2, <2>1 DEF IInv, ReadIsCurrent
<1>8. Known'
  <2>1. \A d \in Conflict : proposal[d].status # "absent" => proposal'[d].status # "absent"
    BY <1>2
  <2> QED
    BY <1>1, <2>1 DEF IInv, TypeOK, Known, Locking, Shown
<1>9. HeldAtThreshold' /\ OnlyEligibleApplied' /\ OneHolder' /\ Gated'
  BY <1>1 DEF IInv, HeldAtThreshold, OnlyEligibleApplied, OneHolder, Gated, Locking
<1> QED
  BY <1>5, <1>6, <1>7, <1>8, <1>9 DEF IInv

-----------------------------------------------------------------------------
(* Steps of a transaction that change no table.                            *)

\* Taking the lock of a proposal that exists.
LEMMA LockPreserves ==
  ASSUME IInv, NEW x \in Actor, NEW c \in Conflict, NEW step \in Locking,
         ReadForUpdate(x, c, step), proposal[c].status # "absent",
         step = "apply" => c \in Applicable,
         UNCHANGED <<conflict, reviewVars, candidates, page, scanned>>
  PROVE  IInv'
<1>1. /\ \A y \in Actor : ~(on[y] = c /\ pc[y] \in Locking)
      /\ pc' = [pc EXCEPT ![x] = step] /\ on' = [on EXCEPT ![x] = c]
      /\ read' = [read EXCEPT ![x] = proposal[c]]
  BY DEF ReadForUpdate, ProposalHolders, Locking
<1>2. /\ pc'[x] = step /\ on'[x] = c /\ read'[x] = proposal[c]
      /\ \A y \in Actor \ {x} : pc'[y] = pc[y] /\ on'[y] = on[y] /\ read'[y] = read[y]
  BY <1>1 DEF IInv, TypeOK
<1>3. TypeOK'
  <2>1. proposal[c] \in Row
    BY DEF IInv, TypeOK
  <2> QED
    BY <1>1, <2>1 DEF IInv, TypeOK, Locking, reviewVars
<1>4. ReadIsCurrent'
  BY <1>2 DEF IInv, ReadIsCurrent, reviewVars
<1>5. OneHolder'
  BY <1>1, <1>2 DEF IInv, OneHolder
<1>6. Known'
  BY <1>2 DEF IInv, Known, Locking, reviewVars
<1>7. Gated' /\ HeldAtThreshold'
  BY <1>2 DEF IInv, Gated, HeldAtThreshold
<1> QED
  BY <1>3, <1>4, <1>5, <1>6, <1>7, TablesStay DEF IInv

\* Ending a transaction, whatever else the actor forgets.
LEMMA EndPreserves ==
  ASSUME IInv, NEW x \in Actor, EndTransaction(x),
         UNCHANGED <<conflict, reviewVars, candidates, page>>,
         scanned' \in [Applier -> SUBSET Shown],
         \A a \in Applier : scanned'[a] \subseteq scanned[a]
  PROVE  IInv'
<1>1. /\ pc' = [pc EXCEPT ![x] = "idle"] /\ on' = [on EXCEPT ![x] = AnyConflict]
      /\ read' = [read EXCEPT ![x] = NoRow]
      /\ pc'[x] = "idle"
      /\ \A y \in Actor \ {x} : pc'[y] = pc[y] /\ on'[y] = on[y] /\ read'[y] = read[y]
  BY DEF EndTransaction, IInv, TypeOK
<1>2. TypeOK'
  <2>1. AnyConflict \in Conflict /\ NoRow \in Row
    BY LifecycleAssumption DEF AnyConflict, NoRow, Row, ProposalStatus
  <2> QED
    BY <1>1, <2>1 DEF IInv, TypeOK, reviewVars
<1>3. ReadIsCurrent' /\ OneHolder' /\ Gated' /\ HeldAtThreshold'
  BY <1>1 DEF IInv, ReadIsCurrent, OneHolder, Gated, Locking, HeldAtThreshold, reviewVars
<1>4. Known'
  BY <1>1 DEF IInv, Known, Locking, reviewVars
<1> QED
  BY <1>2, <1>3, <1>4, TablesStay DEF IInv

-----------------------------------------------------------------------------
(* Commits.                                                                *)

\* What a commit does to everything but the history of its own proposal: the tables of
\* the review change for the conflict x holds, and x lets go of it.
LEMMA CommitPreserves ==
  ASSUME IInv, NEW x \in Actor, pc[x] \in Locking, EndTransaction(x),
         NEW c \in Conflict, on[x] = c,
         NEW status \in Event \ {"created"}, Advance(c, status),
         UNCHANGED <<conflict, candidates, page>>,
         application' \in [Conflict -> [status : {"absent", "applied", "rolled_back"}, version : Nat]],
         decisions' \in [Conflict -> SUBSET [decision : {"approved", "rejected", "held"}, version : Nat]],
         \A d \in Conflict \ {c} : application'[d] = application[d] /\ decisions'[d] = decisions[d],
         application[c].status # "absent" => application'[c].status # "absent",
         application'[c].status # "absent" => c \in Applicable,
         scanned' \in [Applier -> SUBSET Shown],
         \A a \in Applier : scanned'[a] \subseteq scanned[a],
         History(c)'
  PROVE  IInv'
<1>1. /\ c \in Conflict
      /\ proposal' = [proposal EXCEPT ![c] = [status |-> status, version |-> @.version + 1]]
      /\ audit' = [audit EXCEPT ![c] = Append(@, status)]
      /\ status # "absent" /\ status \in ProposalStatus /\ status \in Event
  BY DEF IInv, TypeOK, Advance, Event
<1>2. /\ pc' = [pc EXCEPT ![x] = "idle"] /\ on' = [on EXCEPT ![x] = AnyConflict]
      /\ read' = [read EXCEPT ![x] = NoRow]
      /\ pc'[x] = "idle"
      /\ \A y \in Actor \ {x} : pc'[y] = pc[y] /\ on'[y] = on[y] /\ read'[y] = read[y]
  BY DEF EndTransaction, IInv, TypeOK
<1>3. /\ proposal'[c] = [status |-> status, version |-> proposal[c].version + 1]
      /\ \A d \in Conflict \ {c} : proposal'[d] = proposal[d] /\ audit'[d] = audit[d]
  BY <1>1 DEF IInv, TypeOK
<1>4. TypeOK'
  <2>1. AnyConflict \in Conflict /\ NoRow \in Row
    BY LifecycleAssumption DEF AnyConflict, NoRow, Row, ProposalStatus
  <2>2. proposal' \in [Conflict -> Row]
    <3>1. proposal[c].version + 1 \in Nat
      BY <1>1 DEF IInv, TypeOK, Row
    <3>2. [status |-> status, version |-> proposal[c].version + 1] \in Row
      BY <1>1, <3>1 DEF Row
    <3> QED
      BY <1>1, <3>2 DEF IInv, TypeOK
  <2>3. audit' \in [Conflict -> Seq(Event)]
    <3>1. Append(audit[c], status) \in Seq(Event)
      BY <1>1 DEF IInv, TypeOK
    <3> QED
      BY <1>1, <3>1 DEF IInv, TypeOK
  <2> QED
    BY <1>2, <2>1, <2>2, <2>3 DEF IInv, TypeOK
<1>5. TablesAgree'
  <2>1. ASSUME NEW d \in Conflict, d # c PROVE History(d)'
    BY <1>3, <2>1, HistoryStays DEF IInv, TablesAgree
  <2> QED
    BY <2>1 DEF TablesAgree
<1>6. ReadIsCurrent'
  <2> SUFFICES ASSUME NEW y \in Actor, pc'[y] \in {"decide", "apply", "rollback"}
               PROVE  read'[y] = proposal'[on'[y]]
    BY DEF ReadIsCurrent
  <2>1. y # x
    BY <1>2
  <2>2. pc[y] \in Locking /\ on'[y] = on[y] /\ read'[y] = read[y]
    BY <1>2, <2>1 DEF Locking
  <2>3. on[y] # c
    BY <2>1, <2>2 DEF IInv, OneHolder
  <2> QED
    BY <1>3, <2>2, <2>3 DEF IInv, TypeOK, ReadIsCurrent, Locking
<1>7. OneHolder' /\ Gated' /\ HeldAtThreshold'
  BY <1>2 DEF IInv, OneHolder, Gated, HeldAtThreshold, Locking
<1>8. Known'
  <2>1. \A d \in Conflict : proposal[d].status # "absent" => proposal'[d].status # "absent"
    BY <1>1, <1>3
  <2>2. \A d \in Conflict : application[d].status # "absent" => application'[d].status # "absent"
    OBVIOUS
  <2>3. \A v \in Reviewer : \A shown \in page'[v] : proposal'[shown.on].status # "absent"
    BY <2>1 DEF IInv, TypeOK, Known, Shown
  <2>4. \A a \in Applier : \A row \in scanned'[a] : proposal'[row.on].status # "absent"
    BY <2>1 DEF IInv, TypeOK, Known, Shown
  <2>5. \A y \in Actor : pc'[y] \in Locking => proposal'[on'[y]].status # "absent"
    BY <1>2, <2>1 DEF IInv, TypeOK, Known, Locking
  <2>6. \A y \in Actor : pc'[y] = "application" => application'[on'[y]].status # "absent"
    BY <1>2, <2>2 DEF IInv, TypeOK, Known, Locking
  <2> QED
    BY <2>3, <2>4, <2>5, <2>6 DEF Known
<1>9. OnlyEligibleApplied'
  BY DEF IInv, OnlyEligibleApplied
<1> QED
  BY <1>4, <1>5, <1>6, <1>7, <1>8, <1>9 DEF IInv

LEMMA DecidePreserves ==
  ASSUME IInv, NEW v \in Reviewer, NEW c \in Conflict, on[v] = c, Decide(v)
  PROVE  IInv' /\ Log!Decide(c)
<1>1. PICK shown \in page[v], status \in {"approved", "rejected", "held"} :
        /\ shown.on = c
        /\ Decidable(read[v], shown.version)
        /\ Advance(c, status)
        /\ decisions' = [decisions EXCEPT ![c] =
             @ \cup {[decision |-> status, version |-> shown.version]}]
  BY DEF Decide
<1>2. /\ pc[v] = "decide" /\ v \in Actor
      /\ EndTransaction(v)
      /\ UNCHANGED <<conflict, application, candidates, page, scanned>>
  BY DEF Decide, Actor
<1>3. /\ proposal[c].status = "pending" /\ shown.version = proposal[c].version
      /\ History(c)
  BY <1>1, <1>2 DEF IInv, ReadIsCurrent, Decidable, TablesAgree
<1>4. /\ proposal[c].version = 1 /\ audit[c] = <<"created">>
      /\ application[c] = NoRow /\ decisions[c] = {}
  BY <1>3, StatusPins
<1>5. /\ status \in Event \ {"created"} /\ "created" \in Event
      /\ pc[v] \in Locking
  BY <1>2 DEF Event, ProposalStatus, Locking
<1>6. /\ proposal'[c] = [status |-> status, version |-> 2]
      /\ audit'[c] = <<"created", status>>
      /\ application'[c] = NoRow
      /\ decisions'[c] = {[decision |-> status, version |-> 1]}
  <2>1. proposal'[c] = [status |-> status, version |-> 1 + 1]
    BY <1>1, <1>4 DEF IInv, TypeOK, Advance
  <2>2. audit'[c] = Append(<<"created">>, status)
    BY <1>1, <1>4 DEF IInv, TypeOK, Advance
  <2>3. audit'[c] = <<"created", status>>
    BY <1>5, <2>2, AppendToOne
  <2>4. decisions'[c] = {[decision |-> status, version |-> 1]}
    BY <1>1, <1>3, <1>4 DEF IInv, TypeOK
  <2> QED
    BY <1>2, <1>4, <2>1, <2>3, <2>4
<1>7. History(c)'
  BY <1>6 DEF History
<1>8. /\ decisions' \in [Conflict -> SUBSET [decision : {"approved", "rejected", "held"},
                                             version : Nat]]
      /\ \A d \in Conflict \ {c} : application'[d] = application[d] /\ decisions'[d] = decisions[d]
  <2>1. shown.version \in Nat
    BY <1>3, <1>4
  <2> QED
    BY <1>1, <1>2, <2>1 DEF IInv, TypeOK
<1>9. /\ application' \in [Conflict -> [status : {"absent", "applied", "rolled_back"},
                                        version : Nat]]
      /\ application'[c].status = "absent" /\ application[c].status = "absent"
      /\ scanned' \in [Applier -> SUBSET Shown]
      /\ \A a \in Applier : scanned'[a] \subseteq scanned[a]
  BY <1>2, <1>4 DEF IInv, TypeOK, NoRow
<1>10. IInv'
  BY <1>1, <1>2, <1>5, <1>7, <1>8, <1>9, CommitPreserves
<1>11. Log!Decide(c)
  BY <1>1, <1>4 DEF Log!Decide, Log!Enter, Log!Decided, Advance
<1> QED
  BY <1>10, <1>11

LEMMA ApplyPreserves ==
  ASSUME IInv, NEW a \in Applier, NEW c \in Conflict, on[a] = c, Apply(a)
  PROVE  IInv' /\ Log!Apply(c)
<1>1. PICK row \in scanned[a] :
        /\ StillPending(a, row)
        /\ Advance(c, "applied")
        /\ application' = [application EXCEPT ![c] = [status |-> "applied", version |-> row.version]]
        /\ scanned' = [scanned EXCEPT ![a] = @ \ {row}]
  BY DEF Apply
<1>2. /\ pc[a] = "apply" /\ a \in Actor
      /\ EndTransaction(a)
      /\ UNCHANGED <<conflict, decisions, candidates, page>>
  BY DEF Apply, Actor
<1>3. /\ proposal[c].status = "pending" /\ row.version = proposal[c].version
      /\ History(c) /\ c \in Applicable
  BY <1>1, <1>2 DEF IInv, ReadIsCurrent, StillPending, TablesAgree, Gated
<1>4. /\ proposal[c].version = 1 /\ audit[c] = <<"created">>
      /\ application[c] = NoRow /\ decisions[c] = {}
  BY <1>3, StatusPins
<1>5. /\ "applied" \in Event \ {"created"} /\ "created" \in Event
      /\ pc[a] \in Locking
  BY <1>2 DEF Event, ProposalStatus, Locking
<1>6. /\ proposal'[c] = [status |-> "applied", version |-> 2]
      /\ audit'[c] = <<"created", "applied">>
      /\ application'[c] = [status |-> "applied", version |-> 1]
      /\ decisions'[c] = {}
  <2>1. proposal'[c] = [status |-> "applied", version |-> 1 + 1]
    BY <1>1, <1>4 DEF IInv, TypeOK, Advance
  <2>2. audit'[c] = Append(<<"created">>, "applied")
    BY <1>1, <1>4 DEF IInv, TypeOK, Advance
  <2>3. audit'[c] = <<"created", "applied">>
    BY <1>5, <2>2, AppendToOne
  <2>4. application'[c] = [status |-> "applied", version |-> 1]
    BY <1>1, <1>3, <1>4 DEF IInv, TypeOK
  <2> QED
    BY <1>2, <1>4, <2>1, <2>3, <2>4
<1>7. History(c)'
  BY <1>6 DEF History
<1>8. /\ application' \in [Conflict -> [status : {"absent", "applied", "rolled_back"},
                                        version : Nat]]
      /\ \A d \in Conflict \ {c} : application'[d] = application[d] /\ decisions'[d] = decisions[d]
      /\ application'[c].status = "applied"
  <2>1. [status |-> "applied", version |-> row.version]
          \in [status : {"absent", "applied", "rolled_back"}, version : Nat]
    BY <1>3, <1>4
  <2> QED
    BY <1>1, <1>2, <1>6, <2>1 DEF IInv, TypeOK
<1>9. /\ decisions' \in [Conflict -> SUBSET [decision : {"approved", "rejected", "held"},
                                             version : Nat]]
      /\ scanned' \in [Applier -> SUBSET Shown]
      /\ \A b \in Applier : scanned'[b] \subseteq scanned[b]
  BY <1>1, <1>2 DEF IInv, TypeOK
<1>10. IInv'
  BY <1>1, <1>2, <1>3, <1>5, <1>7, <1>8, <1>9, CommitPreserves
<1>11. Log!Apply(c)
  BY <1>1, <1>3, <1>4 DEF Log!Apply, Log!Enter, Advance
<1> QED
  BY <1>10, <1>11

LEMMA RollBackPreserves ==
  ASSUME IInv, NEW v \in Reviewer, NEW c \in Conflict, on[v] = c, RollBack(v)
  PROVE  IInv' /\ Log!RollBack(c)
<1>1. /\ pc[v] = "rollback" /\ v \in Actor
      /\ CanRollBack(read[v])
      /\ Advance(c, "rolled_back")
      /\ application' = [application EXCEPT ![c].status = "rolled_back"]
      /\ EndTransaction(v)
      /\ UNCHANGED <<conflict, decisions, candidates, page, scanned>>
  BY DEF RollBack, Actor
<1>2. proposal[c].status = "applied" /\ History(c)
  BY <1>1 DEF IInv, ReadIsCurrent, CanRollBack, TablesAgree
<1>3. /\ proposal[c].version = 2 /\ audit[c] = <<"created", "applied">>
      /\ application[c] = [status |-> "applied", version |-> 1] /\ decisions[c] = {}
  BY <1>2, StatusPins
<1>4. /\ "rolled_back" \in Event \ {"created"} /\ "created" \in Event /\ "applied" \in Event
      /\ pc[v] \in Locking
  BY <1>1 DEF Event, ProposalStatus, Locking
<1>5. /\ proposal'[c] = [status |-> "rolled_back", version |-> 3]
      /\ audit'[c] = <<"created", "applied", "rolled_back">>
      /\ application'[c] = [status |-> "rolled_back", version |-> 1]
      /\ decisions'[c] = {}
  <2>1. proposal'[c] = [status |-> "rolled_back", version |-> 2 + 1]
    BY <1>1, <1>3 DEF IInv, TypeOK, Advance
  <2>2. audit'[c] = Append(<<"created", "applied">>, "rolled_back")
    BY <1>1, <1>3 DEF IInv, TypeOK, Advance
  <2>3. audit'[c] = <<"created", "applied", "rolled_back">>
    BY <1>4, <2>2, AppendToTwo
  <2>4. application'[c] = [status |-> "rolled_back", version |-> 1]
    BY <1>1, <1>3 DEF IInv, TypeOK
  <2> QED
    BY <1>1, <1>3, <2>1, <2>3, <2>4
<1>6. History(c)'
  BY <1>5 DEF History
<1>7. /\ application' \in [Conflict -> [status : {"absent", "applied", "rolled_back"},
                                        version : Nat]]
      /\ \A d \in Conflict \ {c} : application'[d] = application[d] /\ decisions'[d] = decisions[d]
      /\ application'[c].status = "rolled_back"
      /\ c \in Applicable
  BY <1>1, <1>3, <1>5 DEF IInv, TypeOK, OnlyEligibleApplied
<1>8. /\ decisions' \in [Conflict -> SUBSET [decision : {"approved", "rejected", "held"},
                                             version : Nat]]
      /\ scanned' \in [Applier -> SUBSET Shown]
      /\ \A b \in Applier : scanned'[b] \subseteq scanned[b]
  BY <1>1 DEF IInv, TypeOK
<1>9. IInv'
  BY <1>1, <1>4, <1>6, <1>7, <1>8, CommitPreserves
<1>10. Log!RollBack(c)
  BY <1>1, <1>3 DEF Log!RollBack, Log!Enter, Advance
<1> QED
  BY <1>9, <1>10

-----------------------------------------------------------------------------
(* What is read without a lock, and the lock of an application.            *)

\* A reviewer is shown a proposal that exists.
LEMMA OpenPagePreserves ==
  ASSUME IInv, NEW v \in Reviewer, NEW c \in Conflict, OpenPage(v, c)
  PROVE  IInv'
<1>1. /\ proposal[c].status # "absent"
      /\ page' = [page EXCEPT ![v] = {[on |-> c, version |-> proposal[c].version]}]
      /\ UNCHANGED <<conflict, reviewVars, candidates, pc, on, read, scanned>>
  BY DEF OpenPage
<1>2. [on |-> c, version |-> proposal[c].version] \in Shown
  BY DEF IInv, TypeOK, Row, Shown
<1>3. TypeOK' /\ HeldAtThreshold'
  BY <1>1, <1>2 DEF IInv, TypeOK, HeldAtThreshold, reviewVars
<1>4. Known'
  BY <1>1, <1>2 DEF IInv, TypeOK, Known, Locking, reviewVars
<1>5. ReadIsCurrent' /\ OneHolder' /\ Gated'
  BY <1>1 DEF IInv, ReadIsCurrent, OneHolder, Gated, Locking, reviewVars
<1> QED
  BY <1>1, <1>3, <1>4, <1>5, TablesStay DEF IInv

\* The scan of a stretch run finds proposals that exist.
LEMMA ScanPreserves ==
  ASSUME IInv, NEW a \in Applier, Scan(a)
  PROVE  IInv'
<1> DEFINE rows == {[on |-> c, version |-> proposal[c].version] :
                      c \in {k \in Conflict : proposal[k].status = "pending"}}
<1>1. /\ scanned' = [scanned EXCEPT ![a] = rows]
      /\ UNCHANGED <<conflict, reviewVars, candidates, pc, on, read, page>>
  BY DEF Scan
<1>2. rows \subseteq Shown /\ \A row \in rows : proposal[row.on].status # "absent"
  BY DEF IInv, TypeOK, Row, Shown
<1> HIDE DEF rows
<1>3. TypeOK' /\ HeldAtThreshold'
  BY <1>1, <1>2 DEF IInv, TypeOK, HeldAtThreshold, reviewVars
<1>4. Known'
  BY <1>1, <1>2 DEF IInv, TypeOK, Known, Locking, reviewVars
<1>5. ReadIsCurrent' /\ OneHolder' /\ Gated'
  BY <1>1 DEF IInv, ReadIsCurrent, OneHolder, Gated, Locking, reviewVars
<1> QED
  BY <1>1, <1>3, <1>4, <1>5, TablesStay DEF IInv

LEMMA DenyPreserves ==
  ASSUME IInv, NEW a \in Applier, Deny(a)
  PROVE  IInv'
<1>1. PICK row \in scanned[a] : scanned' = [scanned EXCEPT ![a] = @ \ {row}]
  BY DEF Deny
<1>2. UNCHANGED <<conflict, reviewVars, candidates, pc, on, read, page>>
  BY DEF Deny
<1>3. /\ scanned' \in [Applier -> SUBSET Shown]
      /\ \A b \in Applier : scanned'[b] \subseteq scanned[b]
  BY <1>1 DEF IInv, TypeOK
<1>4. TypeOK' /\ HeldAtThreshold'
  BY <1>2, <1>3 DEF IInv, TypeOK, HeldAtThreshold, reviewVars
<1>5. ReadIsCurrent' /\ OneHolder' /\ Gated' /\ Known'
  BY <1>2, <1>3 DEF IInv, ReadIsCurrent, OneHolder, Gated, Known, Locking, reviewVars
<1> QED
  BY <1>2, <1>4, <1>5, TablesStay DEF IInv

LEMMA LockApplicationPreserves ==
  ASSUME IInv, NEW v \in Reviewer, NEW c \in Conflict, LockApplication(v, c)
  PROVE  IInv'
<1>1. /\ application[c].status # "absent" /\ v \in Actor
      /\ pc' = [pc EXCEPT ![v] = "application"] /\ on' = [on EXCEPT ![v] = c]
      /\ UNCHANGED <<conflict, reviewVars, candidates, read, page, scanned>>
  BY DEF LockApplication, Actor
<1>2. /\ pc'[v] = "application" /\ on'[v] = c
      /\ \A y \in Actor \ {v} : pc'[y] = pc[y] /\ on'[y] = on[y]
  BY <1>1 DEF IInv, TypeOK
<1>3. TypeOK' /\ HeldAtThreshold'
  BY <1>1 DEF IInv, TypeOK, HeldAtThreshold, reviewVars
<1>4. ReadIsCurrent' /\ OneHolder' /\ Gated'
  BY <1>1, <1>2 DEF IInv, ReadIsCurrent, OneHolder, Gated, Locking, reviewVars
<1>5. Known'
  BY <1>1, <1>2 DEF IInv, Known, Locking, reviewVars
<1> QED
  BY <1>1, <1>3, <1>4, <1>5, TablesStay DEF IInv

-----------------------------------------------------------------------------
(* Every step.                                                             *)

\* Transactions that end without a write, for whatever reason.
LEMMA RefusalsPreserve ==
  ASSUME IInv, NEW x \in Actor,
         \/ x \in Reviewer /\ (RefuseDecision(x) \/ RefuseRollBack(x) \/ Disconnect(x))
         \/ x \in Applier /\ (SkipApply(x) \/ Die(x))
  PROVE  IInv' /\ UNCHANGED audit
<1>1. EndTransaction(x) /\ UNCHANGED <<conflict, reviewVars, candidates, page>>
  BY DEF RefuseDecision, RefuseRollBack, Disconnect, SkipApply, Die
<1>2. /\ scanned' \in [Applier -> SUBSET Shown]
      /\ \A a \in Applier : scanned'[a] \subseteq scanned[a]
  <2>1. CASE x \in Reviewer /\ (RefuseDecision(x) \/ RefuseRollBack(x) \/ Disconnect(x))
    BY <2>1 DEF IInv, TypeOK, RefuseDecision, RefuseRollBack, Disconnect
  <2>2. CASE x \in Applier /\ SkipApply(x)
    <3>1. PICK row \in scanned[x] : scanned' = [scanned EXCEPT ![x] = @ \ {row}]
      BY <2>2 DEF SkipApply
    <3> QED
      BY <3>1 DEF IInv, TypeOK
  <2>3. CASE x \in Applier /\ Die(x)
    BY <2>3 DEF IInv, TypeOK, Die
  <2> QED
    BY <2>1, <2>2, <2>3
<1> QED
  BY <1>1, <1>2, EndPreserves DEF reviewVars

\* What a reviewer does.
LEMMA ReviewPreserves ==
  ASSUME IInv, NEW v \in Reviewer, Review(v)
  PROVE  IInv' /\ (UNCHANGED audit \/ \E c \in Conflict : Log!Decide(c) \/ Log!RollBack(c))
<1> v \in Actor
  BY DEF Actor
<1>1. CASE \E c \in Conflict : OpenPage(v, c)
  BY <1>1, OpenPagePreserves DEF OpenPage, reviewVars
<1>2. CASE \E c \in Conflict : LockApplication(v, c)
  BY <1>2, LockApplicationPreserves DEF LockApplication, reviewVars
<1>3. CASE LockToDecide(v)
  <2>1. PICK shown \in page[v] : ReadForUpdate(v, shown.on, "decide")
    BY <1>3 DEF LockToDecide
  <2>2. UNCHANGED <<conflict, reviewVars, candidates, page, scanned>>
    BY <1>3 DEF LockToDecide
  <2>3. shown.on \in Conflict /\ proposal[shown.on].status # "absent"
    BY DEF IInv, TypeOK, Known, Shown
  <2> QED
    BY <2>1, <2>2, <2>3, LockPreserves DEF Locking, reviewVars
<1>4. CASE Decide(v)
  <2>1. on[v] \in Conflict
    BY DEF IInv, TypeOK
  <2> QED
    BY <1>4, <2>1, DecidePreserves
<1>5. CASE LockToRollBack(v)
  <2>1. /\ pc[v] = "application" /\ ReadForUpdate(v, on[v], "rollback")
        /\ UNCHANGED <<conflict, reviewVars, candidates, page, scanned>>
    BY <1>5 DEF LockToRollBack
  <2>2. on[v] \in Conflict /\ application[on[v]].status # "absent"
    BY <2>1 DEF IInv, TypeOK, Known
  <2>3. proposal[on[v]].status # "absent"
    BY <2>2, StatusPins DEF IInv, TablesAgree
  <2> QED
    BY <2>1, <2>2, <2>3, LockPreserves DEF Locking, reviewVars
<1>6. CASE RollBack(v)
  <2>1. on[v] \in Conflict
    BY DEF IInv, TypeOK
  <2> QED
    BY <1>6, <2>1, RollBackPreserves
<1>7. CASE RefuseDecision(v) \/ RefuseRollBack(v) \/ Disconnect(v)
  <2>1. v \in Reviewer /\ (RefuseDecision(v) \/ RefuseRollBack(v) \/ Disconnect(v))
    BY <1>7
  <2>2. IInv' /\ UNCHANGED audit
    BY <2>1, RefusalsPreserve, SMTT(30)
  <2> QED
    BY <2>2
<1> QED
  BY <1>1, <1>2, <1>3, <1>4, <1>5, <1>6, <1>7 DEF Review

\* What an execution of the stretch job does.
LEMMA AutoApplyPreserves ==
  ASSUME IInv, NEW a \in Applier, AutoApply(a)
  PROVE  IInv' /\ (UNCHANGED audit \/ \E c \in Conflict : Log!Apply(c))
<1> a \in Actor
  BY DEF Actor
<1>1. CASE Scan(a)
  BY <1>1, ScanPreserves DEF Scan, reviewVars
<1>2. CASE Deny(a)
  BY <1>2, DenyPreserves DEF Deny, reviewVars
<1>3. CASE LockToApply(a)
  <2>1. PICK row \in scanned[a] : Eligible(row.on) /\ ReadForUpdate(a, row.on, "apply")
    BY <1>3 DEF LockToApply
  <2>2. UNCHANGED <<conflict, reviewVars, candidates, page, scanned>>
    BY <1>3 DEF LockToApply
  <2>3. /\ row.on \in Conflict /\ proposal[row.on].status # "absent"
        /\ row.on \in Applicable
    BY <2>1 DEF IInv, TypeOK, Known, Shown, Eligible
  <2> QED
    BY <2>1, <2>2, <2>3, LockPreserves DEF Locking, reviewVars
<1>4. CASE Apply(a)
  <2>1. on[a] \in Conflict
    BY DEF IInv, TypeOK
  <2> QED
    BY <1>4, <2>1, ApplyPreserves
<1>5. CASE SkipApply(a) \/ Die(a)
  BY <1>5, RefusalsPreserve
<1> QED
  BY <1>1, <1>2, <1>3, <1>4, <1>5 DEF AutoApply

\* Each step keeps the invariant and is a step of the review log, or stutters.
LEMMA StepPreserves ==
  ASSUME IInv, [Next]_vars
  PROVE  IInv' /\ [Log!Next]_audit
<1>1. CASE PersistInvariants
  BY <1>1, SyncPreserves DEF PersistInvariants, reviewVars
<1>2. CASE LoadActive
  BY <1>2, CandidatesPreserve DEF LoadActive, reviewVars
<1>3. CASE \E c \in Conflict : PassOver(c)
  BY <1>3, CandidatesPreserve DEF PassOver, reviewVars, IInv, TypeOK
<1>4. CASE \E c \in Conflict : Propose(c)
  <2>1. PICK c \in Conflict : Propose(c)
    BY <1>4
  <2>2. audit[c] = <<>>
    BY <2>1, StatusPins DEF Propose, Missing, IInv, TablesAgree
  <2>3. Log!Create(c)
    BY <2>1, <2>2 DEF Propose, Log!Create, Log!Enter
  <2> QED
    BY <2>1, <2>3, ProposePreserves DEF Log!Next
<1>5. CASE \E v \in Reviewer : Review(v)
  BY <1>5, ReviewPreserves DEF Log!Next
<1>6. CASE \E a \in Applier : AutoApply(a)
  BY <1>6, AutoApplyPreserves DEF Log!Next
<1>7. CASE UNCHANGED vars
  <2>1. UNCHANGED <<conflict, reviewVars, actorVars>> /\ UNCHANGED candidates
    BY <1>7 DEF vars
  <2>2. candidates' \in SUBSET Conflict
    BY <2>1 DEF IInv, TypeOK
  <2> QED
    BY <2>1, <2>2, CandidatesPreserve DEF reviewVars
<1> QED
  BY <1>1, <1>2, <1>3, <1>4, <1>5, <1>6, <1>7 DEF Next, Reconcile

LEMMA Invariance == Spec => []IInv
<1>1. IInv /\ [Next]_vars => IInv'
  BY StepPreserves
<1> QED
  BY InitEstablishes, <1>1, PTL DEF Spec

-----------------------------------------------------------------------------
(* Theorems.                                                               *)

\* Every table and every transaction keeps its shape.
THEOREM TypeCorrect == Spec => []TypeOK
<1>1. IInv => TypeOK
  BY DEF IInv
<1> QED
  BY <1>1, Invariance, PTL

\* The status, the version, the audit log, the decisions and the application of a proposal
\* tell one story, whatever transactions of reviewers and stretch runs interleave.
THEOREM TablesAlwaysAgree == Spec => []TablesAgree
<1>1. IInv => TablesAgree
  BY DEF IInv
<1> QED
  BY <1>1, Invariance, PTL

\* SELECT ... FOR UPDATE works: what a transaction read is what it commits on.
THEOREM LockedRowsAreCurrent == Spec => []ReadIsCurrent
<1>1. IInv => ReadIsCurrent
  BY DEF IInv
<1> QED
  BY <1>1, Invariance, PTL

\* Without a reviewer, only proposals that passed evaluateAutoApply are applied.
THEOREM OnlyEligible == Spec => []OnlyEligibleApplied
<1>1. IInv => OnlyEligibleApplied
  BY DEF IInv
<1> QED
  BY <1>1, Invariance, PTL

\* The decisions of a conflict change in decideProposal only, for the version on the page.
LEMMA DecidesAsShown ==
  ASSUME IInv, [Next]_vars
  PROVE  \A c \in Conflict : decisions'[c] # decisions[c] =>
           \E v \in Reviewer : [on |-> c, version |-> proposal[c].version] \in page[v]
<1> SUFFICES ASSUME NEW c \in Conflict, decisions'[c] # decisions[c]
             PROVE  \E v \in Reviewer : [on |-> c, version |-> proposal[c].version] \in page[v]
  OBVIOUS
<1>1. PICK v \in Reviewer : Decide(v)
  BY DEF Next, PersistInvariants, Reconcile, LoadActive, Propose, PassOver, Review, OpenPage,
         LockToDecide, RefuseDecision, LockApplication, LockToRollBack, RollBack,
         RefuseRollBack, Disconnect, AutoApply, Scan, Deny, LockToApply, Apply, SkipApply, Die,
         vars, reviewVars
<1>2. PICK shown \in page[v] :
        /\ shown.on = on[v] /\ shown.version = read[v].version
        /\ \E new : decisions' = [decisions EXCEPT ![on[v]] = new]
  BY <1>1 DEF Decide, Decidable
<1>3. on[v] = c
  BY <1>2 DEF IInv, TypeOK
<1>4. read[v] = proposal[c] /\ shown \in Shown
  BY <1>1, <1>3 DEF Decide, IInv, TypeOK, ReadIsCurrent, Actor
<1>5. shown = [on |-> c, version |-> proposal[c].version]
  BY <1>2, <1>3, <1>4 DEF Shown
<1> QED
  BY <1>5

\* A reviewer's decision only ever changes the version that reviewer was shown.
THEOREM DecisionsAreInformed == Spec => DecidedAsShown
<1>1. IInv /\ [Next]_vars =>
        [\A c \in Conflict : decisions'[c] # decisions[c] =>
           \E v \in Reviewer : [on |-> c, version |-> proposal[c].version] \in page[v]]_vars
  BY DecidesAsShown
<1> QED
  BY <1>1, Invariance, PTL DEF Spec, DecidedAsShown

\* The transactions implement the review log.
THEOREM Refines == Spec => ImplementsReviewLog
<1>1. Init => Log!Init
  BY DEF Init, Log!Init
<1>2. IInv /\ [Next]_vars => [Log!Next]_audit
  BY StepPreserves
<1> QED
  BY <1>1, <1>2, Invariance, PTL DEF Spec, ImplementsReviewLog, Log!Spec

\* What is stored agrees with itself, what is locked is current, and no gate is passed.
THEOREM RowsStaySound == Spec => []RowsAreSound
<1>1. TypeOK /\ TablesAgree /\ ReadIsCurrent /\ OnlyEligibleApplied => RowsAreSound
  BY DEF RowsAreSound
<1> QED
  BY <1>1, TypeCorrect, TablesAlwaysAgree, LockedRowsAreCurrent, OnlyEligible, PTL
=============================================================================
