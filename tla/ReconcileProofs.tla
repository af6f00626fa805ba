-------------------------- MODULE ReconcileProofs --------------------------
(***************************************************************************)
(* Proofs about Reconcile, for every set of executions, jobs and calls,    *)
(* any number of lanes and of faults.                                      *)
(*                                                                         *)
(* Two things carry all of it.  The UNIQUE reservation of a call: a call   *)
(* is in the hand of the one execution that reserved it, which takes it    *)
(* through the steps of a lane in order (Stage).  And the advisory lock:   *)
(* an execution has it exactly while its promise is neither settled nor    *)
(* rejected (LockInv).                                                     *)
(***************************************************************************)
EXTENDS Reconcile, FiniteSetTheorems, TLAPS

\* The columns of spend_reservations that tell the steps of a call apart.
Reservation ==
  [status : {"none", "reserved", "settled", "charged_worst_case"}, run : Run \cup {Ledger!NoRun},
   made : Int, started : BOOLEAN, actual : Int, settled : Int]

Shape ==
  /\ day \in Int
  /\ reservation \in [Fingerprint -> Reservation]
  /\ proposals \subseteq Fingerprint /\ failures \subseteq Fingerprint
  /\ calls \in [Fingerprint -> Nat]
  /\ holder \subseteq Execution
  /\ pc \in [Execution -> {"idle", "load", "reserve", "work", "failed"}]
  /\ todo \in [Execution -> SUBSET Fingerprint]
  /\ job \in [Execution -> Run]
  /\ reserved \in [Execution -> SUBSET Fingerprint]
  /\ lanes \in [Execution -> Int]
  /\ step \in [Execution -> [Fingerprint -> Step]]
  /\ faults \in Nat

Hand(e) == reserved[e] \cup Busy(e)

\* Nothing has come of a call yet.
Uncalled(c) == calls[c] = 0 /\ c \notin proposals /\ c \notin failures
Unended(c) == calls[c] = 1 /\ c \notin proposals /\ c \notin failures
Is(c, status) == reservation[c].status = status

\* What an execution knows of a call by where the call is in its hand.
Stage(e, c) ==
  /\ c \in reserved[e] => step[e][c] = "none" /\ Is(c, "reserved") /\ Uncalled(c)
  /\ step[e][c] = "mark" => Is(c, "reserved") /\ Uncalled(c)
  /\ step[e][c] \in {"call", "settle"} => Is(c, "reserved") /\ reservation[c].started /\ Unended(c)
  /\ step[e][c] \in {"charge", "audit"} => ~Is(c, "none") /\ Unended(c)
  /\ step[e][c] = "insert" => Is(c, "settled") /\ Unended(c)

CallInv(c) ==
  /\ \A e \in Execution : Stage(e, c)
  /\ \A d, e \in Execution : c \in Hand(d) /\ c \in Hand(e) => d = e
  /\ Is(c, "none") => Uncalled(c)
  /\ calls[c] <= 1
  /\ c \in proposals => Is(c, "settled") /\ c \notin failures

CallsInv == \A c \in Fingerprint : CallInv(c)

\* The lock, and what is in the hand of an execution by where it is.
LockInv ==
  /\ \A e \in Execution : e \in holder <=> pc[e] \in {"load", "reserve", "work"}
  /\ \A d, e \in Execution : d \in holder /\ e \in holder => d = e
  /\ \A e \in Execution : Busy(e) # {} => pc[e] \in {"work", "failed"}
  /\ \A e \in Execution : pc[e] = "work" /\ reserved[e] # {} => lanes[e] > 0

IInv == Shape /\ CallsInv /\ LockInv

-----------------------------------------------------------------------------
(* What the operations of the ledger do to a reservation.                  *)

LEMMA LedgerSteps ==
  /\ \A r \in Run : Ledger!EnsureRun(r) => UNCHANGED <<day, reservation>>
  /\ \A r \in Run, c \in Fingerprint : Ledger!ReserveDenied(r, c) => UNCHANGED <<day, reservation>>
  /\ \A r \in Run, c \in Fingerprint : Ledger!ReserveGranted(r, c) =>
       /\ Is(c, "none") /\ UNCHANGED day
       /\ reservation' = [reservation EXCEPT ![c] = Ledger!Reserved(r)]
  /\ \A c \in Fingerprint : Ledger!MarkStarted(c) =>
       /\ Is(c, "reserved") /\ UNCHANGED day
       /\ reservation' = [reservation EXCEPT ![c].started = TRUE]
  /\ \A c \in Fingerprint : Ledger!Settle(c) =>
       /\ Is(c, "reserved") /\ reservation[c].started /\ UNCHANGED day
       /\ \E cost \in Costs : reservation' = [reservation EXCEPT ![c] =
            [@ EXCEPT !.status = "settled", !.actual = cost, !.settled = day]]
  /\ \A c \in Fingerprint : Ledger!ChargeWorstCase(c) =>
       /\ Is(c, "reserved") /\ reservation[c].started /\ UNCHANGED day
       /\ reservation' = [reservation EXCEPT ![c] =
            [@ EXCEPT !.status = "charged_worst_case", !.actual = Estimate, !.settled = day]]
BY DEF Ledger!EnsureRun, Ledger!ReserveDenied, Ledger!ReserveGranted, Ledger!New,
       Ledger!MarkStarted, Ledger!Settle, Ledger!ChargeWorstCase, Ledger!Open, Ledger!Post, Is

\* One row changes, and becomes a row.
Written(c, status) ==
  /\ reservation' \in [Fingerprint -> Reservation]
  /\ \A d \in Fingerprint \ {c} : reservation'[d] = reservation[d]
  /\ reservation'[c].status = status

LEMMA RowWrites ==
  ASSUME Shape, NEW c \in Fingerprint, NEW row \in Reservation,
         reservation' = [reservation EXCEPT ![c] = row]
  PROVE  Written(c, row.status) /\ reservation'[c] = row
BY DEF Shape, Written

LEMMA ReserveWrites ==
  ASSUME Shape, NEW r \in Run, NEW c \in Fingerprint, Ledger!ReserveGranted(r, c)
  PROVE  Written(c, "reserved") /\ Is(c, "none") /\ UNCHANGED day
<1>1. Ledger!Reserved(r) \in Reservation /\ Ledger!Reserved(r).status = "reserved"
  BY ReconcileAssumption DEF Shape, Reservation, Ledger!Reserved, Ledger!NoDay
<1>2. /\ Is(c, "none") /\ UNCHANGED day
      /\ reservation' = [reservation EXCEPT ![c] = Ledger!Reserved(r)]
  BY LedgerSteps
<1>3. Written(c, Ledger!Reserved(r).status)
  BY <1>1, <1>2, RowWrites
<1> QED
  BY <1>1, <1>2, <1>3

LEMMA MarkWrites ==
  ASSUME Shape, NEW c \in Fingerprint, Ledger!MarkStarted(c)
  PROVE  /\ Written(c, "reserved") /\ Is(c, "reserved") /\ UNCHANGED day
         /\ reservation'[c].started
<1> DEFINE row == [reservation[c] EXCEPT !.started = TRUE]
<1>1. Is(c, "reserved") /\ UNCHANGED day /\ reservation' = [reservation EXCEPT ![c] = row]
  BY LedgerSteps
<1>2. row \in Reservation /\ row.status = "reserved" /\ row.started
  BY <1>1 DEF Shape, Reservation, Is
<1> HIDE DEF row
<1>3. Written(c, row.status) /\ reservation'[c] = row
  BY <1>1, <1>2, RowWrites
<1> QED
  BY <1>1, <1>2, <1>3

LEMMA SettleWrites ==
  ASSUME Shape, NEW c \in Fingerprint, Ledger!Settle(c)
  PROVE  Written(c, "settled") /\ Is(c, "reserved") /\ reservation[c].started /\ UNCHANGED day
<1>1. /\ Is(c, "reserved") /\ reservation[c].started /\ UNCHANGED day
      /\ \E cost \in Costs : reservation' = [reservation EXCEPT ![c] =
            [@ EXCEPT !.status = "settled", !.actual = cost, !.settled = day]]
  BY LedgerSteps
<1>2. PICK cost \in Costs : reservation' = [reservation EXCEPT ![c] =
            [@ EXCEPT !.status = "settled", !.actual = cost, !.settled = day]]
  BY <1>1
<1>3. cost \in Int
  BY ReconcileAssumption
<1> DEFINE row == [reservation[c] EXCEPT !.status = "settled", !.actual = cost, !.settled = day]
<1>4. row \in Reservation /\ row.status = "settled"
  BY <1>3 DEF Shape, Reservation
<1>5. reservation' = [reservation EXCEPT ![c] = row]
  BY <1>2
<1> HIDE DEF row
<1>6. Written(c, row.status)
  BY <1>4, <1>5, RowWrites
<1> QED
  BY <1>1, <1>4, <1>6

LEMMA ChargeWrites ==
  ASSUME Shape, NEW c \in Fingerprint, Ledger!ChargeWorstCase(c)
  PROVE  /\ Written(c, "charged_worst_case") /\ Is(c, "reserved") /\ reservation[c].started
         /\ UNCHANGED day
<1> DEFINE row == [reservation[c] EXCEPT !.status = "charged_worst_case", !.actual = Estimate,
                                         !.settled = day]
<1>1. /\ Is(c, "reserved") /\ reservation[c].started /\ UNCHANGED day
      /\ reservation' = [reservation EXCEPT ![c] = row]
  BY LedgerSteps
<1>2. Estimate \in Int
  BY ReconcileAssumption
<1>3. row \in Reservation /\ row.status = "charged_worst_case"
  BY <1>2 DEF Shape, Reservation
<1> HIDE DEF row
<1>4. Written(c, row.status)
  BY <1>1, <1>3, RowWrites
<1> QED
  BY <1>1, <1>3, <1>4

-----------------------------------------------------------------------------
(* The call an execution works on, and the others.                         *)

\* A step of e on the call c leaves every other call, and other hands, alone.
Beside(e, c) ==
  /\ \A d \in Fingerprint \ {c} :
       /\ reservation'[d] = reservation[d] /\ calls'[d] = calls[d]
       /\ d \in proposals' <=> d \in proposals
       /\ d \in failures' <=> d \in failures
  /\ \A x \in Execution, d \in Fingerprint : x # e \/ d # c =>
       /\ step'[x][d] = step[x][d]
       /\ d \in reserved'[x] <=> d \in reserved[x]

LEMMA InHandOf ==
  ASSUME NEW e \in Execution, NEW c \in Fingerprint
  PROVE  /\ c \in Hand(e) <=> c \in reserved[e] \/ step[e][c] # "none"
         /\ (c \in Hand(e))' <=> c \in reserved'[e] \/ step'[e][c] # "none"
BY DEF Hand, Busy

\* Whoever has a call in hand has it reserved.
LEMMA HandIsReserved ==
  ASSUME Shape, CallsInv, NEW e \in Execution, NEW c \in Hand(e)
  PROVE  c \in Fingerprint /\ ~Is(c, "none")
<1>1. c \in Fingerprint
  BY DEF Shape, Hand, Busy
<1>2. step[e][c] \in Step
  BY <1>1 DEF Shape
<1>3. Stage(e, c)
  BY <1>1 DEF CallsInv, CallInv
<1>4. c \in reserved[e] \/ step[e][c] # "none"
  BY <1>1, InHandOf
<1> QED
  BY <1>1, <1>2, <1>3, <1>4 DEF Stage, Step, Is

LEMMA OtherCalls ==
  ASSUME Shape, CallsInv, NEW e \in Execution, NEW c \in Fingerprint, Beside(e, c),
         NEW d \in Fingerprint, d # c
  PROVE  CallInv(d)'
<1>1. CallInv(d)
  BY DEF CallsInv
<1>2. /\ reservation'[d] = reservation[d] /\ calls'[d] = calls[d]
      /\ d \in proposals' <=> d \in proposals
      /\ d \in failures' <=> d \in failures
  BY DEF Beside
<1>3. \A x \in Execution : step'[x][d] = step[x][d] /\ (d \in reserved'[x] <=> d \in reserved[x])
  BY DEF Beside
<1>4. \A x \in Execution : Stage(x, d)'
  BY <1>1, <1>2, <1>3 DEF CallInv, Stage, Is, Uncalled, Unended
<1>5. \A x \in Execution : (d \in Hand(x))' <=> d \in Hand(x)
  BY <1>3, InHandOf
<1> QED
  BY <1>1, <1>2, <1>4, <1>5 DEF CallInv, Is, Uncalled

\* It is enough to look at the call the step is about.
LEMMA CallSteps ==
  ASSUME Shape, CallsInv, NEW e \in Execution, NEW c \in Fingerprint, Beside(e, c),
         c \in Hand(e) \/ Is(c, "none"),
         Stage(e, c)', ~Is(c, "none")', calls'[c] <= 1,
         c \in proposals' => Is(c, "settled")' /\ c \notin failures'
  PROVE  CallsInv'
<1>1. ASSUME NEW x \in Execution, x # e PROVE c \notin Hand(x)
  BY <1>1, HandIsReserved DEF CallsInv, CallInv
<1>2. ASSUME NEW x \in Execution, x # e PROVE c \notin reserved'[x] /\ step'[x][c] = "none"
  BY <1>1, <1>2, InHandOf DEF Beside
<1>3. ASSUME NEW x \in Execution PROVE Stage(x, c)'
  BY <1>2 DEF Stage
<1>4. \A x, y \in Execution : (c \in Hand(x))' /\ (c \in Hand(y))' => x = y
  BY <1>2, InHandOf
<1>5. CallInv(c)'
  BY <1>3, <1>4 DEF CallInv
<1> QED
  BY <1>5, OtherCalls DEF CallsInv

\* Nothing but the reservations, the results and the hands bears on the calls.
LEMMA CallsDependOn ==
  ASSUME CallsInv, UNCHANGED <<reservation, proposals, failures, calls, reserved, step>>
  PROVE  CallsInv'
BY DEF CallsInv, CallInv, Stage, Is, Uncalled, Unended, Hand, Busy

\* An execution that forgets its hand drops what it has and takes nothing else.
LEMMA ForgetKeepsCalls ==
  ASSUME Shape, CallsInv, NEW e \in Execution, Forget(e),
         UNCHANGED <<reservation, proposals, failures, calls>>
  PROVE  CallsInv'
<1> SUFFICES ASSUME NEW c \in Fingerprint PROVE CallInv(c)'
  BY DEF CallsInv
<1>1. CallInv(c)
  BY DEF CallsInv
<1>2. c \notin reserved'[e] /\ step'[e][c] = "none"
  BY DEF Shape, Forget, NoStep
<1>3. \A x \in Execution \ {e} : reserved'[x] = reserved[x] /\ step'[x][c] = step[x][c]
  BY DEF Shape, Forget
<1>4. \A x \in Execution : Stage(x, c)'
  BY <1>1, <1>2, <1>3 DEF CallInv, Stage, Is, Uncalled, Unended
<1>5. \A x \in Execution : (c \in Hand(x))' => c \in Hand(x)
  BY <1>2, <1>3, InHandOf
<1> QED
  BY <1>1, <1>4, <1>5 DEF CallInv, Is, Uncalled

-----------------------------------------------------------------------------
(* The lock.                                                               *)

LEMMA LockDependsOn ==
  ASSUME LockInv, UNCHANGED <<holder, pc, reserved, lanes, step>>
  PROVE  LockInv'
BY DEF LockInv, Busy

\* Lanes work for executions that are past their reservations.
LEMMA LanesKeepLock ==
  ASSUME LockInv, NEW e \in Execution, pc[e] \in {"work", "failed"},
         UNCHANGED <<holder, pc, lanes>>,
         \A x \in Execution : reserved'[x] \subseteq reserved[x],
         \A x \in Execution \ {e} : step'[x] = step[x]
  PROVE  LockInv'
<1>1. \A x \in Execution : Busy(x)' # {} => pc[x] \in {"work", "failed"}
  BY DEF LockInv, Busy
<1>2. \A x \in Execution : pc[x] = "work" /\ reserved'[x] # {} => lanes[x] > 0
  BY DEF LockInv
<1> QED
  BY <1>1, <1>2 DEF LockInv

LEMMA FailKeepsLock ==
  ASSUME Shape, LockInv, NEW e \in Execution, Fail(e), UNCHANGED reserved,
         \A x \in Execution \ {e} : lanes'[x] = lanes[x] /\ step'[x] = step[x]
  PROVE  LockInv'
<1>1. holder' = holder \ {e} /\ pc' = [pc EXCEPT ![e] = "failed"]
  BY DEF Fail, Unlock
<1>2. pc'[e] = "failed" /\ \A x \in Execution \ {e} : pc'[x] = pc[x]
  BY <1>1 DEF Shape
<1>3. \A x \in Execution : Busy(x)' # {} => pc'[x] \in {"work", "failed"}
  BY <1>2 DEF LockInv, Busy
<1>4. \A x \in Execution : pc'[x] = "work" /\ reserved'[x] # {} => lanes'[x] > 0
  BY <1>2 DEF LockInv
<1> QED
  BY <1>1, <1>2, <1>3, <1>4 DEF LockInv

LEMMA ForgetKeepsLock ==
  ASSUME Shape, LockInv, NEW e \in Execution, Forget(e), holder' = holder \ {e}
  PROVE  LockInv'
<1>1. /\ pc'[e] = "idle" /\ reserved'[e] = {} /\ step'[e] = NoStep
      /\ \A x \in Execution \ {e} : /\ pc'[x] = pc[x] /\ reserved'[x] = reserved[x]
                                    /\ lanes'[x] = lanes[x] /\ step'[x] = step[x]
  BY DEF Shape, Forget
<1>2. Busy(e)' = {}
  BY <1>1 DEF Busy, NoStep
<1>3. \A x \in Execution : Busy(x)' # {} => pc'[x] \in {"work", "failed"}
  BY <1>1, <1>2 DEF LockInv, Busy
<1>4. \A x \in Execution : pc'[x] = "work" /\ reserved'[x] # {} => lanes'[x] > 0
  BY <1>1 DEF LockInv
<1> QED
  BY <1>1, <1>3, <1>4 DEF LockInv

-----------------------------------------------------------------------------
(* Initially, and step by step.                                            *)

LEMMA InitEstablishes == Init => IInv
<1> SUFFICES ASSUME Init PROVE IInv
  OBVIOUS
<1>1. Shape
  <2>1. AnyRun \in Run
    BY ReconcileAssumption DEF AnyRun
  <2>2. day \in Int /\ reservation \in [Fingerprint -> Reservation]
    BY ReconcileAssumption
       DEF Init, Ledger!Init, Ledger!Unreserved, Ledger!NoDay, Ledger!NoRun, Reservation
  <2> QED
    BY <2>1, <2>2, ReconcileAssumption DEF Shape, Init, NoStep, Step
<1>2. CallsInv
  BY DEF Init, Ledger!Init, Ledger!Unreserved, NoStep, CallsInv, CallInv, Stage, Is, Uncalled, Hand, Busy
<1>3. LockInv
  BY DEF Init, NoStep, LockInv, Busy
<1> QED
  BY <1>1, <1>2, <1>3 DEF IInv

LEMMA StartPreserves ==
  ASSUME IInv, NEW e \in Execution, NEW r \in Run, Start(e, r)
  PROVE  IInv'
<1>1. Shape'
  BY DEF IInv, Shape, Start, ledgerVars, resultVars
<1>2. CallsInv'
  BY CallsDependOn DEF IInv, Start, ledgerVars, resultVars
<1>3. LockInv'
  BY DEF IInv, Shape, LockInv, Start, Acquired, Busy
<1> QED
  BY <1>1, <1>2, <1>3 DEF IInv

LEMMA RefusePreserves ==
  ASSUME IInv, NEW e \in Execution, NEW r \in Run, Refuse(e, r)
  PROVE  IInv'
<1>1. Shape'
  BY DEF IInv, Shape, Refuse, ledgerVars, runVars
<1>2. CallsInv' /\ LockInv'
  BY CallsDependOn, LockDependsOn DEF IInv, Refuse, ledgerVars, runVars
<1> QED
  BY <1>1, <1>2 DEF IInv

LEMMA LoadPreserves ==
  ASSUME IInv, NEW e \in Execution, Load(e)
  PROVE  IInv'
<1>1. UNCHANGED <<day, reservation>>
  BY LedgerSteps DEF IInv, Shape, Load, ledgerVars
<1>2. Shape'
  BY <1>1 DEF IInv, Shape, Load, resultVars
<1>3. CallsInv'
  BY <1>1, CallsDependOn DEF IInv, Load, resultVars
<1>4. LockInv'
  BY DEF IInv, Shape, LockInv, Load, Busy
<1> QED
  BY <1>2, <1>3, <1>4 DEF IInv

LEMMA SkipPreserves ==
  ASSUME IInv, NEW e \in Execution, NEW c \in Fingerprint, Skip(e, c)
  PROVE  IInv'
<1>1. Shape'
  BY DEF IInv, Shape, Skip, ledgerVars, resultVars
<1>2. CallsInv' /\ LockInv'
  BY CallsDependOn, LockDependsOn DEF IInv, Skip, ledgerVars, resultVars
<1> QED
  BY <1>1, <1>2 DEF IInv

LEMMA HaltPreserves ==
  ASSUME IInv, NEW e \in Execution, NEW c \in Fingerprint, Halt(e, c)
  PROVE  IInv'
<1>1. UNCHANGED <<day, reservation>>
  BY LedgerSteps DEF IInv, Shape, Halt
<1>2. Shape'
  BY <1>1 DEF IInv, Shape, Halt, resultVars
<1>3. CallsInv' /\ LockInv'
  BY <1>1, CallsDependOn, LockDependsOn DEF IInv, Halt, resultVars
<1> QED
  BY <1>2, <1>3 DEF IInv

LEMMA ReserveRefusedPreserves ==
  ASSUME IInv, NEW e \in Execution, NEW c \in Fingerprint, ReserveRefused(e, c)
  PROVE  IInv'
<1>1. Shape'
  BY DEF IInv, Shape, ReserveRefused, Fail, Unlock, ledgerVars
<1>2. CallsInv'
  BY CallsDependOn DEF IInv, ReserveRefused, ledgerVars
<1>3. LockInv'
  BY FailKeepsLock DEF IInv, ReserveRefused
<1> QED
  BY <1>1, <1>2, <1>3 DEF IInv

\* The call that is reserved was in no hand.
LEMMA ReservedIsFree ==
  ASSUME Shape, CallsInv, NEW e \in Execution, NEW c \in Fingerprint, Is(c, "none")
  PROVE  c \notin Hand(e) /\ c \notin reserved[e] /\ step[e][c] = "none" /\ Uncalled(c)
<1>1. c \notin Hand(e)
  BY HandIsReserved
<1> QED
  BY <1>1, InHandOf DEF CallsInv, CallInv

LEMMA ReservePreserves ==
  ASSUME IInv, NEW e \in Execution, NEW c \in Fingerprint, Reserve(e, c)
  PROVE  IInv'
<1> USE DEF IInv
<1>1. Written(c, "reserved") /\ Is(c, "none") /\ UNCHANGED day
  BY ReserveWrites DEF Shape, Reserve
<1>2. /\ reserved' = [reserved EXCEPT ![e] = @ \cup {c}]
      /\ todo' = [todo EXCEPT ![e] = @ \ {c}]
      /\ pc[e] = "reserve"
      /\ UNCHANGED <<resultVars, calls, holder, pc, job, halted, lanes, step, faults>>
  BY DEF Reserve
<1>3. Shape'
  BY <1>1, <1>2 DEF Shape, Written, resultVars
<1>4. Uncalled(c) /\ step[e][c] = "none"
  BY <1>1, ReservedIsFree
<1>5. Beside(e, c)
  BY <1>1, <1>2 DEF Beside, Written, Shape, resultVars
<1>6. Stage(e, c)' /\ ~Is(c, "none")' /\ calls'[c] <= 1 /\ c \notin proposals'
  BY <1>1, <1>2, <1>4 DEF Stage, Is, Written, Uncalled, resultVars
<1>7. CallsInv'
  BY <1>1, <1>5, <1>6, CallSteps
<1>8. LockInv'
  BY <1>2 DEF LockInv, Busy, Shape
<1> QED
  BY <1>3, <1>7, <1>8

LEMMA ReserveThrowsPreserves ==
  ASSUME IInv, NEW e \in Execution, ReserveThrows(e)
  PROVE  IInv'
<1> USE DEF IInv
<1>1. /\ Fail(e) /\ faults' = faults + 1
      /\ UNCHANGED <<proposals, failures, calls, job, todo, reserved, halted, lanes, step>>
  BY DEF ReserveThrows, Fault
<1>2. LockInv'
  BY <1>1, FailKeepsLock
<1>3. CASE UNCHANGED ledgerVars
  <2>1. Shape'
    BY <1>1, <1>3 DEF Shape, Fail, Unlock, ledgerVars
  <2>2. CallsInv'
    BY <1>1, <1>3, CallsDependOn DEF ledgerVars
  <2> QED
    BY <1>2, <2>1, <2>2
<1>4. CASE \E c \in todo[e] : Ledger!ReserveGranted(job[e], c)
  <2>1. PICK c \in todo[e] : Ledger!ReserveGranted(job[e], c)
    BY <1>4
  <2>2. c \in Fingerprint /\ job[e] \in Run
    BY DEF Shape
  <2>3. Written(c, "reserved") /\ Is(c, "none") /\ UNCHANGED day
    BY <2>1, <2>2, ReserveWrites
  <2>4. Shape'
    BY <1>1, <2>3 DEF Shape, Written, Fail, Unlock
  <2>5. Uncalled(c) /\ step[e][c] = "none" /\ c \notin reserved[e]
    BY <2>2, <2>3, ReservedIsFree
  <2>6. Beside(e, c)
    BY <1>1, <2>3 DEF Beside, Written
  <2>7. Stage(e, c)' /\ ~Is(c, "none")' /\ calls'[c] <= 1 /\ c \notin proposals'
    BY <1>1, <2>3, <2>5 DEF Stage, Is, Written, Uncalled
  <2>8. CallsInv'
    BY <2>2, <2>3, <2>6, <2>7, CallSteps
  <2> QED
    BY <1>2, <2>4, <2>8
<1> QED
  BY <1>3, <1>4 DEF ReserveThrows

LEMMA BeginWorkPreserves ==
  ASSUME IInv, NEW e \in Execution, BeginWork(e)
  PROVE  IInv'
<1> USE DEF IInv
<1>1. /\ pc[e] = "reserve" /\ pc' = [pc EXCEPT ![e] = "work"]
      /\ UNCHANGED <<ledgerVars, resultVars, calls, holder, job, todo, reserved, halted, step, faults>>
  BY DEF BeginWork
<1>2. IsFiniteSet(reserved[e]) /\ Cardinality(reserved[e]) \in Nat
  BY ReconcileAssumption, FS_Subset, FS_CardinalityType DEF Shape
<1>3. reserved[e] # {} => Cardinality(reserved[e]) > 0
  BY <1>2, FS_EmptySet
<1>4. /\ lanes' \in [Execution -> Int]
      /\ reserved[e] # {} => lanes'[e] > 0
      /\ \A x \in Execution \ {e} : lanes'[x] = lanes[x]
  BY <1>2, <1>3, ReconcileAssumption DEF Shape, BeginWork
<1>5. Shape'
  BY <1>1, <1>4 DEF Shape, ledgerVars, resultVars
<1>6. CallsInv'
  BY <1>1, CallsDependOn DEF ledgerVars, resultVars
<1>7. LockInv'
  BY <1>1, <1>4 DEF LockInv, Shape, Busy
<1> QED
  BY <1>5, <1>6, <1>7

\* A lane takes a call a step further.
LEMMA ContinueSteps ==
  ASSUME Shape, NEW e \in Execution, NEW c \in Fingerprint, NEW next \in Step, Continue(e, c, next)
  PROVE  /\ step' \in [Execution -> [Fingerprint -> Step]]
         /\ step'[e][c] = next
         /\ \A x \in Execution, d \in Fingerprint : x # e \/ d # c => step'[x][d] = step[x][d]
         /\ \A x \in Execution \ {e} : step'[x] = step[x]
BY DEF Shape, Continue

\* A lane at work: its call is reserved and its execution past its reservations.
LEMMA LaneAtWork ==
  ASSUME IInv, NEW e \in Execution, NEW c \in Fingerprint, step[e][c] # "none"
  PROVE  /\ pc[e] \in {"work", "failed"} /\ c \in Hand(e) /\ c \notin reserved[e]
         /\ Stage(e, c) /\ CallInv(c)
BY InHandOf DEF IInv, LockInv, Busy, CallsInv, CallInv, Stage

LEMMA TakePreserves ==
  ASSUME IInv, NEW e \in Execution, NEW c \in Fingerprint, Take(e, c)
  PROVE  IInv'
<1> USE DEF IInv
<1>1. /\ pc[e] \in {"work", "failed"} /\ c \in reserved[e]
      /\ reserved' = [reserved EXCEPT ![e] = @ \ {c}]
      /\ Continue(e, c, "mark")
      /\ UNCHANGED <<ledgerVars, resultVars, calls, holder, pc, job, todo, halted, lanes, faults>>
  BY DEF Take
<1>2. /\ step' \in [Execution -> [Fingerprint -> Step]]
      /\ step'[e][c] = "mark"
      /\ \A x \in Execution, d \in Fingerprint : x # e \/ d # c => step'[x][d] = step[x][d]
      /\ \A x \in Execution \ {e} : step'[x] = step[x]
  BY <1>1, ContinueSteps DEF Step
<1>3. Shape'
  BY <1>1, <1>2 DEF Shape, ledgerVars, resultVars
<1>4. Beside(e, c)
  BY <1>1, <1>2 DEF Beside, Shape, ledgerVars, resultVars
<1>5. c \in Hand(e) /\ Stage(e, c) /\ CallInv(c)
  BY <1>1 DEF Hand, CallsInv, CallInv
<1>6. /\ Stage(e, c)' /\ ~Is(c, "none")' /\ calls'[c] <= 1 /\ c \notin proposals'
  BY <1>1, <1>2, <1>5 DEF Stage, Is, Uncalled, Shape, ledgerVars, resultVars
<1>7. CallsInv'
  BY <1>4, <1>5, <1>6, CallSteps
<1>8. LockInv'
  BY <1>1, <1>2, LanesKeepLock DEF Shape
<1> QED
  BY <1>3, <1>7, <1>8

\* What the steps of a lane have in common: one call goes on, and no hand takes more.
LaneStep(e, c, next) ==
  /\ step[e][c] # "none"
  /\ Continue(e, c, next)
  /\ UNCHANGED <<holder, pc, job, todo, reserved, lanes>>
  /\ faults' \in Nat

LEMMA LanePreserves ==
  ASSUME IInv, NEW e \in Execution, NEW c \in Fingerprint, NEW next \in Step,
         LaneStep(e, c, next),
         day' \in Int /\ reservation' \in [Fingerprint -> Reservation],
         proposals' \subseteq Fingerprint /\ failures' \subseteq Fingerprint,
         calls' \in [Fingerprint -> Nat],
         \A d \in Fingerprint \ {c} :
           /\ reservation'[d] = reservation[d] /\ calls'[d] = calls[d]
           /\ d \in proposals' <=> d \in proposals
           /\ d \in failures' <=> d \in failures,
         step'[e][c] = next /\ c \notin reserved'[e] => Stage(e, c)',
         ~Is(c, "none")', calls'[c] <= 1,
         c \in proposals' => Is(c, "settled")' /\ c \notin failures'
  PROVE  IInv'
<1> USE DEF IInv
<1>1. /\ step[e][c] # "none" /\ Continue(e, c, next) /\ faults' \in Nat
      /\ UNCHANGED <<holder, pc, job, todo, reserved, lanes>>
  BY DEF LaneStep
<1>2. /\ step' \in [Execution -> [Fingerprint -> Step]]
      /\ step'[e][c] = next
      /\ \A x \in Execution, d \in Fingerprint : x # e \/ d # c => step'[x][d] = step[x][d]
      /\ \A x \in Execution \ {e} : step'[x] = step[x]
  BY <1>1, ContinueSteps
<1>3. pc[e] \in {"work", "failed"} /\ c \in Hand(e) /\ c \notin reserved[e]
  BY <1>1, LaneAtWork
<1>4. Shape'
  BY <1>1, <1>2 DEF Shape
<1>5. Beside(e, c)
  BY <1>1, <1>2 DEF Beside
<1>6. CallsInv'
  BY <1>1, <1>2, <1>3, <1>5, CallSteps
<1>7. LockInv'
  BY <1>1, <1>2, <1>3, LanesKeepLock
<1> QED
  BY <1>4, <1>6, <1>7

LEMMA MarkPreserves ==
  ASSUME IInv, NEW e \in Execution, NEW c \in Fingerprint, Mark(e, c)
  PROVE  IInv'
<1> USE DEF IInv
<1>1. /\ step[e][c] = "mark" /\ Continue(e, c, "call")
      /\ calls' = [calls EXCEPT ![c] = @ + 1]
      /\ UNCHANGED <<resultVars, holder, runVars, faults>>
  BY DEF Mark
<1>2. Written(c, "reserved") /\ UNCHANGED day /\ reservation'[c].started
  BY MarkWrites DEF Mark
<1>3. Stage(e, c)
  BY <1>1, LaneAtWork
<1>4. Uncalled(c)
  BY <1>1, <1>3 DEF Stage
<1>5. calls'[c] = 1
  BY <1>1, <1>4 DEF Uncalled, Shape
<1>6. LaneStep(e, c, "call")
  BY <1>1 DEF LaneStep, Shape, runVars
<1>7. step'[e][c] = "call" /\ c \notin reserved'[e] => Stage(e, c)'
  BY <1>1, <1>2, <1>4, <1>5 DEF Stage, Is, Written, Unended, Uncalled, resultVars
<1>8. /\ calls' \in [Fingerprint -> Nat]
      /\ \A d \in Fingerprint \ {c} : calls'[d] = calls[d]
  BY <1>1 DEF Shape
<1>9. ~Is(c, "none")' /\ calls'[c] <= 1 /\ c \notin proposals'
  BY <1>1, <1>2, <1>4, <1>5 DEF Written, Is, Uncalled, resultVars
<1>10. "call" \in Step
  BY DEF Step
<1> QED
  BY <1>1, <1>2, <1>6, <1>7, <1>8, <1>9, <1>10, LanePreserves DEF Shape, Written, resultVars

LEMMA AnswerPreserves ==
  ASSUME IInv, NEW e \in Execution, NEW c \in Fingerprint, Answer(e, c)
  PROVE  IInv'
<1> USE DEF IInv
<1>1. step[e][c] = "call" /\ UNCHANGED <<ledgerVars, resultVars, calls, holder, runVars, faults>>
  BY DEF Answer
<1>2. PICK next \in {"settle", "charge"} : Continue(e, c, next)
  BY DEF Answer
<1>3. Stage(e, c) /\ CallInv(c)
  BY <1>1, LaneAtWork
<1>4. LaneStep(e, c, next)
  BY <1>1, <1>2 DEF LaneStep, Shape, runVars
<1>5. /\ step'[e][c] = next /\ c \notin reserved'[e] => Stage(e, c)'
      /\ ~Is(c, "none")' /\ calls'[c] <= 1 /\ c \notin proposals'
  BY <1>1, <1>3 DEF Stage, Is, Unended, Shape, ledgerVars, resultVars
<1> QED
  BY <1>1, <1>4, <1>5, LanePreserves DEF Step, Shape, ledgerVars, resultVars

LEMMA SettlePreserves ==
  ASSUME IInv, NEW e \in Execution, NEW c \in Fingerprint, Settle(e, c)
  PROVE  IInv'
<1> USE DEF IInv
<1>1. /\ step[e][c] = "settle" /\ Continue(e, c, "insert")
      /\ UNCHANGED <<resultVars, calls, holder, runVars, faults>>
  BY DEF Settle
<1>2. Written(c, "settled") /\ UNCHANGED day
  BY SettleWrites DEF Settle
<1>3. Unended(c)
  BY <1>1, LaneAtWork DEF Stage
<1>4. LaneStep(e, c, "insert")
  BY <1>1 DEF LaneStep, Shape, runVars
<1>5. /\ step'[e][c] = "insert" /\ c \notin reserved'[e] => Stage(e, c)'
      /\ ~Is(c, "none")' /\ calls'[c] <= 1 /\ c \notin proposals'
  BY <1>1, <1>2, <1>3 DEF Stage, Is, Written, Unended, resultVars
<1> QED
  BY <1>1, <1>2, <1>4, <1>5, LanePreserves DEF Step, Shape, Written, resultVars

LEMMA SettleThrowsPreserves ==
  ASSUME IInv, NEW e \in Execution, NEW c \in Fingerprint, SettleThrows(e, c)
  PROVE  IInv'
<1> USE DEF IInv
<1>1. /\ step[e][c] = "settle" /\ Continue(e, c, "charge")
      /\ UNCHANGED <<resultVars, calls, holder, runVars>>
      /\ faults' \in Nat
      /\ Ledger!Settle(c) \/ UNCHANGED ledgerVars
  BY DEF SettleThrows, Fault, Shape
<1>2. Unended(c) /\ Is(c, "reserved")
  BY <1>1, LaneAtWork DEF Stage
<1>3. LaneStep(e, c, "charge")
  BY <1>1 DEF LaneStep, runVars
<1>4. /\ day' \in Int /\ reservation' \in [Fingerprint -> Reservation]
      /\ ~Is(c, "none")'
      /\ \A d \in Fingerprint \ {c} : reservation'[d] = reservation[d]
  <2>1. CASE Ledger!Settle(c)
    BY <2>1, SettleWrites DEF Shape, Written, Is
  <2>2. CASE UNCHANGED ledgerVars
    BY <2>2, <1>2 DEF Shape, Is, ledgerVars
  <2> QED
    BY <1>1, <2>1, <2>2
<1>5. /\ step'[e][c] = "charge" /\ c \notin reserved'[e] => Stage(e, c)'
      /\ calls'[c] <= 1 /\ c \notin proposals'
  BY <1>1, <1>2, <1>4 DEF Stage, Is, Unended, resultVars
<1> QED
  BY <1>1, <1>3, <1>4, <1>5, LanePreserves DEF Step, Shape, resultVars

LEMMA ChargePreserves ==
  ASSUME IInv, NEW e \in Execution, NEW c \in Fingerprint, Charge(e, c)
  PROVE  IInv'
<1> USE DEF IInv
<1>1. /\ step[e][c] = "charge" /\ Continue(e, c, "audit")
      /\ UNCHANGED <<resultVars, calls, holder, runVars, faults>>
      /\ Ledger!ChargeWorstCase(c) \/ UNCHANGED ledgerVars
  BY DEF Charge, AfterCharge
<1>2. Unended(c) /\ ~Is(c, "none")
  BY <1>1, LaneAtWork DEF Stage
<1>3. LaneStep(e, c, "audit")
  BY <1>1 DEF LaneStep, Shape, runVars
<1>4. /\ day' \in Int /\ reservation' \in [Fingerprint -> Reservation]
      /\ ~Is(c, "none")'
      /\ \A d \in Fingerprint \ {c} : reservation'[d] = reservation[d]
  <2>1. CASE Ledger!ChargeWorstCase(c)
    BY <2>1, ChargeWrites DEF Shape, Written, Is
  <2>2. CASE UNCHANGED ledgerVars
    BY <2>2, <1>2 DEF Shape, Is, ledgerVars
  <2> QED
    BY <1>1, <2>1, <2>2
<1>5. /\ step'[e][c] = "audit" /\ c \notin reserved'[e] => Stage(e, c)'
      /\ calls'[c] <= 1 /\ c \notin proposals'
  BY <1>1, <1>2, <1>4 DEF Stage, Is, Unended, resultVars
<1> QED
  BY <1>1, <1>3, <1>4, <1>5, LanePreserves DEF Step, Shape, resultVars

LEMMA AuditPreserves ==
  ASSUME IInv, NEW e \in Execution, NEW c \in Fingerprint, Audit(e, c)
  PROVE  IInv'
<1> USE DEF IInv
<1>1. /\ step[e][c] = "audit" /\ Continue(e, c, "none")
      /\ failures' = failures \cup {c}
      /\ UNCHANGED <<ledgerVars, proposals, calls, holder, runVars, faults>>
  BY DEF Audit
<1>2. Unended(c) /\ ~Is(c, "none")
  BY <1>1, LaneAtWork DEF Stage
<1>3. LaneStep(e, c, "none")
  BY <1>1 DEF LaneStep, Shape, runVars
<1>4. /\ step'[e][c] = "none" /\ c \notin reserved'[e] => Stage(e, c)'
      /\ calls'[c] <= 1 /\ c \notin proposals' /\ ~Is(c, "none")'
  BY <1>1, <1>2 DEF Stage, Is, Unended, ledgerVars
<1> QED
  BY <1>1, <1>3, <1>4, LanePreserves DEF Step, Shape, ledgerVars

LEMMA InsertPreserves ==
  ASSUME IInv, NEW e \in Execution, NEW c \in Fingerprint, Insert(e, c)
  PROVE  IInv'
<1> USE DEF IInv
<1>1. /\ step[e][c] = "insert" /\ Continue(e, c, "none")
      /\ proposals' = proposals \cup {c}
      /\ UNCHANGED <<ledgerVars, failures, calls, holder, runVars, faults>>
  BY DEF Insert
<1>2. Unended(c) /\ Is(c, "settled")
  BY <1>1, LaneAtWork DEF Stage
<1>3. LaneStep(e, c, "none")
  BY <1>1 DEF LaneStep, Shape, runVars
<1>4. /\ step'[e][c] = "none" /\ c \notin reserved'[e] => Stage(e, c)'
      /\ calls'[c] <= 1 /\ Is(c, "settled")' /\ ~Is(c, "none")' /\ c \notin failures'
  BY <1>1, <1>2 DEF Stage, Is, Unended, ledgerVars
<1> QED
  BY <1>1, <1>3, <1>4, LanePreserves DEF Step, Shape, ledgerVars

-----------------------------------------------------------------------------
(* A lane that ends with an exception.                                     *)

LEMMA RejectPreserves ==
  ASSUME IInv, NEW e \in Execution, NEW c \in Fingerprint, step[e][c] # "none", Reject(e, c),
         day' \in Int /\ reservation' \in [Fingerprint -> Reservation],
         proposals' \subseteq Fingerprint /\ failures' \subseteq Fingerprint,
         \A d \in Fingerprint \ {c} :
           /\ reservation'[d] = reservation[d]
           /\ d \in proposals' <=> d \in proposals
           /\ d \in failures' <=> d \in failures,
         ~Is(c, "none")', faults' \in Nat,
         c \in proposals' => Is(c, "settled")' /\ c \notin failures'
  PROVE  IInv'
<1> USE DEF IInv
<1>1. /\ Continue(e, c, "none")
      /\ lanes' = [lanes EXCEPT ![e] = @ - 1]
      /\ \/ pc[e] = "work" /\ Fail(e)
         \/ pc[e] = "failed" /\ UNCHANGED <<holder, pc, jobResult>>
      /\ UNCHANGED <<calls, job, todo, reserved, halted>>
  BY DEF Reject
<1>2. /\ step' \in [Execution -> [Fingerprint -> Step]]
      /\ step'[e][c] = "none"
      /\ \A x \in Execution, d \in Fingerprint : x # e \/ d # c => step'[x][d] = step[x][d]
      /\ \A x \in Execution \ {e} : step'[x] = step[x]
  BY <1>1, ContinueSteps DEF Step
<1>3. c \in Hand(e) /\ c \notin reserved[e] /\ CallInv(c)
  BY LaneAtWork
<1>4. Shape'
  <2>1. pc' \in [Execution -> {"idle", "load", "reserve", "work", "failed"}]
    BY <1>1 DEF Shape, Fail
  <2>2. holder' \subseteq Execution
    BY <1>1 DEF Shape, Fail, Unlock
  <2>3. lanes' \in [Execution -> Int]
    BY <1>1 DEF Shape
  <2>4. /\ calls' \in [Fingerprint -> Nat] /\ todo' \in [Execution -> SUBSET Fingerprint]
        /\ job' \in [Execution -> Run] /\ reserved' \in [Execution -> SUBSET Fingerprint]
    BY <1>1 DEF Shape
  <2> QED
    BY <1>2, <2>1, <2>2, <2>3, <2>4 DEF Shape
<1>5. Beside(e, c)
  BY <1>1, <1>2 DEF Beside
<1>6. Stage(e, c)' /\ calls'[c] <= 1
  BY <1>1, <1>2, <1>3 DEF Stage, CallInv
<1>7. CallsInv'
  BY <1>3, <1>5, <1>6, CallSteps
<1>8. \A x \in Execution \ {e} : lanes'[x] = lanes[x]
  BY <1>1 DEF Shape
<1>9. LockInv'
  <2>1. CASE pc[e] = "work" /\ Fail(e)
    BY <1>1, <1>2, <1>8, <2>1, FailKeepsLock
  <2>2. CASE pc[e] = "failed" /\ UNCHANGED <<holder, pc, jobResult>>
    <3>1. \A x \in Execution : Busy(x)' # {} => pc[x] \in {"work", "failed"}
      BY <1>2, <2>2 DEF LockInv, Busy
    <3>2. \A x \in Execution : pc[x] = "work" /\ reserved[x] # {} => lanes'[x] > 0
      BY <1>8, <2>2 DEF LockInv
    <3> QED
      BY <1>1, <2>2, <3>1, <3>2 DEF LockInv
  <2> QED
    BY <1>1, <2>1, <2>2
<1> QED
  BY <1>4, <1>7, <1>9

LEMMA ChargeRefusedPreserves ==
  ASSUME IInv, NEW e \in Execution, NEW c \in Fingerprint, ChargeRefused(e, c)
  PROVE  IInv'
<1> USE DEF IInv
<1>1. step[e][c] = "charge" /\ Reject(e, c) /\ UNCHANGED <<ledgerVars, proposals, failures, faults>>
  BY DEF ChargeRefused
<1>2. ~Is(c, "none") /\ Unended(c)
  BY <1>1, LaneAtWork DEF Stage
<1> QED
  BY <1>1, <1>2, RejectPreserves DEF Shape, Is, Unended, ledgerVars

LEMMA LaneThrowsPreserves ==
  ASSUME IInv, NEW e \in Execution, NEW c \in Fingerprint, LaneThrows(e, c)
  PROVE  IInv'
<1> USE DEF IInv
<1>1. Reject(e, c) /\ faults' \in Nat
  BY DEF LaneThrows, Fault, Shape
<1>2. CASE step[e][c] = "mark" /\ Ledger!MarkStarted(c) /\ UNCHANGED <<proposals, failures>>
  <2>1. Uncalled(c)
    BY <1>2, LaneAtWork DEF Stage
  <2>2. Written(c, "reserved") /\ UNCHANGED day
    BY <1>2, MarkWrites
  <2>3. ~Is(c, "none")' /\ c \notin proposals'
    BY <1>2, <2>1, <2>2 DEF Written, Is, Uncalled
  <2> QED
    BY <1>1, <1>2, <2>2, <2>3, RejectPreserves DEF Shape, Written
<1>3. CASE step[e][c] = "charge" /\ Ledger!ChargeWorstCase(c) /\ UNCHANGED <<proposals, failures>>
  <2>1. Unended(c)
    BY <1>3, LaneAtWork DEF Stage
  <2>2. Written(c, "charged_worst_case") /\ UNCHANGED day
    BY <1>3, ChargeWrites
  <2>3. ~Is(c, "none")' /\ c \notin proposals'
    BY <1>3, <2>1, <2>2 DEF Written, Is, Unended
  <2> QED
    BY <1>1, <1>3, <2>2, <2>3, RejectPreserves DEF Shape, Written
<1>4. CASE step[e][c] = "audit" /\ failures' = failures \cup {c} /\ UNCHANGED <<ledgerVars, proposals>>
  <2>1. Unended(c) /\ ~Is(c, "none")
    BY <1>4, LaneAtWork DEF Stage
  <2>2. ~Is(c, "none")' /\ c \notin proposals'
    BY <1>4, <2>1 DEF Is, Unended, ledgerVars
  <2> QED
    BY <1>1, <1>4, <2>2, RejectPreserves DEF Shape, ledgerVars
<1>5. CASE step[e][c] = "insert" /\ proposals' = proposals \cup {c} /\ UNCHANGED <<ledgerVars, failures>>
  <2>1. Unended(c) /\ Is(c, "settled")
    BY <1>5, LaneAtWork DEF Stage
  <2>2. ~Is(c, "none")' /\ Is(c, "settled")' /\ c \notin failures'
    BY <1>5, <2>1 DEF Is, Unended, ledgerVars
  <2> QED
    BY <1>1, <1>5, <2>2, RejectPreserves DEF Shape, ledgerVars
<1>6. CASE /\ step[e][c] \in {"mark", "charge", "audit", "insert"}
           /\ UNCHANGED <<ledgerVars, proposals, failures>>
  <2>1. (Unended(c) \/ Uncalled(c)) /\ ~Is(c, "none")
    BY <1>6, LaneAtWork DEF Stage, Is
  <2>2. ~Is(c, "none")' /\ c \notin proposals'
    BY <1>6, <2>1 DEF Is, Unended, Uncalled, ledgerVars
  <2> QED
    BY <1>1, <1>6, <2>2, RejectPreserves DEF Shape, ledgerVars
<1> QED
  BY <1>2, <1>3, <1>4, <1>5, <1>6 DEF LaneThrows

-----------------------------------------------------------------------------
(* The end of an execution.                                                *)

LEMMA ForgetPreserves ==
  ASSUME IInv, NEW e \in Execution, Forget(e), holder' = holder \ {e}, faults' \in Nat,
         UNCHANGED <<ledgerVars, proposals, failures, calls>>
  PROVE  IInv'
<1>1. AnyRun \in Run
  BY ReconcileAssumption DEF AnyRun
<1>2. NoStep \in [Fingerprint -> Step]
  BY DEF NoStep, Step
<1>3. Shape'
  BY <1>1, <1>2 DEF IInv, Shape, Forget, ledgerVars
<1>4. CallsInv'
  BY ForgetKeepsCalls DEF IInv, ledgerVars
<1>5. LockInv'
  BY ForgetKeepsLock DEF IInv
<1> QED
  BY <1>3, <1>4, <1>5 DEF IInv

LEMMA EndPreserves ==
  ASSUME IInv, NEW e \in Execution, Complete(e) \/ Vanish(e) \/ Crash(e)
  PROVE  IInv'
<1>1. CASE Complete(e)
  BY <1>1, ForgetPreserves DEF IInv, Shape, Complete, Unlock
<1>2. CASE Vanish(e)
  <2>1. holder' = holder \ {e}
    BY <1>2 DEF IInv, LockInv, Vanish
  <2> QED
    BY <1>2, <2>1, ForgetPreserves DEF IInv, Shape, Vanish, resultVars
<1>3. CASE Crash(e)
  BY <1>3, ForgetPreserves DEF IInv, Shape, Crash, Fault, Unlock, resultVars
<1> QED
  BY <1>1, <1>2, <1>3

LEMMA NewDayPreserves ==
  ASSUME IInv, NewDay
  PROVE  IInv'
<1>1. Shape'
  BY DEF IInv, Shape, NewDay, Ledger!NewDay, resultVars, runVars
<1>2. CallsInv' /\ LockInv'
  BY CallsDependOn, LockDependsOn DEF IInv, NewDay, Ledger!NewDay, resultVars, runVars
<1> QED
  BY <1>1, <1>2 DEF IInv

LEMMA LanesPreserve ==
  ASSUME IInv, NEW e \in Execution, NEW c \in Fingerprint, Lane(e, c)
  PROVE  IInv'
BY TakePreserves, MarkPreserves, AnswerPreserves, SettlePreserves, SettleThrowsPreserves,
   ChargePreserves, ChargeRefusedPreserves, AuditPreserves, InsertPreserves
   DEF Lane

LEMMA ProceedPreserves ==
  ASSUME IInv, NEW e \in Execution, Proceed(e)
  PROVE  IInv'
<1>1. ASSUME NEW c \in Fingerprint,
             Skip(e, c) \/ Reserve(e, c) \/ Halt(e, c) \/ ReserveRefused(e, c) \/ Lane(e, c)
      PROVE  IInv'
  BY <1>1, SkipPreserves, ReservePreserves, HaltPreserves, ReserveRefusedPreserves, LanesPreserve
<1> QED
  BY <1>1, LoadPreserves, BeginWorkPreserves, EndPreserves DEF Proceed

LEMMA StepPreserves == IInv /\ [Next]_vars => IInv'
<1> SUFFICES ASSUME IInv, [Next]_vars PROVE IInv'
  OBVIOUS
<1>1. ASSUME NEW e \in Execution, NEW r \in Run, Start(e, r) \/ Refuse(e, r) PROVE IInv'
  BY <1>1, StartPreserves, RefusePreserves
<1>2. ASSUME NEW e \in Execution, Proceed(e) \/ ReserveThrows(e) \/ Crash(e) PROVE IInv'
  BY <1>2, ProceedPreserves, ReserveThrowsPreserves, EndPreserves
<1>3. ASSUME NEW e \in Execution, NEW c \in Fingerprint, LaneThrows(e, c) PROVE IInv'
  BY <1>3, LaneThrowsPreserves
<1>4. CASE NewDay
  BY <1>4, NewDayPreserves
<1>5. CASE UNCHANGED vars
  <2>1. Shape'
    BY <1>5 DEF IInv, Shape, vars, ledgerVars, resultVars, runVars
  <2>2. CallsInv' /\ LockInv'
    BY <1>5, CallsDependOn, LockDependsOn DEF IInv, vars, ledgerVars, resultVars, runVars
  <2> QED
    BY <2>1, <2>2 DEF IInv
<1> QED
  BY <1>1, <1>2, <1>3, <1>4, <1>5 DEF Next

LEMMA Invariance == Spec => []IInv
BY InitEstablishes, StepPreserves, PTL DEF Spec

-----------------------------------------------------------------------------
(* The theorems.                                                           *)

\* No crash, retry, lane left behind or midnight makes the provider be called twice for an
\* action, and no proposal is stored whose cost is not in the ledger.
THEOREM CallsAreAlwaysPaidOnce == Spec => []CallsArePaidOnce
<1>1. IInv => CallsArePaidOnce
  <2> SUFFICES ASSUME IInv PROVE CallsArePaidOnce
    OBVIOUS
  <2>1. CalledOnce
    BY DEF IInv, CallsInv, CallInv, Stage, Is, CalledOnce
  <2>2. ProposalIsPaid
    BY DEF IInv, Shape, CallsInv, CallInv, Is, ProposalIsPaid
  <2> QED
    BY <2>1, <2>2 DEF CallsArePaidOnce
<1> QED
  BY <1>1, Invariance, PTL

\* The lock keeps two executions from spending at the same time, until one is rejected.
THEOREM OverlapFollowsRejection == Spec => []OverlapNeedsRejection
<1>1. IInv => OverlapNeedsRejection
  BY DEF IInv, LockInv, OverlapNeedsRejection, Spending, Busy
<1> QED
  BY <1>1, Invariance, PTL

Dropped(c) ==
  InHand(c) =>
    \/ InHand(c)'
    \/ c \in proposals' \cup failures'
    \/ faults' > faults
    \/ \E e \in Execution : c \in reserved[e] \cup Busy(e) /\ "failed" \in {pc[e], pc'[e]}

\* A call stays in hand where neither reservations nor lanes change.
LEMMA HandsStay ==
  ASSUME NEW c \in Fingerprint,
         \A x \in Execution : reserved[x] \subseteq reserved'[x] /\ step'[x] = step[x]
  PROVE  Dropped(c)
BY DEF Dropped, InHand, Busy

\* Where one lane continues, only its call may leave the hand of its execution.
LEMMA OneLeaves ==
  ASSUME Shape, NEW e \in Execution, NEW c \in Fingerprint, NEW next \in Step,
         Continue(e, c, next),
         \A x \in Execution : reserved[x] \ {c} \subseteq reserved'[x],
         next # "none" \/ c \in proposals' \/ c \in failures' \/ faults' > faults
           \/ (c \in Hand(e) /\ "failed" \in {pc[e], pc'[e]}),
         \A x \in Execution \ {e} : c \notin Hand(x),
         NEW d \in Fingerprint
  PROVE  Dropped(d)
<1>1. /\ step'[e][c] = next
      /\ \A x \in Execution, b \in Fingerprint : x # e \/ b # c => step'[x][b] = step[x][b]
  BY ContinueSteps
<1>2. CASE d # c
  <2>1. \A x \in Execution : d \in Hand(x) => (d \in Hand(x))'
    BY <1>1, <1>2, InHandOf
  <2> QED
    BY <2>1 DEF Dropped, InHand, Hand
<1>3. CASE d = c
  <2>1. InHand(c) => c \in Hand(e)
    BY DEF InHand, Hand
  <2>2. next # "none" => (c \in Hand(e))'
    BY <1>1, InHandOf
  <2> QED
    BY <1>3, <2>1, <2>2 DEF Dropped, InHand, Hand
<1> QED
  BY <1>2, <1>3

LEMMA LanesDrop ==
  ASSUME IInv, NEW e \in Execution, NEW c \in Fingerprint,
         Lane(e, c) \/ LaneThrows(e, c), NEW d \in Fingerprint
  PROVE  Dropped(d)
<1> USE DEF IInv
<1>1. c \in Hand(e)
  BY InHandOf DEF Lane, Take, Mark, Answer, Settle, SettleThrows, Charge, ChargeRefused, Audit,
                  Insert, LaneThrows
<1>2. \A x \in Execution \ {e} : c \notin Hand(x)
  BY <1>1 DEF CallsInv, CallInv
<1>3. {"none", "mark", "call", "settle", "charge", "audit", "insert"} \subseteq Step
  BY DEF Step
<1>4. CASE Take(e, c)
  <2>1. Continue(e, c, "mark") /\ reserved' = [reserved EXCEPT ![e] = @ \ {c}]
    BY <1>4 DEF Take
  <2>2. \A x \in Execution : reserved[x] \ {c} \subseteq reserved'[x]
    BY <2>1 DEF Shape
  <2> QED
    BY <1>2, <1>3, <2>1, <2>2, OneLeaves
<1>5. CASE Mark(e, c)
  BY <1>2, <1>3, <1>5, OneLeaves DEF Mark, runVars
<1>6. CASE Answer(e, c)
  <2>1. PICK next \in {"settle", "charge"} : Continue(e, c, next)
    BY <1>6 DEF Answer
  <2> QED
    BY <1>2, <1>3, <1>6, <2>1, OneLeaves DEF Answer, runVars
<1>7. CASE Settle(e, c)
  BY <1>2, <1>3, <1>7, OneLeaves DEF Settle, runVars
<1>8. CASE SettleThrows(e, c)
  BY <1>2, <1>3, <1>8, OneLeaves DEF SettleThrows, runVars
<1>9. CASE Charge(e, c)
  BY <1>2, <1>3, <1>9, OneLeaves DEF Charge, AfterCharge, runVars
<1>10. CASE ChargeRefused(e, c)
  <2>1. Continue(e, c, "none") /\ UNCHANGED reserved /\ "failed" \in {pc[e], pc'[e]}
    BY <1>10 DEF ChargeRefused, Reject, Fail, Shape
  <2> QED
    BY <1>1, <1>2, <1>3, <2>1, OneLeaves
<1>11. CASE Audit(e, c)
  BY <1>2, <1>3, <1>11, OneLeaves DEF Audit, runVars
<1>12. CASE Insert(e, c)
  BY <1>2, <1>3, <1>12, OneLeaves DEF Insert, runVars
<1>13. CASE LaneThrows(e, c)
  <2>1. Continue(e, c, "none") /\ UNCHANGED reserved /\ faults' > faults
    BY <1>13 DEF LaneThrows, Reject, Fault, Shape
  <2> QED
    BY <1>2, <1>3, <2>1, OneLeaves
<1> QED
  BY <1>4, <1>5, <1>6, <1>7, <1>8, <1>9, <1>10, <1>11, <1>12, <1>13 DEF Lane

LEMMA EndDrops ==
  ASSUME IInv, NEW e \in Execution, Complete(e) \/ Vanish(e) \/ Crash(e), NEW d \in Fingerprint
  PROVE  Dropped(d)
<1> USE DEF IInv
<1>1. \A x \in Execution \ {e} : reserved'[x] = reserved[x] /\ step'[x] = step[x]
  BY DEF Shape, Complete, Vanish, Crash, Forget
<1>2. \A x \in Execution \ {e} : d \in Hand(x) => (d \in Hand(x))'
  BY <1>1, InHandOf
<1>3. CASE Complete(e)
  <2>1. reserved[e] = {} /\ Busy(e) = {}
    BY <1>3 DEF Complete, Drained, LockInv, Shape
  <2> QED
    BY <1>2, <2>1 DEF Dropped, InHand, Hand
<1>4. CASE Vanish(e)
  BY <1>2, <1>4 DEF Dropped, InHand, Hand, Vanish
<1>5. CASE Crash(e)
  BY <1>5 DEF Dropped, Crash, Fault, Shape
<1> QED
  BY <1>3, <1>4, <1>5

LEMMA StepDrops ==
  ASSUME IInv, [Next]_vars, NEW d \in Fingerprint
  PROVE  Dropped(d)
<1> USE DEF IInv
<1>1. ASSUME NEW e \in Execution, NEW r \in Run, Start(e, r) \/ Refuse(e, r) PROVE Dropped(d)
  BY <1>1, HandsStay DEF Start, Refuse, runVars
<1>2. ASSUME NEW e \in Execution, Load(e) \/ BeginWork(e) \/ ReserveThrows(e) PROVE Dropped(d)
  BY <1>2, HandsStay DEF Load, BeginWork, ReserveThrows
<1>3. ASSUME NEW e \in Execution, NEW c \in Fingerprint,
             Skip(e, c) \/ Reserve(e, c) \/ Halt(e, c) \/ ReserveRefused(e, c)
      PROVE  Dropped(d)
  <2>1. CASE Reserve(e, c)
    <3>1. \A x \in Execution : reserved[x] \subseteq reserved'[x]
      BY <2>1 DEF Shape, Reserve
    <3> QED
      BY <2>1, <3>1, HandsStay DEF Reserve
  <2>2. CASE Skip(e, c) \/ Halt(e, c) \/ ReserveRefused(e, c)
    BY <2>2, HandsStay DEF Skip, Halt, ReserveRefused
  <2> QED
    BY <1>3, <2>1, <2>2
<1>4. ASSUME NEW e \in Execution, NEW c \in Fingerprint, Lane(e, c) \/ LaneThrows(e, c)
      PROVE  Dropped(d)
  BY <1>4, LanesDrop
<1>5. ASSUME NEW e \in Execution, Complete(e) \/ Vanish(e) \/ Crash(e) PROVE Dropped(d)
  BY <1>5, EndDrops
<1>6. CASE NewDay \/ UNCHANGED vars
  BY <1>6, HandsStay DEF NewDay, vars, runVars
<1> QED
  BY <1>1, <1>2, <1>3, <1>4, <1>5, <1>6 DEF Next, Proceed

\* Completing, halting and passing a call from lane to lane lose nothing that was reserved.
THEOREM NothingElseDrops == Spec => OnlyRejectionsDrop
<1>1. IInv /\ [Next]_vars =>
        [\A c \in Fingerprint : InHand(c) =>
       \/ InHand(c)'
       \/ c \in proposals' \cup failures'
       \/ faults' > faults
       \/ \E e \in Execution : c \in reserved[e] \cup Busy(e) /\ "failed" \in {pc[e], pc'[e]}]_vars
  BY StepDrops DEF Dropped
<1> QED
  BY <1>1, Invariance, PTL DEF Spec, OnlyRejectionsDrop

\* Every step of the composition is a step of the spend ledger, or none of it: what is
\* proved of the ledger holds of the three tables whatever the executions do.
THEOREM RefinesLedger == Spec => ImplementsLedger
<1>1. Init => Ledger!Init
  BY DEF Init
<1>2. IInv /\ [Next]_vars => [Ledger!Next]_(Ledger!vars)
  <2> SUFFICES ASSUME IInv, [Next]_vars PROVE Ledger!Next \/ UNCHANGED ledgerVars
    BY DEF Ledger!vars, ledgerVars
  <2>1. \A e \in Execution : job[e] \in Run /\ todo[e] \subseteq Fingerprint
    BY DEF IInv, Shape
  <2>2. ASSUME NEW e \in Execution, NEW r \in Run, Start(e, r) \/ Refuse(e, r)
        PROVE  UNCHANGED ledgerVars
    BY <2>2 DEF Start, Refuse
  <2>3. ASSUME NEW e \in Execution, Load(e) \/ ReserveThrows(e)
        PROVE  Ledger!Next \/ UNCHANGED ledgerVars
    BY <2>1, <2>3 DEF Load, ReserveThrows, Ledger!Next
  <2>4. ASSUME NEW e \in Execution, NEW c \in Fingerprint,
               Skip(e, c) \/ Reserve(e, c) \/ Halt(e, c) \/ ReserveRefused(e, c)
        PROVE  Ledger!Next \/ UNCHANGED ledgerVars
    BY <2>1, <2>4 DEF Skip, Reserve, Halt, ReserveRefused, Ledger!Next
  <2>5. ASSUME NEW e \in Execution, NEW c \in Fingerprint, Lane(e, c) \/ LaneThrows(e, c)
        PROVE  Ledger!Next \/ UNCHANGED ledgerVars
    BY <2>5 DEF Lane, Take, Mark, Answer, Settle, SettleThrows, Charge, ChargeRefused, Audit,
                Insert, LaneThrows, Ledger!Next
  <2>6. ASSUME NEW e \in Execution, BeginWork(e) \/ Complete(e) \/ Vanish(e) \/ Crash(e)
        PROVE  UNCHANGED ledgerVars
    BY <2>6 DEF BeginWork, Complete, Vanish, Crash
  <2>7. CASE NewDay
    BY <2>7 DEF NewDay, Ledger!Next
  <2>8. CASE UNCHANGED vars
    BY <2>8 DEF vars
  <2> QED
    BY <2>2, <2>3, <2>4, <2>5, <2>6, <2>7, <2>8 DEF Next, Proceed
<1> QED
  BY <1>1, <1>2, Invariance, PTL DEF Spec, ImplementsLedger, Ledger!Spec

=============================================================================
