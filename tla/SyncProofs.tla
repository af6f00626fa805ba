----------------------------- MODULE SyncProofs -----------------------------
(***************************************************************************)
(* Proofs about Sync, for any number of executions, runs, conflicts and    *)
(* sources, any threshold and any number of faults.                        *)
(***************************************************************************)
EXTENDS Sync, TLAPS

LEMMA Constants ==
  /\ AnyRun \in Run
  /\ Conflict \subseteq Nat
  /\ Detects \in [Run -> SUBSET Conflict]
  /\ Threshold \in Nat /\ Threshold # 0
  /\ MaxStarts \in Nat /\ MaxFaults \in Nat
  /\ Len(Cutover) \in Nat
  /\ Source = {Cutover[i] : i \in 1..Len(Cutover)}
  BY SyncAssumption DEF AnyRun, Source

-----------------------------------------------------------------------------
(* Rows and what a transaction writes.                                     *)

LEMMA RowSteps ==
  ASSUME NEW row \in Row
  PROVE  Resolve(row) \in Row \/ row.status = "absent"
  BY DEF Row, Resolve

LEMMA ReassertIsRow ==
  ASSUME NEW row \in Row
  PROVE  Reassert(row) \in Row
  BY Constants DEF Row, Reassert

\* A row of the table is never taken for the mark of an unwritten one.
LEMMA RowIsWritten ==
  ASSUME NEW row \in Row
  PROVE  row # NotWritten
  BY DEF Row, NotWritten

LEMMA NothingType == Nothing \in [Conflict -> Row \cup {NotWritten}]
  BY DEF Nothing

LEMMA OverlayType ==
  ASSUME TypeOK, NEW e \in Execution
  PROVE  Overlay(e) \in [Conflict -> Row]
  BY DEF TypeOK, Overlay

\* What the end of a transaction, and of an execution, leaves.
Ended(e) ==
  /\ txn' \in [Execution -> {"none", "begin", "resolve", "upsert", "done"}]
  /\ todo' \in [Execution -> SUBSET Conflict]
  /\ writes' \in [Execution -> [Conflict -> Row \cup {NotWritten}]]
  /\ alone' \in [Execution -> BOOLEAN]
  /\ \A f \in Execution :
       /\ txn'[f] = IF f = e THEN "done" ELSE txn[f]
       /\ todo'[f] = IF f = e THEN {} ELSE todo[f]
       /\ writes'[f] = IF f = e THEN Nothing ELSE writes[f]
       /\ alone'[f] = IF f = e THEN TRUE ELSE alone[f]

Forgotten(e) ==
  /\ pc' \in [Execution -> {"idle", "looked", "persist", "evaluate", "cutover",
                           "unchecked", "finish", "failed"}]
  /\ job' \in [Execution -> Run]
  /\ outcome' \in [Execution -> [Source -> Availability]]
  /\ persisting' \in [Execution -> SUBSET Source]
  /\ projecting' \in [Execution -> BOOLEAN]
  /\ txn' \in [Execution -> {"none", "begin", "resolve", "upsert", "done"}]
  /\ todo' \in [Execution -> SUBSET Conflict]
  /\ writes' \in [Execution -> [Conflict -> Row \cup {NotWritten}]]
  /\ alone' \in [Execution -> BOOLEAN]
  /\ switched' \in [Execution -> 0..Len(Cutover)]
  /\ \A f \in Execution :
       /\ pc'[f] = IF f = e THEN "idle" ELSE pc[f]
       /\ job'[f] = IF f = e THEN AnyRun ELSE job[f]
       /\ f # e => outcome'[f] = outcome[f]
       /\ persisting'[f] = IF f = e THEN {} ELSE persisting[f]
       /\ projecting'[f] = IF f = e THEN FALSE ELSE projecting[f]
       /\ txn'[f] = IF f = e THEN "none" ELSE txn[f]
       /\ todo'[f] = IF f = e THEN {} ELSE todo[f]
       /\ writes'[f] = IF f = e THEN Nothing ELSE writes[f]
       /\ alone'[f] = IF f = e THEN TRUE ELSE alone[f]
       /\ switched'[f] = IF f = e THEN 0 ELSE switched[f]

LEMMA EndTransactionType ==
  ASSUME TypeOK, NEW e \in Execution, EndTransaction(e)
  PROVE  Ended(e)
  BY NothingType DEF TypeOK, EndTransaction, Ended

LEMMA ForgetType ==
  ASSUME TypeOK, NEW e \in Execution, Forget(e)
  PROVE  Forgotten(e)
<1>1. /\ pc' = [pc EXCEPT ![e] = "idle"]
      /\ job' = [job EXCEPT ![e] = AnyRun]
      /\ outcome' = [outcome EXCEPT ![e] = [s \in Source |-> "failed"]]
      /\ persisting' = [persisting EXCEPT ![e] = {}]
      /\ projecting' = [projecting EXCEPT ![e] = FALSE]
  BY DEF Forget, Goto
<1>2. /\ txn' = [txn EXCEPT ![e] = "none"]
      /\ todo' = [todo EXCEPT ![e] = {}]
      /\ writes' = [writes EXCEPT ![e] = Nothing]
      /\ alone' = [alone EXCEPT ![e] = TRUE]
      /\ switched' = [switched EXCEPT ![e] = 0]
  BY DEF Forget
<1>3. /\ job' \in [Execution -> Run]
      /\ outcome' \in [Execution -> [Source -> Availability]]
  BY <1>1, Constants DEF TypeOK, Availability
<1>4. switched' \in [Execution -> 0..Len(Cutover)]
  BY <1>2, Constants DEF TypeOK
<1>5. writes' \in [Execution -> [Conflict -> Row \cup {NotWritten}]]
  BY <1>2, NothingType DEF TypeOK
<1> QED
  BY <1>1, <1>2, <1>3, <1>4, <1>5 DEF TypeOK, Forgotten

LEMMA ForgottenInHand ==
  ASSUME TypeOK, NEW e \in Execution, Forgotten(e)
  PROVE  \A f \in Execution : InHand(f)'
<1> SUFFICES ASSUME NEW f \in Execution PROVE InHand(f)'
  OBVIOUS
<1>1. InHand(f)
  BY DEF TypeOK
<1>2. /\ pc'[f] = IF f = e THEN "idle" ELSE pc[f]
      /\ persisting'[f] = IF f = e THEN {} ELSE persisting[f]
      /\ projecting'[f] = IF f = e THEN FALSE ELSE projecting[f]
      /\ txn'[f] = IF f = e THEN "none" ELSE txn[f]
      /\ todo'[f] = IF f = e THEN {} ELSE todo[f]
      /\ writes'[f] = IF f = e THEN Nothing ELSE writes[f]
      /\ switched'[f] = IF f = e THEN 0 ELSE switched[f]
  BY DEF Forgotten
<1>3. Nothing' = Nothing
  BY DEF Nothing
<1>4. CASE f = e
  BY <1>2, <1>3, <1>4 DEF InHand
<1>5. CASE f # e
  BY <1>1, <1>2, <1>3, <1>5 DEF InHand, Open
<1> QED
  BY <1>4, <1>5

-----------------------------------------------------------------------------
(* Type correctness.                                                       *)

LEMMA TypeInit == Init => TypeOK
<1> SUFFICES ASSUME Init PROVE TypeOK
  OBVIOUS
<1>1. NoRow \in Row
  BY DEF Row, NoRow
<1>2. Nothing \in [Conflict -> Row \cup {NotWritten}]
  BY NothingType
<1> QED
  BY <1>1, <1>2, Constants DEF Init, TypeOK, Availability, Open, InHand

LEMMA TypeNext == TypeOK /\ [Next]_vars => TypeOK'
<1> SUFFICES ASSUME TypeOK, [Next]_vars PROVE TypeOK'
  OBVIOUS
<1>1. ASSUME NEW e \in Execution, NEW r \in Run, Look(e, r) PROVE TypeOK'
  <2>1. starts' \in 0..MaxStarts
    BY <1>1, Constants DEF Look, TypeOK
  <2>2. CASE UNCHANGED <<pc, job>>
    BY <1>1, <2>1, <2>2 DEF Look, TypeOK, tables, txnVars, Open, InHand
  <2>3. CASE Goto(e, "looked") /\ job' = [job EXCEPT ![e] = r]
    <3>1. pc' \in [Execution -> {"idle", "looked", "persist", "evaluate", "cutover",
                                "unchecked", "finish", "failed"}]
      BY <2>3 DEF TypeOK, Goto
    <3>2. job' \in [Execution -> Run]
      BY <2>3 DEF TypeOK
    <3>3. /\ pc[e] = "idle"
          /\ \A f \in Execution : pc'[f] = IF f = e THEN "looked" ELSE pc[f]
      BY <1>1, <2>3 DEF Look, TypeOK, Goto
    <3> QED
      BY <1>1, <2>1, <3>1, <3>2, <3>3 DEF Look, TypeOK, tables, txnVars, Open, InHand
  <2> QED
    BY <1>1, <2>2, <2>3 DEF Look
<1>2. ASSUME NEW e \in Execution, Begin(e) PROVE TypeOK'
  BY <1>2 DEF Begin, TypeOK, txnVars, Goto, Open, InHand
<1>3. ASSUME NEW e \in Execution, NEW s \in Source, PersistSource(e, s) PROVE TypeOK'
  <2>1. PICK read \in Availability :
          /\ outcome' = [outcome EXCEPT ![e][s] = read]
          /\ snapshot' = [snapshot EXCEPT ![job[e]][s] = IF read = "failed" THEN @ ELSE read]
    BY <1>3 DEF PersistSource
  <2>2. outcome' \in [Execution -> [Source -> Availability]]
    BY <2>1 DEF TypeOK
  <2>3. snapshot' \in [Run -> [Source -> {"none", "complete", "partial"}]]
    <3>1. job[e] \in Run
      BY DEF TypeOK
    <3> DEFINE was == snapshot[job[e]]
               new == [was EXCEPT ![s] = IF read = "failed" THEN @ ELSE read]
    <3>2. was \in [Source -> {"none", "complete", "partial"}]
      BY <3>1 DEF TypeOK
    <3>3. new \in [Source -> {"none", "complete", "partial"}]
      BY <3>2 DEF Availability
    <3>4. snapshot' = [snapshot EXCEPT ![job[e]] = new]
      BY <2>1
    <3> HIDE DEF new
    <3> QED
      BY <3>1, <3>3, <3>4 DEF TypeOK
  <2>4. persisting' \in [Execution -> SUBSET Source]
    BY <1>3 DEF PersistSource, TypeOK
  <2> QED
    BY <1>3, <2>2, <2>3, <2>4 DEF PersistSource, TypeOK, txnVars, Open, InHand
<1>4. ASSUME NEW e \in Execution, Evaluate(e) PROVE TypeOK'
  <2>1. pc' = [pc EXCEPT ![e] = "evaluate"] /\ txn' = [txn EXCEPT ![e] = "begin"]
    BY <1>4 DEF Evaluate, Goto
  <2>2. projecting' = [projecting EXCEPT ![e] = TRUE]
    BY <1>4 DEF Evaluate
  <2>3. projecting' \in [Execution -> BOOLEAN]
    BY <2>2 DEF TypeOK
  <2>4. /\ pc' \in [Execution -> {"idle", "looked", "persist", "evaluate", "cutover",
                                 "unchecked", "finish", "failed"}]
        /\ txn' \in [Execution -> {"none", "begin", "resolve", "upsert", "done"}]
    BY <2>1 DEF TypeOK
  <2>5. /\ pc[e] = "persist" /\ persisting[e] = {}
        /\ \A f \in Execution : pc'[f] = IF f = e THEN "evaluate" ELSE pc[f]
        /\ \A f \in Execution : txn'[f] = IF f = e THEN "begin" ELSE txn[f]
        /\ \A f \in Execution : projecting'[f] = IF f = e THEN TRUE ELSE projecting[f]
    BY <1>4, <2>1, <2>2 DEF Evaluate, TypeOK
  <2> QED
    BY <1>4, <2>3, <2>4, <2>5 DEF Evaluate, TypeOK, tables, Open, InHand
<1>5. ASSUME NEW e \in Execution, Project(e) PROVE TypeOK'
  <2>1. projecting' = [projecting EXCEPT ![e] = FALSE] /\ projected' = projected \cup {job[e]}
    BY <1>5 DEF Project
  <2>2. projecting' \in [Execution -> BOOLEAN] /\ projected' \subseteq Run
    BY <2>1 DEF TypeOK
  <2>3. \A f \in Execution : projecting'[f] => projecting[f]
    BY <2>1 DEF TypeOK
  <2> QED
    BY <1>5, <2>2, <2>3 DEF Project, TypeOK, txnVars, Open, InHand
<1>6. ASSUME NEW e \in Execution, BeginInvariants(e) PROVE TypeOK'
  BY <1>6 DEF BeginInvariants, TypeOK, tables, Goto, Open, InHand, Gone
<1>7. ASSUME NEW e \in Execution, NEW c \in Conflict, ResolveRow(e, c) PROVE TypeOK'
  <2>1. writes' \in [Execution -> [Conflict -> Row \cup {NotWritten}]]
    <3>1. CASE conflict[c].status = "active" /\ Write(e, c, Resolve(conflict[c]))
      <4>1. Resolve(conflict[c]) \in Row
        BY <3>1, RowSteps DEF TypeOK
      <4> QED
        BY <3>1, <4>1 DEF TypeOK, Write
    <3>2. CASE UNCHANGED writes
      BY <3>2 DEF TypeOK
    <3> QED
      BY <1>7, <3>1, <3>2 DEF ResolveRow
  <2>2. todo' \in [Execution -> SUBSET Conflict]
    BY <1>7 DEF ResolveRow, TypeOK
  <2>3. \A f \in Execution : ~Open(f) => writes'[f] = writes[f] /\ todo'[f] = todo[f]
    BY <1>7 DEF ResolveRow, TypeOK, Write, Open, InHand
  <2> QED
    BY <1>7, <2>1, <2>2, <2>3 DEF ResolveRow, TypeOK, tables, Open, InHand
<1>8. ASSUME NEW e \in Execution, BeginUpsert(e) PROVE TypeOK'
  BY <1>8, Constants DEF BeginUpsert, TypeOK, tables, Open, InHand
<1>9. ASSUME NEW e \in Execution, NEW c \in Conflict, UpsertRow(e, c) PROVE TypeOK'
  BY <1>9, ReassertIsRow DEF UpsertRow, TypeOK, tables, Write, Open, InHand
<1>10. ASSUME NEW e \in Execution, Commit(e) PROVE TypeOK'
  <2>1. Ended(e)
    BY <1>10, EndTransactionType DEF Commit
  <2>2. conflict' \in [Conflict -> Row]
    BY <1>10, OverlayType DEF Commit
  <2>3. /\ invariantRun' \in [Run -> {"absent", "complete", "partial"}]
        /\ results' \in [Run -> SUBSET {"fail", "unchecked"}]
    BY <1>10 DEF Commit, TypeOK
  <2>4. pc[e] \notin {"idle", "looked", "persist"}
    BY <1>10 DEF Commit, TypeOK, InHand, Open
  <2> QED
    BY <1>10, <2>1, <2>2, <2>3, <2>4 DEF Commit, TypeOK, Open, InHand, Ended, Nothing
<1>11. ASSUME NEW e \in Execution, BeginCutover(e) PROVE TypeOK'
  BY <1>11 DEF BeginCutover, BothStored, TypeOK, tables, txnVars, Goto, Open, InHand
<1>12. ASSUME NEW e \in Execution, SwitchRow(e) PROVE TypeOK'
  <2>1. switched' \in [Execution -> 0..Len(Cutover)]
    BY <1>12, Constants DEF SwitchRow, TypeOK
  <2>2. \A f \in Execution : pc[f] # "cutover" => switched'[f] = switched[f]
    BY <1>12 DEF SwitchRow, TypeOK
  <2> QED
    BY <1>12, <2>1, <2>2 DEF SwitchRow, TypeOK, tables, txnVars, Open, InHand
<1>13. ASSUME NEW e \in Execution, CommitCutover(e) PROVE TypeOK'
  <2>1. active' \in [Source -> Run \cup {NoRun}]
    BY <1>13 DEF CommitCutover, TypeOK
  <2>2. switched' = [switched EXCEPT ![e] = 0] /\ pc' = [pc EXCEPT ![e] = "finish"]
    BY <1>13 DEF CommitCutover, Goto
  <2>3. /\ switched' \in [Execution -> 0..Len(Cutover)]
        /\ pc' \in [Execution -> {"idle", "looked", "persist", "evaluate", "cutover",
                                 "unchecked", "finish", "failed"}]
    BY <2>2 DEF TypeOK
  <2>4. /\ pc[e] = "cutover"
        /\ \A f \in Execution : pc'[f] = IF f = e THEN "finish" ELSE pc[f]
        /\ \A f \in Execution : switched'[f] = IF f = e THEN 0 ELSE switched[f]
    BY <1>13, <2>2 DEF CommitCutover, TypeOK
  <2> QED
    BY <1>13, <2>1, <2>3, <2>4 DEF CommitCutover, TypeOK, txnVars, Open, InHand
<1>14. ASSUME NEW e \in Execution, StorePartial(e) PROVE TypeOK'
  BY <1>14 DEF StorePartial, TypeOK, txnVars, Goto, Open, InHand
<1>15. ASSUME NEW e \in Execution, StoreUnchecked(e) PROVE TypeOK'
  BY <1>15 DEF StoreUnchecked, TypeOK, txnVars, Goto, Open, InHand
<1>16. ASSUME NEW e \in Execution, Finish(e) PROVE TypeOK'
  <2>1. Forgotten(e)
    BY <1>16, ForgetType DEF Finish
  <2>3. \A f \in Execution : InHand(f)'
    BY <2>1, ForgottenInHand
  <2>2. run' \in [Run -> {"absent", "running", "complete", "partial", "failed"}]
    BY <1>16 DEF Finish, FinalStatus, TypeOK
  <2> QED
    BY <1>16, <2>1, <2>2, <2>3 DEF Finish, TypeOK, Forgotten
<1>17. ASSUME NEW e \in Execution, Abort(e) PROVE TypeOK'
  <2>1. faults' \in 0..MaxFaults
    BY <1>17, Constants DEF Abort, Fault, TypeOK
  <2>2. /\ pc' \in [Execution -> {"idle", "looked", "persist", "evaluate", "cutover",
                                 "unchecked", "finish", "failed"}]
        /\ \A f \in Execution : pc'[f] = IF f = e THEN "failed" ELSE pc[f]
    BY <1>17 DEF Abort, TypeOK, Goto
  <2>3. txn[e] \in {"begin", "resolve", "upsert"}
    BY <1>17 DEF Abort, Open, InHand
  <2>4. Ended(e)
    BY <1>17, EndTransactionType DEF Abort
  <2> QED
    <3>1. \A f \in Execution : InHand(f)'
      <4> SUFFICES ASSUME NEW f \in Execution PROVE InHand(f)'
        OBVIOUS
      <4>1. UNCHANGED <<persisting, projecting, switched>>
        BY <1>17 DEF Abort
      <4>2. InHand(f) /\ InHand(e)
        BY DEF TypeOK
      <4>3. Nothing' = Nothing
        BY DEF Nothing
      <4>4. CASE f = e
        <5>1. pc[e] \notin {"idle", "looked", "persist"}
          BY <2>3, <4>2 DEF InHand
        <5>2. pc'[e] = "failed" /\ txn'[e] = "done" /\ todo'[e] = {} /\ writes'[e] = Nothing
          BY <2>2, <2>4 DEF Ended
        <5>4. pc[e] # "cutover"
          BY <2>3, <4>2 DEF InHand
        <5> QED
          BY <4>1, <4>2, <4>3, <4>4, <5>1, <5>2, <5>4 DEF InHand, Open
      <4>5. CASE f # e
        BY <2>2, <2>4, <4>1, <4>2, <4>3, <4>5 DEF InHand, Open, Ended
      <4> QED
        BY <4>4, <4>5
    <3> QED
      BY <1>17, <2>1, <2>2, <2>4, <3>1 DEF Abort, TypeOK, tables, Ended
<1>18. ASSUME NEW e \in Execution, Throw(e) PROVE TypeOK'
  <2>1. /\ pc' = [pc EXCEPT ![e] = "failed"]
        /\ faults' \in 0..MaxFaults
    BY <1>18, Constants DEF Throw, Fault, TypeOK, Goto
  <2>2. /\ pc' \in [Execution -> {"idle", "looked", "persist", "evaluate", "cutover",
                                 "unchecked", "finish", "failed"}]
        /\ \A f \in Execution : pc'[f] = IF f = e THEN "failed" ELSE pc[f]
    BY <2>1 DEF TypeOK
  <2>3. CASE /\ \E s \in persisting[e] : persisting' = [persisting EXCEPT ![e] = @ \ {s}]
             /\ UNCHANGED <<projecting, switched>>
    <3>1. persisting' \in [Execution -> SUBSET Source]
      BY <2>3 DEF TypeOK
    <3>2. \A f \in Execution : f # e => persisting'[f] = persisting[f]
      BY <2>3 DEF TypeOK
    <3>3. pc[e] \in {"persist", "failed"}
      BY <2>3 DEF TypeOK, InHand
    <3> QED
      BY <1>18, <2>1, <2>2, <2>3, <3>1, <3>2, <3>3 DEF Throw, TypeOK, tables, txnVars, Open, InHand
  <2>4. CASE /\ projecting[e] /\ projecting' = [projecting EXCEPT ![e] = FALSE]
             /\ UNCHANGED <<persisting, switched>>
    <3>1. projecting' \in [Execution -> BOOLEAN]
      BY <2>4 DEF TypeOK
    <3>2. \A f \in Execution : f # e => projecting'[f] = projecting[f]
      BY <2>4 DEF TypeOK
    <3>3. pc[e] \in {"evaluate", "failed"}
      BY <2>4 DEF TypeOK, InHand
    <3> QED
      BY <1>18, <2>1, <2>2, <2>4, <3>1, <3>2, <3>3 DEF Throw, TypeOK, tables, txnVars, Open, InHand
  <2>5. CASE /\ switched' = [switched EXCEPT ![e] = 0]
             /\ UNCHANGED <<persisting, projecting>>
    <3>1. switched' \in [Execution -> 0..Len(Cutover)]
      BY <2>5, Constants DEF TypeOK
    <3>2. \A f \in Execution : switched'[f] = IF f = e THEN 0 ELSE switched[f]
      BY <2>5 DEF TypeOK
    <3> QED
      BY <1>18, <2>1, <2>2, <2>5, <3>1, <3>2 DEF Throw, TypeOK, tables, txnVars, Open, InHand
  <2> QED
    BY <1>18, <2>3, <2>4, <2>5 DEF Throw
<1>19. ASSUME NEW e \in Execution, Vanish(e) PROVE TypeOK'
  <2>1. Forgotten(e)
    BY <1>19, ForgetType DEF Vanish
  <2>2. \A f \in Execution : InHand(f)'
    BY <2>1, ForgottenInHand
  <2> QED
    BY <1>19, <2>1, <2>2 DEF Vanish, TypeOK, tables, Forgotten
<1>20. ASSUME NEW e \in Execution, Crash(e) PROVE TypeOK'
  <2>1. faults' \in 0..MaxFaults
    BY <1>20, Constants DEF Crash, Fault, TypeOK
  <2>2. Forgotten(e)
    BY <1>20, ForgetType DEF Crash
  <2>3. \A f \in Execution : InHand(f)'
    BY <2>2, ForgottenInHand
  <2> QED
    BY <1>20, <2>1, <2>2, <2>3 DEF Crash, TypeOK, tables, Forgotten
<1>21. CASE UNCHANGED vars
  BY <1>21 DEF vars, tables, local, txnVars, TypeOK, Open, InHand
<1> QED
  BY <1>1, <1>2, <1>3, <1>4, <1>5, <1>6, <1>7, <1>8, <1>9, <1>10, <1>11, <1>12, <1>13, <1>14,
     <1>15, <1>16, <1>17, <1>18, <1>19, <1>20, <1>21 DEF Next, Synchronize

\* Tables and executions keep their shape.
THEOREM TypeCorrect == Spec => []TypeOK
<1>1. Init => TypeOK
  BY TypeInit
<1>2. TypeOK /\ [Next]_vars => TypeOK'
  BY TypeNext
<1> QED
  BY <1>1, <1>2, PTL DEF Spec

-----------------------------------------------------------------------------
(* The life of a conflict.                                                 *)

Held(row) == row.status = "oscillation_hold" <=> row.count >= Threshold

\* A step of the life of a conflict.
Transition(old, new) ==
  \/ old.status = "active" /\ new = Resolve(old)
  \/ new = Reassert(old)

\* A row that a transaction has written is written by no other, and is the next one of the
\* row in the table: the table has not moved since.
Exclusive ==
  \A e \in Execution, c \in Conflict : writes[e][c] # NotWritten =>
    /\ \A f \in Execution \ {e} : writes[f][c] = NotWritten
    /\ Transition(conflict[c], writes[e][c])

RowsInv == HeldAtThreshold /\ Exclusive

LEMMA TransitionKeepsHeld ==
  ASSUME NEW old \in Row, NEW new, Held(old), Transition(old, new)
  PROVE  Held(new)
<1>1. CASE old.status = "active" /\ new = Resolve(old)
  BY <1>1 DEF Row, Held, Resolve
<1>2. CASE new = Reassert(old)
  BY <1>2, Constants DEF Row, Held, Reassert
<1> QED
  BY <1>1, <1>2 DEF Transition

LEMMA RowsInit == Init => RowsInv
  BY Constants DEF Init, RowsInv, HeldAtThreshold, Exclusive, NoRow, Nothing, NotWritten

LEMMA RowsSame ==
  ASSUME RowsInv, UNCHANGED <<conflict, writes>>
  PROVE  RowsInv'
  BY DEF RowsInv, HeldAtThreshold, Exclusive

\* A transaction that ends without a commit leaves the rows as they are.
LEMMA RowsDropped ==
  ASSUME RowsInv, NEW e \in Execution, UNCHANGED conflict,
         \A f \in Execution : writes'[f] = IF f = e THEN Nothing ELSE writes[f]
  PROVE  RowsInv'
<1>1. \A f \in Execution, c \in Conflict : writes'[f][c] # NotWritten =>
        f # e /\ writes'[f][c] = writes[f][c]
  BY DEF Nothing
<1>2. \A f \in Execution, c \in Conflict :
        writes'[f][c] = writes[f][c] \/ writes'[f][c] = NotWritten
  BY DEF Nothing
<1>3. Exclusive'
  <2> SUFFICES ASSUME NEW f \in Execution, NEW c \in Conflict, writes'[f][c] # NotWritten
               PROVE  /\ \A g \in Execution \ {f} : writes'[g][c] = NotWritten
                      /\ Transition(conflict[c], writes'[f][c])
    BY DEF Exclusive, Transition, Resolve, Reassert
  <2>1. writes[f][c] # NotWritten /\ writes'[f][c] = writes[f][c]
    BY <1>1
  <2> QED
    BY <2>1, <1>2 DEF RowsInv, Exclusive
<1> QED
  BY <1>3 DEF RowsInv, HeldAtThreshold

\* A row written under its lock.
LEMMA RowsWritten ==
  ASSUME TypeOK, RowsInv, NEW e \in Execution, NEW c \in Conflict, NEW row,
         UNCHANGED conflict, Write(e, c, row), ~Locked(e, c), Transition(conflict[c], row)
  PROVE  RowsInv'
<1>1. \A f \in Execution, d \in Conflict :
        writes'[f][d] = IF f = e /\ d = c THEN row ELSE writes[f][d]
  BY DEF Write, TypeOK
<1>2. \A f \in Execution \ {e} : writes[f][c] = NotWritten
  BY DEF Locked
<1>3. Exclusive'
  <2> SUFFICES ASSUME NEW f \in Execution, NEW d \in Conflict, writes'[f][d] # NotWritten
               PROVE  /\ \A g \in Execution \ {f} : writes'[g][d] = NotWritten
                      /\ Transition(conflict[d], writes'[f][d])
    BY DEF Exclusive, Transition, Resolve, Reassert
  <2>1. CASE f = e /\ d = c
    BY <1>1, <1>2, <2>1
  <2>2. CASE d # c
    BY <1>1, <2>2 DEF RowsInv, Exclusive
  <2>3. CASE f # e /\ d = c
    BY <1>1, <1>2, <2>3
  <2> QED
    BY <2>1, <2>2, <2>3
<1> QED
  BY <1>3 DEF RowsInv, HeldAtThreshold

\* What a commit does to the rows.
LEMMA CommitRows ==
  ASSUME TypeOK, RowsInv, NEW e \in Execution, Commit(e)
  PROVE  /\ \A c \in Conflict :
              conflict'[c] = IF writes[e][c] = NotWritten THEN conflict[c] ELSE writes[e][c]
         /\ \A c \in Conflict : conflict'[c] # conflict[c] => Transition(conflict[c], conflict'[c])
         /\ RowsInv'
<1>1. \A c \in Conflict :
        conflict'[c] = IF writes[e][c] = NotWritten THEN conflict[c] ELSE writes[e][c]
  BY DEF Commit, Overlay
<1>2. \A c \in Conflict : conflict'[c] # conflict[c] => Transition(conflict[c], conflict'[c])
  BY <1>1 DEF RowsInv, Exclusive
<1>3. \A c \in Conflict : Held(conflict[c])
  BY DEF RowsInv, HeldAtThreshold, Held
<1>4. \A c \in Conflict : Held(conflict'[c])
  <2> SUFFICES ASSUME NEW c \in Conflict PROVE Held(conflict'[c])
    OBVIOUS
  <2>1. conflict[c] \in Row
    BY DEF TypeOK
  <2> QED
    BY <1>2, <1>3, <2>1, TransitionKeepsHeld
<1>5. Ended(e)
  BY EndTransactionType DEF Commit
<1>6. Exclusive'
  <2> SUFFICES ASSUME NEW f \in Execution, NEW c \in Conflict, writes'[f][c] # NotWritten
               PROVE  /\ \A g \in Execution \ {f} : writes'[g][c] = NotWritten
                      /\ Transition(conflict'[c], writes'[f][c])
    BY DEF Exclusive, Transition, Resolve, Reassert
  <2>1. f # e /\ writes'[f][c] = writes[f][c]
    BY <1>5 DEF Ended, Nothing
  <2>2. \A g \in Execution \ {f} : writes[g][c] = NotWritten
    BY <2>1 DEF RowsInv, Exclusive
  <2>3. conflict'[c] = conflict[c]
    BY <1>1, <2>1, <2>2
  <2>4. \A g \in Execution \ {f} : writes'[g][c] = NotWritten
    <3>1. \A g \in Execution : writes'[g] = IF g = e THEN Nothing ELSE writes[g]
      BY <1>5 DEF Ended
    <3> QED
      BY <2>2, <3>1 DEF Nothing
  <2> QED
    BY <2>1, <2>3, <2>4 DEF RowsInv, Exclusive
<1> QED
  BY <1>1, <1>2, <1>4, <1>6 DEF RowsInv, HeldAtThreshold, Held

\* Every action but five leaves conflicts and writes alone.
LEMMA RowsNext == TypeOK /\ RowsInv /\ [Next]_vars => RowsInv'
<1> SUFFICES ASSUME TypeOK, RowsInv, [Next]_vars PROVE RowsInv'
  OBVIOUS
<1>1. ASSUME NEW e \in Execution, NEW c \in Conflict, ResolveRow(e, c) PROVE RowsInv'
  <2>1. CASE conflict[c].status = "active" /\ Write(e, c, Resolve(conflict[c]))
    <3>1. Transition(conflict[c], Resolve(conflict[c]))
      BY <2>1 DEF Transition
    <3> QED
      BY <1>1, <2>1, <3>1, RowsWritten DEF ResolveRow, tables
  <2>2. CASE UNCHANGED writes
    BY <1>1, <2>2, RowsSame DEF ResolveRow, tables
  <2> QED
    BY <1>1, <2>1, <2>2 DEF ResolveRow
<1>2. ASSUME NEW e \in Execution, NEW c \in Conflict, UpsertRow(e, c) PROVE RowsInv'
  <2>1. Transition(conflict[c], Reassert(conflict[c]))
    BY DEF Transition
  <2> QED
    BY <1>2, <2>1, RowsWritten DEF UpsertRow, tables, Lockable
<1>3. ASSUME NEW e \in Execution, Commit(e) PROVE RowsInv'
  BY <1>3, CommitRows
<1>4. ASSUME NEW e \in Execution, Abort(e) PROVE RowsInv'
  <2>1. Ended(e) /\ UNCHANGED conflict
    BY <1>4, EndTransactionType DEF Abort, tables
  <2>2. \A f \in Execution : writes'[f] = IF f = e THEN Nothing ELSE writes[f]
    BY <2>1 DEF Ended
  <2> QED
    BY <2>1, <2>2, RowsDropped
<1>5. ASSUME NEW e \in Execution, Finish(e) \/ Vanish(e) \/ Crash(e) PROVE RowsInv'
  <2>1. Forgotten(e) /\ UNCHANGED conflict
    BY <1>5, ForgetType DEF Finish, Vanish, Crash, tables
  <2>2. \A f \in Execution : writes'[f] = IF f = e THEN Nothing ELSE writes[f]
    BY <2>1 DEF Forgotten
  <2> QED
    BY <2>1, <2>2, RowsDropped
<1>6. ASSUME NEW e \in Execution,
             \/ \E r \in Run : Look(e, r)
             \/ Begin(e) \/ \E s \in Source : PersistSource(e, s)
             \/ Evaluate(e) \/ Project(e) \/ BeginInvariants(e) \/ BeginUpsert(e)
      PROVE  RowsInv'
  <2>1. UNCHANGED <<conflict, writes>>
    BY <1>6 DEF Look, Begin, PersistSource, Evaluate, Project, BeginInvariants, BeginUpsert,
                tables, txnVars
  <2> QED
    BY <2>1, RowsSame
<1>7. ASSUME NEW e \in Execution,
             \/ BeginCutover(e) \/ SwitchRow(e) \/ CommitCutover(e)
             \/ StorePartial(e) \/ StoreUnchecked(e) \/ Throw(e)
      PROVE  RowsInv'
  <2>1. UNCHANGED <<conflict, writes>>
    BY <1>7 DEF BeginCutover, SwitchRow, CommitCutover, StorePartial, StoreUnchecked, Throw,
                tables, txnVars
  <2> QED
    BY <2>1, RowsSame
<1>8. CASE UNCHANGED vars
  BY <1>8, RowsSame DEF vars, tables, local, txnVars
<1> QED
  BY <1>1, <1>2, <1>3, <1>4, <1>5, <1>6, <1>7, <1>8 DEF Next, Synchronize

\* A conflict is held exactly from the Threshold-th time it has come back.
THEOREM HeldExactlyAtThreshold == Spec => []HeldAtThreshold
<1>1. Init => TypeOK /\ RowsInv
  BY TypeInit, RowsInit
<1>2. TypeOK /\ RowsInv /\ [Next]_vars => TypeOK' /\ RowsInv'
  BY TypeNext, RowsNext
<1>3. RowsInv => HeldAtThreshold
  BY DEF RowsInv
<1> QED
  BY <1>1, <1>2, <1>3, PTL DEF Spec

\* Only a commit changes a conflict.
LEMMA ConflictSteps ==
  TypeOK /\ [Next]_vars /\ conflict' # conflict => \E e \in Execution : Commit(e)
<1> SUFFICES ASSUME TypeOK, [Next]_vars, conflict' # conflict
             PROVE  \E e \in Execution : Commit(e)
  OBVIOUS
<1>1. ~UNCHANGED vars
  BY DEF vars, tables
<1>2. PICK e \in Execution : Synchronize(e)
  BY <1>1 DEF Next
<1>3. \A r \in Run : ~Look(e, r)
  BY DEF Look, tables
<1>4. \A s \in Source : ~PersistSource(e, s)
  BY DEF PersistSource
<1>5. \A c \in Conflict : ~ResolveRow(e, c) /\ ~UpsertRow(e, c)
  BY DEF ResolveRow, UpsertRow, tables
<1>6. ~Begin(e) /\ ~Evaluate(e) /\ ~Project(e) /\ ~BeginInvariants(e) /\ ~BeginUpsert(e)
  BY DEF Begin, Evaluate, Project, BeginInvariants, BeginUpsert, tables
<1>7. /\ ~BeginCutover(e) /\ ~SwitchRow(e) /\ ~CommitCutover(e)
      /\ ~StorePartial(e) /\ ~StoreUnchecked(e)
  BY DEF BeginCutover, SwitchRow, CommitCutover, StorePartial, StoreUnchecked, tables
<1>8. ~Finish(e) /\ ~Abort(e) /\ ~Throw(e) /\ ~Vanish(e) /\ ~Crash(e)
  BY DEF Finish, Abort, Throw, Vanish, Crash, tables
<1> QED
  BY <1>2, <1>3, <1>4, <1>5, <1>6, <1>7, <1>8 DEF Synchronize

\* No run overwrites what another has done to a conflict: a commit is one step of its life.
THEOREM NoLostUpdate == Spec => OneTransition
<1>1. Init => TypeOK /\ RowsInv
  BY TypeInit, RowsInit
<1>2. TypeOK /\ RowsInv /\ [Next]_vars => TypeOK' /\ RowsInv'
  BY TypeNext, RowsNext
<1>3. TypeOK /\ RowsInv /\ [Next]_vars =>
        [\A c \in Conflict : conflict'[c] # conflict[c] =>
           \/ conflict[c].status = "active" /\ conflict'[c] = Resolve(conflict[c])
           \/ conflict'[c] = Reassert(conflict[c])]_vars
  <2> SUFFICES ASSUME TypeOK, RowsInv, [Next]_vars, NEW c \in Conflict,
                      conflict'[c] # conflict[c]
               PROVE  Transition(conflict[c], conflict'[c])
    BY DEF Transition
  <2>1. PICK e \in Execution : Commit(e)
    BY ConflictSteps
  <2> QED
    BY <2>1, CommitRows
<1> QED
  BY <1>1, <1>2, <1>3, PTL DEF Spec, OneTransition

-----------------------------------------------------------------------------
(* The order of the transactions of a run.                                 *)

\* The run has its invariants, its projection and its snapshots.
Stored(r) ==
  /\ invariantRun[r] = "complete"
  /\ r \in projected
  /\ \A s \in Source : snapshot[r][s] # "none"

\* What an execution can rely on where it is.
OnTheWay(e) ==
  /\ pc[e] = "persist" =>
       \A s \in Source \ persisting[e] : outcome[e][s] # "failed" => snapshot[job[e]][s] # "none"
  /\ pc[e] = "unchecked" => ~AllComplete(e)
  /\ txn[e] \in {"begin", "resolve", "upsert"} => AllComplete(e) /\ persisting[e] = {}
  /\ pc[e] = "evaluate" =>
       /\ AllComplete(e) /\ txn[e] # "none"
       /\ \A s \in Source : snapshot[job[e]][s] # "none"
       /\ ~projecting[e] => job[e] \in projected
       /\ txn[e] = "done" => invariantRun[job[e]] = "complete"
  /\ pc[e] = "cutover" => AllComplete(e) /\ Stored(job[e])
  /\ pc[e] = "finish" /\ AllComplete(e) => Stored(job[e])

PhaseInv ==
  /\ \A e \in Execution : OnTheWay(e)
  /\ \A r \in Run : run[r] = "complete" => Stored(r)
  /\ \A s \in Source : active[s] # NoRun => active[s] \in Run /\ Stored(active[s])
  /\ ActiveIsOneRun

\* What is stored stays stored.
Grows ==
  /\ projected \subseteq projected'
  /\ \A r \in Run :
       /\ invariantRun[r] = "complete" => invariantRun'[r] = "complete"
       /\ \A s \in Source : snapshot[r][s] # "none" => snapshot'[r][s] # "none"

\* An execution is not touched by a step of another one.
Untouched(e) ==
  /\ pc'[e] = pc[e] /\ job'[e] = job[e] /\ outcome'[e] = outcome[e]
  /\ persisting'[e] = persisting[e] /\ projecting'[e] = projecting[e] /\ txn'[e] = txn[e]

LEMMA StaysStored ==
  ASSUME Grows, NEW r \in Run, Stored(r)
  PROVE  Stored(r)'
  BY DEF Grows, Stored

LEMMA OthersOnTheWay ==
  ASSUME TypeOK, Grows, NEW e \in Execution, OnTheWay(e), Untouched(e)
  PROVE  OnTheWay(e)'
<1>1. job[e] \in Run
  BY DEF TypeOK
<1>2. AllComplete(e)' <=> AllComplete(e)
  BY DEF Untouched, AllComplete
<1>3. Stored(job[e]) => Stored(job[e])'
  BY <1>1 DEF Grows, Stored, Untouched
<1> QED
  BY <1>1, <1>2, <1>3 DEF OnTheWay, Untouched, Grows

\* A step of e that only lets the tables grow.
LEMMA PhaseStep ==
  ASSUME TypeOK, PhaseInv, Grows, NEW e \in Execution, UNCHANGED <<run, active>>,
         \A f \in Execution \ {e} : Untouched(f), OnTheWay(e)'
  PROVE  PhaseInv'
<1>1. \A f \in Execution : OnTheWay(f)'
  BY OthersOnTheWay DEF PhaseInv
<1>2. \A r \in Run : run'[r] = "complete" => Stored(r)'
  BY StaysStored DEF PhaseInv
<1>3. ASSUME NEW s \in Source, active'[s] # NoRun
      PROVE  active'[s] \in Run /\ Stored(active[s])'
  <2>1. PICK r \in Run : r = active[s] /\ Stored(r)
    BY <1>3 DEF PhaseInv
  <2>2. Stored(r)'
    BY <2>1, StaysStored
  <2>3. active'[s] = r
    BY <2>1
  <2> QED
    BY <2>2, <2>3 DEF Stored
<1> QED
  BY <1>1, <1>2, <1>3 DEF PhaseInv, ActiveIsOneRun

LEMMA PhaseInit == Init => PhaseInv
  BY DEF Init, PhaseInv, OnTheWay, ActiveIsOneRun

LEMMA PhaseNext == TypeOK /\ PhaseInv /\ [Next]_vars => PhaseInv'
<1> SUFFICES ASSUME TypeOK, PhaseInv, [Next]_vars PROVE PhaseInv'
  OBVIOUS
<1>1. ASSUME NEW e \in Execution, NEW r \in Run, Look(e, r) PROVE PhaseInv'
  <2>1. Grows /\ UNCHANGED <<run, active>>
    BY <1>1 DEF Look, tables, Grows
  <2>2. pc[e] = "idle" /\ (pc'[e] = "idle" \/ pc'[e] = "looked")
    BY <1>1 DEF Look, Goto, TypeOK
  <2>3. \A f \in Execution \ {e} : Untouched(f)
    BY <1>1 DEF Look, Goto, txnVars, Untouched, TypeOK
  <2>4. txn'[e] = "none"
    BY <1>1, <2>2 DEF Look, txnVars, TypeOK, InHand
  <2>5. OnTheWay(e)'
    BY <2>2, <2>4 DEF OnTheWay
  <2> QED
    BY <2>1, <2>3, <2>5, PhaseStep
<1>2. ASSUME NEW e \in Execution, Begin(e) PROVE PhaseInv'
  <2>1. Grows /\ UNCHANGED active
    BY <1>2 DEF Begin, Grows
  <2>2. \A f \in Execution \ {e} : Untouched(f)
    BY <1>2 DEF Begin, Goto, txnVars, Untouched, TypeOK
  <2>3. pc'[e] = "persist" /\ persisting'[e] = Source /\ txn'[e] = "none"
    BY <1>2 DEF Begin, Goto, txnVars, TypeOK, InHand
  <2>4. OnTheWay(e)'
    BY <2>3 DEF OnTheWay
  <2>5. \A f \in Execution : OnTheWay(f)'
    BY <2>1, <2>2, <2>4, OthersOnTheWay DEF PhaseInv
  <2>6. \A r \in Run : run'[r] = "complete" => run[r] = "complete"
    BY <1>2 DEF Begin, TypeOK
  <2>7. \A r \in Run : Stored(r)' <=> Stored(r)
    BY <1>2 DEF Begin, Stored
  <2>8. \A s \in Source : active[s] # NoRun => active[s] \in Run /\ Stored(active[s])'
    BY <1>2 DEF Begin, Stored, PhaseInv
  <2> QED
    BY <2>1, <2>5, <2>6, <2>7, <2>8 DEF PhaseInv, ActiveIsOneRun
<1>3. ASSUME NEW e \in Execution, NEW s \in Source, PersistSource(e, s) PROVE PhaseInv'
  <2>1. PICK read \in Availability :
          /\ outcome' = [outcome EXCEPT ![e][s] = read]
          /\ snapshot' = [snapshot EXCEPT ![job[e]][s] = IF read = "failed" THEN @ ELSE read]
    BY <1>3 DEF PersistSource
  <2>2. job[e] \in Run
    BY DEF TypeOK
  <2>3. \A r \in Run, t \in Source : snapshot'[r][t] =
          IF r = job[e] /\ t = s /\ read # "failed" THEN read ELSE snapshot[r][t]
    BY <2>1, <2>2 DEF TypeOK
  <2>4. Grows /\ UNCHANGED <<run, active>>
    BY <1>3, <2>3 DEF PersistSource, Grows, Availability
  <2>5. \A f \in Execution \ {e} : Untouched(f)
    BY <1>3, <2>1 DEF PersistSource, txnVars, Untouched, TypeOK
  <2>6. /\ \A t \in Source : outcome'[e][t] = IF t = s THEN read ELSE outcome[e][t]
        /\ persisting'[e] = persisting[e] \ {s}
        /\ pc'[e] = pc[e] /\ job'[e] = job[e] /\ txn'[e] = txn[e]
    BY <1>3, <2>1 DEF PersistSource, txnVars, TypeOK
  <2>7. s \in persisting[e] /\ pc[e] \in {"persist", "failed"}
    BY <1>3 DEF PersistSource, TypeOK, InHand
  <2>8. txn[e] \notin {"begin", "resolve", "upsert"}
    BY <2>7 DEF PhaseInv, OnTheWay
  <2>9. pc[e] = "persist" => \A t \in Source \ persisting'[e] :
          outcome'[e][t] # "failed" => snapshot'[job[e]][t] # "none"
    BY <2>2, <2>3, <2>6 DEF PhaseInv, OnTheWay, Availability
  <2>10. OnTheWay(e)'
    BY <2>6, <2>7, <2>8, <2>9 DEF OnTheWay
  <2> QED
    BY <2>4, <2>5, <2>10, PhaseStep
<1>4. ASSUME NEW e \in Execution, Evaluate(e) PROVE PhaseInv'
  <2>1. Grows /\ UNCHANGED <<run, active>>
    BY <1>4 DEF Evaluate, tables, Grows
  <2>2. \A f \in Execution \ {e} : Untouched(f)
    BY <1>4 DEF Evaluate, Goto, Untouched, TypeOK
  <2>3. /\ pc[e] = "persist" /\ persisting[e] = {} /\ AllComplete(e)
        /\ pc'[e] = "evaluate" /\ txn'[e] = "begin" /\ projecting'[e]
        /\ UNCHANGED <<job, outcome, persisting, snapshot>>
    BY <1>4 DEF Evaluate, Goto, TypeOK, tables
  <2>4. AllComplete(e)' /\ \A s \in Source : snapshot[job[e]][s] # "none"
    BY <2>3 DEF AllComplete, PhaseInv, OnTheWay
  <2>5. OnTheWay(e)'
    BY <2>3, <2>4 DEF OnTheWay
  <2> QED
    BY <2>1, <2>2, <2>5, PhaseStep
<1>5. ASSUME NEW e \in Execution, Project(e) PROVE PhaseInv'
  <2>1. Grows /\ UNCHANGED <<run, active>>
    BY <1>5 DEF Project, Grows
  <2>2. \A f \in Execution \ {e} : Untouched(f)
    BY <1>5 DEF Project, txnVars, Untouched, TypeOK
  <2>3. /\ UNCHANGED <<pc, job, outcome, persisting, txn, snapshot, invariantRun>>
        /\ job[e] \in projected' /\ projecting[e]
    BY <1>5 DEF Project, txnVars
  <2>4. pc[e] \in {"evaluate", "failed"}
    BY <2>3 DEF TypeOK, InHand
  <2>5. AllComplete(e)' <=> AllComplete(e)
    BY <2>3 DEF AllComplete
  <2>6. OnTheWay(e)'
    BY <2>3, <2>4, <2>5 DEF OnTheWay, PhaseInv
  <2> QED
    BY <2>1, <2>2, <2>6, PhaseStep
<1>6. ASSUME NEW e \in Execution,
             \/ BeginInvariants(e) \/ BeginUpsert(e)
             \/ \E c \in Conflict : ResolveRow(e, c) \/ UpsertRow(e, c)
      PROVE  PhaseInv'
  <2>1. /\ UNCHANGED <<tables, pc, job, outcome, persisting, projecting>>
        /\ \A f \in Execution \ {e} : txn'[f] = txn[f]
        /\ txn[e] \in {"begin", "resolve", "upsert"} /\ txn'[e] \in {"resolve", "upsert"}
    BY <1>6 DEF BeginInvariants, BeginUpsert, ResolveRow, UpsertRow, TypeOK
  <2>2. Grows /\ UNCHANGED <<run, active>>
    BY <2>1 DEF tables, Grows
  <2>3. \A f \in Execution \ {e} : Untouched(f)
    BY <2>1 DEF Untouched
  <2>4. AllComplete(e)' <=> AllComplete(e)
    BY <2>1 DEF AllComplete
  <2>5. pc[e] \in {"evaluate", "failed"}
    BY <2>1 DEF TypeOK, InHand
  <2>6. OnTheWay(e)'
    BY <2>1, <2>4, <2>5 DEF OnTheWay, PhaseInv, tables
  <2> QED
    BY <2>2, <2>3, <2>6, PhaseStep
<1>7. ASSUME NEW e \in Execution, Commit(e) PROVE PhaseInv'
  <2>1. /\ UNCHANGED <<run, snapshot, projected, active, pc, job, outcome, persisting, projecting>>
        /\ invariantRun' = [invariantRun EXCEPT ![job[e]] = "complete"]
        /\ txn[e] = "upsert"
    BY <1>7 DEF Commit
  <2>2. Ended(e)
    BY <1>7, EndTransactionType DEF Commit
  <2>3. job[e] \in Run /\ invariantRun'[job[e]] = "complete"
    BY <2>1 DEF TypeOK
  <2>4. Grows
    BY <2>1 DEF Grows, TypeOK
  <2>5. txn'[e] = "done" /\ \A f \in Execution \ {e} : Untouched(f)
    BY <2>1, <2>2 DEF Ended, Untouched
  <2>6. AllComplete(e)' <=> AllComplete(e)
    BY <2>1 DEF AllComplete
  <2>7. pc[e] \in {"evaluate", "failed"}
    BY <2>1 DEF TypeOK, InHand
  <2>8. OnTheWay(e)'
    BY <2>1, <2>3, <2>5, <2>6, <2>7 DEF OnTheWay, PhaseInv
  <2> QED
    BY <2>1, <2>4, <2>5, <2>8, PhaseStep
<1>8. ASSUME NEW e \in Execution, BeginCutover(e) PROVE PhaseInv'
  <2>1. /\ UNCHANGED <<tables, job, outcome, persisting, projecting, txn>>
        /\ pc' = [pc EXCEPT ![e] = "cutover"]
        /\ pc[e] = "evaluate" /\ ~projecting[e] /\ txn[e] = "done"
    BY <1>8 DEF BeginCutover, BothStored, Goto, txnVars
  <2>2. Grows /\ UNCHANGED <<run, active>>
    BY <2>1 DEF tables, Grows
  <2>3. pc'[e] = "cutover" /\ \A f \in Execution \ {e} : Untouched(f)
    BY <2>1 DEF Untouched, TypeOK
  <2>4. AllComplete(e) /\ Stored(job[e])
    BY <2>1 DEF PhaseInv, OnTheWay, Stored
  <2>5. AllComplete(e)' /\ Stored(job[e])'
    BY <2>1, <2>4 DEF AllComplete, Stored, tables
  <2>6. OnTheWay(e)'
    BY <2>1, <2>3, <2>5 DEF OnTheWay
  <2> QED
    BY <2>2, <2>3, <2>6, PhaseStep
<1>9. ASSUME NEW e \in Execution, SwitchRow(e) PROVE PhaseInv'
  <2>1. UNCHANGED <<tables, pc, job, outcome, persisting, projecting, txn>>
    BY <1>9 DEF SwitchRow, txnVars
  <2>2. Grows /\ UNCHANGED <<run, active>>
    BY <2>1 DEF tables, Grows
  <2>3. \A f \in Execution : Untouched(f)
    BY <2>1 DEF Untouched
  <2>4. OnTheWay(e)'
    BY <2>2, <2>3, OthersOnTheWay DEF PhaseInv
  <2> QED
    BY <2>2, <2>3, <2>4, PhaseStep
<1>10. ASSUME NEW e \in Execution, CommitCutover(e) PROVE PhaseInv'
  <2>1. /\ UNCHANGED <<run, snapshot, invariantRun, projected>>
        /\ UNCHANGED <<job, outcome, persisting, projecting, txn>>
        /\ pc' = [pc EXCEPT ![e] = "finish"] /\ pc[e] = "cutover"
    BY <1>10 DEF CommitCutover, Goto, txnVars
  <2>2. \A s \in Source : active'[s] = job[e]
    BY <1>10, Constants DEF CommitCutover, AllSwitched
  <2>3. Grows
    BY <2>1 DEF Grows
  <2>4. pc'[e] = "finish" /\ \A f \in Execution \ {e} : Untouched(f)
    BY <2>1 DEF Untouched, TypeOK
  <2>5. job[e] \in Run /\ Stored(job[e])
    BY <2>1 DEF PhaseInv, OnTheWay, TypeOK
  <2>6. \A r \in Run : Stored(r)' <=> Stored(r)
    BY <2>1 DEF Stored
  <2>7. Stored(job[e])'
    BY <2>1, <2>5 DEF Stored
  <2>8. txn[e] \notin {"begin", "resolve", "upsert"}
    BY <2>1 DEF TypeOK, InHand
  <2>9. OnTheWay(e)'
    BY <2>1, <2>4, <2>7, <2>8 DEF OnTheWay
  <2>10. \A f \in Execution : OnTheWay(f)'
    BY <2>3, <2>4, <2>9, OthersOnTheWay DEF PhaseInv
  <2>11. \A s \in Source : active'[s] \in Run /\ Stored(active[s])'
    BY <2>1, <2>2, <2>5 DEF Stored
  <2> QED
    BY <2>1, <2>2, <2>6, <2>10, <2>11 DEF PhaseInv, ActiveIsOneRun
<1>11. ASSUME NEW e \in Execution, StorePartial(e) \/ StoreUnchecked(e) PROVE PhaseInv'
  <2>1. /\ UNCHANGED <<run, snapshot, projected, active>>
        /\ UNCHANGED <<job, outcome, persisting, projecting, txn>>
        /\ ~AllComplete(e)
        /\ pc[e] \in {"persist", "unchecked"}
        /\ pc' = [pc EXCEPT ![e] = "unchecked"] \/ pc' = [pc EXCEPT ![e] = "finish"]
    BY <1>11 DEF StorePartial, StoreUnchecked, Goto, txnVars, PhaseInv, OnTheWay
  <2>2. \A r \in Run : invariantRun[r] = "complete" => invariantRun'[r] = "complete"
    BY <1>11 DEF StorePartial, StoreUnchecked, TypeOK
  <2>3. Grows
    BY <2>1, <2>2 DEF Grows
  <2>4. pc'[e] \in {"unchecked", "finish"} /\ \A f \in Execution \ {e} : Untouched(f)
    BY <2>1 DEF Untouched, TypeOK
  <2>5. ~AllComplete(e)'
    BY <2>1 DEF AllComplete
  <2>6. txn[e] \notin {"begin", "resolve", "upsert"}
    BY <2>1 DEF TypeOK, InHand
  <2>7. OnTheWay(e)'
    BY <2>1, <2>4, <2>5, <2>6 DEF OnTheWay
  <2> QED
    BY <2>1, <2>3, <2>4, <2>7, PhaseStep
<1>12. ASSUME NEW e \in Execution, Finish(e) PROVE PhaseInv'
  <2>1. /\ UNCHANGED <<snapshot, invariantRun, projected, active>>
        /\ run' = [run EXCEPT ![job[e]] = FinalStatus(e)]
        /\ pc[e] = "finish"
    BY <1>12 DEF Finish
  <2>2. Forgotten(e)
    BY <1>12, ForgetType DEF Finish
  <2>3. Grows
    BY <2>1 DEF Grows
  <2>4. pc'[e] = "idle" /\ txn'[e] = "none" /\ \A f \in Execution \ {e} : Untouched(f)
    BY <2>2 DEF Forgotten, Untouched
  <2>5. OnTheWay(e)'
    BY <2>4 DEF OnTheWay
  <2>6. \A f \in Execution : OnTheWay(f)'
    BY <2>3, <2>4, <2>5, OthersOnTheWay DEF PhaseInv
  <2>7. \A r \in Run : Stored(r)' <=> Stored(r)
    BY <2>1 DEF Stored
  <2>8. FinalStatus(e) = "complete" => Stored(job[e])
    BY <2>1 DEF FinalStatus, PhaseInv, OnTheWay
  <2>9. \A r \in Run : run'[r] = "complete" => Stored(r)
    BY <2>1, <2>8 DEF PhaseInv, TypeOK
  <2>10. \A s \in Source : active'[s] # NoRun => active'[s] \in Run /\ Stored(active[s])'
    BY <2>1 DEF PhaseInv, Stored
  <2> QED
    BY <2>1, <2>6, <2>7, <2>9, <2>10 DEF PhaseInv, ActiveIsOneRun
<1>13. ASSUME NEW e \in Execution, Vanish(e) \/ Crash(e) PROVE PhaseInv'
  <2>1. UNCHANGED tables
    BY <1>13 DEF Vanish, Crash
  <2>2. Forgotten(e)
    BY <1>13, ForgetType DEF Vanish, Crash
  <2>3. Grows /\ UNCHANGED <<run, active>>
    BY <2>1 DEF tables, Grows
  <2>4. pc'[e] = "idle" /\ txn'[e] = "none" /\ \A f \in Execution \ {e} : Untouched(f)
    BY <2>2 DEF Forgotten, Untouched
  <2>5. OnTheWay(e)'
    BY <2>4 DEF OnTheWay
  <2> QED
    BY <2>3, <2>4, <2>5, PhaseStep
<1>14. ASSUME NEW e \in Execution, Abort(e) PROVE PhaseInv'
  <2>1. /\ UNCHANGED <<tables, job, outcome, persisting, projecting>>
        /\ pc' = [pc EXCEPT ![e] = "failed"]
    BY <1>14 DEF Abort, Goto
  <2>2. Ended(e)
    BY <1>14, EndTransactionType DEF Abort
  <2>3. Grows /\ UNCHANGED <<run, active>>
    BY <2>1 DEF tables, Grows
  <2>4. /\ pc'[e] = "failed" /\ txn'[e] = "done"
        /\ \A f \in Execution \ {e} : Untouched(f)
    BY <2>1, <2>2 DEF Ended, Untouched, TypeOK
  <2>5. OnTheWay(e)'
    BY <2>4 DEF OnTheWay
  <2> QED
    BY <2>3, <2>4, <2>5, PhaseStep
<1>15. ASSUME NEW e \in Execution, Throw(e) PROVE PhaseInv'
  <2>1. /\ UNCHANGED <<tables, job, outcome, txn>>
        /\ pc' = [pc EXCEPT ![e] = "failed"]
    BY <1>15 DEF Throw, Goto, txnVars
  <2>2. Grows /\ UNCHANGED <<run, active>>
    BY <2>1 DEF tables, Grows
  <2>3. /\ pc'[e] = "failed"
        /\ persisting'[e] \subseteq persisting[e]
        /\ \A f \in Execution \ {e} : persisting'[f] = persisting[f] /\ projecting'[f] = projecting[f]
    BY <1>15, <2>1 DEF Throw, TypeOK
  <2>4. \A f \in Execution \ {e} : Untouched(f)
    BY <2>1, <2>3 DEF Untouched, TypeOK
  <2>5. AllComplete(e)' <=> AllComplete(e)
    BY <2>1 DEF AllComplete
  <2>6. OnTheWay(e)'
    BY <2>1, <2>3, <2>5 DEF OnTheWay, PhaseInv
  <2> QED
    BY <2>2, <2>4, <2>6, PhaseStep
<1>16. CASE UNCHANGED vars
  <2>1. UNCHANGED <<tables, pc, job, outcome, persisting, projecting, txn>>
    BY <1>16 DEF vars, local, txnVars
  <2>2. Grows /\ UNCHANGED <<run, active>>
    BY <2>1 DEF tables, Grows
  <2>3. \A f \in Execution : OnTheWay(f)'
    BY <2>1, <2>2, OthersOnTheWay DEF PhaseInv, Untouched
  <2>4. \A r \in Run : Stored(r)' <=> Stored(r)
    BY <2>1 DEF Stored, tables
  <2>5. \A s \in Source : active[s] # NoRun => active[s] \in Run /\ Stored(active[s])'
    BY <2>1 DEF PhaseInv, Stored, tables
  <2> QED
    BY <2>2, <2>3, <2>4, <2>5 DEF PhaseInv, ActiveIsOneRun
<1> QED
  BY <1>1, <1>2, <1>3, <1>4, <1>5, <1>6, <1>7, <1>8, <1>9, <1>10, <1>11, <1>12, <1>13, <1>14,
     <1>15, <1>16 DEF Next, Synchronize

LEMMA PhaseAlways == Spec => []PhaseInv
<1>1. Init => TypeOK /\ PhaseInv
  BY TypeInit, PhaseInit
<1>2. TypeOK /\ PhaseInv /\ [Next]_vars => TypeOK' /\ PhaseInv'
  BY TypeNext, PhaseNext
<1> QED
  BY <1>1, <1>2, PTL DEF Spec

\* A run that says it is complete has stored its projection and its conflicts.
THEOREM CompleteRunsAreEvaluated == Spec => []CompleteIsEvaluated
<1>1. PhaseInv => CompleteIsEvaluated
  BY DEF PhaseInv, CompleteIsEvaluated, Stored
<1> QED
  BY <1>1, PhaseAlways, PTL

\* So has the run whose snapshots are active.
THEOREM ActiveRunIsEvaluated == Spec => []ActiveIsEvaluated
<1>1. PhaseInv => ActiveIsEvaluated
  BY DEF PhaseInv, ActiveIsEvaluated, Stored
<1> QED
  BY <1>1, PhaseAlways, PTL

\* The active snapshots are always those of one run.
THEOREM OneRunIsActive == Spec => []ActiveIsOneRun
<1>1. PhaseInv => ActiveIsOneRun
  BY DEF PhaseInv
<1> QED
  BY <1>1, PhaseAlways, PTL

\* Only the cut-over changes the active snapshots.
LEMMA ActiveSteps ==
  TypeOK /\ [Next]_vars /\ active' # active => \E e \in Execution : CommitCutover(e)
<1> SUFFICES ASSUME TypeOK, [Next]_vars, active' # active
             PROVE  \E e \in Execution : CommitCutover(e)
  OBVIOUS
<1>1. ~UNCHANGED vars
  BY DEF vars, tables
<1>2. PICK e \in Execution : Synchronize(e)
  BY <1>1 DEF Next
<1>3. \A r \in Run : ~Look(e, r)
  BY DEF Look, tables
<1>4. \A s \in Source : ~PersistSource(e, s)
  BY DEF PersistSource
<1>5. \A c \in Conflict : ~ResolveRow(e, c) /\ ~UpsertRow(e, c)
  BY DEF ResolveRow, UpsertRow, tables
<1>6. ~Begin(e) /\ ~Evaluate(e) /\ ~Project(e) /\ ~BeginInvariants(e) /\ ~BeginUpsert(e)
  BY DEF Begin, Evaluate, Project, BeginInvariants, BeginUpsert, tables
<1>7. /\ ~BeginCutover(e) /\ ~SwitchRow(e) /\ ~Commit(e)
      /\ ~StorePartial(e) /\ ~StoreUnchecked(e)
  BY DEF BeginCutover, SwitchRow, Commit, StorePartial, StoreUnchecked, tables
<1>8. ~Finish(e) /\ ~Abort(e) /\ ~Throw(e) /\ ~Vanish(e) /\ ~Crash(e)
  BY DEF Finish, Abort, Throw, Vanish, Crash, tables
<1> QED
  BY <1>2, <1>3, <1>4, <1>5, <1>6, <1>7, <1>8 DEF Synchronize

\* Nothing is resolved, reasserted or activated by a run that missed a source.
THEOREM PartialRunsResolveNothing == Spec => PartialNeverResolves
<1>1. Init => TypeOK /\ PhaseInv
  BY TypeInit, PhaseInit
<1>2. TypeOK /\ PhaseInv /\ [Next]_vars => TypeOK' /\ PhaseInv'
  BY TypeNext, PhaseNext
<1>3. TypeOK /\ PhaseInv /\ [Next]_vars =>
        [conflict' # conflict \/ active' # active =>
           \E e \in Execution :
             /\ \A s \in Source : outcome[e][s] = "complete"
             /\ Commit(e) \/ CommitCutover(e)]_vars
  <2> SUFFICES ASSUME TypeOK, PhaseInv, [Next]_vars, conflict' # conflict \/ active' # active
               PROVE  \E e \in Execution :
                        /\ \A s \in Source : outcome[e][s] = "complete"
                        /\ Commit(e) \/ CommitCutover(e)
    OBVIOUS
  <2>1. PICK e \in Execution : Commit(e) \/ CommitCutover(e)
    BY ConflictSteps, ActiveSteps
  <2>2. txn[e] = "upsert" \/ pc[e] = "cutover"
    BY <2>1 DEF Commit, CommitCutover
  <2>3. AllComplete(e)
    BY <2>2 DEF PhaseInv, OnTheWay
  <2> QED
    BY <2>1, <2>3 DEF AllComplete
<1> QED
  BY <1>1, <1>2, <1>3, PTL DEF Spec, PartialNeverResolves

-----------------------------------------------------------------------------
(* A run that is alone.                                                    *)

\* What the transaction of a run that is alone has done so far: nothing it must resolve is
\* forgotten, nothing it has detected is closed.
Found(e) == Detects[job[e]]

Covered(e) ==
  /\ \A f \in Execution \ {e} : ~Open(f)
  /\ \A c \in Conflict \ Found(e) :
       /\ writes[e][c].status # "active"
       /\ conflict[c].status = "active" =>
            writes[e][c] # NotWritten \/ (txn[e] = "resolve" /\ c \in todo[e])
  /\ txn[e] = "resolve" => todo[e] \cap Found(e) = {}
  /\ txn[e] = "upsert" =>
       /\ todo[e] \subseteq Found(e)
       /\ \A c \in Found(e) \ todo[e] : writes[e][c].status \in {"active", "oscillation_hold"}

AloneInv == \A e \in Execution : alone[e] /\ Open(e) => Covered(e)

LEMMA AloneInit == Init => AloneInv
  BY DEF Init, AloneInv, Open

\* A step that opens no transaction and leaves those that are open as they are.
LEMMA AloneSame ==
  ASSUME AloneInv, UNCHANGED conflict,
         \A f \in Execution : Open(f)' =>
           /\ Open(f) /\ txn'[f] = txn[f] /\ todo'[f] = todo[f] /\ writes'[f] = writes[f]
           /\ alone'[f] = alone[f] /\ job'[f] = job[f]
  PROVE  AloneInv'
<1> SUFFICES ASSUME NEW e \in Execution, alone'[e], Open(e)' PROVE Covered(e)'
  BY DEF AloneInv
<1>1. Open(e) /\ Covered(e)
  BY DEF AloneInv
<1>2. \A f \in Execution \ {e} : ~Open(f)'
  BY <1>1 DEF Covered
<1> QED
  BY <1>1, <1>2 DEF Covered, Found

\* A step of an open transaction: the others are not alone.
LEMMA AloneStep ==
  ASSUME AloneInv, NEW e \in Execution, Open(e),
         \A f \in Execution \ {e} : Open(f)' => Open(f) /\ alone'[f] = alone[f],
         alone'[e] /\ Open(e)' => Covered(e)'
  PROVE  AloneInv'
<1> SUFFICES ASSUME NEW f \in Execution, alone'[f], Open(f)' PROVE Covered(f)'
  BY DEF AloneInv
<1>1. CASE f = e
  BY <1>1
<1>2. CASE f # e
  BY <1>2 DEF AloneInv, Covered
<1> QED
  BY <1>1, <1>2

LEMMA AloneNext == TypeOK /\ AloneInv /\ [Next]_vars => AloneInv'
<1> SUFFICES ASSUME TypeOK, AloneInv, [Next]_vars PROVE AloneInv'
  OBVIOUS
<1>1. ASSUME NEW e \in Execution, BeginInvariants(e) PROVE AloneInv'
  <2>1. /\ UNCHANGED <<conflict, job, writes>>
        /\ txn[e] = "begin" /\ txn' = [txn EXCEPT ![e] = "resolve"]
        /\ todo' = [todo EXCEPT ![e] = Gone(e)]
    BY <1>1 DEF BeginInvariants, tables
  <2>2. ~Open(e) /\ writes[e] = Nothing
    BY <2>1 DEF TypeOK, InHand, Open
  <2>3. \A f \in Execution \ {e} : Open(f)' <=> Open(f)
    BY <2>1 DEF Open, TypeOK
  <2>4. CASE \E f \in Execution \ {e} : Open(f)
    <3>1. \A f \in Execution : f = e \/ Open(f) => ~alone'[f]
      BY <1>1, <2>4 DEF BeginInvariants
    <3> QED
      BY <2>3, <3>1 DEF AloneInv
  <2>5. CASE \A f \in Execution \ {e} : ~Open(f)
    <3>1. Covered(e)'
      <4>1. \A f \in Execution \ {e} : ~Open(f)'
        BY <2>3, <2>5
      <4>2. txn'[e] = "resolve" /\ todo'[e] = Gone(e)
        BY <2>1 DEF TypeOK
      <4>3. \A c \in Conflict : writes'[e][c] = NotWritten
        BY <2>1, <2>2 DEF Nothing
      <4> QED
        BY <2>1, <4>1, <4>2, <4>3 DEF Covered, Gone, NotWritten, Found
    <3> QED
      BY <2>3, <2>5, <3>1 DEF AloneInv
  <2> QED
    BY <2>4, <2>5
<1>2. ASSUME NEW e \in Execution, NEW c \in Conflict, ResolveRow(e, c) PROVE AloneInv'
  <2>1. /\ UNCHANGED <<conflict, job, txn, alone>>
        /\ txn[e] = "resolve" /\ c \in todo[e]
        /\ todo'[e] = todo[e] \ {c}
    BY <1>2 DEF ResolveRow, tables, TypeOK
  <2>2. \A d \in Conflict \ {c} : writes'[e][d] = writes[e][d]
    BY <1>2 DEF ResolveRow, Write, TypeOK
  <2>3. \/ writes'[e][c] = Resolve(conflict[c])
        \/ conflict[c].status # "active" /\ writes'[e][c] = writes[e][c]
    BY <1>2 DEF ResolveRow, Write, TypeOK
  <2>4. Resolve(conflict[c]).status = "resolved"
    BY DEF Resolve, TypeOK, Row
  <2>5. \A f \in Execution : Open(f)' <=> Open(f)
    BY <2>1 DEF Open
  <2>6. alone[e] => Covered(e)'
    <3> SUFFICES ASSUME alone[e] PROVE Covered(e)'
      OBVIOUS
    <3>1. Covered(e)
      BY <2>1 DEF AloneInv, Open
    <3>2. c \notin Found(e)
      BY <2>1, <3>1 DEF Covered
    <3>3. \A d \in Conflict \ Found(e) :
            /\ writes'[e][d].status # "active"
            /\ conflict[d].status = "active" => writes'[e][d] # NotWritten \/ d \in todo'[e]
      <4> SUFFICES ASSUME NEW d \in Conflict \ Found(e)
                   PROVE  /\ writes'[e][d].status # "active"
                          /\ conflict[d].status = "active" =>
                               writes'[e][d] # NotWritten \/ d \in todo'[e]
        OBVIOUS
      <4>1. CASE d = c
        BY <2>3, <2>4, <3>1, <4>1 DEF Covered, NotWritten
      <4>2. CASE d # c
        BY <2>1, <2>2, <3>1, <4>2 DEF Covered
      <4> QED
        BY <4>1, <4>2
    <3>4. Found(e)' = Found(e) /\ \A f \in Execution \ {e} : ~Open(f)'
      BY <2>1, <2>5, <3>1 DEF Found, Covered
    <3>5. todo'[e] \cap Found(e) = {}
      BY <2>1, <3>1 DEF Covered
    <3> QED
      BY <2>1, <3>3, <3>4, <3>5 DEF Covered
  <2> QED
    BY <2>1, <2>5, <2>6, AloneStep DEF Open
<1>3. ASSUME NEW e \in Execution, BeginUpsert(e) PROVE AloneInv'
  <2>1. /\ UNCHANGED <<conflict, job, writes, alone>>
        /\ txn[e] = "resolve" /\ todo[e] = {}
        /\ txn' = [txn EXCEPT ![e] = "upsert"]
        /\ todo'[e] = Detects[job[e]]
    BY <1>3 DEF BeginUpsert, tables, TypeOK
  <2>2. \A f \in Execution : Open(f)' <=> Open(f)
    BY <2>1 DEF Open, TypeOK
  <2>3. alone[e] => Covered(e)'
    <3> SUFFICES ASSUME alone[e] PROVE Covered(e)'
      OBVIOUS
    <3>1. Covered(e)
      BY <2>1 DEF AloneInv, Open
    <3>2. txn'[e] = "upsert"
      BY <2>1 DEF TypeOK
    <3> QED
      BY <2>1, <2>2, <3>1, <3>2 DEF Covered, Found
  <2> QED
    BY <2>1, <2>2, <2>3, AloneStep DEF Open
<1>4. ASSUME NEW e \in Execution, NEW c \in Conflict, UpsertRow(e, c) PROVE AloneInv'
  <2>1. /\ UNCHANGED <<conflict, job, txn, alone>>
        /\ txn[e] = "upsert" /\ c \in todo[e]
        /\ todo'[e] = todo[e] \ {c}
    BY <1>4 DEF UpsertRow, NextRow, tables, TypeOK
  <2>2. \A d \in Conflict : writes'[e][d] =
          IF d = c THEN Reassert(conflict[c]) ELSE writes[e][d]
    BY <1>4 DEF UpsertRow, Write, TypeOK
  <2>3. Reassert(conflict[c]).status \in {"active", "oscillation_hold"}
    BY DEF Reassert, TypeOK, Row
  <2>4. \A f \in Execution : Open(f)' <=> Open(f)
    BY <2>1 DEF Open
  <2>5. alone[e] => Covered(e)'
    <3> SUFFICES ASSUME alone[e] PROVE Covered(e)'
      OBVIOUS
    <3>1. Covered(e)
      BY <2>1 DEF AloneInv, Open
    <3>2. c \in Found(e)
      BY <2>1, <3>1 DEF Covered
    <3>3. Found(e) \subseteq Conflict
      BY Constants DEF TypeOK, Found
    <3>4. \A d \in Conflict \ Found(e) : writes'[e][d] = writes[e][d]
      BY <2>2, <3>2
    <3>5. \A d \in Found(e) \ todo'[e] : writes'[e][d].status \in {"active", "oscillation_hold"}
      <4> SUFFICES ASSUME NEW d \in Found(e) \ todo'[e]
                   PROVE  writes'[e][d].status \in {"active", "oscillation_hold"}
        OBVIOUS
      <4>1. CASE d = c
        BY <2>2, <2>3, <4>1
      <4>2. CASE d # c
        BY <2>1, <2>2, <3>1, <3>3, <4>2 DEF Covered
      <4> QED
        BY <4>1, <4>2
    <3>6. todo'[e] \subseteq Found(e)
      BY <2>1, <3>1 DEF Covered
    <3>7. \A f \in Execution \ {e} : ~Open(f)'
      BY <2>4, <3>1 DEF Covered
    <3>9. Found(e)' = Found(e)
      BY <2>1 DEF Found
    <3>8. \A d \in Conflict \ Found(e) :
            /\ writes'[e][d].status # "active"
            /\ conflict[d].status = "active" => writes'[e][d] # NotWritten
      BY <2>1, <3>1, <3>4 DEF Covered
    <3> QED
      BY <2>1, <3>5, <3>6, <3>7, <3>8, <3>9 DEF Covered
  <2> QED
    BY <2>1, <2>4, <2>5, AloneStep DEF Open
<1>5. ASSUME NEW e \in Execution, Commit(e) PROVE AloneInv'
  <2>1. Ended(e)
    BY <1>5, EndTransactionType DEF Commit
  <2>2. Open(e) /\ ~Open(e)'
    BY <1>5, <2>1 DEF Commit, Open, Ended
  <2>3. \A f \in Execution \ {e} : Open(f)' => Open(f) /\ alone'[f] = alone[f]
    BY <2>1 DEF Open, Ended
  <2> QED
    BY <2>2, <2>3, AloneStep
<1>6. ASSUME NEW e \in Execution, Abort(e) PROVE AloneInv'
  <2>1. Ended(e) /\ UNCHANGED <<conflict, job>>
    BY <1>6, EndTransactionType DEF Abort, tables
  <2> QED
    BY <2>1, AloneSame DEF Ended, Open
<1>7. ASSUME NEW e \in Execution, Finish(e) \/ Vanish(e) \/ Crash(e) PROVE AloneInv'
  <2>1. Forgotten(e) /\ UNCHANGED conflict
    BY <1>7, ForgetType DEF Finish, Vanish, Crash, tables
  <2> QED
    BY <2>1, AloneSame DEF Forgotten, Open
<1>8. ASSUME NEW e \in Execution, NEW r \in Run, Look(e, r) PROVE AloneInv'
  <2>1. /\ UNCHANGED <<conflict, txn, todo, writes, alone>>
        /\ \A f \in Execution \ {e} : job'[f] = job[f]
    BY <1>8 DEF Look, tables, txnVars, TypeOK
  <2>2. ~Open(e)
    BY <1>8 DEF Look, TypeOK, InHand, Open
  <2> QED
    BY <2>1, <2>2, AloneSame DEF Open
<1>9. ASSUME NEW e \in Execution, Evaluate(e) PROVE AloneInv'
  <2>1. /\ UNCHANGED <<conflict, job, todo, writes, alone>>
        /\ \A f \in Execution : txn'[f] = IF f = e THEN "begin" ELSE txn[f]
    BY <1>9 DEF Evaluate, tables, TypeOK
  <2> QED
    BY <2>1, AloneSame DEF Open
<1>10. ASSUME NEW e \in Execution,
              \/ Begin(e) \/ \E s \in Source : PersistSource(e, s)
              \/ Project(e) \/ BeginCutover(e) \/ SwitchRow(e) \/ CommitCutover(e)
              \/ StorePartial(e) \/ StoreUnchecked(e) \/ Throw(e)
       PROVE  AloneInv'
  <2>1. UNCHANGED <<conflict, job, txn, todo, writes, alone>>
    BY <1>10 DEF Begin, PersistSource, Project, BeginCutover, SwitchRow, CommitCutover,
                 StorePartial, StoreUnchecked, Throw, tables, txnVars
  <2> QED
    BY <2>1, AloneSame DEF Open
<1>11. CASE UNCHANGED vars
  <2>1. UNCHANGED <<conflict, job, txn, todo, writes, alone>>
    BY <1>11 DEF vars, tables, local, txnVars
  <2> QED
    BY <2>1, AloneSame DEF Open
<1> QED
  BY <1>1, <1>2, <1>3, <1>4, <1>5, <1>6, <1>7, <1>8, <1>9, <1>10, <1>11 DEF Next, Synchronize

\* A complete run that was alone resolves exactly what it did not detect.
THEOREM LoneRunResolves == Spec => CompleteRunResolves
<1>1. Init => TypeOK /\ RowsInv /\ AloneInv
  BY TypeInit, RowsInit, AloneInit
<1>2. TypeOK /\ RowsInv /\ AloneInv /\ [Next]_vars => TypeOK' /\ RowsInv' /\ AloneInv'
  BY TypeNext, RowsNext, AloneNext
<1>3. TypeOK /\ RowsInv /\ AloneInv /\ [Next]_vars =>
        [\A e \in Execution :
           Commit(e) /\ alone[e] =>
             \A c \in Conflict :
               /\ conflict'[c].status = "active" => c \in Detects[job[e]]
               /\ c \in Detects[job[e]] => conflict'[c].status \in {"active", "oscillation_hold"}]_vars
  <2> SUFFICES ASSUME TypeOK, RowsInv, AloneInv, NEW e \in Execution, Commit(e), alone[e],
                      NEW c \in Conflict
               PROVE  /\ conflict'[c].status = "active" => c \in Detects[job[e]]
                      /\ c \in Detects[job[e]] =>
                           conflict'[c].status \in {"active", "oscillation_hold"}
    OBVIOUS
  <2>1. conflict'[c] = IF writes[e][c] = NotWritten THEN conflict[c] ELSE writes[e][c]
    BY CommitRows
  <2>2. txn[e] = "upsert" /\ todo[e] = {}
    BY DEF Commit
  <2>3. Covered(e)
    BY <2>2 DEF AloneInv, Open
  <2> QED
    BY <2>1, <2>2, <2>3 DEF Covered, NotWritten, Found
<1> QED
  BY <1>1, <1>2, <1>3, PTL DEF Spec, CompleteRunResolves

\* Whatever is shown as the active evidence, or as a complete run, was evaluated.
THEOREM EvidenceStaysEvaluated == Spec => []EvidenceIsEvaluated
<1>1. ActiveIsOneRun /\ CompleteIsEvaluated /\ ActiveIsEvaluated => EvidenceIsEvaluated
  BY DEF EvidenceIsEvaluated
<1> QED
  BY <1>1, OneRunIsActive, CompleteRunsAreEvaluated, ActiveRunIsEvaluated, PTL

\* Complete evidence resolves conflicts, and nothing else does.
THEOREM CompleteEvidenceResolves == Spec => Resolution
  BY PartialRunsResolveNothing, LoneRunResolves DEF Resolution

-----------------------------------------------------------------------------
(* What makes a transaction on conflicts fail.                             *)

\* Results with a conflict key are stored with the evaluation they are of.
ResultsInv == \A r \in Run : "fail" \in results[r] => invariantRun[r] = "complete"

\* A step that leaves the results of each run as they are, or adds unchecked ones, and takes
\* no evaluation back.
ResultsKept ==
  /\ \A r \in Run : "fail" \in results'[r] => "fail" \in results[r]
  /\ \A r \in Run : invariantRun[r] = "complete" => invariantRun'[r] = "complete"

LEMMA ResultsInit == Init => ResultsInv
  BY DEF Init, ResultsInv

LEMMA ResultsNext == TypeOK /\ ResultsInv /\ [Next]_vars => ResultsInv'
<1> SUFFICES ASSUME TypeOK, ResultsInv, [Next]_vars
             PROVE  ResultsInv'
  OBVIOUS
<1>1. ResultsKept => ResultsInv'
  BY DEF ResultsKept, ResultsInv
<1>2. UNCHANGED <<results, invariantRun>> => ResultsKept
  BY DEF ResultsKept
<1>3. CASE UNCHANGED vars
  BY <1>1, <1>2, <1>3 DEF vars, tables
<1>4. ASSUME NEW e \in Execution, Synchronize(e)
      PROVE  ResultsInv'
  <2>1. job[e] \in Run
    BY DEF TypeOK
  <2>2. CASE Commit(e)
    <3>1. \A r \in Run : r # job[e] =>
            results'[r] = results[r] /\ invariantRun'[r] = invariantRun[r]
      BY <2>2 DEF Commit, TypeOK
    <3>2. invariantRun'[job[e]] = "complete"
      BY <2>1, <2>2 DEF Commit, TypeOK
    <3> QED
      BY <3>1, <3>2 DEF ResultsInv
  <2>3. CASE StorePartial(e)
    <3>1. \A r \in Run : invariantRun[r] = "complete" => invariantRun'[r] = "complete"
      BY <2>1, <2>3 DEF StorePartial, TypeOK
    <3> QED
      BY <1>1, <2>3, <3>1 DEF StorePartial, ResultsKept
  <2>4. CASE StoreUnchecked(e)
    <3>1. \A r \in Run : "fail" \in results'[r] => "fail" \in results[r]
      BY <2>1, <2>4 DEF StoreUnchecked, TypeOK
    <3> QED
      BY <1>1, <2>4, <3>1 DEF StoreUnchecked, ResultsKept
  <2>5. CASE (\E r \in Run : Look(e, r)) \/ Begin(e) \/ Evaluate(e) \/ Project(e)
    BY <1>1, <1>2, <2>5 DEF Look, Begin, Evaluate, Project, tables
  <2>6. CASE \E s \in Source : PersistSource(e, s)
    BY <1>1, <1>2, <2>6 DEF PersistSource
  <2>7. CASE \E c \in Conflict : ResolveRow(e, c) \/ UpsertRow(e, c)
    BY <1>1, <1>2, <2>7 DEF ResolveRow, UpsertRow, tables
  <2>8. CASE BeginInvariants(e) \/ BeginUpsert(e)
    BY <1>1, <1>2, <2>8 DEF BeginInvariants, BeginUpsert, tables
  <2>9. CASE BeginCutover(e) \/ SwitchRow(e) \/ CommitCutover(e) \/ Finish(e)
    BY <1>1, <1>2, <2>9 DEF BeginCutover, SwitchRow, CommitCutover, Finish, tables
  <2>10. CASE Abort(e) \/ Throw(e) \/ Vanish(e) \/ Crash(e)
    BY <1>1, <1>2, <2>10 DEF Abort, Throw, Vanish, Crash, tables
  <2> QED
    BY <1>4, <2>2, <2>3, <2>4, <2>5, <2>6, <2>7, <2>8, <2>9, <2>10 DEF Synchronize
<1> QED
  BY <1>3, <1>4 DEF Next

\* Only Abort and Throw reject an execution.
LEMMA WhatRejects ==
  ASSUME TypeOK, ResultsInv, [Next]_vars,
         NEW e \in Execution, pc[e] = "evaluate", pc'[e] = "failed"
  PROVE  faults' > faults \/ invariantRun[job[e]] = "complete" \/ Deadlocked(e)
<1>1. ~UNCHANGED vars
  BY DEF vars, local
<1>2. PICK f \in Execution : Synchronize(f)
  BY <1>1 DEF Next
<1>3. faults \in Nat /\ job[e] \in Run
  BY Constants DEF TypeOK
<1>4. \A r \in Run : ~Look(f, r)
  BY DEF Look, Goto, TypeOK
<1>5. \A s \in Source : ~PersistSource(f, s)
  BY DEF PersistSource
<1>6. \A c \in Conflict : ~ResolveRow(f, c) /\ ~UpsertRow(f, c)
  BY DEF ResolveRow, UpsertRow
<1>7. ~Begin(f) /\ ~Evaluate(f) /\ ~Project(f) /\ ~BeginInvariants(f) /\ ~BeginUpsert(f)
  BY DEF Begin, Evaluate, Project, BeginInvariants, BeginUpsert, Goto, TypeOK
<1>8. /\ ~BeginCutover(f) /\ ~SwitchRow(f) /\ ~Commit(f) /\ ~CommitCutover(f)
      /\ ~StorePartial(f) /\ ~StoreUnchecked(f)
  BY DEF BeginCutover, SwitchRow, Commit, CommitCutover, StorePartial, StoreUnchecked, Goto, TypeOK
<1>9. ~Finish(f) /\ ~Vanish(f) /\ (Crash(f) => FALSE)
  BY DEF Finish, Vanish, Crash, Forget, Goto, TypeOK
<1>10. CASE Throw(f)
  BY <1>3, <1>10 DEF Throw, Fault
<1>11. CASE Abort(f)
  <2>1. f = e
    BY <1>11 DEF Abort, Goto, TypeOK
  <2>2. AlreadyStored(e) => invariantRun[job[e]] = "complete"
    BY <1>3 DEF AlreadyStored, ResultsInv
  <2> QED
    BY <1>3, <1>11, <2>1, <2>2 DEF Abort, Fault
<1> QED
  BY <1>2, <1>4, <1>5, <1>6, <1>7, <1>8, <1>9, <1>10, <1>11 DEF Synchronize

\* An execution that fails while it evaluates has met a fault, a duplicate of itself that
\* has stored the conflicts of the run, or a deadlock.
THEOREM DuplicatesAloneFail == Spec => OnlyDuplicatesFail
<1>1. Init => TypeOK /\ ResultsInv
  BY TypeInit, ResultsInit
<1>2. TypeOK /\ ResultsInv /\ [Next]_vars => TypeOK' /\ ResultsInv'
  BY TypeNext, ResultsNext
<1>3. TypeOK /\ ResultsInv /\ [Next]_vars =>
        [\A e \in Execution : pc[e] = "evaluate" /\ pc'[e] = "failed" =>
           \/ faults' > faults
           \/ invariantRun[job[e]] = "complete"
           \/ Deadlocked(e)]_vars
  BY WhatRejects
<1> QED
  BY <1>1, <1>2, <1>3, PTL DEF Spec, OnlyDuplicatesFail
=============================================================================
