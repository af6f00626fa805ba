---------------------------- MODULE SourcesProofs ----------------------------
(***************************************************************************)
(* Proofs about Setup and Sources, for every set of executions, releases,  *)
(* tenants and sync runs, and every size of the profiles and the batches.  *)
(***************************************************************************)
EXTENDS Sources, FiniteSetTheorems, TLAPS

\* The steps of init, without what the readers do.
readVars == <<exec, files, mirror, counts, starts, reads>>

LEMMA StepKinds ==
  ASSUME [Next]_vars
  PROVE  (SetupStep /\ UNCHANGED readVars) \/ UNCHANGED setupVars
BY DEF Next, vars, readVars, BeginSync, SelectRows, Abort, FailAttempt, Deliver, LoadFiles,
       FilesLoaded, FilesFail, AbortFiles, TakeFiles, Persist, CutOver, EndSync

-----------------------------------------------------------------------------
(* The executions of init.                                                 *)

Stage == {"check", "apply", "delete_enrollments", "delete_students", "students", "enrollments",
          "manifest", "tenant", "revoke", "grant", "done", "dead"}
Execution == [at : Stage, release : Release, file : Nat, gen : 1..Generations, row : Nat \ {0}]

Executions == init \in [Process -> Execution \cup {[at |-> "new"]}]

\* What an execution does to its own record.
LEMMA GotoKeeps ==
  ASSUME Executions, NEW i \in Process, init[i].at # "new", NEW label \in Stage,
         Goto(i, label)
  PROVE  /\ Executions'
         /\ init'[i].at = label
         /\ init'[i].release = init[i].release /\ init'[i].file = init[i].file
         /\ init'[i].gen = init[i].gen /\ init'[i].row = init[i].row
         /\ \A j \in Process \ {i} : init'[j] = init[j]
<1>1. init[i] \in Execution
  BY DEF Executions
<1>2. /\ [init[i] EXCEPT !.at = label] \in Execution
      /\ [init[i] EXCEPT !.at = label].at = label
      /\ [init[i] EXCEPT !.at = label].release = init[i].release
      /\ [init[i] EXCEPT !.at = label].file = init[i].file
      /\ [init[i] EXCEPT !.at = label].gen = init[i].gen
      /\ [init[i] EXCEPT !.at = label].row = init[i].row
  BY <1>1 DEF Execution
<1>3. init' = [init EXCEPT ![i] = [init[i] EXCEPT !.at = label]]
  BY DEF Goto
<1> QED
  BY <1>2, <1>3 DEF Executions

LEMMA NextFileKeeps ==
  ASSUME Executions, NEW i \in Process, init[i].at # "new", NextFile(i)
  PROVE  /\ Executions'
         /\ init'[i].at = IF init[i].file = Len(init[i].release.files)
                          THEN "delete_enrollments" ELSE "check"
         /\ init'[i].release = init[i].release /\ init'[i].file = init[i].file + 1
         /\ init'[i].gen = init[i].gen /\ init'[i].row = init[i].row
         /\ \A j \in Process \ {i} : init'[j] = init[j]
<1>1. init[i] \in Execution
  BY DEF Executions
<1>2. PICK n \in Nat : n = init[i].file + 1
  BY <1>1 DEF Execution
<1>3. PICK label \in Stage : label = IF init[i].file = Len(init[i].release.files)
                                    THEN "delete_enrollments" ELSE "check"
  BY DEF Stage
<1>4. PICK x \in Execution : x = [init[i] EXCEPT !.file = n]
  BY <1>1 DEF Execution
<1>5. x.file = n /\ x.release = init[i].release /\ x.gen = init[i].gen /\ x.row = init[i].row
  BY <1>1, <1>4 DEF Execution
<1>6. PICK y \in Execution : y = [x EXCEPT !.at = label]
  BY <1>4 DEF Execution
<1>7. /\ y.at = label /\ y.file = n /\ y.release = init[i].release
      /\ y.gen = init[i].gen /\ y.row = init[i].row
  BY <1>5, <1>6 DEF Execution
<1>8. init' = [init EXCEPT ![i] = y]
  BY <1>2, <1>3, <1>4, <1>6 DEF NextFile, Executions
<1> QED
  BY <1>2, <1>3, <1>7, <1>8 DEF Executions

LEMMA StartKeeps ==
  ASSUME Executions, NEW i \in Process, Start(i)
  PROVE  /\ Executions'
         /\ init'[i].at = "check" /\ init'[i].file = 1 /\ init'[i].release \in Release
         /\ init'[i].gen = 1 /\ init'[i].row = 1
         /\ \A j \in Process \ {i} : init'[j] = init[j]
<1>1. PICK r \in Release :
        init' = [init EXCEPT ![i] = [at |-> "check", release |-> r, file |-> 1, gen |-> 1, row |-> 1]]
  BY DEF Start
<1>2. 1 \in Nat \ {0} /\ 1 \in Nat /\ 1 \in 1..Generations
  BY SetupAssumption
<1>3. PICK x \in Execution : x = [at |-> "check", release |-> r, file |-> 1, gen |-> 1, row |-> 1]
  BY <1>2 DEF Execution, Stage
<1> QED
  BY <1>1, <1>3 DEF Executions

BatchEnd(i) == init[i].row + BatchSize - 1
Size(i, table) == Len(init[i].release[table])

\* Where a batch leaves its execution: within the table, or at the next one.
Moved(i) ==
  \/ /\ BatchEnd(i) < Size(i, init[i].at)
     /\ init'[i].at = init[i].at /\ init'[i].gen = init[i].gen /\ init'[i].row = BatchEnd(i) + 1
  \/ /\ BatchEnd(i) >= Size(i, init[i].at)
     /\ \/ /\ init[i].at = "students" /\ init'[i].at = "enrollments"
           /\ init'[i].gen = init[i].gen /\ init'[i].row = 1
        \/ /\ init[i].at = "enrollments" /\ init'[i].at = "students"
           /\ init'[i].gen = init[i].gen + 1 /\ init'[i].row = 1
        \/ /\ init[i].at = "enrollments" /\ init'[i].at = "manifest"
           /\ init[i].gen = Generations

LEMMA InsertKeeps ==
  ASSUME Executions, NEW i \in Process, InsertBatch(i)
  PROVE  /\ Executions'
         /\ init[i].at \in {"students", "enrollments"}
         /\ init'[i].at \in {"students", "enrollments", "manifest"}
         /\ init'[i].release = init[i].release
         /\ Moved(i)
         /\ \A j \in Process \ {i} : init'[j] = init[j]
<1>1. PICK table \in Table :
        /\ init[i].at = table
        /\ init' = [init EXCEPT ![i] = IF BatchEnd(i) >= Size(i, table) THEN AfterTable(i)
                                       ELSE [@ EXCEPT !.row = BatchEnd(i) + 1]]
  BY DEF InsertBatch, BatchEnd, Size
<1>2. init[i] \in Execution /\ init[i].at = table /\ table \in {"students", "enrollments"}
  BY <1>1 DEF Executions, Table
<1>3. BatchEnd(i) \in Nat /\ BatchEnd(i) + 1 \in Nat \ {0} /\ Size(i, table) \in Nat
  <2>1. init[i].release \in Release /\ init[i].row \in Nat \ {0}
    BY <1>2 DEF Execution
  <2>2. Size(i, table) \in Nat
    BY <1>1, <2>1, ProfileAssumption DEF Size
  <2> QED
    BY <2>1, <2>2, SetupAssumption DEF BatchEnd
<1>4. PICK last \in Nat : last = BatchEnd(i)
  BY <1>3
<1>5. PICK x : x = IF last >= Size(i, table) THEN AfterTable(i) ELSE [init[i] EXCEPT !.row = last + 1]
  OBVIOUS
<1>6. /\ x \in Execution /\ x.release = init[i].release
      /\ \/ last < Size(i, table) /\ x.at = table /\ x.gen = init[i].gen /\ x.row = last + 1
         \/ /\ last >= Size(i, table)
            /\ \/ table = "students" /\ x.at = "enrollments" /\ x.gen = init[i].gen /\ x.row = 1
               \/ table = "enrollments" /\ x.at = "students" /\ x.gen = init[i].gen + 1 /\ x.row = 1
               \/ table = "enrollments" /\ x.at = "manifest" /\ init[i].gen = Generations
  <2>1. CASE last < Size(i, table)
    <3>1. x = [init[i] EXCEPT !.row = last + 1]
      BY <1>3, <1>4, <1>5, <2>1
    <3>2. last + 1 \in Nat \ {0}
      BY <1>4
    <3>3. x \in Execution /\ x.release = init[i].release /\ x.at = table /\ x.gen = init[i].gen
          /\ x.row = last + 1
      BY <1>2, <3>1, <3>2 DEF Execution
    <3> QED
      BY <2>1, <3>3
  <2>2. CASE last >= Size(i, table) /\ table = "students"
    <3>1. x = [init[i] EXCEPT !.at = "enrollments", !.row = 1]
      BY <1>2, <1>5, <2>2 DEF AfterTable
    <3>2. PICK y \in Execution : y = [init[i] EXCEPT !.at = "enrollments"]
      BY <1>2 DEF Execution, Stage
    <3>3. y.release = init[i].release /\ y.at = "enrollments" /\ y.gen = init[i].gen
      BY <1>2, <3>2 DEF Execution
    <3>4. x = [y EXCEPT !.row = 1] /\ 1 \in Nat \ {0}
      BY <3>1, <3>2
    <3>5. /\ x \in Execution /\ x.release = init[i].release /\ x.at = "enrollments"
          /\ x.gen = init[i].gen /\ x.row = 1
      BY <3>2, <3>3, <3>4 DEF Execution
    <3> QED
      BY <2>2, <3>5
  <2>3. CASE last >= Size(i, table) /\ table = "enrollments" /\ init[i].gen < Generations
    <3>1. x = [init[i] EXCEPT !.at = "students", !.row = 1, !.gen = @ + 1]
      BY <1>2, <1>5, <2>3 DEF AfterTable
    <3>2. PICK y \in Execution : y = [init[i] EXCEPT !.at = "students"]
      BY <1>2 DEF Execution, Stage
    <3>3. y.release = init[i].release /\ y.at = "students" /\ y.gen = init[i].gen
      BY <1>2, <3>2 DEF Execution
    <3>4. PICK z \in Execution : z = [y EXCEPT !.row = 1]
      <4>1. 1 \in Nat \ {0}
        OBVIOUS
      <4> QED
        BY <3>2, <4>1 DEF Execution
    <3>5. z.release = init[i].release /\ z.at = "students" /\ z.gen = init[i].gen /\ z.row = 1
      BY <3>2, <3>3, <3>4 DEF Execution
    <3>6. PICK n \in 1..Generations : n = init[i].gen + 1
      BY <1>2, <2>3, SetupAssumption DEF Execution
    <3>7. x = [z EXCEPT !.gen = n]
      BY <3>1, <3>2, <3>4, <3>5, <3>6
    <3>8. /\ x \in Execution /\ x.release = init[i].release /\ x.at = "students"
          /\ x.gen = n /\ x.row = 1
      BY <3>4, <3>5, <3>7 DEF Execution
    <3> QED
      BY <2>3, <3>6, <3>8
  <2>4. CASE last >= Size(i, table) /\ table = "enrollments" /\ ~(init[i].gen < Generations)
    <3>1. x = [init[i] EXCEPT !.at = "manifest"]
      BY <1>2, <1>5, <2>4 DEF AfterTable
    <3>2. init[i].gen = Generations
      BY <1>2, <2>4, SetupAssumption DEF Execution
    <3>3. x \in Execution /\ x.release = init[i].release /\ x.at = "manifest"
      BY <1>2, <3>1 DEF Execution, Stage
    <3> QED
      BY <2>4, <3>2, <3>3
  <2> QED
    BY <1>2, <1>3, <2>1, <2>2, <2>3, <2>4
<1>7. init' = [init EXCEPT ![i] = x]
  BY <1>1, <1>4, <1>5
<1>8. init'[i] = x /\ Executions' /\ \A j \in Process \ {i} : init'[j] = init[j]
  BY <1>6, <1>7 DEF Executions
<1>9. Moved(i)
  BY <1>2, <1>4, <1>6, <1>8 DEF Moved
<1>10. x.at \in {"students", "enrollments", "manifest"}
  BY <1>2, <1>6
<1> QED
  BY <1>2, <1>6, <1>8, <1>9, <1>10

-----------------------------------------------------------------------------
(* The schema.                                                             *)

Migration == UNION {Range(r.files) : r \in Release}
Files(i) == init[i].release.files

\* The files an execution has gone past are recorded.
Ahead(i) ==
  /\ init[i].at \in {"check", "apply"} =>
       /\ init[i].file \in 1..Len(Files(i))
       /\ \A k \in 1..(init[i].file - 1) : Files(i)[k] \in recorded
  /\ init[i].at \notin {"new", "dead", "check", "apply"} =>
       \A k \in 1..Len(Files(i)) : Files(i)[k] \in recorded

SchemaInv ==
  /\ Executions
  /\ schema \in Seq(Migration)
  /\ recorded = Range(schema)
  /\ \A j, k \in DOMAIN schema : schema[j].version = schema[k].version => j = k
  /\ \A i \in Process : Ahead(i)

LEMMA FilesAreSequences ==
  ASSUME Executions, NEW i \in Process, init[i].at # "new"
  PROVE  /\ Files(i) \in Seq(Range(Files(i)))
         /\ Len(Files(i)) \in Nat /\ Len(Files(i)) >= 1 /\ DOMAIN Files(i) = 1..Len(Files(i))
         /\ \A k \in 1..Len(Files(i)) : Files(i)[k] \in Migration
<1>1. init[i].release \in Release
  BY DEF Executions, Execution
<1>2. Files(i) \in Seq(Range(Files(i))) /\ Files(i) # <<>>
  BY <1>1, SetupAssumption DEF Files
<1>3. /\ Len(Files(i)) \in Nat /\ Len(Files(i)) >= 1 /\ DOMAIN Files(i) = 1..Len(Files(i))
      /\ \A k \in 1..Len(Files(i)) : Files(i)[k] \in Range(Files(i))
  BY <1>2
<1>4. Range(Files(i)) \subseteq Migration
  BY <1>1 DEF Migration, Files
<1> QED
  BY <1>2, <1>3, <1>4

\* An execution that neither applies nor passes a file.
LEMMA Beside ==
  ASSUME SchemaInv, UNCHANGED <<schema, recorded>>, Executions', NEW i \in Process,
         \A j \in Process \ {i} : init'[j] = init[j],
         \/ init'[i].at = "dead"
         \/ /\ init'[i].release = init[i].release
            /\ \/ /\ init[i].at = "check" /\ init'[i].at = "apply"
                  /\ init'[i].file = init[i].file
               \/ /\ init[i].at \notin {"new", "dead", "check", "apply"}
                  /\ init'[i].at \notin {"new", "dead", "check", "apply"}
  PROVE  SchemaInv'
<1>1. Ahead(i)'
  BY DEF SchemaInv, Ahead, Files
<1>2. \A j \in Process \ {i} : Ahead(j)'
  BY DEF SchemaInv, Ahead, Files
<1> QED
  BY <1>1, <1>2 DEF SchemaInv

LEMMA FilePassed ==
  ASSUME SchemaInv, NEW i \in Process, init[i].at \in {"check", "apply"}, NextFile(i),
         recorded \subseteq recorded', File(i) \in recorded'
  PROVE  Executions' /\ \A j \in Process : Ahead(j)'
<1>1. /\ Executions'
      /\ init'[i].at = IF init[i].file = Len(Files(i)) THEN "delete_enrollments" ELSE "check"
      /\ Files(i)' = Files(i) /\ init'[i].file = init[i].file + 1
      /\ \A j \in Process \ {i} : init'[j] = init[j]
  BY NextFileKeeps DEF SchemaInv, Files
<1>2. /\ Len(Files(i)) \in Nat /\ init[i].file \in 1..Len(Files(i))
      /\ \A k \in 1..(init[i].file - 1) : Files(i)[k] \in recorded
      /\ Files(i)[init[i].file] \in recorded'
  BY FilesAreSequences DEF SchemaInv, Ahead, File, Files
<1>3. \A k \in 1..init[i].file : Files(i)[k] \in recorded'
  BY <1>2
<1>4. Ahead(i)'
  BY <1>1, <1>2, <1>3 DEF Ahead
<1>5. ASSUME NEW j \in Process \ {i} PROVE Ahead(j)'
  BY <1>1 DEF SchemaInv, Ahead, Files
<1> QED
  BY <1>1, <1>4, <1>5

LEMMA ApplyPreserves ==
  ASSUME SchemaInv, NEW i \in Process, ApplyFile(i)
  PROVE  SchemaInv'
<1>1. init[i].at = "apply" /\ Executions
  BY DEF ApplyFile, SchemaInv
<1>2. CASE \E m \in recorded : m.version = File(i).version
  <2>1. Goto(i, "dead") /\ UNCHANGED <<schema, recorded>>
    BY <1>2 DEF ApplyFile
  <2> QED
    BY <1>1, <2>1, GotoKeeps, Beside DEF Stage
<1>3. CASE ~\E m \in recorded : m.version = File(i).version
  <2>1. /\ schema' = Append(schema, File(i)) /\ recorded' = recorded \cup {File(i)}
        /\ NextFile(i)
    BY <1>3 DEF ApplyFile
  <2>2. Executions' /\ \A j \in Process : Ahead(j)'
    BY <1>1, <2>1, FilePassed
  <2>3. File(i) \in Migration /\ schema \in Seq(Migration)
    BY <1>1, FilesAreSequences DEF SchemaInv, Ahead, File, Files
  <2>4. /\ schema' \in Seq(Migration) /\ DOMAIN schema' = 1..(Len(schema) + 1)
        /\ DOMAIN schema = 1..Len(schema) /\ Len(schema) \in Nat
        /\ schema'[Len(schema) + 1] = File(i)
        /\ \A k \in 1..Len(schema) : schema'[k] = schema[k]
    BY <2>1, <2>3
  <2>5. recorded' = Range(schema)'
    BY <2>1, <2>4 DEF SchemaInv, Range
  <2>6. \A k \in 1..Len(schema) : schema[k].version # File(i).version
    BY <1>3, <2>4 DEF SchemaInv, Range
  <2>7. \A j, k \in DOMAIN schema' : schema'[j].version = schema'[k].version => j = k
    BY <2>4, <2>6 DEF SchemaInv
  <2> QED
    BY <2>2, <2>4, <2>5, <2>7 DEF SchemaInv
<1> QED
  BY <1>2, <1>3

LEMMA CheckPreserves ==
  ASSUME SchemaInv, NEW i \in Process, CheckFile(i)
  PROVE  SchemaInv'
<1> DEFINE known == {m \in recorded : m.version = File(i).version}
<1>1. init[i].at = "check" /\ Executions /\ UNCHANGED <<schema, recorded>>
  BY DEF CheckFile, SchemaInv
<1>2. \/ Goto(i, "apply")
      \/ known = {File(i)} /\ NextFile(i)
      \/ Goto(i, "dead")
  BY DEF CheckFile
<1>3. CASE Goto(i, "apply") \/ Goto(i, "dead")
  BY <1>1, <1>3, GotoKeeps, Beside DEF Stage
<1>4. CASE known = {File(i)} /\ NextFile(i)
  <2>1. File(i) \in recorded'
    BY <1>1, <1>4
  <2> QED
    BY <1>1, <1>4, <2>1, FilePassed DEF SchemaInv
<1> QED
  BY <1>2, <1>3, <1>4

LEMMA SchemaPreserved ==
  ASSUME SchemaInv, [Next]_vars
  PROVE  SchemaInv'
<1>1. CASE UNCHANGED setupVars
  BY <1>1 DEF SchemaInv, Executions, Ahead, Files, setupVars
<1>2. CASE SetupStep
  <2>1. Executions
    BY DEF SchemaInv
  <2>2. ASSUME NEW i \in Process, Start(i) PROVE SchemaInv'
    <3>1. UNCHANGED <<schema, recorded>>
      BY <2>2 DEF Start
    <3>2. /\ Executions' /\ init'[i].at = "check" /\ init'[i].file = 1
          /\ \A j \in Process \ {i} : init'[j] = init[j]
      BY <2>1, <2>2, StartKeeps
    <3>3. Len(Files(i)') \in Nat /\ Len(Files(i)') >= 1
      BY <2>1, <2>2, StartKeeps, SetupAssumption DEF Files
    <3>4. Ahead(i)'
      BY <3>2, <3>3 DEF Ahead
    <3>5. \A j \in Process \ {i} : Ahead(j)'
      BY <3>1, <3>2 DEF SchemaInv, Ahead, Files
    <3> QED
      BY <3>1, <3>2, <3>4, <3>5 DEF SchemaInv
  <2>3. ASSUME NEW i \in Process, InsertBatch(i) PROVE SchemaInv'
    <3>1. UNCHANGED <<schema, recorded>>
      BY <2>3 DEF InsertBatch, Loading
    <3> QED
      BY <2>1, <2>3, <3>1, InsertKeeps, Beside
  <2>4. ASSUME NEW i \in Process,
               DeleteRows(i) \/ WriteManifest(i) \/ EstablishDemoTenant(i) \/ Revoke(i) \/ Grant(i)
                 \/ Die(i)
        PROVE  SchemaInv'
    <3>1. UNCHANGED <<schema, recorded>>
      BY <2>4 DEF DeleteRows, WriteManifest, EstablishDemoTenant, Revoke, Grant, Die, Loading
    <3>2. PICK label \in Stage :
            /\ Goto(i, label) /\ init[i].at # "new"
            /\ \/ label = "dead"
               \/ init[i].at \notin {"dead", "check", "apply"} /\ label \notin {"check", "apply"}
      BY <2>4 DEF DeleteRows, Deleting, WriteManifest, EstablishDemoTenant, Revoke, Grant, Die, Stage, Table
    <3> QED
      BY <2>1, <3>1, <3>2, GotoKeeps, Beside DEF Stage
  <2> QED
    BY <1>2, <2>2, <2>3, <2>4, ApplyPreserves, CheckPreserves DEF SetupStep
<1> QED
  BY <1>1, <1>2, StepKinds

LEMMA SchemaAtFirst ==
  ASSUME Init
  PROVE  SchemaInv
<1>1. init = [i \in Process |-> [at |-> "new"]] /\ schema = <<>> /\ recorded = {}
  BY DEF Init, InitSetup
<1>2. Executions /\ \A i \in Process : Ahead(i)
  BY <1>1 DEF Executions, Ahead
<1> QED
  BY <1>1, <1>2 DEF SchemaInv, Range

LEMMA SchemaIsEnough ==
  ASSUME SchemaInv
  PROVE  SchemaIsRecorded
<1>1. ASSUME NEW i \in Process PROVE Passed(i) \subseteq recorded
  <2>1. CASE init[i].at \in {"new", "dead"}
    BY <2>1 DEF Passed
  <2>2. CASE init[i].at \in {"check", "apply"}
    <3>1. /\ init[i].file \in 1..Len(Files(i))
          /\ \A k \in 1..(init[i].file - 1) : Files(i)[k] \in recorded
      BY <2>2 DEF SchemaInv, Ahead
    <3>2. Files(i) \in Seq(Range(Files(i))) /\ Len(Files(i)) \in Nat
      BY <2>2, FilesAreSequences DEF SchemaInv
    <3>3. PICK n \in Nat : n = init[i].file - 1 /\ n <= Len(Files(i))
      BY <3>1, <3>2
    <3>4. \A x \in Range(SubSeq(Files(i), 1, n)) : \E k \in 1..n : x = Files(i)[k]
      BY <3>2, <3>3 DEF Range
    <3>5. Passed(i) = Range(SubSeq(Files(i), 1, n))
      BY <2>2, <3>3 DEF Passed, Files
    <3> QED
      BY <3>1, <3>3, <3>4, <3>5
  <2>3. CASE init[i].at \notin {"new", "dead", "check", "apply"}
    <3>1. \A k \in 1..Len(Files(i)) : Files(i)[k] \in recorded
      BY <2>3 DEF SchemaInv, Ahead
    <3>2. DOMAIN Files(i) = 1..Len(Files(i))
      BY <2>3, FilesAreSequences DEF SchemaInv
    <3>3. Passed(i) = Range(Files(i))
      BY <2>3 DEF Passed, Files
    <3> QED
      BY <3>1, <3>2, <3>3 DEF Range
  <2> QED
    BY <2>1, <2>2, <2>3
<1> QED
  BY <1>1 DEF SchemaInv, SchemaIsRecorded

LEMMA SchemaAlways == Spec => []SchemaInv
<1>1. Init => SchemaInv
  BY SchemaAtFirst
<1>2. SchemaInv /\ [Next]_vars => SchemaInv'
  BY SchemaPreserved
<1> QED
  BY <1>1, <1>2, PTL DEF Spec

\* schema_migrations tells what the schema is, and no execution gets to the fixtures over
\* other files than it holds, for any number of executions and releases.
THEOREM MigrationsAreRecorded == Spec => []SchemaIsRecorded
<1>1. SchemaInv => SchemaIsRecorded
  BY SchemaIsEnough
<1> QED
  BY <1>1, SchemaAlways, PTL

-----------------------------------------------------------------------------
(* The demo key.                                                           *)

TenantRow == [slug : SUBSET {r.slug : r \in Release}, client : SUBSET {r.client : r \in Release}]

\* What the unique key of the client hash says.
KeyInv ==
  /\ tenants \in [Tenant -> TenantRow]
  /\ \A t, u \in Tenant : tenants[t].client = tenants[u].client /\ tenants[t].client # {} => t = u

\* Only the transaction of the demo tenant changes tenants.
LEMMA TenantSteps ==
  ASSUME Executions, [Next]_vars
  PROVE  tenants' = tenants \/ \E q \in Release : tenants' = Assigned(q)
<1>1. CASE UNCHANGED setupVars
  BY <1>1 DEF setupVars
<1>2. ASSUME NEW i \in Process, EstablishDemoTenant(i)
      PROVE  tenants' = tenants \/ \E q \in Release : tenants' = Assigned(q)
  <2>1. init[i].release \in Release
    BY <1>2 DEF EstablishDemoTenant, Executions, Execution
  <2> QED
    BY <1>2, <2>1 DEF EstablishDemoTenant
<1>3. CASE SetupStep
  <2>1. (\E i \in Process : EstablishDemoTenant(i)) \/ tenants' = tenants
    BY <1>3 DEF SetupStep, Start, CheckFile, ApplyFile, DeleteRows, InsertBatch, WriteManifest,
                Loading, Revoke, Grant, Die
  <2> QED
    BY <1>2, <2>1
<1> QED
  BY <1>1, <1>3, StepKinds

LEMMA AssignedRows ==
  ASSUME KeyInv, NEW q \in Release, tenants' = Assigned(q)
  PROVE  /\ tenants' \in [Tenant -> TenantRow]
         /\ q.tenant \in Tenant /\ tenants'[q.tenant].client = {q.client}
         /\ \A t \in Tenant \ {q.tenant} :
              tenants'[t].client = IF tenants[t].client = {q.client} THEN {} ELSE tenants[t].client
<1>1. q.tenant \in Tenant
  BY SetupAssumption
<1>2. PICK row \in TenantRow : row = [slug |-> {q.slug}, client |-> {q.client}]
  BY DEF TenantRow
<1>3. ASSUME NEW t \in Tenant
      PROVE  /\ [tenants[t] EXCEPT !.client = {}] \in TenantRow
             /\ [tenants[t] EXCEPT !.client = {}].client = {}
  BY DEF KeyInv, TenantRow
<1>4. tenants' = [t \in Tenant |-> IF t = q.tenant THEN row
                                   ELSE IF tenants[t].client = {q.client}
                                   THEN [tenants[t] EXCEPT !.client = {}]
                                   ELSE tenants[t]]
  BY <1>2 DEF Assigned, Aliases
<1>5. row.client = {q.client}
  BY <1>2
<1>6. tenants' \in [Tenant -> TenantRow]
  BY <1>3, <1>4 DEF KeyInv
<1> QED
  BY <1>1, <1>3, <1>4, <1>5, <1>6

LEMMA KeyPreserved ==
  ASSUME KeyInv, Executions, [Next]_vars
  PROVE  KeyInv'
<1>1. CASE tenants' = tenants
  BY <1>1 DEF KeyInv
<1>2. ASSUME NEW q \in Release, tenants' = Assigned(q) PROVE KeyInv'
  BY <1>2, AssignedRows DEF KeyInv
<1> QED
  BY <1>1, <1>2, TenantSteps

LEMMA KeyIsHeldByOne ==
  ASSUME KeyInv, Executions, [Next]_vars, NEW r \in Release, Holders(tenants, r.client) # {}
  PROVE  \/ Cardinality(Holders(tenants', r.client)) = 1
         \/ \E t \in Holders(tenants, r.client) : tenants'[t].client \notin {{}, {r.client}}
<1>1. PICK h \in Tenant : tenants[h].client = {r.client}
  BY DEF Holders
<1>2. \A t \in Tenant : tenants[t].client = {r.client} => t = h
  BY <1>1 DEF KeyInv
<1>3. ASSUME NEW g \in Tenant, \A t \in Tenant : tenants'[t].client = {r.client} <=> t = g
      PROVE  Cardinality(Holders(tenants', r.client)) = 1
  <2>1. Holders(tenants', r.client) = {g}
    BY <1>3 DEF Holders
  <2> QED
    BY <2>1, FS_Singleton
<1>4. CASE tenants' = tenants
  BY <1>1, <1>2, <1>3, <1>4
<1>5. ASSUME NEW q \in Release, tenants' = Assigned(q)
      PROVE  \/ Cardinality(Holders(tenants', r.client)) = 1
             \/ \E t \in Holders(tenants, r.client) : tenants'[t].client \notin {{}, {r.client}}
  <2>1. CASE q.client = r.client
    <3>1. \A t \in Tenant : tenants'[t].client = {r.client} <=> t = q.tenant
      BY <1>5, <2>1, AssignedRows
    <3> QED
      BY <1>3, <1>5, <3>1, AssignedRows
  <2>2. CASE q.client # r.client /\ h = q.tenant
    <3>1. tenants'[h].client = {q.client} /\ h \in Holders(tenants, r.client)
      BY <1>1, <1>5, <2>2, AssignedRows DEF Holders
    <3> QED
      BY <2>2, <3>1
  <2>3. CASE q.client # r.client /\ h # q.tenant
    <3>1. \A t \in Tenant : tenants'[t].client = {r.client} <=> t = h
      BY <1>1, <1>2, <1>5, <2>3, AssignedRows
    <3> QED
      BY <1>3, <3>1
  <2> QED
    BY <2>1, <2>2, <2>3
<1> QED
  BY <1>4, <1>5, TenantSteps

\* The demo key names one tenant all the while: between a tenant and its successor there is
\* no moment with none and none with two.
THEOREM KeyStaysKept == Spec => KeyIsKept
<1>1. Init => KeyInv
  BY DEF Init, InitSetup, KeyInv, TenantRow
<1>2. KeyInv /\ SchemaInv /\ [Next]_vars => KeyInv'
  BY KeyPreserved DEF SchemaInv
<1>3. KeyInv /\ SchemaInv /\ [Next]_vars =>
        [\A r \in Release : Holders(tenants, r.client) # {} =>
           \/ Cardinality(Holders(tenants', r.client)) = 1
           \/ \E t \in Holders(tenants, r.client) : tenants'[t].client \notin {{}, {r.client}}]_setupVars
  BY KeyIsHeldByOne DEF SchemaInv
<1> QED
  BY <1>1, <1>2, <1>3, SchemaAlways, PTL DEF Spec, KeyIsKept

-----------------------------------------------------------------------------
(* What a run has stored.                                                  *)

\* The fields of an execution at work.
Shaped(e) ==
  e = [at |-> e.at, run |-> e.run, gen |-> e.gen, fault |-> e.fault, attempt |-> e.attempt,
       aborted |-> e.aborted, asked |-> e.asked, saw |-> e.saw, steady |-> e.steady]

Held(rows, held) == \A x \in rows : \E y \in held : x.id = y.id

\* A run that stored one snapshot only has that one, and whatever it read has its records.
MirrorInv ==
  /\ exec.at # "idle" => Shaped(exec) /\ exec.run \in Run
  /\ exec.at = "persisted" => Snapshot \in reads[exec.run]
  /\ mirror = [r \in Run |-> mirror[r]] /\ reads = [r \in Run |-> reads[r]]
  /\ \A r \in Run :
       /\ IsFiniteSet(reads[r])
       /\ \A S \in reads[r] : Held(S, mirror[r])
       /\ reads[r] = {} => mirror[r] = {}
       /\ \A S \in reads[r] : reads[r] = {S} => mirror[r] = S
  /\ counts.run \subseteq Run
  /\ \A r \in counts.run : counts.rows \in reads[r]

\* A step of the reader that neither stores nor cuts over.
LEMMA ReaderKeeps ==
  ASSUME MirrorInv, UNCHANGED <<mirror, counts, reads>>,
         exec'.at # "idle" => Shaped(exec)' /\ exec'.run \in Run,
         exec'.at # "persisted" \/ exec' = exec
  PROVE  MirrorInv'
<1>1. exec'.at = "persisted" => Snapshot' \in reads'[exec'.run]
  <2>1. CASE exec' = exec
    BY <2>1 DEF MirrorInv, Snapshot
  <2>2. CASE exec'.at # "persisted"
    BY <2>2
  <2> QED
    BY <2>1, <2>2
<1> QED
  BY <1>1 DEF MirrorInv

LEMMA ReadingPreserves ==
  ASSUME MirrorInv,
         \/ \E r \in Run : BeginSync(r)
         \/ \E t \in Table : SelectRows(t)
         \/ Abort \/ FailAttempt \/ Deliver \/ EndSync
  PROVE  MirrorInv'
<1>1. ASSUME NEW r \in Run, BeginSync(r) PROVE MirrorInv'
  <2>1. PICK gen \in 1..Generations, fault \in Fault :
          exec' = [at |-> "reading", run |-> r, gen |-> gen, fault |-> fault, attempt |-> 0,
                   aborted |-> FALSE, asked |-> Pending, saw |-> {}, steady |-> FALSE]
    BY <1>1 DEF BeginSync
  <2>2. UNCHANGED <<mirror, counts, reads>>
    BY <1>1 DEF BeginSync
  <2> QED
    BY <2>1, <2>2, ReaderKeeps DEF Shaped
<1>2. ASSUME NEW t \in Table, SelectRows(t) PROVE MirrorInv'
  <2>1. Shaped(exec) /\ exec.run \in Run /\ exec.at = "reading"
    BY <1>2 DEF SelectRows, MirrorInv
  <2>2. PICK asked, saw, steady :
          exec' = [exec EXCEPT !.asked = asked, !.saw = saw, !.steady = steady]
    BY <1>2 DEF SelectRows
  <2>3. Shaped(exec)' /\ exec'.run = exec.run /\ exec'.at = exec.at
    BY <2>1, <2>2 DEF Shaped
  <2>4. UNCHANGED <<mirror, counts, reads>>
    BY <1>2 DEF SelectRows
  <2> QED
    BY <2>1, <2>3, <2>4, ReaderKeeps
<1>3. CASE Abort
  <2>1. Shaped(exec) /\ exec.run \in Run /\ exec.at = "reading"
    BY <1>3 DEF Abort, MirrorInv
  <2>2. exec' = [exec EXCEPT !.aborted = TRUE] /\ UNCHANGED <<mirror, counts, reads>>
    BY <1>3 DEF Abort
  <2>3. Shaped(exec)' /\ exec'.run = exec.run /\ exec'.at = exec.at
    BY <2>1, <2>2 DEF Shaped
  <2> QED
    BY <2>1, <2>2, <2>3, ReaderKeeps
<1>4. CASE FailAttempt
  <2>1. Shaped(exec) /\ exec.run \in Run /\ exec.at = "reading"
    BY <1>4 DEF FailAttempt, MirrorInv
  <2>2. exec' = Again \/ exec' = [exec EXCEPT !.at = "failed"]
    BY <1>4 DEF FailAttempt
  <2>3. Shaped(exec)' /\ exec'.run = exec.run /\ exec'.at \in {"reading", "failed"}
    BY <2>1, <2>2 DEF Shaped, Again
  <2>4. UNCHANGED <<mirror, counts, reads>>
    BY <1>4 DEF FailAttempt
  <2> QED
    BY <2>1, <2>3, <2>4, ReaderKeeps
<1>5. CASE Deliver
  <2>1. Shaped(exec) /\ exec.run \in Run /\ exec.at = "reading"
    BY <1>5 DEF Deliver, MirrorInv
  <2>2. PICK label \in {"partial", "complete"} : exec' = [exec EXCEPT !.at = label]
    BY <1>5 DEF Deliver
  <2>3. Shaped(exec)' /\ exec'.run = exec.run /\ exec'.at = label
    BY <2>1, <2>2 DEF Shaped
  <2>4. UNCHANGED <<mirror, counts, reads>>
    BY <1>5 DEF Deliver
  <2> QED
    BY <2>1, <2>3, <2>4, ReaderKeeps
<1>6. CASE EndSync
  <2>1. exec'.at = "idle" /\ UNCHANGED <<mirror, counts, reads>>
    BY <1>6 DEF EndSync, Idle
  <2> QED
    BY <2>1, ReaderKeeps
<1> QED
  BY <1>1, <1>2, <1>3, <1>4, <1>5, <1>6

\* The same snapshot again adds nothing, another one makes two.
LEMMA PersistPreserves ==
  ASSUME MirrorInv, Persist
  PROVE  MirrorInv'
<1> DEFINE run == exec.run
           rows == Snapshot
<1>1. Shaped(exec) /\ run \in Run /\ exec.at = "complete"
  BY DEF Persist, MirrorInv
<1>2. /\ mirror' = [mirror EXCEPT ![run] = @ \cup New(rows, @)]
      /\ reads' = [reads EXCEPT ![run] = @ \cup {rows}]
      /\ exec' = [exec EXCEPT !.at = "persisted"]
      /\ counts' = counts
  BY DEF Persist, Mirrored
<1>3. Shaped(exec)' /\ exec'.run = run /\ exec'.asked = exec.asked
  BY <1>1, <1>2 DEF Shaped
<1>4. Snapshot' = rows
  BY <1>3 DEF Snapshot
<1> HIDE DEF run, rows
<1>5. /\ mirror' = [r \in Run |-> mirror'[r]] /\ reads' = [r \in Run |-> reads'[r]]
      /\ mirror'[run] = mirror[run] \cup New(rows, mirror[run])
      /\ reads'[run] = reads[run] \cup {rows}
      /\ \A r \in Run \ {run} : mirror'[r] = mirror[r] /\ reads'[r] = reads[r]
  BY <1>1, <1>2 DEF MirrorInv
<1>6. IsFiniteSet(reads'[run])
  BY <1>1, <1>5, FS_AddElement DEF MirrorInv
<1>7. \A S \in reads'[run] : Held(S, mirror'[run])
  <2>1. Held(rows, mirror'[run])
    BY <1>5 DEF Held, New
  <2>2. \A S \in reads[run] : Held(S, mirror'[run])
    BY <1>1, <1>5 DEF Held, MirrorInv
  <2> QED
    BY <1>5, <2>1, <2>2
<1>8. \A S \in reads'[run] : reads'[run] = {S} => mirror'[run] = S
  <2> SUFFICES ASSUME reads'[run] = {rows} PROVE mirror'[run] = rows
    BY <1>5
  <2>1. CASE reads[run] = {}
    BY <1>1, <1>5, <2>1 DEF MirrorInv, New
  <2>2. CASE reads[run] = {rows}
    <3>1. mirror[run] = rows
      BY <1>1, <2>2 DEF MirrorInv
    <3>2. New(rows, rows) = {}
      BY DEF New
    <3> QED
      BY <1>5, <3>1, <3>2
  <2> QED
    BY <1>5, <2>1, <2>2
<1>9. \A r \in counts'.run : counts'.rows \in reads'[r]
  BY <1>2, <1>5 DEF MirrorInv
<1>10. \A r \in Run :
         /\ IsFiniteSet(reads'[r])
         /\ \A S \in reads'[r] : Held(S, mirror'[r])
         /\ reads'[r] = {} => mirror'[r] = {}
         /\ \A S \in reads'[r] : reads'[r] = {S} => mirror'[r] = S
  BY <1>5, <1>6, <1>7, <1>8 DEF MirrorInv
<1>11. exec'.run \in Run /\ Snapshot' \in reads'[exec'.run]
  BY <1>1, <1>3, <1>4, <1>5
<1>12. counts'.run \subseteq Run
  BY <1>2 DEF MirrorInv
<1> QED
  BY <1>3, <1>5, <1>9, <1>10, <1>11, <1>12 DEF MirrorInv

LEMMA CutOverPreserves ==
  ASSUME MirrorInv, CutOver
  PROVE  MirrorInv'
<1>1. /\ exec.at = "persisted" /\ exec' = Idle /\ UNCHANGED <<mirror, reads>>
      /\ counts'.run = {exec.run} /\ counts'.rows = Snapshot
  BY DEF CutOver
<1>2. exec'.at = "idle"
  BY <1>1 DEF Idle
<1>3. exec.run \in Run /\ Snapshot \in reads[exec.run]
  BY <1>1 DEF MirrorInv
<1> QED
  BY <1>1, <1>2, <1>3 DEF MirrorInv

LEMMA MirrorPreserved ==
  ASSUME MirrorInv, [Next]_vars
  PROVE  MirrorInv'
<1>1. CASE UNCHANGED <<exec, mirror, counts, reads>>
  BY <1>1 DEF MirrorInv, Snapshot
<1>2. \/ UNCHANGED <<exec, mirror, counts, reads>>
      \/ \E r \in Run : BeginSync(r)
      \/ \E t \in Table : SelectRows(t)
      \/ Abort \/ FailAttempt \/ Deliver \/ EndSync
      \/ Persist \/ CutOver
  BY DEF Next, vars, LoadFiles, FilesLoaded, FilesFail, AbortFiles, TakeFiles
<1> QED
  BY <1>1, <1>2, ReadingPreserves, PersistPreserves, CutOverPreserves

\* The records of the active run are those it was evaluated on, unless an execution of the
\* same run before it had read something else.
THEOREM MirrorStaysEvaluated == Spec => []MirrorIsEvaluated
<1>1. Init => MirrorInv
  <2>1. ASSUME Init PROVE MirrorInv
    <3>1. /\ exec.at = "idle" /\ counts.run = {}
          /\ mirror = [r \in Run |-> {}] /\ reads = [r \in Run |-> {}]
      BY <2>1 DEF Init, Idle
    <3> QED
      BY <3>1, FS_EmptySet DEF MirrorInv
  <2> QED
    BY <2>1
<1>2. MirrorInv /\ [Next]_vars => MirrorInv'
  BY MirrorPreserved
<1>3. MirrorInv => MirrorIsEvaluated
  <2>1. ASSUME MirrorInv, NEW r \in counts.run, mirror[r] # counts.rows
        PROVE  Cardinality(reads[r]) > 1
    <3>1. r \in Run /\ counts.rows \in reads[r] /\ IsFiniteSet(reads[r]) /\ reads[r] # {counts.rows}
      BY <2>1 DEF MirrorInv
    <3>2. PICK S \in reads[r] : S # counts.rows
      BY <3>1
    <3>3. Cardinality({S} \cup {counts.rows}) = 2
      <4>1. IsFiniteSet({S}) /\ Cardinality({S}) = 1 /\ counts.rows \notin {S}
        BY <3>2, FS_Singleton
      <4>2. Cardinality({S} \cup {counts.rows}) = Cardinality({S}) + 1
        BY <4>1, FS_AddElement
      <4> QED
        BY <4>1, <4>2
    <3>4. {S} \cup {counts.rows} \subseteq reads[r]
      BY <3>1, <3>2
    <3>5. Cardinality(reads[r]) \in Nat /\ 2 <= Cardinality(reads[r])
      BY <3>1, <3>3, <3>4, FS_Subset, FS_CardinalityType
    <3> QED
      BY <3>5
  <2> QED
    BY <2>1 DEF MirrorInv, MirrorIsEvaluated, Held
<1> QED
  BY <1>1, <1>2, <1>3, PTL DEF Spec

-----------------------------------------------------------------------------
(* The rows of a profile.                                                  *)

RowOf(r, table, g, k) ==
  [gen |-> g, id |-> r[table][k].id, student |-> r[table][k].student, payload |-> r.name]

\* The rows of the generations before g, and those of g before row n.
Before(r, table, g, n) ==
  {x \in Profile(r, table) :
     \E h \in 1..Generations, k \in DOMAIN r[table] :
       x = RowOf(r, table, h, k) /\ (h < g \/ (h = g /\ k < n))}

Batch(r, table, g, n) == {Rows(r, table, g)[k] : k \in DOMAIN Rows(r, table, g) \cap n..(n + BatchSize - 1)}

LEMMA RowsOfProfile ==
  ASSUME NEW r \in Release, NEW table \in Table
  PROVE  /\ \A g : /\ DOMAIN Rows(r, table, g) = DOMAIN r[table]
                   /\ \A k \in DOMAIN r[table] : Rows(r, table, g)[k] = RowOf(r, table, g, k)
         /\ \A g, x : x \in Range(Rows(r, table, g)) <=>
              \E k \in DOMAIN r[table] : x = RowOf(r, table, g, k)
         /\ \A x : x \in Profile(r, table) <=>
              \E h \in 1..Generations, k \in DOMAIN r[table] : x = RowOf(r, table, h, k)
         /\ DOMAIN r[table] = 1..Len(r[table]) /\ Len(r[table]) \in Nat
<1>1. \A g : /\ DOMAIN Rows(r, table, g) = DOMAIN r[table]
             /\ \A k \in DOMAIN r[table] : Rows(r, table, g)[k] = RowOf(r, table, g, k)
  BY DEF Rows, RowOf
<1>2. \A g, x : x \in Range(Rows(r, table, g)) <=> \E k \in DOMAIN r[table] : x = RowOf(r, table, g, k)
  BY <1>1 DEF Range
<1>3. \A x : x \in Profile(r, table) <=> \E h \in 1..Generations : x \in Range(Rows(r, table, h))
  BY DEF Profile
<1>4. r[table] \in Seq(Range(r[table]))
  BY ProfileAssumption
<1>5. DOMAIN r[table] = 1..Len(r[table]) /\ Len(r[table]) \in Nat
  BY <1>4
<1> QED
  BY <1>1, <1>2, <1>3, <1>5

LEMMA InBefore ==
  ASSUME NEW r \in Release, NEW table \in Table, NEW g, NEW n, NEW x
  PROVE  x \in Before(r, table, g, n) <=>
           \E h \in 1..Generations, k \in DOMAIN r[table] :
             x = RowOf(r, table, h, k) /\ (h < g \/ (h = g /\ k < n))
BY RowsOfProfile DEF Before

LEMMA RowsDiffer ==
  ASSUME NEW r \in Release, NEW table \in Table, NEW g, NEW h,
         NEW j \in DOMAIN r[table], NEW k \in DOMAIN r[table],
         RowOf(r, table, g, j).gen = RowOf(r, table, h, k).gen,
         RowOf(r, table, g, j).id = RowOf(r, table, h, k).id
  PROVE  g = h /\ j = k
<1>1. g = h /\ r[table][j].id = r[table][k].id
  BY DEF RowOf
<1> QED
  BY <1>1, ProfileAssumption

\* A batch replaces nothing and is the next piece of the profile.
LEMMA BatchExtends ==
  ASSUME NEW r \in Release, NEW table \in Table, NEW g \in 1..Generations, NEW n \in Nat \ {0}
  PROVE  Upsert(Before(r, table, g, n), Batch(r, table, g, n)) = Before(r, table, g, n + BatchSize)
<1> DEFINE old == Before(r, table, g, n)
           new == Batch(r, table, g, n)
<1>1. BatchSize \in Nat \ {0} /\ DOMAIN r[table] \subseteq Nat /\ Generations \in Nat
  BY RowsOfProfile, SetupAssumption
<1>2. \A x : x \in new <=> \E k \in DOMAIN r[table] : n <= k /\ k < n + BatchSize /\ x = RowOf(r, table, g, k)
  BY <1>1, RowsOfProfile DEF Batch
<1>3. \A x : x \in old <=> \E h \in 1..Generations, k \in DOMAIN r[table] :
                             x = RowOf(r, table, h, k) /\ (h < g \/ (h = g /\ k < n))
  BY InBefore
<1>4. \A x : x \in Before(r, table, g, n + BatchSize) <=>
               \E h \in 1..Generations, k \in DOMAIN r[table] :
                 x = RowOf(r, table, h, k) /\ (h < g \/ (h = g /\ k < n + BatchSize))
  BY InBefore
<1> HIDE DEF old, new
<1>5. ASSUME NEW x \in old, NEW y \in new, x.gen = y.gen, x.id = y.id PROVE FALSE
  <2>1. PICK h \in 1..Generations : \E k \in DOMAIN r[table] :
          x = RowOf(r, table, h, k) /\ (h < g \/ (h = g /\ k < n))
    BY <1>3
  <2>2. PICK k \in DOMAIN r[table] : x = RowOf(r, table, h, k) /\ (h < g \/ (h = g /\ k < n))
    BY <2>1
  <2>3. PICK j \in DOMAIN r[table] : n <= j /\ y = RowOf(r, table, g, j)
    BY <1>2
  <2>4. h = g /\ k = j
    BY <1>5, <2>2, <2>3, RowsDiffer
  <2> QED
    BY <1>1, <2>2, <2>3, <2>4
<1>6. Upsert(old, new) = old \cup new
  BY <1>5 DEF Upsert
<1>7. \A x : x \in old \cup new <=> x \in Before(r, table, g, n + BatchSize)
  BY <1>1, <1>2, <1>3, <1>4
<1> QED
  BY <1>6, <1>7 DEF old, new

LEMMA BeforeEnds ==
  ASSUME NEW r \in Release, NEW table \in Table
  PROVE  /\ Before(r, table, 1, 1) = {}
         /\ Before(r, table, Generations + 1, 1) = Profile(r, table)
         /\ \A g \in 1..Generations, n \in Nat :
              n > Len(r[table]) => Before(r, table, g, n) = Before(r, table, g + 1, 1)
<1>1. DOMAIN r[table] = 1..Len(r[table]) /\ Len(r[table]) \in Nat /\ Generations \in Nat
  BY RowsOfProfile, SetupAssumption
<1>2. \A g, n, x : x \in Before(r, table, g, n) <=>
        \E h \in 1..Generations, k \in DOMAIN r[table] :
          x = RowOf(r, table, h, k) /\ (h < g \/ (h = g /\ k < n))
  BY InBefore
<1>3. Before(r, table, 1, 1) = {}
  BY <1>1, <1>2
<1>4. Before(r, table, Generations + 1, 1) = Profile(r, table)
  <2>1. \A h \in 1..Generations : h < Generations + 1
    BY <1>1
  <2>2. \A x : x \in Before(r, table, Generations + 1, 1) <=>
              \E h \in 1..Generations, k \in DOMAIN r[table] : x = RowOf(r, table, h, k)
    BY <1>2, <2>1
  <2>3. \A x : x \in Before(r, table, Generations + 1, 1) <=> x \in Profile(r, table)
    BY <2>2, RowsOfProfile
  <2> QED
    BY <2>3
<1>5. ASSUME NEW g \in 1..Generations, NEW n \in Nat, n > Len(r[table])
      PROVE  Before(r, table, g, n) = Before(r, table, g + 1, 1)
  <2>1. \A h \in 1..Generations, k \in DOMAIN r[table] :
          (h < g \/ (h = g /\ k < n)) <=> (h < g + 1 \/ (h = g + 1 /\ k < 1))
    BY <1>1, <1>5
  <2>2. \A x : x \in Before(r, table, g, n) <=> x \in Before(r, table, g + 1, 1)
    BY <1>2, <2>1
  <2> QED
    BY <2>2
<1> QED
  BY <1>3, <1>4, <1>5

Linked(students, enrollments) ==
  \A e \in enrollments : \E s \in students : s.gen = e.gen /\ s.id = e.student

\* The students of a generation are there before its enrollments.
LEMMA StudentsFirst ==
  ASSUME NEW r \in Release, NEW g \in Nat, NEW m \in Nat, NEW h \in Nat, NEW n \in Nat,
         h < g \/ (h = g /\ n = 1)
  PROVE  Linked(Before(r, "students", g, m), Before(r, "enrollments", h, n))
<1> SUFFICES ASSUME NEW e \in Before(r, "enrollments", h, n)
             PROVE  \E s \in Before(r, "students", g, m) : s.gen = e.gen /\ s.id = e.student
  BY DEF Linked
<1>1. "students" \in Table /\ "enrollments" \in Table
  BY DEF Table
<1>2. PICK f \in 1..Generations : \E j \in DOMAIN r["enrollments"] :
        e = RowOf(r, "enrollments", f, j) /\ (f < h \/ (f = h /\ j < n))
  BY <1>1, InBefore
<1>3. PICK j \in DOMAIN r["enrollments"] :
        e = RowOf(r, "enrollments", f, j) /\ (f < h \/ (f = h /\ j < n))
  BY <1>2
<1>4. f < g
  <2>1. j \in Nat /\ j >= 1 /\ f \in Nat
    BY <1>1, RowsOfProfile, SetupAssumption
  <2> QED
    BY <1>3, <2>1
<1>5. PICK k \in DOMAIN r["students"] : r["students"][k].id = r["enrollments"][j].student
  BY ProfileAssumption
<1>6. RowOf(r, "students", f, k) \in Before(r, "students", g, m)
  BY <1>1, <1>4, InBefore
<1>7. /\ RowOf(r, "students", f, k).gen = e.gen
      /\ RowOf(r, "students", f, k).id = e.student
  BY <1>3, <1>5 DEF RowOf
<1> QED
  BY <1>6, <1>7

-----------------------------------------------------------------------------
(* The loads.                                                              *)

Whole(r) == \A table \in Table : app[table] = Profile(r, table)

\* The stages of a load that begins with nothing but what was there.
Early == {"check", "apply", "delete_enrollments", "delete_students"}

\* How far a load has come, if it is the last one and alone.
Loaded(i) ==
  LET r == init[i].release
      g == init[i].gen
      n == init[i].row
  IN  /\ init[i].at = "delete_students" => app["enrollments"] = {}
      /\ init[i].at = "students" => /\ app["students"] = Before(r, "students", g, n)
                                    /\ app["enrollments"] = Before(r, "enrollments", g, 1)
      /\ init[i].at = "enrollments" => /\ app["students"] = Before(r, "students", g + 1, 1)
                                       /\ app["enrollments"] = Before(r, "enrollments", g, n)
      /\ init[i].at = "manifest" => Whole(r)

Loads ==
  load.alone =>
    /\ Linked(app["students"], app["enrollments"])
    /\ load.over => \E r \in Release : Whole(r)
    /\ \A i \in Process : i \in load.by => Loaded(i)

LoadInv ==
  /\ Executions
  /\ \A i \in Process : init[i].at \in Early => init[i].gen = 1 /\ init[i].row = 1
  /\ app = [table \in Table |-> app[table]]
  /\ Loads

\* A statement of the load that is the last one.
LEMMA LoadingKeeps ==
  ASSUME LoadInv, NEW i \in Process, Loading(i), Executions',
         \A j \in Process \ {i} : init'[j] = init[j],
         init'[i].at \in Early => init'[i].gen = 1 /\ init'[i].row = 1,
         (app = [table \in Table |-> app[table]])',
         init[i].at = "delete_enrollments" \/ Loaded(i) =>
           /\ Linked(app["students"], app["enrollments"])'
           /\ init[i].at = "manifest" => \E r \in Release : Whole(r)'
           /\ Loaded(i)'
  PROVE  LoadInv'
<1>1. /\ load'.by = {i} /\ load'.over = (init[i].at = "manifest")
      /\ load'.alone = (init[i].at = "delete_enrollments" \/ (load.alone /\ load.by = {i}))
  BY DEF Loading
<1>2. ASSUME load'.alone
      PROVE  /\ Linked(app["students"], app["enrollments"])'
             /\ load'.over => \E r \in Release : Whole(r)'
             /\ \A j \in Process : j \in load'.by => Loaded(j)'
  <2>1. init[i].at = "delete_enrollments" \/ Loaded(i)
    BY <1>1, <1>2 DEF LoadInv, Loads
  <2> QED
    BY <1>1, <2>1
<1>3. Loads'
  BY <1>2 DEF Loads
<1> QED
  BY <1>3 DEF LoadInv

\* Whatever else an execution does: it is not in a load afterwards.
LEMMA OthersKeep ==
  ASSUME LoadInv, NEW i \in Process, UNCHANGED <<app, load>>, Executions',
         \A j \in Process \ {i} : init'[j] = init[j],
         init'[i].at \notin {"delete_students", "students", "enrollments", "manifest"},
         init'[i].at \in Early => init'[i].gen = 1 /\ init'[i].row = 1
  PROVE  LoadInv'
<1>1. Loaded(i)'
  BY DEF Loaded
<1>2. ASSUME NEW j \in Process \ {i}, Loaded(j) PROVE Loaded(j)'
  BY <1>2 DEF Loaded, Whole
<1>3. \A r : Whole(r) <=> Whole(r)'
  BY DEF Whole
<1>4. Loads'
  BY <1>1, <1>2, <1>3 DEF LoadInv, Loads
<1> QED
  BY <1>4 DEF LoadInv

LEMMA DeletePreserves ==
  ASSUME LoadInv, NEW i \in Process, DeleteRows(i)
  PROVE  LoadInv'
<1>1. PICK table \in Table :
        /\ init[i].at = Deleting(table)
        /\ app' = [app EXCEPT ![table] = {}]
        /\ Goto(i, IF table = "enrollments" THEN "delete_students" ELSE "students")
        /\ Loading(i)
  BY DEF DeleteRows
<1>2. PICK label \in Stage : label = IF table = "enrollments" THEN "delete_students" ELSE "students"
  BY DEF Stage
<1>3. init[i].at \in Early /\ init[i].at # "new" /\ Executions
  BY <1>1 DEF Deleting, Early, LoadInv
<1>4. /\ Executions' /\ init'[i].at = label
      /\ init'[i].release = init[i].release /\ init'[i].gen = 1 /\ init'[i].row = 1
      /\ \A j \in Process \ {i} : init'[j] = init[j]
  BY <1>1, <1>2, <1>3, GotoKeeps DEF LoadInv
<1>5. /\ "students" \in Table /\ "enrollments" \in Table
      /\ table \in {"students", "enrollments"}
      /\ (app = [t \in Table |-> app[t]])'
      /\ app'[table] = {} /\ \A t \in Table \ {table} : app'[t] = app[t]
  BY <1>1 DEF Table, LoadInv
<1>6. CASE table = "enrollments"
  <2>1. Linked(app["students"], app["enrollments"])' /\ Loaded(i)'
    BY <1>2, <1>4, <1>5, <1>6 DEF Linked, Loaded
  <2>2. init[i].at # "manifest"
    BY <1>1, <1>6 DEF Deleting
  <2> QED
    BY <1>1, <1>4, <1>5, <2>1, <2>2, LoadingKeeps
<1>7. CASE table = "students"
  <2>1. init[i].at = "delete_students" /\ init'[i].at = "students"
    BY <1>1, <1>2, <1>4, <1>7 DEF Deleting
  <2>2. ASSUME Loaded(i)
        PROVE  Linked(app["students"], app["enrollments"])' /\ Loaded(i)'
    <3>1. app'["students"] = {} /\ app'["enrollments"] = {}
      BY <1>5, <1>7, <2>1, <2>2 DEF Loaded
    <3>2. init[i].release \in Release
      BY <1>3 DEF Executions, Execution
    <3>3. /\ Before(init[i].release, "students", 1, 1) = {}
          /\ Before(init[i].release, "enrollments", 1, 1) = {}
      BY <1>5, <3>2, BeforeEnds
    <3> QED
      BY <1>4, <2>1, <3>1, <3>3 DEF Linked, Loaded
  <2> QED
    BY <1>1, <1>4, <1>5, <2>1, <2>2, LoadingKeeps DEF Early
<1> QED
  BY <1>5, <1>6, <1>7

LEMMA InsertPreserves ==
  ASSUME LoadInv, NEW i \in Process, InsertBatch(i)
  PROVE  LoadInv'
<1>1. /\ Executions /\ Executions' /\ Moved(i)
      /\ init[i].at \in {"students", "enrollments"}
      /\ init'[i].at \in {"students", "enrollments", "manifest"}
      /\ init'[i].release = init[i].release
      /\ \A j \in Process \ {i} : init'[j] = init[j]
  BY InsertKeeps DEF LoadInv
<1>2. PICK r \in Release, g \in 1..Generations, n \in Nat \ {0} :
        r = init[i].release /\ g = init[i].gen /\ n = init[i].row
  BY <1>1 DEF Executions, Execution
<1>3. PICK table \in Table :
        /\ init[i].at = table
        /\ app' = [app EXCEPT ![table] = Upsert(@, Batch(r, table, g, n))]
        /\ Loading(i)
  <2>1. PICK table \in Table :
          /\ init[i].at = table
          /\ app' = [app EXCEPT ![table] =
                       Upsert(@, Batch(init[i].release, table, init[i].gen, init[i].row))]
          /\ Loading(i)
    BY DEF InsertBatch, Batch
  <2> QED
    BY <1>2, <2>1
<1>4. g \in Nat /\ g + 1 \in Nat
  BY <1>2, SetupAssumption
<1>5. /\ "students" \in Table /\ "enrollments" \in Table
      /\ (app = [t \in Table |-> app[t]])'
      /\ app'[table] = Upsert(app[table], Batch(r, table, g, n))
      /\ \A t \in Table \ {table} : app'[t] = app[t]
  BY <1>3 DEF Table, LoadInv
<1>6. PICK next \in Nat : next = n + BatchSize /\ BatchEnd(i) + 1 = next /\ BatchEnd(i) \in Nat
  BY <1>2, SetupAssumption DEF BatchEnd
<1>7. Upsert(Before(r, table, g, n), Batch(r, table, g, n)) = Before(r, table, g, next)
  BY <1>2, <1>6, BatchExtends
<1>8. Size(i, table) \in Nat
  BY <1>2, RowsOfProfile DEF Size
<1>9. BatchEnd(i) >= Size(i, table) => Before(r, table, g, next) = Before(r, table, g + 1, 1)
  <2>1. BatchEnd(i) >= Size(i, table) => next > Len(r[table])
    BY <1>2, <1>6, <1>8 DEF Size
  <2> QED
    BY <1>2, <1>6, <2>1, BeforeEnds
<1>10. ASSUME Loaded(i)
       PROVE  Linked(app["students"], app["enrollments"])' /\ Loaded(i)'
  <2>1. CASE table = "students"
    <3>1. /\ app["students"] = Before(r, "students", g, n)
          /\ app["enrollments"] = Before(r, "enrollments", g, 1)
      BY <1>2, <1>3, <1>10, <2>1 DEF Loaded
    <3>2. /\ app'["students"] = Before(r, "students", g, next)
          /\ app'["enrollments"] = Before(r, "enrollments", g, 1)
      BY <1>5, <1>7, <2>1, <3>1
    <3>3. Linked(app["students"], app["enrollments"])'
      BY <1>2, <1>4, <3>2, StudentsFirst
    <3>4. \/ init'[i].at = "students" /\ init'[i].gen = g /\ init'[i].row = next
          \/ /\ BatchEnd(i) >= Size(i, table)
             /\ init'[i].at = "enrollments" /\ init'[i].gen = g /\ init'[i].row = 1
      BY <1>1, <1>2, <1>3, <1>6, <2>1 DEF Moved
    <3>5. Loaded(i)'
      BY <1>1, <1>2, <1>9, <2>1, <3>2, <3>4 DEF Loaded
    <3> QED
      BY <3>3, <3>5
  <2>2. CASE table = "enrollments"
    <3>1. /\ app["students"] = Before(r, "students", g + 1, 1)
          /\ app["enrollments"] = Before(r, "enrollments", g, n)
      BY <1>2, <1>3, <1>10, <2>2 DEF Loaded
    <3>2. /\ app'["students"] = Before(r, "students", g + 1, 1)
          /\ app'["enrollments"] = Before(r, "enrollments", g, next)
      BY <1>5, <1>7, <2>2, <3>1
    <3>3. Linked(app["students"], app["enrollments"])'
      BY <1>2, <1>4, <3>2, StudentsFirst
    <3>4. \/ init'[i].at = "enrollments" /\ init'[i].gen = g /\ init'[i].row = next
          \/ /\ BatchEnd(i) >= Size(i, table)
             /\ \/ init'[i].at = "students" /\ init'[i].gen = g + 1 /\ init'[i].row = 1
                \/ init'[i].at = "manifest" /\ g = Generations
      BY <1>1, <1>2, <1>3, <1>6, <2>2 DEF Moved
    <3>5. CASE init'[i].at = "manifest"
      <4>1. BatchEnd(i) >= Size(i, table) /\ g = Generations
        BY <3>4, <3>5
      <4>2. /\ app'["students"] = Profile(r, "students")
            /\ app'["enrollments"] = Profile(r, "enrollments")
        BY <1>2, <1>5, <1>9, <2>2, <3>2, <4>1, BeforeEnds
      <4>3. Whole(r)'
        BY <4>2 DEF Whole, Table
      <4> QED
        BY <1>1, <1>2, <3>3, <3>5, <4>3 DEF Loaded, Whole
    <3>6. CASE init'[i].at # "manifest"
      <4>1. Loaded(i)'
        BY <1>1, <1>2, <1>9, <2>2, <3>2, <3>4, <3>6 DEF Loaded
      <4> QED
        BY <3>3, <4>1
    <3> QED
      BY <3>5, <3>6
  <2> QED
    BY <2>1, <2>2 DEF Table
<1> QED
  BY <1>1, <1>3, <1>5, <1>10, LoadingKeeps DEF Early

LEMMA LoadPreserved ==
  ASSUME LoadInv, [Next]_vars
  PROVE  LoadInv'
<1>1. CASE UNCHANGED setupVars
  BY <1>1 DEF LoadInv, Executions, Loads, Loaded, Whole, setupVars
<1>2. Executions
  BY DEF LoadInv
<1>3. ASSUME NEW i \in Process, Start(i) PROVE LoadInv'
  <2>1. UNCHANGED <<app, load>>
    BY <1>3 DEF Start
  <2> QED
    BY <1>2, <1>3, <2>1, StartKeeps, OthersKeep
<1>4. ASSUME NEW i \in Process, CheckFile(i) \/ ApplyFile(i) PROVE LoadInv'
  <2>1. UNCHANGED <<app, load>> /\ init[i].at \in {"check", "apply"}
    BY <1>4 DEF CheckFile, ApplyFile
  <2>2. NextFile(i) \/ Goto(i, "apply") \/ Goto(i, "dead")
    BY <1>4 DEF CheckFile, ApplyFile
  <2>3. CASE NextFile(i)
    <3>1. /\ Executions' /\ init'[i].at \in {"delete_enrollments", "check"}
          /\ init'[i].gen = 1 /\ init'[i].row = 1
          /\ \A j \in Process \ {i} : init'[j] = init[j]
      BY <1>2, <2>1, <2>3, NextFileKeeps DEF LoadInv, Early
    <3> QED
      BY <2>1, <3>1, OthersKeep
  <2>4. CASE Goto(i, "apply") \/ Goto(i, "dead")
    <3>1. /\ Executions' /\ init'[i].at \in {"apply", "dead"}
          /\ init'[i].gen = 1 /\ init'[i].row = 1
          /\ \A j \in Process \ {i} : init'[j] = init[j]
      BY <1>2, <2>1, <2>4, GotoKeeps DEF LoadInv, Early, Stage
    <3> QED
      BY <2>1, <3>1, OthersKeep
  <2> QED
    BY <2>2, <2>3, <2>4
<1>5. ASSUME NEW i \in Process, WriteManifest(i) PROVE LoadInv'
  <2>1. /\ init[i].at = "manifest" /\ Goto(i, "tenant") /\ Loading(i) /\ app' = app
    BY <1>5 DEF WriteManifest
  <2>2. /\ Executions' /\ init'[i].at = "tenant"
        /\ \A j \in Process \ {i} : init'[j] = init[j]
    BY <1>2, <2>1, GotoKeeps DEF Stage
  <2>3. PICK r \in Release : r = init[i].release
    BY <1>2, <2>1 DEF Executions, Execution
  <2>4. ASSUME Loaded(i)
        PROVE  /\ Linked(app["students"], app["enrollments"])'
               /\ \E q \in Release : Whole(q)'
               /\ Loaded(i)'
    <3>1. Whole(r)'
      BY <2>1, <2>3, <2>4 DEF Loaded, Whole
    <3>2. Loaded(i)'
      BY <2>2 DEF Loaded
    <3>3. /\ Linked(Before(r, "students", Generations + 1, 1), Before(r, "enrollments", Generations + 1, 1))
          /\ "students" \in Table /\ "enrollments" \in Table
      BY StudentsFirst, SetupAssumption DEF Table
    <3>4. Linked(app["students"], app["enrollments"])'
      BY <3>1, <3>3, BeforeEnds DEF Whole
    <3> QED
      BY <3>1, <3>2, <3>4
  <2>5. (app = [table \in Table |-> app[table]])'
    BY <2>1 DEF LoadInv
  <2> QED
    BY <2>1, <2>2, <2>4, <2>5, LoadingKeeps DEF Early
<1>6. ASSUME NEW i \in Process, EstablishDemoTenant(i) \/ Revoke(i) \/ Grant(i) \/ Die(i)
      PROVE  LoadInv'
  <2>1. UNCHANGED <<app, load>>
    BY <1>6 DEF EstablishDemoTenant, Revoke, Grant, Die
  <2>2. PICK label \in Stage : /\ Goto(i, label) /\ init[i].at # "new"
                               /\ label \in {"revoke", "grant", "done", "dead"}
    BY <1>6 DEF EstablishDemoTenant, Revoke, Grant, Die, Stage
  <2>3. /\ Executions' /\ init'[i].at = label
        /\ \A j \in Process \ {i} : init'[j] = init[j]
    BY <1>2, <2>2, GotoKeeps
  <2> QED
    BY <2>1, <2>2, <2>3, OthersKeep DEF Early
<1>7. CASE SetupStep
  BY <1>3, <1>4, <1>5, <1>6, <1>7, DeletePreserves, InsertPreserves DEF SetupStep
<1> QED
  BY <1>1, <1>7, StepKinds

LEMMA LoadAlways == Spec => []LoadInv
<1>1. Init => LoadInv
  <2>1. ASSUME Init PROVE LoadInv
    <3>1. /\ init = [i \in Process |-> [at |-> "new"]] /\ app = [table \in Table |-> {}]
          /\ load.by = {} /\ load.over = FALSE
          /\ "students" \in Table /\ "enrollments" \in Table
      BY <2>1 DEF Init, InitSetup, Table
    <3>2. Loads
      BY <3>1 DEF Loads, Linked
    <3> QED
      BY <3>1, <3>2 DEF LoadInv, Executions, Early
  <2> QED
    BY <2>1
<1>2. LoadInv /\ [Next]_vars => LoadInv'
  BY LoadPreserved
<1> QED
  BY <1>1, <1>2, PTL DEF Spec

\* A load that no other one overlapped keeps each enrollment beside its student at every
\* moment and leaves its profile and nothing else, for every size of the profiles and of the
\* batches, whatever loads died before it.
THEOREM LoadsStayWhole == Spec => []LoadsReplace
<1>1. LoadInv => LoadsReplace
  BY DEF LoadInv, Loads, Linked, Whole, LoadsReplace
<1> QED
  BY <1>1, LoadAlways, PTL

-----------------------------------------------------------------------------
(* What a reader of the app has seen.                                      *)

Seen(table, rows, gen) == {x \in rows[table] : x.gen = gen}
IsProfile(rows) == \E r \in Release : \A table \in Table : rows[table] = Profile(r, table)

\* Nothing has been asked; or one query has its answer from what was seen, which is a whole
\* profile if the read is steady; or both have.
Asked(e) ==
  \/ e.saw = {} /\ \A table \in Table : ~e.asked[table].answered
  \/ \E table \in Table : \E rows :
       /\ e.saw = {rows}
       /\ e.asked[table].answered /\ e.asked[table].rows = Seen(table, rows, e.gen)
       /\ \A other \in Table \ {table} : ~e.asked[other].answered
       /\ e.steady => IsProfile(rows)
  \/ /\ \A table \in Table : e.asked[table].answered
     /\ e.steady => \E rows : /\ IsProfile(rows)
                              /\ \A table \in Table : e.asked[table].rows = Seen(table, rows, e.gen)

AppInv ==
  exec.at # "idle" =>
    /\ Shaped(exec)
    /\ exec.gen \in 1..Generations
    /\ exec.asked = [table \in Table |-> exec.asked[table]]
    /\ Asked(exec)
    /\ exec.at = "complete" => Answered

LEMMA SelectPreserves ==
  ASSUME AppInv, LoadInv, NEW t \in Table, SelectRows(t)
  PROVE  AppInv'
<1>1. /\ exec.at = "reading" /\ ~exec.asked[t].answered
      /\ Shaped(exec) /\ exec.gen \in 1..Generations /\ Asked(exec)
      /\ exec.asked = [table \in Table |-> exec.asked[table]]
  BY DEF SelectRows, AppInv
<1>2. PICK now, g, answer :
        now = app /\ g = exec.gen /\ answer = [answered |-> TRUE, rows |-> Seen(t, now, g)]
  OBVIOUS
<1>3. PICK asked : asked = [exec.asked EXCEPT ![t] = answer]
  OBVIOUS
<1>4. PICK saw : saw = IF exec.saw = {} THEN {now} ELSE {}
  OBVIOUS
<1>5. PICK steady : steady = IF exec.saw = {} THEN load.alone /\ load.over
                             ELSE exec.steady /\ exec.saw = {now}
  OBVIOUS
<1>6. exec' = [exec EXCEPT !.asked = asked, !.saw = saw, !.steady = steady]
  <2>1. RowsOf(t) = Seen(t, now, g)
    BY <1>2 DEF RowsOf, Seen
  <2>2. exec' = [exec EXCEPT !.asked[t] = answer, !.saw = saw, !.steady = steady]
    BY <1>2, <1>4, <1>5, <2>1 DEF SelectRows
  <2> QED
    BY <1>3, <2>2
<1>7. /\ Shaped(exec)' /\ exec'.at = "reading" /\ exec'.gen = g
      /\ exec'.asked = asked /\ exec'.saw = saw /\ exec'.steady = steady
  BY <1>1, <1>2, <1>6 DEF Shaped
<1>8. /\ asked = [table \in Table |-> asked[table]]
      /\ asked[t].answered /\ asked[t].rows = Seen(t, now, g)
      /\ \A other \in Table \ {t} : asked[other] = exec.asked[other]
  BY <1>1, <1>2, <1>3
<1>9. Asked(exec')
  <2>1. CASE exec.saw = {} /\ \A table \in Table : ~exec.asked[table].answered
    <3>1. steady => IsProfile(now)
      BY <1>2, <1>5, <2>1 DEF LoadInv, Loads, Whole, IsProfile
    <3> QED
      BY <1>4, <1>7, <1>8, <2>1, <3>1 DEF Asked
  <2>2. ASSUME NEW table \in Table, NEW rows,
               exec.saw = {rows},
               exec.asked[table].answered, exec.asked[table].rows = Seen(table, rows, exec.gen),
               exec.steady => IsProfile(rows)
        PROVE  Asked(exec')
    <3>1. table # t /\ \A other \in Table : other = t \/ other = table
      BY <1>1, <2>2 DEF Table
    <3>2. \A other \in Table : asked[other].answered
      BY <1>8, <2>2, <3>1
    <3>3. ASSUME steady
          PROVE  IsProfile(now) /\ \A other \in Table : asked[other].rows = Seen(other, now, g)
      <4>1. rows = now /\ exec.steady
        BY <1>5, <2>2, <3>3
      <4> QED
        BY <1>2, <1>8, <2>2, <3>1, <4>1
    <3> QED
      BY <1>7, <3>2, <3>3 DEF Asked
  <2>3. CASE \A table \in Table : exec.asked[table].answered
    BY <1>1, <2>3
  <2> QED
    BY <1>1, <2>1, <2>2, <2>3 DEF Asked
<1> QED
  BY <1>1, <1>2, <1>7, <1>8, <1>9 DEF AppInv

\* The other steps of an execution ask anew or leave what was answered.
LEMMA AskedKeeps ==
  ASSUME AppInv, exec.at # "idle",
         \/ exec' = Again /\ exec.at = "reading"
         \/ exec' = [exec EXCEPT !.aborted = TRUE]
         \/ \E label \in {"failed", "partial", "persisted"} : exec' = [exec EXCEPT !.at = label]
         \/ exec' = [exec EXCEPT !.at = "complete"] /\ Answered
  PROVE  AppInv'
<1>1. /\ Shaped(exec) /\ exec.gen \in 1..Generations /\ Asked(exec)
      /\ exec.asked = [table \in Table |-> exec.asked[table]]
  BY DEF AppInv
<1>2. CASE exec' = Again /\ exec.at = "reading"
  <2>1. /\ Shaped(exec)' /\ exec'.at = exec.at /\ exec'.gen = exec.gen
        /\ exec'.asked = Pending /\ exec'.saw = {}
    BY <1>1, <1>2 DEF Shaped, Again
  <2>2. Asked(exec')
    BY <2>1 DEF Asked, Pending
  <2>3. exec'.asked = [table \in Table |-> exec'.asked[table]]
    BY <2>1 DEF Pending
  <2> QED
    BY <1>1, <1>2, <2>1, <2>2, <2>3 DEF AppInv
<1>3. CASE exec' = [exec EXCEPT !.aborted = TRUE]
  <2>1. /\ Shaped(exec)' /\ exec'.at = exec.at /\ exec'.gen = exec.gen
        /\ exec'.asked = exec.asked /\ exec'.saw = exec.saw /\ exec'.steady = exec.steady
    BY <1>1, <1>3 DEF Shaped
  <2>2. Asked(exec') /\ (Answered => Answered')
    BY <1>1, <2>1 DEF Asked, Answered
  <2> QED
    BY <1>1, <2>1, <2>2 DEF AppInv
<1>4. ASSUME NEW label \in {"failed", "partial", "persisted", "complete"},
             exec' = [exec EXCEPT !.at = label], label = "complete" => Answered
      PROVE  AppInv'
  <2>1. /\ Shaped(exec)' /\ exec'.at = label /\ exec'.gen = exec.gen
        /\ exec'.asked = exec.asked /\ exec'.saw = exec.saw /\ exec'.steady = exec.steady
    BY <1>1, <1>4 DEF Shaped
  <2>2. Asked(exec') /\ (Answered => Answered')
    BY <1>1, <2>1 DEF Asked, Answered
  <2> QED
    BY <1>1, <1>4, <2>1, <2>2 DEF AppInv
<1> QED
  BY <1>2, <1>3, <1>4

LEMMA AppPreserved ==
  ASSUME AppInv, LoadInv, [Next]_vars
  PROVE  AppInv'
<1>1. CASE UNCHANGED exec
  BY <1>1 DEF AppInv, Answered
<1>2. ASSUME NEW r \in Run, BeginSync(r) PROVE AppInv'
  <2>1. PICK gen \in 1..Generations, fault \in Fault :
          exec' = [at |-> "reading", run |-> r, gen |-> gen, fault |-> fault, attempt |-> 0,
                   aborted |-> FALSE, asked |-> Pending, saw |-> {}, steady |-> FALSE]
    BY <1>2 DEF BeginSync
  <2>2. /\ Shaped(exec)' /\ exec'.at = "reading" /\ exec'.gen = gen
        /\ exec'.asked = Pending /\ exec'.saw = {}
    BY <2>1 DEF Shaped
  <2>3. Asked(exec') /\ exec'.asked = [table \in Table |-> exec'.asked[table]]
    BY <2>2 DEF Asked, Pending
  <2> QED
    BY <2>2, <2>3 DEF AppInv
<1>3. CASE Abort \/ FailAttempt \/ Deliver \/ Persist
  <2>1. /\ exec.at # "idle"
        /\ \/ exec' = Again /\ exec.at = "reading"
           \/ exec' = [exec EXCEPT !.aborted = TRUE]
           \/ \E label \in {"failed", "partial", "persisted"} : exec' = [exec EXCEPT !.at = label]
           \/ exec' = [exec EXCEPT !.at = "complete"] /\ Answered
    BY <1>3 DEF Abort, FailAttempt, Deliver, Persist
  <2> QED
    BY <2>1, AskedKeeps
<1>4. CASE exec' = Idle
  BY <1>4 DEF AppInv, Idle
<1>5. \/ UNCHANGED exec \/ exec' = Idle
      \/ \E r \in Run : BeginSync(r)
      \/ \E t \in Table : SelectRows(t)
      \/ Abort \/ FailAttempt \/ Deliver \/ Persist
  BY DEF Next, vars, LoadFiles, FilesLoaded, FilesFail, AbortFiles, TakeFiles, CutOver, EndSync
<1> QED
  BY <1>1, <1>2, <1>3, <1>4, <1>5, SelectPreserves

LEMMA AppIsEnough ==
  ASSUME AppInv
  PROVE  CompleteIsWhole
<1> SUFFICES ASSUME exec.at = "complete", exec.steady
             PROVE  \E r \in Release : Snapshot = UNION {Range(Rows(r, t, exec.gen)) : t \in Table}
  BY DEF CompleteIsWhole
<1>1. /\ exec.gen \in 1..Generations /\ Asked(exec)
      /\ \A table \in Table : exec.asked[table].answered
  BY DEF AppInv, Answered
<1>2. \E rows : /\ IsProfile(rows)
               /\ \A table \in Table : exec.asked[table].rows = Seen(table, rows, exec.gen)
  <2>1. Table # {} /\ \A table \in Table : \E other \in Table : other \in Table \ {table}
    BY DEF Table
  <2>2. ~\A table \in Table : ~exec.asked[table].answered
    BY <1>1, <2>1
  <2>3. ~\E table \in Table : \A other \in Table \ {table} : ~exec.asked[other].answered
    BY <1>1, <2>1
  <2> QED
    BY <1>1, <2>2, <2>3 DEF Asked
<1>3. PICK rows, g : /\ IsProfile(rows) /\ g = exec.gen
                     /\ \A table \in Table : exec.asked[table].rows = Seen(table, rows, g)
  BY <1>2
<1>4. PICK r \in Release : \A table \in Table : rows[table] = Profile(r, table)
  BY <1>3 DEF IsProfile
<1>5. ASSUME NEW table \in Table
      PROVE  exec.asked[table].rows = Range(Rows(r, table, g))
  <2>1. \A x : x \in Range(Rows(r, table, g)) <=>
                 \E k \in DOMAIN r[table] : x = RowOf(r, table, g, k)
    BY RowsOfProfile
  <2>2. \A x : x \in Seen(table, rows, g) <=>
                 x.gen = g /\ \E h \in 1..Generations, k \in DOMAIN r[table] : x = RowOf(r, table, h, k)
    BY <1>4, RowsOfProfile DEF Seen
  <2>3. \A h, k : RowOf(r, table, h, k).gen = h
    BY DEF RowOf
  <2>4. \A x : x \in Seen(table, rows, g) <=> x \in Range(Rows(r, table, g))
    BY <1>1, <1>3, <2>1, <2>2, <2>3
  <2> QED
    BY <1>3, <2>4
<1>6. Snapshot = UNION {Range(Rows(r, t, exec.gen)) : t \in Table}
  BY <1>3, <1>5 DEF Snapshot
<1> QED
  BY <1>6

-----------------------------------------------------------------------------
(* The load of the files.                                                  *)

\* A read that waits or has its records took the load that is in the cache.
Takes(s) ==
  /\ Reader(s) = [at |-> Reader(s).at, attempt |-> Reader(s).attempt, load |-> files.loads]
  /\ files.cache # "none"

FilesInv ==
  /\ files = [cache |-> files.cache, loads |-> files.loads, reads |-> files.reads]
  /\ files.reads = [s \in FileSource |-> files.reads[s]]
  /\ \A s \in FileSource :
       /\ Reader(s).at \in {"waits", "aborted", "read"} => Takes(s)
       /\ Reader(s).at = "read" => files.cache = "loaded"

LEMMA FilesPreserved ==
  ASSUME FilesInv, [Next]_vars
  PROVE  FilesInv'
<1>1. CASE UNCHANGED files
  BY <1>1 DEF FilesInv, Takes, Reader
<1>2. CASE files' = NoFiles
  BY <1>2 DEF FilesInv, NoFiles, Reader
<1>3. ASSUME NEW s \in FileSource, LoadFiles(s) PROVE FilesInv'
  <2>1. PICK n : n = IF files.cache = "none" THEN files.loads + 1 ELSE files.loads
    OBVIOUS
  <2>2. PICK cache : cache = IF files.cache = "none" THEN "pending" ELSE files.cache
    OBVIOUS
  <2>3. PICK read : read = [at |-> "waits", attempt |-> Reader(s).attempt, load |-> n]
    OBVIOUS
  <2>4. files' = [files EXCEPT !.cache = cache, !.loads = n, !.reads = [files.reads EXCEPT ![s] = read]]
    BY <1>3, <2>1, <2>2, <2>3 DEF LoadFiles, Reader
  <2>5. /\ files' = [cache |-> cache, loads |-> n, reads |-> [files.reads EXCEPT ![s] = read]]
    BY <2>4 DEF FilesInv
  <2>6. /\ files'.reads = [t \in FileSource |-> files'.reads[t]]
        /\ files'.reads[s] = read
        /\ \A t \in FileSource \ {s} : files'.reads[t] = files.reads[t]
    BY <2>5 DEF FilesInv
  <2>7. ASSUME NEW t \in FileSource \ {s}, Reader(t).at \in {"waits", "aborted", "read"}
        PROVE  n = files.loads /\ cache = files.cache
    BY <2>1, <2>2, <2>7 DEF FilesInv, Takes
  <2>8. cache # "none"
    BY <2>2
  <2> QED
    BY <2>3, <2>5, <2>6, <2>7, <2>8 DEF FilesInv, Takes, Reader
<1>4. CASE FilesLoaded
  <2>1. files' = [cache |-> "loaded", loads |-> files.loads, reads |-> files.reads]
    BY <1>4 DEF FilesLoaded, FilesInv
  <2> QED
    BY <2>1 DEF FilesInv, Takes, Reader
<1>5. CASE FilesFail
  <2>1. PICK f : f = [s \in FileSource |->
                   IF Reader(s).at \in {"waits", "aborted"} THEN Retried(Reader(s)) ELSE Reader(s)]
    OBVIOUS
  <2>2. files' = [cache |-> "none", loads |-> files.loads, reads |-> f] /\ files.cache = "pending"
    BY <1>5, <2>1 DEF FilesFail, FilesInv
  <2>3. \A s \in FileSource : f[s].at \notin {"waits", "aborted", "read"}
    BY <2>1, <2>2 DEF FilesInv, Retried
  <2> QED
    BY <2>1, <2>2, <2>3 DEF FilesInv, Reader
<1>6. ASSUME NEW s \in FileSource, AbortFiles(s) \/ TakeFiles(s) PROVE FilesInv'
  <2>1. Takes(s) /\ Reader(s).at \in {"waits", "aborted"}
    BY <1>6 DEF AbortFiles, TakeFiles, FilesInv
  <2>2. PICK read :
          /\ files' = [files EXCEPT !.reads = [files.reads EXCEPT ![s] = read]]
          /\ \/ read = [Reader(s) EXCEPT !.at = "aborted"]
             \/ read = [Reader(s) EXCEPT !.at = "read"] /\ files.cache = "loaded"
             \/ read = Retried(Reader(s))
    BY <1>6 DEF AbortFiles, TakeFiles, Reader
  <2>3. \/ read = [at |-> "aborted", attempt |-> Reader(s).attempt, load |-> files.loads]
        \/ /\ read = [at |-> "read", attempt |-> Reader(s).attempt, load |-> files.loads]
           /\ files.cache = "loaded"
        \/ read.at \in {"idle", "failed"}
    BY <2>1, <2>2 DEF Takes, Retried
  <2>4. files' = [cache |-> files.cache, loads |-> files.loads, reads |-> [files.reads EXCEPT ![s] = read]]
    BY <2>2 DEF FilesInv
  <2>5. /\ files'.reads = [t \in FileSource |-> files'.reads[t]]
        /\ files'.reads[s] = read
        /\ \A t \in FileSource \ {s} : files'.reads[t] = files.reads[t]
    BY <2>4 DEF FilesInv
  <2>6. files.cache # "none"
    BY <2>1 DEF Takes
  <2> QED
    BY <2>3, <2>4, <2>5, <2>6 DEF FilesInv, Takes, Reader
<1>7. \/ UNCHANGED files \/ files' = NoFiles
      \/ \E s \in FileSource : LoadFiles(s) \/ AbortFiles(s) \/ TakeFiles(s)
      \/ FilesLoaded \/ FilesFail
  BY DEF Next, vars, BeginSync, SelectRows, Abort, FailAttempt, Deliver, Persist, CutOver, EndSync
<1> QED
  BY <1>1, <1>2, <1>3, <1>4, <1>5, <1>6, <1>7

\* A steady read of the app is one profile, and the crm and the payments of a run are one
\* load of the files, whatever attempts, loads and executions of init failed before.
THEOREM ReadsStayWhole == Spec => []ReadsAreWhole
<1>1. Init => AppInv /\ FilesInv
  BY DEF Init, Idle, NoFiles, AppInv, FilesInv, Reader
<1>2. AppInv /\ FilesInv /\ LoadInv /\ [Next]_vars => AppInv' /\ FilesInv'
  BY AppPreserved, FilesPreserved
<1>3. AppInv /\ FilesInv => ReadsAreWhole
  <2>1. FilesInv => FilesAgree
    BY DEF FilesInv, Takes, FilesAgree
  <2> QED
    BY <2>1, AppIsEnough DEF ReadsAreWhole
<1> QED
  BY <1>1, <1>2, <1>3, LoadAlways, PTL DEF Spec
=============================================================================
