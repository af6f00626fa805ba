-------------------------------- MODULE Setup --------------------------------
(***************************************************************************)
(* Executions of cli/init.ts, which prepares the database each time the    *)
(* services are brought up, also beside services that still run: it        *)
(* migrates the schema, replaces the fixtures of the app source, gives the *)
(* demo keys to the demo tenant and provisions the runtime role.           *)
(*                                                                         *)
(* Only a migration and the tenant have a transaction; every other         *)
(* statement commits by itself.  Nothing keeps two executions apart, and   *)
(* each may die anywhere.                                                  *)
(***************************************************************************)
EXTENDS Naturals, Sequences, FiniteSets, SequencesExt

CONSTANTS
  Process,     \* executions of init
  Release,     \* what one may be run with: the migrations (version and checksum), the
               \* profile of the fixtures (students, and enrollments with the student of
               \* each), and the tenant with its slug and its client key
  Generations, \* generations of the fixtures; the app source is the same in each
  BatchSize,   \* rows of one INSERT
  Tenant       \* ids of tenants

Table == {"students", "enrollments"}

ASSUME SetupAssumption ==
  /\ Generations \in Nat \ {0}
  /\ BatchSize \in Nat \ {0}
  /\ \A r \in Release : /\ r.tenant \in Tenant
                        /\ r.files \in Seq(Range(r.files)) \ {<<>>}

\* The generator gives each row of a table a key of its own and each enrollment a student.
ASSUME ProfileAssumption ==
  \A r \in Release :
    /\ \A table \in Table :
         /\ r[table] \in Seq(Range(r[table]))
         /\ \A j, k \in DOMAIN r[table] : r[table][j].id = r[table][k].id => j = k
    /\ \A j \in DOMAIN r["enrollments"] :
         \E k \in DOMAIN r["students"] : r["students"][k].id = r["enrollments"][j].student

VARIABLES
  schema,   \* the migrations whose statements were committed, in that order
  recorded, \* schema_migrations
  app,      \* the rows of source_app
  tenants,  \* tenants: slug, and client key if it is one somebody knows
  granted,  \* whether the runtime role may write
  init,     \* the executions
  load      \* auxiliary: the last load, whether it is over, and whether it was alone

setupVars == <<schema, recorded, app, tenants, granted, init, load>>

InitSetup ==
  /\ schema = <<>>
  /\ recorded = {}
  /\ app = [t \in Table |-> {}]
  /\ tenants = [t \in Tenant |-> [slug |-> {}, client |-> {}]]
  /\ granted = FALSE
  /\ init = [i \in Process |-> [at |-> "new"]]
  /\ load = [by |-> {}, over |-> FALSE, alone |-> TRUE]

Goto(i, label) == init' = [init EXCEPT ![i].at = label]

-----------------------------------------------------------------------------
(* runMigrations.                                                          *)

Start(i) ==
  /\ init[i].at = "new"
  /\ \E r \in Release :
       init' = [init EXCEPT ![i] = [at |-> "check", release |-> r, file |-> 1, gen |-> 1, row |-> 1]]
  /\ UNCHANGED <<schema, recorded, app, tenants, granted, load>>

File(i) == init[i].release.files[init[i].file]
NextFile(i) ==
  init' = [init EXCEPT ![i].file = @ + 1,
             ![i].at = IF init[i].file = Len(init[i].release.files) THEN "delete_enrollments" ELSE "check"]

\* A version that is recorded with another checksum ends the execution.
CheckFile(i) ==
  /\ init[i].at = "check"
  /\ LET known == {m \in recorded : m.version = File(i).version}
     IN  CASE known = {}        -> Goto(i, "apply")
           [] known = {File(i)} -> NextFile(i)
           [] OTHER             -> Goto(i, "dead")
  /\ UNCHANGED <<schema, recorded, app, tenants, granted, load>>

\* Mutant of ApplyFile: the record is an INSERT ... ON CONFLICT DO NOTHING.
ApplyAgain(i) ==
  /\ init[i].at = "apply"
  /\ schema' = Append(schema, File(i))
  /\ recorded' = recorded \cup {File(i)}
  /\ NextFile(i)
  /\ UNCHANGED <<app, tenants, granted, load>>

\* The migration and its record are one transaction.  The key of the record refuses a
\* version that another execution has applied since it was looked up.
ApplyFile(i) ==
  /\ init[i].at = "apply"
  /\ IF \E m \in recorded : m.version = File(i).version
     THEN Goto(i, "dead") /\ UNCHANGED <<schema, recorded>>
     ELSE /\ schema' = Append(schema, File(i))
          /\ recorded' = recorded \cup {File(i)}
          /\ NextFile(i)
  /\ UNCHANGED <<app, tenants, granted, load>>

-----------------------------------------------------------------------------
(* loadAppSourceFixtures.                                                  *)

\* The rows of a table of a profile in one generation, in the order of the file.
Rows(r, table, gen) ==
  [k \in DOMAIN r[table] |-> [gen |-> gen, id |-> r[table][k].id, student |-> r[table][k].student,
                              payload |-> r.name]]
Profile(r, table) == UNION {Range(Rows(r, table, gen)) : gen \in 1..Generations}

Upsert(rows, new) == {x \in rows : ~\E y \in new : x.gen = y.gen /\ x.id = y.id} \cup new

\* Every statement of a load commits by itself.
Loading(i) ==
  /\ load' = [by |-> {i}, over |-> init[i].at = "manifest",
              alone |-> init[i].at = "delete_enrollments" \/ (load.alone /\ load.by = {i})]
  /\ UNCHANGED <<schema, recorded, tenants, granted>>

\* The step that deletes the rows of a table.
Deleting(table) == IF table = "enrollments" THEN "delete_enrollments" ELSE "delete_students"

\* Mutant of DeleteRows: only the enrollments are deleted.
KeepStudents(i) ==
  \E table \in Table :
    /\ init[i].at = Deleting(table)
    /\ app' = IF table = "students" THEN app ELSE [app EXCEPT ![table] = {}]
    /\ Goto(i, IF table = "enrollments" THEN "delete_students" ELSE "students")
    /\ Loading(i)

\* Rows that are no longer in the profile must not stay.
DeleteRows(i) ==
  \E table \in Table :
    /\ init[i].at = Deleting(table)
    /\ app' = [app EXCEPT ![table] = {}]
    /\ Goto(i, IF table = "enrollments" THEN "delete_students" ELSE "students")
    /\ Loading(i)

\* The students of a generation, then its enrollments, then the next generation.
AfterTable(i) ==
  IF init[i].at = "students" THEN [init[i] EXCEPT !.at = "enrollments", !.row = 1]
  ELSE IF init[i].gen < Generations
  THEN [init[i] EXCEPT !.at = "students", !.row = 1, !.gen = @ + 1]
  ELSE [init[i] EXCEPT !.at = "manifest"]

InsertBatch(i) ==
  \E table \in Table :
    LET rows == Rows(init[i].release, table, init[i].gen)
        last == init[i].row + BatchSize - 1
    IN  /\ init[i].at = table
        /\ app' = [app EXCEPT ![table] = Upsert(@, {rows[k] : k \in DOMAIN rows \cap init[i].row..last})]
        /\ init' = [init EXCEPT ![i] = IF last >= Len(init[i].release[table]) THEN AfterTable(i)
                                       ELSE [@ EXCEPT !.row = last + 1]]
        /\ Loading(i)

WriteManifest(i) ==
  /\ init[i].at = "manifest"
  /\ Goto(i, "tenant")
  /\ Loading(i)
  /\ UNCHANGED app

-----------------------------------------------------------------------------
(* establishDemoTenant, provisionRuntimeRole.                              *)

Aliases(r) == {t \in Tenant \ {r.tenant} : tenants[t].client = {r.client}}

\* Predecessors that used the demo keys are given hashes of which nobody knows the key.
Assigned(r) ==
  [t \in Tenant |->
     IF t = r.tenant THEN [slug |-> {r.slug}, client |-> {r.client}]
     ELSE IF t \in Aliases(r) THEN [tenants[t] EXCEPT !.client = {}]
     ELSE tenants[t]]

\* Mutant of EstablishDemoTenant: predecessors are retired in a transaction of their own.
RetireFirst(i) ==
  LET r == init[i].release
  IN  /\ init[i].at = "tenant"
      /\ IF Aliases(r) # {}
         THEN tenants' = [Assigned(r) EXCEPT ![r.tenant] = tenants[r.tenant]] /\ UNCHANGED init
         ELSE tenants' = Assigned(r) /\ Goto(i, "revoke")
      /\ UNCHANGED <<schema, recorded, app, granted, load>>

\* One transaction; the slug of another tenant is refused.  Two that overlap conflict in
\* the unique keys, and one of them dies.
EstablishDemoTenant(i) ==
  LET r == init[i].release
  IN  /\ init[i].at = "tenant"
      /\ IF \E t \in Tenant \ {r.tenant} : tenants[t].slug = {r.slug}
         THEN Goto(i, "dead") /\ UNCHANGED tenants
         ELSE tenants' = Assigned(r) /\ Goto(i, "revoke")
      /\ UNCHANGED <<schema, recorded, app, granted, load>>

\* The role loses what it may do before it is given it again.
Revoke(i) ==
  /\ init[i].at = "revoke"
  /\ granted' = FALSE
  /\ Goto(i, "grant")
  /\ UNCHANGED <<schema, recorded, app, tenants, load>>

Grant(i) ==
  /\ init[i].at = "grant"
  /\ granted' = TRUE
  /\ Goto(i, "done")
  /\ UNCHANGED <<schema, recorded, app, tenants, load>>

\* The process is killed, or a statement fails.
Die(i) ==
  /\ init[i].at \notin {"new", "done", "dead"}
  /\ Goto(i, "dead")
  /\ UNCHANGED <<schema, recorded, app, tenants, granted, load>>

SetupStep ==
  \E i \in Process :
    \/ Start(i) \/ CheckFile(i) \/ ApplyFile(i) \/ DeleteRows(i) \/ InsertBatch(i)
    \/ WriteManifest(i) \/ EstablishDemoTenant(i) \/ Revoke(i) \/ Grant(i) \/ Die(i)

-----------------------------------------------------------------------------
(* Properties.                                                             *)

Passed(i) ==
  CASE init[i].at \in {"new", "dead"} -> {}
    [] init[i].at \in {"check", "apply"} -> Range(SubSeq(init[i].release.files, 1, init[i].file - 1))
    [] OTHER -> Range(init[i].release.files)

\* schema_migrations records exactly the migrations whose statements took effect, each of
\* them took effect once, and an execution goes on to the fixtures only over the very files
\* it holds, however executions of different releases race and die.
SchemaIsRecorded ==
  /\ recorded = Range(schema)
  /\ \A j, k \in DOMAIN schema : schema[j].version = schema[k].version => j = k
  /\ \A i \in Process : Passed(i) \subseteq recorded

\* "Removing rows that no longer occur in a reduced profile prevents a prior larger local
\* seed from inflating the next sync" (fixture-loader.ts:29): unless two loads overlapped,
\* an enrollment has its student at every moment of a load, also of one that dies and is
\* run again with another profile, and the rows are those of the profile when it is over.
LoadsReplace ==
  load.alone =>
    /\ \A e \in app["enrollments"] : \E s \in app["students"] : s.gen = e.gen /\ s.id = e.student
    /\ load.over => \E r \in Release : \A table \in Table : app[table] = Profile(r, table)

Holders(rows, key) == {t \in Tenant : rows[t].client = {key}}

\* Once the demo key has been given out it names one tenant, the old one or the new one, at
\* every moment of a change of tenants: it is lost only when its tenant gets another key.
KeyIsKept ==
  [][\A r \in Release : Holders(tenants, r.client) # {} =>
       \/ Cardinality(Holders(tenants', r.client)) = 1
       \/ \E t \in Holders(tenants, r.client) : tenants'[t].client \notin {{}, {r.client}}]_setupVars
=============================================================================
