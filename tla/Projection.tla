----------------------------- MODULE Projection ------------------------------
(***************************************************************************)
(* What a sync run stores of sources that are complete, besides their      *)
(* records: the canonical entities with their links and households         *)
(* (buildCanonicalProjection, persistProjection), and a verdict of each    *)
(* rule on each student (persistInvariants).  The two are computed apart   *)
(* from the same fixtures and stored in two transactions; the dashboard    *)
(* puts them side by side.                                                 *)
(***************************************************************************)
EXTENDS Rules

CONSTANT Sorted(_, _)  \* the order of localeCompare on canonical ids

-----------------------------------------------------------------------------
(* buildCanonicalProjection.                                               *)

StudentId(id) == <<"student", id>>

\* Ids of students are in an order: a record of several entities is stored with the first.
ASSUME SortedAssumption ==
  \A x, y, z \in {StudentId(s.id) : s \in Student} :
    /\ Sorted(x, y) \/ Sorted(y, x)
    /\ Sorted(x, y) /\ Sorted(y, x) => x = y
    /\ Sorted(x, y) /\ Sorted(y, z) => Sorted(x, z)

Connected(f, id) == ContactsOf(f, id) # {} \/ PaymentsOf(f, id) # {}

MatchMethod(f, id) ==
  IF \E r \in ContactsOf(f, id) \cup PaymentsOf(f, id) : r.hard = id THEN "hard_external_id"
  ELSE IF Connected(f, id) THEN "name_dob" ELSE "none"

\* Mutant of StudentEntity: the payments that were paid, linked or not.
StudentEntityByEmail(f, s) ==
  [id |-> StudentId(s.id), kind |-> "student", method |-> MatchMethod(f, s.id),
   registered |-> EnrollmentsOf(f, s.id) # {},
   paid |-> \E p \in Records(f, "payments") :
              p.status = "paid" /\ Canonical[p.email] = Canonical[s.email],
   deals |-> {d.id : d \in DealsOf(f, s.id)},
   contacts |-> {c.id : c \in ContactsOf(f, s.id)},
   payments |-> {p.id : p \in PaymentsOf(f, s.id)}]

\* The summary of a student; registered and paid are what it says of them.
StudentEntity(f, s) ==
  [id |-> StudentId(s.id), kind |-> "student", method |-> MatchMethod(f, s.id),
   registered |-> EnrollmentsOf(f, s.id) # {},
   paid |-> \E p \in PaymentsOf(f, s.id) : p.status = "paid",
   deals |-> {d.id : d \in DealsOf(f, s.id)},
   contacts |-> {c.id : c \in ContactsOf(f, s.id)},
   payments |-> {p.id : p \in PaymentsOf(f, s.id)}]

Unlinked(f, table) == {r \in Records(f, table) : StudentOf(f, r) = None}

Entities(f) ==
  {StudentEntity(f, s) : s \in Records(f, "students")}
    \cup {[id |-> <<"contact", c.id>>, kind |-> "lead"] : c \in Unlinked(f, "contacts")}
    \cup {[id |-> <<"payment", p.id>>, kind |-> "unlinked_payment"] : p \in Unlinked(f, "payments")}

Link(entity, table, record) == [entity |-> entity, record |-> <<table, record>>]

StudentLinks(f, s) ==
  {Link(StudentId(s.id), "students", s.id)}
    \cup (IF EnrollmentsOf(f, s.id) = {} THEN {}
          ELSE {Link(StudentId(s.id), "enrollments", EnrollmentOf(f, s.id).id)})
    \cup {Link(StudentId(s.id), "contacts", c.id) : c \in ContactsOf(f, s.id)}
    \cup {Link(StudentId(s.id), "payments", p.id) : p \in PaymentsOf(f, s.id)}
    \cup {Link(StudentId(s.id), "deals", d.id) : d \in DealsOf(f, s.id)}

Links(f) ==
  (UNION {StudentLinks(f, s) : s \in Records(f, "students")})
    \cup {Link(<<"contact", c.id>>, "contacts", c.id) : c \in Unlinked(f, "contacts")}
    \cup {Link(<<"payment", p.id>>, "payments", p.id) : p \in Unlinked(f, "payments")}

Households(f) ==
  {[id |-> h, members |-> {StudentId(s.id) : s \in Household(f, h)}] :
   h \in {s.household : s \in Records(f, "students")} \ {None}}

\* persistProjection: of the links of one record, the first in the order of the canonical
\* ids is stored, for the others find its row.
PersistedLinks(f) ==
  LET links == Links(f)
  IN  {l \in links : \A m \in links :
         m.record = l.record => m = l \/ Sorted(l.entity, m.entity)}

-----------------------------------------------------------------------------
(* The verdicts of persistInvariants.                                      *)

StudentRefs(c) == {ref \in c.refs : ref[1] = "student"}

\* The conflict that the verdict of a rule on a student refers to: one of them.
OfStudent(conflicts, rule, id) == {c \in conflicts : c.rule = rule /\ StudentRefs(c) = {<<"student", id>>}}
Chosen(conflicts) ==
  {CHOOSE d \in OfStudent(conflicts, c.rule, (CHOOSE ref \in StudentRefs(c) : TRUE)[2]) : TRUE :
   c \in {e \in conflicts : StudentRefs(e) # {}}}

\* Mutant of Others: conflicts of students have their verdicts.
OthersOfNoStudent(conflicts) == {c \in conflicts : StudentRefs(c) = {}}

\* The conflicts that get a row of their own, since no verdict on a student refers to them.
Others(conflicts) == conflicts \ Chosen(conflicts)

\* A verdict of each rule on each student of the app, and the rows of the other conflicts.
InvariantResults(f, conflicts) ==
  LET OfThis(c) == \E s \in Records(f, "students") : <<"student", s.id>> \in c.refs
  IN  [failing |-> {c \in Chosen(conflicts) : OfThis(c)} \cup Others(conflicts),
       passing |-> 14 * Cardinality(Records(f, "students"))
                     - Cardinality({c \in Chosen(conflicts) : OfThis(c)})]

\* What the summary of the run says of them.
Summary(f, conflicts) ==
  [pass |-> 14 * Cardinality(Records(f, "students")) - Cardinality(Chosen(conflicts)),
   fail |-> Cardinality(conflicts)]

-----------------------------------------------------------------------------
(* Properties.                                                             *)

\* The page of an entity and the conflicts about it tell the same story, although they
\* come from different code: every contact and payment is stored under one entity, the
\* student the rules blame or one of its own; a payment without a person is exactly an
\* entity of that kind; and a conflict that finds something missing is about an entity
\* that does not show it.
EntitiesAgreeWithConflicts ==
  LET conflicts == AllConflicts(fixtures)
      entities == Entities(fixtures)
      stored == PersistedLinks(fixtures)
      Blamed(rules) == {c \in conflicts : c.rule \in rules /\ \E e \in entities : e.id \in c.refs}
      Shown(c) == CHOOSE e \in entities : e.id \in StudentRefs(c)
  IN  /\ \A table \in DOMAIN Tables : \A r \in Records(fixtures, table) :
           LET links == {l \in stored : l.record = <<table, r.id>>}
           IN  /\ Cardinality(links) <= 1
               /\ table \in {"students", "contacts", "payments"} => links # {}
               /\ table = "deals" /\ links = {} =>
                    \A s \in Records(fixtures, "students") : ~Concerns(fixtures, r, s.id)
      /\ {e.id : e \in {x \in entities : x.kind = "unlinked_payment"}}
           = UNION {c.refs : c \in {x \in conflicts : x.rule = "C2"}}
      /\ \A c \in Blamed({"C1"}) : Shown(c).registered /\ Shown(c).paid /\ Shown(c).deals = {}
      /\ \A c \in Blamed({"C5"}) : Shown(c).method = "none" /\ ~Shown(c).registered
      /\ \A c \in Blamed({"C7", "C8"}) : ~Shown(c).paid /\ Shown(c).payments = {}
      /\ \A c \in Blamed({"C4", "C6", "C14"}) : Shown(c).contacts # {}

\* Every conflict has exactly one failing row and the summary counts the rows, which the
\* dashboard compares with the active conflicts, unless an enrollment is of a student the
\* app does not hold.
ResultsCoverConflicts ==
  LET conflicts == AllConflicts(fixtures)
      results == InvariantResults(fixtures, conflicts)
      summary == Summary(fixtures, conflicts)
      Unknown(e) == \A s \in Records(fixtures, "students") : s.id # e.student
  IN  \/ results.failing = conflicts /\ results.passing = summary.pass
      \/ \E e \in Records(fixtures, "enrollments") :
           Unknown(e) /\ \E c \in conflicts \ results.failing : <<"enrollment", e.id>> \in c.refs
=============================================================================
