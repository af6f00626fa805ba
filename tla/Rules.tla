------------------------------- MODULE Rules --------------------------------
(***************************************************************************)
(* The fourteen rules and the identities they rest on: evaluateInvariants  *)
(* and IdentityIndex, as functions of what the three sources hold.         *)
(*                                                                         *)
(* A source is a sequence of records in the order its adapter returns      *)
(* them, and the order matters: where the code takes the first record of a *)
(* student, or the last, so does the model.  A spelling of an email or a   *)
(* grade is normalized by Canonical.  A person stands for a normalized     *)
(* name with its date of birth.                                            *)
(*                                                                         *)
(* The state is what the sources hold; records arrive one at a time.       *)
(***************************************************************************)
EXTENDS Policy, Sequences

CONSTANTS
  Student,    \* records the app may hold: id, person, email, grade, candidate, household
  Enrollment, \* and: id, student, stage, deposit (deposit_paid_at is set), deal
  Contact,    \* records of the CRM: id, hard, person, dob (it is given), email, grade, role,
              \* owner, merged (it carries a second person)
  Deal,       \* and: id, contacts
  Payment,    \* records of payments: id, payment, hard, person, dob (name and date of birth
              \* are given), email, type, status, expected (the amount is that of its type)
  None,       \* an optional value that is not given
  Canonical,  \* the normal form of a spelling
  Most        \* bound: the records of each table

Tables == [students |-> Student, enrollments |-> Enrollment, contacts |-> Contact,
           deals |-> Deal, payments |-> Payment]

ASSUME RulesAssumption ==
  /\ DOMAIN Most = DOMAIN Tables
  /\ \A table \in DOMAIN Tables : Most[table] \in Nat
  /\ \A table \in DOMAIN Tables : \A record \in Tables[table] : record.id # None

Source == {"crm", "app", "payments"}
SourceOf == [students |-> "app", enrollments |-> "app", contacts |-> "crm", deals |-> "crm",
             payments |-> "payments"]

VARIABLE fixtures  \* what the sources hold, by table

vars == fixtures

Records(f, table) == {f[table][i] : i \in DOMAIN f[table]}

\* The first and the last of the records of a sequence that are in a set.
First(seq, set) == seq[CHOOSE i \in DOMAIN seq :
                         seq[i] \in set /\ \A j \in DOMAIN seq : seq[j] \in set => i <= j]
Last(seq, set) == seq[CHOOSE i \in DOMAIN seq :
                        seq[i] \in set /\ \A j \in DOMAIN seq : seq[j] \in set => j <= i]

-----------------------------------------------------------------------------
(* Identity.                                                               *)

ByHardId(f, record) == {s \in Records(f, "students") : record.hard = s.id}
ByNameDob(f, record) == {s \in Records(f, "students") : record.dob /\ record.person = s.person}
ByEmail(f, record) ==
  {s \in Records(f, "students") : Canonical[record.email] = Canonical[s.email]}

\* Mutant: evidence that names several students falls through to weaker evidence.
CandidatesAlone(f, record) ==
  IF Cardinality(ByHardId(f, record)) = 1 THEN ByHardId(f, record)
  ELSE IF Cardinality(ByNameDob(f, record)) = 1 THEN ByNameDob(f, record)
  ELSE ByEmail(f, record)

\* The candidates of the strongest evidence that has any.
Candidates(f, record) ==
  IF ByHardId(f, record) # {} THEN ByHardId(f, record)
  ELSE IF ByNameDob(f, record) # {} THEN ByNameDob(f, record)
  ELSE ByEmail(f, record)

\* Mutant: the first of several candidates is taken.
StudentOfFirst(f, record) ==
  IF Candidates(f, record) # {} THEN First(f.students, Candidates(f, record)).id ELSE None

\* The id of the one candidate; several are ambiguous and link to none.
StudentOf(f, record) ==
  LET candidates == Candidates(f, record)
  IN  IF Cardinality(candidates) = 1 THEN (CHOOSE s \in candidates : TRUE).id ELSE None

ContactsOf(f, id) == {c \in Records(f, "contacts") : StudentOf(f, c) = id}
PaymentsOf(f, id) == {p \in Records(f, "payments") : StudentOf(f, p) = id}
EnrollmentsOf(f, id) == {e \in Records(f, "enrollments") : e.student = id}

\* The contact or payment the rules look at, and the enrollment the index keeps.
ContactOf(f, id) == First(f.contacts, ContactsOf(f, id))
EnrollmentOf(f, id) == Last(f.enrollments, EnrollmentsOf(f, id))

Concerns(f, deal, id) == \E c \in ContactsOf(f, id) : c.id \in deal.contacts
DealsOf(f, id) == {d \in Records(f, "deals") : Concerns(f, d, id)}

\* The students contacts and payments are linked to.
Linked(f, table) == {StudentOf(f, r) : r \in Records(f, table)} \ {None}
StudentWith(f, id) == CHOOSE s \in Records(f, "students") : s.id = id

-----------------------------------------------------------------------------
(* The rules.                                                              *)

Dependencies ==
  [C1 |-> Source,               C2 |-> Source,                C3 |-> {"crm"},
   C4 |-> {"crm", "app"},       C5 |-> Source,                C6 |-> {"crm", "app"},
   C7 |-> {"app", "payments"},  C8 |-> Source,                C9 |-> {"crm", "app"},
   C10 |-> {"crm", "app"},      C11 |-> {"payments"},         C12 |-> {"payments"},
   C13 |-> {"app", "payments"}, C14 |-> {"crm", "payments"}]

\* A conflict involves the sources its rule depends on. The evidence is left out, but for
\* the records it was found in.
BuildConflict(rule, refs, fields, cause) ==
  [rule |-> rule, refs |-> refs, sources |-> Dependencies[rule], fields |-> fields,
   cause |-> cause]

\* What stableKey hashes.
Key(conflict) == <<conflict.rule, conflict.refs, conflict.fields>>

\* Mutant: the payments that bear the email of the student, linked or not.
DepositsByEmail(f, id) ==
  {p \in Records(f, "payments") :
     /\ p.status = "paid" /\ p.type = "deposit"
     /\ Canonical[p.email] = Canonical[StudentWith(f, id).email]}

PaidDeposits(f, id) == {p \in PaymentsOf(f, id) : p.status = "paid" /\ p.type = "deposit"}

PaidButNoDeal(f) ==
  {BuildConflict("C1",
     {<<"student", id>>, <<"payment", First(f.payments, PaidDeposits(f, id)).id>>},
     {"crm_deal_id"}, {id}) :
   id \in {i \in Linked(f, "payments") :
             PaidDeposits(f, i) # {} /\ EnrollmentsOf(f, i) # {} /\ DealsOf(f, i) = {}}}

\* Mutant: a conflict refers to the payment number, which is not unique.
PaymentNumberWithNoPerson(f) ==
  {BuildConflict("C2", {<<"payment", p.payment>>}, {"person_link"}, {p}) :
   p \in {q \in Records(f, "payments") : StudentOf(f, q) = None}}

PaymentWithNoPerson(f) ==
  {BuildConflict("C2", {<<"payment", p.id>>}, {"person_link"}, {p}) :
   p \in {q \in Records(f, "payments") : StudentOf(f, q) = None}}

\* Student contacts with the email, the name and the date of birth of a contact.
SamePerson(f, contact) ==
  {c \in Records(f, "contacts") :
     /\ c.role = "student" /\ Canonical[c.email] = Canonical[contact.email]
     /\ c.person = contact.person /\ c.dob = contact.dob}

DuplicateByEmail(f) ==
  {BuildConflict("C3", {<<"crm", c.id>> : c \in pair}, {"email"}, pair) :
   pair \in {p \in {SamePerson(f, c) : c \in Records(f, "contacts")} : Cardinality(p) = 2}}

CrossSourceEmailMismatch(f) ==
  {BuildConflict("C4", {<<"student", id>>, <<"crm", ContactOf(f, id).id>>}, {"email"}, {id}) :
   id \in {i \in Linked(f, "contacts") :
             Canonical[StudentWith(f, i).email] # Canonical[ContactOf(f, i).email]}}

RequiredSourceMissing(f) ==
  {BuildConflict("C5", {<<"student", s.id>>}, {"source_presence"}, {s.id}) :
   s \in {t \in Records(f, "students") :
            /\ t.candidate /\ ContactsOf(f, t.id) = {} /\ PaymentsOf(f, t.id) = {}
            /\ EnrollmentsOf(f, t.id) = {}}}

MaterialFieldDisagreement(f) ==
  {BuildConflict("C6", {<<"student", id>>, <<"crm", ContactOf(f, id).id>>}, {"grade"}, {id}) :
   id \in {i \in Linked(f, "contacts") :
             /\ ContactOf(f, i).grade # None
             /\ Canonical[StudentWith(f, i).grade] # Canonical[ContactOf(f, i).grade]}}

\* Mutant: only students the CRM knows.
KnownButUnpaid(f) ==
  {BuildConflict("C7", {<<"student", e.student>>, <<"enrollment", e.id>>}, {"payment_id"}, {e}) :
   e \in {d \in Records(f, "enrollments") :
            /\ d.stage = "enrolled" /\ PaymentsOf(f, d.student) = {}
            /\ ContactsOf(f, d.student) # {}}}

EnrolledButUnpaid(f) ==
  {BuildConflict("C7", {<<"student", e.student>>, <<"enrollment", e.id>>}, {"payment_id"}, {e}) :
   e \in {d \in Records(f, "enrollments") :
            d.stage = "enrolled" /\ PaymentsOf(f, d.student) = {}}}

Household(f, household) == {s \in Records(f, "students") : s.household = household}
Unpaid(f, household) == {s \in Household(f, household) : PaymentsOf(f, s.id) = {}}

DroppedSibling(f) ==
  {BuildConflict("C8", {<<"student", s.id>>, <<"household", s.household>>},
     {"household_member_payment"}, {s.id}) :
   s \in {t \in Records(f, "students") :
            /\ t.household # None /\ Unpaid(f, t.household) = {t}
            /\ \A m \in Household(f, t.household) : ContactsOf(f, m.id) # {}
            /\ EnrollmentsOf(f, t.id) # {} /\ EnrollmentOf(f, t.id).stage = "applied"}}

StaleCrmPointer(f) ==
  {BuildConflict("C9", {<<"student", e.student>>, <<"enrollment", e.id>>}, {"crm_deal_id"}, {e}) :
   e \in {g \in Records(f, "enrollments") :
            /\ g.deal # None
            /\ ~\E d \in Records(f, "deals") : d.id = g.deal /\ Concerns(f, d, g.student)}}

MergeCollapsedRecord(f) ==
  {BuildConflict("C10", {<<"crm", c.id>>}, {"secondary_person"}, {c}) :
   c \in {d \in Records(f, "contacts") : d.merged}}

DuplicatePayment(f) ==
  {BuildConflict("C11", {<<"payment", p.id>> : p \in pair}, {"payment_id"}, pair) :
   pair \in {q \in {{p \in Records(f, "payments") : p.payment = r.payment} :
                      r \in Records(f, "payments")} : Cardinality(q) = 2}}

WrongAmountPayment(f) ==
  {BuildConflict("C12", {<<"payment", p.id>>}, {"amount_cents"}, {p}) :
   p \in {q \in Records(f, "payments") : ~q.expected}}

RefundNotReflected(f) ==
  {BuildConflict("C13", {<<"student", StudentOf(f, p)>>, <<"payment", p.id>>},
     {"deposit_paid_at", "payment_status"}, {p}) :
   p \in {q \in Records(f, "payments") :
            /\ q.status = "refunded" /\ StudentOf(f, q) # None
            /\ EnrollmentsOf(f, StudentOf(f, q)) # {}
            /\ EnrollmentOf(f, StudentOf(f, q)).deposit}}

\* The first payment of a student against the first contact.
OwnerDiffers(f, id) ==
  /\ ContactOf(f, id).owner # None
  /\ Canonical[First(f.payments, PaymentsOf(f, id)).email] # Canonical[ContactOf(f, id).owner]

SensitiveFieldOnlyFix(f) ==
  {BuildConflict("C14",
     {<<"student", id>>, <<"crm", ContactOf(f, id).id>>,
      <<"payment", First(f.payments, PaymentsOf(f, id)).id>>},
     {"billing_owner_email"}, {id}) :
   id \in {i \in Linked(f, "contacts") \cap Linked(f, "payments") : OwnerDiffers(f, i)}}

AllConflicts(f) ==
  PaidButNoDeal(f) \cup PaymentWithNoPerson(f) \cup DuplicateByEmail(f)
    \cup CrossSourceEmailMismatch(f) \cup RequiredSourceMissing(f)
    \cup MaterialFieldDisagreement(f) \cup EnrolledButUnpaid(f) \cup DroppedSibling(f)
    \cup StaleCrmPointer(f) \cup MergeCollapsedRecord(f) \cup DuplicatePayment(f)
    \cup WrongAmountPayment(f) \cup RefundNotReflected(f) \cup SensitiveFieldOnlyFix(f)

\* evaluateInvariants: the rules whose sources are complete, and those left unchecked.
Enabled(complete) == {r \in Rule : Dependencies[r] \subseteq complete}
UncheckedRules(complete) == Rule \ Enabled(complete)
EvaluateInvariants(f, complete) == {c \in AllConflicts(f) : c.rule \in Enabled(complete)}

-----------------------------------------------------------------------------
(* What the sources hold.                                                  *)

Init == fixtures = [table \in DOMAIN Tables |-> <<>>]

\* A record appears in a table; ids are unique in it.
Arrive(table, record) ==
  /\ Len(fixtures[table]) < Most[table]
  /\ \A r \in Records(fixtures, table) : r.id # record.id
  /\ fixtures' = [fixtures EXCEPT ![table] = Append(@, record)]

Next == \E table \in DOMAIN Tables : \E record \in Tables[table] : Arrive(table, record)

Spec == Init /\ [][Next]_vars

-----------------------------------------------------------------------------
(* Properties.                                                             *)

\* No two conflicts of an evaluation have the same key: persistInvariants upserts them in
\* one statement, and ON CONFLICT DO UPDATE cannot touch a row twice.
KeysAreDistinct ==
  \A c, d \in AllConflicts(fixtures) : Key(c) = Key(d) => c = d

Backwards(seq) == [i \in DOMAIN seq |-> seq[Len(seq) + 1 - i]]
Reordered(f, source) ==
  [table \in DOMAIN f |-> IF SourceOf[table] = source THEN Backwards(f[table]) ELSE f[table]]

Doubled(f, id) ==
  \/ Cardinality(ContactsOf(f, id)) > 1
  \/ Cardinality(PaymentsOf(f, id)) > 1
  \/ Cardinality(EnrollmentsOf(f, id)) > 1

\* "returns byte-equivalent conflict identities after source order changes"
\* (tests/unit/invariants.test.ts:519): only the conflicts of a student with two records of
\* one kind depend on the order in which a source returns its records.
OrderMattersOnlyForDoubles ==
  LET conflicts == AllConflicts(fixtures)
  IN  \A source \in Source :
        LET others == {Key(c) : c \in AllConflicts(Reordered(fixtures, source))}
        IN  \A c \in conflicts :
              Key(c) \in others \/ \E ref \in c.refs : ref[1] = "student" /\ Doubled(fixtures, ref[2])

\* A rule that finds payments missing and one that finds fault with a payment never speak
\* of the same student ("does not double-report a refund as missing payment",
\* tests/unit/invariants.test.ts:297).
AbsenceExcludesPresence ==
  \A c, d \in AllConflicts(fixtures) :
    c.rule \in {"C5", "C7", "C8"} /\ d.rule \in {"C1", "C13", "C14"} =>
      \A ref \in c.refs \cap d.refs : ref[1] # "student"

\* A conflict that is applied without a reviewer is about one student, and every contact
\* and payment it refers to is linked to that student.
AppliedRecordsAreLinked ==
  \A c \in AllConflicts(fixtures) : AutoApplied(c) =>
    \E id \in {ref[2] : ref \in {r \in c.refs : r[1] = "student"}} :
      \A ref \in c.refs :
        /\ ref[1] = "student" => ref[2] = id
        /\ ref[1] = "crm" => \E r \in ContactsOf(fixtures, id) : r.id = ref[2]
        /\ ref[1] = "payment" => \E r \in PaymentsOf(fixtures, id) : r.id = ref[2]

\* "never a forced merge" (@docs/BOOTSTRAP.md:417): when another student appears, a record
\* stays with its student, becomes ambiguous, or goes to the newcomer on better evidence;
\* it is never moved to a student that was there before.
NeverRelinked ==
  [][\A table \in {"contacts", "payments"} : \A r \in Records(fixtures, table) :
       StudentOf(fixtures, r) # None =>
         StudentOf(fixtures', r) \in {StudentOf(fixtures, r), None}
           \cup ({s.id : s \in Records(fixtures', "students")}
                   \ {s.id : s \in Records(fixtures, "students")})]_vars

\* What a rule reports does not depend on a source it does not name: it says the same
\* whatever that source has returned.
Moved == {SourceOf[table] : table \in {t \in DOMAIN Tables : fixtures'[t] # fixtures[t]}}
Changed ==
  LET before == AllConflicts(fixtures)
      after == AllConflicts(fixtures')
  IN  {c.rule : c \in (after \ before) \cup (before \ after)}

\* "unavailable evidence is `unchecked`, never a pass" (README.md:17): a rule that may be
\* evaluated although a source is missing reports what it would with it. C14 is the only
\* one that does not: it names crm and payments, but finds the students of their records in
\* the app.
OnlyC14Guesses ==
  [][\A rule \in Changed \ {"C14"} : Moved \cap Dependencies[rule] # {}]_vars
=============================================================================
