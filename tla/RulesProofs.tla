----------------------------- MODULE RulesProofs ----------------------------
(***************************************************************************)
(* Proofs about the policy, for all signals and all conflicts, and about   *)
(* the rules and the projection, for any records, any spellings and any    *)
(* bounds.                                                                 *)
(***************************************************************************)
EXTENDS Projection, FiniteSetTheorems, WellFoundedInduction, TLAPS

-----------------------------------------------------------------------------
(* What the confidence formula and the gate allow.                         *)

\* The contributions of the two ratios to the score.
LEMMA RoundedRatios ==
  ASSUME NEW n \in BasisPoints
  PROVE  /\ Round(n, 10) \in Int /\ 0 <= Round(n, 10) /\ Round(n, 10) <= 1000
         /\ Round(15 * n, 100) \in Int /\ 0 <= Round(15 * n, 100) /\ Round(15 * n, 100) <= 1500
<1>1. /\ n \in Int /\ 0 <= n /\ n <= 10000
      /\ 2 * 10 = 20 /\ 2 * 100 = 200
  BY SMT DEF BasisPoints
<1>2. (2 * n + 10) \div 20 \in Int /\ 0 <= (2 * n + 10) \div 20 /\ (2 * n + 10) \div 20 <= 1000
  BY <1>1, SMT
<1>3. /\ (2 * (15 * n) + 100) \div 200 \in Int
      /\ 0 <= (2 * (15 * n) + 100) \div 200
      /\ (2 * (15 * n) + 100) \div 200 <= 1500
  BY <1>1, SMT
<1>4. Round(n, 10) = (2 * n + 10) \div 20 /\ Round(15 * n, 100) = (2 * (15 * n) + 100) \div 200
  BY <1>1 DEF Round
<1> QED BY <1>2, <1>3, <1>4

\* What a condition contributes.
LEMMA Weights ==
  ASSUME NEW b \in BOOLEAN, NEW w \in Nat
  PROVE  /\ When(b, w) \in Int /\ 0 <= When(b, w) /\ When(b, w) <= w
         /\ ~b => When(b, w) = 0
BY DEF When

\* The score is a sum of seven contributions, three of them negative.
LEMMA Contributions ==
  ASSUME NEW s \in Signals
  PROVE  /\ RawScore(s) \in Int
         /\ ~s.hardIdAgreement => RawScore(s) <= 9000
<1>1. /\ s.agreeingFieldRatioBp \in BasisPoints /\ s.disagreementRatioBp \in BasisPoints
      /\ s.hardIdAgreement \in BOOLEAN /\ s.exactEmailAgreement \in BOOLEAN
      /\ s.exactNameDobAgreement \in BOOLEAN /\ s.uniqueCanonicalMatch \in BOOLEAN
      /\ s.missingEvidence \in BOOLEAN /\ s.evidenceComplete \in BOOLEAN
      /\ s.sensitiveAction \in BOOLEAN
  BY DEF Signals
<1> DEFINE agreeing == Round(s.agreeingFieldRatioBp, 10)
           disagreeing == Round(15 * s.disagreementRatioBp, 100)
           hard == When(s.hardIdAgreement, 3500)
           email == When(s.exactEmailAgreement, 2500)
           name == When(s.exactNameDobAgreement, 2000)
           unique == When(s.uniqueCanonicalMatch, 2000)
           missing == When(s.missingEvidence, 2000)
           complete == When(s.evidenceComplete, 1000)
           sensitive == When(s.sensitiveAction, 3000)
<1>2. agreeing \in Int /\ agreeing <= 1000
  BY <1>1, RoundedRatios
<1>3. disagreeing \in Int /\ 0 <= disagreeing
  BY <1>1, RoundedRatios
<1>4. /\ hard \in Int /\ (~s.hardIdAgreement => hard = 0)
      /\ email \in Int /\ email <= 2500
      /\ name \in Int /\ name <= 2000
      /\ unique \in Int /\ unique <= 2000
      /\ missing \in Int /\ 0 <= missing
      /\ complete \in Int /\ complete <= 1000
      /\ sensitive \in Int /\ 0 <= sensitive
  BY <1>1, Weights
<1>5. RawScore(s) = 500 + hard + email + name + unique + agreeing - disagreeing
                      - missing + complete - sensitive
  BY DEF RawScore
<1> HIDE DEF agreeing, disagreeing, hard, email, name, unique, missing, complete, sensitive
<1> QED BY <1>2, <1>3, <1>4, <1>5

\* scoreConfidence returns basis points: the score stays between 0 and 10,000.
THEOREM ScoreIsBounded ==
  ASSUME NEW s \in Signals
  PROVE  Score(s) \in BasisPoints
<1>1. Score(s) \in Int /\ 0 <= Score(s) /\ Score(s) <= 10000
  BY Contributions DEF Score
<1>2. \A k \in Int : 0 <= k /\ k <= 10000 => k \in BasisPoints
  BY SMT DEF BasisPoints
<1> QED BY <1>1, <1>2

\* Without the agreement on a hard id no evidence reaches the threshold of auto-apply.
THEOREM ConfidenceNeedsHardId ==
  ASSUME NEW s \in Signals, Score(s) >= 9500
  PROVE  s.hardIdAgreement
<1>1. RawScore(s) \in Int /\ RawScore(s) >= 9500
  BY Contributions DEF Score
<1> QED BY <1>1, Contributions

\* The signals of a conflict are signals.
LEMMA SignalsOfConflict ==
  ASSUME NEW conflict, IsFiniteSet(conflict.fields)
  PROVE  SignalsForConflict(conflict) \in Signals
<1> DEFINE n == Cardinality(conflict.fields)
           ratio == IF n * 2000 < 10000 THEN n * 2000 ELSE 10000
<1>1. \A k \in Int : 0 <= k /\ k <= 10000 => k \in BasisPoints
  BY SMT DEF BasisPoints
<1>2. n \in Nat
  BY FS_CardinalityType
<1>3. ratio \in BasisPoints
  <2>1. ratio \in Int /\ 0 <= ratio /\ ratio <= 10000
    BY <1>2
  <2> QED BY <1>1, <2>1
<1>4. 7500 \in BasisPoints /\ 5000 \in BasisPoints
  BY <1>1
<1> HIDE DEF n
<1> QED BY <1>3, <1>4 DEF SignalsForConflict, Signals, Sensitive, n

\* What auto-apply acts on is an approved case on a field that is not sensitive, and its
\* conflict refers to a student and at least one more record.
THEOREM AppliedConflictsAreBacked ==
  ASSUME NEW conflict, IsFiniteSet(conflict.fields), AutoApplied(conflict)
  PROVE  /\ conflict.rule \in AutoApplyCases
         /\ ~Sensitive(conflict)
         /\ \E ref \in conflict.refs : ref[1] = "student"
         /\ Cardinality(conflict.refs) > 1
<1> DEFINE s == SignalsForConflict(conflict)
<1>1. s \in Signals
  BY SignalsOfConflict
<1>2. conflict.rule \in AutoApplyCases /\ ~Sensitive(conflict) /\ Score(s) >= 9500
  BY DEF AutoApplied, CanAutoApply
<1>3. s.hardIdAgreement
  BY <1>1, <1>2, ConfidenceNeedsHardId
<1>4. s.hardIdAgreement <=> ((\E ref \in conflict.refs : ref[1] = "student")
                             /\ Cardinality(conflict.refs) > 1)
  <2> DEFINE hard == (\E ref \in conflict.refs : ref[1] = "student") /\ Cardinality(conflict.refs) > 1
  <2>1. s.hardIdAgreement = hard
    BY SMT DEF SignalsForConflict
  <2> QED BY <2>1
<1> HIDE DEF s
<1> QED BY <1>2, <1>3, <1>4

-----------------------------------------------------------------------------
(* The tables.                                                             *)

\* The tables are sequences of their records, with unique ids.
TableOK(table) ==
  /\ fixtures[table] \in Seq(Tables[table])
  /\ \A r, s \in Records(fixtures, table) : r.id = s.id => r = s

TablesOK == DOMAIN fixtures = DOMAIN Tables /\ \A table \in DOMAIN Tables : TableOK(table)

-----------------------------------------------------------------------------
(* Sequences.                                                              *)

\* The first record of a set in a sequence is one of the set.
LEMMA FirstIsMember ==
  ASSUME NEW S, NEW seq \in Seq(S), NEW set,
         \E i \in DOMAIN seq : seq[i] \in set
  PROVE  First(seq, set) \in set
<1> DEFINE I == {i \in DOMAIN seq : seq[i] \in set}
           R == {ss \in Nat \X Nat : ss[1] < ss[2]}
<1>1. I \subseteq Nat /\ I # {}
  OBVIOUS
<1>2. PICK i \in I : \A j \in I : ~(<<j, i>> \in R)
  <2>1. IsWellFoundedOn(R, Nat)
    BY NatLessThanWellFounded DEF OpToRel
  <2> HIDE DEF I, R
  <2> QED BY <1>1, <2>1, WFMin
<1>3. \A j \in I : i <= j
  <2> SUFFICES ASSUME NEW j \in I PROVE i <= j
    OBVIOUS
  <2>1. i \in Nat /\ j \in Nat
    BY <1>1
  <2>2. <<j, i>> \notin R
    BY <1>2
  <2>3. ~(j < i)
    BY <2>1, <2>2
  <2> QED BY <2>1, <2>3
<1>4. \E k \in DOMAIN seq : seq[k] \in set /\ \A j \in DOMAIN seq : seq[j] \in set => k <= j
  BY <1>3
<1> QED BY <1>4 DEF First

\* The last record of a set in a sequence is one of the set.
LEMMA LastIsMember ==
  ASSUME NEW S, NEW seq \in Seq(S), NEW set,
         \E i \in DOMAIN seq : seq[i] \in set
  PROVE  Last(seq, set) \in set
<1> DEFINE I == {n \in Nat : \E i \in DOMAIN seq : seq[i] \in set /\ n = Len(seq) - i}
           R == {ss \in Nat \X Nat : ss[1] < ss[2]}
<1>1. DOMAIN seq = 1..Len(seq) /\ Len(seq) \in Nat
  OBVIOUS
<1>2. \A i \in DOMAIN seq : seq[i] \in set => Len(seq) - i \in I
  BY <1>1
<1>3. I \subseteq Nat /\ I # {}
  BY <1>2
<1>4. PICK n \in I : \A k \in I : ~(<<k, n>> \in R)
  <2>1. IsWellFoundedOn(R, Nat)
    BY NatLessThanWellFounded DEF OpToRel
  <2> HIDE DEF I, R
  <2> QED BY <1>3, <2>1, WFMin
<1>5. PICK i \in DOMAIN seq : seq[i] \in set /\ n = Len(seq) - i
  OBVIOUS
<1>6. ASSUME NEW j \in DOMAIN seq, seq[j] \in set PROVE j <= i
  <2>1. Len(seq) - j \in I /\ Len(seq) - j \in Nat /\ n \in Nat
    BY <1>1, <1>2, <1>6
  <2>2. ~(Len(seq) - j < n)
    BY <1>4, <2>1
  <2> QED BY <1>1, <1>5, <2>2
<1>7. \E k \in DOMAIN seq : seq[k] \in set /\ \A j \in DOMAIN seq : seq[j] \in set => j <= k
  BY <1>5, <1>6
<1> QED BY <1>7 DEF Last

\* A record that is appended joins the records of the sequence.
LEMMA AppendedRecords ==
  ASSUME NEW table, NEW S, fixtures[table] \in Seq(S), NEW record,
         fixtures'[table] = Append(fixtures[table], record)
  PROVE  Records(fixtures', table) = Records(fixtures, table) \cup {record}
<1> DEFINE old == fixtures[table]
           new == fixtures'[table]
<1>1. /\ DOMAIN old = 1..Len(old) /\ Len(old) \in Nat
      /\ DOMAIN new = 1..(Len(old) + 1)
      /\ new[Len(old) + 1] = record
      /\ \A i \in 1..Len(old) : new[i] = old[i]
  OBVIOUS
<1>2. ASSUME NEW r \in Records(fixtures', table)
      PROVE  r \in Records(fixtures, table) \cup {record}
  <2>1. PICK i \in DOMAIN new : r = new[i]
    BY <1>2 DEF Records
  <2>2. CASE i = Len(old) + 1
    BY <1>1, <2>1, <2>2
  <2>3. CASE i # Len(old) + 1
    <3>1. i \in 1..Len(old)
      BY <1>1, <2>1, <2>3
    <3> QED BY <1>1, <2>1, <3>1 DEF Records
  <2> QED BY <2>2, <2>3
<1>3. record \in Records(fixtures', table)
  <2>1. Len(old) + 1 \in DOMAIN new
    BY <1>1
  <2> QED BY <1>1, <2>1 DEF Records
<1>4. ASSUME NEW r \in Records(fixtures, table)
      PROVE  r \in Records(fixtures', table)
  <2>1. PICK i \in 1..Len(old) : r = old[i]
    BY <1>1, <1>4 DEF Records
  <2>2. i \in DOMAIN new /\ new[i] = r
    BY <1>1, <2>1
  <2> QED BY <2>2 DEF Records
<1> QED BY <1>2, <1>3, <1>4

-----------------------------------------------------------------------------
(* The tables.                                                             *)

\* The tables start as they should be, and stay so when a record appears.
LEMMA InitTables == Init => TablesOK
<1> SUFFICES ASSUME Init PROVE TablesOK
  OBVIOUS
<1>1. \A table \in DOMAIN Tables : fixtures[table] = <<>>
  BY DEF Init
<1>2. \A S : <<>> \in Seq(S) /\ DOMAIN <<>> = {}
  OBVIOUS
<1>3. ASSUME NEW table \in DOMAIN Tables
      PROVE  TableOK(table)
  <2>1. fixtures[table] = <<>> /\ Records(fixtures, table) = {}
    BY <1>1, <1>2 DEF Records
  <2> QED BY <1>2, <2>1 DEF TableOK
<1> QED BY <1>3 DEF Init, TablesOK

LEMMA ArriveTables ==
  ASSUME TablesOK, NEW table \in DOMAIN Tables, NEW record \in Tables[table],
         Arrive(table, record)
  PROVE  TablesOK'
<1> USE DEF TablesOK, TableOK
<1>1. DOMAIN fixtures' = DOMAIN Tables
  BY DEF Arrive
<1>2. \A other \in DOMAIN Tables :
        fixtures'[other] = IF other = table THEN Append(fixtures[table], record)
                           ELSE fixtures[other]
  BY DEF Arrive
<1>3. ASSUME NEW other \in DOMAIN Tables, other # table
      PROVE  TableOK(other)'
  <2>1. fixtures'[other] = fixtures[other]
    BY <1>2, <1>3
  <2>2. Records(fixtures', other) = Records(fixtures, other)
    BY <2>1 DEF Records
  <2>3. TableOK(other)
    OBVIOUS
  <2> QED BY <2>1, <2>2, <2>3
<1>4. TableOK(table)'
  <2>1. fixtures'[table] = Append(fixtures[table], record)
    BY <1>2
  <2>2. fixtures[table] \in Seq(Tables[table])
    OBVIOUS
  <2>3. Records(fixtures', table) = Records(fixtures, table) \cup {record}
    BY <2>1, <2>2, AppendedRecords
  <2>4. fixtures'[table] \in Seq(Tables[table])
    BY <2>1, <2>2
  <2>5. \A r \in Records(fixtures, table) : r.id # record.id
    BY DEF Arrive
  <2>6. \A r, s \in Records(fixtures', table) : r.id = s.id => r = s
    BY <2>3, <2>5
  <2> QED BY <2>4, <2>6 DEF Records
<1> QED BY <1>1, <1>3, <1>4

\* The sources hold sequences of records with unique ids.
THEOREM TablesAreOK == Spec => []TablesOK
<1>1. TablesOK /\ [Next]_vars => TablesOK'
  <2> SUFFICES ASSUME TablesOK, [Next]_vars PROVE TablesOK'
    OBVIOUS
  <2>1. CASE Next
    BY <2>1, ArriveTables DEF Next
  <2>2. CASE UNCHANGED vars
    BY <2>2 DEF vars, TablesOK, TableOK, Records
  <2> QED BY <2>1, <2>2
<1> QED BY InitTables, <1>1, PTL DEF Spec

\* A table holds finitely many records.
LEMMA RecordsAreFinite ==
  ASSUME TablesOK, NEW table \in DOMAIN Tables
  PROVE  IsFiniteSet(Records(fixtures, table))
<1> DEFINE seq == fixtures[table]
<1>1. seq \in Seq(Tables[table])
  BY DEF TablesOK, TableOK
<1>2. seq \in [1..Len(seq) -> Records(fixtures, table)] /\ Len(seq) \in Nat
  BY <1>1 DEF Records
<1>3. \A r \in Records(fixtures, table) : \E i \in 1..Len(seq) : seq[i] = r
  BY <1>1 DEF Records
<1>4. seq \in Surjection(1..Len(seq), Records(fixtures, table))
  BY <1>2, <1>3 DEF Surjection
<1>5. IsFiniteSet(1..Len(seq))
  BY <1>2, FS_Interval
<1> QED BY <1>4, <1>5, FS_Surjection

\* The first and the last of some records of a table are among them.
LEMMA FirstOfTable ==
  ASSUME TablesOK, NEW table \in DOMAIN Tables, NEW set,
         set \subseteq Records(fixtures, table), set # {}
  PROVE  First(fixtures[table], set) \in set
<1>1. fixtures[table] \in Seq(Tables[table])
  BY DEF TablesOK, TableOK
<1>2. \E i \in DOMAIN fixtures[table] : fixtures[table][i] \in set
  BY DEF Records
<1> QED BY <1>1, <1>2, FirstIsMember

LEMMA LastOfTable ==
  ASSUME TablesOK, NEW table \in DOMAIN Tables, NEW set,
         set \subseteq Records(fixtures, table), set # {}
  PROVE  Last(fixtures[table], set) \in set
<1>1. fixtures[table] \in Seq(Tables[table])
  BY DEF TablesOK, TableOK
<1>2. \E i \in DOMAIN fixtures[table] : fixtures[table][i] \in set
  BY DEF Records
<1> QED BY <1>1, <1>2, LastIsMember

-----------------------------------------------------------------------------
(* Rules that find payments missing, and rules that find fault with one.   *)

\* The rule of a conflict says which definition found it.
LEMMA FoundByRule ==
  ASSUME NEW f, NEW c \in AllConflicts(f)
  PROVE  /\ c.rule \in Rule
         /\ c.rule = "C1" => c \in PaidButNoDeal(f)
         /\ c.rule = "C2" => c \in PaymentWithNoPerson(f)
         /\ c.rule = "C3" => c \in DuplicateByEmail(f)
         /\ c.rule = "C4" => c \in CrossSourceEmailMismatch(f)
         /\ c.rule = "C5" => c \in RequiredSourceMissing(f)
         /\ c.rule = "C6" => c \in MaterialFieldDisagreement(f)
         /\ c.rule = "C7" => c \in EnrolledButUnpaid(f)
         /\ c.rule = "C8" => c \in DroppedSibling(f)
         /\ c.rule = "C9" => c \in StaleCrmPointer(f)
         /\ c.rule = "C10" => c \in MergeCollapsedRecord(f)
         /\ c.rule = "C11" => c \in DuplicatePayment(f)
         /\ c.rule = "C12" => c \in WrongAmountPayment(f)
         /\ c.rule = "C13" => c \in RefundNotReflected(f)
         /\ c.rule = "C14" => c \in SensitiveFieldOnlyFix(f)
<1>1. CASE c \in PaidButNoDeal(f)
  <2>1. c.rule = "C1"
    BY <1>1 DEF PaidButNoDeal, BuildConflict
  <2> QED BY <1>1, <2>1 DEF Rule
<1>2. CASE c \in PaymentWithNoPerson(f)
  <2>1. c.rule = "C2"
    BY <1>2 DEF PaymentWithNoPerson, BuildConflict
  <2> QED BY <1>2, <2>1 DEF Rule
<1>3. CASE c \in DuplicateByEmail(f)
  <2>1. c.rule = "C3"
    BY <1>3 DEF DuplicateByEmail, BuildConflict
  <2> QED BY <1>3, <2>1 DEF Rule
<1>4. CASE c \in CrossSourceEmailMismatch(f)
  <2>1. c.rule = "C4"
    BY <1>4 DEF CrossSourceEmailMismatch, BuildConflict
  <2> QED BY <1>4, <2>1 DEF Rule
<1>5. CASE c \in RequiredSourceMissing(f)
  <2>1. c.rule = "C5"
    BY <1>5 DEF RequiredSourceMissing, BuildConflict
  <2> QED BY <1>5, <2>1 DEF Rule
<1>6. CASE c \in MaterialFieldDisagreement(f)
  <2>1. c.rule = "C6"
    BY <1>6 DEF MaterialFieldDisagreement, BuildConflict
  <2> QED BY <1>6, <2>1 DEF Rule
<1>7. CASE c \in EnrolledButUnpaid(f)
  <2>1. c.rule = "C7"
    BY <1>7 DEF EnrolledButUnpaid, BuildConflict
  <2> QED BY <1>7, <2>1 DEF Rule
<1>8. CASE c \in DroppedSibling(f)
  <2>1. c.rule = "C8"
    BY <1>8 DEF DroppedSibling, BuildConflict
  <2> QED BY <1>8, <2>1 DEF Rule
<1>9. CASE c \in StaleCrmPointer(f)
  <2>1. c.rule = "C9"
    BY <1>9 DEF StaleCrmPointer, BuildConflict
  <2> QED BY <1>9, <2>1 DEF Rule
<1>10. CASE c \in MergeCollapsedRecord(f)
  <2>1. c.rule = "C10"
    BY <1>10 DEF MergeCollapsedRecord, BuildConflict
  <2> QED BY <1>10, <2>1 DEF Rule
<1>11. CASE c \in DuplicatePayment(f)
  <2>1. c.rule = "C11"
    BY <1>11 DEF DuplicatePayment, BuildConflict
  <2> QED BY <1>11, <2>1 DEF Rule
<1>12. CASE c \in WrongAmountPayment(f)
  <2>1. c.rule = "C12"
    BY <1>12 DEF WrongAmountPayment, BuildConflict
  <2> QED BY <1>12, <2>1 DEF Rule
<1>13. CASE c \in RefundNotReflected(f)
  <2>1. c.rule = "C13"
    BY <1>13 DEF RefundNotReflected, BuildConflict
  <2> QED BY <1>13, <2>1 DEF Rule
<1>14. CASE c \in SensitiveFieldOnlyFix(f)
  <2>1. c.rule = "C14"
    BY <1>14 DEF SensitiveFieldOnlyFix, BuildConflict
  <2> QED BY <1>14, <2>1 DEF Rule
<1> QED
  BY <1>1, <1>2, <1>3, <1>4, <1>5, <1>6, <1>7, <1>8, <1>9, <1>10, <1>11, <1>12, <1>13, <1>14
     DEF AllConflicts

\* The students of C5, C7 and C8 have no payment.
LEMMA AbsentPayments ==
  ASSUME NEW f, NEW c \in AllConflicts(f), c.rule \in {"C5", "C7", "C8"},
         NEW ref \in c.refs, ref[1] = "student"
  PROVE  PaymentsOf(f, ref[2]) = {}
<1>1. CASE c.rule = "C5"
  <2>1. PICK s \in Records(f, "students") :
          PaymentsOf(f, s.id) = {} /\ c.refs = {<<"student", s.id>>}
    BY <1>1, FoundByRule DEF RequiredSourceMissing, BuildConflict
  <2> QED BY <2>1
<1>2. CASE c.rule = "C7"
  <2>1. PICK e \in Records(f, "enrollments") :
          /\ PaymentsOf(f, e.student) = {}
          /\ c.refs = {<<"student", e.student>>, <<"enrollment", e.id>>}
    BY <1>2, FoundByRule DEF EnrolledButUnpaid, BuildConflict
  <2> QED BY <2>1
<1>3. CASE c.rule = "C8"
  <2>1. PICK s \in Records(f, "students") :
          /\ Unpaid(f, s.household) = {s}
          /\ c.refs = {<<"student", s.id>>, <<"household", s.household>>}
    BY <1>3, FoundByRule DEF DroppedSibling, BuildConflict
  <2>2. PaymentsOf(f, s.id) = {}
    BY <2>1 DEF Unpaid
  <2> QED BY <2>1, <2>2
<1> QED BY <1>1, <1>2, <1>3

\* The students of C1, C13 and C14 have one.
LEMMA PresentPayments ==
  ASSUME NEW f, NEW c \in AllConflicts(f), c.rule \in {"C1", "C13", "C14"},
         NEW ref \in c.refs, ref[1] = "student"
  PROVE  PaymentsOf(f, ref[2]) # {}
<1>1. CASE c.rule = "C1"
  <2>1. PICK id : /\ PaidDeposits(f, id) # {}
                  /\ c.refs = {<<"student", id>>,
                               <<"payment", First(f.payments, PaidDeposits(f, id)).id>>}
    BY <1>1, FoundByRule DEF PaidButNoDeal, BuildConflict
  <2> QED BY <2>1 DEF PaidDeposits
<1>2. CASE c.rule = "C13"
  <2>1. PICK p \in Records(f, "payments") :
          c.refs = {<<"student", StudentOf(f, p)>>, <<"payment", p.id>>}
    BY <1>2, FoundByRule DEF RefundNotReflected, BuildConflict
  <2>2. p \in PaymentsOf(f, StudentOf(f, p))
    BY DEF PaymentsOf
  <2> QED BY <2>1, <2>2
<1>3. CASE c.rule = "C14"
  <2>1. PICK id \in Linked(f, "payments") :
          c.refs = {<<"student", id>>, <<"crm", ContactOf(f, id).id>>,
                    <<"payment", First(f.payments, PaymentsOf(f, id)).id>>}
    BY <1>3, FoundByRule DEF SensitiveFieldOnlyFix, BuildConflict
  <2>2. PaymentsOf(f, id) # {}
    BY DEF Linked, PaymentsOf
  <2> QED BY <2>1, <2>2
<1> QED BY <1>1, <1>2, <1>3

\* No student is reported both for a missing payment and for a payment: whatever the
\* sources hold, evaluateInvariants does not contradict itself.
THEOREM AbsenceAlwaysExcludesPresence == Spec => []AbsenceExcludesPresence
<1>1. AbsenceExcludesPresence
  <2> SUFFICES ASSUME NEW c \in AllConflicts(fixtures), NEW d \in AllConflicts(fixtures),
                      c.rule \in {"C5", "C7", "C8"}, d.rule \in {"C1", "C13", "C14"},
                      NEW ref \in c.refs \cap d.refs, ref[1] = "student"
               PROVE  FALSE
    BY DEF AbsenceExcludesPresence
  <2>1. PaymentsOf(fixtures, ref[2]) = {}
    BY AbsentPayments
  <2>2. PaymentsOf(fixtures, ref[2]) # {}
    BY PresentPayments
  <2> QED BY <2>1, <2>2
<1> QED BY <1>1, PTL

-----------------------------------------------------------------------------
(* The records of an application without a reviewer.                       *)

\* The conflicts of the approved cases are about one student and the records linked to it.
LEMMA ApprovedAreLinked ==
  ASSUME TablesOK, NEW c \in AllConflicts(fixtures), c.rule \in AutoApplyCases
  PROVE  \E id :
           /\ <<"student", id>> \in c.refs
           /\ \A ref \in c.refs :
                 \/ ref = <<"student", id>>
                 \/ ref[1] \in {"enrollment", "household"}
                 \/ ref[1] = "crm" /\ \E r \in ContactsOf(fixtures, id) : r.id = ref[2]
                 \/ ref[1] = "payment" /\ \E r \in PaymentsOf(fixtures, id) : r.id = ref[2]
<1>1. CASE c.rule = "C1"
  <2>1. PICK id : /\ PaidDeposits(fixtures, id) # {}
                  /\ c.refs = {<<"student", id>>, <<"payment",
                                First(fixtures.payments, PaidDeposits(fixtures, id)).id>>}
    BY <1>1, FoundByRule DEF PaidButNoDeal, BuildConflict
  <2>2. PaidDeposits(fixtures, id) \subseteq PaymentsOf(fixtures, id)
    BY DEF PaidDeposits
  <2>3. First(fixtures.payments, PaidDeposits(fixtures, id)) \in PaidDeposits(fixtures, id)
    BY <2>1, FirstOfTable DEF PaidDeposits, PaymentsOf, Tables
  <2> QED BY <2>1, <2>2, <2>3
<1>2. CASE c.rule = "C6"
  <2>1. PICK id \in Linked(fixtures, "contacts") :
          c.refs = {<<"student", id>>, <<"crm", ContactOf(fixtures, id).id>>}
    BY <1>2, FoundByRule DEF MaterialFieldDisagreement, BuildConflict
  <2>2. ContactsOf(fixtures, id) # {}
    BY DEF Linked, ContactsOf
  <2>3. ContactOf(fixtures, id) \in ContactsOf(fixtures, id)
    BY <2>2, FirstOfTable DEF ContactOf, ContactsOf, Tables
  <2> QED BY <2>1, <2>3
<1>3. CASE c.rule = "C8"
  <2>1. PICK s \in Records(fixtures, "students") :
          c.refs = {<<"student", s.id>>, <<"household", s.household>>}
    BY <1>3, FoundByRule DEF DroppedSibling, BuildConflict
  <2> QED BY <2>1
<1>4. CASE c.rule = "C9"
  <2>1. PICK e \in Records(fixtures, "enrollments") :
          c.refs = {<<"student", e.student>>, <<"enrollment", e.id>>}
    BY <1>4, FoundByRule DEF StaleCrmPointer, BuildConflict
  <2> QED BY <2>1
<1> QED BY <1>1, <1>2, <1>3, <1>4 DEF AutoApplyCases

\* What auto-apply acts on is about one student, and every contact and payment it refers to
\* is linked to that student.
THEOREM AppliedRecordsAreAlwaysLinked == Spec => []AppliedRecordsAreLinked
<1>1. TablesOK => AppliedRecordsAreLinked
  <2> SUFFICES ASSUME TablesOK, NEW c \in AllConflicts(fixtures), AutoApplied(c)
               PROVE  \E id \in {ref[2] : ref \in {r \in c.refs : r[1] = "student"}} :
                        \A ref \in c.refs :
                          /\ ref[1] = "student" => ref[2] = id
                          /\ ref[1] = "crm" => \E r \in ContactsOf(fixtures, id) : r.id = ref[2]
                          /\ ref[1] = "payment" =>
                               \E r \in PaymentsOf(fixtures, id) : r.id = ref[2]
    BY DEF AppliedRecordsAreLinked
  <2>1. c.rule \in AutoApplyCases
    BY DEF AutoApplied, CanAutoApply
  <2>2. PICK id :
          /\ <<"student", id>> \in c.refs
          /\ \A ref \in c.refs :
                \/ ref = <<"student", id>>
                \/ ref[1] \in {"enrollment", "household"}
                \/ ref[1] = "crm" /\ \E r \in ContactsOf(fixtures, id) : r.id = ref[2]
                \/ ref[1] = "payment" /\ \E r \in PaymentsOf(fixtures, id) : r.id = ref[2]
    BY <2>1, ApprovedAreLinked
  <2>3. id \in {ref[2] : ref \in {r \in c.refs : r[1] = "student"}}
    BY <2>2
  <2> QED BY <2>2, <2>3
<1> QED BY TablesAreOK, <1>1, PTL

-----------------------------------------------------------------------------
(* Links.                                                                  *)

\* The candidates for a record before and after a student appears.
LEMMA NewCandidates ==
  ASSUME NEW student, NEW record,
         Records(fixtures', "students") = Records(fixtures, "students") \cup {student}
  PROVE  Candidates(fixtures', record) \in
           {Candidates(fixtures, record), Candidates(fixtures, record) \cup {student}, {student}}
<1>1. ByHardId(fixtures', record) \in
        {ByHardId(fixtures, record), ByHardId(fixtures, record) \cup {student}}
  BY DEF ByHardId
<1>2. ByNameDob(fixtures', record) \in
        {ByNameDob(fixtures, record), ByNameDob(fixtures, record) \cup {student}}
  BY DEF ByNameDob
<1>3. ByEmail(fixtures', record) \in
        {ByEmail(fixtures, record), ByEmail(fixtures, record) \cup {student}}
  BY DEF ByEmail
<1>4. CASE ByHardId(fixtures, record) # {}
  BY <1>1, <1>4 DEF Candidates
<1>5. CASE ByHardId(fixtures, record) = {} /\ ByNameDob(fixtures, record) # {}
  BY <1>1, <1>2, <1>5 DEF Candidates
<1>6. CASE ByHardId(fixtures, record) = {} /\ ByNameDob(fixtures, record) = {}
  BY <1>1, <1>2, <1>3, <1>6 DEF Candidates
<1> QED BY <1>4, <1>5, <1>6

\* A student that appears takes a record over, makes it ambiguous or leaves it alone.
LEMMA NewStudentNeverRelinks ==
  ASSUME TablesOK, NEW student \in Student, Arrive("students", student),
         NEW record, StudentOf(fixtures, record) # None
  PROVE  StudentOf(fixtures', record) \in {StudentOf(fixtures, record), None, student.id}
<1> DEFINE old == Candidates(fixtures, record)
           new == Candidates(fixtures', record)
<1>1. \A s \in Records(fixtures, "students") : s.id # student.id
  BY DEF Arrive
<1>2. Records(fixtures', "students") = Records(fixtures, "students") \cup {student}
  <2>1. fixtures["students"] \in Seq(Student)
    BY DEF TablesOK, TableOK, Tables
  <2>2. fixtures'["students"] = Append(fixtures["students"], student)
    BY DEF Arrive, TablesOK, Tables
  <2> QED BY <2>1, <2>2, AppendedRecords
<1>3. new \in {old, old \cup {student}, {student}}
  BY <1>2, NewCandidates
<1>4. old \subseteq Records(fixtures, "students")
  BY DEF Candidates, ByHardId, ByNameDob, ByEmail
<1>5. IsFiniteSet(old)
  BY <1>4, RecordsAreFinite, FS_Subset DEF Tables
<1>6. PICK s : old = {s}
  BY <1>5, FS_Singleton DEF StudentOf
<1>7. CASE new = old
  BY <1>7 DEF StudentOf
<1>8. CASE new = old \cup {student}
  <2>1. student # s /\ s # student
    BY <1>1, <1>4, <1>6
  <2>2. new = {s, student}
    BY <1>6, <1>8
  <2>3. IsFiniteSet(new)
    BY <1>5, <1>8, FS_AddElement
  <2>4. Cardinality(new) # 1
    BY <2>1, <2>2, <2>3, FS_Singleton
  <2> QED BY <2>4 DEF StudentOf
<1>9. CASE new = {student}
  <2>1. Cardinality(new) = 1 /\ (CHOOSE x \in new : TRUE) = student
    BY <1>9, FS_Singleton
  <2> QED BY <2>1 DEF StudentOf
<1> QED BY <1>3, <1>7, <1>8, <1>9

\* "never a forced merge": whatever arrives, a linked record stays with its student, becomes
\* ambiguous, or goes to the student that has just appeared.
THEOREM LinksNeverMove == Spec => NeverRelinked
<1> DEFINE Kept ==
      \A table \in {"contacts", "payments"} : \A r \in Records(fixtures, table) :
        StudentOf(fixtures, r) # None =>
          StudentOf(fixtures', r) \in {StudentOf(fixtures, r), None}
            \cup ({s.id : s \in Records(fixtures', "students")}
                    \ {s.id : s \in Records(fixtures, "students")})
<1>1. ASSUME TablesOK, [Next]_vars PROVE [Kept]_vars
  <2>1. ASSUME NEW student \in Student, Arrive("students", student) PROVE Kept
    <3>1. student.id \in {s.id : s \in Records(fixtures', "students")}
                          \ {s.id : s \in Records(fixtures, "students")}
      <4>1. fixtures["students"] \in Seq(Student)
        BY <1>1 DEF TablesOK, TableOK, Tables
      <4>2. fixtures'["students"] = Append(fixtures["students"], student)
        BY <1>1, <2>1 DEF Arrive, TablesOK, Tables
      <4>3. Records(fixtures', "students") = Records(fixtures, "students") \cup {student}
        BY <4>1, <4>2, AppendedRecords
      <4> QED BY <2>1, <4>3 DEF Arrive
    <3> QED BY <1>1, <2>1, <3>1, NewStudentNeverRelinks
  <2>2. ASSUME NEW table \in DOMAIN Tables, table # "students", NEW record,
               Arrive(table, record)
        PROVE  Kept
    <3>1. fixtures'["students"] = fixtures["students"]
      BY <1>1, <2>2 DEF Arrive, TablesOK
    <3>2. Records(fixtures', "students") = Records(fixtures, "students")
      BY <3>1 DEF Records
    <3>3. \A r : StudentOf(fixtures', r) = StudentOf(fixtures, r)
      <4> SUFFICES ASSUME NEW r PROVE StudentOf(fixtures', r) = StudentOf(fixtures, r)
        OBVIOUS
      <4>1. Candidates(fixtures', r) = Candidates(fixtures, r)
        BY <3>2 DEF Candidates, ByHardId, ByNameDob, ByEmail
      <4> QED BY <4>1 DEF StudentOf
    <3> QED BY <3>3
  <2>3. CASE Next
    <3>1. PICK table \in DOMAIN Tables : \E record \in Tables[table] : Arrive(table, record)
      BY <2>3 DEF Next
    <3>2. CASE table = "students"
      BY <2>1, <3>1, <3>2 DEF Tables
    <3> QED BY <2>2, <3>1, <3>2
  <2> QED BY <1>1, <2>3
<1> QED BY TablesAreOK, <1>1, PTL DEF Spec, NeverRelinked

-----------------------------------------------------------------------------
(* Keys.                                                                   *)

\* The references to the records of a set, as C3 and C11 make them.
References(kind, set) == {<<kind, r.id>> : r \in set}

\* Two sets of records with the same ids are the same set.
LEMMA SameIds ==
  ASSUME TablesOK, NEW table \in DOMAIN Tables, NEW kind,
         NEW P \in SUBSET Records(fixtures, table), NEW Q \in SUBSET Records(fixtures, table),
         References(kind, P) = References(kind, Q)
  PROVE  P = Q
<1>1. \A r, s \in Records(fixtures, table) : r.id = s.id => r = s
  BY DEF TablesOK, TableOK
<1>2. ASSUME NEW r \in P PROVE r \in Q
  <2>1. <<kind, r.id>> \in References(kind, Q)
    BY DEF References
  <2>2. PICK s \in Q : <<kind, r.id>> = <<kind, s.id>>
    BY <2>1 DEF References
  <2> QED BY <1>1, <2>2
<1>3. ASSUME NEW r \in Q PROVE r \in P
  <2>1. <<kind, r.id>> \in References(kind, P)
    BY DEF References
  <2>2. PICK s \in P : <<kind, r.id>> = <<kind, s.id>>
    BY <2>1 DEF References
  <2> QED BY <1>1, <2>2
<1> QED BY <1>2, <1>3

\* One reference determines its id, and two of different kinds determine both.
LEMMA OneReference ==
  ASSUME NEW k, NEW x, NEW y, {<<k, x>>} = {<<k, y>>}
  PROVE  x = y
<1>1. <<k, x>> = <<k, y>>
  OBVIOUS
<1> QED BY <1>1

Pair(k, x, l, u) == {<<k, x>>, <<l, u>>}

LEMMA TwoReferences ==
  ASSUME NEW k, NEW l, NEW x, NEW y, NEW u, NEW v, k # l,
         Pair(k, x, l, u) = Pair(k, y, l, v)
  PROVE  x = y /\ u = v
<1>1. <<k, x>> \in Pair(k, y, l, v) /\ <<l, u>> \in Pair(k, y, l, v)
  BY DEF Pair
<1>2. <<k, x>> # <<l, v>> /\ <<l, u>> # <<k, y>>
  OBVIOUS
<1>3. <<k, x>> = <<k, y>> /\ <<l, u>> = <<l, v>>
  BY <1>1, <1>2 DEF Pair
<1> QED BY <1>3

\* Two conflicts of one rule with the same references are one conflict: C1 to C14.
LEMMA KeysC1 ==
  ASSUME NEW c \in PaidButNoDeal(fixtures), NEW d \in PaidButNoDeal(fixtures),
         c.refs = d.refs
  PROVE  c = d
<1>1. PICK i : c = BuildConflict("C1", {<<"student", i>>,
                 <<"payment", First(fixtures.payments, PaidDeposits(fixtures, i)).id>>},
                 {"crm_deal_id"}, {i})
  BY DEF PaidButNoDeal
<1>2. PICK j : d = BuildConflict("C1", {<<"student", j>>,
                 <<"payment", First(fixtures.payments, PaidDeposits(fixtures, j)).id>>},
                 {"crm_deal_id"}, {j})
  BY DEF PaidButNoDeal
<1>3. Pair("student", i, "payment", First(fixtures.payments, PaidDeposits(fixtures, i)).id)
        = Pair("student", j, "payment", First(fixtures.payments, PaidDeposits(fixtures, j)).id)
  BY <1>1, <1>2 DEF BuildConflict, Pair
<1>4. i = j
  <2>1. "student" # "payment"
    OBVIOUS
  <2> QED BY <1>3, <2>1, TwoReferences
<1> QED BY <1>1, <1>2, <1>4

LEMMA KeysC2 ==
  ASSUME TablesOK, NEW c \in PaymentWithNoPerson(fixtures), NEW d \in PaymentWithNoPerson(fixtures),
         c.refs = d.refs
  PROVE  c = d
<1>1. PICK p \in Records(fixtures, "payments") :
        c = BuildConflict("C2", {<<"payment", p.id>>}, {"person_link"}, {p})
  BY DEF PaymentWithNoPerson
<1>2. PICK q \in Records(fixtures, "payments") :
        d = BuildConflict("C2", {<<"payment", q.id>>}, {"person_link"}, {q})
  BY DEF PaymentWithNoPerson
<1>3. {<<"payment", p.id>>} = {<<"payment", q.id>>}
  BY <1>1, <1>2 DEF BuildConflict
<1>4. p.id = q.id
  BY <1>3, OneReference
<1>5. p = q
  BY <1>4 DEF TablesOK, TableOK, Tables
<1> QED BY <1>1, <1>2, <1>5

LEMMA KeysC3 ==
  ASSUME TablesOK, NEW c \in DuplicateByEmail(fixtures), NEW d \in DuplicateByEmail(fixtures),
         c.refs = d.refs
  PROVE  c = d
<1>1. PICK P \in SUBSET Records(fixtures, "contacts") :
        c = BuildConflict("C3", {<<"crm", r.id>> : r \in P}, {"email"}, P)
  BY DEF DuplicateByEmail, SamePerson
<1>2. PICK Q \in SUBSET Records(fixtures, "contacts") :
        d = BuildConflict("C3", {<<"crm", r.id>> : r \in Q}, {"email"}, Q)
  BY DEF DuplicateByEmail, SamePerson
<1>3. References("crm", P) = References("crm", Q)
  BY <1>1, <1>2 DEF BuildConflict, References
<1>4. P = Q
  BY <1>3, SameIds DEF Tables
<1> QED BY <1>1, <1>2, <1>4

LEMMA KeysC4 ==
  ASSUME NEW c \in CrossSourceEmailMismatch(fixtures), NEW d \in CrossSourceEmailMismatch(fixtures),
         c.refs = d.refs
  PROVE  c = d
<1>1. PICK i : c = BuildConflict("C4", {<<"student", i>>, <<"crm", ContactOf(fixtures, i).id>>},
                                 {"email"}, {i})
  BY DEF CrossSourceEmailMismatch
<1>2. PICK j : d = BuildConflict("C4", {<<"student", j>>, <<"crm", ContactOf(fixtures, j).id>>},
                                 {"email"}, {j})
  BY DEF CrossSourceEmailMismatch
<1>3. Pair("student", i, "crm", ContactOf(fixtures, i).id)
        = Pair("student", j, "crm", ContactOf(fixtures, j).id)
  BY <1>1, <1>2 DEF BuildConflict, Pair
<1>4. i = j
  <2>1. "student" # "crm"
    OBVIOUS
  <2> QED BY <1>3, <2>1, TwoReferences
<1> QED BY <1>1, <1>2, <1>4

LEMMA KeysC5 ==
  ASSUME NEW c \in RequiredSourceMissing(fixtures), NEW d \in RequiredSourceMissing(fixtures),
         c.refs = d.refs
  PROVE  c = d
<1>1. PICK s : c = BuildConflict("C5", {<<"student", s.id>>}, {"source_presence"}, {s.id})
  BY DEF RequiredSourceMissing
<1>2. PICK t : d = BuildConflict("C5", {<<"student", t.id>>}, {"source_presence"}, {t.id})
  BY DEF RequiredSourceMissing
<1>3. {<<"student", s.id>>} = {<<"student", t.id>>}
  BY <1>1, <1>2 DEF BuildConflict
<1>4. s.id = t.id
  BY <1>3, OneReference
<1> QED BY <1>1, <1>2, <1>4

LEMMA KeysC6 ==
  ASSUME NEW c \in MaterialFieldDisagreement(fixtures), NEW d \in MaterialFieldDisagreement(fixtures),
         c.refs = d.refs
  PROVE  c = d
<1>1. PICK i : c = BuildConflict("C6", {<<"student", i>>, <<"crm", ContactOf(fixtures, i).id>>},
                                 {"grade"}, {i})
  BY DEF MaterialFieldDisagreement
<1>2. PICK j : d = BuildConflict("C6", {<<"student", j>>, <<"crm", ContactOf(fixtures, j).id>>},
                                 {"grade"}, {j})
  BY DEF MaterialFieldDisagreement
<1>3. Pair("student", i, "crm", ContactOf(fixtures, i).id)
        = Pair("student", j, "crm", ContactOf(fixtures, j).id)
  BY <1>1, <1>2 DEF BuildConflict, Pair
<1>4. i = j
  <2>1. "student" # "crm"
    OBVIOUS
  <2> QED BY <1>3, <2>1, TwoReferences
<1> QED BY <1>1, <1>2, <1>4

LEMMA KeysC7 ==
  ASSUME TablesOK, NEW c \in EnrolledButUnpaid(fixtures), NEW d \in EnrolledButUnpaid(fixtures),
         c.refs = d.refs
  PROVE  c = d
<1>1. PICK e \in Records(fixtures, "enrollments") :
        c = BuildConflict("C7", {<<"student", e.student>>, <<"enrollment", e.id>>},
                          {"payment_id"}, {e})
  BY DEF EnrolledButUnpaid
<1>2. PICK g \in Records(fixtures, "enrollments") :
        d = BuildConflict("C7", {<<"student", g.student>>, <<"enrollment", g.id>>},
                          {"payment_id"}, {g})
  BY DEF EnrolledButUnpaid
<1>3. Pair("student", e.student, "enrollment", e.id)
        = Pair("student", g.student, "enrollment", g.id)
  BY <1>1, <1>2 DEF BuildConflict, Pair
<1>4. e.id = g.id
  <2>1. "student" # "enrollment"
    OBVIOUS
  <2> QED BY <1>3, <2>1, TwoReferences
<1>5. e = g
  BY <1>4 DEF TablesOK, TableOK, Tables
<1> QED BY <1>1, <1>2, <1>5

LEMMA KeysC8 ==
  ASSUME NEW c \in DroppedSibling(fixtures), NEW d \in DroppedSibling(fixtures),
         c.refs = d.refs
  PROVE  c = d
<1>1. PICK s : c = BuildConflict("C8", {<<"student", s.id>>, <<"household", s.household>>},
                                 {"household_member_payment"}, {s.id})
  BY DEF DroppedSibling
<1>2. PICK t : d = BuildConflict("C8", {<<"student", t.id>>, <<"household", t.household>>},
                                 {"household_member_payment"}, {t.id})
  BY DEF DroppedSibling
<1>3. Pair("student", s.id, "household", s.household)
        = Pair("student", t.id, "household", t.household)
  BY <1>1, <1>2 DEF BuildConflict, Pair
<1>4. s.id = t.id /\ s.household = t.household
  <2>1. "student" # "household"
    OBVIOUS
  <2> QED BY <1>3, <2>1, TwoReferences
<1> QED BY <1>1, <1>2, <1>4

LEMMA KeysC9 ==
  ASSUME TablesOK, NEW c \in StaleCrmPointer(fixtures), NEW d \in StaleCrmPointer(fixtures),
         c.refs = d.refs
  PROVE  c = d
<1>1. PICK e \in Records(fixtures, "enrollments") :
        c = BuildConflict("C9", {<<"student", e.student>>, <<"enrollment", e.id>>},
                          {"crm_deal_id"}, {e})
  BY DEF StaleCrmPointer
<1>2. PICK g \in Records(fixtures, "enrollments") :
        d = BuildConflict("C9", {<<"student", g.student>>, <<"enrollment", g.id>>},
                          {"crm_deal_id"}, {g})
  BY DEF StaleCrmPointer
<1>3. Pair("student", e.student, "enrollment", e.id)
        = Pair("student", g.student, "enrollment", g.id)
  BY <1>1, <1>2 DEF BuildConflict, Pair
<1>4. e.id = g.id
  <2>1. "student" # "enrollment"
    OBVIOUS
  <2> QED BY <1>3, <2>1, TwoReferences
<1>5. e = g
  BY <1>4 DEF TablesOK, TableOK, Tables
<1> QED BY <1>1, <1>2, <1>5

LEMMA KeysC10 ==
  ASSUME TablesOK, NEW c \in MergeCollapsedRecord(fixtures), NEW d \in MergeCollapsedRecord(fixtures),
         c.refs = d.refs
  PROVE  c = d
<1>1. PICK p \in Records(fixtures, "contacts") :
        c = BuildConflict("C10", {<<"crm", p.id>>}, {"secondary_person"}, {p})
  BY DEF MergeCollapsedRecord
<1>2. PICK q \in Records(fixtures, "contacts") :
        d = BuildConflict("C10", {<<"crm", q.id>>}, {"secondary_person"}, {q})
  BY DEF MergeCollapsedRecord
<1>3. {<<"crm", p.id>>} = {<<"crm", q.id>>}
  BY <1>1, <1>2 DEF BuildConflict
<1>4. p.id = q.id
  BY <1>3, OneReference
<1>5. p = q
  BY <1>4 DEF TablesOK, TableOK, Tables
<1> QED BY <1>1, <1>2, <1>5

LEMMA KeysC11 ==
  ASSUME TablesOK, NEW c \in DuplicatePayment(fixtures), NEW d \in DuplicatePayment(fixtures),
         c.refs = d.refs
  PROVE  c = d
<1>1. PICK P \in SUBSET Records(fixtures, "payments") :
        c = BuildConflict("C11", {<<"payment", r.id>> : r \in P}, {"payment_id"}, P)
  BY DEF DuplicatePayment
<1>2. PICK Q \in SUBSET Records(fixtures, "payments") :
        d = BuildConflict("C11", {<<"payment", r.id>> : r \in Q}, {"payment_id"}, Q)
  BY DEF DuplicatePayment
<1>3. References("payment", P) = References("payment", Q)
  BY <1>1, <1>2 DEF BuildConflict, References
<1>4. P = Q
  BY <1>3, SameIds DEF Tables
<1> QED BY <1>1, <1>2, <1>4

LEMMA KeysC12 ==
  ASSUME TablesOK, NEW c \in WrongAmountPayment(fixtures), NEW d \in WrongAmountPayment(fixtures),
         c.refs = d.refs
  PROVE  c = d
<1>1. PICK p \in Records(fixtures, "payments") :
        c = BuildConflict("C12", {<<"payment", p.id>>}, {"amount_cents"}, {p})
  BY DEF WrongAmountPayment
<1>2. PICK q \in Records(fixtures, "payments") :
        d = BuildConflict("C12", {<<"payment", q.id>>}, {"amount_cents"}, {q})
  BY DEF WrongAmountPayment
<1>3. {<<"payment", p.id>>} = {<<"payment", q.id>>}
  BY <1>1, <1>2 DEF BuildConflict
<1>4. p.id = q.id
  BY <1>3, OneReference
<1>5. p = q
  BY <1>4 DEF TablesOK, TableOK, Tables
<1> QED BY <1>1, <1>2, <1>5

LEMMA KeysC13 ==
  ASSUME TablesOK, NEW c \in RefundNotReflected(fixtures), NEW d \in RefundNotReflected(fixtures),
         c.refs = d.refs
  PROVE  c = d
<1>1. PICK e \in Records(fixtures, "payments") :
        c = BuildConflict("C13", {<<"student", StudentOf(fixtures, e)>>, <<"payment", e.id>>},
                          {"deposit_paid_at", "payment_status"}, {e})
  BY DEF RefundNotReflected
<1>2. PICK g \in Records(fixtures, "payments") :
        d = BuildConflict("C13", {<<"student", StudentOf(fixtures, g)>>, <<"payment", g.id>>},
                          {"deposit_paid_at", "payment_status"}, {g})
  BY DEF RefundNotReflected
<1>3. Pair("student", StudentOf(fixtures, e), "payment", e.id)
        = Pair("student", StudentOf(fixtures, g), "payment", g.id)
  BY <1>1, <1>2 DEF BuildConflict, Pair
<1>4. e.id = g.id
  <2>1. "student" # "payment"
    OBVIOUS
  <2> QED BY <1>3, <2>1, TwoReferences
<1>5. e = g
  BY <1>4 DEF TablesOK, TableOK, Tables
<1> QED BY <1>1, <1>2, <1>5

LEMMA KeysC14 ==
  ASSUME NEW c \in SensitiveFieldOnlyFix(fixtures), NEW d \in SensitiveFieldOnlyFix(fixtures),
         c.refs = d.refs
  PROVE  c = d
<1> DEFINE Refs(i) == {<<"student", i>>, <<"crm", ContactOf(fixtures, i).id>>,
                       <<"payment", First(fixtures.payments, PaymentsOf(fixtures, i)).id>>}
<1>1. PICK i : c = BuildConflict("C14", Refs(i), {"billing_owner_email"}, {i})
  BY DEF SensitiveFieldOnlyFix
<1>2. PICK j : d = BuildConflict("C14", Refs(j), {"billing_owner_email"}, {j})
  BY DEF SensitiveFieldOnlyFix
<1>3. Refs(i) = Refs(j)
  BY <1>1, <1>2 DEF BuildConflict
<1>4. <<"student", i>> \in Refs(j)
  BY <1>3
<1>5. i = j
  BY <1>4
<1> QED BY <1>1, <1>2, <1>5

\* evaluateInvariants never returns two conflicts with one key.
THEOREM KeysAreAlwaysDistinct == Spec => []KeysAreDistinct
<1>1. TablesOK => KeysAreDistinct
  <2> SUFFICES ASSUME TablesOK, NEW c \in AllConflicts(fixtures), NEW d \in AllConflicts(fixtures),
                      Key(c) = Key(d)
               PROVE  c = d
    BY DEF KeysAreDistinct
  <2>1. d.rule = c.rule /\ c.refs = d.refs
    BY DEF Key
  <2>2. c.rule \in Rule
    BY FoundByRule
  <2>3. CASE c.rule = "C1"
    <3>1. c \in PaidButNoDeal(fixtures) /\ d \in PaidButNoDeal(fixtures)
      BY <2>1, <2>3, FoundByRule
    <3> QED BY <2>1, <3>1, KeysC1
  <2>4. CASE c.rule = "C2"
    <3>1. c \in PaymentWithNoPerson(fixtures) /\ d \in PaymentWithNoPerson(fixtures)
      BY <2>1, <2>4, FoundByRule
    <3> QED BY <2>1, <3>1, KeysC2
  <2>5. CASE c.rule = "C3"
    <3>1. c \in DuplicateByEmail(fixtures) /\ d \in DuplicateByEmail(fixtures)
      BY <2>1, <2>5, FoundByRule
    <3> QED BY <2>1, <3>1, KeysC3
  <2>6. CASE c.rule = "C4"
    <3>1. c \in CrossSourceEmailMismatch(fixtures) /\ d \in CrossSourceEmailMismatch(fixtures)
      BY <2>1, <2>6, FoundByRule
    <3> QED BY <2>1, <3>1, KeysC4
  <2>7. CASE c.rule = "C5"
    <3>1. c \in RequiredSourceMissing(fixtures) /\ d \in RequiredSourceMissing(fixtures)
      BY <2>1, <2>7, FoundByRule
    <3> QED BY <2>1, <3>1, KeysC5
  <2>8. CASE c.rule = "C6"
    <3>1. c \in MaterialFieldDisagreement(fixtures) /\ d \in MaterialFieldDisagreement(fixtures)
      BY <2>1, <2>8, FoundByRule
    <3> QED BY <2>1, <3>1, KeysC6
  <2>9. CASE c.rule = "C7"
    <3>1. c \in EnrolledButUnpaid(fixtures) /\ d \in EnrolledButUnpaid(fixtures)
      BY <2>1, <2>9, FoundByRule
    <3> QED BY <2>1, <3>1, KeysC7
  <2>10. CASE c.rule = "C8"
    <3>1. c \in DroppedSibling(fixtures) /\ d \in DroppedSibling(fixtures)
      BY <2>1, <2>10, FoundByRule
    <3> QED BY <2>1, <3>1, KeysC8
  <2>11. CASE c.rule = "C9"
    <3>1. c \in StaleCrmPointer(fixtures) /\ d \in StaleCrmPointer(fixtures)
      BY <2>1, <2>11, FoundByRule
    <3> QED BY <2>1, <3>1, KeysC9
  <2>12. CASE c.rule = "C10"
    <3>1. c \in MergeCollapsedRecord(fixtures) /\ d \in MergeCollapsedRecord(fixtures)
      BY <2>1, <2>12, FoundByRule
    <3> QED BY <2>1, <3>1, KeysC10
  <2>13. CASE c.rule = "C11"
    <3>1. c \in DuplicatePayment(fixtures) /\ d \in DuplicatePayment(fixtures)
      BY <2>1, <2>13, FoundByRule
    <3> QED BY <2>1, <3>1, KeysC11
  <2>14. CASE c.rule = "C12"
    <3>1. c \in WrongAmountPayment(fixtures) /\ d \in WrongAmountPayment(fixtures)
      BY <2>1, <2>14, FoundByRule
    <3> QED BY <2>1, <3>1, KeysC12
  <2>15. CASE c.rule = "C13"
    <3>1. c \in RefundNotReflected(fixtures) /\ d \in RefundNotReflected(fixtures)
      BY <2>1, <2>15, FoundByRule
    <3> QED BY <2>1, <3>1, KeysC13
  <2>16. CASE c.rule = "C14"
    <3>1. c \in SensitiveFieldOnlyFix(fixtures) /\ d \in SensitiveFieldOnlyFix(fixtures)
      BY <2>1, <2>16, FoundByRule
    <3> QED BY <2>1, <3>1, KeysC14
  <2> QED BY <2>2, <2>3, <2>4, <2>5, <2>6, <2>7, <2>8, <2>9,
             <2>10, <2>11, <2>12, <2>13, <2>14, <2>15, <2>16 DEF Rule
<1> QED BY TablesAreOK, <1>1, PTL

-----------------------------------------------------------------------------
(* What a rule reports depends on the sources it names, but for C14.       *)

\* Two evaluations read the same tables.
Agree(f, g, tables) == \A table \in tables : f[table] = g[table]

\* Links depend on the students.
LEMMA SameStudentOf ==
  ASSUME NEW f, NEW g, Agree(f, g, {"students"})
  PROVE  /\ Records(f, "students") = Records(g, "students")
         /\ \A r : StudentOf(f, r) = StudentOf(g, r)
         /\ \A id : StudentWith(f, id) = StudentWith(g, id)
<1>1. Records(f, "students") = Records(g, "students")
  BY DEF Agree, Records
<1>2. \A r : Candidates(f, r) = Candidates(g, r)
  BY <1>1 DEF Candidates, ByHardId, ByNameDob, ByEmail
<1>3. ASSUME NEW r PROVE StudentOf(f, r) = StudentOf(g, r)
  <2>1. Candidates(f, r) = Candidates(g, r)
    BY <1>2
  <2> QED BY <2>1 DEF StudentOf
<1> QED BY <1>1, <1>3 DEF StudentWith

\* What the rules read of the contacts depends on the students and the contacts.
LEMMA SameContacts ==
  ASSUME NEW f, NEW g, Agree(f, g, {"students", "contacts"})
  PROVE  /\ f.contacts = g.contacts /\ Records(f, "contacts") = Records(g, "contacts")
         /\ \A id : ContactsOf(f, id) = ContactsOf(g, id)
         /\ \A id : ContactOf(f, id) = ContactOf(g, id)
         /\ Linked(f, "contacts") = Linked(g, "contacts")
         /\ \A deal, id : Concerns(f, deal, id) <=> Concerns(g, deal, id)
<1>1. f.contacts = g.contacts /\ Records(f, "contacts") = Records(g, "contacts")
  BY DEF Agree, Records
<1>2. \A r : StudentOf(f, r) = StudentOf(g, r)
  BY SameStudentOf DEF Agree
<1>3. \A id : ContactsOf(f, id) = ContactsOf(g, id)
  BY <1>1, <1>2 DEF ContactsOf
<1>4. Linked(f, "contacts") = Linked(g, "contacts")
  BY <1>1, <1>2 DEF Linked
<1> QED BY <1>1, <1>3, <1>4 DEF ContactOf, Concerns

\* What they read of the payments depends on the students and the payments.
LEMMA SamePayments ==
  ASSUME NEW f, NEW g, Agree(f, g, {"students", "payments"})
  PROVE  /\ f.payments = g.payments /\ Records(f, "payments") = Records(g, "payments")
         /\ \A id : PaymentsOf(f, id) = PaymentsOf(g, id)
         /\ \A id : PaidDeposits(f, id) = PaidDeposits(g, id)
         /\ Linked(f, "payments") = Linked(g, "payments")
         /\ \A household : Unpaid(f, household) = Unpaid(g, household)
<1>1. f.payments = g.payments /\ Records(f, "payments") = Records(g, "payments")
  BY DEF Agree, Records
<1>2. /\ \A r : StudentOf(f, r) = StudentOf(g, r)
      /\ Records(f, "students") = Records(g, "students")
  BY SameStudentOf DEF Agree
<1>3. \A id : PaymentsOf(f, id) = PaymentsOf(g, id)
  BY <1>1, <1>2 DEF PaymentsOf
<1>4. Linked(f, "payments") = Linked(g, "payments")
  BY <1>1, <1>2 DEF Linked
<1>5. \A household : Unpaid(f, household) = Unpaid(g, household)
  BY <1>2, <1>3 DEF Unpaid, Household
<1> QED BY <1>1, <1>3, <1>4, <1>5 DEF PaidDeposits

\* What they read of the enrollments depends on the enrollments.
LEMMA SameEnrollments ==
  ASSUME NEW f, NEW g, Agree(f, g, {"enrollments"})
  PROVE  /\ Records(f, "enrollments") = Records(g, "enrollments")
         /\ \A id : EnrollmentsOf(f, id) = EnrollmentsOf(g, id)
         /\ \A id : EnrollmentOf(f, id) = EnrollmentOf(g, id)
BY DEF Agree, Records, EnrollmentsOf, EnrollmentOf

\* A conflict is found whatever the sources hold that its rule does not name.
LEMMA RulesReadTheirSources ==
  ASSUME NEW f, NEW g, NEW c \in AllConflicts(f), c.rule # "C14",
         Agree(f, g, {table \in DOMAIN Tables : SourceOf[table] \in Dependencies[c.rule]})
  PROVE  c \in AllConflicts(g)
<1> DEFINE tables == {table \in DOMAIN Tables : SourceOf[table] \in Dependencies[c.rule]}
<1>1. /\ "crm" \in Dependencies[c.rule] => {"contacts", "deals"} \subseteq tables
      /\ "app" \in Dependencies[c.rule] => {"students", "enrollments"} \subseteq tables
      /\ "payments" \in Dependencies[c.rule] => "payments" \in tables
  BY DEF Tables, SourceOf
<1> HIDE DEF tables
<1>2. /\ "crm" \in Dependencies[c.rule] => Agree(f, g, {"contacts", "deals"})
      /\ "app" \in Dependencies[c.rule] => Agree(f, g, {"students", "enrollments"})
      /\ "payments" \in Dependencies[c.rule] => Agree(f, g, {"payments"})
  BY <1>1 DEF Agree, tables
<1>3. CASE c.rule \in {"C1", "C2", "C5", "C8"}
  <2>1. /\ Agree(f, g, {"contacts", "deals"}) /\ Agree(f, g, {"students", "enrollments"})
        /\ Agree(f, g, {"payments"})
    BY <1>2, <1>3 DEF Dependencies, Source
  <2>2. /\ Agree(f, g, {"students"}) /\ Agree(f, g, {"students", "contacts"})
        /\ Agree(f, g, {"students", "payments"}) /\ Agree(f, g, {"enrollments"})
        /\ Records(f, "deals") = Records(g, "deals")
    BY <2>1 DEF Agree, Records
  <2>3. \A id : DealsOf(f, id) = DealsOf(g, id)
    BY <2>2, SameContacts DEF DealsOf
  <2>4. CASE c.rule = "C1"
    <3>1. PaidButNoDeal(f) = PaidButNoDeal(g)
      BY <2>2, <2>3, SamePayments, SameEnrollments DEF PaidButNoDeal
    <3> QED BY <2>4, <3>1, FoundByRule DEF AllConflicts
  <2>5. CASE c.rule = "C2"
    <3>1. PaymentWithNoPerson(f) = PaymentWithNoPerson(g)
      BY <2>2, SamePayments, SameStudentOf DEF PaymentWithNoPerson
    <3> QED BY <2>5, <3>1, FoundByRule DEF AllConflicts
  <2>6. CASE c.rule = "C5"
    <3>1. c \in RequiredSourceMissing(f)
      BY <2>6, FoundByRule
    <3>2. PICK s \in Records(f, "students") :
          /\ s.candidate /\ ContactsOf(f, s.id) = {} /\ PaymentsOf(f, s.id) = {}
          /\ EnrollmentsOf(f, s.id) = {}
          /\ c = BuildConflict("C5", {<<"student", s.id>>}, {"source_presence"}, {s.id})
      BY <3>1 DEF RequiredSourceMissing
    <3>3. /\ s \in Records(g, "students") /\ ContactsOf(g, s.id) = {} /\ PaymentsOf(g, s.id) = {}
          /\ EnrollmentsOf(g, s.id) = {}
      BY <2>2, <3>2, SamePayments, SameContacts, SameEnrollments, SameStudentOf
    <3>4. c \in RequiredSourceMissing(g)
      BY <3>2, <3>3 DEF RequiredSourceMissing
    <3> QED BY <3>4 DEF AllConflicts
  <2>7. CASE c.rule = "C8"
    <3>1. c \in DroppedSibling(f)
      BY <2>7, FoundByRule
    <3>2. PICK s \in Records(f, "students") :
          /\ s.household # None /\ Unpaid(f, s.household) = {s}
          /\ \A m \in Household(f, s.household) : ContactsOf(f, m.id) # {}
          /\ EnrollmentsOf(f, s.id) # {} /\ EnrollmentOf(f, s.id).stage = "applied"
          /\ c = BuildConflict("C8", {<<"student", s.id>>, <<"household", s.household>>},
                   {"household_member_payment"}, {s.id})
      BY <3>1 DEF DroppedSibling
    <3>3. /\ s \in Records(g, "students") /\ Unpaid(g, s.household) = {s}
          /\ \A m \in Household(g, s.household) : ContactsOf(g, m.id) # {}
          /\ EnrollmentsOf(g, s.id) # {} /\ EnrollmentOf(g, s.id).stage = "applied"
      <4>1. Household(g, s.household) = Household(f, s.household)
        BY <2>2, SameStudentOf DEF Household
      <4> QED BY <2>2, <3>2, <4>1, SamePayments, SameContacts, SameEnrollments, SameStudentOf
    <3>4. c \in DroppedSibling(g)
      BY <3>2, <3>3 DEF DroppedSibling
    <3> QED BY <3>4 DEF AllConflicts
  <2> QED BY <1>3, <2>4, <2>5, <2>6, <2>7
<1>4. CASE c.rule \in {"C3", "C10"}
  <2>1. Records(f, "contacts") = Records(g, "contacts")
    BY <1>2, <1>4 DEF Dependencies, Agree, Records
  <2>2. DuplicateByEmail(f) = DuplicateByEmail(g)
    <3>1. \A r : SamePerson(f, r) = SamePerson(g, r)
      BY <2>1 DEF SamePerson
    <3>2. {SamePerson(f, r) : r \in Records(f, "contacts")}
            = {SamePerson(g, r) : r \in Records(g, "contacts")}
      BY <2>1, <3>1
    <3> QED BY <3>2 DEF DuplicateByEmail
  <2>3. MergeCollapsedRecord(f) = MergeCollapsedRecord(g)
    BY <2>1 DEF MergeCollapsedRecord
  <2> QED BY <1>4, <2>2, <2>3, FoundByRule DEF AllConflicts
<1>5. CASE c.rule \in {"C4", "C6", "C9"}
  <2>1. Agree(f, g, {"contacts", "deals"}) /\ Agree(f, g, {"students", "enrollments"})
    BY <1>2, <1>5 DEF Dependencies
  <2>2. /\ Agree(f, g, {"students"}) /\ Agree(f, g, {"students", "contacts"})
        /\ Agree(f, g, {"enrollments"})
        /\ Records(f, "deals") = Records(g, "deals")
    BY <2>1 DEF Agree, Records
  <2>3. CASE c.rule = "C4"
    <3>1. c \in CrossSourceEmailMismatch(f)
      BY <2>3, FoundByRule
    <3>2. PICK id \in Linked(f, "contacts") :
          /\ Canonical[StudentWith(f, id).email] # Canonical[ContactOf(f, id).email]
          /\ c = BuildConflict("C4", {<<"student", id>>, <<"crm", ContactOf(f, id).id>>},
                   {"email"}, {id})
      BY <3>1 DEF CrossSourceEmailMismatch
    <3>3. /\ id \in Linked(g, "contacts") /\ StudentWith(g, id) = StudentWith(f, id)
          /\ ContactOf(g, id) = ContactOf(f, id)
      BY <2>2, SameContacts, SameStudentOf
    <3>4. c \in CrossSourceEmailMismatch(g)
      BY <3>2, <3>3 DEF CrossSourceEmailMismatch
    <3> QED BY <3>4 DEF AllConflicts
  <2>4. CASE c.rule = "C6"
    <3>1. c \in MaterialFieldDisagreement(f)
      BY <2>4, FoundByRule
    <3>2. PICK id \in Linked(f, "contacts") :
          /\ ContactOf(f, id).grade # None
          /\ Canonical[StudentWith(f, id).grade] # Canonical[ContactOf(f, id).grade]
          /\ c = BuildConflict("C6", {<<"student", id>>, <<"crm", ContactOf(f, id).id>>},
                   {"grade"}, {id})
      BY <3>1 DEF MaterialFieldDisagreement
    <3>3. /\ id \in Linked(g, "contacts") /\ StudentWith(g, id) = StudentWith(f, id)
          /\ ContactOf(g, id) = ContactOf(f, id)
      BY <2>2, SameContacts, SameStudentOf
    <3>4. c \in MaterialFieldDisagreement(g)
      BY <3>2, <3>3 DEF MaterialFieldDisagreement
    <3> QED BY <3>4 DEF AllConflicts
  <2>5. CASE c.rule = "C9"
    <3>1. StaleCrmPointer(f) = StaleCrmPointer(g)
      BY <2>2, SameContacts, SameEnrollments DEF StaleCrmPointer
    <3> QED BY <2>5, <3>1, FoundByRule DEF AllConflicts
  <2> QED BY <1>5, <2>3, <2>4, <2>5
<1>6. CASE c.rule \in {"C7", "C13"}
  <2>1. Agree(f, g, {"students", "enrollments"}) /\ Agree(f, g, {"payments"})
    BY <1>2, <1>6 DEF Dependencies
  <2>2. /\ Agree(f, g, {"students"}) /\ Agree(f, g, {"students", "payments"})
        /\ Agree(f, g, {"enrollments"})
    BY <2>1 DEF Agree
  <2>3. CASE c.rule = "C7"
    <3>1. c \in EnrolledButUnpaid(f)
      BY <2>3, FoundByRule
    <3>2. PICK e \in Records(f, "enrollments") :
          /\ e.stage = "enrolled" /\ PaymentsOf(f, e.student) = {}
          /\ c = BuildConflict("C7", {<<"student", e.student>>, <<"enrollment", e.id>>},
                   {"payment_id"}, {e})
      BY <3>1 DEF EnrolledButUnpaid
    <3>3. e \in Records(g, "enrollments") /\ PaymentsOf(g, e.student) = {}
      BY <2>2, <3>2, SamePayments, SameEnrollments
    <3>4. c \in EnrolledButUnpaid(g)
      BY <3>2, <3>3 DEF EnrolledButUnpaid
    <3> QED BY <3>4 DEF AllConflicts
  <2>4. CASE c.rule = "C13"
    <3>1. c \in RefundNotReflected(f)
      BY <2>4, FoundByRule
    <3>2. PICK p \in Records(f, "payments") :
          /\ p.status = "refunded" /\ StudentOf(f, p) # None
          /\ EnrollmentsOf(f, StudentOf(f, p)) # {}
          /\ EnrollmentOf(f, StudentOf(f, p)).deposit
          /\ c = BuildConflict("C13", {<<"student", StudentOf(f, p)>>, <<"payment", p.id>>},
                   {"deposit_paid_at", "payment_status"}, {p})
      BY <3>1 DEF RefundNotReflected
    <3>3. /\ p \in Records(g, "payments") /\ StudentOf(g, p) = StudentOf(f, p)
          /\ EnrollmentsOf(g, StudentOf(f, p)) = EnrollmentsOf(f, StudentOf(f, p))
          /\ EnrollmentOf(g, StudentOf(f, p)) = EnrollmentOf(f, StudentOf(f, p))
      BY <2>2, SamePayments, SameEnrollments, SameStudentOf
    <3>4. c \in RefundNotReflected(g)
      BY <3>2, <3>3 DEF RefundNotReflected
    <3> QED BY <3>4 DEF AllConflicts
  <2> QED BY <1>6, <2>3, <2>4
<1>7. CASE c.rule \in {"C11", "C12"}
  <2>1. Records(f, "payments") = Records(g, "payments")
    BY <1>2, <1>7 DEF Dependencies, Agree, Records
  <2>2. DuplicatePayment(f) = DuplicatePayment(g)
    BY <2>1 DEF DuplicatePayment
  <2>3. WrongAmountPayment(f) = WrongAmountPayment(g)
    BY <2>1 DEF WrongAmountPayment
  <2> QED BY <1>7, <2>2, <2>3, FoundByRule DEF AllConflicts
<1> QED BY <1>3, <1>4, <1>5, <1>6, <1>7, FoundByRule DEF Rule

\* A rule that may be evaluated while a source is missing reports what it would with it;
\* C14 is the only one that does not.
THEOREM OnlyC14EverGuesses == Spec => OnlyC14Guesses
<1>1. [Next]_vars => [\A rule \in Changed \ {"C14"} : Moved \cap Dependencies[rule] # {}]_vars
  <2> SUFFICES ASSUME NEW rule \in Changed \ {"C14"}, Moved \cap Dependencies[rule] = {}
               PROVE  FALSE
    OBVIOUS
  <2>1. PICK c : /\ c.rule = rule
                 /\ \/ c \in AllConflicts(fixtures) /\ c \notin AllConflicts(fixtures')
                    \/ c \in AllConflicts(fixtures') /\ c \notin AllConflicts(fixtures)
    BY DEF Changed
  <2>2. \A table \in DOMAIN Tables :
          SourceOf[table] \in Dependencies[c.rule] => fixtures'[table] = fixtures[table]
    BY <2>1 DEF Moved
  <2>3. CASE c \in AllConflicts(fixtures) /\ c \notin AllConflicts(fixtures')
    BY <2>1, <2>2, <2>3, RulesReadTheirSources DEF Agree
  <2>4. CASE c \in AllConflicts(fixtures') /\ c \notin AllConflicts(fixtures)
    BY <2>1, <2>2, <2>4, RulesReadTheirSources DEF Agree
  <2> QED BY <2>1, <2>3, <2>4
<1> QED BY <1>1, PTL DEF Spec, OnlyC14Guesses

-----------------------------------------------------------------------------
(* The order in which a source returns its records.                        *)

\* Records that are not several are one.
LEMMA OneRecord ==
  ASSUME TablesOK, NEW table \in DOMAIN Tables, NEW set \in SUBSET Records(fixtures, table),
         set # {}, ~(Cardinality(set) > 1)
  PROVE  \E r : set = {r}
<1>1. IsFiniteSet(set)
  BY RecordsAreFinite, FS_Subset
<1>2. Cardinality(set) # 0
  BY <1>1, FS_EmptySet
<1>3. Cardinality(set) = 1
  BY <1>1, <1>2, FS_CardinalityType
<1> QED BY <1>1, <1>3, FS_Singleton

\* Tables that hold the same records in any order.
Permuted(g) ==
  \A table \in DOMAIN Tables :
    g[table] \in Seq(Tables[table]) /\ Records(g, table) = Records(fixtures, table)

\* A source that returns its records backwards returns the same ones.
LEMMA ReorderedIsPermuted ==
  ASSUME TablesOK, NEW source
  PROVE  Permuted(Reordered(fixtures, source))
<1> SUFFICES ASSUME NEW table \in DOMAIN Tables
             PROVE  /\ Reordered(fixtures, source)[table] \in Seq(Tables[table])
                    /\ Records(Reordered(fixtures, source), table) = Records(fixtures, table)
  BY DEF Permuted
<1> DEFINE seq == fixtures[table]
           back == Backwards(seq)
           n == Len(seq)
<1>1. seq \in Seq(Tables[table]) /\ n \in Nat /\ DOMAIN seq = 1..n
  BY DEF TablesOK, TableOK
<1>2. Reordered(fixtures, source)[table] = IF SourceOf[table] = source THEN back ELSE seq
  BY DEF Reordered, TablesOK
<1>3. DOMAIN back = 1..n /\ \A i \in 1..n : back[i] = seq[n + 1 - i] /\ n + 1 - i \in 1..n
  BY <1>1 DEF Backwards
<1>4. back \in Seq(Tables[table])
  <2>1. back = [i \in 1..n |-> seq[n + 1 - i]]
    BY <1>1 DEF Backwards
  <2>2. \A i \in 1..n : seq[n + 1 - i] \in Tables[table]
    BY <1>1, <1>3
  <2> HIDE DEF back, seq
  <2> QED BY <1>1, <2>1, <2>2
<1>5. \A r : (\E i \in 1..n : seq[i] = r) <=> (\E i \in 1..n : back[i] = r)
  <2>1. ASSUME NEW i \in 1..n PROVE \E j \in 1..n : back[j] = seq[i]
    <3>1. n + 1 - i \in 1..n /\ n + 1 - (n + 1 - i) = i
      BY <1>1
    <3> HIDE DEF back, seq, n
    <3> QED BY <1>3, <3>1
  <2> HIDE DEF back, seq, n
  <2> QED BY <1>3, <2>1
<1>6. {back[i] : i \in DOMAIN back} = {seq[i] : i \in DOMAIN seq}
  <2> HIDE DEF back, seq, n
  <2> QED BY <1>1, <1>3, <1>5
<1> QED BY <1>1, <1>2, <1>4, <1>6 DEF Records

\* What does not depend on the order.
LEMMA PermutedKeeps ==
  ASSUME NEW g, Permuted(g)
  PROVE  /\ \A table \in DOMAIN Tables : Records(g, table) = Records(fixtures, table)
         /\ \A r : StudentOf(g, r) = StudentOf(fixtures, r)
         /\ \A id : StudentWith(g, id) = StudentWith(fixtures, id)
         /\ \A id : ContactsOf(g, id) = ContactsOf(fixtures, id)
         /\ \A id : PaymentsOf(g, id) = PaymentsOf(fixtures, id)
         /\ \A id : EnrollmentsOf(g, id) = EnrollmentsOf(fixtures, id)
         /\ \A id : PaidDeposits(g, id) = PaidDeposits(fixtures, id)
         /\ \A id : DealsOf(g, id) = DealsOf(fixtures, id)
         /\ \A deal, id : Concerns(g, deal, id) <=> Concerns(fixtures, deal, id)
         /\ \A table \in DOMAIN Tables : Linked(g, table) = Linked(fixtures, table)
         /\ \A h : Household(g, h) = Household(fixtures, h)
         /\ \A h : Unpaid(g, h) = Unpaid(fixtures, h)
<1>1. \A table \in DOMAIN Tables : Records(g, table) = Records(fixtures, table)
  BY DEF Permuted
<1>2. /\ Records(g, "students") = Records(fixtures, "students")
      /\ Records(g, "contacts") = Records(fixtures, "contacts")
      /\ Records(g, "payments") = Records(fixtures, "payments")
      /\ Records(g, "enrollments") = Records(fixtures, "enrollments")
      /\ Records(g, "deals") = Records(fixtures, "deals")
  BY <1>1 DEF Tables
<1>3. ASSUME NEW r PROVE StudentOf(g, r) = StudentOf(fixtures, r)
  <2>1. Candidates(g, r) = Candidates(fixtures, r)
    BY <1>2 DEF Candidates, ByHardId, ByNameDob, ByEmail
  <2> QED BY <2>1 DEF StudentOf
<1>4. \A id : StudentWith(g, id) = StudentWith(fixtures, id)
  BY <1>2 DEF StudentWith
<1>5. /\ \A id : ContactsOf(g, id) = ContactsOf(fixtures, id)
      /\ \A id : PaymentsOf(g, id) = PaymentsOf(fixtures, id)
      /\ \A id : EnrollmentsOf(g, id) = EnrollmentsOf(fixtures, id)
  BY <1>2, <1>3 DEF ContactsOf, PaymentsOf, EnrollmentsOf
<1>6. \A id : PaidDeposits(g, id) = PaidDeposits(fixtures, id)
  BY <1>5 DEF PaidDeposits
<1>7. \A deal, id : Concerns(g, deal, id) <=> Concerns(fixtures, deal, id)
  BY <1>5 DEF Concerns
<1>8. \A id : DealsOf(g, id) = DealsOf(fixtures, id)
  BY <1>2, <1>7 DEF DealsOf
<1>9. ASSUME NEW table \in DOMAIN Tables PROVE Linked(g, table) = Linked(fixtures, table)
  BY <1>1, <1>3 DEF Linked
<1>10. \A h : Household(g, h) = Household(fixtures, h)
  BY <1>2 DEF Household
<1>11. \A h : Unpaid(g, h) = Unpaid(fixtures, h)
  BY <1>5, <1>10 DEF Unpaid
<1> QED BY <1>1, <1>3, <1>4, <1>5, <1>6, <1>7, <1>8, <1>9, <1>10, <1>11

\* The first and the last of one record are that record.
LEMMA TheOnlyOne ==
  ASSUME NEW g, Permuted(g), NEW table \in DOMAIN Tables,
         NEW r \in Records(fixtures, table)
  PROVE  First(g[table], {r}) = r /\ Last(g[table], {r}) = r
<1>1. g[table] \in Seq(Tables[table]) /\ r \in Records(g, table)
  BY DEF Permuted
<1>2. \E i \in DOMAIN g[table] : g[table][i] \in {r}
  BY <1>1 DEF Records
<1>3. First(g[table], {r}) \in {r} /\ Last(g[table], {r}) \in {r}
  BY <1>1, <1>2, FirstIsMember, LastIsMember
<1> QED BY <1>3

\* The records the rules take of a student that has no two of one kind.
LEMMA SingleRecords ==
  ASSUME TablesOK, NEW g, Permuted(g), NEW id, ~Doubled(fixtures, id)
  PROVE  /\ ContactsOf(fixtures, id) # {} => ContactOf(g, id) = ContactOf(fixtures, id)
         /\ EnrollmentsOf(fixtures, id) # {} => EnrollmentOf(g, id) = EnrollmentOf(fixtures, id)
         /\ \A set \in SUBSET PaymentsOf(fixtures, id) :
              set # {} => First(g.payments, set) = First(fixtures.payments, set)
<1>1. Permuted(fixtures)
  BY DEF Permuted, TablesOK, TableOK
<1>2. /\ ~(Cardinality(ContactsOf(fixtures, id)) > 1)
      /\ ~(Cardinality(PaymentsOf(fixtures, id)) > 1)
      /\ ~(Cardinality(EnrollmentsOf(fixtures, id)) > 1)
  BY DEF Doubled
<1>3. /\ "contacts" \in DOMAIN Tables /\ "payments" \in DOMAIN Tables /\ "enrollments" \in DOMAIN Tables
      /\ ContactsOf(fixtures, id) \subseteq Records(fixtures, "contacts")
      /\ PaymentsOf(fixtures, id) \subseteq Records(fixtures, "payments")
      /\ EnrollmentsOf(fixtures, id) \subseteq Records(fixtures, "enrollments")
  BY DEF Tables, ContactsOf, PaymentsOf, EnrollmentsOf
<1>4. ASSUME ContactsOf(fixtures, id) # {} PROVE ContactOf(g, id) = ContactOf(fixtures, id)
  <2>1. PICK r : ContactsOf(fixtures, id) = {r}
    BY <1>2, <1>3, <1>4, OneRecord
  <2>2. ContactsOf(g, id) = {r} /\ r \in Records(fixtures, "contacts")
    BY <1>3, <2>1, PermutedKeeps
  <2>3. First(g["contacts"], {r}) = r /\ First(fixtures["contacts"], {r}) = r
    BY <1>1, <1>3, <2>2, TheOnlyOne
  <2> QED BY <2>1, <2>2, <2>3 DEF ContactOf
<1>5. ASSUME EnrollmentsOf(fixtures, id) # {} PROVE EnrollmentOf(g, id) = EnrollmentOf(fixtures, id)
  <2>1. PICK r : EnrollmentsOf(fixtures, id) = {r}
    BY <1>2, <1>3, <1>5, OneRecord
  <2>2. EnrollmentsOf(g, id) = {r} /\ r \in Records(fixtures, "enrollments")
    BY <1>3, <2>1, PermutedKeeps
  <2>3. Last(g["enrollments"], {r}) = r /\ Last(fixtures["enrollments"], {r}) = r
    BY <1>1, <1>3, <2>2, TheOnlyOne
  <2> QED BY <2>1, <2>2, <2>3 DEF EnrollmentOf
<1>6. ASSUME NEW set \in SUBSET PaymentsOf(fixtures, id), set # {}
      PROVE  First(g.payments, set) = First(fixtures.payments, set)
  <2>1. PICK r : PaymentsOf(fixtures, id) = {r}
    BY <1>2, <1>3, <1>6, OneRecord
  <2>2. set = {r} /\ r \in Records(fixtures, "payments")
    BY <1>3, <1>6, <2>1
  <2>3. First(g["payments"], {r}) = r /\ First(fixtures["payments"], {r}) = r
    BY <1>1, <1>3, <2>2, TheOnlyOne
  <2> QED BY <2>2, <2>3
<1> QED BY <1>4, <1>5, <1>6

\* A conflict of students that have no two records of one kind is found in any order.
LEMMA FoundInAnyOrder ==
  ASSUME TablesOK, NEW g, Permuted(g), NEW c \in AllConflicts(fixtures),
         \A ref \in c.refs : ref[1] = "student" => ~Doubled(fixtures, ref[2])
  PROVE  c \in AllConflicts(g)
<1>1. \A id : <<"student", id>> \in c.refs => ~Doubled(fixtures, id)
  <2> SUFFICES ASSUME NEW id, <<"student", id>> \in c.refs PROVE ~Doubled(fixtures, id)
    OBVIOUS
  <2>1. <<"student", id>>[1] = "student" /\ <<"student", id>>[2] = id
    OBVIOUS
  <2> QED BY <2>1
<1>2. {"students", "contacts", "payments", "enrollments", "deals"} = DOMAIN Tables
  BY DEF Tables
<1>3. CASE c.rule = "C1"
  <2>1. c \in PaidButNoDeal(fixtures)
    BY <1>3, FoundByRule
  <2>2. PICK id \in Linked(fixtures, "payments") :
          /\ PaidDeposits(fixtures, id) # {} /\ EnrollmentsOf(fixtures, id) # {}
          /\ DealsOf(fixtures, id) = {}
          /\ c = BuildConflict("C1", {<<"student", id>>, <<"payment",
                   First(fixtures.payments, PaidDeposits(fixtures, id)).id>>}, {"crm_deal_id"}, {id})
    BY <2>1 DEF PaidButNoDeal
  <2>3. ~Doubled(fixtures, id) /\ PaidDeposits(fixtures, id) \subseteq PaymentsOf(fixtures, id)
    BY <1>1, <2>2 DEF BuildConflict, PaidDeposits
  <2>4. First(g.payments, PaidDeposits(fixtures, id)) = First(fixtures.payments, PaidDeposits(fixtures, id))
    BY <2>2, <2>3, SingleRecords
  <2>5. /\ id \in Linked(g, "payments") /\ PaidDeposits(g, id) = PaidDeposits(fixtures, id)
        /\ EnrollmentsOf(g, id) # {} /\ DealsOf(g, id) = {}
    BY <1>2, <2>2, PermutedKeeps
  <2>6. c \in PaidButNoDeal(g)
    BY <2>2, <2>4, <2>5 DEF PaidButNoDeal
  <2> QED BY <2>6 DEF AllConflicts
<1>4. CASE c.rule = "C2"
  <2>1. c \in PaymentWithNoPerson(fixtures)
    BY <1>4, FoundByRule
  <2>2. PICK p \in Records(fixtures, "payments") :
          /\ StudentOf(fixtures, p) = None
          /\ c = BuildConflict("C2", {<<"payment", p.id>>}, {"person_link"}, {p})
    BY <2>1 DEF PaymentWithNoPerson
  <2>3. p \in Records(g, "payments") /\ StudentOf(g, p) = None
    BY <1>2, <2>2, PermutedKeeps
  <2>4. c \in PaymentWithNoPerson(g)
    BY <2>2, <2>3 DEF PaymentWithNoPerson
  <2> QED BY <2>4 DEF AllConflicts
<1>5. CASE c.rule \in {"C3", "C10"}
  <2>1. Records(g, "contacts") = Records(fixtures, "contacts")
    BY <1>2, PermutedKeeps
  <2>2. MergeCollapsedRecord(fixtures) = MergeCollapsedRecord(g)
    BY <2>1 DEF MergeCollapsedRecord
  <2>3. \A r : SamePerson(fixtures, r) = SamePerson(g, r)
    BY <2>1 DEF SamePerson
  <2>4. {SamePerson(fixtures, r) : r \in Records(fixtures, "contacts")}
          = {SamePerson(g, r) : r \in Records(g, "contacts")}
    BY <2>1, <2>3
  <2>5. DuplicateByEmail(fixtures) = DuplicateByEmail(g)
    BY <2>4 DEF DuplicateByEmail
  <2> QED BY <1>5, <2>2, <2>5, FoundByRule DEF AllConflicts
<1>6. CASE c.rule = "C4"
  <2>1. c \in CrossSourceEmailMismatch(fixtures)
    BY <1>6, FoundByRule
  <2>2. PICK id \in Linked(fixtures, "contacts") :
          /\ Canonical[StudentWith(fixtures, id).email] # Canonical[ContactOf(fixtures, id).email]
          /\ c = BuildConflict("C4", {<<"student", id>>, <<"crm", ContactOf(fixtures, id).id>>},
                   {"email"}, {id})
    BY <2>1 DEF CrossSourceEmailMismatch
  <2>3. ~Doubled(fixtures, id) /\ ContactsOf(fixtures, id) # {}
    BY <1>1, <2>2 DEF BuildConflict, Linked, ContactsOf
  <2>4. /\ ContactOf(g, id) = ContactOf(fixtures, id) /\ id \in Linked(g, "contacts")
        /\ StudentWith(g, id) = StudentWith(fixtures, id)
    BY <1>2, <2>2, <2>3, SingleRecords, PermutedKeeps
  <2>5. c \in CrossSourceEmailMismatch(g)
    BY <2>2, <2>4 DEF CrossSourceEmailMismatch
  <2> QED BY <2>5 DEF AllConflicts
<1>7. CASE c.rule = "C5"
  <2>1. c \in RequiredSourceMissing(fixtures)
    BY <1>7, FoundByRule
  <2>2. PICK s \in Records(fixtures, "students") :
          /\ s.candidate /\ ContactsOf(fixtures, s.id) = {} /\ PaymentsOf(fixtures, s.id) = {}
          /\ EnrollmentsOf(fixtures, s.id) = {}
          /\ c = BuildConflict("C5", {<<"student", s.id>>}, {"source_presence"}, {s.id})
    BY <2>1 DEF RequiredSourceMissing
  <2>3. /\ s \in Records(g, "students") /\ ContactsOf(g, s.id) = {} /\ PaymentsOf(g, s.id) = {}
        /\ EnrollmentsOf(g, s.id) = {}
    BY <1>2, <2>2, PermutedKeeps
  <2>4. c \in RequiredSourceMissing(g)
    BY <2>2, <2>3 DEF RequiredSourceMissing
  <2> QED BY <2>4 DEF AllConflicts
<1>8. CASE c.rule = "C6"
  <2>1. c \in MaterialFieldDisagreement(fixtures)
    BY <1>8, FoundByRule
  <2>2. PICK id \in Linked(fixtures, "contacts") :
          /\ ContactOf(fixtures, id).grade # None
          /\ Canonical[StudentWith(fixtures, id).grade] # Canonical[ContactOf(fixtures, id).grade]
          /\ c = BuildConflict("C6", {<<"student", id>>, <<"crm", ContactOf(fixtures, id).id>>},
                   {"grade"}, {id})
    BY <2>1 DEF MaterialFieldDisagreement
  <2>3. ~Doubled(fixtures, id) /\ ContactsOf(fixtures, id) # {}
    BY <1>1, <2>2 DEF BuildConflict, Linked, ContactsOf
  <2>4. /\ ContactOf(g, id) = ContactOf(fixtures, id) /\ id \in Linked(g, "contacts")
        /\ StudentWith(g, id) = StudentWith(fixtures, id)
    BY <1>2, <2>2, <2>3, SingleRecords, PermutedKeeps
  <2>5. c \in MaterialFieldDisagreement(g)
    BY <2>2, <2>4 DEF MaterialFieldDisagreement
  <2> QED BY <2>5 DEF AllConflicts
<1>9. CASE c.rule = "C7"
  <2>1. c \in EnrolledButUnpaid(fixtures)
    BY <1>9, FoundByRule
  <2>2. PICK e \in Records(fixtures, "enrollments") :
          /\ e.stage = "enrolled" /\ PaymentsOf(fixtures, e.student) = {}
          /\ c = BuildConflict("C7", {<<"student", e.student>>, <<"enrollment", e.id>>},
                   {"payment_id"}, {e})
    BY <2>1 DEF EnrolledButUnpaid
  <2>3. e \in Records(g, "enrollments") /\ PaymentsOf(g, e.student) = {}
    BY <1>2, <2>2, PermutedKeeps
  <2>4. c \in EnrolledButUnpaid(g)
    BY <2>2, <2>3 DEF EnrolledButUnpaid
  <2> QED BY <2>4 DEF AllConflicts
<1>10. CASE c.rule = "C8"
  <2>1. c \in DroppedSibling(fixtures)
    BY <1>10, FoundByRule
  <2>2. PICK s \in Records(fixtures, "students") :
          /\ s.household # None /\ Unpaid(fixtures, s.household) = {s}
          /\ \A m \in Household(fixtures, s.household) : ContactsOf(fixtures, m.id) # {}
          /\ EnrollmentsOf(fixtures, s.id) # {} /\ EnrollmentOf(fixtures, s.id).stage = "applied"
          /\ c = BuildConflict("C8", {<<"student", s.id>>, <<"household", s.household>>},
                   {"household_member_payment"}, {s.id})
    BY <2>1 DEF DroppedSibling
  <2>3. ~Doubled(fixtures, s.id)
    BY <1>1, <2>2 DEF BuildConflict
  <2>4. EnrollmentOf(g, s.id) = EnrollmentOf(fixtures, s.id)
    BY <2>2, <2>3, SingleRecords
  <2>5. /\ s \in Records(g, "students") /\ Unpaid(g, s.household) = {s}
        /\ Household(g, s.household) = Household(fixtures, s.household)
        /\ \A m : ContactsOf(g, m.id) = ContactsOf(fixtures, m.id)
        /\ EnrollmentsOf(g, s.id) # {}
    BY <1>2, <2>2, PermutedKeeps
  <2>6. c \in DroppedSibling(g)
    BY <2>2, <2>4, <2>5 DEF DroppedSibling
  <2> QED BY <2>6 DEF AllConflicts
<1>11. CASE c.rule = "C9"
  <2>1. c \in StaleCrmPointer(fixtures)
    BY <1>11, FoundByRule
  <2>2. PICK e \in Records(fixtures, "enrollments") :
          /\ e.deal # None
          /\ ~\E d \in Records(fixtures, "deals") : d.id = e.deal /\ Concerns(fixtures, d, e.student)
          /\ c = BuildConflict("C9", {<<"student", e.student>>, <<"enrollment", e.id>>},
                   {"crm_deal_id"}, {e})
    BY <2>1 DEF StaleCrmPointer
  <2>3. /\ e \in Records(g, "enrollments")
        /\ ~\E d \in Records(g, "deals") : d.id = e.deal /\ Concerns(g, d, e.student)
    BY <1>2, <2>2, PermutedKeeps
  <2>4. c \in StaleCrmPointer(g)
    BY <2>2, <2>3 DEF StaleCrmPointer
  <2> QED BY <2>4 DEF AllConflicts
<1>12. CASE c.rule \in {"C11", "C12"}
  <2>1. Records(g, "payments") = Records(fixtures, "payments")
    BY <1>2, PermutedKeeps
  <2>2. DuplicatePayment(fixtures) = DuplicatePayment(g)
    BY <2>1 DEF DuplicatePayment
  <2>3. WrongAmountPayment(fixtures) = WrongAmountPayment(g)
    BY <2>1 DEF WrongAmountPayment
  <2> QED BY <1>12, <2>2, <2>3, FoundByRule DEF AllConflicts
<1>13. CASE c.rule = "C13"
  <2>1. c \in RefundNotReflected(fixtures)
    BY <1>13, FoundByRule
  <2>2. PICK p \in Records(fixtures, "payments") :
          /\ p.status = "refunded" /\ StudentOf(fixtures, p) # None
          /\ EnrollmentsOf(fixtures, StudentOf(fixtures, p)) # {}
          /\ EnrollmentOf(fixtures, StudentOf(fixtures, p)).deposit
          /\ c = BuildConflict("C13", {<<"student", StudentOf(fixtures, p)>>, <<"payment", p.id>>},
                   {"deposit_paid_at", "payment_status"}, {p})
    BY <2>1 DEF RefundNotReflected
  <2> DEFINE id == StudentOf(fixtures, p)
  <2>3. ~Doubled(fixtures, id)
    BY <1>1, <2>2 DEF BuildConflict
  <2>4. EnrollmentOf(g, id) = EnrollmentOf(fixtures, id)
    BY <2>2, <2>3, SingleRecords
  <2>5. p \in Records(g, "payments") /\ StudentOf(g, p) = id /\ EnrollmentsOf(g, id) # {}
    BY <1>2, <2>2, PermutedKeeps
  <2>6. c \in RefundNotReflected(g)
    BY <2>2, <2>4, <2>5 DEF RefundNotReflected
  <2> QED BY <2>6 DEF AllConflicts
<1>14. CASE c.rule = "C14"
  <2>1. c \in SensitiveFieldOnlyFix(fixtures)
    BY <1>14, FoundByRule
  <2>2. PICK id \in Linked(fixtures, "contacts") \cap Linked(fixtures, "payments") :
          /\ OwnerDiffers(fixtures, id)
          /\ c = BuildConflict("C14",
                   {<<"student", id>>, <<"crm", ContactOf(fixtures, id).id>>,
                    <<"payment", First(fixtures.payments, PaymentsOf(fixtures, id)).id>>},
                   {"billing_owner_email"}, {id})
    BY <2>1 DEF SensitiveFieldOnlyFix
  <2>3. /\ ~Doubled(fixtures, id)
        /\ ContactsOf(fixtures, id) # {} /\ PaymentsOf(fixtures, id) # {}
    BY <1>1, <2>2 DEF BuildConflict, Linked, ContactsOf, PaymentsOf
  <2>4. /\ ContactOf(g, id) = ContactOf(fixtures, id)
        /\ First(g.payments, PaymentsOf(fixtures, id)) = First(fixtures.payments, PaymentsOf(fixtures, id))
    BY <2>3, SingleRecords
  <2>5. /\ id \in Linked(g, "contacts") \cap Linked(g, "payments")
        /\ PaymentsOf(g, id) = PaymentsOf(fixtures, id)
    BY <1>2, <2>2, PermutedKeeps
  <2>6. OwnerDiffers(g, id)
    BY <2>2, <2>4, <2>5 DEF OwnerDiffers
  <2>7. c \in SensitiveFieldOnlyFix(g)
    BY <2>2, <2>4, <2>5, <2>6 DEF SensitiveFieldOnlyFix
  <2> QED BY <2>7 DEF AllConflicts
<1> QED
  BY <1>3, <1>4, <1>5, <1>6, <1>7, <1>8, <1>9, <1>10, <1>11, <1>12, <1>13, <1>14, FoundByRule DEF Rule

\* Only the conflicts of a student with two records of one kind depend on the order in which a
\* source returns its records.
THEOREM OrderAlwaysMattersOnlyForDoubles == Spec => []OrderMattersOnlyForDoubles
<1>1. TablesOK => OrderMattersOnlyForDoubles
  <2> SUFFICES ASSUME TablesOK, NEW source, NEW c \in AllConflicts(fixtures),
                      ~\E ref \in c.refs : ref[1] = "student" /\ Doubled(fixtures, ref[2])
               PROVE  c \in AllConflicts(Reordered(fixtures, source))
    BY DEF OrderMattersOnlyForDoubles
  <2> QED BY ReorderedIsPermuted, FoundInAnyOrder
<1> QED BY <1>1, TablesAreOK, PTL

-----------------------------------------------------------------------------
(* What the conflicts of a student are about.                              *)

\* A link is to a student the app holds.
LEMMA LinkedAreStudents ==
  ASSUME NEW f, NEW r, StudentOf(f, r) # None
  PROVE  \E s \in Records(f, "students") : s.id = StudentOf(f, r)
<1>1. Candidates(f, r) \subseteq Records(f, "students")
  BY DEF Candidates, ByHardId, ByNameDob, ByEmail
<1>2. Cardinality(Candidates(f, r)) = 1 /\ StudentOf(f, r) = (CHOOSE s \in Candidates(f, r) : TRUE).id
  BY DEF StudentOf
<1>3. Candidates(f, r) # {}
  <2>1. Cardinality({}) = 0
    BY FS_EmptySet
  <2> QED BY <1>2, <2>1
<1> QED BY <1>1, <1>2, <1>3

\* So is a student that a contact or a payment is linked to.
LEMMA LinkedAreKnown ==
  ASSUME NEW f, NEW table, NEW id \in Linked(f, table)
  PROVE  \E s \in Records(f, "students") : s.id = id
BY LinkedAreStudents DEF Linked

\* A conflict that refers to a student and to other things.
RefersTo(c, id) ==
  <<"student", id>> \in c.refs /\ \A ref \in c.refs : ref = <<"student", id>> \/ ref[1] # "student"

\* It refers to no other student.
LEMMA OneStudent ==
  ASSUME NEW c, NEW id, RefersTo(c, id)
  PROVE  StudentRefs(c) = {<<"student", id>>}
<1>1. <<"student", id>>[1] = "student"
  OBVIOUS
<1> QED BY <1>1 DEF StudentRefs, RefersTo

\* The student is one of the app.
AboutKnown(c, id) == \E s \in Records(fixtures, "students") : s.id = id

\* The student is that of an enrollment, known or not.
AboutEnrolled(c, id) ==
  /\ c.rule \in {"C7", "C9"}
  /\ \E e \in Records(fixtures, "enrollments") : e.student = id /\ <<"enrollment", e.id>> \in c.refs

\* A conflict refers to one student at most: one of the app, or that of an enrollment.
LEMMA AboutOneStudent ==
  ASSUME NEW c \in AllConflicts(fixtures), StudentRefs(c) # {}
  PROVE  \E id : /\ StudentRefs(c) = {<<"student", id>>}
                 /\ AboutKnown(c, id) \/ AboutEnrolled(c, id)
<1>1. CASE c.rule = "C1"
  <2>1. PICK id \in Linked(fixtures, "payments") : c.refs = {<<"student", id>>, <<"payment",
          First(fixtures.payments, PaidDeposits(fixtures, id)).id>>}
    BY <1>1, FoundByRule DEF PaidButNoDeal, BuildConflict
  <2>2. RefersTo(c, id)
    BY <2>1 DEF RefersTo
  <2> QED BY <2>1, <2>2, OneStudent, LinkedAreKnown DEF AboutKnown
<1>2. CASE c.rule = "C2"
  <2>1. PICK p : c.refs = {<<"payment", p.id>>}
    BY <1>2, FoundByRule DEF PaymentWithNoPerson, BuildConflict
  <2> QED BY <2>1 DEF StudentRefs
<1>3. CASE c.rule = "C3"
  <2>1. PICK pair : c.refs = {<<"crm", r.id>> : r \in pair}
    BY <1>3, FoundByRule DEF DuplicateByEmail, BuildConflict
  <2> QED BY <2>1 DEF StudentRefs
<1>4. CASE c.rule = "C4"
  <2>1. PICK id \in Linked(fixtures, "contacts") : c.refs = {<<"student", id>>, <<"crm", ContactOf(fixtures, id).id>>}
    BY <1>4, FoundByRule DEF CrossSourceEmailMismatch, BuildConflict
  <2>2. RefersTo(c, id)
    BY <2>1 DEF RefersTo
  <2> QED BY <2>1, <2>2, OneStudent, LinkedAreKnown DEF AboutKnown
<1>5. CASE c.rule = "C5"
  <2>1. PICK s \in Records(fixtures, "students") : c.refs = {<<"student", s.id>>}
    BY <1>5, FoundByRule DEF RequiredSourceMissing, BuildConflict
  <2>2. RefersTo(c, s.id)
    BY <2>1 DEF RefersTo
  <2> QED BY <2>2, OneStudent DEF AboutKnown
<1>6. CASE c.rule = "C6"
  <2>1. PICK id \in Linked(fixtures, "contacts") : c.refs = {<<"student", id>>, <<"crm", ContactOf(fixtures, id).id>>}
    BY <1>6, FoundByRule DEF MaterialFieldDisagreement, BuildConflict
  <2>2. RefersTo(c, id)
    BY <2>1 DEF RefersTo
  <2> QED BY <2>1, <2>2, OneStudent, LinkedAreKnown DEF AboutKnown
<1>7. CASE c.rule \in {"C7", "C9"}
  <2>1. PICK e \in Records(fixtures, "enrollments") :
          c.refs = {<<"student", e.student>>, <<"enrollment", e.id>>}
    BY <1>7, FoundByRule DEF EnrolledButUnpaid, StaleCrmPointer, BuildConflict
  <2>2. RefersTo(c, e.student)
    BY <2>1 DEF RefersTo
  <2>3. AboutEnrolled(c, e.student)
    BY <1>7, <2>1 DEF AboutEnrolled
  <2> QED BY <2>2, <2>3, OneStudent
<1>8. CASE c.rule = "C8"
  <2>1. PICK s \in Records(fixtures, "students") :
          c.refs = {<<"student", s.id>>, <<"household", s.household>>}
    BY <1>8, FoundByRule DEF DroppedSibling, BuildConflict
  <2>2. RefersTo(c, s.id)
    BY <2>1 DEF RefersTo
  <2> QED BY <2>2, OneStudent DEF AboutKnown
<1>9. CASE c.rule = "C10"
  <2>1. PICK r : c.refs = {<<"crm", r.id>>}
    BY <1>9, FoundByRule DEF MergeCollapsedRecord, BuildConflict
  <2> QED BY <2>1 DEF StudentRefs
<1>10. CASE c.rule = "C11"
  <2>1. PICK pair : c.refs = {<<"payment", r.id>> : r \in pair}
    BY <1>10, FoundByRule DEF DuplicatePayment, BuildConflict
  <2> QED BY <2>1 DEF StudentRefs
<1>11. CASE c.rule = "C12"
  <2>1. PICK p : c.refs = {<<"payment", p.id>>}
    BY <1>11, FoundByRule DEF WrongAmountPayment, BuildConflict
  <2> QED BY <2>1 DEF StudentRefs
<1>12. CASE c.rule = "C13"
  <2>1. PICK p \in Records(fixtures, "payments") :
          /\ StudentOf(fixtures, p) # None
          /\ c.refs = {<<"student", StudentOf(fixtures, p)>>, <<"payment", p.id>>}
    BY <1>12, FoundByRule DEF RefundNotReflected, BuildConflict
  <2>2. RefersTo(c, StudentOf(fixtures, p))
    BY <2>1 DEF RefersTo
  <2> QED BY <2>1, <2>2, OneStudent, LinkedAreStudents DEF AboutKnown
<1>13. CASE c.rule = "C14"
  <2>1. PICK id \in Linked(fixtures, "contacts") :
          c.refs = {<<"student", id>>, <<"crm", ContactOf(fixtures, id).id>>,
                    <<"payment", First(fixtures.payments, PaymentsOf(fixtures, id)).id>>}
    BY <1>13, FoundByRule DEF SensitiveFieldOnlyFix, BuildConflict
  <2>2. RefersTo(c, id)
    BY <2>1 DEF RefersTo
  <2> QED BY <2>1, <2>2, OneStudent, LinkedAreKnown DEF AboutKnown
<1> QED BY <1>1, <1>2, <1>3, <1>4, <1>5, <1>6, <1>7, <1>8, <1>9, <1>10, <1>11, <1>12, <1>13,
        FoundByRule DEF Rule

-----------------------------------------------------------------------------
(* The results of the rules and the conflicts.                             *)

\* The conflict a verdict refers to is one of the evaluation, about one student.
LEMMA ChosenAreConflicts ==
  ASSUME NEW c \in Chosen(AllConflicts(fixtures))
  PROVE  c \in AllConflicts(fixtures) /\ StudentRefs(c) # {}
<1> DEFINE conflicts == AllConflicts(fixtures)
<1>1. PICK d \in conflicts :
        /\ StudentRefs(d) # {}
        /\ c = CHOOSE x \in OfStudent(conflicts, d.rule, (CHOOSE ref \in StudentRefs(d) : TRUE)[2]) : TRUE
  BY DEF Chosen
<1>2. PICK id : StudentRefs(d) = {<<"student", id>>}
  BY <1>1, AboutOneStudent
<1>3. (CHOOSE ref \in StudentRefs(d) : TRUE)[2] = id
  <2>1. (CHOOSE ref \in StudentRefs(d) : TRUE) \in StudentRefs(d)
    BY <1>1
  <2> QED BY <1>2, <2>1
<1>4. d \in OfStudent(conflicts, d.rule, id)
  BY <1>1, <1>2 DEF OfStudent
<1>5. c \in OfStudent(conflicts, d.rule, id)
  BY <1>1, <1>3, <1>4
<1> QED BY <1>5 DEF OfStudent

\* A conflict without a failing row is about the enrollment of an unknown student.
LEMMA EveryResultIsCovered == ResultsCoverConflicts
<1> DEFINE conflicts == AllConflicts(fixtures)
           OfThis(c) == \E s \in Records(fixtures, "students") : <<"student", s.id>> \in c.refs
           results == InvariantResults(fixtures, conflicts)
           Unknown(e) == \A s \in Records(fixtures, "students") : s.id # e.student
<1>1. /\ results.failing = {c \in Chosen(conflicts) : OfThis(c)} \cup (conflicts \ Chosen(conflicts))
      /\ results.passing = 14 * Cardinality(Records(fixtures, "students"))
                             - Cardinality({c \in Chosen(conflicts) : OfThis(c)})
  BY DEF InvariantResults, Others
<1>2. CASE \A c \in Chosen(conflicts) : OfThis(c)
  <2>1. {c \in Chosen(conflicts) : OfThis(c)} = Chosen(conflicts)
    BY <1>2
  <2>2. Chosen(conflicts) \subseteq conflicts
    BY ChosenAreConflicts
  <2>3. results.failing = conflicts /\ results.passing = Summary(fixtures, conflicts).pass
    BY <1>1, <2>1, <2>2 DEF Summary
  <2> QED BY <2>3 DEF ResultsCoverConflicts
<1>3. ASSUME NEW c \in Chosen(conflicts), ~OfThis(c) PROVE ResultsCoverConflicts
  <2>1. c \in conflicts /\ StudentRefs(c) # {} /\ c \notin results.failing
    BY <1>1, <1>3, ChosenAreConflicts
  <2>2. PICK id : StudentRefs(c) = {<<"student", id>>} /\ (AboutKnown(c, id) \/ AboutEnrolled(c, id))
    BY <2>1, AboutOneStudent
  <2>3. <<"student", id>> \in c.refs
    BY <2>2 DEF StudentRefs
  <2>4. ~AboutKnown(c, id)
    BY <1>3, <2>3 DEF AboutKnown
  <2>5. PICK e \in Records(fixtures, "enrollments") : e.student = id /\ <<"enrollment", e.id>> \in c.refs
    BY <2>2, <2>4 DEF AboutEnrolled
  <2>6. Unknown(e)
    BY <2>4, <2>5 DEF AboutKnown
  <2>7. c \in AllConflicts(fixtures) \ InvariantResults(fixtures, AllConflicts(fixtures)).failing
    BY <2>1
  <2>8. Unknown(e) /\ \E x \in AllConflicts(fixtures) \ InvariantResults(fixtures, AllConflicts(fixtures)).failing :
                        <<"enrollment", e.id>> \in x.refs
    BY <2>5, <2>6, <2>7
  <2> HIDE DEF results, conflicts
  <2> QED BY <2>8 DEF ResultsCoverConflicts
<1> QED BY <1>2, <1>3

\* Every conflict has exactly one failing row and the summary counts the rows, unless an
\* enrollment is of a student the app does not hold.
THEOREM ResultsAlwaysCoverConflicts == Spec => []ResultsCoverConflicts
BY EveryResultIsCovered, PTL

-----------------------------------------------------------------------------
(* The entities and the conflicts.                                         *)

\* Induction over the natural numbers, for a set.
LEMMA InductiveSet ==
  ASSUME NEW N \in SUBSET Nat, 0 \in N, \A n \in N : n + 1 \in N
  PROVE  N = Nat
<1> DEFINE Outside == Nat \ N
           Less == {p \in Nat \X Nat : p[1] < p[2]}
<1>1. SUFFICES ASSUME Outside # {} PROVE FALSE
  OBVIOUS
<1>2. IsWellFoundedOn(Less, Nat)
  BY NatLessThanWellFounded DEF OpToRel
<1>3. PICK n \in Outside : \A k \in Outside : <<k, n>> \notin Less
  <2>1. Outside \subseteq Nat
    OBVIOUS
  <2> HIDE DEF Outside, Less
  <2> QED BY <1>1, <1>2, <2>1, WFMin
<1>4. n - 1 \in Nat /\ n - 1 < n
  OBVIOUS
<1>5. n - 1 \in N
  BY <1>3, <1>4
<1> QED BY <1>4, <1>5

\* In a finite set of students one comes first.
LEMMA OneComesFirst ==
  ASSUME NEW K \in SUBSET {StudentId(s.id) : s \in Student}, IsFiniteSet(K), K # {}
  PROVE  \E x \in K : \A y \in K : Sorted(x, y)
<1> DEFINE ids == {StudentId(s.id) : s \in Student}
           HasFirst(T) == \E x \in T : \A y \in T : Sorted(x, y)
           N == {n \in Nat : \A T \in SUBSET ids :
                   IsFiniteSet(T) /\ T # {} /\ Cardinality(T) = n => HasFirst(T)}
<1>1. \A x, y, z \in ids :
        /\ Sorted(x, y) \/ Sorted(y, x)
        /\ Sorted(x, y) /\ Sorted(y, z) => Sorted(x, z)
  BY SortedAssumption
<1> HIDE DEF ids
<1>2. 0 \in N
  BY FS_EmptySet
<1>3. ASSUME NEW n \in N PROVE n + 1 \in N
  <2> SUFFICES ASSUME NEW T \in SUBSET ids, IsFiniteSet(T), T # {}, Cardinality(T) = n + 1
               PROVE  HasFirst(T)
    OBVIOUS
  <2>1. PICK k \in T : TRUE
    OBVIOUS
  <2>2. IsFiniteSet(T \ {k}) /\ Cardinality(T \ {k}) = n
    <3>1. n \in Nat /\ n + 1 - 1 = n
      OBVIOUS
    <3>2. IsFiniteSet(T \ {k}) /\ Cardinality(T \ {k}) = Cardinality(T) - 1
      BY <2>1, FS_RemoveElement
    <3> QED BY <3>1, <3>2
  <2>3. CASE T \ {k} = {}
    BY <1>1, <2>1, <2>3
  <2>4. CASE T \ {k} # {}
    <3>1. T \ {k} \in SUBSET ids
      OBVIOUS
    <3>2. PICK x \in T \ {k} : \A y \in T \ {k} : Sorted(x, y)
      BY <2>2, <2>4, <3>1
    <3>3. CASE Sorted(x, k)
      BY <3>2, <3>3
    <3>4. CASE ~Sorted(x, k)
      <4>1. Sorted(k, x) /\ Sorted(k, k)
        BY <1>1, <2>1, <3>2, <3>4
      <4>2. \A y \in T \ {k} : Sorted(k, y)
        BY <1>1, <2>1, <3>2, <4>1
      <4> QED BY <2>1, <4>1, <4>2
    <3> QED BY <3>3, <3>4
  <2> QED BY <2>3, <2>4
<1>4. N = Nat
  <2>1. N \in SUBSET Nat
    OBVIOUS
  <2> HIDE DEF N
  <2> QED BY <1>2, <1>3, <2>1, InductiveSet
<1>5. HasFirst(K)
  BY <1>4, FS_CardinalityType DEF ids
<1> QED BY <1>5

\* The entity a record is stored under, but for deals.
EntityOf(table, r) ==
  CASE table = "students" -> StudentId(r.id)
    [] table = "enrollments" -> StudentId(r.student)
    [] table = "contacts" ->
         IF StudentOf(fixtures, r) = None THEN <<"contact", r.id>> ELSE StudentId(StudentOf(fixtures, r))
    [] table = "payments" ->
         IF StudentOf(fixtures, r) = None THEN <<"payment", r.id>> ELSE StudentId(StudentOf(fixtures, r))

\* Ids are unique in a table.
LEMMA SameId ==
  ASSUME TablesOK, NEW table \in DOMAIN Tables, NEW r \in Records(fixtures, table),
         NEW s \in Records(fixtures, table), r.id = s.id
  PROVE  r = s
BY DEF TablesOK, TableOK

\* A student of the app has an id.
LEMMA StudentsAreNamed ==
  ASSUME TablesOK, NEW s \in Records(fixtures, "students")
  PROVE  s \in Student /\ s.id # None
<1>1. fixtures["students"] \in Seq(Student)
  BY DEF TablesOK, TableOK, Tables
<1>2. s \in Student
  BY <1>1 DEF Records
<1> QED BY <1>2, RulesAssumption DEF Tables

\* The three parts of the links.
LEMMA LinksHaveThreeParts ==
  LET ofStudents == UNION {StudentLinks(fixtures, s) : s \in Records(fixtures, "students")}
      ofContacts == {Link(<<"contact", c.id>>, "contacts", c.id) : c \in Unlinked(fixtures, "contacts")}
      ofPayments == {Link(<<"payment", p.id>>, "payments", p.id) : p \in Unlinked(fixtures, "payments")}
  IN  \A l : l \in Links(fixtures) <=> l \in ofStudents \/ l \in ofContacts \/ l \in ofPayments
<1> DEFINE ofStudents == UNION {StudentLinks(fixtures, s) : s \in Records(fixtures, "students")}
           ofContacts == {Link(<<"contact", c.id>>, "contacts", c.id) :
                          c \in Unlinked(fixtures, "contacts")}
           ofPayments == {Link(<<"payment", p.id>>, "payments", p.id) :
                          p \in Unlinked(fixtures, "payments")}
<1>1. Links(fixtures) = (ofStudents \cup ofContacts) \cup ofPayments
  BY DEF Links
<1> HIDE DEF ofStudents, ofContacts, ofPayments
<1>2. \A l : l \in Links(fixtures) <=> l \in ofStudents \/ l \in ofContacts \/ l \in ofPayments
  BY <1>1
<1> QED BY <1>2 DEF ofStudents, ofContacts, ofPayments

\* Where the links of a record come from.
LEMMA LinksOfRecord ==
  ASSUME TablesOK, NEW table \in DOMAIN Tables, NEW r \in Records(fixtures, table),
         NEW l \in Links(fixtures), l.record = <<table, r.id>>
  PROVE  /\ l = [entity |-> l.entity, record |-> <<table, r.id>>]
         /\ table # "deals" => l.entity = EntityOf(table, r)
         /\ table = "deals" => \E s \in Records(fixtures, "students") :
              l.entity = StudentId(s.id) /\ Concerns(fixtures, r, s.id)
<1>1. CASE \E s \in Records(fixtures, "students") : l \in StudentLinks(fixtures, s)
  <2>1. PICK s \in Records(fixtures, "students") : l \in StudentLinks(fixtures, s)
    BY <1>1
  <2>2. s.id # None
    BY StudentsAreNamed
  <2>3. CASE l = Link(StudentId(s.id), "students", s.id)
    <3>1. table = "students" /\ r.id = s.id /\ l.entity = StudentId(s.id)
      BY <2>3 DEF Link
    <3> QED BY <2>3, <3>1 DEF Link, EntityOf
  <2>4. CASE EnrollmentsOf(fixtures, s.id) # {}
             /\ l = Link(StudentId(s.id), "enrollments", EnrollmentOf(fixtures, s.id).id)
    <3>1. table = "enrollments" /\ r.id = EnrollmentOf(fixtures, s.id).id /\ l.entity = StudentId(s.id)
      BY <2>4 DEF Link
    <3>2. EnrollmentOf(fixtures, s.id) \in EnrollmentsOf(fixtures, s.id)
      BY <2>4, LastOfTable DEF EnrollmentOf, EnrollmentsOf, Tables
    <3>3. EnrollmentOf(fixtures, s.id) = r
      BY <3>1, <3>2, SameId DEF EnrollmentsOf
    <3>4. r.student = s.id
      BY <3>2, <3>3 DEF EnrollmentsOf
    <3> QED BY <2>4, <3>1, <3>4 DEF Link, EntityOf
  <2>5. CASE \E c \in ContactsOf(fixtures, s.id) : l = Link(StudentId(s.id), "contacts", c.id)
    <3>1. PICK c \in ContactsOf(fixtures, s.id) : l = Link(StudentId(s.id), "contacts", c.id)
      BY <2>5
    <3>2. table = "contacts" /\ r.id = c.id /\ l.entity = StudentId(s.id)
      BY <3>1 DEF Link
    <3>3. c = r /\ StudentOf(fixtures, r) = s.id
      BY <3>2, SameId DEF ContactsOf
    <3> QED BY <2>2, <3>1, <3>2, <3>3 DEF Link, EntityOf
  <2>6. CASE \E p \in PaymentsOf(fixtures, s.id) : l = Link(StudentId(s.id), "payments", p.id)
    <3>1. PICK p \in PaymentsOf(fixtures, s.id) : l = Link(StudentId(s.id), "payments", p.id)
      BY <2>6
    <3>2. table = "payments" /\ r.id = p.id /\ l.entity = StudentId(s.id)
      BY <3>1 DEF Link
    <3>3. p = r /\ StudentOf(fixtures, r) = s.id
      BY <3>2, SameId DEF PaymentsOf
    <3> QED BY <2>2, <3>1, <3>2, <3>3 DEF Link, EntityOf
  <2>7. CASE \E d \in DealsOf(fixtures, s.id) : l = Link(StudentId(s.id), "deals", d.id)
    <3>1. PICK d \in DealsOf(fixtures, s.id) : l = Link(StudentId(s.id), "deals", d.id)
      BY <2>7
    <3>2. table = "deals" /\ r.id = d.id /\ l.entity = StudentId(s.id)
      BY <3>1 DEF Link
    <3>3. d = r
      BY <3>2, SameId DEF DealsOf
    <3> QED BY <3>1, <3>2, <3>3 DEF Link, DealsOf
  <2>8. \/ l \in {Link(StudentId(s.id), "students", s.id)}
        \/ l \in (IF EnrollmentsOf(fixtures, s.id) = {} THEN {}
                  ELSE {Link(StudentId(s.id), "enrollments", EnrollmentOf(fixtures, s.id).id)})
        \/ l \in {Link(StudentId(s.id), "contacts", c.id) : c \in ContactsOf(fixtures, s.id)}
        \/ l \in {Link(StudentId(s.id), "payments", p.id) : p \in PaymentsOf(fixtures, s.id)}
        \/ l \in {Link(StudentId(s.id), "deals", d.id) : d \in DealsOf(fixtures, s.id)}
    BY <2>1, Zenon DEF StudentLinks
  <2>9. CASE l \in (IF EnrollmentsOf(fixtures, s.id) = {} THEN {}
                  ELSE {Link(StudentId(s.id), "enrollments", EnrollmentOf(fixtures, s.id).id)})
    BY <2>4, <2>9
  <2>10. CASE l \in {Link(StudentId(s.id), "contacts", c.id) : c \in ContactsOf(fixtures, s.id)}
    BY <2>5, <2>10
  <2>11. CASE l \in {Link(StudentId(s.id), "payments", p.id) : p \in PaymentsOf(fixtures, s.id)}
    BY <2>6, <2>11
  <2>12. CASE l \in {Link(StudentId(s.id), "deals", d.id) : d \in DealsOf(fixtures, s.id)}
    BY <2>7, <2>12
  <2> QED BY <2>3, <2>8, <2>9, <2>10, <2>11, <2>12
<1>2. CASE \E c \in Unlinked(fixtures, "contacts") : l = Link(<<"contact", c.id>>, "contacts", c.id)
  <2>1. PICK c \in Unlinked(fixtures, "contacts") : l = Link(<<"contact", c.id>>, "contacts", c.id)
    BY <1>2
  <2>2. table = "contacts" /\ r.id = c.id
    BY <2>1 DEF Link
  <2>3. c = r
    BY <2>2, SameId DEF Unlinked
  <2> QED BY <2>1, <2>2, <2>3 DEF Link, EntityOf, Unlinked
<1>3. CASE \E p \in Unlinked(fixtures, "payments") : l = Link(<<"payment", p.id>>, "payments", p.id)
  <2>1. PICK p \in Unlinked(fixtures, "payments") : l = Link(<<"payment", p.id>>, "payments", p.id)
    BY <1>3
  <2>2. table = "payments" /\ r.id = p.id
    BY <2>1 DEF Link
  <2>3. p = r
    BY <2>2, SameId DEF Unlinked
  <2> QED BY <2>1, <2>2, <2>3 DEF Link, EntityOf, Unlinked
<1>4. \/ l \in UNION {StudentLinks(fixtures, s) : s \in Records(fixtures, "students")}
      \/ l \in {Link(<<"contact", c.id>>, "contacts", c.id) : c \in Unlinked(fixtures, "contacts")}
      \/ l \in {Link(<<"payment", p.id>>, "payments", p.id) : p \in Unlinked(fixtures, "payments")}
  BY LinksHaveThreeParts
<1>5. CASE l \in UNION {StudentLinks(fixtures, s) : s \in Records(fixtures, "students")}
  BY <1>1, <1>5
<1>6. CASE l \in {Link(<<"contact", c.id>>, "contacts", c.id) : c \in Unlinked(fixtures, "contacts")}
  BY <1>2, <1>6
<1>7. CASE l \in {Link(<<"payment", p.id>>, "payments", p.id) : p \in Unlinked(fixtures, "payments")}
  BY <1>3, <1>7
<1> QED BY <1>4, <1>5, <1>6, <1>7

\* Every student, contact and payment has a link.
LEMMA LinksExist ==
  ASSUME TablesOK, NEW table \in {"students", "contacts", "payments"},
         NEW r \in Records(fixtures, table)
  PROVE  \E l \in Links(fixtures) : l.record = <<table, r.id>>
<1>1. \A e, t, k : Link(e, t, k).record = <<t, k>>
  BY DEF Link
<1>2. CASE table = "students"
  <2>1. Link(StudentId(r.id), "students", r.id) \in StudentLinks(fixtures, r)
    BY DEF StudentLinks
  <2>2. Link(StudentId(r.id), "students", r.id) \in Links(fixtures)
    BY <1>2, <2>1 DEF Links
  <2> QED BY <1>1, <1>2, <2>2
<1>3. CASE table = "contacts"
  <2>1. CASE StudentOf(fixtures, r) = None
    <3>1. r \in Unlinked(fixtures, "contacts")
      BY <1>3, <2>1 DEF Unlinked
    <3>2. Link(<<"contact", r.id>>, "contacts", r.id)
            \in {Link(<<"contact", c.id>>, "contacts", c.id) : c \in Unlinked(fixtures, "contacts")}
      BY <3>1
    <3>3. Link(<<"contact", r.id>>, "contacts", r.id) \in Links(fixtures)
      BY <3>2, LinksHaveThreeParts
    <3> QED BY <1>1, <1>3, <3>3
  <2>2. CASE StudentOf(fixtures, r) # None
    <3>1. PICK s \in Records(fixtures, "students") : s.id = StudentOf(fixtures, r)
      BY <2>2, LinkedAreStudents
    <3>2. r \in ContactsOf(fixtures, s.id)
      BY <1>3, <3>1 DEF ContactsOf
    <3>3. Link(StudentId(s.id), "contacts", r.id) \in StudentLinks(fixtures, s)
      BY <3>2 DEF StudentLinks
    <3>4. Link(StudentId(s.id), "contacts", r.id) \in Links(fixtures)
      BY <3>1, <3>3 DEF Links
    <3> QED BY <1>1, <1>3, <3>4
  <2> QED BY <2>1, <2>2
<1>4. CASE table = "payments"
  <2>1. CASE StudentOf(fixtures, r) = None
    <3>1. r \in Unlinked(fixtures, "payments")
      BY <1>4, <2>1 DEF Unlinked
    <3>2. Link(<<"payment", r.id>>, "payments", r.id)
            \in {Link(<<"payment", c.id>>, "payments", c.id) : c \in Unlinked(fixtures, "payments")}
      BY <3>1
    <3>3. Link(<<"payment", r.id>>, "payments", r.id) \in Links(fixtures)
      BY <3>2, LinksHaveThreeParts
    <3> QED BY <1>1, <1>4, <3>3
  <2>2. CASE StudentOf(fixtures, r) # None
    <3>1. PICK s \in Records(fixtures, "students") : s.id = StudentOf(fixtures, r)
      BY <2>2, LinkedAreStudents
    <3>2. r \in PaymentsOf(fixtures, s.id)
      BY <1>4, <3>1 DEF PaymentsOf
    <3>3. Link(StudentId(s.id), "payments", r.id) \in StudentLinks(fixtures, s)
      BY <3>2 DEF StudentLinks
    <3>4. Link(StudentId(s.id), "payments", r.id) \in Links(fixtures)
      BY <3>1, <3>3 DEF Links
    <3> QED BY <1>1, <1>4, <3>4
  <2> QED BY <2>1, <2>2
<1> QED BY <1>2, <1>3, <1>4

\* Every record is stored under one entity at most, and every student, contact and payment
\* under one.
LEMMA StoredOnce ==
  ASSUME TablesOK, NEW table \in DOMAIN Tables, NEW r \in Records(fixtures, table)
  PROVE  LET links == {l \in PersistedLinks(fixtures) : l.record = <<table, r.id>>}
         IN  /\ Cardinality(links) <= 1
             /\ table \in {"students", "contacts", "payments"} => links # {}
             /\ table = "deals" /\ links = {} =>
                  \A s \in Records(fixtures, "students") : ~Concerns(fixtures, r, s.id)
<1> DEFINE links == {l \in PersistedLinks(fixtures) : l.record = <<table, r.id>>}
           all == {l \in Links(fixtures) : l.record = <<table, r.id>>}
<1>1. /\ links \subseteq all
      /\ links = {l \in all : \A m \in all : m = l \/ Sorted(l.entity, m.entity)}
  BY DEF PersistedLinks
<1>2. \A l, m \in all : l.entity = m.entity => l = m
  <2> SUFFICES ASSUME NEW l \in all, NEW m \in all, l.entity = m.entity PROVE l = m
    OBVIOUS
  <2>1. /\ l = [entity |-> l.entity, record |-> <<table, r.id>>]
        /\ m = [entity |-> m.entity, record |-> <<table, r.id>>]
    BY LinksOfRecord
  <2> QED BY <2>1
<1>3. table # "deals" => \A l, m \in all : l = m
  <2> SUFFICES ASSUME table # "deals", NEW l \in all, NEW m \in all PROVE l = m
    OBVIOUS
  <2>1. l.entity = EntityOf(table, r) /\ m.entity = EntityOf(table, r)
    BY LinksOfRecord
  <2> QED BY <1>2, <2>1
<1>4. table = "deals" => \A l \in all : l.entity \in {StudentId(s.id) : s \in Student}
  BY LinksOfRecord, StudentsAreNamed
<1>5. \A l, m \in links : l = m
  <2> SUFFICES ASSUME NEW l \in links, NEW m \in links, l # m PROVE FALSE
    OBVIOUS
  <2>1. table = "deals" /\ Sorted(l.entity, m.entity) /\ Sorted(m.entity, l.entity)
    BY <1>1, <1>3
  <2>2. l.entity = m.entity
    BY <1>1, <1>4, <2>1, SortedAssumption
  <2> QED BY <1>1, <1>2, <2>2
<1>6. Cardinality(links) <= 1
  <2> HIDE DEF links
  <2>1. CASE links = {}
    <3>1. Cardinality(links) = 0
      BY <2>1, FS_EmptySet
    <3> QED BY <3>1
  <2>2. CASE links # {}
    <3>1. PICK l : links = {l}
      BY <1>5, <2>2
    <3>2. Cardinality({l}) = 1
      BY FS_Singleton
    <3> QED BY <3>1, <3>2
  <2> QED BY <2>1, <2>2
<1>7. ASSUME table \in {"students", "contacts", "payments"} PROVE links # {}
  <2>1. PICK l : l \in all
    BY <1>7, LinksExist
  <2>2. \A m \in all : m = l
    BY <1>3, <1>7, <2>1
  <2> HIDE DEF all, links
  <2> QED BY <1>1, <2>1, <2>2
<1>8. ASSUME table = "deals", NEW t \in Records(fixtures, "students"), Concerns(fixtures, r, t.id)
      PROVE  links # {}
  <2> DEFINE about == {s \in Records(fixtures, "students") : Concerns(fixtures, r, s.id)}
             K == {StudentId(s.id) : s \in about}
  <2>1. K \in SUBSET {StudentId(s.id) : s \in Student} /\ K # {}
    BY <1>8, StudentsAreNamed
  <2>2. IsFiniteSet(K)
    <3>1. IsFiniteSet(about)
      BY RecordsAreFinite, FS_Subset DEF Tables
    <3> HIDE DEF about
    <3>2. K = {StudentId(s.id) : s \in about}
      OBVIOUS
    <3> DEFINE name == [s \in about |-> StudentId(s.id)]
    <3>3. name \in Surjection(about, K)
      BY DEF Surjection
    <3> HIDE DEF name, K
    <3> QED BY <3>1, <3>3, FS_Surjection
  <2>3. PICK x \in K : \A y \in K : Sorted(x, y)
    <3> HIDE DEF K
    <3> QED BY <2>1, <2>2, OneComesFirst
  <2>4. PICK s \in about : x = StudentId(s.id)
    OBVIOUS
  <2> DEFINE l == Link(StudentId(s.id), "deals", r.id)
  <2>5. l \in all /\ l.entity = x
    <3>1. r \in DealsOf(fixtures, s.id)
      BY <1>8 DEF DealsOf
    <3>2. l \in StudentLinks(fixtures, s)
      BY <3>1 DEF StudentLinks
    <3> QED BY <1>8, <2>4, <3>2 DEF Links, Link
  <2>6. \A m \in all : m.entity \in K
    BY <1>8, LinksOfRecord
  <2>7. \A m \in all : Sorted(l.entity, m.entity)
    BY <2>3, <2>5, <2>6
  <2> HIDE DEF l, all, links
  <2> QED BY <1>1, <2>5, <2>7
<1> QED BY <1>6, <1>7, <1>8

\* The entity of a student is the one with its id.
LEMMA EntityOfStudent ==
  ASSUME TablesOK, NEW s \in Records(fixtures, "students"), NEW c,
         StudentRefs(c) = {<<"student", s.id>>}
  PROVE  (CHOOSE e \in Entities(fixtures) : e.id \in StudentRefs(c)) = StudentEntity(fixtures, s)
<1>1. StudentEntity(fixtures, s) \in Entities(fixtures) /\ StudentEntity(fixtures, s).id \in StudentRefs(c)
  BY DEF Entities, StudentEntity, StudentId
<1>2. ASSUME NEW e \in Entities(fixtures), e.id \in StudentRefs(c)
      PROVE  e = StudentEntity(fixtures, s)
  <2>1. e.id = <<"student", s.id>>
    BY <1>2
  <2>2. CASE \E t \in Records(fixtures, "students") : e = StudentEntity(fixtures, t)
    <3>1. PICK t \in Records(fixtures, "students") : e = StudentEntity(fixtures, t)
      BY <2>2
    <3>2. t.id = s.id
      BY <2>1, <3>1 DEF StudentEntity, StudentId
    <3>3. t = s
      BY <3>2, SameId DEF Tables
    <3> QED BY <3>1, <3>3
  <2>3. CASE \E x : e.id = <<"contact", x>> \/ e.id = <<"payment", x>>
    BY <2>1, <2>3
  <2>4. \/ \E t \in Records(fixtures, "students") : e = StudentEntity(fixtures, t)
        \/ \E x : e.id = <<"contact", x>> \/ e.id = <<"payment", x>>
    BY DEF Entities
  <2> QED BY <2>2, <2>3, <2>4
<1> QED BY <1>1, <1>2

\* The references that an entity can have.
LEMMA EntityIds ==
  ASSUME NEW e \in Entities(fixtures)
  PROVE  \/ \E s \in Records(fixtures, "students") : e.id = <<"student", s.id>>
         \/ \E x : e.id = <<"contact", x>> \/ e.id = <<"payment", x>>
BY DEF Entities, StudentEntity, StudentId


\* The unlinked payments are those of the conflicts without a person.
LEMMA PaymentsWithNoPerson ==
  {e.id : e \in {x \in Entities(fixtures) : x.kind = "unlinked_payment"}}
    = UNION {c.refs : c \in {x \in AllConflicts(fixtures) : x.rule = "C2"}}
<1> DEFINE shown == {x \in Entities(fixtures) : x.kind = "unlinked_payment"}
           found == {x \in AllConflicts(fixtures) : x.rule = "C2"}
           Lone(p) == [id |-> <<"payment", p.id>>, kind |-> "unlinked_payment"]
           Found(p) == BuildConflict("C2", {<<"payment", p.id>>}, {"person_link"}, {p})
<1>1. ASSUME NEW e \in shown PROVE \E p \in Unlinked(fixtures, "payments") : e.id = <<"payment", p.id>>
  BY <1>1 DEF Entities, StudentEntity
<1>2. ASSUME NEW p \in Unlinked(fixtures, "payments") PROVE Lone(p) \in shown
  <2>1. Lone(p) \in {[id |-> <<"payment", q.id>>, kind |-> "unlinked_payment"] :
                     q \in Unlinked(fixtures, "payments")}
    OBVIOUS
  <2>2. Lone(p) \in Entities(fixtures)
    BY <2>1, Zenon DEF Entities
  <2> QED BY <2>2
<1>3. ASSUME NEW c \in found
      PROVE  \E p \in Unlinked(fixtures, "payments") : c.refs = {<<"payment", p.id>>}
  BY <1>3, FoundByRule DEF PaymentWithNoPerson, BuildConflict, Unlinked
<1>4. ASSUME NEW p \in Unlinked(fixtures, "payments")
      PROVE  Found(p) \in found /\ Found(p).refs = {<<"payment", p.id>>}
  <2>1. Found(p) \in PaymentWithNoPerson(fixtures)
    BY <1>4 DEF PaymentWithNoPerson, Unlinked
  <2>2. Found(p) \in AllConflicts(fixtures)
    BY <2>1, Zenon DEF AllConflicts
  <2>3. Found(p).rule = "C2" /\ Found(p).refs = {<<"payment", p.id>>}
    BY DEF BuildConflict
  <2> QED BY <2>2, <2>3
<1>5. ASSUME NEW id \in {e.id : e \in shown} PROVE id \in UNION {c.refs : c \in found}
  <2>1. PICK p \in Unlinked(fixtures, "payments") : id = <<"payment", p.id>>
    BY <1>1, <1>5
  <2> HIDE DEF found, Found
  <2> QED BY <1>4, <2>1
<1>6. ASSUME NEW id \in UNION {c.refs : c \in found} PROVE id \in {e.id : e \in shown}
  <2>1. PICK c \in found : id \in c.refs
    BY <1>6
  <2>2. PICK p \in Unlinked(fixtures, "payments") : c.refs = {<<"payment", p.id>>}
    BY <1>3
  <2>3. Lone(p) \in shown /\ Lone(p).id = id
    BY <1>2, <2>1, <2>2
  <2> HIDE DEF shown, Lone
  <2> QED BY <2>3
<1> QED BY <1>5, <1>6

\* A conflict about one student that has an entity is about the entity of that student.
LEMMA BlamedStudent ==
  ASSUME TablesOK, NEW c, NEW id, RefersTo(c, id), \A ref \in c.refs : ref[1] # "contact",
         \A ref \in c.refs : ref[1] # "payment",
         \E e \in Entities(fixtures) : e.id \in c.refs
  PROVE  AboutKnown(c, id)
<1>1. PICK e \in Entities(fixtures) : e.id \in c.refs
  OBVIOUS
<1>2. \A x : <<"contact", x>>[1] = "contact" /\ <<"payment", x>>[1] = "payment"
  OBVIOUS
<1>3. ~\E x : e.id = <<"contact", x>> \/ e.id = <<"payment", x>>
  BY <1>1, <1>2
<1>4. PICK s \in Records(fixtures, "students") : e.id = <<"student", s.id>>
  BY <1>3, EntityIds
<1>5. <<"student", s.id>>[1] = "student"
  OBVIOUS
<1>6. <<"student", s.id>> = <<"student", id>>
  BY <1>1, <1>4, <1>5 DEF RefersTo
<1> QED BY <1>6 DEF AboutKnown

\* What the entity of a student shows.
LEMMA ShownOf ==
  ASSUME TablesOK, NEW c, NEW id, RefersTo(c, id), AboutKnown(c, id)
  PROVE  LET e == CHOOSE e \in Entities(fixtures) : e.id \in StudentRefs(c)
         IN  /\ e.registered <=> EnrollmentsOf(fixtures, id) # {}
             /\ e.paid <=> \E p \in PaymentsOf(fixtures, id) : p.status = "paid"
             /\ e.deals = {} <=> DealsOf(fixtures, id) = {}
             /\ e.contacts = {} <=> ContactsOf(fixtures, id) = {}
             /\ e.payments = {} <=> PaymentsOf(fixtures, id) = {}
             /\ ContactsOf(fixtures, id) = {} /\ PaymentsOf(fixtures, id) = {} => e.method = "none"
<1>1. PICK s \in Records(fixtures, "students") : s.id = id
  BY DEF AboutKnown
<1>2. StudentRefs(c) = {<<"student", s.id>>}
  BY <1>1, OneStudent
<1>3. (CHOOSE e \in Entities(fixtures) : e.id \in StudentRefs(c)) = StudentEntity(fixtures, s)
  BY <1>2, EntityOfStudent
<1>4. LET e == StudentEntity(fixtures, s)
      IN  /\ e.registered <=> EnrollmentsOf(fixtures, id) # {}
          /\ e.paid <=> \E p \in PaymentsOf(fixtures, id) : p.status = "paid"
          /\ e.deals = {} <=> DealsOf(fixtures, id) = {}
          /\ e.contacts = {} <=> ContactsOf(fixtures, id) = {}
          /\ e.payments = {} <=> PaymentsOf(fixtures, id) = {}
          /\ ContactsOf(fixtures, id) = {} /\ PaymentsOf(fixtures, id) = {} => e.method = "none"
  BY <1>1 DEF StudentEntity, MatchMethod, Connected
<1> QED BY <1>3, <1>4

\* The entity of a student agrees with what the rules say of that student.
LEMMA BlamedAgree ==
  ASSUME TablesOK, NEW c \in AllConflicts(fixtures),
         \E e \in Entities(fixtures) : e.id \in c.refs
  PROVE  LET e == CHOOSE e \in Entities(fixtures) : e.id \in StudentRefs(c)
         IN  /\ c.rule = "C1" => e.registered /\ e.paid /\ e.deals = {}
             /\ c.rule = "C5" => e.method = "none" /\ ~e.registered
             /\ c.rule \in {"C7", "C8"} => ~e.paid /\ e.payments = {}
             /\ c.rule \in {"C4", "C6", "C14"} => e.contacts # {}
<1> DEFINE e == CHOOSE e \in Entities(fixtures) : e.id \in StudentRefs(c)
           Shows(id) ==
             /\ e.registered <=> EnrollmentsOf(fixtures, id) # {}
             /\ e.paid <=> \E p \in PaymentsOf(fixtures, id) : p.status = "paid"
             /\ e.deals = {} <=> DealsOf(fixtures, id) = {}
             /\ e.contacts = {} <=> ContactsOf(fixtures, id) = {}
             /\ e.payments = {} <=> PaymentsOf(fixtures, id) = {}
             /\ ContactsOf(fixtures, id) = {} /\ PaymentsOf(fixtures, id) = {} => e.method = "none"
<1>1. ASSUME NEW id, RefersTo(c, id), AboutKnown(c, id) PROVE Shows(id)
  BY <1>1, ShownOf
<1>2. \A id \in Linked(fixtures, "contacts") : AboutKnown(c, id) /\ ContactsOf(fixtures, id) # {}
  BY LinkedAreKnown DEF AboutKnown, Linked, ContactsOf
<1>3. \A id \in Linked(fixtures, "payments") : AboutKnown(c, id) /\ PaymentsOf(fixtures, id) # {}
  BY LinkedAreKnown DEF AboutKnown, Linked, PaymentsOf
<1> HIDE DEF e
<1>4. ASSUME c.rule = "C1" PROVE e.registered /\ e.paid /\ e.deals = {}
  <2>1. PICK id \in Linked(fixtures, "payments") :
          /\ c.refs = {<<"student", id>>, <<"payment",
               First(fixtures.payments, PaidDeposits(fixtures, id)).id>>}
          /\ PaidDeposits(fixtures, id) # {} /\ EnrollmentsOf(fixtures, id) # {}
          /\ DealsOf(fixtures, id) = {}
    BY <1>4, FoundByRule DEF PaidButNoDeal, BuildConflict
  <2>2. RefersTo(c, id)
    BY <2>1 DEF RefersTo
  <2>3. Shows(id)
    BY <1>1, <1>3, <2>2
  <2>4. \E p \in PaymentsOf(fixtures, id) : p.status = "paid"
    BY <2>1 DEF PaidDeposits
  <2> QED BY <2>1, <2>3, <2>4
<1>5. ASSUME c.rule = "C5" PROVE e.method = "none" /\ ~e.registered
  <2>1. PICK s \in Records(fixtures, "students") :
          /\ c.refs = {<<"student", s.id>>}
          /\ ContactsOf(fixtures, s.id) = {} /\ PaymentsOf(fixtures, s.id) = {}
          /\ EnrollmentsOf(fixtures, s.id) = {}
    BY <1>5, FoundByRule DEF RequiredSourceMissing, BuildConflict
  <2>2. RefersTo(c, s.id)
    BY <2>1 DEF RefersTo
  <2>3. Shows(s.id)
    BY <1>1, <2>2 DEF AboutKnown
  <2> QED BY <2>1, <2>3
<1>6. ASSUME c.rule \in {"C7", "C8"} PROVE ~e.paid /\ e.payments = {}
  <2>1. PICK id : RefersTo(c, id) /\ AboutKnown(c, id) /\ PaymentsOf(fixtures, id) = {}
    <3>1. CASE c.rule = "C7"
      <4>1. PICK d \in Records(fixtures, "enrollments") :
              /\ PaymentsOf(fixtures, d.student) = {}
              /\ c.refs = {<<"student", d.student>>, <<"enrollment", d.id>>}
        BY <3>1, FoundByRule DEF EnrolledButUnpaid, BuildConflict
      <4>2. RefersTo(c, d.student)
        BY <4>1 DEF RefersTo
      <4>3. \A ref \in c.refs : ref[1] # "contact" /\ ref[1] # "payment"
        BY <4>1
      <4>4. AboutKnown(c, d.student)
        BY <4>2, <4>3, BlamedStudent
      <4> QED BY <4>1, <4>2, <4>4
    <3>2. CASE c.rule = "C8"
      <4>1. PICK s \in Records(fixtures, "students") :
              /\ Unpaid(fixtures, s.household) = {s}
              /\ c.refs = {<<"student", s.id>>, <<"household", s.household>>}
        BY <3>2, FoundByRule DEF DroppedSibling, BuildConflict
      <4>2. RefersTo(c, s.id)
        BY <4>1 DEF RefersTo
      <4> QED BY <4>1, <4>2 DEF AboutKnown, Unpaid
    <3> QED BY <1>6, <3>1, <3>2
  <2>2. Shows(id)
    BY <1>1, <2>1
  <2> QED BY <2>1, <2>2
<1>7. ASSUME c.rule \in {"C4", "C6", "C14"} PROVE e.contacts # {}
  <2>1. PICK id \in Linked(fixtures, "contacts") : RefersTo(c, id)
    <3>1. CASE c.rule = "C4"
      <4>1. PICK id \in Linked(fixtures, "contacts") :
              c.refs = {<<"student", id>>, <<"crm", ContactOf(fixtures, id).id>>}
        BY <3>1, FoundByRule DEF CrossSourceEmailMismatch, BuildConflict
      <4> QED BY <4>1 DEF RefersTo
    <3>2. CASE c.rule = "C6"
      <4>1. PICK id \in Linked(fixtures, "contacts") :
              c.refs = {<<"student", id>>, <<"crm", ContactOf(fixtures, id).id>>}
        BY <3>2, FoundByRule DEF MaterialFieldDisagreement, BuildConflict
      <4> QED BY <4>1 DEF RefersTo
    <3>3. CASE c.rule = "C14"
      <4>1. PICK id \in Linked(fixtures, "contacts") :
              c.refs = {<<"student", id>>, <<"crm", ContactOf(fixtures, id).id>>,
                        <<"payment", First(fixtures.payments, PaymentsOf(fixtures, id)).id>>}
        BY <3>3, FoundByRule DEF SensitiveFieldOnlyFix, BuildConflict
      <4> QED BY <4>1 DEF RefersTo
    <3> QED BY <1>7, <3>1, <3>2, <3>3
  <2>2. Shows(id) /\ ContactsOf(fixtures, id) # {}
    BY <1>1, <1>2, <2>1
  <2> QED BY <2>2
<1> QED BY <1>4, <1>5, <1>6, <1>7 DEF e

\* The parts of EntitiesAgreeWithConflicts together.
LEMMA TheyAgree ==
  ASSUME TablesOK
  PROVE  EntitiesAgreeWithConflicts
<1> DEFINE conflicts == AllConflicts(fixtures)
           entities == Entities(fixtures)
           Blamed(rules) == {c \in conflicts : c.rule \in rules /\ \E e \in entities : e.id \in c.refs}
           Shown(c) == CHOOSE e \in entities : e.id \in StudentRefs(c)
<1>1. \A table \in DOMAIN Tables : \A r \in Records(fixtures, table) :
        LET links == {l \in PersistedLinks(fixtures) : l.record = <<table, r.id>>}
        IN  /\ Cardinality(links) <= 1
            /\ table \in {"students", "contacts", "payments"} => links # {}
            /\ table = "deals" /\ links = {} =>
                 \A s \in Records(fixtures, "students") : ~Concerns(fixtures, r, s.id)
  BY StoredOnce
<1>2. /\ \A c \in Blamed({"C1"}) : Shown(c).registered /\ Shown(c).paid /\ Shown(c).deals = {}
      /\ \A c \in Blamed({"C5"}) : Shown(c).method = "none" /\ ~Shown(c).registered
      /\ \A c \in Blamed({"C7", "C8"}) : ~Shown(c).paid /\ Shown(c).payments = {}
      /\ \A c \in Blamed({"C4", "C6", "C14"}) : Shown(c).contacts # {}
  BY BlamedAgree
<1> QED BY <1>1, <1>2, PaymentsWithNoPerson DEF EntitiesAgreeWithConflicts

\* The page of an entity and the conflicts about it tell the same story, although they come
\* from different code, whatever the sources hold.
THEOREM EntitiesAlwaysAgreeWithConflicts == Spec => []EntitiesAgreeWithConflicts
<1>1. TablesOK => EntitiesAgreeWithConflicts
  BY TheyAgree
<1> QED BY <1>1, TablesAreOK, PTL
=============================================================================
