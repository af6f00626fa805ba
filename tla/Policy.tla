------------------------------- MODULE Policy -------------------------------
(***************************************************************************)
(* The action of a conflict, the confidence in it, and the gate in front   *)
(* of an application without a reviewer.                                   *)
(*                                                                         *)
(* A conflict is a record of its rule, the records it refers to (pairs of  *)
(* a kind and an id), the sources and the fields involved.  Types are      *)
(* named by their rules.  Scores are basis points.                         *)
(***************************************************************************)
EXTENDS Integers, FiniteSets

Rule == {"C1", "C2", "C3", "C4", "C5", "C6", "C7", "C8", "C9", "C10", "C11", "C12", "C13", "C14"}

\* The field the action of a type changes.
TargetField ==
  [C1  |-> "crm_deal_id",              C2  |-> "person_link",
   C3  |-> "student_id",               C4  |-> "legal_first_name",
   C5  |-> "source_presence",          C6  |-> "grade",
   C7  |-> "enrollment_status",        C8  |-> "household_member_payment",
   C9  |-> "crm_deal_id",              C10 |-> "student_id",
   C11 |-> "payer_email",              C12 |-> "payment_status",
   C13 |-> "payment_status",           C14 |-> "billing_owner_email"]

SensitiveFields ==
  {"legal_first_name", "legal_last_name", "date_of_birth", "government_id", "student_id",
   "payer_email", "billing_owner_email", "enrollment_status", "deal_status", "payment_status",
   "marketing_consent", "communication_opt_out", "privacy_state"}

Sensitive(conflict) == TargetField[conflict.rule] \in SensitiveFields

AutoApplyCases == {"C1", "C9", "C8", "C6"}

EmailFields == {"email", "billing_owner_email"}

-----------------------------------------------------------------------------
(* Confidence.                                                             *)

BasisPoints == 0..10000

Signals ==
  [hardIdAgreement : BOOLEAN, exactEmailAgreement : BOOLEAN, exactNameDobAgreement : BOOLEAN,
   uniqueCanonicalMatch : BOOLEAN, agreeingFieldRatioBp : BasisPoints,
   disagreementRatioBp : BasisPoints, missingEvidence : BOOLEAN, evidenceComplete : BOOLEAN,
   sensitiveAction : BOOLEAN]

\* Math.round of a nonnegative ratio.
Round(n, d) == (2 * n + d) \div (2 * d)

When(condition, weight) == IF condition THEN weight ELSE 0

RawScore(s) ==
  500 + When(s.hardIdAgreement, 3500) + When(s.exactEmailAgreement, 2500)
      + When(s.exactNameDobAgreement, 2000) + When(s.uniqueCanonicalMatch, 2000)
      + Round(s.agreeingFieldRatioBp, 10) - Round(15 * s.disagreementRatioBp, 100)
      - When(s.missingEvidence, 2000) + When(s.evidenceComplete, 1000)
      - When(s.sensitiveAction, 3000)

Score(s) == IF RawScore(s) < 0 THEN 0 ELSE IF RawScore(s) > 10000 THEN 10000 ELSE RawScore(s)

\* Every rule gives its conflicts some evidence, so its presence is no condition here.
SignalsForConflict(conflict) ==
  LET hasStudent == \E ref \in conflict.refs : ref[1] = "student"
      missing == conflict.rule \in {"C2", "C5"}
      fields == Cardinality(conflict.fields)
      several == Cardinality(conflict.sources) >= 2
  IN  [hardIdAgreement       |-> hasStudent /\ Cardinality(conflict.refs) > 1,
       exactEmailAgreement   |-> conflict.fields \cap EmailFields = {} /\ several,
       exactNameDobAgreement |-> conflict.rule = "C4",
       uniqueCanonicalMatch  |-> hasStudent /\ Cardinality(conflict.refs) > 1 /\ several,
       agreeingFieldRatioBp  |-> IF several THEN 7500 ELSE 5000,
       disagreementRatioBp   |-> IF fields * 2000 < 10000 THEN fields * 2000 ELSE 10000,
       missingEvidence       |-> missing,
       evidenceComplete      |-> ~missing /\ conflict.refs # {},
       sensitiveAction       |-> Sensitive(conflict)]

-----------------------------------------------------------------------------
(* The gate.  The stretch operation always offers a rollback.              *)

CanAutoApply(conflict, signals) ==
  /\ conflict.rule \in AutoApplyCases
  /\ ~Sensitive(conflict)
  /\ Score(signals) >= 9500
  /\ signals.evidenceComplete

AutoApplied(conflict) == CanAutoApply(conflict, SignalsForConflict(conflict))
=============================================================================
