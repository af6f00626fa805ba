------------------------------- MODULE MCRules ------------------------------
(***************************************************************************)
(* A small instance of Rules and Projection: siblings, two records of one  *)
(* child, contacts and payments linked by each kind of evidence, two       *)
(* copies of a contact and of a payment, two refunds to one child, and an  *)
(* instance of each fault the rules look for.                              *)
(***************************************************************************)
EXTENDS Projection, TLC

none == "none"

\* Emails a, b and grades 4, 5, each in two spellings.
MCCanonical == [a |-> "a", a2 |-> "a", b |-> "b", b2 |-> "b",
                g4 |-> 4, grade4 |-> 4, g5 |-> 5]

Pupil(id, person, email, grade, candidate, household) ==
  [id |-> id, person |-> person, email |-> email, grade |-> grade, candidate |-> candidate,
   household |-> household]

MCStudent ==
  {Pupil("s1", "ann", "a", "g4", TRUE, "h"),
   Pupil("s2", "bob", "b", "g5", FALSE, "h"),
   Pupil("s3", "ann", "a2", "g4", TRUE, none)}

Place(id, student, stage, deposit, deal) ==
  [id |-> id, student |-> student, stage |-> stage, deposit |-> deposit, deal |-> deal]

MCEnrollment ==
  {Place("e1", "s1", "enrolled", TRUE, "d1"),
   Place("e2", "s2", "applied", FALSE, none)}

Card(id, hard, person, dob, email, grade, role, owner, merged) ==
  [id |-> id, hard |-> hard, person |-> person, dob |-> dob, email |-> email,
   grade |-> grade, role |-> role, owner |-> owner, merged |-> merged]

MCContact ==
  {Card("c1", "s1", "ann", TRUE, "a2", "grade4", "student", "b", FALSE),
   Card("c2", none, "ann", TRUE, "b", "g5", "student", none, FALSE),
   Card("c3", none, "ann", TRUE, "b2", none, "student", "a", FALSE),
   Card("c4", none, "bob", FALSE, "b", "g4", "lead", none, TRUE)}

MCDeal ==
  {[id |-> "d1", contacts |-> {"c1"}], [id |-> "d2", contacts |-> {"c2", "c4"}]}

Receipt(id, payment, hard, person, dob, email, type, status, expected) ==
  [id |-> id, payment |-> payment, hard |-> hard, person |-> person, dob |-> dob,
   email |-> email, type |-> type, status |-> status, expected |-> expected]

MCPayment ==
  {Receipt("p1", "x", "s1", "ann", FALSE, "a", "deposit", "refunded", TRUE),
   Receipt("p2", "x", none, "ann", TRUE, "b", "deposit", "refunded", TRUE),
   Receipt("p3", "y", none, "bob", FALSE, "a2", "deposit", "paid", FALSE)}

\* Only students share records, so their order is all that matters.
MCRank == [s1 |-> 1, s2 |-> 2, s3 |-> 3]
MCSorted(a, b) == a = b \/ (a[1] = "student" /\ b[1] = "student" /\ MCRank[a[2]] < MCRank[b[2]])

MCMost == [students |-> 3, enrollments |-> 1, contacts |-> 2, deals |-> 1, payments |-> 2]
=============================================================================
