----------------------------- MODULE ReviewLog -----------------------------
(***************************************************************************)
(* What the review of proposals promises, as a log of events per conflict: *)
(* a proposal is created once, is then decided by a reviewer or applied by *)
(* the stretch job, never both and never twice, and what was applied can   *)
(* be rolled back once and stays rolled back.                              *)
(***************************************************************************)
EXTENDS Sequences

CONSTANTS
  Conflict,  \* conflicts, each with at most one proposal
  Applicable \* the conflicts whose proposals may be applied without a reviewer

Decided == {"approved", "rejected", "held"}

VARIABLE log

Init == log = [c \in Conflict |-> <<>>]

Enter(c, event) == log' = [log EXCEPT ![c] = Append(@, event)]

Create(c) == log[c] = <<>> /\ Enter(c, "created")
Decide(c) == log[c] = <<"created">> /\ \E event \in Decided : Enter(c, event)
Apply(c) == c \in Applicable /\ log[c] = <<"created">> /\ Enter(c, "applied")
RollBack(c) == log[c] = <<"created", "applied">> /\ Enter(c, "rolled_back")

Next == \E c \in Conflict : Create(c) \/ Decide(c) \/ Apply(c) \/ RollBack(c)

Spec == Init /\ [][Next]_log
=============================================================================
