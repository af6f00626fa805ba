---------------------------- MODULE SpendLedger ----------------------------
(***************************************************************************)
(* The spend ledger of the reconciler: a run reserves the worst-case cost  *)
(* of a provider call, the call is marked as started, and its reservation  *)
(* is settled with the cost reported or charged in full.  Three tables are *)
(* kept in step: spend_buckets (one row per tenant and UTC day),           *)
(* spend_runs (one row per job) and spend_reservations (one row per action *)
(* fingerprint).  One tenant is modelled; rows of two tenants never meet.  *)
(*                                                                         *)
(* Each operation is one Postgres transaction and one action here: it      *)
(* takes the row locks of the bucket and of the run before it decides, so  *)
(* the transactions of one tenant act one after the other, and a CHECK     *)
(* constraint that fails undoes all of one.                                *)
(***************************************************************************)
EXTENDS Integers, FiniteSets, FiniteSetsExt

CONSTANTS
  Run,          \* reconcile jobs, each with one row of spend_runs
  Fingerprint,  \* action fingerprints: the calls that may be paid for
  MaxDay,       \* bound: UTC days 0..MaxDay
  Estimate,     \* provider.maximumCallCostMicrocents
  Costs,        \* what a provider may report as the actual cost of a call
  Configs       \* [daily, run]: the caps some process may be deployed with

ASSUME LedgerAssumption ==
  /\ IsFiniteSet(Fingerprint)
  /\ MaxDay \in Nat
  /\ Estimate \in Nat
  /\ Costs \subseteq Nat
  /\ Configs \subseteq [daily : Nat, run : Nat]
  /\ \A c \in Configs : c.run <= c.daily

Day == 0..MaxDay
NoDay == -1
NoRun == "none"

VARIABLES
  day,         \* the UTC day of now()
  bucket,      \* spend_buckets, by day
  ledger,      \* spend_runs, by job
  reservation, \* spend_reservations, by fingerprint
  capEvents    \* the reasons of the spend_cap_reached audits and alerts of a run

vars == <<day, bucket, ledger, reservation, capEvents>>

NoBucket == [exists |-> FALSE, cap |-> 0, reserved |-> 0, actual |-> 0, released |-> 0]
NoLedger == [exists |-> FALSE, cap |-> 0, reserved |-> 0, actual |-> 0]
Unreserved == [status |-> "none", run |-> NoRun, made |-> NoDay, started |-> FALSE,
               actual |-> 0, settled |-> NoDay]

Init ==
  /\ day = 0
  /\ bucket = [d \in Day |-> NoBucket]
  /\ ledger = [r \in Run |-> NoLedger]
  /\ reservation = [f \in Fingerprint |-> Unreserved]
  /\ capEvents = [r \in Run |-> {}]

-----------------------------------------------------------------------------
(* Rows.                                                                   *)

\* The CHECK constraints of spend_buckets and spend_runs, which read alike.
CheckRow(row) ==
  /\ row.actual >= 0 /\ row.reserved >= 0
  /\ row.actual <= row.reserved
  /\ row.reserved <= row.cap

\* Mutant: the upsert replaces the row.
ReplaceBucket(cap) == [NoBucket EXCEPT !.exists = TRUE, !.cap = cap]

\* The bucket of the day, created or given the cap of the process that reserves.
UpsertBucket(cap) == [bucket[day] EXCEPT !.exists = TRUE, !.cap = cap]

\* Both caps are tested against what is reserved, not against what was spent.
Fits(row) == row.reserved + Estimate <= row.cap

Grant(row) == [row EXCEPT !.reserved = @ + Estimate]

\* The reason recorded: daily_cap, even when both caps are reached.
Reason(b) == IF Fits(b) THEN "run_cap" ELSE "daily_cap"

\* maximum - charged
Released(charged) == Estimate - charged

\* Mutant: the unused part of the reservation stays reserved.
KeepReserved(row, charged) == [row EXCEPT !.actual = @ + charged]

\* The UPDATEs of a settlement.
SettleLedger(row, charged) ==
  [row EXCEPT !.reserved = @ - Released(charged), !.actual = @ + charged]
SettleBucket(row, charged) ==
  [row EXCEPT !.reserved = @ - Released(charged), !.actual = @ + charged,
              !.released = @ + Released(charged)]

-----------------------------------------------------------------------------
(* The operations.                                                         *)

\* ON CONFLICT DO NOTHING.
RunMissing(r) == ~ledger[r].exists

\* ensureSpendRun: a retry of the job keeps the cap its first attempt was given.
EnsureRun(r) ==
  /\ RunMissing(r)
  /\ \E c \in Configs :
       ledger' = [ledger EXCEPT ![r] = [NoLedger EXCEPT !.exists = TRUE, !.cap = c.run]]
  /\ UNCHANGED <<day, bucket, reservation, capEvents>>

\* Mutant: a retry takes over the reservations that are still open.
NewOrOpen(r, f) == ledger[r].exists /\ reservation[f].status \in {"none", "reserved"}

\* Past the duplicate test of reserveProviderCost, and the UNIQUE constraint behind it.
New(r, f) == ledger[r].exists /\ reservation[f].status = "none"

\* The row INSERTed into spend_reservations.
Reserved(r) == [status |-> "reserved", run |-> r, made |-> day, started |-> FALSE,
                actual |-> 0, settled |-> NoDay]

\* reserveProviderCost, allowed.
ReserveGranted(r, f) ==
  /\ New(r, f)
  /\ \E c \in Configs : LET b == UpsertBucket(c.daily) IN
       /\ CheckRow(b)
       /\ Fits(b) /\ Fits(ledger[r])
       /\ bucket' = [bucket EXCEPT ![day] = Grant(b)]
  /\ ledger' = [ledger EXCEPT ![r] = Grant(@)]
  /\ reservation' = [reservation EXCEPT ![f] = Reserved(r)]
  /\ UNCHANGED <<day, capEvents>>

\* reserveProviderCost, over a cap: the upsert of the bucket is kept, and an audit
\* and an alert are written.
ReserveDenied(r, f) ==
  /\ New(r, f)
  /\ \E c \in Configs : LET b == UpsertBucket(c.daily) IN
       /\ CheckRow(b)
       /\ ~(Fits(b) /\ Fits(ledger[r]))
       /\ bucket' = [bucket EXCEPT ![day] = b]
       /\ capEvents' = [capEvents EXCEPT ![r] = @ \cup {Reason(b)}]
  /\ UNCHANGED <<day, ledger, reservation>>

\* markProviderCallStarted.
MarkStarted(f) ==
  /\ reservation[f].status = "reserved"
  /\ reservation' = [reservation EXCEPT ![f].started = TRUE]
  /\ UNCHANGED <<day, bucket, ledger, capEvents>>

\* Mutant: a reservation that was settled is settled again.
Paid(f) == reservation[f].status # "none" /\ reservation[f].started

\* Both callers settle only a call they have marked; settleProviderCost returns at
\* once unless the row is still reserved.
Open(f) == reservation[f].status = "reserved" /\ reservation[f].started

\* settleProviderCost: the bucket that is updated is the one of the day of the
\* settlement; when that day has no row yet the UPDATE matches nothing.
Post(f, charged, outcome) ==
  LET r == reservation[f].run
      l == SettleLedger(ledger[r], charged)
      b == IF bucket[day].exists THEN SettleBucket(bucket[day], charged) ELSE bucket[day]
  IN /\ CheckRow(l)
     /\ CheckRow(b)
     /\ ledger' = [ledger EXCEPT ![r] = l]
     /\ bucket' = [bucket EXCEPT ![day] = b]
     /\ reservation' = [reservation EXCEPT ![f] =
          [@ EXCEPT !.status = outcome, !.actual = charged, !.settled = day]]
     /\ UNCHANGED <<day, capEvents>>

\* The cost the provider reported; more than was reserved is actual_cost_invalid.
Settle(f) ==
  /\ Open(f)
  /\ \E cost \in Costs : cost <= Estimate /\ Post(f, cost, "settled")

\* The call failed, or its cost is unknown: chargeWorstCase.
ChargeWorstCase(f) ==
  /\ Open(f)
  /\ Post(f, Estimate, "charged_worst_case")

\* Midnight, UTC.
NewDay ==
  /\ day < MaxDay
  /\ day' = day + 1
  /\ UNCHANGED <<bucket, ledger, reservation, capEvents>>

Next ==
  \/ \E r \in Run : EnsureRun(r)
  \/ \E r \in Run, f \in Fingerprint : ReserveGranted(r, f) \/ ReserveDenied(r, f)
  \/ \E f \in Fingerprint : MarkStarted(f) \/ Settle(f) \/ ChargeWorstCase(f)
  \/ NewDay

Spec == Init /\ [][Next]_vars

-----------------------------------------------------------------------------
(* Properties.                                                             *)

BucketRow == [exists : BOOLEAN, cap : Nat, reserved : Nat, actual : Nat, released : Nat]
LedgerRow == [exists : BOOLEAN, cap : Nat, reserved : Nat, actual : Nat]
ReservationRow ==
  [status : {"none", "reserved", "settled", "charged_worst_case"}, run : Run \cup {NoRun},
   made : Day \cup {NoDay}, started : BOOLEAN, actual : 0..Estimate,
   settled : Day \cup {NoDay}]

\* Every table keeps its shape.
TypeOK ==
  /\ day \in Day
  /\ bucket \in [Day -> BucketRow]
  /\ ledger \in [Run -> LedgerRow]
  /\ reservation \in [Fingerprint -> ReservationRow]
  /\ capEvents \in [Run -> SUBSET {"daily_cap", "run_cap"}]

OpenIn(r) == {f \in Fingerprint : reservation[f].run = r /\ reservation[f].status = "reserved"}
MadeOn(d) == {f \in Fingerprint : reservation[f].status # "none" /\ reservation[f].made = d}

\* The reservations a bucket still carries in full: those of its day that were not
\* settled on it.
CarriedOn(d) == {f \in MadeOn(d) : reservation[f].settled # d}

\* No settlement of another day's reservation has reached the bucket of d.
OwnSettlementsOnly(d) ==
  \A f \in Fingerprint : reservation[f].settled = d => reservation[f].made = d

\* What a call may cost or has cost.
Liability(f) ==
  IF reservation[f].status = "reserved" THEN Estimate ELSE reservation[f].actual

\* The row of a run agrees with the reservations made in its name, on whatever days
\* they were made and settled: what it has reserved is what it has spent and the
\* worst case of every call not settled yet, and never exceeds the cap of the run.
RunBalanced ==
  \A r \in Run :
    /\ ledger[r].reserved = ledger[r].actual + Estimate * Cardinality(OpenIn(r))
    /\ ledger[r].reserved <= ledger[r].cap

\* The row of a day agrees with the reservations made on it as long as only they are
\* settled on it: reserved is actual plus the worst case of the rest, and reserved
\* and released together are all that was ever reserved that day.
DayBalanced ==
  \A d \in Day : OwnSettlementsOnly(d) =>
    /\ bucket[d].reserved = bucket[d].actual + Estimate * Cardinality(CarriedOn(d))
    /\ bucket[d].reserved + bucket[d].released = Estimate * Cardinality(MadeOn(d))
    /\ bucket[d].reserved <= bucket[d].cap

\* The reservations agree with the row of the run and the row of the day that carry them.
Balanced == RunBalanced /\ DayBalanced

\* A settlement of a call made on the day is never refused by a CHECK constraint,
\* whatever cost is reported, unless another day's settlement came before it: the
\* catch block of the reconciler can always charge the worst case.
SettlementAccepted ==
  \A f \in Fingerprint :
    (reservation[f].status = "reserved" /\ reservation[f].made = day /\ OwnSettlementsOnly(day))
      => \A charged \in 0..Estimate :
           /\ CheckRow(SettleLedger(ledger[reservation[f].run], charged))
           /\ CheckRow(SettleBucket(bucket[day], charged))

\* The calls made in the name of a run never cost more than its cap, counting those
\* not settled yet in full: not over midnight, not by a retry of the job, not by a
\* process deployed with other caps.
CallsWithinRunCap ==
  \A r \in Run :
    MapThenSumSet(Liability, {f \in Fingerprint : reservation[f].run = r}) <= ledger[r].cap

\* The calls reserved on a day never cost more than the cap of the day, unless another
\* day's settlement was posted to it.
CallsWithinDailyCap ==
  \A d \in Day : OwnSettlementsOnly(d) => MapThenSumSet(Liability, MadeOn(d)) <= bucket[d].cap

\* Neither cap is exceeded by the calls it is for. BOOTSTRAP.md:530 promises this of every
\* day; the code keeps it until a settlement posts to another day than its reservation.
CallsWithinCaps == CallsWithinRunCap /\ CallsWithinDailyCap

\* A call is charged at most once: a settled reservation never changes again, whatever
\* retry or late answer reaches the ledger.
ChargedOnce ==
  [][\A f \in Fingerprint : reservation[f].status \in {"settled", "charged_worst_case"} =>
       reservation'[f] = reservation[f]]_vars
=============================================================================
