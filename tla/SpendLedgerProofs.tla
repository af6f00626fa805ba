------------------------- MODULE SpendLedgerProofs -------------------------
(***************************************************************************)
(* Proofs about SpendLedger, for every set of runs and calls, every        *)
(* estimate, every set of reported costs and every set of configurations.  *)
(*                                                                         *)
(* The balances are inductive once one knows that a reservation is never   *)
(* older than the rows it is posted to (Booked).  Sums over the open       *)
(* reservations are Estimate times their number, so that the induction     *)
(* needs only what a set gains or loses when one reservation changes.      *)
(*                                                                         *)
(* What calls cost together is counted in units, which takes no order of   *)
(* addition; the sum the properties take is shown to be that number.       *)
(***************************************************************************)
EXTENDS SpendLedger, FiniteSetTheorems, WellFoundedInduction, TLAPS

\* A reservation is posted to rows that exist, and bears no settlement day while open.
Booked ==
  \A f \in Fingerprint :
    /\ reservation[f].status \in {"none", "reserved"} => reservation[f].settled = NoDay
    /\ reservation[f].status # "none" =>
         /\ reservation[f].run \in Run
         /\ ledger[reservation[f].run].exists
         /\ reservation[f].made \in Day
         /\ bucket[reservation[f].made].exists

\* What a row holds when nothing was posted to it.
EmptyRows ==
  /\ \A r \in Run : ~ledger[r].exists => ledger[r] = NoLedger
  /\ \A d \in Day : ~bucket[d].exists => bucket[d] = NoBucket

IInv == TypeOK /\ Booked /\ EmptyRows /\ RunBalanced /\ DayBalanced

-----------------------------------------------------------------------------
(* Counting reservations.                                                  *)

LEMMA SubsetFinite ==
  ASSUME NEW S \in SUBSET Fingerprint
  PROVE  IsFiniteSet(S) /\ Cardinality(S) \in Nat
BY LedgerAssumption, FS_Subset, FS_CardinalityType

\* One more reservation adds one estimate.
LEMMA OneMore ==
  ASSUME NEW S \in SUBSET Fingerprint, NEW f \in Fingerprint, f \notin S
  PROVE  Estimate * Cardinality(S \cup {f}) = Estimate * Cardinality(S) + Estimate
<1>1. IsFiniteSet(S) /\ Cardinality(S) \in Nat
  BY SubsetFinite
<1>2. Cardinality(S \cup {f}) = Cardinality(S) + 1
  BY <1>1, FS_AddElement
<1>3. \A e, n \in Nat : e * (n + 1) = e * n + e
  OBVIOUS
<1> QED
  BY <1>1, <1>2, <1>3, LedgerAssumption

\* One less takes one away.
LEMMA OneLess ==
  ASSUME NEW S \in SUBSET Fingerprint, NEW f \in S
  PROVE  Estimate * Cardinality(S \ {f}) = Estimate * Cardinality(S) - Estimate
<1>1. S \ {f} \in SUBSET Fingerprint /\ f \in Fingerprint /\ f \notin S \ {f}
  OBVIOUS
<1>2. (S \ {f}) \cup {f} = S
  OBVIOUS
<1>3. Estimate * Cardinality(S) = Estimate * Cardinality(S \ {f}) + Estimate
  BY <1>1, <1>2, OneMore
<1>4. Cardinality(S \ {f}) \in Nat
  BY <1>1, SubsetFinite
<1>5. \A e, n \in Nat : e * n \in Nat
  OBVIOUS
<1> QED
  BY <1>3, <1>4, <1>5, LedgerAssumption

\* A set of reservations with a member is worth at least one estimate.
LEMMA WorthOne ==
  ASSUME NEW S \in SUBSET Fingerprint, NEW f \in S
  PROVE  /\ Estimate * Cardinality(S) \in Nat
         /\ Estimate <= Estimate * Cardinality(S)
<1>1. Estimate * Cardinality(S \ {f}) = Estimate * Cardinality(S) - Estimate
  BY OneLess
<1>2. Cardinality(S) \in Nat /\ Cardinality(S \ {f}) \in Nat
  BY SubsetFinite
<1>3. \A e, n \in Nat : e * n \in Nat
  OBVIOUS
<1> QED
  BY <1>1, <1>2, <1>3, LedgerAssumption

\* No reservations cost nothing.
LEMMA WorthNothing == Estimate * Cardinality({}) = 0
<1>1. Cardinality({}) = 0
  BY FS_EmptySet
<1>2. \A e \in Nat : e * 0 = 0
  OBVIOUS
<1> QED
  BY <1>1, <1>2, LedgerAssumption

-----------------------------------------------------------------------------
(* The rows a settlement writes.                                           *)

LEMMA SettledLedgerRow ==
  ASSUME NEW row \in LedgerRow, NEW charged \in 0..Estimate,
         CheckRow(SettleLedger(row, charged))
  PROVE  /\ SettleLedger(row, charged).exists = row.exists
         /\ SettleLedger(row, charged).cap = row.cap
         /\ SettleLedger(row, charged).reserved = row.reserved - (Estimate - charged)
         /\ SettleLedger(row, charged).actual = row.actual + charged
         /\ SettleLedger(row, charged) \in LedgerRow
<1>1. Estimate \in Nat /\ charged \in Nat /\ charged <= Estimate
  BY LedgerAssumption
<1>2. row.exists \in BOOLEAN /\ row.cap \in Nat /\ row.reserved \in Nat /\ row.actual \in Nat
  BY DEF LedgerRow
<1>3. /\ SettleLedger(row, charged).exists = row.exists
      /\ SettleLedger(row, charged).cap = row.cap
  BY DEF SettleLedger, LedgerRow
<1>4. /\ SettleLedger(row, charged).reserved = row.reserved - (Estimate - charged)
      /\ SettleLedger(row, charged).actual = row.actual + charged
  BY DEF SettleLedger, LedgerRow, Released
<1>5. row.reserved - (Estimate - charged) \in Nat /\ row.actual + charged \in Nat
  BY <1>1, <1>2, <1>4 DEF CheckRow
<1>6. SettleLedger(row, charged) \in LedgerRow
  BY <1>2, <1>5 DEF SettleLedger, LedgerRow, Released
<1> QED
  BY <1>3, <1>4, <1>6

LEMMA SettledBucketRow ==
  ASSUME NEW row \in BucketRow, NEW charged \in 0..Estimate,
         CheckRow(SettleBucket(row, charged))
  PROVE  /\ SettleBucket(row, charged).exists = row.exists
         /\ SettleBucket(row, charged).cap = row.cap
         /\ SettleBucket(row, charged).reserved = row.reserved - (Estimate - charged)
         /\ SettleBucket(row, charged).actual = row.actual + charged
         /\ SettleBucket(row, charged).released = row.released + (Estimate - charged)
         /\ SettleBucket(row, charged) \in BucketRow
<1>1. Estimate \in Nat /\ charged \in Nat /\ charged <= Estimate
  BY LedgerAssumption
<1>2. /\ row.exists \in BOOLEAN /\ row.cap \in Nat /\ row.reserved \in Nat
      /\ row.actual \in Nat /\ row.released \in Nat
  BY DEF BucketRow
<1>3. /\ SettleBucket(row, charged).exists = row.exists
      /\ SettleBucket(row, charged).cap = row.cap
  BY DEF SettleBucket, BucketRow
<1>4. /\ SettleBucket(row, charged).reserved = row.reserved - (Estimate - charged)
      /\ SettleBucket(row, charged).actual = row.actual + charged
      /\ SettleBucket(row, charged).released = row.released + (Estimate - charged)
  BY DEF SettleBucket, BucketRow, Released
<1>5. /\ row.reserved - (Estimate - charged) \in Nat /\ row.actual + charged \in Nat
      /\ row.released + (Estimate - charged) \in Nat
  BY <1>1, <1>2, <1>4 DEF CheckRow
<1>6. SettleBucket(row, charged) \in BucketRow
  BY <1>2, <1>5 DEF SettleBucket, BucketRow, Released
<1> QED
  BY <1>3, <1>4, <1>6

-----------------------------------------------------------------------------
(* The inductive invariant.                                                *)

LEMMA InitEstablishes == Init => IInv
<1> SUFFICES ASSUME Init PROVE IInv
  OBVIOUS
<1> USE DEF Init
<1>1. TypeOK
  BY LedgerAssumption
     DEF TypeOK, Day, NoDay, NoRun, NoBucket, NoLedger, Unreserved, BucketRow, LedgerRow,
         ReservationRow
<1>2. Booked /\ EmptyRows
  BY DEF Booked, EmptyRows, Unreserved
<1>3. ASSUME NEW r \in Run PROVE Estimate * Cardinality(OpenIn(r)) = 0
  <2>1. OpenIn(r) = {}
    BY DEF OpenIn, Unreserved
  <2> QED
    BY <2>1, WorthNothing
<1>4. ASSUME NEW d \in Day
      PROVE  Estimate * Cardinality(CarriedOn(d)) = 0 /\ Estimate * Cardinality(MadeOn(d)) = 0
  <2>1. MadeOn(d) = {} /\ CarriedOn(d) = {}
    BY DEF MadeOn, CarriedOn, Unreserved
  <2> QED
    BY <2>1, WorthNothing
<1>5. RunBalanced
  BY <1>3 DEF RunBalanced, NoLedger
<1>6. DayBalanced
  BY <1>4 DEF DayBalanced, NoBucket
<1> QED
  BY <1>1, <1>2, <1>5, <1>6 DEF IInv

\* Nothing but the reservations, the ledgers and the buckets bears on the balances.
LEMMA BalancesDependOn ==
  ASSUME UNCHANGED <<bucket, ledger, reservation>>
  PROVE  /\ Booked => Booked'
         /\ EmptyRows => EmptyRows'
         /\ RunBalanced => RunBalanced'
         /\ DayBalanced => DayBalanced'
BY DEF Booked, EmptyRows, RunBalanced, DayBalanced, OpenIn, MadeOn, CarriedOn,
       OwnSettlementsOnly

LEMMA EnsureRunPreserves ==
  ASSUME IInv, NEW r \in Run, EnsureRun(r)
  PROVE  IInv'
<1>1. PICK c \in Configs :
        ledger' = [ledger EXCEPT ![r] = [NoLedger EXCEPT !.exists = TRUE, !.cap = c.run]]
  BY DEF EnsureRun
<1>2. ~ledger[r].exists /\ UNCHANGED <<day, bucket, reservation, capEvents>>
  BY DEF EnsureRun, RunMissing
<1>3. c.run \in Nat
  BY LedgerAssumption
<1>4. TypeOK'
  BY <1>1, <1>2, <1>3 DEF IInv, TypeOK, LedgerRow, NoLedger
<1>5. Booked'
  BY <1>1, <1>2 DEF IInv, TypeOK, Booked, LedgerRow, NoLedger
<1>6. EmptyRows'
  BY <1>1, <1>2 DEF IInv, TypeOK, EmptyRows, LedgerRow, NoLedger
<1>7. RunBalanced'
  <2> SUFFICES ASSUME NEW q \in Run
               PROVE  /\ ledger'[q].reserved = ledger'[q].actual + Estimate * Cardinality(OpenIn(q)')
                      /\ ledger'[q].reserved <= ledger'[q].cap
    BY DEF RunBalanced
  <2>1. OpenIn(q)' = OpenIn(q)
    BY <1>2 DEF OpenIn
  <2>2. CASE q # r
    BY <2>1, <2>2, <1>1 DEF IInv, TypeOK, RunBalanced
  <2>3. CASE q = r
    <3>1. OpenIn(r) = {}
      BY <1>2 DEF IInv, Booked, OpenIn
    <3>2. Estimate * Cardinality(OpenIn(q)') = 0
      BY <3>1, <2>1, <2>3, WorthNothing
    <3>3. ledger'[q] = [exists |-> TRUE, cap |-> c.run, reserved |-> 0, actual |-> 0]
      BY <2>3, <1>1 DEF IInv, TypeOK, NoLedger
    <3> QED
      BY <3>2, <3>3, <1>3
  <2> QED
    BY <2>2, <2>3
<1>8. DayBalanced'
  BY <1>2 DEF IInv, DayBalanced, MadeOn, CarriedOn, OwnSettlementsOnly
<1> QED
  BY <1>4, <1>5, <1>6, <1>7, <1>8 DEF IInv

LEMMA ReserveGrantedPreserves ==
  ASSUME IInv, NEW r \in Run, NEW f \in Fingerprint, ReserveGranted(r, f)
  PROVE  IInv'
<1>1. PICK c \in Configs :
        /\ CheckRow(UpsertBucket(c.daily))
        /\ Fits(UpsertBucket(c.daily)) /\ Fits(ledger[r])
        /\ bucket' = [bucket EXCEPT ![day] = Grant(UpsertBucket(c.daily))]
  BY DEF ReserveGranted
<1>2. /\ ledger[r].exists /\ reservation[f].status = "none"
      /\ ledger' = [ledger EXCEPT ![r] = Grant(@)]
      /\ reservation' = [reservation EXCEPT ![f] = Reserved(r)]
      /\ UNCHANGED <<day, capEvents>>
  BY DEF ReserveGranted, New
<1>3. c.daily \in Nat /\ Estimate \in Nat /\ day \in Day /\ bucket[day] \in BucketRow
      /\ ledger[r] \in LedgerRow
  BY LedgerAssumption DEF IInv, TypeOK
<1>4. /\ bucket'[day] = [exists |-> TRUE, cap |-> c.daily,
                         reserved |-> bucket[day].reserved + Estimate,
                         actual |-> bucket[day].actual, released |-> bucket[day].released]
      /\ bucket[day].reserved + Estimate <= c.daily
      /\ \A d \in Day \ {day} : bucket'[d] = bucket[d]
  BY <1>1, <1>3 DEF IInv, TypeOK, Grant, Fits, UpsertBucket, BucketRow
<1>5. /\ ledger'[r] = [exists |-> TRUE, cap |-> ledger[r].cap,
                       reserved |-> ledger[r].reserved + Estimate, actual |-> ledger[r].actual]
      /\ ledger[r].reserved + Estimate <= ledger[r].cap
      /\ \A q \in Run \ {r} : ledger'[q] = ledger[q]
  BY <1>1, <1>2, <1>3 DEF IInv, TypeOK, Grant, Fits, LedgerRow
<1>6. /\ reservation'[f] = Reserved(r)
      /\ \A g \in Fingerprint \ {f} : reservation'[g] = reservation[g]
  BY <1>2 DEF IInv, TypeOK
<1> USE DEF Reserved
<1>7. TypeOK'
  <2>1. bucket' \in [Day -> BucketRow]
    <3>1. bucket'[day] \in BucketRow
      BY <1>3, <1>4 DEF BucketRow
    <3> QED
      BY <1>1, <1>3, <3>1 DEF IInv, TypeOK
  <2>2. ledger' \in [Run -> LedgerRow]
    <3>1. ledger'[r] \in LedgerRow
      BY <1>3, <1>5 DEF LedgerRow
    <3> QED
      BY <1>2, <3>1 DEF IInv, TypeOK
  <2>3. Reserved(r) \in ReservationRow
    BY <1>3 DEF ReservationRow
  <2>4. reservation' \in [Fingerprint -> ReservationRow]
    BY <1>2, <2>3 DEF IInv, TypeOK
  <2> QED
    BY <1>2, <2>1, <2>2, <2>4 DEF IInv, TypeOK
<1>8. Booked'
  BY <1>2, <1>3, <1>4, <1>5, <1>6 DEF IInv, Booked
<1>9. EmptyRows'
  BY <1>4, <1>5 DEF IInv, EmptyRows
<1>10. RunBalanced'
  <2> SUFFICES ASSUME NEW q \in Run
               PROVE  /\ ledger'[q].reserved = ledger'[q].actual + Estimate * Cardinality(OpenIn(q)')
                      /\ ledger'[q].reserved <= ledger'[q].cap
    BY DEF RunBalanced
  <2>0. /\ ledger[q].reserved = ledger[q].actual + Estimate * Cardinality(OpenIn(q))
        /\ ledger[q].reserved <= ledger[q].cap
    BY DEF IInv, RunBalanced
  <2>1. CASE q = r
    <3>1. f \notin OpenIn(r) /\ OpenIn(r) \in SUBSET Fingerprint
      BY <1>2 DEF OpenIn
    <3>2. OpenIn(r)' = OpenIn(r) \cup {f}
      BY <1>6 DEF OpenIn
    <3>3. Estimate * Cardinality(OpenIn(r)') = Estimate * Cardinality(OpenIn(r)) + Estimate
      BY <3>1, <3>2, OneMore
    <3>4. Estimate * Cardinality(OpenIn(r)) \in Int
      BY <3>1, <1>3, SubsetFinite
    <3> QED
      BY <2>0, <2>1, <3>3, <3>4, <1>3, <1>5 DEF LedgerRow
  <2>2. CASE q # r
    <3>1. OpenIn(q)' = OpenIn(q)
      BY <1>2, <1>6, <2>2 DEF OpenIn
    <3> QED
      BY <2>0, <2>2, <3>1, <1>5
  <2> QED
    BY <2>1, <2>2
<1>11. DayBalanced'
  <2> SUFFICES ASSUME NEW d \in Day, OwnSettlementsOnly(d)'
               PROVE  /\ bucket'[d].reserved = bucket'[d].actual + Estimate * Cardinality(CarriedOn(d)')
                      /\ bucket'[d].reserved + bucket'[d].released = Estimate * Cardinality(MadeOn(d)')
                      /\ bucket'[d].reserved <= bucket'[d].cap
    BY DEF DayBalanced
  <2>1. OwnSettlementsOnly(d)
    BY <1>2, <1>6 DEF OwnSettlementsOnly, IInv, Booked, Day, NoDay
  <2>2. /\ bucket[d].reserved = bucket[d].actual + Estimate * Cardinality(CarriedOn(d))
        /\ bucket[d].reserved + bucket[d].released = Estimate * Cardinality(MadeOn(d))
        /\ bucket[d].reserved <= bucket[d].cap
    BY <2>1 DEF IInv, DayBalanced
  <2>3. CASE d = day
    <3>1. /\ f \notin MadeOn(d) /\ MadeOn(d) \in SUBSET Fingerprint
          /\ f \notin CarriedOn(d) /\ CarriedOn(d) \in SUBSET Fingerprint
      BY <1>2 DEF MadeOn, CarriedOn
    <3>2. MadeOn(d)' = MadeOn(d) \cup {f}
      BY <2>3, <1>6 DEF MadeOn
    <3>3. CarriedOn(d)' = CarriedOn(d) \cup {f}
      BY <2>3, <1>6 DEF CarriedOn, MadeOn, Day, NoDay
    <3>4. /\ Estimate * Cardinality(MadeOn(d)') = Estimate * Cardinality(MadeOn(d)) + Estimate
          /\ Estimate * Cardinality(CarriedOn(d)') = Estimate * Cardinality(CarriedOn(d)) + Estimate
      BY <3>1, <3>2, <3>3, OneMore
    <3>5. /\ Estimate * Cardinality(MadeOn(d)) \in Int
          /\ Estimate * Cardinality(CarriedOn(d)) \in Int
      BY <3>1, <1>3, SubsetFinite
    <3> QED
      BY <2>2, <2>3, <3>4, <3>5, <1>3, <1>4 DEF BucketRow
  <2>4. CASE d # day
    <3>1. MadeOn(d)' = MadeOn(d)
      BY <1>2, <1>6, <2>4 DEF MadeOn
    <3>2. CarriedOn(d)' = CarriedOn(d)
      BY <1>2, <1>6, <2>4 DEF CarriedOn, MadeOn
    <3> QED
      BY <2>2, <2>4, <3>1, <3>2, <1>4
  <2> QED
    BY <2>3, <2>4
<1> QED
  BY <1>7, <1>8, <1>9, <1>10, <1>11 DEF IInv

LEMMA ReserveDeniedPreserves ==
  ASSUME IInv, NEW r \in Run, NEW f \in Fingerprint, ReserveDenied(r, f)
  PROVE  IInv'
<1>1. PICK c \in Configs :
        /\ CheckRow(UpsertBucket(c.daily))
        /\ bucket' = [bucket EXCEPT ![day] = UpsertBucket(c.daily)]
        /\ capEvents' = [capEvents EXCEPT ![r] = @ \cup {Reason(UpsertBucket(c.daily))}]
  BY DEF ReserveDenied
<1>2. UNCHANGED <<day, ledger, reservation>>
  BY DEF ReserveDenied
<1>3. c.daily \in Nat /\ day \in Day /\ bucket[day] \in BucketRow
  BY LedgerAssumption DEF IInv, TypeOK
<1>4. /\ bucket'[day] = [exists |-> TRUE, cap |-> c.daily, reserved |-> bucket[day].reserved,
                         actual |-> bucket[day].actual, released |-> bucket[day].released]
      /\ bucket[day].reserved <= c.daily
      /\ \A d \in Day \ {day} : bucket'[d] = bucket[d]
  BY <1>1, <1>3 DEF IInv, TypeOK, CheckRow, UpsertBucket, BucketRow
<1>5. TypeOK'
  <2>1. bucket' \in [Day -> BucketRow]
    <3>1. bucket'[day] \in BucketRow
      BY <1>3, <1>4 DEF BucketRow
    <3> QED
      BY <1>1, <1>3, <3>1 DEF IInv, TypeOK
  <2>2. capEvents' \in [Run -> SUBSET {"daily_cap", "run_cap"}]
    BY <1>1 DEF IInv, TypeOK, Reason
  <2> QED
    BY <1>2, <2>1, <2>2 DEF IInv, TypeOK
<1>6. Booked'
  BY <1>2, <1>3, <1>4 DEF IInv, Booked
<1>7. EmptyRows'
  BY <1>2, <1>4 DEF IInv, EmptyRows
<1>8. RunBalanced'
  BY <1>2 DEF IInv, RunBalanced, OpenIn
<1>9. DayBalanced'
  <2> SUFFICES ASSUME NEW d \in Day, OwnSettlementsOnly(d)'
               PROVE  /\ bucket'[d].reserved = bucket'[d].actual + Estimate * Cardinality(CarriedOn(d)')
                      /\ bucket'[d].reserved + bucket'[d].released = Estimate * Cardinality(MadeOn(d)')
                      /\ bucket'[d].reserved <= bucket'[d].cap
    BY DEF DayBalanced
  <2>1. OwnSettlementsOnly(d) /\ MadeOn(d)' = MadeOn(d) /\ CarriedOn(d)' = CarriedOn(d)
    BY <1>2 DEF OwnSettlementsOnly, MadeOn, CarriedOn
  <2>2. /\ bucket[d].reserved = bucket[d].actual + Estimate * Cardinality(CarriedOn(d))
        /\ bucket[d].reserved + bucket[d].released = Estimate * Cardinality(MadeOn(d))
        /\ bucket[d].reserved <= bucket[d].cap
    BY <2>1 DEF IInv, DayBalanced
  <2>3. CASE d = day
    BY <2>1, <2>2, <2>3, <1>4
  <2>4. CASE d # day
    BY <2>1, <2>2, <2>4, <1>4
  <2> QED
    BY <2>3, <2>4
<1> QED
  BY <1>5, <1>6, <1>7, <1>8, <1>9 DEF IInv

LEMMA MarkStartedPreserves ==
  ASSUME IInv, NEW f \in Fingerprint, MarkStarted(f)
  PROVE  IInv'
<1>1. /\ reservation' = [reservation EXCEPT ![f].started = TRUE]
      /\ UNCHANGED <<day, bucket, ledger, capEvents>>
  BY DEF MarkStarted
<1>2. /\ \A g \in Fingerprint :
           /\ reservation'[g].status = reservation[g].status
           /\ reservation'[g].run = reservation[g].run
           /\ reservation'[g].made = reservation[g].made
           /\ reservation'[g].settled = reservation[g].settled
      /\ reservation' \in [Fingerprint -> ReservationRow]
  <2>1. ASSUME NEW g \in Fingerprint
        PROVE  /\ reservation'[g] \in ReservationRow
               /\ reservation'[g].status = reservation[g].status
               /\ reservation'[g].run = reservation[g].run
               /\ reservation'[g].made = reservation[g].made
               /\ reservation'[g].settled = reservation[g].settled
    <3>1. reservation[g] \in ReservationRow
      BY DEF IInv, TypeOK
    <3>2. CASE g # f
      BY <1>1, <3>1, <3>2 DEF IInv, TypeOK
    <3>3. CASE g = f
      <4>1. reservation'[g] = [reservation[g] EXCEPT !.started = TRUE]
        BY <1>1, <3>3 DEF IInv, TypeOK
      <4> QED
        BY <3>1, <4>1 DEF ReservationRow
    <3> QED
      BY <3>2, <3>3
  <2>3. reservation' = [g \in Fingerprint |-> reservation'[g]]
    BY <1>1 DEF IInv, TypeOK
  <2> QED
    BY <2>1, <2>3
<1>3. TypeOK'
  BY <1>1, <1>2 DEF IInv, TypeOK
<1>4. Booked' /\ EmptyRows'
  BY <1>1, <1>2 DEF IInv, Booked, EmptyRows
<1>5. \A r \in Run : OpenIn(r)' = OpenIn(r)
  BY <1>2 DEF OpenIn
<1>6. RunBalanced'
  BY <1>1, <1>5 DEF IInv, RunBalanced
<1>7. \A d \in Day : /\ MadeOn(d)' = MadeOn(d)
                     /\ CarriedOn(d)' = CarriedOn(d)
                     /\ OwnSettlementsOnly(d)' = OwnSettlementsOnly(d)
  BY <1>2 DEF MadeOn, CarriedOn, OwnSettlementsOnly
<1>8. DayBalanced'
  BY <1>1, <1>7 DEF IInv, DayBalanced
<1> QED
  BY <1>3, <1>4, <1>6, <1>8 DEF IInv

\* A settlement, at whatever cost.
LEMMA PostPreserves ==
  ASSUME IInv, NEW f \in Fingerprint, Open(f), NEW charged \in 0..Estimate,
         NEW outcome \in {"settled", "charged_worst_case"}, Post(f, charged, outcome)
  PROVE  IInv'
<1> DEFINE r == reservation[f].run
           paid == [reservation[f] EXCEPT !.status = outcome, !.actual = charged, !.settled = day]
<1>1. /\ reservation[f].status = "reserved" /\ reservation[f] \in ReservationRow
      /\ r \in Run /\ ledger[r].exists /\ ledger[r] \in LedgerRow
      /\ reservation[f].settled = NoDay /\ reservation[f].made \in Day
      /\ bucket[reservation[f].made].exists
      /\ day \in Day /\ bucket[day] \in BucketRow
      /\ Estimate \in Nat /\ charged \in Nat /\ charged <= Estimate
  BY LedgerAssumption DEF IInv, TypeOK, Booked, Open
<1>2. /\ CheckRow(SettleLedger(ledger[r], charged))
      /\ ledger' = [ledger EXCEPT ![r] = SettleLedger(ledger[r], charged)]
      /\ reservation' = [reservation EXCEPT ![f] = paid]
      /\ UNCHANGED <<day, capEvents>>
  BY DEF Post
<1>3. /\ ledger'[r].exists = ledger[r].exists /\ ledger'[r].cap = ledger[r].cap
      /\ ledger'[r].reserved = ledger[r].reserved - (Estimate - charged)
      /\ ledger'[r].actual = ledger[r].actual + charged
      /\ ledger'[r] \in LedgerRow
      /\ \A q \in Run \ {r} : ledger'[q] = ledger[q]
  <2>1. ledger'[r] = SettleLedger(ledger[r], charged)
    BY <1>1, <1>2 DEF IInv, TypeOK
  <2>2. \A q \in Run \ {r} : ledger'[q] = ledger[q]
    BY <1>2 DEF IInv, TypeOK
  <2>3. ledger[r] \in LedgerRow
    BY <1>1
  <2> QED
    BY <1>2, <2>1, <2>2, <2>3, SettledLedgerRow
<1>4. /\ reservation'[f].status = outcome /\ reservation'[f].settled = day
      /\ reservation'[f].run = r /\ reservation'[f].made = reservation[f].made
      /\ reservation'[f] \in ReservationRow
      /\ \A g \in Fingerprint \ {f} : reservation'[g] = reservation[g]
  BY <1>1, <1>2 DEF IInv, TypeOK, ReservationRow
<1>5. \A d \in Day \ {day} : bucket'[d] = bucket[d]
  BY <1>1 DEF Post, IInv, TypeOK
<1>6. /\ bucket'[day].exists = bucket[day].exists
      /\ bucket'[day].cap = bucket[day].cap
      /\ ~bucket[day].exists => bucket'[day] = bucket[day]
      /\ bucket[day].exists =>
           /\ bucket'[day].reserved = bucket[day].reserved - (Estimate - charged)
           /\ bucket'[day].actual = bucket[day].actual + charged
           /\ bucket'[day].released = bucket[day].released + (Estimate - charged)
           /\ bucket'[day].reserved <= bucket'[day].cap
      /\ bucket' \in [Day -> BucketRow]
  <2>1. CASE bucket[day].exists
    <3>1. /\ CheckRow(SettleBucket(bucket[day], charged))
          /\ bucket' = [bucket EXCEPT ![day] = SettleBucket(bucket[day], charged)]
      BY <2>1 DEF Post
    <3>2. bucket'[day] = SettleBucket(bucket[day], charged)
      BY <1>1, <3>1 DEF IInv, TypeOK
    <3>3. /\ bucket'[day] \in BucketRow /\ bucket'[day].reserved <= bucket'[day].cap
          /\ bucket'[day].exists = bucket[day].exists /\ bucket'[day].cap = bucket[day].cap
          /\ bucket'[day].reserved = bucket[day].reserved - (Estimate - charged)
          /\ bucket'[day].actual = bucket[day].actual + charged
          /\ bucket'[day].released = bucket[day].released + (Estimate - charged)
      BY <1>1, <3>1, <3>2, SettledBucketRow DEF CheckRow
    <3>4. bucket' \in [Day -> BucketRow]
      BY <1>1, <3>1, <3>2, <3>3 DEF IInv, TypeOK
    <3> QED
      BY <2>1, <3>3, <3>4
  <2>2. CASE ~bucket[day].exists
    BY <1>1, <2>2 DEF Post, IInv, TypeOK
  <2> QED
    BY <2>1, <2>2
<1> HIDE DEF paid
<1>7. TypeOK'
  <2>1. ledger' \in [Run -> LedgerRow]
    BY <1>1, <1>2, <1>3 DEF IInv, TypeOK
  <2>2. reservation' \in [Fingerprint -> ReservationRow]
    BY <1>2, <1>4 DEF IInv, TypeOK
  <2> QED
    BY <1>2, <1>6, <2>1, <2>2 DEF IInv, TypeOK
<1>8. Booked'
  <2>1. \A d \in Day : bucket[d].exists => bucket'[d].exists
    BY <1>5, <1>6
  <2>2. \A q \in Run : ledger[q].exists => ledger'[q].exists
    BY <1>3
  <2> QED
    BY <1>1, <1>4, <2>1, <2>2 DEF IInv, Booked
<1>9. EmptyRows'
  BY <1>1, <1>3, <1>5, <1>6 DEF IInv, EmptyRows
<1>10. RunBalanced'
  <2> SUFFICES ASSUME NEW q \in Run
               PROVE  /\ ledger'[q].reserved = ledger'[q].actual + Estimate * Cardinality(OpenIn(q)')
                      /\ ledger'[q].reserved <= ledger'[q].cap
    BY DEF RunBalanced
  <2>0. /\ ledger[q].reserved = ledger[q].actual + Estimate * Cardinality(OpenIn(q))
        /\ ledger[q].reserved <= ledger[q].cap
    BY DEF IInv, RunBalanced
  <2>1. CASE q = r
    <3>1. f \in OpenIn(q) /\ OpenIn(q) \in SUBSET Fingerprint
      BY <1>1, <2>1 DEF OpenIn
    <3>2. OpenIn(q)' = OpenIn(q) \ {f}
      BY <1>4, <2>1 DEF OpenIn
    <3>3. Estimate * Cardinality(OpenIn(q)') = Estimate * Cardinality(OpenIn(q)) - Estimate
      BY <3>1, <3>2, OneLess
    <3>4. Estimate * Cardinality(OpenIn(q)) \in Int
      BY <3>1, WorthOne
    <3>5. /\ ledger[r].reserved \in Nat /\ ledger[r].actual \in Nat
          /\ ledger[r].cap \in Nat
      BY <1>1 DEF LedgerRow
    <3> QED
      BY <2>0, <2>1, <3>3, <3>4, <3>5, <1>1, <1>3
  <2>2. CASE q # r
    <3>1. OpenIn(q)' = OpenIn(q)
      BY <1>1, <1>4, <2>2 DEF OpenIn
    <3> QED
      BY <2>0, <2>2, <3>1, <1>3
  <2> QED
    BY <2>1, <2>2
<1>11. DayBalanced'
  <2> SUFFICES ASSUME NEW d \in Day, OwnSettlementsOnly(d)'
               PROVE  /\ bucket'[d].reserved = bucket'[d].actual + Estimate * Cardinality(CarriedOn(d)')
                      /\ bucket'[d].reserved + bucket'[d].released = Estimate * Cardinality(MadeOn(d)')
                      /\ bucket'[d].reserved <= bucket'[d].cap
    BY DEF DayBalanced
  <2>1. OwnSettlementsOnly(d)
    BY <1>1, <1>4 DEF OwnSettlementsOnly, Day, NoDay
  <2>2. /\ bucket[d].reserved = bucket[d].actual + Estimate * Cardinality(CarriedOn(d))
        /\ bucket[d].reserved + bucket[d].released = Estimate * Cardinality(MadeOn(d))
        /\ bucket[d].reserved <= bucket[d].cap
    BY <2>1 DEF IInv, DayBalanced
  <2>3. MadeOn(d)' = MadeOn(d)
    BY <1>1, <1>4 DEF MadeOn
  <2>4. CASE d = day
    <3>1. reservation[f].made = day
      BY <2>4, <1>4 DEF OwnSettlementsOnly
    <3>2. f \in CarriedOn(d) /\ CarriedOn(d) \in SUBSET Fingerprint
      BY <1>1, <2>4, <3>1 DEF CarriedOn, MadeOn, Day, NoDay
    <3>3. CarriedOn(d)' = CarriedOn(d) \ {f}
      BY <1>4, <2>3, <2>4 DEF CarriedOn, MadeOn
    <3>4. Estimate * Cardinality(CarriedOn(d)') = Estimate * Cardinality(CarriedOn(d)) - Estimate
      BY <3>2, <3>3, OneLess
    <3>5. Estimate * Cardinality(CarriedOn(d)) \in Int
      BY <3>2, WorthOne
    <3> QED
      BY <2>2, <2>3, <2>4, <3>1, <3>4, <3>5, <1>1, <1>6 DEF BucketRow
  <2>5. CASE d # day
    <3>1. CarriedOn(d)' = CarriedOn(d)
      BY <1>1, <1>4, <2>3, <2>5 DEF CarriedOn, MadeOn, Day, NoDay
    <3> QED
      BY <2>2, <2>3, <2>5, <3>1, <1>5
  <2> QED
    BY <2>4, <2>5
<1> QED
  BY <1>7, <1>8, <1>9, <1>10, <1>11 DEF IInv

LEMMA StepPreserves == IInv /\ [Next]_vars => IInv'
<1> SUFFICES ASSUME IInv, [Next]_vars PROVE IInv'
  OBVIOUS
<1>1. CASE \E r \in Run : EnsureRun(r)
  BY <1>1, EnsureRunPreserves
<1>2. CASE \E r \in Run, f \in Fingerprint : ReserveGranted(r, f) \/ ReserveDenied(r, f)
  BY <1>2, ReserveGrantedPreserves, ReserveDeniedPreserves
<1>3. CASE \E f \in Fingerprint : MarkStarted(f)
  BY <1>3, MarkStartedPreserves
<1>4. ASSUME NEW f \in Fingerprint, Settle(f) PROVE IInv'
  <2>1. PICK cost \in Costs : cost <= Estimate /\ Post(f, cost, "settled")
    BY <1>4 DEF Settle
  <2>2. cost \in 0..Estimate
    BY <2>1, LedgerAssumption
  <2> QED
    BY <1>4, <2>1, <2>2, PostPreserves DEF Settle
<1>5. ASSUME NEW f \in Fingerprint, ChargeWorstCase(f) PROVE IInv'
  <2>1. Estimate \in 0..Estimate
    BY LedgerAssumption
  <2> QED
    BY <1>5, <2>1, PostPreserves DEF ChargeWorstCase
<1>6. CASE NewDay
  <2>1. TypeOK'
    BY <1>6, LedgerAssumption DEF NewDay, IInv, TypeOK, Day
  <2> QED
    BY <1>6, <2>1, BalancesDependOn DEF NewDay, IInv
<1>7. CASE UNCHANGED vars
  <2>1. TypeOK'
    BY <1>7 DEF vars, IInv, TypeOK
  <2> QED
    BY <1>7, <2>1, BalancesDependOn DEF vars, IInv
<1> QED
  BY <1>1, <1>2, <1>3, <1>4, <1>5, <1>6, <1>7 DEF Next

LEMMA Invariance == Spec => []IInv
BY InitEstablishes, StepPreserves, PTL DEF Spec

-----------------------------------------------------------------------------
(* The theorems.                                                           *)

\* Every table keeps its shape in every reachable state.
THEOREM TypeCorrect == Spec => []TypeOK
<1>1. IInv => TypeOK
  BY DEF IInv
<1> QED
  BY <1>1, Invariance, PTL

\* However many calls a run makes and on whatever days they are settled, its row is what
\* it spent and the worst case of its open calls, within the cap of the run.
THEOREM RunsBalance == Spec => []RunBalanced
<1>1. IInv => RunBalanced
  BY DEF IInv
<1> QED
  BY <1>1, Invariance, PTL

\* A day to which only its own calls are posted is balanced, and within its cap.
THEOREM DaysBalance == Spec => []DayBalanced
<1>1. IInv => DayBalanced
  BY DEF IInv
<1> QED
  BY <1>1, Invariance, PTL

\* The balances leave room for every settlement of a call of the day.
LEMMA RoomToSettle == IInv => SettlementAccepted
<1> SUFFICES ASSUME IInv, NEW f \in Fingerprint, reservation[f].status = "reserved",
                    reservation[f].made = day, OwnSettlementsOnly(day),
                    NEW charged \in 0..Estimate
             PROVE  /\ CheckRow(SettleLedger(ledger[reservation[f].run], charged))
                    /\ CheckRow(SettleBucket(bucket[day], charged))
  BY DEF SettlementAccepted
<1> DEFINE r == reservation[f].run
<1>1. /\ r \in Run /\ ledger[r] \in LedgerRow /\ day \in Day /\ bucket[day] \in BucketRow
      /\ reservation[f].settled = NoDay
      /\ Estimate \in Nat /\ charged \in Nat /\ charged <= Estimate
  BY LedgerAssumption DEF IInv, TypeOK, Booked
<1>2. f \in OpenIn(r) /\ OpenIn(r) \in SUBSET Fingerprint
  BY DEF OpenIn
<1>3. f \in CarriedOn(day) /\ CarriedOn(day) \in SUBSET Fingerprint
  BY <1>1 DEF CarriedOn, MadeOn, Day, NoDay
<1>4. /\ Estimate * Cardinality(OpenIn(r)) \in Nat
      /\ Estimate <= Estimate * Cardinality(OpenIn(r))
      /\ Estimate * Cardinality(CarriedOn(day)) \in Nat
      /\ Estimate <= Estimate * Cardinality(CarriedOn(day))
  BY <1>2, <1>3, WorthOne
<1>5. /\ ledger[r].reserved = ledger[r].actual + Estimate * Cardinality(OpenIn(r))
      /\ ledger[r].reserved <= ledger[r].cap
  BY <1>1 DEF IInv, RunBalanced
<1>6. /\ bucket[day].reserved = bucket[day].actual + Estimate * Cardinality(CarriedOn(day))
      /\ bucket[day].reserved <= bucket[day].cap
  BY <1>1 DEF IInv, DayBalanced
<1>7. CheckRow(SettleLedger(ledger[r], charged))
  BY <1>1, <1>4, <1>5 DEF CheckRow, SettleLedger, Released, LedgerRow
<1>8. CheckRow(SettleBucket(bucket[day], charged))
  BY <1>1, <1>4, <1>6 DEF CheckRow, SettleBucket, Released, BucketRow
<1> QED
  BY <1>7, <1>8

\* A call settled on its own day is never refused by the database, so the catch block
\* of the reconciler can always charge the worst case before midnight.
THEOREM SettlementsAreAccepted == Spec => []SettlementAccepted
BY RoomToSettle, Invariance, PTL

\* One step leaves a settled reservation alone.
LEMMA StepChargesOnce ==
  TypeOK /\ [Next]_vars =>
    \A f \in Fingerprint : reservation[f].status \in {"settled", "charged_worst_case"} =>
      reservation'[f] = reservation[f]
<1> SUFFICES ASSUME TypeOK, [Next]_vars, NEW f \in Fingerprint,
                    reservation[f].status \in {"settled", "charged_worst_case"}
             PROVE  reservation'[f] = reservation[f]
  OBVIOUS
<1>1. CASE \E r \in Run : EnsureRun(r)
  BY <1>1 DEF EnsureRun
<1>2. CASE \E r \in Run, g \in Fingerprint : ReserveGranted(r, g) \/ ReserveDenied(r, g)
  BY <1>2 DEF ReserveGranted, ReserveDenied, New, TypeOK
<1>3. CASE \E g \in Fingerprint : MarkStarted(g) \/ Settle(g) \/ ChargeWorstCase(g)
  BY <1>3 DEF MarkStarted, Settle, ChargeWorstCase, Open, Post, TypeOK
<1>4. CASE NewDay \/ UNCHANGED vars
  BY <1>4 DEF NewDay, vars
<1> QED
  BY <1>1, <1>2, <1>3, <1>4 DEF Next

\* No call is charged twice, and no settled reservation is opened again.
THEOREM NoDoubleCharge == Spec => ChargedOnce
<1>1. TypeOK /\ [Next]_vars =>
        [\A f \in Fingerprint : reservation[f].status \in {"settled", "charged_worst_case"} =>
           reservation'[f] = reservation[f]]_vars
  BY StepChargesOnce
<1>2. Spec => [][\A f \in Fingerprint :
                   reservation[f].status \in {"settled", "charged_worst_case"} =>
                     reservation'[f] = reservation[f]]_vars
  BY <1>1, TypeCorrect, PTL DEF Spec
<1> QED
  BY <1>2 DEF ChargedOnce

\* The reservations always agree with the rows of the runs and of the days.
THEOREM LedgerBalances == Spec => []Balanced
<1>1. RunBalanced /\ DayBalanced => Balanced
  BY DEF Balanced
<1> QED
  BY <1>1, RunsBalance, DaysBalance, PTL

-----------------------------------------------------------------------------
(* Adding what calls cost.                                                 *)

\* A cost for every call.
Cost == [Fingerprint -> 0..Estimate]

\* What some calls cost together, without an order of addition: the number of units
\* their costs are made of.
Units(cost, calls) == {u \in calls \X (1..Estimate) : u[2] <= cost[u[1]]}
Total(cost, calls) == Cardinality(Units(cost, calls))

\* The units are finite, so that their number is a natural number.
LEMMA UnitsAreFinite ==
  ASSUME NEW cost \in Cost, NEW calls \in SUBSET Fingerprint
  PROVE  IsFiniteSet(Units(cost, calls)) /\ Total(cost, calls) \in Nat
<1>1. Estimate \in Int /\ 1 \in Int /\ IsFiniteSet(calls)
  BY LedgerAssumption, SubsetFinite
<1>2. IsFiniteSet(1..Estimate)
  BY <1>1, FS_Interval
<1>3. IsFiniteSet(calls \X (1..Estimate))
  BY <1>1, <1>2, FS_Product
<1>4. Units(cost, calls) \subseteq calls \X (1..Estimate)
  BY DEF Units
<1>5. IsFiniteSet(Units(cost, calls))
  BY <1>3, <1>4, FS_Subset
<1> QED BY <1>5, FS_CardinalityType DEF Total

\* Nothing costs nothing.
LEMMA TotalOfNothing == \A cost : Total(cost, {}) = 0
<1>1. \A cost : Units(cost, {}) = {}
  BY DEF Units
<1> QED BY <1>1, FS_EmptySet DEF Total

\* A call adds its cost.
LEMMA TotalOfOneMore ==
  ASSUME NEW cost \in Cost, NEW calls \in SUBSET Fingerprint, NEW f \in calls
  PROVE  Total(cost, calls) = cost[f] + Total(cost, calls \ {f})
<1> DEFINE own == {f} \X (1..cost[f])
           rest == Units(cost, calls \ {f})
<1>1. f \in Fingerprint /\ cost[f] \in Nat /\ cost[f] <= Estimate /\ Estimate \in Nat
  BY LedgerAssumption DEF Cost
<1>2. IsFiniteSet(own) /\ Cardinality(own) = cost[f]
  <2>1. IsFiniteSet(1..cost[f]) /\ Cardinality(1..cost[f]) = cost[f]
    <3>1. 1 \in Int /\ cost[f] \in Int /\ cost[f] - 1 + 1 = cost[f] /\ (1 > cost[f] => cost[f] = 0)
      BY <1>1
    <3> QED BY <3>1, FS_Interval
  <2>2. IsFiniteSet({f}) /\ Cardinality({f}) = 1
    BY FS_Singleton
  <2>3. IsFiniteSet(own) /\ Cardinality(own) = Cardinality({f}) * Cardinality(1..cost[f])
    BY <2>1, <2>2, FS_Product
  <2>4. 1 * cost[f] = cost[f]
    BY <1>1
  <2> HIDE DEF own
  <2> QED BY <2>1, <2>2, <2>3, <2>4
<1>3. IsFiniteSet(rest) /\ Cardinality(rest) \in Nat
  BY UnitsAreFinite DEF Total
<1>4. own \cap rest = {}
  BY DEF Units
<1>5. Units(cost, calls) = own \cup rest
  <2>1. ASSUME NEW u \in Units(cost, calls) PROVE u \in own \cup rest
    <3>1. PICK g \in calls, n \in 1..Estimate : u = <<g, n>> /\ n <= cost[g]
      BY DEF Units
    <3>2. CASE g = f
      BY <1>1, <3>1, <3>2
    <3>3. CASE g # f
      BY <3>1, <3>3 DEF Units
    <3> QED BY <3>2, <3>3
  <2>2. ASSUME NEW u \in own PROVE u \in Units(cost, calls)
    BY <1>1 DEF Units
  <2>3. ASSUME NEW u \in rest PROVE u \in Units(cost, calls)
    BY DEF Units
  <2> HIDE DEF own, rest
  <2> QED BY <2>1, <2>2, <2>3
<1>6. Cardinality(own \cup rest) = Cardinality(own) + Cardinality(rest) - Cardinality({})
  <2> HIDE DEF own, rest
  <2> QED BY <1>2, <1>3, <1>4, FS_Union
<1>7. Cardinality({}) = 0
  BY FS_EmptySet
<1> HIDE DEF own, rest
<1>8. Cardinality(own \cup rest) = cost[f] + Cardinality(rest)
  BY <1>1, <1>2, <1>3, <1>6, <1>7
<1> QED BY <1>5, <1>8 DEF Total, rest

\* Costs that agree on some calls have the same total.
LEMMA TotalDependsOn ==
  ASSUME NEW cost, NEW other, NEW calls, \A f \in calls : cost[f] = other[f]
  PROVE  Total(cost, calls) = Total(other, calls)
<1>1. Units(cost, calls) = Units(other, calls)
  BY DEF Units
<1> QED BY <1>1 DEF Total

\* When the cost of one call changes, so does the total.
LEMMA TotalOfOneChanged ==
  ASSUME NEW cost \in Cost, NEW other \in Cost, NEW calls \in SUBSET Fingerprint, NEW f \in calls,
         \A g \in calls \ {f} : cost[g] = other[g]
  PROVE  Total(other, calls) = Total(cost, calls) - cost[f] + other[f]
<1>1. Total(cost, calls \ {f}) = Total(other, calls \ {f})
  BY TotalDependsOn
<1>2. Total(cost, calls) = cost[f] + Total(cost, calls \ {f})
  BY TotalOfOneMore
<1>3. Total(other, calls) = other[f] + Total(other, calls \ {f})
  BY TotalOfOneMore
<1>4. Total(cost, calls \ {f}) \in Nat /\ cost[f] \in Nat /\ other[f] \in Nat
  BY UnitsAreFinite, LedgerAssumption DEF Cost
<1> QED BY <1>1, <1>2, <1>3, <1>4

\* What every call may cost or has cost.
Liabilities == [f \in Fingerprint |-> Liability(f)]

\* Induction over the natural numbers, for a set.
LEMMA InductiveSet ==
  ASSUME NEW N \in SUBSET Nat, 0 \in N, \A n \in N : n + 1 \in N
  PROVE  N = Nat
<1> DEFINE Outside == Nat \ N
           Less == {p \in Nat \X Nat : p[1] < p[2]}
<1>1. SUFFICES ASSUME Outside # {} PROVE FALSE
  OBVIOUS
<1>2. IsWellFoundedOn(Less, Nat)
  BY NatLessThanWellFounded DEF OpToRel
<1>3. PICK n \in Outside : \A k \in Outside : <<k, n>> \notin Less
  <2>1. Outside \subseteq Nat
    OBVIOUS
  <2> HIDE DEF Outside, Less
  <2> QED BY <1>1, <1>2, <2>1, WFMin
<1>4. n - 1 \in Nat /\ n - 1 < n
  OBVIOUS
<1>5. n - 1 \in N
  BY <1>3, <1>4
<1> QED BY <1>4, <1>5

\* The sum over some calls is their total.
LEMMA SumIsTotal ==
  ASSUME TypeOK, NEW calls \in SUBSET Fingerprint
  PROVE  MapThenSumSet(Liability, calls) = Total(Liabilities, calls)
<1> DEFINE next(s) == CHOOSE f \in s : TRUE
           step(h) == [s \in SUBSET calls |->
                        IF s = {} THEN 0 ELSE Liability(next(s)) + h[s \ {next(s)}]]
           total == [s \in SUBSET calls |-> Total(Liabilities, s)]
           sum == CHOOSE h : h = step(h)
<1>1. MapThenSumSet(Liability, calls) = sum[calls]
  BY DEF MapThenSumSet, MapThenFoldSet
<1>2. Liabilities \in Cost
  BY LedgerAssumption DEF Liabilities, Liability, Cost, TypeOK, ReservationRow
<1>3. \A s \in SUBSET calls : s # {} => next(s) \in s /\ s \ {next(s)} \in SUBSET calls
  OBVIOUS
<1> HIDE DEF next
<1>4. ASSUME NEW s \in SUBSET calls, s # {}
      PROVE  Total(Liabilities, s) = Liability(next(s)) + Total(Liabilities, s \ {next(s)})
  <2>1. next(s) \in s /\ next(s) \in Fingerprint /\ s \in SUBSET Fingerprint
    BY <1>3, <1>4
  <2>2. Liabilities[next(s)] = Liability(next(s))
    BY <2>1 DEF Liabilities
  <2> QED BY <1>2, <2>1, <2>2, TotalOfOneMore
<1>5. total = step(total)
  <2>1. ASSUME NEW s \in SUBSET calls
        PROVE  total[s] = IF s = {} THEN 0 ELSE Liability(next(s)) + total[s \ {next(s)}]
    <3>1. CASE s = {}
      BY <3>1, TotalOfNothing
    <3>2. CASE s # {}
      BY <1>3, <1>4, <3>2
    <3> QED BY <3>1, <3>2
  <2>2. total = [s \in SUBSET calls |-> total[s]]
    OBVIOUS
  <2> HIDE DEF total
  <2> QED BY <2>1, <2>2
<1>6. sum = step(sum)
  <2>1. \E h : h = step(h)
    BY <1>5
  <2> HIDE DEF step
  <2> QED BY <2>1
<1>7. sum[calls] = total[calls]
  <2> DEFINE Same(s) == sum[s] = total[s]
             N == {n \in Nat : \A s \in SUBSET calls : Cardinality(s) = n => Same(s)}
  <2>1. \A s \in SUBSET calls : IsFiniteSet(s) /\ Cardinality(s) \in Nat
    BY SubsetFinite
  <2>2. ASSUME NEW s \in SUBSET calls
        PROVE  /\ sum[s] = IF s = {} THEN 0 ELSE Liability(next(s)) + sum[s \ {next(s)}]
               /\ total[s] = IF s = {} THEN 0 ELSE Liability(next(s)) + total[s \ {next(s)}]
    <3> HIDE DEF sum, total
    <3> QED BY <1>5, <1>6
  <2> HIDE DEF sum, total, step
  <2>3. 0 \in N
    <3>1. ASSUME NEW s \in SUBSET calls, Cardinality(s) = 0 PROVE Same(s)
      <4>1. s = {}
        BY <2>1, <3>1, FS_EmptySet
      <4> QED BY <2>2, <4>1
    <3> QED BY <3>1
  <2>4. ASSUME NEW n \in N PROVE n + 1 \in N
    <3>1. ASSUME NEW s \in SUBSET calls, Cardinality(s) = n + 1 PROVE Same(s)
      <4>1. s # {}
        <5>1. n \in Nat
          OBVIOUS
        <5>2. Cardinality(s) # 0
          BY <3>1, <5>1
        <5>3. Cardinality({}) = 0
          BY FS_EmptySet
        <5> QED BY <5>2, <5>3
      <4>2. next(s) \in s /\ s \ {next(s)} \in SUBSET calls
        BY <1>3, <4>1
      <4>3. Cardinality(s \ {next(s)}) = Cardinality(s) - 1
        BY <2>1, <4>2, FS_RemoveElement
      <4>4. Cardinality(s \ {next(s)}) = n
        BY <3>1, <4>3
      <4>5. Same(s \ {next(s)})
        BY <4>2, <4>4
      <4> QED BY <2>2, <4>1, <4>2, <4>5
    <3> QED BY <3>1
  <2>5. Cardinality(calls) \in N
    <3>1. N \in SUBSET Nat
      OBVIOUS
    <3> HIDE DEF N
    <3>2. N = Nat
      BY <2>3, <2>4, <3>1, InductiveSet
    <3> QED BY <2>1, <3>2
  <2> QED BY <2>5
<1> QED BY <1>1, <1>7

-----------------------------------------------------------------------------
(* The costs of calls and the caps.                                        *)

\* The calls made in the name of a run.
CallsOf(r) == {f \in Fingerprint : reservation[f].run = r}

\* A row that was never written bears no cost.
Fresh == \A f \in Fingerprint : reservation[f].status = "none" => reservation[f].actual = 0

\* What the row of a run has reserved is what its calls may cost or have cost.
RunsCost == \A r \in Run : Total(Liabilities, CallsOf(r)) = ledger[r].reserved

\* The row of a day covers the calls made on it, some of which may have been settled for less
\* on a later day, as long as only they are settled on it.
DaysCost ==
  \A d \in Day : OwnSettlementsOnly(d) => Total(Liabilities, MadeOn(d)) <= bucket[d].reserved

\* What holds of the costs in every state, with the balances.
CostInv == IInv /\ Fresh /\ RunsCost /\ DaysCost

\* A call costs its estimate at most.
LEMMA LiabilitiesAreCosts == TypeOK => Liabilities \in Cost
BY LedgerAssumption DEF Liabilities, Liability, Cost, TypeOK, ReservationRow

\* At first nothing was called.
LEMMA InitCosts == Init => CostInv
<1> SUFFICES ASSUME Init PROVE CostInv
  OBVIOUS
<1>1. IInv
  BY InitEstablishes
<1>2. \A f \in Fingerprint : Liabilities[f] = 0
  BY DEF Init, Liabilities, Liability, Unreserved
<1>3. ASSUME NEW calls \in SUBSET Fingerprint PROVE Total(Liabilities, calls) = 0
  <2>1. Units(Liabilities, calls) = {}
    <3> SUFFICES ASSUME NEW u \in Units(Liabilities, calls) PROVE FALSE
      OBVIOUS
    <3>1. PICK g \in calls, n \in 1..Estimate : u = <<g, n>> /\ n <= Liabilities[g]
      BY DEF Units
    <3> QED BY <1>2, <3>1, LedgerAssumption
  <2> QED BY <2>1, FS_EmptySet DEF Total
<1>4. Fresh
  BY DEF Init, Fresh, Unreserved
<1>5. RunsCost
  <2>1. \A r \in Run : CallsOf(r) \in SUBSET Fingerprint /\ ledger[r].reserved = 0
    BY DEF Init, CallsOf, NoLedger
  <2> QED BY <1>3, <2>1 DEF RunsCost
<1>6. DaysCost
  <2>1. \A d \in Day : MadeOn(d) \in SUBSET Fingerprint /\ bucket[d].reserved = 0
    BY DEF Init, MadeOn, NoBucket
  <2>2. \A d \in Day : Total(Liabilities, MadeOn(d)) = 0
    BY <1>3, <2>1
  <2> QED BY <2>1, <2>2 DEF DaysCost
<1> QED BY <1>1, <1>4, <1>5, <1>6 DEF CostInv

\* Steps that change neither a call nor what a row has reserved.
LEMMA CostsDependOn ==
  ASSUME CostInv,
         \A f \in Fingerprint :
           /\ reservation'[f].status = reservation[f].status
           /\ reservation'[f].run = reservation[f].run
           /\ reservation'[f].made = reservation[f].made
           /\ reservation'[f].actual = reservation[f].actual
           /\ reservation'[f].settled = reservation[f].settled,
         \A r \in Run : ledger'[r].reserved = ledger[r].reserved,
         \A d \in Day : bucket'[d].reserved = bucket[d].reserved
  PROVE  Fresh' /\ RunsCost' /\ DaysCost'
<1>1. Liabilities' = Liabilities
  BY DEF Liabilities, Liability
<1>2. Fresh'
  BY DEF CostInv, Fresh
<1>3. \A r \in Run : CallsOf(r)' = CallsOf(r)
  BY DEF CallsOf
<1>4. RunsCost'
  BY <1>1, <1>3 DEF CostInv, RunsCost, Total, Units
<1>5. \A d \in Day : MadeOn(d)' = MadeOn(d) /\ (OwnSettlementsOnly(d)' <=> OwnSettlementsOnly(d))
  BY DEF MadeOn, OwnSettlementsOnly
<1>6. DaysCost'
  BY <1>1, <1>5 DEF CostInv, DaysCost, Total, Units
<1> QED BY <1>2, <1>4, <1>6

\* A call that is reserved may cost the estimate, which both rows now reserve.
LEMMA GrantCosts ==
  ASSUME CostInv, NEW r \in Run, NEW f \in Fingerprint, ReserveGranted(r, f), IInv'
  PROVE  Fresh' /\ RunsCost' /\ DaysCost'
<1>1. /\ reservation[f].status = "none" /\ reservation' = [reservation EXCEPT ![f] = Reserved(r)]
      /\ ledger' = [ledger EXCEPT ![r] = Grant(@)]
      /\ day' = day /\ day \in Day
      /\ \E c \in Configs : bucket' = [bucket EXCEPT ![day] = Grant(UpsertBucket(c.daily))]
  BY DEF ReserveGranted, New, CostInv, IInv, TypeOK
<1>2. TypeOK /\ TypeOK' /\ Liabilities \in Cost /\ Liabilities' \in Cost
  <2>1. TypeOK /\ TypeOK'
    BY DEF CostInv, IInv
  <2>2. Liabilities' \in Cost
    BY <2>1, LedgerAssumption DEF Liabilities, Liability, Cost, TypeOK, ReservationRow
  <2> QED BY <2>1, <2>2, LiabilitiesAreCosts
<1>3. /\ reservation'[f] = Reserved(r)
      /\ \A g \in Fingerprint \ {f} : reservation'[g] = reservation[g]
  BY <1>1, <1>2 DEF TypeOK
<1>4. /\ Liabilities[f] = 0 /\ Liabilities'[f] = Estimate
      /\ \A g \in Fingerprint \ {f} : Liabilities'[g] = Liabilities[g]
  BY <1>1, <1>3 DEF CostInv, Fresh, Liabilities, Liability, Reserved
<1>5. /\ ledger'[r].reserved = ledger[r].reserved + Estimate
      /\ \A q \in Run \ {r} : ledger'[q].reserved = ledger[q].reserved
  BY <1>1, <1>2 DEF TypeOK, Grant, LedgerRow
<1>6. /\ bucket'[day].reserved = bucket[day].reserved + Estimate
      /\ \A d \in Day \ {day} : bucket'[d].reserved = bucket[d].reserved
  <2>1. PICK c \in Configs : bucket' = [bucket EXCEPT ![day] = Grant(UpsertBucket(c.daily))]
    BY <1>1
  <2>2. bucket[day] \in BucketRow
    BY <1>2 DEF TypeOK
  <2>3. bucket'[day] = Grant(UpsertBucket(c.daily))
    BY <1>1, <1>2, <2>1 DEF TypeOK
  <2>4. bucket'[day].reserved = bucket[day].reserved + Estimate
    BY <2>2, <2>3 DEF Grant, UpsertBucket, BucketRow
  <2> QED BY <1>2, <2>1, <2>4 DEF TypeOK
\* Whether the call is counted or not, it costs nothing before and the estimate after.
<1>7. ASSUME NEW calls \in SUBSET Fingerprint
      PROVE  /\ Total(Liabilities, calls) = Total(Liabilities, calls \ {f})
             /\ Total(Liabilities, calls) = Total(Liabilities', calls \ {f})
             /\ Total(Liabilities', calls \cup {f}) = Total(Liabilities, calls) + Estimate
             /\ Total(Liabilities, calls) \in Nat
  <2>1. Total(Liabilities, calls) = Total(Liabilities, calls \ {f})
    <3>1. CASE f \in calls
      <4>1. Total(Liabilities, calls) = Liabilities[f] + Total(Liabilities, calls \ {f})
        BY <1>2, <3>1, TotalOfOneMore
      <4>2. Total(Liabilities, calls \ {f}) \in Nat
        BY <1>2, UnitsAreFinite
      <4> QED BY <1>4, <4>1, <4>2
    <3>2. CASE f \notin calls
      <4>1. calls \ {f} = calls
        BY <3>2
      <4> QED BY <4>1
    <3> QED BY <3>1, <3>2
  <2>2. Total(Liabilities, calls \ {f}) = Total(Liabilities', calls \ {f})
    BY <1>4, TotalDependsOn
  <2>3. Total(Liabilities', calls \cup {f})
          = Liabilities'[f] + Total(Liabilities', (calls \cup {f}) \ {f})
    <3> DEFINE all == calls \cup {f}
    <3>1. all \in SUBSET Fingerprint /\ f \in all
      OBVIOUS
    <3> HIDE DEF all
    <3>2. Total(Liabilities', all) = Liabilities'[f] + Total(Liabilities', all \ {f})
      BY <1>2, <3>1, TotalOfOneMore
    <3> QED BY <3>2 DEF all
  <2>4. (calls \cup {f}) \ {f} = calls \ {f}
    OBVIOUS
  <2>5. Total(Liabilities, calls) \in Nat /\ Estimate \in Nat
    BY <1>2, UnitsAreFinite, LedgerAssumption
  <2>6. Total(Liabilities', calls \cup {f}) = Estimate + Total(Liabilities, calls)
    BY <1>4, <2>1, <2>2, <2>3, <2>4
  <2> QED BY <2>1, <2>2, <2>5, <2>6
<1>8. Fresh'
  BY <1>3 DEF CostInv, Fresh, Reserved
<1>9. RunsCost'
  <2> SUFFICES ASSUME NEW q \in Run
               PROVE  Total(Liabilities', CallsOf(q)') = ledger'[q].reserved
    BY DEF RunsCost, Total, Units
  <2>1. CallsOf(q) \in SUBSET Fingerprint /\ Total(Liabilities, CallsOf(q)) = ledger[q].reserved
    BY DEF CallsOf, CostInv, RunsCost
  <2>2. CASE q = r
    <3>1. CallsOf(q)' = CallsOf(q) \cup {f}
      BY <1>3, <2>2 DEF CallsOf, Reserved
    <3> QED BY <1>5, <1>7, <2>1, <2>2, <3>1
  <2>3. CASE q # r
    <3>1. CallsOf(q)' = CallsOf(q) \ {f}
      BY <1>3, <2>3 DEF CallsOf, Reserved
    <3> QED BY <1>5, <1>7, <2>1, <2>3, <3>1
  <2> QED BY <2>2, <2>3
<1>10. DaysCost'
  <2> SUFFICES ASSUME NEW d \in Day, OwnSettlementsOnly(d)'
               PROVE  Total(Liabilities', MadeOn(d)') <= bucket'[d].reserved
    BY DEF DaysCost, Total, Units
  <2>1. OwnSettlementsOnly(d)
    BY <1>1, <1>3 DEF OwnSettlementsOnly, CostInv, IInv, Booked, Day, NoDay
  <2>2. /\ MadeOn(d) \in SUBSET Fingerprint /\ f \notin MadeOn(d)
        /\ Total(Liabilities, MadeOn(d)) <= bucket[d].reserved
    BY <1>1, <2>1 DEF MadeOn, CostInv, DaysCost
  <2>3. bucket[d].reserved \in Nat /\ Estimate \in Nat
    BY <1>2, LedgerAssumption DEF TypeOK, BucketRow
  <2>4. CASE d = day
    <3>1. MadeOn(d)' = MadeOn(d) \cup {f}
      BY <1>3, <2>4 DEF MadeOn, Reserved
    <3> QED BY <1>6, <1>7, <2>2, <2>3, <2>4, <3>1
  <2>5. CASE d # day
    <3>1. MadeOn(d)' = MadeOn(d) \ {f}
      BY <1>3, <2>2, <2>5 DEF MadeOn, Reserved
    <3> QED BY <1>6, <1>7, <2>2, <2>5, <3>1
  <2> QED BY <2>4, <2>5
<1> QED BY <1>8, <1>9, <1>10

\* A call that is settled costs what is charged: the row of the run gives the rest back, and
\* the row of the day too if it is still the day of the call.
LEMMA PostCosts ==
  ASSUME CostInv, NEW f \in Fingerprint, Open(f), NEW charged \in 0..Estimate,
         NEW outcome \in {"settled", "charged_worst_case"}, Post(f, charged, outcome), IInv'
  PROVE  Fresh' /\ RunsCost' /\ DaysCost'
<1> DEFINE r == reservation[f].run
           paid == [reservation[f] EXCEPT !.status = outcome, !.actual = charged, !.settled = day]
<1>1. /\ reservation[f].status = "reserved" /\ reservation[f] \in ReservationRow
      /\ r \in Run /\ ledger[r] \in LedgerRow
      /\ reservation[f].settled = NoDay /\ reservation[f].made \in Day
      /\ bucket[reservation[f].made].exists
      /\ day \in Day /\ bucket[day] \in BucketRow
      /\ Estimate \in Nat /\ charged \in Nat /\ charged <= Estimate
  BY LedgerAssumption DEF CostInv, IInv, TypeOK, Booked, Open
<1>2. TypeOK /\ TypeOK' /\ Liabilities \in Cost /\ Liabilities' \in Cost
  <2>1. TypeOK /\ TypeOK'
    BY DEF CostInv, IInv
  <2>2. Liabilities' \in Cost
    BY <2>1, LedgerAssumption DEF Liabilities, Liability, Cost, TypeOK, ReservationRow
  <2> QED BY <2>1, <2>2, LiabilitiesAreCosts
<1>3. /\ ledger' = [ledger EXCEPT ![r] = SettleLedger(ledger[r], charged)]
      /\ reservation' = [reservation EXCEPT ![f] = paid]
      /\ bucket' = [bucket EXCEPT ![day] =
           IF bucket[day].exists THEN SettleBucket(bucket[day], charged) ELSE bucket[day]]
  BY DEF Post
<1>4. /\ reservation'[f].status = outcome /\ reservation'[f].settled = day
      /\ reservation'[f].actual = charged
      /\ reservation'[f].run = r /\ reservation'[f].made = reservation[f].made
      /\ \A g \in Fingerprint \ {f} : reservation'[g] = reservation[g]
  BY <1>1, <1>2, <1>3 DEF TypeOK, ReservationRow
<1> HIDE DEF paid
<1>5. /\ Liabilities[f] = Estimate /\ Liabilities'[f] = charged
      /\ \A g \in Fingerprint \ {f} : Liabilities'[g] = Liabilities[g]
  BY <1>1, <1>4 DEF Liabilities, Liability
<1>6. /\ ledger'[r].reserved = ledger[r].reserved - (Estimate - charged)
      /\ \A q \in Run \ {r} : ledger'[q].reserved = ledger[q].reserved
  BY <1>1, <1>2, <1>3 DEF TypeOK, SettleLedger, Released, LedgerRow
<1>7. /\ bucket[day].exists => bucket'[day].reserved = bucket[day].reserved - (Estimate - charged)
      /\ \A d \in Day \ {day} : bucket'[d].reserved = bucket[d].reserved
  BY <1>1, <1>2, <1>3 DEF TypeOK, SettleBucket, Released, BucketRow
<1>8. ASSUME NEW calls \in SUBSET Fingerprint, f \in calls
      PROVE  /\ Total(Liabilities', calls) = Total(Liabilities, calls) - (Estimate - charged)
             /\ Total(Liabilities, calls) \in Nat
  <2>1. Total(Liabilities', calls) = Total(Liabilities, calls) - Liabilities[f] + Liabilities'[f]
    BY <1>2, <1>5, <1>8, TotalOfOneChanged
  <2>2. Total(Liabilities, calls) \in Nat
    BY <1>2, UnitsAreFinite
  <2> QED BY <1>1, <1>5, <2>1, <2>2
<1>9. ASSUME NEW calls \in SUBSET Fingerprint, f \notin calls
      PROVE  Total(Liabilities', calls) = Total(Liabilities, calls)
  BY <1>5, <1>9, TotalDependsOn
<1>10. Fresh'
  BY <1>4 DEF CostInv, Fresh
<1>11. RunsCost'
  <2> SUFFICES ASSUME NEW q \in Run
               PROVE  Total(Liabilities', CallsOf(q)') = ledger'[q].reserved
    BY DEF RunsCost, Total, Units
  <2>1. CallsOf(q) \in SUBSET Fingerprint /\ Total(Liabilities, CallsOf(q)) = ledger[q].reserved
    BY DEF CallsOf, CostInv, RunsCost
  <2>2. CallsOf(q)' = CallsOf(q)
    BY <1>4 DEF CallsOf
  <2>3. CASE q = r
    <3>1. f \in CallsOf(q)
      BY <2>3 DEF CallsOf
    <3> QED BY <1>6, <1>8, <2>1, <2>2, <2>3, <3>1
  <2>4. CASE q # r
    <3>1. f \notin CallsOf(q)
      BY <2>4 DEF CallsOf
    <3> QED BY <1>6, <1>9, <2>1, <2>2, <2>4, <3>1
  <2> QED BY <2>3, <2>4
<1>12. DaysCost'
  <2> SUFFICES ASSUME NEW d \in Day, OwnSettlementsOnly(d)'
               PROVE  Total(Liabilities', MadeOn(d)') <= bucket'[d].reserved
    BY DEF DaysCost, Total, Units
  <2>1. OwnSettlementsOnly(d)
    BY <1>1, <1>4 DEF OwnSettlementsOnly, Day, NoDay
  <2>2. /\ MadeOn(d) \in SUBSET Fingerprint
        /\ Total(Liabilities, MadeOn(d)) <= bucket[d].reserved
    BY <2>1 DEF MadeOn, CostInv, DaysCost
  <2>3. MadeOn(d)' = MadeOn(d)
    BY <1>1, <1>4 DEF MadeOn
  <2>4. bucket[d].reserved \in Nat
    BY <1>2 DEF TypeOK, BucketRow
  <2>5. CASE d = day
    <3>1. reservation[f].made = day
      BY <1>4, <2>5 DEF OwnSettlementsOnly
    <3>2. f \in MadeOn(d) /\ bucket[day].exists
      BY <1>1, <2>5, <3>1 DEF MadeOn
    <3> QED BY <1>1, <1>7, <1>8, <2>2, <2>3, <2>4, <2>5, <3>2
  <2>6. CASE d # day
    <3>1. CASE f \in MadeOn(d)
      BY <1>1, <1>7, <1>8, <2>2, <2>3, <2>4, <2>6, <3>1
    <3>2. CASE f \notin MadeOn(d)
      BY <1>7, <1>9, <2>2, <2>3, <2>6, <3>2
    <3> QED BY <3>1, <3>2
  <2> QED BY <2>5, <2>6
<1> QED BY <1>10, <1>11, <1>12

\* Every step keeps the costs within what the rows reserve.
LEMMA StepCosts == CostInv /\ [Next]_vars => CostInv'
<1> SUFFICES ASSUME CostInv, [Next]_vars PROVE CostInv'
  OBVIOUS
<1>1. IInv /\ IInv'
  BY StepPreserves DEF CostInv
<1>2. SUFFICES Fresh' /\ RunsCost' /\ DaysCost'
  BY <1>1 DEF CostInv
<1>3. ASSUME NEW r \in Run, EnsureRun(r) PROVE Fresh' /\ RunsCost' /\ DaysCost'
  <2>1. UNCHANGED <<bucket, reservation>> /\ ~ledger[r].exists
    BY <1>3 DEF EnsureRun, RunMissing
  <2>2. \A q \in Run : ledger'[q].reserved = ledger[q].reserved
    <3>1. PICK c \in Configs :
            ledger' = [ledger EXCEPT ![r] = [NoLedger EXCEPT !.exists = TRUE, !.cap = c.run]]
      BY <1>3 DEF EnsureRun
    <3>2. ledger[r].reserved = 0
      BY <1>1, <2>1 DEF IInv, EmptyRows, NoLedger
    <3> QED BY <1>1, <3>1, <3>2 DEF IInv, TypeOK, NoLedger
  <2> QED BY <2>1, <2>2, CostsDependOn
<1>4. ASSUME NEW r \in Run, NEW f \in Fingerprint, ReserveGranted(r, f)
      PROVE  Fresh' /\ RunsCost' /\ DaysCost'
  BY <1>1, <1>4, GrantCosts
<1>5. ASSUME NEW r \in Run, NEW f \in Fingerprint, ReserveDenied(r, f)
      PROVE  Fresh' /\ RunsCost' /\ DaysCost'
  <2>1. UNCHANGED <<ledger, reservation>>
    BY <1>5 DEF ReserveDenied
  <2>2. PICK c \in Configs : bucket' = [bucket EXCEPT ![day] = UpsertBucket(c.daily)]
    BY <1>5 DEF ReserveDenied
  <2>3. \A d \in Day : bucket'[d].reserved = bucket[d].reserved
    BY <1>1, <2>2 DEF IInv, TypeOK, UpsertBucket, BucketRow
  <2> QED BY <2>1, <2>3, CostsDependOn
<1>6. ASSUME NEW f \in Fingerprint, MarkStarted(f) PROVE Fresh' /\ RunsCost' /\ DaysCost'
  <2>1. UNCHANGED <<bucket, ledger>> /\ reservation' = [reservation EXCEPT ![f].started = TRUE]
    BY <1>6 DEF MarkStarted
  <2>2. \A g \in Fingerprint :
          /\ reservation'[g].status = reservation[g].status
          /\ reservation'[g].run = reservation[g].run
          /\ reservation'[g].made = reservation[g].made
          /\ reservation'[g].actual = reservation[g].actual
          /\ reservation'[g].settled = reservation[g].settled
    <3> SUFFICES ASSUME NEW g \in Fingerprint
                 PROVE  /\ reservation'[g].status = reservation[g].status
                        /\ reservation'[g].run = reservation[g].run
                        /\ reservation'[g].made = reservation[g].made
                        /\ reservation'[g].actual = reservation[g].actual
                        /\ reservation'[g].settled = reservation[g].settled
      OBVIOUS
    <3>1. reservation[g] \in ReservationRow /\ DOMAIN reservation = Fingerprint
      BY <1>1 DEF IInv, TypeOK
    <3>2. CASE g # f
      BY <2>1, <3>1, <3>2
    <3>3. CASE g = f
      <4>1. reservation'[g] = [reservation[g] EXCEPT !.started = TRUE]
        BY <2>1, <3>1, <3>3
      <4> QED BY <3>1, <4>1 DEF ReservationRow
    <3> QED BY <3>2, <3>3
  <2> QED BY <2>1, <2>2, CostsDependOn
<1>7. ASSUME NEW f \in Fingerprint, Settle(f) PROVE Fresh' /\ RunsCost' /\ DaysCost'
  <2>1. PICK cost \in Costs : cost <= Estimate /\ Post(f, cost, "settled")
    BY <1>7 DEF Settle
  <2>2. cost \in 0..Estimate
    BY <2>1, LedgerAssumption
  <2> QED BY <1>1, <1>7, <2>1, <2>2, PostCosts DEF Settle
<1>8. ASSUME NEW f \in Fingerprint, ChargeWorstCase(f) PROVE Fresh' /\ RunsCost' /\ DaysCost'
  <2>1. Estimate \in 0..Estimate
    BY LedgerAssumption
  <2> QED BY <1>1, <1>8, <2>1, PostCosts DEF ChargeWorstCase
<1>9. CASE NewDay \/ UNCHANGED vars
  BY <1>9, CostsDependOn DEF NewDay, vars
<1> QED BY <1>3, <1>4, <1>5, <1>6, <1>7, <1>8, <1>9 DEF Next

\* The balances of the rows and the costs of the calls hold together in every state.
LEMMA CostInvariance == Spec => []CostInv
BY InitCosts, StepCosts, PTL DEF Spec

\* What the rows have reserved is within the caps, and so are the sums over the calls.
LEMMA CostsAreWithinCaps == CostInv => CallsWithinCaps
<1> SUFFICES ASSUME CostInv PROVE CallsWithinRunCap /\ CallsWithinDailyCap
  BY DEF CallsWithinCaps
<1>1. TypeOK
  BY DEF CostInv, IInv
<1>2. ASSUME NEW r \in Run
      PROVE  MapThenSumSet(Liability, {f \in Fingerprint : reservation[f].run = r}) <= ledger[r].cap
  <2>1. CallsOf(r) \in SUBSET Fingerprint
    BY DEF CallsOf
  <2>2. MapThenSumSet(Liability, CallsOf(r)) = ledger[r].reserved
    BY <1>1, <2>1, SumIsTotal DEF CostInv, RunsCost
  <2>3. ledger[r].reserved <= ledger[r].cap
    BY DEF CostInv, IInv, RunBalanced
  <2> QED BY <2>2, <2>3 DEF CallsOf
<1>3. ASSUME NEW d \in Day, OwnSettlementsOnly(d)
      PROVE  MapThenSumSet(Liability, MadeOn(d)) <= bucket[d].cap
  <2>1. MadeOn(d) \in SUBSET Fingerprint
    BY DEF MadeOn
  <2>2. MapThenSumSet(Liability, MadeOn(d)) = Total(Liabilities, MadeOn(d))
    BY <1>1, <2>1, SumIsTotal
  <2>3. /\ Total(Liabilities, MadeOn(d)) <= bucket[d].reserved
        /\ bucket[d].reserved <= bucket[d].cap
    BY <1>3 DEF CostInv, DaysCost, IInv, DayBalanced
  <2>4. Total(Liabilities, MadeOn(d)) \in Nat
    BY <1>1, <2>1, UnitsAreFinite, LiabilitiesAreCosts
  <2>5. bucket[d].reserved \in Nat /\ bucket[d].cap \in Nat
    BY <1>1 DEF TypeOK, BucketRow
  <2> QED BY <2>2, <2>3, <2>4, <2>5
<1> QED BY <1>2, <1>3 DEF CallsWithinRunCap, CallsWithinDailyCap

\* The calls of a run never cost more than its cap, nor those of a day more than the cap of
\* the day, unless another day's settlement was posted to it: for any estimate, any reported
\* costs and any caps of the processes.
THEOREM CallsAreWithinCaps == Spec => []CallsWithinCaps
BY CostInvariance, CostsAreWithinCaps, PTL
=============================================================================
