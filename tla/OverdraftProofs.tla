-------------------------- MODULE OverdraftProofs --------------------------
(***************************************************************************)
(* The promises of Overdraft for every field, delegation and witness.      *)
(*                                                                         *)
(* The argument: a range check says nothing of an integer until the        *)
(* integer is known to lie within a field's width of zero (RangeOfSmall).  *)
(* Each of a witness's values is brought there in turn: the run by its own *)
(* check, the unit count by the run's end, the amount by the reserve's     *)
(* count of slots.  Then the circuit's equations hold over the integers    *)
(* (WitnessIntegers), a payment costs at most the units it consumes, and   *)
(* units that are never consumed twice are counted by a cardinality.       *)
(***************************************************************************)
EXTENDS Overdraft, FiniteSetTheorems, TLAPS

-----------------------------------------------------------------------------
(* Arithmetic.                                                             *)

\* Multiplying by a natural number preserves the order.
LEMMA MulMonotone ==
    ASSUME NEW k \in Nat, NEW a \in Int, NEW b \in Int, a <= b
    PROVE  k * a <= k * b
<1>1. PICK d \in Nat : b = a + d
  <2>1. b - a \in Nat /\ b = a + (b - a)
    OBVIOUS
  <2> QED
    BY <2>1
<1>2. k * b = k * a + k * d
  BY <1>1
<1>3. k * d \in Nat /\ k * a \in Int
  OBVIOUS
<1> QED
  BY <1>2, <1>3

\* A quotient by U and what it leaves.
LEMMA Quotient ==
    ASSUME NEW x \in Nat, NEW u \in Nat \ {0}
    PROVE  /\ x \div u \in Nat
           /\ u * (x \div u) <= x
           /\ x < u * (x \div u) + u
BY SMT

\* An amount the reserve counts at most n units for costs at most n units.
LEMMA CeilBound ==
    ASSUME NEW a \in Nat, NEW u \in Nat \ {0}, NEW n \in Nat,
           (a + u - 1) \div u <= n
    PROVE  a <= n * u
<1> DEFINE q == (a + u - 1) \div u
<1>1. a + u - 1 \in Nat
  OBVIOUS
<1>2. q \in Nat /\ a + u - 1 < u * q + u
  BY <1>1, Quotient
<1>3. u * q <= u * n
  BY <1>2, MulMonotone
<1>4. u * q \in Nat /\ u * n \in Nat /\ u * n = n * u
  BY <1>2
<1> QED
  BY <1>2, <1>3, <1>4

\* What a field element is to an integer near zero.
LEMMA FeSmall ==
    ASSUME NEW x \in 0..(ORDER - 1)
    PROVE  Residue(x) = x
BY WidthAssumption, SMT DEF Residue

LEMMA FeNegative ==
    ASSUME NEW x \in Int, x < 0, 0 <= x + ORDER
    PROVE  Residue(x) = x + ORDER
BY WidthAssumption, SMT DEF Residue

\* A range check bounds an integer that lies within a field's width of zero.
LEMMA RangeOfSmall ==
    ASSUME NEW x \in Int, RANGE - ORDER <= x, x < ORDER, InRange(x)
    PROVE  0 <= x /\ x < RANGE
<1>1. CASE 0 <= x
  <2>1. Residue(x) = x
    BY <1>1, FeSmall, WidthAssumption
  <2> QED
    BY <1>1, <2>1 DEF InRange
<1>2. CASE x < 0
  <2>1. Residue(x) = x + ORDER
    BY <1>2, FeNegative, WidthAssumption
  <2> QED
    BY <1>2, <2>1, WidthAssumption DEF InRange
<1> QED
  BY <1>1, <1>2

-----------------------------------------------------------------------------
(* The witness.                                                            *)

\* The values of a backed witness satisfy the circuit's equations over the
\* integers (composed.rs 277-323; spend.rs 192-250).
LEMMA WitnessIntegers ==
    ASSUME NEW w \in Backed
    PROVE  /\ w.run \in Nat /\ w.units \in 0..SLOT_COVER /\ w.m \in 0..L /\ w.amount \in Nat
           /\ w.run + w.units <= w.m
           /\ U * w.m = B
           /\ w.amount <= w.units * U
           /\ w.amount <= C /\ C <= B
<1>1. w \in Witness /\ admitted(w) /\ budget_binding(w) /\ run_inside(w) /\ rounding(w) /\ caps(w)
  BY DEF Backed
<1> DEFINE m == w.m  run == w.run  units == w.units  a == w.amount
<1>2. m \in Elements /\ run \in Elements /\ units \in 0..SLOT_COVER /\ a \in Elements
  BY <1>1 DEF Witness
<1> HIDE DEF m, run, units, a
<1>w. /\ ORDER \in Nat /\ RANGE \in Nat /\ SLOT_COVER \in Nat /\ U \in Nat \ {0} /\ L \in Nat
      /\ BASE \in Nat /\ L < RANGE /\ B \in Elements /\ C \in Elements
      /\ SLOT_COVER * U \in Nat
      /\ 3 * RANGE + SLOT_COVER * U + SLOT_COVER + BASE + L < ORDER
  BY WidthAssumption
<1>3. /\ InRange(run) /\ InRange(m - run - units) /\ InRange(L - m)
      /\ InRange(Residue(units * U) - a) /\ InRange(C - a) /\ InRange(B - C)
      /\ Residue(U * m) = B /\ (a + U - 1) \div U <= SLOT_COVER
  BY <1>1 DEF run_inside, rounding, caps, budget_binding, admitted, units_of, m, run, units, a
<1>4. run < RANGE
  BY <1>2, <1>3, <1>w, RangeOfSmall DEF Elements
<1>5. m <= L
  <2>1. CASE RANGE - ORDER <= L - m
    BY <2>1, <1>2, <1>3, <1>w, RangeOfSmall DEF Elements
  <2>2. CASE L - m < RANGE - ORDER
    <3>1. m - run - units \in 0..(ORDER - 1) /\ RANGE <= m - run - units
      BY <2>2, <1>2, <1>4, <1>w DEF Elements
    <3> QED
      BY <3>1, <1>3, FeSmall, <1>w DEF InRange
  <2>3. m \in Int /\ L - m \in Int
    BY <1>2, <1>w DEF Elements
  <2> QED
    BY <2>1, <2>2, <2>3, <1>w
<1>6. run + units <= m
  <2>1. m - run - units \in Int /\ RANGE - ORDER <= m - run - units /\ m - run - units < ORDER
    BY <1>2, <1>4, <1>5, <1>w DEF Elements
  <2> QED
    BY <2>1, <1>2, <1>3, RangeOfSmall DEF Elements
<1>7. U * m = B
  <2>1. U * m <= U * L
    BY <1>2, <1>5, <1>w, MulMonotone DEF Elements
  <2>2. U * m \in 0..(ORDER - 1)
    <3>1. U * m \in Nat /\ U * L \in Nat /\ U * L < ORDER
      BY <1>2, <1>w, WidthAssumption DEF Elements
    <3> QED
      BY <3>1, <2>1, <1>w
  <2> QED
    BY <2>2, <1>3, FeSmall
<1>8. a <= SLOT_COVER * U
  BY <1>2, <1>3, <1>w, CeilBound DEF Elements
<1>9. a <= units * U
  <2>1. U * units <= U * SLOT_COVER
    BY <1>2, <1>w, MulMonotone
  <2>2. /\ units * U = U * units /\ U * SLOT_COVER = SLOT_COVER * U
        /\ units * U \in Nat
    BY <1>2, <1>w
  <2>3. units * U \in 0..(ORDER - 1)
    BY <2>1, <2>2, <1>w
  <2>4. Residue(units * U) = units * U
    BY <2>3, FeSmall
  <2>5. InRange(units * U - a)
    BY <2>4, <1>3
  <2>6. units * U - a \in Int /\ RANGE - ORDER <= units * U - a /\ units * U - a < ORDER
    BY <2>3, <1>2, <1>8, <1>w DEF Elements
  <2>7. 0 <= units * U - a
    BY <2>5, <2>6, RangeOfSmall
  <2> QED
    BY <2>7, <2>2, <1>2 DEF Elements
<1>10. a <= C
  <2>1. C - a \in Int /\ RANGE - ORDER <= C - a /\ C - a < ORDER
    BY <1>2, <1>8, <1>w DEF Elements
  <2> QED
    BY <2>1, <1>2, <1>3, <1>w, RangeOfSmall DEF Elements
<1>11. C <= B
  <2>1. 0 <= C - a /\ C - a < RANGE
    BY <1>2, <1>3, <1>8, <1>10, <1>w, RangeOfSmall DEF Elements
  <2>2. B - C \in Int /\ RANGE - ORDER <= B - C /\ B - C < ORDER
    BY <2>1, <1>2, <1>8, <1>w DEF Elements
  <2> QED
    BY <2>2, <1>3, <1>w, RangeOfSmall DEF Elements
<1> QED
  BY <1>2, <1>5, <1>6, <1>7, <1>9, <1>10, <1>11, <1>w DEF Elements, m, run, units, a

\* A witness some leaf clears consumes the units from first_unit to last_unit,
\* at least one and none of them wrapped.
LEMMA RunIntegers ==
    ASSUME NEW w \in Backed, InRange(last_unit(w) - first_unit(w))
    PROVE  /\ first_unit(w) = BASE + w.run
           /\ last_unit(w) = BASE + w.run + w.units - 1
           /\ w.units >= 1
<1>1. /\ w.run \in Nat /\ w.units \in 0..SLOT_COVER /\ w.m \in 0..L
      /\ w.run + w.units <= w.m
  BY WitnessIntegers
<1>w. /\ ORDER \in Nat /\ RANGE \in Nat /\ SLOT_COVER \in Nat /\ L \in Nat /\ BASE \in Nat
      /\ L < RANGE /\ 3 * RANGE + BASE + L < ORDER
  <2>1. SLOT_COVER * U \in Nat
    BY WidthAssumption
  <2> QED
    BY <2>1, WidthAssumption
<1>2. first_unit(w) = BASE + w.run
  BY <1>1, <1>w, FeSmall DEF first_unit
<1>3. w.units >= 1
  <2> SUFFICES ASSUME w.units = 0 PROVE FALSE
    BY <1>1, <1>w
  <2> DEFINE x == BASE + w.run - 1
  <2>1. x \in Int /\ last_unit(w) = Residue(x)
    BY <1>1, <1>2, <1>w DEF last_unit
  <2>2. CASE x < 0
    <3>1. x = -1 /\ BASE + w.run = 0
      BY <2>2, <1>1, <1>w
    <3>2. Residue(x) = ORDER - 1
      BY <3>1, <1>w, FeNegative
    <3>3. last_unit(w) - first_unit(w) = ORDER - 1
      BY <2>1, <3>1, <3>2, <1>2, <1>w
    <3> QED
      BY <3>3, <1>w, FeSmall DEF InRange
  <2>3. CASE 0 <= x
    <3>1. Residue(x) = x
      BY <2>3, <1>1, <1>w, FeSmall
    <3>2. last_unit(w) - first_unit(w) = -1
      BY <2>1, <3>1, <1>1, <1>2, <1>w
    <3>3. Residue(-1) = ORDER - 1
      BY <1>w, FeNegative
    <3> QED
      BY <3>2, <3>3, <1>w DEF InRange
  <2> QED
    BY <2>1, <2>2, <2>3
<1>4. BASE + w.run + w.units - 1 \in 0..(ORDER - 1)
  BY <1>1, <1>3, <1>w
<1>5. last_unit(w) = BASE + w.run + w.units - 1
  <2>1. first_unit(w) + w.units - 1 = BASE + w.run + w.units - 1
    BY <1>2
  <2> QED
    BY <2>1, <1>4, FeSmall DEF last_unit
<1> QED
  BY <1>2, <1>3, <1>5

\* The units such a witness consumes are the delegation's, below the budget.
LEMMA RunInBudget ==
    ASSUME NEW w \in Backed, InRange(last_unit(w) - first_unit(w)),
           NEW n \in first_unit(w)..last_unit(w)
    PROVE  n \in Indices /\ U * (n - BASE + 1) <= B
<1>1. /\ w.run \in Nat /\ w.units \in 0..SLOT_COVER /\ w.m \in 0..L
      /\ w.run + w.units <= w.m /\ U * w.m = B
  BY WitnessIntegers
<1>2. first_unit(w) = BASE + w.run /\ last_unit(w) = BASE + w.run + w.units - 1
  BY RunIntegers
<1>w. BASE \in Nat /\ L \in Nat /\ U \in Nat
  BY WidthAssumption
<1>3. n \in Int /\ BASE <= n /\ n - BASE + 1 <= w.m /\ w.m <= L
  BY <1>1, <1>2, <1>w
<1>4. n \in Indices
  BY <1>1, <1>3, <1>w DEF Indices
<1>5. U * (n - BASE + 1) <= U * w.m
  BY <1>1, <1>3, <1>w, MulMonotone
<1> QED
  BY <1>1, <1>4, <1>5

\* A leaf that clears a run clears every revoked range from it.
LEMMA RunCleared ==
    ASSUME NEW w \in Backed, revoked \subseteq LeafValues \X LeafValues,
           NEW leaf \in Leaves, nonrevoked(w, leaf),
           NEW n \in first_unit(w)..last_unit(w), NEW r \in revoked
    PROVE  n < r[1] \/ r[2] < n
<1>1. /\ InRange(first_unit(w) - leaf[1][2] - 1)
      /\ InRange(leaf[2][1] - last_unit(w) - 1)
      /\ InRange(last_unit(w) - first_unit(w))
  BY DEF nonrevoked
<1>2. first_unit(w) = BASE + w.run /\ last_unit(w) = BASE + w.run + w.units - 1
  BY <1>1, RunIntegers
<1>3. w.run \in Nat /\ w.units \in 0..SLOT_COVER /\ w.m \in 0..L /\ w.run + w.units <= w.m
  BY WitnessIntegers
<1>w. /\ ORDER \in Nat /\ RANGE \in Nat /\ SLOT_COVER \in Nat /\ L \in Nat /\ BASE \in Nat
      /\ L < RANGE /\ 3 * RANGE + SLOT_COVER + BASE + L < ORDER
  <2>1. SLOT_COVER * U \in Nat
    BY WidthAssumption
  <2> QED
    BY <2>1, WidthAssumption
<1>4. /\ leaf[1] \in LeafValues \X LeafValues /\ leaf[2] \in LeafValues \X LeafValues
      /\ r \in LeafValues \X LeafValues
      /\ r[2] <= leaf[1][2] \/ r[1] >= leaf[2][1]
  BY DEF Leaves
<1>5. /\ leaf[1][2] \in 0..(ORDER - RANGE - 1) /\ leaf[2][1] \in 0..(ORDER - RANGE - 1)
      /\ r[1] \in Int /\ r[2] \in Int
  BY <1>4 DEF LeafValues
<1> DEFINE end == leaf[1][2]  next == leaf[2][1]
           lo == first_unit(w)  hi == last_unit(w)
<1>6. end \in 0..(ORDER - RANGE - 1) /\ next \in 0..(ORDER - RANGE - 1)
  BY <1>5
<1>7. lo \in Int /\ hi \in Int /\ 0 <= lo /\ lo < ORDER /\ hi < ORDER - RANGE /\ -1 <= hi
  BY <1>2, <1>3, <1>w
<1>8. InRange(lo - end - 1) /\ InRange(next - hi - 1)
  BY <1>1
<1> HIDE DEF end, next, lo, hi
<1>9. 0 <= lo - end - 1
  <2>1. lo - end - 1 \in Int /\ RANGE - ORDER <= lo - end - 1 /\ lo - end - 1 < ORDER
    BY <1>6, <1>7, <1>w
  <2> QED
    BY <2>1, <1>8, RangeOfSmall
<1>10. 0 <= next - hi - 1
  <2>1. next - hi - 1 \in Int /\ RANGE - ORDER <= next - hi - 1 /\ next - hi - 1 < ORDER
    BY <1>6, <1>7, <1>w
  <2> QED
    BY <2>1, <1>8, RangeOfSmall
<1>11. n \in Int /\ end < n /\ n < next
  BY <1>6, <1>7, <1>9, <1>10 DEF lo, hi
<1> QED
  BY <1>4, <1>5, <1>6, <1>11 DEF end, next

-----------------------------------------------------------------------------
(* The invariant.                                                          *)

TypeOK ==
    /\ used \subseteq Indices
    /\ recent \subseteq Indices
    /\ paid \in Nat
    /\ exposed \in BOOLEAN
    /\ revoked \subseteq LeafValues \X LeafValues

\* While no unit is consumed twice, every payment is counted by its own units.
PaidByUnits == ~exposed => paid <= U * Cardinality(used)

IInv == TypeOK /\ UnitsInBudget /\ RevokedUnspent /\ PaidByUnits

LEMMA IndicesFinite == IsFiniteSet(Indices)
BY FS_Interval, WidthAssumption DEF Indices

LEMMA IndicesAreLeafValues == Indices \subseteq LeafValues
<1>1. SLOT_COVER * U \in Nat
  BY WidthAssumption
<1> QED
  BY <1>1, WidthAssumption DEF Indices, LeafValues

LEMMA InitIInv == Init => IInv
<1> SUFFICES ASSUME Init PROVE IInv
  OBVIOUS
<1>1. TypeOK
  BY WidthAssumption DEF Init, TypeOK
<1>2. UnitsInBudget /\ RevokedUnspent
  BY DEF Init, UnitsInBudget, RevokedUnspent
<1>3. PaidByUnits
  <2>1. U * Cardinality({}) = 0
    BY FS_EmptySet, WidthAssumption
  <2> QED
    BY <2>1 DEF Init, PaidByUnits
<1> QED
  BY <1>1, <1>2, <1>3 DEF IInv

LEMMA SettleKeeps ==
    ASSUME IInv, NEW w \in Backed, Settle(w)
    PROVE  IInv'
<1>1. PICK leaf \in Leaves : nonrevoked(w, leaf)
  BY DEF Settle
<1>2. InRange(last_unit(w) - first_unit(w))
  BY <1>1 DEF nonrevoked
<1> DEFINE run == first_unit(w)..last_unit(w)
<1>3. /\ used' = used \cup run /\ recent' = recent \cup run
      /\ exposed' = (exposed \/ run \cap used # {})
      /\ paid' = paid + w.amount /\ revoked' = revoked
  BY DEF Settle
<1>4. \A n \in run : n \in Indices /\ U * (n - BASE + 1) <= B
  BY <1>2, RunInBudget
<1>5. /\ w.run \in Nat /\ w.units \in 0..SLOT_COVER /\ w.amount \in Nat
      /\ w.amount <= w.units * U
  BY WitnessIntegers
<1>6. first_unit(w) = BASE + w.run /\ last_unit(w) = BASE + w.run + w.units - 1 /\ w.units >= 1
  BY <1>2, RunIntegers
<1>7. \A n \in run : \A r \in revoked : n < r[1] \/ r[2] < n
  BY <1>1, RunCleared DEF IInv, TypeOK
<1>8. IsFiniteSet(run) /\ Cardinality(run) = w.units
  <2>1. first_unit(w) \in Int /\ last_unit(w) \in Int
    BY <1>5, <1>6, WidthAssumption
  <2>2. last_unit(w) - first_unit(w) + 1 = w.units /\ first_unit(w) <= last_unit(w)
    BY <1>5, <1>6, WidthAssumption
  <2> QED
    BY <2>1, <2>2, FS_Interval
<1> HIDE DEF run
<1>9. TypeOK'
  BY <1>3, <1>4, <1>5 DEF IInv, TypeOK
<1>10. UnitsInBudget'
  BY <1>3, <1>4 DEF IInv, UnitsInBudget
<1>11. RevokedUnspent'
  BY <1>3, <1>7 DEF IInv, RevokedUnspent
<1>12. PaidByUnits'
  <2> SUFFICES ASSUME ~exposed' PROVE paid' <= U * Cardinality(used')
    BY DEF PaidByUnits
  <2>1. ~exposed /\ run \cap used = {}
    BY <1>3 DEF IInv, TypeOK
  <2>2. IsFiniteSet(used) /\ Cardinality(used) \in Nat
    BY IndicesFinite, FS_Subset, FS_CardinalityType DEF IInv, TypeOK
  <2>3. Cardinality(used \cup run) = Cardinality(used) + w.units
    <3>1. used \cap run = {}
      BY <2>1
    <3>2. Cardinality(used \cup run)
            = Cardinality(used) + Cardinality(run) - Cardinality(used \cap run)
      BY <2>2, <1>8, FS_Union
    <3>3. Cardinality(used \cap run) = 0
      BY <3>1, FS_EmptySet
    <3> QED
      BY <3>2, <3>3, <1>8, <2>2, <1>5
  <2>4. U * (Cardinality(used) + w.units) = U * Cardinality(used) + w.units * U
    BY <2>2, <1>5, WidthAssumption
  <2>5. paid <= U * Cardinality(used) /\ paid \in Nat
    BY <2>1 DEF IInv, PaidByUnits, TypeOK
  <2>6. U * Cardinality(used) \in Nat /\ w.units * U \in Nat
    BY <2>2, <1>5, WidthAssumption
  <2>7. paid + w.amount <= U * Cardinality(used) + w.units * U
    BY <2>5, <2>6, <1>5
  <2> QED
    BY <2>3, <2>4, <2>7, <1>3
<1> QED
  BY <1>9, <1>10, <1>11, <1>12 DEF IInv

LEMMA RevokeKeeps ==
    ASSUME IInv, NEW a \in Indices, NEW z \in Indices, Revoke(a, z)
    PROVE  IInv'
<1>1. /\ used' = used /\ recent' = {} /\ paid' = paid /\ exposed' = exposed
      /\ revoked' = revoked \cup {<<a, z>>}
  BY DEF Revoke
<1>2. TypeOK'
  BY <1>1, IndicesAreLeafValues DEF IInv, TypeOK
<1>3. UnitsInBudget' /\ RevokedUnspent' /\ PaidByUnits'
  BY <1>1 DEF IInv, UnitsInBudget, RevokedUnspent, PaidByUnits
<1> QED
  BY <1>2, <1>3 DEF IInv

LEMMA NextKeeps == IInv /\ [Next]_vars => IInv'
<1> SUFFICES ASSUME IInv, [Next]_vars PROVE IInv'
  OBVIOUS
<1>1. ASSUME NEW w \in Backed, Settle(w) PROVE IInv'
  BY <1>1, SettleKeeps
<1>2. ASSUME NEW a \in Indices, NEW z \in Indices, Revoke(a, z) PROVE IInv'
  BY <1>2, RevokeKeeps
<1>3. CASE UNCHANGED vars
  BY <1>3 DEF vars, IInv, TypeOK, UnitsInBudget, RevokedUnspent, PaidByUnits
<1> QED
  BY <1>1, <1>2, <1>3 DEF Next

\* Units the budget holds are at most the budget over the unit size.
LEMMA BudgetFromUnits == IInv => BudgetOrSecret
<1> SUFFICES ASSUME IInv, ~exposed PROVE paid <= B
  BY DEF BudgetOrSecret
<1>w. BASE \in Nat /\ U \in Nat \ {0} /\ B \in Nat
  BY WidthAssumption DEF Elements
<1> DEFINE k == B \div U
<1>1. k \in Nat /\ U * k <= B /\ B < U * k + U
  BY <1>w, Quotient
<1> HIDE DEF k
<1>2. \A n \in used : n \in BASE..(BASE + k - 1)
  <2> SUFFICES ASSUME NEW n \in used PROVE n \in BASE..(BASE + k - 1)
    OBVIOUS
  <2>1. n \in Int /\ BASE <= n /\ U * (n - BASE + 1) <= B
    BY <1>w, WidthAssumption DEF IInv, UnitsInBudget, Indices
  <2>2. ~(k + 1 <= n - BASE + 1)
    <3> SUFFICES ASSUME k + 1 <= n - BASE + 1 PROVE FALSE
      OBVIOUS
    <3>1. U * (k + 1) <= U * (n - BASE + 1)
      BY <1>1, <1>w, <2>1, MulMonotone
    <3>2. U * (k + 1) = U * k + U /\ U * k \in Nat /\ U * (n - BASE + 1) \in Int
      BY <1>1, <1>w, <2>1
    <3> QED
      BY <3>1, <3>2, <2>1, <1>1, <1>w
  <2> QED
    BY <2>1, <2>2, <1>1, <1>w
<1>3. Cardinality(used) \in Nat /\ Cardinality(used) <= k
  <2>1. IsFiniteSet(BASE..(BASE + k - 1)) /\ Cardinality(BASE..(BASE + k - 1)) = k
    BY <1>1, <1>w, FS_Interval
  <2>2. used \subseteq BASE..(BASE + k - 1)
    BY <1>2
  <2> QED
    BY <2>1, <2>2, FS_Subset, FS_CardinalityType
<1>4. U * Cardinality(used) <= U * k
  BY <1>1, <1>3, <1>w, MulMonotone
<1>5. paid \in Nat /\ paid <= U * Cardinality(used)
  BY DEF IInv, TypeOK, PaidByUnits
<1>6. U * Cardinality(used) \in Nat /\ U * k \in Nat
  BY <1>1, <1>3, <1>w
<1> QED
  BY <1>1, <1>4, <1>5, <1>6, <1>w

LEMMA IInvHolds == Spec => []IInv
BY InitIInv, NextKeeps, PTL DEF Spec

\* The agent over-spends only by giving up its secret, whatever the field, the
\* terms and the witnesses.
THEOREM OverspendCostsTheSecret == Spec => []BudgetOrSecret
BY IInvHolds, BudgetFromUnits, PTL

\* Every unit consumed is the delegation's own and within its budget.
THEOREM ConsumedUnitsInBudget == Spec => []UnitsInBudget
<1>1. IInv => UnitsInBudget
  BY DEF IInv
<1> QED
  BY <1>1, IInvHolds, PTL

\* No unit is consumed once it is revoked.
THEOREM RevokedUnitsUnspent == Spec => []RevokedUnspent
<1>1. IInv => RevokedUnspent
  BY DEF IInv
<1> QED
  BY <1>1, IInvHolds, PTL

=============================================================================
