----------------------------- MODULE Overdraft -----------------------------
(***************************************************************************)
(* What the composed circuit and the reserve promise together, for every   *)
(* witness rather than for the traces the harness builds.  A payment is    *)
(* settled when the reserve admits it, and backed when some witness        *)
(* satisfies the circuit's arithmetic for its statement.  The arithmetic   *)
(* is the field's: a value that should be negative is a large element, and *)
(* a range check accepts the elements below RANGE.  Nothing on chain looks *)
(* for a unit consumed twice; what two such payments publish gives up the  *)
(* secret, wherever they settled.                                          *)
(***************************************************************************)
EXTENDS Integers, FiniteSets

CONSTANTS ORDER,        \* the field's size
          RANGE,        \* two to the width of a range check
          SLOT_COVER,   \* slots of a payment
          U, B, C,      \* the unit size, the committed budget and cap
          BASE, L,      \* the declared range of unit indices
          SENTINELS,    \* the ranges of the revocation tree before any revocation
          MAX_RANGES, MAX_PAID   \* bounds of the model: revoked ranges, total paid

Elements == 0..(ORDER - 1)
Indices == BASE..(BASE + L - 1)

\* What a leaf of the revocation tree may hold.
LeafValues == 0..(ORDER - RANGE - 1)

\* The field is wide enough for the integers of one payment, the budget the
\* range can hold does not wrap, and the tree holds indices.
ASSUME WidthAssumption ==
    /\ ORDER \in Nat /\ RANGE \in Nat /\ SLOT_COVER \in Nat \ {0} /\ U \in Nat \ {0}
    /\ BASE \in Nat /\ L \in Nat \ {0}
    /\ B \in Elements /\ C \in Elements
    /\ L < RANGE
    /\ 3 * RANGE + SLOT_COVER * U + SLOT_COVER + BASE + L < ORDER
    /\ U * L < ORDER
    /\ SENTINELS \subseteq LeafValues \X LeafValues

VARIABLES used,      \* the units backed settlements consumed, on every domain
          recent,    \* those consumed since the last revocation
          paid,      \* the total of the backed settlements
          exposed,   \* the settlements read together give the secret
          revoked    \* the ranges the revocation tree holds, as first and last unit
vars == <<used, recent, paid, exposed, revoked>>

-----------------------------------------------------------------------------
(* The circuit.                                                            *)

Residue(x) == x % ORDER
\* The bits of a gap recompose to it.
InRange(gap) == Residue(gap) < RANGE

Witness == [m : Elements, run : Elements, units : 0..SLOT_COVER, amount : Elements]

first_unit(w) == Residue(BASE + w.run)
last_unit(w) == Residue(first_unit(w) + w.units - 1)

\* Mutated: the units consumed are not held against the budget.
run_inside_at_start(w) ==
    /\ InRange(w.run)
    /\ InRange(w.m - w.run)
    /\ InRange(L - w.m)

\* The run starts and ends inside the budget's units, which lie inside the
\* declared range.
run_inside(w) ==
    /\ InRange(w.run)
    /\ InRange(w.m - w.run - w.units)
    /\ InRange(L - w.m)

\* The budget is the unit size times the spendable units.
budget_binding(w) == Residue(U * w.m) = B

\* Mutated: the amount is held against one unit more than the run's.
rounding_one_more(w) ==
    /\ InRange(Residue((w.units + 1) * U) - w.amount)
    /\ InRange(w.amount - Residue((w.units - 1) * U) - 1)

rounding(w) ==
    /\ InRange(Residue(w.units * U) - w.amount)
    /\ InRange(w.amount - Residue((w.units - 1) * U) - 1)

caps(w) == InRange(C - w.amount) /\ InRange(B - C)

\* A leaf is a revoked range and the range after it, whose start it carries.
Leaves == {l \in revoked \X revoked :
              /\ l[1][2] < l[2][1]
              /\ \A r \in revoked : r[2] <= l[1][2] \/ r[1] >= l[2][1]}

\* Mutated: a run may start at the revoked range's last unit.
nonrevoked_touching(w, leaf) ==
    /\ InRange(first_unit(w) - leaf[1][1])
    /\ InRange(first_unit(w) - leaf[1][2])
    /\ InRange(leaf[2][1] - last_unit(w) - 1)
    /\ InRange(last_unit(w) - first_unit(w))

nonrevoked(w, leaf) ==
    /\ InRange(first_unit(w) - leaf[1][1])
    /\ InRange(first_unit(w) - leaf[1][2] - 1)
    /\ InRange(leaf[2][1] - last_unit(w) - 1)
    /\ InRange(last_unit(w) - first_unit(w))

-----------------------------------------------------------------------------
(* The reserve and the delegation.                                         *)

\* The reserve counts a payment's slots from its amount, and the answer's
\* leaf covers no more than SLOT_COVER of them.
units_of(amount) == (amount + U - 1) \div U
admitted(w) == units_of(w.amount) <= SLOT_COVER

Backed == {w \in Witness : admitted(w) /\ budget_binding(w) /\ run_inside(w)
                             /\ rounding(w) /\ caps(w)}

Init == /\ used = {} /\ recent = {}
        /\ paid = 0
        /\ exposed = FALSE
        /\ revoked = SENTINELS

Settle(w) ==
    /\ \E leaf \in Leaves : nonrevoked(w, leaf)
    /\ paid + w.amount <= MAX_PAID
    /\ LET run == first_unit(w)..last_unit(w)
       IN /\ used' = used \cup run
          /\ recent' = recent \cup run
          /\ exposed' = (exposed \/ run \cap used # {})
    /\ paid' = paid + w.amount
    /\ UNCHANGED revoked

\* The principal revokes a range inside the delegation's, apart from the
\* ranges revoked before.
Revoke(a, z) ==
    /\ a <= z
    /\ \A r \in revoked : z < r[1] \/ r[2] < a
    /\ Cardinality(revoked) < MAX_RANGES
    /\ revoked' = revoked \cup {<<a, z>>}
    /\ recent' = {}
    /\ UNCHANGED <<used, paid, exposed>>

Next == \/ \E w \in Backed : Settle(w)
        \/ \E a, z \in Indices : Revoke(a, z)

Spec == Init /\ [][Next]_vars

-----------------------------------------------------------------------------
(* Properties.                                                             *)

\* The agent over-spends only by giving up its secret: unless two settlements
\* consumed a unit in common, whatever witnesses backed them and however many
\* domains they are spread over, their total is within the committed budget
\* (composed.rs, the units and the rounding; spend.rs, the run).
BudgetOrSecret == ~exposed => paid <= B

\* A backed settlement consumes the delegation's own units, below the budget:
\* the run neither leaves the range at either end nor wraps around the field,
\* so delegations with disjoint ranges never consume the same unit.
UnitsInBudget == \A n \in used : n \in Indices /\ U * (n - BASE + 1) <= B

\* No unit is consumed once it is revoked: between two revocations, no
\* settlement finds a leaf that clears a run touching a revoked range.
RevokedUnspent == \A n \in recent : \A r \in revoked : n < r[1] \/ r[2] < n

=============================================================================
