------------------------------- MODULE Trace -------------------------------
(***************************************************************************)
(* How src/Circuits fills the rows the circuits are checked over, and how  *)
(* its negative controls break them.  A row is built from one payment of   *)
(* the delegation; a control is named by the variant of the source's enum. *)
(***************************************************************************)
EXTENDS Circuit, FiniteSets

CONSTANTS SECRET,          \* the delegation's secret, two field elements
          PAYLOAD_DIGEST,  \* the digest the spend circuit is proved with alone
          FREE_KEY         \* a root key the secret does not give

\* Column c of the row raised by one.
Bump(row, c) == [row EXCEPT ![c + 1] = Fe(@ + 1)]
\* The columns from c on replaced by block.
Put(row, c, block) ==
    SubSeq(row, 1, c) \o block \o SubSeq(row, c + Len(block) + 1, Len(row))
Zeros(n) == Eager([i \in 1..n |-> 0])
From(n, len) == Eager([j \in 1..len |-> n + j - 1])
Concat(n, Part(_)) ==
    LET upto[i \in 0..n] == IF i = 0 THEN <<>> ELSE upto[i - 1] \o Part(i - 1)
    IN upto[n]

\* The low bits of v; of a negative v, of its two's complement.
bits_of(v) ==
    LET low == v % 2 ^ RANGE_BITS
    IN Eager([i \in 1..RANGE_BITS |-> (low \div 2 ^ (i - 1)) % 2])

-----------------------------------------------------------------------------
(* The delegation and the harness's payment.                               *)

SPENDABLE == 1536
BASE_INDEX == 4096
RANGE_LEN == 2048
PAY_TIME == 5000
NONCE == 777
DOMAIN_ID == 8453
GOOD == [amount |-> 10, cap |-> 200, budget |-> 6144, t |-> PAY_TIME,
         t_start |-> 1000, t_exp |-> 9000, velocity_n |-> 5, domain |-> DOMAIN_ID]

UNIT == GOOD.budget \div SPENDABLE

\* An address, most significant digit first: five digits of base 16, and limbs
\* of two digits, standing for twenty bytes and limbs of seven.
PAYEE == <<7, 10, 3, 15, 9>>
payee_limbs(addr) == <<16 * addr[4] + addr[5], 16 * addr[2] + addr[3], addr[1]>>

policy_trace_pay(amount, cap, t, nonce) ==
    <<amount, 7, 3, t, 7, GOOD.domain, GOOD.budget, cap, GOOD.t_start, GOOD.t_exp,
      GOOD.velocity_n, 100>>
    \o From(11, DIGEST) \o From(13, DIGEST) \o <<4242, nonce, 1, 1>>
    \o bits_of(cap - amount) \o bits_of(t - GOOD.t_start) \o bits_of(GOOD.t_exp - t)

policy_trace == policy_trace_pay(GOOD.amount, GOOD.cap, GOOD.t, NONCE)
broken_trace == Bump(policy_trace, VALUE_COLS)

-----------------------------------------------------------------------------
(* Sponges and paths.                                                      *)

\* One permutation per chunk, the rate lanes overwritten and the rest carried.
\* The permutations side by side.
sponge(elements, domain) ==
    LET n == div_ceil(Len(elements), RATE)
        Chunk(i) == SubSeq(elements, i * RATE + 1, IF (i + 1) * RATE < Len(elements)
                                                     THEN (i + 1) * RATE ELSE Len(elements))
        rows[i \in 0..n] ==
            IF i = 0 THEN <<>>
            ELSE LET before == rows[i - 1]
                     state == IF i = 1
                                THEN Zeros(RATE) \o <<domain>> \o Zeros(WIDTH - RATE - 1)
                                ELSE SubSeq(before, Len(before) - WIDTH + 1, Len(before))
                 IN before \o perm_row(Put(state, 0, Chunk(i - 1)))
    IN rows[n]

\* What a sponge laid out by the operator above squeezes.
sponge_output(perms) == SubSeq(perms, Len(perms) - WIDTH + 1, Len(perms))

\* A path so far carried one level up, past the given sibling.
Hashed(block) == block \o SubSeq(perm_output(block), 1, DIGEST)
Raised(before, cur, sib, bit) ==
    before \o sib \o <<bit>> \o Hashed(perm_row(IF bit = 1 THEN sib \o cur ELSE cur \o sib))

merkle_trace_leaf(depth, leaf) ==
    LET levels[l \in 0..depth] ==
            IF l = 0 THEN leaf
            ELSE LET before == levels[l - 1]
                 IN Raised(before, SubSeq(before, Len(before) - DIGEST + 1, Len(before)),
                           Eager([j \in 1..DIGEST |-> 1000 + l - 1]), (l - 1) % 2)
    IN levels[depth]

merkle_trace(depth) == merkle_trace_leaf(depth, <<99, 0, 0, 0>>)
merkle_root(row, depth) == Lanes(row, root_offset(depth), DIGEST)

REVOKED_START == 100
REVOKED_END == 200
NEXT_REVOKED_START == 20000
RUN_START == BASE_INDEX + 385
RUN_UNITS == 3
HarnessRun == <<RUN_START, RUN_START + RUN_UNITS - 1>>

build_nonmembership_run(how, run) ==
    LET lo == IF how = "RunStartsInsideRange" THEN 150 ELSE run[1]
        hi == CASE how = "RunStartsInsideRange" -> 150 + RUN_UNITS - 1
                [] how = "RunReachesNextRange" -> NEXT_REVOKED_START
                [] how = "RunInverted" -> RUN_START - 1
                [] OTHER -> run[2]
        row == merkle_trace_leaf(RD, <<REVOKED_START, REVOKED_END, NEXT_REVOKED_START, 0>>)
               \o <<lo, hi>>
               \o bits_of(lo - REVOKED_START) \o bits_of(lo - REVOKED_END - 1)
               \o bits_of(NEXT_REVOKED_START - hi - 1) \o bits_of(hi - lo)
    IN IF how = "GapDecomposition" THEN Bump(row, run_offset + 2) ELSE row

-----------------------------------------------------------------------------
(* The compliance row.                                                     *)

merchant_path(payee) ==
    IF payee = <<>> THEN merkle_trace(MD) ELSE merkle_trace_leaf(MD, payee \o <<0>>)

\* What C9 absorbs when the columns are those of policy.
absorbed_policy(policy, mroot, croot) ==
    SubSeq(policy, COL_B + 1, COL_W + 1) \o mroot \o croot \o <<At(policy, COL_R)>>

\* What C7 absorbs: the payment's columns, with the identifiers the paths carry.
absorbed_payload(policy, mleaf, cleaf) ==
    Eager([e \in 1..PAYLOAD_ELEMS |->
        LET c == PAYLOAD_SRC[e]
        IN CASE c \in {COL_MID, COL_PAYEE} -> mleaf
             [] c = COL_CID -> cleaf
             [] OTHER -> At(policy, c)])

\* The two sponges of a compliance row, from its merchant and category paths.
opening_perms(policy, mm, mk) ==
    sponge(absorbed_policy(policy, merkle_root(mm, MD), merkle_root(mk, MD)), DOMAIN_OPENING)
payload_perms(policy, mm, mk) ==
    sponge(absorbed_payload(policy, mm[1], mk[1]), DOMAIN_PAYLOAD)

\* The policy's columns, with the roots and the leaves the paths carry.
anchored(policy, mm, mk) ==
    Eager([Put(Put(policy, COL_MROOT, merkle_root(mm, MD)), COL_CROOT, merkle_root(mk, MD))
             EXCEPT ![COL_MID + 1] = mm[1], ![COL_PAYEE + 1] = mm[1], ![COL_CID + 1] = mk[1]])

glue(payload, rv) ==
    merkle_root(rv, RD) \o <<sponge_output(payload)[1]>> \o Lanes(rv, run_offset, 2)

\* The parts of a compliance row side by side.
whole_row(policy, perms, payload, mm, mk, rv) ==
    anchored(policy, mm, mk) \o perms \o payload \o mm \o mk \o rv \o glue(payload, rv)

\* The row whose columns hold policy and whose commitment opens to committed.
whole_opening(policy, committed, mm, mk, rv) ==
    whole_row(policy, opening_perms(committed, mm, mk), payload_perms(policy, mm, mk), mm, mk, rv)

whole_trace_pay(pay, cap_in_columns, cap_committed, payee) ==
    whole_opening(policy_trace_pay(pay.amount, cap_in_columns, pay.t, pay.nonce),
                  policy_trace_pay(pay.amount, cap_committed, pay.t, pay.nonce),
                  merchant_path(payee), merkle_trace(MD),
                  build_nonmembership_run("None", pay.run))

whole_trace_full(amount, cap_in_columns, cap_committed) ==
    whole_trace_pay([amount |-> amount, t |-> GOOD.t, nonce |-> NONCE, run |-> HarnessRun],
                    cap_in_columns, cap_committed, <<>>)
\* The vacuous row shows a cap its commitment does not hold.
cap_shown(how) == IF how = "Vacuous" THEN 1000 ELSE GOOD.cap
whole_trace(how) == whole_trace_full(GOOD.amount, cap_shown(how), GOOD.cap)

\* The nine values: the payload digest, the revocation root, the commitment.
whole_values(policy, mm, mk) ==
    <<sponge_output(payload_perms(policy, mm, mk))[1]>>
      \o merkle_root(build_nonmembership_run("None", HarnessRun), RD)
      \o SubSeq(sponge_output(opening_perms(policy, mm, mk)), 1, DIGEST)

whole_public_values_pay(amount, cap, payee, t, nonce) ==
    whole_values(policy_trace_pay(amount, cap, t, nonce), merchant_path(payee), merkle_trace(MD))

whole_public_values_amount(amount) ==
    whole_public_values_pay(amount, GOOD.cap, <<>>, GOOD.t, NONCE)

\* The clauses and the opening alone, over the constants the policy row carries.
absorbed == absorbed_policy(policy_trace, From(11, DIGEST), From(13, DIGEST))
full_public_values == SubSeq(sponge_output(sponge(absorbed, DOMAIN_OPENING)), 1, DIGEST)
composed_trace == policy_trace \o sponge(absorbed, DOMAIN_OPENING)

broken_composed(how) ==
    Bump(composed_trace,
         CASE how = "Binding" -> policy_width
           [] how = "Chaining" -> policy_width + BlockWidth + 4
           [] how = "Permutation" -> policy_width + WIDTH)

-----------------------------------------------------------------------------
(* The spend row.                                                          *)

share(secret, key, digest, dom) == EAdd(secret, EMul(key, <<digest, dom>>))
secret_perm == perm_row(SECRET \o <<DOMAIN_SECRET>> \o Zeros(5))
root_key == SubSeq(perm_output(secret_perm), 1, 2)
secret_hash == SubSeq(perm_output(secret_perm), 3, 6)

\* The run's offset and its units.  None fills the slots the range leaves room for.
NoUnits == 0
interval(units_want, off_delta, spendable) ==
    LET off == spendable \div 4 + 1 + off_delta
        room == spendable - off - 1
        cap == IF COVER < room THEN COVER ELSE room
    IN [off |-> off, units |-> IF units_want = NoUnits THEN cap ELSE units_want]

\* A slot's key, share and nullifier, from what its permutation gives.
slot_values(out, payload, dom) ==
    <<out[1], out[2]>> \o share(SECRET, <<out[1], out[2]>>, payload, dom) \o <<out[3]>>

\* What SpendBreak changes in a finished row.
SpendCorrupted(row, how) ==
    CASE how = "Share" -> Bump(row, node_base + NODE_SHARE)
      [] how = "Key" -> Bump(row, node_base + NODE_KEY)
      [] how = "Nullifier" -> Bump(row, node_base + NODE_NULL)
      [] how = "Deactivate" -> [row EXCEPT ![node_base + PER_NODE + NODE_ACTIVE + 1] = 0]
      [] how = "RunStart" -> Bump(row, pos_base)
      [] how = "Modulus" -> Bump(row, COL_M)
      [] how = "Units" -> [row EXCEPT ![COL_UNITS + 1] = Fe(@ - 1)]
      [] how = "RangeBase" -> Bump(row, COL_BASE)
      [] how = "CoarseSpan" ->
            Put(row, pos_base + 1, Eager([c \in 1..COVER |-> Fe(At(row, pos_base) + 2 * c)]))
      [] OTHER -> row

row_keyed(payload, dom, units_want, off_delta, base, spendable, how, root) ==
    LET at == interval(units_want, off_delta, spendable)
        units == IF how = "SlotGap" /\ at.units > COVER - 1 THEN COVER - 1 ELSE at.units
        off == IF how = "RunPastBudget" THEN spendable - units + 1 ELSE at.off
        Active(c) == IF how = "SlotGap" THEN c >= 1 /\ c <= units ELSE c < units
        pos[c \in 0..COVER] ==
            IF c = 0 THEN off ELSE pos[c - 1] + (IF Active(c - 1) THEN 1 ELSE 0)
        blocks == Eager([i \in 1..COVER |->
            LET c == i - 1
            IN perm_row(root \o (IF Active(c) THEN <<base + pos[c], DOMAIN_KEY, 0>>
                                              ELSE <<payload, DOMAIN_PAD, c + 1>>)
                             \o <<0, 0, 0>>)])
        Slot(c) == <<IF Active(c) THEN 1 ELSE 0>>
                     \o slot_values(perm_output(blocks[c + 1]), payload, dom)
    IN SpendCorrupted(
           SECRET \o <<payload, FInv(payload), dom>> \o root
             \o <<spendable, off, units, base>>
             \o Eager([i \in 1..(COVER + 1) |-> pos[i - 1]])
             \o bits_of(off) \o bits_of(spendable - off - units)
             \o bits_of(2 ^ DEPTH - base - spendable)
             \o Concat(COVER, Slot) \o Concat(COVER, LAMBDA c : blocks[c + 1]), how)

spend_row(payload, dom, units_want, off_delta, base, spendable, how) ==
    row_keyed(payload, dom, units_want, off_delta, base, spendable, how, root_key)

broken_spend(how) == spend_row(PAYLOAD_DIGEST, DOMAIN_ID, NoUnits, 0, 0, 2 ^ (DEPTH - 1), how)
spend_trace == broken_spend("None")

\* The nullifier replaced by a second permutation of the key.
spend_two_trace ==
    LET row == spend_trace
        Second(c) == perm_row(Lanes(row, node_base + c * PER_NODE + NODE_KEY, SECRET_ELEMS)
                              \o <<DOMAIN_NULL, 0, 0, 0, 0, 0>>)
        tail == Concat(COVER, Second)
        replaced[c \in 0..COVER] ==
            IF c = 0 THEN row
            ELSE Put(replaced[c - 1], node_base + (c - 1) * PER_NODE + NODE_NULL,
                     <<At(tail, (c - 1) * BlockWidth + output_offset)>>)
    IN replaced[COVER] \o tail

-----------------------------------------------------------------------------
(* The composed rows: a batch of payments and the public values.           *)

\* Mutated: the units are rounded down.
units_for_floor(amount) == amount \div UNIT

units_for(amount) == div_ceil(amount, UNIT)

\* The harness's k payments consume successive runs of the one delegation.
batch_payments(k) ==
    LET amount_of(j) == IF j = 0 THEN GOOD.amount ELSE 1 + ((j * 7) % 31)
        next[j \in 0..k] == IF j = 0 THEN RUN_START ELSE next[j - 1] + units_for(amount_of(j - 1))
    IN Eager([i \in 1..k |->
        [amount |-> amount_of(i - 1), t |-> GOOD.t + i - 1, nonce |-> NONCE + i - 1,
         run |-> <<next[i - 1], next[i] - 1>>]])

\* The first k payments, repeated up to the next power of two.
padded_payments(k) ==
    LET n == CHOOSE m \in {1, 2, 4, 8} : m >= k /\ \A o \in {1, 2, 4, 8} : o >= k => m <= o
        pays == batch_payments(k)
    IN Eager([i \in 1..n |-> pays[((i - 1) % k) + 1]])

\* The amount a control makes a payment claim, the units it charges, and the
\* share domain it publishes at.
units_charged(pay, how) == units_for(pay.amount) + (IF how = "AmountLowered" THEN 1 ELSE 0)
amount_claimed(pay, how) ==
    IF how = "AmountRaised" THEN units_charged(pay, how) * UNIT + 1 ELSE pay.amount
share_domain(how) == IF how = "ShareDomain" THEN GOOD.domain + 1 ELSE GOOD.domain

\* The spend half of a payment with the given digest.
spend_part(pay, digest, how) ==
    Put(row_keyed(digest, share_domain(how), units_charged(pay, how),
                  pay.run[1] - RUN_START + (IF how = "RunStartMismatch" THEN 1 ELSE 0),
                  BASE_INDEX, SPENDABLE, "None",
                  IF how = "RootKeyFree" THEN FREE_KEY ELSE root_key),
        range_base + 2 * RANGE_BITS, bits_of(RANGE_LEN - SPENDABLE))

\* What binds the halves: the unit, the roundings, the cap and the secret.
binding_part(charged, amount, cap, how) ==
    LET u == IF how = "UnitSizeWrong" THEN UNIT + 1 ELSE UNIT
    IN <<u>> \o bits_of(charged * u - amount) \o bits_of(amount - (charged - 1) * u - 1)
         \o bits_of(GOOD.budget - cap) \o secret_perm

\* A payment's row, nine values and statement block, from the two halves.
composed_of(pay, cap, how, wpv, whole, spend) ==
    LET amount == amount_claimed(pay, how)
        Published(c) == Lanes(spend, node_base + c * PER_NODE + NODE_SHARE, ELEMS_PER_SLOT)
    IN [row |-> (IF how = "DomainAltered" THEN Bump(whole, COL_DOMAIN) ELSE whole)
                  \o spend \o binding_part(units_charged(pay, how), amount, cap, how),
        wpv |-> wpv,
        block |-> SubSeq(wpv, 1, 1 + DIGEST) \o <<share_domain(how), amount>>
                    \o payee_limbs(PAYEE) \o <<pay.t>> \o Concat(COVER, Published)]
composed_valued(pay, cap, how, wpv) ==
    composed_of(pay, cap, how, wpv,
        whole_trace_pay([pay EXCEPT !.amount = amount_claimed(pay, how)], cap, cap,
                        payee_limbs(PAYEE)),
        spend_part(pay, wpv[1], how))

composed_payment(pay, cap, how) ==
    composed_valued(pay, cap, how,
        whole_public_values_pay(amount_claimed(pay, how), cap, payee_limbs(PAYEE),
                                pay.t, pay.nonce))

\* What a control changes in the terms, and in the statements.
StatedTerms(g, how) ==
    CASE how = "StatementUnit" -> Bump(g, G_UNIT)
      [] how = "StatementBase" -> Bump(g, G_BASE)
      [] how = "StatementRange" -> [g EXCEPT ![G_RANGE + 1] = SPENDABLE - 1]
      [] how = "StatementSecretHash" -> Bump(g, G_SECRET_HASH)
      [] OTHER -> g
Stated(blocks, how) ==
    CASE how = "StatementShare" -> [blocks EXCEPT ![1] = Bump(@, R_ELEMS)]
      [] how = "StatementAmount" -> [blocks EXCEPT ![1] = Bump(@, R_AMOUNT)]
      [] how = "StatementPayee" -> [blocks EXCEPT ![1] = Bump(@, R_PAYEE + 1)]
      [] how = "StatementTime" -> [blocks EXCEPT ![1] = Bump(@, R_TIME)]
      [] how = "StatementRow" /\ Len(blocks) > 1 ->
            [blocks EXCEPT ![1] = blocks[2], ![2] = blocks[1]]
      [] OTHER -> blocks

\* The rows and the public values of the payments made.
batch_of(made, how) ==
    LET k == Len(made)
        terms == SubSeq(made[1].wpv, 2 + DIGEST, 1 + 2 * DIGEST)
                   \o <<UNIT, BASE_INDEX, RANGE_LEN>> \o secret_hash
        blocks == Stated(Eager([i \in 1..k |-> made[i].block]), how)
        shift == IF how = "StatementShift" THEN 1 ELSE 0
    IN [rows |-> Eager([i \in 1..k |-> made[((i - 1 + shift) % k) + 1].row]),
        pv |-> StatedTerms(terms, how) \o Concat(k, LAMBDA j : blocks[j + 1])]

\* A control corrupts the first payment.
build_batch(pays, how) ==
    LET cap == IF how = "CapAboveBudget" THEN GOOD.budget + 1 ELSE GOOD.cap
    IN batch_of(Eager([i \in 1..Len(pays) |->
                    composed_payment(pays[i], cap, IF i = 1 THEN how ELSE "None")]), how)

=============================================================================
