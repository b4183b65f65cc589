------------------------------ MODULE Circuit ------------------------------
(***************************************************************************)
(* The constraint systems of src/Circuits: the policy clauses, the opening *)
(* of the commitment (C9), Merkle inclusion, non-revocation (C8), the      *)
(* compliance circuit, the spend circuit and the composed circuit.         *)
(*                                                                         *)
(* A trace row is a sequence of field elements laid out as the source lays *)
(* it out; columns are numbered from zero.  Each circuit is an operator    *)
(* that returns the names of the constraints the row breaks, so a row      *)
(* satisfies a circuit exactly when the set is empty.                      *)
(***************************************************************************)
EXTENDS FieldOps

CONSTANTS RANGE_BITS,   \* bits of a range check
          MD, RD,       \* depths of the allowlist and of the revocation tree
          DEPTH,        \* the deployment's index space holds 2^DEPTH units
          COVER         \* slots of a payment

At(row, c) == row[c + 1]
Lanes(row, c, n) == SubSeq(row, c + 1, c + n)
Fails(name, holds) == IF holds THEN {} ELSE {name}

-----------------------------------------------------------------------------
(* Column layout of the policy and of the payment.                         *)

DIGEST == WIDTH \div 2
RATE == 4

DOMAIN_OPENING == 1
DOMAIN_KEY == 2
DOMAIN_PAD == 3
DOMAIN_PAYLOAD == 4
DOMAIN_NULL == 5
DOMAIN_SECRET == 6

COL_AMOUNT == 0
COL_MID == 1
COL_CID == 2
COL_T == 3
COL_PAYEE == 4
COL_DOMAIN == 5
COL_B == 6
COL_C == 7
COL_TSTART == 8
COL_TEXP == 9
COL_N == 10
COL_W == 11
COL_MROOT == 12
COL_CROOT == COL_MROOT + DIGEST
COL_R == COL_CROOT + DIGEST
COL_NONCE == COL_R + 1
COL_MERCHANT_OK == COL_NONCE + 1
COL_CATEGORY_OK == COL_MERCHANT_OK + 1
VALUE_COLS == COL_CATEGORY_OK + 1

POLICY_SCALARS == <<COL_B, COL_C, COL_TSTART, COL_TEXP, COL_N, COL_W>>
\* The policy columns in the order C9 absorbs them: scalars, both roots, the
\* blinding value.  They are adjacent.
POLICY_ELEMS == 6 + 2 * DIGEST + 1
policy_src(e) == COL_B + e
\* Mutated: the domain is absorbed where the nonce belongs.
PAYLOAD_SRC_WITHOUT_NONCE ==
    <<COL_AMOUNT, COL_MID, COL_CID, COL_T, COL_PAYEE, COL_DOMAIN, COL_DOMAIN>>

PAYLOAD_SRC == <<COL_AMOUNT, COL_MID, COL_CID, COL_T, COL_PAYEE, COL_DOMAIN, COL_NONCE>>
PAYLOAD_ELEMS == 7

div_ceil(a, b) == (a + b - 1) \div b
C9_PERMUTATIONS == div_ceil(POLICY_ELEMS, RATE)
PAYLOAD_PERMUTATIONS == div_ceil(PAYLOAD_ELEMS, RATE)

-----------------------------------------------------------------------------
(* The clauses.                                                            *)

\* Mutated: the highest bit is left out.
recompose_short(row, s) ==
    LET acc[i \in 0..(RANGE_BITS - 2)] ==
            IF i = RANGE_BITS - 2 THEN At(row, s + i)
            ELSE Fe(2 * acc[i + 1] + At(row, s + i))
    IN acc[0]

\* Little endian, by doubling.
recompose(row, s) ==
    LET acc[i \in 0..(RANGE_BITS - 1)] ==
            IF i = RANGE_BITS - 1 THEN At(row, s + i)
            ELSE Fe(2 * acc[i + 1] + At(row, s + i))
    IN acc[0]

\* The columns from s on are the bits of gap.
RangeCheck(row, gap, s) ==
    /\ \A i \in 0..(RANGE_BITS - 1) : At(row, s + i) \in {0, 1}
    /\ Fe(gap) = recompose(row, s)

policy_width == VALUE_COLS + 3 * RANGE_BITS

policy_constrain(row, base) ==
    LET Val(c) == At(row, base + c)
        rb == base + VALUE_COLS
    IN    Fails("cap", RangeCheck(row, Val(COL_C) - Val(COL_AMOUNT), rb))
     \cup Fails("merchant", Val(COL_MID) = Val(COL_PAYEE) /\ Val(COL_MERCHANT_OK) = 1)
     \cup Fails("category", Val(COL_CATEGORY_OK) = 1)
     \cup Fails("not_before", RangeCheck(row, Val(COL_T) - Val(COL_TSTART), rb + RANGE_BITS))
     \cup Fails("not_after", RangeCheck(row, Val(COL_TEXP) - Val(COL_T), rb + 2 * RANGE_BITS))

-----------------------------------------------------------------------------
(* The permutation chip and the sponges built on it.                       *)

HashEval(row, s) == Lanes(row, s, BlockWidth) = perm_row(Lanes(row, s, WIDTH))

HashesEval(row, s, n) ==
    Fails("hash", \A i \in 0..(n - 1) : HashEval(row, s + i * BlockWidth))

\* The last permutation of a sponge: its output lane j.
Squeezed(row, start, perms, j) ==
    At(row, start + (perms - 1) * BlockWidth + output_offset + j)

Absorbs(row, start, e) == At(row, start + (e \div RATE) * BlockWidth + (e % RATE))

\* The sponge starts at its separator and every permutation carries the lanes
\* it does not absorb.
sponge_constrain(row, start, perms, elems, domain) ==
       Fails("separator",
             /\ At(row, start + RATE) = domain
             /\ \A lane \in (RATE + 1)..(WIDTH - 1) : At(row, start + lane) = 0)
  \cup Fails("chaining",
             \A i \in 1..(perms - 1) :
                LET left == elems - i * RATE
                    taken == IF left < RATE THEN left ELSE RATE
                IN \A lane \in taken..(WIDTH - 1) :
                      At(row, start + (i - 1) * BlockWidth + output_offset + lane)
                        = At(row, start + i * BlockWidth + lane))

\* FullAir: the clauses and the opening alone.
full_eval(row, com) ==
    LET p == policy_width
    IN    policy_constrain(row, 0)
     \cup HashesEval(row, p, C9_PERMUTATIONS)
     \cup Fails("opening", \A e \in 0..(POLICY_ELEMS - 1) :
                              At(row, policy_src(e)) = Absorbs(row, p, e))
     \cup sponge_constrain(row, p, C9_PERMUTATIONS, POLICY_ELEMS, DOMAIN_OPENING)
     \cup Fails("commitment", \A j \in 0..(DIGEST - 1) :
                              Squeezed(row, p, C9_PERMUTATIONS, j) = com[j + 1])

-----------------------------------------------------------------------------
(* Merkle inclusion and non-revocation.                                    *)

level_width == 2 * DIGEST + 1 + BlockWidth
root_offset(depth) == depth * level_width
merkle_width(depth) == root_offset(depth) + DIGEST

merkle_eval(row, base, depth) ==
    LET LevelHolds(level) ==
            LET b == base + level * level_width
                perm == b + 2 * DIGEST + 1
                bit == At(row, b + 2 * DIGEST)
            IN /\ HashEval(row, perm)
               /\ bit \in {0, 1}
               /\ \A j \in 0..(DIGEST - 1) :
                    LET cur == At(row, b + j)
                        sib == At(row, b + DIGEST + j)
                    IN /\ Fe(cur + bit * (sib - cur)) = At(row, perm + j)
                       /\ Fe(sib + bit * (cur - sib)) = At(row, perm + DIGEST + j)
                       /\ At(row, perm + output_offset + j) = At(row, b + level_width + j)
    IN Fails("path", \A level \in 0..(depth - 1) : LevelHolds(level))

LEAF_START == 0
LEAF_END == 1
LEAF_NEXT == 2
LEAF_PAD == 3
run_offset == merkle_width(RD)
nonmembership_width == run_offset + 2 + 4 * RANGE_BITS

nonmembership_eval(row, base) ==
    LET Leaf(l) == At(row, base + l)
        lo == At(row, base + run_offset)
        hi == At(row, base + run_offset + 1)
        Block(g) == base + run_offset + 2 + g * RANGE_BITS
    IN    merkle_eval(row, base, RD)
     \cup Fails("leaf_pad", Leaf(LEAF_PAD) = 0)
     \cup Fails("past_start", RangeCheck(row, lo - Leaf(LEAF_START), Block(0)))
     \cup Fails("past_end", RangeCheck(row, lo - Leaf(LEAF_END) - 1, Block(1)))
     \cup Fails("before_next", RangeCheck(row, Leaf(LEAF_NEXT) - hi - 1, Block(2)))
     \cup Fails("run_order", RangeCheck(row, hi - lo, Block(3)))

-----------------------------------------------------------------------------
(* The compliance circuit.                                                 *)

PAYEE_LIMBS == 3
whole_payload == policy_width + C9_PERMUTATIONS * BlockWidth
whole_merchant == whole_payload + PAYLOAD_PERMUTATIONS * BlockWidth
whole_category == whole_merchant + merkle_width(MD)
whole_revocation == whole_category + merkle_width(MD)
whole_glue == whole_revocation + nonmembership_width
glue_run_offset == whole_glue + DIGEST + 1
whole_width == whole_glue + DIGEST + 3

\* a carries the digest, the revocation root, the commitment and, when the
\* payee is bound, its limbs.
whole_constrain(row, bind_policy, a) ==
    LET p == policy_width
        pl == whole_payload
        h == whole_merchant
        mc == whole_category
        ct == whole_revocation
        payload == whole_glue + DIGEST
    IN    policy_constrain(row, 0)
     \cup HashesEval(row, p, C9_PERMUTATIONS + PAYLOAD_PERMUTATIONS)
     \cup merkle_eval(row, h, MD)
     \cup merkle_eval(row, mc, MD)
     \cup nonmembership_eval(row, ct)
     \cup Fails("opening", bind_policy => \A e \in 0..(POLICY_ELEMS - 1) :
                              At(row, policy_src(e)) = Absorbs(row, p, e))
     \cup Fails("payload", /\ \A e \in 0..(PAYLOAD_ELEMS - 1) :
                                 At(row, PAYLOAD_SRC[e + 1]) = Absorbs(row, pl, e)
                           /\ Squeezed(row, pl, PAYLOAD_PERMUTATIONS, 0) = At(row, payload))
     \cup Fails("digest", At(row, payload) = a.digest)
     \cup Fails("revocation_root", Lanes(row, whole_glue, DIGEST) = a.rroot)
     \cup Fails("commitment", \A j \in 0..(DIGEST - 1) :
                              Squeezed(row, p, C9_PERMUTATIONS, j) = a.com[j + 1])
     \cup sponge_constrain(row, p, C9_PERMUTATIONS, POLICY_ELEMS, DOMAIN_OPENING)
     \cup sponge_constrain(row, pl, PAYLOAD_PERMUTATIONS, PAYLOAD_ELEMS, DOMAIN_PAYLOAD)
     \cup Fails("roots",
                /\ Lanes(row, COL_MROOT, DIGEST) = Lanes(row, h + root_offset(MD), DIGEST)
                /\ Lanes(row, COL_CROOT, DIGEST) = Lanes(row, mc + root_offset(MD), DIGEST)
                /\ Lanes(row, whole_glue, DIGEST) = Lanes(row, ct + root_offset(RD), DIGEST))
     \cup Fails("leaves",
                /\ At(row, COL_MID) = At(row, h)
                /\ At(row, COL_CID) = At(row, mc)
                /\ \A j \in 1..(DIGEST - 1) : At(row, mc + j) = 0
                /\ \A j \in (IF a.payee = <<>> THEN 1 ELSE PAYEE_LIMBS)..(DIGEST - 1) :
                      At(row, h + j) = 0)
     \cup Fails("payee", a.payee # <<>> => Lanes(row, h, PAYEE_LIMBS) = a.payee)
     \cup Fails("glue_run", Lanes(row, glue_run_offset, 2) = Lanes(row, ct + run_offset, 2))

\* The nine public values of the compliance circuit proved alone.
Anchors(pv) == [digest |-> pv[1], rroot |-> SubSeq(pv, 2, 1 + DIGEST),
                com |-> SubSeq(pv, 2 + DIGEST, 1 + 2 * DIGEST), payee |-> <<>>]

whole_eval(row, pv) == whole_constrain(row, TRUE, Anchors(pv))
vacuous_eval(row, pv) == whole_constrain(row, FALSE, Anchors(pv))

-----------------------------------------------------------------------------
(* The spend circuit.                                                      *)

SECRET_ELEMS == 2
COL_SECRET == 0
COL_INDEX == 2
COL_INDEX_INV == 3
COL_DOM == 4
COL_ROOT_KEY == 5
COL_M == 7
COL_RUN == 8
COL_UNITS == 9
COL_BASE == 10
FIXED_COLS == 11

NODE_ACTIVE == 0
NODE_KEY == 1
NODE_SHARE == 3
NODE_NULL == 5
PER_NODE == 6

pos_base == FIXED_COLS
range_base == pos_base + COVER + 1
node_base == range_base + 3 * RANGE_BITS
value_cols == node_base + PER_NODE * COVER
spend_width == value_cols + COVER * BlockWidth

\* The last range check when the circuit is proved alone: the units lie inside
\* the deployment's index space.
index_space_gap(row) == Fe(2 ^ DEPTH - At(row, COL_BASE) - At(row, COL_M))

spend_constrain(row, base, external_nullifier, index, dom, last_gap) ==
    LET Val(c) == At(row, base + c)
        Pos(c) == At(row, base + pos_base + c)
        Node(c, k) == At(row, base + node_base + c * PER_NODE + k)
        Blk(c) == base + value_cols + c * BlockWidth
        Gap(g) == base + range_base + g * RANGE_BITS
        Slots == 0..(COVER - 1)
        Key(c) == <<Node(c, NODE_KEY), Node(c, NODE_KEY + 1)>>
        \* What slot c's permutation derives from.
        Derives(c) ==
            LET on == Node(c, NODE_ACTIVE)
                off == 1 - on
            IN <<Val(COL_ROOT_KEY), Val(COL_ROOT_KEY + 1),
                 Fe(on * Fe(Val(COL_BASE) + Pos(c)) + off * Val(COL_INDEX)),
                 Fe(on * DOMAIN_KEY + off * DOMAIN_PAD), Fe(off * (c + 1)), 0, 0, 0>>
        Share(c) == EAdd(<<Val(COL_SECRET), Val(COL_SECRET + 1)>>,
                         EMul(Key(c), <<Val(COL_INDEX), Val(COL_DOM)>>))
        charged[c \in 0..COVER] ==
            IF c = 0 THEN 0 ELSE Fe(charged[c - 1] + Node(c - 1, NODE_ACTIVE))
    IN    HashesEval(row, base + value_cols, COVER)
     \cup Fails("digest", Val(COL_INDEX) = index)
     \cup Fails("share_domain", Val(COL_DOM) = dom)
     \cup Fails("index_nonzero", Fe(Val(COL_INDEX) * Val(COL_INDEX_INV)) = 1)
     \cup Fails("run_start", RangeCheck(row, Val(COL_RUN), Gap(0)))
     \cup Fails("run_end", RangeCheck(row, Val(COL_M) - Val(COL_RUN) - Val(COL_UNITS), Gap(1)))
     \cup Fails("range", RangeCheck(row, last_gap, Gap(2)))
     \cup Fails("positions",
                /\ Pos(0) = Val(COL_RUN)
                /\ \A c \in Slots : Pos(c + 1) = Fe(Pos(c) + Node(c, NODE_ACTIVE)))
     \cup Fails("active", \A c \in Slots : Node(c, NODE_ACTIVE) \in {0, 1})
     \cup Fails("real_first",
                \A c \in 0..(COVER - 2) :
                    Fe(Node(c + 1, NODE_ACTIVE) * (1 - Node(c, NODE_ACTIVE))) = 0)
     \cup Fails("derivation", \A c \in Slots : Lanes(row, Blk(c), WIDTH) = Derives(c))
     \cup Fails("key", \A c \in Slots : Key(c) = Lanes(row, Blk(c) + output_offset, SECRET_ELEMS))
     \cup Fails("share", \A c \in Slots :
                    <<Node(c, NODE_SHARE), Node(c, NODE_SHARE + 1)>> = Share(c))
     \cup Fails("nullifier", external_nullifier \/ \A c \in Slots :
                    Node(c, NODE_NULL) = At(row, Blk(c) + output_offset + SECRET_ELEMS))
     \cup Fails("units", charged[COVER] = Val(COL_UNITS))

spend_eval(row, pv) == spend_constrain(row, 0, FALSE, pv[1], pv[2], index_space_gap(row))

\* The variant whose nullifier is a second permutation of the key.
spend2_eval(row, pv) ==
    LET Blk(c) == spend_width + c * BlockWidth
        Node(c, k) == At(row, node_base + c * PER_NODE + k)
        Slots == 0..(COVER - 1)
    IN    spend_constrain(row, 0, TRUE, pv[1], pv[2], index_space_gap(row))
     \cup HashesEval(row, spend_width, COVER)
     \cup Fails("derivation", \A c \in Slots :
                    Lanes(row, Blk(c), WIDTH)
                      = <<Node(c, NODE_KEY), Node(c, NODE_KEY + 1), DOMAIN_NULL, 0, 0, 0, 0, 0>>)
     \cup Fails("nullifier", \A c \in Slots :
                    Node(c, NODE_NULL) = At(row, Blk(c) + output_offset))

-----------------------------------------------------------------------------
(* The composed circuit.  Its public values are the delegation's terms and *)
(* then one block per payment; row i of the trace is bound to block i mod  *)
(* the batch size.                                                         *)

G_COM == 0
G_UNIT == G_COM + DIGEST
G_BASE == G_UNIT + 1
G_RANGE == G_BASE + 1
G_SECRET_HASH == G_RANGE + 1
SECRET_HASH_LANES == 4
GLOBALS == G_SECRET_HASH + SECRET_HASH_LANES

R_DIGEST == 0
R_ROOT == R_DIGEST + 1
R_DOMAIN == R_ROOT + DIGEST
R_AMOUNT == R_DOMAIN + 1
R_PAYEE == R_AMOUNT + 1
R_TIME == R_PAYEE + PAYEE_LIMBS
R_ELEMS == R_TIME + 1
ELEMS_PER_SLOT == 3
row_width == R_ELEMS + ELEMS_PER_SLOT * COVER

Payments(pv) == (Len(pv) - GLOBALS) \div row_width
Shaped(pv) == /\ Len(pv) > GLOBALS
              /\ (Len(pv) - GLOBALS) % row_width = 0
              /\ \E e \in 0..8 : Payments(pv) = 2 ^ e
\* The block payment i of the batch is bound to.
Periodic(pv, i) == SubSeq(pv, GLOBALS + i * row_width + 1, GLOBALS + (i + 1) * row_width)

unit_col == whole_width + spend_width
secret_block == unit_col + 1 + 3 * RANGE_BITS
composed_width == secret_block + BlockWidth

\* The half of the composed row each part is, against its own anchors.
compliance_half(row, pv, per) ==
    whole_constrain(row, TRUE,
        [digest |-> At(per, R_DIGEST), rroot |-> Lanes(per, R_ROOT, DIGEST),
         com |-> Lanes(pv, G_COM, DIGEST), payee |-> Lanes(per, R_PAYEE, PAYEE_LIMBS)])
spend_half(row, pv, per) ==
    spend_constrain(row, whole_width, FALSE, At(per, R_DIGEST), At(per, R_DOMAIN),
                    At(pv, G_RANGE) - At(row, whole_width + COL_M))

composed_bindings(row, pv, per) ==
    LET w == whole_width
        sb == secret_block
        out == sb + output_offset
        Node(c) == w + node_base + c * PER_NODE
        Gap(g) == unit_col + 1 + g * RANGE_BITS
        u == At(row, unit_col)
        amount == At(row, COL_AMOUNT)
        units == At(row, w + COL_UNITS)
        budget == At(row, COL_B)
        Pos(c) == At(row, w + pos_base + c)
        run == Lanes(row, glue_run_offset, 2)
        first == At(row, w + COL_BASE)
    IN    Fails("hash", HashEval(row, sb))
     \cup Fails("amount", amount = At(per, R_AMOUNT))
     \cup Fails("time", At(row, COL_T) = At(per, R_TIME))
     \cup Fails("unit", u = At(pv, G_UNIT))
     \cup Fails("base", first = At(pv, G_BASE))
     \cup Fails("secret",
                /\ Lanes(row, sb, WIDTH)
                     = Lanes(row, w + COL_SECRET, 2) \o <<DOMAIN_SECRET, 0, 0, 0, 0, 0>>
                /\ Lanes(row, out, SECRET_ELEMS) = Lanes(row, w + COL_ROOT_KEY, SECRET_ELEMS)
                /\ Lanes(row, out + SECRET_ELEMS, SECRET_HASH_LANES)
                     = Lanes(pv, G_SECRET_HASH, SECRET_HASH_LANES))
     \cup Fails("published",
                \A c \in 0..(COVER - 1) :
                    Lanes(row, Node(c) + NODE_SHARE, ELEMS_PER_SLOT)
                      = Lanes(per, R_ELEMS + ELEMS_PER_SLOT * c, ELEMS_PER_SLOT))
     \cup Fails("budget", Fe(u * At(row, w + COL_M)) = budget)
     \cup Fails("domain", At(row, COL_DOMAIN) = At(row, w + COL_DOM))
     \cup Fails("run", /\ run[1] = Fe(first + Pos(0))
                       /\ Fe(run[2] + 1) = Fe(first + Pos(COVER)))
     \cup Fails("rounding_up", RangeCheck(row, Fe(units * u) - amount, Gap(0)))
     \cup Fails("rounding_down", RangeCheck(row, amount - Fe((units - 1) * u) - 1, Gap(1)))
     \cup Fails("cap_in_budget", RangeCheck(row, budget - At(row, COL_C), Gap(2)))

composed_eval(row, pv, per) ==
    compliance_half(row, pv, per) \cup spend_half(row, pv, per) \cup composed_bindings(row, pv, per)

=============================================================================
