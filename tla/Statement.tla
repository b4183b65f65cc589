----------------------------- MODULE Statement -----------------------------
(***************************************************************************)
(* What an answer commits: the root of a tree whose leaves are the         *)
(* statements of the payments one proof proves (src/Circuits/statement.rs), *)
(* and what the principal reads out of the published slots (extractSecret   *)
(* of X402Bounded's monitor).  The hash is injective: a hash is the tuple   *)
(* of what was hashed, and a word of a hash names its position in it.       *)
(***************************************************************************)
EXTENDS Circuit

elems_hash(elems) == <<"hash", elems>>
node(l, r) == <<"node", l, r>>

StatedUnits(amount, unit) == div_ceil(amount, unit)

\* The block of public values of payment i, and its first n slots.
published(pv, i) ==
    LET block == Periodic(pv, i)
        units == StatedUnits(At(block, R_AMOUNT), At(pv, G_UNIT))
    IN Lanes(block, R_ELEMS, ELEMS_PER_SLOT * (IF units < COVER THEN units ELSE COVER))

LEAF_ELEMS_HASH == 1 + DIGEST + DIGEST + 2 + PAYEE_LIMBS + 4 + SECRET_HASH_LANES
COMMITTED == LEAF_ELEMS_HASH + 4

leaf(pv, i) ==
    LET block == Periodic(pv, i)
        h == elems_hash(published(pv, i))
    IN Lanes(block, R_DIGEST, 1 + DIGEST) \o Lanes(pv, G_COM, DIGEST)
         \o Lanes(block, R_DOMAIN, 2 + PAYEE_LIMBS + 1)
         \o Lanes(pv, G_UNIT, 3) \o Lanes(pv, G_SECRET_HASH, SECRET_HASH_LANES)
         \o [j \in 1..4 |-> <<"word", j, h>>]

\* The levels of the tree, leaves first.
levels(pv) ==
    LET k == Payments(pv)
        depth == CHOOSE e \in 0..8 : 2 ^ e = k
        level[l \in 0..depth] ==
            IF l = 0 THEN [i \in 0..(k - 1) |-> elems_hash(leaf(pv, i))]
            ELSE LET below == level[l - 1]
                 IN [i \in 0..(k \div 2 ^ l - 1) |-> node(below[2 * i], below[2 * i + 1])]
    IN [l \in 0..depth |-> level[l]]

Top(all) == CHOOSE l \in DOMAIN all : l + 1 \notin DOMAIN all
committed(pv) == levels(pv)[Top(levels(pv))][0]

\* The siblings from payment i's leaf to the root, lowest first.
Sibling(at) == IF at % 2 = 0 THEN at + 1 ELSE at - 1
path(pv, i) ==
    LET all == levels(pv)
    IN [l \in 1..Top(all) |-> all[l - 1][Sibling(i \div 2 ^ (l - 1))]]

\* Mutated: the sides of every node are swapped.
root_from_swapped(lf, at, siblings) ==
    LET up[l \in 0..Len(siblings)] ==
            IF l = 0 THEN elems_hash(lf)
            ELSE LET s == siblings[l]
                 IN IF (at \div 2 ^ (l - 1)) % 2 = 1 THEN node(up[l - 1], s)
                                                     ELSE node(s, up[l - 1])
    IN up[Len(siblings)]

root_from(lf, at, siblings) ==
    LET up[l \in 0..Len(siblings)] ==
            IF l = 0 THEN elems_hash(lf)
            ELSE LET s == siblings[l]
                 IN IF (at \div 2 ^ (l - 1)) % 2 = 0 THEN node(up[l - 1], s)
                                                     ELSE node(s, up[l - 1])
    IN up[Len(siblings)]

-----------------------------------------------------------------------------
(* Extract.                                                                *)

\* One point per published slot of the settlements, in the order read.
Points(settled) ==
    LET Slots(r) == [c \in 1..(Len(r.elems) \div ELEMS_PER_SLOT) |->
                        [t |-> Lanes(r.elems, ELEMS_PER_SLOT * (c - 1), 2),
                         nf |-> r.elems[ELEMS_PER_SLOT * c],
                         i |-> <<r.digest, r.domain>>]]
        upto[n \in 0..Len(settled)] == IF n = 0 THEN <<>> ELSE upto[n - 1] \o Slots(settled[n])
    IN upto[Len(settled)]

\* Mutated: a unit read twice is noticed only when its two shares follow one
\* another.
extractSecretAdjacent(settled) ==
    LET pts == Points(settled)
        Line(p, q) == ESub(q.t, EMul(EMul(ESub(p.t, q.t), EInv(ESub(p.i, q.i))), q.i))
    IN {Line(pts[k - 1], pts[k]) :
            k \in {m \in 2..Len(pts) : pts[m - 1].nf = pts[m].nf /\ pts[m - 1].i # pts[m].i}}

\* A nullifier read twice at two indices gives the line through both shares;
\* its value at zero is the secret.  Only the first reading is kept.
extractSecret(settled) ==
    LET pts == Points(settled)
        First(n) == CHOOSE m \in 1..n : /\ pts[m].nf = pts[n].nf
                                        /\ \A o \in 1..(m - 1) : pts[o].nf # pts[n].nf
        Line(p, q) == ESub(q.t, EMul(EMul(ESub(p.t, q.t), EInv(ESub(p.i, q.i))), q.i))
    IN {Line(pts[First(n)], pts[n]) :
            n \in {k \in DOMAIN pts : First(k) # k /\ pts[First(k)].i # pts[k].i}}

=============================================================================
