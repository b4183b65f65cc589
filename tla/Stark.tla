------------------------------- MODULE Stark -------------------------------
(***************************************************************************)
(* The proof system the naysayer's ports stand beside: the field's two     *)
(* adic subgroups, the Merkle commitments, the duplex challenger, and the  *)
(* verifier's transcript, as src/Circuits uses them.  Everything here      *)
(* belongs to the crates the source imports, so it is modelled from its    *)
(* use; the ports themselves are in Naysay.  Challenges are drawn from the *)
(* base field, and the circuit is a two column one of five constraints.    *)
(***************************************************************************)
EXTENDS FieldOps

CONSTANTS GENERATOR,           \* generates the field's units
          LOG_DEGREE,          \* the trace has 2^LOG_DEGREE rows
          LOG_BLOWUP, LOG_FINAL_POLY_LEN,
          LOG_ARITIES,         \* of each folding layer
          NUM_QUERIES, POW_BITS

RATE == 4

Range(n) == 0..(n - 1)

\* Sums, running powers and tuples of field elements.
Total(s) == LET t[k \in 0..Len(s)] == IF k = 0 THEN 0 ELSE Fe(t[k - 1] + s[k])
            IN t[Len(s)]
Powers(g, n) == LET p[k \in 1..n] ==
                        IF k = 1 THEN <<1>>
                        ELSE LET q == p[k - 1] IN Append(q, Fe(q[k - 1] * g))
                IN p[n]
Horner(c, x) == LET h[k \in 0..Len(c)] ==
                        IF k = 0 THEN 0 ELSE Fe(Fe(h[k - 1] * x) + c[Len(c) + 1 - k])
                IN h[Len(c)]
Upto(n, Op(_)) == Eager([i \in 1..n |-> Op(i - 1)])

reverse_bits_len(i, bits) ==
    LET r[k \in 0..bits] == IF k = 0 THEN 0
                            ELSE 2 * r[k - 1] + ((i \div 2^(k - 1)) % 2)
    IN r[bits]

two_adic_generator(bits) == FPow(GENERATOR, (P - 1) \div 2^bits)

LOG_GLOBAL == LOG_DEGREE + LOG_BLOWUP
DEGREE == 2^LOG_DEGREE
HEIGHT == 2^LOG_GLOBAL

\* Values over a subgroup to coefficients, and back.
dft(c, g) == LET xs == Powers(g, Len(c)) IN Upto(Len(c), LAMBDA i : Horner(c, xs[i + 1]))
idft(v, g) == LET n == FInv(Len(v)) IN
              Eager([i \in 1..Len(v) |-> Fe(n * dft(v, FInv(g))[i])])

reverse_slice(v, bits) == Upto(Len(v), LAMBDA i : v[reverse_bits_len(i, bits) + 1])

(***************************************************************************)
(* Commitments: leaves hashed by the overwriting sponge, a binary tree of  *)
(* compressions above them, and the siblings an index opens with.          *)
(***************************************************************************)
Compress(l, r) == SubSeq(Permute(l \o r), 1, 4)

Blocks(s) == LET n == (Len(s) + RATE - 1) \div RATE IN
             Upto(n, LAMBDA b : SubSeq(s, b * RATE + 1,
                                       IF (b + 1) * RATE > Len(s) THEN Len(s) ELSE (b + 1) * RATE))

Overwrite(state, block) == block \o SubSeq(state, Len(block) + 1, WIDTH)

ZEROS == [i \in 1..WIDTH |-> 0] \o <<>>

Hash(s) == LET bs == Blocks(s)
               h[k \in 0..Len(bs)] ==
                   IF k = 0 THEN ZEROS ELSE Permute(Overwrite(h[k - 1], bs[k]))
           IN SubSeq(h[Len(bs)], 1, 4)

Tree(leaves, log) ==
    LET t[k \in 0..log] ==
            IF k = 0 THEN <<leaves>>
            ELSE LET below == t[k - 1]
                     top == below[k]
                 IN Append(below, Upto(Len(top) \div 2,
                        LAMBDA i : Compress(top[2 * i + 1], top[2 * i + 2])))
    IN t[log]
Root(tree) == tree[Len(tree)][1]
Sibling(i) == IF i % 2 = 0 THEN i + 1 ELSE i - 1
OpenAt(tree, i) == Upto(Len(tree) - 1, LAMBDA k : tree[k + 1][Sibling(i \div 2^k) + 1])

\* A committed round: matrices of rows with one salt a row, one tree.
Salt(round, m, row) == Fe(7919 * round + 104 * m + 31 * row + 5)
Salted(round, mats, row) ==
    LET f[m \in 0..Len(mats)] ==
            IF m = 0 THEN <<>>
            ELSE f[m - 1] \o mats[m][row + 1] \o <<Salt(round, m, row)>>
    IN f[Len(mats)]
CommitTree(round, mats) ==
    Tree(Upto(HEIGHT, LAMBDA r : Hash(Salted(round, mats, r))), LOG_GLOBAL)

(***************************************************************************)
(* The duplex challenger, and beside it every element in and out of it.    *)
(***************************************************************************)
Fresh == [state |-> ZEROS, input |-> <<>>, output |-> <<>>, ops |-> <<>>]

Padded(ch) ==
    IF ch.input = <<>> THEN ch.state
    ELSE [Overwrite(ch.state, ch.input \o [i \in 1..(RATE - Len(ch.input)) |-> 0])
            EXCEPT ![RATE + 1] = Fe(@ + Len(ch.input))]
Refilled(ch, state) ==
    [ch EXCEPT !.state = state, !.input = <<>>, !.output = SubSeq(state, 1, RATE)]
Duplexed(ch) == Refilled(ch, Permute(Padded(ch)))

IfFull(ch) == IF Len(ch.input) = RATE THEN Duplexed(ch) ELSE ch
Observe(ch, v) == IfFull([ch EXCEPT !.input = Append(@, v), !.output = <<>>,
                                    !.ops = Append(@, <<"In", v>>)])

ObserveAll(ch, s) ==
    LET o[k \in 0..Len(s)] == IF k = 0 THEN ch ELSE Observe(o[k - 1], s[k])
    IN o[Len(s)]

\* A draw: the element the challenger gives out is the last in its rate.
Pop(ch, v) == [value |-> v,
               ch |-> [ch EXCEPT !.output = SubSeq(@, 1, Len(@) - 1),
                                 !.ops = Append(@, <<"Out", v>>)]]
PopLast(ch) == Pop(ch, ch.output[Len(ch.output)])
Sample(ch) == PopLast(IF ch.input # <<>> \/ ch.output = <<>> THEN Duplexed(ch) ELSE ch)

More(values, s) == [values |-> Append(values, s.value), ch |-> s.ch]
Samples(ch, n) ==
    LET d[k \in 0..n] == IF k = 0 THEN [values |-> <<>>, ch |-> ch]
                         ELSE More(d[k - 1].values, Sample(d[k - 1].ch))
    IN d[n]

Positions(values, bits) == Eager([i \in 1..Len(values) |-> values[i] % 2^bits])

Flat(s) == LET f[k \in 0..Len(s)] == IF k = 0 THEN <<>> ELSE f[k - 1] \o s[k]
           IN f[Len(s)]
FlatClaims(claims) == Flat(Eager([r \in 1..Len(claims) |->
                        Flat(Eager([m \in 1..Len(claims[r]) |-> Flat(claims[r][m])]))]))

(***************************************************************************)
(* What verify absorbs and draws for one proof, in order: the constraint   *)
(* alpha, zeta, the batching alpha, one folding challenge after each       *)
(* layer's root, then the proof of work's bits and the positions.          *)
(***************************************************************************)
TraceAbsorbs(root, pv) == <<LOG_DEGREE, LOG_DEGREE, 0>> \o root \o pv
Script(proof, pv) ==
    <<TraceAbsorbs(proof.roots[2], pv), proof.roots[3] \o proof.roots[1],
      FlatClaims(proof.claims)>>
    \o proof.commits \o <<proof.final_poly \o <<proof.pow_witness>>>>

Drew(t, before, s) == [drawn |-> t.drawn \o s.values, before |-> before, ch |-> s.ch]
DrawAfter(t, before, n) == Drew(t, before, Samples(before, n))
Replayed(script) ==
    LET t[k \in 0..Len(script)] ==
            IF k = 0 THEN [drawn |-> <<>>, before |-> Fresh, ch |-> Fresh]
            ELSE DrawAfter(t[k - 1], ObserveAll(t[k - 1].ch, script[k]),
                           IF k = Len(script) THEN 1 + NUM_QUERIES ELSE 1)
    IN t[Len(script)]

PowHolds(v) == v % 2^POW_BITS = 0
PowAt(ch, final_poly, w) == PowHolds(Sample(ObserveAll(ch, final_poly \o <<w>>)).value)
grind(ch, final_poly) ==
    CHOOSE w \in 0..(2^(POW_BITS + 8)) :
        PowAt(ch, final_poly, w) /\ \A v \in Range(w) : ~PowAt(ch, final_poly, v)

(***************************************************************************)
(* The circuit: a running total x, advanced by a bit y that alternates,    *)
(* starting at the public value.  Its selectors are the verifier's.        *)
(***************************************************************************)
H == two_adic_generator(LOG_DEGREE)
Vanishing(z) == Fe(FPow(z, DEGREE) - 1)

selectors_at_point(z) ==
    [is_first_row |-> Fe(Vanishing(z) * FInv(Fe(z - 1))),
     is_last_row |-> Fe(Vanishing(z) * FInv(Fe(z - FInv(H)))),
     is_transition |-> Fe(z - FInv(H)),
     inv_vanishing |-> FInv(Vanishing(z))]

Constraints(sels, local, next, pv) ==
    LET x == local[1]
        y == local[2]
    IN <<Fe(sels.is_first_row * Fe(x - pv[1])),
         Fe(sels.is_transition * Fe(Fe(next[1] - x) - y)),
         Fe(x * Fe(y * Fe(y - 1))),
         Fe(sels.is_transition * Fe(Fe(next[2] + y) - 1)),
         Fe(sels.is_last_row * Fe(y - 1))>>

\* The quotient's domain is a coset twice the trace's size, split in two.
CHUNKS == 2
ChunkShift(i) == Fe(GENERATOR * FPow(two_adic_generator(LOG_DEGREE + 1), i))
ChunkVanishing(i, z) == Fe(FPow(Fe(z * FInv(ChunkShift(i))), DEGREE) - 1)
ChunkWeight(i, z) == LET j == 1 - i IN
    Fe(ChunkVanishing(j, z) * FInv(ChunkVanishing(j, ChunkShift(i))))
recompose_quotient_from_chunks(chunks, z) ==
    Fe(Fe(ChunkWeight(0, z) * chunks[1][1]) + Fe(ChunkWeight(1, z) * chunks[2][1]))

=============================================================================
