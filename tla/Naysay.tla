------------------------------- MODULE Naysay -------------------------------
(***************************************************************************)
(* The naysayer's ports (src/Circuits/src/naysay.rs) and the forger that   *)
(* tests them (forge.rs).  run_query computes one query of a proof and     *)
(* lists every comparison that fails: the opened rows against their roots, *)
(* each folded layer against its root, the last fold against the final     *)
(* polynomial.  forge makes a proof as the prover does, with one place     *)
(* where the values claimed at zeta may be changed before the transcript   *)
(* absorbs them; the proof of work and the queries are then made again.    *)
(***************************************************************************)
EXTENDS Stark

Bump(x) == Fe(x + 1)

(***************************************************************************)
(* The out of domain identity, constraint by constraint.                   *)
(***************************************************************************)
assert_zero(acc, alpha, v) == Fe(Fe(acc * alpha) + v)

accumulator(values, alpha) ==
    LET a[k \in 0..Len(values)] ==
            IF k = 0 THEN 0 ELSE assert_zero(a[k - 1], alpha, values[k])
    IN a[Len(values)]

SidesOf(values, chunks, alpha, zeta) ==
    [lhs |-> Fe(accumulator(values, alpha) * FInv(Vanishing(zeta))),
     rhs |-> recompose_quotient_from_chunks(chunks, zeta), values |-> values]
sides(local, next, chunks, pv, alpha, zeta) ==
    SidesOf(Constraints(selectors_at_point(zeta), local, next, pv), chunks, alpha, zeta)

\* The claims without their random codeword, which is each vector's last.
Public(ys) == SubSeq(ys, 1, Len(ys) - 1)
ClaimedSides(claims, pv, alpha, zeta) ==
    sides(Public(claims[2][1][1]), Public(claims[2][1][2]),
          <<Public(claims[3][1][1]), Public(claims[3][2][1])>>, pv, alpha, zeta)

Compared(s, zeta) == [holds |-> s.lhs = s.rhs, values |-> s.values,
                      target |-> Fe(s.rhs * Vanishing(zeta))]
identity(proof, pv, out) ==
    Compared(ClaimedSides(proof.claims, pv, out.alpha, out.zeta), out.zeta)

(***************************************************************************)
(* One query.  The matrices of each round with their opening points, the   *)
(* transcript's outputs, and the pieces every comparison is made of.       *)
(***************************************************************************)
next_point(z) == Fe(z * H)
Points(zeta) == <<<<zeta>>, <<zeta, next_point(zeta)>>, <<zeta>>>>

rounds(proof, zeta) ==
    [b \in 1..3 |-> [m \in 1..Len(proof.claims[b]) |->
        [z |-> Points(zeta)[b], at |-> proof.claims[b][m]]]]

\* Mutated: what the sponge has buffered is not compared.
pow_state_unbuffered(ch) == <<ch.state>>

\* The sponge as it stood when the proof of work was checked.
pow_state(ch) == <<ch.state, ch.input, ch.output>>

\* Drawn in order: the constraint alpha, zeta, the batching alpha, one
\* folding challenge a layer, the proof of work's bits, the positions.
LAYERS == 1..Len(LOG_ARITIES)
Read(t) ==
    [alpha |-> t.drawn[1], zeta |-> t.drawn[2], fri_alpha |-> t.drawn[3],
     betas |-> SubSeq(t.drawn, 4, 3 + Len(LOG_ARITIES)),
     pow_holds |-> PowHolds(t.drawn[4 + Len(LOG_ARITIES)]),
     positions |-> Positions(SubSeq(t.drawn, 5 + Len(LOG_ARITIES), Len(t.drawn)), LOG_GLOBAL),
     pow |-> pow_state(t.before), ops |-> t.ch.ops, final_state |-> t.ch.state]
outputs(proof, pv) == Read(Replayed(Script(proof, pv)))

walk(leaf, siblings, index) ==
    LET w[k \in 0..Len(siblings)] ==
            IF k = 0 THEN leaf
            ELSE IF (index \div 2^(k - 1)) % 2 = 0
                 THEN Compress(w[k - 1], siblings[k])
                 ELSE Compress(siblings[k], w[k - 1])
    IN <<w[Len(siblings)], index \div 2^Len(siblings)>>

\* Mutated: the digest reached is not compared.
at_root_anywhere(root, reached) == reached[2] = 0

at_root(root, reached) == reached[2] = 0 /\ reached[1] = root

interpolate(xs, ys, beta) ==
    LET term(i) ==
            LET t[j \in 0..Len(xs)] ==
                    IF j = 0 THEN ys[i]
                    ELSE IF j = i THEN t[j - 1]
                    ELSE Fe(Fe(t[j - 1] * Fe(beta - xs[j])) * FInv(Fe(xs[i] - xs[j])))
            IN t[Len(xs)]
    IN Total(Eager([i \in 1..Len(xs) |-> term(i)]))

fold(index, log_folded, log_arity, beta, evals) ==
    LET start == FPow(two_adic_generator(log_folded + log_arity),
                      reverse_bits_len(index, log_folded))
        shifted == Powers(two_adic_generator(log_arity), 2^log_arity)
        xs == reverse_slice(Eager([k \in 1..Len(shifted) |-> Fe(start * shifted[k])]), log_arity)
    IN interpolate(xs, evals, beta)

\* The point of the largest domain a query's index names.
x_of(index) == Fe(GENERATOR * FPow(two_adic_generator(LOG_GLOBAL),
                                   reverse_bits_len(index, LOG_GLOBAL)))

\* A loop of n turns, from a start.
Running(start, n, Turn(_, _)) ==
    LET r[k \in 0..n] == IF k = 0 THEN start ELSE Turn(r[k - 1], k) IN r[n]

\* One running power and sum through every round, matrix, point and column.
ReducedOpening(proof, out, q) ==
    LET x == x_of(out.positions[q])
        rs == rounds(proof, out.zeta)
        point(s, row, z, at_z) ==
            LET inv == FInv(Fe(z - x))
            IN Running(s, IF Len(row) < Len(at_z) THEN Len(row) ELSE Len(at_z),
                       LAMBDA t, k :
                           [pow |-> Fe(t.pow * out.fri_alpha),
                            ro |-> Fe(t.ro + Fe(Fe(t.pow * Fe(at_z[k] - row[k])) * inv))])
        matrix(s, row, m) ==
            Running(s, Len(m.z), LAMBDA t, p : point(t, row, m.z[p], m.at[p]))
        round(s, b) ==
            Running(s, Len(rs[b]),
                    LAMBDA t, m : matrix(t, proof.queries[q].input[b].rows[m], rs[b][m]))
    IN Running([pow |-> 1, ro |-> 0], 3, round).ro

Coincides(proof, out, q) ==
    \E b \in 1..3 : \E m \in DOMAIN rounds(proof, out.zeta)[b] :
        \E z \in {Points(out.zeta)[b][p] : p \in DOMAIN Points(out.zeta)[b]} :
            Fe(z - x_of(out.positions[q])) = 0

\* A round's opened rows, each followed by its salt, as the leaf hashes them.
SaltedRows(opening) ==
    Flat(Eager([m \in 1..Len(opening.rows) |-> opening.rows[m] \o opening.salts[m]]))

\* Mutated: the rows are counted and not measured.
widths_ok_counted(opening, mats) ==
    /\ Len(opening.rows) = Len(mats) /\ Len(opening.salts) = Len(mats)

widths_ok(opening, mats) ==
    /\ Len(opening.rows) = Len(mats) /\ Len(opening.salts) = Len(mats)
    /\ \A m \in 1..Len(mats) : Len(opening.rows[m]) = Len(mats[m].at[1])

InputRootHolds(proof, out, q, b) ==
    LET opening == proof.queries[q].input[b]
    IN /\ widths_ok(opening, rounds(proof, out.zeta)[b])
       /\ Len(opening.path) = LOG_GLOBAL
       /\ at_root(proof.roots[b],
                  walk(Hash(SaltedRows(opening)), opening.path, out.positions[q]))

\* The folded value put among its siblings at the query's place.
Among(folded, siblings, pos, arity) ==
    Upto(arity, LAMBDA j : IF j = pos THEN folded
                           ELSE IF j < pos THEN siblings[j + 1] ELSE siblings[j])

LayerRootHolds(proof, step, r, evals, lf, di) ==
    /\ Len(step.siblings) = Len(evals) - 1 /\ Len(step.path) = lf
    /\ at_root(proof.commits[r], walk(Hash(evals \o step.salt), step.path, di))

LayerJudged(s, proof, out, q, r, evals, lf, di) ==
    [folded |-> fold(di, lf, LOG_ARITIES[r], out.betas[r], evals), di |-> di, lh |-> lf,
     failed |-> IF LayerRootHolds(proof, proof.queries[q].layers[r], r, evals, lf, di)
                THEN s.failed ELSE Append(s.failed, <<"LayerRoot", r - 1>>)]
Layer(s, proof, out, q, r) ==
    LET arity == 2^LOG_ARITIES[r]
    IN LayerJudged(s, proof, out, q, r,
               Among(s.folded, proof.queries[q].layers[r].siblings, s.di % arity, arity),
               s.lh - LOG_ARITIES[r], s.di \div arity)

FinalHolds(proof, s) ==
    LET x == FPow(two_adic_generator(LOG_GLOBAL), reverse_bits_len(s.di, LOG_GLOBAL))
    IN s.lh = LOG_BLOWUP + LOG_FINAL_POLY_LEN /\ Horner(proof.final_poly, x) = s.folded

InputFailures(proof, out, q) ==
    (IF Coincides(proof, out, q) THEN <<<<"Coincides", 0>>>> ELSE <<>>)
    \o (LET bad == SelectSeq(<<1, 2, 3>>, LAMBDA b : ~InputRootHolds(proof, out, q, b))
        IN Eager([i \in 1..Len(bad) |-> <<"InputRoot", bad[i] - 1>>]))

Layers(proof, out, q, reduced, failed) ==
    LET l[r \in 0..Len(LOG_ARITIES)] ==
            IF r = 0 THEN [folded |-> reduced, di |-> out.positions[q],
                           lh |-> LOG_GLOBAL, failed |-> failed]
            ELSE Layer(l[r - 1], proof, out, q, r)
    IN l[Len(LOG_ARITIES)]

Ran(proof, reduced, last) ==
    [reduced |-> reduced, final_index |-> last.di,
     failed |-> IF FinalHolds(proof, last) THEN last.failed
                ELSE Append(last.failed, <<"Final", 0>>)]
RunFrom(proof, out, q, reduced) ==
    Ran(proof, reduced, Layers(proof, out, q, reduced, InputFailures(proof, out, q)))
run_query(proof, out, q) ==
    RunFrom(proof, out, q, ReducedOpening(proof, out, q))

(***************************************************************************)
(* The prover: a trace, its extension to the commitment's domain with a    *)
(* random codeword beside each matrix's columns, and the quotient.         *)
(***************************************************************************)
Breaks == {"none", "start", "bit"}

Codeword(seed, k) == Upto(DEGREE, LAMBDA i : Fe(seed * 613 + 211 * k + (i + 3) * (i + 3) * (k + 7)))

\* RunStartMismatch: the statement names another start; the other control
\* takes a bit that is not one.
Trace(brk) ==
    LET y(i) == IF brk = "bit" /\ i = 2 THEN 2 ELSE i % 2
        x[i \in 0..(DEGREE - 1)] == IF i = 0 THEN 5 ELSE x[i - 1] + y(i - 1)
    IN <<Upto(DEGREE, LAMBDA i : x[i]), Upto(DEGREE, LAMBDA i : y(i))>>
PublicValues(brk) == <<IF brk = "start" THEN 6 ELSE 5>>

Evaluated(cols) == Upto(HEIGHT, LAMBDA r :
    Eager([c \in 1..Len(cols) |-> Horner(cols[c], x_of(r))]))
ValuesAt(cols, z) == Eager([c \in 1..Len(cols) |-> Horner(cols[c], z)])

QuotientAt(cols, pv, alpha, x) ==
    Fe(accumulator(Constraints(selectors_at_point(x), ValuesAt(cols, x),
                               ValuesAt(cols, next_point(x)), pv), alpha)
       * FInv(Vanishing(x)))
Products(u, v) == Eager([k \in 1..Len(u) |-> Fe(u[k] * v[k])])
ChunkColumn(cols, pv, alpha, i) ==
    Products(idft(Upto(DEGREE, LAMBDA j :
                    QuotientAt(cols, pv, alpha, Fe(ChunkShift(i) * FPow(H, j)))), H),
             Powers(FInv(ChunkShift(i)), DEGREE))

(***************************************************************************)
(* What the forger changes before the claims are absorbed.                 *)
(***************************************************************************)
Lies == {"None", "TraceAtZeta", "TraceAtNext", "QuotientChunk",
         "BalanceIdentity", "BalanceAndSmooth"}

\* The quotient is linear in the chunk's value, so one probe gives the step.
StepTo(now, probe) == Fe(Fe(now.lhs - now.rhs) * FInv(Fe(probe.rhs - now.rhs)))
Balance(claims, pv, alpha, zeta) ==
    StepTo(ClaimedSides(claims, pv, alpha, zeta),
           ClaimedSides([claims EXCEPT ![3][1][1][1] = Bump(@)], pv, alpha, zeta))

apply(lie, claims, pv, alpha, zeta) ==
    CASE lie = "None" -> claims
      [] lie = "TraceAtZeta" -> [claims EXCEPT ![2][1][1][1] = Bump(@)]
      [] lie = "TraceAtNext" -> [claims EXCEPT ![2][1][2][1] = Bump(@)]
      [] lie = "QuotientChunk" -> [claims EXCEPT ![3][1][1][1] = Bump(@)]
      [] lie \in {"BalanceIdentity", "BalanceAndSmooth"} ->
            [claims EXCEPT ![3][1][1][1] = Fe(@ + Balance(claims, pv, alpha, zeta))]

Cut(c, keep) == Eager([k \in 1..Len(c) |-> IF k <= keep THEN c[k] ELSE 0])
low_degree_part(v, keep) ==
    LET g == two_adic_generator(LOG_GLOBAL)
    IN reverse_slice(dft(Cut(idft(reverse_slice(v, LOG_GLOBAL), g), keep), g), LOG_GLOBAL)

\* The vector committed as layer 0: every (matrix, point) pair's quotient,
\* each offset by the columns that came before it.
Pairs(lde, zeta) == Flat(Eager([b \in 1..3 |-> Flat(Eager([m \in 1..Len(lde[b]) |->
                        Eager([p \in 1..Len(Points(zeta)[b]) |-> <<b, m, p>>])]))]))
Dot(ys, pow) == Total(Products(ys, SubSeq(pow, 1, Len(ys))))
Used(pairs, claims) ==
    Eager([k \in 1..Len(pairs) |->
        LET u[i \in 0..k] == IF i = 0 THEN 1
                             ELSE IF i = k THEN u[i - 1]
                             ELSE u[i - 1] + Len(claims[pairs[i][1]][pairs[i][2]][1])
        IN u[k]])
BatchedOver(pairs, used, lde, claims, zeta, pow) ==
    LET term(k, r, b, m, p) ==
            Fe(Fe(pow[used[k]] * Fe(Dot(claims[b][m][p], pow) - Dot(lde[b][m][r + 1], pow)))
               * FInv(Fe(Points(zeta)[b][p] - x_of(r))))
    IN Upto(HEIGHT, LAMBDA r : Total(Eager([k \in 1..Len(pairs) |->
            term(k, r, pairs[k][1], pairs[k][2], pairs[k][3])])))
BatchedPairs(pairs, lde, claims, zeta, alpha) ==
    BatchedOver(pairs, Used(pairs, claims), lde, claims, zeta, Powers(alpha, 32))
Batched(lde, claims, zeta, alpha) == BatchedPairs(Pairs(lde, zeta), lde, claims, zeta, alpha)

layer0(lie, batched) ==
    IF lie = "BalanceAndSmooth" THEN low_degree_part(batched, HEIGHT \div 2^LOG_BLOWUP) ELSE batched

\* prove_fri: commit a layer, draw its challenge, fold, and read the final
\* polynomial off the first values of the last layer.
Group(v, arity, i) == SubSeq(v, i * arity + 1, (i + 1) * arity)
LayerSalt(r, i) == <<Salt(10 + r, 0, i)>>
LayerLeaves(v, r) ==
    Upto(Len(v) \div 2^LOG_ARITIES[r],
         LAMBDA i : Hash(Group(v, 2^LOG_ARITIES[r], i) \o LayerSalt(r, i)))
FoldAll(v, r, lf, beta) ==
    Upto(Len(v) \div 2^LOG_ARITIES[r],
         LAMBDA i : fold(i, lf, LOG_ARITIES[r], beta, Group(v, 2^LOG_ARITIES[r], i)))
FINAL_POLY_LEN == 2^LOG_FINAL_POLY_LEN
ReadFinal(values) ==
    idft(reverse_slice(SubSeq(values, 1, FINAL_POLY_LEN), LOG_FINAL_POLY_LEN),
         two_adic_generator(LOG_FINAL_POLY_LEN))

\* What a query opens: its row in each round, its siblings in each layer.
OpenInput(lde, trees, b, i) ==
    [rows |-> Eager([m \in 1..Len(lde[b]) |-> lde[b][m][i + 1]]),
     salts |-> Eager([m \in 1..Len(lde[b]) |-> <<Salt(b, m, i)>>]),
     path |-> OpenAt(trees[b], i)]
Without(s, k) == SubSeq(s, 1, k) \o SubSeq(s, k + 2, Len(s))
OpenLayer(work, r, i) ==
    LET arity == 2^LOG_ARITIES[r]
    IN [siblings |-> Without(Group(work.layers[r], arity, i \div arity), i % arity),
        salt |-> LayerSalt(r, i \div arity), path |-> OpenAt(work.layer_trees[r], i \div arity)]
LayerIndex(index, r) ==
    LET d[k \in 1..r] == IF k = 1 THEN index ELSE d[k - 1] \div 2^LOG_ARITIES[k - 1] IN d[r]
OpenQuery(work, i) ==
    [input |-> Eager([b \in 1..3 |-> OpenInput(work.lde, work.trees, b, i)]),
     layers |-> Eager([r \in 1..Len(LOG_ARITIES) |-> OpenLayer(work, r, LayerIndex(i, r))])]

\* The columns each round commits, and the values they honestly have.
TraceColumns(brk, seed) ==
    Append(Eager([c \in 1..2 |-> idft(Trace(brk)[c], H)]), Codeword(seed, 1))
ChunkColumns(cols, pv, alpha, seed) ==
    Eager([i \in 1..CHUNKS |-> <<ChunkColumn(cols, pv, alpha, i - 1), Codeword(seed, i + 1)>>])
HidingColumns(seed) == <<Codeword(seed, 4), Codeword(seed, 5)>>
HonestClaims(columns, zeta) ==
    Eager([b \in 1..3 |-> Eager([m \in 1..Len(columns[b]) |->
        Eager([p \in 1..Len(Points(zeta)[b]) |-> ValuesAt(columns[b][m], Points(zeta)[b][p])])])])

Roots(trees) == Eager([k \in 1..Len(trees) |-> Root(trees[k])])
Assembled(work, final_poly, witness) ==
    [roots |-> Roots(work.trees), claims |-> work.claims, commits |-> Roots(work.layer_trees),
     final_poly |-> final_poly, pow_witness |-> witness, layer0 |-> work.layers[1],
     queries |-> <<>>]

(***************************************************************************)
(* The corruptions: of one query's proof, which the transcript never       *)
(* absorbs, and of the values it does absorb.                              *)
(***************************************************************************)
QueryCorruptions ==
    {<<"row", b>> : b \in 1..3} \cup {<<"boundary", b>> : b \in 1..3}
    \cup {<<"salt", 2>>} \cup {<<"path", level>> : level \in {1, LOG_GLOBAL}}
    \cup {<<"sibling", r>> : r \in LAYERS} \cup {<<"layer salt", r>> : r \in LAYERS}
    \cup {<<"layer path", r>> : r \in LAYERS}

\* The last value of a row moved into its salt: the leaf hashes the same.
Boundary(opening) ==
    LET row == opening.rows[1]
    IN [opening EXCEPT !.rows[1] = Public(row), !.salts[1] = <<row[Len(row)]>> \o @]

corrupt_query(qp, label) ==
    LET k == label[2] IN
    CASE label[1] = "row" -> [qp EXCEPT !.input[k].rows[1][1] = Bump(@)]
      [] label[1] = "boundary" -> [qp EXCEPT !.input[k] = Boundary(@)]
      [] label[1] = "salt" -> [qp EXCEPT !.input[k].salts[1][1] = Bump(@)]
      [] label[1] = "path" -> [qp EXCEPT !.input[2].path[k][1] = Bump(@)]
      [] label[1] = "sibling" -> [qp EXCEPT !.layers[k].siblings[1] = Bump(@)]
      [] label[1] = "layer salt" -> [qp EXCEPT !.layers[k].salt[1] = Bump(@)]
      [] label[1] = "layer path" -> [qp EXCEPT !.layers[k].path[1][1] = Bump(@)]

\* Where the ports and the verifier must first reject it.
LandsAt(label) ==
    CASE label[1] \in {"row", "boundary"} -> <<"InputRoot", label[2] - 1>>
      [] label[1] \in {"salt", "path"} -> <<"InputRoot", 1>>
      [] label[1] \in {"sibling", "layer salt", "layer path"} -> <<"LayerRoot", label[2] - 1>>

AbsorbedCorruptions == {"trace at zeta", "trace at next", "quotient chunk",
                        "final polynomial", "pow witness", "public value"}

corrupt_absorbed(proof, label) ==
    CASE label = "trace at zeta" -> [proof EXCEPT !.claims[2][1][1][1] = Bump(@)]
      [] label = "trace at next" -> [proof EXCEPT !.claims[2][1][2][1] = Bump(@)]
      [] label = "quotient chunk" -> [proof EXCEPT !.claims[3][1][1][1] = Bump(@)]
      [] label = "final polynomial" -> [proof EXCEPT !.final_poly[1] = Bump(@)]
      [] label = "pow witness" -> [proof EXCEPT !.pow_witness = Bump(@)]
      [] label = "public value" -> proof

=============================================================================
