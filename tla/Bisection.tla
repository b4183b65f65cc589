----------------------------- MODULE Bisection -----------------------------
(***************************************************************************)
(* What a challenged defender asserts, and the game that decides it        *)
(* (src/Circuits/src/assertion.rs).  Each long check of the verifier is a  *)
(* chain: a start and a step applied n times.  The naysayer builds the     *)
(* true chain, the defender asserts another that ends elsewhere, and the   *)
(* bisection keeps the half where the two first differ until one step is   *)
(* left, which an adjudicator computes alone.                              *)
(***************************************************************************)
EXTENDS Naysay

CONSTANT MAX_ROUNDS          \* no chain is longer than 2^MAX_ROUNDS steps

MAX_STEPS == 2^MAX_ROUNDS

\* The powers of two up to MAX_STEPS are what they are.
ASSUME RoundsAssumption ==
    /\ MAX_ROUNDS \in Nat
    /\ \A r \in 0..MAX_ROUNDS : 2^r \in Nat
    /\ 2^0 = 1 /\ \A r \in 1..MAX_ROUNDS : 2^r = 2 * 2^(r - 1)

VARIABLES chain,             \* the check in dispute
          states,            \* the naysayer's states, 0 to the steps done
          claimed,           \* the defender's, likewise
          lied,              \* the state the defender changed
          lo, hi, rounds_played,
          rejects,           \* the adjudicator's verdict on the last step
          phase

gameVars == <<chain, states, claimed, lied, lo, hi, rounds_played, rejects, phase>>

(***************************************************************************)
(* The steps.  One permutation of the transcript's duplex, one of a leaf's *)
(* sponge, one constraint of the identity, one term of a reduced opening.  *)
(***************************************************************************)
duplex(s, chunk) ==
    IF chunk = <<>> THEN Permute(s)
    ELSE Permute([Overwrite(s, chunk \o [i \in 1..(RATE - Len(chunk)) |-> 0])
                    EXCEPT ![RATE + 1] = Fe(@ + Len(chunk))])

\* Mutated: a leaf's last block is filled up with zeros.
sponge_filled(s, chunk) ==
    Permute(Overwrite(s, chunk \o [i \in 1..(RATE - Len(chunk)) |-> 0]))

sponge(s, chunk) == Permute(Overwrite(s, chunk))

\* Every (column, point) pair of one query, in the order the query sums them.
reduced_terms(proof, out, q) ==
    LET x == x_of(out.positions[q])
        rs == rounds(proof, out.zeta)
        at(row, z, ys) ==
            LET n == IF Len(row) < Len(ys) THEN Len(row) ELSE Len(ys)
                inv == FInv(Fe(z - x))
            IN Eager([k \in 1..n |-> [at_x |-> row[k], at_z |-> ys[k], inv |-> inv]])
        of(b, m) == Flat(Eager([p \in 1..Len(rs[b][m].z) |->
                        at(proof.queries[q].input[b].rows[m], rs[b][m].z[p], rs[b][m].at[p])]))
    IN Flat(Eager([b \in 1..3 |-> Flat(Eager([m \in 1..Len(rs[b]) |-> of(b, m)]))]))

\* The power of the batching challenge, and the sum so far.
AddTerm(s, t, fri_alpha) ==
    <<Fe(s[1] * fri_alpha),
      Fe(s[2] + Fe(Fe(s[1] * Fe(t.at_z - t.at_x)) * t.inv))>>

Step(c, k, s) ==
    CASE c.kind = "transcript" -> duplex(s, c.data[k + 1])
      [] c.kind = "leaf" -> sponge(s, c.data[k + 1])
      [] c.kind = "identity" -> Fe(Fe(s * c.alpha) + c.data[k + 1])
      [] c.kind = "reduced" -> AddTerm(s, c.data[k + 1], c.alpha)

\* A changed sponge state, changed in the capacity.
bump8(s) == [s EXCEPT ![WIDTH] = Bump(@)]

Change(c, s, d) ==
    CASE c.kind \in {"transcript", "leaf"} -> bump8(s)
      [] c.kind = "identity" -> Fe(s + d)
      [] c.kind = "reduced" -> <<s[1], Fe(s[2] + d)>>

(***************************************************************************)
(* The transcript's permutations and draws, replayed from every element in *)
(* and out of it.                                                          *)
(***************************************************************************)
Go(t) == LET s == duplex(t.state, t.input) IN
    [t EXCEPT !.state = s, !.input = <<>>, !.output = SubSeq(s, 1, RATE),
              !.chunks = Append(@, t.input)]

Replay(t, op) ==
    IF op[1] = "In"
    THEN LET fed == [t EXCEPT !.output = <<>>, !.input = Append(@, op[2])]
         IN IF Len(fed.input) = RATE THEN Go(fed) ELSE fed
    ELSE LET full == IF t.input # <<>> \/ t.output = <<>> THEN Go(t) ELSE t
         IN [full EXCEPT !.output = SubSeq(@, 1, Len(@) - 1),
                         !.agrees = @ /\ full.output[Len(full.output)] = op[2]]

transcript(ops) ==
    LET t[k \in 0..Len(ops)] ==
            IF k = 0 THEN [state |-> ZEROS, input |-> <<>>, output |-> <<>>,
                           chunks |-> <<>>, agrees |-> TRUE]
            ELSE Replay(t[k - 1], ops[k])
    IN t[Len(ops)]

(***************************************************************************)
(* The chains a proof gives rise to, each with what its true end has to    *)
(* meet.  A forger may need its chain to end at one value: `cover` holds   *)
(* it, or nothing.                                                         *)
(***************************************************************************)
None == {}
Chain(kind, data, start, alpha, cover, meets) ==
    [kind |-> kind, data |-> data, n |-> Len(data), start |-> start,
     alpha |-> alpha, cover |-> cover, meets |-> meets]

TranscriptChain(out) ==
    LET t == transcript(out.ops)
    IN Chain("transcript", t.chunks, ZEROS, 0, None, <<t.agrees, out.final_state>>)
IdentityChain(proof, pv, out, cover) ==
    LET id == identity(proof, pv, out)
    IN Chain("identity", id.values, 0, out.alpha, cover, id.target)
ReducedChain(proof, out, q, cover, reduced) ==
    Chain("reduced", reduced_terms(proof, out, q), <<1, 0>>, out.fri_alpha, cover, reduced)
LeafChain(proof, out, q, b) ==
    LET opening == proof.queries[q].input[b]
    IN Chain("leaf", Blocks(SaltedRows(opening)), ZEROS, 0, None,
             <<proof.roots[b], opening.path, out.positions[q]>>)

(***************************************************************************)
(* The game.  Chain::build runs the naysayer's steps; lie_at agrees up to  *)
(* state j - 1, changes state j and steps honestly on; bisect plays.       *)
(***************************************************************************)
GameInit ==
    /\ chain = "none" /\ states = <<>> /\ claimed = <<>> /\ lied = 0
    /\ lo = 0 /\ hi = 0 /\ rounds_played = 0 /\ rejects = FALSE /\ phase = "idle"

Open(c) ==
    /\ phase = "idle" /\ c.n \in 1..MAX_STEPS
    /\ chain' = c /\ states' = [k \in 0..0 |-> c.start] /\ phase' = "build"
    /\ hi' = 0
    /\ UNCHANGED <<claimed, lied, lo, rounds_played, rejects>>

\* hi counts the states there are so far, here and while the lie is told.
Build ==
    /\ phase = "build" /\ hi < chain.n
    /\ states' = [k \in 0..(hi + 1) |->
                    IF k <= hi THEN states[k] ELSE Step(chain, hi, states[hi])]
    /\ hi' = hi + 1
    /\ UNCHANGED <<chain, claimed, lied, lo, rounds_played, rejects, phase>>

\* The change that reaches the cover from state j: a change of d there
\* arrives at the identity's end as d * alpha^(n - j), at a reduced
\* opening's unchanged.
CoverBy(c, end, j) ==
    IF c.cover = None THEN 1
    ELSE LET target == CHOOSE v \in c.cover : TRUE
         IN IF c.kind = "identity"
            THEN Fe(Fe(target - end) * FInv(FPow(c.alpha, c.n - j)))
            ELSE Fe(target - end[2])

lie_at(j) ==
    /\ phase = "build" /\ hi = chain.n /\ j \in 1..chain.n
    /\ claimed' = [k \in 0..j |-> IF k < j THEN states[k]
                    ELSE Change(chain, states[j], CoverBy(chain, states[chain.n], j))]
    /\ lied' = j /\ hi' = j /\ phase' = "claim"
    /\ UNCHANGED <<chain, states, lo, rounds_played, rejects>>

StepOn ==
    /\ phase = "claim" /\ hi < chain.n
    /\ claimed' = [k \in 0..(hi + 1) |->
                    IF k <= hi THEN claimed[k] ELSE Step(chain, hi, claimed[hi])]
    /\ hi' = hi + 1
    /\ UNCHANGED <<chain, states, lied, lo, rounds_played, rejects, phase>>

\* A dispute needs a disputed end.
Bisect ==
    /\ phase = "claim" /\ hi = chain.n
    /\ claimed[0] = states[0] /\ claimed[chain.n] # states[chain.n]
    /\ lo' = 0 /\ phase' = "play"
    /\ UNCHANGED <<chain, states, claimed, lied, hi, rounds_played, rejects>>

Mid == (lo + hi) \div 2

\* Mutated: the two halves are swapped.
RoundSwapped ==
    /\ phase = "play" /\ hi - lo > 1
    /\ rounds_played' = rounds_played + 1
    /\ \/ claimed[Mid] = states[Mid] /\ hi' = Mid /\ lo' = lo
       \/ claimed[Mid] # states[Mid] /\ lo' = Mid /\ hi' = hi
    /\ UNCHANGED <<chain, states, claimed, lied, rejects, phase>>

Round ==
    /\ phase = "play" /\ hi - lo > 1
    /\ rounds_played' = rounds_played + 1
    /\ \/ claimed[Mid] = states[Mid] /\ lo' = Mid /\ hi' = hi
       \/ claimed[Mid] # states[Mid] /\ hi' = Mid /\ lo' = lo
    /\ UNCHANGED <<chain, states, claimed, lied, rejects, phase>>

Adjudicate ==
    /\ phase = "play" /\ hi - lo <= 1
    /\ rejects' = (Step(chain, lo, claimed[lo]) # claimed[hi])
    /\ phase' = "decided"
    /\ UNCHANGED <<chain, states, claimed, lied, lo, hi, rounds_played>>

Play == \/ Build \/ (\E j \in 1..MAX_STEPS : lie_at(j)) \/ StepOn \/ Bisect \/ Round \/ Adjudicate

\* ceil(log2 n), the trailing zeros of the next power of two.
rounds_for(n) == CHOOSE r \in 0..MAX_ROUNDS : n <= 2^r /\ \A s \in 0..(r - 1) : 2^s < n

=============================================================================
