----------------------------- MODULE Challenge -----------------------------
(***************************************************************************)
(* Disputing a proof by its structure, end to end.  A prover or a forger   *)
(* makes a proof and its queries are run one at a time; the proof may be   *)
(* corrupted and judged again; and a judged proof's long checks are        *)
(* disputed by the game of Bisection, the defender lying where it likes,   *)
(* or where a forgery has to.                                              *)
(***************************************************************************)
EXTENDS Bisection

CONSTANTS SEEDS              \* a forgery is made once with each randomness

VARIABLES stage, job,
          work,              \* what the prover has made so far
          proof, out, runs, asked
proofVars == <<stage, job, work, proof, out, runs, asked>>
vars == <<proofVars, gameVars>>

Nothing == <<"nothing", 0>>
HonestCase(j) == j.brk = "none" /\ j.lie = "None"

\* The rows of forge.rs: a true statement lied about at each place, and a
\* false one proved honestly, balanced, and balanced and smoothed.
Forgeries ==
    {<<"none", lie>> : lie \in {"None", "TraceAtZeta", "TraceAtNext", "QuotientChunk"}}
    \cup {<<brk, lie>> : brk \in Breaks \ {"none"}, lie \in {"None", "BalanceIdentity", "BalanceAndSmooth"}}

Init ==
    /\ stage = "start" /\ job = Nothing /\ work = Nothing /\ proof = Nothing /\ out = Nothing
    /\ runs = <<>> /\ asked = Nothing
    /\ GameInit

(***************************************************************************)
(* forge, step for step: the trace committed, the quotient and the hiding  *)
(* polynomial, the claims with the forger's change in them, one folded     *)
(* layer after another, and the queries.                                   *)
(***************************************************************************)
CommitTrace ==
    /\ stage = "start"
    /\ \E f \in Forgeries, seed \in SEEDS :
        /\ job' = [brk |-> f[1], lie |-> f[2], seed |-> seed, pv |-> PublicValues(f[1]),
                   label |-> Nothing, query |-> 0]
        /\ \E cols \in {TraceColumns(f[1], seed)} : \E lde \in {<<Evaluated(cols)>>} :
           \E tree \in {CommitTree(2, lde)} :
            work' = [cols |-> cols, lde |-> <<<<>>, lde>>, trees |-> <<<<>>, tree>>,
                     drawn |-> Sample(ObserveAll(Fresh, TraceAbsorbs(Root(tree), PublicValues(f[1]))))]
    /\ stage' = "traced"
    /\ UNCHANGED <<proof, out, runs, asked, gameVars>>

CommitQuotient ==
    /\ stage = "traced"
    /\ \E chunks \in {ChunkColumns(work.cols, job.pv, work.drawn.value, job.seed)},
          hiding \in {HidingColumns(job.seed)} :
       \E q_lde \in {Eager([i \in 1..CHUNKS |-> Evaluated(chunks[i])])}, r_lde \in {<<Evaluated(hiding)>>} :
       \E q_tree \in {CommitTree(3, q_lde)}, r_tree \in {CommitTree(1, r_lde)} :
        work' = [columns |-> <<<<hiding>>, <<work.cols>>, chunks>>,
                 lde |-> <<r_lde, work.lde[2], q_lde>>,
                 trees |-> <<r_tree, work.trees[2], q_tree>>, alpha |-> work.drawn.value,
                 drawn |-> Sample(ObserveAll(work.drawn.ch, Root(q_tree) \o Root(r_tree)))]
    /\ stage' = "quotient"
    /\ UNCHANGED <<job, proof, out, runs, asked, gameVars>>

OpenClaims ==
    /\ stage = "quotient"
    /\ \E zeta \in {work.drawn.value} :
       \E claims \in {apply(job.lie, HonestClaims(work.columns, zeta), job.pv, work.alpha, zeta)} :
       \E drawn \in {Sample(ObserveAll(work.drawn.ch, FlatClaims(claims)))} :
       \E first \in {layer0(job.lie, Batched(work.lde, claims, zeta, drawn.value))} :
        work' = [lde |-> work.lde, trees |-> work.trees, claims |-> claims,
                 ch |-> drawn.ch, values |-> first, lh |-> LOG_GLOBAL,
                 layers |-> <<>>, layer_trees |-> <<>>]
    /\ stage' = "folding"
    /\ UNCHANGED <<job, proof, out, runs, asked, gameVars>>

FoldLayer ==
    /\ stage = "folding" /\ Len(work.layers) < Len(LOG_ARITIES)
    /\ \E r \in {Len(work.layers) + 1} : \E lf \in {work.lh - LOG_ARITIES[r]} :
       \E tree \in {Tree(LayerLeaves(work.values, r), lf)} :
       \E drawn \in {Sample(ObserveAll(work.ch, Root(tree)))} :
        work' = [work EXCEPT !.values = FoldAll(@, r, lf, drawn.value), !.lh = lf,
                             !.ch = drawn.ch, !.layers = Append(@, work.values),
                             !.layer_trees = Append(@, tree)]
    /\ UNCHANGED <<stage, job, proof, out, runs, asked, gameVars>>

Prove ==
    /\ stage = "folding" /\ Len(work.layers) = Len(LOG_ARITIES)
    /\ \E final_poly \in {ReadFinal(work.values)} : \E witness \in {grind(work.ch, final_poly)} :
       \E made \in {Assembled(work, final_poly, witness)} : \E o \in {outputs(made, job.pv)} :
        /\ proof' = [made EXCEPT !.queries = Eager([q \in 1..NUM_QUERIES |->
                                                OpenQuery(work, o.positions[q])])]
        /\ out' = o
    /\ stage' = "judging" /\ work' = Nothing /\ runs' = <<>>
    /\ UNCHANGED <<job, asked, gameVars>>

RunQuery ==
    /\ stage = "judging" /\ Len(runs) < NUM_QUERIES
    /\ runs' = Append(runs, run_query(proof, out, Len(runs) + 1))
    /\ UNCHANGED <<stage, job, work, proof, out, asked, gameVars>>

Judge ==
    /\ stage = "judging" /\ Len(runs) = NUM_QUERIES
    /\ stage' = "judged"
    /\ UNCHANGED <<job, work, proof, out, runs, asked, gameVars>>

\* One query of the honest proof, corrupted, judged under its transcript.
land(label, q) ==
    /\ stage = "judged" /\ HonestCase(job) /\ job.label = Nothing /\ phase = "idle"
    /\ LET p == [proof EXCEPT !.queries[q] = corrupt_query(@, label)]
       IN /\ proof' = p /\ out' = outputs(p, job.pv)
    /\ job' = [job EXCEPT !.label = label, !.query = q]
    /\ asked' = out.pow /\ runs' = <<>> /\ stage' = "judging"
    /\ UNCHANGED <<work, gameVars>>

\* A value the transcript absorbs, corrupted.
land_absorbed(label) ==
    /\ stage = "judged" /\ HonestCase(job) /\ job.label = Nothing /\ phase = "idle"
    /\ LET p == corrupt_absorbed(proof, label)
           pv == IF label = "public value" THEN <<Bump(job.pv[1])>> ELSE job.pv
       IN /\ proof' = p /\ out' = outputs(p, pv)
          /\ job' = [job EXCEPT !.label = <<label, 0>>, !.pv = pv]
    /\ asked' = out.pow /\ runs' = <<>> /\ stage' = "judging"
    /\ UNCHANGED <<work, gameVars>>

\* The first and the last query, and one between.
Queried == {1, (NUM_QUERIES + 1) \div 2, NUM_QUERIES}

\* The chains assertion.rs plays: every long check of an honest proof, and
\* the ones a forged proof has to be covered in.
Disputes ==
    CASE job.label # Nothing -> {}
      [] HonestCase(job) ->
            {TranscriptChain(out), IdentityChain(proof, job.pv, out, None),
             ReducedChain(proof, out, 1, None, runs[1].reduced)}
            \cup {LeafChain(proof, out, 1, b) : b \in 1..3}
      [] ~HonestCase(job) /\ job.label = Nothing /\ job.lie = "None" ->
            {IdentityChain(proof, job.pv, out, {identity(proof, job.pv, out).target})}
      [] job.lie = "BalanceAndSmooth" ->
            {ReducedChain(proof, out, 1, {proof.layer0[out.positions[1] + 1]},
                          runs[1].reduced)}
      [] OTHER -> {}

\* From here on the game is about the chain alone.
Dispute ==
    /\ stage = "judged" /\ \E c \in Disputes : Open(c)
    /\ stage' = "disputed" /\ proof' = Nothing /\ out' = Nothing /\ runs' = <<>>
    /\ UNCHANGED <<job, work, asked>>

Next ==
    \/ CommitTrace \/ CommitQuotient \/ OpenClaims \/ FoldLayer \/ Prove
    \/ RunQuery \/ Judge
    \/ \E q \in Queried, label \in QueryCorruptions : land(label, q)
    \/ \E label \in AbsorbedCorruptions : land_absorbed(label)
    \/ Dispute
    \/ Play /\ UNCHANGED proofVars

Spec == Init /\ [][Next]_vars

-----------------------------------------------------------------------------
Judged == stage = "judged"
Failing == {q \in 1..Len(runs) : runs[q].failed # <<>>}
Accepted == out.pow_holds /\ Failing = {} /\ identity(proof, job.pv, out).holds

(***************************************************************************)
(* Row::holds of forge.rs.  A proof made without a lie passes every query, *)
(* and the identity alone tells a false statement from a true one.  A lie  *)
(* folded honestly is seen by every query except those landing where the   *)
(* final polynomial was read from; a smoothed one by every query, first at *)
(* layer 0.                                                                *)
(***************************************************************************)
ForgeriesFail ==
    Judged /\ job.label = Nothing =>
        /\ out.pow_holds
        /\ identity(proof, job.pv, out).holds <=>
                HonestCase(job) \/ job.lie \in {"BalanceIdentity", "BalanceAndSmooth"}
        /\ CASE job.lie = "None" -> Failing = {}
             [] job.lie = "BalanceAndSmooth" ->
                    \A q \in 1..NUM_QUERIES :
                        /\ runs[q].failed # <<>> /\ runs[q].failed[1] = <<"LayerRoot", 0>>
             [] OTHER -> \A q \in 1..NUM_QUERIES :
                    q \in Failing <=> runs[q].final_index >= FINAL_POLY_LEN

(***************************************************************************)
(* A corruption inside one query's proof leaves the transcript as it was,  *)
(* fails that query and no other, and fails first at the comparison that   *)
(* reads the corrupted value; a corrupted salt or path fails nothing else. *)
(***************************************************************************)
CorruptionsLand ==
    Judged /\ job.label \in QueryCorruptions =>
        /\ out.pow = asked
        /\ Failing = {job.query}
        /\ runs[job.query].failed[1] = LandsAt(job.label)
        /\ job.label[1] \in {"salt", "path", "layer salt", "layer path"} =>
                Len(runs[job.query].failed) = 1

(***************************************************************************)
(* A corruption of a value the transcript absorbs moves the state every    *)
(* query position is drawn from, and the proof is rejected.                *)
(***************************************************************************)
PositionsMove ==
    Judged /\ job.label[1] \in AbsorbedCorruptions => out.pow # asked /\ ~Accepted

(***************************************************************************)
(* The naysayer's chain ends where the verifier's own check does: the      *)
(* draws replay, the sum is the query's reduced opening, the leaf opens    *)
(* under its root, the identity meets the quotient.  A lie told to cover a *)
(* forgery ends where the forgery needs it to, away from the true end.     *)
(***************************************************************************)
TrueEnd ==
    LET end == states[chain.n] IN
    CASE chain.kind = "transcript" -> chain.meets = <<TRUE, end>>
      [] chain.kind = "reduced" -> end[2] = chain.meets
      [] chain.kind = "leaf" ->
            at_root(chain.meets[1], walk(SubSeq(end, 1, 4), chain.meets[2], chain.meets[3]))
      [] chain.kind = "identity" -> end = chain.meets <=> HonestCase(job)
ChainEnds ==
    /\ phase = "build" /\ hi = chain.n => TrueEnd
    /\ phase = "claim" /\ hi = chain.n =>
        /\ claimed[chain.n] # states[chain.n]
        /\ chain.cover # None =>
            {IF chain.kind = "identity" THEN claimed[chain.n] ELSE claimed[chain.n][2]} = chain.cover

(***************************************************************************)
(* The game's promise: bisection ends, within ceil(log2 n) rounds, at the  *)
(* one step the defender broke, and the adjudicator's step refutes it.     *)
(***************************************************************************)
ChallengeDecided ==
    phase = "decided" =>
        /\ rejects
        /\ lo + 1 = lied /\ hi = lied
        /\ rounds_played <= rounds_for(chain.n)

=============================================================================
