------------------------------ MODULE Harness ------------------------------
(***************************************************************************)
(* The harness of src/Circuits: it builds a trace and its public values,   *)
(* honest or broken by a control, proves it and verifies the proof.  The   *)
(* proof system is taken as complete and sound: a proof verifies exactly   *)
(* when every row satisfies the circuit against the public values.  Beyond *)
(* the source's own list a run may corrupt any one cell of an honest trace *)
(* and may batch payments whose runs of units overlap.                     *)
(***************************************************************************)
EXTENDS Trace, Statement

CONSTANTS BATCHES,      \* batch sizes proved, powers of two
          PADDED,       \* numbers of payments padded to a power of two
          REUSES        \* distances between the runs of two payments

VARIABLES stage,        \* "idle", "built" or "judged"
          job,          \* what is proved: the circuit, the control, the payments
          rows, pv,     \* the trace and the public values
          bad,          \* the corrupted column, or None
          broken        \* the constraints the verifier finds broken
harness_vars == <<stage, job, rows, pv, bad, broken>>

None == -1

-----------------------------------------------------------------------------
(* The harness's checks.                                                   *)

RevokeBreaks == {"GapDecomposition", "RunStartsInsideRange", "RunReachesNextRange", "RunInverted"}
SpendBreaks == {"Share", "Key", "Nullifier", "Deactivate", "RunStart", "Modulus", "Units",
                "RangeBase", "CoarseSpan", "RunPastBudget", "SlotGap",
                "WrongDigest", "WrongDomain"}
ComposedBreaks == {"RunStartMismatch", "AmountRaised", "AmountLowered", "UnitSizeWrong",
                   "CapAboveBudget", "DomainAltered", "ShareDomain", "StatementShare",
                   "StatementAmount", "StatementPayee", "StatementTime", "StatementUnit",
                   "StatementBase", "StatementRange", "StatementSecretHash", "RootKeyFree"}
BatchBreaks == {"StatementRow", "StatementShift", "StatementAmount", "StatementShare",
                "RunStartMismatch"}

\* The second payment of a reuse starts its run the given distance into the
\* first's: below three units the two consume a unit twice.
reused_payments(apart) ==
    LET first == batch_payments(1)[1]
    IN <<first, [first EXCEPT !.nonce = @ + 1, !.run = <<@[1] + apart, @[2] + apart>>]>>

Case(air, how, pays) == [air |-> air, how |-> how, pays |-> pays]
Checks ==
         {Case("policy", h, <<>>) : h \in {"None", "BrokenGap"}}
    \cup {Case("full", h, <<>>) : h \in {"None", "Binding", "Chaining", "Permutation"}}
    \cup {Case("merkle", h, <<>>) : h \in {"None", "Direction", "SiblingDigest"}}
    \cup {Case("nonmembership", h, <<>>) : h \in {"None"} \cup RevokeBreaks}
    \cup {Case("spend", h, <<>>) : h \in {"None"} \cup SpendBreaks}
    \cup {Case("spend_two", "None", <<>>)}
    \cup {Case("whole", h, <<>>) : h \in {"None", "PolicyColumn", "PaymentField", "Vacuous"}}
    \cup {Case("vacuous", "Vacuous", <<>>)}
    \cup {Case("composed", h, batch_payments(1)) : h \in {"None"} \cup ComposedBreaks}
    \cup {Case("composed", h, batch_payments(k)) : h \in {"None"} \cup BatchBreaks, k \in BATCHES}
    \cup {Case("composed", "None", padded_payments(k)) : k \in PADDED}
    \cup {Case("composed", "None", reused_payments(d)) : d \in REUSES}

\* The verdict the harness asserts.
want(j) == \/ j.how = "None"
           \/ j.air = "vacuous"

-----------------------------------------------------------------------------
(* The round trips.                                                        *)

Traced(trace, values) == [rows |-> <<trace>>, pv |-> values]
whole_public_values == whole_public_values_amount(GOOD.amount)

\* What a control changes in a finished row.
WholeCorrupted(row, how) ==
    CASE how = "PolicyColumn" -> Bump(row, COL_AMOUNT)
      [] how = "PaymentField" -> Bump(row, COL_NONCE)
      [] OTHER -> row
MerkleCorrupted(row, how) ==
    CASE how = "Direction" -> Bump(row, 2 * DIGEST)
      [] how = "SiblingDigest" -> Bump(row, DIGEST)
      [] OTHER -> row

Built(j) ==
    CASE j.air = "policy" ->
            Traced(IF j.how = "None" THEN policy_trace ELSE broken_trace, <<>>)
      [] j.air = "full" ->
            Traced(IF j.how = "None" THEN composed_trace ELSE broken_composed(j.how),
                   full_public_values)
      [] j.air = "merkle" ->
            Traced(MerkleCorrupted(merkle_trace(MD), j.how), <<>>)
      [] j.air = "nonmembership" ->
            Traced(build_nonmembership_run(j.how, HarnessRun), <<>>)
      [] j.air = "spend" ->
            Traced(broken_spend(j.how),
                   <<PAYLOAD_DIGEST + (IF j.how = "WrongDigest" THEN 1 ELSE 0),
                     DOMAIN_ID + (IF j.how = "WrongDomain" THEN 1 ELSE 0)>>)
      [] j.air = "spend_two" -> Traced(spend_two_trace, <<PAYLOAD_DIGEST, DOMAIN_ID>>)
      [] j.air \in {"whole", "vacuous"} ->
            Traced(WholeCorrupted(whole_trace(j.how), j.how), whole_public_values)
      [] j.air = "composed" -> build_batch(j.pays, j.how)

\* The constraints row i breaks.
Judge(i) ==
    LET row == rows[i]
    IN CASE job.air = "policy" -> policy_constrain(row, 0)
         [] job.air = "full" -> full_eval(row, pv)
         [] job.air = "merkle" -> merkle_eval(row, 0, MD)
         [] job.air = "nonmembership" -> nonmembership_eval(row, 0)
         [] job.air = "spend" -> spend_eval(row, pv)
         [] job.air = "spend_two" -> spend2_eval(row, pv)
         [] job.air = "whole" -> whole_eval(row, pv)
         [] job.air = "vacuous" -> vacuous_eval(row, pv)
         [] job.air = "composed" ->
              IF ~Shaped(pv) THEN {"shape"} ELSE composed_eval(row, pv, Periodic(pv, i - 1))

-----------------------------------------------------------------------------

NoJob == Case("none", "None", <<>>)

HarnessInit ==
    /\ stage = "idle"
    /\ job = NoJob
    /\ rows = <<>> /\ pv = <<>>
    /\ bad = None
    /\ broken = {}

\* The trace and the public values a check proves.
Build(j) ==
    /\ stage = "idle"
    /\ \E made \in {Built(j)} : rows' = made.rows /\ pv' = made.pv
    /\ stage' = "built" /\ job' = j
    /\ UNCHANGED <<bad, broken>>

\* One column of an honest trace is corrupted.
corrupt(col) ==
    /\ stage = "built" /\ bad = None
    /\ job.how = "None" /\ Len(rows) = 1 /\ col < Len(rows[1])
    /\ rows' = <<Bump(rows[1], col)>>
    /\ bad' = col
    /\ UNCHANGED <<stage, job, pv, broken>>

\* The trace is proved and the proof verified.
Verify ==
    /\ stage = "built"
    /\ broken' = UNION {Judge(i) : i \in DOMAIN rows}
    /\ stage' = "judged"
    /\ UNCHANGED <<job, rows, pv, bad>>

Columns == 0..(composed_width - 1)

HarnessNext ==
    \/ \E j \in Checks : Build(j)
    \/ \E col \in Columns : corrupt(col)
    \/ Verify

-----------------------------------------------------------------------------
(* Properties.                                                             *)

Judged == stage = "judged"
Accepted == Judged /\ broken = {}

\* Every check ends with the verdict the harness asserts (main.rs, check): each
\* circuit accepts its honest trace and its payments at every batch size, and
\* refuses every control.
Verdicts == Judged /\ bad = None => ((broken = {}) <=> want(job))

\* The claim of the composed circuit's controls (trace.rs, ComposedBreak): each
\* that alters the row leaves the compliance half and the spend half satisfied
\* and breaks only the binding it is named for, so what refuses it is that
\* binding and a circuit without that binding would accept it.
RowBreaks == {"RunStartMismatch", "AmountRaised", "AmountLowered", "UnitSizeWrong",
              "CapAboveBudget", "DomainAltered", "ShareDomain", "RootKeyFree"}
Bindings == {"run", "rounding_up", "rounding_down", "unit", "budget", "cap_in_budget",
             "domain", "secret"}
ControlsBindOnly ==
    Judged /\ job.air = "composed" /\ job.how \in RowBreaks =>
        \E b \in Bindings : broken = {b}

\* No cell of a proof is free: changing any one cell of an honest trace of
\* these circuits breaks a constraint, so the prover has no say in a witness
\* the public values leave open.
PinnedAirs == {"merkle", "nonmembership", "spend", "spend_two", "whole", "composed"}
ColumnsPinned == Judged /\ bad # None /\ job.air \in PinnedAirs => broken # {}

\* The settlements of a batch as the principal reads them.
Settled(order) ==
    [n \in DOMAIN order |->
        LET block == Periodic(pv, order[n] - 1)
        IN [digest |-> At(block, R_DIGEST), domain |-> At(block, R_DOMAIN),
            elems |-> published(pv, order[n] - 1)]]

\* Over-spending gives up the secret: when the proofs of two payments that
\* consume a unit in common verify, what they publish yields the delegation's
\* secret and nothing else, in whichever order it is read; payments whose runs
\* are disjoint, and a payment listed twice, yield nothing.
Overlap(p, q) == p.run[1] <= q.run[2] /\ q.run[1] <= p.run[2]
OverspendReveals ==
    Accepted /\ bad = None /\ job.air = "composed" =>
        LET n == Len(job.pays)
            twice == \E i, j \in 1..n : job.pays[i] # job.pays[j]
                                          /\ Overlap(job.pays[i], job.pays[j])
            orders == {From(1, n), [i \in 1..n |-> n + 1 - i]}
        IN \A order \in orders :
              extractSecret(Settled(order)) = IF twice THEN {SECRET} ELSE {}

\* A payment's statement is found at its own position of the answer's tree and
\* nowhere else: a leaf offered with another position's path reaches another
\* root, unless the same payment is listed there too.
PathsReachRoot ==
    stage = "built" /\ job.air = "composed" /\ bad = None =>
        LET k == Payments(pv)
            root == committed(pv)
        IN \A i, j \in 0..(k - 1) :
              (root_from(leaf(pv, i), j, path(pv, j)) = root) <=> (leaf(pv, i) = leaf(pv, j))

\* The commitment and the revocation root are the delegation's: they are equal
\* in every payment of a batch, while two payments never share a digest, so
\* an accepted proof fits one statement alone.
DigestsSeparate ==
    Accepted /\ bad = None /\ job.air = "composed" =>
        \A i, j \in DOMAIN job.pays :
            LET p == Periodic(pv, i - 1)
                q == Periodic(pv, j - 1)
            IN /\ Lanes(p, R_ROOT, DIGEST) = Lanes(q, R_ROOT, DIGEST)
               /\ (At(p, R_DIGEST) = At(q, R_DIGEST)) <=> (job.pays[i] = job.pays[j])

=============================================================================
