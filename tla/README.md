# Bounded delegated authority in TLA+

This directory holds a model of the settlement contracts and the off-chain
programs of `SourceCode/`, and of the circuits and the disputes over their
proofs in `Circuits/`: TLA+ modules translated from the sources, the
configurations that model-check them with TLC, and theorems about them that
TLAPS checks. A principal delegates bounded spending to an agent; the agent's
payments settle at a *reserve* without a proof; anyone may *challenge* a
settlement, and the agent must then prove, within a window, that it kept the
policy, or its delegation is frozen and its bond goes to the principal. The
paper's argument rests on three things: what the contracts do in an arbitrary
order of calls; what a proof that verifies lets an agent spend, and what
over-spending costs it; and that the programs around them, which wait for one
another and for the chain, act on what is still true.

## 1. The system

| Component | Source | State | Operations | Modelled |
|---|---|---|---|---|
| Reserve | `Reserve/src/Reserve.sol`, `Settlement.sol` | delegations, settled digests, velocity windows, epochs and revoked ranges, agents' capacities, bonds, stakes, credits, deposits | register, accept, declareCapacity, settle, revoke, claim, freeze, reclaim, close, withdraw, stake/unstakeAnswerer, setDispute; for the arbiter: hold, release, forfeit, slashAnswerer | `Reserve` |
| ValidityDispute | `Reserve/src/ValidityDispute.sol` | challenges, two kinds of deadline queue, open counts, posting pools, duties, batches, postings, credits | open, join, cancel, answer/answerBatch/answerBatches, expire, fundPosting, returnPosting, postProof, bindPosting, deliver, slashAnswerer, slashWithholding, withdraw | `ValidityDispute` |
| RevealDispute | `Reserve/src/RevealDispute.sol` | records, challenges, holds | register, settle, open, answer, cancel, expire, withdraw | planned |
| PreventiveReserve | `Reserve/src/PreventiveReserve.sol` | delegations, windows, indices seen | register, settle | planned |
| Monitor | `X402Bounded/src/monitor.ts` | records read, deliveries, challenged/answered/expired/cancelled sets, frozen and claimed flags | deliverOpening, deliverProof, poll: read, claim, judge, challenge or join, cancel, expire, freeze | `Monitor` over `Domains`, partly |
| Facilitator | `X402Bounded/src/facilitator.ts` | the chain of sends | settle (verify only reads) | `Facilitator` over `Domains` |
| Answerer | `X402Bounded/src/answerer.ts` | held proofs, payments and batches | receive (proofOf, openingOf only read) | `Answerer`; `SignReceipt` of `ValidityDispute` |
| Client, server | `client.ts`, `server.ts` | none | sign a payload; answer 402 | `Sign` only |
| Proof gate, sealing, encodings | `X402Bounded/src/stark/*`, `seal.ts`, `opening.ts`, `abi.ts`, `types.ts` | none | verify, seal, hash | no: pure functions |
| Step verifier, constraint program, Poseidon2, SP1 verifier | `Reserve/src/*.sol` | none | field arithmetic | no: pure arithmetic; the verifier is the relation `Provable` |
| Reference model, analysis | `reference.py`, `Analysis/` | – | – | its rate limit is checked against the contract's (section 5) |
| Circuits: statements and their harness | `Circuits/src`: `air`, `full`, `merkle`, `revocation`, `spend`, `spend2`, `whole`, `composed`, `vacuous`, `hash`, `gen`, `trace`, `spend_trace`, `statement`, parts of `prover` and `main` | the trace and the public values of one check | build an honest or a broken trace, prove, verify | `FieldOps`, `Circuit`, `Trace`, `Statement`, `Harness`; what the constraints leave an agent: `Overdraft` |
| Circuits: disputes over a proof | `naysay`, `forge`, `assertion` (`dag`, `leaf` are not modelled) | a proof, the transcript, the queries, a chain of states and the game's interval | prove, forge, corrupt, run a query, dispute | `Stark`, `Naysay`, `Bisection`, `Challenge` |
| Circuits: provers, recursion, sealing, timings; zkVM | the rest of `prover` and `main`, `deep`, `tagged`, `keccak`, `sweep`, `vectors`, `soundness`, `zkvm/` | – | benchmarks | no |
| Working history | `WorkingHistory/` | logs | – | no |

How they interact. Accounts call the reserve and the arbiter; the arbiter
calls the reserve inside its own transactions (`hold` when the principal opens
or joins, `release` when such a challenge is withdrawn or answered, `forfeit`
when any challenge expires, `slashAnswerer`), and the reserve reads
`openCount` and the windows back from the arbiter (`close`, `unstakeAnswerer`,
`setDispute`). Off the chain the agent signs payloads that somebody else
settles later, and the answerer signs receipts that anyone may show later. The
facilitator settles for a resource server; the monitor reads the events of
every domain's two contracts and challenges, joins, cancels, expires, claims
and freezes on them. An answer stands on a proof of the composed circuit, whose
public values the contract gathers from its own records; two proofs that
publish shares of one unit give up the agent's secret, with which `claim` takes
the bond. A proof too large to verify on chain is disputed instead: the
naysayer points at a failing comparison, or plays the bisection game over a
long computation until one step is left.

What is hard. Transactions of many accounts interleave arbitrarily and each is
atomic; every deadline is compared with the block time, some with `<` and some
with `<=`; counts are kept on both sides of the two contracts and decremented
with checked arithmetic, so a count that drifts makes a later call revert and
leaves value locked; three calls pay the bond and two pay the deposit; what was
signed off the chain is used after the state it was signed for has changed. The
off-chain programs await between what they read and what they send, and a call
that throws may have landed. In the circuits every comparison is a range
check of a field element, which wraps; a column no constraint reads is the
prover's to choose; and a negative control proves nothing if it breaks
something else than its constraint.
`PROJECT.json` lists each hazard at its line with the properties that
cover it. What makes each component correct:

* Reserve: a bond is paid once, to one party; every ether and token is
  accounted for; what settles was signed for the epoch in force and while the
  delegation was live; the velocity and capacity limits hold; revoked ranges
  are disjoint; the bond outlives every challenge window.
* ValidityDispute: the two contracts' counts agree; deadlines leave the agent
  room to answer one by one, and nobody can delay the principal's; an expired
  challenge reaches the bond; challenges end; pools pay a bounded number of
  refunds; an honest answerer is not slashed.
* Monitor: it freezes no sooner than the agent's time to answer and deliver is
  over, and a settlement nothing backs always ends in a freeze.
* Circuits: an agent spends within its budget or gives up its secret; it spends
  its own units and none that is revoked; no column is free; each control tests
  its own constraint, as the comments on it say (not all do: section 5).
* Disputes over a proof: an honest proof passes, a forged or corrupted one fails
  at the comparison its change reaches, and the game ends at the broken step.
* Facilitator and Answerer: success is answered only for what settled, and what
  settled is answered with success unless the node's answer was lost; two
  overlapping batches are never both receipted.

## 2. Modules

* `Reserve.tla` — one action per transaction. A transaction that reverts
  changes nothing, so each `revert` condition, negated, is a conjunct of a
  guard. `Spec` lets any contract that `setDispute` admits be the arbiter:
  `ArbiterStep` holds, releases, forfeits, slashes and changes its open count as
  it likes. `signed` is what agents have signed (`Sign`, from `client.ts`);
  `Settle` takes any of it at any later time, in one of the two forms the
  contract has (`settle` stores the transcript elements and counts them,
  `settleLogged` logs them). Deposits and Permit2 pulls are moves between
  `wallet` entries, the vault's included. `bondTo` and the settlement's `at`
  and `epoch` are history.
* `BondEscrow.tla` — the abstract promise about one bond: posted at most once,
  before the delegation ended; paid at most once; "agent" and "principal" are
  final.
* `ValidityDispute.tla` — EXTENDS `Reserve` and replaces the free arbiter by
  the contract: each of its actions makes the reserve's actions `Hold`,
  `Release`, `Forfeit` or `SlashAnswerer` in the same step, as the contract calls
  them. `Answer` takes any set of open challenges, each with the root its
  path reaches: the three answer calls are its instances. `ComposedNext` is
  time, the accounts' calls of the reserve, and the contract's.
* `FieldOps.tla` — a prime field and its degree-two extension, and a
  permutation of eight lanes of the shape of the circuits' own, with its
  columns.
* `Circuit.tla` — the constraints. A row is a function from columns, at the
  offsets the sources compute; each circuit is an operator that returns the
  *names of the constraints a row breaks* against the public values: the clauses
  of the policy, the sponges, the Merkle and non-membership paths, the spend
  component, and the composed circuit that binds the halves.
* `Trace.tla` — the rows: the harness's terms and payments, the trace of each
  circuit, of a batch and of a padded batch, and what each control changes.
* `Statement.tla` — the tree over a batch's public values that the contract
  reads, and `extractSecret` of the monitor over what payments publish.
* `Harness.tla` — builds, corrupts and judges. The proof system is taken as
  complete and sound: a proof verifies exactly when no constraint is broken.
  Beyond the source's checks it corrupts any one column of an honest trace and
  batches payments whose runs overlap at each distance.
* `Overdraft.tla` — the same arithmetic for *every* witness: what a delegation
  settles over any number of payments, each backed by some satisfying witness,
  and the revocations between them.
* `Stark.tla`, `Naysay.tla` — the verifier of `naysay.rs` as the naysayer replays
  it: transcript, Merkle openings, reduced openings, folds, the identity at the
  out-of-domain point; each comparison is named so that a query returns which
  failed and in what order. The corruptions of `run_query_phase` and `run`, and
  the forgeries of `forge.rs`, are operators on proofs.
* `Bisection.tla` — the four chains of `assertion.rs` and the game over them. The
  terms and the step of a reduced opening are its own, as they are in
  `assertion.rs`, beside the nested loops of `run_query` in `Naysay`.
* `Challenge.tla` — composes them: a proof is made or forged step by step, its
  queries run one at a time, it may be corrupted and judged again, and its long
  checks are disputed with the lie at any step.
* `Domains.tla` — what the off-chain programs see of two reserves with their
  arbiters: settlements, freezes, claims and one challenge per payment, with the
  guards of `Reserve` and `ValidityDispute` on status and time. Queues, prices
  and refunds stay in `ValidityDispute`.
* `Facilitator.tla`, `Answerer.tla`, `Monitor.tla` — one action per stretch of
  code between two awaits. A transaction is its simulation and, later, its
  inclusion, and the chain moves in between. An answer of the node's may be
  lost. The facilitator's write may throw after the node took the transaction
  (`SendUnheard`: the caller hears `reserve_refused`, the nonce is gone, the
  payment may settle) and its wait for the receipt may throw (`ReceiptUnheard`:
  `settle` throws); of the monitor's calls any may fail without landing
  (`CallFails`) or land with the receipt lost (`ReceiptLost`). A receipt's
  *status* is read where the code reads it: `challenge` throws on a transaction
  that reverted and `cancel` returns false, but the poll notes an expiry that
  reverted as expired (`Mined`, `monitor.ts:663-667`) and `claim` counts a claim
  that reverted (`ClaimMined`, `monitor.ts:582-584`).
* `Service.tla` — the three of them over the chains they share, with everybody
  else who may call the contracts. The monitor is followed until it has stopped
  the delegation: a later poll only reads and claims.
* `MCReserve.tla`, `MCValidityDispute.tla`, `MCCircuits.tla`, `MCChallenge.tla`,
  `MCService.tla` — the instances for TLC: terms, payments, start states.
  `MCService` explores three scenes apart; each step of a scene is a step of
  `Service`.
* `ReserveTypeProofs.tla`, `ReserveProofs.tla`, `ReserveMoneyProofs.tla` —
  theorems about `Reserve`; `DisputeProofs.tla`, `DutyProofs.tla` — about the
  reserve composed with `ValidityDispute`; `OverdraftProofs.tla`,
  `ChallengeProofs.tla`, `ServiceProofs.tla` — about the modules they name
  (section 6).

What is abstracted in the data: hashes are injective, so a settled record is
kept where the contract keeps its hash; a signature is the pair of signer and
payload; a batch is a root and the set of settlements under it; whether the
verifier accepts a proof of a root is membership in `Provable`; transcript
elements are their number; a chunk of a posted proof is the next one, the last
one or a wrong one; gas prices are any member of `Fee`, `BondPrice` and
`DepositPrice`. A challenge stores the root its answer proved where the contract
stores the place of that root in a list that only grows. The contract's
identifiers start at 0 and so do these. Integers are unbounded, except where a
width decides: the sums of `revoke` are those of 64-bit words, with `Word`
for 2^64.

In the circuits the field, the range checks and the trees are small and the
permutation is a small cubic one; the layout of the columns, the order of the
absorptions and the constraints are the source's. Merkle digests on chain are
injective terms. In the disputes over a proof the challenges are base-field
elements drawn from a sponge seeded by the prover's randomness, a salt is one
element, rows are not doubled for zero knowledge, all matrices share one height
and the circuit has two columns and a handful of constraints. `boundary` is a
corruption the source does not make, an opening of the wrong shape, added to
exercise `widths_ok`. A query runs every comparison, as the ports do, where the
verifier stops at the first that fails.

Operators whose comment begins `Mutated:` are plausible mistakes in the
operator after them. No action uses them; they are kept to show that each
property notices the mistake.

## 3. Bounds

Every bound is a constant. `MaxTime` stops the clock, `MaxDelegations`,
`MaxSigned`, `MaxReceipts`, `MaxPosted` cap what is registered, signed,
receipted and posted, `MaxBalance` and `MaxDonated` cap what is staked and
donated, `MaxAsked` caps a principal's challenges and joins against one agent,
and `MaxHolds` caps what the free arbiter does. Windows and delays are zero to six
seconds: each deadline is compared with the clock only, so one second before, at
and after it are the three cases there are, and each run's clock passes them
all.

The clock stops at `MaxTime` and accounts may have nothing left to call, so
`CHECK_DEADLOCK` is off: a blockchain on which nobody sends a transaction is no
error.

The runs of `ValidityDispute` start after the registrations, acceptances and
settlements they need, in a state the reserve reaches by exactly those calls in
the first second (`PaidStart`): with a delegation's whole life in front of
each challenge no bound large enough for two of them is feasible. In
`dispute_queue` and `dispute_delivery` the delegations were then frozen by
their principals, which removes further settlements and nothing the arbiter
reads; `dispute_bond` starts live, with one payment settled and another signed.
`reserve_ether` explores two scenes, one from deployment and one that starts
with delegation 0 registered and four payloads signed under it for each second
(`LimitInit`); `reserve_sliding` starts there too. The other runs of the contracts
start at deployment. In `dispute_delivery` a stranger may post as well
as the answerer, but only while the one receipt it would need is out and the pool
is empty, and only one wrong chunk or the whole proof (`StrangerPosts`); whom
its posting is bound for and what it delivers are not bounded. A second receipt, of the
same batch or of the other, comes only where the principal asks once and the
answerer posts no wrong chunk (`SecondReceipt`).

`circuits_witness` explores two scenes apart. The harness's runs over a field
of 46327 elements, in which seven is not a square as in the source's extension,
with range checks of fifteen bits, the source's amounts, terms and times, trees
of depth three and thirteen, batches of two, four and eight payments, three and
five padded, and two payments whose runs start zero to three units apart. The
other takes every witness over a field of 67 elements with range checks of four
bits and a delegation of four units of size two in a range of five; up to four
revoked ranges and a total of twelve, half as much again as the budget, so that
an over-spend can be reached. The harness stops after its checks, hence
`CHECK_DEADLOCK FALSE`.

`challenge_naysay` has a field of 40961 elements, sixteen rows extended to
thirty-two, a layer folded by four and one by two, a final polynomial of two
coefficients, five queries and two seeds: enough for every kind of comparison to
be at each place a corruption can land, and for a query to land where a
forgery was read from and where it was not. A field this small makes
coincidences possible that the source's does not; with these seeds none
happens. `MAX_ROUNDS` is six: no chain has more than 64 steps.

`service_offchain` and `monitor_stuck` have two payments on two
domains. The delays are one or two seconds and the clock stops at four: the
decision time, the two deadlines and the end of the window are one second apart
each. Three scenes share the chains and are explored apart: two calls of the
facilitator; three batches, of which two overlap the third, handed to the
answerer in two calls; and the monitor, beside an agent that answers and posts,
a stranger that challenges one payment and may expire it. At most one answer is
lost to the facilitator (`MAX_UNHEARD`) and at most one call to the monitor
(`MAX_FAILURES`). The watch ends when the monitor stops.

## 4. Runs

| Run | Question | What happens in it |
|---|---|---|
| `reserve_ether` | Is every ether accounted for and every bond paid once, whatever the arbiter does, and do the velocity and the capacity limits hold? `ReserveTypeOK`, `EtherBacked`, `BondRefinesEscrow`; `VelocityBounded`, `CapacityKept` | one delegation with a bond of 3 and a stake of 2, claim, freeze, forfeit, slash, close, unstake, in every order; four payments against two per window, and two principals against a capacity of none, one or two that changes under way |
| `reserve_settle` | Does only live authority settle, are tokens conserved, does the bond outlive challenges? `TokensAccounted`, `SettledLive`, `BondOutlivesChallenges`, `RevokedDisjoint` | payments by deposit and by Permit2, of the agent and of a rival signer, settled before and after a revocation, a freeze, the expiry and a close; a revocation that overlaps itself is refused |
| `reserve_sliding` | Is the rate limit the executable model's? It is not (section 5) | the limits scene of `reserve_ether` |
| `reserve_lastrange` | Can every disjoint range be revoked? It cannot (section 5) | ranges at the end of the word |
| `dispute_queue` | Do the counts agree and the deadlines stay apart? `HoldsExact`, `OpenCountExact`, `DueExact`, `DeadlinesSpaced`, `PrincipalUndelayed` | two principals of one agent, three settlements, one of which no proof covers; opening, joining, cancelling, joining again, answers of any subset, expiries |
| `dispute_bond` | Does an expired challenge reach the bond, a standing one stop settlement, does everything end? `ForfeitReachesPrincipal`, `HoldStopsSettlement`, `ChallengeEnds`, `BondReturns` | one delegation from settlement to payment of its bond, its secret at large |
| `dispute_delivery` | Does the pool pay what it has, a bounded number of times, and is an honest answerer safe? `DisputeTypeOK`, `DisputeSolvent`, `StakeOutlivesDuty`, `PoolOutlivesDuty`, `BlamelessUnslashed`, `RefundsBounded` | two receipts that may disagree, chunks in and out of order, bindings, deliveries, refunds that exhaust the pool, its return, slashes; a stranger's wrong chunk or whole proof |
| `circuits_witness` | Does each control fail and each honest trace pass, is every column pinned, does an over-spend cost the secret? `Verdicts`, `ColumnsPinned`, `OverspendReveals`, `PathsReachRoot`, `DigestsSeparate`; `BudgetOrSecret`, `UnitsInBudget`, `RevokedUnspent` | each control of `main.rs` and its honest sibling; each single column of an honest trace changed; batches with a unit in common; every witness of the small field, across payments and revocations |
| `circuits_controls` | Does each control break the one binding it is named for? It does not (section 5); `ControlsBindOnly` | the composed circuit's controls that alter the row |
| `challenge_naysay` | Does the verifier's structure find a lie, and the game the step? `ForgeriesFail`, `CorruptionsLand`, `PositionsMove`, `ChainEnds`, `ChallengeDecided` | honest, false and balanced proofs; a corruption of each value a query or the transcript reads; each long check disputed with the lie at each step, also where a forgery needs it |
| `service_offchain` | Does the facilitator tell the truth, does the answerer keep its receipts apart, does the monitor wait as long as it must? `CallsTruthful`, `ReceiptsDisjoint`, `FreezeEarned` | concurrent calls; another sender; freezes between simulation and inclusion; an answer lost at any write or receipt of the facilitator's, a call or a receipt lost at any step of the monitor's |
| `monitor_stuck` | Does a settlement nothing backs always end in a freeze? Not if a receipt is lost (section 5); `UnbackedStopped` | an honest and an unbacked payment, the first also challenged by a stranger; one lost call |

`BudgetOrSecret` speaks of an over-spend by exposure, because freshness
of units is not checked on chain: what stops an agent is that two settlements
of one unit publish two points of one line.

`FreezeEarned` is about the stock the poll took: `faulty` is computed once a
poll, as in the code. It sets aside a payment whose receipt was lost.

`CallsTruthful` lets a call hear less than happened only where an answer was
lost: a call told `success` recorded its own payment; a payment a call recorded
is that call's, and the call is told so or is about to be, or its answer is among
the lost ones and it heard `reserve_refused` or nothing. It never hears
`settlement_not_recorded` of what it recorded. A client that pays again after
a lost answer is refused as well, although it has paid.

`FreezeEarned` holds although an expiry that reverted is noted as landed: the
gas estimate has passed, so the challenge was open past its deadline, when
neither an answer nor a cancel can take it any more. All that can come
between is somebody else's expiry, and then the challenge is expired.

`PoolOutlivesDuty` is about what leaves a pool otherwise than as a refund: it
leaves when no challenge of the delegation is open and every request's deadline
is past, so no late join can find the pool emptied under its request. The sum of
`DisputeSolvent` would not notice.

`VelocityBounded` says what the tumbling window of `_admit` gives: a span of
`windowW` seconds that straddles two windows misses the payment that opened the
earlier one, so it holds at most `2 velocityN - 1` payments.

`DeadlinesSpaced` is what the two parities of `_next` are for: public deadlines
are odd multiples of the slot and principals' even ones, so a challenge joined
by the principal can sit in either. `PrincipalUndelayed` bounds the principal's
deadline by its *own* requests alone.

Fairness, used by `ChallengeEnds` and `BondReturns` only, is weak and assumed
of three things. Time passes. `expire` may be called by anyone, and the
challenger gets its bond back by it. `close` may be called by anyone, and the
agent gets its bond by it. No fairness is assumed of answers, cancellations,
claims, or of the arbiter's other calls. The clock's bound does not cut the
argument short: the run's last deadline and the last close both fall before
`MaxTime`. `UnbackedStopped` assumes that the monitor polls on, as its caller
does on a timer, and that time passes; nothing is assumed of deliveries,
answers or strangers.

## 5. What disagrees

* **The rate limit's window** (`reserve_sliding`). `Reserve._admit`
  (`Reserve.sol:435-441`) restarts a count with the first payment a window
  after the last restart. The executable model, which says that the reserve
  enforces the limit, counts the payments of the last `windowW` seconds
  (`reference.py:172`). Under a velocity of two the contract settles three
  payments within one window's length.
* **A range at the end of the word** (`reserve_lastrange`). `revoke`'s test of
  the range against the delegation's is made in 256 bits and admits one that
  ends at 2^64; its overlap test (`Reserve.sol:643`) adds in 64 bits and then
  reverts for every later range of that delegation, although the comment
  above it (`Reserve.sol:622-627`) asks only that a range lie inside the
  delegation's and overlap none revoked.
* **Controls that break more than their binding** (`circuits_controls`). The
  comments say that each control of the composed circuit leaves both halves
  satisfied and breaks only the binding between them (`trace.rs:708-710`,
  `prover.rs:481-484`), and that one which moves the amount must leave every
  other constraint satisfied, "or it tests two things at once"
  (`trace.rs:124-126`). `AmountLowered`, which TLC reaches first, charges one
  unit more than the amount needs (`trace.rs:957`) and leaves the run that is
  checked against the revocation list as it was (`trace.rs:968`): it
  breaks the binding of the run as well as the lower bound of the rounding, and
  a circuit without that lower bound would refuse it still. Of the others that
  alter the row, `UnitSizeWrong` breaks the unit, the budget and the rounding, and
  `DomainAltered` the payload's digest inside the compliance half besides the
  domain; `RunStartMismatch`, `AmountRaised`, `CapAboveBudget`, `ShareDomain` and
  `RootKeyFree` break one binding each. All are refused (`Verdicts`).
* **A cancel whose receipt is lost** (`monitor_stuck`). `cancel` treats every
  error as a refusal (`monitor.ts:550-552`). If the transaction landed and
  waiting for its receipt threw, the books keep a challenge that is gone. Its
  later cancels are refused, and past its deadline `poll` sends `expire`
  (`monitor.ts:663`), which reverts and makes every later poll throw at that
  record, before the records after it and before the freeze. The comments
  promise that a challenge past its deadline is left to the steps that follow
  (`monitor.ts:540-541`) and that a fault ends in a freeze on every domain
  (`monitor.ts:136-138`). With `MAX_FAILURES = 0` in the run's configuration
  the property holds, for `MCNatures` as well, in 549,039 states: it is the
  lost receipt that breaks it.

Observed on the way and not claimed as disagreements:

* A claim lost on one domain is taken for a refusal, and one that went through on
  the other ends the claiming: the first domain is not tried again
  (`monitor.ts:585-592`). `UnbackedStopped` sets it aside.
* Stock is taken once a poll while the clock is read per record, so that a
  delivery within the wait that lands during the poll's awaits is not seen by
  that poll and can be followed by a freeze.
* A challenge whose receipt was lost makes later polls throw (the join answers
  AlreadyChallenged) until the acceptance window closes; and with openings on
  request a lost cancel can later freeze an honest delegation, which is why
  `FreezeEarned` sets such payments aside.
* After a cancel the monitor does not judge that record again.
* `StatementPayee` and `StatementRange` break a constraint inside one half, where
  the same comments say that both halves stay satisfied; they change only the
  public values.
* A claim that reverted on inclusion counts as one that went through
  (`monitor.ts:583-584`); it can only revert if the bond was paid in between.

## 6. Proofs

The theorems hold for every finite set of accounts and digests, every set of
secrets, roots, offers, payments and revocations, every number of delegations
and every value of the delays, under `ReserveAssumption`, which says that
constants have the types the contract declares and that the model's
`address(0)`, "not settled" and "no arbiter" are none of the values they stand
beside. The arbiter is free, so what is proved holds whichever contract
`setDispute` named.

* `TypeCorrect`: `Spec => []ReserveTypeOK`. Not a formality: in the model a
  decrement is an integer subtraction where the contract's reverts, so
  that `bond`, `holds`, `deposit`, `stake` and `credit` stay natural says
  that the guards before each decrement are enough. The invariant needs
  one thing more, `Unregistered`: an identifier nobody registered has a blank
  record, so `Register` overwrites nothing that was posted.
* `SettlesLive`: `Spec => []SettledLive`, and `BondOutlives`: `Spec =>
  []BondOutlivesChallenges`. Neither is inductive. `LiveInv` adds that a
  settlement came no later than now and than the delegation's *end*, the
  earlier of its expiry and its freeze; that a closed delegation closed more
  than `CloseDelay` after its end; and that the arbiter's window and `MaxAge` fit
  in `CloseDelay`. A freeze after the expiry does not move the end; a
  settlement after a close is impossible because the end has passed, although
  `_admit` never reads `closed`. The second theorem is the arithmetic: a
  settlement's time is at most `MaxAge` after it settled, it settled no later
  than the end, and the close came `CloseDelay` later.
* `BondIsEscrowed`: `Spec => BondRefinesEscrow`, the refinement. `BondInv`: a
  bond never accepted was paid to nobody; one accepted is recorded as paid
  exactly when it went somewhere; a paid bond's delegation is frozen or closed.
  Every step is then a `Post`, a `Pay`, an `End` or a stutter of `BondEscrow`.
* `RangesDisjoint`: `Spec => []RevokedDisjoint`. Only `Register` and `Revoke`
  touch ranges, epochs and roots (`StepKept`). `RangeInv` adds that nothing is
  revoked of a delegation nobody registered. The step that matters is `Revoke`:
  the i-th range of a call was compared with the recorded ones and with the
  i - 1 before it, so any two positions of the longer list were compared once.
  `AdmittedApart` carries the 64-bit test to the disjointness it stands for.
* `CapacityHolds`: `Spec => []CapacityKept`. `ServesInv` adds that the set of
  principals an agent serves is finite, so that counting one more principal
  and adding it to the set agree.

* `VelocityHolds`: `Spec => []VelocityBounded`, under one hypothesis: no window on
  offer is longer than the time at deployment. A record's first window
  starts at time 0 with no payment; if it were not yet over, all its `velocityN`
  payments and those of the window after it could fall within one span. Block
  times are Unix times, so a window would have to be half a century long.
  `VelocityInv`: the current window's count is the number of payments since its
  start; it opened with a payment, which is the one a span before it cannot share;
  and less than a window before its start at most `velocityN - 1` payments fall.
  A payment that opens a window turns the first fact into the third
  (`SettlePace`).

`ReserveMoneyProofs` follows the money. The sums are folds whose element is
picked by CHOOSE, and the induction theorems for finite sets are out of
reach, so each law of sums (`SumTake`, `SumAdded`, `SumChanged`, `SumByPart`) is
proved by taking a smallest set on which it fails (`SmallestSubset`).

* `EtherAlwaysBacked`: `Spec => []EtherBacked`. `EtherInv` adds that a bond paid
  is gone from the record, that an identifier nobody registered holds
  nothing, without which `Register` would lose what it held, and that an accepted
  delegation's agent has an account to be paid to.
* `TokensAlwaysAccounted`: `Spec => []TokensAccounted`, with the same for
  deposits and settlements (`Empty`).

`DisputeProofs` and `DutyProofs` are about `ComposedSpec`, for any number of
delegations, settlements, challenges, batches, receipts and postings. They add
`DisputeAssumption`, of which the comparison `AcceptWindow + MaxAge <= CloseDelay`
is what `setDispute` demands and `StartTime > 0` is that a chain's clock never
reads zero. `Address` and `Digest` are finite, as addresses and 256-bit words
are.

* `StepCalls`: each transaction of the arbiter makes of the reserve one call of
  `Hold`, `Release`, `Forfeit` or `SlashAnswerer` (`Release` of several
  delegations at once on an answer of many), or none. `ReserveSoundUnderDispute`
  carries the reserve's types, settlement, bond, ether and token invariants to
  the composed system by the lemmas that prove them for a free arbiter, and
  `BondEscrowedUnderDispute` the refinement.
* `DisputeTypeCorrect`: `DisputeTypeOK` with `ChallengeInv`: each challenge is
  of a recorded settlement, and an answered one under its answer's root. In
  particular no pool, credit or count goes below zero.
* `HoldsAlwaysExact`, `OpenCountAlwaysExact`, `DueAlwaysExact`: three counters
  against the cardinality of three sets of challenges. `CountInv` is the
  conjunction; each transaction moves one challenge in or out of each set
  (`OneMember`), except `Answer`, which removes a set at once and for which the
  cardinalities are those of a difference and of the delegation's part of it.
  `HoldsStop` follows: settlement demands no hold.
* `StakeOutlives`: `DutyInv` bounds each request by its delegation's duty, the
  duty by a wait from now, and after a close by a wait from the close: nothing
  answers or joins later, because a close waits until no challenge is open and
  no settlement is in its window (`FreshOpen`).
* `ForfeitsReachPrincipal`: `ForfeitInv` says where a bond paid before a close
  went, so that an expiry that finds the bond paid finds it the principal's.
* `AlwaysSolvent`: `DisputeSolvent` is inductive with the types; the work is one
  lemma per transaction on three sums, and for `Answer`, that what the payees are
  credited in total is what the answered bonds add up to (`AnswerCredits`).
* `PoolOutlives`: `ComposedSpec => PoolOutlivesDuty`, an action property, from
  `DutyInv` and the counts. `PoolTaken`: of all steps only `returnPosting` lowers a
  pool without a refund (`RefundTakes`), and its guard reads the delegation's
  duty and open count, not the requests, which is where `DutyInv` comes in.
* `NeverSlashed`: `ReceiptInv` says that everything bound or delivered was so
  under some receipt of the answerer's. If its receipts agree, what was bound is
  what it posted.
* `RefundsStayBounded`: `RefundInv` counts a delegation's refunds against its
  bindings, its deliveries and, of each bound proof, the chunks its answerer
  posted up to `MaxChunks`; the property bounds the last by `MaxChunks`.
* `NeverDelayed`, `AlwaysSpaced`: `QueueInv`. A principal's deadlines are
  multiples of two slots and the public queue's a slot off; every open deadline
  is at most its queue's end, and that end at most a window and two slots per
  request from now; two open challenges in one phase of one queue are two slots
  apart. A join either keeps a challenge's place or moves it past its new queue's
  end, which is why the end must bound every deadline of its phase, those
  that came by a join included (`Enters`, `EnteredQueues`).

`OverdraftProofs` holds for every field size, range-check width, budget, unit
size and declared range that `WidthAssumption` relates: the range's units do not
wrap the budget, and the integers of one payment fit beside three range checks.
The contract's `register` does not check the first (`unitSize * rangeLen` below
the field's size), and the values of the revocation tree's leaves are
assumed to leave a range check's room below the field's end.

* `WitnessIntegers` and `RunIntegers` carry each range-checked difference from
  field residues to integers: a difference that wrapped would be too large for
  the check. They also need the contract's count of slots: the circuit alone
  accepts an amount just below the field's size with no units, which `_admit`
  refuses by the published slots.
* `RunInBudget`: a run ends below `m`, and `U * m = B` holds for integers, so
  every consumed unit lies in the delegation's range and within its budget.
  `RunCleared`: whichever leaf a witness names, its run touches no revoked
  range, because the leaf's two ranges are neighbours in the tree.
* `IInv` adds `PaidByUnits`: unless a unit was consumed twice, the total paid is
  at most the unit size times the number of units consumed (`CeilBound`, and the
  cardinality of a disjoint union). `ConsumedUnitsInBudget`,
  `RevokedUnitsUnspent` and `OverspendCostsTheSecret` follow; the last counts
  the units between the range's start and the budget.

`ChallengeProofs` is about every chain, step function and lie. `GameInv`: while
the game is played the two chains agree at `lo` and differ at `hi`, the lie is in
`(lo, hi]`, and `hi - lo` is at most two to the number of rounds left. When one
step is left the defender's step from an agreed state is not the step
function's, which is what `Adjudicate` computes. `GameFindsTheLie`: `Spec =>
[]ChallengeDecided`. It assumes of `^` only what TLC evaluates, that the powers
of two up to the bound double (`RoundsAssumption`).

`ServiceProofs` is about every number of payments, domains, calls, batches and
failures and every delay; what it assumes is that delays and the numbers of faults are natural numbers,
that the decision time and the greatest age lie inside the window, that each
payment has a domain, and that no call is named like the marks for "nobody" and
"somebody else". `ServiceInv` has a part per program, and the types of what the
chains hold; a program's part is disturbed by its own steps and by what the
others do to the chains (`Elsewhere`).

* `CallsTold`: `ServiceSpec => []CallsTruthful`. `QueueInv`: the calls that wait to
  send or are about to are exactly those in the queue, each once, and only the one at
  its head has a nonce in hand; that is what makes the nonce still good. `RecordedInv`:
  what a call recorded is its own payment, so that no second call can record it, and a
  call whose transaction is recorded or still to be included is told so or had its
  answer lost.
* `ReceiptsSigned`: `ServiceSpec => []ReceiptsDisjoint`. Not inductive: it needs
  that what a receipt names is taken, as the test after the await reads `taken`.
* `FreezesEarned`: `ServiceSpec => []FreezeEarned`, the longest. `BooksInv` relates
  the monitor's books to the chains they are about, through what is read late,
  noted late or never: an event not yet read tells the truth about its payment, an
  answer in the books was given, a request of the monitor's that was answered has the
  whole wait from the time in its books or from its own join, and each challenge of
  its own is in the books unless the receipt was lost. `PollInv` says of a poll under
  way that the call being made is about a record still to judge, and that a poll that
  asks for the freeze was asked by a record it has judged. That record's claim
  stands while the poll goes on, because the monitor acts only on records not
  yet judged, and others can neither withdraw the monitor's challenge nor move its
  deadline (`EarnedElsewhere`, `LandsEarned`). `DutyTrue` is where the judgement
  of one record is shown to have its reason in the chains.

Layout: one lemma per transaction, each on one conjunct group of the
invariant; `AccountKinds` and `ArbiterKinds` split the steps into those that
touch what the invariants read and the *quiet* ones, so that the later proofs
treat the quiet ones once.

Only model-checked: `ChallengeEnds`, `BondReturns` and `UnbackedStopped`, which
are liveness (fairness and ENABLED are beyond the proof system's backends here);
the harness's and the naysayer's properties (`Verdicts`, `ColumnsPinned`, `OverspendReveals`, `PathsReachRoot`, `DigestsSeparate`,
`ForgeriesFail`, `CorruptionsLand`, `PositionsMove`, `ChainEnds`), which compute
with the field, the sponge and trees of a given depth, by recursion or on
values.

## 7. Not modelled, and why

The STARK prover and verifier proper, the recursive and sealed provers, the
Solidity and TypeScript verifiers and the zkVM are numeric functions without
interleavings, over fields no model checker enumerates; the contracts' model
takes a verified statement as true, and `Harness` takes the proof system as
complete and sound. Zero-knowledge measurements, soundness bit counts, timings,
`dag.rs` and `leaf.rs` (operation counts and the replay of one check's
arithmetic) are benchmarks. `naysay.rs` folds the circuit's constraints as it
evaluates them and `assertion.rs` evaluates each alone from its symbolic
expression; both read one circuit, and the model has one `Constraints`, so
`ChainEnds` says of the identity's chain that its terms and their folding meet the
quotient, and not that the two evaluators agree. Of the monitor, `fundPostings` and the posting of
chunks (their pools are `ValidityDispute`'s), the total over the budget, the
requests for openings and a domain without a dispute contract are left out: a
record is out of order or not, whatever the reason. Of the facilitator, the
comparisons before its simulation are left out, and so is a node that takes a
transaction and then loses it, after which every later nonce waits for ever. A
monitor's call that throws has landed by then or never does. `OverspendReveals`
is about payments of one domain, as the harness has one; that the claim finds a
bond on each of two domains is not covered by a property. The
resource server keeps nothing between requests. Re-entrancy is not modelled, a
transaction is one step: each function writes the state its guards read before
it sends ether or tokens (`close` adds the agent's credit after the deposit's
transfer, which no guard before it reads). Tokens move as ERC-20 prescribes, and
one that refuses a transfer makes the transaction revert. Balances of ether
outside the two contracts are not kept.

## 8. Plan

Done, in this order: `Reserve`, `ValidityDispute` and the theorems about
both; `FieldOps` to `Harness` and `Overdraft` with its theorems; `Stark` to
`Challenge` with its theorem; `Domains`, `Facilitator`, `Answerer`, `Monitor`
and `Service` with their theorems.

Left:

1. `RevealDispute` and `PreventiveReserve`, the two baselines, the first with the
   same `ChallengeEnds` and hold properties, to compare what each promises.
2. That `Domains` abstracts `ComposedSpec`, which is so far by translation only.
3. The monitor's posting pool and its total over the budget.
