-------------------------- MODULE ValidityDispute --------------------------
(***************************************************************************)
(* The arbiter of SourceCode/Reserve/src/ValidityDispute.sol composed with *)
(* the reserve it judges: the accounts' calls of Reserve interleave with   *)
(* challenges, answers, expiries and deliveries, and each of those makes   *)
(* the calls into the reserve that the contract makes, in the same         *)
(* transaction (Hold, Release, Forfeit, SlashAnswerer).                    *)
(*                                                                         *)
(* Data abstracted: a batch is its root and the settlements whose leaves   *)
(* reach it (Batched); a proof of a root can be shown to the verifier only *)
(* if the root is in Provable.  A challenge stores the root its answer     *)
(* proved where the contract stores that root's place in a list that only  *)
(* grows.  A posted chunk is the next of the proof, its last, or a wrong   *)
(* one.  Prices that follow the base fee are any member of a small set.    *)
(*                                                                         *)
(* `Mutated:' operators are as in Reserve.                                 *)
(***************************************************************************)
EXTENDS Reserve

CONSTANTS
  AcceptWindow, AnswerWindow, Slot, DeliveryWait,  \* the immutables, in seconds
  ProvingBond,    \* the bounty of a slash
  MaxBatches,     \* the most roots one delegation's answers may prove
  MaxChunks,      \* the most chunks of one posting that are refunded
  BatchRoot,      \* roots of batches of statements
  NoRoot,
  Batched,        \* the settlements, <<id, digest>>, each root holds
  Provable,       \* roots whose statements all verify
  ProofHash, NoHash,
  SealedRoot, NoSeal,
  Chunks          \* chunks a complete proof takes

\* The calls accounts make, from small sets, and the model's bounds.
CONSTANTS
  Challenger,     \* accounts that open, join and cancel
  BondPrice,      \* what challengeBond may ask
  DepositPrice,   \* what postingDeposit may ask
  Excess,         \* what a caller may send beyond what is asked
  Donation,       \* what anyone may add to a posting pool at a time
  Fee,            \* what including one posting on the domain may cost
  Poster,         \* accounts that post, bind and deliver
  MaxAsked,       \* bound: a principal's challenges and joins against an agent
  MaxDonated,     \* bound: the contract's ether after a donation
  MaxPosted,      \* bound: chunks posted by one account of one proof
  MaxReceipts     \* bound: receipts signed

Key == Id \X Digest

\* A pool nobody's delegation backs goes back to address(0).
Account == Address \cup {NoAddress}

Status == {"None", "Open", "Answered", "Expired", "Delivered", "Cancelled"}

\* openedAt is history.
Challenge == [challenger: Account, deadline: Nat,
              status: Status, byPrincipal: BOOLEAN, root: BatchRoot \cup {NoRoot},
              bond: Nat, joined: BOOLEAN, openedAt: Nat]

Unchallenged ==
  [challenger |-> NoAddress, deadline |-> 0, status |-> "None",
   byPrincipal |-> FALSE, root |-> NoRoot, bond |-> 0, joined |-> FALSE,
   openedAt |-> 0]

BatchPosting == [proofHash: ProofHash \cup {NoHash},
                 sealedRoot: SealedRoot \cup {NoSeal},
                 lapsed: BOOLEAN, due: Nat]

Unbound == [proofHash |-> NoHash, sealedRoot |-> NoSeal, lapsed |-> FALSE, due |-> 0]

Receipt == [id: Id, root: BatchRoot, sealedRoot: SealedRoot,
            proofHash: ProofHash, receivedAt: Nat]

This == [acceptWindow |-> AcceptWindow, deliveryWait |-> DeliveryWait]

ASSUME DisputeAssumption ==
  /\ AcceptWindow \in Nat /\ AnswerWindow \in Nat /\ DeliveryWait \in Nat
  /\ Slot \in Nat \ {0}
  /\ AcceptWindow + MaxAge <= CloseDelay
  /\ This \in Dispute
  /\ ProvingBond \in Nat /\ MaxBatches \in Nat /\ MaxChunks \in Nat
  /\ Chunks \in Nat \ {0}
  /\ NoRoot \notin BatchRoot /\ NoHash \notin ProofHash /\ NoSeal \notin SealedRoot
  /\ Batched \in [BatchRoot -> SUBSET Key]
  /\ Provable \subseteq BatchRoot
  /\ Challenger \subseteq Address /\ Poster \subseteq Address
  /\ BondPrice \subseteq Nat /\ DepositPrice \subseteq Nat
  /\ Excess \subseteq Nat /\ Donation \subseteq Nat /\ Fee \subseteq Nat
  /\ MaxAsked \in Nat /\ MaxDonated \in Nat /\ MaxPosted \in Nat /\ MaxReceipts \in Nat
  /\ StartTime > 0

VARIABLES
  challenges,             \* ValidityDispute.challenges, by <<id, digest>>
  lastPrincipalDeadline, lastPublicDeadline,  \* the deadline queues' ends
  asked,                  \* history: a principal's challenges and joins, by agent
  postingPool, dutyUntil, \* as in the contract
  answeredRoots,          \* the roots answers have proved, by delegation
  batches, boundRoot,     \* as in the contract
  postings, postedAt, deliveredUnder,
  refunds,                \* history: postings refunded, by delegation
  receipts,               \* what answerers signed, off the chain
  disputeBalance,         \* this contract's ether
  disputeCredit           \* ValidityDispute.credit

queueVars == <<lastPrincipalDeadline, lastPublicDeadline, asked>>
batchVars == <<answeredRoots, batches, boundRoot>>
postingVars == <<postings, postedAt, deliveredUnder>>
moneyVars == <<postingPool, refunds, disputeBalance, disputeCredit>>

disputeVars == <<challenges, queueVars, dutyUntil, batchVars, postingVars,
                 receipts, moneyVars>>

vars == <<reserveVars, disputeVars>>

----------------------------------------------------------------------------
(* What the contract reads from the reserve.                               *)

AgentOf(id) == delegations[id].terms.agent
PrincipalOf(id) == delegations[id].principal
AnswererOf(id) == delegations[id].terms.answerer

\* Whoever can show the settlement the reserve recorded.
Recorded(id, dg) == settled[id][dg] # NotSettled

Asks(sender, id) == MayStop(sender, delegations[id])

\* Mutated: the acceptance window never closes.
InWindowAlways(id, dg) == Recorded(id, dg)

InWindow(id, dg) == now <= settled[id][dg].time + AcceptWindow

Latest(t, s) == IF t < s THEN s ELSE t

TopUp(id, deposit) ==
  IF postingPool[id] >= deposit THEN 0 ELSE deposit - postingPool[id]

----------------------------------------------------------------------------
(* Deadlines.                                                              *)

\* Mutated: the two kinds of queue share their slot boundaries.
PhaseShared(principal) == 0

Phase(principal) == IF principal THEN 0 ELSE Slot

\* The least deadline a window away, two slots after the queue's last one, and
\* on the queue's own slot boundaries: even for principals, odd for the rest.
NextDeadline(agent, owner, principal) ==
  LET period == 2 * Slot
      phase == Phase(principal)
      last == IF principal THEN lastPrincipalDeadline[agent][owner]
                           ELSE lastPublicDeadline[agent]
      x == IF last # 0 THEN Latest(now + AnswerWindow, last + period)
                       ELSE now + AnswerWindow
      m == x % period
  IN IF m <= phase THEN x + (phase - m) ELSE x + (period - m) + phase

\* Mutated: anyone's challenge pushes the principal's queue back too.
EnterShared(agent, owner, principal, d) ==
  /\ lastPrincipalDeadline' = [lastPrincipalDeadline EXCEPT ![agent][owner] = d]
  /\ lastPublicDeadline' =
       [lastPublicDeadline EXCEPT ![agent] = IF principal THEN @ ELSE d]

Enter(agent, owner, principal, d) ==
  IF principal
    THEN /\ lastPrincipalDeadline' =
              [lastPrincipalDeadline EXCEPT ![agent][owner] = d]
         /\ UNCHANGED lastPublicDeadline
    ELSE /\ lastPublicDeadline' = [lastPublicDeadline EXCEPT ![agent] = d]
         /\ UNCHANGED lastPrincipalDeadline

Counted(agent, owner) == [asked EXCEPT ![agent][owner] = @ + 1]

----------------------------------------------------------------------------
(* Challenges.                                                             *)

\* A principal's excess joins the posting pool; anyone else's is credited.
Open(sender, id, dg, bond, deposit, excess) ==
  LET principal == Asks(sender, id)
      agent == AgentOf(id)
      owner == PrincipalOf(id)
      extra == excess + (IF principal THEN TopUp(id, deposit) ELSE 0)
      d == NextDeadline(agent, owner, principal) IN
  /\ challenges[<<id, dg>>].status = "None"
  /\ Recorded(id, dg) /\ InWindow(id, dg)
  /\ challenges' =
       [challenges EXCEPT ![<<id, dg>>] =
          [challenger |-> sender, deadline |-> d, status |-> "Open",
           byPrincipal |-> principal, root |-> NoRoot, bond |-> bond,
           joined |-> FALSE, openedAt |-> now]]
  /\ Enter(agent, owner, principal, d)
  /\ principal => asked[agent][owner] < MaxAsked
  /\ asked' = IF principal THEN Counted(agent, owner) ELSE asked
  /\ openCount' = [openCount EXCEPT ![id] = @ + 1]
  /\ IF principal
       THEN /\ postingPool' = [postingPool EXCEPT ![id] = @ + extra]
            /\ UNCHANGED disputeCredit
            /\ Hold(id)
       ELSE /\ disputeCredit' = [disputeCredit EXCEPT ![sender] = @ + extra]
            /\ UNCHANGED postingPool
            /\ NoCall
  /\ disputeBalance' = disputeBalance + bond + extra
  /\ UNCHANGED <<dutyUntil, batchVars, postingVars, receipts, refunds>>

\* The principal's own queue takes the deadline only if the challenge does.
JoinOpen(id, dg) ==
  LET c == challenges[<<id, dg>>]
      agent == AgentOf(id)
      owner == PrincipalOf(id)
      d == NextDeadline(agent, owner, TRUE)
      due == IF d < c.deadline THEN d ELSE c.deadline IN
  /\ c.status = "Open"
  /\ challenges' =
       [challenges EXCEPT ![<<id, dg>>] = [c EXCEPT !.byPrincipal = TRUE,
                                                !.joined = TRUE,
                                                !.deadline = due]]
  /\ IF d < c.deadline THEN Enter(agent, owner, TRUE, d)
                       ELSE UNCHANGED <<lastPrincipalDeadline, lastPublicDeadline>>
  /\ Hold(id) /\ UNCHANGED <<openCount, dutyUntil, batches>>

\* Mutated: a late request does not extend the duty.
JoinAnsweredDutyKept(id, dg) ==
  LET c == challenges[<<id, dg>>]
      due == now + DeliveryWait IN
  /\ c.status = "Answered"
  /\ challenges' =
       [challenges EXCEPT ![<<id, dg>>] = [c EXCEPT !.byPrincipal = TRUE,
                                                !.joined = TRUE,
                                                !.deadline = due]]
  /\ batches' = [batches EXCEPT ![id][c.root].due = @ + 1]
  /\ UNCHANGED <<dutyUntil, lastPrincipalDeadline, lastPublicDeadline>>
  /\ NoCall /\ UNCHANGED openCount

\* An answered challenge carries the request from the join.
JoinAnswered(id, dg) ==
  LET c == challenges[<<id, dg>>]
      due == now + DeliveryWait IN
  /\ c.status = "Answered"
  /\ challenges' =
       [challenges EXCEPT ![<<id, dg>>] = [c EXCEPT !.byPrincipal = TRUE,
                                                !.joined = TRUE,
                                                !.deadline = due]]
  /\ dutyUntil' = [dutyUntil EXCEPT ![id] = Latest(@, due)]
  /\ batches' = [batches EXCEPT ![id][c.root].due = @ + 1]
  /\ UNCHANGED <<lastPrincipalDeadline, lastPublicDeadline>>
  /\ NoCall /\ UNCHANGED openCount

Join(sender, id, dg, deposit, excess) ==
  /\ ~challenges[<<id, dg>>].byPrincipal
  /\ Recorded(id, dg) /\ InWindow(id, dg)
  /\ Asks(sender, id)
  /\ JoinOpen(id, dg) \/ JoinAnswered(id, dg)
  /\ postingPool' = [postingPool EXCEPT ![id] = @ + TopUp(id, deposit) + excess]
  /\ disputeBalance' = disputeBalance + TopUp(id, deposit) + excess
  /\ asked[AgentOf(id)][PrincipalOf(id)] < MaxAsked
  /\ asked' = Counted(AgentOf(id), PrincipalOf(id))
  /\ UNCHANGED <<answeredRoots, boundRoot, postingVars, receipts, refunds,
                 disputeCredit>>

\* Mutated: a challenge that ends is still counted.
OneLessKept(id) == openCount[id] >= 1 /\ UNCHANGED openCount

OneLess(id) ==
  /\ openCount[id] >= 1
  /\ openCount' = [openCount EXCEPT ![id] = @ - 1]

Only(id) == [i \in Id |-> IF i = id THEN 1 ELSE 0]

\* A challenge the principal opened closes and its bond goes back; one it
\* joined goes back to being the other party's, still open.
CancelOpen(id, dg) ==
  LET c == challenges[<<id, dg>>]
      left == [c EXCEPT !.byPrincipal = FALSE, !.joined = FALSE] IN
  /\ c.status = "Open"
  /\ Release(Only(id))
  /\ IF c.joined
       THEN /\ challenges' = [challenges EXCEPT ![<<id, dg>>] = left]
            /\ UNCHANGED <<openCount, disputeCredit>>
       ELSE /\ challenges' = [challenges EXCEPT ![<<id, dg>>] =
                                [left EXCEPT !.status = "Cancelled"]]
            /\ OneLess(id)
            /\ disputeCredit' = [disputeCredit EXCEPT ![c.challenger] = @ + c.bond]
  /\ UNCHANGED batches

\* Mutated: a withdrawn request is still counted due.
CancelAnsweredDue(id, dg) ==
  LET c == challenges[<<id, dg>>] IN
  /\ c.status \in {"Answered", "Delivered"}
  /\ challenges' =
       [challenges EXCEPT ![<<id, dg>>] =
          [c EXCEPT !.byPrincipal = FALSE, !.joined = FALSE,
                    !.status = IF c.joined THEN @ ELSE "Cancelled"]]
  /\ NoCall /\ UNCHANGED <<openCount, batches, disputeCredit>>

\* An answered challenge's request is withdrawn.
CancelAnswered(id, dg) ==
  LET c == challenges[<<id, dg>>] IN
  /\ c.status \in {"Answered", "Delivered"}
  /\ challenges' =
       [challenges EXCEPT ![<<id, dg>>] =
          [c EXCEPT !.byPrincipal = FALSE, !.joined = FALSE,
                    !.status = IF c.joined THEN @ ELSE "Cancelled"]]
  /\ batches[id][c.root].due >= 1
  /\ batches' = [batches EXCEPT ![id][c.root].due = @ - 1]
  /\ NoCall /\ UNCHANGED <<openCount, disputeCredit>>

Cancel(sender, id, dg) ==
  /\ Asks(sender, id)
  /\ challenges[<<id, dg>>].byPrincipal
  /\ now <= challenges[<<id, dg>>].deadline
  /\ CancelOpen(id, dg) \/ CancelAnswered(id, dg)
  /\ UNCHANGED <<queueVars, dutyUntil, answeredRoots, boundRoot, postingVars,
                 receipts, postingPool, refunds, disputeBalance>>

----------------------------------------------------------------------------
(* Answers and expiry.                                                     *)

Due == {k \in Key : /\ challenges[k].status = "Open"
                    /\ now <= challenges[k].deadline
                    /\ Recorded(k[1], k[2])}

\* Mutated: a challenge the principal joined is not one it asked for.
RequestedOpened(keys) ==
  {k \in keys : challenges[k].byPrincipal /\ ~challenges[k].joined}

Requested(keys) == {k \in keys : challenges[k].byPrincipal}

Under(id, keys) == {k \in keys : k[1] = id}

Bonds == [k \in Key |-> challenges[k].bond]

Payee(id) == IF AnswererOf(id) # NoAddress THEN AnswererOf(id) ELSE AgentOf(id)

\* One transaction answers the challenges it names, each under the root its
\* settlement's path reaches: answer names one, answerBatch some of one root,
\* answerBatches some of several.
Answer(items) ==
  LET keys == DOMAIN items
      proved(id) == {items[k] : k \in Under(id, keys)}
      dueMore(id, root) == {k \in Under(id, Requested(keys)) : items[k] = root} IN
  /\ keys # {}
  /\ \A k \in keys : items[k] \in Provable /\ k \in Batched[items[k]]
  /\ \A id \in Id : Cardinality(answeredRoots[id] \cup proved(id)) <= MaxBatches
  /\ \A id \in Id : openCount[id] >= Cardinality(Under(id, keys))
  /\ challenges' =
       [k \in Key |->
          IF k \notin keys THEN challenges[k]
          ELSE [challenges[k] EXCEPT
                  !.status = "Answered", !.root = items[k],
                  !.deadline = IF challenges[k].byPrincipal
                                 THEN now + DeliveryWait ELSE @]]
  /\ openCount' = [id \in Id |-> openCount[id] - Cardinality(Under(id, keys))]
  /\ answeredRoots' = [id \in Id |-> answeredRoots[id] \cup proved(id)]
  /\ dutyUntil' =
       [id \in Id |-> IF Under(id, Requested(keys)) = {} THEN dutyUntil[id]
                      ELSE Latest(dutyUntil[id], now + DeliveryWait)]
  /\ batches' =
       [id \in Id |-> [root \in BatchRoot |->
          [batches[id][root] EXCEPT !.due = @ + Cardinality(dueMore(id, root))]]]
  /\ Release([id \in Id |-> Cardinality(Under(id, Requested(keys)))])
  /\ disputeCredit' =
       [a \in Account |->
          disputeCredit[a]
            + SumFunctionOnSet(Bonds, {k \in keys : Payee(k[1]) = a})]
  /\ UNCHANGED <<queueVars, boundRoot, postingVars, receipts, postingPool,
                 refunds, disputeBalance>>

Expire(id, dg) ==
  LET c == challenges[<<id, dg>>] IN
  /\ c.status = "Open"
  /\ now > c.deadline
  /\ challenges' = [challenges EXCEPT ![<<id, dg>>].status = "Expired"]
  /\ OneLess(id)
  /\ disputeCredit' = [disputeCredit EXCEPT ![c.challenger] = @ + c.bond]
  /\ Forfeit(id, IF c.byPrincipal THEN 1 ELSE 0)
  /\ UNCHANGED <<queueVars, dutyUntil, batchVars, postingVars, receipts,
                 postingPool, refunds, disputeBalance>>

----------------------------------------------------------------------------
(* The posting pool and its refunds.                                       *)

FundPosting(id, value) ==
  /\ disputeBalance + value <= MaxDonated
  /\ postingPool' = [postingPool EXCEPT ![id] = @ + value]
  /\ disputeBalance' = disputeBalance + value
  /\ NoCall /\ UNCHANGED openCount
  /\ UNCHANGED <<challenges, queueVars, dutyUntil, batchVars, postingVars,
                 receipts, refunds, disputeCredit>>

\* Mutated: the pool stays when it is returned.
ReturnPostingKept(id) ==
  /\ now > dutyUntil[id]
  /\ openCount[id] = 0
  /\ postingPool[id] # 0
  /\ disputeCredit' =
       [disputeCredit EXCEPT ![PrincipalOf(id)] = @ + postingPool[id]]
  /\ NoCall /\ UNCHANGED openCount
  /\ UNCHANGED <<challenges, queueVars, dutyUntil, batchVars, postingVars,
                 receipts, postingPool, refunds, disputeBalance>>

ReturnPosting(id) ==
  /\ now > dutyUntil[id]
  /\ openCount[id] = 0
  /\ postingPool[id] # 0
  /\ postingPool' = [postingPool EXCEPT ![id] = 0]
  /\ disputeCredit' =
       [disputeCredit EXCEPT ![PrincipalOf(id)] = @ + postingPool[id]]
  /\ NoCall /\ UNCHANGED openCount
  /\ UNCHANGED <<challenges, queueVars, dutyUntil, batchVars, postingVars,
                 receipts, refunds, disputeBalance>>

\* Mutated: the pool pays more than it has.
PayableWhole(id, fee) == fee

Payable(id, fee) == IF fee > postingPool[id] THEN postingPool[id] ELSE fee

\* The delegation's answerer is refunded a posting for a batch some request is
\* outstanding under; a pool that cannot pay it all ends the batch's duty.
\* `b' is the batches as the posting left them.
Refund(sender, id, root, b, fee) ==
  IF sender = AnswererOf(id) /\ now <= dutyUntil[id] /\ b[id][root].due # 0
    THEN LET paid == Payable(id, fee) IN
         /\ postingPool' = [postingPool EXCEPT ![id] = @ - paid]
         /\ disputeCredit' = [disputeCredit EXCEPT ![sender] = @ + paid]
         /\ batches' = [b EXCEPT ![id][root].lapsed = @ \/ fee > postingPool[id]]
         /\ refunds' = [refunds EXCEPT ![id] = @ + 1]
    ELSE batches' = b /\ UNCHANGED <<postingPool, disputeCredit, refunds>>

----------------------------------------------------------------------------
(* Receipts, postings and deliveries.                                      *)

\* An answerer signs, off the chain, what it holds of a batch and since when.
SignReceipt(id, root, sealed, hash) ==
  /\ AnswererOf(id) # NoAddress
  /\ Cardinality(receipts) < MaxReceipts
  /\ receipts' = receipts \cup
       {[id |-> id, root |-> root, sealedRoot |-> sealed, proofHash |-> hash,
         receivedAt |-> now]}
  /\ NoCall /\ UNCHANGED openCount
  /\ UNCHANGED <<challenges, queueVars, dutyUntil, batchVars, postingVars,
                 moneyVars>>

\* Mutated: one chunk more is refunded than the deployed proof has.
FirstChunksOneMore(chunks) == chunks <= MaxChunks

FirstChunks(chunks) == chunks < MaxChunks

\* A poster's chunks only ever extend what it posted: after a wrong one its
\* posting of that proof never completes.
PostProof(sender, id, hash, chunk, fee) ==
  LET p == postings[sender][id][hash]
      root == boundRoot[id][hash] IN
  /\ postedAt[id][hash] = 0
  /\ p.chunks < MaxPosted
  /\ \/ chunk = "next" /\ p.chunks + 1 < Chunks /\ UNCHANGED postedAt
     \/ chunk = "wrong" /\ UNCHANGED postedAt
     \/ /\ chunk = "last" /\ p.chunks + 1 = Chunks /\ p.good
        /\ postedAt' = [postedAt EXCEPT ![id][hash] = now]
  /\ postings' = [postings EXCEPT ![sender][id][hash] =
                    [chunks |-> p.chunks + 1, good |-> p.good /\ chunk # "wrong"]]
  /\ IF root # NoRoot /\ FirstChunks(p.chunks)
       THEN Refund(sender, id, root, batches, fee)
       ELSE UNCHANGED <<batches, postingPool, disputeCredit, refunds>>
  /\ NoCall /\ UNCHANGED openCount
  /\ UNCHANGED <<challenges, queueVars, dutyUntil, answeredRoots, boundRoot,
                 deliveredUnder, receipts, disputeBalance>>

BoundTo(id, r) ==
  [batches EXCEPT ![id][r.root].proofHash = r.proofHash,
                  ![id][r.root].sealedRoot = r.sealedRoot]

BoundRoot(id, r) ==
  IF boundRoot[id][r.proofHash] = NoRoot
    THEN [boundRoot EXCEPT ![id][r.proofHash] = r.root] ELSE boundRoot

\* A request of the principal's, within its delivery wait, and a receipt for
\* the batch its answer proved.
Demanded(id, dg, r) ==
  LET c == challenges[<<id, dg>>] IN
  /\ c.byPrincipal
  /\ now <= c.deadline
  /\ Recorded(id, dg)
  /\ r \in receipts /\ r.id = id /\ r.root = c.root

BindPosting(sender, id, dg, r, fee) ==
  /\ challenges[<<id, dg>>].status \in {"Answered", "Delivered"}
  /\ Demanded(id, dg, r)
  /\ batches[id][r.root].proofHash = NoHash
  /\ boundRoot' = BoundRoot(id, r)
  /\ Refund(sender, id, r.root, BoundTo(id, r), fee)
  /\ NoCall /\ UNCHANGED openCount
  /\ UNCHANGED <<challenges, queueVars, dutyUntil, answeredRoots, postingVars,
                 receipts, disputeBalance>>

\* The first delivery under a batch binds it; a delivery under another receipt
\* than the bound one stands, but is not refunded.
Deliver(sender, id, dg, r, fee) ==
  LET first == batches[id][r.root].proofHash = NoHash
      b == IF first THEN BoundTo(id, r) ELSE batches IN
  /\ challenges[<<id, dg>>].status = "Answered"
  /\ Demanded(id, dg, r)
  /\ challenges' = [challenges EXCEPT ![<<id, dg>>].status = "Delivered"]
  /\ deliveredUnder' = [deliveredUnder EXCEPT ![<<id, dg>>] = r.sealedRoot]
  /\ boundRoot' = IF first THEN BoundRoot(id, r) ELSE boundRoot
  /\ IF /\ b[id][r.root].proofHash = r.proofHash
        /\ b[id][r.root].sealedRoot = r.sealedRoot
       THEN Refund(sender, id, r.root, b, fee)
       ELSE batches' = b /\ UNCHANGED <<postingPool, disputeCredit, refunds>>
  /\ NoCall /\ UNCHANGED openCount
  /\ UNCHANGED <<queueVars, dutyUntil, answeredRoots, postings, postedAt,
                 receipts, disputeBalance>>

----------------------------------------------------------------------------
(* Slashing the answerer.                                                  *)

\* A receipt its answerer signed for a batch that holds the settlement.
Holds(id, dg, r) ==
  /\ r \in receipts /\ r.id = id
  /\ <<id, dg>> \in Batched[r.root]
  /\ Recorded(id, dg)

\* Held early enough to answer, and did not.
LeftUnanswered(id, dg, r) ==
  /\ challenges[<<id, dg>>].status = "Expired"
  /\ Holds(id, dg, r)
  /\ r.receivedAt + AnswerWindow <= challenges[<<id, dg>>].deadline

\* A second receipt gives itself away.
Swapped(id, dg, r) ==
  LET b == batches[id][r.root] IN
  \/ /\ challenges[<<id, dg>>].status = "Delivered"
     /\ deliveredUnder[<<id, dg>>] # r.sealedRoot
  \/ /\ b.proofHash # NoHash
     /\ b.proofHash # r.proofHash \/ b.sealedRoot # r.sealedRoot

\* Mutated: a proof posted in the deadline's own second counts as missing.
MissingLate(id, dg, r) ==
  LET c == challenges[<<id, dg>>]
      at == postedAt[id][r.proofHash] IN
  /\ ~batches[id][r.root].lapsed
  /\ now > c.deadline
  /\ c.status = "Answered" \/ at = 0 \/ at >= c.deadline
  /\ r.receivedAt + DeliveryWait <= c.deadline

\* Held before the answer, and either part missing at the wait's end.
Missing(id, dg, r) ==
  LET c == challenges[<<id, dg>>]
      at == postedAt[id][r.proofHash] IN
  /\ ~batches[id][r.root].lapsed
  /\ now > c.deadline
  /\ c.status = "Answered" \/ at = 0 \/ at > c.deadline
  /\ r.receivedAt + DeliveryWait <= c.deadline

Withheld(id, dg, r) ==
  /\ Holds(id, dg, r)
  /\ challenges[<<id, dg>>].byPrincipal
  /\ challenges[<<id, dg>>].status \in {"Answered", "Delivered"}
  /\ Swapped(id, dg, r) \/ Missing(id, dg, r)

\* Both slashes call the reserve and change nothing here.
Slash(id, dg, r, caller) ==
  /\ LeftUnanswered(id, dg, r) \/ Withheld(id, dg, r)
  /\ SlashAnswerer(id, caller, ProvingBond)
  /\ UNCHANGED <<openCount, disputeVars>>

WithdrawCredit(a) ==
  /\ disputeCredit[a] # 0
  /\ disputeBalance' = disputeBalance - disputeCredit[a]
  /\ disputeCredit' = [disputeCredit EXCEPT ![a] = 0]
  /\ NoCall /\ UNCHANGED openCount
  /\ UNCHANGED <<challenges, queueVars, dutyUntil, batchVars, postingVars,
                 receipts, postingPool, refunds>>

----------------------------------------------------------------------------
\* The contract as deployed; `held' is what answerers signed before.
DisputeInit(held) ==
  /\ challenges = [k \in Key |-> Unchallenged]
  /\ lastPrincipalDeadline = [a \in Address |-> [p \in Principal |-> 0]]
  /\ lastPublicDeadline = [a \in Address |-> 0]
  /\ asked = [a \in Address |-> [p \in Principal |-> 0]]
  /\ postingPool = [id \in Id |-> 0]
  /\ dutyUntil = [id \in Id |-> 0]
  /\ answeredRoots = [id \in Id |-> {}]
  /\ batches = [id \in Id |-> [root \in BatchRoot |-> Unbound]]
  /\ boundRoot = [id \in Id |-> [h \in ProofHash |-> NoRoot]]
  /\ postings = [a \in Poster |-> [id \in Id |-> [h \in ProofHash |->
                   [chunks |-> 0, good |-> TRUE]]]]
  /\ postedAt = [id \in Id |-> [h \in ProofHash |-> 0]]
  /\ deliveredUnder = [k \in Key |-> NoSeal]
  /\ refunds = [id \in Id |-> 0]
  /\ receipts = held
  /\ disputeBalance = 0
  /\ disputeCredit = [a \in Account |-> 0]

\* The deployment names this contract the reserve's arbiter.
ComposedInit ==
  /\ ReserveInit(This)
  /\ DisputeInit({})

DisputeStep ==
  \/ \E sender \in Challenger, id \in Id, dg \in Digest, bond \in BondPrice,
        deposit \in DepositPrice, excess \in Excess :
       Open(sender, id, dg, bond, deposit, excess)
  \/ \E sender \in Challenger, id \in Id, dg \in Digest,
        deposit \in DepositPrice, excess \in Excess :
       Join(sender, id, dg, deposit, excess)
  \/ \E sender \in Challenger, id \in Id, dg \in Digest : Cancel(sender, id, dg)
  \/ \E keys \in SUBSET Due : \E items \in [keys -> Provable] : Answer(items)
  \/ \E id \in Id, dg \in Digest : Expire(id, dg)
  \/ \E id \in Id, value \in Donation : FundPosting(id, value)
  \/ \E id \in Id : ReturnPosting(id)
  \/ \E id \in Id, root \in BatchRoot, sealed \in SealedRoot, hash \in ProofHash :
       SignReceipt(id, root, sealed, hash)
  \/ \E sender \in Poster, id \in Id, hash \in ProofHash,
        chunk \in {"next", "wrong", "last"}, fee \in Fee :
       PostProof(sender, id, hash, chunk, fee)
  \/ \E sender \in Poster, id \in Id, dg \in Digest, r \in receipts, fee \in Fee :
       BindPosting(sender, id, dg, r, fee)
  \/ \E sender \in Poster, id \in Id, dg \in Digest, r \in receipts, fee \in Fee :
       Deliver(sender, id, dg, r, fee)
  \/ \E id \in Id, dg \in Digest, r \in receipts, caller \in Address :
       Slash(id, dg, r, caller)
  \/ \E a \in Address : WithdrawCredit(a)

ComposedNext ==
  \/ Tick /\ UNCHANGED disputeVars
  \/ AccountStep /\ UNCHANGED disputeVars
  \/ DisputeStep

ComposedSpec == ComposedInit /\ [][ComposedNext]_vars

\* Anyone may expire a challenge and close a delegation, and somebody who is
\* owed by it does: the challenger its bond, the agent its bond.
Fairness ==
  /\ WF_vars(Tick /\ UNCHANGED disputeVars)
  /\ \A id \in Id : WF_vars(Close(id) /\ UNCHANGED disputeVars)
  /\ \A id \in Id, dg \in Digest : WF_vars(Expire(id, dg))

FairSpec == ComposedSpec /\ Fairness

----------------------------------------------------------------------------
(* Properties.                                                             *)

\* Every variable has the type the contract declares for it.
DisputeTypeOK ==
  /\ challenges \in [Key -> Challenge]
  /\ lastPrincipalDeadline \in [Address -> [Principal -> Nat]]
  /\ lastPublicDeadline \in [Address -> Nat]
  /\ asked \in [Address -> [Principal -> Nat]]
  /\ postingPool \in [Id -> Nat]
  /\ dutyUntil \in [Id -> Nat]
  /\ answeredRoots \in [Id -> SUBSET BatchRoot]
  /\ batches \in [Id -> [BatchRoot -> BatchPosting]]
  /\ boundRoot \in [Id -> [ProofHash -> BatchRoot \cup {NoRoot}]]
  /\ postings \in [Poster -> [Id -> [ProofHash -> [chunks: Nat, good: BOOLEAN]]]]
  /\ postedAt \in [Id -> [ProofHash -> Nat]]
  /\ deliveredUnder \in [Key -> SealedRoot \cup {NoSeal}]
  /\ refunds \in [Id -> Nat]
  /\ receipts \subseteq Receipt
  /\ disputeBalance \in Int
  /\ disputeCredit \in [Account -> Nat]

OpenOf(id) == {dg \in Digest : challenges[<<id, dg>>].status = "Open"}

Standing(id) == {dg \in OpenOf(id) : challenges[<<id, dg>>].byPrincipal}

\* Settlement is held exactly while a challenge of the principal's, or one it
\* joined, is open: the reserve's count never drifts from the contract's own
\* records through joins, cancellations, answers of many and expiries, so no
\* release underflows and no hold is left behind (open, join, cancel, _settle,
\* expire).
HoldsExact == \A id \in Id : delegations[id].holds = Cardinality(Standing(id))

\* What keeps a delegation from closing is exactly its open challenges (open,
\* cancel, _settle, expire; close reads openCount).
OpenCountExact == \A id \in Id : openCount[id] = Cardinality(OpenOf(id))

Against(agent) == {k \in Key : challenges[k].status = "Open" /\ AgentOf(k[1]) = agent}

Even(d) == d % (2 * Slot) = 0

\* Which of an agent's queues a deadline is in: a principal's, or the rest's.
Queue(k) == IF Even(challenges[k].deadline) THEN PrincipalOf(k[1]) ELSE NoAddress

Distance(d, e) == IF d < e THEN e - d ELSE d - e

\* An agent that proves one answer a slot for each principal, and one more,
\* misses no deadline: every open challenge left it a full answer window, open
\* deadlines of one queue are two slots apart and those of a principal's queue
\* and the others' one slot, whoever joined or cancelled since (_next, join).
DeadlinesSpaced ==
  \A a \in Address : \A k \in Against(a) :
    /\ challenges[k].deadline >= challenges[k].openedAt + AnswerWindow
    /\ \A j \in Against(a) \ {k} :
         LET apart == Distance(challenges[k].deadline, challenges[j].deadline) IN
         /\ Queue(k) = Queue(j) => apart >= 2 * Slot
         /\ (Queue(k) # Queue(j) /\ NoAddress \in {Queue(k), Queue(j)})
              => apart >= Slot

\* What others open cannot push back a principal's challenge: its deadline is
\* at most an answer window away when it asks, and two slots for each of its
\* own challenges and joins against the agent (_next, open, join).
PrincipalUndelayed ==
  \A id \in Id : \A dg \in Standing(id) :
    challenges[<<id, dg>>].deadline
      <= now + AnswerWindow + 2 * Slot * asked[AgentOf(id)][PrincipalOf(id)]

\* An expired challenge froze the delegation and its bond went to the
\* principal, never back to the agent: no close, before or after the expiry,
\* gets there first (expire, forfeit, claim, close).
ForfeitReachesPrincipal ==
  \A id \in Id, dg \in Digest :
    challenges[<<id, dg>>].status = "Expired"
      => delegations[id].frozen /\ bondTo[id] = "principal"

\* The contract's ether is what it owes: credits, posting pools, and the bonds
\* of the challenges still open.
DisputeSolvent ==
  disputeBalance =
    SumFunction(disputeCredit) + SumFunction(postingPool)
    + SumFunctionOnSet(Bonds, {k \in Key : challenges[k].status = "Open"})

\* While a challenge of the principal's stands, nothing more settles under the
\* delegation (hold, _admit).
HoldStopsSettlement ==
  [][\A id \in Id : Standing(id) # {} => settled'[id] = settled[id]]_vars

Requests(id, root) ==
  {dg \in Digest : /\ challenges[<<id, dg>>].byPrincipal
                   /\ challenges[<<id, dg>>].status \in {"Answered", "Delivered"}
                   /\ challenges[<<id, dg>>].root = root}

\* A batch counts exactly the principal's requests under it that were not
\* withdrawn, so refunds stop when the last one is and a withdrawal never
\* underflows (_settle, join, cancel).
DueExact ==
  \A id \in Id, root \in BatchRoot :
    batches[id][root].due = Cardinality(Requests(id, root))

\* A closed delegation owes no delivery later than the wait after its close, so
\* the stake outlives every delivery deadline by closeDelay, and no request can
\* be added once it is gone (_settle, join, close, unstakeAnswerer).
StakeOutlivesDuty ==
  \A id \in Id :
    /\ \A root \in BatchRoot : \A dg \in Requests(id, root) :
         challenges[<<id, dg>>].deadline <= dutyUntil[id]
    /\ delegations[id].closed
         => /\ dutyUntil[id] <= closedAt[id] + DeliveryWait
            /\ OpenOf(id) = {}

\* The pool that pays for deliveries is not taken back while one may still be
\* asked or owed: what leaves it otherwise than as a refund leaves with every
\* challenge ended and the deadline of every request past, however late the
\* answer or the join that made it (returnPosting, _settle, join).
PoolOutlivesDuty ==
  [][\A id \in Id :
       postingPool'[id] < postingPool[id] /\ refunds'[id] = refunds[id] =>
         /\ OpenOf(id) = {}
         /\ \A root \in BatchRoot : \A dg \in Requests(id, root) :
              challenges[<<id, dg>>].deadline < now]_vars

Agree(r, q) ==
  r.root = q.root /\ r.sealedRoot = q.sealedRoot /\ r.proofHash = q.proofHash

\* An answerer that never receipted two trees or two proofs for one settlement
\* or one batch, and posted the proof and the opening by the deadline, cannot
\* be slashed for that settlement, whatever others post, bind, join or cancel
\* (slashWithholding, deliver, bindPosting; answerer.ts refuses an overlap).
BlamelessUnslashed ==
  \A id \in Id, dg \in Digest : \A r \in receipts :
    LET c == challenges[<<id, dg>>]
        at == postedAt[id][r.proofHash] IN
    (/\ Holds(id, dg, r)
     /\ \A q \in receipts :
          (q.id = id /\ (q.root = r.root \/ Holds(id, dg, q))) => Agree(r, q)
     /\ c.status = "Delivered" /\ at # 0 /\ at <= c.deadline)
    => ~Withheld(id, dg, r)

\* The pool pays for a bounded number of postings: one binding or delivery for
\* each settlement and each batch, and maxChunks chunks of each bound proof
\* (bindPosting, deliver, postProof, _refund).
RefundsBounded ==
  \A id \in Id :
    refunds[id] <=
      Cardinality({root \in BatchRoot : batches[id][root].proofHash # NoHash})
      + Cardinality({dg \in Digest : deliveredUnder[<<id, dg>>] # NoSeal})
      + MaxChunks * Cardinality({h \in ProofHash : boundRoot[id][h] # NoRoot})

\* Every challenge ends: answered, expired or withdrawn (expire).
ChallengeEnds ==
  \A id \in Id, dg \in Digest :
    challenges[<<id, dg>>].status = "Open" ~> challenges[<<id, dg>>].status # "Open"

\* No challenger, and no principal, keeps a posted bond in the reserve for
\* ever: it reaches the agent or the principal (close, forfeit, claim).
BondReturns ==
  \A id \in Id : delegations[id].accepted ~> bondTo[id] # "nobody"
============================================================================
