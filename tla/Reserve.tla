------------------------------ MODULE Reserve ------------------------------
(***************************************************************************)
(* The settlement domain of SourceCode/Reserve/src/Reserve.sol: what a     *)
(* principal delegates, what an agent posts as a bond, what settles and    *)
(* where every coin goes.                                                  *)
(*                                                                         *)
(* One action is one transaction.  A transaction whose `require' or        *)
(* `revert' fires changes nothing, so the negation of every such condition *)
(* is a conjunct of the action's guard.  The contract named by setDispute  *)
(* (the arbiter) is an environment here: it may hold, release, forfeit and *)
(* slash whenever it likes.  ValidityDispute composes the same actions     *)
(* with the real one.                                                      *)
(*                                                                         *)
(* Data abstracted: hashes are injective, so a record stands for its hash; *)
(* transcript elements are their number; the recorded choice openOnRequest *)
(* and the commitment are never acted on and are left out.                 *)
(*                                                                         *)
(* An operator whose comment begins `Mutated:' is a plausible mistake in   *)
(* the one after it.  No action uses it: it is there to show that a        *)
(* property would notice.                                                  *)
(***************************************************************************)
EXTENDS Integers, Sequences, FiniteSetsExt, Functions

CONSTANTS
  Address,        \* accounts that send transactions or receive money
  NoAddress,      \* address(0)
  Vault,          \* the reserve's own account at the token
  Digest,         \* payload digests, the indices a delegation settles once
  Root,           \* revocation accumulator roots
  Secret,         \* delegation secrets
  NotSettled,     \* the zero hash of an unsettled digest
  NoDispute,      \* no arbiter has been set yet
  MaxAge,         \* Reserve.maxAge
  CloseDelay,     \* Reserve.closeDelay
  Word            \* one more than the largest uint64

\* The calls accounts make, from small sets, and the model's bounds.
CONSTANTS
  Principal,      \* accounts that register delegations
  Signer,         \* accounts that act as agents: sign payloads, declare capacity
  Offer,          \* the Terms they may register
  Payment,        \* what an agent may sign: digest, payee, amount, skew, slots
  Dispute,        \* arbiters the deployer may set: acceptWindow, deliveryWait
  Capacity,       \* numbers an agent may declare
  StakeValue,     \* ether an answerer may stake at a time
  Bounty,         \* bounties an arbiter may name in a slash
  Revocation,     \* sequences of ranges a principal may revoke in one call
  Wealth,         \* the tokens each account starts with
  StartTime,      \* the block time at deployment
  MaxTime,        \* bound: the last block time
  MaxDelegations, \* bound: delegations registered
  MaxSigned,      \* bound: payloads signed
  MaxBalance,     \* bound: the contract's ether after a stake
  MaxHolds        \* bound: holds and open challenges of a lone arbiter

Id == 0..(MaxDelegations - 1)

UnitRange == [start: Nat, len: Nat]

Terms == [agent: Address, cap: Nat, velocityN: Nat, windowW: Nat,
          funding: {"Deposit", "Permit2"}, deposit: Nat, bond: Nat,
          expiry: Nat, unitSize: Nat, rangeBase: Nat, rangeLen: Nat,
          secretHash: {<<"H", s>> : s \in Secret},
          monitor: Address \cup {NoAddress},
          answerer: Address \cup {NoAddress}]

\* The record of an identifier nobody registered.
Blank ==
  [principal |-> NoAddress,
   terms |-> [agent |-> NoAddress, cap |-> 0, velocityN |-> 0, windowW |-> 0,
              funding |-> "Deposit", deposit |-> 0, bond |-> 0, expiry |-> 0,
              unitSize |-> 0, rangeBase |-> 0, rangeLen |-> 0,
              secretHash |-> NoAddress, monitor |-> NoAddress,
              answerer |-> NoAddress],
   holds |-> 0, frozen |-> FALSE, frozenAt |-> 0, bondPaid |-> FALSE,
   accepted |-> FALSE, closed |-> FALSE, epoch |-> 0, deposit |-> 0,
   bond |-> 0, stake |-> 0]

Settlement == [payee: Address, amount: Nat, time: Nat, epoch: Nat, at: Nat]

Payload == [id: Id, signer: Address, epoch: Nat, digest: Digest,
            payee: Address, amount: Nat, time: Nat, slots: Nat]

Delegation ==
  [principal: Principal \cup {NoAddress},
   terms: Terms \cup {Blank.terms},
   holds: Nat, frozen: BOOLEAN, frozenAt: Nat, bondPaid: BOOLEAN,
   accepted: BOOLEAN, closed: BOOLEAN, epoch: Nat, deposit: Nat, bond: Nat,
   stake: Nat]

ASSUME ReserveAssumption ==
  /\ NoAddress \notin Address
  /\ Vault \notin Address
  /\ IsFiniteSet(Address) /\ IsFiniteSet(Digest)
  /\ Principal \subseteq Address /\ Signer \subseteq Address
  /\ NotSettled \notin Settlement
  /\ MaxAge \in Nat /\ CloseDelay \in Nat /\ Word \in Nat
  /\ Offer \subseteq Terms
  /\ Payment \subseteq [digest: Digest, payee: Address, amount: Nat,
                        skew: Int, slots: Nat]
  /\ Dispute \subseteq [acceptWindow: Nat, deliveryWait: Nat]
  /\ NoDispute \notin [acceptWindow: Nat, deliveryWait: Nat]
  /\ Capacity \subseteq Nat /\ StakeValue \subseteq Nat /\ Bounty \subseteq Nat
  /\ Revocation \subseteq Seq(UnitRange)
  /\ Wealth \in Nat /\ StartTime \in Nat /\ MaxTime \in Nat
  /\ MaxDelegations \in Nat /\ MaxSigned \in Nat
  /\ MaxBalance \in Nat /\ MaxHolds \in Nat

VARIABLES
  now,            \* block.timestamp
  delegations,    \* Reserve.delegations
  closedAt,       \* Reserve.closedAt
  nextId,         \* Reserve.nextId
  dispute,        \* the contract setDispute named, as the numbers it answers
  openCount,      \* what that contract answers to openCount(id)
  signed,         \* payloads signed and handed to whoever delivers the service
  settled,        \* Reserve.settled, with the time of settlement as history
  windows,        \* Reserve.windows
  transcriptLen,  \* Reserve.transcriptLen
  rootAt,         \* Reserve.rootAt: the roots of epochs 0, 1, ... in order
  revoked,        \* Reserve.revoked
  capacityOf, servedCount, serves,  \* Reserve's mappings of the same names
  balance,        \* the contract's ether
  credit,         \* Reserve.credit
  burnt,          \* Reserve.burnt
  wallet,         \* token balances, the reserve's own under Vault
  bondTo          \* history: who each delegation's posted bond was paid to

linkVars == <<dispute, openCount>>
paymentVars == <<settled, windows, transcriptLen>>
revocationVars == <<rootAt, revoked>>
capacityVars == <<capacityOf, servedCount, serves>>
etherVars == <<balance, credit, burnt>>

reserveVars == <<now, delegations, closedAt, nextId, linkVars, signed,
                 paymentVars, revocationVars, capacityVars, etherVars,
                 wallet, bondTo>>

----------------------------------------------------------------------------
(* Effects on one delegation's record, shared by several transactions.     *)

Hash(secret) == <<"H", secret>>

Issued(p, t) ==
  [Blank EXCEPT !.principal = p, !.terms = t, !.bond = t.bond,
                !.deposit = IF t.funding = "Deposit" THEN t.deposit ELSE 0]

Froze(d) ==
  IF d.frozen THEN d ELSE [d EXCEPT !.frozen = TRUE, !.frozenAt = now]

\* The bond the contract holds for a delegation: none before acceptance, and
\* none once paid, because paying it zeroes the record.
HeldBond(d) == IF d.accepted THEN d.bond ELSE 0

\* Mutated: the record keeps the bond it paid.
BondSpentKept(d) == [d EXCEPT !.bondPaid = TRUE]

BondSpent(d) == [d EXCEPT !.bondPaid = TRUE, !.bond = 0]

Moved(from, to, amount) ==
  [wallet EXCEPT ![from] = @ - amount, ![to] = @ + amount]

Paid(who, id) ==
  IF delegations[id].accepted /\ ~delegations[id].bondPaid
    THEN [bondTo EXCEPT ![id] = who] ELSE bondTo

----------------------------------------------------------------------------
(* Deployment, registration and acceptance.                                *)

Tick ==
  /\ now < MaxTime
  /\ now' = now + 1
  /\ UNCHANGED <<delegations, closedAt, nextId, linkVars, signed, paymentVars,
                 revocationVars, capacityVars, etherVars, wallet, bondTo>>

SetDispute(c) ==
  /\ dispute = NoDispute
  /\ c.acceptWindow + MaxAge <= CloseDelay
  /\ dispute' = c
  /\ UNCHANGED <<now, delegations, closedAt, nextId, openCount, signed,
                 paymentVars, revocationVars, capacityVars, etherVars, wallet,
                 bondTo>>

DeclareCapacity(agent, n) ==
  /\ n >= servedCount[agent]
  /\ capacityOf' = [capacityOf EXCEPT ![agent] = n]
  /\ UNCHANGED <<now, delegations, closedAt, nextId, linkVars, signed,
                 paymentVars, revocationVars, servedCount, serves, etherVars,
                 wallet, bondTo>>

Register(p, t) ==
  /\ nextId < MaxDelegations
  /\ t.unitSize # 0 /\ t.rangeLen # 0
  /\ LET d == Issued(p, t) IN
     /\ wallet[p] >= d.deposit
     /\ delegations' = [delegations EXCEPT ![nextId] = d]
     /\ wallet' = Moved(p, Vault, d.deposit)
  /\ \E root \in Root : rootAt' = [rootAt EXCEPT ![nextId] = <<root>>]
  /\ nextId' = nextId + 1
  /\ UNCHANGED <<now, closedAt, linkVars, signed, paymentVars, revoked,
                 capacityVars, etherVars, bondTo>>

\* Mutated: one principal too many.
CanServeOneMore(agent, p) ==
  p \in serves[agent] \/ capacityOf[agent] = 0
    \/ servedCount[agent] <= capacityOf[agent]

\* An agent that declared no capacity, or declared zero, is not limited.
CanServe(agent, p) ==
  \/ p \in serves[agent]
  \/ capacityOf[agent] = 0
  \/ servedCount[agent] < capacityOf[agent]

TakenOn(agent, p) ==
  IF p \in serves[agent]
    THEN UNCHANGED <<servedCount, serves>>
    ELSE /\ serves' = [serves EXCEPT ![agent] = @ \cup {p}]
         /\ servedCount' = [servedCount EXCEPT ![agent] = @ + 1]

\* Mutated: a frozen delegation still takes a bond.
AcceptableFrozen(d) == ~d.accepted /\ ~d.closed

Acceptable(d) == ~d.accepted /\ ~d.frozen /\ ~d.closed

Accept(id) ==
  LET d == delegations[id]
      agent == d.terms.agent IN
  /\ agent \in Address
  /\ Acceptable(d)
  /\ CanServe(agent, d.principal)
  /\ TakenOn(agent, d.principal)
  /\ delegations' = [delegations EXCEPT ![id].accepted = TRUE]
  /\ balance' = balance + d.bond
  /\ UNCHANGED <<now, closedAt, nextId, linkVars, signed, paymentVars,
                 revocationVars, capacityOf, credit, burnt, wallet, bondTo>>

----------------------------------------------------------------------------
(* Settlement.                                                             *)

Units(amount, u) == (amount + u - 1) \div u

\* The client signs everything the agent answers for, with the epoch the
\* reserve reports at that moment (client.ts, signedDigest).
Sign(id, signer, pay) ==
  LET p == [id |-> id, signer |-> signer, epoch |-> delegations[id].epoch,
            digest |-> pay.digest, payee |-> pay.payee,
            amount |-> pay.amount, time |-> now + pay.skew,
            slots |-> pay.slots] IN
  /\ Cardinality(signed) < MaxSigned
  /\ now + pay.skew >= 0
  /\ signed' = signed \cup {p}
  /\ UNCHANGED <<now, delegations, closedAt, nextId, linkVars, paymentVars,
                 revocationVars, capacityVars, etherVars, wallet, bondTo>>

\* Mutated: a window opens at a multiple of its length, not with a payment.
WindowAfterAligned(id) ==
  LET w == delegations[id].terms.windowW IN
  IF now >= windows[id].start + w
    THEN [start |-> now - (now % w), count |-> 1]
    ELSE [windows[id] EXCEPT !.count = @ + 1]

\* The tumbling velocity window after one more payment at this time.
WindowAfter(id) ==
  IF now >= windows[id].start + delegations[id].terms.windowW
    THEN [start |-> now, count |-> 1]
    ELSE [windows[id] EXCEPT !.count = @ + 1]

Fresh(time) ==
  /\ now + MaxAge < Word /\ time + MaxAge < Word
  /\ time <= now + MaxAge /\ now <= time + MaxAge

\* Mutated: the signature does not cover the revocation epoch.
SignedByAnyEpoch(p) == p.signer = delegations[p.id].terms.agent

SignedBy(p) ==
  /\ p.signer = delegations[p.id].terms.agent
  /\ p.epoch = delegations[p.id].epoch

\* Mutated: a standing challenge of the principal's does not stop settlement.
LiveUnheld(d) == ~d.frozen /\ d.accepted

Live(d) == ~d.frozen /\ d.accepted /\ d.holds = 0

Admitted(p) ==
  LET d == delegations[p.id] IN
  /\ Live(d)
  /\ p.slots = 3 * Units(p.amount, d.terms.unitSize)
  /\ now <= d.terms.expiry
  /\ Fresh(p.time)
  /\ settled[p.id][p.digest] = NotSettled
  /\ p.amount <= d.terms.cap
  /\ windows[p.id].start + d.terms.windowW < Word
  /\ WindowAfter(p.id).count <= d.terms.velocityN

PaidOut(p) ==
  LET d == delegations[p.id] IN
  IF d.terms.funding = "Deposit"
    THEN /\ d.deposit >= p.amount
         /\ delegations' = [delegations EXCEPT ![p.id].deposit = @ - p.amount]
         /\ wallet' = Moved(Vault, p.payee, p.amount)
    ELSE /\ wallet[d.principal] >= p.amount
         /\ wallet' = Moved(d.principal, p.payee, p.amount)
         /\ UNCHANGED delegations

\* Four elements are packed to a word.
Settle(p, stored) ==
  /\ p \in signed
  /\ SignedBy(p)
  /\ Admitted(p)
  /\ windows' = [windows EXCEPT ![p.id] = WindowAfter(p.id)]
  /\ settled' = [settled EXCEPT ![p.id][p.digest] =
                   [payee |-> p.payee, amount |-> p.amount, time |-> p.time,
                    epoch |-> delegations[p.id].epoch, at |-> now]]
  /\ transcriptLen' =
       [transcriptLen EXCEPT ![p.id] = IF stored THEN @ + (p.slots + 3) \div 4
                                                 ELSE @]
  /\ PaidOut(p)
  /\ UNCHANGED <<now, closedAt, nextId, linkVars, signed, revocationVars,
                 capacityVars, etherVars, bondTo>>

----------------------------------------------------------------------------
(* The bond, the stake and the end of a delegation.                        *)

\* Whoever knows the secret may present it; the bond goes to the principal.
\* Paying an already paid bond reverts, and the freeze with it.
Claim(id, secret) ==
  LET d == delegations[id] IN
  /\ Hash(secret) = d.terms.secretHash
  /\ ~d.bondPaid
  /\ delegations' = [delegations EXCEPT ![id] = BondSpent(Froze(d))]
  /\ credit' = [credit EXCEPT ![d.principal] = @ + HeldBond(d)]
  /\ bondTo' = Paid("principal", id)
  /\ UNCHANGED <<now, closedAt, nextId, linkVars, signed, paymentVars,
                 revocationVars, capacityVars, balance, burnt, wallet>>

StakeAnswerer(id, value) ==
  LET d == delegations[id] IN
  /\ d.terms.answerer # NoAddress
  /\ ~d.closed
  /\ balance + value <= MaxBalance
  /\ delegations' = [delegations EXCEPT ![id].stake = @ + value]
  /\ balance' = balance + value
  /\ UNCHANGED <<now, closedAt, nextId, linkVars, signed, paymentVars,
                 revocationVars, capacityVars, credit, burnt, wallet, bondTo>>

StakeWait ==
  CloseDelay + (IF dispute = NoDispute THEN 0 ELSE dispute.deliveryWait)

UnstakeAnswerer(id) ==
  LET d == delegations[id] IN
  /\ d.terms.answerer # NoAddress
  /\ d.closed
  /\ now > closedAt[id] + StakeWait
  /\ delegations' = [delegations EXCEPT ![id].stake = 0]
  /\ balance' = balance - d.stake
  /\ UNCHANGED <<now, closedAt, nextId, linkVars, signed, paymentVars,
                 revocationVars, capacityVars, credit, burnt, wallet, bondTo>>

\* The principal, or its monitor.
MayStop(sender, d) == sender = d.principal \/ sender = d.terms.monitor

Freeze(id, sender) ==
  /\ MayStop(sender, delegations[id])
  /\ delegations' = [delegations EXCEPT ![id] = Froze(@)]
  /\ UNCHANGED <<now, closedAt, nextId, linkVars, signed, paymentVars,
                 revocationVars, capacityVars, etherVars, wallet, bondTo>>

\* Mutated: what was reclaimed can be reclaimed again.
ReclaimKept(id) ==
  LET d == delegations[id] IN
  /\ d.principal # NoAddress
  /\ d.frozen
  /\ wallet' = Moved(Vault, d.principal, d.deposit)
  /\ UNCHANGED <<now, delegations, closedAt, nextId, linkVars, signed,
                 paymentVars, revocationVars, capacityVars, etherVars, bondTo>>

Reclaim(id) ==
  LET d == delegations[id] IN
  /\ d.principal # NoAddress
  /\ d.frozen
  /\ delegations' = [delegations EXCEPT ![id].deposit = 0]
  /\ wallet' = Moved(Vault, d.principal, d.deposit)
  /\ UNCHANGED <<now, closedAt, nextId, linkVars, signed, paymentVars,
                 revocationVars, capacityVars, etherVars, bondTo>>

\* When a delegation stops settling: at its expiry, or when frozen earlier.
EndOf(d) ==
  IF d.frozen /\ d.frozenAt < d.terms.expiry THEN d.frozenAt ELSE d.terms.expiry

\* Mutated: one second early.
ClosableEarly(id) ==
  /\ ~delegations[id].closed
  /\ now >= EndOf(delegations[id]) + CloseDelay
  /\ dispute # NoDispute => openCount[id] = 0

\* Mutated: open challenges do not keep the delegation open.
ClosableChallenged(id) ==
  /\ ~delegations[id].closed
  /\ now > EndOf(delegations[id]) + CloseDelay

Closable(id) ==
  LET d == delegations[id] IN
  /\ ~d.closed
  /\ now > EndOf(d) + CloseDelay
  /\ dispute # NoDispute => openCount[id] = 0

\* Anyone may close.  An identifier nobody registered closes too: its blank
\* record is overwritten whole when it is registered.
Close(id) ==
  LET d == delegations[id]
      back == IF d.bondPaid THEN 0 ELSE HeldBond(d) IN
  /\ Closable(id)
  /\ delegations' =
       [delegations EXCEPT ![id] = [BondSpent(d) EXCEPT !.closed = TRUE,
                                                        !.deposit = 0]]
  /\ closedAt' = [closedAt EXCEPT ![id] = now]
  /\ IF d.principal = NoAddress
       THEN UNCHANGED <<credit, wallet>>
       ELSE /\ credit' = [credit EXCEPT ![d.terms.agent] = @ + back]
            /\ wallet' = Moved(Vault, d.principal, d.deposit)
  /\ bondTo' = Paid("agent", id)
  /\ UNCHANGED <<now, nextId, linkVars, signed, paymentVars, revocationVars,
                 capacityVars, balance, burnt>>

Withdraw(a) ==
  /\ credit[a] # 0
  /\ balance' = balance - credit[a]
  /\ credit' = [credit EXCEPT ![a] = 0]
  /\ UNCHANGED <<now, delegations, closedAt, nextId, linkVars, signed,
                 paymentVars, revocationVars, capacityVars, burnt, wallet,
                 bondTo>>

----------------------------------------------------------------------------
(* Revocation.  Range ends are 64-bit sums in the overlap test and wider in *)
(* the containment test, as the contract types them: a sum past the last   *)
(* word reverts the call.                                                   *)

Inside(r, t) ==
  /\ r.len # 0
  /\ r.start >= t.rangeBase
  /\ r.start + r.len <= t.rangeBase + t.rangeLen

ApartFrom(r, old) ==
  /\ old.start + old.len < Word
  /\ \/ r.start >= old.start + old.len
     \/ r.start + r.len < Word /\ old.start >= r.start + r.len

\* Mutated: ranges of one call are not compared with each other.
RevocableOneCall(id, ranges) ==
  /\ ranges # <<>>
  /\ \A i \in 1..Len(ranges) :
       /\ Inside(ranges[i], delegations[id].terms)
       /\ \A j \in 1..Len(revoked[id]) : ApartFrom(ranges[i], revoked[id][j])

Revocable(id, ranges) ==
  LET list == revoked[id] \o ranges
      before == Len(revoked[id]) IN
  /\ ranges # <<>>
  /\ \A i \in 1..Len(ranges) : Inside(ranges[i], delegations[id].terms)
  /\ \A i \in 1..Len(ranges) : \A j \in 1..(before + i - 1) :
       ApartFrom(ranges[i], list[j])

Revoke(id, ranges) ==
  /\ delegations[id].principal # NoAddress
  /\ Revocable(id, ranges)
  /\ revoked' = [revoked EXCEPT ![id] = @ \o ranges]
  /\ delegations' = [delegations EXCEPT ![id].epoch = @ + 1]
  /\ \E root \in Root : rootAt' = [rootAt EXCEPT ![id] = Append(@, root)]
  /\ UNCHANGED <<now, closedAt, nextId, linkVars, signed, paymentVars,
                 capacityVars, etherVars, wallet, bondTo>>

----------------------------------------------------------------------------
(* Calls only the arbiter may make.  openCount is the arbiter's own state: *)
(* these leave it alone, so that the arbiter's transaction may change it.  *)

ArbiterKeeps ==
  UNCHANGED <<now, closedAt, nextId, dispute, signed, paymentVars,
              revocationVars, capacityVars, wallet>>

NoCall == ArbiterKeeps /\ UNCHANGED <<delegations, etherVars, bondTo>>

Hold(id) ==
  /\ dispute # NoDispute
  /\ delegations' = [delegations EXCEPT ![id].holds = @ + 1]
  /\ UNCHANGED <<etherVars, bondTo>> /\ ArbiterKeeps

\* Mutated: the count of holds may go below zero.
ReleaseUnchecked(n) ==
  /\ dispute # NoDispute
  /\ delegations' = [id \in Id |-> [delegations[id] EXCEPT !.holds = @ - n[id]]]
  /\ UNCHANGED <<etherVars, bondTo>> /\ ArbiterKeeps

\* The releases of one transaction, n[id] of each delegation.  Releasing more
\* than was held underflows and reverts.
Release(n) ==
  /\ dispute # NoDispute
  /\ \A id \in Id : delegations[id].holds >= n[id]
  /\ delegations' = [id \in Id |-> [delegations[id] EXCEPT !.holds = @ - n[id]]]
  /\ UNCHANGED <<etherVars, bondTo>> /\ ArbiterKeeps

\* Mutated: an expiry reverts when a claim already took the bond.
ForfeitableUnpaid(d, unheld) ==
  d.principal # NoAddress /\ d.holds >= unheld /\ ~d.bondPaid

Forfeitable(d, unheld) == d.principal # NoAddress /\ d.holds >= unheld

\* An expired challenge; `unheld' is what it releases in the same transaction.
\* It freezes even when the bond is already paid, and pays only once.
Forfeit(id, unheld) ==
  LET d == delegations[id] IN
  /\ dispute # NoDispute
  /\ Forfeitable(d, unheld)
  /\ delegations' =
       [delegations EXCEPT ![id] = [BondSpent(Froze(d)) EXCEPT
                                      !.holds = @ - unheld]]
  /\ credit' = [credit EXCEPT ![d.principal] =
                  @ + (IF d.bondPaid THEN 0 ELSE HeldBond(d))]
  /\ bondTo' = Paid("principal", id)
  /\ UNCHANGED <<balance, burnt>> /\ ArbiterKeeps

SlashAnswerer(id, caller, bounty) ==
  LET d == delegations[id]
      paid == IF bounty < d.stake THEN bounty ELSE d.stake IN
  /\ dispute # NoDispute
  /\ delegations' = [delegations EXCEPT ![id].stake = 0]
  /\ burnt' = burnt + (d.stake - paid)
  /\ credit' = [credit EXCEPT ![caller] = @ + paid]
  /\ UNCHANGED <<balance, bondTo>> /\ ArbiterKeeps

\* A lone arbiter's challenges come and go as it likes.
ArbiterCounts(id, n) ==
  /\ dispute # NoDispute
  /\ openCount' = [openCount EXCEPT ![id] = n]
  /\ NoCall

----------------------------------------------------------------------------
\* The reserve as deployed, its arbiter named or not yet.
ReserveInit(c) ==
  /\ now = StartTime
  /\ delegations = [id \in Id |-> Blank]
  /\ closedAt = [id \in Id |-> 0]
  /\ nextId = 0
  /\ dispute = c
  /\ openCount = [id \in Id |-> 0]
  /\ signed = {}
  /\ settled = [id \in Id |-> [dg \in Digest |-> NotSettled]]
  /\ windows = [id \in Id |-> [start |-> 0, count |-> 0]]
  /\ transcriptLen = [id \in Id |-> 0]
  /\ rootAt = [id \in Id |-> <<>>]
  /\ revoked = [id \in Id |-> <<>>]
  /\ capacityOf = [a \in Address |-> 0]
  /\ servedCount = [a \in Address |-> 0]
  /\ serves = [a \in Address |-> {}]
  /\ balance = 0
  /\ credit = [a \in Address |-> 0]
  /\ burnt = 0
  /\ wallet = [a \in Address \cup {Vault} |-> IF a = Vault THEN 0 ELSE Wealth]
  /\ bondTo = [id \in Id |-> "nobody"]

Init == ReserveInit(NoDispute)

\* What accounts may call.
AccountStep ==
  \/ \E a \in Signer, n \in Capacity : DeclareCapacity(a, n)
  \/ \E p \in Principal, t \in Offer : Register(p, t)
  \/ \E id \in Id : Accept(id)
  \/ \E id \in Id, signer \in Signer, pay \in Payment : Sign(id, signer, pay)
  \/ \E p \in signed, stored \in BOOLEAN : Settle(p, stored)
  \/ \E id \in Id, secret \in Secret : Claim(id, secret)
  \/ \E id \in Id, v \in StakeValue : StakeAnswerer(id, v)
  \/ \E id \in Id : UnstakeAnswerer(id)
  \/ \E id \in Id, sender \in Address : Freeze(id, sender)
  \/ \E id \in Id : Reclaim(id)
  \/ \E id \in Id : Close(id)
  \/ \E a \in Address : Withdraw(a)
  \/ \E id \in Id, ranges \in Revocation : Revoke(id, ranges)

\* What the arbiter may call, and what it may answer.
ArbiterStep ==
  \/ \E id \in Id : /\ delegations[id].holds < MaxHolds
                     /\ Hold(id)
                     /\ UNCHANGED openCount
  \/ \E id \in Id : /\ Release([i \in Id |-> IF i = id THEN 1 ELSE 0])
                     /\ UNCHANGED openCount
  \/ \E id \in Id, unheld \in 0..1 : Forfeit(id, unheld) /\ UNCHANGED openCount
  \/ \E id \in Id, caller \in Address, bounty \in Bounty :
       SlashAnswerer(id, caller, bounty) /\ UNCHANGED openCount
  \/ \E id \in Id, n \in 0..MaxHolds : ArbiterCounts(id, n)

Next ==
  \/ Tick
  \/ \E c \in Dispute : SetDispute(c)
  \/ AccountStep
  \/ ArbiterStep

Spec == Init /\ [][Next]_reserveVars

----------------------------------------------------------------------------
(* Properties.                                                             *)

\* Every variable has the type the contract declares for it.
ReserveTypeOK ==
  /\ now \in Nat
  /\ delegations \in [Id -> Delegation]
  /\ closedAt \in [Id -> Nat]
  /\ nextId \in 0..MaxDelegations
  /\ dispute \in Dispute \cup {NoDispute}
  /\ openCount \in [Id -> Nat]
  /\ signed \subseteq Payload
  /\ settled \in [Id -> [Digest -> Settlement \cup {NotSettled}]]
  /\ windows \in [Id -> [start: Nat, count: Nat]]
  /\ transcriptLen \in [Id -> Nat]
  /\ rootAt \in [Id -> Seq(Root)]
  /\ revoked \in [Id -> Seq(UnitRange)]
  /\ capacityOf \in [Address -> Nat]
  /\ servedCount \in [Address -> Nat]
  /\ serves \in [Address -> SUBSET Principal]
  /\ balance \in Int
  /\ credit \in [Address -> Nat]
  /\ burnt \in Nat
  /\ wallet \in [Address \cup {Vault} -> Int]
  /\ bondTo \in [Id -> {"nobody", "agent", "principal"}]

\* The contract's ether is exactly what it owes: credits not yet withdrawn,
\* bonds and stakes it holds, and the part of slashed stakes burnt for good
\* (accept, claim, forfeit, close, slashAnswerer, unstakeAnswerer, withdraw).
EtherBacked ==
  balance = SumFunction(credit) + burnt
            + SumFunction([id \in Id |-> HeldBond(delegations[id])
                                         + delegations[id].stake])

AmountOf(s) == IF s = NotSettled THEN 0 ELSE s.amount

AmountTo(s, a) ==
  IF s = NotSettled THEN 0 ELSE IF s.payee = a THEN s.amount ELSE 0

\* What settled under a delegation, in all and to one account.
SettledUnder(id) == SumFunction([dg \in Digest |-> AmountOf(settled[id][dg])])

SettledTo(id, a) == SumFunction([dg \in Digest |-> AmountTo(settled[id][dg], a)])

\* Every token is where its owner's own calls and the settlements put it: an
\* account's wallet, the deposits left under its delegations and what settled
\* under them are what it started with and what settlements paid it; the
\* reserve holds the deposits left and nothing else (register, _pay, reclaim,
\* close).
TokensAccounted ==
  /\ wallet[Vault] = SumFunction([id \in Id |-> delegations[id].deposit])
  /\ \A a \in Address :
       wallet[a]
         + SumFunction([id \in Id |->
             IF delegations[id].principal = a
               THEN delegations[id].deposit + SettledUnder(id) ELSE 0])
       = Wealth + SumFunction([id \in Id |-> SettledTo(id, a)])

\* What settled was signed by the agent, under the revocation epoch in force
\* when it settled, and settled while the delegation was live: not after its
\* expiry, not after its freeze, within maxAge of the signed time
\* (signedDigest, _checkAgentSignature, _admit).
SettledLive ==
  \A id \in Id, dg \in Digest :
    LET s == settled[id][dg]
        d == delegations[id] IN
    s # NotSettled =>
      /\ \E p \in signed :
           /\ p.id = id /\ p.digest = dg /\ p.signer = d.terms.agent
           /\ p.epoch = s.epoch /\ p.payee = s.payee
           /\ p.amount = s.amount /\ p.time = s.time
      /\ s.epoch <= d.epoch
      /\ s.at <= d.terms.expiry
      /\ d.frozen => s.at <= d.frozenAt
      /\ s.time <= s.at + MaxAge /\ s.at <= s.time + MaxAge

\* Once a delegation is closed no settlement under it can be challenged any
\* more: the bond outlives every acceptance window (setDispute, close).
BondOutlivesChallenges ==
  \A id \in Id, dg \in Digest :
    (delegations[id].closed /\ dispute # NoDispute
       /\ settled[id][dg] # NotSettled)
      => closedAt[id] > settled[id][dg].time + dispute.acceptWindow

SettledDuring(id, t, w) ==
  {dg \in Digest : /\ settled[id][dg] # NotSettled
                   /\ settled[id][dg].at >= t
                   /\ settled[id][dg].at < t + w}

\* In any span of windowW seconds fewer than twice velocityN payments settle:
\* a window of _admit opens with a payment, so a span that straddles two of
\* them misses at least the first payment of the earlier one.
VelocityBounded ==
  \A id \in Id : \A t \in StartTime..now :
    Cardinality(SettledDuring(id, t, delegations[id].terms.windowW))
      <= Max({0, 2 * delegations[id].terms.velocityN - 1})

\* What the executable model promises instead: at most velocityN payments in
\* any windowW seconds (reference.py, pay).
VelocitySliding ==
  \A id \in Id : \A t \in StartTime..now :
    Cardinality(SettledDuring(id, t, delegations[id].terms.windowW))
      <= delegations[id].terms.velocityN

\* The principals an agent is counted as serving are those whose delegations
\* it accepted, and a declared capacity bounds them (declareCapacity, accept).
CapacityKept ==
  \A a \in Address :
    /\ serves[a] = {delegations[id].principal :
                      id \in {i \in Id : /\ delegations[i].accepted
                                         /\ delegations[i].terms.agent = a}}
    /\ servedCount[a] = Cardinality(serves[a])
    /\ capacityOf[a] # 0 => servedCount[a] <= capacityOf[a]

Apart(r, q) == r.start + r.len <= q.start \/ q.start + q.len <= r.start

\* Revoked ranges are non-empty, inside the delegation's range and pairwise
\* disjoint, those of one call included, and each call that recorded some
\* started one epoch with a root of its own (revoke).
RevokedDisjoint ==
  \A id \in Id :
    /\ \A i \in 1..Len(revoked[id]) : Inside(revoked[id][i], delegations[id].terms)
    /\ \A i, j \in 1..Len(revoked[id]) :
         i # j => Apart(revoked[id][i], revoked[id][j])
    /\ delegations[id].principal # NoAddress
         => Len(rootAt[id]) = delegations[id].epoch + 1

\* What the comment on revoke says is enough for a range to be revoked: it lies
\* inside the delegation's range and overlaps none already revoked.
RevocationOpen ==
  \A id \in Id : \A ranges \in Revocation :
    (/\ delegations[id].principal # NoAddress
     /\ Len(ranges) = 1
     /\ Inside(ranges[1], delegations[id].terms)
     /\ \A j \in 1..Len(revoked[id]) : Apart(ranges[1], revoked[id][j]))
    => Revocable(id, ranges)

\* The abstract escrow each delegation's bond implements: posted once by
\* accept, paid once by claim, forfeit or close.
EscrowOf(id) ==
  IF ~delegations[id].accepted THEN "none"
  ELSE IF bondTo[id] = "nobody" THEN "held" ELSE bondTo[id]

Ended(id) ==
  LET d == delegations[id] IN
  d.principal # NoAddress /\ (d.frozen \/ d.closed \/ d.bondPaid)

Escrow == INSTANCE BondEscrow WITH
  escrow <- [id \in Id |-> EscrowOf(id)],
  ended <- {id \in Id : Ended(id)}

\* The bond of every delegation behaves as the abstract escrow's.
BondRefinesEscrow == Escrow!EscrowSpec
============================================================================
