----------------------------- MODULE MCReserve -----------------------------
(***************************************************************************)
(* Instances of Reserve for TLC.  The accounts are model values; the sets  *)
(* of calls are chosen here so that each run's interesting case happens.   *)
(***************************************************************************)
EXTENDS Reserve, TLC

CONSTANTS alice, bob, carol, answerer, monitor, d1, d2, d3, d4, root0, secret

\* The ether scene: a bond and a stake, and nothing to pay.  The expiry is early
\* enough for a close and an unstake before the clock stops.
EtherTerms ==
  [agent |-> carol, cap |-> 2, velocityN |-> 1, windowW |-> 2,
   funding |-> "Deposit", deposit |-> 0, bond |-> 3, expiry |-> StartTime + 1,
   unitSize |-> 1, rangeBase |-> 28, rangeLen |-> 4,
   secretHash |-> Hash(secret), monitor |-> NoAddress, answerer |-> answerer]

Digests == Permutations(Digest)

EtherDispute == {[acceptWindow |-> 1, deliveryWait |-> 1]}

\* The settlement run: one payment a window of two seconds, a range of four
\* units at the end of the word, and a rival signer.
SettleTerms == [EtherTerms EXCEPT !.deposit = 2, !.expiry = 4, !.windowW = 1,
                                  !.answerer = NoAddress]

SettleOffer == {SettleTerms, [SettleTerms EXCEPT !.funding = "Permit2"]}

SettlePayment ==
  [digest: Digest, payee: {bob}, amount: {1}, skew: {1}, slots: {3}]

SettleRevocation == {<<[start |-> 28, len |-> 1], [start |-> 29, len |-> 1]>>,
                     <<[start |-> 28, len |-> 2], [start |-> 29, len |-> 1]>>,
                     <<[start |-> 29, len |-> 2]>>}

\* Ranges up to the end of the word.
LastRevocation == {<<[start |-> 28, len |-> 2]>>, <<[start |-> 30, len |-> 2]>>}

\* The limits scene: two payments a window of two seconds, two principals of an
\* agent that declares its capacity.  The first delegation is registered, and
\* the agent has signed a payment of amount 0 per digest under it for each second.
LimitTerms == [EtherTerms EXCEPT !.velocityN = 2, !.expiry = StartTime + 2, !.bond = 0,
                                 !.answerer = NoAddress]

LimitOffer == {LimitTerms}

LimitInit ==
  /\ now = StartTime
  /\ delegations = [id \in Id |-> IF id = 0 THEN Issued(alice, LimitTerms) ELSE Blank]
  /\ closedAt = [id \in Id |-> 0]
  /\ nextId = 1
  /\ dispute = NoDispute
  /\ openCount = [id \in Id |-> 0]
  /\ signed = [id: {0}, signer: {carol}, epoch: {0}, digest: Digest, payee: {bob},
               amount: {0}, time: StartTime..MaxTime, slots: {0}]
  /\ settled = [id \in Id |-> [dg \in Digest |-> NotSettled]]
  /\ windows = [id \in Id |-> [start |-> 0, count |-> 0]]
  /\ transcriptLen = [id \in Id |-> 0]
  /\ rootAt = [id \in Id |-> IF id = 0 THEN <<root0>> ELSE <<>>]
  /\ revoked = [id \in Id |-> <<>>]
  /\ capacityOf = [a \in Address |-> 0]
  /\ servedCount = [a \in Address |-> 0]
  /\ serves = [a \in Address |-> {}]
  /\ balance = 0
  /\ credit = [a \in Address |-> 0]
  /\ burnt = 0
  /\ wallet = [a \in Address \cup {Vault} |-> IF a = Vault THEN 0 ELSE Wealth]
  /\ bondTo = [id \in Id |-> "nobody"]

LimitSpec == LimitInit /\ [][Next]_reserveVars

\* The ether and the limits scenes in one run.  In the one alice alone
\* registers, once, and nobody declares a capacity; in the other, told by the
\* payments signed at the start, there is no ether and no arbiter, and the clock
\* stops before a delegation can close.
ScenesOffer == {EtherTerms, LimitTerms}
InLimits == signed # {}

AliceAlone ==
  /\ \A id \in Id \ {0} : delegations'[id] = Blank /\ openCount'[id] = 0
  /\ delegations'[0].principal # NoAddress =>
       delegations'[0].principal = alice /\ delegations'[0].terms = EtherTerms

ScenesApart ==
  \/ ~InLimits /\ AliceAlone /\ UNCHANGED capacityOf
  \/ InLimits /\ now' < StartTime + 3 /\ UNCHANGED <<dispute, balance, closedAt>>

ScenesSpec == (Init \/ LimitInit) /\ [][Next]_reserveVars

None == {}
============================================================================
