------------------------- MODULE MCValidityDispute -------------------------
(***************************************************************************)
(* Instances of ValidityDispute for TLC.  Every run starts from a state    *)
(* the reserve reaches by the calls named there, so that its bounded time  *)
(* is spent on challenges, answers and deliveries.                         *)
(***************************************************************************)
EXTENDS ValidityDispute, TLC

CONSTANTS alice, bob, carol, answerer, d1, d2, root0, secret, unknown, r1, r2, h1,
  s1, s2

None == {}

BaseTerms ==
  [agent |-> carol, cap |-> 1, velocityN |-> 2, windowW |-> 1,
   funding |-> "Deposit", deposit |-> 0, bond |-> 1, expiry |-> 4,
   unitSize |-> 1, rangeBase |-> 0, rangeLen |-> 4,
   secretHash |-> Hash(secret), monitor |-> NoAddress, answerer |-> NoAddress]

\* No bond, and a secret nobody presents.
QueueTerms == [BaseTerms EXCEPT !.bond = 0, !.secretHash = Hash(unknown)]

AnsweredTerms == [QueueTerms EXCEPT !.answerer = answerer]

BaseOffer == {BaseTerms}

MCDispute == {This}

\* In each start state delegation 0 is alice's and 1 is bob's, registered and
\* accepted at StartTime, and the settlements of `paid' of amount 0 were signed
\* and settled in the same second; those of `pending' were signed for the
\* second after it.
Owner(id) == IF id = 0 THEN alice ELSE bob

SettledAtStart ==
  [payee |-> bob, amount |-> 0, time |-> StartTime, epoch |-> 0, at |-> StartTime]

PaidStart(terms, paid, pending, stake, frozen, held) ==
  LET count(id) == Cardinality({k \in paid : k[1] = id}) IN
  /\ now = StartTime
  /\ delegations = [id \in Id |-> [Issued(Owner(id), terms) EXCEPT
                                     !.accepted = TRUE, !.stake = stake,
                                     !.frozen = frozen,
                                     !.frozenAt = IF frozen THEN StartTime ELSE 0]]
  /\ closedAt = [id \in Id |-> 0]
  /\ nextId = MaxDelegations
  /\ dispute = This
  /\ openCount = [id \in Id |-> 0]
  /\ signed = {[id |-> k[1], signer |-> carol, epoch |-> 0, digest |-> k[2],
                payee |-> bob, amount |-> 0,
                time |-> IF k \in paid THEN StartTime ELSE StartTime + 1,
                slots |-> 0] : k \in paid \cup pending}
  /\ settled = [id \in Id |-> [dg \in Digest |->
                  IF <<id, dg>> \in paid THEN SettledAtStart ELSE NotSettled]]
  /\ windows = [id \in Id |-> IF count(id) = 0 THEN [start |-> 0, count |-> 0]
                              ELSE [start |-> StartTime, count |-> count(id)]]
  /\ transcriptLen = [id \in Id |-> 0]
  /\ rootAt = [id \in Id |-> <<root0>>]
  /\ revoked = [id \in Id |-> <<>>]
  /\ capacityOf = [a \in Address |-> 0]
  /\ servedCount = [a \in Address |->
                      IF a = carol THEN Cardinality({Owner(id) : id \in Id}) ELSE 0]
  /\ serves = [a \in Address |-> IF a = carol THEN {Owner(id) : id \in Id} ELSE {}]
  /\ balance = MaxDelegations * (terms.bond + stake)
  /\ credit = [a \in Address |-> 0]
  /\ burnt = 0
  /\ wallet = [a \in Address \cup {Vault} |-> IF a = Vault THEN 0 ELSE Wealth]
  /\ bondTo = [id \in Id |-> "nobody"]
  /\ DisputeInit(held)

\* The queues: two principals of one agent, who froze both delegations once the
\* settlements were made, and one settlement no proof covers.
QueuePaid == {<<0, d1>>, <<0, d2>>, <<1, d1>>}
QueueBatched == [r \in BatchRoot |-> {<<0, d1>>, <<0, d2>>}]
QueueSpec == PaidStart(QueueTerms, QueuePaid, {}, 0, TRUE, {}) /\ [][ComposedNext]_vars

\* The bond: one delegation, live, its secret at large, one payment settled and
\* one signed, until its bond is paid and every challenge has ended.
BondBatched == [r \in BatchRoot |-> {<<0, d1>>}]
BondSpec ==
  /\ PaidStart(BaseTerms, {<<0, d1>>}, {<<0, d2>>}, 0, FALSE, {})
  /\ [][ComposedNext]_vars
  /\ Fairness

\* The delivery: one frozen delegation with a staked answerer and one settlement,
\* which both batches hold; one of them is receipted.
DeliveryBatched == [r \in BatchRoot |-> {<<0, d1>>}]

Receipted == [id |-> 0, root |-> r1, sealedRoot |-> s1, proofHash |-> h1,
              receivedAt |-> StartTime]

\* A stranger posts while the one receipt is out and the pool is empty, a wrong
\* chunk or the whole proof; what it binds or delivers is not bounded.
StrangerPosts ==
  LET p == postings'[bob][0][h1] IN
  p.chunks > 0 => /\ p.good \/ p.chunks = 1
                  /\ receipts' = {Receipted} /\ postingPool'[0] = 0

\* A second receipt, of the same batch or of the other, where the principal asks
\* once and the answerer posts no wrong chunk.
SecondReceipt ==
  receipts' # {Receipted} =>
    /\ asked'[carol][alice] < 2
    /\ postings'[answerer][0][h1].good
    /\ \A r \in receipts' : r.root = r2 => r.sealedRoot = s2

DeliveryScenes == StrangerPosts /\ SecondReceipt

DeliverySpec ==
  /\ PaidStart(AnsweredTerms, {<<0, d1>>}, {}, 2, TRUE, {Receipted})
  /\ [][ComposedNext]_vars
============================================================================
