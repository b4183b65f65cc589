--------------------------- MODULE ReserveProofs ---------------------------
(***************************************************************************)
(* The inductive invariants of Reserve over its types, but for its money.  *)
(*                                                                         *)
(* LiveInv: every settlement was signed for an epoch no later than the     *)
(* delegation's, and settled no later than its expiry, its freeze and now; *)
(* a closed delegation closed a whole close delay after the earlier of the *)
(* two.  Freezing an ended delegation moves its end nowhere, a closed one  *)
(* settles nothing because it closed after its expiry or frozen, and a     *)
(* registration overwrites a record nothing settled under.                 *)
(*                                                                         *)
(* BondInv: a bond is recorded as paid exactly when it went somewhere, and *)
(* only a frozen or closed delegation has a paid bond.  Each step is then  *)
(* a step of the abstract escrow, or changes nothing it shows.             *)
(*                                                                         *)
(* RangeInv, ServesInv and VelocityInv: what a principal revoked, which    *)
(* only register and revoke touch, how many principals an agent serves,    *)
(* which only declareCapacity and accept do, and how often a delegation    *)
(* pays.  Every other step keeps the terms, the epoch and the acceptance   *)
(* of every delegation, and both records.                                  *)
(***************************************************************************)
EXTENDS ReserveTypeProofs, FiniteSetTheorems

USE DEF linkVars, paymentVars, revocationVars, capacityVars, etherVars

----------------------------------------------------------------------------
(* What settled was live, and the bond outlives its challenges.            *)

Backed(id, dg) ==
  LET s == settled[id][dg] IN
  \E p \in signed :
    /\ p.id = id /\ p.digest = dg /\ p.signer = delegations[id].terms.agent
    /\ p.epoch = s.epoch /\ p.payee = s.payee
    /\ p.amount = s.amount /\ p.time = s.time

\* A settlement under a delegation, and a time it did not come after.
LiveRecord(s, d) ==
  /\ d.accepted
  /\ s.epoch <= d.epoch
  /\ s.at <= now /\ s.at <= d.terms.expiry
  /\ d.frozen => s.at <= d.frozenAt
  /\ s.time <= s.at + MaxAge /\ s.at <= s.time + MaxAge

ClosedLate(id) ==
  delegations[id].closed =>
    closedAt[id] <= now /\ closedAt[id] > EndOf(delegations[id]) + CloseDelay

LiveInv ==
  /\ \A id \in Id, dg \in Digest :
       settled[id][dg] # NotSettled
         => Backed(id, dg) /\ LiveRecord(settled[id][dg], delegations[id])
  /\ \A id \in Id : ClosedLate(id)
  /\ dispute # NoDispute => dispute.acceptWindow + MaxAge <= CloseDelay

\* The numbers a settlement records (settle).
LEMMA SettlementType ==
  ASSUME TypeInv, NEW id \in Id, NEW dg \in Digest, settled[id][dg] # NotSettled
  PROVE  /\ settled[id][dg].at \in Nat /\ settled[id][dg].time \in Nat
         /\ settled[id][dg].epoch \in Nat
  BY SMTT(30) DEF TypeInv, ReserveTypeOK, Settlement

\* A quiet step leaves every settlement as live as it was.
LEMMA QuietLive ==
  ASSUME TypeInv, LiveInv, Quiet
  PROVE  LiveInv'
<1>1. /\ \A id \in Id : SameLife(delegations[id], delegations'[id])
      /\ signed \subseteq signed'
      /\ UNCHANGED <<now, closedAt, dispute, settled>>
  BY DEF Quiet, SameRecords, SameRecord
<1>2. ASSUME NEW id \in Id, NEW dg \in Digest, settled'[id][dg] # NotSettled
      PROVE  Backed(id, dg)' /\ LiveRecord(settled[id][dg], delegations[id])'
  <2>1. Backed(id, dg) /\ LiveRecord(settled[id][dg], delegations[id])
    BY <1>1, <1>2 DEF LiveInv
  <2> QED BY <1>1, <2>1 DEF Backed, LiveRecord, SameLife, SameTerms, SameEnd
<1>3. ASSUME NEW id \in Id PROVE ClosedLate(id)'
  BY <1>1 DEF LiveInv, ClosedLate, EndOf, SameLife, SameTerms, SameEnd
<1> QED BY <1>1, <1>2, <1>3 DEF LiveInv

\* A delegation ends once: freezing an ended one moves nothing.
LEMMA FrozenLive ==
  ASSUME TypeInv, LiveInv, NEW id \in Id, NEW e \in Delegation,
         LET d == delegations[id] IN
           /\ SameTerms(d, e) /\ e.closed = d.closed
           /\ e.accepted = d.accepted /\ e.epoch = d.epoch
           /\ e.frozen /\ e.frozenAt = IF d.frozen THEN d.frozenAt ELSE now,
         delegations' = [delegations EXCEPT ![id] = e],
         UNCHANGED <<now, closedAt, dispute, settled, signed>>
  PROVE  LiveInv'
<1> DEFINE d == delegations[id]
<1>1. d \in Delegation /\ delegations'[id] = e
  BY DEF TypeInv, ReserveTypeOK
<1>2. \A j \in Id : j # id => delegations'[j] = delegations[j]
  BY DEF TypeInv, ReserveTypeOK
<1>3. ASSUME NEW j \in Id, NEW dg \in Digest, settled'[j][dg] # NotSettled
      PROVE  Backed(j, dg)' /\ LiveRecord(settled[j][dg], delegations[j])'
  <2>1. Backed(j, dg) /\ LiveRecord(settled[j][dg], delegations[j])
    BY <1>3 DEF LiveInv
  <2>2. CASE j = id
    BY <1>1, <2>1, <2>2 DEF Backed, LiveRecord, SameTerms
  <2>3. CASE j # id
    BY <1>2, <2>1, <2>3 DEF Backed, LiveRecord
  <2> QED BY <2>2, <2>3
<1>4. ASSUME NEW j \in Id PROVE ClosedLate(j)'
  <2>1. ClosedLate(j) /\ closedAt[j] \in Nat /\ now \in Nat /\ CloseDelay \in Nat
    BY ReserveAssumption DEF LiveInv, TypeInv, ReserveTypeOK
  <2>2. CASE j = id
    <3>1. d.terms.expiry \in Nat /\ d.frozenAt \in Nat
      BY <1>1, TermsType, FieldTypes
    <3> QED BY <1>1, <2>1, <2>2, <3>1 DEF ClosedLate, EndOf, SameTerms
  <2>3. CASE j # id
    BY <1>2, <2>1, <2>3 DEF ClosedLate
  <2> QED BY <2>2, <2>3
<1> QED BY <1>3, <1>4 DEF LiveInv

\* Time passes: what settled by now settled by later.
LEMMA TickLive == ASSUME TypeInv, LiveInv, Tick PROVE LiveInv'
<1>1. now \in Nat /\ now' = now + 1
  BY DEF Tick, TypeInv, ReserveTypeOK
<1>2. ASSUME NEW id \in Id, NEW dg \in Digest, settled'[id][dg] # NotSettled
      PROVE  Backed(id, dg)' /\ LiveRecord(settled[id][dg], delegations[id])'
  BY <1>1, <1>2, SettlementType DEF Tick, LiveInv, Backed, LiveRecord
<1>3. ASSUME NEW id \in Id PROVE ClosedLate(id)'
  BY <1>1 DEF Tick, LiveInv, ClosedLate, TypeInv, ReserveTypeOK
<1> QED BY <1>2, <1>3 DEF Tick, LiveInv

\* Nothing has settled under the identifier a registration overwrites.
LEMMA RegisterLive ==
  ASSUME TypeInv, LiveInv, NEW p \in Principal, NEW t \in Offer, Register(p, t)
  PROVE  LiveInv'
<1> DEFINE d == Issued(p, t)
<1>1. nextId \in Id /\ ~d.closed
  BY ReserveAssumption DEF TypeInv, ReserveTypeOK, Register, Id, Issued, Blank
<1>2. \A dg \in Digest : settled[nextId][dg] = NotSettled
  <2>1. ~delegations[nextId].accepted
    BY <1>1 DEF TypeInv, ReserveTypeOK, Unregistered, Id
  <2> QED BY <1>1, <2>1 DEF LiveInv, LiveRecord
<1>3. /\ delegations' = [delegations EXCEPT ![nextId] = d]
      /\ UNCHANGED <<now, closedAt, dispute, settled, signed>>
  BY DEF Register
<1> HIDE DEF d
<1>4. /\ delegations'[nextId] = d
      /\ \A j \in Id : j # nextId => delegations'[j] = delegations[j]
  BY <1>1, <1>3 DEF TypeInv, ReserveTypeOK
<1>5. ASSUME NEW id \in Id, NEW dg \in Digest, settled'[id][dg] # NotSettled
      PROVE  Backed(id, dg)' /\ LiveRecord(settled[id][dg], delegations[id])'
  <2>1. delegations'[id] = delegations[id]
    BY <1>2, <1>3, <1>4, <1>5
  <2> QED BY <1>3, <1>5, <2>1 DEF LiveInv, Backed, LiveRecord
<1>6. ASSUME NEW id \in Id PROVE ClosedLate(id)'
  BY <1>1, <1>3, <1>4 DEF LiveInv, ClosedLate
<1> QED BY <1>3, <1>5, <1>6 DEF LiveInv

\* accept only makes a delegation settle.
LEMMA AcceptLive ==
  ASSUME TypeInv, LiveInv, NEW id \in Id, Accept(id)
  PROVE  LiveInv'
<1> DEFINE d == delegations[id]
           e == [d EXCEPT !.accepted = TRUE]
<1>1. /\ SameTerms(d, e) /\ SameEnd(d, e)
      /\ e.accepted /\ e.epoch = d.epoch
  BY AcceptedUpdate DEF TypeInv, ReserveTypeOK
<1>2. /\ delegations' = [delegations EXCEPT ![id] = e]
      /\ UNCHANGED <<now, closedAt, dispute, settled, signed>>
  BY DEF Accept
<1> HIDE DEF e
<1>3. /\ delegations'[id] = e
      /\ \A j \in Id : j # id => delegations'[j] = delegations[j]
  BY <1>2 DEF TypeInv, ReserveTypeOK
<1>4. ASSUME NEW j \in Id, NEW dg \in Digest, settled'[j][dg] # NotSettled
      PROVE  Backed(j, dg)' /\ LiveRecord(settled[j][dg], delegations[j])'
  BY <1>1, <1>2, <1>3, <1>4 DEF LiveInv, Backed, LiveRecord, SameTerms, SameEnd
<1>5. ASSUME NEW j \in Id PROVE ClosedLate(j)'
  BY <1>1, <1>2, <1>3 DEF LiveInv, ClosedLate, EndOf, SameTerms, SameEnd
<1> QED BY <1>2, <1>4, <1>5 DEF LiveInv

\* A closed delegation settles nothing: it closed after its expiry, or frozen.
LEMMA SettleLive ==
  ASSUME TypeInv, LiveInv, NEW p \in signed, NEW stored \in BOOLEAN,
         Settle(p, stored)
  PROVE  LiveInv'
<1> DEFINE d == delegations[p.id]
           s == [payee |-> p.payee, amount |-> p.amount, time |-> p.time,
                 epoch |-> d.epoch, at |-> now]
<1>1. /\ p.id \in Id /\ p.digest \in Digest /\ p.time \in Nat /\ d \in Delegation
      /\ now \in Nat /\ MaxAge \in Nat
  BY ReserveAssumption DEF TypeInv, ReserveTypeOK, Payload
<1>2. \A id \in Id : SameLife(delegations[id], delegations'[id])
  BY SettleRecords DEF SameRecords, SameRecord
<1>3. /\ settled' = [settled EXCEPT ![p.id][p.digest] = s]
      /\ UNCHANGED <<now, closedAt, dispute, signed>>
  BY DEF Settle
<1>4. /\ d.accepted /\ ~d.frozen /\ now <= d.terms.expiry
      /\ p.time <= now + MaxAge /\ now <= p.time + MaxAge
      /\ p.signer = d.terms.agent /\ p.epoch = d.epoch
  BY DEF Settle, Admitted, Live, Fresh, SignedBy
<1>5. ASSUME NEW id \in Id, NEW dg \in Digest, settled'[id][dg] # NotSettled
      PROVE  Backed(id, dg)' /\ LiveRecord(settled[id][dg], delegations[id])'
  <2>1. SameLife(delegations[id], delegations'[id])
    BY <1>2
  <2>2. CASE id = p.id /\ dg = p.digest
    <3>1. settled'[id][dg] = s
      BY <1>1, <1>3, <2>2 DEF TypeInv, ReserveTypeOK
    <3>2. d.epoch \in Nat
      BY <1>1, FieldTypes
    <3>3. LiveRecord(settled[id][dg], delegations[id])'
      BY <1>1, <1>3, <1>4, <2>1, <2>2, <3>1, <3>2
         DEF LiveRecord, SameLife, SameTerms, SameEnd
    <3>4. Backed(id, dg)'
      BY <1>3, <1>4, <2>1, <2>2, <3>1, SMTT(30) DEF Backed, SameLife, SameTerms
    <3> QED BY <3>3, <3>4
  <2>3. CASE ~(id = p.id /\ dg = p.digest)
    <3>1. settled'[id][dg] = settled[id][dg]
      BY <1>1, <1>3, <2>3 DEF TypeInv, ReserveTypeOK
    <3>2. Backed(id, dg) /\ LiveRecord(settled[id][dg], delegations[id])
      BY <1>5, <3>1 DEF LiveInv
    <3> QED BY <1>3, <2>1, <3>1, <3>2
            DEF Backed, LiveRecord, SameLife, SameTerms, SameEnd
  <2> QED BY <2>2, <2>3
<1>6. ASSUME NEW id \in Id PROVE ClosedLate(id)'
  BY <1>2, <1>3 DEF LiveInv, ClosedLate, EndOf, SameLife, SameTerms, SameEnd
<1> QED BY <1>3, <1>5, <1>6 DEF LiveInv

\* freeze, by the principal or its monitor.
LEMMA FreezeLive ==
  ASSUME TypeInv, LiveInv, NEW id \in Id, NEW sender \in Address, Freeze(id, sender)
  PROVE  LiveInv'
<1>1. /\ delegations' = [delegations EXCEPT ![id] = Froze(delegations[id])]
      /\ UNCHANGED <<now, closedAt, dispute, settled, signed>>
  BY DEF Freeze
<1>2. delegations[id] \in Delegation /\ now \in Nat
  BY DEF TypeInv, ReserveTypeOK
<1> QED BY <1>1, <1>2, FrozeUpdate, FrozenLive

\* claim, whoever presents the secret.
LEMMA ClaimLive ==
  ASSUME TypeInv, LiveInv, NEW id \in Id, NEW secret \in Secret, Claim(id, secret)
  PROVE  LiveInv'
<1> DEFINE d == delegations[id]
           e == BondSpent(Froze(d))
<1>1. /\ delegations' = [delegations EXCEPT ![id] = e]
      /\ UNCHANGED <<now, closedAt, dispute, settled, signed>>
  BY DEF Claim
<1>2. /\ Froze(d) \in Delegation /\ SameTerms(d, Froze(d))
      /\ Froze(d).closed = d.closed /\ Froze(d).accepted = d.accepted
      /\ Froze(d).epoch = d.epoch /\ Froze(d).frozen
      /\ Froze(d).frozenAt = IF d.frozen THEN d.frozenAt ELSE now
  BY FrozeUpdate DEF TypeInv, ReserveTypeOK
<1>3. e \in Delegation /\ SameLife(Froze(d), e)
  BY <1>2, SpentUpdate
<1> HIDE DEF e
<1> QED BY <1>1, <1>2, <1>3, FrozenLive DEF SameLife, SameTerms, SameEnd

\* An expired challenge freezes too.
LEMMA ForfeitLive ==
  ASSUME TypeInv, LiveInv, NEW id \in Id, NEW unheld \in Nat, Forfeit(id, unheld)
  PROVE  LiveInv'
<1> DEFINE d == delegations[id]
           f == BondSpent(Froze(d))
           e == [f EXCEPT !.holds = f.holds - unheld]
<1>1. /\ delegations' = [delegations EXCEPT ![id] = e]
      /\ UNCHANGED <<now, closedAt, dispute, settled, signed>>
  BY DEF Forfeit, ArbiterKeeps
<1>2. /\ Froze(d) \in Delegation /\ SameTerms(d, Froze(d))
      /\ Froze(d).closed = d.closed /\ Froze(d).accepted = d.accepted
      /\ Froze(d).epoch = d.epoch /\ Froze(d).frozen
      /\ Froze(d).frozenAt = IF d.frozen THEN d.frozenAt ELSE now
  BY FrozeUpdate DEF TypeInv, ReserveTypeOK
<1>3. f \in Delegation /\ SameLife(Froze(d), f) /\ f.holds = d.holds
  <2>1. f.holds = d.holds
    BY DEF Froze, BondSpent, Delegation, TypeInv, ReserveTypeOK
  <2> QED BY <1>2, <2>1, SpentUpdate
<1>4. f.holds - unheld \in Nat
  BY <1>3, FieldTypes DEF Forfeit, Forfeitable
<1>5. e \in Delegation /\ SameRecord(f, e)
  <2> HIDE DEF f
  <2> QED BY <1>3, <1>4, CounterUpdates
<1> HIDE DEF e, f
<1> QED BY <1>1, <1>2, <1>3, <1>5, FrozenLive, ZenonT(40)
        DEF SameRecord, SameLife, SameTerms, SameEnd

\* close runs a whole close delay after the delegation stopped settling.
LEMMA CloseLive ==
  ASSUME TypeInv, LiveInv, NEW id \in Id, Close(id)
  PROVE  LiveInv'
<1> DEFINE d == delegations[id]
           e == [BondSpent(d) EXCEPT !.closed = TRUE, !.deposit = 0]
<1>1. /\ SameTerms(d, e) /\ e.closed
      /\ e.frozen = d.frozen /\ e.frozenAt = d.frozenAt
      /\ e.accepted = d.accepted /\ e.epoch = d.epoch
  BY ClosedUpdate, ZenonT(40) DEF TypeInv, ReserveTypeOK
<1>2. /\ delegations' = [delegations EXCEPT ![id] = e]
      /\ closedAt' = [closedAt EXCEPT ![id] = now]
      /\ UNCHANGED <<now, dispute, settled, signed>>
      /\ now > EndOf(d) + CloseDelay
  BY DEF Close, Closable
<1> HIDE DEF e
<1>3. /\ delegations'[id] = e /\ closedAt'[id] = now /\ now \in Nat
      /\ \A j \in Id : j # id => /\ delegations'[j] = delegations[j]
                                /\ closedAt'[j] = closedAt[j]
  BY <1>2 DEF TypeInv, ReserveTypeOK
<1>4. ASSUME NEW j \in Id, NEW dg \in Digest, settled'[j][dg] # NotSettled
      PROVE  Backed(j, dg)' /\ LiveRecord(settled[j][dg], delegations[j])'
  BY <1>1, <1>2, <1>3, <1>4 DEF LiveInv, Backed, LiveRecord, SameTerms
<1>5. ASSUME NEW j \in Id PROVE ClosedLate(j)'
  <2>1. CASE j = id
    BY <1>1, <1>2, <1>3, <2>1 DEF ClosedLate, EndOf, SameTerms
  <2>2. CASE j # id
    BY <1>2, <1>3, <2>2 DEF LiveInv, ClosedLate
  <2> QED BY <2>1, <2>2
<1> QED BY <1>2, <1>4, <1>5 DEF LiveInv

\* An epoch only grows: what settled before it stays signed for no later one.
LEMMA RevokeLive ==
  ASSUME TypeInv, LiveInv, NEW id \in Id, NEW ranges \in Revocation, Revoke(id, ranges)
  PROVE  LiveInv'
<1> DEFINE d == delegations[id]
           e == [d EXCEPT !.epoch = d.epoch + 1]
<1>1. /\ SameTerms(d, e) /\ SameEnd(d, e) /\ d.epoch \in Nat
      /\ e.accepted = d.accepted /\ e.epoch = d.epoch + 1
  BY EpochUpdate, FieldTypes, SMTT(30) DEF TypeInv, ReserveTypeOK
<1>2. /\ delegations' = [delegations EXCEPT ![id] = e]
      /\ UNCHANGED <<now, closedAt, dispute, settled, signed>>
  BY DEF Revoke
<1> HIDE DEF e
<1>3. /\ delegations'[id] = e
      /\ \A j \in Id : j # id => delegations'[j] = delegations[j]
  BY <1>2 DEF TypeInv, ReserveTypeOK
<1>4. ASSUME NEW j \in Id, NEW dg \in Digest, settled'[j][dg] # NotSettled
      PROVE  Backed(j, dg)' /\ LiveRecord(settled[j][dg], delegations[j])'
  <2>1. Backed(j, dg) /\ LiveRecord(settled[j][dg], delegations[j])
    BY <1>2, <1>4 DEF LiveInv
  <2>2. settled[j][dg].epoch \in Nat
    BY <1>2, <1>4, SettlementType
  <2> QED BY <1>1, <1>2, <1>3, <2>1, <2>2 DEF Backed, LiveRecord, SameTerms, SameEnd
<1>5. ASSUME NEW j \in Id PROVE ClosedLate(j)'
  BY <1>1, <1>2, <1>3 DEF LiveInv, ClosedLate, EndOf, SameTerms, SameEnd
<1> QED BY <1>2, <1>4, <1>5 DEF LiveInv

\* Every step keeps the invariant.
LEMMA NextLive == ASSUME TypeInv, LiveInv, [Next]_reserveVars PROVE LiveInv'
<1>1. ASSUME NEW c \in Dispute, SetDispute(c) PROVE LiveInv'
  <2>1. /\ c.acceptWindow + MaxAge <= CloseDelay /\ dispute' = c
        /\ UNCHANGED <<now, delegations, closedAt, settled, signed>>
    BY <1>1 DEF SetDispute
  <2>2. ASSUME NEW id \in Id, NEW dg \in Digest, settled'[id][dg] # NotSettled
        PROVE  Backed(id, dg)' /\ LiveRecord(settled[id][dg], delegations[id])'
    BY <2>1, <2>2 DEF LiveInv, Backed, LiveRecord
  <2>3. ASSUME NEW id \in Id PROVE ClosedLate(id)'
    BY <2>1 DEF LiveInv, ClosedLate
  <2> QED BY <2>1, <2>2, <2>3 DEF LiveInv
<1>2. ASSUME AccountStep PROVE LiveInv'
  BY <1>2, AccountKinds, QuietLive, RegisterLive, AcceptLive, SettleLive, ClaimLive,
     FreezeLive, CloseLive, RevokeLive DEF AccountKind
<1>3. ASSUME ArbiterStep PROVE LiveInv'
  <2>1. ASSUME NEW id \in Id, NEW unheld \in 0..1, Forfeit(id, unheld)
        PROVE  LiveInv'
    BY <2>1, ForfeitLive
  <2> QED BY <1>3, <2>1, ArbiterKinds, QuietLive
<1>4. CASE UNCHANGED reserveVars
  BY <1>4, UnchangedRecords, QuietLive DEF reserveVars, Quiet
<1> QED BY <1>1, <1>2, <1>3, <1>4, TickLive DEF Next

\* Nothing has settled or closed at deployment (constructor).
LEMMA InitLive == Init => LiveInv
  BY DEF Init, ReserveInit, LiveInv, ClosedLate, Blank

\* A closed delegation closed a whole close delay after it stopped settling, and
\* no acceptance window and age of a signed time together outlast that delay.
LEMMA LiveOutlives ==
  ASSUME TypeInv, LiveInv
  PROVE  SettledLive /\ BondOutlivesChallenges
<1>1. SettledLive
  BY DEF LiveInv, LiveRecord, Backed, SettledLive
<1>2. BondOutlivesChallenges
  <2> SUFFICES ASSUME NEW id \in Id, NEW dg \in Digest,
                      delegations[id].closed, dispute # NoDispute,
                      settled[id][dg] # NotSettled
               PROVE  closedAt[id] > settled[id][dg].time + dispute.acceptWindow
    BY DEF BondOutlivesChallenges
  <2> DEFINE d == delegations[id]
             s == settled[id][dg]
  <2>1. /\ s.at \in Nat /\ s.time \in Nat
        /\ d.terms.expiry \in Nat /\ d.frozenAt \in Nat
        /\ closedAt[id] \in Nat /\ CloseDelay \in Nat /\ MaxAge \in Nat
    BY SettlementType, TermsType, FieldTypes, ReserveAssumption
       DEF TypeInv, ReserveTypeOK
  <2>2. dispute.acceptWindow \in Nat
    BY ReserveAssumption DEF TypeInv, ReserveTypeOK
  <2>3. LiveRecord(s, d) /\ ClosedLate(id)
    BY DEF LiveInv
  <2>4. s.at <= EndOf(d) /\ EndOf(d) \in Nat
    BY <2>1, <2>3 DEF LiveRecord, EndOf
  <2>5. s.time <= s.at + MaxAge /\ closedAt[id] > EndOf(d) + CloseDelay
    BY <2>3 DEF LiveRecord, ClosedLate
  <2>6. dispute.acceptWindow + MaxAge <= CloseDelay
    BY DEF LiveInv
  <2> HIDE DEF d, s
  <2>7. closedAt[id] > s.time + dispute.acceptWindow
    BY <2>1, <2>2, <2>4, <2>5, <2>6
  <2> QED BY <2>7 DEF s
<1> QED BY <1>1, <1>2

\* Whatever an agent signed, and however revocations, freezes and closes race
\* its delivery, a settlement was signed for the epoch in force and made while
\* the delegation was live.
THEOREM SettlesLive == Spec => []SettledLive
<1>1. Init => TypeInv /\ LiveInv
  BY InitTypes, InitLive
<1>2. (TypeInv /\ LiveInv) /\ [Next]_reserveVars => (TypeInv /\ LiveInv)'
  BY NextTypes, NextLive
<1>3. TypeInv /\ LiveInv => SettledLive
  BY LiveOutlives
<1> QED BY <1>1, <1>2, <1>3, PTL DEF Spec

\* No delegation closes, and so no bond goes back to its agent, while one of its
\* settlements may still be challenged.
THEOREM BondOutlives == Spec => []BondOutlivesChallenges
<1>1. Init => TypeInv /\ LiveInv
  BY InitTypes, InitLive
<1>2. (TypeInv /\ LiveInv) /\ [Next]_reserveVars => (TypeInv /\ LiveInv)'
  BY NextTypes, NextLive
<1>3. TypeInv /\ LiveInv => BondOutlivesChallenges
  BY LiveOutlives
<1> QED BY <1>1, <1>2, <1>3, PTL DEF Spec

----------------------------------------------------------------------------
(* Every bond implements the abstract escrow.                              *)

BondInv ==
  \A id \in Id :
    LET d == delegations[id] IN
    /\ ~d.accepted => bondTo[id] = "nobody"
    /\ d.accepted => (d.bondPaid <=> bondTo[id] # "nobody")
    /\ d.bondPaid => d.frozen \/ d.closed

\* The state of the abstract escrow, and its stuttering steps.
Escrowed == [id \in Id |-> EscrowOf(id)]
EndedIds == {id \in Id : Ended(id)}
EscrowStep == [Escrow!EscrowNext]_<<Escrowed, EndedIds>>

SameBond(id) == EscrowOf(id)' = EscrowOf(id) /\ (Ended(id)' <=> Ended(id))

\* A step that changes no bond is a stutter of the escrow.
LEMMA SameBonds == (\A id \in Id : SameBond(id)) => EscrowStep
  BY DEF SameBond, EscrowStep, Escrowed, EndedIds

\* One delegation's bond is posted: a step of the escrow.
LEMMA PostStep ==
  ASSUME NEW id \in Id, \A j \in Id : j # id => SameBond(j),
         EscrowOf(id) = "none", ~Ended(id), EscrowOf(id)' = "held", ~Ended(id)'
  PROVE  EscrowStep
<1>1. Escrowed' = [Escrowed EXCEPT ![id] = "held"] /\ EndedIds' = EndedIds
  BY DEF SameBond, Escrowed, EndedIds
<1>2. Escrow!Post(id)
  BY <1>1 DEF Escrow!Post, Escrowed, EndedIds
<1> QED BY <1>2 DEF EscrowStep, Escrow!EscrowNext

\* One delegation's held bond is paid: a step of the escrow.
LEMMA PayStep ==
  ASSUME NEW id \in Id, \A j \in Id : j # id => SameBond(j),
         NEW to \in {"agent", "principal"},
         EscrowOf(id) = "held", EscrowOf(id)' = to, Ended(id)'
  PROVE  EscrowStep
<1>1. Escrowed' = [Escrowed EXCEPT ![id] = to] /\ EndedIds' = EndedIds \cup {id}
  BY DEF SameBond, Escrowed, EndedIds
<1>2. Escrow!Pay(id, to)
  BY <1>1 DEF Escrow!Pay, Escrowed, EndedIds
<1> QED BY <1>2 DEF EscrowStep, Escrow!EscrowNext

\* One delegation ends, or had ended: a step of the escrow or a stutter.
LEMMA EndStep ==
  ASSUME NEW id \in Id, \A j \in Id : j # id => SameBond(j),
         EscrowOf(id)' = EscrowOf(id), Ended(id) => Ended(id)'
  PROVE  EscrowStep
<1>1. Escrowed' = Escrowed
  BY DEF SameBond, Escrowed
<1>2. CASE Ended(id)'
  <2>1. EndedIds' = EndedIds \cup {id}
    BY <1>2 DEF SameBond, EndedIds
  <2>2. Escrow!End(id)
    BY <1>1, <2>1 DEF Escrow!End, Escrowed, EndedIds
  <2> QED BY <2>2 DEF EscrowStep, Escrow!EscrowNext
<1>3. CASE ~Ended(id)'
  BY <1>1, <1>3 DEF SameBond, EscrowStep, Escrowed, EndedIds
<1> QED BY <1>2, <1>3

\* No bond is posted at deployment (constructor).
LEMMA InitBond == Init => BondInv /\ Escrow!EscrowInit
<1> SUFFICES ASSUME Init PROVE BondInv /\ Escrow!EscrowInit
  OBVIOUS
<1>1. \A id \in Id : /\ ~delegations[id].accepted /\ ~delegations[id].bondPaid
                     /\ delegations[id].principal = NoAddress
                     /\ bondTo[id] = "nobody"
  BY DEF Init, ReserveInit, Blank
<1> QED BY <1>1 DEF BondInv, Escrow!EscrowInit, EscrowOf, Ended

\* The same records and no payment: the same bonds.
LEMMA SameRecordsBond ==
  ASSUME BondInv, SameRecords, bondTo' = bondTo
  PROVE  BondInv' /\ EscrowStep
<1>1. ASSUME NEW id \in Id PROVE SameBond(id)
  BY DEF SameRecords, SameRecord, SameLife, SameTerms, SameEnd,
         SameBond, EscrowOf, Ended
<1>2. BondInv'
  BY DEF SameRecords, SameRecord, SameLife, SameTerms, SameEnd, BondInv
<1> QED BY <1>1, <1>2, SameBonds

\* A call on one delegation leaves the others' bonds alone.
LEMMA OthersBond ==
  ASSUME TypeInv, NEW id \in Id, NEW e, delegations' = [delegations EXCEPT ![id] = e],
         \A j \in Id : j # id => bondTo'[j] = bondTo[j]
  PROVE  /\ delegations'[id] = e
         /\ \A j \in Id : j # id => SameBond(j) /\ delegations'[j] = delegations[j]
  BY DEF TypeInv, ReserveTypeOK, SameBond, EscrowOf, Ended

\* A registration posts nothing.
LEMMA RegisterBond ==
  ASSUME TypeInv, BondInv, NEW p \in Principal, NEW t \in Offer, Register(p, t)
  PROVE  BondInv' /\ EscrowStep
<1> DEFINE d == Issued(p, t)
<1>1. PICK id \in Id : id = nextId
  BY ReserveAssumption DEF TypeInv, ReserveTypeOK, Register, Id
<1>2. ~d.accepted /\ ~d.bondPaid /\ ~d.frozen /\ ~d.closed
  BY DEF Issued, Blank
<1>3. delegations' = [delegations EXCEPT ![id] = d] /\ bondTo' = bondTo
  BY <1>1 DEF Register
<1>4. ~delegations[id].accepted /\ delegations[id].principal = NoAddress
  BY <1>1 DEF TypeInv, ReserveTypeOK, Unregistered, Id
<1> HIDE DEF d
<1>5. /\ delegations'[id] = d
      /\ \A j \in Id : j # id => SameBond(j) /\ delegations'[j] = delegations[j]
  BY <1>3, OthersBond
<1>6. BondInv'
  BY <1>2, <1>3, <1>4, <1>5 DEF BondInv
<1>7. EscrowOf(id)' = EscrowOf(id) /\ ~Ended(id)
  BY <1>2, <1>4, <1>5 DEF EscrowOf, Ended
<1> QED BY <1>5, <1>6, <1>7, EndStep

\* accept posts a bond under a delegation that has not ended.
LEMMA AcceptBond ==
  ASSUME TypeInv, BondInv, NEW id \in Id, Accept(id)
  PROVE  BondInv' /\ EscrowStep
<1> DEFINE d == delegations[id]
           e == [d EXCEPT !.accepted = TRUE]
<1>1. /\ SameTerms(d, e) /\ SameEnd(d, e) /\ e.accepted /\ e.bondPaid = d.bondPaid
  BY AcceptedUpdate DEF TypeInv, ReserveTypeOK
<1>2. delegations' = [delegations EXCEPT ![id] = e] /\ bondTo' = bondTo
  BY DEF Accept
<1>3. ~d.accepted /\ ~d.frozen /\ ~d.closed
  BY DEF Accept, Acceptable
<1>4. bondTo[id] = "nobody" /\ ~d.bondPaid
  BY <1>3 DEF BondInv
<1> HIDE DEF e
<1>5. /\ delegations'[id] = e
      /\ \A j \in Id : j # id => SameBond(j) /\ delegations'[j] = delegations[j]
  BY <1>2, OthersBond
<1>6. BondInv'
  BY <1>1, <1>2, <1>3, <1>4, <1>5 DEF BondInv
<1>7. EscrowOf(id) = "none" /\ ~Ended(id) /\ EscrowOf(id)' = "held" /\ ~Ended(id)'
  BY <1>1, <1>2, <1>3, <1>4, <1>5 DEF EscrowOf, Ended, SameTerms, SameEnd
<1> QED BY <1>5, <1>6, <1>7, PostStep

\* A claim, an expired challenge or a close pays a bond that was posted and is
\* still held, and otherwise only ends the delegation.
LEMMA SpentBond ==
  ASSUME TypeInv, BondInv, NEW id \in Id, NEW e, NEW who \in {"agent", "principal"},
         LET d == delegations[id] IN
           /\ SameTerms(d, e) /\ e.accepted = d.accepted /\ e.bondPaid
           /\ e.frozen \/ e.closed,
         delegations' = [delegations EXCEPT ![id] = e],
         bondTo' = Paid(who, id)
  PROVE  BondInv' /\ EscrowStep
<1> DEFINE d == delegations[id]
<1>1. /\ \A j \in Id : j # id => bondTo'[j] = bondTo[j]
      /\ bondTo'[id] = IF d.accepted /\ ~d.bondPaid THEN who ELSE bondTo[id]
  BY DEF Paid, TypeInv, ReserveTypeOK
<1>2. /\ delegations'[id] = e
      /\ \A j \in Id : j # id => SameBond(j) /\ delegations'[j] = delegations[j]
  BY <1>1, OthersBond
<1>3. BondInv'
  BY <1>1, <1>2 DEF BondInv
<1>4. CASE d.accepted /\ ~d.bondPaid
  <2>1. d.principal # NoAddress
    BY <1>4 DEF TypeInv, Unregistered
  <2>2. EscrowOf(id) = "held" /\ EscrowOf(id)' = who /\ Ended(id)'
    BY <1>1, <1>2, <1>4, <2>1 DEF BondInv, EscrowOf, Ended, SameTerms
  <2> QED BY <1>2, <1>3, <2>2, PayStep
<1>5. CASE ~(d.accepted /\ ~d.bondPaid)
  <2>1. EscrowOf(id)' = EscrowOf(id) /\ (Ended(id) => Ended(id)')
    BY <1>1, <1>2, <1>5 DEF EscrowOf, Ended, SameTerms
  <2> QED BY <1>2, <1>3, <2>1, EndStep
<1> QED BY <1>4, <1>5

\* freeze ends a delegation and leaves its bond where it was.
LEMMA FreezeBond ==
  ASSUME TypeInv, BondInv, NEW id \in Id, NEW sender \in Address, Freeze(id, sender)
  PROVE  BondInv' /\ EscrowStep
<1> DEFINE d == delegations[id]
           e == Froze(d)
<1>1. /\ SameTerms(d, e) /\ e.frozen /\ e.closed = d.closed
      /\ e.accepted = d.accepted /\ e.bondPaid = d.bondPaid
  BY FrozeUpdate DEF TypeInv, ReserveTypeOK
<1>2. delegations' = [delegations EXCEPT ![id] = e] /\ bondTo' = bondTo
  BY DEF Freeze
<1> HIDE DEF e
<1>3. /\ delegations'[id] = e
      /\ \A j \in Id : j # id => SameBond(j) /\ delegations'[j] = delegations[j]
  BY <1>2, OthersBond
<1>4. BondInv'
  BY <1>1, <1>2, <1>3 DEF BondInv
<1>5. EscrowOf(id)' = EscrowOf(id) /\ (Ended(id) => Ended(id)')
  BY <1>1, <1>2, <1>3 DEF EscrowOf, Ended, SameTerms
<1> QED BY <1>3, <1>4, <1>5, EndStep

\* claim pays the principal, once.
LEMMA ClaimBond ==
  ASSUME TypeInv, BondInv, NEW id \in Id, NEW secret \in Secret, Claim(id, secret)
  PROVE  BondInv' /\ EscrowStep
<1> DEFINE d == delegations[id]
           f == Froze(d)
           e == BondSpent(f)
<1>1. f \in Delegation /\ SameTerms(d, f) /\ f.frozen /\ f.accepted = d.accepted
  BY FrozeUpdate DEF TypeInv, ReserveTypeOK
<1>2. SameLife(f, e) /\ e.bondPaid
  BY <1>1, SpentUpdate
<1>3. delegations' = [delegations EXCEPT ![id] = e] /\ bondTo' = Paid("principal", id)
  BY DEF Claim
<1> HIDE DEF e, f
<1> QED BY <1>1, <1>2, <1>3, SpentBond DEF SameLife, SameTerms, SameEnd

\* An expired challenge pays the principal, if nobody was paid.
LEMMA ForfeitBond ==
  ASSUME TypeInv, BondInv, NEW id \in Id, NEW unheld \in Nat, Forfeit(id, unheld)
  PROVE  BondInv' /\ EscrowStep
<1> DEFINE d == delegations[id]
           f == Froze(d)
           g == BondSpent(f)
           e == [g EXCEPT !.holds = g.holds - unheld]
<1>1. f \in Delegation /\ SameTerms(d, f) /\ f.frozen /\ f.accepted = d.accepted
  BY FrozeUpdate DEF TypeInv, ReserveTypeOK
<1>2. g \in Delegation /\ SameLife(f, g) /\ g.bondPaid /\ g.holds = d.holds
  <2>1. g.holds = d.holds
    BY DEF Froze, BondSpent, Delegation, TypeInv, ReserveTypeOK
  <2> QED BY <1>1, <2>1, SpentUpdate
<1>3. delegations' = [delegations EXCEPT ![id] = e] /\ bondTo' = Paid("principal", id)
  BY DEF Forfeit
<1>4. SameRecord(g, e)
  <2>1. g.holds - unheld \in Nat
    BY <1>2, FieldTypes DEF Forfeit, Forfeitable
  <2> HIDE DEF g
  <2> QED BY <1>2, <2>1, CounterUpdates
<1> HIDE DEF e, f, g
<1> QED BY <1>1, <1>2, <1>3, <1>4, SpentBond
        DEF SameRecord, SameLife, SameTerms, SameEnd

\* close pays the agent, if nobody was paid.
LEMMA CloseBond ==
  ASSUME TypeInv, BondInv, NEW id \in Id, Close(id)
  PROVE  BondInv' /\ EscrowStep
<1> DEFINE d == delegations[id]
           e == [BondSpent(d) EXCEPT !.closed = TRUE, !.deposit = 0]
<1>1. SameTerms(d, e) /\ e.closed /\ e.bondPaid /\ e.accepted = d.accepted
  BY ClosedUpdate DEF TypeInv, ReserveTypeOK
<1>2. delegations' = [delegations EXCEPT ![id] = e] /\ bondTo' = Paid("agent", id)
  BY DEF Close
<1> HIDE DEF e
<1> QED BY <1>1, <1>2, SpentBond

\* revoke leaves bonds alone.
LEMMA RevokeBond ==
  ASSUME TypeInv, BondInv, NEW id \in Id, NEW ranges \in Revocation, Revoke(id, ranges)
  PROVE  BondInv' /\ EscrowStep
<1> DEFINE d == delegations[id]
           e == [d EXCEPT !.epoch = d.epoch + 1]
<1>1. /\ SameTerms(d, e) /\ SameEnd(d, e)
      /\ e.accepted = d.accepted /\ e.bondPaid = d.bondPaid
  BY EpochUpdate DEF TypeInv, ReserveTypeOK
<1>2. delegations' = [delegations EXCEPT ![id] = e] /\ bondTo' = bondTo
  BY DEF Revoke
<1> HIDE DEF e
<1>3. /\ delegations'[id] = e
      /\ \A j \in Id : j # id => SameBond(j) /\ delegations'[j] = delegations[j]
  BY <1>2, OthersBond
<1>4. BondInv'
  BY <1>1, <1>2, <1>3 DEF BondInv, SameEnd
<1>5. EscrowOf(id)' = EscrowOf(id) /\ (Ended(id) => Ended(id)')
  BY <1>1, <1>2, <1>3 DEF EscrowOf, Ended, SameTerms, SameEnd
<1> QED BY <1>3, <1>4, <1>5, EndStep

\* Every step is a step of the escrow or a stutter.
LEMMA NextBond ==
  ASSUME TypeInv, BondInv, [Next]_reserveVars
  PROVE  BondInv' /\ EscrowStep
<1>1. ASSUME UNCHANGED <<delegations, bondTo>> PROVE BondInv' /\ EscrowStep
  BY <1>1, UnchangedRecords, SameRecordsBond
<1>2. ASSUME NEW p \in signed, NEW stored \in BOOLEAN, Settle(p, stored)
      PROVE  BondInv' /\ EscrowStep
  BY <1>2, SettleRecords, SameRecordsBond DEF Settle
<1>3. CASE Quiet
  BY <1>3, SameRecordsBond DEF Quiet
<1>4. ASSUME NEW id \in Id, NEW unheld \in 0..1, Forfeit(id, unheld)
      PROVE  BondInv' /\ EscrowStep
  BY <1>4, ForfeitBond
<1>5. CASE AccountStep
  BY <1>2, <1>3, <1>5, AccountKinds, RegisterBond, AcceptBond, ClaimBond,
     FreezeBond, CloseBond, RevokeBond DEF AccountKind
<1>6. CASE ArbiterStep
  BY <1>3, <1>4, <1>6, ArbiterKinds
<1>7. CASE Tick \/ \E c \in Dispute : SetDispute(c)
  BY <1>1, <1>7 DEF Tick, SetDispute
<1>8. CASE UNCHANGED reserveVars
  BY <1>1, <1>8 DEF reserveVars
<1> QED BY <1>5, <1>6, <1>7, <1>8 DEF Next

\* Every delegation's bond behaves as the abstract escrow's, whatever order its
\* claim, its challenges' expiries, its freeze and its close come in: posted
\* once, paid once, and to one party.
THEOREM BondIsEscrowed == Spec => BondRefinesEscrow
<1>1. Init => TypeInv /\ BondInv /\ Escrow!EscrowInit
  BY InitTypes, InitBond
<1>2. TypeInv /\ BondInv /\ [Next]_reserveVars => TypeInv' /\ BondInv' /\ EscrowStep
  BY NextTypes, NextBond
<1> QED BY <1>1, <1>2, PTL
        DEF Spec, BondRefinesEscrow, Escrow!EscrowSpec, EscrowStep, Escrowed, EndedIds

----------------------------------------------------------------------------
(* The steps that touch the terms, the ranges or the acceptances.          *)

SameGrant(d, e) == SameTerms(d, e) /\ e.epoch = d.epoch /\ e.accepted = d.accepted

SameGrants == \A id \in Id : SameGrant(delegations[id], delegations'[id])

Kept == SameGrants /\ UNCHANGED <<revocationVars, capacityVars>>

\* A step that writes one record, and none of what the record grants.
LEMMA OneGrant ==
  ASSUME TypeInv, NEW id \in Id, NEW e,
         SameGrant(delegations[id], e),
         delegations' = [delegations EXCEPT ![id] = e]
  PROVE  SameGrants
  BY DEF TypeInv, ReserveTypeOK, SameGrants, SameGrant, SameTerms

\* The steps that change no record's life change no grant.
LEMMA QuietGrants == SameRecords => SameGrants
  BY DEF SameRecords, SameRecord, SameLife, SameGrants, SameGrant

\* freeze.
LEMMA FreezeGrants ==
  ASSUME TypeInv, NEW id \in Id, NEW sender \in Address, Freeze(id, sender)
  PROVE  SameGrants
<1> DEFINE e == Froze(delegations[id])
<1>1. SameGrant(delegations[id], e)
  BY FrozeUpdate DEF TypeInv, ReserveTypeOK, SameGrant
<1>2. delegations' = [delegations EXCEPT ![id] = e]
  BY DEF Freeze
<1> HIDE DEF e
<1> QED BY <1>1, <1>2, OneGrant

\* claim.
LEMMA ClaimGrants ==
  ASSUME TypeInv, NEW id \in Id, NEW secret \in Secret, Claim(id, secret)
  PROVE  SameGrants
<1> DEFINE d == delegations[id]
           f == Froze(d)
           e == BondSpent(f)
<1>1. f \in Delegation /\ SameGrant(d, f)
  BY FrozeUpdate DEF TypeInv, ReserveTypeOK, SameGrant
<1>2. SameLife(f, e)
  BY <1>1, SpentUpdate
<1>3. delegations' = [delegations EXCEPT ![id] = e]
  BY DEF Claim
<1> HIDE DEF e, f
<1>4. SameGrant(d, e)
  BY <1>1, <1>2 DEF SameGrant, SameLife, SameTerms
<1> QED BY <1>3, <1>4, OneGrant

\* forfeit.
LEMMA ForfeitGrants ==
  ASSUME TypeInv, NEW id \in Id, NEW unheld \in Nat, Forfeit(id, unheld)
  PROVE  SameGrants
<1> DEFINE d == delegations[id]
           f == Froze(d)
           g == BondSpent(f)
           e == [g EXCEPT !.holds = g.holds - unheld]
<1>1. f \in Delegation /\ SameGrant(d, f)
  BY FrozeUpdate DEF TypeInv, ReserveTypeOK, SameGrant
<1>2. g \in Delegation /\ SameLife(f, g) /\ g.holds = d.holds
  <2>1. g.holds = d.holds
    BY DEF Froze, BondSpent, Delegation, TypeInv, ReserveTypeOK
  <2> QED BY <1>1, <2>1, SpentUpdate
<1>3. delegations' = [delegations EXCEPT ![id] = e]
  BY DEF Forfeit
<1>4. SameRecord(g, e)
  <2>1. g.holds - unheld \in Nat
    BY <1>2, FieldTypes DEF Forfeit, Forfeitable
  <2> HIDE DEF g
  <2> QED BY <1>2, <2>1, CounterUpdates
<1> HIDE DEF e, f, g
<1>5. SameGrant(d, e)
  BY <1>1, <1>2, <1>4 DEF SameGrant, SameRecord, SameLife, SameTerms
<1> QED BY <1>3, <1>5, OneGrant

\* close.
LEMMA CloseGrants ==
  ASSUME TypeInv, NEW id \in Id, Close(id)
  PROVE  SameGrants
<1> DEFINE e == [BondSpent(delegations[id]) EXCEPT !.closed = TRUE, !.deposit = 0]
<1>1. SameGrant(delegations[id], e)
  BY ClosedUpdate, ZenonT(40) DEF TypeInv, ReserveTypeOK, SameGrant
<1>2. delegations' = [delegations EXCEPT ![id] = e]
  BY DEF Close
<1> HIDE DEF e
<1> QED BY <1>1, <1>2, OneGrant

\* The four calls of accounts that touch the limits.
LimitKind ==
  \/ \E a \in Signer, n \in Capacity : DeclareCapacity(a, n)
  \/ \E p \in Principal, t \in Offer : Register(p, t)
  \/ \E id \in Id : Accept(id)
  \/ \E id \in Id, ranges \in Revocation : Revoke(id, ranges)

\* Any other call of an account's keeps both records.
LEMMA AccountRecords ==
  ASSUME AccountStep
  PROVE  LimitKind \/ UNCHANGED <<revocationVars, capacityVars>>
<1>1. ASSUME NEW p \in signed, NEW stored \in BOOLEAN, Settle(p, stored)
      PROVE  UNCHANGED <<revocationVars, capacityVars>>
  BY <1>1 DEF Settle
<1> QED BY <1>1, ZenonT(40) DEF AccountStep, LimitKind, Sign, Claim, StakeAnswerer, UnstakeAnswerer,
                    Freeze, Reclaim, Close, Withdraw

\* Any other call of an account's keeps everything the limits read.
LEMMA AccountKept == ASSUME TypeInv, AccountStep PROVE LimitKind \/ Kept
<1>1. Quiet => SameGrants
  BY QuietGrants DEF Quiet
<1>2. LimitKind \/ SameGrants
  BY <1>1, AccountKinds, SettleRecords, QuietGrants, ClaimGrants, FreezeGrants,
     CloseGrants DEF AccountKind, LimitKind
<1> QED BY <1>2, AccountRecords DEF Kept

\* So does every other step.
LEMMA StepKept == ASSUME TypeInv, [Next]_reserveVars PROVE LimitKind \/ Kept
<1>1. ASSUME UNCHANGED <<delegations, revocationVars, capacityVars>> PROVE Kept
  BY <1>1, UnchangedRecords, QuietGrants DEF Kept
<1>2. CASE ArbiterStep
  <2>1. SameGrants
    <3>1. ASSUME NEW id \in Id, NEW unheld \in 0..1, Forfeit(id, unheld)
          PROVE  SameGrants
      BY <3>1, ForfeitGrants
    <3> QED BY <1>2, <3>1, ArbiterKinds, QuietGrants DEF Quiet
  <2>2. UNCHANGED <<revocationVars, capacityVars>>
    BY <1>2 DEF ArbiterStep, Hold, Release, Forfeit, SlashAnswerer, ArbiterCounts,
                NoCall, ArbiterKeeps
  <2> QED BY <2>1, <2>2 DEF Kept
<1>3. ASSUME NEW c \in Dispute, SetDispute(c) PROVE Kept
  BY <1>1, <1>3 DEF SetDispute
<1>4. CASE Tick
  BY <1>1, <1>4 DEF Tick
<1>5. CASE UNCHANGED reserveVars
  BY <1>1, <1>5 DEF reserveVars
<1> QED BY <1>2, <1>3, <1>4, <1>5, AccountKept DEF Next

----------------------------------------------------------------------------
(* Revoked ranges.                                                         *)

\* Nothing is revoked of a delegation nobody registered.
RangeInv ==
  /\ RevokedDisjoint
  /\ \A id \in Id : delegations[id].principal = NoAddress => revoked[id] = <<>>

\* The contract's 64-bit test finds the ranges it admits apart.
LEMMA AdmittedApart ==
  ASSUME NEW r \in UnitRange, NEW q \in UnitRange, ApartFrom(r, q)
  PROVE  Apart(r, q) /\ Apart(q, r)
  BY DEF UnitRange, ApartFrom, Apart

\* Steps that keep both records keep the invariant.
LEMMA KeptRanges ==
  ASSUME TypeInv, RangeInv, SameGrants, UNCHANGED revocationVars
  PROVE  RangeInv'
  BY DEF RangeInv, RevokedDisjoint, SameGrants, SameGrant, SameTerms, Inside

\* A registration fills a blank record, with no epoch after the first.
LEMMA RegisterRanges ==
  ASSUME TypeInv, RangeInv, NEW p \in Principal, NEW t \in Offer, Register(p, t)
  PROVE  RangeInv'
<1> DEFINE d == Issued(p, t)
<1>1. /\ nextId \in Id /\ delegations[nextId].principal = NoAddress
      /\ d.epoch = 0 /\ d.principal # NoAddress
  <2>1. nextId \in Id
    BY ReserveAssumption DEF TypeInv, ReserveTypeOK, Register, Id
  <2>2. d.epoch = 0 /\ d.principal = p
    BY DEF Issued, Blank
  <2> QED BY <2>1, <2>2, ReserveAssumption DEF TypeInv, Unregistered, Id
<1>2. revoked[nextId] = <<>>
  BY <1>1 DEF RangeInv
<1>3. PICK root \in Root : rootAt' = [rootAt EXCEPT ![nextId] = <<root>>]
  BY DEF Register
<1>4. delegations' = [delegations EXCEPT ![nextId] = d] /\ revoked' = revoked
  BY DEF Register
<1> HIDE DEF d
<1>5. /\ delegations'[nextId] = d /\ Len(rootAt'[nextId]) = 1
      /\ \A j \in Id : j # nextId =>
           delegations'[j] = delegations[j] /\ rootAt'[j] = rootAt[j]
  BY <1>1, <1>3, <1>4 DEF TypeInv, ReserveTypeOK
<1>6. ASSUME NEW id \in Id, id # nextId
      PROVE  /\ delegations'[id] = delegations[id] /\ revoked'[id] = revoked[id]
             /\ rootAt'[id] = rootAt[id]
  BY <1>4, <1>5, <1>6
<1>7. revoked'[nextId] = <<>> /\ Len(revoked'[nextId]) = 0
  BY <1>2, <1>4
<1>8. ASSUME NEW id \in Id
      PROVE  /\ \A i \in 1..Len(revoked'[id]) :
                  Inside(revoked'[id][i], delegations'[id].terms)
             /\ \A i, j \in 1..Len(revoked'[id]) :
                  i # j => Apart(revoked'[id][i], revoked'[id][j])
             /\ delegations'[id].principal # NoAddress
                  => Len(rootAt'[id]) = delegations'[id].epoch + 1
             /\ delegations'[id].principal = NoAddress => revoked'[id] = <<>>
  <2>1. CASE id = nextId
    <3>1. 1..Len(revoked'[id]) = {}
      BY <1>7, <2>1
    <3>2. Len(rootAt'[id]) = 1 /\ delegations'[id].epoch = 0
      BY <1>1, <1>5, <2>1
    <3> QED BY <1>7, <2>1, <3>1, <3>2
  <2>2. CASE id # nextId
    BY <1>6, <2>2 DEF RangeInv, RevokedDisjoint
  <2> QED BY <2>1, <2>2
<1> QED BY <1>8 DEF RangeInv, RevokedDisjoint

\* A revocation's ranges are apart from the earlier ones and from each other.
LEMMA RevokeRanges ==
  ASSUME TypeInv, RangeInv, NEW id \in Id, NEW ranges \in Revocation, Revoke(id, ranges)
  PROVE  RangeInv'
<1> DEFINE d == delegations[id]
           e == [d EXCEPT !.epoch = d.epoch + 1]
           old == revoked[id]
           list == old \o ranges
           n == Len(old)
<1>1. /\ old \in Seq(UnitRange) /\ ranges \in Seq(UnitRange) /\ n \in Nat
      /\ Len(ranges) \in Nat /\ list \in Seq(UnitRange) /\ Len(list) = n + Len(ranges)
  BY ReserveAssumption DEF TypeInv, ReserveTypeOK
<1>2. /\ \A i \in 1..n : list[i] = old[i]
      /\ \A i \in 1..Len(list) : i > n => i - n \in 1..Len(ranges) /\ list[i] = ranges[i - n]
      /\ \A i \in 1..Len(list) : list[i] \in UnitRange
  BY <1>1
<1>3. SameTerms(d, e) /\ d.epoch \in Nat /\ e.epoch = d.epoch + 1
  BY EpochUpdate, FieldTypes DEF TypeInv, ReserveTypeOK
<1>4. /\ delegations' = [delegations EXCEPT ![id] = e]
      /\ revoked' = [revoked EXCEPT ![id] = list]
  BY DEF Revoke
<1>5. PICK root \in Root : rootAt' = [rootAt EXCEPT ![id] = Append(rootAt[id], root)]
  BY DEF Revoke
<1>6. Len(Append(rootAt[id], root)) = Len(rootAt[id]) + 1
  BY DEF TypeInv, ReserveTypeOK
<1>7. /\ d.principal # NoAddress
      /\ \A i \in 1..Len(ranges) : Inside(ranges[i], d.terms)
      /\ \A i \in 1..Len(ranges) : \A j \in 1..(n + i - 1) : ApartFrom(ranges[i], list[j])
  BY DEF Revoke, Revocable
<1>8. ASSUME NEW i \in 1..Len(list) PROVE Inside(list[i], d.terms)
  <2>1. CASE i > n
    BY <1>2, <1>7, <2>1
  <2>2. CASE ~(i > n)
    BY <1>1, <1>2, <2>2 DEF RangeInv, RevokedDisjoint
  <2> QED BY <2>1, <2>2
<1>9. ASSUME NEW i \in 1..Len(list), NEW j \in 1..Len(list), i < j
      PROVE  Apart(list[j], list[i]) /\ Apart(list[i], list[j])
  <2>1. CASE j > n
    <3>1. j - n \in 1..Len(ranges) /\ list[j] = ranges[j - n]
      BY <1>2, <2>1
    <3>2. i \in 1..(n + (j - n) - 1)
      BY <1>1, <1>9
    <3>3. ApartFrom(list[j], list[i])
      BY <1>7, <3>1, <3>2
    <3> QED BY <1>2, <3>3, AdmittedApart
  <2>2. CASE ~(j > n)
    <3>1. i \in 1..n /\ j \in 1..n /\ i # j
      BY <1>1, <1>9, <2>2
    <3> QED BY <1>2, <3>1 DEF RangeInv, RevokedDisjoint
  <2> QED BY <2>1, <2>2
<1>10. ASSUME NEW i \in 1..Len(list), NEW j \in 1..Len(list), i # j
       PROVE  Apart(list[i], list[j])
  <2>1. i < j \/ j < i
    BY <1>1, <1>10
  <2> QED BY <1>9, <2>1
<1> HIDE DEF e, list
<1>11. /\ delegations'[id] = e /\ revoked'[id] = list
       /\ Len(rootAt'[id]) = Len(rootAt[id]) + 1
       /\ \A j \in Id : j # id => /\ delegations'[j] = delegations[j]
                                  /\ revoked'[j] = revoked[j] /\ rootAt'[j] = rootAt[j]
  BY <1>4, <1>5, <1>6 DEF TypeInv, ReserveTypeOK
<1>12. e.principal # NoAddress /\ e.terms = d.terms /\ Len(rootAt'[id]) = e.epoch + 1
  BY <1>3, <1>7, <1>11 DEF RangeInv, RevokedDisjoint, SameTerms
<1>13. ASSUME NEW j \in Id, j # id
       PROVE  /\ delegations'[j] = delegations[j]
              /\ revoked'[j] = revoked[j] /\ rootAt'[j] = rootAt[j]
  BY <1>11, <1>13
<1> QED BY <1>8, <1>10, <1>11, <1>12, <1>13, SMTT(30) DEF RangeInv, RevokedDisjoint

\* Revoked ranges are disjoint and inside the delegation's, and there is one
\* root an epoch, whatever was revoked in however many calls (revoke).
THEOREM RangesDisjoint == Spec => []RevokedDisjoint
<1>1. Init => RangeInv
  BY DEF Init, ReserveInit, Blank, RangeInv, RevokedDisjoint
<1>2. ASSUME TypeInv, RangeInv, [Next]_reserveVars PROVE RangeInv'
  <2>1. ASSUME NEW id \in Id, Accept(id) PROVE RangeInv'
    <3> DEFINE e == [delegations[id] EXCEPT !.accepted = TRUE]
    <3>1. /\ SameTerms(delegations[id], e) /\ e.epoch = delegations[id].epoch
      BY <1>2, AcceptedUpdate DEF TypeInv, ReserveTypeOK
    <3>2. delegations' = [delegations EXCEPT ![id] = e] /\ UNCHANGED revocationVars
      BY <2>1 DEF Accept
    <3> HIDE DEF e
    <3>3. \A j \in Id : /\ SameTerms(delegations[j], delegations'[j])
                        /\ delegations'[j].epoch = delegations[j].epoch
      BY <1>2, <3>1, <3>2 DEF TypeInv, ReserveTypeOK, SameTerms
    <3> QED BY <1>2, <3>2, <3>3 DEF RangeInv, RevokedDisjoint, SameTerms
  <2>2. ASSUME NEW a \in Signer, NEW n \in Capacity, DeclareCapacity(a, n)
        PROVE  RangeInv'
    <3>1. SameGrants /\ UNCHANGED revocationVars
      BY <2>2, UnchangedRecords, QuietGrants DEF DeclareCapacity
    <3> QED BY <1>2, <3>1, KeptRanges
  <2> QED BY <1>2, <2>1, <2>2, StepKept, KeptRanges, RegisterRanges, RevokeRanges
          DEF LimitKind, Kept
<1>3. Spec => []TypeInv
  BY InitTypes, NextTypes, PTL DEF Spec
<1>4. RangeInv => RevokedDisjoint
  BY DEF RangeInv
<1> QED BY <1>1, <1>2, <1>3, <1>4, PTL DEF Spec

----------------------------------------------------------------------------
(* How many principals an agent serves.                                    *)

\* Those whose delegations to the agent it accepted.
Served(a) ==
  {delegations[id].principal :
     id \in {i \in Id : /\ delegations[i].accepted
                        /\ delegations[i].terms.agent = a}}

ServesInv ==
  \A a \in Address :
    /\ serves[a] = Served(a)
    /\ IsFiniteSet(serves[a])
    /\ servedCount[a] = Cardinality(serves[a])
    /\ capacityOf[a] # 0 => servedCount[a] <= capacityOf[a]

\* Whose delegations are accepted is the same if acceptance and terms are.
LEMMA SameServed ==
  ASSUME \A id \in Id :
           /\ delegations'[id].accepted <=> delegations[id].accepted
           /\ delegations[id].accepted => SameTerms(delegations[id], delegations'[id])
  PROVE  \A a \in Address : Served(a)' = Served(a)
<1>1. ASSUME NEW a \in Address
      PROVE  {i \in Id : /\ delegations'[i].accepted
                         /\ delegations'[i].terms.agent = a}
             = {i \in Id : delegations[i].accepted /\ delegations[i].terms.agent = a}
  BY DEF SameTerms
<1>2. ASSUME NEW a \in Address,
             NEW i \in {j \in Id : delegations[j].accepted /\ delegations[j].terms.agent = a}
      PROVE  delegations'[i].principal = delegations[i].principal
  BY DEF SameTerms
<1> QED BY <1>1, <1>2 DEF Served

\* Steps that keep whose delegations are accepted keep the invariant.
LEMMA SameServes ==
  ASSUME ServesInv, UNCHANGED capacityVars, \A a \in Address : Served(a)' = Served(a)
  PROVE  ServesInv'
  BY DEF ServesInv

\* A registered delegation is not accepted yet, and its place was free.
LEMMA RegisterServes ==
  ASSUME TypeInv, ServesInv, NEW p \in Principal, NEW t \in Offer, Register(p, t)
  PROVE  ServesInv'
<1> DEFINE d == Issued(p, t)
<1>1. nextId \in Id
  BY ReserveAssumption DEF TypeInv, ReserveTypeOK, Register, Id
<1>2. ~d.accepted /\ ~delegations[nextId].accepted
  BY <1>1 DEF Issued, Blank, TypeInv, Unregistered, Id
<1>3. delegations' = [delegations EXCEPT ![nextId] = d] /\ UNCHANGED capacityVars
  BY DEF Register
<1> HIDE DEF d
<1>4. \A a \in Address : Served(a)' = Served(a)
  <2>1. \A id \in Id : /\ delegations'[id].accepted <=> delegations[id].accepted
                       /\ delegations[id].accepted =>
                            SameTerms(delegations[id], delegations'[id])
    BY <1>1, <1>2, <1>3 DEF TypeInv, ReserveTypeOK, SameTerms
  <2> QED BY <2>1, SameServed
<1> QED BY <1>3, <1>4, SameServes

\* An accepted delegation's principal is served, and counted if it was not.
LEMMA AcceptServes ==
  ASSUME TypeInv, ServesInv, NEW id \in Id, Accept(id)
  PROVE  ServesInv'
<1> DEFINE d == delegations[id]
           e == [d EXCEPT !.accepted = TRUE]
<1>0. PICK g \in Address : g = d.terms.agent
  BY DEF Accept
<1>1. SameTerms(d, e) /\ e.accepted
  BY AcceptedUpdate DEF TypeInv, ReserveTypeOK
<1>2. /\ CanServe(g, d.principal) /\ TakenOn(g, d.principal)
      /\ delegations' = [delegations EXCEPT ![id] = e] /\ capacityOf' = capacityOf
  BY <1>0 DEF Accept
<1> HIDE DEF e
<1>3. /\ delegations'[id] = e
      /\ \A j \in Id : j # id => delegations'[j] = delegations[j]
  BY <1>2 DEF TypeInv, ReserveTypeOK
<1>4. /\ serves \in [Address -> SUBSET Principal] /\ servedCount \in [Address -> Nat]
      /\ capacityOf \in [Address -> Nat]
  BY DEF TypeInv, ReserveTypeOK
<1>5. Served(g)' = Served(g) \cup {d.principal}
  BY <1>0, <1>1, <1>3 DEF Served, SameTerms
<1>6. ASSUME NEW a \in Address, a # g PROVE Served(a)' = Served(a)
  BY <1>0, <1>1, <1>3, <1>6 DEF Served, SameTerms
<1>7. CASE d.principal \in serves[g]
  <2>1. serves' = serves /\ servedCount' = servedCount
    BY <1>2, <1>7 DEF TakenOn
  <2>2. Served(g)' = Served(g)
    BY <1>2, <1>5, <1>7 DEF ServesInv
  <2>3. \A a \in Address : Served(a)' = Served(a)
    BY <1>6, <2>2
  <2> QED BY <1>2, <2>1, <2>3, SameServes
<1>8. CASE d.principal \notin serves[g]
  <2>1. /\ serves' = [serves EXCEPT ![g] = serves[g] \cup {d.principal}]
        /\ servedCount' = [servedCount EXCEPT ![g] = servedCount[g] + 1]
        /\ capacityOf[g] = 0 \/ servedCount[g] < capacityOf[g]
    BY <1>2, <1>8 DEF TakenOn, CanServe
  <2>2. /\ IsFiniteSet(serves[g] \cup {d.principal})
        /\ Cardinality(serves[g] \cup {d.principal}) = Cardinality(serves[g]) + 1
    BY <1>2, <1>8, FS_AddElement DEF ServesInv
  <2>3. /\ serves'[g] = serves[g] \cup {d.principal}
        /\ servedCount'[g] = servedCount[g] + 1
        /\ \A a \in Address : a # g => serves'[a] = serves[a] /\ servedCount'[a] = servedCount[a]
    BY <1>2, <1>4, <2>1
  <2>4. ASSUME NEW a \in Address, a # g
        PROVE  /\ serves'[a] = Served(a)' /\ IsFiniteSet(serves'[a])
               /\ servedCount'[a] = Cardinality(serves'[a])
               /\ capacityOf'[a] # 0 => servedCount'[a] <= capacityOf'[a]
    BY <1>2, <1>6, <2>3, <2>4 DEF ServesInv
  <2>5. /\ serves'[g] = Served(g)' /\ IsFiniteSet(serves'[g])
        /\ servedCount'[g] = Cardinality(serves'[g])
    BY <1>2, <1>5, <2>2, <2>3 DEF ServesInv
  <2>6. capacityOf'[g] # 0 => servedCount'[g] <= capacityOf'[g]
    <3>1. capacityOf[g] \in Nat /\ servedCount[g] \in Nat
      BY <1>2, <1>4
    <3>2. capacityOf'[g] = capacityOf[g]
      BY <1>2
    <3> QED BY <2>1, <2>3, <3>1, <3>2
  <2> QED BY <2>4, <2>5, <2>6 DEF ServesInv
<1> QED BY <1>7, <1>8

\* Whatever an agent declares and accepts in whatever order, it is counted as
\* serving exactly the principals it accepted, within what it declared
\* (declareCapacity, accept).
THEOREM CapacityHolds == Spec => []CapacityKept
<1>1. Init => ServesInv
  <2>1. ASSUME Init, NEW a \in Address PROVE Served(a) = {}
    BY <2>1 DEF Init, ReserveInit, Blank, Served
  <2> QED BY <2>1, FS_EmptySet DEF Init, ReserveInit, ServesInv
<1>2. ASSUME TypeInv, ServesInv, [Next]_reserveVars PROVE ServesInv'
  <2>1. CASE Kept
    <3>1. \A a \in Address : Served(a)' = Served(a)
      BY <2>1, SameServed DEF Kept, SameGrants, SameGrant
    <3> QED BY <1>2, <2>1, <3>1, SameServes DEF Kept
  <2>2. ASSUME NEW a \in Signer, NEW n \in Capacity, DeclareCapacity(a, n)
        PROVE  ServesInv'
    <3>1. /\ capacityOf' = [capacityOf EXCEPT ![a] = n] /\ n >= servedCount[a]
          /\ UNCHANGED <<serves, servedCount, delegations>>
      BY <2>2 DEF DeclareCapacity
    <3>2. /\ capacityOf \in [Address -> Nat] /\ servedCount \in [Address -> Nat]
          /\ a \in Address /\ n \in Nat
      BY <1>2, ReserveAssumption DEF TypeInv, ReserveTypeOK
    <3>3. \A b \in Address : capacityOf'[b] # 0 => servedCount'[b] <= capacityOf'[b]
      BY <1>2, <3>1, <3>2 DEF ServesInv
    <3>4. \A b \in Address : Served(b)' = Served(b)
      BY <3>1 DEF Served
    <3> QED BY <1>2, <3>1, <3>3, <3>4 DEF ServesInv
  <2>3. ASSUME NEW id \in Id, NEW ranges \in Revocation, Revoke(id, ranges)
        PROVE  ServesInv'
    <3> DEFINE e == [delegations[id] EXCEPT !.epoch = delegations[id].epoch + 1]
    <3>1. SameTerms(delegations[id], e) /\ e.accepted = delegations[id].accepted
      BY <1>2, EpochUpdate DEF TypeInv, ReserveTypeOK
    <3>2. delegations' = [delegations EXCEPT ![id] = e] /\ UNCHANGED capacityVars
      BY <2>3 DEF Revoke
    <3> HIDE DEF e
    <3>3. \A j \in Id : /\ delegations'[j].accepted <=> delegations[j].accepted
                        /\ SameTerms(delegations[j], delegations'[j])
      BY <1>2, <3>1, <3>2 DEF TypeInv, ReserveTypeOK, SameTerms
    <3> QED BY <1>2, <3>2, <3>3, SameServed, SameServes
  <2> QED BY <1>2, <2>1, <2>2, <2>3, StepKept, RegisterServes, AcceptServes
          DEF LimitKind
<1>3. Spec => []TypeInv
  BY InitTypes, NextTypes, PTL DEF Spec
<1>4. ServesInv => CapacityKept
  BY DEF ServesInv, Served, CapacityKept
<1> QED BY <1>1, <1>2, <1>3, <1>4, PTL DEF Spec

----------------------------------------------------------------------------
(* The velocity limit.                                                     *)

WindowOf(id) == delegations[id].terms.windowW
VelocityOf(id) == delegations[id].terms.velocityN

\* What settled under a delegation, since a moment, and before another.
SettledOf(id) == {dg \in Digest : settled[id][dg] # NotSettled}
SettledFrom(id, t) == {dg \in SettledOf(id) : settled[id][dg].at >= t}
SettledBefore(id, t, u) == {dg \in SettledFrom(id, t) : settled[id][dg].at < u}

\* The current window counts the payments since its start, opened with one, and
\* lies after all others; less than its length before it, all but the first
\* payment of one more window fit.
Paced(id) ==
  LET s == windows[id].start IN
  /\ Cardinality(SettledFrom(id, s)) = windows[id].count
  /\ windows[id].count <= VelocityOf(id)
  /\ \E dg \in SettledOf(id) : settled[id][dg].at = s
  /\ \A dg \in SettledOf(id) : settled[id][dg].at < s + WindowOf(id)
  /\ \A t \in Nat : t + WindowOf(id) > s
       => Cardinality(SettledBefore(id, t, s)) <= VelocityOf(id) - 1
  /\ \A t \in Nat :
       Cardinality(SettledDuring(id, t, WindowOf(id))) <= 2 * VelocityOf(id) - 1

PacedSoFar(id) ==
  /\ WindowOf(id) <= now
  /\ ~delegations[id].accepted => SettledOf(id) = {}
  /\ SettledOf(id) = {} => windows[id].start = 0
  /\ \A dg \in SettledOf(id) : settled[id][dg].at <= now
  /\ (WindowOf(id) > 0 /\ SettledOf(id) # {}) => Paced(id)

VelocityInv == now >= StartTime /\ \A id \in Id : PacedSoFar(id)

\* The numbers of a delegation's window and payments.
LEMMA PaceTypes ==
  ASSUME TypeInv, NEW id \in Id
  PROVE  /\ now \in Nat /\ WindowOf(id) \in Nat /\ VelocityOf(id) \in Nat
         /\ windows[id].start \in Nat /\ windows[id].count \in Nat
         /\ \A dg \in SettledOf(id) : settled[id][dg] \in Settlement
                                      /\ settled[id][dg].at \in Nat
         /\ SettledOf(id) \subseteq Digest /\ IsFiniteSet(SettledOf(id))
         /\ \A t : /\ IsFiniteSet(SettledFrom(id, t))
                   /\ Cardinality(SettledFrom(id, t)) \in Nat
         /\ \A t, u : /\ IsFiniteSet(SettledBefore(id, t, u))
                      /\ Cardinality(SettledBefore(id, t, u)) \in Nat
         /\ \A t, w : /\ IsFiniteSet(SettledDuring(id, t, w))
                      /\ Cardinality(SettledDuring(id, t, w)) \in Nat
<1>1. /\ now \in Nat /\ windows[id].start \in Nat /\ windows[id].count \in Nat
      /\ delegations[id] \in Delegation
  BY DEF TypeInv, ReserveTypeOK
<1>2. WindowOf(id) \in Nat /\ VelocityOf(id) \in Nat
  BY <1>1, TermsType DEF WindowOf, VelocityOf
<1>3. ASSUME NEW dg \in SettledOf(id)
      PROVE  settled[id][dg] \in Settlement /\ settled[id][dg].at \in Nat
  <2>1. settled[id][dg] \in Settlement
    BY DEF TypeInv, ReserveTypeOK, SettledOf
  <2> QED BY <2>1 DEF Settlement
<1>4. \A S : S \subseteq Digest => IsFiniteSet(S) /\ Cardinality(S) \in Nat
  BY ReserveAssumption, FS_Subset, FS_CardinalityType
<1>5. SettledOf(id) \subseteq Digest
  BY DEF SettledOf
<1>6. /\ \A t : SettledFrom(id, t) \subseteq Digest
      /\ \A t, u : SettledBefore(id, t, u) \subseteq Digest
      /\ \A t, w : SettledDuring(id, t, w) \subseteq Digest
  BY <1>5 DEF SettledFrom, SettledBefore, SettledDuring
<1> QED BY <1>1, <1>2, <1>3, <1>4, <1>5, <1>6

\* A delegation whose terms, window and payments stay keeps its pace.
LEMMA SamePace ==
  ASSUME TypeInv, NEW id \in Id, PacedSoFar(id), now' \in Nat, now' >= now,
         settled'[id] = settled[id], windows'[id] = windows[id],
         delegations'[id].terms = delegations[id].terms,
         delegations[id].accepted => delegations'[id].accepted
  PROVE  PacedSoFar(id)'
<1>1. /\ WindowOf(id)' = WindowOf(id) /\ VelocityOf(id)' = VelocityOf(id)
      /\ SettledOf(id)' = SettledOf(id)
  BY DEF WindowOf, VelocityOf, SettledOf
<1>2. \A t : SettledFrom(id, t)' = SettledFrom(id, t)
  BY <1>1 DEF SettledFrom
<1>3. \A t, u : SettledBefore(id, t, u)' = SettledBefore(id, t, u)
  BY <1>2 DEF SettledBefore
<1>4. \A t, w : SettledDuring(id, t, w)' = SettledDuring(id, t, w)
  BY DEF SettledDuring
<1>5. Paced(id) => Paced(id)'
  BY <1>1, <1>2, <1>3, <1>4 DEF Paced
<1>6. WindowOf(id) <= now' /\ \A dg \in SettledOf(id) : settled'[id][dg].at <= now'
  BY PaceTypes DEF PacedSoFar
<1> QED BY <1>1, <1>5, <1>6 DEF PacedSoFar

\* A payment opens a window or joins the current one.
LEMMA SettlePace ==
  ASSUME TypeInv, TypeInv', VelocityInv, NEW p \in signed, NEW stored \in BOOLEAN,
         Settle(p, stored)
  PROVE  PacedSoFar(p.id)'
<1> DEFINE id == p.id
           new == p.digest
           S == SettledOf(id)
<1>1. id \in Id /\ new \in Digest /\ now' = now
  BY DEF TypeInv, ReserveTypeOK, Payload, Settle
<1>2. PICK s \in Nat, n \in Nat, len \in Nat, v \in Nat :
        /\ s = windows[id].start /\ n = windows[id].count
        /\ len = WindowOf(id) /\ v = VelocityOf(id)
  BY <1>1, PaceTypes
<1>3. PICK s1 \in Nat, n1 \in Nat : /\ s1 = IF now >= s + len THEN now ELSE s
                                    /\ n1 = IF now >= s + len THEN 1 ELSE n + 1
  <2>1. now \in Nat /\ n + 1 \in Nat /\ 1 \in Nat
    BY DEF TypeInv, ReserveTypeOK
  <2> QED BY <2>1
<1>4. /\ now \in Nat
      /\ S \subseteq Digest /\ PacedSoFar(id)
      /\ \A dg \in S : settled[id][dg].at \in Nat /\ settled[id][dg].at <= now
  BY <1>1, PaceTypes DEF VelocityInv, PacedSoFar
<1>5. SameRecords
  BY SettleRecords
<1>6. /\ WindowOf(id)' = len /\ VelocityOf(id)' = v
      /\ delegations'[id].accepted /\ settled[id][new] = NotSettled
  BY <1>2, <1>1, <1>5 DEF SameRecords, SameRecord, SameLife, SameTerms, Settle, Admitted, Live,
                    WindowOf, VelocityOf
<1>7. windows'[id].start = s1 /\ windows'[id].count = n1 /\ n1 <= v
  <2>1. WindowAfter(id).start = s1 /\ WindowAfter(id).count = n1
    BY <1>2, <1>3, <1>1, SMTT(30) DEF WindowAfter, WindowOf, TypeInv, ReserveTypeOK
  <2>2. windows'[id] = WindowAfter(id) /\ WindowAfter(id).count <= v
    BY <1>2, <1>1 DEF Settle, Admitted, VelocityOf, TypeInv, ReserveTypeOK
  <2> QED BY <2>1, <2>2
<1>8. /\ settled'[id][new].at = now
      /\ \A dg \in Digest : dg # new => settled'[id][dg] = settled[id][dg]
      /\ settled'[id][new] # NotSettled
  <2>1. settled'[id][new] =
          [payee |-> p.payee, amount |-> p.amount, time |-> p.time,
           epoch |-> delegations[id].epoch, at |-> now]
    BY <1>1, SMTT(30) DEF Settle, TypeInv, ReserveTypeOK
  <2>2. \A dg \in Digest : dg # new => settled'[id][dg] = settled[id][dg]
    BY <1>1 DEF Settle, TypeInv, ReserveTypeOK
  <2>3. settled'[id][new] \in Settlement
    <3>1. /\ p.payee \in Address /\ p.amount \in Nat /\ p.time \in Nat
          /\ delegations[id].epoch \in Nat
      BY <1>1, FieldTypes DEF TypeInv, ReserveTypeOK, Payload
    <3> QED BY <1>4, <2>1, <3>1 DEF Settlement
  <2> QED BY <2>1, <2>2, <2>3, ReserveAssumption
<1>9. SettledOf(id)' = S \cup {new} /\ new \notin S
  BY <1>1, <1>6, <1>8 DEF SettledOf
<1>10. \A dg \in S : settled'[id][dg].at = settled[id][dg].at
  BY <1>4, <1>8, <1>9
<1>11. \A dg \in SettledOf(id)' : settled'[id][dg].at \in Nat /\ settled'[id][dg].at <= now
  BY <1>4, <1>8, <1>9, <1>10
<1>12. /\ len <= now /\ (S = {} => s = 0)
       /\ (len > 0 /\ S # {}) => Paced(id)
  BY <1>2, <1>4 DEF PacedSoFar
<1> HIDE DEF id, new, S
<1>13. ASSUME len > 0 PROVE Paced(id)'
  <2>1. now >= s1 /\ s1 \in Nat /\ n1 \in Nat /\ v >= 1
    <3>1. S # {} => s <= now
      BY <1>2, <1>4, <1>12, <1>13 DEF Paced, S
    <3> QED BY <1>3, <1>4, <1>7, <1>12, <3>1
  <2>2. /\ Cardinality(SettledFrom(id, s1)') = n1
        /\ \E dg \in SettledOf(id)' : settled'[id][dg].at = s1
        /\ \A dg \in SettledOf(id)' : settled'[id][dg].at < s1 + len
        /\ \A t \in Nat : t + len > s1 => Cardinality(SettledBefore(id, t, s1)') <= v - 1
    <3>1. CASE now >= s + len
      <4>1. s1 = now /\ n1 = 1
        BY <1>3, <3>1
      <4>2. \A dg \in S : settled[id][dg].at < now
        <5>1. S # {} => \A dg \in S : settled[id][dg].at < s + len
          BY <1>2, <1>12, <1>13 DEF Paced, S
        <5> QED BY <1>4, <3>1, <5>1
      <4>3. SettledFrom(id, s1)' = {new}
        BY <1>4, <1>8, <1>9, <1>10, <4>1, <4>2 DEF SettledFrom
      <4>4. Cardinality(SettledFrom(id, s1)') = n1
        BY <4>1, <4>3, FS_Singleton
      <4>5. \A dg \in SettledOf(id)' : settled'[id][dg].at < s1 + len
        BY <1>4, <1>11, <1>13, <4>1
      <4>6. ASSUME NEW t \in Nat, t + len > s1
            PROVE  Cardinality(SettledBefore(id, t, s1)') <= v - 1
        <5>1. SettledBefore(id, t, s1)' = {dg \in S : settled[id][dg].at >= t}
          BY <1>8, <1>9, <1>10, <1>4, <4>1, <4>2 DEF SettledBefore, SettledFrom
        <5>2. CASE S = {}
          BY <2>1, <5>1, <5>2, FS_EmptySet
        <5>3. CASE S # {}
          <6>1. Paced(id)
            BY <1>12, <1>13, <5>3
          <6>2. PICK dg \in S : settled[id][dg].at = s
            BY <1>2, <6>1 DEF Paced, S
          <6> DEFINE F == SettledFrom(id, s)
                     B == SettledBefore(id, t, s1)'
          <6>3. IsFiniteSet(F) /\ Cardinality(F) = n /\ n <= v
            BY <1>2, <1>1, <6>1, PaceTypes DEF Paced, id
          <6>4. dg \in F /\ B \subseteq F \ {dg}
            BY <1>4, <3>1, <4>1, <4>6, <5>1, <6>2 DEF SettledFrom, S
          <6> HIDE DEF F, B
          <6>5. IsFiniteSet(F \ {dg}) /\ Cardinality(F \ {dg}) = n - 1
            BY <6>3, <6>4, FS_RemoveElement
          <6>6. Cardinality(B) <= n - 1 /\ Cardinality(B) \in Nat
            BY <6>4, <6>5, FS_Subset, FS_CardinalityType
          <6>7. Cardinality(B) <= v - 1
            BY <1>4, <6>3, <6>6
          <6> QED BY <6>7 DEF B
        <5> QED BY <5>2, <5>3
      <4>7. \E dg \in SettledOf(id)' : settled'[id][dg].at = s1
        BY <1>8, <1>9, <4>1
      <4> QED BY <4>4, <4>5, <4>6, <4>7
    <3>2. CASE ~(now >= s + len)
      <4>1. s1 = s /\ n1 = n + 1 /\ S # {}
        BY <1>3, <1>4, <1>12, <3>2
      <4>2. Paced(id)
        BY <1>12, <1>13, <4>1
      <4>3. /\ Cardinality(SettledFrom(id, s)) = n /\ IsFiniteSet(SettledFrom(id, s))
            /\ \E dg \in S : settled[id][dg].at = s
            /\ \A dg \in S : settled[id][dg].at < s + len
            /\ \A t \in Nat : t + len > s => Cardinality(SettledBefore(id, t, s)) <= v - 1
        BY <1>2, <1>1, <4>2, PaceTypes DEF Paced, S, id
      <4>4. SettledFrom(id, s1)' = SettledFrom(id, s) \cup {new}
            /\ new \notin SettledFrom(id, s)
        BY <1>8, <1>9, <1>10, <2>1, <4>1 DEF SettledFrom, S
      <4>5. Cardinality(SettledFrom(id, s1)') = n1
        BY <4>1, <4>3, <4>4, FS_AddElement
      <4>6. \A t : SettledBefore(id, t, s1)' = SettledBefore(id, t, s)
        BY <1>4, <1>8, <1>9, <1>10, <2>1, <4>1 DEF SettledBefore, SettledFrom, S
      <4>7. \A dg \in SettledOf(id)' : settled'[id][dg].at < s1 + len
        BY <1>4, <1>8, <1>9, <1>10, <3>2, <4>1, <4>3
      <4>8. \E dg \in SettledOf(id)' : settled'[id][dg].at = s1
        BY <1>9, <1>10, <4>1, <4>3
      <4>9. \A t \in Nat : t + len > s1 => Cardinality(SettledBefore(id, t, s1)') <= v - 1
        BY <4>1, <4>3, <4>6
      <4> QED BY <4>5, <4>7, <4>8, <4>9
    <3> QED BY <3>1, <3>2
  <2>3. ASSUME NEW t \in Nat
        PROVE  Cardinality(SettledDuring(id, t, len)') <= 2 * v - 1
    <3> DEFINE D == SettledDuring(id, t, len)'
               B == SettledBefore(id, t, s1)'
               F == SettledFrom(id, s1)'
    <3>1. D = {dg \in SettledOf(id)' : settled'[id][dg].at >= t /\ settled'[id][dg].at < t + len}
      BY DEF SettledDuring, SettledOf
    <3>2. CASE t + len > now /\ t <= now
      <4>1. D \subseteq B \cup F
        BY <1>11, <2>1, <2>3, <3>1 DEF SettledBefore, SettledFrom
      <4>2. Cardinality(B) <= v - 1 /\ Cardinality(F) = n1
        BY <1>4, <2>1, <2>2, <3>2
      <4>3. /\ IsFiniteSet(B) /\ IsFiniteSet(F) /\ IsFiniteSet(D)
            /\ Cardinality(B) \in Nat
        <5>1. /\ SettledBefore(id, t, s1)' \subseteq Digest
              /\ SettledFrom(id, s1)' \subseteq Digest /\ D \subseteq Digest
          BY <3>1 DEF SettledBefore, SettledFrom, SettledOf
        <5> HIDE DEF D
        <5> QED BY <5>1, ReserveAssumption, FS_Subset, FS_CardinalityType
      <4> HIDE DEF D, B, F
      <4>4. /\ IsFiniteSet(B \cup F)
            /\ Cardinality(B \cup F) = Cardinality(B) + n1 - Cardinality(B \cap F)
            /\ Cardinality(B \cap F) \in Nat
        <5>1. IsFiniteSet(B \cap F)
          BY <4>3, FS_Subset
        <5> QED BY <4>2, <4>3, <5>1, FS_Union, FS_CardinalityType
      <4>5. Cardinality(D) <= Cardinality(B \cup F) /\ Cardinality(D) \in Nat
        BY <4>1, <4>3, <4>4, FS_Subset, FS_CardinalityType
      <4>6. Cardinality(D) <= 2 * v - 1
        BY <1>4, <1>7, <2>1, <4>2, <4>3, <4>4, <4>5
      <4> QED BY <4>6 DEF D
    <3>3. CASE ~(t + len > now /\ t <= now)
      <4>1. D = {dg \in S : settled[id][dg].at >= t /\ settled[id][dg].at < t + len}
        BY <1>4, <1>8, <1>9, <1>10, <3>1, <3>3
      <4>2. D = SettledDuring(id, t, len)
        BY <4>1 DEF SettledDuring, S, SettledOf
      <4>3. CASE S = {}
        <5>1. D = {}
          BY <4>1, <4>3
        <5>2. Cardinality(D) = 0
          BY <5>1, FS_EmptySet
        <5> HIDE DEF D
        <5>3. Cardinality(D) <= 2 * v - 1
          BY <1>4, <2>1, <5>2
        <5> QED BY <5>3 DEF D
      <4>4. CASE S # {}
        BY <1>2, <1>12, <1>13, <4>2, <4>4 DEF Paced
      <4> QED BY <4>3, <4>4
    <3> QED BY <3>2, <3>3
  <2> QED BY <1>6, <1>7, <2>2, <2>3 DEF Paced
<1>14. SettledOf(id)' # {}
  BY <1>9
<1> QED BY <1>1, <1>6, <1>11, <1>12, <1>13, <1>14 DEF PacedSoFar, id

\* A registration fills a blank record, under which nothing settled.
LEMMA RegisterPace ==
  ASSUME TypeInv, VelocityInv, \A t \in Offer : t.windowW <= StartTime,
         NEW p \in Principal, NEW t \in Offer, Register(p, t)
  PROVE  VelocityInv'
<1>1. /\ nextId \in Id /\ now \in Nat /\ now' = now /\ StartTime \in Nat
      /\ settled' = settled /\ windows' = windows
      /\ ~delegations[nextId].accepted
  <2>1. nextId \in Id /\ delegations[nextId].principal = NoAddress
    BY ReserveAssumption DEF TypeInv, ReserveTypeOK, Unregistered, Register, Id
  <2> QED BY <2>1, ReserveAssumption DEF TypeInv, ReserveTypeOK, Unregistered, Register
<1>2. /\ delegations'[nextId] = Issued(p, t)
      /\ \A i \in Id : i # nextId => delegations'[i] = delegations[i]
  BY <1>1 DEF Register, TypeInv, ReserveTypeOK
<1>3. ASSUME NEW i \in Id, i # nextId PROVE PacedSoFar(i)'
  BY <1>1, <1>2, <1>3, SamePace DEF VelocityInv
<1>4. PacedSoFar(nextId) /\ SettledOf(nextId) = {} /\ windows[nextId].start = 0
  BY <1>1 DEF VelocityInv, PacedSoFar
<1>5. Issued(p, t).terms = t /\ t \in Terms /\ t.windowW \in Nat /\ t.windowW <= now
  <2>1. t \in Terms /\ Issued(p, t).terms = t
    BY ReserveAssumption DEF Issued, Blank
  <2>2. t.windowW \in Nat /\ t.windowW <= StartTime /\ now >= StartTime
    BY <2>1 DEF Terms, VelocityInv
  <2> QED BY <1>1, <2>1, <2>2
<1>6. ASSUME NEW i \in Id, i = nextId PROVE PacedSoFar(i)'
  <2>1. SettledOf(i)' = {} /\ windows'[i].start = 0
    BY <1>1, <1>4, <1>6 DEF SettledOf
  <2>2. WindowOf(i)' <= now'
    BY <1>1, <1>2, <1>5, <1>6 DEF WindowOf
  <2> QED BY <2>1, <2>2 DEF PacedSoFar
<1>7. \A i \in Id : PacedSoFar(i)'
  BY <1>3, <1>6
<1> QED BY <1>1, <1>7 DEF VelocityInv

\* Any other step but a payment keeps every delegation's pace.
LEMMA StillPaced ==
  ASSUME TypeInv, VelocityInv, now' \in Nat, now' >= now, UNCHANGED <<settled, windows>>,
         \A i \in Id : /\ delegations'[i].terms = delegations[i].terms
                       /\ delegations[i].accepted => delegations'[i].accepted
  PROVE  VelocityInv'
<1>1. \A i \in Id : PacedSoFar(i)'
  BY SamePace DEF VelocityInv
<1>2. now' >= StartTime
  BY ReserveAssumption DEF VelocityInv, TypeInv, ReserveTypeOK
<1> QED BY <1>1, <1>2 DEF VelocityInv

\* Only a payment touches a window, and time only passes.
LEMMA PaymentsStay ==
  ASSUME TypeInv, [Next]_reserveVars
  PROVE  /\ now' >= now
         /\ \/ UNCHANGED <<settled, windows>>
            \/ \E p \in signed, stored \in BOOLEAN : Settle(p, stored)
<1>0. now \in Nat
  BY SMTT(30) DEF TypeInv, ReserveTypeOK
<1>1. AccountStep => /\ now' = now
                     /\ \/ UNCHANGED <<settled, windows>>
                        \/ \E p \in signed, stored \in BOOLEAN : Settle(p, stored)
  <2>1. ASSUME NEW p \in signed, NEW stored \in BOOLEAN, Settle(p, stored) PROVE now' = now
    BY <2>1 DEF Settle
  <2> QED BY <2>1 DEF AccountStep, DeclareCapacity, Register, Accept, Sign, Claim,
                      StakeAnswerer, UnstakeAnswerer, Freeze, Reclaim, Close, Withdraw, Revoke
<1>2. ArbiterStep => now' = now /\ UNCHANGED <<settled, windows>>
  BY DEF ArbiterStep, Hold, Release, Forfeit, SlashAnswerer, ArbiterCounts, NoCall,
         ArbiterKeeps
<1>3. Tick => now' = now + 1 /\ UNCHANGED <<settled, windows>>
  BY DEF Tick
<1>4. ASSUME NEW c \in Dispute, SetDispute(c)
      PROVE  now' = now /\ UNCHANGED <<settled, windows>>
  BY <1>4 DEF SetDispute
<1>5. UNCHANGED reserveVars => now' = now /\ UNCHANGED <<settled, windows>>
  BY DEF reserveVars
<1> QED BY <1>0, <1>1, <1>2, <1>3, <1>4, <1>5 DEF Next

LEMMA PaceKept ==
  ASSUME \A t \in Offer : t.windowW <= StartTime,
         TypeInv, TypeInv', VelocityInv, [Next]_reserveVars
  PROVE  VelocityInv'
<1>1. now' \in Nat /\ now' >= now
  BY PaymentsStay DEF TypeInv, ReserveTypeOK
<1>2. ASSUME UNCHANGED <<settled, windows>>,
             \A i \in Id : /\ delegations'[i].terms = delegations[i].terms
                           /\ delegations[i].accepted => delegations'[i].accepted
      PROVE  VelocityInv'
  BY <1>1, <1>2, StillPaced
<1>3. ASSUME NEW p \in signed, NEW stored \in BOOLEAN, Settle(p, stored) PROVE VelocityInv'
  <2>1. /\ now' = now /\ p.id \in Id
        /\ \A i \in Id : i # p.id => settled'[i] = settled[i] /\ windows'[i] = windows[i]
    BY <1>3 DEF Settle, TypeInv, ReserveTypeOK, Payload
  <2>2. \A i \in Id : /\ delegations'[i].terms = delegations[i].terms
                      /\ delegations'[i].accepted = delegations[i].accepted
    BY <1>3, SettleRecords DEF SameRecords, SameRecord, SameLife, SameTerms
  <2>3. PacedSoFar(p.id)'
    BY <1>3, SettlePace
  <2>4. ASSUME NEW i \in Id, i # p.id PROVE PacedSoFar(i)'
    BY <1>1, <2>1, <2>2, <2>4, SamePace DEF VelocityInv
  <2>5. \A i \in Id : PacedSoFar(i)'
    BY <2>3, <2>4
  <2> QED BY <2>1, <2>5 DEF VelocityInv
<1>4. ASSUME UNCHANGED <<settled, windows>> PROVE VelocityInv'
  <2>1. ASSUME NEW id \in Id, Accept(id) PROVE VelocityInv'
    <3> DEFINE e == [delegations[id] EXCEPT !.accepted = TRUE]
    <3>1. SameTerms(delegations[id], e) /\ e.accepted
      BY AcceptedUpdate DEF TypeInv, ReserveTypeOK, Delegation
    <3>2. delegations' = [delegations EXCEPT ![id] = e]
      BY <2>1 DEF Accept
    <3> HIDE DEF e
    <3>3. \A i \in Id : /\ delegations'[i].terms = delegations[i].terms
                        /\ delegations[i].accepted => delegations'[i].accepted
      BY <3>1, <3>2 DEF TypeInv, ReserveTypeOK, SameTerms
    <3> QED BY <1>2, <1>4, <3>3
  <2>2. ASSUME NEW id \in Id, NEW ranges \in Revocation, Revoke(id, ranges)
        PROVE  VelocityInv'
    <3> DEFINE e == [delegations[id] EXCEPT !.epoch = delegations[id].epoch + 1]
    <3>1. SameTerms(delegations[id], e) /\ e.accepted = delegations[id].accepted
      BY EpochUpdate DEF TypeInv, ReserveTypeOK
    <3>2. delegations' = [delegations EXCEPT ![id] = e] \/ delegations' = delegations
      BY <2>2 DEF Revoke
    <3> HIDE DEF e
    <3>3. \A i \in Id : /\ delegations'[i].terms = delegations[i].terms
                        /\ delegations[i].accepted => delegations'[i].accepted
      BY <3>1, <3>2 DEF TypeInv, ReserveTypeOK, SameTerms
    <3> QED BY <1>2, <1>4, <3>3
  <2>3. ASSUME NEW a \in Signer, NEW n \in Capacity, DeclareCapacity(a, n)
        PROVE  VelocityInv'
    <3>1. delegations' = delegations
      BY <2>3 DEF DeclareCapacity
    <3> QED BY <1>2, <1>4, <3>1
  <2>4. Kept => VelocityInv'
    BY <1>2, <1>4 DEF Kept, SameGrants, SameGrant, SameTerms
  <2> QED BY <2>1, <2>2, <2>3, <2>4, StepKept, RegisterPace DEF LimitKind
<1> QED BY <1>3, <1>4, PaymentsStay

\* In any windowW seconds fewer than twice velocityN payments settle, if the chain
\* was older at deployment than any window on offer is long: the window a record
\* starts with opens at time zero with no payment, and if it were not over by then
\* all its payments could fall in the same span as all of the next one's (_admit).
THEOREM VelocityHolds ==
  ASSUME \A t \in Offer : t.windowW <= StartTime
  PROVE  Spec => []VelocityBounded
<1>1. Init => VelocityInv
  <2> SUFFICES ASSUME Init PROVE VelocityInv
    OBVIOUS
  <2>1. /\ now = StartTime /\ StartTime \in Nat
        /\ \A id \in Id : /\ WindowOf(id) = 0 /\ SettledOf(id) = {}
                          /\ windows[id].start = 0
    BY ReserveAssumption DEF Init, ReserveInit, Blank, WindowOf, SettledOf
  <2> QED BY <2>1 DEF VelocityInv, PacedSoFar
<1>2. TypeInv /\ TypeInv' /\ VelocityInv /\ [Next]_reserveVars => VelocityInv'
  BY PaceKept
<1>3. Spec => []TypeInv
  BY InitTypes, NextTypes, PTL DEF Spec
<1>4. TypeInv /\ VelocityInv => VelocityBounded
  <2> SUFFICES ASSUME TypeInv, VelocityInv, NEW id \in Id, NEW t \in StartTime..now
               PROVE  Cardinality(SettledDuring(id, t, WindowOf(id)))
                        <= Max({0, 2 * VelocityOf(id) - 1})
    BY DEF VelocityBounded, WindowOf, VelocityOf
  <2> DEFINE c == Cardinality(SettledDuring(id, t, WindowOf(id)))
             m == Max({0, 2 * VelocityOf(id) - 1})
  <2>1. /\ t \in Nat /\ c \in Nat /\ VelocityOf(id) \in Nat /\ WindowOf(id) \in Nat
        /\ \A dg \in SettledOf(id) : settled[id][dg].at \in Nat
        /\ PacedSoFar(id)
    BY PaceTypes, ReserveAssumption DEF VelocityInv
  <2>2. m \in Int /\ m >= 0 /\ m >= 2 * VelocityOf(id) - 1
    <3> DEFINE S == {0, 2 * VelocityOf(id) - 1}
    <3>1. \E x \in S : \A y \in S : x >= y
      BY <2>1
    <3>2. m \in S /\ \A y \in S : m >= y
      BY <3>1 DEF Max
    <3> HIDE DEF m
    <3> QED BY <2>1, <3>2
  <2>3. CASE WindowOf(id) = 0 \/ SettledOf(id) = {}
    <3>1. SettledDuring(id, t, WindowOf(id)) = {}
      BY <2>1, <2>3 DEF SettledDuring, SettledOf
    <3>2. c = 0
      BY <3>1, FS_EmptySet
    <3> HIDE DEF c, m
    <3>3. c <= m
      BY <2>2, <3>2
    <3> QED BY <3>3 DEF c, m
  <2>4. CASE WindowOf(id) > 0 /\ SettledOf(id) # {}
    <3>1. c <= 2 * VelocityOf(id) - 1
      BY <2>1, <2>4 DEF PacedSoFar, Paced
    <3> HIDE DEF c, m
    <3>2. c <= m
      BY <2>1, <2>2, <3>1
    <3> QED BY <3>2 DEF c, m
  <2> QED BY <2>1, <2>3, <2>4
<1> QED BY <1>1, <1>2, <1>3, <1>4, PTL DEF Spec
============================================================================
