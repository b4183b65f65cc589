------------------------- MODULE ReserveTypeProofs -------------------------
(***************************************************************************)
(* Type correctness of Reserve, and the steps that matter to nothing else. *)
(* The type invariant is not inductive alone: accept adds the delegation's *)
(* principal to those its agent serves, and only Unregistered says that a  *)
(* delegation with an agent has a principal.                               *)
(*                                                                         *)
(* Each action has its lemma.  The arbiter's calls leave openCount to the  *)
(* arbiter's own transaction, so their lemmas take its type as a premise   *)
(* and hold under any arbiter.                                             *)
(***************************************************************************)
EXTENDS Reserve, TLAPS

\* An identifier nobody registered still has the blank record's terms, and
\* nothing was ever posted or settled under it.
Unregistered ==
  \A id \in Id :
    /\ id >= nextId => delegations[id].principal = NoAddress
    /\ delegations[id].principal = NoAddress =>
         /\ delegations[id].terms = Blank.terms
         /\ ~delegations[id].accepted

TypeInv == ReserveTypeOK /\ Unregistered

\* An unregistered identifier's record is a delegation record.
LEMMA BlankType == Blank \in Delegation
  BY DEF Blank, Delegation

\* The numbers of a delegation's terms, a blank record's included.
LEMMA TermsType ==
  ASSUME NEW d \in Delegation
  PROVE  /\ d.terms.bond \in Nat /\ d.terms.cap \in Nat
         /\ d.terms.expiry \in Nat /\ d.terms.windowW \in Nat
         /\ d.terms.rangeBase \in Nat /\ d.terms.rangeLen \in Nat
         /\ d.terms.unitSize \in Nat /\ d.terms.velocityN \in Nat
  BY DEF Delegation, Terms, Blank

\* The deployed reserve has its types (constructor).
LEMMA InitTypes == Init => TypeInv
  BY ReserveAssumption, BlankType
     DEF Init, ReserveInit, TypeInv, ReserveTypeOK, Unregistered, Blank, Id

\* What register writes is a delegation record.
LEMMA IssuedType ==
  ASSUME NEW p \in Principal, NEW t \in Terms
  PROVE  Issued(p, t) \in Delegation
<1>1. t.bond \in Nat /\ t.deposit \in Nat
  BY DEF Terms
<1>2. (IF t.funding = "Deposit" THEN t.deposit ELSE 0) \in Nat
  BY <1>1
<1> QED BY <1>1, <1>2, ZenonT(40) DEF Issued, Blank, Delegation

\* What settlement and close read of a delegation is the same in both records.
SameEnd(d, e) ==
  e.closed = d.closed /\ e.frozen = d.frozen /\ e.frozenAt = d.frozenAt

SameTerms(d, e) == e.principal = d.principal /\ e.terms = d.terms

SameLife(d, e) ==
  /\ SameTerms(d, e) /\ SameEnd(d, e)
  /\ e.accepted = d.accepted /\ e.epoch = d.epoch

\* Nor anything the bond depends on.
SameRecord(d, e) == SameLife(d, e) /\ e.bondPaid = d.bondPaid

\* The fields of a delegation record, one by one (struct Delegation).
LEMMA FieldTypes ==
  ASSUME NEW d \in Delegation
  PROVE  /\ d.principal \in Principal \cup {NoAddress}
         /\ d.terms \in Terms \cup {Blank.terms}
         /\ d.holds \in Nat /\ d.deposit \in Nat /\ d.bond \in Nat
         /\ d.stake \in Nat /\ d.epoch \in Nat /\ d.frozenAt \in Nat
         /\ d.frozen \in BOOLEAN /\ d.accepted \in BOOLEAN
         /\ d.closed \in BOOLEAN /\ d.bondPaid \in BOOLEAN
  BY DEF Delegation

\* Writing a hold, a deposit or a stake changes nothing settlement reads.
LEMMA CounterUpdates ==
  ASSUME NEW d \in Delegation, NEW n \in Nat
  PROVE  /\ [d EXCEPT !.holds = n] \in Delegation
         /\ SameRecord(d, [d EXCEPT !.holds = n])
         /\ [d EXCEPT !.deposit = n] \in Delegation
         /\ SameRecord(d, [d EXCEPT !.deposit = n])
         /\ [d EXCEPT !.stake = n] \in Delegation
         /\ SameRecord(d, [d EXCEPT !.stake = n])
  BY DEF Delegation, SameRecord, SameLife, SameTerms, SameEnd

\* What accept writes.
LEMMA AcceptedUpdate ==
  ASSUME NEW d \in Delegation, NEW e, e = [d EXCEPT !.accepted = TRUE]
  PROVE  /\ e \in Delegation /\ SameTerms(d, e) /\ SameEnd(d, e)
         /\ e.accepted /\ e.epoch = d.epoch /\ e.bondPaid = d.bondPaid
  BY DEF Delegation, SameTerms, SameEnd

\* What revoke writes.
LEMMA EpochUpdate ==
  ASSUME NEW d \in Delegation, NEW e, e = [d EXCEPT !.epoch = d.epoch + 1]
  PROVE  /\ e \in Delegation /\ SameTerms(d, e) /\ SameEnd(d, e)
         /\ e.accepted = d.accepted /\ e.epoch = d.epoch + 1 /\ e.bondPaid = d.bondPaid
  BY DEF Delegation, SameTerms, SameEnd

\* What close writes.
LEMMA ClosedUpdate ==
  ASSUME NEW d \in Delegation, NEW e,
         e = [BondSpent(d) EXCEPT !.closed = TRUE, !.deposit = 0]
  PROVE  /\ e \in Delegation /\ SameTerms(d, e)
         /\ e.closed /\ e.bondPaid /\ e.frozen = d.frozen /\ e.frozenAt = d.frozenAt
         /\ e.accepted = d.accepted /\ e.epoch = d.epoch
  BY DEF Delegation, SameTerms, BondSpent

\* Paying the bond zeroes it and says so (claim, _forfeit, close).
LEMMA SpentUpdate ==
  ASSUME NEW d \in Delegation
  PROVE  /\ BondSpent(d) \in Delegation /\ SameLife(d, BondSpent(d))
         /\ BondSpent(d).bondPaid
  BY DEF BondSpent, Delegation, SameLife, SameTerms, SameEnd

\* _freeze keeps the first time a delegation was frozen.
LEMMA FrozeUpdate ==
  ASSUME now \in Nat, NEW d \in Delegation
  PROVE  /\ Froze(d) \in Delegation /\ SameTerms(d, Froze(d))
         /\ Froze(d).frozen
         /\ Froze(d).frozenAt = IF d.frozen THEN d.frozenAt ELSE now
         /\ Froze(d).closed = d.closed
         /\ Froze(d).accepted = d.accepted /\ Froze(d).epoch = d.epoch /\ Froze(d).bondPaid = d.bondPaid
  BY DEF Froze, Delegation, SameTerms

\* The bond held is a number, none before acceptance.
LEMMA HeldType == ASSUME NEW d \in Delegation PROVE HeldBond(d) \in Nat
  BY DEF HeldBond, Delegation

\* A token transfer keeps every balance a number.
LEMMA MovedType ==
  ASSUME NEW from \in Address \cup {Vault}, NEW to \in Address \cup {Vault},
         NEW amount \in Int, wallet \in [Address \cup {Vault} -> Int]
  PROVE  Moved(from, to, amount) \in [Address \cup {Vault} -> Int]
<1> DEFINE A == Address \cup {Vault}
           w == [wallet EXCEPT ![from] = wallet[from] - amount]
<1>1. wallet[from] - amount \in Int
  OBVIOUS
<1>2. w \in [A -> Int]
  BY <1>1
<1>3. w[to] + amount \in Int
  BY <1>2
<1>4. [w EXCEPT ![to] = w[to] + amount] \in [A -> Int]
  BY <1>2, <1>3
<1> QED BY <1>4 DEF Moved

\* A credit to any account, known or not, keeps every credit a number.
LEMMA CreditType ==
  ASSUME NEW a, NEW n \in Nat, credit \in [Address -> Nat]
  PROVE  [credit EXCEPT ![a] = credit[a] + n] \in [Address -> Nat]
<1>1. CASE a \in Address
  BY <1>1
<1>2. CASE a \notin Address
  BY <1>2
<1> QED BY <1>1, <1>2

\* Who a bond went to, after a payment.
LEMMA PaidType ==
  ASSUME NEW who \in {"agent", "principal"}, NEW id \in Id,
         bondTo \in [Id -> {"nobody", "agent", "principal"}]
  PROVE  Paid(who, id) \in [Id -> {"nobody", "agent", "principal"}]
  BY DEF Paid

USE DEF linkVars, paymentVars, revocationVars, capacityVars, etherVars

\* One delegation's record changes, its registration does not.
LEMMA OneRecord ==
  ASSUME TypeInv, NEW id \in Id, NEW e \in Delegation,
         SameTerms(delegations[id], e),
         e.accepted => delegations[id].accepted \/ e.principal # NoAddress,
         delegations' = [delegations EXCEPT ![id] = e],
         nextId' = nextId
  PROVE  delegations' \in [Id -> Delegation] /\ Unregistered'
  BY DEF TypeInv, ReserveTypeOK, Unregistered, SameTerms

\* register fills the next identifier, and only it.
LEMMA RegisterTypes ==
  ASSUME TypeInv, NEW p \in Principal, NEW t \in Offer, Register(p, t)
  PROVE  TypeInv'
<1> DEFINE d == Issued(p, t)
<1>1. d \in Delegation /\ d.principal = p /\ d.deposit \in Nat
  <2>1. t \in Terms
    BY ReserveAssumption
  <2>2. d \in Delegation
    BY <2>1, IssuedType
  <2>3. d.principal = p
    BY DEF Issued, Blank
  <2> QED BY <2>2, <2>3, FieldTypes
<1>2. nextId \in Id /\ nextId' = nextId + 1 /\ nextId' \in 0..MaxDelegations
  BY ReserveAssumption DEF TypeInv, ReserveTypeOK, Register, Id
<1>3. delegations' = [delegations EXCEPT ![nextId] = d]
  BY DEF Register
<1>4. wallet' \in [Address \cup {Vault} -> Int]
  <2>1. p \in Address \cup {Vault} /\ Vault \in Address \cup {Vault}
    BY ReserveAssumption
  <2>2. wallet' = Moved(p, Vault, d.deposit)
    BY DEF Register
  <2>3. wallet \in [Address \cup {Vault} -> Int] /\ d.deposit \in Int
    BY <1>1 DEF TypeInv, ReserveTypeOK
  <2> HIDE DEF d
  <2> QED BY <2>1, <2>2, <2>3, MovedType
<1>5. rootAt' \in [Id -> Seq(Root)]
  <2>1. PICK root \in Root : rootAt' = [rootAt EXCEPT ![nextId] = <<root>>]
    BY DEF Register
  <2> QED BY <1>2, <2>1 DEF TypeInv, ReserveTypeOK
<1>6. delegations' \in [Id -> Delegation]
  BY <1>1, <1>2, <1>3 DEF TypeInv, ReserveTypeOK
<1>7. ReserveTypeOK'
  BY <1>2, <1>4, <1>5, <1>6 DEF Register, TypeInv, ReserveTypeOK
<1>8. Unregistered'
  <2> SUFFICES ASSUME NEW id \in Id
               PROVE  /\ id >= nextId' => delegations'[id].principal = NoAddress
                      /\ delegations'[id].principal = NoAddress =>
                           /\ delegations'[id].terms = Blank.terms
                           /\ ~delegations'[id].accepted
    BY DEF Unregistered
  <2>1. CASE id = nextId
    BY <1>1, <1>2, <1>3, <2>1, ReserveAssumption, SMTT(30) DEF TypeInv, ReserveTypeOK, Id
  <2>2. CASE id # nextId
    BY <1>2, <1>3, <2>2 DEF TypeInv, ReserveTypeOK, Unregistered, Id
  <2> QED BY <2>1, <2>2
<1> QED BY <1>7, <1>8 DEF TypeInv

\* accept counts a principal: a delegation with an agent has one.
LEMMA AcceptTypes ==
  ASSUME TypeInv, NEW id \in Id, Accept(id)
  PROVE  TypeInv'
<1> DEFINE d == delegations[id]
           agent == d.terms.agent
           e == [d EXCEPT !.accepted = TRUE]
<1>1. d \in Delegation
  BY DEF TypeInv, ReserveTypeOK
<1>2. agent \in Address /\ TakenOn(agent, d.principal)
  BY DEF Accept
<1>3. d.principal \in Principal
  <2>1. d.terms # Blank.terms
    BY <1>2, ReserveAssumption DEF Blank
  <2>2. d.principal # NoAddress
    BY <2>1 DEF TypeInv, Unregistered
  <2> QED BY <1>1, <2>2, FieldTypes
<1>4. e \in Delegation /\ SameTerms(d, e)
  BY <1>1, AcceptedUpdate
<1>5. delegations' = [delegations EXCEPT ![id] = e]
  BY DEF Accept
<1>6. delegations' \in [Id -> Delegation] /\ Unregistered'
  <2>1. e.principal # NoAddress
    BY <1>3, <1>4, ReserveAssumption DEF SameTerms
  <2>2. nextId' = nextId
    BY DEF Accept
  <2> HIDE DEF e
  <2> QED BY <1>4, <1>5, <2>1, <2>2, OneRecord
<1>7. servedCount' \in [Address -> Nat] /\ serves' \in [Address -> SUBSET Principal]
  <2>1. CASE d.principal \in serves[agent]
    BY <1>2, <2>1 DEF TakenOn, TypeInv, ReserveTypeOK
  <2>2. CASE d.principal \notin serves[agent]
    <3>1. /\ serves' = [serves EXCEPT ![agent] = serves[agent] \cup {d.principal}]
          /\ servedCount' = [servedCount EXCEPT ![agent] = servedCount[agent] + 1]
      BY <1>2, <2>2 DEF TakenOn
    <3> QED BY <1>2, <1>3, <3>1, SMTT(30) DEF TypeInv, ReserveTypeOK
  <2> QED BY <2>1, <2>2
<1>8. balance' \in Int
  BY <1>1, FieldTypes, SMTT(30) DEF Accept, TypeInv, ReserveTypeOK
<1>9. ReserveTypeOK'
  BY <1>6, <1>7, <1>8 DEF Accept, TypeInv, ReserveTypeOK
<1> QED BY <1>6, <1>9 DEF TypeInv

\* A client signs well-formed payloads (createPaymentPayload).
LEMMA SignTypes ==
  ASSUME TypeInv, NEW id \in Id, NEW signer \in Signer, NEW pay \in Payment,
         Sign(id, signer, pay)
  PROVE  TypeInv'
<1> DEFINE p == [id |-> id, signer |-> signer, epoch |-> delegations[id].epoch,
                 digest |-> pay.digest, payee |-> pay.payee,
                 amount |-> pay.amount, time |-> now + pay.skew,
                 slots |-> pay.slots]
<1>1. pay \in [digest: Digest, payee: Address, amount: Nat, skew: Int, slots: Nat]
  BY ReserveAssumption
<1>2. delegations[id].epoch \in Nat /\ signer \in Address
  BY FieldTypes, ReserveAssumption DEF TypeInv, ReserveTypeOK
<1>3. now + pay.skew \in Nat
  BY <1>1 DEF Sign, TypeInv, ReserveTypeOK
<1>4. p \in Payload
  BY <1>1, <1>2, <1>3 DEF Payload
<1>5. signed' \subseteq Payload
  BY <1>4 DEF Sign, TypeInv, ReserveTypeOK
<1> QED BY <1>5 DEF Sign, TypeInv, ReserveTypeOK, Unregistered

\* settle spends no more than the deposit left.
LEMMA SettleTypes ==
  ASSUME TypeInv, NEW p \in signed, NEW stored \in BOOLEAN, Settle(p, stored)
  PROVE  TypeInv'
<1> DEFINE d == delegations[p.id]
           e == [d EXCEPT !.deposit = d.deposit - p.amount]
           s == [payee |-> p.payee, amount |-> p.amount, time |-> p.time,
                 epoch |-> d.epoch, at |-> now]
<1>1. p \in Payload
  BY DEF TypeInv, ReserveTypeOK
<1>2. /\ p.id \in Id /\ p.digest \in Digest /\ p.payee \in Address
      /\ p.amount \in Nat /\ p.slots \in Nat /\ p.time \in Nat
  BY <1>1 DEF Payload
<1>3. d \in Delegation /\ d.deposit \in Nat /\ d.epoch \in Nat
  BY <1>2, FieldTypes DEF TypeInv, ReserveTypeOK
<1>4. delegations' \in [Id -> Delegation] /\ Unregistered'
  <2>1. nextId' = nextId
    BY DEF Settle
  <2>2. CASE d.terms.funding = "Deposit"
    <3>1. d.deposit >= p.amount /\ delegations' = [delegations EXCEPT ![p.id] = e]
      BY <2>2 DEF Settle, PaidOut
    <3>2. d.deposit - p.amount \in Nat
      BY <1>2, <1>3, <3>1
    <3>3. e \in Delegation /\ SameRecord(d, e)
      BY <1>3, <3>2, CounterUpdates
    <3> HIDE DEF e
    <3> QED BY <1>2, <2>1, <3>1, <3>3, OneRecord DEF SameRecord, SameLife
  <2>3. CASE d.terms.funding # "Deposit"
    <3>1. delegations' = delegations
      BY <2>3 DEF Settle, PaidOut
    <3> QED BY <2>1, <3>1 DEF TypeInv, ReserveTypeOK, Unregistered
  <2> QED BY <2>2, <2>3
<1>5. wallet' \in [Address \cup {Vault} -> Int]
  <2>1. wallet \in [Address \cup {Vault} -> Int] /\ p.amount \in Int
    BY <1>2 DEF TypeInv, ReserveTypeOK
  <2>2. CASE d.terms.funding = "Deposit"
    <3>1. wallet' = Moved(Vault, p.payee, p.amount)
      BY <2>2 DEF Settle, PaidOut
    <3> QED BY <1>2, <2>1, <3>1, MovedType
  <2>3. CASE d.terms.funding # "Deposit"
    <3>1. wallet' = Moved(d.principal, p.payee, p.amount)
      BY <2>3 DEF Settle, PaidOut
    <3>2. d.principal \in Address
      <4>1. d.terms # Blank.terms
        BY <2>3 DEF Blank
      <4>2. d.principal # NoAddress
        BY <1>2, <4>1 DEF TypeInv, Unregistered
      <4> QED BY <1>3, <4>2, FieldTypes, ReserveAssumption
    <3> QED BY <1>2, <2>1, <3>1, <3>2, MovedType
  <2> QED BY <2>2, <2>3
<1>6. windows' \in [Id -> [start: Nat, count: Nat]]
  <2>1. now \in Nat /\ windows[p.id] \in [start: Nat, count: Nat]
    BY <1>2 DEF TypeInv, ReserveTypeOK
  <2>2. WindowAfter(p.id) \in [start: Nat, count: Nat]
    BY <2>1 DEF WindowAfter
  <2> QED BY <1>2, <2>2 DEF Settle, TypeInv, ReserveTypeOK
<1>7. settled' \in [Id -> [Digest -> Settlement \cup {NotSettled}]]
  <2>1. s \in Settlement
    BY <1>2, <1>3 DEF Settlement, TypeInv, ReserveTypeOK
  <2>2. settled' = [settled EXCEPT ![p.id][p.digest] = s]
    BY DEF Settle
  <2> HIDE DEF s
  <2> QED BY <1>2, <2>1, <2>2 DEF TypeInv, ReserveTypeOK
<1>8. transcriptLen' \in [Id -> Nat]
  <2> DEFINE len == transcriptLen[p.id]
             words == (p.slots + 3) \div 4
  <2>1. len \in Nat
    BY <1>2 DEF TypeInv, ReserveTypeOK
  <2>2. words \in Nat
    BY <1>2
  <2>3. transcriptLen' = [transcriptLen EXCEPT ![p.id] =
                            IF stored THEN len + words ELSE len]
    BY DEF Settle
  <2> HIDE DEF len, words
  <2> QED BY <1>2, <2>1, <2>2, <2>3 DEF TypeInv, ReserveTypeOK
<1>9. ReserveTypeOK'
  BY <1>4, <1>5, <1>6, <1>7, <1>8 DEF Settle, TypeInv, ReserveTypeOK
<1> QED BY <1>4, <1>9 DEF TypeInv

\* claim freezes and pays once.
LEMMA ClaimTypes ==
  ASSUME TypeInv, NEW id \in Id, NEW secret \in Secret, Claim(id, secret)
  PROVE  TypeInv'
<1> DEFINE d == delegations[id]
           e == BondSpent(Froze(d))
<1>1. d \in Delegation
  BY DEF TypeInv, ReserveTypeOK
<1>2. /\ e \in Delegation /\ SameTerms(d, e) /\ e.accepted = d.accepted
  BY <1>1, FrozeUpdate, SpentUpdate
     DEF TypeInv, ReserveTypeOK, SameLife, SameTerms
<1>3. delegations' = [delegations EXCEPT ![id] = e] /\ nextId' = nextId
  BY DEF Claim
<1>4. delegations' \in [Id -> Delegation] /\ Unregistered'
  <2> HIDE DEF e
  <2> QED BY <1>2, <1>3, OneRecord
<1>5. credit' \in [Address -> Nat]
  BY <1>1, HeldType, CreditType DEF Claim, TypeInv, ReserveTypeOK
<1>6. bondTo' \in [Id -> {"nobody", "agent", "principal"}]
  BY PaidType DEF Claim, TypeInv, ReserveTypeOK
<1>7. ReserveTypeOK'
  BY <1>4, <1>5, <1>6 DEF Claim, TypeInv, ReserveTypeOK
<1> QED BY <1>4, <1>7 DEF TypeInv

\* stakeAnswerer adds to the stake.
LEMMA StakeTypes ==
  ASSUME TypeInv, NEW id \in Id, NEW value \in Nat, StakeAnswerer(id, value)
  PROVE  TypeInv'
<1> DEFINE d == delegations[id]
           e == [d EXCEPT !.stake = d.stake + value]
<1>1. d \in Delegation /\ d.stake + value \in Nat
  BY FieldTypes, SMTT(30) DEF TypeInv, ReserveTypeOK
<1>2. e \in Delegation /\ SameRecord(d, e)
  BY <1>1, CounterUpdates
<1>3. delegations' = [delegations EXCEPT ![id] = e] /\ nextId' = nextId
  BY DEF StakeAnswerer
<1>4. delegations' \in [Id -> Delegation] /\ Unregistered'
  <2> HIDE DEF e
  <2> QED BY <1>2, <1>3, OneRecord DEF SameRecord, SameLife
<1>5. balance' \in Int
  BY DEF StakeAnswerer, TypeInv, ReserveTypeOK
<1>6. ReserveTypeOK'
  BY <1>4, <1>5 DEF StakeAnswerer, TypeInv, ReserveTypeOK
<1> QED BY <1>4, <1>6 DEF TypeInv

\* unstakeAnswerer empties the stake.
LEMMA UnstakeTypes ==
  ASSUME TypeInv, NEW id \in Id, UnstakeAnswerer(id)
  PROVE  TypeInv'
<1> DEFINE d == delegations[id]
           e == [d EXCEPT !.stake = 0]
<1>1. d \in Delegation /\ d.stake \in Nat
  BY FieldTypes DEF TypeInv, ReserveTypeOK
<1>2. e \in Delegation /\ SameRecord(d, e)
  BY <1>1, CounterUpdates
<1>3. delegations' = [delegations EXCEPT ![id] = e] /\ nextId' = nextId
  BY DEF UnstakeAnswerer
<1>4. delegations' \in [Id -> Delegation] /\ Unregistered'
  <2> HIDE DEF e
  <2> QED BY <1>2, <1>3, OneRecord DEF SameRecord, SameLife
<1>5. balance' \in Int
  BY <1>1 DEF UnstakeAnswerer, TypeInv, ReserveTypeOK
<1>6. ReserveTypeOK'
  BY <1>4, <1>5 DEF UnstakeAnswerer, TypeInv, ReserveTypeOK
<1> QED BY <1>4, <1>6 DEF TypeInv

\* freeze keeps the rest of the record.
LEMMA FreezeTypes ==
  ASSUME TypeInv, NEW id \in Id, NEW sender \in Address, Freeze(id, sender)
  PROVE  TypeInv'
<1> DEFINE d == delegations[id]
<1>1. /\ Froze(d) \in Delegation /\ SameTerms(d, Froze(d))
      /\ Froze(d).accepted = d.accepted
  BY FrozeUpdate DEF TypeInv, ReserveTypeOK
<1>2. delegations' = [delegations EXCEPT ![id] = Froze(d)] /\ nextId' = nextId
  BY DEF Freeze
<1>3. delegations' \in [Id -> Delegation] /\ Unregistered'
  BY <1>1, <1>2, OneRecord
<1>4. ReserveTypeOK'
  BY <1>3 DEF Freeze, TypeInv, ReserveTypeOK
<1> QED BY <1>3, <1>4 DEF TypeInv

\* reclaim empties the deposit.
LEMMA ReclaimTypes ==
  ASSUME TypeInv, NEW id \in Id, Reclaim(id)
  PROVE  TypeInv'
<1> DEFINE d == delegations[id]
           e == [d EXCEPT !.deposit = 0]
<1>1. d \in Delegation /\ d.deposit \in Nat
  BY FieldTypes DEF TypeInv, ReserveTypeOK
<1>2. d.principal \in Address
  BY <1>1, FieldTypes, ReserveAssumption DEF Reclaim
<1>3. e \in Delegation /\ SameRecord(d, e)
  BY <1>1, CounterUpdates
<1>4. delegations' = [delegations EXCEPT ![id] = e] /\ nextId' = nextId
  BY DEF Reclaim
<1>5. delegations' \in [Id -> Delegation] /\ Unregistered'
  <2> HIDE DEF e
  <2> QED BY <1>3, <1>4, OneRecord DEF SameRecord, SameLife
<1>6. wallet' \in [Address \cup {Vault} -> Int]
  <2>1. wallet \in [Address \cup {Vault} -> Int] /\ d.deposit \in Int
    BY <1>1 DEF TypeInv, ReserveTypeOK
  <2>2. wallet' = Moved(Vault, d.principal, d.deposit)
    BY DEF Reclaim
  <2> HIDE DEF d
  <2> QED BY <1>2, <2>1, <2>2, MovedType
<1>7. ReserveTypeOK'
  BY <1>5, <1>6 DEF Reclaim, TypeInv, ReserveTypeOK
<1> QED BY <1>5, <1>7 DEF TypeInv

\* close pays out the bond and the deposit, or closes a blank record.
LEMMA CloseTypes ==
  ASSUME TypeInv, NEW id \in Id, Close(id)
  PROVE  TypeInv'
<1> DEFINE d == delegations[id]
           e == [BondSpent(d) EXCEPT !.closed = TRUE, !.deposit = 0]
           back == IF d.bondPaid THEN 0 ELSE HeldBond(d)
<1>1. d \in Delegation /\ d.deposit \in Nat /\ back \in Nat
  BY FieldTypes, HeldType DEF TypeInv, ReserveTypeOK
<1>2. e \in Delegation /\ SameTerms(d, e) /\ e.accepted = d.accepted
  BY <1>1, ClosedUpdate, ZenonT(40)
<1>3. delegations' = [delegations EXCEPT ![id] = e] /\ nextId' = nextId
  BY DEF Close
<1>4. delegations' \in [Id -> Delegation] /\ Unregistered'
  <2> HIDE DEF e
  <2> QED BY <1>2, <1>3, OneRecord
<1>5. credit' \in [Address -> Nat] /\ wallet' \in [Address \cup {Vault} -> Int]
  <2>1. /\ credit \in [Address -> Nat] /\ d.deposit \in Int
        /\ wallet \in [Address \cup {Vault} -> Int]
    BY <1>1 DEF TypeInv, ReserveTypeOK
  <2>2. CASE d.principal = NoAddress
    BY <2>1, <2>2 DEF Close
  <2>3. CASE d.principal # NoAddress
    <3>1. d.principal \in Address
      BY <1>1, <2>3, FieldTypes, ReserveAssumption
    <3>2. /\ credit' = [credit EXCEPT ![d.terms.agent] = credit[d.terms.agent] + back]
          /\ wallet' = Moved(Vault, d.principal, d.deposit)
      BY <2>3 DEF Close
    <3> HIDE DEF d, back
    <3> QED BY <1>1, <2>1, <3>1, <3>2, MovedType, CreditType
  <2> QED BY <2>2, <2>3
<1>6. closedAt' \in [Id -> Nat]
  BY DEF Close, TypeInv, ReserveTypeOK
<1>7. bondTo' \in [Id -> {"nobody", "agent", "principal"}]
  BY PaidType DEF Close, TypeInv, ReserveTypeOK
<1>8. ReserveTypeOK'
  BY <1>4, <1>5, <1>6, <1>7 DEF Close, TypeInv, ReserveTypeOK
<1> QED BY <1>4, <1>8 DEF TypeInv

\* withdraw empties a credit.
LEMMA WithdrawTypes ==
  ASSUME TypeInv, NEW a \in Address, Withdraw(a)
  PROVE  TypeInv'
<1>1. balance' \in Int /\ credit' \in [Address -> Nat]
  BY DEF Withdraw, TypeInv, ReserveTypeOK
<1> QED BY <1>1 DEF Withdraw, TypeInv, ReserveTypeOK, Unregistered

\* revoke appends its ranges and one root, and starts an epoch.
LEMMA RevokeTypes ==
  ASSUME TypeInv, NEW id \in Id, NEW ranges \in Revocation, Revoke(id, ranges)
  PROVE  TypeInv'
<1> DEFINE d == delegations[id]
           e == [d EXCEPT !.epoch = d.epoch + 1]
<1>1. d \in Delegation
  BY DEF TypeInv, ReserveTypeOK
<1>2. e \in Delegation /\ SameTerms(d, e) /\ e.accepted = d.accepted
  BY <1>1, EpochUpdate
<1>3. delegations' = [delegations EXCEPT ![id] = e] /\ nextId' = nextId
  BY DEF Revoke
<1>4. delegations' \in [Id -> Delegation] /\ Unregistered'
  <2> HIDE DEF e
  <2> QED BY <1>2, <1>3, OneRecord
<1>5. revoked' \in [Id -> Seq(UnitRange)]
  <2>1. ranges \in Seq(UnitRange) /\ revoked[id] \in Seq(UnitRange)
    BY ReserveAssumption DEF TypeInv, ReserveTypeOK
  <2>2. revoked[id] \o ranges \in Seq(UnitRange)
    BY <2>1
  <2> QED BY <2>2 DEF Revoke, TypeInv, ReserveTypeOK
<1>6. rootAt' \in [Id -> Seq(Root)]
  <2>1. PICK root \in Root : rootAt' = [rootAt EXCEPT ![id] = Append(rootAt[id], root)]
    BY DEF Revoke
  <2>2. Append(rootAt[id], root) \in Seq(Root)
    BY DEF TypeInv, ReserveTypeOK
  <2> QED BY <2>1, <2>2 DEF TypeInv, ReserveTypeOK
<1>7. ReserveTypeOK'
  BY <1>4, <1>5, <1>6 DEF Revoke, TypeInv, ReserveTypeOK
<1> QED BY <1>4, <1>7 DEF TypeInv

\* Every call of an account's keeps the types.
LEMMA AccountTypes == ASSUME TypeInv, AccountStep PROVE TypeInv'
<1>1. ASSUME NEW a \in Signer, NEW n \in Capacity, DeclareCapacity(a, n)
      PROVE  TypeInv'
  <2>1. capacityOf' \in [Address -> Nat]
    BY <1>1, ReserveAssumption DEF DeclareCapacity, TypeInv, ReserveTypeOK
  <2> QED BY <1>1, <2>1 DEF DeclareCapacity, TypeInv, ReserveTypeOK, Unregistered
<1>2. ASSUME NEW id \in Id, NEW v \in StakeValue, StakeAnswerer(id, v)
      PROVE  TypeInv'
  <2>1. v \in Nat
    BY ReserveAssumption
  <2> QED BY <1>2, <2>1, StakeTypes
<1> QED BY <1>1, <1>2, RegisterTypes, AcceptTypes, SignTypes, SettleTypes,
           ClaimTypes, UnstakeTypes, FreezeTypes, ReclaimTypes, CloseTypes,
           WithdrawTypes, RevokeTypes DEF AccountStep

\* The arbiter's calls, whatever its own transaction does to what it answers.
LEMMA NoCallTypes ==
  ASSUME TypeInv, openCount' \in [Id -> Nat], NoCall
  PROVE  TypeInv'
  BY DEF NoCall, ArbiterKeeps, TypeInv, ReserveTypeOK, Unregistered

\* hold counts one more.
LEMMA HoldTypes ==
  ASSUME TypeInv, openCount' \in [Id -> Nat], NEW id \in Id, Hold(id)
  PROVE  TypeInv'
<1> DEFINE d == delegations[id]
           e == [d EXCEPT !.holds = d.holds + 1]
<1>1. d \in Delegation /\ d.holds + 1 \in Nat
  BY FieldTypes, SMTT(30) DEF TypeInv, ReserveTypeOK
<1>2. e \in Delegation /\ SameRecord(d, e)
  BY <1>1, CounterUpdates
<1>3. delegations' = [delegations EXCEPT ![id] = e] /\ nextId' = nextId
  BY DEF Hold, ArbiterKeeps
<1>4. delegations' \in [Id -> Delegation] /\ Unregistered'
  <2> HIDE DEF e
  <2> QED BY <1>2, <1>3, OneRecord DEF SameRecord, SameLife
<1>5. ReserveTypeOK'
  BY <1>4 DEF Hold, ArbiterKeeps, TypeInv, ReserveTypeOK
<1> QED BY <1>4, <1>5 DEF TypeInv

\* release never counts below zero, for every delegation of a transaction.
LEMMA ReleaseTypes ==
  ASSUME TypeInv, openCount' \in [Id -> Nat], NEW n \in [Id -> Nat], Release(n)
  PROVE  TypeInv' /\ \A id \in Id : SameRecord(delegations[id], delegations'[id])
<1>1. \A id \in Id : /\ delegations'[id] \in Delegation
                     /\ SameRecord(delegations[id], delegations'[id])
  <2> TAKE id \in Id
  <2> DEFINE d == delegations[id]
  <2>1. d \in Delegation /\ d.holds - n[id] \in Nat
    BY FieldTypes, SMTT(30) DEF Release, TypeInv, ReserveTypeOK
  <2>2. delegations'[id] = [d EXCEPT !.holds = d.holds - n[id]]
    BY DEF Release
  <2> HIDE DEF d
  <2>3. delegations'[id] \in Delegation /\ SameRecord(d, delegations'[id])
    BY <2>1, <2>2, CounterUpdates
  <2> QED BY <2>3 DEF d
<1>2. delegations' \in [Id -> Delegation]
  BY <1>1 DEF Release
<1>3. Unregistered'
  BY <1>1 DEF Release, ArbiterKeeps, TypeInv, Unregistered, SameRecord, SameLife, SameTerms
<1>4. ReserveTypeOK'
  BY <1>2 DEF Release, ArbiterKeeps, TypeInv, ReserveTypeOK
<1> QED BY <1>1, <1>3, <1>4 DEF TypeInv

\* forfeit freezes, pays once and releases what the expiry held.
LEMMA ForfeitTypes ==
  ASSUME TypeInv, openCount' \in [Id -> Nat], NEW id \in Id,
         NEW unheld \in Nat, Forfeit(id, unheld)
  PROVE  TypeInv'
<1> DEFINE d == delegations[id]
           f == BondSpent(Froze(d))
           e == [f EXCEPT !.holds = f.holds - unheld]
<1>1. d \in Delegation
  BY DEF TypeInv, ReserveTypeOK
<1>2. /\ f \in Delegation /\ SameTerms(d, f) /\ f.accepted = d.accepted
      /\ f.holds = d.holds
  <2>1. Froze(d).holds = d.holds /\ f.holds = Froze(d).holds
    BY <1>1 DEF Froze, BondSpent, Delegation
  <2> QED BY <1>1, <2>1, FrozeUpdate, SpentUpdate
             DEF TypeInv, ReserveTypeOK, SameLife, SameTerms
<1>3. f.holds - unheld \in Nat
  BY <1>1, <1>2, FieldTypes DEF Forfeit, Forfeitable
<1>4. delegations' = [delegations EXCEPT ![id] = e] /\ nextId' = nextId
  BY DEF Forfeit, ArbiterKeeps
<1>5. e \in Delegation /\ SameTerms(d, e) /\ e.accepted = d.accepted
  <2> HIDE DEF f
  <2>1. e \in Delegation /\ SameRecord(f, e)
    BY <1>2, <1>3, CounterUpdates
  <2> QED BY <1>2, <2>1 DEF SameRecord, SameLife, SameTerms
<1>6. delegations' \in [Id -> Delegation] /\ Unregistered'
  <2> HIDE DEF e
  <2> QED BY <1>4, <1>5, OneRecord
<1>7. credit' \in [Address -> Nat]
  <2>1. (IF d.bondPaid THEN 0 ELSE HeldBond(d)) \in Nat
    BY <1>1, HeldType
  <2> QED BY <2>1, CreditType DEF Forfeit, TypeInv, ReserveTypeOK
<1>8. bondTo' \in [Id -> {"nobody", "agent", "principal"}]
  BY PaidType DEF Forfeit, TypeInv, ReserveTypeOK
<1>9. ReserveTypeOK'
  BY <1>6, <1>7, <1>8 DEF Forfeit, ArbiterKeeps, TypeInv, ReserveTypeOK
<1> QED BY <1>6, <1>9 DEF TypeInv

\* slashAnswerer pays the bounty and burns the rest of the stake.
LEMMA SlashTypes ==
  ASSUME TypeInv, openCount' \in [Id -> Nat], NEW id \in Id,
         NEW caller \in Address, NEW bounty \in Nat,
         SlashAnswerer(id, caller, bounty)
  PROVE  TypeInv'
<1> DEFINE d == delegations[id]
           e == [d EXCEPT !.stake = 0]
           paid == IF bounty < d.stake THEN bounty ELSE d.stake
<1>1. d \in Delegation /\ d.stake \in Nat
  BY FieldTypes DEF TypeInv, ReserveTypeOK
<1>2. paid \in Nat /\ d.stake - paid \in Nat
  BY <1>1
<1>3. e \in Delegation /\ SameRecord(d, e)
  BY <1>1, CounterUpdates
<1>4. delegations' = [delegations EXCEPT ![id] = e] /\ nextId' = nextId
  BY DEF SlashAnswerer, ArbiterKeeps
<1>5. delegations' \in [Id -> Delegation] /\ Unregistered'
  <2> HIDE DEF e
  <2> QED BY <1>3, <1>4, OneRecord DEF SameRecord, SameLife
<1>6. burnt' \in Nat /\ credit' \in [Address -> Nat]
  <2>1. /\ burnt' = burnt + (d.stake - paid)
        /\ credit' = [credit EXCEPT ![caller] = credit[caller] + paid]
    BY DEF SlashAnswerer
  <2>2. burnt \in Nat /\ credit \in [Address -> Nat]
    BY DEF TypeInv, ReserveTypeOK
  <2>3. burnt' \in Nat
    BY <1>2, <2>1, <2>2
  <2> HIDE DEF paid
  <2>4. credit' \in [Address -> Nat]
    BY <1>2, <2>1, <2>2, CreditType
  <2> QED BY <2>3, <2>4
<1>7. ReserveTypeOK'
  BY <1>5, <1>6 DEF SlashAnswerer, ArbiterKeeps, TypeInv, ReserveTypeOK
<1> QED BY <1>5, <1>7 DEF TypeInv

\* Every call of a lone arbiter's keeps the types.
LEMMA ArbiterTypes == ASSUME TypeInv, ArbiterStep PROVE TypeInv'
<1>1. ASSUME openCount' = openCount PROVE openCount' \in [Id -> Nat]
  BY <1>1 DEF TypeInv, ReserveTypeOK
<1>2. ASSUME NEW id \in Id, Hold(id), UNCHANGED openCount
      PROVE  TypeInv'
  BY <1>1, <1>2, HoldTypes
<1>3. ASSUME NEW id \in Id, UNCHANGED openCount,
             Release([i \in Id |-> IF i = id THEN 1 ELSE 0])
      PROVE  TypeInv'
  <2>1. [i \in Id |-> IF i = id THEN 1 ELSE 0] \in [Id -> Nat]
    OBVIOUS
  <2> QED BY <1>1, <1>3, <2>1, ReleaseTypes
<1>4. ASSUME NEW id \in Id, NEW unheld \in 0..1, Forfeit(id, unheld),
             UNCHANGED openCount
      PROVE  TypeInv'
  BY <1>1, <1>4, ForfeitTypes
<1>5. ASSUME NEW id \in Id, NEW caller \in Address, NEW bounty \in Bounty,
             SlashAnswerer(id, caller, bounty), UNCHANGED openCount
      PROVE  TypeInv'
  <2>1. bounty \in Nat
    BY ReserveAssumption
  <2> QED BY <1>1, <1>5, <2>1, SlashTypes
<1>6. ASSUME NEW id \in Id, NEW n \in 0..MaxHolds, ArbiterCounts(id, n)
      PROVE  TypeInv'
  <2>1. openCount' \in [Id -> Nat] /\ NoCall
    BY <1>6, ReserveAssumption DEF ArbiterCounts, TypeInv, ReserveTypeOK
  <2> QED BY <2>1, NoCallTypes
<1> QED BY <1>2, <1>3, <1>4, <1>5, <1>6 DEF ArbiterStep

\* Every step keeps the types.
LEMMA NextTypes == ASSUME TypeInv, [Next]_reserveVars PROVE TypeInv'
<1>1. CASE Tick
  BY <1>1 DEF Tick, TypeInv, ReserveTypeOK, Unregistered
<1>2. ASSUME NEW c \in Dispute, SetDispute(c) PROVE TypeInv'
  BY <1>2 DEF SetDispute, TypeInv, ReserveTypeOK, Unregistered
<1>3. CASE UNCHANGED reserveVars
  BY <1>3 DEF reserveVars, TypeInv, ReserveTypeOK, Unregistered
<1> QED BY <1>1, <1>2, <1>3, AccountTypes, ArbiterTypes DEF Next

\* Every variable keeps the type the contract declares for it, so no hold, stake,
\* deposit or credit ever goes below zero.
THEOREM TypeCorrect == Spec => []ReserveTypeOK
<1>1. Init => TypeInv
  BY InitTypes
<1>2. TypeInv /\ [Next]_reserveVars => TypeInv'
  BY NextTypes
<1>3. TypeInv => ReserveTypeOK
  BY DEF TypeInv
<1> QED BY <1>1, <1>2, <1>3, PTL DEF Spec

----------------------------------------------------------------------------
(* Steps that settle nothing, end nothing and pay no bond.                 *)

SameRecords == \A id \in Id : SameRecord(delegations[id], delegations'[id])

Quiet ==
  /\ SameRecords
  /\ signed \subseteq signed'
  /\ UNCHANGED <<now, closedAt, dispute, settled, bondTo>>

\* The same records are the same record by record.
LEMMA UnchangedRecords == delegations' = delegations => SameRecords
  BY DEF SameRecords, SameRecord, SameLife, SameTerms, SameEnd

\* One record changes, in its balances or its holds only.
LEMMA OthersQuiet ==
  ASSUME NEW id \in Id,
         SameRecord(delegations[id], delegations'[id]),
         \A j \in Id : j # id => delegations'[j] = delegations[j],
         UNCHANGED <<now, closedAt, dispute, settled, signed, bondTo>>
  PROVE  Quiet
<1>1. SameRecords
  BY DEF SameRecords, SameRecord, SameLife, SameTerms, SameEnd
<1> QED BY <1>1 DEF Quiet

\* stakeAnswerer is quiet.
LEMMA StakeQuiet ==
  ASSUME TypeInv, NEW id \in Id, NEW value \in Nat, StakeAnswerer(id, value)
  PROVE  Quiet
<1> DEFINE d == delegations[id]
           e == [d EXCEPT !.stake = d.stake + value]
<1>1. delegations'[id] = e
  BY DEF StakeAnswerer, TypeInv, ReserveTypeOK
<1>2. d \in Delegation /\ d.stake + value \in Nat
  BY FieldTypes DEF TypeInv, ReserveTypeOK
<1>3. SameRecord(d, e)
  BY <1>2, CounterUpdates
<1>4. \A j \in Id : j # id => delegations'[j] = delegations[j]
  BY DEF StakeAnswerer, TypeInv, ReserveTypeOK
<1>5. UNCHANGED <<now, closedAt, dispute, settled, signed, bondTo>>
  BY DEF StakeAnswerer
<1> HIDE DEF e
<1> QED BY <1>1, <1>3, <1>4, <1>5, OthersQuiet

\* unstakeAnswerer is quiet.
LEMMA UnstakeQuiet ==
  ASSUME TypeInv, NEW id \in Id, UnstakeAnswerer(id)
  PROVE  Quiet
<1> DEFINE d == delegations[id]
           e == [d EXCEPT !.stake = 0]
<1>1. delegations'[id] = e
  BY DEF UnstakeAnswerer, TypeInv, ReserveTypeOK
<1>2. d \in Delegation
  BY FieldTypes DEF TypeInv, ReserveTypeOK
<1>3. SameRecord(d, e)
  BY <1>2, CounterUpdates
<1>4. \A j \in Id : j # id => delegations'[j] = delegations[j]
  BY DEF UnstakeAnswerer, TypeInv, ReserveTypeOK
<1>5. UNCHANGED <<now, closedAt, dispute, settled, signed, bondTo>>
  BY DEF UnstakeAnswerer
<1> HIDE DEF e
<1> QED BY <1>1, <1>3, <1>4, <1>5, OthersQuiet

\* reclaim is quiet: a deposit is not what a settlement's life depends on.
LEMMA ReclaimQuiet ==
  ASSUME TypeInv, NEW id \in Id, Reclaim(id)
  PROVE  Quiet
<1> DEFINE d == delegations[id]
           e == [d EXCEPT !.deposit = 0]
<1>1. delegations'[id] = e
  BY DEF Reclaim, TypeInv, ReserveTypeOK
<1>2. d \in Delegation
  BY FieldTypes DEF TypeInv, ReserveTypeOK
<1>3. SameRecord(d, e)
  BY <1>2, CounterUpdates
<1>4. \A j \in Id : j # id => delegations'[j] = delegations[j]
  BY DEF Reclaim, TypeInv, ReserveTypeOK
<1>5. UNCHANGED <<now, closedAt, dispute, settled, signed, bondTo>>
  BY DEF Reclaim
<1> HIDE DEF e
<1> QED BY <1>1, <1>3, <1>4, <1>5, OthersQuiet

\* hold is quiet.
LEMMA HoldQuiet ==
  ASSUME TypeInv, NEW id \in Id, Hold(id)
  PROVE  Quiet
<1> DEFINE d == delegations[id]
           e == [d EXCEPT !.holds = d.holds + 1]
<1>1. delegations'[id] = e
  BY DEF Hold, ArbiterKeeps, TypeInv, ReserveTypeOK
<1>2. d \in Delegation /\ d.holds + 1 \in Nat
  BY FieldTypes DEF TypeInv, ReserveTypeOK
<1>3. SameRecord(d, e)
  BY <1>2, CounterUpdates
<1>4. \A j \in Id : j # id => delegations'[j] = delegations[j]
  BY DEF Hold, ArbiterKeeps, TypeInv, ReserveTypeOK
<1>5. UNCHANGED <<now, closedAt, dispute, settled, signed, bondTo>>
  BY DEF Hold, ArbiterKeeps
<1> HIDE DEF e
<1> QED BY <1>1, <1>3, <1>4, <1>5, OthersQuiet

\* slashAnswerer is quiet.
LEMMA SlashQuiet ==
  ASSUME TypeInv, NEW id \in Id, NEW caller \in Address, NEW bounty \in Nat,
         SlashAnswerer(id, caller, bounty)
  PROVE  Quiet
<1> DEFINE d == delegations[id]
           e == [d EXCEPT !.stake = 0]
<1>1. delegations'[id] = e
  BY DEF SlashAnswerer, ArbiterKeeps, TypeInv, ReserveTypeOK
<1>2. d \in Delegation
  BY FieldTypes DEF TypeInv, ReserveTypeOK
<1>3. SameRecord(d, e)
  BY <1>2, CounterUpdates
<1>4. \A j \in Id : j # id => delegations'[j] = delegations[j]
  BY DEF SlashAnswerer, ArbiterKeeps, TypeInv, ReserveTypeOK
<1>5. UNCHANGED <<now, closedAt, dispute, settled, signed, bondTo>>
  BY DEF SlashAnswerer, ArbiterKeeps
<1> HIDE DEF e
<1> QED BY <1>1, <1>3, <1>4, <1>5, OthersQuiet

\* An arbiter's transaction that calls nothing is quiet.
LEMMA NoCallQuiet == ASSUME NoCall PROVE Quiet
  BY UnchangedRecords DEF NoCall, ArbiterKeeps, Quiet

\* release is quiet.
LEMMA ReleaseQuiet ==
  ASSUME TypeInv, openCount' \in [Id -> Nat], NEW n \in [Id -> Nat], Release(n)
  PROVE  Quiet
  BY ReleaseTypes DEF Release, ArbiterKeeps, Quiet, SameRecords

\* settle changes a delegation's deposit and nothing else of its record.
LEMMA SettleRecords ==
  ASSUME TypeInv, NEW p \in signed, NEW stored \in BOOLEAN, Settle(p, stored)
  PROVE  SameRecords
<1> DEFINE d == delegations[p.id]
<1>1. p.id \in Id /\ p.amount \in Nat
  BY DEF TypeInv, ReserveTypeOK, Payload
<1>2. d \in Delegation /\ d.deposit \in Nat
  BY <1>1, FieldTypes DEF TypeInv, ReserveTypeOK
<1>3. CASE d.terms.funding = "Deposit"
  <2> DEFINE e == [d EXCEPT !.deposit = d.deposit - p.amount]
  <2>1. d.deposit >= p.amount /\ delegations' = [delegations EXCEPT ![p.id] = e]
    BY <1>3 DEF Settle, PaidOut
  <2>2. d.deposit - p.amount \in Nat
    BY <1>1, <1>2, <2>1
  <2>3. SameRecord(d, e)
    BY <1>2, <2>2, CounterUpdates
  <2> HIDE DEF e
  <2> QED BY <1>1, <2>1, <2>3 DEF TypeInv, ReserveTypeOK, SameRecords, SameRecord,
                                  SameLife, SameTerms, SameEnd
<1>4. CASE d.terms.funding # "Deposit"
  BY <1>4, UnchangedRecords DEF Settle, PaidOut
<1> QED BY <1>3, <1>4

\* Every other call of an account's.
AccountKind ==
  \/ \E p \in Principal, t \in Offer : Register(p, t)
  \/ \E id \in Id : Accept(id)
  \/ \E p \in signed, stored \in BOOLEAN : Settle(p, stored)
  \/ \E id \in Id, secret \in Secret : Claim(id, secret)
  \/ \E id \in Id, sender \in Address : Freeze(id, sender)
  \/ \E id \in Id : Close(id)
  \/ \E id \in Id, ranges \in Revocation : Revoke(id, ranges)

\* An account's call is quiet or one of these seven.
LEMMA AccountKinds == ASSUME TypeInv, AccountStep PROVE Quiet \/ AccountKind
<1>1. ASSUME NEW a \in Signer, NEW n \in Capacity, DeclareCapacity(a, n)
      PROVE  Quiet
  BY <1>1, UnchangedRecords DEF DeclareCapacity, Quiet
<1>2. ASSUME NEW id \in Id, NEW signer \in Signer, NEW pay \in Payment,
             Sign(id, signer, pay)
      PROVE  Quiet
  <2>1. /\ signed \subseteq signed' /\ delegations' = delegations
        /\ UNCHANGED <<now, closedAt, dispute, settled, bondTo>>
    BY <1>2 DEF Sign
  <2> QED BY <2>1, UnchangedRecords DEF Quiet
<1>3. ASSUME NEW id \in Id, NEW v \in StakeValue, StakeAnswerer(id, v)
      PROVE  Quiet
  BY <1>3, StakeQuiet, ReserveAssumption
<1>4. ASSUME NEW a \in Address, Withdraw(a)
      PROVE  Quiet
  BY <1>4, UnchangedRecords DEF Withdraw, Quiet
<1> QED BY <1>1, <1>2, <1>3, <1>4, UnstakeQuiet, ReclaimQuiet
        DEF AccountStep, AccountKind

\* A lone arbiter's call is quiet or a forfeit.
LEMMA ArbiterKinds ==
  ASSUME TypeInv, ArbiterStep
  PROVE  Quiet \/ \E id \in Id, unheld \in 0..1 : Forfeit(id, unheld)
<1>1. ASSUME NEW id \in Id, UNCHANGED openCount,
             Release([i \in Id |-> IF i = id THEN 1 ELSE 0])
      PROVE  Quiet
  <2>1. /\ [i \in Id |-> IF i = id THEN 1 ELSE 0] \in [Id -> Nat]
        /\ openCount' \in [Id -> Nat]
    BY <1>1 DEF TypeInv, ReserveTypeOK
  <2> QED BY <1>1, <2>1, ReleaseQuiet
<1>2. ASSUME NEW id \in Id, NEW caller \in Address, NEW bounty \in Bounty,
             SlashAnswerer(id, caller, bounty)
      PROVE  Quiet
  BY <1>2, SlashQuiet, ReserveAssumption
<1>3. ASSUME NEW id \in Id, NEW n \in 0..MaxHolds, ArbiterCounts(id, n)
      PROVE  Quiet
  BY <1>3, NoCallQuiet DEF ArbiterCounts
<1> QED BY <1>1, <1>2, <1>3, HoldQuiet DEF ArbiterStep
============================================================================
