--------------------------- MODULE DisputeProofs ---------------------------
(***************************************************************************)
(* What holds of the reserve and its arbiter together, for any number of   *)
(* delegations, settlements, batches and accounts.                         *)
(*                                                                         *)
(* First, that every transaction of the arbiter's is for the reserve one   *)
(* of the calls ReserveProofs and ReserveMoneyProofs already allow for, so *)
(* that what they prove of the reserve under any arbiter holds under this  *)
(* one (ReserveInv).  Then the arbiter's own state, an invariant at a      *)
(* time, each proved by what it takes from those before it.                *)
(***************************************************************************)
EXTENDS ValidityDispute, ReserveProofs, ReserveMoneyProofs

USE DEF linkVars, paymentVars, revocationVars, capacityVars, etherVars,
        queueVars, batchVars, postingVars, moneyVars, disputeVars

----------------------------------------------------------------------------
(* Counting.                                                               *)

\* Challenges are finitely many.
LEMMA KeyFinite == IsFiniteSet(Key)
  BY IdFinite, DigestFinite, FS_Product DEF Key

\* A set that gains or loses at most one member.
LEMMA OneMember ==
  ASSUME NEW U, IsFiniteSet(U), NEW S, S \subseteq U, NEW T, T \subseteq U, NEW x \in U,
         \A y \in U : y # x => (y \in T <=> y \in S)
  PROVE  /\ Cardinality(S) \in Nat /\ Cardinality(T) \in Nat
         /\ Cardinality(T) = Cardinality(S) + (IF x \in T THEN 1 ELSE 0)
                                            - (IF x \in S THEN 1 ELSE 0)
<1>1. IsFiniteSet(S) /\ IsFiniteSet(T)
  BY FS_Subset
<1>2. Cardinality(S) \in Nat /\ Cardinality(T) \in Nat
  BY <1>1, FS_CardinalityType
<1>3. CASE x \in S /\ x \in T
  <2>1. S = T
    BY <1>3
  <2> QED BY <1>2, <1>3, <2>1
<1>4. CASE x \notin S /\ x \notin T
  <2>1. S = T
    BY <1>4
  <2> QED BY <1>2, <1>4, <2>1
<1>5. CASE x \in S /\ x \notin T
  <2>1. T = S \ {x}
    BY <1>5
  <2>2. Cardinality(T) = Cardinality(S) - 1
    BY <1>1, <1>5, <2>1, FS_RemoveElement
  <2> QED BY <1>2, <1>5, <2>2
<1>6. CASE x \notin S /\ x \in T
  <2>1. T = S \cup {x}
    BY <1>6
  <2>2. Cardinality(T) = Cardinality(S) + 1
    BY <1>1, <1>6, <2>1, FS_AddElement
  <2> QED BY <1>2, <1>6, <2>2
<1> QED BY <1>3, <1>4, <1>5, <1>6

\* The digests of one delegation's keys.
Row(id, keys) == {dg \in Digest : <<id, dg>> \in keys}

\* There are as many of them as of the keys.
LEMMA RowCount ==
  ASSUME NEW id \in Id, NEW keys, keys \subseteq Key
  PROVE  /\ Cardinality(Under(id, keys)) = Cardinality(Row(id, keys))
         /\ Cardinality(Under(id, keys)) \in Nat
         /\ IsFiniteSet(Row(id, keys))
<1> DEFINE R == Row(id, keys)
           f == [dg \in R |-> <<id, dg>>]
<1>1. IsFiniteSet(R) /\ Cardinality(R) \in Nat
  BY DigestFinite, FS_Subset, FS_CardinalityType DEF Row
<1>2. f \in Bijection(R, Under(id, keys))
  <2>1. f \in [R -> Under(id, keys)]
    BY DEF Row, Under
  <2>2. \A a, b \in R : f[a] = f[b] => a = b
    OBVIOUS
  <2>3. \A k \in Under(id, keys) : \E a \in R : f[a] = k
    <3> SUFFICES ASSUME NEW k \in Under(id, keys) PROVE \E a \in R : f[a] = k
      OBVIOUS
    <3>1. k \in keys /\ k[1] = id /\ k \in Id \X Digest
      BY DEF Under, Key
    <3>2. k = <<id, k[2]>> /\ k[2] \in Digest
      BY <3>1
    <3>3. k[2] \in R
      BY <3>1, <3>2 DEF Row
    <3> QED BY <3>2, <3>3
  <2> HIDE DEF f, R
  <2>4. f \in Injection(R, Under(id, keys))
    BY <2>1, <2>2 DEF Injection, IsInjective
  <2>5. f \in Surjection(R, Under(id, keys))
    BY <2>1, <2>3 DEF Surjection
  <2> QED BY <2>4, <2>5 DEF Bijection
<1>3. Cardinality(Under(id, keys)) = Cardinality(R)
  BY <1>1, <1>2, FS_Bijection DEF ExistsBijection
<1> QED BY <1>1, <1>3

----------------------------------------------------------------------------
(* The reserve under this arbiter.                                         *)

\* What a transaction of the arbiter's may do to the reserve.
Call ==
  \/ NoCall
  \/ \E id \in Id : Hold(id)
  \/ \E n \in [Id -> Nat] : Release(n)
  \/ \E id \in Id, unheld \in Nat : Forfeit(id, unheld)
  \/ \E id \in Id, caller \in Address, bounty \in Nat :
       SlashAnswerer(id, caller, bounty)

\* One challenge fewer, where the contract counted at least one.
LEMMA OneLessType ==
  ASSUME TypeInv, NEW id \in Id, OneLess(id)
  PROVE  openCount' \in [Id -> Nat]
<1>1. openCount[id] - 1 \in Nat
  BY DEF OneLess, TypeInv, ReserveTypeOK
<1> QED BY <1>1 DEF OneLess, TypeInv, ReserveTypeOK

\* open counts one challenge more, and holds for a principal's.
LEMMA OpenCalls ==
  ASSUME TypeInv, NEW id \in Id, NEW dg \in Digest, NEW sender, NEW bond,
         NEW deposit, NEW excess, Open(sender, id, dg, bond, deposit, excess)
  PROVE  Call /\ openCount' \in [Id -> Nat]
<1>1. openCount' = [openCount EXCEPT ![id] = openCount[id] + 1]
  BY DEF Open
<1>2. openCount' \in [Id -> Nat]
  BY <1>1 DEF TypeInv, ReserveTypeOK
<1>3. Hold(id) \/ NoCall
  BY DEF Open
<1> QED BY <1>2, <1>3 DEF Call

\* join holds for a challenge that is open.
LEMMA JoinCalls ==
  ASSUME TypeInv, NEW id \in Id, NEW dg \in Digest, NEW sender,
         NEW deposit, NEW excess, Join(sender, id, dg, deposit, excess)
  PROVE  Call /\ openCount' = openCount
<1>1. JoinOpen(id, dg) => Hold(id) /\ openCount' = openCount
  BY DEF JoinOpen
<1>2. JoinAnswered(id, dg) => NoCall /\ openCount' = openCount
  BY DEF JoinAnswered
<1> QED BY <1>1, <1>2 DEF Join, Call

\* cancel releases what the principal's open challenge held.
LEMMA CancelCalls ==
  ASSUME TypeInv, NEW id \in Id, NEW dg \in Digest, NEW sender, Cancel(sender, id, dg)
  PROVE  Call /\ openCount' \in [Id -> Nat]
<1>1. CASE CancelOpen(id, dg)
  <2>1. Only(id) \in [Id -> Nat] /\ Release(Only(id))
    BY <1>1 DEF Only, CancelOpen
  <2>2. OneLess(id) \/ openCount' = openCount
    BY <1>1 DEF CancelOpen
  <2>3. openCount' \in [Id -> Nat]
    BY <2>2, OneLessType DEF TypeInv, ReserveTypeOK
  <2> QED BY <2>1, <2>3 DEF Call
<1>2. CASE CancelAnswered(id, dg)
  BY <1>2 DEF CancelAnswered, Call, TypeInv, ReserveTypeOK
<1> QED BY <1>1, <1>2 DEF Cancel

\* Due challenges are keys, and requests among them too.
LEMMA DueKeys ==
  ASSUME NEW keys \in SUBSET Due
  PROVE  keys \subseteq Key /\ Requested(keys) \subseteq keys /\ IsFiniteSet(keys)
<1>1. keys \subseteq Key /\ Requested(keys) \subseteq keys
  BY DEF Due, Requested
<1> QED BY <1>1, KeyFinite, FS_Subset

\* _settle releases and uncounts every challenge the transaction answers.
LEMMA AnswerCalls ==
  ASSUME TypeInv, NEW keys \in SUBSET Due, NEW items \in [keys -> Provable], Answer(items)
  PROVE  Call /\ openCount' \in [Id -> Nat]
<1>1. DOMAIN items = keys /\ keys \subseteq Key /\ Requested(keys) \subseteq Key
  BY DueKeys
<1>2. \A id \in Id : /\ Cardinality(Under(id, keys)) \in Nat
                     /\ Cardinality(Under(id, Requested(keys))) \in Nat
  BY <1>1, RowCount
<1>3. /\ \A id \in Id : openCount[id] >= Cardinality(Under(id, keys))
      /\ openCount' = [id \in Id |-> openCount[id] - Cardinality(Under(id, keys))]
      /\ Release([id \in Id |-> Cardinality(Under(id, Requested(keys)))])
  BY <1>1 DEF Answer
<1>4. \A id \in Id : openCount[id] - Cardinality(Under(id, keys)) \in Nat
  BY <1>2, <1>3 DEF TypeInv, ReserveTypeOK
<1>5. [id \in Id |-> Cardinality(Under(id, Requested(keys)))] \in [Id -> Nat]
  BY <1>2
<1> QED BY <1>3, <1>4, <1>5 DEF Call

\* expire forfeits, and releases what a principal's challenge held.
LEMMA ExpireCalls ==
  ASSUME TypeInv, NEW id \in Id, NEW dg \in Digest, Expire(id, dg)
  PROVE  Call /\ openCount' \in [Id -> Nat]
<1>1. \E unheld \in Nat : Forfeit(id, unheld)
  <2>1. (IF challenges[<<id, dg>>].byPrincipal THEN 1 ELSE 0) \in Nat
    OBVIOUS
  <2> QED BY <2>1 DEF Expire
<1>2. openCount' \in [Id -> Nat]
  BY OneLessType DEF Expire
<1> QED BY <1>1, <1>2 DEF Call

\* What the arbiter does outside challenges calls nothing, or slashes.
LEMMA DutyCalls ==
  ASSUME TypeInv, DisputeStep
  PROVE  \/ \E sender \in Challenger, id \in Id, dg \in Digest, bond \in BondPrice,
              deposit \in DepositPrice, excess \in Excess :
              Open(sender, id, dg, bond, deposit, excess)
         \/ \E sender \in Challenger, id \in Id, dg \in Digest,
              deposit \in DepositPrice, excess \in Excess :
              Join(sender, id, dg, deposit, excess)
         \/ \E sender \in Challenger, id \in Id, dg \in Digest : Cancel(sender, id, dg)
         \/ \E keys \in SUBSET Due : \E items \in [keys -> Provable] : Answer(items)
         \/ \E id \in Id, dg \in Digest : Expire(id, dg)
         \/ Call /\ openCount' = openCount
<1>1. ASSUME NEW id \in Id, NEW dg \in Digest, NEW r \in receipts, NEW caller \in Address,
             Slash(id, dg, r, caller)
      PROVE  Call /\ openCount' = openCount
  <2>1. ProvingBond \in Nat
    BY DisputeAssumption
  <2> QED BY <1>1, <2>1 DEF Slash, Call
<1>2. ASSUME NEW id \in Id, NEW value \in Donation, FundPosting(id, value)
      PROVE  Call /\ openCount' = openCount
  BY <1>2 DEF FundPosting, Call
<1>3. ASSUME NEW id \in Id, ReturnPosting(id) PROVE Call /\ openCount' = openCount
  BY <1>3 DEF ReturnPosting, Call
<1>4. ASSUME NEW id \in Id, NEW root \in BatchRoot, NEW sealed \in SealedRoot,
             NEW hash \in ProofHash, SignReceipt(id, root, sealed, hash)
      PROVE  Call /\ openCount' = openCount
  BY <1>4 DEF SignReceipt, Call
<1>5. ASSUME NEW sender \in Poster, NEW id \in Id, NEW hash \in ProofHash,
             NEW chunk \in {"next", "wrong", "last"}, NEW fee \in Fee,
             PostProof(sender, id, hash, chunk, fee)
      PROVE  Call /\ openCount' = openCount
  BY <1>5 DEF PostProof, Call
<1>6. ASSUME NEW sender \in Poster, NEW id \in Id, NEW dg \in Digest, NEW r \in receipts,
             NEW fee \in Fee, BindPosting(sender, id, dg, r, fee)
      PROVE  Call /\ openCount' = openCount
  BY <1>6 DEF BindPosting, Call
<1>7. ASSUME NEW sender \in Poster, NEW id \in Id, NEW dg \in Digest, NEW r \in receipts,
             NEW fee \in Fee, Deliver(sender, id, dg, r, fee)
      PROVE  Call /\ openCount' = openCount
  BY <1>7 DEF Deliver, Call
<1>8. ASSUME NEW a \in Address, WithdrawCredit(a)
      PROVE  Call /\ openCount' = openCount
  BY <1>8 DEF WithdrawCredit, Call
<1> QED BY <1>1, <1>2, <1>3, <1>4, <1>5, <1>6, <1>7, <1>8 DEF DisputeStep

\* Every transaction of the arbiter's is a call of the reserve's, and keeps the
\* number of open challenges a number.
LEMMA StepCalls ==
  ASSUME TypeInv, DisputeStep
  PROVE  Call /\ openCount' \in [Id -> Nat]
BY DutyCalls, OpenCalls, JoinCalls, CancelCalls, AnswerCalls, ExpireCalls
   DEF TypeInv, ReserveTypeOK

\* What the reserve keeps on its own account under any arbiter.
ReserveInv == TypeInv /\ LiveInv /\ BondInv /\ EtherInv /\ TokenInv

\* A call is quiet, or a forfeit.
LEMMA CallKinds ==
  ASSUME TypeInv, Call, openCount' \in [Id -> Nat]
  PROVE  Quiet \/ \E id \in Id, unheld \in Nat : Forfeit(id, unheld)
  BY NoCallQuiet, HoldQuiet, ReleaseQuiet, SlashQuiet DEF Call

\* The types of the reserve's state, after any call.
LEMMA CallTypes ==
  ASSUME TypeInv, Call, openCount' \in [Id -> Nat]
  PROVE  TypeInv'
  BY NoCallTypes, HoldTypes, ReleaseTypes, ForfeitTypes, SlashTypes DEF Call

\* Settlements stay live and closes late, after any call.
LEMMA CallLive ==
  ASSUME TypeInv, LiveInv, Call, openCount' \in [Id -> Nat]
  PROVE  LiveInv'
  BY CallKinds, QuietLive, ForfeitLive

\* Bonds stay in escrow, after any call.
LEMMA CallBond ==
  ASSUME TypeInv, BondInv, Call, openCount' \in [Id -> Nat]
  PROVE  BondInv' /\ EscrowStep
<1>1. CASE Quiet
  BY <1>1, SameRecordsBond DEF Quiet
<1> QED BY <1>1, CallKinds, ForfeitBond

\* The reserve's ether stays accounted for, after any call.
LEMMA CallEther ==
  ASSUME TypeInv, EtherInv, Call
  PROVE  EtherInv'
  BY HoldsEther, ForfeitEther, SlashEther DEF Call

\* So do its tokens.
LEMMA CallTokens ==
  ASSUME TypeInv, TokenInv, Call
  PROVE  TokenInv'
  BY CalledTokens DEF Call

\* What Tick and a step that changes nothing leave alone.
LEMMA ClockMoney ==
  ASSUME TypeInv, EtherInv, TokenInv, Tick \/ UNCHANGED reserveVars
  PROVE  EtherInv' /\ TokenInv'
<1>1. delegations' = delegations /\ UNCHANGED etherVars /\ UNCHANGED <<wallet, settled>>
  BY DEF Tick, reserveVars
<1>2. EtherInv'
  BY <1>1, EtherStill DEF SameOwed, SameTerms
<1>3. TokenInv'
  BY <1>1, TokenStill
<1> QED BY <1>2, <1>3

\* Every step of the composition keeps it all.
LEMMA ReserveKept ==
  ASSUME ReserveInv, [ComposedNext]_vars
  PROVE  ReserveInv' /\ EscrowStep
<1>1. CASE Tick \/ AccountStep \/ UNCHANGED reserveVars
  <2>1. [Next]_reserveVars
    BY <1>1 DEF Next
  <2>2. TypeInv' /\ LiveInv' /\ BondInv' /\ EscrowStep
    BY <2>1, NextTypes, NextLive, NextBond DEF ReserveInv
  <2>3. EtherInv' /\ TokenInv'
    BY <1>1, <2>2, ClockMoney, AccountEther, AccountTokens DEF ReserveInv
  <2> QED BY <2>2, <2>3 DEF ReserveInv
<1>2. CASE DisputeStep
  <2>1. Call /\ openCount' \in [Id -> Nat]
    BY <1>2, StepCalls DEF ReserveInv
  <2> QED BY <2>1, CallTypes, CallLive, CallBond, CallEther, CallTokens DEF ReserveInv
<1>3. UNCHANGED vars => UNCHANGED reserveVars
  BY DEF vars
<1> QED BY <1>1, <1>2, <1>3 DEF ComposedNext

\* The deployment names an arbiter whose window the close delay covers.
LEMMA InitReserve == ComposedInit => ReserveInv /\ Escrow!EscrowInit
<1> SUFFICES ASSUME ComposedInit PROVE ReserveInv /\ Escrow!EscrowInit
  OBVIOUS
<1>1. ReserveInit(This)
  BY DEF ComposedInit
<1>2. TypeInv
  BY <1>1, ReserveAssumption, DisputeAssumption, BlankType
     DEF ReserveInit, TypeInv, ReserveTypeOK, Unregistered, Blank, Id
<1>3. This.acceptWindow + MaxAge <= CloseDelay
  BY DisputeAssumption DEF This
<1>4. LiveInv
  BY <1>1, <1>3 DEF ReserveInit, LiveInv, ClosedLate, Blank
<1>5. \A id \in Id : /\ ~delegations[id].accepted /\ ~delegations[id].bondPaid
                     /\ delegations[id].principal = NoAddress
                     /\ bondTo[id] = "nobody"
  BY <1>1 DEF ReserveInit, Blank
<1>6. BondInv /\ Escrow!EscrowInit
  BY <1>5 DEF BondInv, Escrow!EscrowInit, EscrowOf, Ended
<1>7. EtherInv /\ TokenInv
  BY <1>1, InitEther, InitTokens
<1> QED BY <1>2, <1>4, <1>6, <1>7 DEF ReserveInv

\* Under its real arbiter the reserve keeps what it promises under any: what
\* settles was signed and live, no bond goes back while a settlement may be
\* challenged, and its ether and its tokens are accounted for, through every
\* challenge, answer, expiry and slash (ValidityDispute.sol's calls of hold,
\* release, forfeit and slashAnswerer).
THEOREM ReserveSoundUnderDispute ==
  ComposedSpec => [](/\ ReserveTypeOK /\ SettledLive /\ BondOutlivesChallenges
                     /\ EtherBacked /\ TokensAccounted)
<1>1. ReserveInv /\ [ComposedNext]_vars => ReserveInv'
  BY ReserveKept
<1>2. ReserveInv => /\ ReserveTypeOK /\ SettledLive /\ BondOutlivesChallenges
                    /\ EtherBacked /\ TokensAccounted
  BY LiveOutlives DEF ReserveInv, TypeInv, EtherInv, TokenInv
<1> QED BY <1>1, <1>2, InitReserve, PTL DEF ComposedSpec

\* Under its real arbiter too, every bond behaves as the abstract escrow's.
THEOREM BondEscrowedUnderDispute == ComposedSpec => BondRefinesEscrow
<1>1. ReserveInv /\ [ComposedNext]_vars => ReserveInv' /\ EscrowStep
  BY ReserveKept
<1> QED BY <1>1, InitReserve, PTL
        DEF ComposedSpec, BondRefinesEscrow, Escrow!EscrowSpec, EscrowStep, Escrowed, EndedIds

----------------------------------------------------------------------------
(* The types of the arbiter's state, and whom its challenges are about.    *)

\* Every challenge is of a settlement the reserve recorded, and an answered one
\* of a settlement its answer's root holds.
Challenged(k) ==
  LET c == challenges[k] IN
  /\ c.status # "None" => Recorded(k[1], k[2])
  /\ c.status \in {"Answered", "Delivered"}
       => c.root \in BatchRoot /\ k \in Batched[c.root]

ChallengeInv == DisputeTypeOK /\ \A k \in Key : Challenged(k)

\* The constants' numbers.
LEMMA Constants ==
  /\ AnswerWindow \in Nat /\ DeliveryWait \in Nat /\ AcceptWindow \in Nat
  /\ Slot \in Nat /\ Slot > 0
  /\ NoAddress \in Account /\ Address \subseteq Account /\ Principal \subseteq Account
  /\ Challenger \subseteq Address /\ Poster \subseteq Address
BY DisputeAssumption, ReserveAssumption DEF Account

\* A settled delegation is registered and accepted, by an agent it names.
LEMMA RecordedFacts ==
  ASSUME ReserveInv, NEW id \in Id, NEW dg \in Digest, Recorded(id, dg)
  PROVE  /\ delegations[id].accepted
         /\ PrincipalOf(id) \in Principal /\ AgentOf(id) \in Address
         /\ id < nextId
<1>1. delegations[id].accepted
  BY DEF Recorded, ReserveInv, LiveInv, LiveRecord
<1>2. PrincipalOf(id) # NoAddress
  BY <1>1 DEF ReserveInv, TypeInv, Unregistered, PrincipalOf
<1>3. PrincipalOf(id) \in Principal
  BY <1>2, FieldTypes DEF ReserveInv, TypeInv, ReserveTypeOK, PrincipalOf
<1>4. AgentOf(id) \in Address
  BY <1>1 DEF ReserveInv, EtherInv, Sound, AgentOf
<1>5. id < nextId
  BY <1>2, ReserveAssumption DEF ReserveInv, TypeInv, ReserveTypeOK, Unregistered, PrincipalOf, Id
<1> QED BY <1>1, <1>3, <1>4, <1>5

\* Numbers of a challenge.
LEMMA ChallengeFields ==
  ASSUME DisputeTypeOK, NEW k \in Key
  PROVE  LET c == challenges[k] IN
         /\ c \in Challenge
         /\ c.challenger \in Account /\ c.deadline \in Nat /\ c.status \in Status
         /\ c.byPrincipal \in BOOLEAN /\ c.root \in BatchRoot \cup {NoRoot}
         /\ c.bond \in Nat /\ c.joined \in BOOLEAN /\ c.openedAt \in Nat
<1>1. challenges[k] \in Challenge
  BY DEF DisputeTypeOK
<1> QED BY <1>1 DEF Challenge

\* One challenge is written.
LEMMA OneChallenge ==
  ASSUME DisputeTypeOK, NEW id \in Id, NEW dg \in Digest, NEW c \in Challenge,
         challenges' = [challenges EXCEPT ![<<id, dg>>] = c]
  PROVE  /\ challenges' \in [Key -> Challenge]
         /\ challenges'[<<id, dg>>] = c
         /\ \A k \in Key : k # <<id, dg>> => challenges'[k] = challenges[k]
BY DEF DisputeTypeOK, Key

\* The other challenges stay what they were about.
LEMMA OneChallenged ==
  ASSUME \A k \in Key : Challenged(k), NEW x, settled' = settled,
         \A k \in Key : k # x => challenges'[k] = challenges[k],
         Challenged(x)'
  PROVE  (\A k \in Key : Challenged(k))'
BY DEF Challenged, Recorded

----------------------------------------------------------------------------
(* Deadlines.                                                              *)

\* The remainder of a division, and the multiples below and above.
LEMMA Remainder ==
  ASSUME NEW x \in Nat, NEW p \in Nat, p > 0
  PROVE  /\ x % p \in Nat /\ x % p < p
         /\ x \div p \in Nat /\ x = p * (x \div p) + (x % p)
OBVIOUS

\* A number less than the divisor is what is left over a multiple.
LEMMA OverMultiple ==
  ASSUME NEW n \in Nat, NEW p \in Nat, NEW r \in Nat, r < p
  PROVE  (p * n + r) % p = r
OBVIOUS

\* How _next rounds up to a phase r of a period p.
InPhase(x, p, r) ==
  IF x % p <= r THEN x + (r - (x % p)) ELSE x + (p - (x % p)) + r

\* The least number of the phase not before x is less than a period later.
LEMMA NextInPhase ==
  ASSUME NEW x \in Nat, NEW p \in Nat, p > 0, NEW r \in Nat, r < p,
         NEW d, d = InPhase(x, p, r)
  PROVE  /\ d \in Nat /\ d >= x /\ d < x + p /\ d % p = r
         /\ x % p = r => d = x
<1> DEFINE m == x % p
           q == x \div p
<1>1. m \in Nat /\ m < p /\ q \in Nat /\ x = p * q + m
  BY Remainder
<1>2. p * (q + 1) = p * q + p /\ p * q \in Nat /\ p * (q + 1) \in Nat
  BY <1>1
<1> HIDE DEF m, q
<1>3. CASE m <= r
  <2>1. d = x + (r - m)
    BY <1>3 DEF m, InPhase
  <2>2. d = p * q + r
    BY <1>1, <1>2, <2>1
  <2>3. d % p = r
    BY <1>1, <2>2, OverMultiple
  <2> QED BY <1>1, <1>3, <2>1, <2>3 DEF m
<1>4. CASE m > r
  <2>1. d = x + (p - m) + r
    BY <1>1, <1>4 DEF m, InPhase
  <2>2. PICK n \in Nat : n = q + 1
    BY <1>1
  <2>3. d % p = r
    <3>1. d = p * n + r
      BY <1>1, <1>2, <2>1, <2>2
    <3> QED BY <3>1, OverMultiple
  <2> QED BY <1>1, <1>4, <2>1, <2>3 DEF m
<1> QED BY <1>1, <1>3, <1>4

\* The end of the queue a challenge enters.
LastOf(agent, owner, principal) ==
  IF principal THEN lastPrincipalDeadline[agent][owner] ELSE lastPublicDeadline[agent]

\* The earliest the next deadline of a queue may be.
Earliest(last) ==
  IF last # 0 THEN Latest(now + AnswerWindow, last + 2 * Slot) ELSE now + AnswerWindow

\* _next gives the first moment of the queue's own phase from then on.
LEMMA DeadlineFacts ==
  ASSUME TypeInv, DisputeTypeOK, NEW agent \in Address, NEW owner \in Principal,
         NEW principal \in BOOLEAN,
         NEW d, d = NextDeadline(agent, owner, principal),
         NEW last, last = LastOf(agent, owner, principal)
  PROVE  /\ last \in Nat /\ d \in Nat
         /\ d >= now + AnswerWindow
         /\ last # 0 => d >= last + 2 * Slot
         /\ d >= Earliest(last) /\ d < Earliest(last) + 2 * Slot
         /\ d % (2 * Slot) = Phase(principal)
         /\ Earliest(last) % (2 * Slot) = Phase(principal) => d = Earliest(last)
<1> DEFINE x == Earliest(last)
           p == 2 * Slot
           r == Phase(principal)
<1>1. last \in Nat /\ now \in Nat
  BY DEF LastOf, DisputeTypeOK, TypeInv, ReserveTypeOK
<1>2. x \in Nat /\ x >= now + AnswerWindow /\ (last # 0 => x >= last + p)
  BY <1>1, Constants DEF Earliest, Latest
<1>3. p \in Nat /\ p > 0 /\ r \in Nat /\ r < p
  BY Constants DEF Phase
<1>4. d = InPhase(x, p, r)
  BY DEF NextDeadline, LastOf, Earliest, InPhase
<1> HIDE DEF x, p, r
<1>5. d \in Nat /\ d >= x /\ d < x + p /\ d % p = r /\ (x % p = r => d = x)
  BY <1>2, <1>3, <1>4, NextInPhase
<1>6. now + AnswerWindow \in Nat /\ last + p \in Nat
  BY <1>1, <1>3, Constants
<1> QED BY <1>1, <1>2, <1>3, <1>5, <1>6 DEF x, p, r

----------------------------------------------------------------------------
(* The types, transaction by transaction.                                  *)

\* A sum of natural numbers is one.
LEMMA SumNat ==
  ASSUME NEW f, NEW S, IsFiniteSet(S), \A x \in S : f[x] \in Nat
  PROVE  SumFunctionOnSet(f, S) \in Nat
<1> DEFINE bad == {V \in SUBSET S : SumFunctionOnSet(f, V) \notin Nat}
<1>1. CASE bad = {}
  BY <1>1
<1>2. CASE bad # {}
  <2>1. PICK V \in bad : \A W \in bad : W \subseteq V => W = V
    <3>1. bad \subseteq SUBSET S
      OBVIOUS
    <3> HIDE DEF bad
    <3> QED BY <1>2, <3>1, SmallestSubset
  <2>2. V \subseteq S /\ IsFiniteSet(V) /\ SumFunctionOnSet(f, V) \notin Nat
    BY <2>1, FS_Subset
  <2>3. V # {}
    BY <2>2, SumEmpty
  <2>4. PICK x \in V : TRUE
    BY <2>3
  <2>5. SumFunctionOnSet(f, V \ {x}) \in Nat
    BY <2>1, <2>2, <2>4
  <2>6. SumFunctionOnSet(f, V) = f[x] + SumFunctionOnSet(f, V \ {x})
    BY <2>2, <2>4, SumTake
  <2> QED BY <2>2, <2>4, <2>5, <2>6
<1> QED BY <1>1, <1>2

\* What is missing from a pool is a number.
LEMMA TopUpType ==
  ASSUME DisputeTypeOK, NEW id \in Id, NEW deposit \in Nat
  PROVE  TopUp(id, deposit) \in Nat
<1>1. postingPool[id] \in Nat
  BY DEF DisputeTypeOK
<1> QED BY <1>1 DEF TopUp

\* The queue's end moves to the deadline it gave.
LEMMA EnterTypes ==
  ASSUME DisputeTypeOK, NEW agent \in Address, NEW owner \in Principal,
         NEW principal \in BOOLEAN, NEW d \in Nat, Enter(agent, owner, principal, d)
  PROVE  /\ lastPrincipalDeadline' \in [Address -> [Principal -> Nat]]
         /\ lastPublicDeadline' \in [Address -> Nat]
<1>1. CASE principal
  <2>1. /\ lastPrincipalDeadline' = [lastPrincipalDeadline EXCEPT ![agent][owner] = d]
        /\ lastPublicDeadline' = lastPublicDeadline
    BY <1>1 DEF Enter
  <2> QED BY <2>1 DEF DisputeTypeOK
<1>2. CASE ~principal
  <2>1. /\ lastPublicDeadline' = [lastPublicDeadline EXCEPT ![agent] = d]
        /\ lastPrincipalDeadline' = lastPrincipalDeadline
    BY <1>2 DEF Enter
  <2> QED BY <2>1 DEF DisputeTypeOK
<1> QED BY <1>1, <1>2

\* A principal asked once more.
LEMMA CountedType ==
  ASSUME DisputeTypeOK, NEW agent \in Address, NEW owner \in Principal
  PROVE  Counted(agent, owner) \in [Address -> [Principal -> Nat]]
<1>1. asked[agent][owner] + 1 \in Nat
  BY DEF DisputeTypeOK
<1> QED BY <1>1 DEF DisputeTypeOK, Counted

\* A credit to any account of a number keeps every credit a number.
LEMMA DisputeCreditType ==
  ASSUME DisputeTypeOK, NEW a \in Account, NEW n \in Nat,
         disputeCredit' = [disputeCredit EXCEPT ![a] = disputeCredit[a] + n]
  PROVE  disputeCredit' \in [Account -> Nat]
<1>1. disputeCredit[a] + n \in Nat
  BY DEF DisputeTypeOK
<1> QED BY <1>1 DEF DisputeTypeOK

\* The record open writes.
Opened(sender, id, bond, d) ==
  [challenger |-> sender, deadline |-> d, status |-> "Open",
   byPrincipal |-> Asks(sender, id), root |-> NoRoot, bond |-> bond,
   joined |-> FALSE, openedAt |-> now]

\* It is a challenge.
LEMMA OpenedType ==
  ASSUME now \in Nat, NEW sender \in Address, NEW id, NEW bond \in Nat, NEW d \in Nat
  PROVE  Opened(sender, id, bond, d) \in Challenge
<1>1. Asks(sender, id) \in BOOLEAN
  BY DEF Asks, MayStop
<1> QED BY <1>1, Constants DEF Opened, Challenge, Status

\* The deadline open gives.
DeadlineOf(sender, id) == NextDeadline(AgentOf(id), PrincipalOf(id), Asks(sender, id))

\* open records a challenge of a settlement.
LEMMA OpenTypes ==
  ASSUME ReserveInv, ChallengeInv, NEW sender \in Challenger, NEW id \in Id,
         NEW dg \in Digest, NEW bond \in BondPrice, NEW deposit \in DepositPrice,
         NEW excess \in Excess, Open(sender, id, dg, bond, deposit, excess)
  PROVE  ChallengeInv'
<1> DEFINE agent == AgentOf(id)
           owner == PrincipalOf(id)
           principal == Asks(sender, id)
           d == DeadlineOf(sender, id)
           c == Opened(sender, id, bond, d)
           extra == excess + (IF principal THEN TopUp(id, deposit) ELSE 0)
<1>1. /\ sender \in Address /\ bond \in Nat /\ deposit \in Nat /\ excess \in Nat
      /\ principal \in BOOLEAN /\ now \in Nat
  BY DisputeAssumption DEF Asks, MayStop, ReserveInv, TypeInv, ReserveTypeOK
<1>2. agent \in Address /\ owner \in Principal
  BY RecordedFacts DEF Open
<1>3. d \in Nat
  BY <1>1, <1>2, DeadlineFacts DEF DeadlineOf, ReserveInv, ChallengeInv
<1>4. c \in Challenge /\ c.status = "Open"
  BY <1>1, <1>3, OpenedType DEF Opened
<1>5. extra \in Nat
  BY <1>1, TopUpType DEF ChallengeInv
<1>6. challenges' = [challenges EXCEPT ![<<id, dg>>] = c]
  BY DEF Open, Opened, DeadlineOf
<1>7. Enter(agent, owner, principal, d)
  BY DEF Open, DeadlineOf
<1>8. asked' = IF principal THEN Counted(agent, owner) ELSE asked
  BY DEF Open
<1>9. IF principal
        THEN postingPool' = [postingPool EXCEPT ![id] = postingPool[id] + extra]
             /\ disputeCredit' = disputeCredit
        ELSE disputeCredit' = [disputeCredit EXCEPT ![sender] = disputeCredit[sender] + extra]
             /\ postingPool' = postingPool
  BY DEF Open
<1>10. disputeBalance' = disputeBalance + bond + extra
  BY DEF Open
<1>11. Recorded(id, dg) /\ settled' = settled
  BY DEF Open, Hold, NoCall, ArbiterKeeps
<1> HIDE DEF agent, owner, principal, d, c, extra
<1>12. /\ challenges' \in [Key -> Challenge] /\ challenges'[<<id, dg>>] = c
       /\ \A k \in Key : k # <<id, dg>> => challenges'[k] = challenges[k]
  BY <1>4, <1>6, OneChallenge, ZenonT(40) DEF ChallengeInv
<1>13. /\ lastPrincipalDeadline' \in [Address -> [Principal -> Nat]]
       /\ lastPublicDeadline' \in [Address -> Nat]
  BY <1>1, <1>2, <1>3, <1>7, EnterTypes DEF ChallengeInv
<1>14. asked' \in [Address -> [Principal -> Nat]]
  BY <1>2, <1>8, CountedType DEF ChallengeInv, DisputeTypeOK
<1>15. postingPool' \in [Id -> Nat] /\ disputeCredit' \in [Account -> Nat]
  <2>1. postingPool[id] + extra \in Nat
    BY <1>5 DEF ChallengeInv, DisputeTypeOK
  <2> QED BY <1>1, <1>5, <1>9, <2>1, DisputeCreditType, Constants, ZenonT(40) DEF ChallengeInv, DisputeTypeOK
<1>16. disputeBalance' \in Int
  BY <1>1, <1>5, <1>10 DEF ChallengeInv, DisputeTypeOK
<1>17. DisputeTypeOK'
  BY <1>12, <1>13, <1>14, <1>15, <1>16 DEF Open, ChallengeInv, DisputeTypeOK
<1>18. Challenged(<<id, dg>>)'
  BY <1>4, <1>11, <1>12 DEF Challenged, Recorded
<1>19. (\A k \in Key : Challenged(k))'
  BY <1>11, <1>12, <1>18, OneChallenged DEF ChallengeInv
<1> QED BY <1>17, <1>19 DEF ChallengeInv

\* A challenge's deadline, status and asker may change, and stays a challenge.
LEMMA ChallengeUpdates ==
  ASSUME NEW c \in Challenge, NEW due \in Nat
  PROVE  /\ [c EXCEPT !.byPrincipal = TRUE, !.joined = TRUE, !.deadline = due] \in Challenge
         /\ [c EXCEPT !.byPrincipal = FALSE, !.joined = FALSE] \in Challenge
         /\ \A s \in Status :
              /\ [c EXCEPT !.status = s] \in Challenge
              /\ [c EXCEPT !.byPrincipal = FALSE, !.joined = FALSE, !.status = s] \in Challenge
BY DEF Challenge

\* The number of requests due under one batch changes.
LEMMA DueType ==
  ASSUME DisputeTypeOK, NEW id \in Id, NEW root \in BatchRoot, NEW n \in Nat,
         batches' = [batches EXCEPT ![id][root].due = n]
  PROVE  batches' \in [Id -> [BatchRoot -> BatchPosting]]
<1>1. batches[id][root] \in BatchPosting /\ batches[id] \in [BatchRoot -> BatchPosting]
  BY DEF DisputeTypeOK
<1>2. [batches[id][root] EXCEPT !.due = n] \in BatchPosting
  BY <1>1 DEF BatchPosting
<1>3. [batches[id] EXCEPT ![root] = [batches[id][root] EXCEPT !.due = n]]
        \in [BatchRoot -> BatchPosting]
  BY <1>1, <1>2
<1> QED BY <1>3 DEF DisputeTypeOK

\* The record join writes.
Joined(c, due) == [c EXCEPT !.byPrincipal = TRUE, !.joined = TRUE, !.deadline = due]

\* What join writes, whichever of the two it joins.
LEMMA JoinWrites ==
  ASSUME ReserveInv, ChallengeInv, NEW sender \in Challenger, NEW id \in Id,
         NEW dg \in Digest, NEW deposit \in DepositPrice, NEW excess \in Excess,
         Join(sender, id, dg, deposit, excess)
  PROVE  \E due \in Nat :
           /\ challenges' =
                [challenges EXCEPT ![<<id, dg>>] = Joined(challenges[<<id, dg>>], due)]
           /\ lastPrincipalDeadline' \in [Address -> [Principal -> Nat]]
           /\ lastPublicDeadline' \in [Address -> Nat]
           /\ dutyUntil' \in [Id -> Nat]
           /\ batches' \in [Id -> [BatchRoot -> BatchPosting]]
           /\ settled' = settled
<1> DEFINE c == challenges[<<id, dg>>]
           agent == AgentOf(id)
           owner == PrincipalOf(id)
           d == NextDeadline(agent, owner, TRUE)
<1>1. agent \in Address /\ owner \in Principal
  BY RecordedFacts DEF Join
<1>2. d \in Nat
  BY <1>1, DeadlineFacts DEF ReserveInv, ChallengeInv
<1>3. <<id, dg>> \in Key /\ now \in Nat
  BY DEF Key, ReserveInv, TypeInv, ReserveTypeOK
<1>4. c \in Challenge /\ c.deadline \in Nat
  BY <1>3, ChallengeFields DEF ChallengeInv
<1>5. CASE JoinOpen(id, dg)
  <2> DEFINE due == IF d < c.deadline THEN d ELSE c.deadline
  <2>1. due \in Nat
    BY <1>2, <1>4
  <2>2. /\ challenges' = [challenges EXCEPT ![<<id, dg>>] = Joined(c, due)]
        /\ settled' = settled /\ dutyUntil' = dutyUntil /\ batches' = batches
    BY <1>5 DEF JoinOpen, Joined, Hold, ArbiterKeeps
  <2>3. \/ Enter(agent, owner, TRUE, d)
        \/ UNCHANGED <<lastPrincipalDeadline, lastPublicDeadline>>
    BY <1>5 DEF JoinOpen
  <2>4. /\ lastPrincipalDeadline' \in [Address -> [Principal -> Nat]]
        /\ lastPublicDeadline' \in [Address -> Nat]
    BY <1>1, <1>2, <2>3, EnterTypes DEF ChallengeInv, DisputeTypeOK
  <2> HIDE DEF due, d
  <2> QED BY <2>1, <2>2, <2>4 DEF ChallengeInv, DisputeTypeOK
<1>6. CASE JoinAnswered(id, dg)
  <2> DEFINE due == now + DeliveryWait
  <2>1. due \in Nat /\ Latest(dutyUntil[id], due) \in Nat
    BY <1>3, Constants DEF Latest, ChallengeInv, DisputeTypeOK
  <2>2. c.root \in BatchRoot
    BY <1>3, <1>6 DEF JoinAnswered, ChallengeInv, Challenged
  <2>3. batches[id][c.root].due + 1 \in Nat
    BY <2>2 DEF ChallengeInv, DisputeTypeOK, BatchPosting
  <2>4. /\ challenges' = [challenges EXCEPT ![<<id, dg>>] = Joined(c, due)]
        /\ settled' = settled
        /\ dutyUntil' = [dutyUntil EXCEPT ![id] = Latest(dutyUntil[id], due)]
        /\ batches' = [batches EXCEPT ![id][c.root].due = batches[id][c.root].due + 1]
        /\ UNCHANGED <<lastPrincipalDeadline, lastPublicDeadline>>
    BY <1>6, SMTT(30) DEF JoinAnswered, Joined, NoCall, ArbiterKeeps
  <2>5. batches' \in [Id -> [BatchRoot -> BatchPosting]]
    BY <2>2, <2>3, <2>4, DueType DEF ChallengeInv
  <2>6. dutyUntil' \in [Id -> Nat]
    BY <2>1, <2>4 DEF ChallengeInv, DisputeTypeOK
  <2> HIDE DEF due
  <2> QED BY <2>1, <2>4, <2>5, <2>6 DEF ChallengeInv, DisputeTypeOK
<1> QED BY <1>5, <1>6 DEF Join

\* join keeps what the challenge is about.
LEMMA JoinTypes ==
  ASSUME ReserveInv, ChallengeInv, NEW sender \in Challenger, NEW id \in Id,
         NEW dg \in Digest, NEW deposit \in DepositPrice, NEW excess \in Excess,
         Join(sender, id, dg, deposit, excess)
  PROVE  ChallengeInv'
<1> DEFINE old == challenges[<<id, dg>>]
<1>1. <<id, dg>> \in Key /\ deposit \in Nat /\ excess \in Nat
  BY DisputeAssumption DEF Key
<1>2. old \in Challenge
  BY <1>1, ChallengeFields DEF ChallengeInv
<1>3. PICK due \in Nat :
        /\ challenges' = [challenges EXCEPT ![<<id, dg>>] = Joined(challenges[<<id, dg>>], due)]
        /\ lastPrincipalDeadline' \in [Address -> [Principal -> Nat]]
        /\ lastPublicDeadline' \in [Address -> Nat]
        /\ dutyUntil' \in [Id -> Nat]
        /\ batches' \in [Id -> [BatchRoot -> BatchPosting]]
        /\ settled' = settled
  BY JoinWrites, SMTT(60)
<1> DEFINE c == Joined(old, due)
<1>4. c \in Challenge /\ c.status = old.status /\ c.root = old.root
  BY <1>2, ChallengeUpdates DEF Challenge, Joined
<1>5. /\ asked' = Counted(AgentOf(id), PrincipalOf(id))
      /\ postingPool' = [postingPool EXCEPT ![id] = @ + TopUp(id, deposit) + excess]
      /\ disputeBalance' = disputeBalance + TopUp(id, deposit) + excess
      /\ Recorded(id, dg)
  BY DEF Join
<1>6. asked' \in [Address -> [Principal -> Nat]]
  BY <1>5, RecordedFacts, CountedType DEF ChallengeInv
<1>7. TopUp(id, deposit) \in Nat /\ postingPool[id] + TopUp(id, deposit) + excess \in Nat
  BY <1>1, TopUpType DEF ChallengeInv, DisputeTypeOK
<1>8. postingPool' \in [Id -> Nat] /\ disputeBalance' \in Int
  BY <1>1, <1>5, <1>7 DEF ChallengeInv, DisputeTypeOK
<1> HIDE DEF c
<1>9. /\ challenges' \in [Key -> Challenge] /\ challenges'[<<id, dg>>] = c
      /\ \A k \in Key : k # <<id, dg>> => challenges'[k] = challenges[k]
  <2>1. challenges' = [challenges EXCEPT ![<<id, dg>>] = c]
    BY <1>3 DEF c
  <2>2. c \in Challenge /\ DisputeTypeOK
    BY <1>4 DEF ChallengeInv
  <2> QED BY <2>1, <2>2, OneChallenge, ZenonT(40)
<1>10. DisputeTypeOK'
  BY <1>3, <1>6, <1>8, <1>9 DEF Join, ChallengeInv, DisputeTypeOK
<1>11. Challenged(<<id, dg>>)'
  BY <1>1, <1>3, <1>4, <1>9 DEF Challenged, Recorded, ChallengeInv
<1>12. (\A k \in Key : Challenged(k))'
  BY <1>3, <1>9, <1>11, OneChallenged DEF ChallengeInv
<1> QED BY <1>10, <1>12 DEF ChallengeInv

\* One challenge is rewritten, and stays about its settlement and its root.
LEMMA OneRewritten ==
  ASSUME ChallengeInv, NEW id \in Id, NEW dg \in Digest, NEW e \in Challenge,
         challenges' = [challenges EXCEPT ![<<id, dg>>] = e], settled' = settled,
         challenges[<<id, dg>>].status # "None",
         e.status \in {"Answered", "Delivered"}
           => /\ challenges[<<id, dg>>].status \in {"Answered", "Delivered"}
              /\ e.root = challenges[<<id, dg>>].root
  PROVE  challenges' \in [Key -> Challenge] /\ (\A k \in Key : Challenged(k))'
<1>1. <<id, dg>> \in Key
  BY DEF Key
<1>2. /\ challenges' \in [Key -> Challenge] /\ challenges'[<<id, dg>>] = e
      /\ \A k \in Key : k # <<id, dg>> => challenges'[k] = challenges[k]
  <2>1. DisputeTypeOK
    BY DEF ChallengeInv
  <2> QED BY <2>1, OneChallenge, ZenonT(40)
<1>3. Challenged(<<id, dg>>)'
  BY <1>1, <1>2 DEF Challenged, Recorded, ChallengeInv
<1> QED BY <1>2, <1>3, OneChallenged DEF ChallengeInv

\* cancel gives a bond back or withdraws a request.
LEMMA CancelTypes ==
  ASSUME ReserveInv, ChallengeInv, NEW sender, NEW id \in Id, NEW dg \in Digest,
         Cancel(sender, id, dg)
  PROVE  ChallengeInv'
<1> DEFINE c == challenges[<<id, dg>>]
<1>1. <<id, dg>> \in Key
  BY DEF Key
<1>2. /\ c \in Challenge /\ c.challenger \in Account /\ c.bond \in Nat
      /\ c.root \in BatchRoot \cup {NoRoot}
  BY <1>1, ChallengeFields DEF ChallengeInv
<1>3. CASE CancelOpen(id, dg)
  <2> DEFINE left == [c EXCEPT !.byPrincipal = FALSE, !.joined = FALSE]
             e == IF c.joined THEN left ELSE [left EXCEPT !.status = "Cancelled"]
  <2>1. /\ c.status = "Open" /\ batches' = batches /\ settled' = settled
        /\ challenges' = [challenges EXCEPT ![<<id, dg>>] = e]
        /\ \/ disputeCredit' = disputeCredit
           \/ disputeCredit' = [disputeCredit EXCEPT ![c.challenger] =
                                  disputeCredit[c.challenger] + c.bond]
    BY <1>3 DEF CancelOpen, Release, ArbiterKeeps
  <2>2. e \in Challenge /\ e.status \in {"Open", "Cancelled"}
    BY <1>2, <2>1 DEF Challenge, Status
  <2>3. challenges' \in [Key -> Challenge] /\ (\A k \in Key : Challenged(k))'
    <3> HIDE DEF e
    <3> QED BY <2>1, <2>2, OneRewritten
  <2>4. disputeCredit' \in [Account -> Nat]
    BY <1>2, <2>1, DisputeCreditType DEF ChallengeInv, DisputeTypeOK
  <2>5. DisputeTypeOK'
    BY <2>1, <2>3, <2>4, SMTT(30) DEF Cancel, ChallengeInv, DisputeTypeOK
  <2> QED BY <2>3, <2>5 DEF ChallengeInv
<1>4. CASE CancelAnswered(id, dg)
  <2> DEFINE e == [c EXCEPT !.byPrincipal = FALSE, !.joined = FALSE,
                            !.status = IF c.joined THEN c.status ELSE "Cancelled"]
  <2>1. /\ c.status \in {"Answered", "Delivered"} /\ settled' = settled
        /\ challenges' = [challenges EXCEPT ![<<id, dg>>] = e]
        /\ batches[id][c.root].due >= 1
        /\ batches' = [batches EXCEPT ![id][c.root].due = batches[id][c.root].due - 1]
        /\ disputeCredit' = disputeCredit
    BY <1>4 DEF CancelAnswered, NoCall, ArbiterKeeps
  <2>2. c.root \in BatchRoot
    BY <1>1, <2>1 DEF ChallengeInv, Challenged
  <2>3. batches[id][c.root].due - 1 \in Nat
    BY <2>1, <2>2, SMTT(60) DEF ChallengeInv, DisputeTypeOK, BatchPosting
  <2>4. batches' \in [Id -> [BatchRoot -> BatchPosting]]
    BY <2>1, <2>2, <2>3, DueType DEF ChallengeInv
  <2>5. e \in Challenge /\ e.root = c.root
    BY <1>2, <2>1 DEF Challenge, Status
  <2>6. challenges' \in [Key -> Challenge] /\ (\A k \in Key : Challenged(k))'
    <3> HIDE DEF e
    <3> QED BY <2>1, <2>5, OneRewritten
  <2>7. DisputeTypeOK'
    BY <2>1, <2>4, <2>6 DEF Cancel, ChallengeInv, DisputeTypeOK
  <2> QED BY <2>6, <2>7 DEF ChallengeInv
<1> QED BY <1>3, <1>4 DEF Cancel

\* An expired challenge's bond goes back to its challenger.
LEMMA ExpireTypes ==
  ASSUME ReserveInv, ChallengeInv, NEW id \in Id, NEW dg \in Digest, Expire(id, dg)
  PROVE  ChallengeInv'
<1> DEFINE c == challenges[<<id, dg>>]
           e == [c EXCEPT !.status = "Expired"]
<1>1. <<id, dg>> \in Key
  BY DEF Key
<1>2. c \in Challenge /\ c.challenger \in Account /\ c.bond \in Nat
  BY <1>1, ChallengeFields DEF ChallengeInv
<1>3. e \in Challenge /\ e.status = "Expired"
  BY <1>2 DEF Challenge, Status
<1>4. /\ c.status = "Open" /\ settled' = settled
      /\ challenges' = [challenges EXCEPT ![<<id, dg>>] = e]
      /\ disputeCredit' = [disputeCredit EXCEPT ![c.challenger] =
                             disputeCredit[c.challenger] + c.bond]
  BY DEF Expire, Forfeit, ArbiterKeeps
<1>5. challenges' \in [Key -> Challenge] /\ (\A k \in Key : Challenged(k))'
  <2> HIDE DEF e
  <2> QED BY <1>3, <1>4, OneRewritten
<1>6. disputeCredit' \in [Account -> Nat]
  BY <1>2, <1>4, DisputeCreditType DEF ChallengeInv
<1>7. DisputeTypeOK'
  BY <1>5, <1>6 DEF Expire, ChallengeInv, DisputeTypeOK
<1> QED BY <1>5, <1>7 DEF ChallengeInv

\* Nothing of the challenges, the queues and the receipts changes.
LEMMA SameChallenged ==
  ASSUME \A k \in Key : Challenged(k), settled' = settled, challenges' = challenges
  PROVE  (\A k \in Key : Challenged(k))'
BY DEF Challenged, Recorded

\* A posting pool that is filled or handed back.
LEMMA PoolTypes ==
  ASSUME ReserveInv, ChallengeInv, NEW id \in Id,
         \/ \E value \in Donation : FundPosting(id, value)
         \/ ReturnPosting(id)
  PROVE  ChallengeInv'
<1>1. ASSUME NEW value \in Donation, FundPosting(id, value)
      PROVE  ChallengeInv'
  <2>1. value \in Nat
    BY DisputeAssumption
  <2>2. postingPool[id] + value \in Nat
    BY <2>1 DEF ChallengeInv, DisputeTypeOK
  <2>3. DisputeTypeOK'
    BY <1>1, <2>1, <2>2 DEF FundPosting, ChallengeInv, DisputeTypeOK
  <2>4. (\A k \in Key : Challenged(k))'
    BY <1>1, SameChallenged DEF FundPosting, NoCall, ArbiterKeeps, ChallengeInv
  <2> QED BY <2>3, <2>4 DEF ChallengeInv
<1>2. CASE ReturnPosting(id)
  <2>1. PrincipalOf(id) \in Account /\ postingPool[id] \in Nat
    BY FieldTypes, Constants
       DEF PrincipalOf, ReserveInv, TypeInv, ReserveTypeOK, ChallengeInv, DisputeTypeOK
  <2>2. disputeCredit' \in [Account -> Nat]
    BY <1>2, <2>1, DisputeCreditType DEF ReturnPosting, ChallengeInv
  <2>3. DisputeTypeOK'
    BY <1>2, <2>2 DEF ReturnPosting, ChallengeInv, DisputeTypeOK
  <2>4. (\A k \in Key : Challenged(k))'
    BY <1>2, SameChallenged DEF ReturnPosting, NoCall, ArbiterKeeps, ChallengeInv
  <2> QED BY <2>3, <2>4 DEF ChallengeInv
<1> QED BY <1>1, <1>2

\* An answerer signs a receipt.
LEMMA SignReceiptTypes ==
  ASSUME ReserveInv, ChallengeInv, NEW id \in Id, NEW root \in BatchRoot,
         NEW sealed \in SealedRoot, NEW hash \in ProofHash,
         SignReceipt(id, root, sealed, hash)
  PROVE  ChallengeInv'
<1>1. receipts' \subseteq Receipt
  <2>1. now \in Nat
    BY DEF ReserveInv, TypeInv, ReserveTypeOK
  <2> QED BY <2>1 DEF SignReceipt, Receipt, ChallengeInv, DisputeTypeOK
<1>2. DisputeTypeOK'
  BY <1>1 DEF SignReceipt, ChallengeInv, DisputeTypeOK
<1>3. (\A k \in Key : Challenged(k))'
  BY SameChallenged DEF SignReceipt, NoCall, ArbiterKeeps, ChallengeInv
<1> QED BY <1>2, <1>3 DEF ChallengeInv

\* A credit is withdrawn whole.
LEMMA WithdrawCreditTypes ==
  ASSUME ReserveInv, ChallengeInv, NEW a \in Address, WithdrawCredit(a)
  PROVE  ChallengeInv'
<1>1. a \in Account /\ disputeCredit[a] \in Nat
  BY Constants DEF ChallengeInv, DisputeTypeOK
<1>2. DisputeTypeOK'
  BY <1>1 DEF WithdrawCredit, ChallengeInv, DisputeTypeOK
<1>3. (\A k \in Key : Challenged(k))'
  BY SameChallenged DEF WithdrawCredit, NoCall, ArbiterKeeps, ChallengeInv
<1> QED BY <1>2, <1>3 DEF ChallengeInv

\* Binding a receipt's proof keeps the batches' types.
LEMMA BoundTypes ==
  ASSUME DisputeTypeOK, NEW id \in Id, NEW r \in receipts
  PROVE  /\ r.root \in BatchRoot /\ r.proofHash \in ProofHash /\ r.sealedRoot \in SealedRoot
         /\ BoundTo(id, r) \in [Id -> [BatchRoot -> BatchPosting]]
         /\ BoundRoot(id, r) \in [Id -> [ProofHash -> BatchRoot \cup {NoRoot}]]
<1>1. r.root \in BatchRoot /\ r.proofHash \in ProofHash /\ r.sealedRoot \in SealedRoot
  BY DEF DisputeTypeOK, Receipt
<1>2. BoundTo(id, r) \in [Id -> [BatchRoot -> BatchPosting]]
  <2> DEFINE b == [batches EXCEPT ![id][r.root].proofHash = r.proofHash]
             c == [b EXCEPT ![id][r.root].sealedRoot = r.sealedRoot]
  <2>1. batches[id][r.root] \in BatchPosting /\ batches[id] \in [BatchRoot -> BatchPosting]
    BY <1>1 DEF DisputeTypeOK
  <2>2. [batches[id][r.root] EXCEPT !.proofHash = r.proofHash] \in BatchPosting
    BY <1>1, <2>1 DEF BatchPosting
  <2>3. b \in [Id -> [BatchRoot -> BatchPosting]]
    BY <1>1, <2>1, <2>2 DEF DisputeTypeOK
  <2> HIDE DEF b
  <2>4. b[id][r.root] \in BatchPosting
    BY <1>1, <2>3
  <2>5. [b[id][r.root] EXCEPT !.sealedRoot = r.sealedRoot] \in BatchPosting
    BY <1>1, <2>4 DEF BatchPosting
  <2>6. c \in [Id -> [BatchRoot -> BatchPosting]]
    BY <1>1, <2>3, <2>5
  <2> QED BY <2>6 DEF BoundTo, b
<1>3. BoundRoot(id, r) \in [Id -> [ProofHash -> BatchRoot \cup {NoRoot}]]
  BY <1>1 DEF BoundRoot, DisputeTypeOK
<1> QED BY <1>1, <1>2, <1>3

\* _refund pays out of the pool no more than it holds.
LEMMA RefundTypes ==
  ASSUME DisputeTypeOK, NEW sender \in Poster, NEW id \in Id, NEW root \in BatchRoot,
         NEW b \in [Id -> [BatchRoot -> BatchPosting]], NEW fee \in Fee,
         Refund(sender, id, root, b, fee)
  PROVE  /\ batches' \in [Id -> [BatchRoot -> BatchPosting]]
         /\ postingPool' \in [Id -> Nat] /\ disputeCredit' \in [Account -> Nat]
         /\ refunds' \in [Id -> Nat]
<1> DEFINE pays == sender = AnswererOf(id) /\ now <= dutyUntil[id] /\ b[id][root].due # 0
           paid == Payable(id, fee)
           lapsed == b[id][root].lapsed \/ fee > postingPool[id]
<1>1. /\ fee \in Nat /\ sender \in Account /\ postingPool[id] \in Nat
      /\ refunds[id] + 1 \in Nat /\ b[id][root] \in BatchPosting
      /\ b[id] \in [BatchRoot -> BatchPosting]
  BY DisputeAssumption, Constants DEF DisputeTypeOK
<1>2. CASE pays
  <2>1. /\ postingPool' = [postingPool EXCEPT ![id] = postingPool[id] - paid]
        /\ disputeCredit' = [disputeCredit EXCEPT ![sender] = disputeCredit[sender] + paid]
        /\ batches' = [b EXCEPT ![id][root].lapsed = lapsed]
        /\ refunds' = [refunds EXCEPT ![id] = refunds[id] + 1]
    BY <1>2 DEF Refund
  <2>2. paid \in Nat /\ postingPool[id] - paid \in Nat
    BY <1>1 DEF Payable
  <2>3. lapsed \in BOOLEAN
    OBVIOUS
  <2> HIDE DEF lapsed, paid
  <2>4. [b[id][root] EXCEPT !.lapsed = lapsed] \in BatchPosting
    BY <1>1, <2>3 DEF BatchPosting
  <2>5. batches' \in [Id -> [BatchRoot -> BatchPosting]]
    BY <1>1, <2>1, <2>4
  <2>6. disputeCredit' \in [Account -> Nat]
    BY <1>1, <2>1, <2>2, DisputeCreditType
  <2> QED BY <1>1, <2>1, <2>2, <2>5, <2>6 DEF DisputeTypeOK
<1>3. CASE ~pays
  BY <1>3 DEF Refund, DisputeTypeOK
<1> QED BY <1>2, <1>3

\* A posting's next chunk.
LEMMA PostProofTypes ==
  ASSUME ReserveInv, ChallengeInv, NEW sender \in Poster, NEW id \in Id,
         NEW hash \in ProofHash, NEW chunk, NEW fee \in Fee,
         PostProof(sender, id, hash, chunk, fee)
  PROVE  ChallengeInv'
<1> DEFINE p == postings[sender][id][hash]
           q == [chunks |-> p.chunks + 1, good |-> p.good /\ chunk # "wrong"]
           root == boundRoot[id][hash]
<1>1. DisputeTypeOK /\ now \in Nat
  BY DEF ChallengeInv, ReserveInv, TypeInv, ReserveTypeOK
<1>2. q \in [chunks: Nat, good: BOOLEAN]
  BY <1>1 DEF DisputeTypeOK
<1>3. postings' = [postings EXCEPT ![sender][id][hash] = q]
  BY DEF PostProof
<1>4. postings' \in [Poster -> [Id -> [ProofHash -> [chunks: Nat, good: BOOLEAN]]]]
  <2> HIDE DEF q
  <2> QED BY <1>1, <1>2, <1>3 DEF DisputeTypeOK
<1>5. postedAt' \in [Id -> [ProofHash -> Nat]]
  <2>1. \/ postedAt' = postedAt
        \/ postedAt' = [postedAt EXCEPT ![id][hash] = now]
    BY DEF PostProof
  <2>2. [postedAt EXCEPT ![id][hash] = now] \in [Id -> [ProofHash -> Nat]]
    BY <1>1 DEF DisputeTypeOK
  <2>3. postedAt \in [Id -> [ProofHash -> Nat]]
    BY <1>1 DEF DisputeTypeOK
  <2> QED BY <2>1, <2>2, <2>3
<1>6. /\ batches' \in [Id -> [BatchRoot -> BatchPosting]]
      /\ postingPool' \in [Id -> Nat] /\ disputeCredit' \in [Account -> Nat]
      /\ refunds' \in [Id -> Nat]
  <2>1. CASE root # NoRoot /\ FirstChunks(p.chunks)
    <3>1. Refund(sender, id, root, batches, fee)
      BY <2>1 DEF PostProof
    <3>2. root \in BatchRoot /\ batches \in [Id -> [BatchRoot -> BatchPosting]]
      BY <1>1, <2>1 DEF DisputeTypeOK
    <3> HIDE DEF root
    <3> QED BY <1>1, <3>1, <3>2, RefundTypes
  <2>2. CASE ~(root # NoRoot /\ FirstChunks(p.chunks))
    BY <1>1, <2>2 DEF PostProof, DisputeTypeOK
  <2> QED BY <2>1, <2>2
<1>7. DisputeTypeOK'
  BY <1>1, <1>4, <1>5, <1>6 DEF PostProof, DisputeTypeOK
<1>8. (\A k \in Key : Challenged(k))'
  BY SameChallenged DEF PostProof, NoCall, ArbiterKeeps, ChallengeInv
<1> QED BY <1>7, <1>8 DEF ChallengeInv

\* A proof is bound for a request.
LEMMA BindPostingTypes ==
  ASSUME ReserveInv, ChallengeInv, NEW sender \in Poster, NEW id \in Id, NEW dg \in Digest,
         NEW r \in receipts, NEW fee \in Fee, BindPosting(sender, id, dg, r, fee)
  PROVE  ChallengeInv'
<1>1. DisputeTypeOK
  BY DEF ChallengeInv
<1>2. /\ r.root \in BatchRoot /\ boundRoot' = BoundRoot(id, r)
      /\ BoundTo(id, r) \in [Id -> [BatchRoot -> BatchPosting]]
      /\ boundRoot' \in [Id -> [ProofHash -> BatchRoot \cup {NoRoot}]]
  BY <1>1, BoundTypes DEF BindPosting
<1>3. /\ batches' \in [Id -> [BatchRoot -> BatchPosting]]
      /\ postingPool' \in [Id -> Nat] /\ disputeCredit' \in [Account -> Nat]
      /\ refunds' \in [Id -> Nat]
  <2>1. Refund(sender, id, r.root, BoundTo(id, r), fee)
    BY DEF BindPosting
  <2> QED BY <1>1, <1>2, <2>1, RefundTypes
<1>4. DisputeTypeOK'
  BY <1>1, <1>2, <1>3 DEF BindPosting, DisputeTypeOK
<1>5. (\A k \in Key : Challenged(k))'
  BY SameChallenged DEF BindPosting, NoCall, ArbiterKeeps, ChallengeInv
<1> QED BY <1>4, <1>5 DEF ChallengeInv

\* A delivery answers a request, and binds a batch nothing was bound to.
LEMMA DeliverTypes ==
  ASSUME ReserveInv, ChallengeInv, NEW sender \in Poster, NEW id \in Id, NEW dg \in Digest,
         NEW r \in receipts, NEW fee \in Fee, Deliver(sender, id, dg, r, fee)
  PROVE  ChallengeInv'
<1> DEFINE c == challenges[<<id, dg>>]
           e == [c EXCEPT !.status = "Delivered"]
           first == batches[id][r.root].proofHash = NoHash
           b == IF first THEN BoundTo(id, r) ELSE batches
<1>1. DisputeTypeOK /\ <<id, dg>> \in Key
  BY DEF ChallengeInv, Key
<1>2. /\ r.root \in BatchRoot /\ r.sealedRoot \in SealedRoot
      /\ BoundTo(id, r) \in [Id -> [BatchRoot -> BatchPosting]]
      /\ BoundRoot(id, r) \in [Id -> [ProofHash -> BatchRoot \cup {NoRoot}]]
  BY <1>1, BoundTypes
<1>3. b \in [Id -> [BatchRoot -> BatchPosting]]
  BY <1>1, <1>2 DEF DisputeTypeOK
<1>4. boundRoot' \in [Id -> [ProofHash -> BatchRoot \cup {NoRoot}]]
  BY <1>1, <1>2 DEF Deliver, DisputeTypeOK
<1>5. /\ batches' \in [Id -> [BatchRoot -> BatchPosting]]
      /\ postingPool' \in [Id -> Nat] /\ disputeCredit' \in [Account -> Nat]
      /\ refunds' \in [Id -> Nat]
  <2>1. \/ Refund(sender, id, r.root, b, fee)
        \/ batches' = b /\ UNCHANGED <<postingPool, disputeCredit, refunds>>
    BY DEF Deliver
  <2> HIDE DEF b
  <2>2. CASE Refund(sender, id, r.root, b, fee)
    BY <1>1, <1>2, <1>3, <2>2, RefundTypes
  <2>3. CASE batches' = b /\ UNCHANGED <<postingPool, disputeCredit, refunds>>
    BY <1>1, <1>3, <2>3 DEF DisputeTypeOK
  <2> QED BY <2>1, <2>2, <2>3
<1>6. /\ c.status = "Answered" /\ settled' = settled
      /\ challenges' = [challenges EXCEPT ![<<id, dg>>] = e]
      /\ deliveredUnder' = [deliveredUnder EXCEPT ![<<id, dg>>] = r.sealedRoot]
  BY DEF Deliver, NoCall, ArbiterKeeps
<1>7. e \in Challenge /\ e.root = c.root
  <2>1. c \in Challenge
    BY <1>1, ChallengeFields
  <2> QED BY <2>1 DEF Challenge, Status
<1>8. challenges' \in [Key -> Challenge] /\ (\A k \in Key : Challenged(k))'
  <2> HIDE DEF e
  <2> QED BY <1>6, <1>7, OneRewritten
<1>9. deliveredUnder' \in [Key -> SealedRoot \cup {NoSeal}]
  BY <1>1, <1>2, <1>6 DEF DisputeTypeOK
<1>10. DisputeTypeOK'
  BY <1>1, <1>4, <1>5, <1>8, <1>9 DEF Deliver, DisputeTypeOK
<1> QED BY <1>8, <1>10 DEF ChallengeInv

\* What an answer does, key by key.
AnsweredAs(k, root) ==
  [challenges[k] EXCEPT
     !.status = "Answered", !.root = root,
     !.deadline = IF challenges[k].byPrincipal THEN now + DeliveryWait ELSE @]

\* An answered challenge is a challenge.
LEMMA AnsweredType ==
  ASSUME TypeInv, DisputeTypeOK, NEW k \in Key, NEW root \in BatchRoot
  PROVE  LET c == AnsweredAs(k, root) IN
         /\ c \in Challenge /\ c.status = "Answered" /\ c.root = root
         /\ c.byPrincipal = challenges[k].byPrincipal
         /\ c.deadline = IF challenges[k].byPrincipal THEN now + DeliveryWait
                         ELSE challenges[k].deadline
<1> DEFINE n == IF challenges[k].byPrincipal THEN now + DeliveryWait
                ELSE challenges[k].deadline
<1>1. challenges[k] \in Challenge /\ n \in Nat
  BY ChallengeFields, Constants DEF TypeInv, ReserveTypeOK
<1>2. AnsweredAs(k, root) =
        [challenges[k] EXCEPT !.status = "Answered", !.root = root, !.deadline = n]
  BY DEF AnsweredAs
<1> HIDE DEF n
<1>3. /\ AnsweredAs(k, root) \in Challenge
      /\ AnsweredAs(k, root).status = "Answered" /\ AnsweredAs(k, root).root = root
      /\ AnsweredAs(k, root).byPrincipal = challenges[k].byPrincipal
      /\ AnsweredAs(k, root).deadline = n
  BY <1>1, <1>2, ZenonT(40) DEF Challenge, Status
<1> QED BY <1>3 DEF n

\* What an answer leaves of the challenges.
LEMMA AnswerWrites ==
  ASSUME ReserveInv, ChallengeInv, NEW keys \in SUBSET Due,
         NEW items \in [keys -> Provable], Answer(items)
  PROVE  /\ DOMAIN items = keys /\ keys \subseteq Key /\ IsFiniteSet(keys)
         /\ settled' = settled
         /\ \A k \in keys : /\ items[k] \in BatchRoot /\ k \in Batched[items[k]]
                            /\ challenges[k].status = "Open"
                            /\ challenges'[k] = AnsweredAs(k, items[k])
         /\ \A k \in Key : k \notin keys => challenges'[k] = challenges[k]
         /\ challenges' \in [Key -> Challenge]
<1>1. DOMAIN items = keys /\ keys \subseteq Key /\ IsFiniteSet(keys)
  BY DueKeys, SMTT(30)
<1>2. settled' = settled
  BY <1>1 DEF Answer, Release, ArbiterKeeps
<1>3. \A k \in keys : /\ items[k] \in BatchRoot /\ k \in Batched[items[k]]
                      /\ challenges[k].status = "Open"
  BY <1>1, DisputeAssumption DEF Answer, Due
<1>4. challenges' = [k \in Key |-> IF k \notin keys THEN challenges[k]
                                   ELSE AnsweredAs(k, items[k])]
  BY <1>1 DEF Answer, AnsweredAs
<1>5. \A k \in Key : (IF k \notin keys THEN challenges[k] ELSE AnsweredAs(k, items[k]))
                       \in Challenge
  BY <1>3, AnsweredType DEF ReserveInv, ChallengeInv, DisputeTypeOK
<1>6. challenges' \in [Key -> Challenge]
  BY <1>4, <1>5
<1> QED BY <1>1, <1>2, <1>3, <1>4, <1>6

\* The answered keys of one delegation that the principal asked for, by root.
AskedUnder(id, keys, items, root) ==
  {k \in Under(id, Requested(keys)) : items[k] = root}

\* _settle writes numbers, and only what the answers prove.
LEMMA AnswerTypes ==
  ASSUME ReserveInv, ChallengeInv, NEW keys \in SUBSET Due,
         NEW items \in [keys -> Provable], Answer(items)
  PROVE  ChallengeInv'
<1>1. /\ DOMAIN items = keys /\ keys \subseteq Key /\ IsFiniteSet(keys)
      /\ settled' = settled
      /\ \A k \in keys : /\ items[k] \in BatchRoot /\ k \in Batched[items[k]]
                         /\ challenges[k].status = "Open"
                         /\ challenges'[k] = AnsweredAs(k, items[k])
      /\ \A k \in Key : k \notin keys => challenges'[k] = challenges[k]
      /\ challenges' \in [Key -> Challenge]
  BY AnswerWrites
<1>2. DisputeTypeOK /\ TypeInv /\ now \in Nat
  BY SMTT(60) DEF ReserveInv, ChallengeInv, TypeInv, ReserveTypeOK
<1>3. answeredRoots' \in [Id -> SUBSET BatchRoot]
  <2> DEFINE proved(id) == {items[k] : k \in Under(id, keys)}
  <2>1. answeredRoots' = [id \in Id |-> answeredRoots[id] \cup proved(id)]
    BY <1>1 DEF Answer
  <2>2. \A id \in Id : proved(id) \subseteq BatchRoot
    BY <1>1 DEF Under
  <2>3. \A id \in Id : answeredRoots[id] \subseteq BatchRoot
    BY <1>2 DEF DisputeTypeOK
  <2> HIDE DEF proved
  <2> QED BY <2>1, <2>2, <2>3, SMTT(60)
<1>4. dutyUntil' \in [Id -> Nat]
  <2>1. dutyUntil' = [id \in Id |-> IF Under(id, Requested(keys)) = {} THEN dutyUntil[id]
                                    ELSE Latest(dutyUntil[id], now + DeliveryWait)]
    BY <1>1 DEF Answer
  <2>2. \A id \in Id : dutyUntil[id] \in Nat /\ Latest(dutyUntil[id], now + DeliveryWait) \in Nat
    BY <1>2, Constants DEF DisputeTypeOK, Latest
  <2> QED BY <2>1, <2>2, SMTT(60)
<1>5. batches' \in [Id -> [BatchRoot -> BatchPosting]]
  <2> DEFINE n(id, root) == batches[id][root].due
                              + Cardinality(AskedUnder(id, keys, items, root))
             row(id) == [root \in BatchRoot |-> [batches[id][root] EXCEPT !.due = n(id, root)]]
  <2>1. batches' = [id \in Id |-> row(id)]
    BY <1>1 DEF Answer, AskedUnder
  <2>2. \A id \in Id, root \in BatchRoot : n(id, root) \in Nat
    <3> SUFFICES ASSUME NEW id \in Id, NEW root \in BatchRoot PROVE n(id, root) \in Nat
      OBVIOUS
    <3>1. AskedUnder(id, keys, items, root) \subseteq keys
      BY DEF AskedUnder, Under, Requested
    <3>2. Cardinality(AskedUnder(id, keys, items, root)) \in Nat
      BY <1>1, <3>1, FS_Subset, FS_CardinalityType
    <3>3. batches[id][root].due \in Nat
      BY <1>2 DEF DisputeTypeOK, BatchPosting
    <3> QED BY <3>2, <3>3
  <2> HIDE DEF n
  <2>3. \A id \in Id, root \in BatchRoot :
          [batches[id][root] EXCEPT !.due = n(id, root)] \in BatchPosting
    <3> SUFFICES ASSUME NEW id \in Id, NEW root \in BatchRoot
                 PROVE [batches[id][root] EXCEPT !.due = n(id, root)] \in BatchPosting
      OBVIOUS
    <3>1. batches[id][root] \in BatchPosting
      BY <1>2 DEF DisputeTypeOK
    <3>2. PICK m \in Nat : m = n(id, root)
      BY <2>2
    <3>3. [batches[id][root] EXCEPT !.due = m] \in BatchPosting
      BY <3>1 DEF BatchPosting
    <3> QED BY <3>2, <3>3
  <2>4. \A id \in Id : row(id) \in [BatchRoot -> BatchPosting]
    BY <2>3
  <2> HIDE DEF row
  <2> QED BY <2>1, <2>4, SMTT(60)
<1>6. disputeCredit' \in [Account -> Nat]
  <2> DEFINE more(a) == SumFunctionOnSet(Bonds, {k \in keys : Payee(k[1]) = a})
  <2>1. disputeCredit' = [a \in Account |-> disputeCredit[a] + more(a)]
    BY <1>1 DEF Answer
  <2>2. \A a \in Account : more(a) \in Nat
    <3> SUFFICES ASSUME NEW a \in Account PROVE more(a) \in Nat
      OBVIOUS
    <3> DEFINE K == {k \in keys : Payee(k[1]) = a}
    <3>1. IsFiniteSet(K) /\ K \subseteq Key
      BY <1>1, FS_Subset
    <3>2. \A k \in K : Bonds[k] \in Nat
      BY <1>2, <3>1, ChallengeFields DEF Bonds
    <3> HIDE DEF K
    <3>3. SumFunctionOnSet(Bonds, K) \in Nat
      BY <3>1, <3>2, SumNat
    <3> QED BY <3>3 DEF K
  <2>3. \A a \in Account : disputeCredit[a] \in Nat
    BY <1>2 DEF DisputeTypeOK
  <2> HIDE DEF more
  <2>4. \A a \in Account : disputeCredit[a] + more(a) \in Nat
    BY <2>2, <2>3, SMTT(30)
  <2> QED BY <2>1, <2>4, SMTT(30)
<1>7. DisputeTypeOK'
  BY <1>1, <1>2, <1>3, <1>4, <1>5, <1>6 DEF Answer, DisputeTypeOK
<1>8. (\A k \in Key : Challenged(k))'
  <2> SUFFICES ASSUME NEW k \in Key PROVE Challenged(k)'
    OBVIOUS
  <2>1. Challenged(k)
    BY DEF ChallengeInv
  <2>2. CASE k \notin keys
    BY <1>1, <2>1, <2>2 DEF Challenged, Recorded
  <2>3. CASE k \in keys
    <3>1. challenges'[k].root = items[k] /\ items[k] \in BatchRoot /\ k \in Batched[items[k]]
      BY <1>1, <1>2, <2>3, AnsweredType
    <3>2. Recorded(k[1], k[2])'
      BY <1>1, <2>1, <2>3 DEF Challenged, Recorded
    <3> QED BY <3>1, <3>2 DEF Challenged
  <2> QED BY <2>2, <2>3
<1> QED BY <1>7, <1>8 DEF ChallengeInv

\* What has settled stays as it settled.
LEMMA SettledStays ==
  ASSUME ReserveInv, [ComposedNext]_vars
  PROVE  \A id \in Id, dg \in Digest :
           Recorded(id, dg) => settled'[id][dg] = settled[id][dg] /\ Recorded(id, dg)'
<1>1. CASE settled' = settled
  BY <1>1 DEF Recorded
<1>2. ASSUME NEW p \in signed, NEW stored \in BOOLEAN, Settle(p, stored)
      PROVE  \A id \in Id, dg \in Digest :
               Recorded(id, dg) => settled'[id][dg] = settled[id][dg] /\ Recorded(id, dg)'
  <2>1. p.id \in Id /\ p.digest \in Digest
    BY DEF ReserveInv, TypeInv, ReserveTypeOK, Payload
  <2>2. settled[p.id][p.digest] = NotSettled
    BY <1>2 DEF Settle, Admitted
  <2>3. \A id \in Id, dg \in Digest :
          id # p.id \/ dg # p.digest => settled'[id][dg] = settled[id][dg]
    BY <1>2, <2>1, SMTT(60) DEF Settle, ReserveInv, TypeInv, ReserveTypeOK
  <2> QED BY <2>2, <2>3 DEF Recorded
<1>3. CASE AccountStep
  <2>1. settled' = settled \/ \E p \in signed, stored \in BOOLEAN : Settle(p, stored)
    BY <1>3 DEF AccountStep, DeclareCapacity, Register, Accept, Sign, Claim, StakeAnswerer,
       UnstakeAnswerer, Freeze, Reclaim, Close, Withdraw, Revoke
  <2> QED BY <1>1, <1>2, <2>1
<1>4. CASE DisputeStep
  <2>1. settled' = settled
    BY <1>4, StepCalls DEF ReserveInv, Call, NoCall, Hold, Release, Forfeit, SlashAnswerer,
       ArbiterKeeps
  <2> QED BY <1>1, <2>1
<1>5. CASE Tick \/ UNCHANGED vars
  BY <1>1, <1>5 DEF Tick, vars, reserveVars
<1> QED BY <1>3, <1>4, <1>5 DEF ComposedNext

\* A step that is none of the arbiter's.
Elsewhere == (Tick \/ AccountStep \/ UNCHANGED vars) /\ UNCHANGED disputeVars

\* It keeps every challenge about what it was about.
LEMMA ElsewhereTypes ==
  ASSUME ReserveInv, ChallengeInv, Elsewhere
  PROVE  ChallengeInv'
<1>1. UNCHANGED disputeVars
  BY DEF Elsewhere
<1>2. DisputeTypeOK'
  BY <1>1 DEF ChallengeInv, DisputeTypeOK
<1>3. \A id \in Id, dg \in Digest : Recorded(id, dg) => Recorded(id, dg)'
  <2>1. [ComposedNext]_vars
    BY DEF Elsewhere, ComposedNext
  <2> QED BY <2>1, SettledStays
<1>4. ASSUME NEW k \in Key PROVE Challenged(k)'
  <2>1. Challenged(k) /\ challenges' = challenges /\ k[1] \in Id /\ k[2] \in Digest
    BY <1>1 DEF ChallengeInv, Key
  <2> QED BY <1>3, <2>1 DEF Challenged
<1> QED BY <1>2, <1>4 DEF ChallengeInv

\* Every step of the composition is elsewhere or the arbiter's.
LEMMA StepKinds ==
  ASSUME [ComposedNext]_vars
  PROVE  Elsewhere \/ DisputeStep
BY DEF ComposedNext, Elsewhere, vars

\* Every step keeps the arbiter's state typed.
LEMMA ChallengesKept ==
  ASSUME ReserveInv, ChallengeInv, [ComposedNext]_vars
  PROVE  ChallengeInv'
<1>1. CASE Elsewhere
  BY <1>1, ElsewhereTypes
<1>2. CASE DisputeStep
  <2>1. ASSUME NEW id \in Id, NEW dg \in Digest, NEW r \in receipts, NEW caller \in Address,
               Slash(id, dg, r, caller)
        PROVE  ChallengeInv'
    <3>1. DisputeTypeOK'
      BY <2>1 DEF Slash, ChallengeInv, DisputeTypeOK
    <3>2. (\A k \in Key : Challenged(k))'
      BY <2>1, SameChallenged DEF Slash, SlashAnswerer, ArbiterKeeps, ChallengeInv
    <3> QED BY <3>1, <3>2 DEF ChallengeInv
  <2> QED BY <1>2, <2>1, OpenTypes, JoinTypes, CancelTypes, AnswerTypes, ExpireTypes, PoolTypes,
         SignReceiptTypes, PostProofTypes, BindPostingTypes, DeliverTypes, WithdrawCreditTypes
         DEF DisputeStep
<1> QED BY <1>1, <1>2, StepKinds

\* The deployed arbiter has its types.
LEMMA InitChallenges == ComposedInit => ChallengeInv
<1> SUFFICES ASSUME DisputeInit({}) PROVE ChallengeInv
  BY DEF ComposedInit
<1>1. Unchallenged \in Challenge /\ Unchallenged.status = "None" /\ Unbound \in BatchPosting
  BY Constants DEF Unchallenged, Challenge, Status, Unbound, BatchPosting
<1>2. DisputeTypeOK
  BY <1>1 DEF DisputeInit, DisputeTypeOK
<1>3. \A k \in Key : challenges[k].status = "None"
  BY <1>1 DEF DisputeInit
<1> QED BY <1>2, <1>3 DEF ChallengeInv, Challenged

\* Every variable of the arbiter's keeps the type the contract declares for it,
\* through every interleaving with the reserve's accounts, so no pool, credit,
\* count of requests due or duty goes below zero (ValidityDispute.sol).
THEOREM DisputeTypeCorrect == ComposedSpec => []DisputeTypeOK
<1>1. ReserveInv /\ [ComposedNext]_vars => ReserveInv'
  BY ReserveKept
<1>2. ReserveInv /\ ChallengeInv /\ [ComposedNext]_vars => ChallengeInv'
  BY ChallengesKept
<1>3. ChallengeInv => DisputeTypeOK
  BY DEF ChallengeInv
<1> QED BY <1>1, <1>2, <1>3, InitReserve, InitChallenges, PTL DEF ComposedSpec

----------------------------------------------------------------------------
(* What accounts do between the arbiter's transactions.                    *)

\* A delegation's record later on: who made it and under what terms for good,
\* and what is once accepted, frozen, closed or paid stays so.
Later(d, e) ==
  /\ SameTerms(d, e)
  /\ d.accepted => e.accepted
  /\ d.frozen => e.frozen
  /\ d.closed => e.closed
  /\ d.bondPaid => e.bondPaid

Aged(id) ==
  /\ Later(delegations[id], delegations'[id])
  /\ delegations'[id].holds = delegations[id].holds

\* A record nothing wrote.
LEMMA SameAged ==
  ASSUME NEW id \in Id, delegations'[id] = delegations[id]
  PROVE  Aged(id)
BY DEF Aged, Later, SameTerms

\* A record written once.
LEMMA OneAged ==
  ASSUME TypeInv, NEW id \in Id, NEW e, delegations' = [delegations EXCEPT ![id] = e],
         Later(delegations[id], e), e.holds = delegations[id].holds
  PROVE  \A i \in Id : Aged(i)
BY SameAged DEF Aged, TypeInv, ReserveTypeOK

\* The records the calls of accounts write.
LEMMA RecordsLater ==
  ASSUME NEW d \in Delegation, now \in Nat, NEW n \in Nat
  PROVE  /\ LET e == [d EXCEPT !.accepted = TRUE] IN Later(d, e) /\ e.holds = d.holds
         /\ LET e == [d EXCEPT !.deposit = n] IN Later(d, e) /\ e.holds = d.holds
         /\ LET e == [d EXCEPT !.stake = n] IN Later(d, e) /\ e.holds = d.holds
         /\ LET e == [d EXCEPT !.epoch = n] IN Later(d, e) /\ e.holds = d.holds
         /\ LET e == Froze(d) IN Later(d, e) /\ e.holds = d.holds
         /\ LET e == BondSpent(Froze(d)) IN Later(d, e) /\ e.holds = d.holds
         /\ LET e == [BondSpent(d) EXCEPT !.closed = TRUE, !.deposit = 0] IN
            Later(d, e) /\ e.holds = d.holds
BY DEF Later, SameTerms, Froze, BondSpent, Delegation

\* settle takes from a deposit.
LEMMA SettleAged ==
  ASSUME TypeInv, NEW p \in signed, NEW stored \in BOOLEAN, Settle(p, stored)
  PROVE  \A i \in Id : Aged(i)
<1> DEFINE d == delegations[p.id]
<1>1. p.id \in Id /\ p.amount \in Nat /\ now \in Nat
  BY DEF TypeInv, ReserveTypeOK, Payload
<1>2. d \in Delegation /\ d.deposit \in Nat
  BY <1>1, FieldTypes DEF TypeInv, ReserveTypeOK
<1>3. CASE d.terms.funding = "Deposit"
  <2> DEFINE n == d.deposit - p.amount
             e == [d EXCEPT !.deposit = n]
  <2>1. n \in Nat /\ delegations' = [delegations EXCEPT ![p.id] = e]
    BY <1>1, <1>2, <1>3, SMTT(30) DEF Settle, PaidOut
  <2> HIDE DEF n
  <2>2. Later(d, e) /\ e.holds = d.holds
    BY <1>1, <1>2, <2>1, RecordsLater
  <2> HIDE DEF e
  <2> QED BY <1>1, <2>1, <2>2, OneAged
<1>4. CASE d.terms.funding # "Deposit"
  <2>1. delegations' = delegations
    BY <1>4 DEF Settle, PaidOut
  <2> QED BY <2>1, SameAged
<1> QED BY <1>3, <1>4

\* Any call of an account's but a registration keeps every record's life and
\* holds, and no call changes what the arbiter counts.
LEMMA AccountAged ==
  ASSUME TypeInv, AccountStep
  PROVE  /\ UNCHANGED <<now, dispute, openCount>>
         /\ \/ \A i \in Id : Aged(i)
            \/ \E p \in Principal, t \in Offer : Register(p, t)
<1>0. now \in Nat /\ \A id \in Id : /\ delegations[id] \in Delegation
                                    /\ delegations[id].epoch + 1 \in Nat
                                    /\ delegations[id].stake \in Nat
  BY FieldTypes, SMTT(30) DEF TypeInv, ReserveTypeOK
<1>1. UNCHANGED <<now, dispute, openCount>>
  BY DEF AccountStep, DeclareCapacity, Register, Accept, Sign, Settle, Claim, StakeAnswerer,
         UnstakeAnswerer, Freeze, Reclaim, Close, Withdraw, Revoke
<1>2. ASSUME NEW id \in Id, Accept(id) PROVE \A i \in Id : Aged(i)
  <2> DEFINE e == [delegations[id] EXCEPT !.accepted = TRUE]
  <2>1. delegations' = [delegations EXCEPT ![id] = e]
    BY <1>2, SMTT(30) DEF Accept
  <2>2. Later(delegations[id], e) /\ e.holds = delegations[id].holds
    BY <1>0, RecordsLater
  <2> HIDE DEF e
  <2> QED BY <2>1, <2>2, OneAged
<1>3. ASSUME NEW id \in Id, NEW secret \in Secret, Claim(id, secret)
      PROVE  \A i \in Id : Aged(i)
  <2> DEFINE e == BondSpent(Froze(delegations[id]))
  <2>1. delegations' = [delegations EXCEPT ![id] = e]
    BY <1>3 DEF Claim
  <2>2. Later(delegations[id], e) /\ e.holds = delegations[id].holds
    BY <1>0, RecordsLater
  <2> HIDE DEF e
  <2> QED BY <2>1, <2>2, OneAged
<1>4. ASSUME NEW id \in Id, NEW v \in StakeValue, StakeAnswerer(id, v)
      PROVE  \A i \in Id : Aged(i)
  <2> DEFINE n == delegations[id].stake + v
             e == [delegations[id] EXCEPT !.stake = n]
  <2>1. n \in Nat
    BY <1>0, ReserveAssumption, SMTT(30)
  <2>2. delegations' = [delegations EXCEPT ![id] = e]
    BY <1>4 DEF StakeAnswerer
  <2> HIDE DEF n
  <2>3. Later(delegations[id], e) /\ e.holds = delegations[id].holds
    BY <1>0, <2>1, RecordsLater
  <2> HIDE DEF e
  <2> QED BY <2>2, <2>3, OneAged
<1>5. ASSUME NEW id \in Id, UnstakeAnswerer(id) PROVE \A i \in Id : Aged(i)
  <2> DEFINE e == [delegations[id] EXCEPT !.stake = 0]
  <2>1. delegations' = [delegations EXCEPT ![id] = e]
    BY <1>5, SMTT(30) DEF UnstakeAnswerer
  <2>2. Later(delegations[id], e) /\ e.holds = delegations[id].holds
    BY <1>0, RecordsLater
  <2> HIDE DEF e
  <2> QED BY <2>1, <2>2, OneAged
<1>6. ASSUME NEW id \in Id, NEW sender \in Address, Freeze(id, sender)
      PROVE  \A i \in Id : Aged(i)
  <2> DEFINE e == Froze(delegations[id])
  <2>1. delegations' = [delegations EXCEPT ![id] = e]
    BY <1>6, SMTT(30) DEF Freeze
  <2>2. Later(delegations[id], e) /\ e.holds = delegations[id].holds
    BY <1>0, RecordsLater
  <2> HIDE DEF e
  <2> QED BY <2>1, <2>2, OneAged
<1>7. ASSUME NEW id \in Id, Reclaim(id) PROVE \A i \in Id : Aged(i)
  <2> DEFINE e == [delegations[id] EXCEPT !.deposit = 0]
  <2>1. delegations' = [delegations EXCEPT ![id] = e]
    BY <1>7, SMTT(30) DEF Reclaim
  <2>2. Later(delegations[id], e) /\ e.holds = delegations[id].holds
    BY <1>0, RecordsLater
  <2> HIDE DEF e
  <2> QED BY <2>1, <2>2, OneAged
<1>8. ASSUME NEW id \in Id, Close(id) PROVE \A i \in Id : Aged(i)
  <2> DEFINE e == [BondSpent(delegations[id]) EXCEPT !.closed = TRUE, !.deposit = 0]
  <2>1. delegations' = [delegations EXCEPT ![id] = e]
    BY <1>8, SMTT(30) DEF Close
  <2>2. Later(delegations[id], e) /\ e.holds = delegations[id].holds
    BY <1>0, RecordsLater
  <2> HIDE DEF e
  <2> QED BY <2>1, <2>2, OneAged
<1>9. ASSUME NEW id \in Id, NEW ranges \in Revocation, Revoke(id, ranges)
      PROVE  \A i \in Id : Aged(i)
  <2> DEFINE n == delegations[id].epoch + 1
             e == [delegations[id] EXCEPT !.epoch = n]
  <2>1. delegations' = [delegations EXCEPT ![id] = e] /\ n \in Nat
    BY <1>0, <1>9 DEF Revoke
  <2> HIDE DEF n
  <2>2. Later(delegations[id], e) /\ e.holds = delegations[id].holds
    BY <1>0, <2>1, RecordsLater
  <2> HIDE DEF e
  <2> QED BY <2>1, <2>2, OneAged
<1>10. ASSUME delegations' = delegations PROVE \A i \in Id : Aged(i)
  BY <1>10, SameAged
<1> QED BY <1>1, <1>2, <1>3, <1>4, <1>5, <1>6, <1>7, <1>8, <1>9, <1>10, SettleAged
        DEF AccountStep, DeclareCapacity, Sign, Withdraw

----------------------------------------------------------------------------
(* Open challenges, holds and requests are counted exactly.                *)

IsOpen(c) == c.status = "Open"

IsStanding(c) == c.status = "Open" /\ c.byPrincipal

IsRequest(c, root) ==
  c.byPrincipal /\ c.status \in {"Answered", "Delivered"} /\ c.root = root

One(b) == IF b THEN 1 ELSE 0

CountInv == HoldsExact /\ OpenCountExact /\ DueExact

\* The sets counted are of challenges of these kinds, and finite.
LEMMA CountedSets ==
  ASSUME NEW id \in Id
  PROVE  /\ OpenOf(id) = {dg \in Digest : IsOpen(challenges[<<id, dg>>])}
         /\ Standing(id) = {dg \in Digest : IsStanding(challenges[<<id, dg>>])}
         /\ \A root : Requests(id, root) = {dg \in Digest : IsRequest(challenges[<<id, dg>>], root)}
         /\ Cardinality(OpenOf(id)) \in Nat /\ Cardinality(Standing(id)) \in Nat
         /\ \A root : Cardinality(Requests(id, root)) \in Nat
<1>1. /\ OpenOf(id) \subseteq Digest /\ Standing(id) \subseteq Digest
      /\ \A root : Requests(id, root) \subseteq Digest
  BY DEF OpenOf, Standing, Requests
<1>2. \A S \in SUBSET Digest : Cardinality(S) \in Nat
  BY DigestFinite, FS_Subset, FS_CardinalityType
<1>3. /\ OpenOf(id) = {dg \in Digest : IsOpen(challenges[<<id, dg>>])}
      /\ Standing(id) = {dg \in Digest : IsStanding(challenges[<<id, dg>>])}
      /\ \A root : Requests(id, root) = {dg \in Digest : IsRequest(challenges[<<id, dg>>], root)}
  BY DEF OpenOf, Standing, Requests, IsOpen, IsStanding, IsRequest
<1> QED BY <1>1, <1>2, <1>3

\* One challenge changes: each count changes by what it was and what it is.
LEMMA OneCounted ==
  ASSUME NEW id \in Id, NEW dg \in Digest,
         \A k \in Key : k # <<id, dg>> => challenges'[k] = challenges[k]
  PROVE  LET c == challenges[<<id, dg>>]
             e == challenges'[<<id, dg>>] IN
         \A i \in Id :
           /\ Cardinality(OpenOf(i)') =
                Cardinality(OpenOf(i)) + IF i = id THEN One(IsOpen(e)) - One(IsOpen(c)) ELSE 0
           /\ Cardinality(Standing(i)') =
                Cardinality(Standing(i))
                  + IF i = id THEN One(IsStanding(e)) - One(IsStanding(c)) ELSE 0
           /\ \A root \in BatchRoot :
                Cardinality(Requests(i, root)') =
                  Cardinality(Requests(i, root))
                    + IF i = id THEN One(IsRequest(e, root)) - One(IsRequest(c, root)) ELSE 0
<1> DEFINE c == challenges[<<id, dg>>]
           e == challenges'[<<id, dg>>]
<1>1. \A i \in Id, g \in Digest :
        i # id \/ g # dg => challenges'[<<i, g>>] = challenges[<<i, g>>]
  <2> SUFFICES ASSUME NEW i \in Id, NEW g \in Digest, i # id \/ g # dg
               PROVE challenges'[<<i, g>>] = challenges[<<i, g>>]
    OBVIOUS
  <2>1. <<i, g>> \in Key /\ <<i, g>> # <<id, dg>>
    BY DEF Key
  <2> QED BY <2>1
<1>2. ASSUME NEW i \in Id
      PROVE  /\ OpenOf(i)' = {g \in Digest : IsOpen(challenges'[<<i, g>>])}
             /\ Standing(i)' = {g \in Digest : IsStanding(challenges'[<<i, g>>])}
             /\ \A root : Requests(i, root)' =
                            {g \in Digest : IsRequest(challenges'[<<i, g>>], root)}
  BY DEF OpenOf, Standing, Requests, IsOpen, IsStanding, IsRequest
<1>3. ASSUME NEW i \in Id, i # id
      PROVE  /\ OpenOf(i)' = OpenOf(i) /\ Standing(i)' = Standing(i)
             /\ \A root : Requests(i, root)' = Requests(i, root)
  <2>1. \A g \in Digest : challenges'[<<i, g>>] = challenges[<<i, g>>]
    BY <1>1, <1>3
  <2> QED BY <2>1 DEF OpenOf, Standing, Requests
<1>4. Cardinality(OpenOf(id)') = Cardinality(OpenOf(id)) + One(IsOpen(e)) - One(IsOpen(c))
  <2>1. /\ OpenOf(id) \subseteq Digest /\ OpenOf(id)' \subseteq Digest
        /\ dg \in OpenOf(id) <=> IsOpen(c)
        /\ dg \in OpenOf(id)' <=> IsOpen(e)
        /\ \A y \in Digest : y # dg => (y \in OpenOf(id)' <=> y \in OpenOf(id))
    BY <1>1, <1>2, CountedSets
  <2>2. Cardinality(OpenOf(id)') = Cardinality(OpenOf(id))
                                   + (IF dg \in OpenOf(id)' THEN 1 ELSE 0)
                                   - (IF dg \in OpenOf(id) THEN 1 ELSE 0)
    BY <2>1, DigestFinite, OneMember
  <2> QED BY <2>1, <2>2 DEF One
<1>5. Cardinality(Standing(id)') =
        Cardinality(Standing(id)) + One(IsStanding(e)) - One(IsStanding(c))
  <2>1. /\ Standing(id) \subseteq Digest /\ Standing(id)' \subseteq Digest
        /\ dg \in Standing(id) <=> IsStanding(c)
        /\ dg \in Standing(id)' <=> IsStanding(e)
        /\ \A y \in Digest : y # dg => (y \in Standing(id)' <=> y \in Standing(id))
    BY <1>1, <1>2, CountedSets
  <2>2. Cardinality(Standing(id)') = Cardinality(Standing(id))
                                     + (IF dg \in Standing(id)' THEN 1 ELSE 0)
                                     - (IF dg \in Standing(id) THEN 1 ELSE 0)
    BY <2>1, DigestFinite, OneMember
  <2> QED BY <2>1, <2>2 DEF One
<1>6. ASSUME NEW root \in BatchRoot
      PROVE  Cardinality(Requests(id, root)') =
               Cardinality(Requests(id, root)) + One(IsRequest(e, root)) - One(IsRequest(c, root))
  <2>1. /\ Requests(id, root) \subseteq Digest /\ Requests(id, root)' \subseteq Digest
        /\ dg \in Requests(id, root) <=> IsRequest(c, root)
        /\ dg \in Requests(id, root)' <=> IsRequest(e, root)
        /\ \A y \in Digest : y # dg => (y \in Requests(id, root)' <=> y \in Requests(id, root))
    <3>1. \A y \in Digest : y # dg => challenges'[<<id, y>>] = challenges[<<id, y>>]
      BY <1>1
    <3> QED BY <3>1 DEF Requests, IsRequest
  <2>2. Cardinality(Requests(id, root)') = Cardinality(Requests(id, root))
                                           + (IF dg \in Requests(id, root)' THEN 1 ELSE 0)
                                           - (IF dg \in Requests(id, root) THEN 1 ELSE 0)
    BY <2>1, DigestFinite, OneMember
  <2> QED BY <2>1, <2>2 DEF One
<1> HIDE DEF c, e
<1>7. One(IsOpen(c)) \in Nat /\ One(IsOpen(e)) \in Nat
      /\ One(IsStanding(c)) \in Nat /\ One(IsStanding(e)) \in Nat
      /\ \A root : One(IsRequest(c, root)) \in Nat /\ One(IsRequest(e, root)) \in Nat
  BY DEF One
<1>8. ASSUME NEW i \in Id
      PROVE  /\ Cardinality(OpenOf(i)) \in Nat /\ Cardinality(Standing(i)) \in Nat
             /\ \A root : Cardinality(Requests(i, root)) \in Nat
  BY CountedSets
<1>9. ASSUME NEW i \in Id
      PROVE  /\ Cardinality(OpenOf(i)') =
                  Cardinality(OpenOf(i)) + IF i = id THEN One(IsOpen(e)) - One(IsOpen(c)) ELSE 0
             /\ Cardinality(Standing(i)') =
                  Cardinality(Standing(i))
                    + IF i = id THEN One(IsStanding(e)) - One(IsStanding(c)) ELSE 0
             /\ \A root \in BatchRoot :
                  Cardinality(Requests(i, root)') =
                    Cardinality(Requests(i, root))
                      + IF i = id THEN One(IsRequest(e, root)) - One(IsRequest(c, root)) ELSE 0
  <2>1. CASE i = id
    BY <1>4, <1>5, <1>6, <1>7, <1>8, <2>1
  <2>2. CASE i # id
    BY <1>3, <1>8, <2>2
  <2> QED BY <2>1, <2>2
<1> QED BY <1>9 DEF c, e

\* So the counts stay exact where the contract changes its own by as much.
LEMMA OneExact ==
  ASSUME CountInv, NEW id \in Id, NEW dg \in Digest, NEW c, NEW e,
         c = challenges[<<id, dg>>], e = challenges'[<<id, dg>>],
         \A k \in Key : k # <<id, dg>> => challenges'[k] = challenges[k],
         \A i \in Id :
           /\ openCount'[i] =
                openCount[i] + IF i = id THEN One(IsOpen(e)) - One(IsOpen(c)) ELSE 0
           /\ delegations'[i].holds =
                delegations[i].holds + IF i = id THEN One(IsStanding(e)) - One(IsStanding(c)) ELSE 0
           /\ \A root \in BatchRoot :
                batches'[i][root].due =
                  batches[i][root].due
                    + IF i = id THEN One(IsRequest(e, root)) - One(IsRequest(c, root)) ELSE 0
  PROVE  CountInv'
<1>1. \A i \in Id :
           /\ Cardinality(OpenOf(i)') =
                Cardinality(OpenOf(i)) + IF i = id THEN One(IsOpen(e)) - One(IsOpen(c)) ELSE 0
           /\ Cardinality(Standing(i)') =
                Cardinality(Standing(i))
                  + IF i = id THEN One(IsStanding(e)) - One(IsStanding(c)) ELSE 0
           /\ \A root \in BatchRoot :
                Cardinality(Requests(i, root)') =
                  Cardinality(Requests(i, root))
                    + IF i = id THEN One(IsRequest(e, root)) - One(IsRequest(c, root)) ELSE 0
  BY OneCounted
<1>2. ASSUME NEW i \in Id
      PROVE  /\ openCount'[i] = Cardinality(OpenOf(i)')
             /\ delegations'[i].holds = Cardinality(Standing(i)')
             /\ \A root \in BatchRoot : batches'[i][root].due = Cardinality(Requests(i, root)')
  BY <1>1 DEF CountInv, HoldsExact, OpenCountExact, DueExact
<1> QED BY <1>2 DEF CountInv, HoldsExact, OpenCountExact, DueExact

\* Nothing counted changes.
LEMMA SameExact ==
  ASSUME CountInv, challenges' = challenges, openCount' = openCount,
         \A i \in Id : delegations'[i].holds = delegations[i].holds,
         \A i \in Id, root \in BatchRoot : batches'[i][root].due = batches[i][root].due
  PROVE  CountInv'
<1>1. \A i \in Id : /\ OpenOf(i)' = OpenOf(i) /\ Standing(i)' = Standing(i)
                    /\ \A root : Requests(i, root)' = Requests(i, root)
  BY DEF OpenOf, Standing, Requests
<1> QED BY <1>1 DEF CountInv, HoldsExact, OpenCountExact, DueExact

\* What each call of the reserve's does to the holds.
LEMMA CallHolds ==
  ASSUME TypeInv
  PROVE  /\ NoCall => \A i \in Id : delegations'[i].holds = delegations[i].holds
         /\ \A id \in Id : Hold(id) =>
              \A i \in Id : delegations'[i].holds =
                              delegations[i].holds + IF i = id THEN 1 ELSE 0
         /\ \A n : Release(n) =>
              \A i \in Id : /\ delegations[i].holds >= n[i]
                            /\ delegations'[i].holds = delegations[i].holds - n[i]
         /\ \A id \in Id, unheld \in Nat : Forfeit(id, unheld) =>
              \A i \in Id : delegations'[i].holds =
                              delegations[i].holds - IF i = id THEN unheld ELSE 0
         /\ \A id \in Id : \A caller, bounty : SlashAnswerer(id, caller, bounty) =>
              \A i \in Id : delegations'[i].holds = delegations[i].holds
<1>0. /\ delegations \in [Id -> Delegation] /\ now \in Nat
      /\ \A i \in Id : delegations[i] \in Delegation /\ delegations[i].holds \in Nat
  BY FieldTypes DEF TypeInv, ReserveTypeOK
<1>1. NoCall => \A i \in Id : delegations'[i].holds = delegations[i].holds
  BY DEF NoCall
<1>2. ASSUME NEW id \in Id, Hold(id), NEW i \in Id
      PROVE  delegations'[i].holds = delegations[i].holds + IF i = id THEN 1 ELSE 0
  BY <1>0, <1>2 DEF Hold, Delegation
<1>3. ASSUME NEW n, Release(n), NEW i \in Id
      PROVE  /\ delegations[i].holds >= n[i]
             /\ delegations'[i].holds = delegations[i].holds - n[i]
  BY <1>0, <1>3 DEF Release, Delegation
<1>4. ASSUME NEW id \in Id, NEW unheld \in Nat, Forfeit(id, unheld), NEW i \in Id
      PROVE  delegations'[i].holds = delegations[i].holds - IF i = id THEN unheld ELSE 0
  <2> DEFINE e == BondSpent(Froze(delegations[id]))
  <2>1. e \in Delegation /\ e.holds = delegations[id].holds
    BY <1>0, RecordsLater, FrozeUpdate, SpentUpdate
  <2>2. delegations' = [delegations EXCEPT ![id] = [e EXCEPT !.holds = e.holds - unheld]]
    BY <1>4 DEF Forfeit
  <2> HIDE DEF e
  <2> QED BY <1>0, <2>1, <2>2, SMTT(30) DEF Delegation
<1>5. ASSUME NEW id \in Id, NEW caller, NEW bounty, SlashAnswerer(id, caller, bounty), NEW i \in Id
      PROVE  delegations'[i].holds = delegations[i].holds
  BY <1>0, <1>5 DEF SlashAnswerer, Delegation
<1> QED BY <1>1, <1>2, <1>3, <1>4, <1>5

\* open counts a challenge, and holds for one of the principal's.
LEMMA OpenExact ==
  ASSUME ReserveInv, ChallengeInv, CountInv, NEW id \in Id, NEW dg \in Digest, NEW sender,
         NEW bond, NEW deposit, NEW excess, Open(sender, id, dg, bond, deposit, excess)
  PROVE  CountInv'
<1> DEFINE c == challenges[<<id, dg>>]
           e == Opened(sender, id, bond, DeadlineOf(sender, id))
<1>1. TypeInv /\ DisputeTypeOK
  BY DEF ReserveInv, ChallengeInv
<1>2. /\ c.status = "None" /\ batches' = batches
      /\ challenges' = [challenges EXCEPT ![<<id, dg>>] = e]
      /\ openCount' = [openCount EXCEPT ![id] = openCount[id] + 1]
      /\ IF Asks(sender, id) THEN Hold(id) ELSE NoCall
  BY DEF Open, Opened, DeadlineOf
<1>3. e.status = "Open" /\ e.byPrincipal = Asks(sender, id)
  BY DEF Opened
<1> HIDE DEF e
<1>4. /\ challenges'[<<id, dg>>] = e
      /\ \A k \in Key : k # <<id, dg>> => challenges'[k] = challenges[k]
  BY <1>1, <1>2 DEF DisputeTypeOK, Key
<1>5. ASSUME NEW i \in Id
      PROVE  /\ openCount'[i] =
                  openCount[i] + IF i = id THEN One(IsOpen(e)) - One(IsOpen(c)) ELSE 0
             /\ delegations'[i].holds =
                  delegations[i].holds
                    + IF i = id THEN One(IsStanding(e)) - One(IsStanding(c)) ELSE 0
             /\ \A root \in BatchRoot :
                  batches'[i][root].due =
                    batches[i][root].due
                      + IF i = id THEN One(IsRequest(e, root)) - One(IsRequest(c, root)) ELSE 0
  <2>1. openCount'[i] = openCount[i] + IF i = id THEN One(IsOpen(e)) - One(IsOpen(c)) ELSE 0
    BY <1>1, <1>2, <1>3, SMTT(60) DEF One, IsOpen, TypeInv, ReserveTypeOK
  <2>2. delegations[i].holds \in Nat
    BY <1>1, FieldTypes DEF TypeInv, ReserveTypeOK
  <2>3. delegations'[i].holds =
          delegations[i].holds + IF i = id THEN One(IsStanding(e)) - One(IsStanding(c)) ELSE 0
    <3>1. CASE Asks(sender, id)
      <4>1. delegations'[i].holds = delegations[i].holds + IF i = id THEN 1 ELSE 0
        BY <1>1, <1>2, <3>1, CallHolds
      <4> QED BY <1>2, <1>3, <2>2, <3>1, <4>1 DEF One, IsStanding
    <3>2. CASE ~Asks(sender, id)
      <4>1. delegations'[i].holds = delegations[i].holds
        BY <1>1, <1>2, <3>2, CallHolds
      <4> QED BY <1>2, <1>3, <2>2, <3>2, <4>1 DEF One, IsStanding
    <3> QED BY <3>1, <3>2
  <2>4. \A root \in BatchRoot : batches[i][root].due \in Nat
    BY <1>1 DEF DisputeTypeOK, BatchPosting
  <2> QED BY <1>2, <1>3, <2>1, <2>3, <2>4 DEF One, IsRequest
<1> QED BY <1>4, <1>5, OneExact

\* join holds for an open challenge, or counts a request under its root.
LEMMA JoinExact ==
  ASSUME ReserveInv, ChallengeInv, CountInv, NEW id \in Id, NEW dg \in Digest, NEW sender,
         NEW deposit, NEW excess, Join(sender, id, dg, deposit, excess)
  PROVE  CountInv'
<1> DEFINE c == challenges[<<id, dg>>]
<1>1. /\ TypeInv /\ DisputeTypeOK /\ <<id, dg>> \in Key
      /\ \A i \in Id : openCount[i] \in Nat
  BY DEF ReserveInv, ChallengeInv, Key, TypeInv, ReserveTypeOK
<1>2. c \in Challenge /\ c.byPrincipal \in BOOLEAN /\ ~c.byPrincipal
  BY <1>1, ChallengeFields DEF Join
<1>3. \A i \in Id : /\ delegations[i].holds \in Nat
                    /\ \A root \in BatchRoot : batches[i][root].due \in Nat
  BY <1>1, FieldTypes, ZenonT(40) DEF TypeInv, ReserveTypeOK, DisputeTypeOK, BatchPosting
<1>4. CASE JoinOpen(id, dg)
  <2>1. PICK due : challenges' = [challenges EXCEPT ![<<id, dg>>] = Joined(c, due)]
    BY <1>4 DEF JoinOpen, Joined
  <2> DEFINE e == Joined(c, due)
  <2>2. c.status = "Open" /\ Hold(id) /\ openCount' = openCount /\ batches' = batches
    BY <1>4 DEF JoinOpen
  <2>3. e.status = "Open" /\ e.byPrincipal
    BY <1>2, <2>2 DEF Joined, Challenge
  <2> HIDE DEF e
  <2>4. /\ challenges'[<<id, dg>>] = e
        /\ \A k \in Key : k # <<id, dg>> => challenges'[k] = challenges[k]
    <3>1. challenges' = [challenges EXCEPT ![<<id, dg>>] = e]
      BY <2>1 DEF e
    <3> QED BY <1>1, <3>1 DEF DisputeTypeOK, Key
  <2>5. \A i \in Id : delegations'[i].holds = delegations[i].holds + IF i = id THEN 1 ELSE 0
    BY <1>1, <2>2, CallHolds
  <2>6. /\ One(IsOpen(e)) = 1 /\ One(IsOpen(c)) = 1
        /\ One(IsStanding(e)) = 1 /\ One(IsStanding(c)) = 0
        /\ \A root : One(IsRequest(e, root)) = 0 /\ One(IsRequest(c, root)) = 0
    BY <1>2, <2>2, <2>3 DEF One, IsOpen, IsStanding, IsRequest
  <2>7. ASSUME NEW i \in Id
        PROVE  /\ openCount'[i] =
                    openCount[i] + IF i = id THEN One(IsOpen(e)) - One(IsOpen(c)) ELSE 0
               /\ delegations'[i].holds =
                    delegations[i].holds
                      + IF i = id THEN One(IsStanding(e)) - One(IsStanding(c)) ELSE 0
               /\ \A root \in BatchRoot :
                    batches'[i][root].due =
                      batches[i][root].due
                        + IF i = id THEN One(IsRequest(e, root)) - One(IsRequest(c, root)) ELSE 0
    BY <1>1, <1>3, <2>2, <2>5, <2>6
  <2> HIDE DEF c
  <2> QED BY <2>4, <2>7, OneExact DEF c
<1>5. CASE JoinAnswered(id, dg)
  <2>1. PICK due : challenges' = [challenges EXCEPT ![<<id, dg>>] = Joined(c, due)]
    BY <1>5 DEF JoinAnswered, Joined
  <2> DEFINE e == Joined(c, due)
  <2>2. /\ c.status = "Answered" /\ NoCall /\ openCount' = openCount
        /\ batches' = [batches EXCEPT ![id][c.root].due = batches[id][c.root].due + 1]
    BY <1>5 DEF JoinAnswered
  <2>3. e.status = "Answered" /\ e.byPrincipal /\ e.root = c.root
    BY <1>2, <2>2 DEF Joined, Challenge
  <2>4. c.root \in BatchRoot
    BY <1>1, <2>2 DEF ChallengeInv, Challenged
  <2> HIDE DEF e
  <2>5. /\ challenges'[<<id, dg>>] = e
        /\ \A k \in Key : k # <<id, dg>> => challenges'[k] = challenges[k]
    <3>1. challenges' = [challenges EXCEPT ![<<id, dg>>] = e]
      BY <2>1 DEF e
    <3> QED BY <1>1, <3>1 DEF DisputeTypeOK, Key
  <2>6. \A i \in Id : delegations'[i].holds = delegations[i].holds
    BY <1>1, <2>2, CallHolds
  <2>7. /\ One(IsOpen(e)) = 0 /\ One(IsOpen(c)) = 0
        /\ One(IsStanding(e)) = 0 /\ One(IsStanding(c)) = 0
        /\ \A root : /\ One(IsRequest(e, root)) = IF root = c.root THEN 1 ELSE 0
                     /\ One(IsRequest(c, root)) = 0
    BY <1>2, <2>2, <2>3 DEF One, IsOpen, IsStanding, IsRequest
  <2>8. \A i \in Id, root \in BatchRoot :
          batches'[i][root].due = batches[i][root].due + IF i = id /\ root = c.root THEN 1 ELSE 0
    BY <1>1, <1>3, <2>2, <2>4 DEF DisputeTypeOK, BatchPosting
  <2>9. ASSUME NEW i \in Id
        PROVE  /\ openCount'[i] =
                    openCount[i] + IF i = id THEN One(IsOpen(e)) - One(IsOpen(c)) ELSE 0
               /\ delegations'[i].holds =
                    delegations[i].holds
                      + IF i = id THEN One(IsStanding(e)) - One(IsStanding(c)) ELSE 0
               /\ \A root \in BatchRoot :
                    batches'[i][root].due =
                      batches[i][root].due
                        + IF i = id THEN One(IsRequest(e, root)) - One(IsRequest(c, root)) ELSE 0
    BY <1>1, <1>3, <2>2, <2>6, <2>7, <2>8
  <2> HIDE DEF c
  <2> QED BY <2>5, <2>9, OneExact DEF c
<1> QED BY <1>4, <1>5 DEF Join

\* cancel uncounts a challenge the principal opened, or a request it made.
LEMMA CancelExact ==
  ASSUME ReserveInv, ChallengeInv, CountInv, NEW id \in Id, NEW dg \in Digest, NEW sender,
         Cancel(sender, id, dg)
  PROVE  CountInv'
<1> DEFINE c == challenges[<<id, dg>>]
<1>1. /\ TypeInv /\ DisputeTypeOK /\ <<id, dg>> \in Key
      /\ openCount \in [Id -> Nat] /\ \A i \in Id : openCount[i] \in Nat
  BY DEF ReserveInv, ChallengeInv, Key, TypeInv, ReserveTypeOK
<1>2. c \in Challenge /\ c.joined \in BOOLEAN /\ c.byPrincipal
  BY <1>1, ChallengeFields DEF Cancel
<1>3. \A i \in Id : /\ delegations[i].holds \in Nat
                    /\ \A root \in BatchRoot : batches[i][root].due \in Nat
  BY <1>1, FieldTypes, ZenonT(40) DEF TypeInv, ReserveTypeOK, DisputeTypeOK, BatchPosting
<1>4. CASE CancelOpen(id, dg)
  <2> DEFINE left == [c EXCEPT !.byPrincipal = FALSE, !.joined = FALSE]
             e == IF c.joined THEN left ELSE [left EXCEPT !.status = "Cancelled"]
  <2>1. /\ c.status = "Open" /\ Release(Only(id)) /\ batches' = batches
        /\ challenges' = [challenges EXCEPT ![<<id, dg>>] = e]
        /\ IF c.joined THEN openCount' = openCount
                       ELSE openCount' = [openCount EXCEPT ![id] = openCount[id] - 1]
    BY <1>4 DEF CancelOpen, OneLess
  <2>2. ~e.byPrincipal /\ (e.status = "Open" <=> c.joined)
        /\ e.status \in {"Open", "Cancelled"}
    BY <1>2, <2>1 DEF Challenge
  <2> HIDE DEF e
  <2>3. /\ challenges'[<<id, dg>>] = e
        /\ \A k \in Key : k # <<id, dg>> => challenges'[k] = challenges[k]
    BY <1>1, <2>1 DEF DisputeTypeOK, Key
  <2>4. \A i \in Id : delegations'[i].holds = delegations[i].holds - IF i = id THEN 1 ELSE 0
    <3>1. \A i \in Id : delegations'[i].holds = delegations[i].holds - Only(id)[i]
      BY <1>1, <2>1, CallHolds
    <3> QED BY <3>1 DEF Only
  <2>5. /\ One(IsOpen(e)) = (IF c.joined THEN 1 ELSE 0) /\ One(IsOpen(c)) = 1
        /\ One(IsStanding(e)) = 0 /\ One(IsStanding(c)) = 1
        /\ \A root : One(IsRequest(e, root)) = 0 /\ One(IsRequest(c, root)) = 0
    BY <1>2, <2>1, <2>2 DEF One, IsOpen, IsStanding, IsRequest
  <2>6. ASSUME NEW i \in Id
        PROVE  /\ openCount'[i] =
                    openCount[i] + IF i = id THEN One(IsOpen(e)) - One(IsOpen(c)) ELSE 0
               /\ delegations'[i].holds =
                    delegations[i].holds
                      + IF i = id THEN One(IsStanding(e)) - One(IsStanding(c)) ELSE 0
               /\ \A root \in BatchRoot :
                    batches'[i][root].due =
                      batches[i][root].due
                        + IF i = id THEN One(IsRequest(e, root)) - One(IsRequest(c, root)) ELSE 0
    BY <1>1, <1>3, <2>1, <2>4, <2>5
  <2> HIDE DEF c
  <2> QED BY <2>3, <2>6, OneExact DEF c
<1>5. CASE CancelAnswered(id, dg)
  <2> DEFINE e == [c EXCEPT !.byPrincipal = FALSE, !.joined = FALSE,
                            !.status = IF c.joined THEN c.status ELSE "Cancelled"]
  <2>1. /\ c.status \in {"Answered", "Delivered"} /\ NoCall /\ openCount' = openCount
        /\ challenges' = [challenges EXCEPT ![<<id, dg>>] = e]
        /\ batches' = [batches EXCEPT ![id][c.root].due = batches[id][c.root].due - 1]
    BY <1>5 DEF CancelAnswered
  <2>2. c.root \in BatchRoot
    BY <1>1, <2>1 DEF ChallengeInv, Challenged
  <2>3. ~e.byPrincipal /\ e.status # "Open"
    BY <1>2, <2>1 DEF Challenge
  <2> HIDE DEF e
  <2>4. /\ challenges'[<<id, dg>>] = e
        /\ \A k \in Key : k # <<id, dg>> => challenges'[k] = challenges[k]
    BY <1>1, <2>1 DEF DisputeTypeOK, Key
  <2>5. \A i \in Id : delegations'[i].holds = delegations[i].holds
    BY <1>1, <2>1, CallHolds
  <2>6. /\ One(IsOpen(e)) = 0 /\ One(IsOpen(c)) = 0
        /\ One(IsStanding(e)) = 0 /\ One(IsStanding(c)) = 0
        /\ \A root : /\ One(IsRequest(c, root)) = IF root = c.root THEN 1 ELSE 0
                     /\ One(IsRequest(e, root)) = 0
    BY <1>2, <2>1, <2>3 DEF One, IsOpen, IsStanding, IsRequest
  <2>7. \A i \in Id, root \in BatchRoot :
          batches'[i][root].due = batches[i][root].due - IF i = id /\ root = c.root THEN 1 ELSE 0
    BY <1>1, <1>3, <2>1, <2>2 DEF DisputeTypeOK, BatchPosting
  <2>8. ASSUME NEW i \in Id
        PROVE  /\ openCount'[i] =
                    openCount[i] + IF i = id THEN One(IsOpen(e)) - One(IsOpen(c)) ELSE 0
               /\ delegations'[i].holds =
                    delegations[i].holds
                      + IF i = id THEN One(IsStanding(e)) - One(IsStanding(c)) ELSE 0
               /\ \A root \in BatchRoot :
                    batches'[i][root].due =
                      batches[i][root].due
                        + IF i = id THEN One(IsRequest(e, root)) - One(IsRequest(c, root)) ELSE 0
    BY <1>1, <1>3, <2>1, <2>5, <2>6, <2>7
  <2> HIDE DEF c
  <2> QED BY <2>4, <2>8, OneExact DEF c
<1> QED BY <1>4, <1>5 DEF Cancel

\* expire uncounts a challenge, and releases what the principal's held.
LEMMA ExpireExact ==
  ASSUME ReserveInv, ChallengeInv, CountInv, NEW id \in Id, NEW dg \in Digest, Expire(id, dg)
  PROVE  CountInv'
<1> DEFINE c == challenges[<<id, dg>>]
           e == [c EXCEPT !.status = "Expired"]
           unheld == IF c.byPrincipal THEN 1 ELSE 0
<1>1. /\ TypeInv /\ DisputeTypeOK /\ <<id, dg>> \in Key
      /\ openCount \in [Id -> Nat] /\ \A i \in Id : openCount[i] \in Nat
  BY DEF ReserveInv, ChallengeInv, Key, TypeInv, ReserveTypeOK
<1>2. c \in Challenge /\ c.byPrincipal \in BOOLEAN
  BY <1>1, ChallengeFields
<1>3. \A i \in Id : /\ delegations[i].holds \in Nat
                    /\ \A root \in BatchRoot : batches[i][root].due \in Nat
  BY <1>1, FieldTypes, ZenonT(40) DEF TypeInv, ReserveTypeOK, DisputeTypeOK, BatchPosting
<1>4. /\ c.status = "Open" /\ Forfeit(id, unheld) /\ batches' = batches
      /\ challenges' = [challenges EXCEPT ![<<id, dg>>] = e]
      /\ openCount' = [openCount EXCEPT ![id] = openCount[id] - 1]
  BY DEF Expire, OneLess
<1>5. e.status = "Expired"
  BY <1>2 DEF Challenge
<1>6. unheld \in Nat
  OBVIOUS
<1> HIDE DEF e, unheld
<1>7. /\ challenges'[<<id, dg>>] = e
      /\ \A k \in Key : k # <<id, dg>> => challenges'[k] = challenges[k]
  BY <1>1, <1>4 DEF DisputeTypeOK, Key
<1>8. \A i \in Id : delegations'[i].holds = delegations[i].holds - IF i = id THEN unheld ELSE 0
  BY <1>1, <1>4, <1>6, CallHolds
<1>9. /\ One(IsOpen(e)) = 0 /\ One(IsOpen(c)) = 1
      /\ One(IsStanding(e)) = 0 /\ One(IsStanding(c)) = unheld
      /\ \A root : One(IsRequest(e, root)) = 0 /\ One(IsRequest(c, root)) = 0
  BY <1>2, <1>4, <1>5 DEF One, IsOpen, IsStanding, IsRequest, unheld
<1>10. ASSUME NEW i \in Id
       PROVE  /\ openCount'[i] =
                   openCount[i] + IF i = id THEN One(IsOpen(e)) - One(IsOpen(c)) ELSE 0
              /\ delegations'[i].holds =
                   delegations[i].holds
                     + IF i = id THEN One(IsStanding(e)) - One(IsStanding(c)) ELSE 0
              /\ \A root \in BatchRoot :
                   batches'[i][root].due =
                     batches[i][root].due
                       + IF i = id THEN One(IsRequest(e, root)) - One(IsRequest(c, root)) ELSE 0
  BY <1>1, <1>3, <1>4, <1>6, <1>8, <1>9
<1> HIDE DEF c
<1> QED BY <1>7, <1>10, OneExact DEF c

\* Refunding and binding change no number of requests due.
LEMMA RefundDue ==
  ASSUME NEW id \in Id, NEW root \in BatchRoot, NEW sender, NEW fee,
         NEW b \in [Id -> [BatchRoot -> BatchPosting]], Refund(sender, id, root, b, fee)
  PROVE  \A i \in Id, q \in BatchRoot :
           /\ batches'[i][q].due = b[i][q].due
           /\ batches'[i][q].proofHash = b[i][q].proofHash
           /\ batches'[i][q].sealedRoot = b[i][q].sealedRoot
<1> DEFINE lapsed == b[id][root].lapsed \/ fee > postingPool[id]
<1>1. batches' = b \/ batches' = [b EXCEPT ![id][root].lapsed = lapsed]
  BY DEF Refund
<1> HIDE DEF lapsed
<1>2. \A i \in Id, q \in BatchRoot : b[i][q] \in BatchPosting /\ b[i] \in [BatchRoot -> BatchPosting]
  OBVIOUS
<1>3. ASSUME batches' = [b EXCEPT ![id][root].lapsed = lapsed], NEW i \in Id, NEW q \in BatchRoot
      PROVE  batches'[i][q] = IF i = id /\ q = root THEN [b[i][q] EXCEPT !.lapsed = lapsed]
                                                   ELSE b[i][q]
  BY <1>2, <1>3
<1>4. ASSUME NEW p \in BatchPosting
      PROVE  LET u == [p EXCEPT !.lapsed = lapsed] IN
             u.due = p.due /\ u.proofHash = p.proofHash /\ u.sealedRoot = p.sealedRoot
  BY DEF BatchPosting
<1> QED BY <1>1, <1>2, <1>3, <1>4, ZenonT(40)

\* Binding a receipt's proof changes what is bound of its batch, and no count.
LEMMA BoundDue ==
  ASSUME DisputeTypeOK, NEW id \in Id, NEW r \in receipts
  PROVE  \A i \in Id, q \in BatchRoot :
           /\ BoundTo(id, r)[i][q].due = batches[i][q].due
           /\ BoundTo(id, r)[i][q].proofHash =
                IF i = id /\ q = r.root THEN r.proofHash ELSE batches[i][q].proofHash
           /\ BoundTo(id, r)[i][q].sealedRoot =
                IF i = id /\ q = r.root THEN r.sealedRoot ELSE batches[i][q].sealedRoot
<1>1. batches \in [Id -> [BatchRoot -> BatchPosting]] /\ r.root \in BatchRoot
  BY DEF DisputeTypeOK, Receipt
<1> QED BY <1>1 DEF BoundTo, BatchPosting

\* An answer of many uncounts them all, releases what they held, and counts the
\* principal's under the roots that answered them.
LEMMA AnswerExact ==
  ASSUME ReserveInv, ChallengeInv, CountInv, NEW keys \in SUBSET Due,
         NEW items \in [keys -> Provable], Answer(items)
  PROVE  CountInv'
<1>1. /\ DOMAIN items = keys /\ keys \subseteq Key /\ IsFiniteSet(keys)
      /\ settled' = settled
      /\ \A k \in keys : /\ items[k] \in BatchRoot /\ k \in Batched[items[k]]
                         /\ challenges[k].status = "Open"
                         /\ challenges'[k] = AnsweredAs(k, items[k])
      /\ \A k \in Key : k \notin keys => challenges'[k] = challenges[k]
      /\ challenges' \in [Key -> Challenge]
  BY AnswerWrites
<1>2. /\ TypeInv /\ DisputeTypeOK
      /\ \A i \in Id : openCount[i] \in Nat /\ delegations[i].holds \in Nat
  BY FieldTypes DEF ReserveInv, ChallengeInv, TypeInv, ReserveTypeOK
<1>3. \A k \in keys : /\ challenges'[k].status = "Answered" /\ challenges'[k].root = items[k]
                      /\ challenges'[k].byPrincipal = challenges[k].byPrincipal
  BY <1>1, <1>2, AnsweredType
<1> SUFFICES ASSUME NEW i \in Id
             PROVE  /\ openCount'[i] = Cardinality(OpenOf(i)')
                    /\ delegations'[i].holds = Cardinality(Standing(i)')
                    /\ \A root \in BatchRoot :
                         batches'[i][root].due = Cardinality(Requests(i, root)')
  BY DEF CountInv, HoldsExact, OpenCountExact, DueExact
<1>4. \A g \in Digest : <<i, g>> \in Key
  BY DEF Key
<1>5. openCount'[i] = Cardinality(OpenOf(i)')
  <2> DEFINE R == Row(i, keys)
  <2>1. R \subseteq OpenOf(i) /\ OpenOf(i)' = OpenOf(i) \ R
    BY <1>1, <1>3, <1>4 DEF Row, OpenOf
  <2>2. IsFiniteSet(OpenOf(i)) /\ Cardinality(R) = Cardinality(Under(i, keys))
    BY <1>1, DigestFinite, FS_Subset, RowCount DEF OpenOf
  <2>3. OpenOf(i) \cap R = R
    BY <2>1
  <2> HIDE DEF R
  <2>4. Cardinality(OpenOf(i)') = Cardinality(OpenOf(i)) - Cardinality(R)
    <3>1. Cardinality(OpenOf(i) \ R) = Cardinality(OpenOf(i)) - Cardinality(OpenOf(i) \cap R)
      BY <2>2, FS_Difference
    <3> QED BY <2>1, <2>3, <3>1
  <2>5. openCount'[i] = openCount[i] - Cardinality(Under(i, keys))
    BY <1>1 DEF Answer
  <2> QED BY <2>2, <2>4, <2>5 DEF CountInv, OpenCountExact
<1>6. delegations'[i].holds = Cardinality(Standing(i)')
  <2> DEFINE Q == Requested(keys)
             R == Row(i, Q)
  <2>1. R \subseteq Standing(i) /\ Standing(i)' = Standing(i) \ R /\ Q \subseteq Key
    BY <1>1, <1>3, <1>4 DEF Row, Standing, OpenOf, Requested
  <2> HIDE DEF Q
  <2>2. IsFiniteSet(Standing(i)) /\ Cardinality(R) = Cardinality(Under(i, Q))
    BY <2>1, DigestFinite, FS_Subset, RowCount DEF Standing, OpenOf
  <2>3. Standing(i) \cap R = R
    BY <2>1
  <2> HIDE DEF R
  <2>4. Cardinality(Standing(i)') = Cardinality(Standing(i)) - Cardinality(R)
    BY <2>1, <2>2, <2>3, FS_Difference
  <2>5. delegations'[i].holds = delegations[i].holds - Cardinality(Under(i, Q))
    <3> DEFINE n == [id \in Id |-> Cardinality(Under(id, Q))]
    <3>1. Release(n)
      BY <1>1 DEF Answer, Q
    <3> HIDE DEF n
    <3>2. delegations'[i].holds = delegations[i].holds - n[i]
      BY <1>2, <3>1, CallHolds
    <3> QED BY <3>2, SMTT(30) DEF n
  <2> QED BY <2>2, <2>4, <2>5 DEF CountInv, HoldsExact
<1>7. ASSUME NEW root \in BatchRoot
      PROVE  batches'[i][root].due = Cardinality(Requests(i, root)')
  <2> DEFINE A == {k \in keys : challenges[k].byPrincipal /\ items[k] = root}
             R == Row(i, A)
  <2>1. /\ Requests(i, root)' = Requests(i, root) \cup R
        /\ Requests(i, root) \cap R = {} /\ A \subseteq Key
    BY <1>1, <1>3, <1>4 DEF Row, Requests
  <2>2. AskedUnder(i, keys, items, root) = Under(i, A)
    BY DEF AskedUnder, Under, Requested
  <2> HIDE DEF A
  <2>3. /\ IsFiniteSet(Requests(i, root)) /\ IsFiniteSet(R)
        /\ Cardinality(R) = Cardinality(Under(i, A)) /\ Cardinality(R) \in Nat
        /\ Cardinality(Requests(i, root)) \in Nat
    <3>1. Requests(i, root) \subseteq Digest
      BY DEF Requests
    <3>2. IsFiniteSet(R) /\ Cardinality(R) = Cardinality(Under(i, A))
      BY <2>1, RowCount
    <3> HIDE DEF R
    <3> QED BY <3>1, <3>2, DigestFinite, FS_Subset, FS_CardinalityType
  <2> HIDE DEF R
  <2>4. Cardinality(Requests(i, root)') = Cardinality(Requests(i, root)) + Cardinality(R)
    <3>1. Cardinality({}) = 0
      BY FS_EmptySet
    <3>2. Cardinality(Requests(i, root) \cup R) =
            Cardinality(Requests(i, root)) + Cardinality(R) - Cardinality(Requests(i, root) \cap R)
      BY <2>3, FS_Union
    <3> QED BY <2>1, <2>3, <3>1, <3>2
  <2>5. batches'[i][root].due =
          batches[i][root].due + Cardinality(AskedUnder(i, keys, items, root))
    <3> DEFINE n == batches[i][root].due + Cardinality(AskedUnder(i, keys, items, root))
    <3>1. batches'[i][root] = [batches[i][root] EXCEPT !.due = n]
      BY <1>1 DEF Answer, AskedUnder
    <3>2. batches[i][root] \in BatchPosting
      BY <1>2 DEF DisputeTypeOK
    <3> HIDE DEF n
    <3>3. batches'[i][root].due = n
      BY <3>1, <3>2 DEF BatchPosting
    <3> QED BY <3>3, SMTT(30) DEF n
  <2> QED BY <2>2, <2>3, <2>4, <2>5 DEF CountInv, DueExact
<1> QED BY <1>5, <1>6, <1>7

\* The transactions that write no challenge.
PostingStep ==
  \/ \E id \in Id, value \in Donation : FundPosting(id, value)
  \/ \E id \in Id : ReturnPosting(id)
  \/ \E id \in Id, root \in BatchRoot, sealed \in SealedRoot, hash \in ProofHash :
       SignReceipt(id, root, sealed, hash)
  \/ \E sender \in Poster, id \in Id, hash \in ProofHash,
        chunk \in {"next", "wrong", "last"}, fee \in Fee :
       PostProof(sender, id, hash, chunk, fee)
  \/ \E sender \in Poster, id \in Id, dg \in Digest, r \in receipts, fee \in Fee :
       BindPosting(sender, id, dg, r, fee)
  \/ \E id \in Id, dg \in Digest, r \in receipts, caller \in Address :
       Slash(id, dg, r, caller)
  \/ \E a \in Address : WithdrawCredit(a)

\* They touch no queue, duty or answered root, hold nothing and release nothing.
LEMMA PostingKeeps ==
  ASSUME PostingStep
  PROVE  /\ UNCHANGED <<challenges, openCount, queueVars, dutyUntil, answeredRoots,
                        deliveredUnder>>
         /\ ArbiterKeeps
         /\ NoCall \/ \E id \in Id, caller \in Address : SlashAnswerer(id, caller, ProvingBond)
<1> DEFINE kept == UNCHANGED <<challenges, openCount, queueVars, dutyUntil, answeredRoots,
                               deliveredUnder>>
           called == NoCall \/ \E id \in Id, caller \in Address :
                                SlashAnswerer(id, caller, ProvingBond)
<1>1. ASSUME NEW id \in Id, NEW value \in Donation, FundPosting(id, value)
      PROVE  kept /\ called
  BY <1>1 DEF FundPosting
<1>2. ASSUME NEW id \in Id, ReturnPosting(id) PROVE kept /\ called
  BY <1>2 DEF ReturnPosting
<1>3. ASSUME NEW id \in Id, NEW root \in BatchRoot, NEW sealed \in SealedRoot,
             NEW hash \in ProofHash, SignReceipt(id, root, sealed, hash)
      PROVE  kept /\ called
  BY <1>3 DEF SignReceipt
<1>4. ASSUME NEW sender \in Poster, NEW id \in Id, NEW hash \in ProofHash,
             NEW chunk, NEW fee \in Fee, PostProof(sender, id, hash, chunk, fee)
      PROVE  kept /\ called
  BY <1>4 DEF PostProof
<1>5. ASSUME NEW sender \in Poster, NEW id \in Id, NEW dg \in Digest, NEW r \in receipts,
             NEW fee \in Fee, BindPosting(sender, id, dg, r, fee)
      PROVE  kept /\ called
  BY <1>5 DEF BindPosting
<1>6. ASSUME NEW id \in Id, NEW dg \in Digest, NEW r \in receipts, NEW caller \in Address,
             Slash(id, dg, r, caller)
      PROVE  kept /\ called
  BY <1>6 DEF Slash
<1>7. ASSUME NEW a \in Address, WithdrawCredit(a) PROVE kept /\ called
  BY <1>7 DEF WithdrawCredit
<1>8. called => ArbiterKeeps
  BY DEF NoCall, SlashAnswerer
<1> HIDE DEF kept, called
<1>9. kept /\ called
  BY <1>1, <1>2, <1>3, <1>4, <1>5, <1>6, <1>7 DEF PostingStep
<1> QED BY <1>8, <1>9 DEF kept, called

\* Every transaction of the arbiter's is one of these or writes a challenge.
LEMMA DisputeKinds ==
  ASSUME DisputeStep
  PROVE  \/ PostingStep
         \/ \E sender \in Challenger, id \in Id, dg \in Digest, bond \in BondPrice,
               deposit \in DepositPrice, excess \in Excess :
              Open(sender, id, dg, bond, deposit, excess)
         \/ \E sender \in Challenger, id \in Id, dg \in Digest,
               deposit \in DepositPrice, excess \in Excess :
              Join(sender, id, dg, deposit, excess)
         \/ \E sender \in Challenger, id \in Id, dg \in Digest : Cancel(sender, id, dg)
         \/ \E keys \in SUBSET Due : \E items \in [keys -> Provable] : Answer(items)
         \/ \E id \in Id, dg \in Digest : Expire(id, dg)
         \/ \E sender \in Poster, id \in Id, dg \in Digest, r \in receipts, fee \in Fee :
              Deliver(sender, id, dg, r, fee)
BY DEF DisputeStep, PostingStep

\* Postings change no number of requests due.
LEMMA PostingDue ==
  ASSUME DisputeTypeOK, PostingStep
  PROVE  \A i \in Id, q \in BatchRoot : batches'[i][q].due = batches[i][q].due
<1> DEFINE same == \A i \in Id, q \in BatchRoot : batches'[i][q].due = batches[i][q].due
<1>1. batches' = batches => same
  OBVIOUS
<1>2. ASSUME NEW sender \in Poster, NEW id \in Id, NEW hash \in ProofHash, NEW chunk,
             NEW fee \in Fee, PostProof(sender, id, hash, chunk, fee)
      PROVE  same
  <2> DEFINE root == boundRoot[id][hash]
  <2>1. \/ batches' = batches
        \/ root # NoRoot /\ Refund(sender, id, root, batches, fee)
    BY <1>2 DEF PostProof
  <2>2. root \in BatchRoot \cup {NoRoot} /\ batches \in [Id -> [BatchRoot -> BatchPosting]]
    BY DEF DisputeTypeOK
  <2> HIDE DEF root
  <2> QED BY <2>1, <2>2, RefundDue
<1>3. ASSUME NEW sender \in Poster, NEW id \in Id, NEW dg \in Digest, NEW r \in receipts,
             NEW fee \in Fee, BindPosting(sender, id, dg, r, fee)
      PROVE  same
  <2> DEFINE b == BoundTo(id, r)
  <2>1. Refund(sender, id, r.root, b, fee)
    BY <1>3 DEF BindPosting
  <2>2. /\ b \in [Id -> [BatchRoot -> BatchPosting]] /\ r.root \in BatchRoot
        /\ \A i \in Id, q \in BatchRoot : b[i][q].due = batches[i][q].due
    BY BoundTypes, BoundDue
  <2> HIDE DEF b
  <2>3. \A i \in Id, q \in BatchRoot : batches'[i][q].due = b[i][q].due
    BY <2>1, <2>2, RefundDue, SMTT(60)
  <2> QED BY <2>2, <2>3
<1>4. ASSUME NEW id \in Id, NEW value \in Donation, FundPosting(id, value)
      PROVE  batches' = batches
  BY <1>4 DEF FundPosting
<1>5. ASSUME NEW id \in Id, ReturnPosting(id) PROVE batches' = batches
  BY <1>5 DEF ReturnPosting
<1>6. ASSUME NEW id \in Id, NEW root \in BatchRoot, NEW sealed \in SealedRoot,
             NEW hash \in ProofHash, SignReceipt(id, root, sealed, hash)
      PROVE  batches' = batches
  BY <1>6 DEF SignReceipt
<1>7. ASSUME NEW id \in Id, NEW dg \in Digest, NEW r \in receipts, NEW caller \in Address,
             Slash(id, dg, r, caller)
      PROVE  batches' = batches
  BY <1>7 DEF Slash
<1>8. ASSUME NEW a \in Address, WithdrawCredit(a) PROVE batches' = batches
  BY <1>8 DEF WithdrawCredit
<1> HIDE DEF same
<1>9. same
  BY <1>1, <1>2, <1>3, <1>4, <1>5, <1>6, <1>7, <1>8 DEF PostingStep
<1> QED BY <1>9 DEF same

\* So what is counted is as it was.
LEMMA PostingExact ==
  ASSUME ReserveInv, ChallengeInv, CountInv, PostingStep
  PROVE  CountInv'
<1>1. TypeInv /\ DisputeTypeOK
  BY DEF ReserveInv, ChallengeInv
<1>2. \A i \in Id : delegations'[i].holds = delegations[i].holds
  BY <1>1, CallHolds, PostingKeeps
<1> QED BY <1>1, <1>2, PostingKeeps, PostingDue, SameExact

\* A delivered request is still a request.
LEMMA DeliverExact ==
  ASSUME ReserveInv, ChallengeInv, CountInv, NEW sender \in Poster, NEW id \in Id,
         NEW dg \in Digest, NEW r \in receipts, NEW fee \in Fee,
         Deliver(sender, id, dg, r, fee)
  PROVE  CountInv'
<1> DEFINE c == challenges[<<id, dg>>]
           e == [c EXCEPT !.status = "Delivered"]
           b == IF batches[id][r.root].proofHash = NoHash THEN BoundTo(id, r) ELSE batches
<1>1. /\ TypeInv /\ DisputeTypeOK /\ <<id, dg>> \in Key
      /\ \A i \in Id : openCount[i] \in Nat
  BY DEF ReserveInv, ChallengeInv, Key, TypeInv, ReserveTypeOK
<1>2. c \in Challenge
  BY <1>1, ChallengeFields
<1>3. \A i \in Id : /\ delegations[i].holds \in Nat
                    /\ \A root \in BatchRoot : batches[i][root].due \in Nat
  BY <1>1, FieldTypes, ZenonT(90) DEF TypeInv, ReserveTypeOK, DisputeTypeOK, BatchPosting
<1>4. /\ c.status = "Answered" /\ NoCall /\ openCount' = openCount
      /\ challenges' = [challenges EXCEPT ![<<id, dg>>] = e]
      /\ Refund(sender, id, r.root, b, fee) \/ batches' = b
  BY DEF Deliver
<1>5. e.status = "Delivered" /\ e.byPrincipal = c.byPrincipal /\ e.root = c.root
  BY <1>2 DEF Challenge
<1>6. \A i \in Id, q \in BatchRoot : batches'[i][q].due = batches[i][q].due
  <2>1. /\ b \in [Id -> [BatchRoot -> BatchPosting]] /\ r.root \in BatchRoot
        /\ \A i \in Id, q \in BatchRoot : b[i][q].due = batches[i][q].due
    <3>1. CASE batches[id][r.root].proofHash = NoHash
      BY <1>1, <3>1, BoundTypes, BoundDue
    <3>2. CASE batches[id][r.root].proofHash # NoHash
      BY <1>1, <3>2, BoundTypes DEF DisputeTypeOK
    <3> QED BY <3>1, <3>2
  <2> HIDE DEF b
  <2>2. CASE Refund(sender, id, r.root, b, fee)
    <3>1. \A i \in Id, q \in BatchRoot : batches'[i][q].due = b[i][q].due
      BY <2>1, <2>2, RefundDue, SMTT(60)
    <3> QED BY <2>1, <3>1
  <2>3. CASE batches' = b
    BY <2>1, <2>3
  <2> QED BY <1>4, <2>2, <2>3
<1> HIDE DEF e, b
<1>7. /\ challenges'[<<id, dg>>] = e
      /\ \A k \in Key : k # <<id, dg>> => challenges'[k] = challenges[k]
  BY <1>1, <1>4 DEF DisputeTypeOK, Key
<1>8. \A i \in Id : delegations'[i].holds = delegations[i].holds
  BY <1>1, <1>4, CallHolds
<1>9. /\ One(IsOpen(e)) = 0 /\ One(IsOpen(c)) = 0
      /\ One(IsStanding(e)) = 0 /\ One(IsStanding(c)) = 0
      /\ \A root : /\ One(IsRequest(e, root)) = One(IsRequest(c, root))
                   /\ One(IsRequest(c, root)) \in Nat
  BY <1>4, <1>5 DEF One, IsOpen, IsStanding, IsRequest
<1>10. ASSUME NEW i \in Id
       PROVE  /\ openCount'[i] =
                   openCount[i] + IF i = id THEN One(IsOpen(e)) - One(IsOpen(c)) ELSE 0
              /\ delegations'[i].holds =
                   delegations[i].holds
                     + IF i = id THEN One(IsStanding(e)) - One(IsStanding(c)) ELSE 0
              /\ \A root \in BatchRoot :
                   batches'[i][root].due =
                     batches[i][root].due
                       + IF i = id THEN One(IsRequest(e, root)) - One(IsRequest(c, root)) ELSE 0
  BY <1>1, <1>3, <1>4, <1>6, <1>8, <1>9
<1> HIDE DEF c
<1> QED BY <1>7, <1>10, OneExact, SMTT(30) DEF c

\* A registration overwrites a record nothing settled under, so nothing is
\* counted under it before or after.
LEMMA UnregisteredCounts ==
  ASSUME ReserveInv, ChallengeInv, NEW id \in Id, id >= nextId
  PROVE  /\ OpenOf(id) = {} /\ Standing(id) = {}
         /\ \A root : Requests(id, root) = {}
<1>1. \A dg \in Digest : challenges[<<id, dg>>].status = "None"
  <2> SUFFICES ASSUME NEW dg \in Digest, challenges[<<id, dg>>].status # "None" PROVE FALSE
    OBVIOUS
  <2>1. <<id, dg>> \in Key
    BY DEF Key
  <2>2. Recorded(id, dg)
    BY <2>1 DEF ChallengeInv, Challenged
  <2>3. id < nextId
    BY <2>2, RecordedFacts
  <2>4. id \in Nat /\ nextId \in Nat
    BY ReserveAssumption DEF ReserveInv, TypeInv, ReserveTypeOK, Id
  <2> QED BY <2>3, <2>4
<1> QED BY <1>1 DEF OpenOf, Standing, Requests

\* register writes one record nobody registered, with no hold.
LEMMA RegisterWrites ==
  ASSUME TypeInv, NEW p, NEW t, Register(p, t)
  PROVE  /\ nextId \in Id /\ nextId' = nextId + 1
         /\ delegations'[nextId] = Issued(p, t)
         /\ Issued(p, t).holds = 0 /\ ~Issued(p, t).accepted
         /\ ~Issued(p, t).frozen /\ ~Issued(p, t).closed /\ ~Issued(p, t).bondPaid
         /\ \A i \in Id : i # nextId => delegations'[i] = delegations[i]
         /\ UNCHANGED <<closedAt, bondTo, settled>>
<1>1. nextId \in Id
  BY ReserveAssumption DEF Register, TypeInv, ReserveTypeOK, Id
<1>2. /\ Issued(p, t).holds = 0 /\ ~Issued(p, t).accepted
      /\ ~Issued(p, t).frozen /\ ~Issued(p, t).closed /\ ~Issued(p, t).bondPaid
  BY DEF Issued, Blank
<1> QED BY <1>1, <1>2 DEF Register, TypeInv, ReserveTypeOK

\* What accounts do is not counted.
LEMMA ElsewhereExact ==
  ASSUME ReserveInv, ChallengeInv, CountInv, Elsewhere
  PROVE  CountInv'
<1>1. TypeInv /\ challenges' = challenges /\ batches' = batches
  BY DEF Elsewhere, ReserveInv
<1>2. openCount' = openCount
  <2>1. Tick => openCount' = openCount
    BY DEF Tick
  <2>2. UNCHANGED vars => openCount' = openCount
    BY DEF vars, reserveVars
  <2> QED BY <1>1, <2>1, <2>2, AccountAged DEF Elsewhere
<1>3. \A i \in Id : delegations'[i].holds = delegations[i].holds
  <2>1. CASE delegations' = delegations
    BY <2>1
  <2>2. CASE \A i \in Id : Aged(i)
    BY <2>2 DEF Aged
  <2>3. ASSUME NEW p \in Principal, NEW t \in Offer, Register(p, t)
        PROVE  \A i \in Id : delegations'[i].holds = delegations[i].holds
    <3>1. /\ nextId \in Id /\ delegations'[nextId].holds = 0
          /\ \A i \in Id : i # nextId => delegations'[i] = delegations[i]
      BY <1>1, <2>3, RegisterWrites
    <3>2. Standing(nextId) = {}
      BY <3>1, UnregisteredCounts, ReserveAssumption DEF Id
    <3>3. delegations[nextId].holds = 0
      BY <3>1, <3>2, FS_EmptySet DEF CountInv, HoldsExact
    <3> QED BY <3>1, <3>3
  <2>4. Tick \/ UNCHANGED vars => delegations' = delegations
    BY DEF Tick, vars, reserveVars
  <2> QED BY <1>1, <2>1, <2>2, <2>3, <2>4, AccountAged DEF Elsewhere
<1> QED BY <1>1, <1>2, <1>3, SameExact

\* Every step keeps every count exact.
LEMMA CountsKept ==
  ASSUME ReserveInv, ChallengeInv, CountInv, [ComposedNext]_vars
  PROVE  CountInv'
BY StepKinds, ElsewhereExact, DisputeKinds, PostingExact, OpenExact, JoinExact, CancelExact,
   AnswerExact, ExpireExact, DeliverExact

\* At the start nothing is counted.
LEMMA InitCounts == ComposedInit => CountInv
<1> SUFFICES ASSUME ComposedInit PROVE CountInv
  OBVIOUS
<1>1. ReserveInit(This) /\ DisputeInit({})
  BY DEF ComposedInit
<1>2. \A id \in Id : OpenOf(id) = {} /\ Standing(id) = {} /\ \A root : Requests(id, root) = {}
  BY <1>1 DEF DisputeInit, Unchallenged, Key, OpenOf, Standing, Requests
<1>3. \A id \in Id : delegations[id].holds = 0 /\ openCount[id] = 0
  BY <1>1 DEF ReserveInit, Blank
<1>4. \A id \in Id, root \in BatchRoot : batches[id][root].due = 0
  BY <1>1 DEF DisputeInit, Unbound
<1> QED BY <1>2, <1>3, <1>4, FS_EmptySet DEF CountInv, HoldsExact, OpenCountExact, DueExact

\* What the theorems below rest on.
CountedInv == ReserveInv /\ ChallengeInv /\ CountInv

LEMMA CountedKept ==
  /\ ComposedInit => CountedInv
  /\ CountedInv /\ [ComposedNext]_vars => CountedInv'
BY InitReserve, InitChallenges, InitCounts, ReserveKept, ChallengesKept, CountsKept DEF CountedInv

\* However challenges are opened, joined, withdrawn, answered in bulk and
\* expired, the reserve's holds are the principal's standing challenges, so a
\* release never underflows and no hold is left behind (open, join, cancel,
\* _settle, expire; hold, release, forfeit).
THEOREM HoldsAlwaysExact == ComposedSpec => []HoldsExact
<1>1. CountedInv => HoldsExact
  BY DEF CountedInv, CountInv
<1> QED BY <1>1, CountedKept, PTL DEF ComposedSpec

\* So are the open challenges that keep a delegation from closing (open,
\* cancel, _settle, expire; close).
THEOREM OpenCountAlwaysExact == ComposedSpec => []OpenCountExact
<1>1. CountedInv => OpenCountExact
  BY DEF CountedInv, CountInv
<1> QED BY <1>1, CountedKept, PTL DEF ComposedSpec

\* And the requests under a batch that refunds depend on (_settle, join,
\* cancel, deliver).
THEOREM DueAlwaysExact == ComposedSpec => []DueExact
<1>1. CountedInv => DueExact
  BY DEF CountedInv, CountInv
<1> QED BY <1>1, CountedKept, PTL DEF ComposedSpec

\* Only settle records a settlement, and only of a delegation nothing holds.
LEMMA SettledUnheld ==
  ASSUME CountedInv, [ComposedNext]_vars, NEW id \in Id, Standing(id) # {}
  PROVE  settled'[id] = settled[id]
<1>1. ReserveInv /\ HoldsExact
  BY DEF CountedInv, CountInv
<1>2. delegations[id].holds # 0
  <2>1. IsFiniteSet(Standing(id))
    BY DigestFinite, FS_Subset DEF Standing, OpenOf
  <2>2. Cardinality(Standing(id)) # 0
    BY <2>1, FS_EmptySet
  <2> QED BY <1>1, <2>2 DEF HoldsExact
<1>3. ASSUME NEW p \in signed, NEW stored \in BOOLEAN, Settle(p, stored)
      PROVE  settled'[id] = settled[id]
  <2>1. p.id \in Id /\ delegations[p.id].holds = 0
    BY <1>1, <1>3 DEF Settle, Admitted, Live, ReserveInv, TypeInv, ReserveTypeOK, Payload
  <2>2. p.id # id
    BY <1>2, <2>1
  <2> QED BY <1>1, <1>3, <2>2 DEF Settle, ReserveInv, TypeInv, ReserveTypeOK
<1>4. CASE AccountStep
  <2>1. settled' = settled \/ \E p \in signed, stored \in BOOLEAN : Settle(p, stored)
    BY <1>4 DEF AccountStep, DeclareCapacity, Register, Accept, Sign, Claim, StakeAnswerer,
       UnstakeAnswerer, Freeze, Reclaim, Close, Withdraw, Revoke
  <2> QED BY <1>3, <2>1, SMTT(30)
<1>5. CASE DisputeStep
  BY <1>1, <1>5, StepCalls DEF ReserveInv, Call, NoCall, Hold, Release, Forfeit, SlashAnswerer,
     ArbiterKeeps
<1>6. CASE Tick \/ UNCHANGED vars
  BY <1>6 DEF Tick, vars, reserveVars
<1> QED BY <1>4, <1>5, <1>6 DEF ComposedNext

\* While a challenge of the principal's stands nothing more settles under the
\* delegation, in any interleaving with its own and others' challenges (hold,
\* _admit).
THEOREM HoldsStop == ComposedSpec => HoldStopsSettlement
<1>1. CountedInv /\ [ComposedNext]_vars
        => [\A id \in Id : Standing(id) # {} => settled'[id] = settled[id]]_vars
  BY SettledUnheld
<1> QED BY <1>1, CountedKept, PTL DEF ComposedSpec, HoldStopsSettlement

----------------------------------------------------------------------------
(* Closing and forfeiting.                                                 *)

\* How a step may leave a delegation closed, and its bond paid.
ClosedNow(i) ==
  delegations'[i].closed =>
    \/ Closable(i) /\ closedAt'[i] = now
    \/ delegations[i].closed /\ closedAt'[i] = closedAt[i]

PaidNow(i) ==
  (delegations'[i].accepted /\ delegations'[i].bondPaid /\ ~delegations'[i].closed) =>
    \/ bondTo'[i] = "principal"
    \/ /\ delegations[i].accepted /\ delegations[i].bondPaid /\ ~delegations[i].closed
       /\ bondTo'[i] = bondTo[i]

EndsNow(i) == ClosedNow(i) /\ PaidNow(i)

\* A delegation whose end and whose bond a step leaves alone.
LEMMA SameEnds ==
  ASSUME NEW i \in Id, SameRecord(delegations[i], delegations'[i]),
         bondTo'[i] = bondTo[i], closedAt'[i] = closedAt[i]
  PROVE  EndsNow(i)
BY DEF SameRecord, SameLife, SameTerms, SameEnd, EndsNow, ClosedNow, PaidNow

\* A step that writes one delegation's record.
LEMMA OneEnds ==
  ASSUME TypeInv, NEW id \in Id, NEW e, delegations' = [delegations EXCEPT ![id] = e],
         \A i \in Id : i # id => bondTo'[i] = bondTo[i] /\ closedAt'[i] = closedAt[i],
         delegations'[id] = e => EndsNow(id)
  PROVE  \A i \in Id : EndsNow(i)
<1>1. delegations'[id] = e /\ \A i \in Id : i # id => delegations'[i] = delegations[i]
  BY DEF TypeInv, ReserveTypeOK
<1>2. ASSUME NEW i \in Id, i # id PROVE EndsNow(i)
  BY <1>1, <1>2, SameEnds DEF SameRecord, SameLife, SameTerms, SameEnd
<1> QED BY <1>1, <1>2

\* A quiet step, or settle.
LEMMA QuietEnds ==
  ASSUME SameRecords, bondTo' = bondTo, closedAt' = closedAt
  PROVE  \A i \in Id : EndsNow(i)
BY SameEnds DEF SameRecords

\* claim and forfeit pay the principal; only close closes, and it closes what
\* is closable (claim, _forfeit, close).
LEMMA AccountEnds ==
  ASSUME TypeInv, BondInv, AccountStep
  PROVE  \A i \in Id : EndsNow(i)
<1>0. /\ now \in Nat /\ bondTo \in [Id -> {"nobody", "agent", "principal"}]
      /\ \A id \in Id : delegations[id] \in Delegation
  BY DEF TypeInv, ReserveTypeOK
<1>1. ASSUME NEW p \in Principal, NEW t \in Offer, Register(p, t)
      PROVE  \A i \in Id : EndsNow(i)
  <2>1. /\ nextId \in Id /\ ~delegations'[nextId].accepted /\ ~delegations'[nextId].closed
        /\ \A i \in Id : i # nextId => delegations'[i] = delegations[i]
        /\ UNCHANGED <<closedAt, bondTo>>
    BY <1>1, RegisterWrites
  <2> SUFFICES ASSUME NEW i \in Id PROVE EndsNow(i)
    OBVIOUS
  <2>2. CASE i = nextId
    BY <2>1, <2>2 DEF EndsNow, ClosedNow, PaidNow
  <2>3. CASE i # nextId
    BY <2>1, <2>3 DEF EndsNow, ClosedNow, PaidNow
  <2> QED BY <2>2, <2>3
<1>2. ASSUME NEW id \in Id, Accept(id) PROVE \A i \in Id : EndsNow(i)
  <2> DEFINE e == [delegations[id] EXCEPT !.accepted = TRUE]
  <2>1. /\ delegations' = [delegations EXCEPT ![id] = e] /\ UNCHANGED <<bondTo, closedAt>>
        /\ ~delegations[id].frozen /\ ~delegations[id].closed
    BY <1>2 DEF Accept, Acceptable
  <2>2. ~delegations[id].bondPaid
    BY <2>1 DEF BondInv
  <2>3. ~e.closed /\ ~e.bondPaid
    BY <1>0, <2>1, <2>2, AcceptedUpdate DEF SameEnd
  <2>4. delegations'[id] = e => EndsNow(id)
    BY <2>3 DEF EndsNow, ClosedNow, PaidNow
  <2> HIDE DEF e
  <2> QED BY <2>1, <2>4, OneEnds
<1>3. ASSUME NEW id \in Id, NEW secret \in Secret, Claim(id, secret)
      PROVE  \A i \in Id : EndsNow(i)
  <2> DEFINE e == BondSpent(Froze(delegations[id]))
  <2>1. /\ delegations' = [delegations EXCEPT ![id] = e] /\ closedAt' = closedAt
        /\ bondTo' = Paid("principal", id) /\ ~delegations[id].bondPaid
    BY <1>3 DEF Claim
  <2>2. e.closed = delegations[id].closed /\ e.accepted = delegations[id].accepted
    BY <1>0, FrozeUpdate, SpentUpdate DEF SameLife, SameEnd
  <2>3. /\ delegations[id].accepted => bondTo'[id] = "principal"
        /\ \A i \in Id : i # id => bondTo'[i] = bondTo[i]
    BY <1>0, <2>1 DEF Paid
  <2>4. delegations'[id] = e => EndsNow(id)
    BY <2>1, <2>2, <2>3 DEF EndsNow, ClosedNow, PaidNow
  <2> HIDE DEF e
  <2> QED BY <2>1, <2>3, <2>4, OneEnds
<1>4. ASSUME NEW id \in Id, NEW sender \in Address, Freeze(id, sender)
      PROVE  \A i \in Id : EndsNow(i)
  <2> DEFINE e == Froze(delegations[id])
  <2>1. delegations' = [delegations EXCEPT ![id] = e] /\ UNCHANGED <<bondTo, closedAt>>
    BY <1>4 DEF Freeze
  <2>2. /\ e.closed = delegations[id].closed /\ e.accepted = delegations[id].accepted
        /\ e.bondPaid = delegations[id].bondPaid
    BY <1>0, FrozeUpdate
  <2>3. delegations'[id] = e => EndsNow(id)
    BY <2>1, <2>2 DEF EndsNow, ClosedNow, PaidNow
  <2> HIDE DEF e
  <2> QED BY <2>1, <2>3, OneEnds
<1>5. ASSUME NEW id \in Id, Close(id) PROVE \A i \in Id : EndsNow(i)
  <2> DEFINE e == [BondSpent(delegations[id]) EXCEPT !.closed = TRUE, !.deposit = 0]
  <2>1. /\ delegations' = [delegations EXCEPT ![id] = e] /\ Closable(id)
        /\ closedAt' = [closedAt EXCEPT ![id] = now] /\ bondTo' = Paid("agent", id)
        /\ closedAt \in [Id -> Nat]
    BY <1>5 DEF Close, TypeInv, ReserveTypeOK
  <2>2. e.closed
    BY <1>0, ClosedUpdate
  <2>3. closedAt'[id] = now
        /\ \A i \in Id : i # id => bondTo'[i] = bondTo[i] /\ closedAt'[i] = closedAt[i]
    BY <1>0, <2>1 DEF Paid
  <2>4. delegations'[id] = e => EndsNow(id)
    BY <2>1, <2>2, <2>3 DEF EndsNow, ClosedNow, PaidNow
  <2> HIDE DEF e
  <2> QED BY <2>1, <2>3, <2>4, OneEnds
<1>6. ASSUME NEW id \in Id, NEW ranges \in Revocation, Revoke(id, ranges)
      PROVE  \A i \in Id : EndsNow(i)
  <2> DEFINE e == [delegations[id] EXCEPT !.epoch = delegations[id].epoch + 1]
  <2>1. delegations' = [delegations EXCEPT ![id] = e] /\ UNCHANGED <<bondTo, closedAt>>
    BY <1>6 DEF Revoke
  <2>2. /\ e.closed = delegations[id].closed /\ e.accepted = delegations[id].accepted
        /\ e.bondPaid = delegations[id].bondPaid
    BY <1>0, EpochUpdate DEF SameEnd
  <2>3. delegations'[id] = e => EndsNow(id)
    BY <2>1, <2>2 DEF EndsNow, ClosedNow, PaidNow
  <2> HIDE DEF e
  <2> QED BY <2>1, <2>3, OneEnds
<1>7. ASSUME NEW p \in signed, NEW stored \in BOOLEAN, Settle(p, stored)
      PROVE  \A i \in Id : EndsNow(i)
  BY <1>7, SettleRecords, QuietEnds DEF Settle
<1>8. CASE Quiet
  BY <1>8, QuietEnds DEF Quiet
<1> QED BY <1>1, <1>2, <1>3, <1>4, <1>5, <1>6, <1>7, <1>8, AccountKinds DEF AccountKind

\* A transaction of the arbiter's closes nothing, and pays only the principal.
LEMMA CallEnds ==
  ASSUME TypeInv, Call, openCount' \in [Id -> Nat]
  PROVE  /\ \A i \in Id : /\ EndsNow(i)
                          /\ delegations'[i].closed = delegations[i].closed
                          /\ delegations[i].frozen => delegations'[i].frozen
         /\ closedAt' = closedAt
<1>1. CASE Quiet
  BY <1>1, QuietEnds DEF Quiet, SameRecords, SameRecord, SameLife, SameEnd
<1>2. ASSUME NEW id \in Id, NEW unheld \in Nat, Forfeit(id, unheld)
      PROVE  /\ \A i \in Id : /\ EndsNow(i)
                              /\ delegations'[i].closed = delegations[i].closed
                              /\ delegations[i].frozen => delegations'[i].frozen
             /\ closedAt' = closedAt
  <2> DEFINE f == BondSpent(Froze(delegations[id]))
             e == [f EXCEPT !.holds = f.holds - unheld]
  <2>1. /\ delegations' = [delegations EXCEPT ![id] = e] /\ closedAt' = closedAt
        /\ bondTo' = Paid("principal", id) /\ now \in Nat
        /\ bondTo \in [Id -> {"nobody", "agent", "principal"}]
        /\ delegations[id] \in Delegation /\ delegations \in [Id -> Delegation]
    BY <1>2 DEF Forfeit, ArbiterKeeps, TypeInv, ReserveTypeOK
  <2>2. /\ f \in Delegation /\ f.closed = delegations[id].closed
        /\ f.accepted = delegations[id].accepted /\ f.frozen
    BY <2>1, FrozeUpdate, SpentUpdate DEF SameLife, SameEnd
  <2> HIDE DEF f
  <2>3. e.closed = delegations[id].closed /\ e.accepted = delegations[id].accepted /\ e.frozen
    BY <2>2 DEF Delegation
  <2>4. /\ bondTo'[id] = IF delegations[id].accepted /\ ~delegations[id].bondPaid
                           THEN "principal" ELSE bondTo[id]
        /\ \A i \in Id : i # id => bondTo'[i] = bondTo[i]
    BY <2>1 DEF Paid
  <2>5. delegations'[id] = e => EndsNow(id)
    BY <2>1, <2>3, <2>4 DEF EndsNow, ClosedNow, PaidNow
  <2> HIDE DEF e
  <2>6. \A i \in Id : EndsNow(i)
    BY <2>1, <2>4, <2>5, OneEnds
  <2> QED BY <2>1, <2>3, <2>6
<1> QED BY <1>1, <1>2, CallKinds
============================================================================
