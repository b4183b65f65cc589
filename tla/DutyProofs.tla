----------------------------- MODULE DutyProofs -----------------------------
(***************************************************************************)
(* What holds of the duties a challenge and an answer create, for any      *)
(* number of delegations, challenges, batches and receipts: when they end, *)
(* who gets the bond of what expired, that the arbiter's ether covers what *)
(* it owes, whom a receipt or a delivery can cost the stake, how many      *)
(* refunds a pool pays, and where the deadline queues put a challenge.     *)
(* Each part states an invariant and shows that every step keeps it where  *)
(* the earlier ones hold: CountedInv of DisputeProofs, and here DutyInv,   *)
(* ForfeitInv, DisputeSolvent, ReceiptInv, RefundInv and QueueInv.         *)
(***************************************************************************)
EXTENDS DisputeProofs

USE DEF linkVars, paymentVars, revocationVars, capacityVars, etherVars,
        queueVars, batchVars, postingVars, moneyVars, disputeVars

----------------------------------------------------------------------------
(* What one step makes of one challenge, and of one delegation's duty.     *)

\* A request of the principal's that was answered.
IsDue(c) == c.byPrincipal /\ c.status \in {"Answered", "Delivered"}

\* A challenge opens only of a settlement in its acceptance window.
Opens(k) ==
  challenges'[k].status = "Open" =>
    \/ challenges[k].status = "Open"
    \/ Recorded(k[1], k[2]) /\ InWindow(k[1], k[2])

\* A request keeps its deadline, or has a wait from now, inside the duty.
Dues(k) ==
  IsDue(challenges'[k]) =>
    \/ IsDue(challenges[k]) /\ challenges'[k].deadline = challenges[k].deadline
    \/ /\ challenges'[k].deadline = now + DeliveryWait
       /\ dutyUntil'[k[1]] >= now + DeliveryWait

\* An open challenge that expires forfeits the bond.
Expires(k) ==
  challenges'[k].status = "Expired" =>
    \/ challenges[k].status = "Expired"
    \/ challenges[k].status = "Open" /\ \E n \in Nat : Forfeit(k[1], n)

\* What is delivered was receipted.
Delivers(k) ==
  challenges'[k].status = "Delivered" =>
    /\ challenges'[k].root = challenges[k].root
    /\ \/ challenges[k].status = "Delivered" /\ deliveredUnder'[k] = deliveredUnder[k]
       \/ \E r \in receipts : /\ r.id = k[1] /\ r.root = challenges[k].root
                              /\ r.sealedRoot = deliveredUnder'[k]

\* What is delivered or withdrawn stays so.
Finishes(k) ==
  challenges[k].status \in {"Delivered", "Cancelled"}
    => challenges'[k].status \in {"Delivered", "Cancelled"}

Moves(k) == Opens(k) /\ Dues(k) /\ Expires(k) /\ Delivers(k) /\ Finishes(k)

\* A settlement of the delegation may still be, or is, challenged.
Challengeable(i) ==
  \E dg \in Digest :
    /\ Recorded(i, dg)
    /\ challenges[<<i, dg>>].status = "Open" \/ InWindow(i, dg)

\* A duty is extended, to a wait from now, only for such a settlement.
Extends(i) ==
  \/ dutyUntil'[i] = dutyUntil[i]
  \/ Challengeable(i) /\ dutyUntil'[i] = Latest(dutyUntil[i], now + DeliveryWait)

AllMove == (\A k \in Key : Moves(k)) /\ (\A i \in Id : Extends(i))

\* A challenge nothing wrote.
LEMMA SameMoves ==
  ASSUME NEW k \in Key, challenges'[k] = challenges[k], deliveredUnder'[k] = deliveredUnder[k]
  PROVE  Moves(k)
BY DEF Moves, Opens, Dues, Expires, Delivers, Finishes

\* A transaction that writes one challenge and no duty.
LEMMA OneMoves ==
  ASSUME DisputeTypeOK, NEW id \in Id, NEW dg \in Digest, NEW e,
         challenges' = [challenges EXCEPT ![<<id, dg>>] = e],
         \A k \in Key : k # <<id, dg>> => deliveredUnder'[k] = deliveredUnder[k],
         challenges'[<<id, dg>>] = e => Moves(<<id, dg>>)
  PROVE  \A k \in Key : Moves(k)
<1>1. /\ challenges'[<<id, dg>>] = e
      /\ \A k \in Key : k # <<id, dg>> => challenges'[k] = challenges[k]
  BY DEF DisputeTypeOK, Key
<1>2. \A k \in Key : k # <<id, dg>> => Moves(k)
  BY <1>1, SameMoves
<1> QED BY <1>1, <1>2

\* open.
LEMMA OpenMoves ==
  ASSUME ReserveInv, ChallengeInv, NEW sender \in Challenger, NEW id \in Id,
         NEW dg \in Digest, NEW bond \in BondPrice, NEW deposit \in DepositPrice,
         NEW excess \in Excess, Open(sender, id, dg, bond, deposit, excess)
  PROVE  AllMove
<1> DEFINE e == Opened(sender, id, bond, DeadlineOf(sender, id))
<1>1. /\ Recorded(id, dg) /\ InWindow(id, dg) /\ dutyUntil' = dutyUntil
      /\ deliveredUnder' = deliveredUnder /\ challenges[<<id, dg>>].status = "None"
      /\ challenges' = [challenges EXCEPT ![<<id, dg>>] = e]
  BY DEF Open, Opened, DeadlineOf
<1>2. e.status = "Open"
  BY DEF Opened
<1> HIDE DEF e
<1>3. challenges'[<<id, dg>>] = e => Moves(<<id, dg>>)
  BY <1>1, <1>2 DEF Moves, Opens, Dues, Expires, Delivers, Finishes, IsDue
<1>4. DisputeTypeOK
  BY DEF ChallengeInv
<1>5. \A k \in Key : Moves(k)
  BY <1>1, <1>3, <1>4, OneMoves
<1> QED BY <1>1, <1>5 DEF AllMove, Extends

\* join: an answered challenge carries the request from now.
LEMMA JoinMoves ==
  ASSUME ReserveInv, ChallengeInv, NEW sender \in Challenger, NEW id \in Id,
         NEW dg \in Digest, NEW deposit \in DepositPrice, NEW excess \in Excess,
         Join(sender, id, dg, deposit, excess)
  PROVE  AllMove
<1> DEFINE c == challenges[<<id, dg>>]
<1>1. /\ Recorded(id, dg) /\ InWindow(id, dg) /\ deliveredUnder' = deliveredUnder
      /\ DisputeTypeOK /\ <<id, dg>> \in Key /\ now \in Nat
  BY DEF Join, ChallengeInv, Key, ReserveInv, TypeInv, ReserveTypeOK
<1>2. c \in Challenge
  BY <1>1, ChallengeFields
<1>3. CASE JoinOpen(id, dg)
  <2>1. PICK due : challenges' = [challenges EXCEPT ![<<id, dg>>] = Joined(c, due)]
    BY <1>3 DEF JoinOpen, Joined
  <2>2. c.status = "Open" /\ dutyUntil' = dutyUntil
    BY <1>3 DEF JoinOpen
  <2>3. Joined(c, due).status = "Open"
    BY <1>2, <2>2 DEF Joined, Challenge
  <2>4. challenges'[<<id, dg>>] = Joined(c, due) => Moves(<<id, dg>>)
    BY <2>2, <2>3 DEF Moves, Opens, Dues, Expires, Delivers, Finishes, IsDue
  <2> HIDE DEF c
  <2>5. \A k \in Key : Moves(k)
    BY <1>1, <2>1, <2>4, OneMoves
  <2> QED BY <2>2, <2>5 DEF AllMove, Extends
<1>4. CASE JoinAnswered(id, dg)
  <2> DEFINE due == now + DeliveryWait
             e == Joined(c, due)
  <2>1. /\ c.status = "Answered"
        /\ challenges' = [challenges EXCEPT ![<<id, dg>>] = e]
        /\ dutyUntil' = [dutyUntil EXCEPT ![id] = Latest(dutyUntil[id], due)]
    BY <1>4 DEF JoinAnswered, Joined
  <2>2. e.status = "Answered" /\ e.deadline = due
    BY <1>2, <2>1 DEF Joined, Challenge
  <2>3. /\ dutyUntil'[id] = Latest(dutyUntil[id], due)
        /\ \A i \in Id : i # id => dutyUntil'[i] = dutyUntil[i]
        /\ dutyUntil[id] \in Nat /\ due \in Nat
    BY <1>1, <2>1, Constants DEF DisputeTypeOK
  <2>4. dutyUntil'[id] >= due
    BY <2>3 DEF Latest
  <2>5. challenges'[<<id, dg>>] = e => Moves(<<id, dg>>)
    <3> HIDE DEF e
    <3>1. challenges[<<id, dg>>].status = "Answered"
      BY <2>1
    <3> HIDE DEF c
    <3> QED BY <2>2, <2>4, <3>1 DEF Moves, Opens, Dues, Expires, Delivers, Finishes
  <2>6. \A k \in Key : Moves(k)
    <3> HIDE DEF e
    <3> QED BY <1>1, <2>1, <2>5, OneMoves
  <2>7. \A i \in Id : Extends(i)
    BY <1>1, <2>3 DEF Extends, Challengeable
  <2> QED BY <2>6, <2>7 DEF AllMove
<1> QED BY <1>3, <1>4 DEF Join

\* cancel withdraws the request.
LEMMA CancelMoves ==
  ASSUME ReserveInv, ChallengeInv, NEW sender, NEW id \in Id, NEW dg \in Digest,
         Cancel(sender, id, dg)
  PROVE  AllMove
<1> DEFINE c == challenges[<<id, dg>>]
           left == [c EXCEPT !.byPrincipal = FALSE, !.joined = FALSE]
<1>1. DisputeTypeOK /\ <<id, dg>> \in Key /\ deliveredUnder' = deliveredUnder
      /\ dutyUntil' = dutyUntil
  BY DEF Cancel, ChallengeInv, Key
<1>2. c \in Challenge
  BY <1>1, ChallengeFields
<1>3. PICK e : /\ challenges' = [challenges EXCEPT ![<<id, dg>>] = e]
               /\ e \in {left, [left EXCEPT !.status = "Cancelled"],
                         [left EXCEPT !.status = c.status]}
               /\ c.status \in {"Open", "Answered", "Delivered"}
  <2>1. CASE CancelOpen(id, dg)
    BY <2>1 DEF CancelOpen
  <2>2. CASE CancelAnswered(id, dg)
    <3> DEFINE s == IF c.joined THEN c.status ELSE "Cancelled"
               e == [c EXCEPT !.byPrincipal = FALSE, !.joined = FALSE, !.status = s]
    <3>1. challenges' = [challenges EXCEPT ![<<id, dg>>] = e]
          /\ c.status \in {"Answered", "Delivered"}
      BY <2>2 DEF CancelAnswered
    <3>2. e = [left EXCEPT !.status = s]
      BY <1>2 DEF Challenge
    <3> HIDE DEF e
    <3> QED BY <3>1, <3>2
  <2> QED BY <2>1, <2>2 DEF Cancel
<1>4. /\ ~e.byPrincipal /\ e.root = c.root
      /\ e.status = c.status \/ e.status = "Cancelled"
  BY <1>2, <1>3, ZenonT(40) DEF Challenge
<1>5. challenges'[<<id, dg>>] = e => Moves(<<id, dg>>)
  BY <1>1, <1>3, <1>4 DEF Moves, Opens, Dues, Expires, Delivers, Finishes, IsDue
<1> HIDE DEF c
<1>6. \A k \in Key : Moves(k)
  BY <1>1, <1>3, <1>5, OneMoves
<1> QED BY <1>1, <1>6 DEF AllMove, Extends

\* answer gives every request of the principal's a wait from now.
LEMMA AnswerMoves ==
  ASSUME ReserveInv, ChallengeInv, NEW keys \in SUBSET Due,
         NEW items \in [keys -> Provable], Answer(items)
  PROVE  AllMove
<1>1. /\ DOMAIN items = keys /\ keys \subseteq Key
      /\ \A k \in keys : /\ items[k] \in BatchRoot
                         /\ challenges[k].status = "Open"
                         /\ challenges'[k] = AnsweredAs(k, items[k])
      /\ \A k \in Key : k \notin keys => challenges'[k] = challenges[k]
  BY AnswerWrites
<1>2. /\ TypeInv /\ DisputeTypeOK /\ now + DeliveryWait \in Nat
      /\ \A k \in keys : Recorded(k[1], k[2])
  BY Constants, SMTT(30) DEF ReserveInv, ChallengeInv, Due, TypeInv, ReserveTypeOK
<1>3. /\ deliveredUnder' = deliveredUnder
      /\ dutyUntil' = [id \in Id |-> IF Under(id, Requested(keys)) = {} THEN dutyUntil[id]
                                     ELSE Latest(dutyUntil[id], now + DeliveryWait)]
  BY <1>1 DEF Answer
<1>4. ASSUME NEW k \in keys PROVE Moves(k)
  <2>1. /\ challenges'[k].status = "Answered"
        /\ challenges'[k].byPrincipal = challenges[k].byPrincipal
        /\ challenges[k].byPrincipal => challenges'[k].deadline = now + DeliveryWait
    BY <1>1, <1>2, AnsweredType
  <2>2. challenges[k].byPrincipal => dutyUntil'[k[1]] >= now + DeliveryWait
    <3> SUFFICES ASSUME challenges[k].byPrincipal PROVE dutyUntil'[k[1]] >= now + DeliveryWait
      OBVIOUS
    <3>1. k[1] \in Id /\ dutyUntil[k[1]] \in Nat
      BY <1>1, <1>2 DEF Key, DisputeTypeOK
    <3>2. k \in Under(k[1], Requested(keys))
      BY DEF Under, Requested
    <3>3. dutyUntil'[k[1]] = Latest(dutyUntil[k[1]], now + DeliveryWait)
      BY <1>3, <3>1, <3>2
    <3> QED BY <1>2, <3>1, <3>3 DEF Latest
  <2>3. challenges[k].status = "Open"
    BY <1>1
  <2> QED BY <2>1, <2>2, <2>3 DEF Moves, Opens, Dues, Expires, Delivers, Finishes, IsDue
<1>5. \A k \in Key : Moves(k)
  BY <1>1, <1>3, <1>4, SameMoves
<1>6. ASSUME NEW i \in Id PROVE Extends(i)
  <2>1. CASE Under(i, Requested(keys)) = {}
    BY <1>3, <2>1 DEF Extends
  <2>2. ASSUME NEW k \in Under(i, Requested(keys)) PROVE Extends(i)
    <3>1. k \in keys /\ k[1] = i /\ k \in Id \X Digest
      BY <1>1 DEF Under, Requested, Key
    <3>2. k = <<i, k[2]>> /\ k[2] \in Digest
      BY <3>1
    <3>3. Recorded(i, k[2]) /\ challenges[<<i, k[2]>>].status = "Open"
      BY <1>1, <1>2, <3>1, <3>2
    <3>4. Challengeable(i)
      BY <3>2, <3>3 DEF Challengeable
    <3> QED BY <1>3, <2>2, <3>4 DEF Extends
  <2> QED BY <2>1, <2>2
<1> QED BY <1>5, <1>6 DEF AllMove

\* expire forfeits.
LEMMA ExpireMoves ==
  ASSUME ReserveInv, ChallengeInv, NEW id \in Id, NEW dg \in Digest, Expire(id, dg)
  PROVE  AllMove
<1> DEFINE c == challenges[<<id, dg>>]
           e == [c EXCEPT !.status = "Expired"]
           n == IF c.byPrincipal THEN 1 ELSE 0
<1>1. /\ DisputeTypeOK /\ <<id, dg>> \in Key /\ deliveredUnder' = deliveredUnder
      /\ dutyUntil' = dutyUntil /\ c.status = "Open" /\ Forfeit(id, n)
      /\ challenges' = [challenges EXCEPT ![<<id, dg>>] = e]
  BY DEF Expire, ChallengeInv, Key
<1>2. c \in Challenge
  BY <1>1, ChallengeFields
<1>3. e.status = "Expired" /\ n \in Nat
  BY <1>2 DEF Challenge
<1> HIDE DEF e, n
<1>4. challenges'[<<id, dg>>] = e => Moves(<<id, dg>>)
  BY <1>1, <1>3 DEF Moves, Opens, Dues, Expires, Delivers, Finishes, IsDue
<1>5. \A k \in Key : Moves(k)
  BY <1>1, <1>4, OneMoves
<1> QED BY <1>1, <1>5 DEF AllMove, Extends

\* deliver needs a receipt for the answer's root.
LEMMA DeliverMoves ==
  ASSUME ReserveInv, ChallengeInv, NEW sender \in Poster, NEW id \in Id,
         NEW dg \in Digest, NEW r \in receipts, NEW fee \in Fee,
         Deliver(sender, id, dg, r, fee)
  PROVE  AllMove
<1> DEFINE c == challenges[<<id, dg>>]
           e == [c EXCEPT !.status = "Delivered"]
<1>1. /\ DisputeTypeOK /\ <<id, dg>> \in Key
      /\ deliveredUnder' = [deliveredUnder EXCEPT ![<<id, dg>>] = r.sealedRoot]
      /\ dutyUntil' = dutyUntil /\ c.status = "Answered" /\ r.id = id /\ r.root = c.root
      /\ challenges' = [challenges EXCEPT ![<<id, dg>>] = e]
  BY DEF Deliver, Demanded, ChallengeInv, Key
<1>2. c \in Challenge
  BY <1>1, ChallengeFields
<1>3. /\ e.status = "Delivered" /\ e.root = c.root /\ e.byPrincipal = c.byPrincipal
      /\ e.deadline = c.deadline
  BY <1>2 DEF Challenge
<1>4. /\ deliveredUnder'[<<id, dg>>] = r.sealedRoot
      /\ \A k \in Key : k # <<id, dg>> => deliveredUnder'[k] = deliveredUnder[k]
  BY <1>1 DEF DisputeTypeOK
<1> HIDE DEF e
<1>5. challenges'[<<id, dg>>] = e => Moves(<<id, dg>>)
  BY <1>1, <1>3, <1>4 DEF Moves, Opens, Dues, Expires, Delivers, Finishes, IsDue
<1>6. \A k \in Key : Moves(k)
  BY <1>1, <1>4, <1>5, OneMoves
<1> QED BY <1>1, <1>6 DEF AllMove, Extends

\* Every step of the composition moves challenges and duties in these ways.
LEMMA StepMoves ==
  ASSUME ReserveInv, ChallengeInv, [ComposedNext]_vars
  PROVE  AllMove
<1>1. ASSUME UNCHANGED <<challenges, dutyUntil, deliveredUnder>> PROVE AllMove
  BY <1>1, SameMoves DEF AllMove, Extends
<1>2. Elsewhere => UNCHANGED <<challenges, dutyUntil, deliveredUnder>>
  BY DEF Elsewhere
<1>3. PostingStep => UNCHANGED <<challenges, dutyUntil, deliveredUnder>>
  BY PostingKeeps
<1> QED BY <1>1, <1>2, <1>3, StepKinds, DisputeKinds, OpenMoves, JoinMoves, CancelMoves,
        AnswerMoves, ExpireMoves, DeliverMoves

----------------------------------------------------------------------------
(* Duties end, and forfeits pay.                                           *)

\* Every request's deadline is inside its delegation's duty, no duty is longer
\* than a wait, and what is closed has no open challenge and no duty past a wait
\* from its close.
Dutied(k) ==
  /\ IsDue(challenges[k]) => challenges[k].deadline <= dutyUntil[k[1]]
  /\ challenges[k].status = "Open" => ~delegations[k[1]].closed

DutyOf(i) ==
  /\ dutyUntil[i] <= now + DeliveryWait
  /\ delegations[i].closed => dutyUntil[i] <= closedAt[i] + DeliveryWait

DutyInv ==
  /\ dispute = This
  /\ \A k \in Key : Dutied(k)
  /\ \A i \in Id : DutyOf(i)

\* A challenge of a settlement, or one in its window, finds the delegation open.
LEMMA FreshOpen ==
  ASSUME ReserveInv, DutyInv, NEW i \in Id, Challengeable(i)
  PROVE  ~delegations[i].closed
<1>1. PICK dg \in Digest :
        /\ Recorded(i, dg)
        /\ challenges[<<i, dg>>].status = "Open" \/ InWindow(i, dg)
  BY DEF Challengeable
<1>2. CASE challenges[<<i, dg>>].status = "Open"
  <2>1. <<i, dg>> \in Key
    BY DEF Key
  <2> QED BY <1>2, <2>1 DEF DutyInv, Dutied
<1>3. CASE InWindow(i, dg)
  <2> SUFFICES ASSUME delegations[i].closed PROVE FALSE
    OBVIOUS
  <2>1. dispute # NoDispute /\ dispute.acceptWindow = AcceptWindow
    BY ReserveAssumption, DisputeAssumption DEF DutyInv, This
  <2>2. closedAt[i] > settled[i][dg].time + AcceptWindow
    BY <1>1, <2>1, LiveOutlives DEF BondOutlivesChallenges, ReserveInv, Recorded
  <2>3. closedAt[i] <= now
    BY DEF ReserveInv, LiveInv, ClosedLate
  <2>4. /\ closedAt[i] \in Nat /\ now \in Nat /\ AcceptWindow \in Nat
        /\ settled[i][dg].time \in Nat
    BY <1>1, SettlementType, Constants DEF Recorded, ReserveInv, TypeInv, ReserveTypeOK
  <2> QED BY <1>3, <2>2, <2>3, <2>4 DEF InWindow
<1> QED BY <1>1, <1>2, <1>3

\* How any step may close, pay and move the clock.
LEMMA StepEnds ==
  ASSUME ReserveInv, [ComposedNext]_vars
  PROVE  /\ \A i \in Id : EndsNow(i)
         /\ now' >= now /\ dispute' = dispute /\ now \in Nat
         /\ DisputeStep => /\ now' = now /\ closedAt' = closedAt
                           /\ \A i \in Id :
                                /\ delegations'[i].closed = delegations[i].closed
                                /\ delegations[i].frozen => delegations'[i].frozen
<1>1. TypeInv /\ BondInv /\ now \in Nat
  BY DEF ReserveInv, TypeInv, ReserveTypeOK
<1>2. CASE AccountStep
  <2>1. UNCHANGED <<now, dispute>>
    BY <1>1, <1>2, AccountAged
  <2>2. ASSUME DisputeStep
        PROVE  /\ closedAt' = closedAt
               /\ \A i \in Id : /\ delegations'[i].closed = delegations[i].closed
                                /\ delegations[i].frozen => delegations'[i].frozen
    BY <1>1, <2>2, StepCalls, CallEnds
  <2> QED BY <1>1, <1>2, <2>1, <2>2, AccountEnds
<1>3. CASE DisputeStep
  <2>1. Call /\ openCount' \in [Id -> Nat]
    BY <1>1, <1>3, StepCalls
  <2>2. UNCHANGED <<now, dispute>>
    BY <2>1 DEF Call, NoCall, Hold, Release, Forfeit, SlashAnswerer, ArbiterKeeps
  <2> QED BY <1>1, <2>1, <2>2, CallEnds
<1>4. CASE (Tick \/ UNCHANGED vars) /\ ~DisputeStep
  <2>1. UNCHANGED <<delegations, bondTo, closedAt, dispute>> /\ now' >= now
    BY <1>1, <1>4 DEF Tick, vars, reserveVars
  <2>2. \A i \in Id : EndsNow(i)
    BY <2>1, SameEnds DEF SameRecord, SameLife, SameTerms, SameEnd
  <2> QED BY <1>1, <1>4, <2>1, <2>2
<1> QED BY <1>2, <1>3, <1>4 DEF ComposedNext

\* Only what has no open challenge closes.
LEMMA ClosesUnchallenged ==
  ASSUME CountedInv, DutyInv, NEW k \in Key, Closable(k[1])
  PROVE  challenges[k].status # "Open"
<1>1. k[1] \in Id /\ k[2] \in Digest /\ k = <<k[1], k[2]>>
  BY DEF Key
<1>2. dispute # NoDispute
  BY ReserveAssumption, DisputeAssumption DEF DutyInv
<1>3. Cardinality(OpenOf(k[1])) = 0
  BY <1>1, <1>2 DEF Closable, CountedInv, CountInv, OpenCountExact
<1>4. IsFiniteSet(OpenOf(k[1]))
  BY DigestFinite, FS_Subset DEF OpenOf
<1>5. OpenOf(k[1]) = {}
  BY <1>3, <1>4, FS_EmptySet
<1> QED BY <1>1, <1>5 DEF OpenOf

\* No step lengthens a duty past what its delegation's close allows.
LEMMA DutiesKept ==
  ASSUME CountedInv, DutyInv, [ComposedNext]_vars
  PROVE  DutyInv'
<1>1. ReserveInv /\ ChallengeInv /\ DisputeTypeOK /\ now \in Nat /\ DeliveryWait \in Nat
  BY Constants DEF CountedInv, ChallengeInv, ReserveInv, TypeInv, ReserveTypeOK
<1>2. /\ \A k \in Key : Moves(k)
      /\ \A i \in Id : Extends(i)
  BY <1>1, StepMoves DEF AllMove
<1>3. /\ \A i \in Id : EndsNow(i)
      /\ now' >= now /\ dispute' = dispute
      /\ DisputeStep => /\ now' = now /\ closedAt' = closedAt
                        /\ \A i \in Id : delegations'[i].closed = delegations[i].closed
  BY <1>1, StepEnds
<1>4. CountedInv'
  BY CountedKept
<1>5. /\ \A i \in Id : /\ dutyUntil[i] \in Nat /\ dutyUntil'[i] \in Nat
                       /\ closedAt[i] \in Nat /\ closedAt'[i] \in Nat
      /\ now' \in Nat
      /\ \A k \in Key : challenges[k].deadline \in Nat /\ challenges'[k].deadline \in Nat
  <2>1. DisputeTypeOK' /\ ReserveTypeOK' /\ ReserveTypeOK
    BY <1>1, <1>4 DEF CountedInv, ChallengeInv, ReserveInv, TypeInv
  <2>2. \A k \in Key : challenges[k] \in Challenge /\ challenges'[k] \in Challenge
    BY <1>1, <2>1 DEF DisputeTypeOK
  <2> QED BY <1>1, <2>1, <2>2 DEF DisputeTypeOK, ReserveTypeOK, Challenge
<1>6. ASSUME NEW i \in Id PROVE dutyUntil'[i] >= dutyUntil[i]
  BY <1>1, <1>2, <1>5, <1>6 DEF Extends, Latest
<1>7. ASSUME NEW k \in Key PROVE Dutied(k)'
  <2>1. Moves(k) /\ Dutied(k) /\ k[1] \in Id /\ k[2] \in Digest /\ k = <<k[1], k[2]>>
    BY <1>2, <1>7 DEF DutyInv, Key
  <2>2. IsDue(challenges'[k]) => challenges'[k].deadline <= dutyUntil'[k[1]]
    <3>1. dutyUntil'[k[1]] >= dutyUntil[k[1]]
      BY <1>6, <2>1
    <3>2. CASE IsDue(challenges[k]) /\ challenges'[k].deadline = challenges[k].deadline
      BY <1>5, <2>1, <3>1, <3>2 DEF Dutied
    <3> QED BY <1>5, <2>1, <3>2 DEF Moves, Dues
  <2>3. ASSUME challenges'[k].status = "Open" PROVE ~delegations'[k[1]].closed
    <3>1. Challengeable(k[1])
      <4>1. challenges[k].status = "Open" => Recorded(k[1], k[2])
        BY <1>1 DEF ChallengeInv, Challenged
      <4> QED BY <2>1, <2>3, <4>1 DEF Moves, Opens, Challengeable
    <3>2. ~delegations[k[1]].closed
      BY <1>1, <2>1, <3>1, FreshOpen
    <3>3. CASE DisputeStep
      BY <1>3, <2>1, <3>2, <3>3
    <3>4. CASE Elsewhere
      <4>1. challenges[k].status = "Open"
        BY <2>3, <3>4 DEF Elsewhere
      <4>2. ~Closable(k[1])
        BY <4>1, ClosesUnchallenged
      <4> QED BY <1>3, <2>1, <3>2, <4>2 DEF EndsNow, ClosedNow
    <3> QED BY <3>3, <3>4, StepKinds
  <2> QED BY <2>2, <2>3 DEF Dutied
<1>8. ASSUME NEW i \in Id PROVE DutyOf(i)'
  <2>1. DutyOf(i) /\ Extends(i) /\ EndsNow(i)
    BY <1>2, <1>3, <1>8 DEF DutyInv
  <2>2. dutyUntil'[i] <= now' + DeliveryWait
    BY <1>1, <1>3, <1>5, <2>1 DEF DutyOf, Extends, Latest
  <2>3. ASSUME delegations'[i].closed PROVE dutyUntil'[i] <= closedAt'[i] + DeliveryWait
    <3>1. CASE DisputeStep
      <4>1. delegations[i].closed /\ closedAt'[i] = closedAt[i]
        BY <1>3, <2>3, <3>1
      <4>2. ~Challengeable(i)
        BY <1>1, <4>1, FreshOpen
      <4> QED BY <2>1, <4>1, <4>2 DEF DutyOf, Extends
    <3>2. CASE Elsewhere
      <4>1. dutyUntil'[i] = dutyUntil[i]
        BY <3>2 DEF Elsewhere
      <4>2. \/ closedAt'[i] = now
            \/ delegations[i].closed /\ closedAt'[i] = closedAt[i]
        BY <2>1, <2>3 DEF EndsNow, ClosedNow
      <4> QED BY <2>1, <4>1, <4>2 DEF DutyOf
    <3> QED BY <3>1, <3>2, StepKinds
  <2> QED BY <2>2, <2>3 DEF DutyOf
<1> QED BY <1>3, <1>7, <1>8 DEF DutyInv

\* The deployed pair starts with no duty.
LEMMA InitDuties == ComposedInit => DutyInv
<1> SUFFICES ASSUME ComposedInit PROVE DutyInv
  OBVIOUS
<1>1. ReserveInit(This) /\ DisputeInit({})
  BY DEF ComposedInit
<1>2. \A k \in Key : challenges[k].status = "None"
  BY <1>1 DEF DisputeInit, Unchallenged
<1>3. dispute = This /\ now \in Nat /\ (\A i \in Id : ~delegations[i].closed)
  BY <1>1, DisputeAssumption, ReserveAssumption DEF ReserveInit, Blank
<1>4. \A i \in Id : dutyUntil[i] = 0
  BY <1>1 DEF DisputeInit
<1> QED BY <1>2, <1>3, <1>4, Constants DEF DutyInv, Dutied, DutyOf, IsDue

\* The stake outlives every delivery it stands for: a closed delegation owes no
\* delivery later than the wait after its close, and no challenge is open or can
\* be opened or joined under it, whatever interleaves (_settle, join, close,
\* unstakeAnswerer).
THEOREM StakeOutlives == ComposedSpec => []StakeOutlivesDuty
<1>1. CountedInv /\ DutyInv => StakeOutlivesDuty
  <2> SUFFICES ASSUME CountedInv, DutyInv, NEW i \in Id
               PROVE  /\ \A root \in BatchRoot : \A dg \in Requests(i, root) :
                           challenges[<<i, dg>>].deadline <= dutyUntil[i]
                      /\ delegations[i].closed
                           => /\ dutyUntil[i] <= closedAt[i] + DeliveryWait
                              /\ OpenOf(i) = {}
    BY DEF StakeOutlivesDuty
  <2>1. \A dg \in Digest : <<i, dg>> \in Key
    BY DEF Key
  <2>2. DutyOf(i) /\ \A dg \in Digest : Dutied(<<i, dg>>)
    BY <2>1 DEF DutyInv
  <2> QED BY <2>2 DEF Dutied, DutyOf, IsDue, Requests, OpenOf
<1>2. CountedInv /\ DutyInv /\ [ComposedNext]_vars => CountedInv' /\ DutyInv'
  BY CountedKept, DutiesKept
<1>3. ComposedInit => CountedInv /\ DutyInv
  BY CountedKept, InitDuties
<1> QED BY <1>1, <1>2, <1>3, PTL DEF ComposedSpec

\* What expired froze its delegation and its bond is the principal's, and a
\* bond paid before a close was paid to the principal.
Forfeited(k) ==
  challenges[k].status = "Expired"
    => delegations[k[1]].frozen /\ bondTo[k[1]] = "principal"

PaidOf(i) ==
  (delegations[i].accepted /\ delegations[i].bondPaid /\ ~delegations[i].closed)
    => bondTo[i] = "principal"

ForfeitInv == (\A k \in Key : Forfeited(k)) /\ (\A i \in Id : PaidOf(i))

\* A bond that is the principal's stays so.
LEMMA PaidStays ==
  ASSUME EscrowStep, NEW i \in Id, delegations[i].accepted, delegations'[i].accepted,
         bondTo[i] = "principal"
  PROVE  bondTo'[i] = "principal"
<1>1. EscrowOf(i) = "principal" /\ Escrowed[i] = "principal"
  BY DEF EscrowOf, Escrowed
<1>2. Escrowed'[i] = EscrowOf(i)' /\ Escrowed = [id \in Id |-> EscrowOf(id)]
      /\ Escrowed' = [id \in Id |-> EscrowOf(id)']
  BY DEF Escrowed
<1> DEFINE E == Escrowed
<1>3. E'[i] = "principal"
  <2>1. CASE E' = E
    BY <1>1, <2>1
  <2>2. ASSUME NEW id \in Id, NEW to, E' = [E EXCEPT ![id] = to],
               E[id] \in {"none", "held"}
        PROVE  E'[i] = "principal"
    BY <1>1, <1>2, <2>2
  <2>3. \/ E' = E
        \/ \E id \in Id, to \in {"held", "agent", "principal"} :
             E' = [E EXCEPT ![id] = to] /\ E[id] \in {"none", "held"}
    BY DEF EscrowStep, Escrow!EscrowNext, Escrow!Post, Escrow!Pay, Escrow!End, Escrowed
  <2> QED BY <2>1, <2>2, <2>3
<1>4. EscrowOf(i)' = "principal"
  BY <1>2, <1>3
<1>5. bondTo'[i] = "nobody" => EscrowOf(i)' = "held"
  BY DEF EscrowOf
<1> QED BY <1>4, <1>5 DEF EscrowOf

\* What an expiry forfeits.
LEMMA ForfeitPays ==
  ASSUME TypeInv, NEW i \in Id, NEW n \in Nat, Forfeit(i, n), PaidOf(i),
         delegations[i].accepted, ~delegations[i].closed
  PROVE  delegations'[i].frozen /\ bondTo'[i] = "principal"
<1> DEFINE f == BondSpent(Froze(delegations[i]))
           e == [f EXCEPT !.holds = f.holds - n]
<1>1. /\ delegations' = [delegations EXCEPT ![i] = e] /\ bondTo' = Paid("principal", i)
      /\ delegations[i] \in Delegation /\ delegations \in [Id -> Delegation]
      /\ bondTo \in [Id -> {"nobody", "agent", "principal"}] /\ now \in Nat
  BY DEF Forfeit, TypeInv, ReserveTypeOK
<1>2. f \in Delegation /\ f.frozen
  BY <1>1, FrozeUpdate, SpentUpdate DEF SameLife, SameEnd
<1> HIDE DEF f
<1>3. e.frozen
  BY <1>2 DEF Delegation
<1>4. bondTo'[i] = "principal"
  BY <1>1 DEF Paid, PaidOf
<1> QED BY <1>1, <1>3, <1>4

\* No step frees what expired or takes its bond from the principal.
LEMMA ForfeitsKept ==
  ASSUME CountedInv, DutyInv, ForfeitInv, [ComposedNext]_vars
  PROVE  ForfeitInv'
<1>1. ReserveInv /\ ChallengeInv /\ TypeInv
  BY DEF CountedInv, ReserveInv
<1>2. ReserveInv' /\ ChallengeInv' /\ EscrowStep
  BY <1>1, ReserveKept, ChallengesKept
<1>3. \A i \in Id : EndsNow(i)
  BY <1>1, StepEnds
<1>4. ASSUME NEW i \in Id PROVE PaidOf(i)'
  BY <1>3, <1>4 DEF EndsNow, PaidNow, PaidOf, ForfeitInv
<1>5. ASSUME NEW k \in Key, challenges'[k].status = "Expired"
      PROVE  delegations'[k[1]].frozen /\ bondTo'[k[1]] = "principal"
  <2> DEFINE i == k[1]
  <2>1. i \in Id /\ k[2] \in Digest
    BY DEF Key
  <2>2. Moves(k)
    BY <1>1, StepMoves DEF AllMove
  <2>3. Recorded(i, k[2])
    BY <1>1, <1>5, <2>2 DEF Moves, Expires, ChallengeInv, Challenged
  <2>4. Recorded(i, k[2])'
    BY <1>1, <2>1, <2>3, SettledStays
  <2>5. delegations[i].accepted /\ i < nextId
    BY <1>1, <2>1, <2>3, RecordedFacts
  <2>6. delegations'[i].accepted
    BY <1>2, <2>1, <2>4 DEF Recorded, ReserveInv, LiveInv, LiveRecord
  <2>7. CASE challenges[k].status = "Expired"
    <3>1. delegations[i].frozen /\ bondTo[i] = "principal"
      BY <2>7 DEF ForfeitInv, Forfeited
    <3>2. bondTo'[i] = "principal"
      BY <1>2, <2>1, <2>5, <2>6, <3>1, PaidStays
    <3>3. delegations'[i].frozen
      <4>1. CASE DisputeStep
        BY <1>1, <2>1, <3>1, <4>1, StepEnds
      <4>2. CASE Tick \/ UNCHANGED vars
        BY <3>1, <4>2 DEF Tick, vars, reserveVars
      <4>3. CASE AccountStep
        <5>1. CASE \A j \in Id : Aged(j)
          BY <2>1, <3>1, <5>1 DEF Aged, Later
        <5>2. ASSUME NEW p \in Principal, NEW t \in Offer, Register(p, t)
              PROVE  delegations'[i].frozen
          <6>1. i # nextId
            BY <2>1, <2>5, ReserveAssumption DEF TypeInv, ReserveTypeOK, Id, ReserveInv
          <6> QED BY <1>1, <2>1, <3>1, <5>2, <6>1, RegisterWrites
        <5> QED BY <1>1, <4>3, <5>1, <5>2, AccountAged
      <4> QED BY <4>1, <4>2, <4>3 DEF ComposedNext
    <3> QED BY <3>2, <3>3
  <2>8. ASSUME challenges[k].status = "Open", NEW n \in Nat, Forfeit(i, n)
        PROVE  delegations'[i].frozen /\ bondTo'[i] = "principal"
    <3>1. ~delegations[i].closed /\ PaidOf(i)
      BY <2>1, <2>8 DEF DutyInv, Dutied, ForfeitInv
    <3> HIDE DEF i
    <3> QED BY <1>1, <2>1, <2>5, <2>8, <3>1, ForfeitPays
  <2> QED BY <1>5, <2>2, <2>7, <2>8 DEF Moves, Expires
<1> QED BY <1>4, <1>5 DEF ForfeitInv, Forfeited

\* At the start nothing expired and no bond is paid.
LEMMA InitForfeits == ComposedInit => ForfeitInv
<1> SUFFICES ASSUME ComposedInit PROVE ForfeitInv
  OBVIOUS
<1>1. ReserveInit(This) /\ DisputeInit({})
  BY DEF ComposedInit
<1>2. \A k \in Key : challenges[k].status = "None"
  BY <1>1 DEF DisputeInit, Unchallenged
<1>3. \A i \in Id : ~delegations[i].accepted
  BY <1>1 DEF ReserveInit, Blank
<1> QED BY <1>2, <1>3 DEF ForfeitInv, Forfeited, PaidOf

\* An expired challenge's bond reaches the principal and never the agent: no
\* close gets there first, before or after the expiry, and a claim that did paid
\* the principal as well (expire, forfeit, claim, close).
THEOREM ForfeitsReachPrincipal == ComposedSpec => []ForfeitReachesPrincipal
<1> DEFINE IInv == CountedInv /\ DutyInv /\ ForfeitInv
<1>1. IInv => ForfeitReachesPrincipal
  BY DEF ForfeitReachesPrincipal, ForfeitInv, Forfeited, Key
<1>2. IInv /\ [ComposedNext]_vars => IInv'
  BY CountedKept, DutiesKept, ForfeitsKept
<1>3. ComposedInit => IInv
  BY CountedKept, InitDuties, InitForfeits
<1> QED BY <1>1, <1>2, <1>3, PTL DEF ComposedSpec

----------------------------------------------------------------------------
(* The arbiter's ether.                                                    *)

\* What is owed in credits, in pools, and in bonds of open challenges.
OwedCredit == SumFunction(disputeCredit)

OwedPools == SumFunction(postingPool)

OpenKeys == {k \in Key : challenges[k].status = "Open"}

OwedBonds == SumFunctionOnSet(Bonds, OpenKeys)

\* The bond a challenge's record keeps for someone.
KeptBond(c) == IF c.status = "Open" THEN c.bond ELSE 0

LEMMA AccountFinite == IsFiniteSet(Account)
  BY ReserveAssumption, FS_AddElement DEF Account

\* What is owed are numbers.
LEMMA OwedTypes ==
  ASSUME DisputeTypeOK
  PROVE  /\ OwedCredit \in Int /\ OwedPools \in Int /\ OwedBonds \in Int
         /\ OpenKeys \subseteq Key /\ IsFiniteSet(OpenKeys)
         /\ \A k \in Key : Bonds[k] = challenges[k].bond /\ Bonds[k] \in Nat
<1>1. disputeCredit \in [Account -> Int] /\ postingPool \in [Id -> Int]
  BY DEF DisputeTypeOK
<1>2. OwedCredit \in Int /\ OwedPools \in Int
  BY <1>1, AccountFinite, IdFinite, TotalInt DEF OwedCredit, OwedPools
<1>3. OpenKeys \subseteq Key /\ IsFiniteSet(OpenKeys)
  BY KeyFinite, FS_Subset DEF OpenKeys
<1>4. \A k \in Key : Bonds[k] = challenges[k].bond /\ Bonds[k] \in Nat
  BY ChallengeFields DEF Bonds
<1>5. OwedBonds \in Int
  BY <1>3, <1>4, SumInt DEF OwedBonds
<1> QED BY <1>2, <1>3, <1>4, <1>5

\* The bonds of the open among any challenges, summed over all of them.
BondsOf(cs) == [k \in Key |-> cs[k].bond]

OpenIn(cs) == {k \in Key : cs[k].status = "Open"}

KeptIn(cs) == [k \in Key |-> KeptBond(cs[k])]

LEMMA KeptSum ==
  ASSUME NEW cs \in [Key -> Challenge]
  PROVE  SumFunctionOnSet(BondsOf(cs), OpenIn(cs)) = SumFunctionOnSet(KeptIn(cs), Key)
<1>1. \A k \in Key : cs[k].bond \in Nat
  BY DEF Challenge
<1>2. /\ OpenIn(cs) \subseteq Key /\ IsFiniteSet(OpenIn(cs)) /\ IsFiniteSet(Key \ OpenIn(cs))
      /\ IsFiniteSet(Key)
  BY KeyFinite, FS_Subset DEF OpenIn
<1>3. \A k \in Key : KeptIn(cs)[k] \in Int
  BY <1>1 DEF KeptIn, KeptBond
<1>4. \A k \in OpenIn(cs) : KeptIn(cs)[k] = BondsOf(cs)[k]
  BY DEF KeptIn, KeptBond, BondsOf, OpenIn
<1>5. \A k \in Key \ OpenIn(cs) : KeptIn(cs)[k] = 0
  BY DEF KeptIn, KeptBond, OpenIn
<1>6. SumFunctionOnSet(KeptIn(cs), OpenIn(cs)) = SumFunctionOnSet(BondsOf(cs), OpenIn(cs))
  BY <1>2, <1>4, SumSame
<1>7. SumFunctionOnSet(KeptIn(cs), Key \ OpenIn(cs)) = 0
  BY <1>2, <1>5, SumZero
<1>8. SumFunctionOnSet(KeptIn(cs), OpenIn(cs)) \in Int
  BY <1>2, <1>3, SumInt
<1>9. SumFunctionOnSet(KeptIn(cs), Key) =
        SumFunctionOnSet(KeptIn(cs), OpenIn(cs)) + SumFunctionOnSet(KeptIn(cs), Key \ OpenIn(cs))
  BY <1>2, <1>3, SumParted
<1> QED BY <1>6, <1>7, <1>8, <1>9

\* One challenge is written.
LEMMA OneKept ==
  ASSUME DisputeTypeOK, NEW id \in Id, NEW dg \in Digest, NEW e \in Challenge,
         challenges' = [challenges EXCEPT ![<<id, dg>>] = e]
  PROVE  OwedBonds' = OwedBonds - KeptBond(challenges[<<id, dg>>]) + KeptBond(e)
<1> DEFINE f == KeptIn(challenges)
           g == KeptIn(challenges')
           x == <<id, dg>>
<1>1. x \in Key
  BY DEF Key
<1>2. /\ challenges \in [Key -> Challenge] /\ challenges' \in [Key -> Challenge]
      /\ challenges'[x] = e /\ \A k \in Key : k # x => challenges'[k] = challenges[k]
  BY OneChallenge, ZenonT(40) DEF DisputeTypeOK
<1>3. OwedBonds = SumFunctionOnSet(f, Key)
  BY <1>2, KeptSum DEF OwedBonds, OpenKeys, Bonds, BondsOf, OpenIn
<1>4. OwedBonds' = SumFunctionOnSet(g, Key)
  BY <1>2, KeptSum DEF OwedBonds, OpenKeys, Bonds, BondsOf, OpenIn
<1>5. \A k \in Key : f[k] = KeptBond(challenges[k]) /\ g[k] = KeptBond(challenges'[k])
  BY DEF KeptIn, KeptBond
<1>6. \A c \in Challenge : KeptBond(c) \in Int
  BY DEF KeptBond, Challenge
<1> HIDE DEF f, g, x
<1>7. \A k \in Key : f[k] \in Int /\ g[k] \in Int
  BY <1>2, <1>5, <1>6
<1>8. \A k \in Key : k # x => g[k] = f[k]
  BY <1>2, <1>5
<1>9. SumFunctionOnSet(g, Key) = SumFunctionOnSet(f, Key) - f[x] + g[x]
  BY <1>1, <1>7, <1>8, KeyFinite, SumChanged
<1>10. f[x] = KeptBond(challenges[x]) /\ g[x] = KeptBond(e)
  BY <1>1, <1>2, <1>5
<1> QED BY <1>3, <1>4, <1>9, <1>10 DEF x

\* One credit, one pool, changes.
LEMMA OneOwedCredit ==
  ASSUME DisputeTypeOK, NEW a \in Account, NEW n \in Int, disputeCredit[a] + n \in Nat,
         disputeCredit' = [disputeCredit EXCEPT ![a] = disputeCredit[a] + n]
  PROVE  OwedCredit' = OwedCredit + n
<1> DEFINE f == disputeCredit
           g == disputeCredit'
<1>1. /\ f \in [Account -> Int] /\ g \in [Account -> Int] /\ g[a] = f[a] + n
      /\ \A b \in Account : b # a => g[b] = f[b]
  BY DEF DisputeTypeOK
<1>2. SumFunction(f) = OwedCredit /\ SumFunction(g) = OwedCredit'
  BY DEF OwedCredit
<1> HIDE DEF f, g
<1>3. SumFunction(g) = SumFunction(f) - f[a] + g[a]
  BY <1>1, AccountFinite, TotalChanged
<1>4. SumFunction(f) \in Int /\ f[a] \in Int
  BY <1>1, AccountFinite, TotalInt
<1> QED BY <1>1, <1>2, <1>3, <1>4

LEMMA OneOwedPool ==
  ASSUME DisputeTypeOK, NEW id \in Id, NEW n \in Int, postingPool[id] + n \in Nat,
         postingPool' = [postingPool EXCEPT ![id] = postingPool[id] + n]
  PROVE  OwedPools' = OwedPools + n
<1> DEFINE f == postingPool
           g == postingPool'
<1>1. /\ f \in [Id -> Int] /\ g \in [Id -> Int] /\ g[id] = f[id] + n
      /\ \A i \in Id : i # id => g[i] = f[i]
  BY DEF DisputeTypeOK
<1>2. SumFunction(f) = OwedPools /\ SumFunction(g) = OwedPools'
  BY DEF OwedPools
<1> HIDE DEF f, g
<1>3. SumFunction(g) = SumFunction(f) - f[id] + g[id]
  BY <1>1, IdFinite, TotalChanged
<1>4. SumFunction(f) \in Int /\ f[id] \in Int
  BY <1>1, IdFinite, TotalInt
<1> QED BY <1>1, <1>2, <1>3, <1>4

\* The conservation law in these terms.
LEMMA SolventSame ==
  DisputeSolvent <=> disputeBalance = OwedCredit + OwedPools + OwedBonds
BY DEF DisputeSolvent, OwedCredit, OwedPools, OwedBonds, OpenKeys

LEMMA SolventStep ==
  ASSUME DisputeTypeOK, DisputeSolvent, NEW x \in Int, NEW y \in Int, NEW z \in Int,
         OwedCredit' = OwedCredit + x, OwedPools' = OwedPools + y, OwedBonds' = OwedBonds + z,
         disputeBalance' = disputeBalance + (x + y + z)
  PROVE  DisputeSolvent'
<1>1. /\ OwedCredit \in Int /\ OwedPools \in Int /\ OwedBonds \in Int
      /\ disputeBalance \in Int
  BY OwedTypes DEF DisputeTypeOK
<1>2. disputeBalance = OwedCredit + OwedPools + OwedBonds
  BY SolventSame
<1>3. disputeBalance' = OwedCredit' + OwedPools' + OwedBonds'
  BY <1>1, <1>2
<1> QED BY <1>3 DEF DisputeSolvent, OwedCredit, OwedPools, OwedBonds, OpenKeys

\* Nothing owed changes.
LEMMA SolventStill ==
  ASSUME DisputeSolvent, UNCHANGED <<challenges, disputeCredit, postingPool, disputeBalance>>
  PROVE  DisputeSolvent'
BY DEF DisputeSolvent, Bonds
\* open: a bond, and what is sent beyond it.
LEMMA OpenSolvent ==
  ASSUME ReserveInv, ChallengeInv, DisputeSolvent, NEW sender \in Challenger, NEW id \in Id,
         NEW dg \in Digest, NEW bond \in BondPrice, NEW deposit \in DepositPrice,
         NEW excess \in Excess, Open(sender, id, dg, bond, deposit, excess)
  PROVE  DisputeSolvent'
<1> DEFINE principal == Asks(sender, id)
           c == Opened(sender, id, bond, DeadlineOf(sender, id))
           extra == excess + (IF principal THEN TopUp(id, deposit) ELSE 0)
<1>1. /\ sender \in Address /\ sender \in Account /\ bond \in Nat /\ deposit \in Nat
      /\ excess \in Nat /\ principal \in BOOLEAN /\ now \in Nat /\ DisputeTypeOK /\ TypeInv
  BY DisputeAssumption, Constants
     DEF Asks, MayStop, ReserveInv, TypeInv, ReserveTypeOK, ChallengeInv
<1>2. DeadlineOf(sender, id) \in Nat
  BY <1>1, RecordedFacts, DeadlineFacts DEF Open, DeadlineOf
<1>3. c \in Challenge /\ KeptBond(c) = bond
  BY <1>1, <1>2, OpenedType DEF Opened, KeptBond
<1>4. extra \in Nat
  BY <1>1, TopUpType
<1>5. /\ challenges' = [challenges EXCEPT ![<<id, dg>>] = c]
      /\ challenges[<<id, dg>>].status = "None"
      /\ disputeBalance' = disputeBalance + bond + extra
  BY DEF Open, Opened, DeadlineOf
<1>6. IF principal
        THEN postingPool' = [postingPool EXCEPT ![id] = postingPool[id] + extra]
             /\ disputeCredit' = disputeCredit
        ELSE disputeCredit' = [disputeCredit EXCEPT ![sender] = disputeCredit[sender] + extra]
             /\ postingPool' = postingPool
  BY DEF Open
<1> HIDE DEF principal, c, extra
<1>7. /\ OwedCredit \in Int /\ OwedPools \in Int /\ OwedBonds \in Int
      /\ disputeBalance \in Int
  BY <1>1, OwedTypes DEF DisputeTypeOK
<1>8. OwedBonds' = OwedBonds + bond
  <2>1. OwedBonds' = OwedBonds - KeptBond(challenges[<<id, dg>>]) + KeptBond(c)
    BY <1>1, <1>3, <1>5, OneKept
  <2>2. KeptBond(challenges[<<id, dg>>]) = 0
    BY <1>5 DEF KeptBond
  <2> QED BY <1>1, <1>3, <1>7, <2>1, <2>2
<1>9. CASE principal
  <2>0. /\ postingPool[id] + extra \in Nat /\ extra \in Int
        /\ postingPool' = [postingPool EXCEPT ![id] = postingPool[id] + extra]
    BY <1>1, <1>4, <1>6, <1>9 DEF DisputeTypeOK
  <2>1. OwedPools' = OwedPools + extra
    BY <1>1, <2>0, OneOwedPool
  <2>2. OwedCredit' = OwedCredit + 0
    BY <1>6, <1>7, <1>9 DEF OwedCredit
  <2>3. disputeBalance' = disputeBalance + (0 + extra + bond)
    BY <1>1, <1>4, <1>5, <1>7
  <2> QED BY <1>1, <1>4, <1>8, <2>1, <2>2, <2>3, SolventStep
<1>10. CASE ~principal
  <2>0. /\ disputeCredit[sender] + extra \in Nat /\ extra \in Int
        /\ disputeCredit' = [disputeCredit EXCEPT ![sender] = disputeCredit[sender] + extra]
    BY <1>1, <1>4, <1>6, <1>10 DEF DisputeTypeOK
  <2>1. OwedCredit' = OwedCredit + extra
    BY <1>1, <2>0, OneOwedCredit
  <2>2. OwedPools' = OwedPools + 0
    BY <1>6, <1>7, <1>10 DEF OwedPools
  <2>3. disputeBalance' = disputeBalance + (extra + 0 + bond)
    BY <1>1, <1>4, <1>5, <1>7
  <2> QED BY <1>1, <1>4, <1>8, <2>1, <2>2, <2>3, SolventStep
<1> QED BY <1>9, <1>10

\* A challenge that keeps its bond, or keeps none, owes what it owed.
LEMMA KeptStill ==
  ASSUME DisputeTypeOK, NEW id \in Id, NEW dg \in Digest, NEW e \in Challenge,
         challenges' = [challenges EXCEPT ![<<id, dg>>] = e],
         KeptBond(e) = KeptBond(challenges[<<id, dg>>])
  PROVE  OwedBonds' = OwedBonds + 0
<1>1. OwedBonds' = OwedBonds - KeptBond(challenges[<<id, dg>>]) + KeptBond(e)
  BY OneKept
<1>2. KeptBond(e) \in Int /\ OwedBonds \in Int
  BY OwedTypes DEF KeptBond, Challenge
<1> QED BY <1>1, <1>2

\* join: what fills the pool.
LEMMA JoinSolvent ==
  ASSUME ReserveInv, ChallengeInv, DisputeSolvent, NEW sender \in Challenger, NEW id \in Id,
         NEW dg \in Digest, NEW deposit \in DepositPrice, NEW excess \in Excess,
         Join(sender, id, dg, deposit, excess)
  PROVE  DisputeSolvent'
<1> DEFINE c == challenges[<<id, dg>>]
           n == TopUp(id, deposit) + excess
<1>1. deposit \in Nat /\ excess \in Nat /\ DisputeTypeOK /\ <<id, dg>> \in Key
  BY DisputeAssumption DEF ChallengeInv, Key
<1>2. TopUp(id, deposit) \in Nat /\ postingPool[id] \in Nat /\ disputeBalance \in Int
  BY <1>1, TopUpType DEF DisputeTypeOK
<1>3. PICK due \in Nat :
        challenges' = [challenges EXCEPT ![<<id, dg>>] = Joined(c, due)]
  BY JoinWrites
<1>4. c \in Challenge
  BY <1>1, ChallengeFields
<1>5. Joined(c, due) \in Challenge /\ KeptBond(Joined(c, due)) = KeptBond(c)
  BY <1>4 DEF Joined, Challenge, KeptBond
<1> HIDE DEF c
<1>6. OwedBonds' = OwedBonds + 0
  BY <1>1, <1>3, <1>5, KeptStill DEF c
<1>7. /\ postingPool' = [postingPool EXCEPT ![id] = postingPool[id] + n]
      /\ disputeBalance' = disputeBalance + (0 + n + 0)
      /\ disputeCredit' = disputeCredit /\ n \in Nat /\ postingPool[id] + n \in Nat
  <2>1. /\ postingPool' = [postingPool EXCEPT ![id] =
                             postingPool[id] + TopUp(id, deposit) + excess]
        /\ disputeBalance' = disputeBalance + TopUp(id, deposit) + excess
        /\ disputeCredit' = disputeCredit
    BY DEF Join
  <2>2. /\ postingPool[id] + TopUp(id, deposit) + excess = postingPool[id] + n
        /\ disputeBalance + TopUp(id, deposit) + excess = disputeBalance + (0 + n + 0)
        /\ n \in Nat /\ postingPool[id] + n \in Nat
    BY <1>1, <1>2
  <2> HIDE DEF n
  <2> QED BY <2>1, <2>2
<1> HIDE DEF n
<1>8. OwedPools' = OwedPools + n
  <2>1. n \in Int
    BY <1>7
  <2> QED BY <1>1, <1>7, <2>1, OneOwedPool
<1>9. OwedCredit' = OwedCredit + 0
  BY <1>1, <1>7, OwedTypes DEF OwedCredit
<1> QED BY <1>1, <1>6, <1>7, <1>8, <1>9, SolventStep

\* A challenge that closes gives its bond back as a credit.
LEMMA BondCredited ==
  ASSUME DisputeTypeOK, DisputeSolvent, NEW id \in Id, NEW dg \in Digest, NEW e \in Challenge,
         challenges' = [challenges EXCEPT ![<<id, dg>>] = e],
         challenges[<<id, dg>>].status = "Open", e.status # "Open",
         disputeCredit' = [disputeCredit EXCEPT ![challenges[<<id, dg>>].challenger] =
                             @ + challenges[<<id, dg>>].bond],
         UNCHANGED <<postingPool, disputeBalance>>
  PROVE  DisputeSolvent'
<1> DEFINE c == challenges[<<id, dg>>]
           n == c.bond
           a == c.challenger
<1>1. <<id, dg>> \in Key
  BY DEF Key
<1>2. n \in Nat /\ a \in Account
  BY <1>1, ChallengeFields
<1>3. KeptBond(c) = n /\ KeptBond(e) = 0
  BY DEF KeptBond
<1>4. /\ OwedCredit \in Int /\ OwedPools \in Int /\ OwedBonds \in Int
      /\ disputeBalance \in Int
  BY OwedTypes DEF DisputeTypeOK
<1>5. OwedBonds' = OwedBonds - KeptBond(c) + KeptBond(e)
  BY OneKept
<1>6. disputeCredit' = [disputeCredit EXCEPT ![a] = disputeCredit[a] + n]
  OBVIOUS
<1>7. disputeCredit[a] + n \in Nat
  BY <1>2 DEF DisputeTypeOK
<1> HIDE DEF n, a, c
<1>8. OwedCredit' = OwedCredit + n
  <2>1. n \in Int
    BY <1>2
  <2> QED BY <1>2, <1>6, <1>7, <2>1, OneOwedCredit
<1>9. OwedBonds' = OwedBonds + (0 - n)
  BY <1>2, <1>3, <1>4, <1>5
<1>10. OwedPools' = OwedPools + 0
  BY <1>4 DEF OwedPools
<1>11. disputeBalance' = disputeBalance + (n + 0 + (0 - n))
  BY <1>2, <1>4
<1> QED BY <1>2, <1>8, <1>9, <1>10, <1>11, SolventStep

\* cancel and expire.
LEMMA CancelSolvent ==
  ASSUME ReserveInv, ChallengeInv, DisputeSolvent, NEW sender, NEW id \in Id, NEW dg \in Digest,
         Cancel(sender, id, dg)
  PROVE  DisputeSolvent'
<1> DEFINE c == challenges[<<id, dg>>]
           left == [c EXCEPT !.byPrincipal = FALSE, !.joined = FALSE]
<1>1. /\ DisputeTypeOK /\ <<id, dg>> \in Key
      /\ UNCHANGED <<postingPool, disputeBalance>>
  BY DEF Cancel, ChallengeInv, Key
<1>2. c \in Challenge
  BY <1>1, ChallengeFields
<1>3. CASE CancelOpen(id, dg) /\ ~c.joined
  <2> DEFINE e == [left EXCEPT !.status = "Cancelled"]
  <2>1. /\ challenges' = [challenges EXCEPT ![<<id, dg>>] = e] /\ c.status = "Open"
        /\ disputeCredit' = [disputeCredit EXCEPT ![c.challenger] = @ + c.bond]
    BY <1>3 DEF CancelOpen
  <2>2. e \in Challenge /\ e.status = "Cancelled"
    BY <1>2 DEF Challenge, Status
  <2> HIDE DEF e
  <2> QED BY <1>1, <2>1, <2>2, BondCredited
<1>4. ASSUME NEW e \in Challenge, KeptBond(e) = KeptBond(c), disputeCredit' = disputeCredit,
             challenges' = [challenges EXCEPT ![<<id, dg>>] = e]
      PROVE  DisputeSolvent'
  <2>1. OwedBonds' = OwedBonds + 0
    BY <1>1, <1>4, KeptStill
  <2>2. /\ OwedCredit' = OwedCredit + 0 /\ OwedPools' = OwedPools + 0
        /\ disputeBalance' = disputeBalance + (0 + 0 + 0)
    BY <1>1, <1>4, OwedTypes DEF OwedCredit, OwedPools, DisputeTypeOK
  <2> QED BY <1>1, <2>1, <2>2, SolventStep
<1>5. CASE CancelOpen(id, dg) /\ c.joined
  <2>1. challenges' = [challenges EXCEPT ![<<id, dg>>] = left] /\ disputeCredit' = disputeCredit
    BY <1>5 DEF CancelOpen
  <2>2. left \in Challenge /\ KeptBond(left) = KeptBond(c)
    BY <1>2 DEF Challenge, KeptBond
  <2> HIDE DEF left, c
  <2> QED BY <1>4, <2>1, <2>2
<1>6. CASE CancelAnswered(id, dg)
  <2> DEFINE s == IF c.joined THEN c.status ELSE "Cancelled"
             e == [c EXCEPT !.byPrincipal = FALSE, !.joined = FALSE, !.status = s]
  <2>1. /\ challenges' = [challenges EXCEPT ![<<id, dg>>] = e]
        /\ c.status \in {"Answered", "Delivered"} /\ disputeCredit' = disputeCredit
    BY <1>6 DEF CancelAnswered
  <2>2. s \in Status /\ s # "Open"
    BY <2>1 DEF Status
  <2> HIDE DEF s
  <2>3. e \in Challenge /\ KeptBond(e) = KeptBond(c)
    BY <1>2, <2>1, <2>2 DEF Challenge, KeptBond
  <2> HIDE DEF e, c
  <2> QED BY <1>4, <2>1, <2>3
<1> QED BY <1>3, <1>5, <1>6 DEF Cancel

LEMMA ExpireSolvent ==
  ASSUME ReserveInv, ChallengeInv, DisputeSolvent, NEW id \in Id, NEW dg \in Digest,
         Expire(id, dg)
  PROVE  DisputeSolvent'
<1> DEFINE c == challenges[<<id, dg>>]
           e == [c EXCEPT !.status = "Expired"]
<1>1. DisputeTypeOK /\ <<id, dg>> \in Key
  BY DEF ChallengeInv, Key
<1>2. c \in Challenge
  BY <1>1, ChallengeFields
<1>3. e \in Challenge /\ e.status = "Expired"
  BY <1>2 DEF Challenge, Status
<1>4. /\ challenges' = [challenges EXCEPT ![<<id, dg>>] = e] /\ c.status = "Open"
      /\ disputeCredit' = [disputeCredit EXCEPT ![c.challenger] = @ + c.bond]
      /\ UNCHANGED <<postingPool, disputeBalance>>
  BY DEF Expire
<1> HIDE DEF e
<1> QED BY <1>1, <1>3, <1>4, BondCredited

\* Whom an answer pays.
PayeeOf(keys) == [k \in keys |-> Payee(k[1])]

\* What an answer pays its payees is the bonds of what it answers.
LEMMA AnswerCredits ==
  ASSUME TypeInv, DisputeTypeOK, NEW keys, keys \subseteq Key,
         disputeCredit' \in [Account -> Nat],
         \A a \in Account : disputeCredit'[a] =
           disputeCredit[a] + SumFunctionOnSet(Bonds, {k \in keys : Payee(k[1]) = a})
  PROVE  OwedCredit' = OwedCredit + SumFunctionOnSet(Bonds, keys)
<1> DEFINE f == disputeCredit
           g == PartSums(Bonds, PayeeOf(keys), keys, Account)
           h == disputeCredit'
<1>1. IsFiniteSet(keys) /\ \A k \in keys : Bonds[k] \in Int
  BY KeyFinite, FS_Subset, OwedTypes
<1>2. \A k \in keys : PayeeOf(keys)[k] \in Account
  <2> SUFFICES ASSUME NEW k \in keys PROVE Payee(k[1]) \in Account
    BY DEF PayeeOf
  <2>1. k[1] \in Id
    BY DEF Key
  <2>2. delegations[k[1]] \in Delegation
    BY <2>1 DEF TypeInv, ReserveTypeOK
  <2>3. /\ AnswererOf(k[1]) \in Address \cup {NoAddress}
        /\ AgentOf(k[1]) \in Address \cup {NoAddress}
    BY <2>2 DEF AnswererOf, AgentOf, Delegation, Terms, Blank
  <2> QED BY <2>3 DEF Payee, Account
<1>3. \A a \in Account : g[a] = SumFunctionOnSet(Bonds, {k \in keys : Payee(k[1]) = a})
  <2> TAKE a \in Account
  <2>1. {k \in keys : PayeeOf(keys)[k] = a} = {k \in keys : Payee(k[1]) = a}
    BY DEF PayeeOf
  <2> QED BY <2>1 DEF PartSums
<1>4. \A a \in Account : SumFunctionOnSet(Bonds, {k \in keys : Payee(k[1]) = a}) \in Int
  <2> TAKE a \in Account
  <2> DEFINE K == {k \in keys : Payee(k[1]) = a}
  <2>1. IsFiniteSet(K) /\ \A k \in K : Bonds[k] \in Int
    BY <1>1, FS_Subset
  <2> HIDE DEF K
  <2>2. SumFunctionOnSet(Bonds, K) \in Int
    BY <2>1, SumInt
  <2> QED BY <2>2 DEF K
<1>5. SumFunctionOnSet(g, Account) = SumFunctionOnSet(Bonds, keys)
  BY <1>1, <1>2, AccountFinite, SumByPart
<1>6. \A a \in Account : f[a] \in Int /\ g[a] \in Int /\ h[a] = f[a] + g[a]
  <2> TAKE a \in Account
  <2> DEFINE n == SumFunctionOnSet(Bonds, {k \in keys : Payee(k[1]) = a})
  <2>1. disputeCredit[a] \in Int /\ n \in Int
    BY <1>4 DEF DisputeTypeOK
  <2>2. disputeCredit'[a] = disputeCredit[a] + n
    OBVIOUS
  <2>3. g[a] = n
    BY <1>3
  <2> HIDE DEF g, n
  <2> QED BY <2>1, <2>2, <2>3
<1>7. SumFunctionOnSet(f, Account) = OwedCredit /\ SumFunctionOnSet(h, Account) = OwedCredit'
  BY DEF OwedCredit, SumFunction, DisputeTypeOK
<1> HIDE DEF f, g, h
<1>8. SumFunctionOnSet(h, Account) = SumFunctionOnSet(f, Account) + SumFunctionOnSet(g, Account)
  BY <1>6, AccountFinite, SumAdded
<1> QED BY <1>5, <1>7, <1>8

\* answer: the bonds of what it answers go to the payees.
LEMMA AnswerSolvent ==
  ASSUME ReserveInv, ChallengeInv, DisputeSolvent, NEW keys \in SUBSET Due,
         NEW items \in [keys -> Provable], Answer(items)
  PROVE  DisputeSolvent'
<1>1. /\ DOMAIN items = keys /\ keys \subseteq Key /\ IsFiniteSet(keys)
      /\ \A k \in keys : /\ items[k] \in BatchRoot
                         /\ challenges[k].status = "Open"
                         /\ challenges'[k] = AnsweredAs(k, items[k])
      /\ \A k \in Key : k \notin keys => challenges'[k] = challenges[k]
  BY AnswerWrites
<1>2. TypeInv /\ DisputeTypeOK /\ DisputeTypeOK'
  <2>1. ChallengeInv'
    BY AnswerTypes, SMTT(60)
  <2> QED BY <2>1 DEF ChallengeInv, ReserveInv
<1>3. /\ \A a \in Account : disputeCredit'[a] =
           disputeCredit[a] + SumFunctionOnSet(Bonds, {k \in keys : Payee(k[1]) = a})
      /\ disputeCredit' \in [Account -> Nat]
      /\ UNCHANGED <<postingPool, disputeBalance>>
  BY <1>1, <1>2 DEF Answer, DisputeTypeOK
<1> DEFINE n == SumFunctionOnSet(Bonds, keys)
           rest == OpenKeys \ keys
<1>4. /\ OwedCredit \in Int /\ OwedPools \in Int /\ OwedBonds \in Int
      /\ disputeBalance \in Int
      /\ OpenKeys \subseteq Key /\ IsFiniteSet(OpenKeys)
      /\ \A k \in Key : Bonds[k] = challenges[k].bond /\ Bonds[k] \in Nat
  BY <1>2, OwedTypes DEF DisputeTypeOK
<1>5. OwedCredit' = OwedCredit + n
  BY <1>1, <1>2, <1>3, AnswerCredits
<1>6. n \in Int /\ IsFiniteSet(rest) /\ rest \subseteq Key
  <2>1. \A k \in keys : Bonds[k] \in Int
    BY <1>1, <1>4
  <2> QED BY <1>1, <1>4, <2>1, SumInt, FS_Subset
<1>7. OwedBonds = n + SumFunctionOnSet(Bonds, rest)
  <2>1. keys \subseteq OpenKeys /\ \A k \in OpenKeys : Bonds[k] \in Int
    BY <1>1, <1>4 DEF OpenKeys
  <2> QED BY <1>4, <2>1, SumParted DEF OwedBonds
<1>8. OwedBonds' = SumFunctionOnSet(Bonds, rest)
  <2>1. OpenKeys' = rest
    <3>1. \A k \in keys : challenges'[k].status = "Answered"
      BY <1>1, <1>2, AnsweredType
    <3> QED BY <1>1, <3>1 DEF OpenKeys
  <2>2. \A k \in rest : Bonds'[k] = Bonds[k]
    BY <1>1, <1>6 DEF Bonds
  <2> DEFINE f == Bonds
             g == Bonds'
  <2>3. OwedBonds' = SumFunctionOnSet(g, rest)
    BY <2>1 DEF OwedBonds
  <2>4. \A k \in rest : g[k] = f[k]
    BY <2>2
  <2> HIDE DEF f, g, rest, n
  <2>5. SumFunctionOnSet(g, rest) = SumFunctionOnSet(f, rest)
    BY <1>6, <2>4, SumSame
  <2> QED BY <2>3, <2>5 DEF f
<1> HIDE DEF n, rest
<1>9. SumFunctionOnSet(Bonds, rest) \in Int
  BY <1>4, <1>6, SumInt
<1>10. OwedBonds' = OwedBonds + (0 - n) /\ OwedPools' = OwedPools + 0
       /\ disputeBalance' = disputeBalance + (n + 0 + (0 - n))
       /\ (0 - n) \in Int
  BY <1>3, <1>4, <1>6, <1>7, <1>8, <1>9, SMTT(60) DEF OwedPools
<1> QED BY <1>2, <1>5, <1>6, <1>10, SolventStep

\* An amount moves from one pool to one account's credit.
LEMMA PoolCredited ==
  ASSUME DisputeTypeOK, DisputeSolvent, NEW id \in Id, NEW a \in Account, NEW n \in Nat,
         postingPool[id] >= n, OwedBonds' = OwedBonds,
         postingPool' = [postingPool EXCEPT ![id] = postingPool[id] - n],
         disputeCredit' = [disputeCredit EXCEPT ![a] = disputeCredit[a] + n],
         disputeBalance' = disputeBalance
  PROVE  DisputeSolvent'
<1>1. /\ OwedCredit \in Int /\ OwedPools \in Int /\ OwedBonds \in Int
      /\ disputeBalance \in Int /\ postingPool[id] \in Nat /\ disputeCredit[a] \in Nat
  BY OwedTypes DEF DisputeTypeOK
<1> DEFINE m == 0 - n
<1>2. /\ m \in Int /\ postingPool[id] + m \in Nat /\ n \in Int
      /\ postingPool[id] + m = postingPool[id] - n
      /\ disputeCredit[a] + n \in Nat
      /\ disputeBalance' = disputeBalance + (n + m + 0)
      /\ OwedBonds' = OwedBonds + 0
  BY <1>1
<1> HIDE DEF m
<1>3. postingPool' = [postingPool EXCEPT ![id] = postingPool[id] + m]
  BY <1>2
<1>4. OwedPools' = OwedPools + m
  BY <1>2, <1>3, OneOwedPool
<1>5. OwedCredit' = OwedCredit + n
  BY <1>2, OneOwedCredit
<1> QED BY <1>2, <1>4, <1>5, SolventStep

\* A refund pays out of the pool what it credits.
LEMMA RefundSolvent ==
  ASSUME DisputeTypeOK, DisputeSolvent, NEW sender \in Poster, NEW id \in Id, NEW root, NEW b,
         NEW fee \in Fee, Refund(sender, id, root, b, fee),
         OwedBonds' = OwedBonds, disputeBalance' = disputeBalance
  PROVE  DisputeSolvent'
<1> DEFINE n == Payable(id, fee)
<1>1. sender \in Account /\ n \in Nat /\ postingPool[id] >= n
  BY DisputeAssumption, Constants DEF Payable, DisputeTypeOK
<1>2. \/ /\ postingPool' = [postingPool EXCEPT ![id] = postingPool[id] - n]
         /\ disputeCredit' = [disputeCredit EXCEPT ![sender] = disputeCredit[sender] + n]
      \/ postingPool' = postingPool /\ disputeCredit' = disputeCredit
  BY DEF Refund
<1> HIDE DEF n
<1>3. CASE postingPool' = postingPool /\ disputeCredit' = disputeCredit
  <2>1. /\ OwedCredit' = OwedCredit + 0 /\ OwedPools' = OwedPools + 0
        /\ OwedBonds' = OwedBonds + 0 /\ disputeBalance' = disputeBalance + (0 + 0 + 0)
    BY <1>3, OwedTypes DEF OwedCredit, OwedPools, DisputeTypeOK
  <2> QED BY <2>1, SolventStep
<1> QED BY <1>1, <1>2, <1>3, PoolCredited

\* The transactions that write no challenge.
LEMMA PostingSolvent ==
  ASSUME ReserveInv, ChallengeInv, DisputeSolvent, PostingStep
  PROVE  DisputeSolvent'
<1>0. DisputeTypeOK /\ challenges' = challenges
  BY PostingKeeps DEF ChallengeInv
<1>1. OwedBonds' = OwedBonds /\ OwedBonds' = OwedBonds + 0
  <2>1. Bonds' = Bonds /\ OpenKeys' = OpenKeys
    BY <1>0 DEF Bonds, OpenKeys
  <2>2. OwedBonds \in Int
    BY <1>0, OwedTypes
  <2> QED BY <2>1, <2>2 DEF OwedBonds
<1>2. /\ OwedCredit \in Int /\ OwedPools \in Int /\ disputeBalance \in Int
  BY <1>0, OwedTypes DEF DisputeTypeOK
<1>3. ASSUME NEW id \in Id, NEW value \in Donation, FundPosting(id, value)
      PROVE  DisputeSolvent'
  <2>1. /\ value \in Int /\ postingPool[id] + value \in Nat
        /\ postingPool' = [postingPool EXCEPT ![id] = postingPool[id] + value]
        /\ disputeBalance' = disputeBalance + (0 + value + 0) /\ disputeCredit' = disputeCredit
    BY <1>0, <1>2, <1>3, DisputeAssumption DEF FundPosting, DisputeTypeOK
  <2>2. OwedPools' = OwedPools + value
    BY <1>0, <2>1, OneOwedPool
  <2>3. OwedCredit' = OwedCredit + 0
    BY <1>2, <2>1 DEF OwedCredit
  <2> QED BY <1>0, <1>1, <2>1, <2>2, <2>3, SolventStep
<1>4. ASSUME NEW id \in Id, ReturnPosting(id) PROVE DisputeSolvent'
  <2> DEFINE n == postingPool[id]
             a == PrincipalOf(id)
  <2>1. n \in Nat /\ a \in Account
    BY <1>0, FieldTypes, Constants
       DEF PrincipalOf, ReserveInv, TypeInv, ReserveTypeOK, DisputeTypeOK
  <2>0. n - n = 0 /\ n >= n
    BY <2>1
  <2>2. /\ postingPool' = [postingPool EXCEPT ![id] = n - n]
        /\ disputeCredit' = [disputeCredit EXCEPT ![a] = disputeCredit[a] + n]
        /\ disputeBalance' = disputeBalance
    BY <1>4, <2>0 DEF ReturnPosting
  <2> HIDE DEF a
  <2> QED BY <1>0, <1>1, <2>0, <2>1, <2>2, PoolCredited
<1>5. ASSUME NEW sender \in Poster, NEW id \in Id, NEW hash \in ProofHash, NEW chunk,
             NEW fee \in Fee, PostProof(sender, id, hash, chunk, fee)
      PROVE  DisputeSolvent'
  <2>1. disputeBalance' = disputeBalance
    BY <1>5 DEF PostProof
  <2>2. CASE Refund(sender, id, boundRoot[id][hash], batches, fee)
    BY <1>0, <1>1, <2>1, <2>2, RefundSolvent
  <2>3. CASE UNCHANGED <<batches, postingPool, disputeCredit, refunds>>
    BY <1>0, <2>1, <2>3, SolventStill
  <2> QED BY <1>5, <2>2, <2>3 DEF PostProof
<1>6. ASSUME NEW sender \in Poster, NEW id \in Id, NEW dg \in Digest, NEW r \in receipts,
             NEW fee \in Fee, BindPosting(sender, id, dg, r, fee)
      PROVE  DisputeSolvent'
  <2>1. Refund(sender, id, r.root, BoundTo(id, r), fee) /\ disputeBalance' = disputeBalance
    BY <1>6 DEF BindPosting
  <2> QED BY <1>0, <1>1, <2>1, RefundSolvent
<1>7. ASSUME NEW a \in Address, WithdrawCredit(a) PROVE DisputeSolvent'
  <2> DEFINE n == 0 - disputeCredit[a]
  <2>1. a \in Account /\ disputeCredit[a] \in Nat
    BY <1>0, Constants DEF DisputeTypeOK
  <2>2. n \in Int /\ disputeCredit[a] + n = 0 /\ 0 \in Nat
        /\ disputeBalance' = disputeBalance + (n + 0 + 0)
    BY <1>2, <1>7, <2>1 DEF WithdrawCredit
  <2> HIDE DEF n
  <2>3. disputeCredit' = [disputeCredit EXCEPT ![a] = disputeCredit[a] + n]
        /\ postingPool' = postingPool
    BY <1>7, <2>2 DEF WithdrawCredit
  <2>4. OwedCredit' = OwedCredit + n
    BY <1>0, <2>1, <2>2, <2>3, OneOwedCredit
  <2>5. OwedPools' = OwedPools + 0
    BY <1>2, <2>3 DEF OwedPools
  <2> QED BY <1>0, <1>1, <2>2, <2>4, <2>5, SolventStep
<1>8. ASSUME UNCHANGED moneyVars PROVE DisputeSolvent'
  BY <1>0, <1>8, SolventStill
<1>9. ASSUME NEW id \in Id, NEW root \in BatchRoot, NEW sealed \in SealedRoot,
             NEW hash \in ProofHash, SignReceipt(id, root, sealed, hash)
      PROVE  DisputeSolvent'
  BY <1>8, <1>9 DEF SignReceipt
<1>10. ASSUME NEW id \in Id, NEW dg \in Digest, NEW r \in receipts, NEW caller \in Address,
              Slash(id, dg, r, caller)
       PROVE  DisputeSolvent'
  BY <1>8, <1>10 DEF Slash
<1> QED BY <1>3, <1>4, <1>5, <1>6, <1>7, <1>9, <1>10 DEF PostingStep

\* deliver writes an answered challenge, whose bond is already paid.
LEMMA DeliverSolvent ==
  ASSUME ReserveInv, ChallengeInv, DisputeSolvent, NEW sender \in Poster, NEW id \in Id,
         NEW dg \in Digest, NEW r \in receipts, NEW fee \in Fee,
         Deliver(sender, id, dg, r, fee)
  PROVE  DisputeSolvent'
<1> DEFINE c == challenges[<<id, dg>>]
           e == [c EXCEPT !.status = "Delivered"]
           b == IF batches[id][r.root].proofHash = NoHash THEN BoundTo(id, r) ELSE batches
<1>1. DisputeTypeOK /\ <<id, dg>> \in Key
  BY DEF ChallengeInv, Key
<1>2. c \in Challenge
  BY <1>1, ChallengeFields
<1>3. /\ c.status = "Answered" /\ disputeBalance' = disputeBalance
      /\ challenges' = [challenges EXCEPT ![<<id, dg>>] = e]
      /\ \/ Refund(sender, id, r.root, b, fee)
         \/ postingPool' = postingPool /\ disputeCredit' = disputeCredit
  BY DEF Deliver
<1>4. e \in Challenge /\ e.status = "Delivered"
  BY <1>2 DEF Challenge, Status
<1>5. KeptBond(e) = KeptBond(c)
  BY <1>3, <1>4 DEF KeptBond
<1> HIDE DEF c, e, b
<1>6. OwedBonds' = OwedBonds + 0
  BY <1>1, <1>3, <1>4, <1>5, KeptStill DEF c
<1>7. /\ OwedCredit \in Int /\ OwedPools \in Int /\ OwedBonds \in Int
      /\ disputeBalance \in Int
  BY <1>1, OwedTypes DEF DisputeTypeOK
<1>8. CASE Refund(sender, id, r.root, b, fee)
  BY <1>1, <1>3, <1>6, <1>7, <1>8, RefundSolvent
<1>9. CASE postingPool' = postingPool /\ disputeCredit' = disputeCredit
  <2>1. /\ OwedCredit' = OwedCredit + 0 /\ OwedPools' = OwedPools + 0
        /\ disputeBalance' = disputeBalance + (0 + 0 + 0)
    BY <1>3, <1>7, <1>9 DEF OwedCredit, OwedPools
  <2> QED BY <1>1, <1>6, <2>1, SolventStep
<1> QED BY <1>3, <1>8, <1>9

\* Every step keeps the arbiter solvent.
LEMMA SolventKept ==
  ASSUME ReserveInv, ChallengeInv, DisputeSolvent, [ComposedNext]_vars
  PROVE  DisputeSolvent'
<1>1. ASSUME Elsewhere PROVE DisputeSolvent'
  BY <1>1, SolventStill DEF Elsewhere
<1> QED BY <1>1, StepKinds, DisputeKinds, OpenSolvent, JoinSolvent, CancelSolvent,
        AnswerSolvent, ExpireSolvent, PostingSolvent, DeliverSolvent

\* The deployed arbiter owes nothing.
LEMMA InitSolvent == ComposedInit => DisputeSolvent
<1> SUFFICES ASSUME ComposedInit PROVE DisputeSolvent
  OBVIOUS
<1>1. DisputeInit({}) /\ DisputeTypeOK
  BY InitChallenges DEF ComposedInit, ChallengeInv
<1>2. /\ \A a \in Account : disputeCredit[a] = 0
      /\ \A id \in Id : postingPool[id] = 0
      /\ DOMAIN disputeCredit = Account /\ DOMAIN postingPool = Id
      /\ disputeBalance = 0 /\ OpenKeys = {}
  BY <1>1 DEF DisputeInit, Unchallenged, OpenKeys
<1>3. OwedCredit = 0 /\ OwedPools = 0
  BY <1>2, AccountFinite, IdFinite, SumZero DEF OwedCredit, OwedPools, SumFunction
<1>4. OwedBonds = 0
  BY <1>2, SumEmpty DEF OwedBonds
<1> QED BY <1>2, <1>3, <1>4, SolventSame

\* The arbiter's ether is exactly what it owes, in credits, posting pools and
\* the bonds of open challenges, through answers of many, joins, withdrawals,
\* expiries and refunds a pool cannot pay in full, so every withdrawal finds its
\* money there (open, join, cancel, _settle, expire, _refund, returnPosting).
THEOREM AlwaysSolvent == ComposedSpec => []DisputeSolvent
<1> DEFINE IInv == CountedInv /\ DisputeSolvent
<1>1. IInv /\ [ComposedNext]_vars => IInv'
  BY CountedKept, SolventKept DEF CountedInv
<1>2. ComposedInit => IInv
  BY CountedKept, InitSolvent
<1> QED BY <1>1, <1>2, PTL DEF ComposedSpec

----------------------------------------------------------------------------
(* Bindings and receipts.                                                  *)

\* What is bound of a batch is as it was.
BoundAs(i, q) ==
  /\ batches'[i][q].proofHash = batches[i][q].proofHash
  /\ batches'[i][q].sealedRoot = batches[i][q].sealedRoot

AllBoundAs == \A i \in Id, q \in BatchRoot : BoundAs(i, q)

\* No posting, binding or delivery is made, and nothing is refunded.
Steady ==
  /\ AllBoundAs /\ receipts \subseteq receipts'
  /\ UNCHANGED <<boundRoot, postings, deliveredUnder, refunds>>

\* A transaction that changes how many requests one batch counts.
LEMMA DueSteady ==
  ASSUME DisputeTypeOK, NEW id \in Id, NEW root, NEW n,
         batches' = [batches EXCEPT ![id][root].due = n]
  PROVE  AllBoundAs
<1>1. \A i \in Id : batches[i] \in [BatchRoot -> BatchPosting]
  BY DEF DisputeTypeOK
<1>2. ASSUME NEW i \in Id, NEW q \in BatchRoot PROVE BoundAs(i, q)
  <2>1. batches[i][q] \in BatchPosting
    BY <1>1
  <2>2. \/ batches'[i][q] = batches[i][q]
        \/ batches'[i][q] = [batches[i][q] EXCEPT !.due = n]
    BY <1>1
  <2> QED BY <2>1, <2>2 DEF BoundAs, BatchPosting
<1> QED BY <1>2 DEF AllBoundAs

LEMMA SameSteady == ASSUME batches' = batches PROVE AllBoundAs
BY DEF AllBoundAs, BoundAs

\* answer counts, and binds nothing.
LEMMA AnswerSteady ==
  ASSUME ReserveInv, ChallengeInv, NEW keys \in SUBSET Due,
         NEW items \in [keys -> Provable], Answer(items)
  PROVE  Steady
<1> DEFINE n(id, root) == batches[id][root].due
                            + Cardinality(AskedUnder(id, keys, items, root))
<1>1. /\ batches' = [id \in Id |-> [root \in BatchRoot |->
                       [batches[id][root] EXCEPT !.due = n(id, root)]]]
      /\ UNCHANGED <<boundRoot, postings, deliveredUnder, refunds, receipts>>
  BY DEF Answer, AskedUnder
<1> HIDE DEF n
<1>2. ASSUME NEW i \in Id, NEW q \in BatchRoot PROVE BoundAs(i, q)
  <2>1. batches[i][q] \in BatchPosting
    BY DEF ChallengeInv, DisputeTypeOK
  <2>2. batches'[i][q] = [batches[i][q] EXCEPT !.due = n(i, q)]
    BY <1>1
  <2> QED BY <2>1, <2>2 DEF BoundAs, BatchPosting
<1> QED BY <1>1, <1>2, SMTT(30) DEF Steady, AllBoundAs

\* Three transactions bind or refund; every other is steady.
Posts(sender, id, hash, fee) ==
  \E chunk \in {"next", "wrong", "last"} : PostProof(sender, id, hash, chunk, fee)

LEMMA SteadyKinds ==
  ASSUME ReserveInv, ChallengeInv, [ComposedNext]_vars
  PROVE  \/ Steady
         \/ \E sender \in Poster, id \in Id, hash \in ProofHash, fee \in Fee :
              Posts(sender, id, hash, fee)
         \/ \E sender \in Poster, id \in Id, dg \in Digest, r \in receipts, fee \in Fee :
              BindPosting(sender, id, dg, r, fee)
         \/ \E sender \in Poster, id \in Id, dg \in Digest, r \in receipts, fee \in Fee :
              Deliver(sender, id, dg, r, fee)
<1> DEFINE others ==
      \/ \E sender \in Poster, id \in Id, hash \in ProofHash, fee \in Fee :
           Posts(sender, id, hash, fee)
      \/ \E sender \in Poster, id \in Id, dg \in Digest, r \in receipts, fee \in Fee :
           BindPosting(sender, id, dg, r, fee)
      \/ \E sender \in Poster, id \in Id, dg \in Digest, r \in receipts, fee \in Fee :
           Deliver(sender, id, dg, r, fee)
<1>0. DisputeTypeOK
  BY DEF ChallengeInv
<1>1. ASSUME Elsewhere PROVE Steady
  BY <1>1, SameSteady DEF Elsewhere, Steady
<1>2. ASSUME NEW sender \in Challenger, NEW id \in Id, NEW dg \in Digest, NEW bond,
             NEW deposit, NEW excess, Open(sender, id, dg, bond, deposit, excess)
      PROVE  Steady
  BY <1>2, SameSteady DEF Open, Steady
<1>3. ASSUME NEW sender \in Challenger, NEW id \in Id, NEW dg \in Digest,
             NEW deposit, NEW excess, Join(sender, id, dg, deposit, excess)
      PROVE  Steady
  <2>1. UNCHANGED <<boundRoot, postings, deliveredUnder, refunds, receipts>>
    BY <1>3 DEF Join
  <2>2. CASE JoinOpen(id, dg)
    BY <2>1, <2>2, SameSteady DEF JoinOpen, Steady
  <2>3. CASE JoinAnswered(id, dg)
    <3> DEFINE q == challenges[<<id, dg>>].root
               n == batches[id][q].due + 1
    <3>1. batches' = [batches EXCEPT ![id][q].due = n]
      BY <2>3 DEF JoinAnswered
    <3> HIDE DEF q, n
    <3> QED BY <1>0, <2>1, <3>1, DueSteady DEF Steady
  <2> QED BY <1>3, <2>2, <2>3 DEF Join
<1>4. ASSUME NEW sender, NEW id \in Id, NEW dg \in Digest, Cancel(sender, id, dg)
      PROVE  Steady
  <2>1. UNCHANGED <<boundRoot, postings, deliveredUnder, refunds, receipts>>
    BY <1>4 DEF Cancel
  <2>2. CASE CancelOpen(id, dg)
    BY <2>1, <2>2, SameSteady DEF CancelOpen, Steady
  <2>3. CASE CancelAnswered(id, dg)
    <3> DEFINE q == challenges[<<id, dg>>].root
               n == batches[id][q].due - 1
    <3>1. batches' = [batches EXCEPT ![id][q].due = n]
      BY <2>3 DEF CancelAnswered
    <3> HIDE DEF q, n
    <3> QED BY <1>0, <2>1, <3>1, DueSteady DEF Steady
  <2> QED BY <1>4, <2>2, <2>3 DEF Cancel
<1>5. ASSUME NEW id \in Id, NEW dg \in Digest, Expire(id, dg) PROVE Steady
  BY <1>5, SameSteady DEF Expire, Steady
<1>6. ASSUME NEW id \in Id, NEW value \in Donation, FundPosting(id, value) PROVE Steady
  BY <1>6, SameSteady DEF FundPosting, Steady
<1>7. ASSUME NEW id \in Id, ReturnPosting(id) PROVE Steady
  BY <1>7, SameSteady DEF ReturnPosting, Steady
<1>8. ASSUME NEW id \in Id, NEW root \in BatchRoot, NEW sealed \in SealedRoot,
             NEW hash \in ProofHash, SignReceipt(id, root, sealed, hash)
      PROVE  Steady
  BY <1>8, SameSteady DEF SignReceipt, Steady
<1>9. ASSUME NEW id \in Id, NEW dg \in Digest, NEW r \in receipts, NEW caller \in Address,
             Slash(id, dg, r, caller)
      PROVE  Steady
  BY <1>9, SameSteady DEF Slash, Steady
<1>10. ASSUME NEW a \in Address, WithdrawCredit(a) PROVE Steady
  BY <1>10, SameSteady DEF WithdrawCredit, Steady
<1>11. ASSUME NEW sender \in Poster, NEW id \in Id, NEW hash \in ProofHash,
              NEW chunk \in {"next", "wrong", "last"}, NEW fee \in Fee,
              PostProof(sender, id, hash, chunk, fee)
       PROVE  others
  BY <1>11 DEF Posts
<1>12. PostingStep => Steady \/ others
  BY <1>6, <1>7, <1>8, <1>9, <1>10, <1>11 DEF PostingStep
<1>13. DisputeStep => Steady \/ others
  BY <1>2, <1>3, <1>4, <1>5, <1>12, DisputeKinds, AnswerSteady
<1> HIDE DEF others
<1>14. Steady \/ others
  BY <1>1, <1>13, StepKinds
<1> QED BY <1>14 DEF others

\* Every delivery, and every binding, is of a receipt the answerer signed.
DeliveryReceipted(k) ==
  challenges[k].status = "Delivered" =>
    \E q \in receipts : /\ q.id = k[1] /\ q.root = challenges[k].root
                        /\ q.sealedRoot = deliveredUnder[k]

BindingReceipted(i, root) ==
  batches[i][root].proofHash # NoHash =>
    \E q \in receipts : /\ q.id = i /\ q.root = root
                        /\ q.proofHash = batches[i][root].proofHash
                        /\ q.sealedRoot = batches[i][root].sealedRoot

ReceiptInv ==
  /\ \A k \in Key : DeliveryReceipted(k)
  /\ \A i \in Id, root \in BatchRoot : BindingReceipted(i, root)

\* What is bound is what was, or what a receipt says.
Binds(i, q) ==
  \/ BoundAs(i, q)
  \/ \E r \in receipts : /\ r.id = i /\ r.root = q
                         /\ r.proofHash = batches'[i][q].proofHash
                         /\ r.sealedRoot = batches'[i][q].sealedRoot

\* The batches with one bound, and perhaps its duty lapsed.
LEMMA BindBinds ==
  ASSUME DisputeTypeOK, NEW id \in Id, NEW r \in receipts, r.id = id,
         NEW sender, NEW fee,
         \/ Refund(sender, id, r.root, BoundTo(id, r), fee)
         \/ batches' = BoundTo(id, r)
  PROVE  \A i \in Id, q \in BatchRoot : Binds(i, q)
<1> DEFINE b == BoundTo(id, r)
<1>1. /\ r.root \in BatchRoot /\ b \in [Id -> [BatchRoot -> BatchPosting]]
      /\ \A i \in Id, q \in BatchRoot :
           /\ b[i][q].proofHash =
                IF i = id /\ q = r.root THEN r.proofHash ELSE batches[i][q].proofHash
           /\ b[i][q].sealedRoot =
                IF i = id /\ q = r.root THEN r.sealedRoot ELSE batches[i][q].sealedRoot
  BY BoundTypes, BoundDue
<1>2. Refund(sender, id, r.root, b, fee) \/ batches' = b
  OBVIOUS
<1> HIDE DEF b
<1>3. \A i \in Id, q \in BatchRoot : /\ batches'[i][q].proofHash = b[i][q].proofHash
                                     /\ batches'[i][q].sealedRoot = b[i][q].sealedRoot
  BY <1>1, <1>2, RefundDue
<1> QED BY <1>1, <1>3 DEF Binds, BoundAs

\* A refund under the batches as they are binds nothing.
LEMMA RefundBinds ==
  ASSUME DisputeTypeOK, NEW sender, NEW id \in Id, NEW root \in BatchRoot, NEW fee,
         Refund(sender, id, root, batches, fee) \/ batches' = batches
  PROVE  AllBoundAs
<1>1. batches \in [Id -> [BatchRoot -> BatchPosting]]
  BY DEF DisputeTypeOK
<1> QED BY <1>1, RefundDue, SameSteady DEF AllBoundAs, BoundAs

\* A chunk binds nothing.
LEMMA PostBinds ==
  ASSUME DisputeTypeOK, NEW sender \in Poster, NEW id \in Id, NEW hash \in ProofHash,
         NEW fee \in Fee, Posts(sender, id, hash, fee)
  PROVE  AllBoundAs
<1>1. PICK chunk : PostProof(sender, id, hash, chunk, fee)
  BY DEF Posts
<1> DEFINE root == boundRoot[id][hash]
<1>2. \/ batches' = batches
      \/ root # NoRoot /\ Refund(sender, id, root, batches, fee)
  BY <1>1 DEF PostProof
<1>3. root \in BatchRoot \cup {NoRoot}
  BY DEF DisputeTypeOK
<1> HIDE DEF root
<1> QED BY <1>2, <1>3, RefundBinds, SameSteady

\* A delivery binds its batch or leaves it as it is bound.
LEMMA DeliverBinds ==
  ASSUME DisputeTypeOK, NEW sender \in Poster, NEW id \in Id, NEW dg \in Digest,
         NEW r \in receipts, NEW fee \in Fee, Deliver(sender, id, dg, r, fee)
  PROVE  \A i \in Id, q \in BatchRoot : Binds(i, q)
<1>1. r.id = id /\ r.root \in BatchRoot
  BY DEF Deliver, Demanded, DisputeTypeOK, Receipt
<1>2. CASE batches[id][r.root].proofHash = NoHash
  <2>1. Refund(sender, id, r.root, BoundTo(id, r), fee) \/ batches' = BoundTo(id, r)
    BY <1>2 DEF Deliver
  <2> QED BY <1>1, <2>1, BindBinds
<1>3. CASE batches[id][r.root].proofHash # NoHash
  <2>1. Refund(sender, id, r.root, batches, fee) \/ batches' = batches
    BY <1>3 DEF Deliver
  <2>2. AllBoundAs
    BY <1>1, <2>1, RefundBinds
  <2> QED BY <2>2 DEF AllBoundAs, Binds
<1> QED BY <1>2, <1>3, SMTT(30)

\* Every step binds only what was receipted, and loses no receipt.
LEMMA StepBinds ==
  ASSUME ReserveInv, ChallengeInv, [ComposedNext]_vars
  PROVE  receipts \subseteq receipts' /\ \A i \in Id, q \in BatchRoot : Binds(i, q)
<1> DEFINE goal == receipts \subseteq receipts' /\ \A i \in Id, q \in BatchRoot : Binds(i, q)
<1>0. DisputeTypeOK
  BY DEF ChallengeInv
<1>1. AllBoundAs /\ receipts \subseteq receipts' => goal
  BY DEF AllBoundAs, Binds
<1>2. Steady => goal
  BY <1>1 DEF Steady
<1>3. ASSUME NEW sender \in Poster, NEW id \in Id, NEW hash \in ProofHash, NEW fee \in Fee,
             Posts(sender, id, hash, fee)
      PROVE  goal
  <2>1. AllBoundAs
    BY <1>0, <1>3, PostBinds
  <2>2. receipts' = receipts
    BY <1>3 DEF Posts, PostProof
  <2> QED BY <1>1, <2>1, <2>2
<1>4. ASSUME NEW sender \in Poster, NEW id \in Id, NEW dg \in Digest, NEW r \in receipts,
             NEW fee \in Fee, BindPosting(sender, id, dg, r, fee)
      PROVE  goal
  <2>1. /\ Refund(sender, id, r.root, BoundTo(id, r), fee) /\ receipts' = receipts
        /\ r.id = id
    BY <1>4 DEF BindPosting, Demanded
  <2> QED BY <1>0, <2>1, BindBinds
<1>5. ASSUME NEW sender \in Poster, NEW id \in Id, NEW dg \in Digest, NEW r \in receipts,
             NEW fee \in Fee, Deliver(sender, id, dg, r, fee)
      PROVE  goal
  <2>1. receipts' = receipts
    BY <1>5 DEF Deliver
  <2> QED BY <1>0, <1>5, <2>1, DeliverBinds
<1> HIDE DEF goal
<1>6. goal
  BY <1>2, <1>3, <1>4, <1>5, SteadyKinds
<1> QED BY <1>6 DEF goal

\* Receipts stay behind every delivery and binding.
LEMMA ReceiptsKept ==
  ASSUME ReserveInv, ChallengeInv, ReceiptInv, [ComposedNext]_vars
  PROVE  ReceiptInv'
<1>1. receipts \subseteq receipts' /\ \A i \in Id, q \in BatchRoot : Binds(i, q)
  BY StepBinds
<1>2. \A k \in Key : Moves(k)
  BY StepMoves DEF AllMove
<1>3. ASSUME NEW k \in Key PROVE DeliveryReceipted(k)'
  <2> SUFFICES ASSUME challenges'[k].status = "Delivered"
               PROVE  \E q \in receipts' : /\ q.id = k[1] /\ q.root = challenges'[k].root
                                           /\ q.sealedRoot = deliveredUnder'[k]
    BY DEF DeliveryReceipted
  <2>1. /\ challenges'[k].root = challenges[k].root
        /\ \/ challenges[k].status = "Delivered" /\ deliveredUnder'[k] = deliveredUnder[k]
           \/ \E r \in receipts : /\ r.id = k[1] /\ r.root = challenges[k].root
                                  /\ r.sealedRoot = deliveredUnder'[k]
    BY <1>2 DEF Moves, Delivers
  <2>2. CASE challenges[k].status = "Delivered" /\ deliveredUnder'[k] = deliveredUnder[k]
    BY <1>1, <2>1, <2>2 DEF ReceiptInv, DeliveryReceipted
  <2>3. CASE \E r \in receipts : /\ r.id = k[1] /\ r.root = challenges[k].root
                                 /\ r.sealedRoot = deliveredUnder'[k]
    BY <1>1, <2>1, <2>3
  <2> QED BY <2>1, <2>2, <2>3
<1>4. ASSUME NEW i \in Id, NEW q \in BatchRoot PROVE BindingReceipted(i, q)'
  <2>1. CASE BoundAs(i, q)
    BY <1>1, <2>1 DEF BoundAs, ReceiptInv, BindingReceipted
  <2>2. CASE \E r \in receipts : /\ r.id = i /\ r.root = q
                                 /\ r.proofHash = batches'[i][q].proofHash
                                 /\ r.sealedRoot = batches'[i][q].sealedRoot
    BY <1>1, <2>2 DEF BindingReceipted
  <2> QED BY <1>1, <2>1, <2>2 DEF Binds
<1> QED BY <1>3, <1>4 DEF ReceiptInv

LEMMA InitReceipts == ComposedInit => ReceiptInv
<1> SUFFICES ASSUME ComposedInit PROVE ReceiptInv
  OBVIOUS
<1>1. /\ \A k \in Key : challenges[k].status = "None"
      /\ \A i \in Id, root \in BatchRoot : batches[i][root].proofHash = NoHash
  BY DEF ComposedInit, DisputeInit, Unchallenged, Unbound
<1> QED BY <1>1 DEF ReceiptInv, DeliveryReceipted, BindingReceipted

\* An answerer whose receipts agree, and who delivered and posted in time,
\* cannot be slashed for the settlement: whatever was bound or delivered, by
\* whomever, was bound or delivered under a receipt of its own (deliver,
\* bindPosting, slashWithholding).
THEOREM NeverSlashed == ComposedSpec => []BlamelessUnslashed
<1> DEFINE IInv == CountedInv /\ ReceiptInv
<1>1. IInv /\ [ComposedNext]_vars => IInv'
  BY CountedKept, ReceiptsKept DEF CountedInv
<1>2. ComposedInit => IInv
  BY CountedKept, InitReceipts
<1>3. IInv => BlamelessUnslashed
  <2> SUFFICES ASSUME ChallengeInv, ReceiptInv, NEW id \in Id, NEW dg \in Digest, NEW r \in receipts,
                      Holds(id, dg, r),
                      \A q \in receipts :
                        (q.id = id /\ (q.root = r.root \/ Holds(id, dg, q))) => Agree(r, q),
                      challenges[<<id, dg>>].status = "Delivered",
                      postedAt[id][r.proofHash] # 0,
                      postedAt[id][r.proofHash] <= challenges[<<id, dg>>].deadline
               PROVE  ~Withheld(id, dg, r)
    BY DEF BlamelessUnslashed, CountedInv
  <2> DEFINE k == <<id, dg>>
  <2>1. k \in Key /\ k[1] = id /\ r.root \in BatchRoot
    BY DEF Key, ChallengeInv, DisputeTypeOK, Receipt
  <2>2. deliveredUnder[k] = r.sealedRoot
    <3>1. PICK q \in receipts : /\ q.id = id /\ q.root = challenges[k].root
                                /\ q.sealedRoot = deliveredUnder[k]
      BY <2>1 DEF ReceiptInv, DeliveryReceipted
    <3>2. k \in Batched[q.root]
      BY <2>1, <3>1 DEF ChallengeInv, Challenged
    <3>3. Holds(id, dg, q)
      BY <3>1, <3>2 DEF Holds
    <3> QED BY <3>1, <3>3 DEF Agree
  <2>3. batches[id][r.root].proofHash # NoHash =>
          /\ batches[id][r.root].proofHash = r.proofHash
          /\ batches[id][r.root].sealedRoot = r.sealedRoot
    <3> SUFFICES ASSUME batches[id][r.root].proofHash # NoHash
                 PROVE  /\ batches[id][r.root].proofHash = r.proofHash
                        /\ batches[id][r.root].sealedRoot = r.sealedRoot
      OBVIOUS
    <3>1. PICK q \in receipts : /\ q.id = id /\ q.root = r.root
                                /\ q.proofHash = batches[id][r.root].proofHash
                                /\ q.sealedRoot = batches[id][r.root].sealedRoot
      BY <2>1 DEF ReceiptInv, BindingReceipted
    <3> QED BY <3>1 DEF Agree
  <2>4. ~Swapped(id, dg, r)
    BY <2>2, <2>3 DEF Swapped
  <2>5. ~Missing(id, dg, r)
    <3>1. /\ postedAt[id][r.proofHash] \in Nat /\ challenges[k].deadline \in Nat
      BY <2>1, ChallengeFields DEF ChallengeInv, DisputeTypeOK, Receipt
    <3> QED BY <3>1 DEF Missing
  <2> QED BY <2>4, <2>5 DEF Withheld
<1> QED BY <1>1, <1>2, <1>3, PTL DEF ComposedSpec

----------------------------------------------------------------------------
(* Refunds.                                                                *)

\* A registered delegation keeps its principal and its terms.
LEMMA TermsStay ==
  ASSUME ReserveInv, [ComposedNext]_vars
  PROVE  \A i \in Id : delegations[i].principal # NoAddress
                         => SameTerms(delegations[i], delegations'[i])
<1> DEFINE goal == \A i \in Id : delegations[i].principal # NoAddress
                                   => SameTerms(delegations[i], delegations'[i])
<1>1. TypeInv
  BY DEF ReserveInv
<1>2. delegations' = delegations => goal
  BY DEF SameTerms
<1>3. SameRecords => goal
  BY DEF SameRecords, SameRecord, SameLife
<1>4. ASSUME NEW id \in Id, NEW unheld \in Nat, Forfeit(id, unheld) PROVE goal
  <2> DEFINE f == BondSpent(Froze(delegations[id]))
             e == [f EXCEPT !.holds = f.holds - unheld]
  <2>1. /\ delegations' = [delegations EXCEPT ![id] = e] /\ now \in Nat
        /\ delegations[id] \in Delegation /\ delegations \in [Id -> Delegation]
    BY <1>1, <1>4 DEF Forfeit, TypeInv, ReserveTypeOK
  <2>2. f \in Delegation /\ SameTerms(delegations[id], f)
    BY <2>1, FrozeUpdate, SpentUpdate DEF SameLife, SameTerms
  <2> HIDE DEF f
  <2>3. SameTerms(delegations[id], e)
    BY <2>2 DEF Delegation, SameTerms
  <2> HIDE DEF e
  <2>4. \A i \in Id : SameTerms(delegations[i], delegations'[i])
    BY <2>1, <2>3 DEF SameTerms
  <2> QED BY <2>4
<1>5. ASSUME NEW p \in Principal, NEW t \in Offer, Register(p, t) PROVE goal
  <2>1. /\ nextId \in Id /\ \A i \in Id : i # nextId => delegations'[i] = delegations[i]
    BY <1>1, <1>5, RegisterWrites
  <2>2. delegations[nextId].principal = NoAddress
    BY <1>1, <2>1 DEF TypeInv, Unregistered, Id
  <2> QED BY <2>1, <2>2 DEF SameTerms
<1>6. (\A i \in Id : Aged(i)) => goal
  BY DEF Aged, Later
<1> HIDE DEF goal
<1>7. AccountStep => goal
  BY <1>1, <1>5, <1>6, AccountAged
<1>8. Tick \/ UNCHANGED vars => goal
  BY <1>2 DEF Tick, vars, reserveVars
<1>9. DisputeStep => goal
  BY <1>1, <1>3, <1>4, StepCalls, CallKinds DEF Quiet
<1>10. goal
  BY <1>7, <1>8, <1>9, StepKinds DEF Elsewhere
<1> QED BY <1>10 DEF goal

\* A sum of numbers none of which is above a bound.
LEMMA SumBounded ==
  ASSUME NEW f, NEW S, IsFiniteSet(S), NEW m \in Nat,
         \A x \in S : f[x] \in Nat /\ f[x] <= m
  PROVE  SumFunctionOnSet(f, S) <= m * Cardinality(S)
<1> DEFINE T == {V \in SUBSET S : ~(SumFunctionOnSet(f, V) <= m * Cardinality(V))}
<1> SUFFICES ASSUME T # {} PROVE FALSE
  OBVIOUS
<1>1. PICK V \in T : \A W \in T : W \subseteq V => W = V
  <2> T \subseteq SUBSET S OBVIOUS
  <2> HIDE DEF T
  <2> QED BY SmallestSubset
<1>2. V # {} /\ IsFiniteSet(V) /\ V \subseteq S
  <2>1. IsFiniteSet(V) /\ V \subseteq S
    BY FS_Subset
  <2>2. ASSUME V = {} PROVE FALSE
    <3>1. SumFunctionOnSet(f, V) = 0 /\ Cardinality(V) = 0
      BY <2>2, SumEmpty, FS_EmptySet
    <3>2. 0 <= m * 0
      OBVIOUS
    <3> QED BY <3>1, <3>2
  <2> QED BY <2>1, <2>2
<1>3. PICK x \in V : TRUE
  BY <1>2
<1> DEFINE q == V \ {x}
           n == Cardinality(q)
           s == SumFunctionOnSet(f, q)
<1>4. SumFunctionOnSet(f, q) <= m * Cardinality(q)
  BY <1>1, <1>3
<1>5. n \in Nat /\ Cardinality(V) = n + 1
  <2>1. IsFiniteSet(q) /\ Cardinality(q) = Cardinality(V) - 1
    BY <1>2, <1>3, FS_RemoveElement
  <2>2. Cardinality(q) \in Nat /\ Cardinality(V) \in Nat
    BY <1>2, <2>1, FS_CardinalityType
  <2> QED BY <2>1, <2>2
<1>6. s \in Int /\ SumFunctionOnSet(f, V) = f[x] + s
  <2>1. \A y \in V : f[y] \in Int
    BY <1>2
  <2> QED BY <1>2, <2>1, SumTake
<1>7. f[x] \in Nat /\ f[x] <= m
  BY <1>2
<1> HIDE DEF T, n, s
<1>8. s <= m * n
  BY <1>4 DEF n, s
<1>9. m * (n + 1) = m * n + m /\ m * n \in Nat
  BY <1>5
<1>10. SumFunctionOnSet(f, V) <= m * Cardinality(V)
  <2> DEFINE t == m * n
  <2>1. t \in Nat /\ s <= t /\ m * Cardinality(V) = t + m
    BY <1>5, <1>8, <1>9
  <2> HIDE DEF t
  <2> QED BY <1>6, <1>7, <2>1
<1> QED BY <1>10 DEF T

\* A set that gains at most one element.
Gains(S, U) == U = S \/ \E x : U = S \cup {x}

\* A sum grows with the set, and by one when one entry it counts does.
LEMMA SumGrows ==
  ASSUME NEW f, NEW g, NEW S, NEW U, IsFiniteSet(S), NEW x, NEW n \in {0, 1},
         Gains(S, U),
         \A y \in U : f[y] \in Nat /\ g[y] \in Nat,
         \A y \in S : y # x => g[y] = f[y],
         x \in S => g[x] >= f[x],
         n = 1 => x \in S /\ g[x] >= f[x] + 1
  PROVE  /\ SumFunctionOnSet(g, U) \in Int /\ SumFunctionOnSet(f, S) \in Int
         /\ SumFunctionOnSet(g, U) >= SumFunctionOnSet(f, S) + n
<1>1. /\ \A y \in S : f[y] \in Int /\ g[y] \in Int
      /\ \A y \in U : f[y] \in Int /\ g[y] \in Int
  BY DEF Gains
<1>2. IsFiniteSet(U)
  BY FS_AddElement DEF Gains
<1>3. /\ SumFunctionOnSet(g, U) \in Int /\ SumFunctionOnSet(f, S) \in Int
      /\ SumFunctionOnSet(g, S) \in Int
  BY <1>1, <1>2, SumInt
<1>4. SumFunctionOnSet(g, S) >= SumFunctionOnSet(f, S) + n
  <2>1. CASE x \in S
    <3>1. SumFunctionOnSet(g, S) = SumFunctionOnSet(f, S) - f[x] + g[x]
      BY <1>1, <2>1, SumChanged
    <3>2. f[x] \in Int /\ g[x] \in Int /\ g[x] >= f[x] + n
      BY <1>1, <2>1
    <3> QED BY <1>3, <3>1, <3>2
  <2>2. CASE x \notin S
    <3>1. SumFunctionOnSet(f, S) = SumFunctionOnSet(g, S)
      BY <2>2, SumSame
    <3> QED BY <1>3, <2>2, <3>1
  <2> QED BY <2>1, <2>2
<1>5. SumFunctionOnSet(g, U) >= SumFunctionOnSet(g, S)
  <2>1. CASE U = S
    BY <1>3, <2>1
  <2>2. ASSUME NEW y, U = S \cup {y}, y \notin S
        PROVE  SumFunctionOnSet(g, U) >= SumFunctionOnSet(g, S)
    <3>1. g[y] \in Nat
      BY <2>2
    <3>2. SumFunctionOnSet(g, U) = g[y] + SumFunctionOnSet(g, S)
      BY <1>1, <2>2, <3>1, SumPut
    <3> QED BY <1>3, <3>1, <3>2
  <2>3. ASSUME NEW y, U = S \cup {y}, y \in S
        PROVE  U = S
    BY <2>3
  <2> QED BY <2>1, <2>2, <2>3 DEF Gains
<1> QED BY <1>3, <1>4, <1>5

\* What a delegation's refunds are counted against: its bound batches, its
\* deliveries, and the chunks of its bound proofs its answerer posted.
Bindings(i) == {root \in BatchRoot : batches[i][root].proofHash # NoHash}
Deliveries(i) == {dg \in Digest : deliveredUnder[<<i, dg>>] # NoSeal}
BoundHashes(i) == {h \in ProofHash : boundRoot[i][h] # NoRoot}

Lesser(m, n) == IF m < n THEN m ELSE n

PaidChunks(i) ==
  [h \in ProofHash |->
     IF AnswererOf(i) \in Poster
       THEN Lesser(postings[AnswererOf(i)][i][h].chunks, MaxChunks) ELSE 0]

RefundedWithin(i) ==
  refunds[i] <= Cardinality(Bindings(i)) + Cardinality(Deliveries(i))
                  + SumFunctionOnSet(PaidChunks(i), BoundHashes(i))

\* Before registration there is no answerer to refund, and before its delivery
\* a challenge has no sealed root.
Refunded(i) ==
  /\ IsFiniteSet(Bindings(i)) /\ IsFiniteSet(BoundHashes(i))
  /\ RefundedWithin(i)
  /\ delegations[i].principal = NoAddress => refunds[i] = 0
  /\ \A dg \in Digest :
       challenges[<<i, dg>>].status \notin {"Delivered", "Cancelled"}
         => deliveredUnder[<<i, dg>>] = NoSeal

RefundInv == \A i \in Id : Refunded(i)

LEMMA GainsCount ==
  ASSUME NEW S, NEW U, IsFiniteSet(S), Gains(S, U)
  PROVE  /\ IsFiniteSet(U) /\ Cardinality(S) \in Nat /\ Cardinality(U) \in Nat
         /\ Cardinality(U) >= Cardinality(S)
         /\ U # S => Cardinality(U) = Cardinality(S) + 1
<1>1. IsFiniteSet(U) /\ Cardinality(S) \in Nat
  BY FS_AddElement, FS_CardinalityType DEF Gains
<1>2. Cardinality(U) \in Nat
  BY <1>1, FS_CardinalityType
<1>3. CASE U = S
  BY <1>1, <1>3
<1>4. ASSUME NEW x, U = S \cup {x}, U # S PROVE Cardinality(U) = Cardinality(S) + 1
  BY <1>4, FS_AddElement
<1>5. U # S => Cardinality(U) = Cardinality(S) + 1
  BY <1>4 DEF Gains
<1>6. Cardinality(U) >= Cardinality(S)
  BY <1>1, <1>2, <1>3, <1>5
<1> QED BY <1>1, <1>2, <1>5, <1>6

\* The numbers of chunks counted.
LEMMA ChunkTypes ==
  ASSUME DisputeTypeOK, NEW i \in Id
  PROVE  /\ \A h \in ProofHash : PaidChunks(i)[h] \in Nat /\ PaidChunks(i)[h] <= MaxChunks
         /\ refunds[i] \in Nat /\ IsFiniteSet(Deliveries(i))
         /\ BoundHashes(i) \subseteq ProofHash /\ MaxChunks \in Nat
<1>1. \A a \in Poster, h \in ProofHash : postings[a][i][h].chunks \in Nat
  BY DEF DisputeTypeOK
<1>2. MaxChunks \in Nat
  BY DisputeAssumption
<1>3. IsFiniteSet(Deliveries(i))
  BY DigestFinite, FS_Subset DEF Deliveries
<1>4. ASSUME NEW h \in ProofHash
      PROVE  PaidChunks(i)[h] \in Nat /\ PaidChunks(i)[h] <= MaxChunks
  <2>1. CASE AnswererOf(i) \in Poster
    <3>1. postings[AnswererOf(i)][i][h].chunks \in Nat
      BY <1>1, <2>1
    <3> QED BY <1>2, <2>1, <3>1 DEF PaidChunks, Lesser
  <2>2. CASE AnswererOf(i) \notin Poster
    BY <1>2, <2>2 DEF PaidChunks
  <2> QED BY <2>1, <2>2
<1> QED BY <1>2, <1>3, <1>4 DEF DisputeTypeOK, BoundHashes

\* A delegation's refunds stay within what they are counted against when at most
\* one is made and something it is counted against grows with it.
LEMMA RefundedStays ==
  ASSUME DisputeTypeOK, DisputeTypeOK', NEW i \in Id, Refunded(i),
         Gains(Bindings(i), Bindings(i)'), Gains(Deliveries(i), Deliveries(i)'),
         Gains(BoundHashes(i), BoundHashes(i)'),
         NEW x, NEW n \in {0, 1},
         \A h \in ProofHash : h # x => PaidChunks(i)'[h] = PaidChunks(i)[h],
         x \in ProofHash => PaidChunks(i)'[x] >= PaidChunks(i)[x],
         n = 1 => x \in BoundHashes(i) /\ PaidChunks(i)'[x] >= PaidChunks(i)[x] + 1,
         \/ refunds'[i] = refunds[i]
         \/ refunds'[i] = refunds[i] + 1 /\ n = 1
         \/ refunds'[i] = refunds[i] + 1 /\ Bindings(i)' # Bindings(i)
         \/ refunds'[i] = refunds[i] + 1 /\ Deliveries(i)' # Deliveries(i)
  PROVE  RefundedWithin(i)' /\ IsFiniteSet(Bindings(i)') /\ IsFiniteSet(BoundHashes(i)')
<1> DEFINE f == PaidChunks(i)
           g == PaidChunks(i)'
           S == BoundHashes(i)
           U == BoundHashes(i)'
           b == Cardinality(Bindings(i))
           c == Cardinality(Bindings(i)')
           d == Cardinality(Deliveries(i))
           e == Cardinality(Deliveries(i)')
           s == SumFunctionOnSet(f, S)
           u == SumFunctionOnSet(g, U)
<1>1. /\ \A h \in ProofHash : f[h] \in Nat
      /\ \A h \in ProofHash : g[h] \in Nat
      /\ refunds[i] \in Nat /\ IsFiniteSet(Deliveries(i)) /\ S \subseteq ProofHash
      /\ U \subseteq ProofHash
  <2>1. /\ \A h \in ProofHash : f[h] \in Nat
        /\ refunds[i] \in Nat /\ IsFiniteSet(Deliveries(i)) /\ S \subseteq ProofHash
    BY ChunkTypes
  <2>2. \A h \in ProofHash : g[h] \in Nat
    <3>1. \A a \in Poster, h \in ProofHash : postings'[a][i][h].chunks \in Nat
      BY DEF DisputeTypeOK
    <3>2. MaxChunks \in Nat
      BY DisputeAssumption
    <3> SUFFICES ASSUME NEW h \in ProofHash PROVE g[h] \in Nat
      OBVIOUS
    <3>3. CASE AnswererOf(i)' \in Poster
      <4>1. postings'[AnswererOf(i)'][i][h].chunks \in Nat
        BY <3>1, <3>3
      <4> QED BY <3>2, <3>3, <4>1 DEF PaidChunks, Lesser
    <3>4. CASE AnswererOf(i)' \notin Poster
      BY <3>2, <3>4 DEF PaidChunks
    <3> QED BY <3>3, <3>4
  <2>3. U \subseteq ProofHash
    BY DEF BoundHashes
  <2> QED BY <2>1, <2>2, <2>3
<1>2. /\ IsFiniteSet(Bindings(i)') /\ b \in Nat /\ c \in Nat /\ c >= b
      /\ Bindings(i)' # Bindings(i) => c = b + 1
  BY GainsCount DEF Refunded
<1>3. /\ d \in Nat /\ e \in Nat /\ e >= d
      /\ Deliveries(i)' # Deliveries(i) => e = d + 1
  BY <1>1, GainsCount
<1>4. IsFiniteSet(U) /\ IsFiniteSet(S)
  BY GainsCount DEF Refunded
<1>5. u \in Int /\ s \in Int /\ u >= s + n
  <2>1. Gains(S, U)
    OBVIOUS
  <2>2. \A y \in U : f[y] \in Nat /\ g[y] \in Nat
    BY <1>1
  <2>3. \A y \in S : y # x => g[y] = f[y]
    BY <1>1
  <2>4. /\ x \in S => g[x] >= f[x]
        /\ n = 1 => x \in S /\ g[x] >= f[x] + 1
    BY <1>1
  <2> HIDE DEF f, g, S, U
  <2> QED BY <1>4, <2>1, <2>2, <2>3, <2>4, SumGrows
<1>6. refunds[i] <= b + d + s
  BY DEF Refunded, RefundedWithin
<1>7. refunds'[i] <= c + e + u
  <2> HIDE DEF b, c, d, e, s, u
  <2> QED BY <1>1, <1>2, <1>3, <1>5, <1>6
<1>8. RefundedWithin(i)'
  BY <1>7 DEF RefundedWithin
<1> QED BY <1>2, <1>4, <1>8

\* The rest of what is kept of a delegation's refunds.
LEMMA RefundedNext ==
  ASSUME ReserveInv, NEW i \in Id, Refunded(i), \A k \in Key : Moves(k),
         delegations[i].principal # NoAddress => SameTerms(delegations[i], delegations'[i]),
         refunds'[i] = refunds[i] \/ AnswererOf(i) \in Poster,
         \A dg \in Digest : \/ deliveredUnder'[<<i, dg>>] = deliveredUnder[<<i, dg>>]
                            \/ challenges'[<<i, dg>>].status = "Delivered",
         RefundedWithin(i)', IsFiniteSet(Bindings(i)'), IsFiniteSet(BoundHashes(i)')
  PROVE  Refunded(i)'
<1>1. ASSUME delegations'[i].principal = NoAddress PROVE refunds'[i] = 0
  <2>1. delegations[i].principal = NoAddress
    BY <1>1 DEF SameTerms
  <2>2. delegations[i].terms = Blank.terms
    BY <2>1 DEF ReserveInv, TypeInv, Unregistered
  <2>3. AnswererOf(i) = NoAddress
    BY <2>2 DEF AnswererOf, Blank
  <2>4. AnswererOf(i) \notin Poster
    BY <2>3, DisputeAssumption, ReserveAssumption
  <2> QED BY <2>1, <2>4 DEF Refunded
<1>2. ASSUME NEW dg \in Digest, challenges'[<<i, dg>>].status \notin {"Delivered", "Cancelled"}
      PROVE  deliveredUnder'[<<i, dg>>] = NoSeal
  <2>1. <<i, dg>> \in Key
    BY DEF Key
  <2>2. challenges[<<i, dg>>].status \notin {"Delivered", "Cancelled"}
    BY <1>2, <2>1 DEF Moves, Finishes
  <2>3. deliveredUnder[<<i, dg>>] = NoSeal
    BY <2>2 DEF Refunded
  <2> QED BY <1>2, <2>3
<1> QED BY <1>1, <1>2 DEF Refunded

\* A step that refunds nothing, a registration among them.
LEMMA SteadyRefunds ==
  ASSUME ReserveInv, ChallengeInv, RefundInv, [ComposedNext]_vars, Steady
  PROVE  RefundInv'
<1>1. DisputeTypeOK /\ DisputeTypeOK' /\ \A k \in Key : Moves(k)
  <2>1. ChallengeInv'
    BY ChallengesKept
  <2> QED BY <2>1, StepMoves DEF ChallengeInv, AllMove
<1>2. ASSUME NEW i \in Id PROVE Refunded(i)'
  <2>1. /\ refunds'[i] = refunds[i] /\ BoundHashes(i)' = BoundHashes(i)
        /\ Deliveries(i)' = Deliveries(i) /\ Bindings(i)' = Bindings(i)
    BY DEF Steady, AllBoundAs, BoundAs, BoundHashes, Deliveries, Bindings
  <2>2. Refunded(i)
    BY DEF RefundInv
  <2>3. delegations[i].principal # NoAddress => SameTerms(delegations[i], delegations'[i])
    BY TermsStay
  <2>4. CASE delegations[i].principal # NoAddress
    <3>1. AnswererOf(i)' = AnswererOf(i)
      BY <2>3, <2>4 DEF SameTerms, AnswererOf
    <3>2. PaidChunks(i)' = PaidChunks(i)
      BY <3>1 DEF PaidChunks, Steady
    <3>3. \A h \in ProofHash : PaidChunks(i)[h] \in Nat
      BY <1>1, ChunkTypes
    <3>4. /\ Gains(Bindings(i), Bindings(i)') /\ Gains(Deliveries(i), Deliveries(i)')
          /\ Gains(BoundHashes(i), BoundHashes(i)')
      BY <2>1 DEF Gains
    <3> DEFINE x == NoHash
               n == 0
    <3>5. x \notin ProofHash /\ n \in {0, 1}
      BY DisputeAssumption
    <3> HIDE DEF x
    <3>6. RefundedWithin(i)' /\ IsFiniteSet(Bindings(i)') /\ IsFiniteSet(BoundHashes(i)')
      BY <1>1, <2>1, <2>2, <3>2, <3>4, <3>5, RefundedStays
    <3>7. deliveredUnder' = deliveredUnder
      BY DEF Steady
    <3> QED BY <1>1, <2>1, <2>2, <2>3, <3>6, <3>7, RefundedNext
  <2>5. CASE delegations[i].principal = NoAddress
    <3>1. refunds'[i] = 0
      BY <2>1, <2>2, <2>5 DEF Refunded
    <3>2. /\ IsFiniteSet(Bindings(i)') /\ IsFiniteSet(BoundHashes(i)')
          /\ IsFiniteSet(Deliveries(i)')
      BY <1>1, <2>1, <2>2, ChunkTypes DEF Refunded
    <3> DEFINE g == PaidChunks(i)'
               U == BoundHashes(i)'
    <3>3. \A h \in U : g[h] \in Nat
      <4>1. \A a \in Poster, h \in ProofHash : postings'[a][i][h].chunks \in Nat
        BY <1>1 DEF DisputeTypeOK
      <4> SUFFICES ASSUME NEW h \in ProofHash PROVE g[h] \in Nat
        BY DEF BoundHashes
      <4>2. CASE AnswererOf(i)' \in Poster
        <5>1. postings'[AnswererOf(i)'][i][h].chunks \in Nat
          BY <4>1, <4>2
        <5> QED BY DisputeAssumption, <4>2, <5>1 DEF PaidChunks, Lesser
      <4>3. CASE AnswererOf(i)' \notin Poster
        BY <4>3 DEF PaidChunks
      <4> QED BY <4>2, <4>3
    <3>4. SumFunctionOnSet(g, U) \in Nat
      <4> HIDE DEF g
      <4>1. IsFiniteSet(U)
        BY <3>2
      <4> HIDE DEF U
      <4> QED BY <3>3, <4>1, SumNat
    <3>5. Cardinality(Bindings(i)') \in Nat /\ Cardinality(Deliveries(i)') \in Nat
      BY <3>2, FS_CardinalityType
    <3>6. RefundedWithin(i)'
      <4> DEFINE s == SumFunctionOnSet(PaidChunks(i)', BoundHashes(i)')
                 b == Cardinality(Bindings(i)')
                 d == Cardinality(Deliveries(i)')
      <4>1. s \in Nat /\ b \in Nat /\ d \in Nat
        BY <3>4, <3>5
      <4> HIDE DEF s, b, d
      <4>2. refunds'[i] <= b + d + s
        BY <3>1, <4>1
      <4> QED BY <4>2 DEF RefundedWithin, s, b, d
    <3>7. deliveredUnder' = deliveredUnder
      BY DEF Steady
    <3> QED BY <1>1, <2>1, <2>2, <2>3, <3>2, <3>6, <3>7, RefundedNext
  <2> QED BY <2>4, <2>5
<1> QED BY <1>2 DEF RefundInv

\* What a posting, a binding or a delivery refunds, at most once.
LEMMA RefundCount ==
  ASSUME DisputeTypeOK, NEW sender, NEW id \in Id, NEW root, NEW b, NEW fee,
         \/ Refund(sender, id, root, b, fee)
         \/ refunds' = refunds
  PROVE  /\ \A i \in Id : i # id => refunds'[i] = refunds[i]
         /\ \/ refunds'[id] = refunds[id]
            \/ refunds'[id] = refunds[id] + 1 /\ sender = AnswererOf(id)
BY DEF Refund, DisputeTypeOK

\* A posted chunk is refunded only to the answerer whose chunks it adds to.
LEMMA PostRefunds ==
  ASSUME ReserveInv, ChallengeInv, RefundInv, [ComposedNext]_vars,
         NEW sender \in Poster, NEW id \in Id, NEW hash \in ProofHash, NEW fee \in Fee,
         Posts(sender, id, hash, fee)
  PROVE  RefundInv'
<1>1. DisputeTypeOK /\ DisputeTypeOK' /\ \A k \in Key : Moves(k)
  <2>1. ChallengeInv'
    BY ChallengesKept
  <2> QED BY <2>1, StepMoves DEF ChallengeInv, AllMove
<1>2. PICK chunk : PostProof(sender, id, hash, chunk, fee)
  BY DEF Posts
<1> DEFINE p == postings[sender][id][hash]
           q == [chunks |-> p.chunks + 1, good |-> p.good /\ chunk # "wrong"]
<1>3. /\ postings' = [postings EXCEPT ![sender][id][hash] = q]
      /\ delegations' = delegations /\ UNCHANGED <<boundRoot, deliveredUnder>>
      /\ \/ /\ boundRoot[id][hash] # NoRoot /\ p.chunks < MaxChunks
            /\ Refund(sender, id, boundRoot[id][hash], batches, fee)
         \/ refunds' = refunds
  BY <1>2 DEF PostProof, NoCall, FirstChunks
<1>4. p.chunks \in Nat /\ q.chunks = p.chunks + 1
  BY <1>1 DEF DisputeTypeOK
<1> HIDE DEF q
<1>5. /\ \A a \in Poster, i \in Id, h \in ProofHash :
           a # sender \/ i # id \/ h # hash => postings'[a][i][h] = postings[a][i][h]
      /\ postings'[sender][id][hash] = q
  <2>1. postings \in [Poster -> [Id -> [ProofHash -> [chunks: Nat, good: BOOLEAN]]]]
    BY <1>1 DEF DisputeTypeOK
  <2> QED BY <1>3, <2>1
<1> DEFINE refunded == refunds'[id] # refunds[id]
<1>6. /\ \A i \in Id : i # id => refunds'[i] = refunds[i]
      /\ refunded => /\ refunds'[id] = refunds[id] + 1 /\ sender = AnswererOf(id)
                     /\ boundRoot[id][hash] # NoRoot /\ p.chunks < MaxChunks
  BY <1>1, <1>3, RefundCount
<1>7. AllBoundAs
  BY <1>1, PostBinds
<1>8. ASSUME NEW i \in Id PROVE Refunded(i)'
  <2>1. /\ BoundHashes(i)' = BoundHashes(i)
        /\ Deliveries(i)' = Deliveries(i) /\ Bindings(i)' = Bindings(i)
        /\ AnswererOf(i)' = AnswererOf(i)
    BY <1>3, <1>7 DEF AllBoundAs, BoundAs, BoundHashes, Deliveries, Bindings, AnswererOf
  <2>2. /\ Gains(Bindings(i), Bindings(i)') /\ Gains(Deliveries(i), Deliveries(i)')
        /\ Gains(BoundHashes(i), BoundHashes(i)')
    BY <2>1 DEF Gains
  <2>3. Refunded(i) /\ SameTerms(delegations[i], delegations'[i])
    BY <1>3 DEF RefundInv, SameTerms
  <2>4. \A h \in ProofHash : h # hash => PaidChunks(i)'[h] = PaidChunks(i)[h]
    BY <1>5, <2>1 DEF PaidChunks
  <2> DEFINE was == PaidChunks(i)[hash]
             is == PaidChunks(i)'[hash]
  <2>5. was \in Nat /\ is >= was
    <3>1. CASE AnswererOf(i) \in Poster
      <4> DEFINE m == postings[AnswererOf(i)][i][hash].chunks
                 k == postings'[AnswererOf(i)][i][hash].chunks
      <4>1. m \in Nat /\ k \in Nat /\ k >= m
        <5>1. m \in Nat
          BY <1>1, <3>1 DEF DisputeTypeOK
        <5>2. CASE AnswererOf(i) = sender /\ i = id
          BY <1>4, <1>5, <5>1, <5>2
        <5>3. CASE ~(AnswererOf(i) = sender /\ i = id)
          BY <1>5, <3>1, <5>1, <5>3
        <5> QED BY <5>2, <5>3
      <4>2. was = Lesser(m, MaxChunks) /\ is = Lesser(k, MaxChunks) /\ MaxChunks \in Nat
        BY <2>1, <3>1, DisputeAssumption DEF PaidChunks
      <4> HIDE DEF m, k, was, is
      <4> QED BY <4>1, <4>2 DEF Lesser
    <3>2. CASE AnswererOf(i) \notin Poster
      BY <2>1, <3>2 DEF PaidChunks
    <3> QED BY <3>1, <3>2
  <2>6. CASE i = id /\ refunded
    <3>1. AnswererOf(i) = sender /\ p.chunks < MaxChunks /\ hash \in BoundHashes(i)
      BY <1>6, <2>6 DEF BoundHashes
    <3>2. /\ was = Lesser(p.chunks, MaxChunks) /\ is = Lesser(p.chunks + 1, MaxChunks)
      BY <1>4, <1>5, <2>1, <2>6, <3>1 DEF PaidChunks
    <3>3. is >= was + 1
      <4>1. MaxChunks \in Nat
        BY DisputeAssumption
      <4> HIDE DEF was, is, p
      <4> QED BY <1>4, <3>1, <3>2, <4>1 DEF Lesser
    <3> DEFINE n == 1
    <3>4. n \in {0, 1} /\ (n = 1 => hash \in BoundHashes(i) /\ is >= was + 1)
      BY <3>1, <3>3
    <3>5. refunds'[i] = refunds[i] + 1 /\ n = 1
      BY <1>6, <2>6
    <3> HIDE DEF n
    <3>6. RefundedWithin(i)' /\ IsFiniteSet(Bindings(i)') /\ IsFiniteSet(BoundHashes(i)')
      BY <1>1, <2>2, <2>3, <2>4, <2>5, <3>4, <3>5, RefundedStays
    <3>7. AnswererOf(i) \in Poster /\ deliveredUnder' = deliveredUnder
      BY <1>3, <3>1
    <3> QED BY <1>1, <2>3, <3>6, <3>7, RefundedNext
  <2>7. CASE i # id \/ ~refunded
    <3>1. refunds'[i] = refunds[i] /\ deliveredUnder' = deliveredUnder
      BY <1>3, <1>6, <2>7
    <3> DEFINE n == 0
    <3>2. n \in {0, 1} /\ (n = 1 => hash \in BoundHashes(i) /\ is >= was + 1)
      OBVIOUS
    <3> HIDE DEF n
    <3>3. RefundedWithin(i)' /\ IsFiniteSet(Bindings(i)') /\ IsFiniteSet(BoundHashes(i)')
      BY <1>1, <2>2, <2>3, <2>4, <2>5, <3>1, <3>2, RefundedStays
    <3> QED BY <1>1, <2>3, <3>1, <3>3, RefundedNext
  <2> QED BY <2>6, <2>7
<1> QED BY <1>8 DEF RefundInv

\* Binding a receipt binds its batch and, if it was not, its proof.
LEMMA BindGains ==
  ASSUME DisputeTypeOK, NEW id \in Id, NEW r \in receipts, NEW sender, NEW fee,
         \/ Refund(sender, id, r.root, BoundTo(id, r), fee)
         \/ batches' = BoundTo(id, r),
         boundRoot' = BoundRoot(id, r)
  PROVE  /\ \A i \in Id : /\ Gains(BoundHashes(i), BoundHashes(i)')
                          /\ Gains(Bindings(i), Bindings(i)')
         /\ r.root \in Bindings(id)'
<1> DEFINE b == BoundTo(id, r)
<1>1. /\ r.root \in BatchRoot /\ r.proofHash \in ProofHash
      /\ b \in [Id -> [BatchRoot -> BatchPosting]]
      /\ \A i \in Id, q \in BatchRoot :
           b[i][q].proofHash =
             IF i = id /\ q = r.root THEN r.proofHash ELSE batches[i][q].proofHash
  BY BoundTypes, BoundDue
<1>2. Refund(sender, id, r.root, b, fee) \/ batches' = b
  OBVIOUS
<1> HIDE DEF b
<1>3. \A i \in Id, q \in BatchRoot : batches'[i][q].proofHash = b[i][q].proofHash
  <2>1. CASE Refund(sender, id, r.root, b, fee)
    <3>1. r.root \in BatchRoot /\ b \in [Id -> [BatchRoot -> BatchPosting]]
      BY <1>1
    <3> QED BY <3>1, <2>1, RefundDue
  <2>2. CASE batches' = b
    BY <2>2
  <2> QED BY <1>2, <2>1, <2>2
<1>4. r.proofHash # NoHash /\ r.root # NoRoot
  BY <1>1, DisputeAssumption
<1>5. \A i \in Id : Bindings(i)' = Bindings(i) \cup (IF i = id THEN {r.root} ELSE {})
  BY <1>1, <1>3, <1>4 DEF Bindings
<1>6. \A i \in Id, h \in ProofHash :
        \/ boundRoot'[i][h] = boundRoot[i][h]
        \/ i = id /\ h = r.proofHash /\ boundRoot'[i][h] # NoRoot
  BY <1>4 DEF BoundRoot, DisputeTypeOK
<1>7. \A i \in Id : BoundHashes(i)' = BoundHashes(i)
                      \/ BoundHashes(i)' = BoundHashes(i) \cup {r.proofHash}
  <2> SUFFICES ASSUME NEW i \in Id,
                      ~(BoundHashes(i)' = BoundHashes(i) \cup {r.proofHash})
               PROVE  BoundHashes(i)' = BoundHashes(i)
    OBVIOUS
  <2>1. \A h \in ProofHash : h # r.proofHash => (h \in BoundHashes(i)' <=> h \in BoundHashes(i))
    BY <1>6 DEF BoundHashes
  <2>2. /\ BoundHashes(i) \subseteq ProofHash /\ BoundHashes(i)' \subseteq ProofHash
    BY DEF BoundHashes
  <2>3. r.proofHash \notin BoundHashes(i)'
    BY <1>1, <2>1, <2>2
  <2>4. boundRoot'[i][r.proofHash] = NoRoot
    BY <1>1, <2>3 DEF BoundHashes
  <2>5. boundRoot[i][r.proofHash] = NoRoot
    BY <1>1, <1>6, <2>4
  <2>6. r.proofHash \notin BoundHashes(i)
    BY <2>5 DEF BoundHashes
  <2> QED BY <2>1, <2>2, <2>3, <2>6
<1>8. r.root \in Bindings(id)'
  BY <1>1, <1>5
<1>9. ASSUME NEW i \in Id
      PROVE  /\ Gains(BoundHashes(i), BoundHashes(i)') /\ Gains(Bindings(i), Bindings(i)')
  <2>1. Gains(BoundHashes(i), BoundHashes(i)')
    BY <1>7 DEF Gains
  <2>2. Bindings(i)' = Bindings(i) \/ Bindings(i)' = Bindings(i) \cup {r.root}
    <3>1. CASE i = id
      BY <1>5, <3>1
    <3>2. CASE i # id
      <4>1. Bindings(i)' = Bindings(i) \cup {}
        BY <1>5, <3>2
      <4> QED BY <4>1
    <3> QED BY <3>1, <3>2
  <2> QED BY <2>1, <2>2 DEF Gains
<1> QED BY <1>8, <1>9

\* A binding or a delivery, whose refund something else grows with.
LEMMA BoundRefunds ==
  ASSUME ReserveInv, ChallengeInv, RefundInv, [ComposedNext]_vars,
         NEW sender \in Poster, NEW id \in Id, NEW root, NEW b, NEW fee,
         Refund(sender, id, root, b, fee) \/ refunds' = refunds,
         delegations' = delegations, postings' = postings,
         \A i \in Id : /\ Gains(Bindings(i), Bindings(i)')
                       /\ Gains(Deliveries(i), Deliveries(i)')
                       /\ Gains(BoundHashes(i), BoundHashes(i)'),
         Bindings(id)' # Bindings(id) \/ Deliveries(id)' # Deliveries(id),
         \A k \in Key : \/ deliveredUnder'[k] = deliveredUnder[k]
                        \/ challenges'[k].status = "Delivered"
  PROVE  RefundInv'
<1>1. DisputeTypeOK /\ DisputeTypeOK' /\ \A k \in Key : Moves(k)
  <2>1. ChallengeInv'
    BY ChallengesKept
  <2> QED BY <2>1, StepMoves DEF ChallengeInv, AllMove
<1>2. /\ \A i \in Id : i # id => refunds'[i] = refunds[i]
      /\ \/ refunds'[id] = refunds[id]
         \/ refunds'[id] = refunds[id] + 1 /\ sender = AnswererOf(id)
  BY <1>1, RefundCount
<1>3. ASSUME NEW i \in Id PROVE Refunded(i)'
  <2>1. Refunded(i) /\ SameTerms(delegations[i], delegations'[i])
    BY DEF RefundInv, SameTerms
  <2>2. PaidChunks(i)' = PaidChunks(i)
    BY DEF PaidChunks, AnswererOf
  <2>3. \A h \in ProofHash : PaidChunks(i)[h] \in Nat
    BY <1>1, ChunkTypes
  <2>4. /\ Gains(Bindings(i), Bindings(i)') /\ Gains(Deliveries(i), Deliveries(i)')
        /\ Gains(BoundHashes(i), BoundHashes(i)')
    OBVIOUS
  <2>5. \/ refunds'[i] = refunds[i]
        \/ refunds'[i] = refunds[i] + 1 /\ Bindings(i)' # Bindings(i)
        \/ refunds'[i] = refunds[i] + 1 /\ Deliveries(i)' # Deliveries(i)
    BY <1>2
  <2> DEFINE x == NoHash
             n == 0
  <2>6. x \notin ProofHash /\ n \in {0, 1} /\ n # 1
    BY DisputeAssumption
  <2> HIDE DEF x, n
  <2>7. RefundedWithin(i)' /\ IsFiniteSet(Bindings(i)') /\ IsFiniteSet(BoundHashes(i)')
    BY <1>1, <2>1, <2>2, <2>4, <2>5, <2>6, RefundedStays
  <2>8. refunds'[i] = refunds[i] \/ AnswererOf(i) \in Poster
    BY <1>2
  <2>9. \A dg \in Digest : \/ deliveredUnder'[<<i, dg>>] = deliveredUnder[<<i, dg>>]
                           \/ challenges'[<<i, dg>>].status = "Delivered"
    BY DEF Key
  <2> QED BY <1>1, <2>1, <2>7, <2>8, <2>9, RefundedNext
<1> QED BY <1>3 DEF RefundInv

\* A binding is refunded once for its batch.
LEMMA BindRefunds ==
  ASSUME ReserveInv, ChallengeInv, RefundInv, [ComposedNext]_vars,
         NEW sender \in Poster, NEW id \in Id, NEW dg \in Digest, NEW r \in receipts,
         NEW fee \in Fee, BindPosting(sender, id, dg, r, fee)
  PROVE  RefundInv'
<1>1. /\ Refund(sender, id, r.root, BoundTo(id, r), fee)
      /\ boundRoot' = BoundRoot(id, r) /\ delegations' = delegations
      /\ postings' = postings /\ deliveredUnder' = deliveredUnder
      /\ batches[id][r.root].proofHash = NoHash
  BY DEF BindPosting, NoCall
<1>2. DisputeTypeOK
  BY DEF ChallengeInv
<1>3. /\ \A i \in Id : /\ Gains(BoundHashes(i), BoundHashes(i)')
                       /\ Gains(Bindings(i), Bindings(i)')
      /\ r.root \in Bindings(id)'
  BY <1>1, <1>2, BindGains
<1>4. \A i \in Id : Gains(Deliveries(i), Deliveries(i)')
  BY <1>1 DEF Gains, Deliveries
<1>5. r.root \notin Bindings(id)
  BY <1>1 DEF Bindings
<1>6. Bindings(id)' # Bindings(id)
  BY <1>3, <1>5
<1> QED BY <1>1, <1>3, <1>4, <1>6, BoundRefunds

\* A delivery is refunded once for its settlement.
LEMMA DeliverRefunds ==
  ASSUME ReserveInv, ChallengeInv, RefundInv, [ComposedNext]_vars,
         NEW sender \in Poster, NEW id \in Id, NEW dg \in Digest, NEW r \in receipts,
         NEW fee \in Fee, Deliver(sender, id, dg, r, fee)
  PROVE  RefundInv'
<1> DEFINE first == batches[id][r.root].proofHash = NoHash
           b == IF first THEN BoundTo(id, r) ELSE batches
           k == <<id, dg>>
<1>1. /\ DisputeTypeOK /\ DisputeTypeOK' /\ r.root \in BatchRoot /\ r.sealedRoot \in SealedRoot
      /\ k \in Key
  <2>1. ChallengeInv'
    BY ChallengesKept
  <2> QED BY <2>1 DEF ChallengeInv, DisputeTypeOK, Receipt, Key
<1>2. /\ Refund(sender, id, r.root, b, fee) \/ (batches' = b /\ refunds' = refunds)
      /\ boundRoot' = IF first THEN BoundRoot(id, r) ELSE boundRoot
      /\ delegations' = delegations /\ postings' = postings
      /\ deliveredUnder' = [deliveredUnder EXCEPT ![k] = r.sealedRoot]
      /\ challenges' = [challenges EXCEPT ![k].status = "Delivered"]
      /\ challenges[k].status = "Answered"
  BY DEF Deliver, NoCall
<1>3. \A i \in Id : /\ Gains(BoundHashes(i), BoundHashes(i)')
                    /\ Gains(Bindings(i), Bindings(i)')
  <2>1. CASE first
    <3>1. /\ Refund(sender, id, r.root, BoundTo(id, r), fee) \/ batches' = BoundTo(id, r)
          /\ boundRoot' = BoundRoot(id, r)
      BY <1>2, <2>1
    <3> QED BY <1>1, <3>1, BindGains
  <2>2. CASE ~first
    <3>1. /\ Refund(sender, id, r.root, batches, fee) \/ batches' = batches
          /\ boundRoot' = boundRoot
      BY <1>2, <2>2
    <3>2. AllBoundAs
      BY <1>1, <3>1, RefundBinds
    <3>3. \A i \in Id : /\ BoundHashes(i)' = BoundHashes(i)
                        /\ Bindings(i)' = Bindings(i)
      BY <3>1, <3>2 DEF AllBoundAs, BoundAs, BoundHashes, Bindings
    <3> QED BY <3>3 DEF Gains
  <2> QED BY <2>1, <2>2
<1>4. /\ deliveredUnder'[k] = r.sealedRoot /\ r.sealedRoot # NoSeal
      /\ \A j \in Key : j # k => deliveredUnder'[j] = deliveredUnder[j]
      /\ challenges'[k].status = "Delivered"
  <2>1. challenges[k] \in Challenge
    BY <1>1, ChallengeFields
  <2>2. challenges'[k].status = "Delivered"
    BY <1>1, <1>2, <2>1 DEF DisputeTypeOK, Challenge
  <2> QED BY <1>1, <1>2, <2>2, DisputeAssumption DEF DisputeTypeOK
<1>5. deliveredUnder[k] = NoSeal
  BY <1>2 DEF RefundInv, Refunded
<1> HIDE DEF k, b
<1>6. /\ dg \notin Deliveries(id) /\ Deliveries(id)' = Deliveries(id) \cup {dg}
  BY <1>4, <1>5 DEF Deliveries, k, Key
<1>7. \A i \in Id : i # id => Deliveries(i)' = Deliveries(i)
  BY <1>4 DEF Deliveries, k, Key
<1>8. \A i \in Id : Gains(Deliveries(i), Deliveries(i)')
  BY <1>6, <1>7 DEF Gains
<1>9. Deliveries(id)' # Deliveries(id)
  BY <1>6
<1>10. \A j \in Key : \/ deliveredUnder'[j] = deliveredUnder[j]
                      \/ challenges'[j].status = "Delivered"
  BY <1>4
<1> QED BY <1>2, <1>3, <1>8, <1>9, <1>10, BoundRefunds

LEMMA RefundsKept ==
  ASSUME ReserveInv, ChallengeInv, RefundInv, [ComposedNext]_vars
  PROVE  RefundInv'
BY SteadyKinds, SteadyRefunds, PostRefunds, BindRefunds, DeliverRefunds

\* The deployed arbiter has refunded nothing.
LEMMA InitRefunds == ComposedInit => RefundInv
<1> SUFFICES ASSUME ComposedInit, NEW i \in Id PROVE Refunded(i)
  BY DEF RefundInv
<1>1. /\ refunds[i] = 0 /\ Bindings(i) = {} /\ Deliveries(i) = {} /\ BoundHashes(i) = {}
      /\ \A dg \in Digest : deliveredUnder[<<i, dg>>] = NoSeal
  BY DEF ComposedInit, DisputeInit, Unbound, Bindings, Deliveries, BoundHashes, Key
<1>2. IsFiniteSet(Bindings(i)) /\ IsFiniteSet(BoundHashes(i))
  BY <1>1, FS_EmptySet
<1>3. /\ Cardinality(Bindings(i)) = 0 /\ Cardinality(Deliveries(i)) = 0
      /\ SumFunctionOnSet(PaidChunks(i), BoundHashes(i)) = 0
  BY <1>1, FS_EmptySet, SumEmpty
<1>4. RefundedWithin(i)
  BY <1>1, <1>3 DEF RefundedWithin
<1> QED BY <1>1, <1>2, <1>4 DEF Refunded

\* The pool pays for a bounded number of postings, however many requests, posters
\* and receipts there are: each refund is for a batch newly bound, a settlement
\* newly delivered, or a chunk of a bound proof that its own answerer posted, of
\* which it posts each once (bindPosting, deliver, postProof, _refund).
THEOREM RefundsStayBounded == ComposedSpec => []RefundsBounded
<1> DEFINE IInv == CountedInv /\ RefundInv
<1>1. IInv /\ [ComposedNext]_vars => IInv'
  BY CountedKept, RefundsKept DEF CountedInv
<1>2. ComposedInit => IInv
  BY CountedKept, InitRefunds
<1>3. IInv => RefundsBounded
  <2> SUFFICES ASSUME DisputeTypeOK, RefundInv, NEW i \in Id
               PROVE  refunds[i] <= Cardinality(Bindings(i)) + Cardinality(Deliveries(i))
                                      + MaxChunks * Cardinality(BoundHashes(i))
    BY DEF RefundsBounded, CountedInv, ChallengeInv, Bindings, Deliveries, BoundHashes
  <2> DEFINE s == SumFunctionOnSet(PaidChunks(i), BoundHashes(i))
             m == MaxChunks * Cardinality(BoundHashes(i))
             b == Cardinality(Bindings(i))
             d == Cardinality(Deliveries(i))
             f == PaidChunks(i)
             S == BoundHashes(i)
  <2>1. /\ IsFiniteSet(Bindings(i)) /\ IsFiniteSet(S) /\ refunds[i] <= b + d + s
    BY DEF RefundInv, Refunded, RefundedWithin
  <2>2. /\ \A h \in S : f[h] \in Nat /\ f[h] <= MaxChunks
        /\ refunds[i] \in Nat /\ IsFiniteSet(Deliveries(i)) /\ MaxChunks \in Nat
    BY ChunkTypes
  <2>3. /\ b \in Nat /\ d \in Nat /\ Cardinality(S) \in Nat
    BY <2>1, <2>2, FS_CardinalityType
  <2>4. m \in Nat
    BY <2>2, <2>3
  <2>5. s \in Int /\ s <= m
    <3>1. \A h \in S : f[h] \in Int
      BY <2>2
    <3> HIDE DEF f, S
    <3>2. SumFunctionOnSet(f, S) \in Int
      BY <2>1, <3>1, SumInt
    <3>3. SumFunctionOnSet(f, S) <= MaxChunks * Cardinality(S)
      BY <2>1, <2>2, SumBounded
    <3> QED BY <3>2, <3>3 DEF f, S
  <2> HIDE DEF s, m, b, d
  <2>6. refunds[i] <= b + d + m
    BY <2>1, <2>2, <2>3, <2>4, <2>5
  <2> QED BY <2>6 DEF b, d, m
<1> QED BY <1>1, <1>2, <1>3, PTL DEF ComposedSpec

----------------------------------------------------------------------------
(* The deadline queues.                                                    *)

Period == 2 * Slot

\* An open challenge has a full window, is in one of its agent's two kinds of
\* queue, no later than that queue's end, and when it is the principal's, no
\* later than the principal's own asking put it.
Queued(k) ==
  LET c == challenges[k]
      a == AgentOf(k[1])
      p == PrincipalOf(k[1]) IN
  c.status = "Open" =>
    /\ c.openedAt <= now /\ c.deadline >= c.openedAt + AnswerWindow /\ c.deadline > 0
    /\ \/ c.deadline % Period = 0 /\ c.deadline <= lastPrincipalDeadline[a][p]
       \/ c.deadline % Period = Slot /\ c.deadline <= lastPublicDeadline[a]
    /\ c.byPrincipal => c.deadline <= now + AnswerWindow + Period * asked[a][p]

\* So is a queue's end.
QueueEnd(a, p) ==
  /\ lastPrincipalDeadline[a][p] % Period = 0
  /\ lastPrincipalDeadline[a][p] <= now + AnswerWindow + Period * asked[a][p]
  /\ lastPublicDeadline[a] = 0 \/ lastPublicDeadline[a] % Period = Slot

\* Two open challenges of one queue are a period apart.
Spaced(j, k) ==
  LET c == challenges[j]
      e == challenges[k] IN
  (/\ c.status = "Open" /\ e.status = "Open" /\ j # k
   /\ AgentOf(j[1]) = AgentOf(k[1])
   /\ c.deadline % Period = e.deadline % Period
   /\ c.deadline % Period = 0 => PrincipalOf(j[1]) = PrincipalOf(k[1]))
  => Distance(c.deadline, e.deadline) >= Period

QueueInv ==
  /\ now > 0
  /\ \A k \in Key : Queued(k)
  /\ \A a \in Address, p \in Principal : QueueEnd(a, p)
  /\ \A j, k \in Key : Spaced(j, k)

LEMMA PeriodFacts ==
  /\ Period \in Nat /\ Period > 0 /\ Slot \in Nat /\ Slot > 0
  /\ Period = Slot + Slot /\ Slot < Period
BY Constants DEF Period

\* Moments of the two phases are a slot apart.
LEMMA PhasesApart ==
  ASSUME NEW x \in Nat, NEW y \in Nat, x % Period = 0, y % Period = Slot
  PROVE  Distance(x, y) >= Slot /\ Distance(y, x) >= Slot
<1> DEFINE m == x \div Period
           n == y \div Period
           s == Period * m
           t == Period * n
<1>1. /\ m \in Nat /\ n \in Nat /\ x = s + 0 /\ y = t + Slot /\ s \in Nat /\ t \in Nat
  BY PeriodFacts, Remainder
<1>2. CASE m <= n
  <2> HIDE DEF m, n
  <2>1. PICK i \in Nat : n = m + i
    <3>1. n - m \in Nat /\ n = m + (n - m)
      BY <1>1, <1>2
    <3> QED BY <3>1
  <2>2. Period * (m + i) = Period * m + Period * i /\ Period * i \in Nat
    BY <1>1, <2>1, PeriodFacts
  <2>3. t = s + Period * i
    BY <2>1, <2>2
  <2>4. t >= s
    <3> DEFINE w == Period * i
    <3>1. t = s + w /\ w \in Nat /\ s \in Nat
      BY <1>1, <2>2, <2>3
    <3> HIDE DEF s, t, w
    <3> QED BY <3>1
  <2> HIDE DEF s, t
  <2> QED BY <1>1, <2>4, PeriodFacts DEF Distance
<1>3. CASE m > n
  <2> HIDE DEF m, n
  <2>1. PICK i \in Nat : m = n + 1 + i
    <3>1. m - n - 1 \in Nat /\ m = n + 1 + (m - n - 1)
      BY <1>1, <1>3
    <3> QED BY <3>1
  <2>2. Period * (n + 1 + i) = Period * n + Period + Period * i /\ Period * i \in Nat
    BY <1>1, <2>1, PeriodFacts
  <2>3. s = t + Period + Period * i
    BY <2>1, <2>2
  <2>4. s >= t + Period
    <3> DEFINE w == Period * i
    <3>1. s = t + Period + w /\ w \in Nat /\ t \in Nat
      BY <1>1, <2>2, <2>3
    <3> HIDE DEF s, t, w
    <3> QED BY <3>1, PeriodFacts
  <2> HIDE DEF s, t
  <2> QED BY <1>1, <2>4, PeriodFacts DEF Distance
<1> HIDE DEF m, n
<1> QED BY <1>1, <1>2, <1>3

\* A period later is the same phase.
LEMMA NextPeriod ==
  ASSUME NEW x \in Nat
  PROVE  (x + Period) % Period = x % Period
<1> DEFINE m == x \div Period
           r == x % Period
<1>1. m \in Nat /\ r \in Nat /\ r < Period /\ x = Period * m + r
  BY PeriodFacts, Remainder
<1> HIDE DEF m, r
<1>2. PICK n \in Nat : n = m + 1
  BY <1>1
<1>3. Period * (m + 1) = Period * m + Period /\ Period * m \in Nat
  BY <1>1, PeriodFacts
<1>4. x + Period = Period * n + r
  BY <1>1, <1>2, <1>3, PeriodFacts
<1>5. (Period * n + r) % Period = r
  BY <1>1, <1>2, PeriodFacts, OverMultiple
<1> QED BY <1>4, <1>5 DEF r

\* The numbers of an agent's queues.
LEMMA QueueTypes ==
  ASSUME TypeInv, DisputeTypeOK, NEW a \in Address, NEW p \in Principal
  PROVE  /\ lastPrincipalDeadline[a][p] \in Nat /\ lastPublicDeadline[a] \in Nat
         /\ asked[a][p] \in Nat /\ Period * asked[a][p] \in Nat /\ now \in Nat
<1>1. /\ lastPrincipalDeadline[a][p] \in Nat /\ lastPublicDeadline[a] \in Nat
      /\ asked[a][p] \in Nat /\ now \in Nat
  BY DEF DisputeTypeOK, TypeInv, ReserveTypeOK
<1> QED BY <1>1, PeriodFacts

\* An open challenge is of a delegation with an agent and a principal, which it
\* keeps.
LEMMA OpenParties ==
  ASSUME ReserveInv, ChallengeInv, NEW k \in Key, challenges[k].status = "Open",
         \A i \in Id : delegations[i].principal # NoAddress
                         => SameTerms(delegations[i], delegations'[i])
  PROVE  /\ AgentOf(k[1]) \in Address /\ PrincipalOf(k[1]) \in Principal
         /\ AgentOf(k[1])' = AgentOf(k[1]) /\ PrincipalOf(k[1])' = PrincipalOf(k[1])
<1>1. k[1] \in Id /\ k[2] \in Digest /\ Recorded(k[1], k[2])
  BY DEF Key, ChallengeInv, Challenged
<1>2. AgentOf(k[1]) \in Address /\ PrincipalOf(k[1]) \in Principal
  BY <1>1, RecordedFacts
<1>3. delegations[k[1]].principal # NoAddress
  BY <1>2, ReserveAssumption DEF PrincipalOf
<1>4. SameTerms(delegations[k[1]], delegations'[k[1]])
  BY <1>1, <1>3
<1> QED BY <1>2, <1>4 DEF SameTerms, AgentOf, PrincipalOf

\* A challenge that stays open keeps its place, and becomes the principal's only
\* within the principal's reach.
KeepsPlace(k) ==
  challenges'[k].status = "Open" =>
    /\ challenges[k].status = "Open"
    /\ challenges'[k].deadline = challenges[k].deadline
    /\ challenges'[k].openedAt = challenges[k].openedAt
    /\ challenges'[k].byPrincipal =>
         \/ challenges[k].byPrincipal
         \/ challenges'[k].deadline
              <= now + AnswerWindow
                     + Period * asked'[AgentOf(k[1])][PrincipalOf(k[1])]

\* What is added to a later moment is later.
LEMMA LaterSum ==
  ASSUME NEW x \in Nat, NEW y \in Nat, x <= y, NEW i \in Nat, NEW n \in Nat
  PROVE  x + i + n <= y + i + n /\ x + i + n \in Nat
OBVIOUS

\* A step in which no challenge enters a queue.
LEMMA KeptQueues ==
  ASSUME ReserveInv, ChallengeInv, ChallengeInv', QueueInv, now' \in Nat, now' >= now,
         \A i \in Id : delegations[i].principal # NoAddress
                         => SameTerms(delegations[i], delegations'[i]),
         UNCHANGED <<lastPrincipalDeadline, lastPublicDeadline>>,
         \A a \in Address, p \in Principal :
           asked'[a][p] = asked[a][p] \/ asked'[a][p] = asked[a][p] + 1,
         \A k \in Key : KeepsPlace(k)
  PROVE  QueueInv'
<1>1. TypeInv /\ DisputeTypeOK /\ now \in Nat /\ AnswerWindow \in Nat /\ now > 0
  BY Constants DEF ReserveInv, ChallengeInv, TypeInv, ReserveTypeOK, QueueInv
<1>2. ASSUME NEW a \in Address, NEW p \in Principal
      PROVE  now' + AnswerWindow + Period * asked'[a][p]
               >= now + AnswerWindow + Period * asked[a][p]
  <2> DEFINE t == Period * asked[a][p]
             u == Period * asked'[a][p]
  <2>1. t \in Nat /\ asked[a][p] \in Nat
    BY <1>1, QueueTypes
  <2>2. Period * (asked[a][p] + 1) = t + Period
    BY <2>1, PeriodFacts
  <2>3. u = t \/ u = t + Period
    BY <2>2
  <2> HIDE DEF t, u
  <2>4. now' + AnswerWindow + u >= now + AnswerWindow + t
    BY <1>1, <2>1, <2>3, PeriodFacts
  <2> QED BY <2>4 DEF t, u
<1>3. ASSUME NEW a \in Address, NEW p \in Principal
      PROVE  now' + AnswerWindow + Period * asked'[a][p] \in Nat
  <2>1. asked'[a][p] \in Nat
    BY DEF ChallengeInv, DisputeTypeOK
  <2>2. Period * asked'[a][p] \in Nat
    BY <2>1, PeriodFacts
  <2> QED BY <1>1, <2>2
<1>4. ASSUME NEW a \in Address, NEW p \in Principal PROVE QueueEnd(a, p)'
  <2>1. QueueEnd(a, p)
    BY DEF QueueInv
  <2> DEFINE s == now + AnswerWindow + Period * asked[a][p]
             u == now' + AnswerWindow + Period * asked'[a][p]
             l == lastPrincipalDeadline[a][p]
  <2>2. l \in Nat /\ s \in Nat /\ u \in Nat /\ u >= s /\ l <= s
    BY <1>1, <1>2, <1>3, <2>1, QueueTypes DEF QueueEnd
  <2>3. l <= u
    <3> HIDE DEF l, s, u
    <3> QED BY <2>2
  <2> QED BY <2>1, <2>3 DEF QueueEnd
<1>5. ASSUME NEW k \in Key PROVE Queued(k)'
  <2> SUFFICES ASSUME challenges'[k].status = "Open" PROVE Queued(k)'
    BY DEF Queued
  <2> DEFINE c == challenges[k]
             e == challenges'[k]
             a == AgentOf(k[1])
             p == PrincipalOf(k[1])
  <2>1. /\ c.status = "Open" /\ e.deadline = c.deadline /\ e.openedAt = c.openedAt
        /\ e.byPrincipal =>
             \/ c.byPrincipal
             \/ e.deadline <= now + AnswerWindow + Period * asked'[a][p]
    BY DEF KeepsPlace
  <2>2. a \in Address /\ p \in Principal /\ AgentOf(k[1])' = a /\ PrincipalOf(k[1])' = p
    BY <2>1, OpenParties
  <2>3. Queued(k) /\ c.deadline \in Nat /\ c.openedAt \in Nat
    BY <1>1, ChallengeFields DEF QueueInv
  <2>4. e.byPrincipal => e.deadline <= now' + AnswerWindow + Period * asked'[a][p]
    <3> DEFINE s == now + AnswerWindow + Period * asked[a][p]
               u == now' + AnswerWindow + Period * asked'[a][p]
               v == now + AnswerWindow + Period * asked'[a][p]
               w == Period * asked'[a][p]
    <3>1. s \in Nat /\ u \in Nat /\ u >= s
      BY <1>1, <1>2, <1>3, <2>2, QueueTypes
    <3>2. w \in Nat
      <4>1. asked'[a][p] \in Nat
        BY <2>2 DEF ChallengeInv, DisputeTypeOK
      <4> QED BY <4>1, PeriodFacts
    <3>3. v = now + AnswerWindow + w /\ u = now' + AnswerWindow + w
      OBVIOUS
    <3>4. v <= u /\ v \in Nat
      <4>1. now + AnswerWindow + w <= now' + AnswerWindow + w /\ now + AnswerWindow + w \in Nat
        <5> HIDE DEF w
        <5> QED BY <1>1, <3>2, LaterSum
      <4> QED BY <4>1
    <3>5. c.byPrincipal => c.deadline <= s
      BY <2>1, <2>3 DEF Queued
    <3> HIDE DEF s, u, v, w
    <3>6. e.byPrincipal => c.byPrincipal \/ e.deadline <= v
      BY <2>1 DEF v
    <3>7. e.byPrincipal => e.deadline <= u
      BY <2>1, <2>3, <3>1, <3>4, <3>5, <3>6
    <3> QED BY <3>7 DEF u
  <2>5. /\ e.openedAt <= now' /\ e.deadline >= e.openedAt + AnswerWindow /\ e.deadline > 0
    BY <1>1, <2>1, <2>3 DEF Queued
  <2>6. \/ e.deadline % Period = 0 /\ e.deadline <= lastPrincipalDeadline'[a][p]
        \/ e.deadline % Period = Slot /\ e.deadline <= lastPublicDeadline'[a]
    BY <2>1, <2>3 DEF Queued
  <2> QED BY <2>2, <2>4, <2>5, <2>6 DEF Queued
<1>6. ASSUME NEW j \in Key, NEW k \in Key PROVE Spaced(j, k)'
  <2> SUFFICES ASSUME challenges'[j].status = "Open", challenges'[k].status = "Open"
               PROVE  Spaced(j, k)'
    BY DEF Spaced
  <2>1. /\ challenges[j].status = "Open" /\ challenges'[j].deadline = challenges[j].deadline
        /\ challenges[k].status = "Open" /\ challenges'[k].deadline = challenges[k].deadline
    BY DEF KeepsPlace
  <2>2. /\ AgentOf(j[1])' = AgentOf(j[1]) /\ PrincipalOf(j[1])' = PrincipalOf(j[1])
        /\ AgentOf(k[1])' = AgentOf(k[1]) /\ PrincipalOf(k[1])' = PrincipalOf(k[1])
    BY <2>1, OpenParties
  <2>3. Spaced(j, k)
    BY DEF QueueInv
  <2> QED BY <2>1, <2>2, <2>3 DEF Spaced
<1>7. now' > 0
  BY <1>1
<1> QED BY <1>4, <1>5, <1>6, <1>7 DEF QueueInv

\* Where a queue's next deadline falls: a window from now, after the queue's end,
\* and for a principal no later than one asking more puts it.
LEMMA EntryFacts ==
  ASSUME TypeInv, DisputeTypeOK, QueueInv, NEW a \in Address, NEW o \in Principal,
         NEW b \in BOOLEAN, NEW d, d = NextDeadline(a, o, b),
         NEW last, last = LastOf(a, o, b)
  PROVE  /\ d \in Nat /\ last \in Nat /\ d > 0 /\ d >= now + AnswerWindow
         /\ last # 0 => d >= last + Period
         /\ d % Period = Phase(b)
         /\ b => d <= now + AnswerWindow + Period * (asked[a][o] + 1)
<1>1. /\ last \in Nat /\ d \in Nat /\ d >= now + AnswerWindow
      /\ last # 0 => d >= last + Period
      /\ d < Earliest(last) + Period /\ d % Period = Phase(b)
      /\ Earliest(last) % Period = Phase(b) => d = Earliest(last)
  BY DeadlineFacts DEF Period
<1>2. now \in Nat /\ now > 0 /\ AnswerWindow \in Nat
  BY Constants DEF TypeInv, ReserveTypeOK, QueueInv
<1>3. ASSUME b PROVE d <= now + AnswerWindow + Period * (asked[a][o] + 1)
  <2> DEFINE t == Period * asked[a][o]
             u == Period * (asked[a][o] + 1)
  <2>1. t \in Nat /\ asked[a][o] \in Nat
    BY QueueTypes
  <2>2. u = t + Period
    BY <2>1, PeriodFacts
  <2>3. last % Period = 0 /\ last <= now + AnswerWindow + t
    BY <1>3 DEF QueueInv, QueueEnd, LastOf
  <2>4. (last + Period) % Period = Phase(b)
    BY <1>1, <1>3, <2>3, NextPeriod DEF Phase
  <2>5. Earliest(last) = now + AnswerWindow \/ Earliest(last) = last + Period
    BY DEF Earliest, Latest, Period
  <2> HIDE DEF t, u
  <2>6. d <= now + AnswerWindow + t + Period
    <3>1. CASE Earliest(last) = now + AnswerWindow
      BY <1>1, <1>2, <2>1, <3>1, PeriodFacts
    <3>2. CASE Earliest(last) = last + Period
      <4>1. d = last + Period
        BY <1>1, <2>4, <3>2
      <4> QED BY <1>1, <1>2, <2>1, <2>3, <4>1, PeriodFacts
    <3> QED BY <2>5, <3>1, <3>2
  <2>7. now + AnswerWindow + u = now + AnswerWindow + t + Period
    BY <1>2, <2>1, <2>2, PeriodFacts
  <2>8. d <= now + AnswerWindow + u
    BY <2>6, <2>7
  <2> QED BY <2>8 DEF u
<1> QED BY <1>1, <1>2, <1>3

\* What entering one queue leaves of every queue.
LEMMA EnterWrites ==
  ASSUME TypeInv, DisputeTypeOK, NEW a \in Address, NEW o \in Principal, NEW b \in BOOLEAN,
         NEW d, Enter(a, o, b, d), asked' = IF b THEN Counted(a, o) ELSE asked,
         NEW i \in Address, NEW p \in Principal
  PROVE  /\ lastPrincipalDeadline'[i][p]
              = IF b /\ i = a /\ p = o THEN d ELSE lastPrincipalDeadline[i][p]
         /\ lastPublicDeadline'[i] = IF ~b /\ i = a THEN d ELSE lastPublicDeadline[i]
         /\ asked'[i][p] = IF b /\ i = a /\ p = o THEN asked[i][p] + 1 ELSE asked[i][p]
<1>1. /\ lastPrincipalDeadline \in [Address -> [Principal -> Nat]]
      /\ lastPublicDeadline \in [Address -> Nat]
      /\ asked \in [Address -> [Principal -> Nat]]
  BY DEF DisputeTypeOK
<1>2. CASE b
  BY <1>1, <1>2 DEF Enter, Counted
<1>3. CASE ~b
  BY <1>1, <1>3 DEF Enter
<1> QED BY <1>2, <1>3

\* A challenge enters the end of a queue of its agent's.
Enters(id, dg, b, d) ==
  /\ Recorded(id, dg)
  /\ d = NextDeadline(AgentOf(id), PrincipalOf(id), b)
  /\ Enter(AgentOf(id), PrincipalOf(id), b, d)
  /\ asked' = IF b THEN Counted(AgentOf(id), PrincipalOf(id)) ELSE asked
  /\ now' = now
  /\ \A k \in Key : k # <<id, dg>> => challenges'[k] = challenges[k]
  /\ challenges'[<<id, dg>>].status = "Open"
  /\ challenges'[<<id, dg>>].deadline = d
  /\ challenges'[<<id, dg>>].openedAt <= now
  /\ challenges'[<<id, dg>>].byPrincipal => b

LEMMA EnteredQueues ==
  ASSUME ReserveInv, ChallengeInv, ChallengeInv', QueueInv,
         NEW id \in Id, NEW dg \in Digest, NEW b \in BOOLEAN, NEW d, Enters(id, dg, b, d),
         \A i \in Id : delegations[i].principal # NoAddress
                         => SameTerms(delegations[i], delegations'[i])
  PROVE  QueueInv'
<1> DEFINE x == <<id, dg>>
           a == AgentOf(id)
           o == PrincipalOf(id)
           last == LastOf(a, o, b)
<1>1. /\ TypeInv /\ DisputeTypeOK /\ DisputeTypeOK' /\ x \in Key
      /\ now \in Nat /\ now' = now /\ now > 0 /\ AnswerWindow \in Nat
  BY Constants DEF ReserveInv, ChallengeInv, TypeInv, ReserveTypeOK, QueueInv, Key, Enters
<1>2. /\ a \in Address /\ o \in Principal
      /\ d = NextDeadline(a, o, b) /\ Enter(a, o, b, d)
      /\ asked' = IF b THEN Counted(a, o) ELSE asked
  BY RecordedFacts DEF Enters
<1>3. AgentOf(id)' = a /\ PrincipalOf(id)' = o
  <2>1. delegations[id].principal # NoAddress
    BY <1>2, ReserveAssumption DEF PrincipalOf
  <2> QED BY <2>1 DEF SameTerms, AgentOf, PrincipalOf
<1>4. /\ \A k \in Key : k # x => challenges'[k] = challenges[k]
      /\ challenges'[x].status = "Open" /\ challenges'[x].deadline = d
      /\ challenges'[x].openedAt <= now
      /\ challenges'[x].byPrincipal => b
      /\ challenges'[x].openedAt \in Nat
  <2>1. challenges'[x].openedAt \in Nat
    BY <1>1 DEF DisputeTypeOK, Challenge
  <2> QED BY <2>1 DEF Enters
<1> HIDE DEF a, o, x
<1>5. /\ d \in Nat /\ last \in Nat /\ d > 0 /\ d >= now + AnswerWindow
      /\ last # 0 => d >= last + Period
      /\ d % Period = Phase(b)
      /\ b => d <= now + AnswerWindow + Period * (asked[a][o] + 1)
  BY <1>1, <1>2, EntryFacts
<1>6. ASSUME NEW i \in Address, NEW p \in Principal
      PROVE  /\ lastPrincipalDeadline'[i][p]
                  = IF b /\ i = a /\ p = o THEN d ELSE lastPrincipalDeadline[i][p]
             /\ lastPublicDeadline'[i] = IF ~b /\ i = a THEN d ELSE lastPublicDeadline[i]
             /\ asked'[i][p]
                  = IF b /\ i = a /\ p = o THEN asked[i][p] + 1 ELSE asked[i][p]
  BY <1>1, <1>2, EnterWrites
<1>7. ASSUME NEW i \in Address, NEW p \in Principal
      PROVE  /\ lastPrincipalDeadline'[i][p] >= lastPrincipalDeadline[i][p]
             /\ lastPublicDeadline'[i] >= lastPublicDeadline[i]
             /\ lastPrincipalDeadline'[i][p] \in Nat /\ lastPublicDeadline'[i] \in Nat
             /\ lastPrincipalDeadline[i][p] \in Nat /\ lastPublicDeadline[i] \in Nat
  <2>1. lastPrincipalDeadline[i][p] \in Nat /\ lastPublicDeadline[i] \in Nat
    BY <1>1, QueueTypes
  <2>2. d >= last
    BY <1>5, PeriodFacts
  <2>3. CASE b
    BY <1>5, <1>6, <2>1, <2>2, <2>3 DEF LastOf
  <2>4. CASE ~b
    BY <1>5, <1>6, <2>1, <2>2, <2>4 DEF LastOf
  <2> QED BY <2>3, <2>4
<1>8. ASSUME NEW i \in Address, NEW p \in Principal
      PROVE  /\ now + AnswerWindow + Period * asked[i][p] \in Nat
             /\ now + AnswerWindow + Period * asked'[i][p] \in Nat
             /\ now + AnswerWindow + Period * asked'[i][p]
                  >= now + AnswerWindow + Period * asked[i][p]
             /\ (b /\ i = a /\ p = o) => d <= now + AnswerWindow + Period * asked'[i][p]
  <2> DEFINE t == Period * asked[i][p]
             w == Period * (asked[i][p] + 1)
             u == Period * asked'[i][p]
  <2>1. t \in Nat /\ asked[i][p] \in Nat
    BY <1>1, QueueTypes
  <2>2. w = t + Period
    BY <2>1, PeriodFacts
  <2>3. IF b /\ i = a /\ p = o THEN u = w ELSE u = t
    BY <1>6
  <2>4. (b /\ i = a /\ p = o) => d <= now + AnswerWindow + w
    BY <1>5
  <2> HIDE DEF t, w, u
  <2>5. /\ now + AnswerWindow + t \in Nat /\ now + AnswerWindow + u \in Nat
        /\ now + AnswerWindow + u >= now + AnswerWindow + t
        /\ (b /\ i = a /\ p = o) => d <= now + AnswerWindow + u
    <3>1. CASE b /\ i = a /\ p = o
      BY <1>1, <2>1, <2>2, <2>3, <2>4, <3>1, PeriodFacts
    <3>2. CASE ~(b /\ i = a /\ p = o)
      BY <1>1, <2>1, <2>3, <3>2
    <3> QED BY <3>1, <3>2
  <2> QED BY <2>5 DEF t, u
<1>9. ASSUME NEW i \in Address, NEW p \in Principal PROVE QueueEnd(i, p)'
  <2> DEFINE s == now + AnswerWindow + Period * asked[i][p]
             u == now + AnswerWindow + Period * asked'[i][p]
             l == lastPrincipalDeadline[i][p]
  <2>1. QueueEnd(i, p)
    BY DEF QueueInv
  <2>2. l \in Nat /\ l <= s /\ s \in Nat /\ u \in Nat /\ u >= s
        /\ ((b /\ i = a /\ p = o) => d <= u)
    BY <1>7, <1>8, <2>1 DEF QueueEnd
  <2>3. lastPrincipalDeadline'[i][p] = IF b /\ i = a /\ p = o THEN d ELSE l
    BY <1>6
  <2>4. lastPrincipalDeadline'[i][p] % Period = 0
    BY <1>5, <2>1, <2>3 DEF QueueEnd, Phase
  <2>5. lastPrincipalDeadline'[i][p] <= u
    <3> HIDE DEF l, s, u
    <3> QED BY <2>2, <2>3
  <2>6. lastPublicDeadline'[i] = 0 \/ lastPublicDeadline'[i] % Period = Slot
    BY <1>5, <1>6, <2>1 DEF QueueEnd, Phase
  <2> QED BY <1>1, <2>4, <2>5, <2>6 DEF QueueEnd
<1>10. ASSUME NEW k \in Key, k # x PROVE Queued(k)'
  <2> SUFFICES ASSUME challenges'[k].status = "Open" PROVE Queued(k)'
    BY DEF Queued
  <2> DEFINE c == challenges[k]
             i == AgentOf(k[1])
             p == PrincipalOf(k[1])
             s == now + AnswerWindow + Period * asked[i][p]
             u == now + AnswerWindow + Period * asked'[i][p]
  <2>1. c.status = "Open" /\ challenges'[k] = c
    BY <1>4, <1>10
  <2>2. i \in Address /\ p \in Principal /\ AgentOf(k[1])' = i /\ PrincipalOf(k[1])' = p
    BY <2>1, OpenParties
  <2>3. Queued(k) /\ c.deadline \in Nat /\ c.openedAt \in Nat
    BY <1>1, ChallengeFields DEF QueueInv
  <2>4. s \in Nat /\ u \in Nat /\ u >= s
    BY <1>8, <2>2
  <2>5. /\ c.openedAt <= now /\ c.deadline >= c.openedAt + AnswerWindow /\ c.deadline > 0
        /\ \/ c.deadline % Period = 0 /\ c.deadline <= lastPrincipalDeadline[i][p]
           \/ c.deadline % Period = Slot /\ c.deadline <= lastPublicDeadline[i]
        /\ c.byPrincipal => c.deadline <= s
    BY <2>1, <2>3 DEF Queued
  <2>6. /\ lastPrincipalDeadline'[i][p] >= lastPrincipalDeadline[i][p]
        /\ lastPublicDeadline'[i] >= lastPublicDeadline[i]
        /\ lastPrincipalDeadline'[i][p] \in Nat /\ lastPublicDeadline'[i] \in Nat
        /\ lastPrincipalDeadline[i][p] \in Nat /\ lastPublicDeadline[i] \in Nat
    BY <1>7, <2>2
  <2> HIDE DEF i, p, s, u
  <2>7. \/ c.deadline % Period = 0 /\ c.deadline <= lastPrincipalDeadline'[i][p]
        \/ c.deadline % Period = Slot /\ c.deadline <= lastPublicDeadline'[i]
    BY <2>3, <2>5, <2>6
  <2>8. c.byPrincipal => c.deadline <= u
    BY <2>3, <2>4, <2>5
  <2> QED BY <1>1, <2>1, <2>2, <2>5, <2>7, <2>8 DEF Queued, u
<1>11. Queued(x)'
  <2>1. x[1] = id
    BY DEF x
  <2>2. \/ d % Period = 0 /\ d <= lastPrincipalDeadline'[a][o]
        \/ d % Period = Slot /\ d <= lastPublicDeadline'[a]
    BY <1>2, <1>5, <1>6 DEF Phase
  <2>3. challenges'[x].byPrincipal => d <= now + AnswerWindow + Period * asked'[a][o]
    BY <1>2, <1>4, <1>8
  <2>4. d >= challenges'[x].openedAt + AnswerWindow
    BY <1>1, <1>4, <1>5
  <2> QED BY <1>1, <1>3, <1>4, <1>5, <2>1, <2>2, <2>3, <2>4 DEF Queued
<1>12. ASSUME NEW k \in Key, challenges[k].status = "Open", AgentOf(k[1]) = a,
              challenges[k].deadline % Period = Phase(b),
              b => PrincipalOf(k[1]) = o
       PROVE  Distance(challenges[k].deadline, d) >= Period
              /\ Distance(d, challenges[k].deadline) >= Period
  <2>1. Queued(k) /\ challenges[k].deadline \in Nat
    BY <1>1, ChallengeFields DEF QueueInv
  <2>2. challenges[k].deadline <= last /\ challenges[k].deadline > 0
    BY <1>12, <2>1, PeriodFacts DEF Queued, Phase, LastOf
  <2>3. d >= challenges[k].deadline + Period
    BY <1>5, <2>1, <2>2, PeriodFacts
  <2> QED BY <1>5, <2>1, <2>3, PeriodFacts DEF Distance
<1>13. ASSUME NEW k \in Key, k # x PROVE Spaced(k, x)' /\ Spaced(x, k)'
  <2> SUFFICES ASSUME challenges'[k].status = "Open" PROVE Spaced(k, x)' /\ Spaced(x, k)'
    BY DEF Spaced
  <2>1. challenges[k].status = "Open" /\ challenges'[k] = challenges[k] /\ x[1] = id
    BY <1>4, <1>13 DEF x
  <2>2. AgentOf(k[1])' = AgentOf(k[1]) /\ PrincipalOf(k[1])' = PrincipalOf(k[1])
    BY <2>1, OpenParties
  <2>3. b => d % Period = 0
    BY <1>5 DEF Phase
  <2>4. (/\ AgentOf(k[1]) = a /\ challenges[k].deadline % Period = d % Period
         /\ d % Period = 0 => PrincipalOf(k[1]) = o)
        => /\ Distance(challenges[k].deadline, d) >= Period
           /\ Distance(d, challenges[k].deadline) >= Period
    BY <1>5, <1>12, <2>1, <2>3
  <2> QED BY <1>3, <1>4, <2>1, <2>2, <2>4 DEF Spaced
<1>14. ASSUME NEW j \in Key, NEW k \in Key, j # x, k # x PROVE Spaced(j, k)'
  <2> SUFFICES ASSUME challenges'[j].status = "Open", challenges'[k].status = "Open"
               PROVE  Spaced(j, k)'
    BY DEF Spaced
  <2>1. /\ challenges[j].status = "Open" /\ challenges'[j] = challenges[j]
        /\ challenges[k].status = "Open" /\ challenges'[k] = challenges[k]
    BY <1>4, <1>14
  <2>2. /\ AgentOf(j[1])' = AgentOf(j[1]) /\ PrincipalOf(j[1])' = PrincipalOf(j[1])
        /\ AgentOf(k[1])' = AgentOf(k[1]) /\ PrincipalOf(k[1])' = PrincipalOf(k[1])
    BY <2>1, OpenParties
  <2>3. Spaced(j, k)
    BY DEF QueueInv
  <2> QED BY <2>1, <2>2, <2>3 DEF Spaced
<1>15. Spaced(x, x)'
  BY DEF Spaced
<1>16. \A j \in Key : \A k \in Key : Spaced(j, k)'
  BY <1>13, <1>14, <1>15
<1>17. \A k \in Key : Queued(k)'
  BY <1>10, <1>11
<1> QED BY <1>1, <1>9, <1>16, <1>17 DEF QueueInv

\* What the arbiter's steps leave alone.
Timed ==
  /\ ReserveInv /\ ChallengeInv /\ ChallengeInv' /\ QueueInv
  /\ now' = now
  /\ \A i \in Id : delegations[i].principal # NoAddress
                     => SameTerms(delegations[i], delegations'[i])

\* open enters the asker's queue.
LEMMA OpenQueues ==
  ASSUME Timed, NEW sender, NEW id \in Id, NEW dg \in Digest, NEW bond, NEW deposit,
         NEW excess, Open(sender, id, dg, bond, deposit, excess)
  PROVE  QueueInv'
<1> DEFINE b == Asks(sender, id)
           d == NextDeadline(AgentOf(id), PrincipalOf(id), b)
           e == Opened(sender, id, bond, d)
<1>1. b \in BOOLEAN /\ now \in Nat /\ DisputeTypeOK
  BY DEF Asks, MayStop, Timed, ReserveInv, TypeInv, ReserveTypeOK, ChallengeInv
<1>2. /\ e.status = "Open" /\ e.deadline = d /\ e.openedAt = now /\ e.byPrincipal = b
  BY DEF Opened
<1>3. challenges' = [challenges EXCEPT ![<<id, dg>>] = e]
  BY DEF Open, Opened
<1>4. /\ Recorded(id, dg) /\ Enter(AgentOf(id), PrincipalOf(id), b, d)
      /\ asked' = IF b THEN Counted(AgentOf(id), PrincipalOf(id)) ELSE asked
  BY DEF Open
<1>5. <<id, dg>> \in Key /\ challenges \in [Key -> Challenge]
  BY <1>1 DEF Key, DisputeTypeOK
<1> HIDE DEF b, e
<1>6. /\ challenges'[<<id, dg>>] = e
      /\ \A k \in Key : k # <<id, dg>> => challenges'[k] = challenges[k]
  BY <1>3, <1>5
<1>7. Enters(id, dg, b, d)
  BY <1>1, <1>2, <1>4, <1>6 DEF Enters, Timed
<1> QED BY <1>1, <1>7, EnteredQueues DEF Timed

\* A step that rewrites one challenge, whose place it keeps, and no queue's end.
LEMMA OneKeepsPlace ==
  ASSUME Timed, NEW id \in Id, NEW dg \in Digest, NEW e,
         challenges' = [challenges EXCEPT ![<<id, dg>>] = e],
         UNCHANGED <<lastPrincipalDeadline, lastPublicDeadline>>,
         \A a \in Address, p \in Principal :
           asked'[a][p] = asked[a][p] \/ asked'[a][p] = asked[a][p] + 1,
         challenges'[<<id, dg>>] = e => KeepsPlace(<<id, dg>>)
  PROVE  QueueInv'
<1>1. <<id, dg>> \in Key /\ challenges \in [Key -> Challenge] /\ now \in Nat /\ now' = now
  BY DEF Key, Timed, ReserveInv, TypeInv, ReserveTypeOK, ChallengeInv, DisputeTypeOK
<1>2. /\ challenges'[<<id, dg>>] = e
      /\ \A k \in Key : k # <<id, dg>> => challenges'[k] = challenges[k]
  BY <1>1
<1>3. \A k \in Key : k # <<id, dg>> => KeepsPlace(k)
  BY <1>2 DEF KeepsPlace
<1>4. \A k \in Key : KeepsPlace(k)
  BY <1>2, <1>3
<1>5. now' \in Nat /\ now' >= now
  BY <1>1
<1> QED BY <1>4, <1>5, KeptQueues, SMTT(30) DEF Timed

\* cancel takes a challenge out of its queue, or out of the principal's hands.
LEMMA CancelQueues ==
  ASSUME Timed, NEW sender, NEW id \in Id, NEW dg \in Digest, Cancel(sender, id, dg)
  PROVE  QueueInv'
<1> DEFINE c == challenges[<<id, dg>>]
           left == [c EXCEPT !.byPrincipal = FALSE, !.joined = FALSE]
<1>1. DisputeTypeOK /\ <<id, dg>> \in Key /\ UNCHANGED queueVars
  BY DEF Cancel, Timed, ChallengeInv, Key
<1>2. c \in Challenge
  BY <1>1, ChallengeFields
<1>3. PICK e : /\ challenges' = [challenges EXCEPT ![<<id, dg>>] = e]
               /\ \/ c.status = "Open" /\ e = left
                  \/ e = [left EXCEPT !.status = "Cancelled"]
                  \/ c.status # "Open" /\ e = [left EXCEPT !.status = c.status]
  <2>1. CASE CancelOpen(id, dg)
    BY <2>1 DEF CancelOpen
  <2>2. CASE CancelAnswered(id, dg)
    <3> DEFINE s == IF c.joined THEN c.status ELSE "Cancelled"
               e == [c EXCEPT !.byPrincipal = FALSE, !.joined = FALSE, !.status = s]
    <3>1. challenges' = [challenges EXCEPT ![<<id, dg>>] = e]
          /\ c.status \in {"Answered", "Delivered"}
      BY <2>2 DEF CancelAnswered
    <3>2. e = [left EXCEPT !.status = s]
      BY <1>2 DEF Challenge
    <3> HIDE DEF e
    <3> QED BY <3>1, <3>2
  <2> QED BY <2>1, <2>2 DEF Cancel
<1>4. /\ ~e.byPrincipal /\ e.deadline = c.deadline /\ e.openedAt = c.openedAt
      /\ e.status = "Open" => c.status = "Open"
  BY <1>2, <1>3 DEF Challenge
<1>5. challenges'[<<id, dg>>] = e => KeepsPlace(<<id, dg>>)
  BY <1>4 DEF KeepsPlace
<1> HIDE DEF c
<1> QED BY <1>1, <1>3, <1>5, OneKeepsPlace

\* expire and deliver take a challenge out of its queue.
LEMMA EndedQueues ==
  ASSUME Timed, NEW id \in Id, NEW dg \in Digest, NEW s \in Status, s # "Open",
         challenges' = [challenges EXCEPT ![<<id, dg>>].status = s], UNCHANGED queueVars
  PROVE  QueueInv'
<1> DEFINE c == challenges[<<id, dg>>]
           e == [c EXCEPT !.status = s]
<1>1. c \in Challenge
  BY ChallengeFields DEF Timed, ChallengeInv, Key
<1>2. e.status # "Open"
  BY <1>1 DEF Challenge
<1>3. challenges' = [challenges EXCEPT ![<<id, dg>>] = e]
  OBVIOUS
<1> HIDE DEF e
<1>4. challenges'[<<id, dg>>] = e => KeepsPlace(<<id, dg>>)
  BY <1>2 DEF KeepsPlace
<1> QED BY <1>3, <1>4, OneKeepsPlace

\* So do answers.
LEMMA AnswerQueues ==
  ASSUME Timed, NEW keys \in SUBSET Due, NEW items \in [keys -> Provable], Answer(items)
  PROVE  QueueInv'
<1>1. /\ keys \subseteq Key
      /\ \A k \in keys : /\ items[k] \in BatchRoot
                         /\ challenges'[k] = AnsweredAs(k, items[k])
      /\ \A k \in Key : k \notin keys => challenges'[k] = challenges[k]
  BY AnswerWrites DEF Timed
<1>2. TypeInv /\ DisputeTypeOK /\ now \in Nat /\ now' = now
  BY DEF Timed, ReserveInv, ChallengeInv, TypeInv, ReserveTypeOK
<1>3. \A k \in keys : challenges'[k].status = "Answered"
  BY <1>1, <1>2, AnsweredType
<1>4. \A k \in Key : KeepsPlace(k)
  BY <1>1, <1>3, SMTT(30) DEF KeepsPlace
<1>5. UNCHANGED queueVars
  BY DEF Answer
<1>6. now' \in Nat /\ now' >= now
  BY <1>2
<1> QED BY <1>4, <1>5, <1>6, KeptQueues DEF Timed

\* join enters the principal's queue if that brings the deadline forward, and
\* leaves a deadline that is within the principal's reach.
LEMMA JoinQueues ==
  ASSUME Timed, NEW sender, NEW id \in Id, NEW dg \in Digest, NEW deposit, NEW excess,
         Join(sender, id, dg, deposit, excess)
  PROVE  QueueInv'
<1> DEFINE c == challenges[<<id, dg>>]
           a == AgentOf(id)
           o == PrincipalOf(id)
           d == NextDeadline(a, o, TRUE)
<1>1. /\ TypeInv /\ DisputeTypeOK /\ QueueInv /\ <<id, dg>> \in Key /\ now' = now
      /\ now \in Nat /\ AnswerWindow \in Nat
  BY Constants DEF Timed, ReserveInv, TypeInv, ReserveTypeOK, ChallengeInv, Key
<1>2. /\ a \in Address /\ o \in Principal /\ Recorded(id, dg)
      /\ asked' = Counted(a, o)
  BY RecordedFacts DEF Join, Timed
<1>3. c \in Challenge /\ c.deadline \in Nat /\ c.openedAt \in Nat
  BY <1>1, ChallengeFields
<1>4. /\ d \in Nat
      /\ d <= now + AnswerWindow + Period * (asked[a][o] + 1)
  BY <1>1, <1>2, EntryFacts
<1>5. asked'[a][o] = asked[a][o] + 1
      /\ \A i \in Address, p \in Principal :
           asked'[i][p] = asked[i][p] \/ asked'[i][p] = asked[i][p] + 1
  <2>1. asked \in [Address -> [Principal -> Nat]]
    BY <1>1 DEF DisputeTypeOK
  <2> HIDE DEF a, o
  <2> QED BY <1>2, <2>1 DEF Counted
<1>6. ASSUME JoinOpen(id, dg), d < c.deadline PROVE QueueInv'
  <2> DEFINE e == Joined(c, d)
  <2>1. /\ c.status = "Open" /\ challenges' = [challenges EXCEPT ![<<id, dg>>] = e]
        /\ Enter(a, o, TRUE, d)
    BY <1>6 DEF JoinOpen, Joined
  <2>2. Queued(<<id, dg>>)
    BY <1>1 DEF QueueInv
  <2>3. c.openedAt <= now
    BY <2>1, <2>2 DEF Queued
  <2>4. e.status = "Open" /\ e.deadline = d /\ e.openedAt <= now
    BY <1>3, <2>1, <2>3 DEF Joined, Challenge
  <2> HIDE DEF e
  <2>5. /\ challenges'[<<id, dg>>] = e
        /\ \A k \in Key : k # <<id, dg>> => challenges'[k] = challenges[k]
    BY <1>1, <2>1 DEF DisputeTypeOK
  <2>6. Enters(id, dg, TRUE, d)
    BY <1>1, <1>2, <2>1, <2>4, <2>5 DEF Enters
  <2> HIDE DEF a, o, d
  <2> QED BY <2>6, EnteredQueues DEF Timed
<1>7. ASSUME JoinOpen(id, dg), ~(d < c.deadline) PROVE QueueInv'
  <2> DEFINE e == Joined(c, c.deadline)
             r == now + AnswerWindow + Period * asked'[a][o]
  <2>1. /\ c.status = "Open" /\ challenges' = [challenges EXCEPT ![<<id, dg>>] = e]
        /\ UNCHANGED <<lastPrincipalDeadline, lastPublicDeadline>>
    BY <1>7 DEF JoinOpen, Joined
  <2>2. e.deadline = c.deadline /\ e.openedAt = c.openedAt
    BY <1>3 DEF Joined, Challenge
  <2>3. c.deadline <= r
    <3> DEFINE w == Period * (asked[a][o] + 1)
    <3>1. w \in Nat
      <4>1. asked[a][o] \in Nat
        BY <1>1, <1>2, QueueTypes
      <4> QED BY <4>1, PeriodFacts
    <3>2. r = now + AnswerWindow + w /\ d <= now + AnswerWindow + w
      BY <1>4, <1>5
    <3> HIDE DEF w
    <3>3. now + AnswerWindow + w \in Nat
      BY <1>1, <3>1
    <3>4. r \in Nat /\ d <= r
      BY <3>2, <3>3
    <3> HIDE DEF r, d, c
    <3> QED BY <1>3, <1>4, <1>7, <3>4
  <2> HIDE DEF e, d
  <2>4. challenges'[<<id, dg>>] = e => KeepsPlace(<<id, dg>>)
    BY <2>1, <2>2, <2>3 DEF KeepsPlace
  <2> HIDE DEF c
  <2> QED BY <1>5, <2>1, <2>4, OneKeepsPlace
<1>8. ASSUME JoinAnswered(id, dg) PROVE QueueInv'
  <2> DEFINE e == Joined(c, now + DeliveryWait)
  <2>1. /\ c.status = "Answered" /\ challenges' = [challenges EXCEPT ![<<id, dg>>] = e]
        /\ UNCHANGED <<lastPrincipalDeadline, lastPublicDeadline>>
    BY <1>8 DEF JoinAnswered, Joined
  <2>2. e.status # "Open"
    BY <1>3, <2>1 DEF Joined, Challenge
  <2> HIDE DEF e
  <2>3. challenges'[<<id, dg>>] = e => KeepsPlace(<<id, dg>>)
    BY <2>2 DEF KeepsPlace
  <2> HIDE DEF c
  <2> QED BY <1>5, <2>1, <2>3, OneKeepsPlace
<1> QED BY <1>6, <1>7, <1>8 DEF Join

\* Every step keeps the queues.
LEMMA QueuesKept ==
  ASSUME ReserveInv, ChallengeInv, QueueInv, [ComposedNext]_vars
  PROVE  QueueInv'
<1>1. ChallengeInv' /\ now' >= now /\ now \in Nat /\ now' \in Nat
      /\ \A i \in Id : delegations[i].principal # NoAddress
                         => SameTerms(delegations[i], delegations'[i])
  <2>1. TypeInv'
    BY ReserveKept DEF ReserveInv
  <2> QED BY <2>1, ChallengesKept, StepEnds, TermsStay DEF TypeInv, ReserveTypeOK
<1>2. ASSUME UNCHANGED <<challenges, queueVars>> PROVE QueueInv'
  <2>1. \A k \in Key : KeepsPlace(k)
    BY <1>2 DEF KeepsPlace
  <2> QED BY <1>1, <1>2, <2>1, KeptQueues
<1>3. CASE Elsewhere
  BY <1>2, <1>3 DEF Elsewhere
<1>4. CASE DisputeStep
  <2>1. Timed
    BY <1>1, <1>4, StepEnds DEF Timed
  <2>2. PostingStep => QueueInv'
    BY <1>2, PostingKeeps
  <2>3. ASSUME NEW id \in Id, NEW dg \in Digest, Expire(id, dg) PROVE QueueInv'
    BY <2>1, <2>3, EndedQueues DEF Expire, Status
  <2>4. ASSUME NEW sender \in Poster, NEW id \in Id, NEW dg \in Digest, NEW r \in receipts,
               NEW fee \in Fee, Deliver(sender, id, dg, r, fee)
        PROVE  QueueInv'
    BY <2>1, <2>4, EndedQueues DEF Deliver, Status
  <2> QED BY <1>4, <2>1, <2>2, <2>3, <2>4, DisputeKinds, OpenQueues, JoinQueues,
            CancelQueues, AnswerQueues
<1> QED BY <1>3, <1>4, StepKinds

\* The deployed arbiter's queues are empty.
LEMMA InitQueues == ComposedInit => QueueInv
<1> SUFFICES ASSUME ComposedInit PROVE QueueInv
  OBVIOUS
<1>1. now = StartTime /\ now \in Nat /\ now > 0 /\ AnswerWindow \in Nat
  BY Constants, ReserveAssumption, DisputeAssumption DEF ComposedInit, ReserveInit
<1>2. /\ \A k \in Key : challenges[k].status = "None"
      /\ \A a \in Address, p \in Principal :
           /\ lastPrincipalDeadline[a][p] = 0 /\ lastPublicDeadline[a] = 0
           /\ asked[a][p] = 0
  BY DEF ComposedInit, DisputeInit, Unchallenged
<1>3. 0 % Period = 0 /\ Period * 0 = 0
  <2>1. (Period * 0 + 0) % Period = 0
    BY PeriodFacts, OverMultiple
  <2>2. Period * 0 + 0 = 0 /\ Period * 0 = 0
    BY PeriodFacts
  <2> QED BY <2>1, <2>2
<1>4. ASSUME NEW a \in Address, NEW p \in Principal PROVE QueueEnd(a, p)
  <2>1. Period * asked[a][p] = 0
    BY <1>2, <1>3
  <2>2. 0 <= now + AnswerWindow + Period * asked[a][p]
    BY <1>1, <2>1
  <2> QED BY <1>2, <1>3, <2>2 DEF QueueEnd
<1>5. /\ \A k \in Key : Queued(k)
      /\ \A j, k \in Key : Spaced(j, k)
  BY <1>2 DEF Queued, Spaced
<1> QED BY <1>1, <1>4, <1>5 DEF QueueInv

LEMMA QueuesAlways == ComposedSpec => [](ReserveInv /\ ChallengeInv /\ QueueInv)
<1> DEFINE IInv == CountedInv /\ QueueInv
<1>1. IInv /\ [ComposedNext]_vars => IInv'
  BY CountedKept, QueuesKept DEF CountedInv
<1>2. ComposedInit => IInv
  BY CountedKept, InitQueues
<1>3. IInv => ReserveInv /\ ChallengeInv /\ QueueInv
  BY DEF CountedInv
<1> QED BY <1>1, <1>2, <1>3, PTL DEF ComposedSpec

\* Whatever others open, join or cancel, a challenge the principal asked for has
\* a deadline at most a window away when it asks, and two slots for each time it
\* asked against that agent: its own queue's end never runs ahead of that, even
\* when a join brings another's deadline into it (_next, open, join).
THEOREM NeverDelayed == ComposedSpec => []PrincipalUndelayed
<1>1. ReserveInv /\ ChallengeInv /\ QueueInv => PrincipalUndelayed
  <2> SUFFICES ASSUME QueueInv, NEW id \in Id, NEW dg \in Standing(id)
               PROVE  challenges[<<id, dg>>].deadline
                        <= now + AnswerWindow
                               + Period * asked[AgentOf(id)][PrincipalOf(id)]
    BY DEF PrincipalUndelayed, Period
  <2>1. <<id, dg>> \in Key
    BY DEF Standing, OpenOf, Key
  <2>2. Queued(<<id, dg>>)
    BY <2>1 DEF QueueInv
  <2> QED BY <2>2 DEF Queued, Standing, OpenOf
<1> QED BY <1>1, QueuesAlways, PTL

\* Every open challenge left its agent a full answer window; two in one queue end
\* two slots apart, and one in a principal's queue ends a slot from one in the
\* others': both sides of a join keep their place (_next, open, join, cancel).
THEOREM AlwaysSpaced == ComposedSpec => []DeadlinesSpaced
<1>1. ReserveInv /\ ChallengeInv /\ QueueInv => DeadlinesSpaced
  <2> SUFFICES ASSUME ReserveInv, ChallengeInv, QueueInv, NEW a \in Address,
                      NEW k \in Against(a)
               PROVE  /\ challenges[k].deadline >= challenges[k].openedAt + AnswerWindow
                      /\ \A j \in Against(a) \ {k} :
                           LET apart == Distance(challenges[k].deadline,
                                                 challenges[j].deadline) IN
                           /\ Queue(k) = Queue(j) => apart >= Period
                           /\ (Queue(k) # Queue(j) /\ NoAddress \in {Queue(k), Queue(j)})
                                => apart >= Slot
    BY DEF DeadlinesSpaced, Period
  <2>1. ASSUME NEW j \in Against(a)
        PROVE  /\ j \in Key /\ challenges[j].status = "Open" /\ AgentOf(j[1]) = a
               /\ Queued(j) /\ challenges[j].deadline \in Nat
               /\ \/ challenges[j].deadline % Period = 0
                  \/ challenges[j].deadline % Period = Slot
               /\ Queue(j) = IF challenges[j].deadline % Period = 0 THEN PrincipalOf(j[1])
                             ELSE NoAddress
               /\ PrincipalOf(j[1]) # NoAddress
    <3>1. j \in Key /\ challenges[j].status = "Open" /\ AgentOf(j[1]) = a
      BY DEF Against
    <3>2. Queued(j) /\ challenges[j].deadline \in Nat
      BY <3>1, ChallengeFields DEF QueueInv, ChallengeInv
    <3>3. PrincipalOf(j[1]) # NoAddress
      <4>1. j[1] \in Id /\ j[2] \in Digest /\ Recorded(j[1], j[2])
        BY <3>1 DEF Key, ChallengeInv, Challenged
      <4> QED BY <4>1, RecordedFacts, ReserveAssumption
    <3> QED BY <3>1, <3>2, <3>3 DEF Queued, Queue, Even, Period
  <2>2. challenges[k].deadline >= challenges[k].openedAt + AnswerWindow
    BY <2>1 DEF Queued
  <2>3. ASSUME NEW j \in Against(a), j # k
        PROVE  LET apart == Distance(challenges[k].deadline, challenges[j].deadline) IN
               /\ Queue(k) = Queue(j) => apart >= Period
               /\ (Queue(k) # Queue(j) /\ NoAddress \in {Queue(k), Queue(j)})
                    => apart >= Slot
    <3> DEFINE x == challenges[k].deadline
               y == challenges[j].deadline
    <3>1. Spaced(k, j)
      BY <2>1 DEF QueueInv
    <3>2. Queue(k) = Queue(j) => Distance(x, y) >= Period
      BY <2>1, <2>3, <3>1, PeriodFacts DEF Spaced
    <3>3. ASSUME Queue(k) # Queue(j), NoAddress \in {Queue(k), Queue(j)}
          PROVE  Distance(x, y) >= Slot
      <4>1. \/ x % Period = 0 /\ y % Period = Slot
            \/ x % Period = Slot /\ y % Period = 0
        BY <2>1, <3>3, PeriodFacts
      <4>2. x \in Nat /\ y \in Nat
        BY <2>1
      <4> HIDE DEF x, y
      <4> QED BY <4>1, <4>2, PhasesApart
    <3> QED BY <3>2, <3>3
  <2> QED BY <2>2, <2>3
<1> QED BY <1>1, QueuesAlways, PTL

-----------------------------------------------------------------------------
(* The posting pool and the duty it pays for.                              *)

\* A refund that leaves its count alone pays nothing.
LEMMA RefundTakes ==
  ASSUME DisputeTypeOK, NEW sender, NEW id \in Id, NEW root, NEW b, NEW fee,
         \/ Refund(sender, id, root, b, fee)
         \/ postingPool' = postingPool,
         NEW i \in Id, refunds'[i] = refunds[i]
  PROVE  postingPool'[i] = postingPool[i]
<1>1. /\ postingPool \in [Id -> Nat] /\ refunds \in [Id -> Nat]
  BY DEF DisputeTypeOK
<1>2. CASE postingPool' # postingPool
  <2> DEFINE left == postingPool[id] - Payable(id, fee)
  <2>1. /\ postingPool' = [postingPool EXCEPT ![id] = left]
        /\ refunds' = [refunds EXCEPT ![id] = refunds[id] + 1]
    BY <1>2 DEF Refund
  <2> HIDE DEF left
  <2>2. i # id
    BY <1>1, <2>1
  <2> QED BY <1>1, <2>1, <2>2
<1> QED BY <1>2

\* Only its return to the principal takes from a pool what is no refund.
LEMMA PoolTaken ==
  ASSUME DisputeTypeOK, [ComposedNext]_vars, NEW i \in Id,
         postingPool'[i] < postingPool[i], refunds'[i] = refunds[i]
  PROVE  ReturnPosting(i)
<1>0. postingPool \in [Id -> Nat] /\ postingPool[i] \in Nat
  BY DEF DisputeTypeOK
<1>1. ASSUME postingPool' = postingPool PROVE FALSE
  BY <1>0, <1>1
<1>2. ASSUME NEW id \in Id, NEW n \in Nat,
             postingPool' = [postingPool EXCEPT ![id] = postingPool[id] + n]
      PROVE  FALSE
  BY <1>0, <1>2
<1>3. ASSUME NEW sender, NEW id \in Id, NEW root, NEW b, NEW fee,
             \/ Refund(sender, id, root, b, fee)
             \/ postingPool' = postingPool
      PROVE  FALSE
  BY <1>0, <1>3, RefundTakes
<1>4. ASSUME Elsewhere PROVE FALSE
  BY <1>1, <1>4 DEF Elsewhere, disputeVars, moneyVars
<1>5. ASSUME NEW sender \in Challenger, NEW id \in Id, NEW dg \in Digest,
             NEW bond \in BondPrice, NEW deposit \in DepositPrice, NEW excess \in Excess,
             Open(sender, id, dg, bond, deposit, excess)
      PROVE  FALSE
  <2> DEFINE extra == excess + (IF Asks(sender, id) THEN TopUp(id, deposit) ELSE 0)
  <2>1. \/ postingPool' = postingPool
        \/ postingPool' = [postingPool EXCEPT ![id] = postingPool[id] + extra]
    BY <1>5 DEF Open
  <2>2. TopUp(id, deposit) \in Nat /\ excess \in Nat
    BY DisputeAssumption, TopUpType
  <2>3. extra \in Nat
    BY <2>2
  <2> HIDE DEF extra
  <2> QED BY <1>1, <1>2, <2>1, <2>3
<1>6. ASSUME NEW sender \in Challenger, NEW id \in Id, NEW dg \in Digest,
             NEW deposit \in DepositPrice, NEW excess \in Excess,
             Join(sender, id, dg, deposit, excess)
      PROVE  FALSE
  <2> DEFINE n == TopUp(id, deposit) + excess
  <2>1. TopUp(id, deposit) \in Nat /\ excess \in Nat
    BY DisputeAssumption, TopUpType
  <2>2. n \in Nat
    BY <2>1
  <2>3. postingPool' = [postingPool EXCEPT ![id] = postingPool[id] + TopUp(id, deposit) + excess]
    BY <1>6 DEF Join
  <2>4. postingPool[id] + TopUp(id, deposit) + excess = postingPool[id] + n
    BY <1>0, <2>1
  <2> HIDE DEF n
  <2> QED BY <1>2, <2>2, <2>3, <2>4
<1>7. ASSUME NEW sender, NEW id \in Id, NEW dg \in Digest, Cancel(sender, id, dg) PROVE FALSE
  BY <1>1, <1>7 DEF Cancel
<1>8. ASSUME NEW keys \in SUBSET Due, NEW items \in [keys -> Provable], Answer(items)
      PROVE  FALSE
  BY <1>1, <1>8 DEF Answer
<1>9. ASSUME NEW id \in Id, NEW dg \in Digest, Expire(id, dg) PROVE FALSE
  BY <1>1, <1>9 DEF Expire
<1>10. ASSUME NEW id \in Id, NEW value \in Donation, FundPosting(id, value) PROVE FALSE
  <2>1. value \in Nat /\ postingPool' = [postingPool EXCEPT ![id] = postingPool[id] + value]
    BY <1>10, DisputeAssumption DEF FundPosting
  <2> QED BY <1>2, <2>1
<1>11. ASSUME NEW id \in Id, ReturnPosting(id) PROVE ReturnPosting(i)
  <2>1. postingPool' = [postingPool EXCEPT ![id] = 0]
    BY <1>11 DEF ReturnPosting
  <2>2. id = i
    BY <1>0, <2>1
  <2> QED BY <1>11, <2>2
<1>12. ASSUME NEW id \in Id, NEW root \in BatchRoot, NEW sealed \in SealedRoot,
              NEW hash \in ProofHash, SignReceipt(id, root, sealed, hash)
       PROVE  FALSE
  BY <1>1, <1>12 DEF SignReceipt, moneyVars
<1>13. ASSUME NEW sender \in Poster, NEW id \in Id, NEW hash \in ProofHash,
              NEW chunk, NEW fee \in Fee, PostProof(sender, id, hash, chunk, fee)
       PROVE  FALSE
  BY <1>3, <1>13 DEF PostProof
<1>14. ASSUME NEW sender \in Poster, NEW id \in Id, NEW dg \in Digest, NEW r \in receipts,
              NEW fee \in Fee, BindPosting(sender, id, dg, r, fee)
       PROVE  FALSE
  BY <1>3, <1>14 DEF BindPosting
<1>15. ASSUME NEW sender \in Poster, NEW id \in Id, NEW dg \in Digest, NEW r \in receipts,
              NEW fee \in Fee, Deliver(sender, id, dg, r, fee)
       PROVE  FALSE
  BY <1>3, <1>15 DEF Deliver
<1>16. ASSUME NEW id \in Id, NEW dg \in Digest, NEW r \in receipts, NEW caller \in Address,
              Slash(id, dg, r, caller)
       PROVE  FALSE
  BY <1>1, <1>16 DEF Slash, moneyVars
<1>17. ASSUME NEW a \in Address, WithdrawCredit(a) PROVE FALSE
  BY <1>1, <1>17 DEF WithdrawCredit
<1>18. PostingStep => ReturnPosting(i)
  BY <1>10, <1>11, <1>12, <1>13, <1>14, <1>16, <1>17 DEF PostingStep
<1> QED BY <1>4, <1>5, <1>6, <1>7, <1>8, <1>9, <1>15, <1>18, StepKinds, DisputeKinds

\* returnPosting takes back what the principal funded only when every challenge
\* has ended and no delivery asked for is due any more (returnPosting, _settle,
\* join).
THEOREM PoolOutlives == ComposedSpec => PoolOutlivesDuty
<1>1. CountedInv /\ DutyInv /\ [ComposedNext]_vars
        => [\A id \in Id :
              postingPool'[id] < postingPool[id] /\ refunds'[id] = refunds[id] =>
                /\ OpenOf(id) = {}
                /\ \A root \in BatchRoot : \A dg \in Requests(id, root) :
                     challenges[<<id, dg>>].deadline < now]_vars
  <2> SUFFICES ASSUME CountedInv, DutyInv, [ComposedNext]_vars, NEW i \in Id,
                      postingPool'[i] < postingPool[i], refunds'[i] = refunds[i]
               PROVE  /\ OpenOf(i) = {}
                      /\ \A root \in BatchRoot : \A dg \in Requests(i, root) :
                           challenges[<<i, dg>>].deadline < now
    OBVIOUS
  <2>1. now > dutyUntil[i] /\ openCount[i] = 0
    <3>1. DisputeTypeOK
      BY DEF CountedInv, ChallengeInv
    <3> QED BY <3>1, PoolTaken DEF ReturnPosting
  <2>2. OpenOf(i) = {}
    <3>1. Cardinality(OpenOf(i)) = 0
      BY <2>1 DEF CountedInv, CountInv, OpenCountExact
    <3>2. IsFiniteSet(OpenOf(i))
      <4>1. OpenOf(i) \subseteq Digest
        BY DEF OpenOf
      <4> QED BY <4>1, DigestFinite, FS_Subset
    <3> QED BY <3>1, <3>2, FS_EmptySet
  <2>3. ASSUME NEW root \in BatchRoot, NEW dg \in Requests(i, root)
        PROVE  challenges[<<i, dg>>].deadline < now
    <3>1. <<i, dg>> \in Key
      BY DEF Key, Requests
    <3>2. challenges[<<i, dg>>].deadline <= dutyUntil[i]
      BY <3>1 DEF DutyInv, Dutied, IsDue, Requests
    <3>3. DisputeTypeOK /\ now \in Nat
      BY DEF CountedInv, ChallengeInv, ReserveInv, TypeInv, ReserveTypeOK
    <3>4. challenges[<<i, dg>>].deadline \in Nat /\ dutyUntil[i] \in Nat
      BY <3>1, <3>3, ChallengeFields DEF DisputeTypeOK
    <3> QED BY <2>1, <3>2, <3>3, <3>4
  <2> QED BY <2>2, <2>3
<1>2. CountedInv /\ DutyInv /\ [ComposedNext]_vars => CountedInv' /\ DutyInv'
  BY CountedKept, DutiesKept
<1>3. ComposedInit => CountedInv /\ DutyInv
  BY CountedKept, InitDuties
<1> QED BY <1>1, <1>2, <1>3, PTL DEF ComposedSpec, PoolOutlivesDuty
=============================================================================
