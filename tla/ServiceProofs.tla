--------------------------- MODULE ServiceProofs ---------------------------
(***************************************************************************)
(* What holds of the off-chain programs whatever the payments, the calls,  *)
(* the batches and the windows are: the facilitator's calls are told the   *)
(* truth, the answerer's receipts are disjoint, and the monitor freezes no *)
(* sooner than it may, while the other programs and the chains run on.     *)
(***************************************************************************)
EXTENDS Service, TLAPS

USE DEF chainVars, facilitatorVars, answererVars, books, poll, faultVars, monitorVars
----------------------------------------------------------------------------
(* What the chain says of a payment, and what one call makes of it.        *)

Status == {"none", "open", "answered", "delivered", "cancelled", "expired"}
ChallengeRecord == [status : Status, ours : BOOLEAN, joined : BOOLEAN, deadline : Nat]
Event == [kind : {"settled", "expired", "answered", "posted"}, payment : PAYMENTS, at : Nat]

ChainTypeOK ==
  /\ now \in Nat
  /\ recorded \in [PAYMENTS -> CALLS \cup {"no", "direct"}]
  /\ challenge \in [PAYMENTS -> ChallengeRecord]
  /\ news \in [Domain -> SUBSET Event]

\* One payment's challenge changes, and time stands still.
Touches(p) ==
  /\ now' = now /\ recorded' = recorded
  /\ challenge' \in [PAYMENTS -> ChallengeRecord]
  /\ \A q \in PAYMENTS \ {p} : challenge'[q] = challenge[q]

\* The news of one domain grow by one event.
Tells(kind, p) ==
  /\ news' \in [Domain -> SUBSET Event]
  /\ \A d \in Domain : \A e \in news'[d] :
       e \in news[d] \/ (e.kind = kind /\ e.payment = p /\ (kind = "answered" => e.at = now))

LEMMA BecomesTouches ==
  ASSUME ChainTypeOK, NEW p \in PAYMENTS, NEW c \in ChallengeRecord, Becomes(p, c)
  PROVE  Touches(p) /\ challenge'[p] = c
BY DEF ChainTypeOK, Becomes, Touches

LEMMA EmitTells ==
  ASSUME ChainTypeOK, NEW p \in PAYMENTS,
         NEW kind \in {"settled", "expired", "answered", "posted"}, Emit(kind, p)
  PROVE  Tells(kind, p)
<1> DEFINE e == [kind |-> kind, payment |-> p, at |-> IF kind = "answered" THEN now ELSE 0]
           d == DomainOf[p]
<1>1. e \in Event /\ d \in Domain
  BY DomainsAssumption DEF ChainTypeOK, Event
<1>2. news' = [news EXCEPT ![d] = @ \cup {e}]
  BY DEF Emit
<1>3. news' \in [Domain -> SUBSET Event]
  <2> HIDE DEF e, d
  <2> QED BY <1>1, <1>2 DEF ChainTypeOK
<1>4. \A b \in Domain : news'[b] \subseteq news[b] \cup {e}
  <2> HIDE DEF e, d
  <2> QED BY <1>1, <1>2 DEF ChainTypeOK
<1>5. e.kind = kind /\ e.payment = p /\ (kind = "answered" => e.at = now)
  OBVIOUS
<1> HIDE DEF e, d
<1> QED BY <1>3, <1>4, <1>5 DEF Tells

LEMMA OpenTouches ==
  ASSUME ChainTypeOK, NEW p \in PAYMENTS, NEW ours \in BOOLEAN, Open(p, ours)
  PROVE  /\ Touches(p) /\ news' = news
         /\ challenge[p].status = "none" /\ recorded[p] # "no"
         /\ challenge'[p].status = "open" /\ challenge'[p].ours = ours
<1> DEFINE c == [status |-> "open", ours |-> ours, joined |-> FALSE, deadline |-> now + ANSWER]
<1>1. c \in ChallengeRecord
  BY DomainsAssumption DEF ChainTypeOK, ChallengeRecord, Status
<1>2. Touches(p) /\ challenge'[p] = c
  BY <1>1, BecomesTouches DEF Open
<1> QED BY <1>2 DEF Open, Openable, Recent

LEMMA JoinTouches ==
  ASSUME ChainTypeOK, NEW p \in PAYMENTS, Join(p)
  PROVE  /\ Touches(p) /\ news' = news
         /\ challenge[p].status \in {"open", "answered"} /\ ~challenge[p].ours
         /\ challenge'[p].status = challenge[p].status /\ challenge'[p].ours
         /\ challenge[p].status = "answered" => challenge'[p].deadline = now + WAIT
<1> DEFINE c == [challenge[p] EXCEPT !.ours = TRUE, !.joined = TRUE,
                                     !.deadline = IF challenge[p].status = "answered"
                                                  THEN now + WAIT ELSE @]
<1>1. challenge[p] \in ChallengeRecord
  BY DEF ChainTypeOK
<1>2. c \in ChallengeRecord
  <2>1. now + WAIT \in Nat
    BY DomainsAssumption DEF ChainTypeOK
  <2> QED BY <1>1, <2>1 DEF ChallengeRecord
<1>3. Touches(p) /\ challenge'[p] = c
  BY <1>2, BecomesTouches DEF Join
<1>4. /\ c.status = challenge[p].status /\ c.ours
      /\ challenge[p].status = "answered" => c.deadline = now + WAIT
  BY <1>1 DEF ChallengeRecord
<1> QED BY <1>3, <1>4 DEF Join, Joinable

LEMMA CancelTouches ==
  ASSUME ChainTypeOK, NEW p \in PAYMENTS, Cancel(p)
  PROVE  /\ Touches(p) /\ news' = news
         /\ challenge[p].status \in {"open", "answered", "delivered"}
         /\ challenge'[p].status \in {challenge[p].status, "cancelled"}
         /\ ~challenge'[p].ours
<1> DEFINE c == [challenge[p] EXCEPT !.ours = FALSE, !.joined = FALSE,
                                     !.status = IF challenge[p].joined THEN @ ELSE "cancelled"]
<1>1. challenge[p] \in ChallengeRecord
  BY DEF ChainTypeOK
<1>2. c \in ChallengeRecord
  BY <1>1 DEF ChallengeRecord, Status
<1>3. Touches(p) /\ challenge'[p] = c
  BY <1>2, BecomesTouches DEF Cancel
<1>4. c.status \in {challenge[p].status, "cancelled"} /\ ~c.ours
  BY <1>1 DEF ChallengeRecord
<1> QED BY <1>3, <1>4 DEF Cancel, Cancellable

LEMMA ExpireTouches ==
  ASSUME ChainTypeOK, NEW p \in PAYMENTS, Expire(p)
  PROVE  /\ Touches(p) /\ Tells("expired", p)
         /\ challenge[p].status = "open" /\ challenge'[p].status = "expired"
         /\ challenge'[p].ours = challenge[p].ours
<1> DEFINE c == [challenge[p] EXCEPT !.status = "expired"]
<1>1. challenge[p] \in ChallengeRecord
  BY DEF ChainTypeOK
<1>2. c \in ChallengeRecord
  BY <1>1 DEF ChallengeRecord, Status
<1>3. Touches(p) /\ challenge'[p] = c
  BY <1>2, BecomesTouches DEF Expire
<1>4. c.status = "expired" /\ c.ours = challenge[p].ours
  BY <1>1 DEF ChallengeRecord
<1>5. Tells("expired", p)
  BY EmitTells DEF Expire
<1> QED BY <1>3, <1>4, <1>5 DEF Expire, Expirable

LEMMA AnswerTouches ==
  ASSUME ChainTypeOK, NEW p \in PAYMENTS, Answer(p)
  PROVE  /\ Touches(p) /\ Tells("answered", p)
         /\ challenge[p].status = "open" /\ challenge'[p].status = "answered"
         /\ challenge'[p].ours = challenge[p].ours
         /\ challenge[p].ours => challenge'[p].deadline = now + WAIT
<1> DEFINE c == [challenge[p] EXCEPT !.status = "answered",
                                     !.deadline = IF challenge[p].ours THEN now + WAIT ELSE @]
<1>1. challenge[p] \in ChallengeRecord
  BY DEF ChainTypeOK
<1>2. c \in ChallengeRecord
  <2>1. now + WAIT \in Nat
    BY DomainsAssumption DEF ChainTypeOK
  <2> QED BY <1>1, <2>1 DEF ChallengeRecord, Status
<1>3. Touches(p) /\ challenge'[p] = c
  BY <1>2, BecomesTouches DEF Answer
<1>4. /\ c.status = "answered" /\ c.ours = challenge[p].ours
      /\ challenge[p].ours => c.deadline = now + WAIT
  BY <1>1 DEF ChallengeRecord
<1>5. Tells("answered", p)
  BY EmitTells DEF Answer
<1> QED BY <1>3, <1>4, <1>5 DEF Answer

LEMMA PostTouches ==
  ASSUME ChainTypeOK, NEW p \in PAYMENTS, Post(p)
  PROVE  /\ Touches(p) /\ Tells("posted", p)
         /\ challenge[p].status = "answered" /\ challenge'[p].status = "delivered"
         /\ challenge[p].ours /\ challenge'[p].ours
         /\ challenge'[p].deadline = challenge[p].deadline
<1> DEFINE c == [challenge[p] EXCEPT !.status = "delivered"]
<1>1. challenge[p] \in ChallengeRecord
  BY DEF ChainTypeOK
<1>2. c \in ChallengeRecord
  BY <1>1 DEF ChallengeRecord, Status
<1>3. Touches(p) /\ challenge'[p] = c
  BY <1>2, BecomesTouches DEF Post
<1>4. c.status = "delivered" /\ c.ours = challenge[p].ours /\ c.deadline = challenge[p].deadline
  BY <1>1 DEF ChallengeRecord
<1>5. Tells("posted", p)
  BY EmitTells DEF Post
<1> QED BY <1>3, <1>4, <1>5 DEF Post

LEMMA RecordTells ==
  ASSUME ChainTypeOK, NEW p \in PAYMENTS, NEW by \in CALLS \cup {"direct"}, Record(p, by)
  PROVE  /\ ChainTypeOK' /\ Tells("settled", p) /\ now' = now /\ challenge' = challenge
         /\ recorded[p] = "no" /\ recorded'[p] = by
         /\ \A q \in PAYMENTS \ {p} : recorded'[q] = recorded[q]
<1>1. Tells("settled", p)
  BY EmitTells DEF Record
<1> QED BY <1>1 DEF Record, Admits, ChainTypeOK, Tells
----------------------------------------------------------------------------
(* The facilitator.                                                        *)

Waiting(c) == calls[c].phase \in {"checked", "signed"}

Call == [phase : {"idle", "reserve_refused", "checked", "signed", "sent", "success",
                  "settlement_not_recorded", "thrown"},
         payment : PAYMENTS \cup {"none"}, nonce : Nat]

CallsTypeOK ==
  /\ calls \in [CALLS -> Call]
  /\ nonce \in Nat /\ sending \in Seq(CALLS)
  /\ \A c \in CALLS : calls[c].phase # "idle" => calls[c].payment \in PAYMENTS

\* The queue holds the calls that wait to send or are about to, each once,
\* and only the call at its head has a nonce in hand.
QueueInv ==
  /\ \A i, j \in 1..Len(sending) : sending[i] = sending[j] => i = j
  /\ \A c \in CALLS : Waiting(c) <=> \E i \in 1..Len(sending) : sending[i] = c
  /\ \A c \in CALLS : calls[c].phase = "signed" => sending[1] = c /\ calls[c].nonce = nonce

\* A payment recorded by a call was that call's, and the call knows it or was
\* never answered; so does a call whose transaction is still to be included.
RecordedInv ==
  /\ \A c \in CALLS : calls[c].phase = "success" => recorded[calls[c].payment] = c
  /\ \A c \in CALLS, p \in PAYMENTS :
       recorded[p] = c => calls[c].payment = p /\ Accounted(c) /\ c \notin pool
  /\ \A c \in CALLS : c \in pool => Accounted(c)

FacilitatorInv == CallsTypeOK /\ QueueInv /\ RecordedInv

\* One call changes, in its phase and its nonce.
Advances(c, ph, n) ==
  calls' = [calls EXCEPT ![c] = [phase |-> ph, payment |-> calls[c].payment, nonce |-> n]]

LEMMA PhaseAdvances ==
  ASSUME CallsTypeOK, NEW c \in CALLS, NEW ph, To(c, ph)
  PROVE  Advances(c, ph, calls[c].nonce)
<1>1. calls[c] \in Call
  BY DEF CallsTypeOK
<1>2. [calls[c] EXCEPT !.phase = ph]
        = [phase |-> ph, payment |-> calls[c].payment, nonce |-> calls[c].nonce]
  BY <1>1 DEF Call
<1> QED BY <1>2 DEF To, Advances

LEMMA PaymentAndPhase ==
  ASSUME NEW r \in Call, NEW p, NEW ph
  PROVE  [r EXCEPT !.payment = p, !.phase = ph]
           = [phase |-> ph, payment |-> p, nonce |-> r.nonce]
<1>1. [r EXCEPT !.payment = p] = [phase |-> r.phase, payment |-> p, nonce |-> r.nonce]
  BY DEF Call
<1>2. [[phase |-> r.phase, payment |-> p, nonce |-> r.nonce] EXCEPT !.phase = ph]
        = [phase |-> ph, payment |-> p, nonce |-> r.nonce]
  OBVIOUS
<1>3. [r EXCEPT !.payment = p, !.phase = ph] = [[r EXCEPT !.payment = p] EXCEPT !.phase = ph]
  BY DEF Call
<1> QED BY <1>1, <1>2, <1>3

LEMMA PhaseAndNonce ==
  ASSUME NEW r \in Call, NEW ph, NEW n
  PROVE  [r EXCEPT !.phase = ph, !.nonce = n]
           = [phase |-> ph, payment |-> r.payment, nonce |-> n]
<1>1. [r EXCEPT !.phase = ph] = [phase |-> ph, payment |-> r.payment, nonce |-> r.nonce]
  BY DEF Call
<1>2. [[phase |-> ph, payment |-> r.payment, nonce |-> r.nonce] EXCEPT !.nonce = n]
        = [phase |-> ph, payment |-> r.payment, nonce |-> n]
  OBVIOUS
<1>3. [r EXCEPT !.phase = ph, !.nonce = n] = [[r EXCEPT !.phase = ph] EXCEPT !.nonce = n]
  BY DEF Call
<1> QED BY <1>1, <1>2, <1>3

LEMMA FirstOut ==
  ASSUME NEW s \in Seq(CALLS), s # <<>>
  PROVE  /\ Len(s) \in Nat \ {0} /\ Head(s) = s[1]
         /\ Tail(s) \in Seq(CALLS) /\ Len(Tail(s)) = Len(s) - 1
         /\ \A i \in 1..(Len(s) - 1) : Tail(s)[i] = s[i + 1]
OBVIOUS

LEMMA LastIn ==
  ASSUME NEW s \in Seq(CALLS), NEW c \in CALLS
  PROVE  /\ Len(s) \in Nat
         /\ Append(s, c) \in Seq(CALLS) /\ Len(Append(s, c)) = Len(s) + 1
         /\ Append(s, c)[Len(s) + 1] = c
         /\ \A i \in 1..Len(s) : Append(s, c)[i] = s[i]
OBVIOUS

LEMMA Advanced ==
  ASSUME CallsTypeOK, NEW c \in CALLS, NEW ph, NEW n \in Nat, Advances(c, ph, n)
  PROVE  /\ calls'[c].phase = ph /\ calls'[c].nonce = n
         /\ calls'[c].payment = calls[c].payment
         /\ \A e \in CALLS \ {c} : calls'[e] = calls[e]
BY DEF CallsTypeOK, Advances

LEMMA AdvancedTypeOK ==
  ASSUME CallsTypeOK, NEW c \in CALLS, NEW n \in Nat,
         NEW ph \in {"reserve_refused", "checked", "signed", "sent",
                     "success", "settlement_not_recorded", "thrown"},
         Advances(c, ph, n),
         calls[c].phase # "idle", nonce' \in Nat, sending' \in Seq(CALLS)
  PROVE  CallsTypeOK'
BY DEF CallsTypeOK, Call, Advances

\* The call at the head leaves the queue, and no call has a nonce in hand.
LEMMA HeadLeaves ==
  ASSUME CallsTypeOK, QueueInv, NEW c \in CALLS, Waiting(c), sending[1] = c,
         ~Waiting(c)', \A e \in CALLS \ {c} : calls'[e] = calls[e], NextTurn
  PROVE  QueueInv' /\ sending' \in Seq(CALLS)
<1>1. sending \in Seq(CALLS) /\ sending # <<>>
  BY DEF CallsTypeOK, QueueInv
<1>2. /\ Len(sending) \in Nat \ {0}
      /\ sending' \in Seq(CALLS) /\ Len(sending') = Len(sending) - 1
      /\ \A i \in 1..(Len(sending) - 1) : sending'[i] = sending[i + 1]
  BY <1>1, FirstOut DEF NextTurn
<1>3. \A i, j \in 1..Len(sending') : sending'[i] = sending'[j] => i = j
  BY <1>2 DEF QueueInv
<1>4. \A e \in CALLS : Waiting(e)' <=> \E i \in 1..Len(sending') : sending'[i] = e
  <2>1. \A i \in 1..Len(sending') : sending'[i] # c
    BY <1>2 DEF QueueInv
  <2>2. ASSUME NEW e \in CALLS \ {c}
        PROVE  Waiting(e) <=> \E i \in 1..Len(sending') : sending'[i] = e
    <3>1. CASE Waiting(e)
      <4>1. PICK i \in 1..Len(sending) : sending[i] = e
        BY <3>1 DEF QueueInv
      <4>2. i # 1 /\ i - 1 \in 1..Len(sending') /\ i - 1 + 1 = i
        BY <1>2, <4>1
      <4> QED BY <1>2, <3>1, <4>1, <4>2
    <3>2. ASSUME NEW i \in 1..Len(sending'), sending'[i] = e
          PROVE  Waiting(e)
      BY <1>2, <3>2 DEF QueueInv
    <3> QED BY <3>1, <3>2
  <2> QED BY <2>1, <2>2 DEF Waiting
<1>5. \A e \in CALLS : calls'[e].phase # "signed"
  BY DEF QueueInv, Waiting
<1> QED BY <1>2, <1>3, <1>4, <1>5 DEF QueueInv

\* A call with nothing sent changes, and nothing is sent.
LEMMA NothingSent ==
  ASSUME RecordedInv, NEW c \in CALLS, ~Accounted(c), calls'[c].phase # "success",
         \A e \in CALLS \ {c} : calls'[e] = calls[e],
         UNCHANGED <<pool, unheard, recorded>>
  PROVE  RecordedInv'
BY DEF RecordedInv, Accounted

LEMMA CheckKeeps ==
  ASSUME ChainTypeOK, FacilitatorInv, NEW c \in CALLS, NEW p \in PAYMENTS, Check(c, p)
  PROVE  FacilitatorInv'
<1> USE DEF FacilitatorInv
<1>0. PICK ph \in {"checked", "reserve_refused"} :
        /\ calls' = [calls EXCEPT ![c] = [calls[c] EXCEPT !.payment = p, !.phase = ph]]
        /\ sending' = IF ph = "checked" THEN Append(sending, c) ELSE sending
  BY DEF Check
<1>1. /\ calls[c].phase = "idle" /\ calls[c].nonce \in Nat
      /\ calls' = [calls EXCEPT ![c] = [phase |-> ph, payment |-> p, nonce |-> calls[c].nonce]]
      /\ nonce' = nonce /\ UNCHANGED <<pool, unheard, recorded>>
  <2>1. calls[c].phase = "idle" /\ calls[c] \in Call
    BY DEF Check, CallsTypeOK
  <2>2. [calls[c] EXCEPT !.payment = p, !.phase = ph]
          = [phase |-> ph, payment |-> p, nonce |-> calls[c].nonce]
    BY <2>1, PaymentAndPhase
  <2> QED BY <1>0, <2>1, <2>2 DEF Call, Check
<1>2. /\ calls'[c].phase = ph /\ calls'[c].payment = p
      /\ \A e \in CALLS \ {c} : calls'[e] = calls[e]
  BY <1>1 DEF CallsTypeOK
<1>3. CallsTypeOK'
  <2>1. sending' \in Seq(CALLS)
    BY <1>0, LastIn DEF CallsTypeOK
  <2> QED BY <1>1, <2>1 DEF CallsTypeOK, Call
<1>4. \A i \in 1..Len(sending) : sending[i] # c
  BY <1>1 DEF QueueInv, Waiting
<1>5. QueueInv'
  <2>1. CASE ph = "checked"
    <3>1. /\ Len(sending) \in Nat /\ Len(sending') = Len(sending) + 1
          /\ sending'[Len(sending) + 1] = c
          /\ \A i \in 1..Len(sending) : sending'[i] = sending[i]
      BY <1>0, <2>1, LastIn DEF CallsTypeOK
    <3>2. \A i, j \in 1..Len(sending') : sending'[i] = sending'[j] => i = j
      BY <1>4, <3>1 DEF QueueInv
    <3>3. \A e \in CALLS : Waiting(e)' <=> \E i \in 1..Len(sending') : sending'[i] = e
      <4>1. Waiting(c)' /\ \E i \in 1..Len(sending') : sending'[i] = c
        BY <1>2, <2>1, <3>1 DEF Waiting
      <4>2. ASSUME NEW e \in CALLS \ {c}
            PROVE  Waiting(e)' <=> \E i \in 1..Len(sending') : sending'[i] = e
        <5>1. Waiting(e)' <=> \E i \in 1..Len(sending) : sending[i] = e
          BY <1>2 DEF Waiting, QueueInv
        <5>2. ASSUME NEW i \in 1..Len(sending'), sending'[i] = e
              PROVE  \E j \in 1..Len(sending) : sending[j] = e
          BY <3>1, <5>2
        <5>3. ASSUME NEW i \in 1..Len(sending), sending[i] = e
              PROVE  \E j \in 1..Len(sending') : sending'[j] = e
          BY <3>1, <5>3
        <5> QED BY <5>1, <5>2, <5>3
      <4> QED BY <4>1, <4>2
    <3>4. ASSUME NEW e \in CALLS, calls'[e].phase = "signed"
          PROVE  sending'[1] = e /\ calls'[e].nonce = nonce'
      <4>1. e # c /\ calls'[e] = calls[e]
        BY <1>2, <2>1, <3>4
      <4>2. /\ sending[1] = e /\ calls[e].nonce = nonce
            /\ \E i \in 1..Len(sending) : sending[i] = e
        BY <3>4, <4>1 DEF QueueInv, Waiting
      <4> QED BY <1>1, <3>1, <4>1, <4>2
    <3> QED BY <3>2, <3>3, <3>4 DEF QueueInv
  <2>2. CASE ph = "reserve_refused"
    <3>1. sending' = sending /\ nonce' = nonce
      BY <1>0, <1>1, <2>2
    <3>2. ~Waiting(c) /\ ~Waiting(c)' /\ calls'[c].phase # "signed"
      BY <1>1, <1>2, <2>2 DEF Waiting
    <3> QED BY <1>2, <3>1, <3>2 DEF QueueInv, Waiting
  <2> QED BY <2>1, <2>2
<1>6. RecordedInv'
  BY <1>1, <1>2, NothingSent DEF Accounted
<1> QED BY <1>3, <1>5, <1>6

\* A call at its turn is told a refusal, with nothing sent.
LEMMA RefusalKeeps ==
  ASSUME FacilitatorInv, NEW c \in CALLS, Waiting(c), sending[1] = c,
         To(c, "reserve_refused"), NextTurn, UNCHANGED <<nonce, pool, unheard, recorded>>
  PROVE  FacilitatorInv'
<1> USE DEF FacilitatorInv
<1>1. Advances(c, "reserve_refused", calls[c].nonce) /\ calls[c].nonce \in Nat /\ nonce \in Nat
  BY PhaseAdvances DEF CallsTypeOK, Call
<1>2. /\ calls'[c].phase = "reserve_refused" /\ calls'[c].payment = calls[c].payment
      /\ \A e \in CALLS \ {c} : calls'[e] = calls[e]
  BY <1>1, Advanced
<1>3. QueueInv' /\ sending' \in Seq(CALLS)
  BY <1>2, HeadLeaves DEF Waiting
<1>4. CallsTypeOK'
  BY <1>1, <1>3, AdvancedTypeOK DEF Waiting
<1>5. RecordedInv'
  BY <1>2, NothingSent DEF Accounted, Waiting
<1> QED BY <1>3, <1>4, <1>5

LEMMA PrepareKeeps ==
  ASSUME ChainTypeOK, FacilitatorInv, NEW c \in CALLS, Prepare(c)
  PROVE  FacilitatorInv'
<1> USE DEF FacilitatorInv
<1>1. /\ calls[c].phase = "checked" /\ sending # <<>> /\ Head(sending) = c
      /\ UNCHANGED <<nonce, pool, unheard, recorded>> /\ nonce \in Nat
  BY DEF Prepare, Turn, CallsTypeOK
<1>2. sending[1] = c /\ Waiting(c)
  BY <1>1, FirstOut DEF CallsTypeOK, Waiting
<1>3. CASE calls' = [calls EXCEPT ![c].phase = "signed", ![c].nonce = nonce] /\ UNCHANGED sending
  <2>1. Advances(c, "signed", nonce)
    <3>1. calls[c] \in Call
      BY DEF CallsTypeOK
    <3>2. calls' = [calls EXCEPT ![c] = [calls[c] EXCEPT !.phase = "signed", !.nonce = nonce]]
      BY <1>3 DEF CallsTypeOK
    <3>3. [calls[c] EXCEPT !.phase = "signed", !.nonce = nonce]
            = [phase |-> "signed", payment |-> calls[c].payment, nonce |-> nonce]
      BY <3>1, PhaseAndNonce
    <3> QED BY <3>2, <3>3 DEF Advances
  <2>2. /\ calls'[c].phase = "signed" /\ calls'[c].nonce = nonce
        /\ calls'[c].payment = calls[c].payment
        /\ \A e \in CALLS \ {c} : calls'[e] = calls[e]
    BY <1>1, <2>1, Advanced
  <2>3. CallsTypeOK'
    BY <1>1, <1>3, <2>1, AdvancedTypeOK DEF CallsTypeOK
  <2>4. Waiting(c)'
    BY <2>2 DEF Waiting
  <2>5. QueueInv'
    <3>1. \A e \in CALLS : Waiting(e)' <=> Waiting(e)
      BY <1>2, <2>2, <2>4 DEF Waiting
    <3>2. \A e \in CALLS \ {c} : calls'[e].phase # "signed"
      BY <1>1, <1>2, <2>2 DEF QueueInv
    <3> QED BY <1>1, <1>2, <1>3, <2>2, <3>1, <3>2 DEF QueueInv
  <2>6. RecordedInv'
    BY <1>1, <2>2, NothingSent DEF Accounted
  <2> QED BY <2>3, <2>5, <2>6
<1>4. CASE To(c, "reserve_refused") /\ NextTurn
  BY <1>1, <1>2, <1>4, RefusalKeeps
<1> QED BY <1>3, <1>4 DEF Prepare

\* The node takes a call's transaction, and the call is told so or not.
LEMMA TakenKeeps ==
  ASSUME FacilitatorInv, NEW c \in CALLS, calls[c].phase = "signed", Taken(c), NextTurn,
         NEW ph \in {"sent", "reserve_refused"}, To(c, ph), recorded' = recorded,
         unheard \subseteq unheard', ph = "reserve_refused" => c \in unheard'
  PROVE  FacilitatorInv'
<1> USE DEF FacilitatorInv
<1>1. sending[1] = c /\ Waiting(c)
  BY DEF QueueInv, Waiting
<1>2. /\ Advances(c, ph, calls[c].nonce) /\ calls[c].nonce \in Nat
      /\ nonce' \in Nat /\ pool' = pool \cup {c}
  BY PhaseAdvances DEF Taken, CallsTypeOK, Call
<1>3. /\ calls'[c].phase = ph /\ calls'[c].payment = calls[c].payment
      /\ \A e \in CALLS \ {c} : calls'[e] = calls[e]
  BY <1>2, Advanced
<1>4. QueueInv' /\ sending' \in Seq(CALLS)
  BY <1>1, <1>3, HeadLeaves DEF Waiting
<1>5. CallsTypeOK'
  BY <1>2, <1>4, AdvancedTypeOK
<1>6. RecordedInv'
  <2>1. \A q \in PAYMENTS : recorded[q] # c
    BY DEF RecordedInv, Accounted
  <2>2. Accounted(c)' /\ calls'[c].phase # "success"
    BY <1>3 DEF Accounted
  <2> QED BY <1>2, <1>3, <2>1, <2>2 DEF RecordedInv, Accounted
<1> QED BY <1>4, <1>5, <1>6

LEMMA SendKeeps ==
  ASSUME ChainTypeOK, FacilitatorInv, NEW c \in CALLS, Send(c) \/ SendUnheard(c)
  PROVE  FacilitatorInv'
<1>1. calls[c].phase = "signed" /\ sending[1] = c /\ Waiting(c) /\ NextTurn /\ recorded' = recorded
  BY DEF Send, SendUnheard, FacilitatorInv, QueueInv, Waiting
<1>2. CASE Taken(c) /\ To(c, "sent") /\ unheard' = unheard
  BY <1>1, <1>2, TakenKeeps
<1>3. CASE To(c, "reserve_refused") /\ UNCHANGED <<nonce, pool, unheard>>
  BY <1>1, <1>3, RefusalKeeps
<1>4. CASE SendUnheard(c)
  BY <1>1, <1>4, TakenKeeps DEF SendUnheard, Unheard
<1> QED BY <1>2, <1>3, <1>4 DEF Send

\* A call that waits for its receipt hears of it, or gives up.
LEMMA ReceiptKeeps ==
  ASSUME ChainTypeOK, FacilitatorInv, NEW c \in CALLS, Receipt(c) \/ ReceiptUnheard(c)
  PROVE  FacilitatorInv'
<1> USE DEF FacilitatorInv
<1>1. PICK ph \in {"success", "settlement_not_recorded", "thrown"} :
        /\ To(c, ph)
        /\ ph = "success" => recorded[calls[c].payment] = c
        /\ ph = "settlement_not_recorded" => recorded[calls[c].payment] # c /\ c \notin pool
        /\ ph = "thrown" => c \in unheard'
  BY DEF Receipt, ReceiptUnheard, Unheard
<1>2. /\ calls[c].phase = "sent" /\ calls[c].payment \in PAYMENTS /\ calls[c].nonce \in Nat
      /\ UNCHANGED <<sending, nonce, pool, recorded>> /\ unheard \subseteq unheard'
  BY DEF Receipt, ReceiptUnheard, Unheard, CallsTypeOK, Call
<1>3. Advances(c, ph, calls[c].nonce)
  BY <1>1, PhaseAdvances
<1>4. /\ calls'[c].phase = ph /\ calls'[c].payment = calls[c].payment
      /\ \A e \in CALLS \ {c} : calls'[e] = calls[e]
  BY <1>2, <1>3, Advanced
<1>5. CallsTypeOK'
  BY <1>2, <1>3, AdvancedTypeOK DEF CallsTypeOK
<1>6. QueueInv'
  <2>1. ~Waiting(c) /\ ~Waiting(c)' /\ calls'[c].phase # "signed"
    BY <1>2, <1>4 DEF Waiting
  <2> QED BY <1>2, <1>4, <2>1 DEF QueueInv, Waiting
<1>7. RecordedInv'
  <2>1. ph # "settlement_not_recorded" => Accounted(c)'
    BY <1>1, <1>4 DEF Accounted
  <2>2. ph = "settlement_not_recorded" => c \notin pool /\ \A q \in PAYMENTS : recorded[q] # c
    BY <1>1 DEF RecordedInv
  <2> QED BY <1>1, <1>2, <1>4, <2>1, <2>2 DEF RecordedInv, Accounted
<1> QED BY <1>5, <1>6, <1>7

LEMMA IncludeKeeps ==
  ASSUME ChainTypeOK, FacilitatorInv, NEW c \in CALLS, Include(c)
  PROVE  FacilitatorInv'
<1> USE DEF FacilitatorInv
<1> DEFINE p == calls[c].payment
<1>1. /\ c \in pool /\ pool' = pool \ {c} /\ UNCHANGED <<calls, sending, nonce, unheard>>
      /\ Record(p, c) \/ recorded' = recorded
  BY DEF Include
<1>2. CallsTypeOK' /\ QueueInv'
  BY <1>1 DEF CallsTypeOK, QueueInv, Waiting
<1>3. Accounted(c) /\ p \in PAYMENTS /\ \A q \in PAYMENTS : recorded[q] # c
  <2>1. Accounted(c)
    BY <1>1 DEF RecordedInv
  <2> QED BY <1>1, <2>1 DEF RecordedInv, Accounted, CallsTypeOK
<1>4. CASE recorded' = recorded
  <2>1. RecordedInv'
    BY <1>1, <1>4 DEF RecordedInv, Accounted
  <2> QED BY <1>2, <2>1
<1>5. CASE Record(p, c)
  <2>1. /\ recorded[p] = "no" /\ recorded'[p] = c
        /\ \A q \in PAYMENTS \ {p} : recorded'[q] = recorded[q]
    BY <1>3, <1>5, RecordTells
  <2>2. \A e \in CALLS \ {c} : recorded[p] # e /\ recorded'[p] # e
    BY <2>1, FacilitatorAssumption
  <2>3. ASSUME NEW e \in CALLS, calls[e].phase = "success"
        PROVE  recorded'[calls[e].payment] = e
    <3>1. recorded[calls[e].payment] = e /\ calls[e].payment \in PAYMENTS
      BY <2>3 DEF RecordedInv, CallsTypeOK
    <3>2. e # c
      BY <1>3, <3>1
    <3> QED BY <2>1, <2>2, <3>1, <3>2
  <2>4. ASSUME NEW e \in CALLS, NEW q \in PAYMENTS, recorded'[q] = e
        PROVE  calls[e].payment = q /\ Accounted(e) /\ e \notin pool'
    BY <1>1, <1>3, <2>1, <2>2, <2>4 DEF RecordedInv
  <2>5. RecordedInv'
    BY <1>1, <2>3, <2>4 DEF RecordedInv, Accounted
  <2> QED BY <1>2, <2>5
<1> QED BY <1>1, <1>4, <1>5

\* What the others do leaves the calls alone, and records in no call's name.
LEMMA OthersLeaveCalls ==
  ASSUME ChainTypeOK, FacilitatorInv, UNCHANGED facilitatorVars,
         \/ recorded' = recorded
         \/ \E p \in PAYMENTS : Record(p, "direct")
  PROVE  FacilitatorInv'
<1> USE DEF FacilitatorInv
<1>1. CallsTypeOK' /\ QueueInv'
  BY DEF CallsTypeOK, QueueInv, Waiting
<1>2. CASE recorded' = recorded
  BY <1>1, <1>2 DEF RecordedInv, Accounted
<1>3. ASSUME NEW p \in PAYMENTS, Record(p, "direct")
      PROVE  FacilitatorInv'
  <2>1. /\ recorded[p] = "no" /\ recorded'[p] = "direct"
        /\ \A q \in PAYMENTS \ {p} : recorded'[q] = recorded[q]
    BY <1>3, RecordTells
  <2>2. \A e \in CALLS : recorded[p] # e /\ recorded'[p] # e
    BY <2>1, FacilitatorAssumption
  <2>3. ASSUME NEW e \in CALLS, calls[e].phase = "success"
        PROVE  recorded'[calls[e].payment] = e
    BY <2>1, <2>2, <2>3 DEF RecordedInv, CallsTypeOK
  <2>4. RecordedInv'
    BY <2>1, <2>2, <2>3 DEF RecordedInv, Accounted
  <2> QED BY <1>1, <2>4
<1> QED BY <1>2, <1>3
----------------------------------------------------------------------------
(* The answerer.                                                           *)

\* What a receipt names is taken.
AnswererInv ==
  /\ handing \in [HANDINGS -> [phase : {"idle", "awaiting", "refused", "receipted"},
                               batch : BATCHES \cup {"none"}]]
  /\ \A h \in HANDINGS :
       handing[h].phase = "receipted" => NamesOf[handing[h].batch] \subseteq taken
  /\ ReceiptsDisjoint

LEMMA ReceiveKeeps ==
  ASSUME AnswererInv, NEW h \in HANDINGS, NEW b \in BATCHES, Receive(h, b)
  PROVE  AnswererInv'
<1> DEFINE ph == IF b \in proofs THEN "refused" ELSE "awaiting"
<1>1. handing' = [handing EXCEPT ![h] = [phase |-> ph, batch |-> b]] /\ taken' = taken
  BY DEF Receive
<1>2. ph \in {"refused", "awaiting"}
  OBVIOUS
<1> HIDE DEF ph
<1>3. handing'[h].phase # "receipted" /\ \A g \in HANDINGS \ {h} : handing'[g] = handing[g]
  BY <1>1, <1>2 DEF AnswererInv
<1>4. handing' \in [HANDINGS -> [phase : {"idle", "awaiting", "refused", "receipted"},
                                 batch : BATCHES \cup {"none"}]]
  BY <1>1, <1>2 DEF AnswererInv
<1> QED BY <1>1, <1>3, <1>4 DEF AnswererInv, ReceiptsDisjoint

LEMMA SignsKeeps ==
  ASSUME AnswererInv, NEW h \in HANDINGS, Signs(h)
  PROVE  AnswererInv'
<1> DEFINE b == handing[h].batch
           ph == IF GateAccepts(b) /\ ~Overlaps(b) THEN "receipted" ELSE "refused"
<1>1. handing' = [handing EXCEPT ![h].phase = ph]
  BY DEF Signs
<1>2. ph \in {"refused", "receipted"}
  OBVIOUS
<1>3. /\ ph = "receipted" => taken' = taken \cup NamesOf[b] /\ NamesOf[b] \cap taken = {}
      /\ ph = "refused" => taken' = taken
  BY DEF Signs, Overlaps
<1> HIDE DEF ph
<1>4. /\ handing'[h].phase = ph /\ handing'[h].batch = b
      /\ \A g \in HANDINGS \ {h} : handing'[g] = handing[g]
  BY <1>1 DEF AnswererInv
<1>5. handing' \in [HANDINGS -> [phase : {"idle", "awaiting", "refused", "receipted"},
                                 batch : BATCHES \cup {"none"}]]
  BY <1>1, <1>2 DEF AnswererInv
<1>6. taken \subseteq taken'
  BY <1>2, <1>3
<1>7. \A g \in HANDINGS :
        handing'[g].phase = "receipted" => NamesOf[handing'[g].batch] \subseteq taken'
  BY <1>2, <1>3, <1>4, <1>6 DEF AnswererInv
<1>8. ReceiptsDisjoint'
  <2>1. CASE ph = "receipted"
    <3>1. \A g \in HANDINGS \ {h} :
            handing'[g].phase = "receipted" => NamesOf[handing'[g].batch] \subseteq taken
      BY <1>4 DEF AnswererInv
    <3>2. NamesOf[handing'[h].batch] \cap taken = {}
      BY <1>3, <1>4, <2>1
    <3> QED BY <1>4, <3>1, <3>2 DEF AnswererInv, ReceiptsDisjoint
  <2>2. CASE ph = "refused"
    BY <1>4, <2>2 DEF AnswererInv, ReceiptsDisjoint
  <2> QED BY <1>2, <2>1, <2>2
<1> QED BY <1>5, <1>7, <1>8 DEF AnswererInv

LEMMA OthersLeaveHandings ==
  ASSUME AnswererInv, UNCHANGED answererVars
  PROVE  AnswererInv'
BY DEF AnswererInv, ReceiptsDisjoint
----------------------------------------------------------------------------
(* The monitor's books, against the chains they are about.                 *)

Moment == Nat \cup {Never}

BooksOK ==
  /\ known \subseteq PAYMENTS
  /\ challenged \in [PAYMENTS -> Moment] /\ answered \in [PAYMENTS -> Moment]
  /\ at \in Nat \ {0}

\* Answered, whatever has come of it since.
Past(p) == challenge[p].status \in {"answered", "delivered", "cancelled"}

\* A request of the monitor's, answered at t, has the whole wait from t.
AnsweredAt(p, t) ==
  /\ Past(p)
  /\ challenge[p].ours /\ p \notin lost => challenge[p].deadline = t + WAIT

\* An event tells the truth; an answer to what the monitor joined later no longer dates its wait.
Telling(e) ==
  /\ e.kind = "expired" => challenge[e.payment].status = "expired"
  /\ e.kind = "answered" =>
       Past(e.payment) /\ (e.payment \notin joinedAnswered => AnsweredAt(e.payment, e.at))

NewsTrue == \A d \in Domain : \A e \in news[d] : Telling(e)

\* A challenge of the monitor's is in its books, or its receipt was lost.
Followed(p) == challenged[p] # Never \/ p \in lost

BookTrue(p) ==
  LET c == challenge[p] IN
  /\ answered[p] # Never => AnsweredAt(p, answered[p])
  /\ p \in expired => c.status = "expired"
  /\ c.ours => Followed(p) /\ c.status \notin {"none", "cancelled"}
  /\ c.status \in {"delivered", "cancelled"} => Followed(p)
  /\ (challenged[p] # Never /\ p \notin lost \cup cancelled) => c.ours \/ c.status = "expired"

BooksInv == BooksOK /\ NewsTrue /\ \A p \in PAYMENTS : BookTrue(p)

\* What a step does not touch of one payment.
Aside(p) ==
  /\ challenge'[p] = challenge[p]
  /\ challenged'[p] = challenged[p] /\ answered'[p] = answered[p]
  /\ (p \in lost') = (p \in lost) /\ (p \in cancelled') = (p \in cancelled)
  /\ (p \in expired') = (p \in expired) /\ (p \in joinedAnswered') = (p \in joinedAnswered)

LEMMA AsideBook ==
  ASSUME NEW p, Aside(p), BookTrue(p)
  PROVE  BookTrue(p)'
BY DEF Aside, BookTrue, AnsweredAt, Past, Followed

LEMMA AsideEvent ==
  ASSUME NEW e, Aside(e.payment), Telling(e)
  PROVE  Telling(e)'
BY DEF Aside, Telling, AnsweredAt, Past

\* A step that touches one payment keeps the books when it keeps that payment's.
LEMMA OneTouched ==
  ASSUME ChainTypeOK, BooksInv, BooksOK', NEW p \in PAYMENTS,
         \A q \in PAYMENTS \ {p} : Aside(q),
         BookTrue(p)',
         \A e \in Event : e.payment = p /\ Telling(e) => Telling(e)',
         \A d \in Domain : \A e \in news'[d] : e \in news[d] \/ Telling(e)'
  PROVE  BooksInv'
<1>1. \A q \in PAYMENTS : BookTrue(q)'
  BY AsideBook DEF BooksInv
<1>2. ASSUME NEW d \in Domain, NEW e \in news'[d]
      PROVE  Telling(e)'
  <2>1. CASE e \in news[d]
    <3>1. e \in Event /\ Telling(e) /\ e.payment \in PAYMENTS
      BY <2>1 DEF ChainTypeOK, Event, BooksInv, NewsTrue
    <3> QED BY <3>1, AsideEvent
  <2> QED BY <1>2, <2>1
<1> QED BY <1>1, <1>2 DEF BooksInv, NewsTrue

LEMMA NoneTouched ==
  ASSUME ChainTypeOK, BooksInv, BooksOK', \A q \in PAYMENTS : Aside(q),
         \A d \in Domain : \A e \in news'[d] : e \in news[d] \/ Telling(e)'
  PROVE  BooksInv'
<1>1. \A q \in PAYMENTS : BookTrue(q)'
  BY AsideBook DEF BooksInv
<1>2. ASSUME NEW d \in Domain, NEW e \in news'[d]
      PROVE  Telling(e)'
  <2>1. CASE e \in news[d]
    <3>1. e \in Event /\ Telling(e) /\ e.payment \in PAYMENTS
      BY <2>1 DEF ChainTypeOK, Event, BooksInv, NewsTrue
    <3> QED BY <3>1, AsideEvent
  <2> QED BY <1>2, <2>1
<1> QED BY <1>1, <1>2 DEF BooksInv, NewsTrue

----------------------------------------------------------------------------
(* What anybody else does, and the books.                                  *)

LEMMA StrangerOpens ==
  ASSUME ChainTypeOK, BooksInv, NEW p \in PAYMENTS, Open(p, FALSE), UNCHANGED monitorVars
  PROVE  BooksInv'
<1>1. /\ Touches(p) /\ news' = news
      /\ challenge[p].status = "none"
      /\ challenge'[p].status = "open" /\ challenge'[p].ours = FALSE
  BY OpenTouches
<1>2. BooksOK' /\ \A q \in PAYMENTS \ {p} : Aside(q)
  BY <1>1 DEF BooksInv, BooksOK, Aside, Touches
<1>3. BookTrue(p)'
  <2>1. BookTrue(p)
    BY DEF BooksInv
  <2> QED BY <1>1, <2>1 DEF BookTrue, AnsweredAt, Past, Followed
<1>4. \A e \in Event : e.payment = p /\ Telling(e) => Telling(e)'
  BY <1>1 DEF Telling, Past
<1> QED BY <1>1, <1>2, <1>3, <1>4, OneTouched

LEMMA StrangerExpires ==
  ASSUME ChainTypeOK, BooksInv, NEW p \in PAYMENTS, Expire(p), UNCHANGED monitorVars
  PROVE  BooksInv'
<1>1. /\ Touches(p) /\ Tells("expired", p)
      /\ challenge[p].status = "open" /\ challenge'[p].status = "expired"
      /\ challenge'[p].ours = challenge[p].ours
  BY ExpireTouches
<1>2. BooksOK' /\ \A q \in PAYMENTS \ {p} : Aside(q)
  BY <1>1 DEF BooksInv, BooksOK, Aside, Touches
<1>3. BookTrue(p)'
  <2>1. BookTrue(p)
    BY DEF BooksInv
  <2> QED BY <1>1, <2>1 DEF BookTrue, AnsweredAt, Past, Followed
<1>4. \A e \in Event : e.payment = p /\ Telling(e) => Telling(e)'
  BY <1>1 DEF Telling, Past
<1>5. \A e : e.kind = "expired" /\ e.payment = p => Telling(e)'
  BY <1>1 DEF Telling
<1>6. \A d \in Domain : \A e \in news'[d] : e \in news[d] \/ Telling(e)'
  BY <1>1, <1>5 DEF Tells
<1> QED BY <1>2, <1>3, <1>4, <1>6, OneTouched

LEMMA AgentAnswers ==
  ASSUME ChainTypeOK, BooksInv, NEW p \in PAYMENTS, Answer(p), UNCHANGED monitorVars
  PROVE  BooksInv'
<1>1. /\ Touches(p) /\ Tells("answered", p)
      /\ challenge[p].status = "open" /\ challenge'[p].status = "answered"
      /\ challenge'[p].ours = challenge[p].ours
      /\ challenge[p].ours => challenge'[p].deadline = now + WAIT
  BY AnswerTouches
<1>2. BooksOK' /\ \A q \in PAYMENTS \ {p} : Aside(q)
  BY <1>1 DEF BooksInv, BooksOK, Aside, Touches
<1>3. BookTrue(p)'
  <2>1. BookTrue(p)
    BY DEF BooksInv
  <2> QED BY <1>1, <2>1 DEF BookTrue, AnsweredAt, Past, Followed
<1>4. \A e \in Event : e.payment = p /\ Telling(e) => Telling(e)'
  BY <1>1 DEF Telling, Past
<1>5. \A e : e.kind = "answered" /\ e.payment = p /\ e.at = now => Telling(e)'
  BY <1>1 DEF Telling, AnsweredAt, Past
<1>6. \A d \in Domain : \A e \in news'[d] : e \in news[d] \/ Telling(e)'
  BY <1>1, <1>5 DEF Tells
<1> QED BY <1>2, <1>3, <1>4, <1>6, OneTouched

LEMMA AgentPosts ==
  ASSUME ChainTypeOK, BooksInv, NEW p \in PAYMENTS, Post(p), UNCHANGED monitorVars
  PROVE  BooksInv'
<1>1. /\ Touches(p) /\ Tells("posted", p)
      /\ challenge[p].status = "answered" /\ challenge'[p].status = "delivered"
      /\ challenge[p].ours /\ challenge'[p].ours
      /\ challenge'[p].deadline = challenge[p].deadline
  BY PostTouches
<1>2. BooksOK' /\ \A q \in PAYMENTS \ {p} : Aside(q)
  BY <1>1 DEF BooksInv, BooksOK, Aside, Touches
<1>3. BookTrue(p)'
  <2>1. BookTrue(p)
    BY DEF BooksInv
  <2> QED BY <1>1, <2>1 DEF BookTrue, AnsweredAt, Past, Followed
<1>4. \A e \in Event : e.payment = p /\ Telling(e) => Telling(e)'
  BY <1>1 DEF Telling, AnsweredAt, Past
<1>5. \A e : e.kind = "posted" => Telling(e)'
  BY DEF Telling
<1>6. \A d \in Domain : \A e \in news'[d] : e \in news[d] \/ Telling(e)'
  BY <1>1, <1>5 DEF Tells
<1> QED BY <1>2, <1>3, <1>4, <1>6, OneTouched

LEMMA PaymentSettles ==
  ASSUME ChainTypeOK, BooksInv, NEW p \in PAYMENTS, NEW by \in CALLS \cup {"direct"},
         Record(p, by), UNCHANGED monitorVars
  PROVE  BooksInv'
<1>1. Tells("settled", p) /\ challenge' = challenge
  BY RecordTells
<1>2. BooksOK' /\ \A q \in PAYMENTS : Aside(q)
  BY <1>1 DEF BooksInv, BooksOK, Aside
<1>3. \A e : e.kind = "settled" => Telling(e)'
  BY DEF Telling
<1>4. \A d \in Domain : \A e \in news'[d] : e \in news[d] \/ Telling(e)'
  BY <1>1, <1>3 DEF Tells
<1> QED BY <1>2, <1>4, NoneTouched

LEMMA BooksStay ==
  ASSUME ChainTypeOK, BooksInv, at' \in Nat \ {0},
         UNCHANGED <<challenge, news, known, challenged, answered, expired,
                     joinedAnswered, cancelled, lost>>
  PROVE  BooksInv'
<1>1. BooksOK' /\ \A q \in PAYMENTS : Aside(q)
  BY DEF BooksInv, BooksOK, Aside
<1> QED BY <1>1, NoneTouched
----------------------------------------------------------------------------
(* What the monitor's own calls make of its books: a call that lands is    *)
(* noted, or its receipt is lost and nothing is but a join's deadline.     *)

NotedOrLost(p) ==
  \/ Noted(p) /\ lost' = lost
  \/ /\ lost' = lost \cup {p}
     /\ \/ challenged' = challenged
        \/ act.do = "join" /\ challenged' = [challenged EXCEPT ![p] = challenge'[p].deadline]
     /\ UNCHANGED <<known, answered, expired, joinedAnswered, cancelled>>

LEMMA OpenLands ==
  ASSUME ChainTypeOK, BooksInv, NEW p \in PAYMENTS, at' \in Nat \ {0},
         act.do = "open", Open(p, TRUE), NotedOrLost(p)
  PROVE  BooksInv'
<1>1. /\ Touches(p) /\ news' = news
      /\ challenge[p].status = "none"
      /\ challenge'[p].status = "open" /\ challenge'[p].ours = TRUE
  BY OpenTouches
<1>2. challenge'[p].deadline \in Nat
  BY <1>1 DEF Touches, ChallengeRecord
<1>3. /\ known' = known /\ answered' = answered /\ expired' = expired /\ cancelled' = cancelled
      /\ joinedAnswered' = joinedAnswered /\ lost' \in {lost, lost \cup {p}}
      /\ \/ lost' = lost /\ challenged' = [challenged EXCEPT ![p] = challenge'[p].deadline]
         \/ lost' = lost \cup {p} /\ challenged' = challenged
  BY DEF NotedOrLost, Noted, NoteChallenge
<1>4. BooksOK' /\ \A q \in PAYMENTS \ {p} : Aside(q)
  <2>1. challenged' \in [PAYMENTS -> Moment] /\ \A q \in PAYMENTS \ {p} : challenged'[q] = challenged[q]
    BY <1>2, <1>3 DEF BooksInv, BooksOK, Moment
  <2> QED BY <1>1, <1>3, <2>1 DEF BooksInv, BooksOK, Aside, Touches
<1>5. Followed(p)'
  BY <1>2, <1>3 DEF Followed, Never, BooksInv, BooksOK
<1>6. BookTrue(p)'
  <2>1. BookTrue(p)
    BY DEF BooksInv
  <2> QED BY <1>1, <1>3, <1>5, <2>1 DEF BookTrue, AnsweredAt, Past
<1>7. \A e \in Event : e.payment = p /\ Telling(e) => Telling(e)'
  BY <1>1 DEF Telling, Past
<1> QED BY <1>1, <1>4, <1>6, <1>7, OneTouched

LEMMA JoinLands ==
  ASSUME ChainTypeOK, BooksInv, NEW p \in PAYMENTS, at' \in Nat \ {0},
         act.do = "join", Join(p), NotedOrLost(p)
  PROVE  BooksInv'
<1> DEFINE late == challenge[p].status = "answered"
<1>1. /\ Touches(p) /\ news' = news
      /\ challenge[p].status \in {"open", "answered"} /\ ~challenge[p].ours
      /\ challenge'[p].status = challenge[p].status /\ challenge'[p].ours
      /\ late => challenge'[p].deadline = now + WAIT
  BY JoinTouches
<1>2. challenge'[p].deadline \in Nat /\ now \in Nat
  BY <1>1 DEF Touches, ChallengeRecord, ChainTypeOK
<1>3. /\ known' = known /\ expired' = expired /\ cancelled' = cancelled
      /\ \/ /\ lost' = lost /\ challenged' = [challenged EXCEPT ![p] = challenge'[p].deadline]
            /\ answered' = IF late THEN [answered EXCEPT ![p] = now] ELSE answered
            /\ joinedAnswered' = IF late THEN joinedAnswered \cup {p} ELSE joinedAnswered
         \/ /\ lost' = lost \cup {p} /\ answered' = answered /\ joinedAnswered' = joinedAnswered
            /\ challenged' \in {challenged, [challenged EXCEPT ![p] = challenge'[p].deadline]}
  BY DEF NotedOrLost, Noted, NoteChallenge
<1>4. BooksOK' /\ \A q \in PAYMENTS \ {p} : Aside(q)
  <2>1. challenged' \in [PAYMENTS -> Moment] /\ \A q \in PAYMENTS \ {p} : challenged'[q] = challenged[q]
    BY <1>2, <1>3 DEF BooksInv, BooksOK, Moment
  <2>2. answered' \in [PAYMENTS -> Moment] /\ \A q \in PAYMENTS \ {p} : answered'[q] = answered[q]
    BY <1>2, <1>3 DEF BooksInv, BooksOK, Moment
  <2> QED BY <1>1, <1>3, <2>1, <2>2 DEF BooksInv, BooksOK, Aside, Touches
<1>5. Followed(p)'
  BY <1>2, <1>3 DEF Followed, Never, BooksInv, BooksOK
<1>6. /\ p \in lost' \/ (late => answered'[p] = now /\ p \in joinedAnswered')
      /\ ~late => answered'[p] = answered[p]
      /\ answered'[p] \in {answered[p], now}
  BY <1>3 DEF BooksInv, BooksOK
<1>7. BookTrue(p)'
  <2>1. BookTrue(p)
    BY DEF BooksInv
  <2>2. (answered[p] # Never => AnsweredAt(p, answered[p]))'
    BY <1>1, <1>6, <2>1 DEF BookTrue, AnsweredAt, Past
  <2> QED BY <1>1, <1>3, <1>5, <2>1, <2>2 DEF BookTrue
<1>8. \A e \in Event : e.payment = p /\ Telling(e) => Telling(e)'
  <2>1. ASSUME NEW e \in Event, e.payment = p, Telling(e), e.kind = "answered"
        PROVE  Past(p)' /\ (p \notin joinedAnswered' => AnsweredAt(p, e.at)')
    <3>1. Past(p) /\ late
      BY <1>1, <2>1 DEF Telling, Past
    <3> QED BY <1>1, <1>6, <3>1 DEF AnsweredAt, Past
  <2>2. ASSUME NEW e \in Event, e.payment = p, Telling(e), e.kind = "expired"
        PROVE  FALSE
    BY <1>1, <2>2 DEF Telling
  <2> QED BY <2>1, <2>2 DEF Telling
<1> QED BY <1>1, <1>4, <1>7, <1>8, OneTouched

LEMMA CancelLands ==
  ASSUME ChainTypeOK, BooksInv, NEW p \in PAYMENTS, at' \in Nat \ {0}, challenged[p] # Never,
         act.do = "cancel", Cancel(p), NotedOrLost(p)
  PROVE  BooksInv'
<1>1. /\ Touches(p) /\ news' = news
      /\ challenge[p].status \in {"open", "answered", "delivered"}
      /\ challenge'[p].status \in {challenge[p].status, "cancelled"}
      /\ ~challenge'[p].ours
  BY CancelTouches
<1>2. /\ known' = known /\ expired' = expired /\ joinedAnswered' = joinedAnswered
      /\ challenged' = challenged /\ answered' = answered
      /\ \/ lost' = lost /\ cancelled' = cancelled \cup {p}
         \/ lost' = lost \cup {p} /\ cancelled' = cancelled
  BY DEF NotedOrLost, Noted
<1>3. BooksOK' /\ \A q \in PAYMENTS \ {p} : Aside(q)
  BY <1>1, <1>2 DEF BooksInv, BooksOK, Aside, Touches
<1>4. BookTrue(p)'
  <2>1. BookTrue(p)
    BY DEF BooksInv
  <2> QED BY <1>1, <1>2, <2>1 DEF BookTrue, AnsweredAt, Past, Followed
<1>5. \A e \in Event : e.payment = p /\ Telling(e) => Telling(e)'
  BY <1>1, <1>2 DEF Telling, AnsweredAt, Past
<1> QED BY <1>1, <1>3, <1>4, <1>5, OneTouched

LEMMA ExpireLands ==
  ASSUME ChainTypeOK, BooksInv, NEW p \in PAYMENTS, at' \in Nat \ {0},
         act.do = "expire", Expire(p), NotedOrLost(p)
  PROVE  BooksInv'
<1>1. /\ Touches(p) /\ Tells("expired", p)
      /\ challenge[p].status = "open" /\ challenge'[p].status = "expired"
      /\ challenge'[p].ours = challenge[p].ours
  BY ExpireTouches
<1>2. /\ known' = known /\ cancelled' = cancelled /\ joinedAnswered' = joinedAnswered
      /\ challenged' = challenged /\ answered' = answered
      /\ lost' \in {lost, lost \cup {p}} /\ expired' \in {expired, expired \cup {p}}
  BY DEF NotedOrLost, Noted
<1>3. BooksOK' /\ \A q \in PAYMENTS \ {p} : Aside(q)
  BY <1>1, <1>2 DEF BooksInv, BooksOK, Aside, Touches
<1>4. BookTrue(p)'
  <2>1. BookTrue(p)
    BY DEF BooksInv
  <2> QED BY <1>1, <1>2, <2>1 DEF BookTrue, AnsweredAt, Past, Followed
<1>5. \A e \in Event : e.payment = p /\ Telling(e) => Telling(e)'
  BY <1>1 DEF Telling, Past
<1>6. \A e : e.kind = "expired" /\ e.payment = p => Telling(e)'
  BY <1>1 DEF Telling
<1>7. \A d \in Domain : \A e \in news'[d] : e \in news[d] \/ Telling(e)'
  BY <1>1, <1>6 DEF Tells
<1> QED BY <1>3, <1>4, <1>5, <1>7, OneTouched

\* Of what a domain told of an answer, any one event has a time that is true.
LEMMA HeardTrue ==
  ASSUME ChainTypeOK, BooksInv, NEW d \in Domain, NEW p \in PAYMENTS,
         p \in Told("answered", news[d]) \ joinedAnswered
  PROVE  AnswerTime(p, news[d]) \in Nat /\ AnsweredAt(p, AnswerTime(p, news[d]))
<1> DEFINE e == CHOOSE e \in news[d] : e.kind = "answered" /\ e.payment = p
<1>1. e \in news[d] /\ e.kind = "answered" /\ e.payment = p
  <2>1. \E f \in news[d] : f.kind = "answered" /\ f.payment = p
    BY DEF Told
  <2> QED BY <2>1
<1>2. AnswerTime(p, news[d]) = e.at
  BY DEF AnswerTime
<1> HIDE DEF e
<1>3. e \in Event /\ Telling(e)
  BY <1>1 DEF ChainTypeOK, BooksInv, NewsTrue
<1> QED BY <1>1, <1>2, <1>3 DEF Event, Telling

LEMMA ReadBooks ==
  ASSUME ChainTypeOK, BooksInv, Read
  PROVE  BooksInv' /\ ChainTypeOK'
<1> DEFINE d == DOMAINS[at]
           es == news[d]
           heard == Told("answered", es) \ joinedAnswered
<1>1. d \in Domain
  BY DomainsAssumption DEF Read, BooksInv, BooksOK, Domain
<1>2. es \subseteq Event /\ es \in SUBSET Event
  BY <1>1 DEF ChainTypeOK
<1>3. news' = [news EXCEPT ![d] = {}] /\ UNCHANGED <<now, recorded, challenge>>
  BY DEF Read
<1>4. ChainTypeOK' /\ \A b \in Domain : news'[b] \subseteq news[b]
  BY <1>1, <1>3 DEF ChainTypeOK
<1>5. /\ known' = known \cup Told("settled", es) /\ expired' = expired \cup Told("expired", es)
      /\ answered' = [p \in PAYMENTS |-> IF p \in heard THEN AnswerTime(p, es) ELSE answered[p]]
      /\ UNCHANGED <<challenged, joinedAnswered, cancelled, lost>> /\ at' = at + 1
  BY DEF Read
<1>6. \A p \in PAYMENTS : p \in heard => AnswerTime(p, es) \in Nat /\ AnsweredAt(p, AnswerTime(p, es))
  BY <1>1, HeardTrue
<1>7. Told("settled", es) \subseteq PAYMENTS
  BY <1>2 DEF Told, Event
<1>8. \A p \in Told("expired", es) : challenge[p].status = "expired"
  BY <1>1 DEF Told, BooksInv, NewsTrue, Telling
<1> HIDE DEF heard, es, d
<1>9. BooksOK'
  BY <1>5, <1>6, <1>7 DEF BooksInv, BooksOK, Moment
<1>10. ASSUME NEW p \in PAYMENTS
       PROVE  BookTrue(p)'
  <2>1. BookTrue(p)
    BY DEF BooksInv
  <2>2. (answered[p] # Never => AnsweredAt(p, answered[p]))'
    BY <1>3, <1>5, <1>6, <2>1 DEF BookTrue, AnsweredAt, Past
  <2> QED BY <1>3, <1>5, <1>8, <2>1, <2>2 DEF BookTrue, Followed
<1>11. NewsTrue'
  BY <1>3, <1>4, <1>5 DEF BooksInv, NewsTrue, Telling, AnsweredAt, Past
<1> QED BY <1>4, <1>9, <1>10, <1>11 DEF BooksInv

LEMMA TooLateBooks ==
  ASSUME ChainTypeOK, BooksInv, NEW p \in PAYMENTS, challenged[p] = Never,
         challenge[p].status \in {"delivered", "cancelled", "expired"},
         challenged' = [challenged EXCEPT ![p] = 0],
         UNCHANGED <<challenge, news, known, answered, expired, joinedAnswered, cancelled, lost, at>>
  PROVE  BooksInv'
<1>1. BooksOK' /\ \A q \in PAYMENTS \ {p} : Aside(q)
  BY DEF BooksInv, BooksOK, Moment, Aside
<1>2. challenged'[p] = 0
  BY DEF BooksInv, BooksOK
<1>3. BookTrue(p)'
  <2>1. BookTrue(p)
    BY DEF BooksInv
  <2> QED BY <1>2, <2>1 DEF BookTrue, AnsweredAt, Past, Followed, Never
<1>4. \A e \in Event : e.payment = p /\ Telling(e) => Telling(e)'
  BY DEF Telling, AnsweredAt, Past
<1> QED BY <1>1, <1>3, <1>4, OneTouched
\* An expiry that reverted came after another, and is noted all the same.
LEMMA RevertedBooks ==
  ASSUME ChainTypeOK, BooksInv, NEW p \in PAYMENTS, challenge[p].status = "expired",
         expired' = expired \cup {p},
         UNCHANGED <<challenge, news, known, challenged, answered, joinedAnswered, cancelled, lost, at>>
  PROVE  BooksInv'
<1>1. BooksOK' /\ \A q \in PAYMENTS \ {p} : Aside(q)
  BY DEF BooksInv, BooksOK, Aside
<1>2. BookTrue(p)'
  <2>1. BookTrue(p)
    BY DEF BooksInv
  <2> QED BY <2>1 DEF BookTrue, AnsweredAt, Past, Followed
<1>3. \A e \in Event : e.payment = p /\ Telling(e) => Telling(e)'
  BY DEF Telling, AnsweredAt, Past
<1> QED BY <1>1, <1>2, <1>3, OneTouched
----------------------------------------------------------------------------
(* The monitor's poll.                                                     *)

\* An expiry that was estimated to pass: the deadline is over, so neither an
\* answer nor a cancel can keep it from expiring any more.
Expiring(p) ==
  \/ challenge[p].status = "expired"
  \/ challenge[p].status = "open" /\ now > challenge[p].deadline

\* The call being made is about a record still to judge, at a time that has come.
ActTrue ==
  LET p == act.payment IN
  phase \in {"estimate", "mine"} =>
    /\ act \in [do : {"open", "join", "cancel", "expire"}, payment : left, at : Nat]
    /\ act.at <= now
    /\ act.do \in {"open", "join"} => challenged[p] = Never
    /\ act.do = "join" => challenge[p].status # "none"
    /\ act.do = "cancel" => p \notin faulty
    /\ act.do \in {"cancel", "expire"} => challenged[p] # Never
    /\ phase = "mine" /\ act.do = "expire" => Expiring(p)

\* What a freeze needs of one record.
Earned(p) ==
  \/ challenge[p].status = "expired"
  \/ p \in faulty /\ (WaitedOut(p) \/ TooLate(p) \/ p \in lost)

\* A poll that asks for the freeze was asked by a record it has judged.
PollTrue ==
  /\ phase \in {"idle", "read"} => ~stop
  /\ phase \in {"judge", "estimate", "mine"} =>
       /\ left \subseteq known
       /\ stop => \E p \in known \ left : Earned(p)
  /\ (phase = "freeze" \/ (stopped /\ ~claimed)) => \E p \in known : Earned(p)

PollInv == ActTrue /\ PollTrue

MonitorInv == BooksInv /\ PollInv

LEMMA PollEarns ==
  ASSUME PollInv
  PROVE  FreezeEarned
BY DEF PollInv, PollTrue, FreezeEarned, Earned

\* What earned the freeze keeps earning it: time goes on, and the record's
\* challenge stays or expires.
LEMMA EarnedStays ==
  ASSUME NEW p, Earned(p), faulty' = faulty, lost \subseteq lost', now \in Nat, now' \in Nat,
         now <= now', challenge'[p] = challenge[p], TimeOf[p] \in Nat,
         challenge[p].deadline \in Nat
  PROVE  Earned(p)'
BY DomainsAssumption, SMTT(30) DEF Earned, WaitedOut, TooLate

----------------------------------------------------------------------------
(* The chains' types are kept by whatever happens to them.                 *)

ChainStep ==
  \/ UNCHANGED <<now, recorded, challenge, news>>
  \/ Tick
  \/ Read
  \/ \E p \in PAYMENTS :
       \/ \E by \in CALLS \cup {"direct"} : Record(p, by)
       \/ \E ours \in BOOLEAN : Open(p, ours)
       \/ Join(p) \/ Cancel(p) \/ Expire(p) \/ Answer(p) \/ Post(p)

LEMMA ChainKept ==
  ASSUME ChainTypeOK, BooksInv, ChainStep
  PROVE  ChainTypeOK'
<1>1. CASE UNCHANGED <<now, recorded, challenge, news>>
  BY <1>1 DEF ChainTypeOK
<1>2. CASE Tick
  BY <1>2 DEF ChainTypeOK, Tick
<1>3. CASE Read
  BY <1>3, ReadBooks
<1>4. ASSUME NEW p \in PAYMENTS, Touches(p), news' = news \/ \E kind : Tells(kind, p)
      PROVE  ChainTypeOK'
  BY <1>4 DEF ChainTypeOK, Touches, Tells
<1>5. ASSUME NEW p \in PAYMENTS, NEW by \in CALLS \cup {"direct"}, Record(p, by)
      PROVE  ChainTypeOK'
  BY <1>5, RecordTells
<1>6. ASSUME NEW p \in PAYMENTS, NEW ours \in BOOLEAN, Open(p, ours)
      PROVE  ChainTypeOK'
  BY <1>4, <1>6, OpenTouches
<1>7. ASSUME NEW p \in PAYMENTS, Join(p)
      PROVE  ChainTypeOK'
  BY <1>4, <1>7, JoinTouches
<1>8. ASSUME NEW p \in PAYMENTS, Cancel(p)
      PROVE  ChainTypeOK'
  BY <1>4, <1>8, CancelTouches
<1>9. ASSUME NEW p \in PAYMENTS, Expire(p)
      PROVE  ChainTypeOK'
  BY <1>4, <1>9, ExpireTouches
<1>10. ASSUME NEW p \in PAYMENTS, Answer(p)
       PROVE  ChainTypeOK'
  BY <1>4, <1>10, AnswerTouches
<1>11. ASSUME NEW p \in PAYMENTS, Post(p)
       PROVE  ChainTypeOK'
  BY <1>4, <1>11, PostTouches
<1> QED BY <1>1, <1>2, <1>3, <1>5, <1>6, <1>7, <1>8, <1>9, <1>10, <1>11 DEF ChainStep

\* What happens at the hands of anybody but the monitor.
Elsewhere ==
  \/ UNCHANGED <<now, recorded, challenge, news>>
  \/ Tick
  \/ \E p \in PAYMENTS :
       \/ \E by \in CALLS \cup {"direct"} : Record(p, by)
       \/ Open(p, FALSE) \/ Expire(p) \/ Answer(p) \/ Post(p)

\* One challenge moves on; a delivered one was in time, or late by now.
Onward(p) ==
  \/ challenge[p].status \in {"none", "open"} /\ challenge'[p].ours = challenge[p].ours
  \/ /\ challenge[p].status = "answered" /\ challenge'[p].status = "delivered"
     /\ challenge'[p].ours = challenge[p].ours
     /\ challenge'[p].deadline = challenge[p].deadline

LEMMA EarnedElsewhere ==
  ASSUME ChainTypeOK, BooksInv, UNCHANGED monitorVars, Elsewhere, NEW q \in PAYMENTS, Earned(q)
  PROVE  Earned(q)'
<1>1. now \in Nat /\ TimeOf[q] \in Nat /\ challenge[q].deadline \in Nat
  BY DomainsAssumption DEF ChainTypeOK, ChallengeRecord
<1>2. CASE UNCHANGED <<now, recorded, challenge, news>>
  BY <1>1, <1>2, EarnedStays
<1>3. CASE Tick
  <2>1. now' \in Nat /\ now <= now' /\ challenge' = challenge
    BY <1>1, <1>3 DEF Tick
  <2> QED BY <1>1, <2>1, EarnedStays
<1>4. ASSUME NEW p \in PAYMENTS, NEW by \in CALLS \cup {"direct"}, Record(p, by)
      PROVE  Earned(q)'
  <2>1. now' = now /\ challenge' = challenge
    BY <1>4, RecordTells
  <2> QED BY <1>1, <2>1, EarnedStays
<1>5. ASSUME NEW p \in PAYMENTS, Touches(p), Onward(p) \/ challenge'[p].status = "expired"
      PROVE  Earned(q)'
  <2>1. CASE p = q
    BY <1>1, <1>5, <2>1 DEF Touches, Onward, Earned, WaitedOut, TooLate
  <2>2. CASE p # q
    <3>1. now' = now /\ challenge'[q] = challenge[q]
      BY <1>5, <2>2 DEF Touches
    <3> QED BY <1>1, <3>1, EarnedStays
  <2> QED BY <2>1, <2>2
<1>6. ASSUME NEW p \in PAYMENTS, Open(p, FALSE)
      PROVE  Earned(q)'
  <2>1. /\ Touches(p) /\ challenge[p].status = "none" /\ challenge'[p].ours = FALSE
    BY <1>6, OpenTouches
  <2>2. challenge[p].ours \in BOOLEAN /\ ~challenge[p].ours
    BY <2>1 DEF ChainTypeOK, ChallengeRecord, BooksInv, BookTrue
  <2> QED BY <1>5, <2>1, <2>2 DEF Onward
<1>7. ASSUME NEW p \in PAYMENTS, Expire(p)
      PROVE  Earned(q)'
  BY <1>5, <1>7, ExpireTouches
<1>8. ASSUME NEW p \in PAYMENTS, Answer(p)
      PROVE  Earned(q)'
  BY <1>5, <1>8, AnswerTouches DEF Onward
<1>9. ASSUME NEW p \in PAYMENTS, Post(p)
      PROVE  Earned(q)'
  BY <1>5, <1>9, PostTouches DEF Onward
<1> QED BY <1>2, <1>3, <1>4, <1>6, <1>7, <1>8, <1>9 DEF Elsewhere

LEMMA ExpiringElsewhere ==
  ASSUME ChainTypeOK, Elsewhere, NEW p \in PAYMENTS, Expiring(p)
  PROVE  Expiring(p)'
<1>1. now \in Nat /\ challenge[p].deadline \in Nat
  BY DEF ChainTypeOK, ChallengeRecord
<1>2. CASE UNCHANGED <<now, recorded, challenge, news>> \/ Tick
  BY <1>1, <1>2 DEF Expiring, Tick
<1>3. ASSUME NEW q \in PAYMENTS, NEW by \in CALLS \cup {"direct"}, Record(q, by)
      PROVE  Expiring(p)'
  BY <1>3, RecordTells DEF Expiring
<1>4. ASSUME NEW q \in PAYMENTS, Open(q, FALSE) \/ Expire(q) \/ Answer(q) \/ Post(q)
      PROVE  Expiring(p)'
  <2>1. /\ Touches(q)
        /\ \/ challenge'[q].status = "expired"
           \/ challenge[q].status \in {"none", "answered"}
           \/ challenge[q].status = "open" /\ now <= challenge[q].deadline
    BY <1>4, OpenTouches, ExpireTouches, AnswerTouches, PostTouches DEF Answer
  <2>2. CASE q = p
    BY <1>1, <2>1, <2>2 DEF Expiring
  <2>3. CASE q # p
    BY <2>1, <2>3 DEF Touches, Expiring
  <2> QED BY <2>2, <2>3
<1> QED BY <1>2, <1>3, <1>4 DEF Elsewhere

LEMMA ElsewhereKeeps ==
  ASSUME ChainTypeOK, MonitorInv, UNCHANGED monitorVars, Elsewhere
  PROVE  MonitorInv'
<1> USE DEF MonitorInv
<1>1. BooksInv'
  <2>1. CASE UNCHANGED <<now, recorded, challenge, news>> \/ Tick
    BY <2>1, BooksStay DEF Tick, BooksInv, BooksOK
  <2> QED BY <2>1, PaymentSettles, StrangerOpens, StrangerExpires, AgentAnswers, AgentPosts
          DEF Elsewhere
<1>2. now \in Nat /\ now' \in Nat /\ now <= now'
  <2>1. \A p \in PAYMENTS, by \in CALLS \cup {"direct"} : Record(p, by) => now' = now
    BY RecordTells
  <2>2. \A p \in PAYMENTS : Open(p, FALSE) \/ Expire(p) \/ Answer(p) \/ Post(p) => now' = now
    BY OpenTouches, ExpireTouches, AnswerTouches, PostTouches DEF Touches
  <2>3. Tick \/ now' = now
    BY <2>1, <2>2 DEF Elsewhere
  <2>4. now \in Nat
    BY DEF ChainTypeOK
  <2> QED BY <2>3, <2>4 DEF Tick
<1>3. \A q \in PAYMENTS : challenge[q].status # "none" => challenge'[q].status # "none"
  <2>1. \A p \in PAYMENTS, by \in CALLS \cup {"direct"} : Record(p, by) => challenge' = challenge
    BY RecordTells
  <2>2. \A p \in PAYMENTS : Open(p, FALSE) \/ Expire(p) \/ Answer(p) \/ Post(p)
          => Touches(p) /\ challenge'[p].status # "none"
    BY OpenTouches, ExpireTouches, AnswerTouches, PostTouches
  <2> QED BY <2>1, <2>2 DEF Elsewhere, Tick, Touches
<1>4. \A q \in known : Earned(q) => Earned(q)'
  BY EarnedElsewhere DEF BooksInv, BooksOK
<1>5. ActTrue'
  <2>1. phase \in {"estimate", "mine"} => act.payment \in PAYMENTS
    BY DEF PollInv, ActTrue, PollTrue, BooksInv, BooksOK
  <2>2. phase = "mine" /\ act.do = "expire" => Expiring(act.payment)'
    BY <2>1, ExpiringElsewhere DEF PollInv, ActTrue
  <2> QED BY <1>2, <1>3, <2>1, <2>2 DEF PollInv, ActTrue
<1>6. PollTrue'
  BY <1>4 DEF PollInv, PollTrue
<1> QED BY <1>1, <1>5, <1>6 DEF PollInv
----------------------------------------------------------------------------
(* The monitor's own steps.                                                *)

\* What the judgement decides, and why a freeze is earned when it asks for one.
LEMMA DutyTrue ==
  ASSUME ChainTypeOK, BooksInv, NEW p \in PAYMENTS
  PROVE  LET duty == Duty(p, now) IN
         /\ duty \in {"pass", "freeze", "open", "cancel", "expire"}
         /\ duty = "freeze" => Earned(p)
         /\ duty = "open" => challenged[p] = Never
         /\ duty = "cancel" => p \notin faulty
         /\ duty \in {"cancel", "expire"} => challenged[p] # Never
<1>1. /\ now \in Nat /\ TimeOf[p] \in Nat /\ WAIT \in Nat /\ DECIDE \in Nat /\ WINDOW \in Nat
      /\ challenged[p] \in Moment /\ answered[p] \in Moment
      /\ challenge[p] \in ChallengeRecord /\ BookTrue(p)
  BY DomainsAssumption, MonitorAssumption DEF ChainTypeOK, BooksInv, BooksOK
<1>2. CASE challenged[p] = Never
  <2>1. CASE now < TimeOf[p] + DECIDE \/ p \notin faulty
    <3>1. Duty(p, now) = "pass"
      BY <1>1, <1>2, <2>1 DEF Duty
    <3> QED BY <3>1
  <2>2. CASE now >= TimeOf[p] + DECIDE /\ p \in faulty
    <3>1. Duty(p, now) = IF now < TimeOf[p] + WINDOW THEN "open" ELSE "freeze"
      BY <1>1, <1>2, <2>2 DEF Duty
    <3>2. now >= TimeOf[p] + WINDOW => Earned(p)
      BY <1>1, <1>2, <2>2 DEF Earned, TooLate, BookTrue, Followed
    <3> QED BY <1>1, <1>2, <3>1, <3>2
  <2> QED BY <1>1, <2>1, <2>2
<1>3. CASE challenged[p] # Never /\ p \in expired
  <2>1. Duty(p, now) = "freeze"
    BY <1>3 DEF Duty
  <2> QED BY <1>1, <1>3, <2>1 DEF Earned, BookTrue
<1>4. CASE challenged[p] # Never /\ p \in cancelled \ expired
  <2>1. Duty(p, now) = "pass"
    BY <1>4 DEF Duty
  <2> QED BY <2>1
<1>5. CASE challenged[p] # Never /\ p \notin expired \cup cancelled
  <2>1. Duty(p, now) = IF p \in faulty THEN Overdue(p, now) ELSE "cancel"
    BY <1>5 DEF Duty
  <2>2. Overdue(p, now) \in {"expire", "freeze", "pass"}
    BY DEF Overdue
  <2>3. ASSUME p \in faulty, Overdue(p, now) = "freeze"
        PROVE  Earned(p)
    <3>1. answered[p] # Never /\ now >= answered[p] + WAIT
      BY <2>3 DEF Overdue
    <3>2. AnsweredAt(p, answered[p])
      BY <1>1, <3>1 DEF BookTrue
    <3>3. CASE p \in lost
      BY <2>3, <3>3 DEF Earned
    <3>4. CASE p \notin lost
      <4>1. challenge[p].ours /\ challenge[p].status \in {"answered", "delivered"}
        BY <1>1, <1>5, <3>2, <3>4 DEF BookTrue, AnsweredAt, Past
      <4>2. now >= challenge[p].deadline
        BY <3>1, <3>2, <3>4, <4>1 DEF AnsweredAt
      <4> QED BY <2>3, <4>1, <4>2 DEF Earned, WaitedOut
    <3> QED BY <3>3, <3>4
  <2> QED BY <1>5, <2>1, <2>2, <2>3
<1> QED BY <1>2, <1>3, <1>4, <1>5

\* A record is set aside with what was decided of it, or its call is next.
LEMMA DecideKeeps ==
  ASSUME PollInv, ~stopped, UNCHANGED <<known, faulty, stopped>>,
         phase \in {"judge", "estimate", "mine"}, NEW p \in left, NEW n \in Nat, n <= now', 
         NEW duty \in {"pass", "freeze", "open", "cancel", "expire"}, Decide(p, duty, n),
         \A q \in known \ left : Earned(q) => Earned(q)',
         duty = "freeze" => Earned(p)',
         duty = "open" => challenged'[p] = Never,
         duty = "cancel" => p \notin faulty,
         duty \in {"cancel", "expire"} => challenged'[p] # Never
  PROVE  PollInv'
<1>1. left \subseteq known /\ (stop => \E q \in known \ left : Earned(q))
  BY DEF PollInv, PollTrue
<1>2. CASE duty \in {"pass", "freeze"}
  <2>1. phase' = "judge" /\ left' = left \ {p} /\ stop' = (stop \/ duty = "freeze")
    BY <1>2 DEF Decide
  <2>2. stop' => \E q \in known \ left' : Earned(q)'
    BY <1>1, <2>1
  <2> QED BY <1>1, <2>1, <2>2 DEF PollInv, PollTrue, ActTrue
<1>3. CASE duty \in {"open", "cancel", "expire"}
  <2>1. /\ phase' = "estimate" /\ left' = left /\ stop' = stop
        /\ act' = [do |-> duty, payment |-> p, at |-> n]
    BY <1>3 DEF Decide
  <2>2. act'.do = duty /\ act'.payment = p /\ act'.at = n
    BY <2>1
  <2>3. ActTrue'
    BY <1>3, <2>1, <2>2 DEF ActTrue
  <2>4. PollTrue'
    BY <1>1, <2>1 DEF PollTrue
  <2> QED BY <2>3, <2>4 DEF PollInv
<1> QED BY <1>2, <1>3

\* A poll that ends asks for nothing.
LEMMA IdleKeeps ==
  ASSUME Idle, ~stopped'
  PROVE  PollInv' /\ at' \in Nat \ {0}
BY DEF Idle, PollInv, PollTrue, ActTrue

\* What is true of every step that leaves the chains and the books alone.
Calm ==
  UNCHANGED <<now, recorded, challenge, news, known, challenged, answered, expired,
              joinedAnswered, cancelled, lost>>

LEMMA CalmKeeps ==
  ASSUME ChainTypeOK, BooksInv, Calm, at' \in Nat \ {0}
  PROVE  BooksInv' /\ (faulty' = faulty => \A q : Earned(q) => Earned(q)')
<1>1. BooksInv'
  BY BooksStay DEF Calm
<1> QED BY <1>1 DEF Calm, Earned, WaitedOut, TooLate

LEMMA TakeStockKeeps ==
  ASSUME ChainTypeOK, MonitorInv, ~stopped, ~stop, TakeStock
  PROVE  MonitorInv' /\ Calm
<1>1. /\ Calm /\ at' = at /\ ~stopped' /\ ~stop'
      /\ phase' = "judge" /\ left' = known /\ known' = known
  BY DEF TakeStock, Calm
<1>2. BooksInv'
  BY <1>1, CalmKeeps DEF MonitorInv, BooksInv, BooksOK
<1>3. PollInv'
  BY <1>1 DEF PollInv, PollTrue, ActTrue
<1> QED BY <1>1, <1>2, <1>3 DEF MonitorInv

\* The steps before the judgement, and after it.
LEMMA RoundKeeps ==
  ASSUME ChainTypeOK, MonitorInv, ~stopped,
         \/ Poll \/ Claims \/ Looks \/ ClaimOn \/ ClaimMined \/ Claimed \/ Unclaimed
         \/ Estimated \/ Judged \/ (\E d \in Domain : FreezeOn(d)) \/ Frozen \/ ClaimLost \/ PollFails
         \/ Deliveries
  PROVE  MonitorInv' /\ Calm
<1> USE DEF MonitorInv
<1>0. at \in Nat \ {0} /\ BooksInv
  BY DEF BooksInv, BooksOK
<1>1. ASSUME Calm, at' \in Nat \ {0}, PollInv'
      PROVE  MonitorInv' /\ Calm
  BY <1>0, <1>1, CalmKeeps
<1>2. CASE Poll
  <2>1. Calm /\ at' = at
    BY <1>2 DEF Poll, Calm
  <2>2. PollInv'
    BY <1>2 DEF Poll, PollInv, PollTrue, ActTrue
  <2> QED BY <1>0, <1>1, <2>1, <2>2
<1>3. CASE Claims
  <2>1. Calm /\ at' = 1
    BY <1>3 DEF Claims, Calm
  <2>2. PollInv'
    BY <1>3 DEF Claims, PollInv, PollTrue, ActTrue
  <2> QED BY <1>1, <2>1, <2>2
<1>4. CASE Looks
  <2>1. TakeStock /\ ~stop
    BY <1>4 DEF Looks, PollInv, PollTrue
  <2> QED BY <2>1, TakeStockKeeps
<1>5. CASE ClaimOn
  <2>1. Calm /\ at' \in {at, at + 1}
    BY <1>5 DEF ClaimOn, Calm
  <2>2. PollInv'
    BY <1>5 DEF ClaimOn, PollInv, PollTrue, ActTrue
  <2> QED BY <1>0, <1>1, <2>1, <2>2
<1>15. CASE ClaimMined
  <2>1. Calm /\ at' = at + 1
    BY <1>15 DEF ClaimMined, Claim, Calm
  <2>2. PollInv'
    BY <1>15 DEF ClaimMined, PollInv, PollTrue, ActTrue
  <2> QED BY <1>0, <1>1, <2>1, <2>2
<1>6. CASE Claimed
  <2>1. Calm /\ at' = 1
    BY <1>6 DEF Claimed, Idle, Calm
  <2>2. PollInv'
    BY <1>6 DEF Claimed, Idle, PollInv, PollTrue, ActTrue
  <2> QED BY <1>1, <2>1, <2>2
<1>7. CASE Unclaimed
  <2>1. TakeStock /\ ~stop
    BY <1>7 DEF Unclaimed
  <2> QED BY <2>1, TakeStockKeeps
<1>8. CASE Estimated
  <2>1. Calm /\ at' = at /\ faulty' = faulty
    BY <1>8 DEF Estimated, Calm
  <2>2. \A q : Earned(q) => Earned(q)'
    BY <1>0, <2>1, CalmKeeps
  <2>3. ActTrue'
    BY <1>8, <2>1 DEF Estimated, Takes, Expirable, Expiring, Calm, PollInv, ActTrue
  <2>4. PollTrue'
    BY <1>8, <2>2 DEF Estimated, PollInv, PollTrue
  <2> QED BY <1>0, <1>1, <2>1, <2>3, <2>4 DEF PollInv
<1>9. CASE Judged
  <2>1. Calm /\ ~stopped'
    BY <1>9 DEF Judged, Calm
  <2>2. CASE stop
    <3>1. phase' = "freeze" /\ at' = at /\ faulty' = faulty /\ known' = known
      BY <1>9, <2>2 DEF Judged
    <3>2. \A q : Earned(q) => Earned(q)'
      BY <1>0, <2>1, <3>1, CalmKeeps
    <3>3. \E q \in known : Earned(q)
      BY <1>9, <2>2 DEF Judged, PollInv, PollTrue
    <3>4. PollInv'
      BY <2>1, <3>1, <3>2, <3>3 DEF PollInv, PollTrue, ActTrue
    <3> QED BY <1>0, <1>1, <2>1, <3>1, <3>4
  <2>3. CASE ~stop
    <3>1. Idle
      BY <1>9, <2>3 DEF Judged, Ends
    <3> QED BY <1>1, <2>1, <3>1, IdleKeeps
  <2> QED BY <2>2, <2>3
<1>10. ASSUME NEW d \in Domain, FreezeOn(d)
       PROVE  MonitorInv' /\ Calm
  <2>1. /\ Calm /\ at' = at /\ faulty' = faulty /\ known' = known
        /\ phase = "freeze" /\ phase' = "freeze"
    BY <1>10 DEF FreezeOn, Freeze, Calm
  <2>2. \A q : Earned(q) => Earned(q)'
    BY <1>0, <2>1, CalmKeeps
  <2>3. PollInv'
    BY <2>1, <2>2 DEF PollInv, PollTrue, ActTrue
  <2> QED BY <1>0, <1>1, <2>1, <2>3
<1>11. CASE Frozen
  <2>1. Calm /\ at' = 1 /\ faulty' = faulty /\ known' = known /\ phase = "freeze" /\ Idle
    BY <1>11 DEF Frozen, Idle, Calm
  <2>2. \A q : Earned(q) => Earned(q)'
    BY <1>0, <2>1, CalmKeeps
  <2>3. PollInv'
    BY <2>1, <2>2 DEF Idle, PollInv, PollTrue, ActTrue
  <2> QED BY <1>1, <2>1, <2>3
<1>12. CASE ClaimLost
  <2>1. Calm /\ at' = at + 1
    BY <1>12 DEF ClaimLost, Claim, Calm
  <2>2. PollInv'
    BY <1>12 DEF ClaimLost, PollInv, PollTrue, ActTrue
  <2> QED BY <1>0, <1>1, <2>1, <2>2
<1>13. CASE PollFails
  <2>1. Calm /\ Idle /\ ~stopped'
    BY <1>13 DEF PollFails, Ends, Calm
  <2> QED BY <1>1, <2>1, IdleKeeps
<1>14. CASE Deliveries
  <2>1. Calm /\ UNCHANGED <<poll, stopped, claimed>>
    BY <1>14 DEF Deliveries, DeliverProof, DeliverOpening, Calm
  <2>2. \A q : Earned(q) => Earned(q)'
    BY <1>0, <2>1, CalmKeeps
  <2>3. PollInv'
    BY <2>1, <2>2 DEF Calm, PollInv, PollTrue, ActTrue, Expiring
  <2> QED BY <1>0, <1>1, <2>1, <2>3
<1> QED BY <1>2, <1>3, <1>4, <1>5, <1>6, <1>7, <1>8, <1>9, <1>10, <1>11, <1>12, <1>13, <1>14,
          <1>15

LEMMA ReadKeeps ==
  ASSUME ChainTypeOK, MonitorInv, ~stopped, Read
  PROVE  MonitorInv' /\ ChainStep /\ recorded' = recorded
<1>1. BooksInv'
  BY ReadBooks DEF MonitorInv
<1>2. phase' = "read" /\ ~stop' /\ ~stopped' /\ recorded' = recorded
  BY DEF Read, MonitorInv, PollInv, PollTrue
<1>3. PollInv'
  BY <1>2 DEF PollInv, PollTrue, ActTrue
<1> QED BY <1>1, <1>2, <1>3 DEF MonitorInv, ChainStep

LEMMA JudgeKeeps ==
  ASSUME ChainTypeOK, MonitorInv, ~stopped, Judge
  PROVE  MonitorInv' /\ Calm
<1>1. BooksInv /\ PollInv /\ at \in Nat \ {0} /\ now \in Nat
  BY DEF MonitorInv, BooksInv, BooksOK, ChainTypeOK
<1>2. /\ phase = "judge" /\ Calm /\ at' = at
      /\ UNCHANGED <<known, faulty, stopped>>
  BY DEF Judge, Calm
<1>3. BooksInv' /\ \A q : Earned(q) => Earned(q)'
  BY <1>1, <1>2, CalmKeeps
<1>4. PICK p \in left : Decide(p, Duty(p, now), now)
  BY DEF Judge
<1>5. p \in PAYMENTS
  BY <1>1, <1>2 DEF PollInv, PollTrue, BooksInv, BooksOK
<1> DEFINE duty == Duty(p, now)
<1>6. /\ duty \in {"pass", "freeze", "open", "cancel", "expire"}
      /\ duty = "freeze" => Earned(p)
      /\ duty = "open" => challenged[p] = Never
      /\ duty = "cancel" => p \notin faulty
      /\ duty \in {"cancel", "expire"} => challenged[p] # Never
  BY <1>1, <1>5, DutyTrue
<1>7. Decide(p, duty, now) /\ now <= now' /\ challenged' = challenged
  BY <1>1, <1>2, <1>4 DEF Calm
<1> HIDE DEF duty
<1>8. PollInv'
  BY <1>1, <1>2, <1>3, <1>6, <1>7, DecideKeeps
<1> QED BY <1>2, <1>3, <1>8 DEF MonitorInv

\* The call being made is about a record of the poll's.
LEMMA ActOurs ==
  ASSUME ChainTypeOK, MonitorInv, phase \in {"estimate", "mine"}
  PROVE  /\ act.payment \in left /\ act.payment \in PAYMENTS
         /\ act.do \in {"open", "join", "cancel", "expire"}
         /\ BooksInv /\ PollInv /\ at \in Nat \ {0} /\ now \in Nat
BY DEF MonitorInv, PollInv, ActTrue, PollTrue, BooksInv, BooksOK, ChainTypeOK

LEMMA TurnsToJoinKeeps ==
  ASSUME ChainTypeOK, MonitorInv, ~stopped, TurnsToJoin
  PROVE  MonitorInv' /\ Calm
<1>1. /\ Calm /\ at' = at /\ faulty' = faulty
      /\ UNCHANGED <<phase, left, stop, stopped, claimed>>
      /\ phase = "estimate" /\ act.do = "open" /\ challenge[act.payment].status # "none"
      /\ act' = [act EXCEPT !.do = "join"]
  BY DEF TurnsToJoin, Calm
<1>2. BooksInv' /\ \A q : Earned(q) => Earned(q)'
  BY <1>1, ActOurs, CalmKeeps
<1>3. act'.payment = act.payment /\ act'.at = act.at /\ act'.do = "join"
  BY <1>1 DEF MonitorInv, PollInv, ActTrue
<1>4. PollInv'
  BY <1>1, <1>2, <1>3 DEF MonitorInv, Calm, PollInv, PollTrue, ActTrue
<1> QED BY <1>1, <1>2, <1>4 DEF MonitorInv

LEMMA TooLateToJoinKeeps ==
  ASSUME ChainTypeOK, MonitorInv, ~stopped, TooLateToJoin
  PROVE  MonitorInv' /\ UNCHANGED <<now, recorded, challenge, news>>
<1> DEFINE p == act.payment
<1>1. /\ phase = "estimate" /\ act.do = "join" /\ challenge[p].status \notin {"open", "answered"}
      /\ challenged' = [challenged EXCEPT ![p] = 0] /\ Decide(p, "pass", now)
      /\ UNCHANGED <<now, recorded, challenge, news, known, answered, expired, joinedAnswered,
                     cancelled, lost, at, faulty, stopped>>
  BY DEF TooLateToJoin
<1>2. p \in left /\ p \in PAYMENTS /\ BooksInv /\ PollInv /\ now \in Nat
  BY <1>1, ActOurs
<1>3. challenged[p] = Never /\ challenge[p].status # "none"
  BY <1>1, <1>2 DEF PollInv, ActTrue
<1> HIDE DEF p
<1>4. challenge[p].status \in {"delivered", "cancelled", "expired"}
  BY <1>1, <1>2, <1>3 DEF ChainTypeOK, ChallengeRecord, Status
<1>5. BooksInv'
  BY <1>1, <1>2, <1>3, <1>4, TooLateBooks
<1>6. \A q : Earned(q) => Earned(q)'
  BY <1>1 DEF Earned, WaitedOut, TooLate
<1>7. PollInv'
  BY <1>1, <1>2, <1>6, DecideKeeps
<1> QED BY <1>1, <1>5, <1>7 DEF MonitorInv

LEMMA CancelRefusedKeeps ==
  ASSUME ChainTypeOK, MonitorInv, ~stopped, CancelRefused \/ (CallFails /\ act.do = "cancel")
  PROVE  MonitorInv' /\ Calm
<1> DEFINE p == act.payment
           duty == Overdue(p, act.at)
<1>1. /\ phase \in {"estimate", "mine"} /\ act.do = "cancel" /\ Calm /\ at' = at
      /\ Decide(p, duty, act.at) /\ UNCHANGED <<known, faulty, stopped>>
  BY DEF CancelRefused, CallFails, Fails, Calm
<1>2. /\ p \in left /\ p \in PAYMENTS /\ BooksInv /\ PollInv /\ at \in Nat \ {0}
      /\ act.at \in Nat /\ act.at <= now' /\ p \notin faulty /\ challenged[p] # Never
  BY <1>1, ActOurs DEF PollInv, ActTrue, Calm
<1>3. BooksInv' /\ \A q : Earned(q) => Earned(q)'
  BY <1>1, <1>2, CalmKeeps
<1>4. duty \in {"pass", "expire"}
  BY <1>2 DEF Overdue
<1>5. challenged' = challenged
  BY <1>1 DEF Calm
<1> HIDE DEF p, duty
<1>6. PollInv'
  BY <1>1, <1>2, <1>3, <1>4, <1>5, DecideKeeps
<1> QED BY <1>1, <1>3, <1>6 DEF MonitorInv

LEMMA RevertsKeeps ==
  ASSUME ChainTypeOK, MonitorInv, ~stopped, Reverts \/ (CallFails /\ act.do # "cancel")
  PROVE  MonitorInv' /\ Calm
<1>1. Calm /\ Idle /\ ~stopped'
  BY DEF Reverts, CallFails, Fails, Ends, Calm
<1>2. PollInv' /\ at' \in Nat \ {0}
  BY <1>1, IdleKeeps
<1> QED BY <1>1, <1>2, CalmKeeps DEF MonitorInv

\* A call of the monitor's touches one challenge.
LEMMA LandsTouches ==
  ASSUME ChainTypeOK, NEW p \in PAYMENTS, act.do \in {"open", "join", "cancel", "expire"}, Lands(p)
  PROVE  /\ Touches(p) /\ ChainStep
         /\ act.do = "expire" => challenge'[p].status = "expired"
<1>1. CASE act.do = "open"
  BY <1>1, OpenTouches DEF Lands, ChainStep
<1>2. CASE act.do = "join"
  BY <1>2, JoinTouches DEF Lands, ChainStep
<1>3. CASE act.do = "cancel"
  BY <1>3, CancelTouches DEF Lands, ChainStep
<1>4. CASE act.do = "expire"
  BY <1>4, ExpireTouches DEF Lands, ChainStep
<1> QED BY <1>1, <1>2, <1>3, <1>4

LEMMA LandsBooks ==
  ASSUME ChainTypeOK, MonitorInv, phase = "mine", at' \in Nat \ {0},
         Lands(act.payment), NotedOrLost(act.payment)
  PROVE  BooksInv'
<1> DEFINE p == act.payment
<1>1. /\ p \in PAYMENTS /\ act.do \in {"open", "join", "cancel", "expire"} /\ BooksInv
      /\ act.do = "cancel" => challenged[p] # Never
  BY ActOurs DEF PollInv, ActTrue
<1>2. CASE act.do = "open"
  BY <1>1, <1>2, OpenLands DEF Lands
<1>3. CASE act.do = "join"
  BY <1>1, <1>3, JoinLands DEF Lands
<1>4. CASE act.do = "cancel"
  BY <1>1, <1>4, CancelLands DEF Lands
<1>5. CASE act.do = "expire"
  BY <1>1, <1>5, ExpireLands DEF Lands
<1> QED BY <1>1, <1>2, <1>3, <1>4, <1>5

\* What another record earned is not the landed call's to change.
LEMMA LandsEarned ==
  ASSUME ChainTypeOK, NEW p \in PAYMENTS, Touches(p), faulty' = faulty, lost \subseteq lost'
  PROVE  \A q \in PAYMENTS \ {p} : Earned(q) => Earned(q)'
<1>1. ASSUME NEW q \in PAYMENTS \ {p}, Earned(q)
      PROVE  Earned(q)'
  <2>1. /\ now \in Nat /\ now' = now /\ TimeOf[q] \in Nat
        /\ challenge'[q] = challenge[q] /\ challenge[q].deadline \in Nat
    BY DomainsAssumption DEF ChainTypeOK, ChallengeRecord, Touches
  <2> QED BY <1>1, <2>1, EarnedStays
<1> QED BY <1>1

LEMMA MinedKeeps ==
  ASSUME ChainTypeOK, MonitorInv, ~stopped, Mined
  PROVE  MonitorInv' /\ ChainStep /\ recorded' = recorded
<1>0. PICK p : p = act.payment
  OBVIOUS
<1> DEFINE duty == IF act.do = "expire" THEN "freeze" ELSE "pass"
<1>1. /\ phase = "mine" /\ Noted(p) /\ Decide(p, duty, now)
      /\ \/ Lands(p)
         \/ act.do = "expire" /\ ~Expirable(p) /\ UNCHANGED chainVars
      /\ UNCHANGED <<at, faulty, lost>>
  BY <1>0 DEF Mined
<1>2. /\ p \in left /\ p \in PAYMENTS /\ BooksInv /\ PollInv /\ at \in Nat \ {0} /\ now \in Nat
      /\ act.do \in {"open", "join", "cancel", "expire"}
  BY <1>0, <1>1, ActOurs
<1>3. /\ Touches(p) /\ ChainStep
      /\ act.do = "expire" => challenge'[p].status = "expired"
      /\ BooksInv'
  <2>1. CASE Lands(p)
    BY <1>0, <1>1, <1>2, <2>1, LandsTouches, LandsBooks DEF NotedOrLost
  <2>2. CASE act.do = "expire" /\ ~Expirable(p) /\ UNCHANGED chainVars
    <3>1. challenge[p].status = "expired"
      BY <1>0, <1>1, <1>2, <2>2 DEF PollInv, ActTrue, Expiring, Expirable
    <3>2. /\ expired' = expired \cup {p}
          /\ UNCHANGED <<challenge, news, known, challenged, answered, joinedAnswered, cancelled,
                         lost, at>>
      BY <1>1, <2>2 DEF Noted
    <3>3. BooksInv'
      BY <1>2, <3>1, <3>2, RevertedBooks
    <3>4. Touches(p) /\ ChainStep
      BY <2>2 DEF Touches, ChainStep, ChainTypeOK
    <3> QED BY <3>1, <3>2, <3>3, <3>4
  <2> QED BY <1>1, <2>1, <2>2
<1>5. /\ \A q \in known \ left : Earned(q) => Earned(q)'
      /\ known' = known /\ stopped' = stopped /\ now <= now' /\ recorded' = recorded
  <2>1. known' = known /\ stopped' = stopped
    BY <1>1 DEF Noted
  <2>2. known \ left \subseteq PAYMENTS \ {p}
    BY <1>2 DEF BooksInv, BooksOK
  <2>3. now' = now /\ recorded' = recorded
    BY <1>3 DEF Touches
  <2> QED BY <1>1, <1>2, <1>3, <2>1, <2>2, <2>3, LandsEarned
<1>6. duty \in {"pass", "freeze"} /\ (duty = "freeze" => Earned(p)')
  BY <1>3 DEF Earned
<1> HIDE DEF duty
<1>7. PollInv'
  BY <1>1, <1>2, <1>5, <1>6, DecideKeeps
<1> QED BY <1>3, <1>5, <1>7 DEF MonitorInv

LEMMA ReceiptLostKeeps ==
  ASSUME ChainTypeOK, MonitorInv, ~stopped, ReceiptLost
  PROVE  MonitorInv' /\ ChainStep /\ recorded' = recorded
<1> DEFINE p == act.payment
           duty == Overdue(p, act.at)
<1>1. /\ phase = "mine" /\ Lands(p) /\ lost' = lost \cup {p}
      /\ \/ challenged' = challenged
         \/ act.do = "join" /\ challenged' = [challenged EXCEPT ![p] = challenge'[p].deadline]
      /\ UNCHANGED <<known, answered, expired, joinedAnswered, cancelled, claimed, stopped>>
      /\ \/ act.do = "cancel" /\ Decide(p, duty, act.at) /\ UNCHANGED <<at, faulty>>
         \/ Ends
  BY DEF ReceiptLost, Fails
<1>2. /\ p \in left /\ p \in PAYMENTS /\ BooksInv /\ PollInv /\ at \in Nat \ {0} /\ now \in Nat
      /\ act.do \in {"open", "join", "cancel", "expire"}
  BY <1>1, ActOurs
<1>3. Touches(p) /\ ChainStep /\ now' = now /\ recorded' = recorded
  BY <1>1, <1>2, LandsTouches DEF Touches
<1>4. at' \in Nat \ {0}
  BY <1>1, <1>2 DEF Ends, Idle
<1>5. BooksInv'
  BY <1>1, <1>4, LandsBooks DEF NotedOrLost
<1>6. CASE Ends
  <2>1. PollInv'
    BY <1>1, <1>6, IdleKeeps DEF Ends
  <2> QED BY <1>3, <1>5, <2>1 DEF MonitorInv
<1>7. CASE act.do = "cancel" /\ Decide(p, duty, act.at) /\ UNCHANGED <<at, faulty>>
  <2>1. act.at \in Nat /\ act.at <= now' /\ p \notin faulty /\ challenged'[p] # Never
    BY <1>1, <1>2, <1>3, <1>7 DEF PollInv, ActTrue
  <2>2. duty \in {"pass", "expire"}
    BY <2>1 DEF Overdue
  <2>3. \A q \in known \ left : Earned(q) => Earned(q)'
    <3>1. known \ left \subseteq PAYMENTS \ {p}
      BY <1>2 DEF BooksInv, BooksOK
    <3> QED BY <1>1, <1>2, <1>3, <1>7, <3>1, LandsEarned
  <2>4. UNCHANGED <<known, faulty, stopped>>
    BY <1>1, <1>7
  <2> HIDE DEF duty, p
  <2>5. PollInv'
    BY <1>1, <1>2, <1>7, <2>1, <2>2, <2>3, <2>4, DecideKeeps
  <2> QED BY <1>3, <1>5, <2>5 DEF MonitorInv
<1> QED BY <1>1, <1>6, <1>7

LEMMA WatchesKeeps ==
  ASSUME ChainTypeOK, MonitorInv, Watches
  PROVE  MonitorInv' /\ ChainStep /\ recorded' = recorded
<1>1. ASSUME Calm
      PROVE  ChainStep /\ recorded' = recorded
  BY <1>1 DEF Calm, ChainStep
<1>2. CASE \/ Poll \/ Claims \/ Looks \/ ClaimOn \/ ClaimMined \/ Claimed \/ Unclaimed
           \/ Estimated \/ Judged \/ (\E d \in Domain : FreezeOn(d)) \/ Frozen \/ ClaimLost \/ PollFails
           \/ Deliveries
  BY <1>1, <1>2, RoundKeeps DEF Watches
<1>3. CASE Judge \/ TurnsToJoin \/ CancelRefused \/ Reverts \/ CallFails
  BY <1>1, <1>3, JudgeKeeps, TurnsToJoinKeeps, CancelRefusedKeeps, RevertsKeeps DEF Watches
<1>4. CASE TooLateToJoin
  BY <1>4, TooLateToJoinKeeps DEF Watches, ChainStep
<1>5. CASE Read \/ Mined \/ ReceiptLost
  BY <1>5, ReadKeeps, MinedKeeps, ReceiptLostKeeps DEF Watches
<1> QED BY <1>2, <1>3, <1>4, <1>5 DEF Watches, MonitorNext, MonitorStep, Faults

----------------------------------------------------------------------------
(* All of them at once.                                                    *)

ServiceInv == ChainTypeOK /\ FacilitatorInv /\ AnswererInv /\ MonitorInv

LEMMA ServiceStarts == ServiceInit => ServiceInv
<1> SUFFICES ASSUME ServiceInit PROVE ServiceInv
  OBVIOUS
<1> USE DEF ServiceInit, ChainInit, FacilitatorInit, AnswererInit, MonitorInit
<1>1. ChainTypeOK
  <2>1. Unchallenged \in ChallengeRecord
    BY DEF Unchallenged, ChallengeRecord, Status
  <2> QED BY <2>1 DEF ChainTypeOK
<1>2. CallsTypeOK
  BY DEF CallsTypeOK, Call
<1>3. QueueInv
  BY DEF QueueInv, Waiting
<1>4. RecordedInv
  BY FacilitatorAssumption DEF RecordedInv, Accounted
<1>5. AnswererInv
  BY DEF AnswererInv, ReceiptsDisjoint
<1>6. BooksInv
  <2>1. BooksOK
    BY DEF BooksOK, Moment
  <2>2. \A p \in PAYMENTS : BookTrue(p)
    BY DEF BookTrue, Unchallenged, Followed
  <2>3. NewsTrue
    BY DEF NewsTrue
  <2> QED BY <2>1, <2>2, <2>3 DEF BooksInv
<1>7. PollInv
  BY DEF PollInv, PollTrue, ActTrue
<1> QED BY <1>1, <1>2, <1>3, <1>4, <1>5, <1>6, <1>7 DEF ServiceInv, FacilitatorInv, MonitorInv

\* What is not the monitor's doing, the chains see as Elsewhere.
LEMMA NotTheMonitors ==
  ASSUME ChainTypeOK, MonitorInv, UNCHANGED monitorVars, Elsewhere
  PROVE  ChainTypeOK' /\ MonitorInv'
<1>1. ChainStep
  BY DEF Elsewhere, ChainStep
<1>2. BooksInv
  BY DEF MonitorInv
<1> QED BY <1>1, <1>2, ChainKept, ElsewhereKeeps

LEMMA ServiceKeeps ==
  ASSUME ServiceInv, [ServiceNext]_serviceVars
  PROVE  ServiceInv'
<1> USE DEF ServiceInv
<1>1. CASE FacilitatorNext /\ UNCHANGED <<answererVars, monitorVars>>
  <2>1. FacilitatorInv'
    BY <1>1, CheckKeeps, PrepareKeeps, SendKeeps, IncludeKeeps, ReceiptKeeps DEF FacilitatorNext
  <2>2. Elsewhere
    <3>1. ASSUME NEW c \in CALLS, Include(c)
          PROVE  Elsewhere
      <4>1. calls[c].payment \in PAYMENTS
        BY <3>1 DEF Include, FacilitatorInv, CallsTypeOK, RecordedInv, Accounted
      <4> QED BY <3>1, <4>1 DEF Include, Elsewhere
    <3>2. ASSUME NEW c \in CALLS,
                 \/ \E p \in PAYMENTS : Check(c, p)
                 \/ Prepare(c) \/ Send(c) \/ SendUnheard(c) \/ Receipt(c) \/ ReceiptUnheard(c)
          PROVE  Elsewhere
      BY <3>2 DEF Check, Prepare, Send, SendUnheard, Receipt, ReceiptUnheard, Elsewhere
    <3> QED BY <1>1, <3>1, <3>2 DEF FacilitatorNext
  <2>3. UNCHANGED answererVars /\ UNCHANGED monitorVars
    BY <1>1
  <2>4. AnswererInv' /\ ChainTypeOK' /\ MonitorInv'
    BY <2>2, <2>3, OthersLeaveHandings, NotTheMonitors
  <2> QED BY <2>1, <2>4
<1>2. CASE AnswererNext /\ UNCHANGED <<facilitatorVars, monitorVars>>
  <2>1. AnswererInv'
    BY <1>2, ReceiveKeeps, SignsKeeps DEF AnswererNext
  <2>2. UNCHANGED chainVars
    BY <1>2 DEF AnswererNext, Receive, Signs
  <2>3. Elsewhere /\ recorded' = recorded
    BY <2>2 DEF Elsewhere
  <2>4. UNCHANGED facilitatorVars /\ UNCHANGED monitorVars
    BY <1>2
  <2>5. FacilitatorInv' /\ ChainTypeOK' /\ MonitorInv'
    BY <2>3, <2>4, OthersLeaveCalls, NotTheMonitors
  <2> QED BY <2>1, <2>5
<1>3. CASE Watches /\ UNCHANGED <<facilitatorVars, answererVars>>
  <2>1. MonitorInv' /\ ChainStep /\ recorded' = recorded
    BY <1>3, WatchesKeeps
  <2>2. ChainTypeOK'
    BY <2>1, ChainKept DEF MonitorInv
  <2>3. UNCHANGED facilitatorVars /\ UNCHANGED answererVars
    BY <1>3
  <2>4. FacilitatorInv' /\ AnswererInv'
    BY <2>1, <2>3, OthersLeaveCalls, OthersLeaveHandings
  <2> QED BY <2>1, <2>2, <2>4
<1>4. ASSUME Elsewhere, recorded' = recorded \/ \E p \in PAYMENTS : Record(p, "direct"),
             UNCHANGED facilitatorVars, UNCHANGED answererVars, UNCHANGED monitorVars
      PROVE  ServiceInv'
  <2>1. FacilitatorInv' /\ AnswererInv'
    BY <1>4, OthersLeaveCalls, OthersLeaveHandings
  <2>2. ChainTypeOK' /\ MonitorInv'
    BY <1>4, NotTheMonitors
  <2> QED BY <2>1, <2>2
<1>5. CASE Others /\ UNCHANGED <<facilitatorVars, answererVars, monitorVars>>
  <2>1. Elsewhere
    BY <1>5 DEF Others, Elsewhere, Freeze
  <2>2. recorded' = recorded \/ \E p \in PAYMENTS : Record(p, "direct")
    BY <1>5 DEF Others, Tick, Answer, Post, Open, Expire, Becomes, Freeze
  <2>3. UNCHANGED facilitatorVars /\ UNCHANGED answererVars /\ UNCHANGED monitorVars
    BY <1>5
  <2> QED BY <1>4, <2>1, <2>2, <2>3
<1>6. CASE UNCHANGED serviceVars
  <2>1. /\ Elsewhere /\ recorded' = recorded
        /\ UNCHANGED facilitatorVars /\ UNCHANGED answererVars /\ UNCHANGED monitorVars
    BY <1>6 DEF serviceVars, Elsewhere
  <2> QED BY <1>4, <2>1
<1> QED BY <1>1, <1>2, <1>3, <1>5, <1>6 DEF ServiceNext

LEMMA ServiceInvariant == ServiceSpec => []ServiceInv
BY ServiceStarts, ServiceKeeps, PTL DEF ServiceSpec

(***************************************************************************)
(* However many calls of settle overlap, and whoever else settles or       *)
(* freezes between their steps, a call told success recorded its payment;  *)
(* a call whose transaction recorded its payment is told so unless the     *)
(* node's answer to it was lost; and a nonce read is still the chain's     *)
(* when the transaction goes out under it (facilitator.ts: settle and its  *)
(* chained sends).                                                         *)
(***************************************************************************)
THEOREM CallsTold == ServiceSpec => []CallsTruthful
<1>1. ServiceInv => CallsTruthful
  BY DEF ServiceInv, FacilitatorInv, QueueInv, RecordedInv, CallsTruthful
<1> QED BY <1>1, ServiceInvariant, PTL

(***************************************************************************)
(* Whatever the batches name and however the calls of receive interleave   *)
(* at the gate's await, no two receipts signed name one settlement         *)
(* (answerer.ts, receive).                                                 *)
(***************************************************************************)
THEOREM ReceiptsSigned == ServiceSpec => []ReceiptsDisjoint
<1>1. ServiceInv => ReceiptsDisjoint
  BY DEF ServiceInv, AnswererInv
<1> QED BY <1>1, ServiceInvariant, PTL

(***************************************************************************)
(* The monitor never freezes early: for every number of payments and       *)
(* domains, every window, wait and age, whatever calls are refused or lost *)
(* and whatever the chains do while a poll waits, a freeze without a claim *)
(* has a record of its poll's stock behind it (monitor.ts: poll and its    *)
(* read, challenge, cancel and freezeAll).                                 *)
(***************************************************************************)
THEOREM FreezesEarned == ServiceSpec => []FreezeEarned
<1>1. ServiceInv => FreezeEarned
  BY PollEarns DEF ServiceInv, MonitorInv
<1> QED BY <1>1, ServiceInvariant, PTL
============================================================================
