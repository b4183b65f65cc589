------------------------------ MODULE Monitor ------------------------------
(***************************************************************************)
(* The principal's monitor.  A poll reads the domains one after another,   *)
(* claims if a unit was spent twice, takes stock once of what is out of    *)
(* order, and then judges the records in signed order with a clock it      *)
(* reads anew for each and transactions it waits for; deliveries, other    *)
(* parties and the chains run on between those steps, and a call of its    *)
(* own may fail, or land without its saying so, which ends the poll.       *)
(***************************************************************************)
EXTENDS Domains

CONSTANTS ON_REQUEST, DECIDE, MAX_FAILURES

ASSUME MonitorAssumption ==
  DECIDE \in Nat /\ DECIDE < WINDOW /\ ON_REQUEST \in BOOLEAN /\ MAX_FAILURES \in Nat

VARIABLES
  known, opened, proven,              \* records read; openings and proofs held
  challenged, answered, requested,    \* payment -> a time, or Never
  expired, joinedAnswered, cancelled, \* sets of payments
  claimed, stopped,                   \* claimed, frozen
  phase, at, left, faulty, act,       \* where the poll is
  stop,                               \* a claim went through, or a record asks for the freeze
  failures, lost                      \* calls that failed; payments whose receipt was lost
books == <<known, opened, proven, challenged, answered, requested, expired,
           joinedAnswered, cancelled, claimed, stopped>>
poll == <<phase, at, left, faulty, act, stop>>
faultVars == <<failures, lost>>
monitorVars == <<books, poll, faultVars>>

Never == -1
NoAct == [do |-> "none", payment |-> "none"]

MonitorInit ==
  /\ known = {} /\ opened = {} /\ proven = {}
  /\ challenged = [p \in PAYMENTS |-> Never] /\ answered = challenged /\ requested = challenged
  /\ expired = {} /\ joinedAnswered = {} /\ cancelled = {}
  /\ claimed = FALSE /\ stopped = FALSE
  /\ phase = "idle" /\ at = 1 /\ left = {} /\ faulty = {} /\ act = NoAct /\ stop = FALSE
  /\ failures = 0 /\ lost = {}

(***************************************************************************)
(* Deliveries off chain, of payments the agent settled: an opening alone,  *)
(* or a proof, which counts once every verifier accepts it.                *)
(***************************************************************************)
DeliverProof(p) ==
  /\ p \in Provable \ proven /\ recorded[p] # "no"
  /\ proven' = proven \cup {p}
  /\ UNCHANGED <<known, opened, challenged, answered, requested, expired, joinedAnswered,
                 cancelled, claimed, stopped, poll, faultVars, chainVars>>

DeliverOpening(p) ==
  /\ p \in Provable \ opened /\ recorded[p] # "no"
  /\ opened' = opened \cup {p}
  /\ UNCHANGED <<known, proven, challenged, answered, requested, expired, joinedAnswered,
                 cancelled, claimed, stopped, poll, faultVars, chainVars>>

(***************************************************************************)
(* read: everything the domain emitted since the last read.                *)
(***************************************************************************)
Idle == phase' = "idle" /\ at' = 1 /\ left' = {} /\ act' = NoAct /\ stop' = FALSE

Poll ==
  /\ phase = "idle"
  /\ phase' = "read"
  /\ UNCHANGED <<books, at, left, faulty, act, stop, faultVars, chainVars>>

Told(kind, es) == {e.payment : e \in {f \in es : f.kind = kind}}
AnswerTime(p, es) == (CHOOSE e \in es : e.kind = "answered" /\ e.payment = p).at

Read ==
  /\ phase = "read" /\ at <= Len(DOMAINS)
  /\ LET es == news[DOMAINS[at]]
         heard == Told("answered", es) \ joinedAnswered
     IN
     /\ known' = known \cup Told("settled", es)
     /\ answered' = [p \in PAYMENTS |-> IF p \in heard THEN AnswerTime(p, es) ELSE answered[p]]
     /\ requested' = [p \in PAYMENTS |->
                        IF p \in heard /\ challenged[p] # Never /\ requested[p] = Never
                        THEN AnswerTime(p, es) ELSE requested[p]]
     /\ expired' = expired \cup Told("expired", es)
     /\ opened' = opened \cup Told("posted", es)
     /\ proven' = proven \cup Told("posted", es)
  /\ news' = [news EXCEPT ![DOMAINS[at]] = {}]
  /\ at' = at + 1
  /\ UNCHANGED <<challenged, joinedAnswered, cancelled, claimed, stopped, phase, left,
                 faulty, act, stop, faultVars, nature, now, recorded, frozen, paid, challenge>>

(***************************************************************************)
(* What is out of order, taken once a poll.                                *)
(***************************************************************************)
Asked(p) == requested[p] # Never /\ now >= requested[p] + WAIT
Backed(p) == p \in proven /\ (p \in opened \/ (ON_REQUEST /\ ~Asked(p)))
Breaches(p) == p \in opened /\ nature[p] = "broken"
Faulty(p) == ~Backed(p) \/ Breaches(p)
SpentTwice == Cardinality({p \in known : nature[p] = "twice"}) > 1

Claims ==
  /\ phase = "read" /\ at > Len(DOMAINS) /\ ~claimed /\ SpentTwice
  /\ phase' = "claim" /\ at' = 1
  /\ UNCHANGED <<books, left, faulty, act, stop, faultVars, chainVars>>

TakeStock ==
  /\ IF stopped THEN Idle /\ UNCHANGED faulty
     ELSE /\ phase' = "judge" /\ left' = known /\ faulty' = {p \in known : Faulty(p)}
          /\ UNCHANGED <<at, act, stop>>
  /\ UNCHANGED <<books, faultVars, chainVars>>

Looks ==
  /\ phase = "read" /\ at > Len(DOMAINS) /\ (claimed \/ ~SpentTwice)
  /\ TakeStock

\* One domain after another; a domain whose simulation refuses is skipped.
ClaimOn ==
  /\ phase = "claim" /\ at <= Len(DOMAINS)
  /\ IF paid[DOMAINS[at]]
     THEN at' = at + 1 /\ UNCHANGED phase
     ELSE phase' = "claiming" /\ UNCHANGED at
  /\ UNCHANGED <<books, left, faulty, act, stop, faultVars, chainVars>>

\* The receipt's status is not read: a claim that came second counts as one
\* that went through.
ClaimMined ==
  /\ phase = "claiming"
  /\ Claim(DOMAINS[at]) \/ (paid[DOMAINS[at]] /\ UNCHANGED chainVars)
  /\ phase' = "claim" /\ at' = at + 1 /\ stop' = TRUE
  /\ UNCHANGED <<books, left, faulty, act, faultVars>>

Claimed ==
  /\ phase = "claim" /\ at > Len(DOMAINS) /\ stop
  /\ claimed' = TRUE /\ stopped' = TRUE /\ Idle
  /\ UNCHANGED <<known, opened, proven, challenged, answered, requested, expired,
                 joinedAnswered, cancelled, faulty, faultVars, chainVars>>

Unclaimed == phase = "claim" /\ at > Len(DOMAINS) /\ ~stop /\ TakeStock

\* A call of the claim's that fails, landed or not, is taken for a refusal.
ClaimLost ==
  /\ phase \in {"claim", "claiming"} /\ at <= Len(DOMAINS) /\ failures < MAX_FAILURES
  /\ UNCHANGED chainVars \/ (phase = "claiming" /\ Claim(DOMAINS[at]))
  /\ phase' = "claim" /\ at' = at + 1 /\ failures' = failures + 1
  /\ UNCHANGED <<lost, books, left, faulty, act, stop>>

(***************************************************************************)
(* The judgement of one record, at the time n read for it.                 *)
(***************************************************************************)
\* Mutated: an answer is taken for a delivery that never came.
OverdueAtOnce(p, n) ==
  CASE answered[p] = Never /\ challenged[p] # 0 /\ n > challenged[p] -> "expire"
    [] answered[p] # Never /\ p \in faulty -> "freeze"
    [] OTHER -> "pass"

Overdue(p, n) ==
  CASE answered[p] = Never /\ challenged[p] # 0 /\ n > challenged[p] -> "expire"
    [] answered[p] # Never /\ n >= answered[p] + WAIT /\ p \in faulty -> "freeze"
    [] OTHER -> "pass"

Duty(p, n) ==
  CASE challenged[p] = Never /\ (n < TimeOf[p] + DECIDE \/ p \notin faulty) -> "pass"
    [] challenged[p] = Never /\ n >= TimeOf[p] + DECIDE /\ p \in faulty ->
         IF n < TimeOf[p] + WINDOW THEN "open" ELSE "freeze"
    [] challenged[p] # Never /\ p \in expired -> "freeze"
    [] challenged[p] # Never /\ p \in cancelled \ expired -> "pass"
    [] challenged[p] # Never /\ p \notin expired \cup cancelled ->
         IF p \in faulty THEN Overdue(p, n) ELSE "cancel"

\* What is decided needs no call, or is one to make.
Decide(p, duty, n) ==
  IF duty \in {"pass", "freeze"}
  THEN /\ phase' = "judge" /\ left' = left \ {p} /\ act' = NoAct
       /\ stop' = (stop \/ duty = "freeze")
  ELSE /\ phase' = "estimate" /\ act' = [do |-> duty, payment |-> p, at |-> n]
       /\ UNCHANGED <<left, stop>>

Judge ==
  /\ phase = "judge"
  /\ \E p \in left :
       /\ \A q \in left : TimeOf[p] <= TimeOf[q]
       /\ Decide(p, Duty(p, now), now)
  /\ UNCHANGED <<books, at, faulty, faultVars, chainVars>>

(***************************************************************************)
(* A transaction: its simulation, and then the block it lands in.          *)
(***************************************************************************)
Takes(do, p) ==
  CASE do = "open" -> Openable(p)
    [] do = "join" -> Joinable(p)
    [] do = "cancel" -> Cancellable(p)
    [] do = "expire" -> Expirable(p)

\* The poll throws, or has nothing left to do: the stock is dropped with it.
Ends == Idle /\ faulty' = {}

Estimated ==
  /\ phase = "estimate" /\ Takes(act.do, act.payment)
  /\ phase' = "mine"
  /\ UNCHANGED <<books, at, left, faulty, act, stop, faultVars, chainVars>>

\* AlreadyChallenged: join instead.
TurnsToJoin ==
  /\ phase = "estimate" /\ act.do = "open" /\ challenge[act.payment].status # "none"
  /\ act' = [act EXCEPT !.do = "join"]
  /\ UNCHANGED <<books, phase, at, left, faulty, stop, faultVars, chainVars>>

\* NotOpen: the challenge is over, and no deadline is awaited.
TooLateToJoin ==
  LET p == act.payment IN
  /\ phase = "estimate" /\ act.do = "join" /\ challenge[p].status \notin {"open", "answered"}
  /\ challenged' = [challenged EXCEPT ![p] = 0]
  /\ Decide(p, "pass", now)
  /\ UNCHANGED <<known, opened, proven, answered, requested, expired, joinedAnswered, cancelled,
                 claimed, stopped, at, faulty, faultVars, chainVars>>

CancelRefused ==
  /\ phase \in {"estimate", "mine"} /\ act.do = "cancel" /\ ~Cancellable(act.payment)
  /\ Decide(act.payment, Overdue(act.payment, act.at), act.at)
  /\ UNCHANGED <<books, at, faulty, faultVars, chainVars>>

Reverts ==
  LET p == act.payment IN
  /\ \/ /\ phase = "estimate"
        /\ \/ act.do = "open" /\ challenge[p].status = "none"
           \/ act.do = "join" /\ challenge[p].status \in {"open", "answered"}
           \/ act.do = "expire"
     \/ phase = "mine" /\ act.do \in {"open", "join"}
  /\ ~Takes(act.do, p)
  /\ Ends
  /\ UNCHANGED <<books, faultVars, chainVars>>

Lands(p) ==
  CASE act.do = "open" -> Open(p, TRUE)
    [] act.do = "join" -> Join(p)
    [] act.do = "cancel" -> Cancel(p)
    [] act.do = "expire" -> Expire(p)

NoteChallenge(p) ==
  LET late == act.do = "join" /\ challenge[p].status = "answered" IN
  /\ challenged' = [challenged EXCEPT ![p] = challenge'[p].deadline]
  /\ answered' = IF late THEN [answered EXCEPT ![p] = now] ELSE answered
  /\ requested' = IF late THEN [requested EXCEPT ![p] = now] ELSE requested
  /\ joinedAnswered' = IF late THEN joinedAnswered \cup {p} ELSE joinedAnswered
  /\ UNCHANGED <<expired, cancelled>>

Noted(p) ==
  /\ IF act.do \in {"open", "join"}
     THEN NoteChallenge(p)
     ELSE /\ cancelled' = IF act.do = "cancel" THEN cancelled \cup {p} ELSE cancelled
          /\ expired' = IF act.do = "expire" THEN expired \cup {p} ELSE expired
          /\ UNCHANGED <<challenged, answered, requested, joinedAnswered>>
  /\ UNCHANGED <<known, opened, proven, claimed, stopped>>

\* An expiry's receipt is not read for its status: one that reverted is noted
\* as one that landed.
Mined ==
  LET p == act.payment IN
  /\ phase = "mine"
  /\ Lands(p) \/ (act.do = "expire" /\ ~Expirable(p) /\ UNCHANGED chainVars)
  /\ Noted(p)
  /\ Decide(p, IF act.do = "expire" THEN "freeze" ELSE "pass", now)
  /\ UNCHANGED <<at, faulty, faultVars>>

\* A challenge or an expiry that fails throws, a cancel counts as refused.
Fails ==
  IF act.do = "cancel"
  THEN Decide(act.payment, Overdue(act.payment, act.at), act.at) /\ UNCHANGED <<at, faulty>>
  ELSE Ends

\* The call never landed.
CallFails ==
  /\ phase \in {"estimate", "mine"} /\ failures < MAX_FAILURES
  /\ failures' = failures + 1
  /\ Fails
  /\ UNCHANGED <<lost, books, chainVars>>

\* The call landed and its receipt was lost, or what is read after a join's
\* receipt: then the deadline is noted, and not that an answer came before.
ReceiptLost ==
  LET p == act.payment IN
  /\ phase = "mine" /\ failures < MAX_FAILURES
  /\ failures' = failures + 1 /\ lost' = lost \cup {p}
  /\ Lands(p)
  /\ Fails
  /\ \/ UNCHANGED challenged
     \/ act.do = "join" /\ challenged' = [challenged EXCEPT ![p] = challenge'[p].deadline]
  /\ UNCHANGED <<known, opened, proven, answered, requested, expired, joinedAnswered, cancelled,
                 claimed, stopped>>

(***************************************************************************)
(* freezeAll, every domain at once, and the end of a poll.                 *)
(***************************************************************************)
Judged ==
  /\ phase = "judge" /\ left = {}
  /\ IF stop THEN phase' = "freeze" /\ left' = Domain /\ UNCHANGED <<at, act, stop, faulty>>
             ELSE Ends
  /\ UNCHANGED <<books, faultVars, chainVars>>

FreezeOn(d) ==
  /\ phase = "freeze" /\ d \in left
  /\ Freeze(d)
  /\ left' = left \ {d}
  /\ UNCHANGED <<books, phase, at, faulty, act, stop, faultVars>>

Frozen ==
  /\ phase = "freeze" /\ left = {}
  /\ stopped' = TRUE /\ Idle
  /\ UNCHANGED <<known, opened, proven, challenged, answered, requested, expired, joinedAnswered,
                 cancelled, claimed, faulty, faultVars, chainVars>>

\* A read, or a freeze, that fails ends the poll.
PollFails ==
  /\ phase \in {"read", "judge", "freeze"} /\ failures < MAX_FAILURES
  /\ failures' = failures + 1
  /\ Ends
  /\ UNCHANGED <<lost, books, chainVars>>

MonitorStep ==
  \/ Poll \/ Read \/ Claims \/ Looks \/ ClaimOn \/ ClaimMined \/ Claimed \/ Unclaimed
  \/ Judge \/ Estimated \/ TurnsToJoin \/ TooLateToJoin \/ CancelRefused \/ Reverts \/ Mined
  \/ Judged \/ (\E d \in Domain : FreezeOn(d)) \/ Frozen

Faults == ClaimLost \/ CallFails \/ ReceiptLost \/ PollFails

Deliveries == \E p \in PAYMENTS : DeliverProof(p) \/ DeliverOpening(p)

MonitorNext == MonitorStep \/ Faults \/ Deliveries

(***************************************************************************)
(* The monitor freezes no sooner than it may.  When it has frozen without  *)
(* a claim, some record was out of order when this poll took stock, and    *)
(* its challenge expired, or it was answered and the whole delivery wait   *)
(* has passed since the answer or, if later, the monitor's own join, or    *)
(* the acceptance window closed with no challenge of the monitor's.  A     *)
(* record whose receipt was lost is set aside.  The stock is the poll's: a *)
(* delivery that lands while the poll waits is seen by the next one.       *)
(***************************************************************************)
WaitedOut(p) ==
  challenge[p].status \in {"answered", "delivered"} /\ challenge[p].ours
    /\ now >= challenge[p].deadline

TooLate(p) == now >= TimeOf[p] + WINDOW /\ ~challenge[p].ours

FreezeEarned ==
  (phase = "freeze" \/ (stopped /\ ~claimed)) =>
    \E p \in known : \/ challenge[p].status = "expired"
                     \/ p \in faulty /\ (WaitedOut(p) \/ TooLate(p) \/ p \in lost)

(***************************************************************************)
(* A settlement no proof ever backs ends with the delegation frozen on     *)
(* every domain, whoever challenged it first, whatever calls were refused  *)
(* or lost on the way.  A claim that went through on one domain is set     *)
(* aside: a lost call on another is not made again.                        *)
(***************************************************************************)
UnbackedStopped ==
  \A p \in PAYMENTS :
    recorded[p] # "no" ~> (p \in proven \/ claimed \/ \A d \in Domain : frozen[d])
============================================================================
