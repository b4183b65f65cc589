------------------------------ MODULE Domains ------------------------------
(***************************************************************************)
(* The chains as the off-chain programs see them: per domain the           *)
(* delegation's reserve and its dispute contract, cut down to what the     *)
(* facilitator and the monitor call and read.  Reserve.tla and             *)
(* ValidityDispute.tla hold the contracts themselves.                      *)
(***************************************************************************)
EXTENDS Integers, Sequences, FiniteSets

CONSTANTS
  PAYMENTS, DOMAINS,        \* the payloads signed, and the domains in a fixed order
  DomainOf, TimeOf,         \* a payment's domain and the time it was signed for
  NATURES,                  \* what the payments may be: see nature
  MAX_AGE, WINDOW,          \* how old a payment may settle, and how old be challenged
  ANSWER, WAIT,             \* the answer window, and the delivery wait
  LAST                      \* the clock stops here

Domain == {DOMAINS[i] : i \in DOMAIN DOMAINS}

ASSUME DomainsAssumption ==
  /\ {MAX_AGE, WINDOW, ANSWER, WAIT, LAST} \subseteq Nat
  /\ MAX_AGE < WINDOW
  /\ DOMAINS \in Seq(Domain)
  /\ DomainOf \in [PAYMENTS -> Domain] /\ TimeOf \in [PAYMENTS -> Nat]

VARIABLES
  nature,      \* payment -> "honest", "stolen" (no proof exists), "twice" (spends
               \* another's unit) or "broken" (proved, but its opening breaks the policy)
  now, recorded, frozen, paid, challenge,
  news         \* domain -> the events the monitor has not read
chainVars == <<nature, now, recorded, frozen, paid, challenge, news>>

Provable == {p \in PAYMENTS : nature[p] # "stolen"}
Unchallenged == [status |-> "none", ours |-> FALSE, joined |-> FALSE, deadline |-> 0]

ChainInit ==
  /\ nature \in NATURES
  /\ now = 0
  /\ recorded = [p \in PAYMENTS |-> "no"]
  /\ frozen = [d \in Domain |-> FALSE] /\ paid = [d \in Domain |-> FALSE]
  /\ challenge = [p \in PAYMENTS |-> Unchallenged]
  /\ news = [d \in Domain |-> {}]

\* Of an answer the block's time is read too.
Emit(kind, p) ==
  news' = [news EXCEPT ![DomainOf[p]] =
             @ \cup {[kind |-> kind, payment |-> p, at |-> IF kind = "answered" THEN now ELSE 0]}]

(***************************************************************************)
(* The reserve.                                                            *)
(***************************************************************************)
Held(d) ==
  \E p \in PAYMENTS : DomainOf[p] = d /\ challenge[p].status = "open" /\ challenge[p].ours

Admits(p) ==
  /\ ~frozen[DomainOf[p]] /\ ~Held(DomainOf[p])
  /\ TimeOf[p] <= now /\ now <= TimeOf[p] + MAX_AGE
  /\ recorded[p] = "no"

Record(p, by) ==
  /\ Admits(p)
  /\ recorded' = [recorded EXCEPT ![p] = by]
  /\ Emit("settled", p)
  /\ UNCHANGED <<nature, now, frozen, paid, challenge>>

Freeze(d) ==
  /\ frozen' = [frozen EXCEPT ![d] = TRUE]
  /\ UNCHANGED <<nature, now, recorded, paid, challenge, news>>

\* The secret opens the record; a bond already paid reverts the call.
Claim(d) ==
  /\ ~paid[d]
  /\ frozen' = [frozen EXCEPT ![d] = TRUE] /\ paid' = [paid EXCEPT ![d] = TRUE]
  /\ UNCHANGED <<nature, now, recorded, challenge, news>>

(***************************************************************************)
(* The dispute contract.  Queues, prices and refunds are ValidityDispute's.*)
(***************************************************************************)
Recent(p) == recorded[p] # "no" /\ now <= TimeOf[p] + WINDOW
Openable(p) == challenge[p].status = "none" /\ Recent(p)
Joinable(p) == challenge[p].status \in {"open", "answered"} /\ ~challenge[p].ours /\ Recent(p)
Cancellable(p) ==
  /\ challenge[p].ours /\ now <= challenge[p].deadline
  /\ challenge[p].status \in {"open", "answered", "delivered"}
Expirable(p) == challenge[p].status = "open" /\ now > challenge[p].deadline

Becomes(p, c) ==
  /\ challenge' = [challenge EXCEPT ![p] = c]
  /\ UNCHANGED <<nature, now, recorded>>

Open(p, ours) ==
  /\ Openable(p)
  /\ Becomes(p, [status |-> "open", ours |-> ours, joined |-> FALSE, deadline |-> now + ANSWER])
  /\ UNCHANGED <<frozen, paid, news>>

Join(p) ==
  /\ Joinable(p)
  /\ Becomes(p, [challenge[p] EXCEPT !.ours = TRUE, !.joined = TRUE,
                                     !.deadline = IF challenge[p].status = "answered"
                                                  THEN now + WAIT ELSE @])
  /\ UNCHANGED <<frozen, paid, news>>

Cancel(p) ==
  /\ Cancellable(p)
  /\ Becomes(p, [challenge[p] EXCEPT !.ours = FALSE, !.joined = FALSE,
                                     !.status = IF challenge[p].joined THEN @ ELSE "cancelled"])
  /\ UNCHANGED <<frozen, paid, news>>

Expire(p) ==
  /\ Expirable(p)
  /\ Becomes(p, [challenge[p] EXCEPT !.status = "expired"])
  /\ Emit("expired", p)
  /\ frozen' = [frozen EXCEPT ![DomainOf[p]] = TRUE]
  /\ paid' = [paid EXCEPT ![DomainOf[p]] = TRUE]

Answer(p) ==
  /\ challenge[p].status = "open" /\ now <= challenge[p].deadline /\ p \in Provable
  /\ Becomes(p, [challenge[p] EXCEPT !.status = "answered",
                                     !.deadline = IF challenge[p].ours THEN now + WAIT ELSE @])
  /\ Emit("answered", p)
  /\ UNCHANGED <<frozen, paid>>

\* The sealed opening and the proof, posted on the domain.
Post(p) ==
  /\ challenge[p].status = "answered" /\ challenge[p].ours /\ now <= challenge[p].deadline
  /\ Becomes(p, [challenge[p] EXCEPT !.status = "delivered"])
  /\ Emit("posted", p)
  /\ UNCHANGED <<frozen, paid>>

Tick ==
  /\ now < LAST
  /\ now' = now + 1
  /\ UNCHANGED <<nature, recorded, frozen, paid, challenge, news>>
============================================================================
