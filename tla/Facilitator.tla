---------------------------- MODULE Facilitator ----------------------------
(***************************************************************************)
(* The facilitator: each call to settle simulates the settlement, waits    *)
(* for the calls before it to have sent theirs, sends its own and reads    *)
(* the receipt.  The chain, and the other calls, run on between the steps, *)
(* and the node's answer to a send or to the wait for a receipt may be     *)
(* lost although the transaction was taken, and settles.                   *)
(***************************************************************************)
EXTENDS Domains

CONSTANTS
  CALLS,
  MAX_UNHEARD              \* how many answers are lost

\* Who recorded a payment is told apart from nobody and from everybody else.
ASSUME FacilitatorAssumption == {"no", "direct"} \cap CALLS = {} /\ MAX_UNHEARD \in Nat

VARIABLES
  calls, sending, nonce,   \* the calls; those chained on the last send; the signer's next nonce
  pool,                    \* calls whose transaction the node took and no block includes yet
  unheard                  \* calls whose answer was lost after the node took the transaction
facilitatorVars == <<calls, sending, nonce, pool, unheard>>

FacilitatorInit ==
  /\ calls = [c \in CALLS |-> [phase |-> "idle", payment |-> "none", nonce |-> 0]]
  /\ sending = <<>> /\ nonce = 0
  /\ pool = {} /\ unheard = {}

To(c, phase) == calls' = [calls EXCEPT ![c].phase = phase]
\* The send at the head is over, however it ended: the next one's turn.
NextTurn == sending' = Tail(sending)

\* check, ending in a simulation of the call that settles.  Here and below a
\* node that does not answer is taken for a refusal.
Check(c, p) ==
  /\ calls[c].phase = "idle"
  /\ \E phase \in {"checked", "reserve_refused"} :
       /\ phase = "checked" => Admits(p)
       /\ calls' = [calls EXCEPT ![c] = [@ EXCEPT !.payment = p, !.phase = phase]]
       /\ sending' = IF phase = "checked" THEN Append(sending, c) ELSE sending
  /\ UNCHANGED <<nonce, pool, unheard, chainVars>>

\* Mutated: the earlier sends are not awaited.
TurnAtOnce(c) == calls[c].phase = "checked"

Turn(c) == sending # <<>> /\ Head(sending) = c

\* writeContract: the gas estimate refuses what the reserve would, then the
\* signer's next nonce is read, and the transaction goes out under it.
Prepare(c) ==
  /\ calls[c].phase = "checked" /\ Turn(c)
  /\ \/ /\ Admits(calls[c].payment)
        /\ calls' = [calls EXCEPT ![c].phase = "signed", ![c].nonce = nonce]
        /\ UNCHANGED sending
     \/ To(c, "reserve_refused") /\ NextTurn
  /\ UNCHANGED <<nonce, pool, unheard, chainVars>>

\* The node takes the transaction of a nonce not used yet.
Taken(c) == calls[c].nonce = nonce /\ nonce' = nonce + 1 /\ pool' = pool \cup {c}

Send(c) ==
  /\ calls[c].phase = "signed"
  /\ \/ Taken(c) /\ To(c, "sent")
     \/ To(c, "reserve_refused") /\ UNCHANGED <<nonce, pool>>
  /\ NextTurn
  /\ UNCHANGED <<unheard, chainVars>>

Unheard(c) == Cardinality(unheard) < MAX_UNHEARD /\ unheard' = unheard \cup {c}

\* Taken, and the answer lost: the caller is told that the reserve refused.
SendUnheard(c) ==
  /\ calls[c].phase = "signed"
  /\ Taken(c) /\ Unheard(c)
  /\ To(c, "reserve_refused") /\ NextTurn
  /\ UNCHANGED chainVars

\* The chain includes the signer's transactions in nonce order, whatever the
\* calls they belong to were told.
Include(c) ==
  /\ c \in pool /\ \A e \in pool : calls[c].nonce <= calls[e].nonce
  /\ \/ Record(calls[c].payment, c)
     \/ ~Admits(calls[c].payment) /\ UNCHANGED chainVars
  /\ pool' = pool \ {c}
  /\ UNCHANGED <<calls, sending, nonce, unheard>>

\* The receipt says whether this transaction recorded the settlement.
Receipt(c) ==
  /\ calls[c].phase = "sent" /\ c \notin pool
  /\ To(c, IF recorded[calls[c].payment] = c THEN "success" ELSE "settlement_not_recorded")
  /\ UNCHANGED <<sending, nonce, pool, unheard, chainVars>>

\* The wait gives up, before or after a block includes the transaction: settle
\* throws.
ReceiptUnheard(c) ==
  /\ calls[c].phase = "sent" /\ Unheard(c)
  /\ To(c, "thrown")
  /\ UNCHANGED <<sending, nonce, pool, chainVars>>

FacilitatorNext ==
  \E c \in CALLS :
    \/ \E p \in PAYMENTS : Check(c, p)
    \/ Prepare(c) \/ Send(c) \/ SendUnheard(c) \/ Include(c) \/ Receipt(c) \/ ReceiptUnheard(c)

(***************************************************************************)
(* The facilitator tells the resource server what it knows.  A call told   *)
(* success recorded its own payment, so of two calls with one payload at   *)
(* most one is paid for.  A payment a call's transaction recorded is the   *)
(* call's, and the call is told so, unless the node's answer was lost on   *)
(* the way: then, and only then, settle throws or says that the reserve    *)
(* refused what it recorded, and never that no settlement was.  And no     *)
(* call's transaction is displaced by another's under the same nonce,      *)
(* after which it would be told that the reserve refused what it never     *)
(* saw.                                                                    *)
(***************************************************************************)
Accounted(c) == \/ calls[c].phase \in {"sent", "success"}
                \/ c \in unheard /\ calls[c].phase \in {"reserve_refused", "thrown"}

CallsTruthful ==
  \A c \in CALLS :
    /\ calls[c].phase = "success" => recorded[calls[c].payment] = c
    /\ \A p \in PAYMENTS : recorded[p] = c => calls[c].payment = p /\ Accounted(c)
    /\ calls[c].phase = "signed" => calls[c].nonce = nonce
============================================================================
