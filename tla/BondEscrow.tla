----------------------------- MODULE BondEscrow -----------------------------
(***************************************************************************)
(* What the reserve promises about each delegation's bond, and nothing     *)
(* else: it is posted at most once, leaves at most once, and only to the   *)
(* delegation's agent or its principal.  A delegation that ended before    *)
(* anything was posted (a claim, an expiry or a close before acceptance)   *)
(* never takes a bond again; one that ended with its bond posted still     *)
(* holds it until it is paid.  What was paid to one is never paid to the   *)
(* other: "agent" and "principal" are final.                               *)
(***************************************************************************)
CONSTANT Id

VARIABLES
  escrow,   \* each bond: "none", "held", or paid to "agent" or "principal"
  ended     \* delegations that can take no bond any more

EscrowInit ==
  /\ escrow = [id \in Id |-> "none"]
  /\ ended = {}

Post(id) ==
  /\ escrow[id] = "none" /\ id \notin ended
  /\ escrow' = [escrow EXCEPT ![id] = "held"]
  /\ UNCHANGED ended

\* The bond leaves, and the delegation can take no other.
Pay(id, to) ==
  /\ escrow[id] = "held"
  /\ escrow' = [escrow EXCEPT ![id] = to]
  /\ ended' = ended \cup {id}

\* Frozen, claimed or closed: an end the bond may outlast, if it was posted.
End(id) ==
  /\ ended' = ended \cup {id}
  /\ UNCHANGED escrow

EscrowNext ==
  \E id \in Id :
    \/ Post(id)
    \/ Pay(id, "agent") \/ Pay(id, "principal")
    \/ End(id)

EscrowSpec == EscrowInit /\ [][EscrowNext]_<<escrow, ended>>
=============================================================================
