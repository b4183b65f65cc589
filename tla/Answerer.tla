------------------------------ MODULE Answerer ------------------------------
(***************************************************************************)
(* The agent's answerer: receive looks the proof up, awaits the gate's     *)
(* verifiers, and then checks and records in one synchronous stretch.      *)
(* Other calls run while one awaits.                                       *)
(***************************************************************************)
EXTENDS Domains

CONSTANTS
  BATCHES,      \* proofs an agent may hand over, told apart by their bytes
  NamesOf,      \* the payments a proof's public values name
  HANDINGS      \* calls of receive

VARIABLES handing, proofs, taken
answererVars == <<handing, proofs, taken>>

AnswererInit ==
  /\ handing = [h \in HANDINGS |-> [phase |-> "idle", batch |-> "none"]]
  /\ proofs = {}                \* the proofs held
  /\ taken = {}                 \* the payments of the batches held

Receive(h, b) ==
  /\ handing[h].phase = "idle"
  /\ handing' = [handing EXCEPT ![h] = [phase |-> IF b \in proofs THEN "refused" ELSE "awaiting",
                                        batch |-> b]]
  /\ UNCHANGED <<proofs, taken, chainVars>>

GateAccepts(b) == NamesOf[b] \subseteq Provable
\* Mutated: only the same batch again is refused.
OverlapsWhole(b) == b \in proofs

Overlaps(b) == NamesOf[b] \cap taken # {}

\* The gate has answered: every check after the await, and the record.
Signs(h) ==
  LET b == handing[h].batch IN
  /\ handing[h].phase = "awaiting"
  /\ IF GateAccepts(b) /\ ~Overlaps(b)
     THEN /\ handing' = [handing EXCEPT ![h].phase = "receipted"]
          /\ proofs' = proofs \cup {b} /\ taken' = taken \cup NamesOf[b]
     ELSE handing' = [handing EXCEPT ![h].phase = "refused"] /\ UNCHANGED <<proofs, taken>>
  /\ UNCHANGED chainVars

AnswererNext == \E h \in HANDINGS : (\E b \in BATCHES : Receive(h, b)) \/ Signs(h)

(***************************************************************************)
(* The answerer never signs two receipts that name one settlement, however *)
(* its calls overlap: either could slash its stake.                        *)
(***************************************************************************)
ReceiptsDisjoint ==
  \A h, g \in HANDINGS :
    h # g /\ handing[h].phase = "receipted" /\ handing[g].phase = "receipted"
      => NamesOf[handing[h].batch] \cap NamesOf[handing[g].batch] = {}
============================================================================
