------------------------------ MODULE Service ------------------------------
(***************************************************************************)
(* The off-chain programs over the chains they share, all running at once: *)
(* a facilitator, an answerer, the principal's monitor, and everybody else *)
(* who may call the contracts.  A program's step leaves the memory of the  *)
(* others alone; what they have in common is the chains.                   *)
(***************************************************************************)
EXTENDS Facilitator, Answerer, Monitor

serviceVars == <<chainVars, facilitatorVars, answererVars, monitorVars>>

ServiceInit == ChainInit /\ FacilitatorInit /\ AnswererInit /\ MonitorInit

\* Time passes, others settle and freeze, the agent answers and posts, and
\* strangers challenge and expire.
Others ==
  \/ Tick
  \/ \E p \in PAYMENTS :
       Record(p, "direct") \/ Answer(p) \/ Post(p) \/ Open(p, FALSE) \/ Expire(p)
  \/ \E d \in Domain : Freeze(d)

\* A poll after the freeze only reads and claims; nothing follows from it here.
Watches == ~stopped /\ MonitorNext

ServiceNext ==
  \/ FacilitatorNext /\ UNCHANGED <<answererVars, monitorVars>>
  \/ AnswererNext /\ UNCHANGED <<facilitatorVars, monitorVars>>
  \/ Watches /\ UNCHANGED <<facilitatorVars, answererVars>>
  \/ Others /\ UNCHANGED <<facilitatorVars, answererVars, monitorVars>>

ServiceSpec == ServiceInit /\ [][ServiceNext]_serviceVars
============================================================================
