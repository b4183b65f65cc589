----------------------------- MODULE MCService -----------------------------
(***************************************************************************)
(* The off-chain programs for TLC, in three scenes that share the chains:  *)
(* the desk, where a facilitator settles while others settle and freeze;   *)
(* the handing, where an answerer takes batches; and the watch, where the  *)
(* monitor follows what others settle.  Each scene's steps are steps of    *)
(* Service.                                                                *)
(***************************************************************************)
EXTENDS Service, TLC

CONSTANTS SCENES, p1, p2, b1, b2, b3, c1, c2

VARIABLE scene
vars == <<scene, chainVars, facilitatorVars, answererVars, monitorVars>>

MCDomains == <<"a", "b">>
MCDomainOf == (p1 :> "a") @@ (p2 :> "b")
MCTimeOf == (p1 :> 0) @@ (p2 :> 0)
MCNames == (b1 :> {p1}) @@ (b2 :> {p1, p2}) @@ (b3 :> {p2})
MCNatures ==
  {(p1 :> "stolen") @@ (p2 :> "honest"), (p1 :> "twice") @@ (p2 :> "twice"),
   (p1 :> "broken") @@ (p2 :> "stolen")}

\* An honest payment and one that nobody can prove.
StuckNatures == {(p1 :> "honest") @@ (p2 :> "stolen")}

Init ==
  /\ ServiceInit
  /\ scene \in SCENES
  /\ scene = "desk" => nature[p2] = "honest"

Desk ==
  \/ FacilitatorNext
  \/ /\ \/ Record(p1, "direct")
        \/ \E d \in Domain : Freeze(d)
        \/ Tick
     /\ UNCHANGED facilitatorVars

\* What the agent, its answerer and a stranger do; the stranger knows of p1.
Elsewhere ==
  \/ Tick
  \/ \E r \in PAYMENTS : Record(r, "direct") \/ Answer(r) \/ Post(r)
  \/ Open(p1, FALSE) \/ Expire(p1)

Watch == Watches \/ (~stopped /\ Elsewhere /\ UNCHANGED monitorVars)

Next ==
  /\ UNCHANGED scene
  /\ \/ scene = "desk" /\ Desk /\ UNCHANGED <<answererVars, monitorVars>>
     \/ scene = "handing" /\ AnswererNext /\ UNCHANGED <<facilitatorVars, monitorVars>>
     \/ scene = "watch" /\ Watch /\ UNCHANGED <<facilitatorVars, answererVars>>

\* The monitor polls on, and time passes.
Spec ==
  /\ Init /\ [][Next]_vars
  /\ WF_vars(scene = "watch" /\ ~stopped /\ MonitorStep /\ UNCHANGED <<scene, facilitatorVars, answererVars>>)
  /\ WF_vars(~stopped /\ Tick /\ UNCHANGED <<scene, facilitatorVars, answererVars, monitorVars>>)
============================================================================
