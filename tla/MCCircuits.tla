----------------------------- MODULE MCCircuits -----------------------------
(***************************************************************************)
(* The circuits two ways, explored apart.  In the scene "harness" they are *)
(* the source's, at small parameters: a field of 46327 elements, in which  *)
(* seven is not a square, range checks of fifteen bits, trees of depth     *)
(* three and eight slots; the amounts, terms and times are the source's.   *)
(* In the scene "witness" every witness of the arithmetic over a field of  *)
(* 67 elements and range checks of four bits backs a settlement, of a      *)
(* delegation of four units of size two in a range of five.                *)
(***************************************************************************)
EXTENDS Harness, Overdraft

VARIABLE scene
MCVars == <<scene, harness_vars, vars>>

MCSecret == <<17322, 30411>>
MCFreeKey == <<42424, 8585>>
MCBatches == {2, 4, 8}
MCPadded == {3, 5}
MCReuses == 0..3
MCSentinels == {<<0, 1>>, <<8, 9>>}

MCInit == scene \in {"harness", "witness"} /\ HarnessInit /\ Init

InHarness == scene = "harness" /\ UNCHANGED <<scene, vars>>
InWitness == scene = "witness" /\ UNCHANGED <<scene, harness_vars>>

\* Next is HarnessNext in the one scene and Overdraft's in the other, with the
\* quantifiers outside so that the set of witnesses is built once.
MCNext == \/ InHarness /\ HarnessNext
          \/ \E w \in Backed : InWitness /\ Settle(w)
          \/ \E a, z \in Indices : InWitness /\ Revoke(a, z)

MCSpec == MCInit /\ [][MCNext]_MCVars

=============================================================================
