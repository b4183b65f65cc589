-------------------------- MODULE ChallengeProofs --------------------------
(***************************************************************************)
(* The game's promise for every chain: of any length, over any step, and   *)
(* wherever the defender lies.                                             *)
(*                                                                         *)
(* The argument: before play, the naysayer's states follow the step from   *)
(* the start, and the defender's agree with them below the lie and follow  *)
(* the step from it.  In play the two agree at lo and differ at hi, so lo  *)
(* stays below the lie and hi at or above it; and hi - lo is at most the   *)
(* power of two the rounds left allow, which each round halves.            *)
(***************************************************************************)
EXTENDS Challenge, WellFoundedInduction, TLAPS

Pow(r) == 2^r

\* A bound, and rounding up, at each power of two.
LEMMA Powers2 ==
    /\ MAX_ROUNDS \in Nat
    /\ \A r \in 0..MAX_ROUNDS : Pow(r) \in Nat
    /\ Pow(0) = 1 /\ MAX_STEPS = Pow(MAX_ROUNDS)
    /\ \A r \in 1..MAX_ROUNDS : Pow(r) = 2 * Pow(r - 1)
BY RoundsAssumption DEF Pow, MAX_STEPS

Enough(n) == {r \in 0..MAX_ROUNDS : n <= Pow(r)}

\* The least number of rounds is among those there are.
LEMMA RoundsFor ==
    ASSUME NEW n \in 1..MAX_STEPS
    PROVE  rounds_for(n) \in 0..MAX_ROUNDS /\ n <= Pow(rounds_for(n))
<1> DEFINE R == OpToRel(<, Nat)
<1>1. Enough(n) \subseteq Nat /\ Enough(n) # {}
  BY Powers2 DEF Enough
<1>2. PICK r \in Enough(n) : \A s \in Enough(n) : ~(<<s, r>> \in R)
  BY <1>1, NatLessThanWellFounded, WFMin, Zenon
<1>3. \A s \in Enough(n) : ~(s < r)
  BY <1>2, <1>1 DEF OpToRel
<1>4. r \in 0..MAX_ROUNDS /\ n <= Pow(r)
  BY DEF Enough
<1>5. \A s \in 0..(r - 1) : Pow(s) < n
  BY <1>3, <1>4, Powers2 DEF Enough
<1> QED
  BY <1>4, <1>5 DEF rounds_for, Pow

-----------------------------------------------------------------------------
(***************************************************************************)
(* The invariant, phase by phase.                                          *)
(***************************************************************************)
TrueTo(m) == \A k \in 0..(m - 1) : states[k + 1] = Step(chain, k, states[k])

LiedTo(m) ==
    /\ lied \in 1..chain.n
    /\ \A k \in 0..(lied - 1) : claimed[k] = states[k]
    /\ \A k \in lied..(m - 1) : claimed[k + 1] = Step(chain, k, claimed[k])

Started == chain.n \in 1..MAX_STEPS /\ hi \in 0..chain.n /\ rounds_played = 0 /\ rejects = FALSE

Halved == LET R == rounds_for(chain.n) IN
    /\ rounds_played \in 0..R
    /\ hi - lo <= Pow(R - rounds_played)

InPlay ==
    /\ chain.n \in 1..MAX_STEPS /\ lo \in 0..chain.n /\ hi \in 0..chain.n /\ lo < hi
    /\ TrueTo(chain.n) /\ LiedTo(chain.n)
    /\ claimed[lo] = states[lo] /\ claimed[hi] # states[hi]
    /\ Halved

GameInv ==
    /\ phase \in {"idle", "build", "claim", "play", "decided"}
    /\ phase = "idle" => rounds_played = 0 /\ rejects = FALSE
    /\ phase = "build" => Started /\ TrueTo(hi)
    /\ phase = "claim" => Started /\ TrueTo(chain.n) /\ LiedTo(hi) /\ lied <= hi
    /\ phase = "play" => InPlay
    /\ phase = "decided" => ChallengeDecided

LEMMA InitGame == Init => GameInv
BY DEF Init, GameInit, GameInv

LEMMA OpenKeeps == ASSUME GameInv, NEW c, Open(c) PROVE GameInv'
BY DEF GameInv, Open, Started, TrueTo, TrueTo

\* One more state of the naysayer's.
LEMMA BuildKeeps == ASSUME GameInv, Build PROVE GameInv'
<1>1. Started /\ TrueTo(hi) /\ hi < chain.n
  BY DEF GameInv, Build
<1>2. Started' /\ phase' = "build"
  BY <1>1 DEF Build, Started, GameInv
<1>3. TrueTo(hi)'
  <2> SUFFICES ASSUME NEW k \in 0..hi
               PROVE  states'[k + 1] = Step(chain, k, states'[k])
    BY <1>1 DEF TrueTo, Build, Started
  <2>1. states'[k] = states[k]
    BY <1>1 DEF Build, Started
  <2>2. CASE k = hi
    BY <2>1, <2>2, <1>1 DEF Build, Started
  <2>3. CASE k # hi
    <3>1. k \in 0..(hi - 1) /\ k + 1 \in 0..hi
      BY <2>3, <1>1 DEF Started
    <3>2. states'[k + 1] = states[k + 1]
      BY <3>1, <1>1 DEF Build, Started
    <3> QED
      BY <2>1, <3>1, <3>2, <1>1 DEF TrueTo
  <2> QED
    BY <2>2, <2>3
<1> QED
  BY <1>2, <1>3 DEF GameInv

\* The defender agrees up to the state it changes.
LEMMA LieKeeps == ASSUME GameInv, NEW j \in 1..MAX_STEPS, lie_at(j) PROVE GameInv'
<1>1. Started /\ TrueTo(chain.n) /\ j \in 1..chain.n
  BY DEF GameInv, lie_at
<1>2. \A k \in 0..(j - 1) : claimed'[k] = states[k]
  BY <1>1 DEF lie_at, Started
<1>3. LiedTo(hi)' /\ lied' = j /\ hi' = j
  BY <1>1, <1>2 DEF lie_at, LiedTo, Started
<1>4. Started' /\ TrueTo(chain.n)' /\ phase' = "claim"
  BY <1>1 DEF lie_at, Started, TrueTo
<1> QED
  BY <1>3, <1>4, <1>1 DEF GameInv, Started

LEMMA StepOnKeeps == ASSUME GameInv, StepOn PROVE GameInv'
<1>1. Started /\ TrueTo(chain.n) /\ LiedTo(hi) /\ hi < chain.n /\ lied <= hi
  BY DEF GameInv, StepOn
<1>2. Started' /\ TrueTo(chain.n)' /\ phase' = "claim" /\ (lied <= hi)'
  BY <1>1 DEF StepOn, Started, TrueTo, LiedTo
<1>3. \A k \in 0..(lied - 1) : claimed'[k] = states'[k]
  BY <1>1 DEF StepOn, Started, LiedTo
<1>4. ASSUME NEW k \in lied..hi PROVE claimed'[k + 1] = Step(chain, k, claimed'[k])
  <2>1. claimed'[k] = claimed[k]
    BY <1>1 DEF StepOn, Started, LiedTo
  <2>2. CASE k = hi
    BY <2>1, <2>2, <1>1 DEF StepOn, Started
  <2>3. CASE k # hi
    <3>1. k \in lied..(hi - 1) /\ k + 1 \in 0..hi
      BY <2>3, <1>1 DEF Started, LiedTo
    <3>2. claimed'[k + 1] = claimed[k + 1]
      BY <3>1, <1>1 DEF StepOn, Started
    <3> QED
      BY <2>1, <3>1, <3>2, <1>1 DEF LiedTo
  <2> QED
    BY <2>2, <2>3
<1>5. LiedTo(hi)'
  BY <1>1, <1>3, <1>4 DEF LiedTo, StepOn, Started
<1> QED
  BY <1>2, <1>5 DEF GameInv

\* Play starts with the whole chain between an agreed and a disputed state.
LEMMA BisectKeeps == ASSUME GameInv, Bisect PROVE GameInv'
<1>1. Started /\ TrueTo(chain.n) /\ LiedTo(chain.n) /\ hi = chain.n
  BY DEF GameInv, Bisect
<1>2. rounds_for(chain.n) \in 0..MAX_ROUNDS /\ chain.n <= Pow(rounds_for(chain.n))
  BY <1>1, RoundsFor DEF Started
<1>3. rounds_for(chain.n) - 0 = rounds_for(chain.n) /\ rounds_played = 0
  BY <1>1, <1>2 DEF Started
<1>4. Halved'
  BY <1>1, <1>2, <1>3 DEF Halved, Bisect, Started
<1>5. InPlay' /\ phase' = "play"
  BY <1>1, <1>4, Powers2 DEF InPlay, Bisect, Started, TrueTo, LiedTo
<1> QED
  BY <1>5 DEF GameInv

\* A round halves what the rounds left have to cover.
LEMMA RoundKeeps == ASSUME GameInv, Round PROVE GameInv'
<1>1. InPlay /\ hi - lo > 1 /\ phase' = "play"
  BY DEF GameInv, Round
<1> DEFINE R == rounds_for(chain.n)
<1>2. R \in 0..MAX_ROUNDS /\ MAX_ROUNDS \in Nat
  BY <1>1, RoundsFor, Powers2 DEF InPlay
<1>3. rounds_played \in 0..R /\ hi - lo <= Pow(R - rounds_played) /\ lo \in Nat /\ hi \in Nat
  BY <1>1 DEF InPlay, Halved
<1>4. rounds_played < R
  <2>1. CASE rounds_played = R
    <3>1. R - rounds_played = 0
      BY <2>1, <1>2, <1>3
    <3>2. Pow(R - rounds_played) = 1
      BY <3>1, Powers2
    <3> QED
      BY <3>2, <1>1, <1>3
  <2> QED
    BY <2>1, <1>3, <1>2
<1>5. /\ R - rounds_played \in 1..MAX_ROUNDS
      /\ R - (rounds_played + 1) = (R - rounds_played) - 1
      /\ R - (rounds_played + 1) \in 0..MAX_ROUNDS
  BY <1>2, <1>3, <1>4
<1>6. /\ Pow(R - rounds_played) = 2 * Pow(R - (rounds_played + 1))
      /\ Pow(R - (rounds_played + 1)) \in Nat
  BY <1>5, Powers2
<1>7. /\ Mid \in Nat /\ lo < Mid /\ Mid < hi
      /\ Mid - lo <= Pow(R - (rounds_played + 1))
      /\ hi - Mid <= Pow(R - (rounds_played + 1))
  <2> DEFINE h == Pow(R - (rounds_played + 1))
  <2>1. hi - lo <= 2 * h /\ h \in Nat
    BY <1>3, <1>6
  <2> HIDE DEF h
  <2>2. Mid \in Nat /\ lo < Mid /\ Mid < hi /\ Mid - lo <= h /\ hi - Mid <= h
    BY <2>1, <1>1, <1>3 DEF Mid
  <2> QED
    BY <2>2 DEF h
<1>8. /\ lo' \in 0..chain.n /\ hi' \in 0..chain.n /\ lo' < hi'
      /\ claimed[lo'] = states[lo'] /\ claimed[hi'] # states[hi']
      /\ hi' - lo' <= Pow(R - (rounds_played + 1))
  <2>1. CASE claimed[Mid] = states[Mid] /\ lo' = Mid /\ hi' = hi
    BY <2>1, <1>1, <1>3, <1>7 DEF InPlay
  <2>2. CASE claimed[Mid] # states[Mid] /\ hi' = Mid /\ lo' = lo
    BY <2>2, <1>1, <1>3, <1>7 DEF InPlay
  <2> QED
    BY <2>1, <2>2 DEF Round
<1>9. /\ chain' = chain /\ states' = states /\ claimed' = claimed /\ lied' = lied
      /\ rounds_played' = rounds_played + 1
  BY DEF Round
<1>10. Halved'
  BY <1>8, <1>9, <1>5, <1>2, <1>3, <1>4 DEF Halved
<1>11. InPlay'
  BY <1>1, <1>8, <1>9, <1>10 DEF InPlay, TrueTo, LiedTo
<1> QED
  BY <1>1, <1>11 DEF GameInv

\* The one step left is the step into the lie, and recomputing it refutes.
LEMMA AdjudicateKeeps == ASSUME GameInv, Adjudicate PROVE GameInv'
<1>1. InPlay /\ hi - lo <= 1 /\ phase' = "decided"
  BY DEF GameInv, Adjudicate
<1>2. hi = lo + 1 /\ lo \in 0..(chain.n - 1) /\ chain.n \in Nat
  BY <1>1, Powers2 DEF InPlay
<1>3. states[hi] = Step(chain, lo, states[lo])
  BY <1>1, <1>2 DEF InPlay, TrueTo
<1>4. Step(chain, lo, claimed[lo]) = states[hi]
  BY <1>1, <1>3 DEF InPlay
<1>5. rejects' = TRUE
  BY <1>1, <1>4 DEF InPlay, Adjudicate
<1>6. lied \in 1..chain.n /\ lied <= hi
  <2>1. lied \in 1..chain.n /\ (\A k \in 0..(lied - 1) : claimed[k] = states[k])
    BY <1>1 DEF InPlay, LiedTo
  <2>2. ~(hi \in 0..(lied - 1))
    BY <1>1, <2>1 DEF InPlay
  <2> QED
    BY <2>1, <2>2, <1>2
<1>7. ~(lied <= lo)
  <2>1. ASSUME lied <= lo PROVE FALSE
    <3>1. lo \in lied..(chain.n - 1)
      BY <2>1, <1>2, <1>6
    <3>2. claimed[lo + 1] = Step(chain, lo, claimed[lo])
      BY <3>1, <1>1 DEF InPlay, LiedTo
    <3> QED
      BY <3>2, <1>2, <1>4, <1>1 DEF InPlay
  <2> QED
    BY <2>1
<1>8. lo + 1 = lied /\ hi = lied
  BY <1>2, <1>6, <1>7
<1>9. rounds_played <= rounds_for(chain.n)
  BY <1>1, RoundsFor DEF InPlay, Halved
<1>10. ChallengeDecided'
  BY <1>5, <1>8, <1>9 DEF ChallengeDecided, Adjudicate
<1> QED
  BY <1>1, <1>10 DEF GameInv

\* Everything else a step may do leaves the game alone.
LEMMA Unchanged == ASSUME GameInv, UNCHANGED gameVars PROVE GameInv'
BY DEF GameInv, gameVars, Started, TrueTo, LiedTo, InPlay, Halved, ChallengeDecided

LEMMA GameStep == ASSUME GameInv, [Next]_vars PROVE GameInv'
<1>1. CASE UNCHANGED vars
  BY <1>1, Unchanged DEF vars
<1>2. CASE CommitTrace \/ CommitQuotient \/ OpenClaims \/ FoldLayer \/ Prove
  BY <1>2, Unchanged DEF CommitTrace, CommitQuotient, OpenClaims, FoldLayer, Prove
<1>3. CASE RunQuery \/ Judge
  BY <1>3, Unchanged DEF RunQuery, Judge
<1>4. ASSUME NEW q \in Queried, NEW label \in QueryCorruptions, land(label, q) PROVE GameInv'
  BY <1>4, Unchanged DEF land
<1>5. ASSUME NEW label \in AbsorbedCorruptions, land_absorbed(label) PROVE GameInv'
  BY <1>5, Unchanged DEF land_absorbed
<1>6. CASE Dispute
  BY <1>6, OpenKeeps DEF Dispute
<1>7. CASE Play
  BY <1>7, BuildKeeps, LieKeeps, StepOnKeeps, BisectKeeps, RoundKeeps, AdjudicateKeeps DEF Play
<1> QED
  BY <1>1, <1>2, <1>3, <1>4, <1>5, <1>6, <1>7 DEF Next

(***************************************************************************)
(* Wherever the defender lies, in a chain of any length, the game ends at  *)
(* that step within ceil(log2 n) rounds and the adjudicator refutes it     *)
(* (assertion.rs, bisect and rounds_for).                                  *)
(***************************************************************************)
THEOREM GameFindsTheLie == Spec => []ChallengeDecided
<1>1. GameInv => ChallengeDecided
  BY DEF GameInv, ChallengeDecided
<1> QED
  BY <1>1, InitGame, GameStep, PTL DEF Spec

=============================================================================
