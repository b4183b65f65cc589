------------------------- MODULE ReserveMoneyProofs -------------------------
(***************************************************************************)
(* Where the reserve's ether and tokens are: the conservation laws of      *)
(* Reserve.sol, EtherBacked and TokensAccounted, for every number of       *)
(* delegations, accounts and payments.                                     *)
(*                                                                         *)
(* Both are sums over finite sets.  The first part proves what sums obey:  *)
(* the fold that defines them picks its elements by CHOOSE, so each law is *)
(* shown by taking a smallest set it fails on.  The second follows every   *)
(* wei (EtherInv), the third every token (TokenInv).  Neither law is       *)
(* inductive alone: a bond must be gone from the record once it is paid,   *)
(* and an identifier nobody registered must hold nothing, or registering   *)
(* it would lose what it held.                                             *)
(***************************************************************************)
EXTENDS ReserveTypeProofs, FiniteSetTheorems, WellFoundedInduction

\* A set of subsets of a finite set has a smallest one: what follows by
\* induction over finite sets follows from a smallest counterexample.
LEMMA SmallestSubset ==
  ASSUME NEW U, IsFiniteSet(U), NEW T, T \subseteq SUBSET U, T # {}
  PROVE  \E V \in T : \A W \in T : W \subseteq V => W = V
<1>1. IsWellFoundedOn(StrictSubsetOrdering(U), SUBSET U)
  BY FS_StrictSubsetOrderingWellFounded, FS_FiniteSubsetsOfFinite
<1>2. \E V \in T : \A W \in T : ~ (<<W, V>> \in StrictSubsetOrdering(U))
  BY <1>1, WFMin
<1> QED BY <1>2 DEF StrictSubsetOrdering

\* The element the fold takes first.
First(s) == CHOOSE x \in s : TRUE

\* The partial sums of a function over the subsets of a finite set, and the
\* recursion the fold of the community modules defines them by.
SumsAll(f, U, g) ==
  g = [s \in SUBSET U |->
         IF s = {} THEN 0 ELSE f[First(s)] + g[s \ {First(s)}]]

PartialSums(f, U) == CHOOSE g : SumsAll(f, U, g)

\* It is an element.
LEMMA FirstIn == ASSUME NEW s, s # {} PROVE First(s) \in s
BY DEF First

\* The sum over a set is the fold's value there.
LEMMA SumUnfold ==
  ASSUME NEW f, NEW S
  PROVE  SumFunctionOnSet(f, S) = PartialSums(f, S)[S]
BY DEF SumFunctionOnSet, FoldFunctionOnSet, MapThenFoldSet, PartialSums,
       SumsAll, First

\* The recursion, at the empty set and at any other.
LEMMA SumsAllAt ==
  ASSUME NEW f, NEW U, NEW g, SumsAll(f, U, g)
  PROVE  /\ g[{}] = 0
         /\ \A s \in SUBSET U : s # {} =>
              g[s] = f[First(s)] + g[s \ {First(s)}]
BY DEF SumsAll

\* It has one solution, whichever larger set it is solved for.
LEMMA SumsAgree ==
  ASSUME NEW f, NEW U, NEW V, V \subseteq U, IsFiniteSet(V),
         NEW g, NEW h, SumsAll(f, U, g), SumsAll(f, V, h)
  PROVE  \A s \in SUBSET V : g[s] = h[s]
<1> DEFINE T == {s \in SUBSET V : g[s] # h[s]}
<1> SUFFICES ASSUME T # {} PROVE FALSE
  OBVIOUS
<1>1. PICK s \in T : \A W \in T : W \subseteq s => W = s
  <2> T \subseteq SUBSET V OBVIOUS
  <2> HIDE DEF T
  <2> QED BY SmallestSubset
<1>2. s # {}
  BY SumsAllAt
<1>3. First(s) \in s
  BY <1>2, FirstIn
<1>4. g[s \ {First(s)}] = h[s \ {First(s)}]
  BY <1>1, <1>3
<1>5. g[s] = f[First(s)] + g[s \ {First(s)}]
  BY <1>2, SumsAllAt
<1>6. h[s] = f[First(s)] + h[s \ {First(s)}]
  <2> s \in SUBSET V OBVIOUS
  <2> HIDE DEF T
  <2> QED BY <1>2, SumsAllAt
<1> QED BY <1>4, <1>5, <1>6

\* And it has a solution.
LEMMA SumsExist ==
  ASSUME NEW f, NEW U, IsFiniteSet(U)
  PROVE  \E g : SumsAll(f, U, g)
<1> DEFINE T == {V \in SUBSET U : ~ \E g : SumsAll(f, V, g)}
<1> SUFFICES ASSUME T # {} PROVE FALSE
  BY DEF SumsAll
<1>1. PICK V \in T : \A W \in T : W \subseteq V => W = V
  <2> T \subseteq SUBSET U OBVIOUS
  <2> HIDE DEF T
  <2> QED BY SmallestSubset
<1> DEFINE last(s) == PartialSums(f, s)[s]
           h == [s \in SUBSET V |->
                   IF s = {} THEN 0
                   ELSE f[First(s)] + last(s \ {First(s)})]
<1>2. ASSUME NEW r, r \subseteq V, r # V
      PROVE  SumsAll(f, r, PartialSums(f, r))
  <2>1. \E g : SumsAll(f, r, g)
    BY <1>1, <1>2
  <2> QED BY <2>1 DEF PartialSums
<1>3. ASSUME NEW r, r \subseteq V, r # V
      PROVE  h[r] = last(r)
  <2>1. SumsAll(f, r, PartialSums(f, r))
    BY <1>2, <1>3
  <2>2. CASE r = {}
    BY <2>1, <2>2, SumsAllAt
  <2>3. CASE r # {}
    <3> DEFINE q == r \ {First(r)}
    <3>1. First(r) \in r
      BY <2>3, FirstIn
    <3>2. SumsAll(f, q, PartialSums(f, q))
      BY <1>2, <1>3, <3>1
    <3>3. PartialSums(f, r)[q] = PartialSums(f, q)[q]
      <4>1. IsFiniteSet(q)
        BY <1>3, FS_Subset
      <4>2. q \subseteq r
        OBVIOUS
      <4>3. q \in SUBSET q
        OBVIOUS
      <4> HIDE DEF q, last, h, T
      <4> QED BY <2>1, <3>2, <4>1, <4>2, <4>3, SumsAgree
    <3>4. last(r) = f[First(r)] + PartialSums(f, r)[q]
      BY <2>1, <2>3, SumsAllAt
    <3>5. h[r] = f[First(r)] + last(q)
      BY <1>3, <2>3
    <3> QED BY <3>3, <3>4, <3>5
  <2> QED BY <2>2, <2>3
<1>4. \A s \in SUBSET V : s # {} => h[s \ {First(s)}] = last(s \ {First(s)})
  <2> TAKE s \in SUBSET V
  <2> HAVE s # {}
  <2>1. First(s) \in s
    BY FirstIn
  <2> HIDE DEF h
  <2> QED BY <1>3, <2>1
<1>5. SumsAll(f, V, h)
  <2>1. \A s \in SUBSET V : h[s] = IF s = {} THEN 0
                       ELSE f[First(s)] + h[s \ {First(s)}]
    <3> TAKE s \in SUBSET V
    <3>1. h[s] = IF s = {} THEN 0 ELSE f[First(s)] + last(s \ {First(s)})
      OBVIOUS
    <3> HIDE DEF h, last
    <3> QED BY <1>4, <3>1
  <2>2. h = [s \in SUBSET V |-> h[s]]
    OBVIOUS
  <2> HIDE DEF h
  <2> QED BY <2>1, <2>2 DEF SumsAll
<1> QED BY <1>1, <1>5

\* So the fold's partial sums satisfy it.
LEMMA SumsHold ==
  ASSUME NEW f, NEW U, IsFiniteSet(U)
  PROVE  SumsAll(f, U, PartialSums(f, U))
BY SumsExist DEF PartialSums

\* Nothing sums to nothing.
LEMMA SumEmpty ==
  ASSUME NEW f
  PROVE  SumFunctionOnSet(f, {}) = 0
BY SumsHold, SumUnfold, SumsAllAt, FS_EmptySet

\* The element the fold takes first can be taken out of the sum.
LEMMA SumFirst ==
  ASSUME NEW f, NEW S, IsFiniteSet(S), S # {}
  PROVE  SumFunctionOnSet(f, S) =
           f[First(S)] + SumFunctionOnSet(f, S \ {First(S)})
<1> DEFINE q == S \ {First(S)}
<1>1. IsFiniteSet(q)
  BY FS_Subset
<1>2. SumsAll(f, S, PartialSums(f, S)) /\ SumsAll(f, q, PartialSums(f, q))
  BY <1>1, SumsHold
<1>3. PartialSums(f, S)[q] = PartialSums(f, q)[q]
  <2>1. q \subseteq S
    OBVIOUS
  <2> QED BY <1>1, <1>2, <2>1, SumsAgree
<1>4. PartialSums(f, S)[S] = f[First(S)] + PartialSums(f, S)[q]
  BY <1>2, SumsAllAt
<1> QED BY <1>3, <1>4, SumUnfold

\* The sum is a number, and any element can be taken out of it.
Splits(f, S) ==
  /\ SumFunctionOnSet(f, S) \in Int
  /\ \A x \in S : SumFunctionOnSet(f, S) = f[x] + SumFunctionOnSet(f, S \ {x})

\* It does not matter which element the fold takes first.
LEMMA SumSplits ==
  ASSUME NEW f, NEW S, IsFiniteSet(S), \A x \in S : f[x] \in Int
  PROVE  Splits(f, S)
<1> DEFINE T == {V \in SUBSET S : ~ Splits(f, V)}
<1> SUFFICES ASSUME T # {} PROVE FALSE
  OBVIOUS
<1>1. PICK V \in T : \A W \in T : W \subseteq V => W = V
  <2> T \subseteq SUBSET S OBVIOUS
  <2> HIDE DEF T
  <2> QED BY SmallestSubset
<1>2. V # {}
  BY SumEmpty DEF Splits
<1> DEFINE c == First(V)
<1>3. c \in V
  BY <1>2, FirstIn
<1>4. IsFiniteSet(V)
  BY FS_Subset
<1>5. SumFunctionOnSet(f, V) = f[c] + SumFunctionOnSet(f, V \ {c})
  BY <1>2, <1>4, SumFirst
<1>6. \A x \in V : Splits(f, V \ {x})
  BY <1>1
<1> HIDE DEF c
<1>7. SumFunctionOnSet(f, V) \in Int
  BY <1>3, <1>5, <1>6 DEF Splits
<1>8. ASSUME NEW x \in V
      PROVE  SumFunctionOnSet(f, V) = f[x] + SumFunctionOnSet(f, V \ {x})
  <2>1. CASE x = c
    BY <1>5, <2>1
  <2>2. CASE x # c
    <3> DEFINE r == (V \ {c}) \ {x}
    <3>1. SumFunctionOnSet(f, V \ {c}) = f[x] + SumFunctionOnSet(f, r)
      BY <1>3, <1>6, <2>2 DEF Splits
    <3>2. (V \ {x}) \ {c} = r
      OBVIOUS
    <3>3. SumFunctionOnSet(f, V \ {x}) = f[c] + SumFunctionOnSet(f, r)
      BY <1>3, <1>6, <2>2, <3>2 DEF Splits
    <3>4. SumFunctionOnSet(f, V \ {x}) \in Int /\ SumFunctionOnSet(f, V \ {c}) \in Int
      BY <1>3, <1>6 DEF Splits
    <3>5. f[x] \in Int /\ f[c] \in Int
      BY <1>3
    <3>6. SumFunctionOnSet(f, r) \in Int
      <4>1. r = (V \ {c}) \ {x} /\ r \subseteq V /\ r # V
        BY <1>3
      <4> r \notin T
        BY <1>1, <4>1
      <4>2. Splits(f, r)
         OBVIOUS
      <4> QED BY <4>2 DEF Splits
    <3> HIDE DEF r
    <3> QED BY <1>5, <3>1, <3>3, <3>5, <3>6
  <2> QED BY <2>1, <2>2
<1> QED BY <1>1, <1>7, <1>8 DEF Splits

\* A finite sum of numbers is a number.
LEMMA SumInt ==
  ASSUME NEW f, NEW S, IsFiniteSet(S), \A x \in S : f[x] \in Int
  PROVE  SumFunctionOnSet(f, S) \in Int
BY SumSplits DEF Splits

\* Any element can be taken out of a sum.
LEMMA SumTake ==
  ASSUME NEW f, NEW S, IsFiniteSet(S), \A x \in S : f[x] \in Int, NEW x \in S
  PROVE  /\ SumFunctionOnSet(f, S \ {x}) \in Int
         /\ SumFunctionOnSet(f, S) = f[x] + SumFunctionOnSet(f, S \ {x})
<1>1. IsFiniteSet(S \ {x})
  BY FS_Subset
<1> QED BY <1>1, SumSplits, SumInt DEF Splits

\* Functions that agree on a set have the same sum over it.
LEMMA SumSame ==
  ASSUME NEW f, NEW g, NEW S, IsFiniteSet(S), \A x \in S : f[x] = g[x]
  PROVE  SumFunctionOnSet(f, S) = SumFunctionOnSet(g, S)
<1> DEFINE T == {V \in SUBSET S : SumFunctionOnSet(f, V) # SumFunctionOnSet(g, V)}
<1> SUFFICES ASSUME T # {} PROVE FALSE
  OBVIOUS
<1>1. PICK V \in T : \A W \in T : W \subseteq V => W = V
  <2> T \subseteq SUBSET S OBVIOUS
  <2> HIDE DEF T
  <2> QED BY SmallestSubset
<1>2. V # {} /\ IsFiniteSet(V)
  BY SumEmpty, FS_Subset
<1>3. First(V) \in V
  BY <1>2, FirstIn
<1>4. SumFunctionOnSet(f, V \ {First(V)}) = SumFunctionOnSet(g, V \ {First(V)})
  BY <1>1, <1>3
<1> QED BY <1>2, <1>3, <1>4, SumFirst

\* The sum of two functions is the sum of their sums.
LEMMA SumAdded ==
  ASSUME NEW f, NEW g, NEW h, NEW S, IsFiniteSet(S),
         \A x \in S : f[x] \in Int /\ g[x] \in Int /\ h[x] = f[x] + g[x]
  PROVE  SumFunctionOnSet(h, S) = SumFunctionOnSet(f, S) + SumFunctionOnSet(g, S)
<1> DEFINE T == {V \in SUBSET S : SumFunctionOnSet(h, V)
                     # SumFunctionOnSet(f, V) + SumFunctionOnSet(g, V)}
<1> SUFFICES ASSUME T # {} PROVE FALSE
  OBVIOUS
<1>1. PICK V \in T : \A W \in T : W \subseteq V => W = V
  <2> T \subseteq SUBSET S OBVIOUS
  <2> HIDE DEF T
  <2> QED BY SmallestSubset
<1>2. V # {} /\ IsFiniteSet(V) /\ V \subseteq S
  <2>1. IsFiniteSet(V) /\ V \subseteq S
    BY FS_Subset
  <2>2. ASSUME V = {} PROVE FALSE
    <3>1. SumFunctionOnSet(h, V) = 0 /\ SumFunctionOnSet(f, V) = 0 /\ SumFunctionOnSet(g, V) = 0
      BY <2>2, SumEmpty
    <3> QED BY <3>1
  <2> QED BY <2>1, <2>2
<1> DEFINE c == First(V)
           q == V \ {c}
<1>3. c \in V
  BY <1>2, FirstIn
<1>4. SumFunctionOnSet(h, q) = SumFunctionOnSet(f, q) + SumFunctionOnSet(g, q)
  BY <1>1, <1>3
<1>5. SumFunctionOnSet(f, q) \in Int /\ SumFunctionOnSet(g, q) \in Int
  <2>1. IsFiniteSet(q) /\ q \subseteq S
    BY <1>2, FS_Subset
  <2> HIDE DEF q
  <2> QED BY <2>1, SumInt
<1>6. /\ SumFunctionOnSet(f, V) = f[c] + SumFunctionOnSet(f, q)
      /\ SumFunctionOnSet(g, V) = g[c] + SumFunctionOnSet(g, q)
      /\ SumFunctionOnSet(h, V) = h[c] + SumFunctionOnSet(h, q)
  BY <1>2, SumFirst
<1>7. f[c] \in Int /\ g[c] \in Int /\ h[c] = f[c] + g[c]
  BY <1>2, <1>3
<1>8. SumFunctionOnSet(h, V) = SumFunctionOnSet(f, V) + SumFunctionOnSet(g, V)
  <2> HIDE DEF c, q, T
  <2> QED BY <1>4, <1>5, <1>6, <1>7
<1> QED BY <1>8

\* One entry changes, and the sum by as much.
LEMMA SumChanged ==
  ASSUME NEW f, NEW g, NEW S, IsFiniteSet(S), NEW x \in S,
         \A y \in S : f[y] \in Int /\ g[y] \in Int,
         \A y \in S : y # x => g[y] = f[y]
  PROVE  SumFunctionOnSet(g, S) = SumFunctionOnSet(f, S) - f[x] + g[x]
<1>1. IsFiniteSet(S \ {x})
  BY FS_Subset
<1>2. SumFunctionOnSet(f, S \ {x}) = SumFunctionOnSet(g, S \ {x})
  BY <1>1, SumSame
<1>3. SumFunctionOnSet(f, S) = f[x] + SumFunctionOnSet(f, S \ {x})
  BY SumTake
<1>4. SumFunctionOnSet(g, S) = g[x] + SumFunctionOnSet(g, S \ {x})
  BY SumTake
<1>5. SumFunctionOnSet(f, S \ {x}) \in Int
  BY SumTake
<1> QED BY <1>2, <1>3, <1>4, <1>5

\* The same for the sum over a whole function.
LEMMA TotalInt ==
  ASSUME NEW S, IsFiniteSet(S), NEW f \in [S -> Int]
  PROVE  SumFunction(f) \in Int
<1>1. SumFunctionOnSet(f, S) \in Int
  BY SumInt
<1> QED BY <1>1 DEF SumFunction

\* One entry changes, and the total by as much.
LEMMA TotalChanged ==
  ASSUME NEW S, IsFiniteSet(S), NEW f \in [S -> Int], NEW g \in [S -> Int],
         NEW x \in S, \A y \in S : y # x => g[y] = f[y]
  PROVE  SumFunction(g) = SumFunction(f) - f[x] + g[x]
<1>1. SumFunctionOnSet(g, S) = SumFunctionOnSet(f, S) - f[x] + g[x]
  BY SumChanged
<1> QED BY <1>1 DEF SumFunction

\* Zeros sum to zero.
LEMMA SumZero ==
  ASSUME NEW f, NEW S, IsFiniteSet(S), \A x \in S : f[x] = 0
  PROVE  SumFunctionOnSet(f, S) = 0
<1>1. SumFunctionOnSet(f, S) = SumFunctionOnSet(f, S) + SumFunctionOnSet(f, S)
  BY SumAdded
<1> QED BY <1>1, SumInt

\* One more element adds its entry.
LEMMA SumPut ==
  ASSUME NEW f, NEW S, IsFiniteSet(S), NEW x, x \notin S, f[x] \in Int,
         \A y \in S : f[y] \in Int
  PROVE  SumFunctionOnSet(f, S \cup {x}) = f[x] + SumFunctionOnSet(f, S)
<1> DEFINE U == S \cup {x}
<1>1. IsFiniteSet(U)
  BY FS_AddElement
<1>2. x \in U /\ U \ {x} = S /\ \A y \in U : f[y] \in Int
  OBVIOUS
<1> HIDE DEF U
<1>3. SumFunctionOnSet(f, U) = f[x] + SumFunctionOnSet(f, U \ {x})
  BY <1>1, <1>2, SumTake
<1> QED BY <1>2, <1>3 DEF U

\* A sum is the sum over a part and the sum over the rest.
LEMMA SumParted ==
  ASSUME NEW f, NEW S, IsFiniteSet(S), \A x \in S : f[x] \in Int,
         NEW D, D \subseteq S
  PROVE  SumFunctionOnSet(f, S) =
           SumFunctionOnSet(f, D) + SumFunctionOnSet(f, S \ D)
<1> DEFINE T == {V \in SUBSET D : SumFunctionOnSet(f, S)
                     # SumFunctionOnSet(f, V) + SumFunctionOnSet(f, S \ V)}
<1> SUFFICES ASSUME T # {} PROVE FALSE
  OBVIOUS
<1>1. PICK V \in T : \A W \in T : W \subseteq V => W = V
  <2> T \subseteq SUBSET D OBVIOUS
  <2> IsFiniteSet(D) BY FS_Subset
  <2> HIDE DEF T
  <2> QED BY SmallestSubset
<1>2. V \subseteq S /\ IsFiniteSet(V) /\ IsFiniteSet(S \ V)
  BY FS_Subset
<1>3. V # {}
  <2> SUFFICES ASSUME V = {} PROVE FALSE
    OBVIOUS
  <2>1. SumFunctionOnSet(f, V) = 0 /\ S \ V = S
    BY SumEmpty
  <2>2. SumFunctionOnSet(f, S) \in Int
    BY SumInt
  <2>3. SumFunctionOnSet(f, S)
                     # SumFunctionOnSet(f, V) + SumFunctionOnSet(f, S \ V)
    OBVIOUS
  <2> QED BY <2>1, <2>2, <2>3
<1> DEFINE c == First(V)
           q == V \ {c}
           r == S \ V
<1>4. c \in V
  BY <1>3, FirstIn
<1>5. SumFunctionOnSet(f, S) = SumFunctionOnSet(f, q) + SumFunctionOnSet(f, S \ q)
  BY <1>1, <1>4
<1>6. S \ q = r \cup {c} /\ c \notin r /\ f[c] \in Int
  BY <1>2, <1>4
<1>7. IsFiniteSet(r) /\ IsFiniteSet(q) /\ q \subseteq S /\ r \subseteq S
  BY <1>2, FS_Subset
<1>8. SumFunctionOnSet(f, V) = f[c] + SumFunctionOnSet(f, q)
  BY <1>2, <1>3, SumFirst
<1>9. SumFunctionOnSet(f, S) # SumFunctionOnSet(f, V) + SumFunctionOnSet(f, r)
  OBVIOUS
<1> HIDE DEF c, q, r, T
<1>10. SumFunctionOnSet(f, r) \in Int /\ SumFunctionOnSet(f, q) \in Int
  BY <1>7, SumInt
<1>11. SumFunctionOnSet(f, S \ q) = f[c] + SumFunctionOnSet(f, r)
  BY <1>6, <1>7, SumPut
<1> QED BY <1>5, <1>6, <1>8, <1>9, <1>10, <1>11

\* What each class of a partition sums to.
PartSums(f, p, V, A) ==
  [a \in A |-> SumFunctionOnSet(f, {x \in V : p[x] = a})]

\* A sum is the sum of what the classes of a partition sum to.
LEMMA SumByPart ==
  ASSUME NEW f, NEW S, IsFiniteSet(S), \A x \in S : f[x] \in Int,
         NEW A, IsFiniteSet(A), NEW p, \A x \in S : p[x] \in A
  PROVE  SumFunctionOnSet(PartSums(f, p, S, A), A) = SumFunctionOnSet(f, S)
<1> DEFINE T == {V \in SUBSET S : SumFunctionOnSet(PartSums(f, p, V, A), A)
                                    # SumFunctionOnSet(f, V)}
<1> SUFFICES ASSUME T # {} PROVE FALSE
  OBVIOUS
<1>1. PICK V \in T : \A W \in T : W \subseteq V => W = V
  <2> T \subseteq SUBSET S OBVIOUS
  <2> HIDE DEF T
  <2> QED BY SmallestSubset
<1>2. IsFiniteSet(V) /\ V \subseteq S
  BY FS_Subset
<1>3. V # {}
  <2> SUFFICES ASSUME V = {} PROVE FALSE
    OBVIOUS
  <2>1. \A a \in A : PartSums(f, p, V, A)[a] = 0
    <3> TAKE a \in A
    <3>1. {x \in V : p[x] = a} = {}
      OBVIOUS
    <3> QED BY <3>1, SumEmpty DEF PartSums
  <2> QED BY <2>1, SumZero, SumEmpty
<1> DEFINE c == First(V)
           q == V \ {c}
           b == p[c]
           F == PartSums(f, p, q, A)
           G == PartSums(f, p, V, A)
<1>4. c \in V /\ b \in A /\ f[c] \in Int
  BY <1>3, FirstIn
<1>5. SumFunctionOnSet(F, A) = SumFunctionOnSet(f, q)
  BY <1>1, <1>4
<1>6. SumFunctionOnSet(f, V) = f[c] + SumFunctionOnSet(f, q)
  BY <1>2, <1>3, SumFirst
<1>7. q \subseteq V /\ IsFiniteSet(q)
  BY <1>2, FS_Subset
<1>8. SumFunctionOnSet(G, A) # SumFunctionOnSet(f, V)
  OBVIOUS
<1>9. V = q \cup {c} /\ c \notin q
  BY <1>4
<1> HIDE DEF c, q, T
<1>10. \A a \in A : F[a] \in Int /\ G[a] \in Int
  <2> TAKE a \in A
  <2>1. IsFiniteSet({x \in q : p[x] = a}) /\ IsFiniteSet({x \in V : p[x] = a})
    BY <1>2, <1>7, FS_Subset
  <2>2. \A x \in {x \in q : p[x] = a} : f[x] \in Int
    BY <1>2, <1>7
  <2>3. \A x \in {x \in V : p[x] = a} : f[x] \in Int
    BY <1>2
  <2>4. SumFunctionOnSet(f, {x \in q : p[x] = a}) \in Int
    BY <2>1, <2>2, SumInt
  <2>5. SumFunctionOnSet(f, {x \in V : p[x] = a}) \in Int
    BY <2>1, <2>3, SumInt
  <2> QED BY <2>4, <2>5 DEF PartSums
<1>11. \A a \in A : a # b => G[a] = F[a]
  <2> TAKE a \in A
  <2> HAVE a # b
  <2>1. {x \in V : p[x] = a} = {x \in q : p[x] = a}
    BY <1>9
  <2> QED BY <2>1 DEF PartSums
<1>12. G[b] = f[c] + F[b]
  <2> DEFINE P == {x \in q : p[x] = b}
  <2>1. {x \in V : p[x] = b} = P \cup {c} /\ c \notin P
    BY <1>9
  <2>2. IsFiniteSet(P) /\ \A x \in P : f[x] \in Int
    BY <1>2, <1>7, FS_Subset
  <2>3. SumFunctionOnSet(f, P \cup {c}) = f[c] + SumFunctionOnSet(f, P)
    <3> HIDE DEF P
    <3> QED BY <1>4, <2>1, <2>2, SumPut
  <2> QED BY <1>4, <2>1, <2>3 DEF PartSums
<1> HIDE DEF F, G, b
<1>13. SumFunctionOnSet(G, A) = SumFunctionOnSet(F, A) - F[b] + G[b]
  BY <1>4, <1>10, <1>11, SumChanged
<1>14. SumFunctionOnSet(F, A) \in Int /\ F[b] \in Int
  BY <1>4, <1>10, SumInt
<1> QED BY <1>4, <1>5, <1>6, <1>8, <1>12, <1>13, <1>14

----------------------------------------------------------------------------
(* The contract's ether.                                                   *)

\* The record says so once its bond is paid, an unregistered one holds nothing,
\* and whoever a bond may be paid to has a credit to add it to.
Sound(d) ==
  /\ d.bondPaid => d.bond = 0
  /\ d.principal = NoAddress => d.bond = 0 /\ d.stake = 0
  /\ d.accepted => d.terms.agent \in Address

USE DEF linkVars, paymentVars, revocationVars, capacityVars, etherVars

\* The conservation law, and what it rests on.
EtherInv == EtherBacked /\ \A id \in Id : Sound(delegations[id])

\* What the contract holds for a delegation: its bond and its stake.
Owed(d) == HeldBond(d) + d.stake

AllOwed == [id \in Id |-> HeldBond(delegations[id]) + delegations[id].stake]

\* What the contract owes is a number, delegation by delegation.
LEMMA OwedType == ASSUME NEW d \in Delegation PROVE Owed(d) \in Nat
  BY HeldType, FieldTypes DEF Owed

\* Identifiers are finitely many.
LEMMA IdFinite == IsFiniteSet(Id)
<1>1. 0 \in Int /\ MaxDelegations - 1 \in Int
  BY ReserveAssumption
<1> QED BY <1>1, FS_Interval DEF Id

\* What the contract owes, after one delegation's record changed.
LEMMA OneOwed ==
  ASSUME NEW id \in Id,
         delegations \in [Id -> Delegation], delegations' \in [Id -> Delegation],
         \A j \in Id : j # id => delegations'[j] = delegations[j]
  PROVE  /\ SumFunction(AllOwed') = SumFunction(AllOwed)
                                      - Owed(delegations[id]) + Owed(delegations'[id])
         /\ SumFunction(AllOwed) \in Int
<1> DEFINE f == AllOwed
           g == AllOwed'
<1>1. DOMAIN f = Id /\ DOMAIN g = Id
  BY DEF AllOwed
<1>2. \A j \in Id : f[j] = Owed(delegations[j]) /\ g[j] = Owed(delegations'[j])
  BY DEF AllOwed, Owed
<1>3. \A j \in Id : f[j] \in Int /\ g[j] \in Int
  BY <1>2, OwedType
<1>4. \A j \in Id : j # id => g[j] = f[j]
  BY <1>2
<1> HIDE DEF f, g
<1>5. SumFunctionOnSet(g, Id) = SumFunctionOnSet(f, Id) - f[id] + g[id]
  BY <1>3, <1>4, IdFinite, SumChanged
<1>6. SumFunctionOnSet(f, Id) \in Int
  BY <1>3, IdFinite, SumInt
<1>7. SumFunction(f) = SumFunctionOnSet(f, Id) /\ SumFunction(g) = SumFunctionOnSet(g, Id)
  BY <1>1 DEF SumFunction
<1> QED BY <1>2, <1>5, <1>6, <1>7 DEF f, g

\* What the contract owes in credits, after one account's changed.
LEMMA OneCredit ==
  ASSUME credit \in [Address -> Nat], NEW a \in Address, NEW n \in Nat,
         credit' = [credit EXCEPT ![a] = n]
  PROVE  /\ SumFunction(credit') = SumFunction(credit) - credit[a] + n
         /\ SumFunction(credit) \in Int
<1>1. DOMAIN credit = Address /\ DOMAIN credit' = Address
  OBVIOUS
<1>2. \A b \in Address : credit[b] \in Int /\ credit'[b] \in Int
  OBVIOUS
<1>3. credit'[a] = n /\ \A b \in Address : b # a => credit'[b] = credit[b]
  OBVIOUS
<1>4. SumFunctionOnSet(credit', Address)
        = SumFunctionOnSet(credit, Address) - credit[a] + credit'[a]
  <2> DEFINE f == credit
             g == credit'
  <2>1. /\ \A b \in Address : f[b] \in Int /\ g[b] \in Int
        /\ \A b \in Address : b # a => g[b] = f[b]
    BY <1>2, <1>3
  <2> HIDE DEF f, g
  <2>2. SumFunctionOnSet(g, Address) = SumFunctionOnSet(f, Address) - f[a] + g[a]
    BY <2>1, ReserveAssumption, SumChanged
  <2> QED BY <2>2 DEF f, g
<1>5. SumFunctionOnSet(credit, Address) \in Int
  BY <1>2, ReserveAssumption, SumInt
<1> QED BY <1>1, <1>2, <1>3, <1>4, <1>5 DEF SumFunction

\* Whatever the credits are, their sum is a number.
LEMMA CreditSum ==
  ASSUME credit \in [Address -> Nat]
  PROVE  SumFunction(credit) \in Int
<1>1. \A b \in Address : credit[b] \in Int
  OBVIOUS
<1>2. SumFunctionOnSet(credit, Address) \in Int
  BY <1>1, ReserveAssumption, SumInt
<1> QED BY <1>2 DEF SumFunction

\* A credit of nothing may go to an account the contract does not know.
LEMMA AnyCredit ==
  ASSUME credit \in [Address -> Nat], NEW a, NEW n \in Nat, n # 0 => a \in Address,
         credit' = [credit EXCEPT ![a] = credit[a] + n]
  PROVE  SumFunction(credit') = SumFunction(credit) + n
<1>1. CASE a \in Address
  <2>1. credit[a] + n \in Nat /\ credit[a] \in Nat
    BY <1>1
  <2>2. /\ SumFunction(credit') = SumFunction(credit) - credit[a] + (credit[a] + n)
        /\ SumFunction(credit) \in Int
    BY <1>1, <2>1, OneCredit
  <2> QED BY <2>1, <2>2
<1>2. CASE a \notin Address
  <2>1. credit' = credit /\ n = 0
    BY <1>2
  <2>2. SumFunction(credit') = SumFunction(credit)
    BY <2>1
  <2>3. SumFunction(credit) \in Int
    BY CreditSum
  <2> QED BY <2>1, <2>2, <2>3
<1> QED BY <1>1, <1>2

\* One record changes: the balance may move by what is owed for it, what is
\* owed in credits and what is burnt, and by nothing else.
LEMMA EtherStep ==
  ASSUME TypeInv, EtherInv, NEW id \in Id, NEW e \in Delegation, Sound(e),
         delegations' = [delegations EXCEPT ![id] = e],
         NEW n \in Int, SumFunction(credit') = SumFunction(credit) + n,
         burnt' \in Int, balance' \in Int,
         balance' - burnt' - n - Owed(e) = balance - burnt - Owed(delegations[id])
  PROVE  EtherInv'
<1>1. delegations \in [Id -> Delegation] /\ burnt \in Int /\ balance \in Int
  BY DEF TypeInv, ReserveTypeOK
<1>2. /\ delegations' \in [Id -> Delegation] /\ delegations'[id] = e
      /\ \A j \in Id : j # id => delegations'[j] = delegations[j]
  BY <1>1
<1>3. /\ SumFunction(AllOwed') = SumFunction(AllOwed)
                                   - Owed(delegations[id]) + Owed(e)
      /\ SumFunction(AllOwed) \in Int
  BY <1>1, <1>2, OneOwed
<1>4. SumFunction(credit) \in Int
  BY CreditSum DEF TypeInv, ReserveTypeOK
<1>5. Owed(e) \in Int /\ Owed(delegations[id]) \in Int
  BY <1>1, OwedType
<1>6. balance = SumFunction(credit) + burnt + SumFunction(AllOwed)
  BY DEF EtherInv, EtherBacked, AllOwed
<1>7. balance' = SumFunction(credit') + burnt' + SumFunction(AllOwed')
  BY <1>1, <1>3, <1>4, <1>5, <1>6
<1>8. EtherBacked'
  BY <1>7 DEF EtherBacked, AllOwed
<1>9. \A j \in Id : Sound(delegations'[j])
  BY <1>2 DEF EtherInv
<1> QED BY <1>8, <1>9 DEF EtherInv

\* What a record owes, and to whom, is the same in both.
SameOwed(d, e) ==
  /\ SameTerms(d, e)
  /\ e.accepted = d.accepted /\ e.bondPaid = d.bondPaid
  /\ e.bond = d.bond /\ e.stake = d.stake

\* A step that moves no ether and no bond or stake.
LEMMA EtherStill ==
  ASSUME TypeInv, EtherInv, UNCHANGED etherVars,
         \A id \in Id : SameOwed(delegations[id], delegations'[id])
  PROVE  EtherInv'
<1>1. AllOwed' = AllOwed
  BY DEF AllOwed, SameOwed, HeldBond
<1>2. EtherBacked'
  <2>1. balance = SumFunction(credit) + burnt + SumFunction(AllOwed)
    BY DEF EtherInv, EtherBacked, AllOwed
  <2>2. balance' = balance /\ credit' = credit /\ burnt' = burnt
    OBVIOUS
  <2>3. SumFunction(credit') = SumFunction(credit)
    BY <2>2
  <2>4. SumFunction(AllOwed') = SumFunction(AllOwed)
    BY <1>1
  <2>5. balance' = SumFunction(credit') + burnt' + SumFunction(AllOwed')
    BY <2>1, <2>2, <2>3, <2>4
  <2> QED BY <2>5 DEF EtherBacked, AllOwed
<1>3. \A id \in Id : Sound(delegations'[id])
  BY DEF EtherInv, Sound, SameOwed, SameTerms
<1> QED BY <1>2, <1>3 DEF EtherInv

\* The same, when one record changes.
LEMMA EtherStillOne ==
  ASSUME TypeInv, EtherInv, UNCHANGED etherVars,
         NEW id \in Id, NEW e, SameOwed(delegations[id], e),
         delegations' = [delegations EXCEPT ![id] = e]
  PROVE  EtherInv'
<1>1. \A j \in Id : SameOwed(delegations[j], delegations'[j])
  BY DEF TypeInv, ReserveTypeOK, SameOwed, SameTerms
<1> QED BY <1>1, EtherStill

\* A hold, a deposit, an epoch and a freeze leave what is owed alone.
LEMMA OwedUpdates ==
  ASSUME NEW d \in Delegation, NEW n \in Nat
  PROVE  /\ SameOwed(d, [d EXCEPT !.holds = n])
         /\ SameOwed(d, [d EXCEPT !.deposit = n])
         /\ SameOwed(d, [d EXCEPT !.epoch = n])
         /\ SameOwed(d, Froze(d))
  BY DEF Delegation, SameOwed, SameTerms, Froze

\* A paid bond is owed no more, by whatever path it was paid.
LEMMA SpentOwed ==
  ASSUME NEW d \in Delegation, Sound(d), NEW e, SameOwed(d, e),
         NEW f, f.bondPaid, f.bond = 0, f.stake = e.stake,
         f.accepted = e.accepted, SameTerms(e, f)
  PROVE  /\ Sound(f)
         /\ Owed(f) = d.stake
         /\ Owed(d) = (IF d.bondPaid THEN 0 ELSE HeldBond(d)) + d.stake
         /\ HeldBond(d) \in Nat /\ d.stake \in Nat
         /\ HeldBond(d) # 0 => d.principal \in Address /\ d.terms.agent \in Address
  BY HeldType, FieldTypes, ReserveAssumption
     DEF Sound, SameOwed, SameTerms, Owed, HeldBond

\* accept takes in the bond it is then held for.
LEMMA AcceptEther ==
  ASSUME TypeInv, EtherInv, NEW id \in Id, Accept(id)
  PROVE  EtherInv'
<1> DEFINE d == delegations[id]
           e == [d EXCEPT !.accepted = TRUE]
<1>1. d \in Delegation /\ Sound(d) /\ d.bond \in Nat /\ d.stake \in Nat
  BY FieldTypes DEF TypeInv, ReserveTypeOK, EtherInv
<1>2. ~d.accepted /\ d.terms.agent \in Address
  BY DEF Accept, Acceptable
<1>3. e \in Delegation
  BY <1>1, AcceptedUpdate
<1>4. e.accepted /\ e.terms = d.terms /\ e.bond = d.bond /\ e.stake = d.stake
        /\ e.bondPaid = d.bondPaid /\ e.principal = d.principal
  BY <1>1 DEF Delegation
<1>5. /\ delegations' = [delegations EXCEPT ![id] = e]
      /\ balance' = balance + d.bond /\ burnt' = burnt /\ credit' = credit
  BY DEF Accept
<1> HIDE DEF e
<1>6. Sound(e)
  BY <1>1, <1>2, <1>4 DEF Sound
<1>7. Owed(e) = d.bond + d.stake /\ Owed(d) = d.stake
  BY <1>1, <1>2, <1>4 DEF Owed, HeldBond
<1>8. balance \in Int /\ burnt \in Int /\ SumFunction(credit) \in Int
  BY CreditSum DEF TypeInv, ReserveTypeOK
<1>9. SumFunction(credit') = SumFunction(credit) + 0
  BY <1>5, <1>8
<1>10. /\ balance' \in Int /\ burnt' \in Int
       /\ balance' - burnt' - 0 - Owed(e) = balance - burnt - Owed(d)
  BY <1>1, <1>5, <1>7, <1>8
<1> HIDE DEF d
<1>11. 0 \in Int /\ Owed(d) = Owed(delegations[id])
  BY DEF d
<1> QED BY <1>3, <1>5, <1>6, <1>9, <1>10, <1>11, EtherStep

\* stakeAnswerer takes in the stake it then holds.
LEMMA StakeEther ==
  ASSUME TypeInv, EtherInv, NEW id \in Id, NEW value \in Nat, StakeAnswerer(id, value)
  PROVE  EtherInv'
<1> DEFINE d == delegations[id]
           e == [d EXCEPT !.stake = d.stake + value]
<1>1. d \in Delegation /\ Sound(d) /\ d.bond \in Nat /\ d.stake \in Nat
  BY FieldTypes DEF TypeInv, ReserveTypeOK, EtherInv
<1>2. d.principal # NoAddress
  BY DEF StakeAnswerer, TypeInv, Unregistered, Blank
<1>3. e \in Delegation
  BY <1>1 DEF Delegation, SameRecord, SameLife, SameTerms, SameEnd
<1>4. e.accepted = d.accepted /\ e.terms = d.terms /\ e.bond = d.bond
        /\ e.stake = d.stake + value /\ e.bondPaid = d.bondPaid /\ e.principal = d.principal
  BY <1>1 DEF Delegation
<1>5. /\ delegations' = [delegations EXCEPT ![id] = e]
      /\ balance' = balance + value /\ burnt' = burnt /\ credit' = credit
  BY DEF StakeAnswerer
<1> HIDE DEF e
<1>6. Sound(e)
  BY <1>1, <1>2, <1>4 DEF Sound
<1>7. HeldBond(e) = HeldBond(d) /\ HeldBond(d) \in Int
  BY <1>1, <1>4, HeldType DEF HeldBond
<1>8. balance \in Int /\ burnt \in Int /\ SumFunction(credit) \in Int
  BY CreditSum DEF TypeInv, ReserveTypeOK
<1>9. SumFunction(credit') = SumFunction(credit) + 0
  BY <1>5, <1>8
<1>10. /\ balance' \in Int /\ burnt' \in Int
       /\ balance' - burnt' - 0 - Owed(e) = balance - burnt - Owed(d)
  BY <1>1, <1>4, <1>5, <1>7, <1>8 DEF Owed
<1> HIDE DEF d
<1>11. 0 \in Int /\ Owed(d) = Owed(delegations[id])
  BY DEF d
<1> QED BY <1>3, <1>5, <1>6, <1>9, <1>10, <1>11, EtherStep

\* unstakeAnswerer pays out the stake it held.
LEMMA UnstakeEther ==
  ASSUME TypeInv, EtherInv, NEW id \in Id, UnstakeAnswerer(id)
  PROVE  EtherInv'
<1> DEFINE d == delegations[id]
           e == [d EXCEPT !.stake = 0]
<1>1. d \in Delegation /\ Sound(d) /\ d.bond \in Nat /\ d.stake \in Nat
  BY FieldTypes DEF TypeInv, ReserveTypeOK, EtherInv
<1>2. e \in Delegation /\ SameRecord(d, e)
  BY <1>1, CounterUpdates
<1>3. e.accepted = d.accepted /\ e.terms = d.terms /\ e.bond = d.bond
        /\ e.stake = 0 /\ e.bondPaid = d.bondPaid /\ e.principal = d.principal
  BY <1>1 DEF Delegation
<1>4. /\ delegations' = [delegations EXCEPT ![id] = e]
      /\ balance' = balance - d.stake /\ burnt' = burnt /\ credit' = credit
  BY DEF UnstakeAnswerer
<1> HIDE DEF e
<1>5. Sound(e)
  BY <1>1, <1>3 DEF Sound
<1>6. HeldBond(e) = HeldBond(d) /\ HeldBond(d) \in Int
  BY <1>1, <1>3, HeldType DEF HeldBond
<1>7. balance \in Int /\ burnt \in Int /\ SumFunction(credit) \in Int
  BY CreditSum DEF TypeInv, ReserveTypeOK
<1>8. SumFunction(credit') = SumFunction(credit) + 0
  BY <1>4, <1>7
<1>9. /\ balance' \in Int /\ burnt' \in Int
      /\ balance' - burnt' - 0 - Owed(e) = balance - burnt - Owed(d)
  BY <1>1, <1>3, <1>4, <1>6, <1>7 DEF Owed
<1> HIDE DEF d
<1>10. 0 \in Int /\ Owed(d) = Owed(delegations[id])
  BY DEF d
<1> QED BY <1>2, <1>4, <1>5, <1>8, <1>9, <1>10, EtherStep

\* A bond that is paid is credited to whoever it goes to, once.
LEMMA PaidEther ==
  ASSUME TypeInv, EtherInv, NEW id \in Id, NEW e, SameOwed(delegations[id], e),
         NEW f \in Delegation, SameTerms(e, f), f.bondPaid, f.bond = 0,
         f.stake = e.stake, f.accepted = e.accepted,
         delegations' = [delegations EXCEPT ![id] = f],
         NEW n, n = IF delegations[id].bondPaid THEN 0 ELSE HeldBond(delegations[id]),
         NEW a, a \in {delegations[id].principal, delegations[id].terms.agent},
         credit' = [credit EXCEPT ![a] = credit[a] + n],
         UNCHANGED <<balance, burnt>>
  PROVE  EtherInv'
<1> DEFINE d == delegations[id]
<1>1. d \in Delegation /\ Sound(d)
  BY DEF TypeInv, ReserveTypeOK, EtherInv
<1>2. /\ Sound(f) /\ Owed(f) = d.stake /\ Owed(d) = n + d.stake
      /\ HeldBond(d) \in Nat /\ d.stake \in Nat
      /\ HeldBond(d) # 0 => a \in Address
  BY <1>1, SpentOwed
<1>3. n \in Nat /\ (n # 0 => a \in Address)
  BY <1>2
<1>4. /\ credit \in [Address -> Nat] /\ balance \in Int /\ burnt \in Int
      /\ SumFunction(credit) \in Int
  BY CreditSum DEF TypeInv, ReserveTypeOK
<1>5. SumFunction(credit') = SumFunction(credit) + n
  BY <1>3, <1>4, AnyCredit
<1>6. /\ balance' \in Int /\ burnt' \in Int /\ n \in Int
      /\ balance' - burnt' - n - Owed(f) = balance - burnt - Owed(d)
  BY <1>2, <1>3, <1>4
<1> QED BY <1>2, <1>5, <1>6, EtherStep

\* claim pays the principal.
LEMMA ClaimEther ==
  ASSUME TypeInv, EtherInv, NEW id \in Id, NEW secret \in Secret, Claim(id, secret)
  PROVE  EtherInv'
<1> DEFINE d == delegations[id]
           e == Froze(d)
           f == BondSpent(e)
<1>1. d \in Delegation /\ now \in Nat
  BY DEF TypeInv, ReserveTypeOK
<1>2. SameOwed(d, e) /\ e \in Delegation
  BY <1>1, OwedUpdates, FrozeUpdate
<1>3. f \in Delegation /\ SameTerms(e, f) /\ f.bondPaid /\ f.accepted = e.accepted
  BY <1>2, SpentUpdate DEF SameLife
<1>4. f.bond = 0 /\ f.stake = e.stake
  BY <1>2 DEF BondSpent, Delegation
<1>5. /\ delegations' = [delegations EXCEPT ![id] = f] /\ ~d.bondPaid
      /\ credit' = [credit EXCEPT ![d.principal] = credit[d.principal] + HeldBond(d)]
      /\ UNCHANGED <<balance, burnt>>
  BY DEF Claim
<1> HIDE DEF e, f
<1> QED BY <1>2, <1>3, <1>4, <1>5, PaidEther

\* forfeit pays the principal, or nobody if a claim already did.
LEMMA ForfeitEther ==
  ASSUME TypeInv, EtherInv, NEW id \in Id, NEW unheld \in Nat, Forfeit(id, unheld)
  PROVE  EtherInv'
<1> DEFINE d == delegations[id]
           e == Froze(d)
           b == BondSpent(e)
           f == [b EXCEPT !.holds = b.holds - unheld]
<1>1. d \in Delegation /\ now \in Nat
  BY DEF TypeInv, ReserveTypeOK
<1>2. SameOwed(d, e) /\ e \in Delegation
  BY <1>1, OwedUpdates, FrozeUpdate
<1>3. b \in Delegation /\ SameTerms(e, b) /\ b.bondPaid /\ b.accepted = e.accepted
  BY <1>2, SpentUpdate DEF SameLife
<1>4. b.bond = 0 /\ b.stake = e.stake /\ b.holds = d.holds
  BY <1>1, <1>2 DEF BondSpent, Froze, Delegation
<1>5. d.holds - unheld \in Nat
  BY <1>1, FieldTypes DEF Forfeit, Forfeitable
<1>6. /\ f \in Delegation /\ SameTerms(e, f) /\ f.bondPaid /\ f.accepted = e.accepted
      /\ f.bond = 0 /\ f.stake = e.stake
  <2> HIDE DEF b
  <2> QED BY <1>3, <1>4, <1>5 DEF Delegation, SameTerms
<1>7. /\ delegations' = [delegations EXCEPT ![id] = f]
      /\ credit' = [credit EXCEPT ![d.principal] = credit[d.principal]
                      + (IF d.bondPaid THEN 0 ELSE HeldBond(d))]
      /\ UNCHANGED <<balance, burnt>>
  BY DEF Forfeit
<1> DEFINE n == IF d.bondPaid THEN 0 ELSE HeldBond(d)
<1> HIDE DEF e, f, b
<1>8. credit' = [credit EXCEPT ![d.principal] = credit[d.principal] + n]
  BY <1>7
<1> QED BY <1>2, <1>6, <1>7, <1>8, PaidEther

\* close pays the agent, or nobody if the bond was already paid.
LEMMA CloseEther ==
  ASSUME TypeInv, EtherInv, NEW id \in Id, Close(id)
  PROVE  EtherInv'
<1> DEFINE d == delegations[id]
           f == [BondSpent(d) EXCEPT !.closed = TRUE, !.deposit = 0]
           n == IF d.bondPaid THEN 0 ELSE HeldBond(d)
<1>1. d \in Delegation /\ Sound(d)
  BY DEF TypeInv, ReserveTypeOK, EtherInv
<1>2. SameOwed(d, d)
  BY DEF SameOwed, SameTerms
<1>3. f \in Delegation /\ SameTerms(d, f) /\ f.bondPaid /\ f.accepted = d.accepted
  BY <1>1, ClosedUpdate
<1>4. f.bond = 0 /\ f.stake = d.stake
  BY <1>1 DEF BondSpent, Delegation
<1>5. /\ delegations' = [delegations EXCEPT ![id] = f]
      /\ UNCHANGED <<balance, burnt>>
  BY DEF Close
<1>6. /\ d.principal = NoAddress => credit' = credit
      /\ d.principal # NoAddress =>
           credit' = [credit EXCEPT ![d.terms.agent] = credit[d.terms.agent] + n]
  BY DEF Close
<1> HIDE DEF f
<1>7. CASE d.principal # NoAddress
  BY <1>2, <1>3, <1>4, <1>5, <1>6, <1>7, PaidEther
<1>8. CASE d.principal = NoAddress
  <2>1. /\ Sound(f) /\ Owed(f) = d.stake /\ Owed(d) = n + d.stake
        /\ d.stake \in Nat
    BY <1>1, <1>2, <1>3, <1>4, SpentOwed
  <2>2. n = 0
    BY <1>1, <1>8 DEF Sound, HeldBond
  <2>3. balance \in Int /\ burnt \in Int /\ SumFunction(credit) \in Int
    BY CreditSum DEF TypeInv, ReserveTypeOK
  <2>4. SumFunction(credit') = SumFunction(credit) + 0
    BY <1>6, <1>8, <2>3
  <2>5. /\ balance' \in Int /\ burnt' \in Int /\ 0 \in Int
        /\ balance' - burnt' - 0 - Owed(f) = balance - burnt - Owed(delegations[id])
    BY <1>5, <2>1, <2>2, <2>3
  <2> QED BY <1>3, <1>5, <2>1, <2>4, <2>5, EtherStep
<1> QED BY <1>7, <1>8

\* slashAnswerer credits the bounty and burns the rest.
LEMMA SlashEther ==
  ASSUME TypeInv, EtherInv, NEW id \in Id, NEW caller \in Address,
         NEW bounty \in Nat, SlashAnswerer(id, caller, bounty)
  PROVE  EtherInv'
<1> DEFINE d == delegations[id]
           e == [d EXCEPT !.stake = 0]
           paid == IF bounty < d.stake THEN bounty ELSE d.stake
<1>1. d \in Delegation /\ Sound(d) /\ d.bond \in Nat /\ d.stake \in Nat
  BY FieldTypes DEF TypeInv, ReserveTypeOK, EtherInv
<1>2. e \in Delegation
  BY <1>1, CounterUpdates
<1>3. e.accepted = d.accepted /\ e.terms = d.terms /\ e.bond = d.bond
        /\ e.stake = 0 /\ e.bondPaid = d.bondPaid /\ e.principal = d.principal
  BY <1>1 DEF Delegation
<1>4. /\ delegations' = [delegations EXCEPT ![id] = e]
      /\ balance' = balance /\ burnt' = burnt + (d.stake - paid)
      /\ credit' = [credit EXCEPT ![caller] = credit[caller] + paid]
  BY DEF SlashAnswerer
<1>5. paid \in Nat
  BY <1>1
<1> HIDE DEF e, paid
<1>6. Sound(e)
  BY <1>1, <1>3 DEF Sound
<1>7. HeldBond(e) = HeldBond(d) /\ HeldBond(d) \in Int
  BY <1>1, <1>3, HeldType DEF HeldBond
<1>8. credit \in [Address -> Nat] /\ balance \in Int /\ burnt \in Int
  BY DEF TypeInv, ReserveTypeOK
<1>9. SumFunction(credit') = SumFunction(credit) + paid
  BY <1>4, <1>5, <1>8, AnyCredit
<1>10. /\ balance' \in Int /\ burnt' \in Int /\ paid \in Int
       /\ balance' - burnt' - paid - Owed(e) = balance - burnt - Owed(d)
  BY <1>1, <1>3, <1>4, <1>5, <1>7, <1>8 DEF Owed
<1> HIDE DEF d
<1>11. Owed(d) = Owed(delegations[id])
  BY DEF d
<1> QED BY <1>2, <1>4, <1>6, <1>9, <1>10, <1>11, EtherStep

\* withdraw pays out one account's credit whole.
LEMMA WithdrawEther ==
  ASSUME TypeInv, EtherInv, NEW a \in Address, Withdraw(a)
  PROVE  EtherInv'
<1>1. credit \in [Address -> Nat] /\ balance \in Int /\ burnt \in Int
  BY DEF TypeInv, ReserveTypeOK
<1>2. /\ credit' = [credit EXCEPT ![a] = 0] /\ balance' = balance - credit[a]
      /\ burnt' = burnt /\ delegations' = delegations
  BY DEF Withdraw
<1>3. /\ SumFunction(credit') = SumFunction(credit) + (0 - credit[a])
      /\ SumFunction(credit) \in Int
  <2>1. /\ SumFunction(credit') = SumFunction(credit) - credit[a] + 0
        /\ SumFunction(credit) \in Int
    BY <1>1, <1>2, OneCredit
  <2> QED BY <1>1, <2>1
<1>4. AllOwed' = AllOwed
  BY <1>2 DEF AllOwed
<1>5. balance = SumFunction(credit) + burnt + SumFunction(AllOwed)
  BY DEF EtherInv, EtherBacked, AllOwed
<1>6. SumFunction(AllOwed) \in Int
  <2>1. \A id \in Id : AllOwed[id] \in Int
    BY OwedType DEF AllOwed, Owed, TypeInv, ReserveTypeOK
  <2>2. SumFunctionOnSet(AllOwed, Id) \in Int
    BY <2>1, IdFinite, SumInt
  <2> QED BY <2>2 DEF SumFunction, AllOwed
<1>7. SumFunction(AllOwed') = SumFunction(AllOwed) /\ credit[a] \in Int
  BY <1>1, <1>4
<1>8. balance' = SumFunction(credit') + burnt' + SumFunction(AllOwed')
  BY <1>1, <1>2, <1>3, <1>5, <1>6, <1>7
<1>9. EtherBacked'
  BY <1>8 DEF EtherBacked, AllOwed
<1> QED BY <1>2, <1>9 DEF EtherInv

\* register overwrites a record nothing was owed for.
LEMMA RegisterEther ==
  ASSUME TypeInv, EtherInv, NEW p \in Principal, NEW t \in Offer, Register(p, t)
  PROVE  EtherInv'
<1> DEFINE e == Issued(p, t)
           d == delegations[nextId]
<1>1. nextId \in Id
  BY ReserveAssumption DEF TypeInv, ReserveTypeOK, Register, Id
<1>2. d \in Delegation /\ d.principal = NoAddress /\ ~d.accepted /\ Sound(d)
  BY <1>1, ReserveAssumption, SMTT(30) DEF TypeInv, ReserveTypeOK, Unregistered, EtherInv, Id
<1>3. e \in Delegation /\ ~e.accepted /\ ~e.bondPaid /\ e.stake = 0 /\ e.principal = p
  <2>1. t \in Terms
    BY ReserveAssumption
  <2> QED BY <2>1, IssuedType DEF Issued, Blank
<1>4. /\ delegations' = [delegations EXCEPT ![nextId] = e]
      /\ balance' = balance /\ burnt' = burnt /\ credit' = credit
  BY DEF Register
<1> HIDE DEF e
<1>5. p # NoAddress
  BY ReserveAssumption
<1>6. Sound(e)
  BY <1>3, <1>5 DEF Sound
<1>7. Owed(d) = 0 /\ Owed(e) = 0
  BY <1>2, <1>3 DEF Owed, HeldBond, Sound
<1>8. balance \in Int /\ burnt \in Int /\ SumFunction(credit) \in Int
  BY CreditSum DEF TypeInv, ReserveTypeOK
<1>9. SumFunction(credit') = SumFunction(credit) + 0
  BY <1>4, <1>8
<1>10. /\ balance' \in Int /\ burnt' \in Int /\ 0 \in Int
       /\ balance' - burnt' - 0 - Owed(e) = balance - burnt - Owed(delegations[nextId])
  BY <1>4, <1>7, <1>8
<1> QED BY <1>1, <1>3, <1>4, <1>6, <1>9, <1>10, EtherStep

\* Every call of an account's keeps the ether accounted for.
LEMMA AccountEther == ASSUME TypeInv, EtherInv, AccountStep PROVE EtherInv'
<1>1. \A id \in Id : delegations[id] \in Delegation /\ delegations[id].epoch \in Nat
  BY FieldTypes DEF TypeInv, ReserveTypeOK
<1>2. ASSUME delegations' = delegations, UNCHANGED etherVars PROVE EtherInv'
  BY <1>2, EtherStill DEF SameOwed, SameTerms
<1>3. ASSUME NEW a \in Signer, NEW n \in Capacity, DeclareCapacity(a, n)
      PROVE  EtherInv'
  BY <1>2, <1>3 DEF DeclareCapacity
<1>4. ASSUME NEW id \in Id, NEW signer \in Signer, NEW pay \in Payment,
             Sign(id, signer, pay)
      PROVE  EtherInv'
  <2>1. delegations' = delegations /\ UNCHANGED etherVars
    BY <1>4 DEF Sign
  <2> QED BY <1>2, <2>1
<1>5. ASSUME NEW p \in signed, NEW stored \in BOOLEAN, Settle(p, stored)
      PROVE  EtherInv'
  <2>1. p.id \in Id /\ p.amount \in Nat
    BY DEF TypeInv, ReserveTypeOK, Payload
  <2>2. UNCHANGED etherVars
    BY <1>5 DEF Settle
  <2>3. CASE delegations[p.id].terms.funding = "Deposit"
    <3> DEFINE d == delegations[p.id]
               n == d.deposit - p.amount
               e == [d EXCEPT !.deposit = n]
    <3>1. d.deposit >= p.amount /\ delegations' = [delegations EXCEPT ![p.id] = e]
      BY <1>5, <2>3 DEF Settle, PaidOut
    <3>2. n \in Nat
      BY <1>1, <2>1, <3>1, FieldTypes
    <3>3. SameOwed(d, e)
      <4> HIDE DEF n
      <4> QED BY <1>1, <2>1, <3>2, OwedUpdates
    <3> HIDE DEF e
    <3> QED BY <2>1, <2>2, <3>1, <3>3, EtherStillOne
  <2>4. CASE delegations[p.id].terms.funding # "Deposit"
    <3>1. delegations' = delegations
      BY <1>5, <2>4 DEF Settle, PaidOut
    <3> QED BY <1>2, <2>2, <3>1
  <2> QED BY <2>3, <2>4
<1>6. ASSUME NEW id \in Id, NEW sender \in Address, Freeze(id, sender)
      PROVE  EtherInv'
  <2> DEFINE e == Froze(delegations[id])
  <2>1. SameOwed(delegations[id], e)
    BY <1>1, OwedUpdates
  <2>2. delegations' = [delegations EXCEPT ![id] = e] /\ UNCHANGED etherVars
    BY <1>6 DEF Freeze
  <2> HIDE DEF e
  <2> QED BY <2>1, <2>2, EtherStillOne
<1>7. ASSUME NEW id \in Id, Reclaim(id)
      PROVE  EtherInv'
  <2> DEFINE e == [delegations[id] EXCEPT !.deposit = 0]
  <2>1. SameOwed(delegations[id], e)
    BY <1>1, OwedUpdates
  <2>2. delegations' = [delegations EXCEPT ![id] = e] /\ UNCHANGED etherVars
    BY <1>7 DEF Reclaim
  <2> HIDE DEF e
  <2> QED BY <2>1, <2>2, EtherStillOne
<1>8. ASSUME NEW id \in Id, NEW ranges \in Revocation, Revoke(id, ranges)
      PROVE  EtherInv'
  <2> DEFINE n == delegations[id].epoch + 1
             e == [delegations[id] EXCEPT !.epoch = n]
  <2>1. n \in Nat
    BY <1>1
  <2>2. SameOwed(delegations[id], e)
    <3> HIDE DEF n
    <3> QED BY <1>1, <2>1, OwedUpdates
  <2>3. delegations' = [delegations EXCEPT ![id] = e] /\ UNCHANGED etherVars
    BY <1>8 DEF Revoke
  <2> HIDE DEF e
  <2> QED BY <2>2, <2>3, EtherStillOne
<1>9. ASSUME NEW id \in Id, NEW v \in StakeValue, StakeAnswerer(id, v)
      PROVE  EtherInv'
  BY <1>9, StakeEther, ReserveAssumption
<1> QED BY <1>3, <1>4, <1>5, <1>6, <1>7, <1>8, <1>9, RegisterEther, AcceptEther,
           ClaimEther, UnstakeEther, CloseEther, WithdrawEther DEF AccountStep

\* A transaction of the arbiter's that moves no ether of the reserve's.
LEMMA HoldsEther ==
  ASSUME TypeInv, EtherInv,
         \/ NoCall
         \/ \E id \in Id : Hold(id)
         \/ \E n \in [Id -> Nat] : Release(n)
  PROVE  EtherInv'
<1>1. \A id \in Id : delegations[id] \in Delegation
  BY DEF TypeInv, ReserveTypeOK
<1>2. UNCHANGED etherVars
  BY DEF NoCall, Hold, Release
<1>3. CASE NoCall
  BY <1>2, <1>3, EtherStill DEF NoCall, SameOwed, SameTerms
<1>4. ASSUME NEW id \in Id, Hold(id)
      PROVE  EtherInv'
  <2> DEFINE n == delegations[id].holds + 1
             e == [delegations[id] EXCEPT !.holds = n]
  <2>1. n \in Nat
    BY <1>1, FieldTypes
  <2>2. SameOwed(delegations[id], e)
    <3> HIDE DEF n
    <3> QED BY <1>1, <2>1, OwedUpdates
  <2>3. delegations' = [delegations EXCEPT ![id] = e]
    BY <1>4 DEF Hold
  <2> HIDE DEF e
  <2> QED BY <1>2, <2>2, <2>3, EtherStillOne
<1>5. ASSUME NEW n \in [Id -> Nat], Release(n)
      PROVE  EtherInv'
  <2>1. ASSUME NEW id \in Id PROVE SameOwed(delegations[id], delegations'[id])
    <3> DEFINE h == delegations[id].holds - n[id]
    <3>1. delegations'[id] = [delegations[id] EXCEPT !.holds = h]
      BY <1>5 DEF Release
    <3>2. h \in Nat
      BY <1>1, <1>5, FieldTypes DEF Release
    <3> HIDE DEF h
    <3> QED BY <1>1, <3>1, <3>2, OwedUpdates, ZenonT(40)
  <2> QED BY <1>2, <2>1, EtherStill
<1> QED BY <1>3, <1>4, <1>5

\* Every call of a lone arbiter's does too.
LEMMA ArbiterEther == ASSUME TypeInv, EtherInv, ArbiterStep PROVE EtherInv'
<1>1. ASSUME NEW id \in Id, Release([i \in Id |-> IF i = id THEN 1 ELSE 0])
      PROVE  EtherInv'
  <2>1. [i \in Id |-> IF i = id THEN 1 ELSE 0] \in [Id -> Nat]
    OBVIOUS
  <2> QED BY <1>1, <2>1, HoldsEther
<1>2. ASSUME NEW id \in Id, NEW unheld \in 0..1, Forfeit(id, unheld)
      PROVE  EtherInv'
  BY <1>2, ForfeitEther
<1>3. ASSUME NEW id \in Id, NEW caller \in Address, NEW bounty \in Bounty,
             SlashAnswerer(id, caller, bounty)
      PROVE  EtherInv'
  BY <1>3, SlashEther, ReserveAssumption
<1>4. ASSUME NEW id \in Id, NEW n \in 0..MaxHolds, ArbiterCounts(id, n)
      PROVE  EtherInv'
  BY <1>4, HoldsEther DEF ArbiterCounts
<1> QED BY <1>1, <1>2, <1>3, <1>4, HoldsEther DEF ArbiterStep

\* At deployment nothing is owed.
LEMMA InitEther == ASSUME NEW c, ReserveInit(c) PROVE EtherInv
<1>1. \A id \in Id : delegations[id] = Blank /\ Sound(Blank) /\ Owed(Blank) = 0
  BY DEF ReserveInit, Blank, Sound, Owed, HeldBond
<1>2. \A id \in Id : AllOwed[id] = 0
  BY <1>1 DEF AllOwed, Owed
<1>3. SumFunction(AllOwed) = 0
  <2>1. SumFunctionOnSet(AllOwed, Id) = 0
    BY <1>2, IdFinite, SumZero
  <2> QED BY <2>1 DEF SumFunction, AllOwed
<1>4. SumFunction(credit) = 0
  <2>1. DOMAIN credit = Address /\ \A a \in Address : credit[a] = 0
    BY DEF ReserveInit
  <2>2. SumFunctionOnSet(credit, Address) = 0
    BY <2>1, SumZero, ReserveAssumption
  <2> QED BY <2>1, <2>2 DEF SumFunction
<1>5. balance = 0 /\ burnt = 0
  BY DEF ReserveInit
<1>6. balance = SumFunction(credit) + burnt + SumFunction(AllOwed)
  BY <1>3, <1>4, <1>5
<1> QED BY <1>1, <1>6 DEF EtherInv, EtherBacked, AllOwed

\* The reserve's ether is exactly what it owes, whatever its arbiter and its
\* accounts do, for any number of accounts and delegations: no bond is paid
\* twice, none is lost, and no stake leaves but to its answerer, a slasher or
\* the fire (accept, claim, forfeit, close, stakeAnswerer, unstakeAnswerer,
\* slashAnswerer, withdraw).
THEOREM EtherAlwaysBacked == Spec => []EtherBacked
<1>1. Init => TypeInv /\ EtherInv
  BY InitTypes, InitEther DEF Init
<1>2. TypeInv /\ EtherInv /\ [Next]_reserveVars => TypeInv' /\ EtherInv'
  <2> SUFFICES ASSUME TypeInv, EtherInv, [Next]_reserveVars
               PROVE  EtherInv'
    BY NextTypes
  <2>1. ASSUME delegations' = delegations, UNCHANGED etherVars PROVE EtherInv'
    BY <2>1, EtherStill DEF SameOwed, SameTerms
  <2>2. CASE Tick
    BY <2>1, <2>2 DEF Tick
  <2>3. ASSUME NEW c \in Dispute, SetDispute(c) PROVE EtherInv'
    BY <2>1, <2>3 DEF SetDispute
  <2>4. CASE UNCHANGED reserveVars
    BY <2>1, <2>4 DEF reserveVars
  <2> QED BY <2>2, <2>3, <2>4, AccountEther, ArbiterEther DEF Next
<1>3. EtherInv => EtherBacked
  BY DEF EtherInv
<1> QED BY <1>1, <1>2, <1>3, PTL DEF Spec

----------------------------------------------------------------------------
(* The payment token.                                                      *)

\* Nothing is left or settled under an identifier nobody registered.
Empty(id) ==
  delegations[id].principal = NoAddress =>
    /\ delegations[id].deposit = 0
    /\ \A dg \in Digest : settled[id][dg] = NotSettled

\* The conservation law, and what it rests on.
TokenInv == TokensAccounted /\ \A id \in Id : Empty(id)

\* What is left of each deposit.
Left == [id \in Id |-> delegations[id].deposit]

\* What a principal's delegation holds of its tokens or has spent.
ShareOf(id, a) ==
  IF delegations[id].principal = a
    THEN delegations[id].deposit + SettledUnder(id) ELSE 0

Shares(a) == [id \in Id |-> ShareOf(id, a)]

\* What settlements under each delegation paid an account.
Received(a) == [id \in Id |-> SettledTo(id, a)]

\* The conservation law in these terms.
Accounted ==
  /\ wallet[Vault] = SumFunction(Left)
  /\ \A a \in Address :
       wallet[a] + SumFunction(Shares(a)) = Wealth + SumFunction(Received(a))

\* It is the property the runs check.
LEMMA AccountedSame == TokensAccounted <=> Accounted
  BY DEF TokensAccounted, Accounted, Left, Shares, ShareOf, Received

\* What every sum of tokens is over is finite.
LEMMA DigestFinite == IsFiniteSet(Digest) BY ReserveAssumption

\* What one delegation's settlements come to, in all and to one account.
Total(row) == SumFunction([dg \in Digest |-> AmountOf(row[dg])])

PaidTo(row, a) == SumFunction([dg \in Digest |-> AmountTo(row[dg], a)])

\* They are what the property sums.
LEMMA SettledTotals ==
  ASSUME NEW id
  PROVE  /\ SettledUnder(id) = Total(settled[id])
         /\ SettledUnder(id)' = Total(settled'[id])
         /\ \A a : /\ SettledTo(id, a) = PaidTo(settled[id], a)
                  /\ SettledTo(id, a)' = PaidTo(settled'[id], a)
  BY DEF SettledUnder, SettledTo, Total, PaidTo

\* What settled under a delegation is a number.
LEMMA RowSums ==
  ASSUME NEW row \in [Digest -> Settlement \cup {NotSettled}]
  PROVE  Total(row) \in Int /\ \A a : PaidTo(row, a) \in Int
<1>1. \A dg \in Digest : AmountOf(row[dg]) \in Int /\ \A a : AmountTo(row[dg], a) \in Int
  BY DEF AmountOf, AmountTo, Settlement
<1>2. [dg \in Digest |-> AmountOf(row[dg])] \in [Digest -> Int]
  BY <1>1
<1>3. \A a : [dg \in Digest |-> AmountTo(row[dg], a)] \in [Digest -> Int]
  BY <1>1
<1> QED BY <1>2, <1>3, TotalInt, DigestFinite DEF Total, PaidTo

\* One more settlement adds its amount to what was paid, and to its payee.
LEMMA RowSettled ==
  ASSUME NEW row \in [Digest -> Settlement \cup {NotSettled}],
         NEW dg \in Digest, row[dg] = NotSettled, NEW s \in Settlement,
         NEW new \in [Digest -> Settlement \cup {NotSettled}],
         new[dg] = s, \A q \in Digest : q # dg => new[q] = row[q]
  PROVE  /\ Total(new) = Total(row) + s.amount
         /\ \A a : PaidTo(new, a) =
                     PaidTo(row, a) + (IF s.payee = a THEN s.amount ELSE 0)
<1>2. \A q \in Digest :
        /\ AmountOf(row[q]) \in Int /\ AmountOf(new[q]) \in Int
        /\ \A a : AmountTo(row[q], a) \in Int /\ AmountTo(new[q], a) \in Int
  BY DEF AmountOf, AmountTo, Settlement
<1>3. s # NotSettled /\ s.amount \in Nat
  BY ReserveAssumption DEF Settlement
<1>4. new[dg] = s /\ \A q \in Digest : q # dg => new[q] = row[q]
  OBVIOUS
<1>5. Total(new) = Total(row) + s.amount
  <2> DEFINE f == [q \in Digest |-> AmountOf(row[q])]
             g == [q \in Digest |-> AmountOf(new[q])]
  <2>1. f \in [Digest -> Int] /\ g \in [Digest -> Int]
    BY <1>2
  <2>2. \A q \in Digest : q # dg => g[q] = f[q]
    BY <1>4
  <2>3. f[dg] = 0 /\ g[dg] = s.amount
    BY <1>3, <1>4 DEF AmountOf
  <2> HIDE DEF f, g
  <2>4. SumFunction(g) = SumFunction(f) - f[dg] + g[dg]
    BY ONLY <2>1, <2>2, TotalChanged, DigestFinite, dg \in Digest
  <2>5. SumFunction(f) \in Int
    BY <2>1, TotalInt, DigestFinite
  <2>6. SumFunction(g) = SumFunction(f) + s.amount
    BY <1>3, <2>3, <2>4, <2>5
  <2> QED BY <2>6 DEF f, g, Total
<1>6. ASSUME NEW a
      PROVE  PaidTo(new, a) = PaidTo(row, a) + (IF s.payee = a THEN s.amount ELSE 0)
  <2> DEFINE f == [q \in Digest |-> AmountTo(row[q], a)]
             g == [q \in Digest |-> AmountTo(new[q], a)]
             n == IF s.payee = a THEN s.amount ELSE 0
  <2>1. f \in [Digest -> Int] /\ g \in [Digest -> Int]
    BY <1>2
  <2>2. \A q \in Digest : q # dg => g[q] = f[q]
    BY <1>4
  <2>3. f[dg] = 0 /\ g[dg] = n /\ n \in Nat
    BY <1>3, <1>4 DEF AmountTo
  <2> HIDE DEF f, g, n
  <2>4. SumFunction(g) = SumFunction(f) - f[dg] + g[dg]
    BY ONLY <2>1, <2>2, TotalChanged, DigestFinite, dg \in Digest
  <2>5. SumFunction(f) \in Int
    BY <2>1, TotalInt, DigestFinite
  <2>6. SumFunction(g) = SumFunction(f) + n
    BY <2>3, <2>4, <2>5
  <2> QED BY <2>6 DEF f, g, n, PaidTo
<1> QED BY <1>5, <1>6

\* Where nothing settled, nothing was paid.
LEMMA NothingSettled ==
  ASSUME NEW row, \A dg \in Digest : row[dg] = NotSettled
  PROVE  Total(row) = 0
<1> DEFINE f == [dg \in Digest |-> AmountOf(row[dg])]
<1>1. DOMAIN f = Digest /\ \A dg \in Digest : f[dg] = 0
  BY DEF AmountOf
<1> HIDE DEF f
<1>2. SumFunctionOnSet(f, Digest) = 0
  BY <1>1, SumZero, ReserveAssumption
<1>3. SumFunction(f) = 0
  BY <1>1, <1>2 DEF SumFunction
<1> QED BY <1>3 DEF f, Total

\* A transfer moves its amount and nothing else, from an account to itself too.
LEMMA MovedAt ==
  ASSUME wallet \in [Address \cup {Vault} -> Int], NEW from \in Address \cup {Vault},
         NEW to \in Address \cup {Vault}, NEW n \in Int, wallet' = Moved(from, to, n)
  PROVE  \A x \in Address \cup {Vault} :
           wallet'[x] = wallet[x] + (IF x = to THEN n ELSE 0) - (IF x = from THEN n ELSE 0)
  BY DEF Moved

\* The numbers the conservation law is about, before and after a step.
LEMMA TokenTypes ==
  ASSUME TypeInv, TypeInv'
  PROVE  /\ \A j \in Id : /\ delegations[j].deposit \in Int
                          /\ delegations'[j].deposit \in Int
                          /\ SettledUnder(j) \in Int /\ SettledUnder(j)' \in Int
                          /\ \A a : /\ SettledTo(j, a) \in Int /\ SettledTo(j, a)' \in Int
                                   /\ ShareOf(j, a) \in Int /\ ShareOf(j, a)' \in Int
         /\ wallet \in [Address \cup {Vault} -> Int]
         /\ wallet' \in [Address \cup {Vault} -> Int]
         /\ Wealth \in Int
<1>1. /\ delegations \in [Id -> Delegation] /\ delegations' \in [Id -> Delegation]
      /\ settled \in [Id -> [Digest -> Settlement \cup {NotSettled}]]
      /\ settled' \in [Id -> [Digest -> Settlement \cup {NotSettled}]]
      /\ wallet \in [Address \cup {Vault} -> Int]
      /\ wallet' \in [Address \cup {Vault} -> Int]
  BY DEF TypeInv, ReserveTypeOK
<1>2. ASSUME NEW j \in Id
      PROVE  /\ delegations[j].deposit \in Int /\ delegations'[j].deposit \in Int
             /\ SettledUnder(j) \in Int /\ SettledUnder(j)' \in Int
             /\ \A a : SettledTo(j, a) \in Int /\ SettledTo(j, a)' \in Int
  <2>1. delegations[j] \in Delegation /\ delegations'[j] \in Delegation
    BY <1>1
  <2>2. delegations[j].deposit \in Int
    BY <2>1, FieldTypes
  <2>3. delegations'[j].deposit \in Int
    BY <2>1, FieldTypes
  <2>4. /\ settled[j] \in [Digest -> Settlement \cup {NotSettled}]
        /\ settled'[j] \in [Digest -> Settlement \cup {NotSettled}]
    BY <1>1
  <2>5. SettledUnder(j) \in Int /\ \A a : SettledTo(j, a) \in Int
    BY <2>4, RowSums, SettledTotals
  <2>6. SettledUnder(j)' \in Int /\ \A a : SettledTo(j, a)' \in Int
    BY <2>4, RowSums, SettledTotals
  <2> QED BY <2>2, <2>3, <2>5, <2>6
<1>3. \A j \in Id : \A a : ShareOf(j, a) \in Int /\ ShareOf(j, a)' \in Int
  BY <1>2 DEF ShareOf
<1> QED BY <1>1, <1>2, <1>3, ReserveAssumption

\* One delegation's record, and what settled under it, change: the wallets may
\* move by the change of its deposit and of what it paid, and by nothing else.
LEMMA TokenStep ==
  ASSUME TypeInv, TypeInv', TokenInv, NEW id \in Id,
         \A j \in Id : j # id => /\ delegations'[j] = delegations[j]
                                 /\ settled'[j] = settled[j],
         Empty(id)',
         wallet'[Vault] = wallet[Vault]
                            + delegations'[id].deposit - delegations[id].deposit,
         \A a \in Address :
           wallet'[a] + ShareOf(id, a)' - SettledTo(id, a)'
             = wallet[a] + ShareOf(id, a) - SettledTo(id, a)
  PROVE  TokenInv'
<1>1. \A j \in Id : /\ delegations[j].deposit \in Int /\ delegations'[j].deposit \in Int
                    /\ \A a : /\ SettledTo(j, a) \in Int /\ SettledTo(j, a)' \in Int
                             /\ ShareOf(j, a) \in Int /\ ShareOf(j, a)' \in Int
  BY TokenTypes
<1>2. \A a \in Address \cup {Vault} : wallet[a] \in Int /\ wallet'[a] \in Int
  BY TokenTypes
<1>3. \A j \in Id : j # id => \A a : /\ SettledTo(j, a)' = SettledTo(j, a)
                                     /\ ShareOf(j, a)' = ShareOf(j, a)
  BY DEF SettledUnder, SettledTo, ShareOf
<1>4. /\ wallet[Vault] = SumFunction(Left)
      /\ \A a \in Address :
           wallet[a] + SumFunction(Shares(a)) = Wealth + SumFunction(Received(a))
  BY AccountedSame DEF TokenInv, Accounted
<1>5. wallet'[Vault] = SumFunction(Left')
  <2> DEFINE f == Left
             g == Left'
  <2>1. f \in [Id -> Int] /\ g \in [Id -> Int]
    BY <1>1 DEF Left
  <2>2. f[id] = delegations[id].deposit /\ g[id] = delegations'[id].deposit
    BY DEF Left
  <2>3. \A j \in Id : j # id => g[j] = f[j]
    BY DEF Left
  <2>4. wallet[Vault] = SumFunction(f)
    BY <1>4
  <2> HIDE DEF f, g
  <2>5. SumFunction(g) = SumFunction(f) - f[id] + g[id]
    BY <2>1, <2>3, IdFinite, TotalChanged
  <2>6. wallet'[Vault] = SumFunction(g)
    <3>1. wallet'[Vault] = wallet[Vault] + g[id] - f[id]
      BY <2>2
    <3>2. f[id] \in Int /\ g[id] \in Int /\ wallet[Vault] \in Int
      BY <1>2, <2>1
    <3> QED BY <2>4, <2>5, <3>1, <3>2
  <2> QED BY <2>6 DEF g
<1>6. ASSUME NEW a \in Address
      PROVE  wallet'[a] + SumFunction(Shares(a)') = Wealth + SumFunction(Received(a)')
  <2> DEFINE f == Shares(a)
             g == Shares(a)'
             u == Received(a)
             v == Received(a)'
  <2>1. f \in [Id -> Int] /\ g \in [Id -> Int] /\ u \in [Id -> Int] /\ v \in [Id -> Int]
    BY <1>1 DEF Shares, Received
  <2>2. /\ f[id] = ShareOf(id, a) /\ g[id] = ShareOf(id, a)'
        /\ u[id] = SettledTo(id, a) /\ v[id] = SettledTo(id, a)'
    BY DEF Shares, Received
  <2>3. \A j \in Id : j # id => g[j] = f[j] /\ v[j] = u[j]
    BY <1>3 DEF Shares, Received
  <2>4. wallet[a] + SumFunction(f) = Wealth + SumFunction(u)
    BY <1>4
  <2> HIDE DEF f, g, u, v
  <2>5. SumFunction(g) = SumFunction(f) - f[id] + g[id]
    BY <2>1, <2>3, IdFinite, TotalChanged
  <2>6. SumFunction(v) = SumFunction(u) - u[id] + v[id]
    BY <2>1, <2>3, IdFinite, TotalChanged
  <2>7. wallet'[a] + g[id] - v[id] = wallet[a] + f[id] - u[id]
    BY <2>2
  <2>8. wallet'[a] + SumFunction(g) = Wealth + SumFunction(v)
    <3>1. /\ f[id] \in Int /\ g[id] \in Int /\ u[id] \in Int /\ v[id] \in Int
          /\ wallet[a] \in Int /\ wallet'[a] \in Int /\ Wealth \in Int
      BY <1>2, <2>1, ReserveAssumption
    <3>2. SumFunction(f) \in Int /\ SumFunction(u) \in Int
      BY <2>1, IdFinite, TotalInt
    <3>3. SumFunction(g) \in Int /\ SumFunction(v) \in Int
      BY <2>1, IdFinite, TotalInt
    <3>4. wallet'[a] - wallet[a] = f[id] - g[id] + v[id] - u[id]
      BY <2>7, <3>1
    <3>5. SumFunction(v) - SumFunction(u) = v[id] - u[id]
      BY <2>6, <3>1, <3>2, <3>3
    <3>6. SumFunction(f) - SumFunction(g) = f[id] - g[id]
      BY <2>5, <3>1, <3>2, <3>3
    <3>7. wallet'[a] - wallet[a]
            = (SumFunction(f) - SumFunction(g)) + (SumFunction(v) - SumFunction(u))
      BY <3>1, <3>4, <3>5, <3>6
    <3> QED BY <2>4, <3>1, <3>2, <3>3, <3>7
  <2> QED BY <2>8 DEF g, v
<1>7. TokensAccounted'
  BY <1>5, <1>6 DEF TokensAccounted, Left, Shares, ShareOf, Received
<1>8. \A j \in Id : Empty(j)'
  BY DEF TokenInv, Empty
<1> QED BY <1>7, <1>8 DEF TokenInv

\* A step that moves no token and changes no deposit.
LEMMA TokenStill ==
  ASSUME TokenInv, UNCHANGED <<wallet, settled>>,
         \A id \in Id : /\ delegations'[id].principal = delegations[id].principal
                        /\ delegations'[id].deposit = delegations[id].deposit
  PROVE  TokenInv'
<1>1. Left' = Left
  BY DEF Left
<1>2. \A id : \A a : /\ SettledUnder(id)' = SettledUnder(id)
                     /\ SettledTo(id, a)' = SettledTo(id, a)
  BY DEF SettledUnder, SettledTo
<1>3. \A a : Shares(a)' = Shares(a) /\ Received(a)' = Received(a)
  BY <1>2 DEF Shares, Received, ShareOf
<1>4. Accounted'
  <2>1. Accounted
    BY AccountedSame DEF TokenInv
  <2> QED BY <1>1, <1>3, <2>1 DEF Accounted
<1>5. TokensAccounted'
  BY <1>4 DEF Accounted, TokensAccounted, Left, Shares, ShareOf, Received
<1>6. \A id \in Id : Empty(id)'
  BY DEF TokenInv, Empty
<1> QED BY <1>5, <1>6 DEF TokenInv

\* The same, when one record changes.
LEMMA TokenStillOne ==
  ASSUME TypeInv, TokenInv, UNCHANGED <<wallet, settled>>, NEW id \in Id, NEW e,
         e.principal = delegations[id].principal, e.deposit = delegations[id].deposit,
         delegations' = [delegations EXCEPT ![id] = e]
  PROVE  TokenInv'
<1>1. \A j \in Id : /\ delegations'[j].principal = delegations[j].principal
                    /\ delegations'[j].deposit = delegations[j].deposit
  BY DEF TypeInv, ReserveTypeOK
<1> QED BY <1>1, TokenStill

\* register takes a deposit in for an identifier that had none.
LEMMA RegisterTokens ==
  ASSUME TypeInv, TypeInv', TokenInv, NEW p \in Principal, NEW t \in Offer, Register(p, t)
  PROVE  TokenInv'
<1>1. PICK id \in Id : id = nextId
  BY ReserveAssumption DEF TypeInv, ReserveTypeOK, Register, Id
<1> DEFINE d == delegations[id]
           e == Issued(p, t)
<1>2. /\ d.principal = NoAddress /\ d.deposit = 0
      /\ \A dg \in Digest : settled[id][dg] = NotSettled
  <2>1. d.principal = NoAddress
    BY <1>1 DEF TypeInv, ReserveTypeOK, Unregistered, Id
  <2> QED BY <1>1, <2>1 DEF TokenInv, Empty
<1>3. e \in Delegation /\ e.principal = p /\ p # NoAddress /\ p \in Address /\ p # Vault
        /\ Vault \notin Address /\ NoAddress \notin Address
  <2>1. t \in Terms /\ p # NoAddress /\ p \in Address /\ p # Vault
    BY ReserveAssumption
  <2> QED BY <2>1, IssuedType, ReserveAssumption DEF Issued, Blank
<1>4. e.deposit \in Int
  BY <1>3, FieldTypes
<1>5. /\ delegations' = [delegations EXCEPT ![id] = e] /\ settled' = settled
      /\ wallet' = Moved(p, Vault, e.deposit)
  BY <1>1 DEF Register
<1> HIDE DEF e
<1>6. delegations'[id] = e /\ \A j \in Id : j # id => delegations'[j] = delegations[j]
  BY <1>1, <1>5 DEF TypeInv, ReserveTypeOK
<1>7. \A x \in Address \cup {Vault} :
        wallet'[x] = wallet[x] + (IF x = Vault THEN e.deposit ELSE 0)
                               - (IF x = p THEN e.deposit ELSE 0)
  BY <1>3, <1>4, <1>5, MovedAt, TokenTypes
<1>8. \A x \in Address \cup {Vault} : wallet[x] \in Int
  BY TokenTypes
<1>9. SettledUnder(id)' = 0 /\ \A a : SettledTo(id, a)' = SettledTo(id, a)
  BY <1>2, <1>5, NothingSettled, SettledTotals
<1>10. wallet'[Vault] = wallet[Vault] + delegations'[id].deposit - d.deposit
  BY <1>2, <1>3, <1>4, <1>6, <1>7, <1>8
<1>11. ASSUME NEW a \in Address
       PROVE  wallet'[a] + ShareOf(id, a)' - SettledTo(id, a)'
                = wallet[a] + ShareOf(id, a) - SettledTo(id, a)
  <2>1. ShareOf(id, a) = 0 /\ ShareOf(id, a)' = IF p = a THEN e.deposit ELSE 0
    BY <1>2, <1>3, <1>4, <1>6, <1>9 DEF ShareOf
  <2>2. wallet'[a] = wallet[a] - (IF a = p THEN e.deposit ELSE 0)
    BY <1>3, <1>4, <1>7, <1>8
  <2>3. SettledTo(id, a) \in Int /\ SettledTo(id, a)' = SettledTo(id, a)
    BY <1>1, <1>9, TokenTypes
  <2> QED BY <1>4, <1>8, <2>1, <2>2, <2>3
<1>12. Empty(id)'
  BY <1>3, <1>6 DEF Empty
<1> HIDE DEF d
<1>13. \A j \in Id : j # id => delegations'[j] = delegations[j] /\ settled'[j] = settled[j]
  BY <1>5, <1>6
<1> QED BY <1>1, <1>10, <1>11, <1>12, <1>13, TokenStep DEF d

\* What is left of a deposit goes back to the principal whole.
LEMMA DepositBack ==
  ASSUME TypeInv, TypeInv', TokenInv, NEW id \in Id, NEW e,
         e.principal = delegations[id].principal, e.deposit = 0,
         delegations' = [delegations EXCEPT ![id] = e], settled' = settled,
         IF delegations[id].principal = NoAddress THEN wallet' = wallet
           ELSE wallet' = Moved(Vault, delegations[id].principal, delegations[id].deposit)
  PROVE  TokenInv'
<1> DEFINE d == delegations[id]
<1>1. d.principal = NoAddress => d.deposit = 0 /\ wallet' = wallet
  BY DEF TokenInv, Empty
<1>2. CASE d.principal = NoAddress
  <2>1. e.deposit = d.deposit
    BY <1>1, <1>2
  <2> QED BY <1>1, <1>2, <2>1, TokenStillOne
<1>3. CASE d.principal # NoAddress
  <2>1. d \in Delegation
    BY DEF TypeInv, ReserveTypeOK
  <2>2. d.principal \in Address /\ Vault \notin Address /\ d.deposit \in Int
    BY <1>3, <2>1, FieldTypes, ReserveAssumption
  <2>3. delegations'[id] = e /\ \A j \in Id : j # id => delegations'[j] = delegations[j]
    BY DEF TypeInv, ReserveTypeOK
  <2>4. \A x \in Address \cup {Vault} :
          wallet'[x] = wallet[x] + (IF x = d.principal THEN d.deposit ELSE 0)
                                 - (IF x = Vault THEN d.deposit ELSE 0)
    BY <1>3, <2>2, MovedAt, TokenTypes
  <2>5. \A x \in Address \cup {Vault} : wallet[x] \in Int
    BY TokenTypes
  <2>6. wallet'[Vault] = wallet[Vault] + delegations'[id].deposit - d.deposit
    BY <2>2, <2>3, <2>4, <2>5
  <2>7. ASSUME NEW a \in Address
        PROVE  wallet'[a] + ShareOf(id, a)' - SettledTo(id, a)'
                 = wallet[a] + ShareOf(id, a) - SettledTo(id, a)
    <3>1. SettledTo(id, a) \in Int /\ SettledTo(id, a)' = SettledTo(id, a)
      BY TokenTypes DEF SettledTo
    <3>2. SettledUnder(id) \in Int /\ SettledUnder(id)' = SettledUnder(id)
      BY TokenTypes DEF SettledUnder
    <3>3. /\ ShareOf(id, a) = IF d.principal = a THEN d.deposit + SettledUnder(id) ELSE 0
          /\ ShareOf(id, a)' = IF d.principal = a THEN SettledUnder(id) ELSE 0
      BY <2>3, <3>2 DEF ShareOf
    <3>4. wallet'[a] = wallet[a] + (IF a = d.principal THEN d.deposit ELSE 0)
      BY <2>2, <2>4, <2>5
    <3> HIDE DEF d
    <3> QED BY <2>2, <2>5, <3>1, <3>2, <3>3, <3>4
  <2>8. Empty(id)'
    BY <1>3, <2>3 DEF Empty
  <2> QED BY <2>3, <2>6, <2>7, <2>8, TokenStep
<1> QED BY <1>2, <1>3

\* reclaim gives back what a frozen delegation did not spend.
LEMMA ReclaimTokens ==
  ASSUME TypeInv, TypeInv', TokenInv, NEW id \in Id, Reclaim(id)
  PROVE  TokenInv'
<1> DEFINE e == [delegations[id] EXCEPT !.deposit = 0]
<1>1. delegations[id] \in Delegation
  BY DEF TypeInv, ReserveTypeOK
<1>2. e.principal = delegations[id].principal /\ e.deposit = 0
  BY <1>1 DEF Delegation
<1>3. /\ delegations' = [delegations EXCEPT ![id] = e] /\ settled' = settled
      /\ delegations[id].principal # NoAddress
      /\ wallet' = Moved(Vault, delegations[id].principal, delegations[id].deposit)
  BY DEF Reclaim
<1> HIDE DEF e
<1> QED BY <1>2, <1>3, DepositBack

\* close gives back what the delegation did not spend.
LEMMA CloseTokens ==
  ASSUME TypeInv, TypeInv', TokenInv, NEW id \in Id, Close(id)
  PROVE  TokenInv'
<1> DEFINE e == [BondSpent(delegations[id]) EXCEPT !.closed = TRUE, !.deposit = 0]
<1>1. delegations[id] \in Delegation
  BY DEF TypeInv, ReserveTypeOK
<1>2. e.principal = delegations[id].principal /\ e.deposit = 0
  BY <1>1 DEF Delegation, BondSpent
<1>3. /\ delegations' = [delegations EXCEPT ![id] = e] /\ settled' = settled
      /\ IF delegations[id].principal = NoAddress THEN wallet' = wallet
         ELSE wallet' = Moved(Vault, delegations[id].principal, delegations[id].deposit)
  BY DEF Close
<1> HIDE DEF e
<1> QED BY <1>2, <1>3, DepositBack

\* settle pays the payee what the deposit, or the principal, loses.
LEMMA SettleTokens ==
  ASSUME TypeInv, TypeInv', TokenInv, NEW p \in signed, NEW stored \in BOOLEAN,
         Settle(p, stored)
  PROVE  TokenInv'
<1> DEFINE id == p.id
           d == delegations[id]
           n == p.amount
           s == [payee |-> p.payee, amount |-> n, time |-> p.time,
                 epoch |-> d.epoch, at |-> now]
<1>1. id \in Id /\ p.digest \in Digest /\ p.payee \in Address /\ n \in Nat /\ p.time \in Nat
  BY DEF TypeInv, ReserveTypeOK, Payload
<1>2. d \in Delegation /\ d.accepted
  BY <1>1 DEF TypeInv, ReserveTypeOK, Settle, Admitted, Live
<1>3. d.principal \in Address /\ d.principal # NoAddress /\ Vault \notin Address
        /\ d.deposit \in Int /\ d.epoch \in Nat
  <2>1. d.principal # NoAddress
    BY <1>1, <1>2 DEF TypeInv, Unregistered
  <2> QED BY <1>2, <2>1, FieldTypes, ReserveAssumption
<1>4. s \in Settlement /\ s.amount = n /\ s.payee = p.payee
  BY <1>1, <1>3 DEF Settlement, TypeInv, ReserveTypeOK
<1>5. /\ settled' = [settled EXCEPT ![id][p.digest] = s]
      /\ settled[id][p.digest] = NotSettled
  BY DEF Settle, Admitted
<1> DEFINE due(a) == IF p.payee = a THEN n ELSE 0
<1> HIDE DEF s
<1>6. /\ SettledUnder(id)' = SettledUnder(id) + n
      /\ \A a : SettledTo(id, a)' = SettledTo(id, a) + due(a)
  <2> DEFINE row == settled[id]
             new == settled'[id]
  <2>1. /\ row \in [Digest -> Settlement \cup {NotSettled}]
        /\ new \in [Digest -> Settlement \cup {NotSettled}]
        /\ new[p.digest] = s /\ \A q \in Digest : q # p.digest => new[q] = row[q]
    BY <1>1, <1>4, <1>5, ZenonT(40) DEF TypeInv, ReserveTypeOK
  <2>2. row[p.digest] = NotSettled
    BY <1>5
  <2> HIDE DEF row, new
  <2>3. /\ Total(new) = Total(row) + s.amount
        /\ \A a : PaidTo(new, a)
                    = PaidTo(row, a) + (IF s.payee = a THEN s.amount ELSE 0)
    BY ONLY <1>1, <1>4, <2>1, <2>2, RowSettled
  <2> QED BY <1>4, <2>3, SettledTotals DEF row, new
<1>7. \A j \in Id : j # id => settled'[j] = settled[j]
  BY <1>1, <1>5 DEF TypeInv, ReserveTypeOK
<1>8. \A x \in Address \cup {Vault} : wallet[x] \in Int
  BY TokenTypes
<1>9. \A a : SettledUnder(id) \in Int /\ SettledTo(id, a) \in Int
  BY <1>1, TokenTypes
<1>10. CASE d.terms.funding = "Deposit"
  <2> DEFINE e == [d EXCEPT !.deposit = d.deposit - n]
  <2>1. delegations' = [delegations EXCEPT ![id] = e] /\ wallet' = Moved(Vault, p.payee, n)
    BY <1>10 DEF Settle, PaidOut
  <2>2. e.principal = d.principal /\ e.deposit = d.deposit - n
    BY <1>2 DEF Delegation
  <2> HIDE DEF e
  <2>3. delegations'[id] = e /\ \A j \in Id : j # id => delegations'[j] = delegations[j]
    BY <1>1, <2>1 DEF TypeInv, ReserveTypeOK
  <2>4. \A x \in Address \cup {Vault} :
          wallet'[x] = wallet[x] + (IF x = p.payee THEN n ELSE 0)
                                 - (IF x = Vault THEN n ELSE 0)
    <3>1. wallet \in [Address \cup {Vault} -> Int]
      BY TokenTypes
    <3>2. p.payee \in Address \cup {Vault} /\ Vault \in Address \cup {Vault} /\ n \in Int
      BY <1>1
    <3>3. wallet' = Moved(Vault, p.payee, n)
      BY <2>1
    <3> QED BY <3>1, <3>2, <3>3 DEF Moved
  <2>5. wallet'[Vault] = wallet[Vault] + delegations'[id].deposit - d.deposit
    BY <1>1, <1>3, <1>8, <2>2, <2>3, <2>4
  <2>6. ASSUME NEW a \in Address
        PROVE  wallet'[a] + ShareOf(id, a)' - SettledTo(id, a)'
                 = wallet[a] + ShareOf(id, a) - SettledTo(id, a)
    <3>1. ShareOf(id, a)' = ShareOf(id, a) /\ ShareOf(id, a) \in Int
      <4>1. ShareOf(id, a) = IF d.principal = a THEN d.deposit + SettledUnder(id) ELSE 0
        BY DEF ShareOf
      <4>2. ShareOf(id, a)' = IF d.principal = a
                                THEN (d.deposit - n) + (SettledUnder(id) + n) ELSE 0
        BY <1>6, <2>2, <2>3 DEF ShareOf
      <4> HIDE DEF d
      <4>3. d.deposit \in Int /\ n \in Int /\ SettledUnder(id) \in Int
        BY <1>1, <1>3, <1>9
      <4> QED BY ONLY <4>1, <4>2, <4>3
    <3>2. wallet'[a] = wallet[a] + due(a)
      BY <1>1, <1>3, <1>8, <2>4
    <3>3. SettledTo(id, a)' = SettledTo(id, a) + due(a) /\ due(a) \in Int
      BY <1>1, <1>6
    <3> HIDE DEF due, d
    <3> QED BY <1>8, <1>9, <3>1, <3>2, <3>3
  <2>7. Empty(id)'
    BY <1>3, <2>2, <2>3 DEF Empty
  <2> HIDE DEF id
  <2> QED BY <1>1, <1>7, <2>3, <2>5, <2>6, <2>7, TokenStep
<1>11. CASE d.terms.funding # "Deposit"
  <2>1. delegations' = delegations /\ wallet' = Moved(d.principal, p.payee, n)
    BY <1>11 DEF Settle, PaidOut
  <2>2. \A x \in Address \cup {Vault} :
          wallet'[x] = wallet[x] + (IF x = p.payee THEN n ELSE 0)
                                 - (IF x = d.principal THEN n ELSE 0)
    BY <1>1, <1>3, <2>1, MovedAt, TokenTypes
  <2>3. wallet'[Vault] = wallet[Vault] + delegations'[id].deposit - d.deposit
    BY <1>1, <1>3, <1>8, <2>1, <2>2
  <2>4. ASSUME NEW a \in Address
        PROVE  wallet'[a] + ShareOf(id, a)' - SettledTo(id, a)'
                 = wallet[a] + ShareOf(id, a) - SettledTo(id, a)
    <3> DEFINE lost == IF a = d.principal THEN n ELSE 0
    <3>1. ShareOf(id, a)' = ShareOf(id, a) + lost /\ ShareOf(id, a) \in Int
      BY <1>1, <1>3, <1>6, <1>9, <2>1 DEF ShareOf
    <3>2. wallet'[a] = wallet[a] + due(a) - lost
      BY <1>1, <1>3, <1>8, <2>2
    <3>3. SettledTo(id, a)' = SettledTo(id, a) + due(a) /\ due(a) \in Int /\ lost \in Int
      BY <1>1, <1>6
    <3> HIDE DEF due, d, lost
    <3> QED BY <1>8, <1>9, <3>1, <3>2, <3>3
  <2>5. Empty(id)'
    BY <1>3, <2>1 DEF Empty
  <2> HIDE DEF id
  <2> QED BY <1>1, <1>7, <2>1, <2>3, <2>4, <2>5, TokenStep
<1> QED BY <1>10, <1>11

\* Every call of an account's keeps the tokens accounted for.
LEMMA AccountTokens ==
  ASSUME TypeInv, TypeInv', TokenInv, AccountStep
  PROVE  TokenInv'
<1>1. \A id \in Id : delegations[id] \in Delegation
  BY DEF TypeInv, ReserveTypeOK
<1>2. ASSUME delegations' = delegations, UNCHANGED <<wallet, settled>> PROVE TokenInv'
  BY <1>2, TokenStill
<1>3. ASSUME NEW a \in Signer, NEW n \in Capacity, DeclareCapacity(a, n)
      PROVE  TokenInv'
  BY <1>2, <1>3 DEF DeclareCapacity
<1>4. ASSUME NEW id \in Id, Accept(id)
      PROVE  TokenInv'
  <2> DEFINE e == [delegations[id] EXCEPT !.accepted = TRUE]
  <2>1. e.principal = delegations[id].principal /\ e.deposit = delegations[id].deposit
    BY <1>1 DEF Delegation
  <2>2. delegations' = [delegations EXCEPT ![id] = e] /\ UNCHANGED <<wallet, settled>>
    BY <1>4 DEF Accept
  <2> HIDE DEF e
  <2> QED BY <2>1, <2>2, TokenStillOne
<1>5. ASSUME NEW id \in Id, NEW signer \in Signer, NEW pay \in Payment,
             Sign(id, signer, pay)
      PROVE  TokenInv'
  <2>1. delegations' = delegations /\ UNCHANGED <<wallet, settled>>
    BY <1>5 DEF Sign
  <2> QED BY <1>2, <2>1
<1>6. ASSUME NEW id \in Id, NEW secret \in Secret, Claim(id, secret)
      PROVE  TokenInv'
  <2> DEFINE e == BondSpent(Froze(delegations[id]))
  <2>1. e.principal = delegations[id].principal /\ e.deposit = delegations[id].deposit
    BY <1>1 DEF Delegation, BondSpent, Froze
  <2>2. delegations' = [delegations EXCEPT ![id] = e] /\ UNCHANGED <<wallet, settled>>
    BY <1>6 DEF Claim
  <2> HIDE DEF e
  <2> QED BY <2>1, <2>2, TokenStillOne
<1>7. ASSUME NEW id \in Id, NEW v \in StakeValue, StakeAnswerer(id, v)
      PROVE  TokenInv'
  <2> DEFINE e == [delegations[id] EXCEPT !.stake = delegations[id].stake + v]
  <2>1. e.principal = delegations[id].principal /\ e.deposit = delegations[id].deposit
    BY <1>1 DEF Delegation
  <2>2. delegations' = [delegations EXCEPT ![id] = e] /\ UNCHANGED <<wallet, settled>>
    BY <1>7 DEF StakeAnswerer
  <2> HIDE DEF e
  <2> QED BY <2>1, <2>2, TokenStillOne
<1>8. ASSUME NEW id \in Id, UnstakeAnswerer(id)
      PROVE  TokenInv'
  <2> DEFINE e == [delegations[id] EXCEPT !.stake = 0]
  <2>1. e.principal = delegations[id].principal /\ e.deposit = delegations[id].deposit
    BY <1>1 DEF Delegation
  <2>2. delegations' = [delegations EXCEPT ![id] = e] /\ UNCHANGED <<wallet, settled>>
    BY <1>8 DEF UnstakeAnswerer
  <2> HIDE DEF e
  <2> QED BY <2>1, <2>2, TokenStillOne
<1>9. ASSUME NEW id \in Id, NEW sender \in Address, Freeze(id, sender)
      PROVE  TokenInv'
  <2> DEFINE e == Froze(delegations[id])
  <2>1. e.principal = delegations[id].principal /\ e.deposit = delegations[id].deposit
    BY <1>1 DEF Delegation, Froze
  <2>2. delegations' = [delegations EXCEPT ![id] = e] /\ UNCHANGED <<wallet, settled>>
    BY <1>9 DEF Freeze
  <2> HIDE DEF e
  <2> QED BY <2>1, <2>2, TokenStillOne
<1>10. ASSUME NEW a \in Address, Withdraw(a)
       PROVE  TokenInv'
  BY <1>2, <1>10 DEF Withdraw
<1>11. ASSUME NEW id \in Id, NEW ranges \in Revocation, Revoke(id, ranges)
       PROVE  TokenInv'
  <2> DEFINE e == [delegations[id] EXCEPT !.epoch = delegations[id].epoch + 1]
  <2>1. e.principal = delegations[id].principal /\ e.deposit = delegations[id].deposit
    BY <1>1 DEF Delegation
  <2>2. delegations' = [delegations EXCEPT ![id] = e] /\ UNCHANGED <<wallet, settled>>
    BY <1>11 DEF Revoke
  <2> HIDE DEF e
  <2> QED BY <2>1, <2>2, TokenStillOne
<1> QED BY <1>3, <1>4, <1>5, <1>6, <1>7, <1>8, <1>9, <1>10, <1>11,
           RegisterTokens, SettleTokens, ReclaimTokens, CloseTokens DEF AccountStep

\* A transaction of any arbiter's moves no token.
LEMMA CalledTokens ==
  ASSUME TypeInv, TokenInv,
         \/ NoCall
         \/ \E id \in Id : Hold(id)
         \/ \E n \in [Id -> Nat] : Release(n)
         \/ \E id \in Id, unheld \in Nat : Forfeit(id, unheld)
         \/ \E id \in Id, caller \in Address, bounty \in Nat :
              SlashAnswerer(id, caller, bounty)
  PROVE  TokenInv'
<1>1. \A id \in Id : delegations[id] \in Delegation
  BY DEF TypeInv, ReserveTypeOK
<1>2. CASE NoCall
  BY <1>2, TokenStill DEF NoCall, ArbiterKeeps
<1>3. ASSUME NEW id \in Id, Hold(id)
      PROVE  TokenInv'
  <2> DEFINE e == [delegations[id] EXCEPT !.holds = delegations[id].holds + 1]
  <2>1. e.principal = delegations[id].principal /\ e.deposit = delegations[id].deposit
    BY <1>1 DEF Delegation
  <2>2. delegations' = [delegations EXCEPT ![id] = e] /\ UNCHANGED <<wallet, settled>>
    BY <1>3 DEF Hold, ArbiterKeeps
  <2> HIDE DEF e
  <2> QED BY <2>1, <2>2, TokenStillOne
<1>4. ASSUME NEW n \in [Id -> Nat], Release(n)
      PROVE  TokenInv'
  <2>1. \A id \in Id : /\ delegations'[id].principal = delegations[id].principal
                       /\ delegations'[id].deposit = delegations[id].deposit
    BY <1>1, <1>4 DEF Release, Delegation
  <2>2. UNCHANGED <<wallet, settled>>
    BY <1>4 DEF Release, ArbiterKeeps
  <2> QED BY <2>1, <2>2, TokenStill
<1>5. ASSUME NEW id \in Id, NEW unheld \in Nat, Forfeit(id, unheld)
      PROVE  TokenInv'
  <2> DEFINE b == BondSpent(Froze(delegations[id]))
             e == [b EXCEPT !.holds = b.holds - unheld]
  <2>1. e.principal = delegations[id].principal /\ e.deposit = delegations[id].deposit
    BY <1>1 DEF Delegation, BondSpent, Froze
  <2>2. delegations' = [delegations EXCEPT ![id] = e] /\ UNCHANGED <<wallet, settled>>
    BY <1>5 DEF Forfeit, ArbiterKeeps
  <2> HIDE DEF e
  <2> QED BY <2>1, <2>2, TokenStillOne
<1>6. ASSUME NEW id \in Id, NEW caller \in Address, NEW bounty \in Nat,
             SlashAnswerer(id, caller, bounty)
      PROVE  TokenInv'
  <2> DEFINE e == [delegations[id] EXCEPT !.stake = 0]
  <2>1. e.principal = delegations[id].principal /\ e.deposit = delegations[id].deposit
    BY <1>1 DEF Delegation
  <2>2. delegations' = [delegations EXCEPT ![id] = e] /\ UNCHANGED <<wallet, settled>>
    BY <1>6 DEF SlashAnswerer, ArbiterKeeps
  <2> HIDE DEF e
  <2> QED BY <2>1, <2>2, TokenStillOne
<1> QED BY <1>2, <1>3, <1>4, <1>5, <1>6

\* A lone arbiter's calls are of those kinds.
LEMMA ArbiterTokens == ASSUME TypeInv, TokenInv, ArbiterStep PROVE TokenInv'
<1>1. ASSUME NEW id \in Id, Release([i \in Id |-> IF i = id THEN 1 ELSE 0])
      PROVE  TokenInv'
  <2>1. [i \in Id |-> IF i = id THEN 1 ELSE 0] \in [Id -> Nat]
    OBVIOUS
  <2> QED BY <1>1, <2>1, CalledTokens
<1>2. ASSUME NEW id \in Id, NEW unheld \in 0..1, Forfeit(id, unheld)
      PROVE  TokenInv'
  <2>1. unheld \in Nat
    OBVIOUS
  <2> QED BY <1>2, <2>1, CalledTokens
<1>3. ASSUME NEW id \in Id, NEW caller \in Address, NEW bounty \in Bounty,
             SlashAnswerer(id, caller, bounty)
      PROVE  TokenInv'
  <2>1. bounty \in Nat
    BY ReserveAssumption
  <2> QED BY <1>3, <2>1, CalledTokens
<1>4. ASSUME NEW id \in Id, NEW n \in 0..MaxHolds, ArbiterCounts(id, n)
      PROVE  TokenInv'
  BY <1>4, CalledTokens DEF ArbiterCounts
<1>5. ASSUME NEW id \in Id, Hold(id)
      PROVE  TokenInv'
  BY <1>5, CalledTokens
<1> QED BY <1>1, <1>2, <1>3, <1>4, <1>5 DEF ArbiterStep

\* At deployment every account has what it started with.
LEMMA InitTokens == ASSUME NEW c, ReserveInit(c) PROVE TokenInv
<1>1. \A id \in Id : /\ delegations[id] = Blank /\ Blank.deposit = 0
                     /\ Blank.principal = NoAddress
                     /\ \A dg \in Digest : settled[id][dg] = NotSettled
  BY DEF ReserveInit, Blank
<1>2. \A id \in Id : Empty(id)
  BY <1>1 DEF Empty
<1>3. SumFunction(Left) = 0
  <2>1. DOMAIN Left = Id /\ \A id \in Id : Left[id] = 0
    BY <1>1 DEF Left
  <2>2. SumFunctionOnSet(Left, Id) = 0
    BY <2>1, IdFinite, SumZero
  <2> QED BY <2>1, <2>2 DEF SumFunction
<1>4. ASSUME NEW a \in Address
      PROVE  SumFunction(Shares(a)) = 0 /\ SumFunction(Received(a)) = 0
  <2>1. DOMAIN Shares(a) = Id /\ DOMAIN Received(a) = Id
    BY DEF Shares, Received
  <2>2. \A id \in Id : Shares(a)[id] = 0
    BY <1>1, ReserveAssumption DEF Shares, ShareOf
  <2>3. \A id \in Id : Received(a)[id] = 0
    <3> TAKE id \in Id
    <3> DEFINE f == [dg \in Digest |-> AmountTo(settled[id][dg], a)]
    <3>1. DOMAIN f = Digest /\ \A dg \in Digest : f[dg] = 0
      BY <1>1 DEF AmountTo
    <3> HIDE DEF f
    <3>2. SumFunctionOnSet(f, Digest) = 0
      BY <3>1, SumZero, DigestFinite
    <3>3. SettledTo(id, a) = SumFunction(f)
      BY DEF SettledTo, f
    <3> QED BY <3>1, <3>2, <3>3 DEF SumFunction, Received
  <2>4. SumFunctionOnSet(Shares(a), Id) = 0
    BY <2>2, IdFinite, SumZero
  <2>5. SumFunctionOnSet(Received(a), Id) = 0
    BY <2>3, IdFinite, SumZero
  <2> QED BY <2>1, <2>4, <2>5 DEF SumFunction
<1>5. /\ wallet[Vault] = 0 /\ \A a \in Address : wallet[a] = Wealth
      /\ Wealth \in Nat
  BY ReserveAssumption DEF ReserveInit
<1>6. Accounted
  BY <1>3, <1>4, <1>5 DEF Accounted
<1> QED BY <1>2, <1>6, AccountedSame DEF TokenInv

\* No token is minted, lost or paid twice, for any number of accounts and
\* delegations: the reserve holds the deposits left and nothing else, and every
\* account has what it started with, less its own deposits and what settled
\* under its delegations, plus what settled to it (register, _pay, reclaim,
\* close).
THEOREM TokensAlwaysAccounted == Spec => []TokensAccounted
<1>1. Init => TypeInv /\ TokenInv
  BY InitTypes, InitTokens DEF Init
<1>2. TypeInv /\ TokenInv /\ [Next]_reserveVars => TypeInv' /\ TokenInv'
  <2> SUFFICES ASSUME TypeInv, TypeInv', TokenInv, [Next]_reserveVars
               PROVE  TokenInv'
    BY NextTypes
  <2>1. ASSUME delegations' = delegations, UNCHANGED <<wallet, settled>> PROVE TokenInv'
    BY <2>1, TokenStill
  <2>2. CASE Tick
    BY <2>1, <2>2 DEF Tick
  <2>3. ASSUME NEW c \in Dispute, SetDispute(c) PROVE TokenInv'
    BY <2>1, <2>3 DEF SetDispute
  <2>4. CASE UNCHANGED reserveVars
    BY <2>1, <2>4 DEF reserveVars
  <2> QED BY <2>2, <2>3, <2>4, AccountTokens, ArbiterTokens DEF Next
<1>3. TokenInv => TokensAccounted
  BY DEF TokenInv
<1> QED BY <1>1, <1>2, <1>3, PTL DEF Spec
============================================================================
