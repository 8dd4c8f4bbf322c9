--------------------------------- MODULE Sums ----------------------------------
(***************************************************************************)
(* What the books need to know of SumFunction: it is a number, it moves by *)
(* what one entry moves, and it grows with its entries.                    *)
(*                                                                         *)
(* Induction over the finite domain is by a minimal counterexample: strict *)
(* inclusion is well founded on finite sets.  By the order of the naturals, *)
(* which is well founded too, a set of them has a least element.           *)
(***************************************************************************)
EXTENDS Integers, FiniteSets, Functions, FiniteSetTheorems, TLAPS

Pick(s) == CHOOSE x \in s : TRUE

\* g sums f over every subset of S.
SumsUp(g, f, S) == g = [s \in SUBSET S |-> IF s = {} THEN 0 ELSE f[Pick(s)] + g[s \ {Pick(s)}]]

\* The community definition unfolds to the chosen solution of its recursion.
LEMMA SumIsChosen ==
    ASSUME NEW f, NEW S
    PROVE  SumFunctionOnSet(f, S) = (CHOOSE g : SumsUp(g, f, S))[S]
  BY DEF SumFunctionOnSet, FoldFunctionOnSet, MapThenFoldSet, SumsUp, Pick

\* A set of subsets of S that contains a set whenever it contains the smaller ones has them all.
LEMMA SubsetInduction ==
    ASSUME NEW S, IsFiniteSet(S), NEW T,
           \A s \in SUBSET S : (\A u \in SUBSET s : u # s => u \in T) => s \in T
    PROVE  \A s \in SUBSET S : s \in T
<1>1. IsWellFoundedOn(StrictSubsetOrdering(S), SUBSET S)
  BY FS_StrictSubsetOrderingWellFounded, FS_FiniteSubsetsOfFinite
<1>2. PICK B : B = {s \in SUBSET S : s \notin T}
  OBVIOUS
<1>3. CASE B # {}
  <2>1. PICK s \in B : \A u \in B : ~(<<u, s>> \in StrictSubsetOrdering(S))
    BY <1>1, <1>2, <1>3, WFMin
  <2>2. ASSUME NEW u \in SUBSET s, u # s PROVE u \in T
    <3>1. u \in SUBSET S /\ s \in SUBSET S
      BY <1>2, <2>1
    <3>2. <<u, s>> \in StrictSubsetOrdering(S)
      BY <2>2, <3>1 DEF StrictSubsetOrdering
    <3> QED
      BY <1>2, <2>1, <3>1, <3>2
  <2> QED
    BY <1>2, <2>1, <2>2
<1> QED
  BY <1>2, <1>3

-----------------------------------------------------------------------------
(* The recursion is well defined *)

\* The recursion at one subset.
LEMMA SumsUpValue ==
    ASSUME NEW f, NEW S, NEW g, SumsUp(g, f, S), NEW s \in SUBSET S
    PROVE  g[s] = IF s = {} THEN 0 ELSE f[Pick(s)] + g[s \ {Pick(s)}]
<1>1. g = [u \in SUBSET S |-> IF u = {} THEN 0 ELSE f[Pick(u)] + g[u \ {Pick(u)}]]
  BY DEF SumsUp
<1> QED
  BY <1>1

\* Pick picks a member.
LEMMA PickIn == ASSUME NEW s, s # {} PROVE Pick(s) \in s
  BY DEF Pick

\* There is one way to sum up ...
LEMMA SumsUpUnique ==
    ASSUME NEW f, NEW S, IsFiniteSet(S), NEW g, NEW h, SumsUp(g, f, S), SumsUp(h, f, S)
    PROVE  g = h
<1>1. PICK T : T = {s \in SUBSET S : g[s] = h[s]}
  OBVIOUS
<1>2. ASSUME NEW s \in SUBSET S, \A u \in SUBSET s : u # s => u \in T PROVE s \in T
  <2>1. CASE s = {}
    BY <1>1, <2>1, SumsUpValue
  <2>2. CASE s # {}
    <3>1. s \ {Pick(s)} \in SUBSET s /\ s \ {Pick(s)} # s
      BY <2>2, PickIn
    <3>2. g[s \ {Pick(s)}] = h[s \ {Pick(s)}]
      BY <1>1, <1>2, <3>1
    <3> QED
      BY <1>1, <2>2, <3>2, SumsUpValue
  <2> QED
    BY <2>1, <2>2
<1>3. \A s \in SUBSET S : g[s] = h[s]
  <2>1. \A s \in SUBSET S : s \in T
    BY <1>2, SubsetInduction
  <2> QED
    BY <1>1, <2>1
<1>4. g = [s \in SUBSET S |-> g[s]] /\ h = [s \in SUBSET S |-> h[s]]
  BY DEF SumsUp
<1> QED
  BY <1>3, <1>4

\* ... which for the subsets of a smaller set is the same.
LEMMA SumsUpRestricts ==
    ASSUME NEW f, NEW S, NEW g, SumsUp(g, f, S), NEW u \in SUBSET S
    PROVE  SumsUp([s \in SUBSET u |-> g[s]], f, u)
<1>1. PICK h : h = [s \in SUBSET u |-> g[s]]
  OBVIOUS
<1>2. ASSUME NEW s \in SUBSET u PROVE h[s] = IF s = {} THEN 0 ELSE f[Pick(s)] + h[s \ {Pick(s)}]
  <2>1. s \in SUBSET S /\ s \ {Pick(s)} \in SUBSET u
    OBVIOUS
  <2> QED
    BY <1>1, <2>1, SumsUpValue
<1>3. h = [s \in SUBSET u |-> IF s = {} THEN 0 ELSE f[Pick(s)] + h[s \ {Pick(s)}]]
  BY <1>1, <1>2
<1> QED
  BY <1>1, <1>3 DEF SumsUp

Chosen(f, u) == CHOOSE g : SumsUp(g, f, u)
SumOver(f, u) == SumFunctionOnSet(f, u)

\* Where the recursion has a solution, the chosen one gives every subset its sum.
LEMMA ChosenSums ==
    ASSUME NEW f, NEW u, IsFiniteSet(u), \E g : SumsUp(g, f, u)
    PROVE  /\ SumsUp(Chosen(f, u), f, u) /\ SumOver(f, u) = Chosen(f, u)[u]
           /\ \A w \in SUBSET u : Chosen(f, u)[w] = SumOver(f, w)
<1>1. SumsUp(Chosen(f, u), f, u)
  BY DEF Chosen
<1>2. ASSUME NEW w \in SUBSET u PROVE Chosen(f, u)[w] = SumOver(f, w)
  <2>1. PICK h : h = [s \in SUBSET w |-> Chosen(f, u)[s]]
    OBVIOUS
  <2>2. SumsUp(h, f, w)
    BY <1>1, <2>1, SumsUpRestricts
  <2>3. SumsUp(Chosen(f, w), f, w)
    BY <2>2 DEF Chosen
  <2>4. IsFiniteSet(w)
    BY FS_Subset
  <2>5. h = Chosen(f, w)
    BY <2>2, <2>3, <2>4, SumsUpUnique
  <2>6. SumOver(f, w) = Chosen(f, w)[w]
    BY SumIsChosen DEF SumOver, Chosen
  <2> QED
    BY <2>1, <2>5, <2>6
<1> QED
  BY <1>1, <1>2, SumIsChosen DEF SumOver, Chosen

\* The recursion has a solution for every finite set.
LEMMA SumsUpExists ==
    ASSUME NEW f, NEW S, IsFiniteSet(S)
    PROVE  \A s \in SUBSET S : \E g : SumsUp(g, f, s)
<1>1. PICK T : T = {s \in SUBSET S : \E g : SumsUp(g, f, s)}
  OBVIOUS
<1>2. ASSUME NEW s \in SUBSET S, \A u \in SUBSET s : u # s => u \in T PROVE s \in T
  <2>1. PICK h : h = [v \in SUBSET s |-> IF v = {} THEN 0 ELSE f[Pick(v)] + SumOver(f, v \ {Pick(v)})]
    OBVIOUS
  <2>2. ASSUME NEW v \in SUBSET s, v # {} PROVE h[v \ {Pick(v)}] = SumOver(f, v \ {Pick(v)})
    <3>1. PICK u : u = v \ {Pick(v)}
      OBVIOUS
    <3>2. u \in SUBSET s /\ u # s
      BY <2>2, <3>1, PickIn
    <3>3. IsFiniteSet(u) /\ \E g : SumsUp(g, f, u)
      BY <1>1, <1>2, <3>2, FS_Subset
    <3>4. /\ SumsUp(Chosen(f, u), f, u) /\ SumOver(f, u) = Chosen(f, u)[u]
          /\ \A w \in SUBSET u : Chosen(f, u)[w] = SumOver(f, w)
      BY <3>3, ChosenSums
    <3>5. Chosen(f, u)[u] = IF u = {} THEN 0 ELSE f[Pick(u)] + Chosen(f, u)[u \ {Pick(u)}]
      BY <3>4, SumsUpValue
    <3>6. Chosen(f, u)[u \ {Pick(u)}] = SumOver(f, u \ {Pick(u)})
      BY <3>4
    <3>7. h[u] = IF u = {} THEN 0 ELSE f[Pick(u)] + SumOver(f, u \ {Pick(u)})
      BY <2>1, <3>2
    <3> QED
      BY <3>1, <3>4, <3>5, <3>6, <3>7
  <2>3. h = [v \in SUBSET s |-> IF v = {} THEN 0 ELSE f[Pick(v)] + h[v \ {Pick(v)}]]
    BY <2>1, <2>2
  <2> QED
    BY <1>1, <2>3 DEF SumsUp
<1>3. \A s \in SUBSET S : s \in T
  BY <1>2, SubsetInduction
<1> QED
  BY <1>1, <1>3

\* A sum is the picked entry and the sum of the rest.
LEMMA SumOverStep ==
    ASSUME NEW f, NEW S, IsFiniteSet(S)
    PROVE  SumOver(f, S) = IF S = {} THEN 0 ELSE f[Pick(S)] + SumOver(f, S \ {Pick(S)})
<1>1. \E g : SumsUp(g, f, S)
  BY SumsUpExists
<1>2. /\ SumsUp(Chosen(f, S), f, S) /\ SumOver(f, S) = Chosen(f, S)[S]
      /\ \A w \in SUBSET S : Chosen(f, S)[w] = SumOver(f, w)
  BY <1>1, ChosenSums
<1>3. Chosen(f, S)[S] = IF S = {} THEN 0 ELSE f[Pick(S)] + Chosen(f, S)[S \ {Pick(S)}]
  BY <1>2, SumsUpValue
<1> QED
  BY <1>2, <1>3

-----------------------------------------------------------------------------
(* What a sum does when its entries move *)

\* A sum of integers is an integer.
LEMMA SumOverType ==
    ASSUME NEW S, IsFiniteSet(S), NEW f, \A x \in S : f[x] \in Int
    PROVE  \A s \in SUBSET S : SumOver(f, s) \in Int
<1>1. PICK T : T = {s \in SUBSET S : SumOver(f, s) \in Int}
  OBVIOUS
<1>2. ASSUME NEW s \in SUBSET S, \A u \in SUBSET s : u # s => u \in T PROVE s \in T
  <2>1. IsFiniteSet(s)
    BY FS_Subset
  <2>2. SumOver(f, s) = IF s = {} THEN 0 ELSE f[Pick(s)] + SumOver(f, s \ {Pick(s)})
    BY <2>1, SumOverStep
  <2>3. CASE s = {}
    BY <1>1, <2>2, <2>3
  <2>4. CASE s # {}
    <3>1. Pick(s) \in s
      BY <2>4, PickIn
    <3>2. s \ {Pick(s)} \in T
      BY <1>2, <3>1
    <3>3. SumOver(f, s \ {Pick(s)}) \in Int /\ f[Pick(s)] \in Int
      BY <1>1, <3>1, <3>2
    <3>4. SumOver(f, s) \in Int
      BY <2>2, <2>4, <3>3
    <3> QED
      BY <1>1, <3>4
  <2> QED
    BY <2>3, <2>4
<1>3. \A s \in SUBSET S : s \in T
  BY <1>2, SubsetInduction
<1> QED
  BY <1>1, <1>3

\* Any entry can be taken out first.
LEMMA SumOverRemove ==
    ASSUME NEW S, IsFiniteSet(S), NEW f, \A x \in S : f[x] \in Int
    PROVE  \A s \in SUBSET S : \A x \in s : SumOver(f, s) = f[x] + SumOver(f, s \ {x})
<1>1. PICK T : T = {s \in SUBSET S : \A x \in s : SumOver(f, s) = f[x] + SumOver(f, s \ {x})}
  OBVIOUS
<1>2. ASSUME NEW s \in SUBSET S, \A u \in SUBSET s : u # s => u \in T PROVE s \in T
  <2>1. ASSUME NEW x \in s PROVE SumOver(f, s) = f[x] + SumOver(f, s \ {x})
    <3>1. PICK p : p = Pick(s)
      OBVIOUS
    <3>2. p \in s
      BY <3>1, PickIn
    <3>3. SumOver(f, s) = f[p] + SumOver(f, s \ {p})
      <4>1. IsFiniteSet(s)
        BY FS_Subset
      <4> QED
        BY <3>1, <4>1, SumOverStep
    <3>4. CASE x = p
      BY <3>3, <3>4
    <3>5. CASE x # p
      <4>1. s \ {p} \in T /\ s \ {x} \in T
        BY <1>2, <3>2
      <4>2. SumOver(f, s \ {p}) = f[x] + SumOver(f, (s \ {p}) \ {x})
        BY <1>1, <3>5, <4>1
      <4>3. SumOver(f, s \ {x}) = f[p] + SumOver(f, (s \ {x}) \ {p})
        BY <1>1, <3>2, <3>5, <4>1
      <4>4. (s \ {p}) \ {x} = (s \ {x}) \ {p}
        OBVIOUS
      <4>5. SumOver(f, (s \ {x}) \ {p}) \in Int /\ f[x] \in Int /\ f[p] \in Int
        BY <3>2, SumOverType
      <4>6. PICK z \in Int : z = SumOver(f, (s \ {x}) \ {p})
        BY <4>5
      <4>7. SumOver(f, s \ {p}) = f[x] + z /\ SumOver(f, s \ {x}) = f[p] + z
        BY <4>2, <4>3, <4>4, <4>6
      <4> QED
        BY <3>3, <4>5, <4>7
    <3> QED
      BY <3>4, <3>5
  <2> QED
    BY <1>1, <2>1
<1>3. \A s \in SUBSET S : s \in T
  BY <1>2, SubsetInduction
<1> QED
  BY <1>1, <1>3

\* The sum is of the entries, not of how the function is written ...
LEMMA SumOverSame ==
    ASSUME NEW S, IsFiniteSet(S), NEW f, NEW g, \A x \in S : f[x] = g[x]
    PROVE  \A s \in SUBSET S : SumOver(f, s) = SumOver(g, s)
<1>1. PICK T : T = {s \in SUBSET S : SumOver(f, s) = SumOver(g, s)}
  OBVIOUS
<1>2. ASSUME NEW s \in SUBSET S, \A u \in SUBSET s : u # s => u \in T PROVE s \in T
  <2>1. IsFiniteSet(s)
    BY FS_Subset
  <2>2. SumOver(f, s) = IF s = {} THEN 0 ELSE f[Pick(s)] + SumOver(f, s \ {Pick(s)})
    BY <2>1, SumOverStep
  <2>3. SumOver(g, s) = IF s = {} THEN 0 ELSE g[Pick(s)] + SumOver(g, s \ {Pick(s)})
    BY <2>1, SumOverStep
  <2>4. CASE s # {}
    <3>1. Pick(s) \in s
      BY <2>4, PickIn
    <3>2. s \ {Pick(s)} \in T
      BY <1>2, <3>1
    <3> QED
      BY <1>1, <2>2, <2>3, <3>1, <3>2
  <2> QED
    BY <1>1, <2>2, <2>3, <2>4
<1>3. \A s \in SUBSET S : s \in T
  BY <1>2, SubsetInduction
<1> QED
  BY <1>1, <1>3

\* ... and no smaller than that of smaller entries.
LEMMA SumOverMonotone ==
    ASSUME NEW S, IsFiniteSet(S), NEW f, NEW g,
           \A x \in S : f[x] \in Int /\ g[x] \in Int /\ f[x] <= g[x]
    PROVE  \A s \in SUBSET S : SumOver(f, s) <= SumOver(g, s)
<1>1. PICK T : T = {s \in SUBSET S : SumOver(f, s) <= SumOver(g, s)}
  OBVIOUS
<1>2. ASSUME NEW s \in SUBSET S, \A u \in SUBSET s : u # s => u \in T PROVE s \in T
  <2>1. IsFiniteSet(s)
    BY FS_Subset
  <2>2. SumOver(f, s) = IF s = {} THEN 0 ELSE f[Pick(s)] + SumOver(f, s \ {Pick(s)})
    BY <2>1, SumOverStep
  <2>3. SumOver(g, s) = IF s = {} THEN 0 ELSE g[Pick(s)] + SumOver(g, s \ {Pick(s)})
    BY <2>1, SumOverStep
  <2>4. CASE s # {}
    <3>1. Pick(s) \in s
      BY <2>4, PickIn
    <3>2. PICK u : u = s \ {Pick(s)} /\ u \in SUBSET S /\ u \in T
      <4>1. s \ {Pick(s)} \in SUBSET S /\ s \ {Pick(s)} \in T
        BY <1>2, <3>1
      <4> QED
        BY <4>1
    <3>3. SumOver(f, u) \in Int /\ SumOver(g, u) \in Int
      BY <3>2, SumOverType
    <3>4. SumOver(f, u) <= SumOver(g, u) /\ f[Pick(s)] <= g[Pick(s)] /\ f[Pick(s)] \in Int /\ g[Pick(s)] \in Int
      BY <1>1, <3>1, <3>2
    <3>5. SumOver(f, s) <= SumOver(g, s)
      BY <2>2, <2>3, <2>4, <3>2, <3>3, <3>4
    <3> QED
      BY <1>1, <3>5
  <2>5. CASE s = {}
    <3>1. SumOver(f, s) <= SumOver(g, s)
      BY <2>2, <2>3, <2>5
    <3> QED
      BY <1>1, <3>1
  <2> QED
    BY <2>4, <2>5
<1>3. \A s \in SUBSET S : s \in T
  BY <1>2, SubsetInduction
<1> QED
  BY <1>1, <1>3

-----------------------------------------------------------------------------
(* The same of SumFunction *)

\* SumFunction sums over the whole domain.
LEMMA SumIsSumOver ==
    ASSUME NEW S, NEW f \in [S -> Int]
    PROVE  SumFunction(f) = SumOver(f, S)
  BY DEF SumFunction, SumFunctionOnSet, FoldFunction, SumOver

\* SumFunction of an integer function on a finite set is an integer.
THEOREM SumType ==
    ASSUME NEW S, IsFiniteSet(S), NEW f \in [S -> Int]
    PROVE  SumFunction(f) \in Int
  BY SumIsSumOver, SumOverType

\* One entry moves, and the sum moves with it.
THEOREM SumChange ==
    ASSUME NEW S, IsFiniteSet(S), NEW f \in [S -> Int], NEW g \in [S -> Int], NEW x \in S,
           \A y \in S \ {x} : g[y] = f[y]
    PROVE  SumFunction(g) = SumFunction(f) + g[x] - f[x]
<1>1. PICK u : u = S \ {x}
  OBVIOUS
<1>2. SumOver(f, S) = f[x] + SumOver(f, u) /\ SumOver(g, S) = g[x] + SumOver(g, u)
  BY <1>1, SumOverRemove
<1>3. SumOver(f, u) = SumOver(g, u)
  <2>1. IsFiniteSet(u)
    BY <1>1, FS_Subset
  <2> QED
    BY <1>1, <2>1, SumOverSame
<1>4. SumOver(f, u) \in Int /\ f[x] \in Int /\ g[x] \in Int
  BY <1>1, SumOverType
<1> QED
  BY <1>2, <1>3, <1>4, SumIsSumOver

\* Entries that grow do not make the sum smaller.
THEOREM SumMonotone ==
    ASSUME NEW S, IsFiniteSet(S), NEW f \in [S -> Int], NEW g \in [S -> Int],
           \A x \in S : f[x] <= g[x]
    PROVE  SumFunction(f) <= SumFunction(g)
<1>1. SumOver(f, S) <= SumOver(g, S)
  BY SumOverMonotone
<1> QED
  BY <1>1, SumIsSumOver

\* Before anything is booked the sum is zero.
THEOREM SumOfZeros ==
    ASSUME NEW S, IsFiniteSet(S), NEW f, f = [x \in S |-> 0]
    PROVE  SumFunction(f) = 0
<1>1. PICK T : T = {s \in SUBSET S : SumOver(f, s) = 0}
  OBVIOUS
<1>2. ASSUME NEW s \in SUBSET S, \A u \in SUBSET s : u # s => u \in T PROVE s \in T
  <2>1. IsFiniteSet(s)
    BY FS_Subset
  <2>2. SumOver(f, s) = IF s = {} THEN 0 ELSE f[Pick(s)] + SumOver(f, s \ {Pick(s)})
    BY <2>1, SumOverStep
  <2>3. CASE s # {}
    <3>1. Pick(s) \in s
      BY <2>3, PickIn
    <3>2. s \ {Pick(s)} \in T
      BY <1>2, <3>1
    <3> QED
      BY <1>1, <2>2, <3>1, <3>2
  <2> QED
    BY <1>1, <2>2, <2>3
<1>3. S \in T
  BY <1>2, SubsetInduction
<1> QED
  BY <1>1, <1>3, SumIsSumOver

\* A sum of natural numbers is one, and no entry exceeds it.
THEOREM SumNat ==
    ASSUME NEW S, IsFiniteSet(S), NEW f \in [S -> Nat]
    PROVE  SumFunction(f) \in Nat /\ \A x \in S : SumFunction(f) >= f[x]
<1>1. PICK z : z = [x \in S |-> 0]
  OBVIOUS
<1>2. z \in [S -> Int] /\ f \in [S -> Int] /\ \A x \in S : z[x] <= f[x]
  BY <1>1
<1>3. SumFunction(z) <= SumFunction(f) /\ SumFunction(f) \in Int /\ SumFunction(z) = 0
  BY <1>1, <1>2, SumMonotone, SumType, SumOfZeros
<1>4. ASSUME NEW x \in S PROVE SumFunction(f) >= f[x]
  <2>1. PICK h : h = [f EXCEPT ![x] = 0]
    OBVIOUS
  <2>2. h \in [S -> Int] /\ (\A y \in S : z[y] <= h[y]) /\ h[x] = 0 /\ \A y \in S \ {x} : f[y] = h[y]
    BY <1>1, <2>1
  <2>3. SumFunction(h) >= 0 /\ SumFunction(h) \in Int
    BY <1>2, <1>3, <2>2, SumMonotone, SumType
  <2>4. SumFunction(f) = SumFunction(h) + f[x] - h[x]
    BY <1>2, <2>2, SumChange
  <2>5. f[x] \in Nat
    OBVIOUS
  <2> QED
    BY <1>3, <2>2, <2>3, <2>4, <2>5
<1> QED
  BY <1>3, <1>4

-----------------------------------------------------------------------------
\* A set of naturals that is not empty has a least element.
LEMMA LeastExists ==
    ASSUME NEW B \in SUBSET Nat, B # {}
    PROVE  \E b \in B : \A c \in B : b <= c
<1> DEFINE R == {ss \in Nat \X Nat : ss[1] < ss[2]}
<1>1. R = OpToRel(<, Nat)
  BY DEF OpToRel
<1>2. IsWellFoundedOn(R, Nat)
  BY <1>1, NatLessThanWellFounded, Zenon
<1>3. PICK b \in B : \A c \in B : ~(<<c, b>> \in R)
  <2> HIDE DEF R
  <2> QED
    BY <1>2, WFMin, Zenon
<1>4. ASSUME NEW c \in B PROVE b <= c
  <2>1. b \in Nat /\ c \in Nat
    OBVIOUS
  <2>2. c < b => <<c, b>> \in R
    BY <2>1
  <2>3. ~(c < b)
    BY <1>3, <2>2
  <2> QED
    BY <2>1, <2>3
<1> QED
  BY <1>4
=============================================================================
