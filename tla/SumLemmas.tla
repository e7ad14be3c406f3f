----------------------------- MODULE SumLemmas -----------------------------
(***************************************************************************)
(* Laws of SumFunctionOnSet, the sum of f[x] over the members x of a       *)
(* finite set, for the proofs about balances and counters.                 *)
(*                                                                         *)
(* The community modules define the sum by recursion over subsets.  To     *)
(* reason about it, it is counted here: the sum is the number of units     *)
(* above zero less that of the units below.  Counting satisfies the        *)
(* recursion, and what satisfies it is unique, for a smallest subset where *)
(* two solutions differ cannot exist.                                      *)
(***************************************************************************)
EXTENDS Integers, FiniteSets, Functions, FiniteSetTheorems, TLAPS

Choice(s) == CHOOSE x \in s : TRUE

Units(x, n) == {x} \X (1..n)
AllUnits(g, S) == UNION {Units(y, g[y]) : y \in S}
Opposite(f) == [y \in DOMAIN f |-> 0 - f[y]]
Count(f, S) == Cardinality(AllUnits(f, S)) - Cardinality(AllUnits(Opposite(f), S))

LEMMA UnitsCounted ==
    ASSUME NEW x, NEW n \in Int
    PROVE  /\ IsFiniteSet(Units(x, n))
           /\ Cardinality(Units(x, n)) = IF n > 0 THEN n ELSE 0
<1>1. IsFiniteSet({x}) /\ Cardinality({x}) = 1
  BY FS_Singleton
<1>2. IsFiniteSet(1..n) /\ Cardinality(1..n) = IF 1 > n THEN 0 ELSE n - 1 + 1
  BY FS_Interval
<1>3. /\ IsFiniteSet({x} \X (1..n))
      /\ Cardinality({x} \X (1..n)) = Cardinality({x}) * Cardinality(1..n)
  BY <1>1, <1>2, FS_Product
<1> QED  BY <1>1, <1>2, <1>3 DEF Units

LEMMA AllUnitsFinite ==
    ASSUME NEW S, IsFiniteSet(S), NEW g, \A y \in S : g[y] \in Int
    PROVE  IsFiniteSet(AllUnits(g, S))
<1> DEFINE T == {Units(y, g[y]) : y \in S}
           h == [y \in S |-> Units(y, g[y])]
<1>1. h \in Surjection(S, T)
  BY DEF Surjection
<1>2. IsFiniteSet(T)
  BY <1>1, FS_Surjection
<1>3. \A Z \in T : IsFiniteSet(Z)
  BY UnitsCounted
<1> QED  BY <1>2, <1>3, FS_UNION DEF AllUnits

(* The units of one member apart. *)
LEMMA UnitsSplit ==
    ASSUME NEW S, IsFiniteSet(S), NEW g, \A y \in S : g[y] \in Int, NEW x \in S
    PROVE  /\ Cardinality(AllUnits(g, S \ {x})) \in Nat
           /\ Cardinality(AllUnits(g, S))
                = (IF g[x] > 0 THEN g[x] ELSE 0) + Cardinality(AllUnits(g, S \ {x}))
<1> DEFINE U == AllUnits(g, S)
           V == AllUnits(g, S \ {x})
           W == Units(x, g[x])
<1>1. IsFiniteSet(S \ {x})
  BY FS_RemoveElement
<1>2. IsFiniteSet(V)
  BY <1>1, AllUnitsFinite
<1>3. IsFiniteSet(W) /\ Cardinality(W) = IF g[x] > 0 THEN g[x] ELSE 0
  BY UnitsCounted
<1>4. U = W \cup V
  BY DEF AllUnits
<1>5. W \cap V = {}
  BY DEF AllUnits, Units
<1>6. Cardinality(W \cup V) = Cardinality(W) + Cardinality(V) - Cardinality(W \cap V)
  BY <1>2, <1>3, FS_Union
<1>7. Cardinality(W \cap V) = 0 /\ Cardinality(V) \in Nat
  BY <1>2, <1>5, FS_EmptySet, FS_CardinalityType
<1> HIDE DEF U, V, W
<1>8. Cardinality(U) = (IF g[x] > 0 THEN g[x] ELSE 0) + Cardinality(V)
  BY <1>3, <1>4, <1>6, <1>7
<1> QED  BY <1>7, <1>8 DEF U, V

LEMMA CountSplit ==
    ASSUME NEW D, NEW f \in [D -> Int], NEW S \in SUBSET D, IsFiniteSet(S), NEW x \in S
    PROVE  /\ Count(f, S \ {x}) \in Int
           /\ Count(f, S) = f[x] + Count(f, S \ {x})
<1> DEFINE m == Opposite(f)
           P == Cardinality(AllUnits(f, S \ {x}))
           N == Cardinality(AllUnits(m, S \ {x}))
<1>1. P \in Nat /\ Cardinality(AllUnits(f, S)) = (IF f[x] > 0 THEN f[x] ELSE 0) + P
  BY UnitsSplit
<1>2. \A y \in S : m[y] \in Int /\ m[y] = 0 - f[y]
  BY DEF Opposite
<1> HIDE DEF m
<1>3. N \in Nat /\ Cardinality(AllUnits(m, S)) = (IF m[x] > 0 THEN m[x] ELSE 0) + N
  BY <1>2, UnitsSplit
<1>4. m[x] = 0 - f[x] /\ f[x] \in Int
  BY <1>2
<1> HIDE DEF P, N
<1>5. /\ Count(f, S) = Cardinality(AllUnits(f, S)) - Cardinality(AllUnits(m, S))
      /\ Count(f, S \ {x}) = P - N
  BY DEF Count, P, N, m
<1> QED  BY <1>1, <1>3, <1>4, <1>5

LEMMA CountEmpty == ASSUME NEW f PROVE Count(f, {}) = 0
<1>1. \A g : AllUnits(g, {}) = {}
  BY DEF AllUnits
<1> QED  BY <1>1, FS_EmptySet DEF Count

(* The recursion of SumFunctionOnSet. *)
Solves(g, f, S) ==
    g = [s \in SUBSET S |-> IF s = {} THEN 0 ELSE f[Choice(s)] + g[s \ {Choice(s)}]]

LEMMA CountSolves ==
    ASSUME NEW D, NEW f \in [D -> Int], NEW S \in SUBSET D, IsFiniteSet(S)
    PROVE  Solves([s \in SUBSET S |-> Count(f, s)], f, S)
<1> DEFINE g == [s \in SUBSET S |-> Count(f, s)]
<1> SUFFICES ASSUME NEW s \in SUBSET S
             PROVE  g[s] = IF s = {} THEN 0 ELSE f[Choice(s)] + g[s \ {Choice(s)}]
  BY DEF Solves
<1>1. CASE s = {}
  BY <1>1, CountEmpty
<1>2. CASE s # {}
  <2>1. Choice(s) \in s
    BY <1>2 DEF Choice
  <2>2. IsFiniteSet(s) /\ s \ {Choice(s)} \in SUBSET S
    BY FS_Subset
  <2>3. s \in SUBSET D
    OBVIOUS
  <2>4. Count(f, s) = f[Choice(s)] + Count(f, s \ {Choice(s)})
    BY <2>1, <2>2, <2>3, CountSplit
  <2> QED  BY <1>2, <2>2, <2>4
<1> QED  BY <1>1, <1>2

LEMMA SolutionUnique ==
    ASSUME NEW S, IsFiniteSet(S), NEW f, NEW g, NEW h, Solves(g, f, S), Solves(h, f, S)
    PROVE  g = h
<1> DEFINE Differ == {s \in SUBSET S : g[s] # h[s]}
<1>1. \A s \in SUBSET S :
         /\ g[s] = IF s = {} THEN 0 ELSE f[Choice(s)] + g[s \ {Choice(s)}]
         /\ h[s] = IF s = {} THEN 0 ELSE f[Choice(s)] + h[s \ {Choice(s)}]
  BY DEF Solves
<1>2. ASSUME Differ # {} PROVE FALSE
  <2>1. IsWellFoundedOn(StrictSubsetOrdering(S), SUBSET S)
    BY FS_StrictSubsetOrderingWellFounded, FS_FiniteSubsetsOfFinite
  <2>2. Differ \subseteq SUBSET S
    OBVIOUS
  <2>3. PICK s \in Differ : \A r \in Differ : ~(<<r, s>> \in StrictSubsetOrdering(S))
    BY <1>2, <2>1, <2>2, WFMin
  <2>4. s \in SUBSET S /\ s # {}
    BY <1>1
  <2>5. Choice(s) \in s
    BY <2>4 DEF Choice
  <2> DEFINE r == s \ {Choice(s)}
  <2>6. r \in SUBSET S /\ <<r, s>> \in StrictSubsetOrdering(S)
    BY <2>4, <2>5 DEF StrictSubsetOrdering
  <2>7. g[r] = h[r]
    BY <2>3, <2>6
  <2> QED  BY <1>1, <2>4, <2>7
<1>3. \A s \in SUBSET S : g[s] = h[s]
  BY <1>2
<1>4. /\ g = [s \in SUBSET S |-> g[s]]
      /\ h = [s \in SUBSET S |-> h[s]]
  BY DEF Solves
<1> QED  BY <1>3, <1>4

(* The sum is that number of units. *)
LEMMA SumIsCount ==
    ASSUME NEW D, NEW f \in [D -> Int], NEW S \in SUBSET D, IsFiniteSet(S)
    PROVE  SumFunctionOnSet(f, S) = Count(f, S)
<1> DEFINE iter == CHOOSE g : Solves(g, f, S)
           c == [s \in SUBSET S |-> Count(f, s)]
<1>1. SumFunctionOnSet(f, S) = iter[S]
  BY DEF SumFunctionOnSet, FoldFunctionOnSet, MapThenFoldSet, Solves, Choice
<1>2. Solves(c, f, S)
  BY CountSolves
<1>3. Solves(iter, f, S)
  BY <1>2
<1>4. iter = c
  BY <1>2, <1>3, SolutionUnique
<1>5. c[S] = Count(f, S)
  OBVIOUS
<1> QED  BY <1>1, <1>4, <1>5

-----------------------------------------------------------------------------
(* The laws *)

LEMMA SumEmpty == ASSUME NEW D, NEW f \in [D -> Int] PROVE SumFunctionOnSet(f, {}) = 0
<1>1. IsFiniteSet({}) /\ {} \in SUBSET D
  BY FS_EmptySet
<1> QED  BY <1>1, SumIsCount, CountEmpty

LEMMA SumSplit ==
    ASSUME NEW D, NEW f \in [D -> Int], NEW S \in SUBSET D, IsFiniteSet(S), NEW x \in S
    PROVE  /\ SumFunctionOnSet(f, S \ {x}) \in Int
           /\ SumFunctionOnSet(f, S) = f[x] + SumFunctionOnSet(f, S \ {x})
<1>1. IsFiniteSet(S \ {x}) /\ S \ {x} \in SUBSET D
  BY FS_RemoveElement
<1>2. /\ SumFunctionOnSet(f, S) = Count(f, S)
      /\ SumFunctionOnSet(f, S \ {x}) = Count(f, S \ {x})
  BY <1>1, SumIsCount
<1> QED  BY <1>2, CountSplit

LEMMA SumIsInt ==
    ASSUME NEW D, NEW f \in [D -> Int], NEW S \in SUBSET D, IsFiniteSet(S)
    PROVE  SumFunctionOnSet(f, S) \in Int
<1>1. CASE S = {}
  BY <1>1, SumEmpty
<1>2. ASSUME NEW x \in S PROVE SumFunctionOnSet(f, S) \in Int
  <2>1. /\ SumFunctionOnSet(f, S \ {x}) \in Int
        /\ SumFunctionOnSet(f, S) = f[x] + SumFunctionOnSet(f, S \ {x})
    BY SumSplit
  <2>2. f[x] \in Int
    OBVIOUS
  <2> QED  BY <2>1, <2>2
<1> QED  BY <1>1, <1>2

(* One member more. *)
LEMMA SumAdd ==
    ASSUME NEW D, NEW f \in [D -> Int], NEW S \in SUBSET D, IsFiniteSet(S),
           NEW x \in D, x \notin S
    PROVE  SumFunctionOnSet(f, S \cup {x}) = f[x] + SumFunctionOnSet(f, S)
<1>1. IsFiniteSet(S \cup {x}) /\ S \cup {x} \in SUBSET D /\ (S \cup {x}) \ {x} = S
  BY FS_AddElement
<1> QED  BY <1>1, SumSplit

(* Only the values on the set matter. *)
LEMMA SumSame ==
    ASSUME NEW D, NEW f \in [D -> Int], NEW g \in [D -> Int],
           NEW S \in SUBSET D, IsFiniteSet(S), \A y \in S : f[y] = g[y]
    PROVE  SumFunctionOnSet(f, S) = SumFunctionOnSet(g, S)
<1>1. AllUnits(f, S) = AllUnits(g, S)
  BY DEF AllUnits
<1>2. \A y \in S : Opposite(f)[y] = Opposite(g)[y]
  BY DEF Opposite
<1>3. AllUnits(Opposite(f), S) = AllUnits(Opposite(g), S)
  BY <1>2 DEF AllUnits
<1> QED  BY <1>1, <1>3, SumIsCount DEF Count

(* One value changes. *)
LEMMA SumUpdate ==
    ASSUME NEW D, NEW f \in [D -> Int], NEW g \in [D -> Int],
           NEW S \in SUBSET D, IsFiniteSet(S), NEW x \in S,
           \A y \in S : y # x => g[y] = f[y]
    PROVE  SumFunctionOnSet(g, S) = SumFunctionOnSet(f, S) - f[x] + g[x]
<1>1. IsFiniteSet(S \ {x}) /\ S \ {x} \in SUBSET D
  BY FS_RemoveElement
<1>2. SumFunctionOnSet(f, S \ {x}) = SumFunctionOnSet(g, S \ {x})
  BY <1>1, SumSame
<1>3. /\ SumFunctionOnSet(f, S \ {x}) \in Int
      /\ SumFunctionOnSet(f, S) = f[x] + SumFunctionOnSet(f, S \ {x})
      /\ SumFunctionOnSet(g, S) = g[x] + SumFunctionOnSet(g, S \ {x})
  BY SumSplit
<1>4. f[x] \in Int /\ g[x] \in Int
  OBVIOUS
<1> QED  BY <1>2, <1>3, <1>4

(* A sum of natural numbers is one, and that over a subset is no more. *)
LEMMA SumOverSubset ==
    ASSUME NEW D, NEW f \in [D -> Int], NEW S \in SUBSET D, IsFiniteSet(S),
           \A y \in S : f[y] >= 0, NEW T \in SUBSET S
    PROVE  /\ SumFunctionOnSet(f, S) >= 0
           /\ SumFunctionOnSet(f, T) <= SumFunctionOnSet(f, S)
<1>1. IsFiniteSet(T) /\ T \in SUBSET D
  BY FS_Subset
<1>2. \A y \in S : Opposite(f)[y] = 0 - f[y] /\ f[y] \in Int
  BY DEF Opposite
<1>3. \A y \in S : Units(y, Opposite(f)[y]) = {}
  BY <1>2 DEF Units
<1>4. AllUnits(Opposite(f), S) = {} /\ AllUnits(Opposite(f), T) = {}
  BY <1>3 DEF AllUnits
<1>5. AllUnits(f, T) \in SUBSET AllUnits(f, S)
  BY DEF AllUnits
<1>6. IsFiniteSet(AllUnits(f, S))
  BY AllUnitsFinite
<1>7. /\ IsFiniteSet(AllUnits(f, T))
      /\ Cardinality(AllUnits(f, T)) <= Cardinality(AllUnits(f, S))
  BY <1>5, <1>6, FS_Subset
<1>8. Cardinality(AllUnits(f, S)) \in Nat /\ Cardinality(AllUnits(f, T)) \in Nat
  BY <1>6, <1>7, FS_CardinalityType
<1>9. /\ SumFunctionOnSet(f, S) = Cardinality(AllUnits(f, S))
      /\ SumFunctionOnSet(f, T) = Cardinality(AllUnits(f, T))
  <2>1. Cardinality({}) = 0
    BY FS_EmptySet
  <2>2. SumFunctionOnSet(f, S) = Count(f, S) /\ SumFunctionOnSet(f, T) = Count(f, T)
    BY <1>1, SumIsCount
  <2> QED  BY <1>4, <1>8, <2>1, <2>2 DEF Count
<1> QED  BY <1>7, <1>8, <1>9

LEMMA SumOfZeros ==
    ASSUME NEW D, NEW f \in [D -> Int], NEW S \in SUBSET D, IsFiniteSet(S),
           \A y \in S : f[y] = 0
    PROVE  SumFunctionOnSet(f, S) = 0
<1>1. \A y \in S : Opposite(f)[y] = 0
  BY DEF Opposite
<1>2. AllUnits(f, S) = {}
  BY DEF AllUnits, Units
<1>3. AllUnits(Opposite(f), S) = {}
  BY <1>1 DEF AllUnits, Units
<1> QED  BY <1>2, <1>3, SumIsCount, FS_EmptySet DEF Count

(* What x adds to a sum over S, if its value is n. *)
Part(x, S, n) == IF x \in S THEN n ELSE 0

LEMMA SumParts ==
    ASSUME NEW D, NEW f \in [D -> Int], NEW S \in SUBSET D, IsFiniteSet(S), NEW x \in D
    PROVE  /\ Part(x, S, f[x]) \in Int
           /\ SumFunctionOnSet(f, S \ {x}) \in Int
           /\ SumFunctionOnSet(f, S) = Part(x, S, f[x]) + SumFunctionOnSet(f, S \ {x})
<1>1. f[x] \in Int /\ Part(x, S, f[x]) \in Int
  BY DEF Part
<1>2. CASE x \in S
  BY <1>1, <1>2, SumSplit DEF Part
<1>3. CASE x \notin S
  <2>1. S \ {x} = S
    BY <1>3
  <2>2. SumFunctionOnSet(f, S) \in Int
    BY SumIsInt
  <2>3. Part(x, S, f[x]) = 0
    BY <1>3 DEF Part
  <2> DEFINE all  == SumFunctionOnSet(f, S)
             rest == SumFunctionOnSet(f, S \ {x})
             own  == Part(x, S, f[x])
  <2>4. all \in Int /\ rest = all /\ own = 0
    BY <2>1, <2>2, <2>3
  <2> HIDE DEF all, rest, own
  <2>5. own \in Int /\ rest \in Int /\ all = own + rest
    BY <2>4
  <2> QED  BY <2>5 DEF all, rest, own
<1> QED  BY <1>2, <1>3

(* Only x changes: its value, or whether it counts. *)
LEMMA SumMoves ==
    ASSUME NEW D, NEW f \in [D -> Int], NEW g \in [D -> Int], NEW x \in D,
           NEW S \in SUBSET D, IsFiniteSet(S), NEW T \in SUBSET D, IsFiniteSet(T),
           \A y \in D : y # x => g[y] = f[y] /\ (y \in T <=> y \in S)
    PROVE  /\ SumFunctionOnSet(f, S) \in Int
           /\ SumFunctionOnSet(g, T)
                = SumFunctionOnSet(f, S) - Part(x, S, f[x]) + Part(x, T, g[x])
<1>1. S \ {x} = T \ {x}
  OBVIOUS
<1>2. IsFiniteSet(S \ {x}) /\ S \ {x} \in SUBSET D /\ \A y \in S \ {x} : f[y] = g[y]
  BY FS_RemoveElement
<1>3. SumFunctionOnSet(f, S \ {x}) = SumFunctionOnSet(g, S \ {x})
  BY <1>2, SumSame
<1>4. SumFunctionOnSet(f, S \ {x}) = SumFunctionOnSet(g, T \ {x})
  BY <1>1, <1>3
<1>5. /\ Part(x, S, f[x]) \in Int /\ Part(x, T, g[x]) \in Int
      /\ SumFunctionOnSet(f, S \ {x}) \in Int
      /\ SumFunctionOnSet(f, S) = Part(x, S, f[x]) + SumFunctionOnSet(f, S \ {x})
      /\ SumFunctionOnSet(g, T) = Part(x, T, g[x]) + SumFunctionOnSet(g, T \ {x})
  BY SumParts
<1> QED  BY <1>4, <1>5
=============================================================================
