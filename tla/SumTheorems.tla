----------------------------- MODULE SumTheorems -----------------------------
(***************************************************************************)
(* Sums over finite sets: what SumFunctionOnSet(f, S), the sum of f[x] for *)
(* x in S, does when an element joins or leaves S, or f changes.  The sums *)
(* are folds, defined by recursion over the subsets of S, so the facts     *)
(* below are proved by induction over data.  The principle is a least      *)
(* element: of the subsets that violate a claim, take a smallest.          *)
(***************************************************************************)
EXTENDS Functions, Integers, FiniteSetTheorems, WellFoundedInduction, TLAPS

(* Every set of natural numbers has a least one.                           *)
LEMMA LeastNatural ==
    ASSUME NEW N, N \subseteq Nat, N # {}
    PROVE  \E m \in N : \A n \in N : m <= n
<1> DEFINE Less == OpToRel(<, Nat)
<1>1. IsWellFoundedOn(Less, Nat)
  BY NatLessThanWellFounded
<1>2. \A n, m \in Nat : <<n, m>> \in Less <=> n < m
  BY DEF OpToRel
<1> HIDE DEF Less
<1>3. PICK m \in N : \A n \in N : ~ (<<n, m>> \in Less)
  BY <1>1, WFMin
<1>4. \A n \in N : n \in Nat
  OBVIOUS
<1>5. \A n \in N : ~ (n < m)
  BY <1>2, <1>3, <1>4, Zenon
<1> QED BY <1>4, <1>5, SMT

(* Subsets of a finite set and their sizes.                                *)
LEMMA SubsetSizes ==
    ASSUME NEW S, IsFiniteSet(S), NEW s \in SUBSET S
    PROVE  /\ IsFiniteSet(s) /\ Cardinality(s) \in Nat
           /\ s = {} <=> Cardinality(s) = 0
           /\ \A x \in s : Cardinality(s \ {x}) = Cardinality(s) - 1
<1>1. IsFiniteSet(s) /\ Cardinality(s) \in Nat
  BY FS_Subset, FS_CardinalityType
<1> QED BY <1>1, FS_EmptySet, FS_RemoveElement

(* Induction over finite sets: if some subsets of S are bad, one of them   *)
(* is good whichever element it loses.                                     *)
LEMMA SmallestSubset ==
    ASSUME NEW S, IsFiniteSet(S), NEW Bad \in SUBSET SUBSET S, Bad # {}
    PROVE  \E s \in Bad : \A x \in s : s \ {x} \notin Bad
<1> DEFINE N == {Cardinality(s) : s \in Bad}
<1>1. N \subseteq Nat /\ N # {}
  BY SubsetSizes
<1>2. PICK m \in N : \A n \in N : m <= n
  BY <1>1, LeastNatural
<1>3. PICK s \in Bad : Cardinality(s) = m
  OBVIOUS
<1>4. ASSUME NEW x \in s, s \ {x} \in Bad PROVE FALSE
  <2>1. Cardinality(s \ {x}) = m - 1 /\ m \in Nat
    BY <1>3, SubsetSizes
  <2> QED BY <1>2, <1>4, <2>1
<1> QED BY <1>4

----------------------------------------------------------------------------
(* The recursion behind the sum, and that a function satisfies it.         *)
Chosen(s) == CHOOSE x \in s : TRUE

Unfold(f, g, s) == IF s = {} THEN 0 ELSE f[Chosen(s)] + g[s \ {Chosen(s)}]

Recursion(f, D, g) == g = [s \in D |-> Unfold(f, g, s)]

LEMMA ChosenIn == ASSUME NEW s, s # {} PROVE Chosen(s) \in s
BY DEF Chosen

LEMMA SumIsRecursive ==
    ASSUME NEW f, NEW S
    PROVE  SumFunctionOnSet(f, S) = (CHOOSE g : Recursion(f, SUBSET S, g))[S]
BY Zenon DEF SumFunctionOnSet, FoldFunctionOnSet, MapThenFoldSet, Recursion,
             Unfold, Chosen

UpTo(S, n) == {s \in SUBSET S : Cardinality(s) <= n}

(* A function defined for the subsets of up to n elements can be extended. *)
LEMMA RecursionExtends ==
    ASSUME NEW f, NEW S, IsFiniteSet(S), NEW n \in Nat, NEW g,
           Recursion(f, UpTo(S, n), g)
    PROVE  \E h : Recursion(f, UpTo(S, n+1), h)
<1> DEFINE h == [s \in UpTo(S, n+1) |-> Unfold(f, g, s)]
<1>1. \A s \in UpTo(S, n) : s \in UpTo(S, n+1)
  BY SubsetSizes DEF UpTo
<1>2. \A s \in UpTo(S, n) : h[s] = g[s]
  BY <1>1 DEF Recursion
<1>3. ASSUME NEW s \in UpTo(S, n+1), s # {}
      PROVE  s \ {Chosen(s)} \in UpTo(S, n)
  BY <1>3, ChosenIn, SubsetSizes DEF UpTo
<1>4. h = [s \in UpTo(S, n+1) |-> Unfold(f, g, s)]
  OBVIOUS
<1> HIDE DEF h
<1>5. \A s \in UpTo(S, n+1) : Unfold(f, h, s) = Unfold(f, g, s)
  BY <1>2, <1>3 DEF Unfold
<1>6. h = [s \in UpTo(S, n+1) |-> Unfold(f, h, s)]
  BY <1>4, <1>5
<1> QED BY <1>6 DEF Recursion

LEMMA RecursionExists ==
    ASSUME NEW f, NEW S, IsFiniteSet(S)
    PROVE  \E g : Recursion(f, SUBSET S, g)
<1> DEFINE N == {n \in Nat : ~ \E g : Recursion(f, UpTo(S, n), g)}
<1>1. ASSUME N # {} PROVE FALSE
  <2>1. PICK m \in N : \A n \in N : m <= n
    BY <1>1, LeastNatural
  <2>2. CASE m = 0
    <3>1. \A s \in UpTo(S, 0) : s = {}
      BY SubsetSizes DEF UpTo
    <3> DEFINE g == [s \in UpTo(S, 0) |-> 0]
    <3>2. \A s \in UpTo(S, 0) : Unfold(f, g, s) = 0
      BY <3>1 DEF Unfold
    <3>3. Recursion(f, UpTo(S, 0), g)
      BY <3>2 DEF Recursion
    <3> QED BY <2>2, <3>3
  <2>3. CASE m # 0
    <3>1. m - 1 \in Nat /\ (m - 1) + 1 = m
      BY <2>3
    <3>2. PICK g : Recursion(f, UpTo(S, m - 1), g)
      BY <2>1, <3>1
    <3> QED BY <3>1, <3>2, RecursionExtends
  <2> QED BY <2>2, <2>3
<1>2. Cardinality(S) \in Nat
  BY FS_CardinalityType
<1>3. UpTo(S, Cardinality(S)) = SUBSET S
  BY FS_Subset, FS_CardinalityType DEF UpTo
<1>4. Cardinality(S) \notin N
  BY <1>1
<1>5. \E g : Recursion(f, UpTo(S, Cardinality(S)), g)
  BY <1>2, <1>4
<1> QED BY <1>3, <1>5, Zenon

(* Two functions that satisfy it agree where both are defined.             *)
LEMMA RecursionUnique ==
    ASSUME NEW f, NEW S, IsFiniteSet(S), NEW T \in SUBSET S, NEW g, NEW h,
           Recursion(f, SUBSET S, g), Recursion(f, SUBSET T, h)
    PROVE  \A s \in SUBSET T : g[s] = h[s]
<1> DEFINE Bad == {s \in SUBSET T : g[s] # h[s]}
<1>1. ASSUME Bad # {} PROVE FALSE
  <2>1. IsFiniteSet(T)
    BY FS_Subset
  <2>2. PICK s \in Bad : \A x \in s : s \ {x} \notin Bad
    BY <1>1, <2>1, SmallestSubset
  <2>3. s \in SUBSET T /\ s \in SUBSET S /\ g[s] # h[s]
    OBVIOUS
  <2>4. g[s] = Unfold(f, g, s) /\ h[s] = Unfold(f, h, s)
    BY <2>3 DEF Recursion
  <2>5. s # {}
    BY <2>3, <2>4 DEF Unfold
  <2>6. Chosen(s) \in s
    BY <2>5, ChosenIn
  <2>7. g[s \ {Chosen(s)}] = h[s \ {Chosen(s)}]
    BY <2>2, <2>3, <2>6
  <2> QED BY <2>3, <2>4, <2>7 DEF Unfold
<1> QED BY <1>1

(* The sum satisfies the equation it is defined by.                        *)
LEMMA SumEquation ==
    ASSUME NEW f, NEW S, IsFiniteSet(S)
    PROVE  SumFunctionOnSet(f, S) =
             IF S = {} THEN 0
             ELSE f[Chosen(S)] + SumFunctionOnSet(f, S \ {Chosen(S)})
<1> DEFINE G(T) == CHOOSE g : Recursion(f, SUBSET T, g)
<1>1. ASSUME NEW T, IsFiniteSet(T)
      PROVE  Recursion(f, SUBSET T, G(T)) /\ SumFunctionOnSet(f, T) = G(T)[T]
  BY <1>1, RecursionExists, SumIsRecursive, Zenon
<1> HIDE DEF G
<1>2. SumFunctionOnSet(f, S) = Unfold(f, G(S), S)
  BY <1>1 DEF Recursion
<1>3. CASE S = {}
  BY <1>2, <1>3 DEF Unfold
<1>4. CASE S # {}
  <2> DEFINE T == S \ {Chosen(S)}
  <2>1. T \in SUBSET S /\ IsFiniteSet(T)
    BY FS_Subset
  <2> HIDE DEF T
  <2>2. G(S)[T] = G(T)[T]
    <3>1. Recursion(f, SUBSET S, G(S)) /\ Recursion(f, SUBSET T, G(T))
      BY <1>1, <2>1
    <3>2. T \in SUBSET T
      OBVIOUS
    <3>3. ASSUME NEW g, NEW h, Recursion(f, SUBSET S, g), Recursion(f, SUBSET T, h)
          PROVE  g[T] = h[T]
      <4>1. \A s \in SUBSET T : g[s] = h[s]
        BY <2>1, <3>3, RecursionUnique, SMTT(30)
      <4> QED BY <3>2, <4>1, Zenon
    <3> QED BY <3>1, <3>3
  <2>3. G(S)[T] = SumFunctionOnSet(f, T)
    BY <1>1, <2>1, <2>2
  <2> QED BY <1>2, <1>4, <2>3 DEF Unfold, T
<1> QED BY <1>3, <1>4

----------------------------------------------------------------------------
(* The facts to use.                                                       *)

LEMMA SumEmpty == \A f : SumFunctionOnSet(f, {}) = 0
BY SumEquation, FS_EmptySet

(* Sums of numbers are numbers.                                            *)
LEMMA SumInt ==
    ASSUME NEW S, IsFiniteSet(S), NEW f, \A x \in S : f[x] \in Int
    PROVE  SumFunctionOnSet(f, S) \in Int
<1> DEFINE Bad == {T \in SUBSET S : SumFunctionOnSet(f, T) \notin Int}
<1>1. ASSUME Bad # {} PROVE FALSE
  <2>1. PICK T \in Bad : \A x \in T : T \ {x} \notin Bad
    BY <1>1, SmallestSubset
  <2>2. IsFiniteSet(T) /\ T \in SUBSET S
    BY FS_Subset
  <2>3. CASE T = {}
    BY <2>1, <2>3, SumEmpty
  <2>4. CASE T # {}
    <3>1. Chosen(T) \in T
      BY <2>4, ChosenIn
    <3>2. SumFunctionOnSet(f, T) =
            f[Chosen(T)] + SumFunctionOnSet(f, T \ {Chosen(T)})
      BY <2>2, <2>4, SumEquation
    <3>3. SumFunctionOnSet(f, T \ {Chosen(T)}) \in Int
      BY <2>1, <2>2, <3>1
    <3> QED BY <2>1, <2>2, <3>1, <3>2, <3>3
  <2> QED BY <2>3, <2>4
<1> QED BY <1>1

(* Any element may be taken out first.                                     *)
LEMMA SumRemove ==
    ASSUME NEW S, IsFiniteSet(S), NEW f, \A y \in S : f[y] \in Int, NEW x \in S
    PROVE  SumFunctionOnSet(f, S) = SumFunctionOnSet(f, S \ {x}) + f[x]
<1> DEFINE Bad == {T \in SUBSET S : \E y \in T : SumFunctionOnSet(f, T) #
                                        SumFunctionOnSet(f, T \ {y}) + f[y]}
<1>1. ASSUME Bad # {} PROVE FALSE
  <2>1. PICK T \in Bad : \A y \in T : T \ {y} \notin Bad
    BY <1>1, SmallestSubset
  <2>2. PICK y \in T : SumFunctionOnSet(f, T) # SumFunctionOnSet(f, T \ {y}) + f[y]
    BY <2>1
  <2>3. IsFiniteSet(T) /\ T \in SUBSET S
    BY FS_Subset
  <2>4. PICK c \in T : SumFunctionOnSet(f, T) = f[c] + SumFunctionOnSet(f, T \ {c})
    <3>1. Chosen(T) \in T
      BY <2>2, ChosenIn
    <3> QED BY <2>2, <2>3, <3>1, SumEquation
  <2> DEFINE R == T \ {c, y}
  <2>5. /\ IsFiniteSet(T \ {c}) /\ T \ {c} \in SUBSET S
        /\ IsFiniteSet(T \ {y}) /\ T \ {y} \in SUBSET S
        /\ IsFiniteSet(R) /\ R \in SUBSET S
    BY <2>3, FS_Subset
  <2>6. /\ SumFunctionOnSet(f, T \ {c}) \in Int
        /\ SumFunctionOnSet(f, T \ {y}) \in Int
        /\ SumFunctionOnSet(f, R) \in Int
        /\ f[c] \in Int /\ f[y] \in Int
    BY <2>3, <2>5, SumInt
  <2>7. c # y
    BY <2>2, <2>4, <2>6
  <2>8. /\ (T \ {c}) \ {y} = R /\ (T \ {y}) \ {c} = R
        /\ y \in T \ {c} /\ c \in T \ {y}
    BY <2>7
  <2>9. \A z \in T \ {c} : SumFunctionOnSet(f, T \ {c}) =
                            SumFunctionOnSet(f, (T \ {c}) \ {z}) + f[z]
    BY <2>1, <2>5
  <2>10. \A z \in T \ {y} : SumFunctionOnSet(f, T \ {y}) =
                             SumFunctionOnSet(f, (T \ {y}) \ {z}) + f[z]
    BY <2>1, <2>5
  <2>11. /\ SumFunctionOnSet(f, T \ {c}) = SumFunctionOnSet(f, R) + f[y]
         /\ SumFunctionOnSet(f, T \ {y}) = SumFunctionOnSet(f, R) + f[c]
    BY <2>8, <2>9, <2>10
  <2> HIDE DEF R
  <2> QED BY <2>2, <2>4, <2>6, <2>11
<1> QED BY <1>1

(* Only the values on S matter.                                            *)
LEMMA SumAgree ==
    ASSUME NEW S, IsFiniteSet(S), NEW f, NEW g, \A x \in S : f[x] = g[x]
    PROVE  SumFunctionOnSet(f, S) = SumFunctionOnSet(g, S)
<1> DEFINE Bad == {T \in SUBSET S : SumFunctionOnSet(f, T) # SumFunctionOnSet(g, T)}
<1>1. ASSUME Bad # {} PROVE FALSE
  <2>1. PICK T \in Bad : \A x \in T : T \ {x} \notin Bad
    BY <1>1, SmallestSubset
  <2>2. IsFiniteSet(T) /\ T \in SUBSET S
    BY FS_Subset
  <2>3. CASE T = {}
    BY <2>1, <2>3, SumEmpty
  <2>4. CASE T # {}
    <3>1. Chosen(T) \in T
      BY <2>4, ChosenIn
    <3>2. /\ SumFunctionOnSet(f, T) =
               f[Chosen(T)] + SumFunctionOnSet(f, T \ {Chosen(T)})
          /\ SumFunctionOnSet(g, T) =
               g[Chosen(T)] + SumFunctionOnSet(g, T \ {Chosen(T)})
      BY <2>2, <2>4, SumEquation
    <3>3. SumFunctionOnSet(f, T \ {Chosen(T)}) = SumFunctionOnSet(g, T \ {Chosen(T)})
      BY <2>1, <2>2, <3>1
    <3> QED BY <2>1, <2>2, <3>1, <3>2, <3>3
  <2> QED BY <2>3, <2>4
<1> QED BY <1>1

(* An element joins.                                                       *)
LEMMA SumAdd ==
    ASSUME NEW S, IsFiniteSet(S), NEW x, x \notin S,
           NEW f, \A y \in S \cup {x} : f[y] \in Int
    PROVE  SumFunctionOnSet(f, S \cup {x}) = SumFunctionOnSet(f, S) + f[x]
<1>1. IsFiniteSet(S \cup {x}) /\ (S \cup {x}) \ {x} = S
  BY FS_AddElement
<1> QED BY <1>1, SumRemove

(* One value changes.                                                      *)
LEMMA SumUpdate ==
    ASSUME NEW S, IsFiniteSet(S), NEW x \in S, NEW f, NEW g,
           \A y \in S : f[y] \in Int /\ g[y] \in Int,
           \A y \in S \ {x} : f[y] = g[y]
    PROVE  SumFunctionOnSet(g, S) = SumFunctionOnSet(f, S) - f[x] + g[x]
<1>1. IsFiniteSet(S \ {x})
  BY FS_Subset
<1>2. /\ SumFunctionOnSet(f, S) = SumFunctionOnSet(f, S \ {x}) + f[x]
      /\ SumFunctionOnSet(g, S) = SumFunctionOnSet(g, S \ {x}) + g[x]
  BY SumRemove
<1>3. SumFunctionOnSet(f, S \ {x}) = SumFunctionOnSet(g, S \ {x})
  BY <1>1, SumAgree
<1>4. SumFunctionOnSet(f, S \ {x}) \in Int
  BY <1>1, SumInt
<1> QED BY <1>2, <1>3, <1>4

(* A sum is monotonic in the values.                                       *)
LEMMA SumMonotonic ==
    ASSUME NEW S, IsFiniteSet(S), NEW f, NEW g,
           \A x \in S : f[x] \in Int /\ g[x] \in Int /\ f[x] <= g[x]
    PROVE  SumFunctionOnSet(f, S) <= SumFunctionOnSet(g, S)
<1> DEFINE Bad == {T \in SUBSET S : ~ (SumFunctionOnSet(f, T) <= SumFunctionOnSet(g, T))}
<1>1. ASSUME Bad # {} PROVE FALSE
  <2>1. PICK T \in Bad : \A x \in T : T \ {x} \notin Bad
    BY <1>1, SmallestSubset
  <2>2. IsFiniteSet(T) /\ T \in SUBSET S
    BY FS_Subset
  <2>3. CASE T = {}
    BY <2>1, <2>3, SumEmpty
  <2>4. ASSUME NEW x \in T PROVE FALSE
    <3> DEFINE R == T \ {x}
    <3>1. IsFiniteSet(R) /\ R \in SUBSET S
      BY <2>2, FS_Subset
    <3>2. /\ SumFunctionOnSet(f, T) = SumFunctionOnSet(f, R) + f[x]
          /\ SumFunctionOnSet(g, T) = SumFunctionOnSet(g, R) + g[x]
      BY <2>2, SumRemove
    <3>3. SumFunctionOnSet(f, R) \in Int /\ SumFunctionOnSet(g, R) \in Int
      BY <3>1, SumInt
    <3>4. SumFunctionOnSet(f, R) <= SumFunctionOnSet(g, R)
      BY <2>1, <3>1
    <3> QED BY <2>1, <3>2, <3>3, <3>4
  <2> QED BY <2>3, <2>4
<1> QED BY <1>1

(* The sum of the opposites is the opposite of the sum.                    *)
LEMMA SumNegate ==
    ASSUME NEW S, IsFiniteSet(S), NEW f, NEW g,
           \A x \in S : f[x] \in Int /\ g[x] = -f[x]
    PROVE  SumFunctionOnSet(g, S) = -SumFunctionOnSet(f, S)
<1> DEFINE Bad == {T \in SUBSET S : SumFunctionOnSet(g, T) # -SumFunctionOnSet(f, T)}
<1>1. ASSUME Bad # {} PROVE FALSE
  <2>1. PICK T \in Bad : \A x \in T : T \ {x} \notin Bad
    BY <1>1, SmallestSubset
  <2>2. IsFiniteSet(T) /\ T \in SUBSET S
    BY FS_Subset
  <2>3. CASE T = {}
    BY <2>1, <2>3, SumEmpty
  <2>4. ASSUME NEW x \in T PROVE FALSE
    <3> DEFINE R == T \ {x}
    <3>1. IsFiniteSet(R) /\ R \in SUBSET S
      BY <2>2, FS_Subset
    <3>2. /\ SumFunctionOnSet(f, T) = SumFunctionOnSet(f, R) + f[x]
          /\ SumFunctionOnSet(g, T) = SumFunctionOnSet(g, R) + g[x]
      BY <2>2, SumRemove
    <3>3. SumFunctionOnSet(f, R) \in Int /\ SumFunctionOnSet(g, R) \in Int
      BY <3>1, SumInt
    <3>4. SumFunctionOnSet(g, R) = -SumFunctionOnSet(f, R)
      BY <2>1, <3>1
    <3> QED BY <2>1, <3>2, <3>3, <3>4
  <2> QED BY <2>3, <2>4
<1> QED BY <1>1

(* Elements that count for nothing may be left out.                        *)
LEMMA SumSupport ==
    ASSUME NEW S, IsFiniteSet(S), NEW T \in SUBSET S, NEW f,
           \A x \in S : f[x] \in Int, \A x \in S \ T : f[x] = 0
    PROVE  SumFunctionOnSet(f, S) = SumFunctionOnSet(f, T)
<1> DEFINE Bad == {R \in SUBSET S : T \subseteq R /\
                      SumFunctionOnSet(f, R) # SumFunctionOnSet(f, T)}
<1>1. ASSUME Bad # {} PROVE FALSE
  <2>1. PICK R \in Bad : \A x \in R : R \ {x} \notin Bad
    <3>1. Bad \in SUBSET SUBSET S
      OBVIOUS
    <3> HIDE DEF Bad
    <3> QED BY <1>1, <3>1, SmallestSubset
  <2>2. IsFiniteSet(R) /\ R \in SUBSET S /\ T \subseteq R
    BY FS_Subset
  <2>3. R # T
    BY <2>1
  <2>4. PICK x \in R : x \notin T
    BY <2>2, <2>3
  <2>5. SumFunctionOnSet(f, R) = SumFunctionOnSet(f, R \ {x}) + f[x]
    BY <2>2, SumRemove
  <2>6. SumFunctionOnSet(f, R \ {x}) = SumFunctionOnSet(f, T)
    BY <2>1, <2>2, <2>4
  <2>7. IsFiniteSet(T) /\ SumFunctionOnSet(f, T) \in Int
    BY FS_Subset, SumInt
  <2> QED BY <2>1, <2>2, <2>4, <2>5, <2>6, <2>7
<1> QED BY <1>1

(* A term of a sum of natural numbers is no larger than the sum.           *)
LEMMA SumMember ==
    ASSUME NEW S, IsFiniteSet(S), NEW f, \A y \in S : f[y] \in Nat, NEW x \in S
    PROVE  f[x] <= SumFunctionOnSet(f, S)
<1> DEFINE g == [y \in S |-> IF y = x THEN f[x] ELSE 0]
<1>1. /\ \A y \in S : g[y] \in Int /\ f[y] \in Int /\ g[y] <= f[y]
      /\ \A y \in S \ {x} : g[y] = 0
      /\ g[x] = f[x]
  OBVIOUS
<1> HIDE DEF g
<1>2. SumFunctionOnSet(g, S) <= SumFunctionOnSet(f, S)
  BY <1>1, SumMonotonic
<1>3. SumFunctionOnSet(g, S) = SumFunctionOnSet(g, {x})
  BY <1>1, SumSupport
<1>4. SumFunctionOnSet(g, {x}) = g[x]
  <2>1. IsFiniteSet({x}) /\ {x} \ {x} = {}
    BY FS_Singleton
  <2>2. SumFunctionOnSet(g, {x}) = SumFunctionOnSet(g, {x} \ {x}) + g[x]
    BY <1>1, <2>1, SumRemove
  <2> QED BY <1>1, <2>1, <2>2, SumEmpty
<1> QED BY <1>1, <1>2, <1>3, <1>4

(* A sum in two parts.                                                     *)
LEMMA SumSplit ==
    ASSUME NEW S, IsFiniteSet(S), NEW T \in SUBSET S, NEW f, \A x \in S : f[x] \in Int
    PROVE  SumFunctionOnSet(f, S) = SumFunctionOnSet(f, T) + SumFunctionOnSet(f, S \ T)
<1> DEFINE Split(R) == SumFunctionOnSet(f, R) =
                         SumFunctionOnSet(f, R \cap T) + SumFunctionOnSet(f, R \ T)
           Bad == {R \in SUBSET S : ~Split(R)}
<1>1. ASSUME Bad # {} PROVE FALSE
  <2>1. PICK R \in Bad : \A x \in R : R \ {x} \notin Bad
    <3>1. Bad \in SUBSET SUBSET S
      OBVIOUS
    <3> HIDE DEF Bad
    <3> QED BY <1>1, <3>1, SmallestSubset
  <2>2. /\ IsFiniteSet(R) /\ IsFiniteSet(R \cap T) /\ IsFiniteSet(R \ T)
        /\ R \in SUBSET S /\ \A x \in R : f[x] \in Int
    BY FS_Subset
  <2>3. R # {}
    <3>1. {} \cap T = {} /\ {} \ T = {} /\ 0 = 0 + 0
      OBVIOUS
    <3> QED BY <2>1, <3>1, SumEmpty
  <2>4. PICK x \in R : TRUE
    BY <2>3
  <2> DEFINE Q == R \ {x}
  <2>5. IsFiniteSet(Q) /\ IsFiniteSet(Q \cap T) /\ IsFiniteSet(Q \ T) /\ Split(Q)
    BY <2>1, <2>2, FS_Subset
  <2>6. /\ SumFunctionOnSet(f, Q \cap T) \in Int
        /\ SumFunctionOnSet(f, Q \ T) \in Int
        /\ f[x] \in Int
    BY <2>2, <2>5, SumInt
  <2> HIDE DEF Bad, Q
  <2>7. SumFunctionOnSet(f, R) = SumFunctionOnSet(f, Q) + f[x]
    BY <2>2, SumRemove DEF Q
  <2>8. CASE x \in T
    <3>1. Q \cap T = (R \cap T) \ {x} /\ Q \ T = R \ T /\ x \in R \cap T
      BY <2>8 DEF Q
    <3>2. SumFunctionOnSet(f, R \cap T) = SumFunctionOnSet(f, Q \cap T) + f[x]
      BY <2>2, <3>1, SumRemove
    <3>3. SumFunctionOnSet(f, Q \ T) = SumFunctionOnSet(f, R \ T)
      BY <3>1, Zenon
    <3>4. Split(R)
      BY <2>5, <2>6, <2>7, <3>2, <3>3
    <3> QED BY <2>1, <3>4 DEF Bad
  <2>9. CASE x \notin T
    <3>1. Q \ T = (R \ T) \ {x} /\ Q \cap T = R \cap T /\ x \in R \ T
      BY <2>9 DEF Q
    <3>2. SumFunctionOnSet(f, R \ T) = SumFunctionOnSet(f, Q \ T) + f[x]
      BY <2>2, <3>1, SumRemove
    <3>3. SumFunctionOnSet(f, Q \cap T) = SumFunctionOnSet(f, R \cap T)
      BY <3>1, Zenon
    <3>4. Split(R)
      BY <2>5, <2>6, <2>7, <3>2, <3>3
    <3> QED BY <2>1, <3>4 DEF Bad
  <2> QED BY <2>8, <2>9
<1>2. Split(S) /\ S \cap T = T
  BY <1>1
<1> QED BY <1>2

----------------------------------------------------------------------------
(* The same for the total of a set of records with an amount.              *)
Total(T) == SumFunction([d \in T |-> d.amount])

LEMMA TotalIsSum ==
    ASSUME NEW S, IsFiniteSet(S), NEW T \in SUBSET S
    PROVE  Total(T) = SumFunctionOnSet([d \in S |-> d.amount], T)
<1> DEFINE f == [d \in T |-> d.amount]
           g == [d \in S |-> d.amount]
<1>1. Total(T) = SumFunctionOnSet(f, T)
  BY Zenon DEF Total, SumFunction
<1>2. IsFiniteSet(T) /\ \A d \in T : f[d] = g[d]
  BY FS_Subset
<1> HIDE DEF f, g
<1>3. SumFunctionOnSet(f, T) = SumFunctionOnSet(g, T)
  BY <1>2, SumAgree
<1> QED BY <1>1, <1>3 DEF g

LEMMA TotalEmpty == Total({}) = 0
<1>1. Total({}) = SumFunctionOnSet([d \in {} |-> d.amount], {})
  BY TotalIsSum, FS_EmptySet
<1> QED BY <1>1, SumEmpty

LEMMA TotalInt ==
    ASSUME NEW T, IsFiniteSet(T), \A d \in T : d.amount \in Int
    PROVE  Total(T) \in Int
<1> DEFINE f == [d \in T |-> d.amount]
<1>1. Total(T) = SumFunctionOnSet(f, T)
  BY TotalIsSum
<1>2. \A d \in T : f[d] \in Int
  OBVIOUS
<1> HIDE DEF f
<1> QED BY <1>1, <1>2, SumInt

(* A record joins.                                                         *)
LEMMA TotalAdd ==
    ASSUME NEW T, IsFiniteSet(T), NEW x, x \notin T,
           \A d \in T \cup {x} : d.amount \in Int
    PROVE  Total(T \cup {x}) = Total(T) + x.amount
<1> DEFINE S == T \cup {x}
           f == [d \in S |-> d.amount]
<1>1. IsFiniteSet(S) /\ T \in SUBSET S /\ x \in S
  BY FS_AddElement
<1>2. Total(T) = SumFunctionOnSet(f, T) /\ Total(S) = SumFunctionOnSet(f, S)
  BY <1>1, TotalIsSum
<1>3. f[x] = x.amount /\ \A d \in S : f[d] \in Int
  OBVIOUS
<1> HIDE DEF f
<1>4. SumFunctionOnSet(f, S) = SumFunctionOnSet(f, T) + f[x]
  BY <1>3, SumAdd
<1> QED BY <1>2, <1>3, <1>4

(* A record leaves.                                                        *)
LEMMA TotalRemove ==
    ASSUME NEW T, IsFiniteSet(T), NEW x \in T, \A d \in T : d.amount \in Int
    PROVE  Total(T \ {x}) = Total(T) - x.amount
<1> DEFINE R == T \ {x}
<1>1. IsFiniteSet(R) /\ x \notin R /\ T = R \cup {x}
  BY FS_Subset
<1>2. x.amount \in Int /\ \A d \in R \cup {x} : d.amount \in Int
  OBVIOUS
<1> HIDE DEF R
<1>3. Total(T) = Total(R) + x.amount
  BY <1>1, <1>2, TotalAdd
<1>4. Total(R) \in Int
  BY <1>1, <1>2, TotalInt
<1>5. Total(R) = Total(T) - x.amount
  BY <1>2, <1>3, <1>4
<1> QED BY <1>5 DEF R

(* No record of natural numbers amounts to more than the total.            *)
LEMMA TotalMember ==
    ASSUME NEW T, IsFiniteSet(T), \A d \in T : d.amount \in Nat, NEW x \in T
    PROVE  x.amount <= Total(T)
<1> DEFINE f == [d \in T |-> d.amount]
<1>1. Total(T) = SumFunctionOnSet(f, T)
  BY TotalIsSum
<1>2. f[x] = x.amount /\ \A d \in T : f[d] \in Nat
  OBVIOUS
<1> HIDE DEF f
<1> QED BY <1>1, <1>2, SumMember

LEMMA TotalUnion ==
    ASSUME NEW S, NEW T, IsFiniteSet(S \cup T), S \cap T = {},
           \A d \in S \cup T : d.amount \in Int
    PROVE  Total(S \cup T) = Total(S) + Total(T)
<1> DEFINE U == S \cup T
           f == [d \in U |-> d.amount]
<1>1. S \in SUBSET U /\ T \in SUBSET U /\ U \in SUBSET U /\ U \ S = T
  OBVIOUS
<1>2. /\ Total(U) = SumFunctionOnSet(f, U)
      /\ Total(S) = SumFunctionOnSet(f, S)
      /\ Total(T) = SumFunctionOnSet(f, T)
  BY <1>1, TotalIsSum
<1>3. \A d \in U : f[d] \in Int
  OBVIOUS
<1> HIDE DEF f, U
<1>4. SumFunctionOnSet(f, U) = SumFunctionOnSet(f, S) + SumFunctionOnSet(f, U \ S)
  BY <1>1, <1>3, SumSplit DEF U
<1> QED BY <1>1, <1>2, <1>4 DEF U

(* The sum of one user's records, when a record comes or goes.             *)
Of(S, u) == {d \in S : d.user = u}

Part(d, u) == IF d.user = u THEN d.amount ELSE 0

LEMMA TotalOfMoves ==
    ASSUME NEW S, IsFiniteSet(S), \A e \in S : e.amount \in Int,
           NEW d, d.amount \in Int, NEW u
    PROVE  /\ Total(Of(S, u)) \in Int /\ Part(d, u) \in Int
           /\ d \notin S => Total(Of(S \cup {d}, u)) = Total(Of(S, u)) + Part(d, u)
           /\ d \in S => Total(Of(S \ {d}, u)) = Total(Of(S, u)) - Part(d, u)
<1>1. IsFiniteSet(Of(S, u)) /\ \A e \in Of(S, u) : e.amount \in Int
  BY FS_Subset DEF Of
<1>2. Total(Of(S, u)) \in Int
  BY <1>1, TotalInt
<1>3. CASE d.user # u
  <2>1. Of(S \cup {d}, u) = Of(S, u) /\ Of(S \ {d}, u) = Of(S, u) /\ Part(d, u) = 0
    BY <1>3 DEF Of, Part
  <2> QED BY <1>2, <2>1
<1>4. CASE d.user = u
  <2>1. /\ Of(S \cup {d}, u) = Of(S, u) \cup {d} /\ Of(S \ {d}, u) = Of(S, u) \ {d}
        /\ Part(d, u) = d.amount /\ (d \in Of(S, u) <=> d \in S)
    BY <1>4 DEF Of, Part
  <2>2. d \notin S => Total(Of(S, u) \cup {d}) = Total(Of(S, u)) + d.amount
    BY <1>1, <2>1, TotalAdd
  <2>3. d \in S => Total(Of(S, u) \ {d}) = Total(Of(S, u)) - d.amount
    BY <1>1, <2>1, TotalRemove
  <2> QED BY <1>2, <2>1, <2>2, <2>3
<1> QED BY <1>3, <1>4
=============================================================================
