-------------------------------- MODULE Sums --------------------------------
(* Sums over finite sets.  The library's fold takes the elements of a set in *)
(* an order nobody chooses; these lemmas say that the order does not matter, *)
(* and compare sums.  They are shown by induction in the form "of the parts  *)
(* of a finite set that fail, look at a smallest one".                       *)
EXTENDS Integers, FiniteSets, FiniteSetsExt, FiniteSetTheorems,
        WellFoundedInduction, TLAPS

SumOver(f, S) == MapThenSumSet(LAMBDA x : f[x], S)

(* Of some numbers one is smallest.                                         *)
LEMMA Least ==
    ASSUME NEW T, T \subseteq Nat, T # {}
    PROVE  \E n \in T : \A m \in T : n <= m
<1>1. PICK n \in T : \A m \in T : <<m, n>> \notin OpToRel(<, Nat)
  BY NatLessThanWellFounded, WFMin
<1>2. \A m \in T : ~(m < n)
  BY <1>1 DEF OpToRel
<1> QED
  BY <1>2

(* Induction over a finite set: of some of its subsets one is smallest.     *)
LEMMA Smallest ==
    ASSUME NEW S, IsFiniteSet(S), NEW T, T \subseteq SUBSET S, T # {}
    PROVE  \E x \in T : \A y \in T : y \subseteq x => y = x
<1>1. IsWellFoundedOn(StrictSubsetOrdering(S), SUBSET S)
  BY FS_StrictSubsetOrderingWellFounded, FS_FiniteSubsetsOfFinite
<1>2. PICK x \in T : \A y \in T : <<y, x>> \notin StrictSubsetOrdering(S)
  BY <1>1, WFMin
<1>3. ASSUME NEW y \in T, y \subseteq x PROVE y = x
  BY <1>2, <1>3 DEF StrictSubsetOrdering
<1> QED
  BY <1>3

(* The element a sum takes first, and the sums of all parts of a set.       *)
First(s) == CHOOSE x \in s : TRUE
Parts(f, S, g) ==
    g = [s \in SUBSET S |->
            IF s = {} THEN 0 ELSE f[First(s)] + g[s \ {First(s)}]]

(* What the first element leaves is smaller.                                *)
LEMMA FirstIn ==
    ASSUME NEW s, s # {}
    PROVE  First(s) \in s /\ s \ {First(s)} \subseteq s /\ s \ {First(s)} # s
  BY DEF First

(* A sum looks its value up among the sums of the parts.                    *)
LEMMA SumIs ==
    ASSUME NEW f, NEW S
    PROVE  SumOver(f, S) = (CHOOSE g : Parts(f, S, g))[S]
  BY DEF SumOver, MapThenSumSet, MapThenFoldSet, Parts, First

(* The recursion determines the sums of the parts two sets share, if the    *)
(* summands agree there.                                                    *)
LEMMA PartsAgree ==
    ASSUME NEW S, NEW T, IsFiniteSet(S), NEW e, NEW f, NEW g, NEW h,
           Parts(e, S, g), Parts(f, T, h), \A x \in S \cap T : e[x] = f[x]
    PROVE  \A s \in SUBSET S : s \subseteq T => g[s] = h[s]
<1> DEFINE Bad == {s \in SUBSET S : s \subseteq T /\ g[s] # h[s]}
<1>1. ASSUME Bad # {} PROVE FALSE
  <2>0. Bad \subseteq SUBSET S
    OBVIOUS
  <2> HIDE DEF Bad
  <2>1. PICK x \in Bad : \A y \in Bad : y \subseteq x => y = x
    BY <1>1, <2>0, Smallest
  <2> USE DEF Bad
  <2>2. x # {}
    BY <2>1 DEF Parts
  <2> DEFINE y == x \ {First(x)}
  <2>3. y \subseteq x /\ y # x /\ First(x) \in x
    BY <2>2, FirstIn
  <2>4. g[y] = h[y]
    BY <2>1, <2>3
  <2>5. g[x] = e[First(x)] + g[y] /\ h[x] = f[First(x)] + h[y]
    BY <2>1, <2>2 DEF Parts
  <2>6. e[First(x)] = f[First(x)]
    BY <2>1, <2>3
  <2> QED
    BY <2>1, <2>4, <2>5, <2>6
<1> QED
  BY <1>1

(* With both sums there, the sum of a set is its first summand and the sum  *)
(* of the rest.                                                             *)
LEMMA SumUnfolds ==
    ASSUME NEW f, NEW S, IsFiniteSet(S), S # {},
           \E g : Parts(f, S, g), \E g : Parts(f, S \ {First(S)}, g)
    PROVE  SumOver(f, S) = f[First(S)] + SumOver(f, S \ {First(S)})
<1> DEFINE R == S \ {First(S)}
           g == CHOOSE k : Parts(f, S, k)
           h == CHOOSE k : Parts(f, R, k)
<1>1. Parts(f, S, g) /\ Parts(f, R, h)
  OBVIOUS
<1>2. SumOver(f, S) = g[S] /\ SumOver(f, R) = h[R]
  BY SumIs
<1>3. R \subseteq S
  OBVIOUS
<1> HIDE DEF g, h, R
<1>4. g[R] = h[R]
  BY <1>1, <1>3, PartsAgree
<1>5. g[S] = f[First(S)] + g[R]
  BY <1>1 DEF Parts, R
<1> QED
  BY <1>2, <1>4, <1>5 DEF R

(* The empty sum.                                                           *)
LEMMA SumOfNone ==
    ASSUME NEW f
    PROVE  SumOver(f, {}) = 0
<1>1. Parts(f, {}, [s \in SUBSET {} |-> 0])
  BY DEF Parts
<1> QED
  BY <1>1, SumIs DEF Parts

(* Every finite set has its sums.                                           *)
LEMMA PartsExist ==
    ASSUME NEW f, NEW S, IsFiniteSet(S)
    PROVE  \E g : Parts(f, S, g)
<1> DEFINE Bad == {s \in SUBSET S : ~\E g : Parts(f, s, g)}
<1>1. ASSUME Bad # {} PROVE FALSE
  <2>0. Bad \subseteq SUBSET S
    OBVIOUS
  <2> HIDE DEF Bad
  <2>1. PICK x \in Bad : \A y \in Bad : y \subseteq x => y = x
    BY <1>1, <2>0, Smallest
  <2> USE DEF Bad
  <2>2. \A y \in SUBSET x : y # x => \E g : Parts(f, y, g)
    BY <2>1
  <2> DEFINE g == [s \in SUBSET x |->
                     IF s = {} THEN 0
                     ELSE f[First(s)] + SumOver(f, s \ {First(s)})]
  <2>3. ASSUME NEW t \in SUBSET x, t # x PROVE g[t] = SumOver(f, t)
    <3>1. CASE t = {}
      BY <3>1, SumOfNone
    <3>2. CASE t # {}
      <4>1. t \ {First(t)} \in SUBSET x /\ t \ {First(t)} # x
        BY <2>3
      <4>2. IsFiniteSet(t)
        BY <2>1, FS_Subset
      <4>3. SumOver(f, t) = f[First(t)] + SumOver(f, t \ {First(t)})
        BY <2>2, <2>3, <3>2, <4>1, <4>2, SumUnfolds
      <4> QED
        BY <3>2, <4>3
    <3> QED
      BY <3>1, <3>2
  <2>4. ASSUME NEW s \in SUBSET x, s # {}
        PROVE  g[s] = f[First(s)] + g[s \ {First(s)}]
    <3>1. s \ {First(s)} \in SUBSET x /\ s \ {First(s)} # x
      BY <2>4, FirstIn
    <3>2. g[s \ {First(s)}] = SumOver(f, s \ {First(s)})
      BY <2>3, <3>1
    <3> QED
      BY <2>4, <3>2
  <2>5. Parts(f, x, g)
    BY <2>4 DEF Parts
  <2> QED
    BY <2>1, <2>5
<1> QED
  BY <1>1

(* Only the summands in the set matter.                                     *)
LEMMA SumAgrees ==
    ASSUME NEW e, NEW f, NEW S, IsFiniteSet(S), \A x \in S : e[x] = f[x]
    PROVE  SumOver(e, S) = SumOver(f, S)
<1> DEFINE g == CHOOSE k : Parts(e, S, k)
           h == CHOOSE k : Parts(f, S, k)
<1>1. Parts(e, S, g) /\ Parts(f, S, h)
  BY PartsExist
<1>2. SumOver(e, S) = g[S] /\ SumOver(f, S) = h[S]
  BY SumIs
<1> HIDE DEF g, h
<1>3. \A x \in S \cap S : e[x] = f[x]
  OBVIOUS
<1>4. \A s \in SUBSET S : s \subseteq S => g[s] = h[s]
  BY <1>1, <1>3, PartsAgree
<1> QED
  BY <1>2, <1>4

Summands(f, S) == \A x \in S : f[x] \in Int

(* A sum of integers is one.                                                *)
LEMMA SumType ==
    ASSUME NEW f, NEW S, IsFiniteSet(S), Summands(f, S)
    PROVE  SumOver(f, S) \in Int
<1> DEFINE Bad == {s \in SUBSET S : SumOver(f, s) \notin Int}
<1>1. ASSUME Bad # {} PROVE FALSE
  <2>0. Bad \subseteq SUBSET S
    OBVIOUS
  <2> HIDE DEF Bad
  <2>1. PICK x \in Bad : \A y \in Bad : y \subseteq x => y = x
    BY <1>1, <2>0, Smallest
  <2> USE DEF Bad
  <2>2. x # {}
    <3>1. SumOver(f, x) \notin Int
      BY <2>1
    <3>2. SumOver(f, {}) \in Int
      BY SumOfNone
    <3> QED
      BY <3>1, <3>2, Zenon
  <2>3. SumOver(f, x \ {First(x)}) \in Int
    BY <2>1, <2>2, FirstIn
  <2>4. IsFiniteSet(x) /\ IsFiniteSet(x \ {First(x)})
    BY <2>1, FS_Subset
  <2>5. SumOver(f, x) = f[First(x)] + SumOver(f, x \ {First(x)})
    BY <2>2, <2>4, PartsExist, SumUnfolds
  <2>6. f[First(x)] \in Int
    BY <2>1, <2>2, FirstIn DEF Summands
  <2> QED
    BY <2>1, <2>3, <2>5, <2>6
<1> QED
  BY <1>1

(* The order of a sum does not matter: any element may be added last.       *)
LEMMA SumAdds ==
    ASSUME NEW f, NEW S, IsFiniteSet(S), NEW e, e \notin S, Summands(f, S),
           f[e] \in Int
    PROVE  SumOver(f, S \cup {e}) = SumOver(f, S) + f[e]
<1> DEFINE U == S \cup {e}
           Bad == {s \in SUBSET U :
                     \E d \in U \ s : SumOver(f, s \cup {d}) # SumOver(f, s) + f[d]}
<1>0. IsFiniteSet(U) /\ Summands(f, U)
  BY FS_AddElement DEF Summands
<1> HIDE DEF U
<1>1. ASSUME Bad # {} PROVE FALSE
  <2>0. Bad \subseteq SUBSET U
    OBVIOUS
  <2> HIDE DEF Bad
  <2>1. PICK x \in Bad : \A y \in Bad : y \subseteq x => y = x
    BY <1>0, <1>1, <2>0, Smallest
  <2> USE DEF Bad
  <2>2. PICK d \in U \ x : SumOver(f, x \cup {d}) # SumOver(f, x) + f[d]
    BY <2>1
  <2> DEFINE u == x \cup {d}
             c == First(u)
             r == x \ {c}
  <2>3. /\ x \subseteq U /\ u \subseteq U /\ IsFiniteSet(x) /\ IsFiniteSet(u)
        /\ c \in u /\ c \in U
    BY <1>0, <2>1, <2>2, FS_Subset, FirstIn
  <2>4. SumOver(f, u) = f[c] + SumOver(f, u \ {c})
    <3>1. IsFiniteSet(u \ {c})
      BY <2>3, FS_Subset
    <3> QED
      BY <2>3, <3>1, PartsExist, SumUnfolds
  <2>5. /\ SumOver(f, x) \in Int /\ SumOver(f, r) \in Int
        /\ f[d] \in Int /\ f[c] \in Int
    <3>1. IsFiniteSet(r)
      BY <2>3, FS_Subset
    <3> QED
      BY <1>0, <2>2, <2>3, <3>1, SumType DEF Summands
  <2>6. CASE c = d
    <3>1. u \ {c} = x
      BY <2>2, <2>6
    <3>2. SumOver(f, u \ {c}) = SumOver(f, x)
      BY <3>1, Zenon
    <3> HIDE DEF u, c
    <3> QED
      BY <2>2, <2>4, <2>5, <2>6, <3>2 DEF u
  <2>7. CASE c # d
    <3>1. /\ c \in x /\ u \ {c} = r \cup {d} /\ r \subseteq x /\ r # x
          /\ x = r \cup {c} /\ c \in U \ r /\ d \in U \ r /\ r \in SUBSET U
      BY <2>2, <2>3, <2>7
    <3>2. r \notin Bad
      BY <2>1, <3>1
    <3>3. /\ SumOver(f, r \cup {d}) = SumOver(f, r) + f[d]
          /\ SumOver(f, r \cup {c}) = SumOver(f, r) + f[c]
      BY <3>1, <3>2
    <3>4. /\ SumOver(f, u \ {c}) = SumOver(f, r \cup {d})
          /\ SumOver(f, x) = SumOver(f, r \cup {c})
      BY <3>1, Zenon
    <3> HIDE DEF u, c, r
    <3> QED
      BY <2>2, <2>4, <2>5, <3>3, <3>4 DEF u
  <2> QED
    BY <2>6, <2>7
<1> QED
  BY <1>1 DEF U

(* Sums over disjoint sets add up.                                          *)
LEMMA SumUnion ==
    ASSUME NEW f, NEW S, NEW T, IsFiniteSet(S), IsFiniteSet(T), S \cap T = {},
           Summands(f, S), Summands(f, T)
    PROVE  SumOver(f, S \cup T) = SumOver(f, S) + SumOver(f, T)
<1> DEFINE Bad == {t \in SUBSET T : SumOver(f, S \cup t) # SumOver(f, S) + SumOver(f, t)}
<1>1. ASSUME Bad # {} PROVE FALSE
  <2>0. Bad \subseteq SUBSET T
    OBVIOUS
  <2> HIDE DEF Bad
  <2>1. PICK x \in Bad : \A y \in Bad : y \subseteq x => y = x
    BY <1>1, <2>0, Smallest
  <2> USE DEF Bad
  <2>2. x # {}
    <3>1. SumOver(f, S \cup x) # SumOver(f, S) + SumOver(f, x)
      BY <2>1
    <3>2. SumOver(f, S) = SumOver(f, S) + SumOver(f, {})
      BY SumOfNone, SumType
    <3>3. S \cup {} = S
      OBVIOUS
    <3> QED
      BY <3>1, <3>2, <3>3, Zenon
  <2> DEFINE e == First(x)
             r == x \ {e}
             u == S \cup r
  <2>3. /\ e \in x /\ e \notin r /\ e \notin u /\ x = r \cup {e} /\ S \cup x = u \cup {e}
        /\ r \in SUBSET T /\ r \subseteq x /\ r # x /\ e \in T
    BY <2>1, <2>2, FirstIn
  <2>4. IsFiniteSet(r) /\ IsFiniteSet(u)
    BY <2>3, FS_Subset, FS_Union
  <2>5. Summands(f, r) /\ Summands(f, u) /\ f[e] \in Int
    BY <2>3 DEF Summands
  <2>6. SumOver(f, u) = SumOver(f, S) + SumOver(f, r)
    BY <2>1, <2>3
  <2> HIDE DEF e, r, u
  <2>7. /\ SumOver(f, u \cup {e}) = SumOver(f, u) + f[e]
        /\ SumOver(f, r \cup {e}) = SumOver(f, r) + f[e]
    BY <2>3, <2>4, <2>5, SumAdds
  <2>8. SumOver(f, S) \in Int /\ SumOver(f, r) \in Int
    BY <2>4, <2>5, SumType
  <2>9. SumOver(f, S \cup x) = SumOver(f, u \cup {e}) /\ SumOver(f, x) = SumOver(f, r \cup {e})
    BY <2>3, Zenon
  <2>10. SumOver(f, S \cup x) # SumOver(f, S) + SumOver(f, x)
    BY <2>1
  <2> QED
    BY <2>5, <2>6, <2>7, <2>8, <2>9, <2>10
<1> QED
  BY <1>1

(* Smaller summands make a smaller sum.                                     *)
LEMMA SumGrows ==
    ASSUME NEW e, NEW f, NEW S, IsFiniteSet(S), Summands(e, S), Summands(f, S),
           \A x \in S : e[x] <= f[x]
    PROVE  SumOver(e, S) <= SumOver(f, S)
<1> DEFINE Bad == {s \in SUBSET S : ~(SumOver(e, s) <= SumOver(f, s))}
<1>1. ASSUME Bad # {} PROVE FALSE
  <2>0. Bad \subseteq SUBSET S
    OBVIOUS
  <2> HIDE DEF Bad
  <2>1. PICK x \in Bad : \A y \in Bad : y \subseteq x => y = x
    BY <1>1, <2>0, Smallest
  <2> USE DEF Bad
  <2>2. x # {}
    <3>1. ~(SumOver(e, x) <= SumOver(f, x))
      BY <2>1
    <3>2. SumOver(e, {}) <= SumOver(f, {})
      BY SumOfNone
    <3> QED
      BY <3>1, <3>2, Zenon
  <2> DEFINE d == First(x)
             r == x \ {d}
  <2>3. /\ d \in x /\ d \notin r /\ x = r \cup {d} /\ r \in SUBSET S
        /\ r \subseteq x /\ r # x /\ d \in S
    BY <2>1, <2>2, FirstIn
  <2>4. IsFiniteSet(r) /\ Summands(e, r) /\ Summands(f, r)
    BY <2>3, FS_Subset DEF Summands
  <2>5. SumOver(e, r) <= SumOver(f, r)
    BY <2>1, <2>3
  <2>6. e[d] \in Int /\ f[d] \in Int /\ e[d] <= f[d]
    BY <2>3 DEF Summands
  <2> HIDE DEF d, r
  <2>7. /\ SumOver(e, r \cup {d}) = SumOver(e, r) + e[d]
        /\ SumOver(f, r \cup {d}) = SumOver(f, r) + f[d]
    BY <2>3, <2>4, <2>6, SumAdds
  <2>8. SumOver(e, x) = SumOver(e, r \cup {d}) /\ SumOver(f, x) = SumOver(f, r \cup {d})
    BY <2>3, Zenon
  <2>9. SumOver(e, r) \in Int /\ SumOver(f, r) \in Int
    BY <2>4, SumType
  <2>10. ~(SumOver(e, x) <= SumOver(f, x))
    BY <2>1
  <2> QED
    BY <2>5, <2>6, <2>7, <2>8, <2>9, <2>10
<1> QED
  BY <1>1

(* Zeros sum up to zero.                                                    *)
LEMMA SumOfZeros ==
    ASSUME NEW f, NEW S, IsFiniteSet(S), \A x \in S : f[x] = 0
    PROVE  SumOver(f, S) = 0
<1> DEFINE Bad == {s \in SUBSET S : SumOver(f, s) # 0}
<1>1. ASSUME Bad # {} PROVE FALSE
  <2>0. Bad \subseteq SUBSET S
    OBVIOUS
  <2> HIDE DEF Bad
  <2>1. PICK x \in Bad : \A y \in Bad : y \subseteq x => y = x
    BY <1>1, <2>0, Smallest
  <2> USE DEF Bad
  <2>2. x # {}
    <3>1. SumOver(f, x) # 0
      BY <2>1
    <3> QED
      BY <3>1, SumOfNone, Zenon
  <2>3. SumOver(f, x \ {First(x)}) = 0
    BY <2>1, <2>2, FirstIn
  <2>4. IsFiniteSet(x) /\ IsFiniteSet(x \ {First(x)})
    BY <2>1, FS_Subset
  <2>5. SumOver(f, x) = f[First(x)] + SumOver(f, x \ {First(x)})
    BY <2>2, <2>4, PartsExist, SumUnfolds
  <2>6. f[First(x)] = 0
    BY <2>1, <2>2, FirstIn
  <2> QED
    BY <2>1, <2>3, <2>5, <2>6
<1> QED
  BY <1>1

(* A sum of naturals is one.                                                *)
LEMMA SumNat ==
    ASSUME NEW f, NEW S, IsFiniteSet(S), \A x \in S : f[x] \in Nat
    PROVE  SumOver(f, S) \in Nat
<1> DEFINE zero == [x \in S |-> 0]
<1>1. Summands(f, S) /\ Summands(zero, S)
  BY DEF Summands
<1>2. \A x \in S : zero[x] <= f[x]
  OBVIOUS
<1>3. SumOver(zero, S) <= SumOver(f, S) /\ SumOver(f, S) \in Int /\ SumOver(zero, S) \in Int
  BY <1>1, <1>2, SumGrows, SumType
<1>4. SumOver(zero, S) = 0
  BY SumOfZeros
<1> QED
  BY <1>3, <1>4

(* More naturals make a larger sum.                                         *)
LEMMA SumOfMore ==
    ASSUME NEW f, NEW S, NEW T, IsFiniteSet(T), S \subseteq T,
           \A x \in T : f[x] \in Nat
    PROVE  SumOver(f, S) <= SumOver(f, T)
<1> DEFINE R == T \ S
<1>1. IsFiniteSet(S) /\ IsFiniteSet(R) /\ S \cap R = {} /\ S \cup R = T
  BY FS_Subset
<1>2. Summands(f, S) /\ Summands(f, R) /\ \A x \in R : f[x] \in Nat
  BY DEF Summands
<1> HIDE DEF R
<1>3. SumOver(f, S \cup R) = SumOver(f, S) + SumOver(f, R)
  BY <1>1, <1>2, SumUnion
<1>4. SumOver(f, S) \in Int /\ SumOver(f, R) \in Nat
  BY <1>1, <1>2, SumType, SumNat
<1>5. SumOver(f, T) = SumOver(f, S \cup R)
  BY <1>1, Zenon
<1> QED
  BY <1>3, <1>4, <1>5

(* A sum of one summand.                                                    *)
LEMMA SumOfOne ==
    ASSUME NEW f, NEW x, f[x] \in Int
    PROVE  SumOver(f, {x}) = f[x]
<1>1. SumOver(f, {} \cup {x}) = SumOver(f, {}) + f[x]
  BY FS_EmptySet, SumAdds DEF Summands
<1>2. SumOver(f, {}) = 0
  BY SumOfNone
<1>3. {} \cup {x} = {x}
  OBVIOUS
<1>4. SumOver(f, {x}) = 0 + f[x]
  BY <1>1, <1>2, <1>3, Zenon
<1> QED
  BY <1>4

(* The sum over disjoint parts is the sum of the sums of the parts.          *)
LEMMA SumOfParts ==
    ASSUME NEW f, NEW U, IsFiniteSet(U), Summands(f, U), NEW P, IsFiniteSet(P), NEW part,
           \A x \in P : part[x] \subseteq U,
           \A x, y \in P : x # y => part[x] \cap part[y] = {},
           NEW g, \A x \in P : g[x] = SumOver(f, part[x])
    PROVE  SumOver(f, UNION {part[x] : x \in P}) = SumOver(g, P)
<1> DEFINE All(s) == UNION {part[x] : x \in s}
           Bad == {s \in SUBSET P : SumOver(f, All(s)) # SumOver(g, s)}
<1>1. ASSUME Bad # {} PROVE FALSE
  <2>0. Bad \subseteq SUBSET P
    OBVIOUS
  <2> HIDE DEF Bad
  <2>1. PICK s \in Bad : \A y \in Bad : y \subseteq s => y = s
    BY <1>1, <2>0, Smallest
  <2>2. SumOver(f, All(s)) # SumOver(g, s) /\ s \subseteq P
    BY <2>1 DEF Bad
  <2>3. s # {}
    <3>1. SumOver(f, {}) = 0 /\ SumOver(g, {}) = 0
      BY SumOfNone
    <3>2. All({}) = {}
      OBVIOUS
    <3> QED
      BY <2>2, <3>1, <3>2, Zenon
  <2> DEFINE e == First(s)
             r == s \ {e}
             p == part[e]
  <2>4. /\ e \in P /\ e \notin r /\ s = r \cup {e} /\ r \in SUBSET P
        /\ r \subseteq s /\ r # s
    BY <2>2, <2>3, FirstIn
  <2>5. SumOver(f, All(r)) = SumOver(g, r)
    <3>1. r \notin Bad
      BY <2>1, <2>4
    <3> QED
      BY <2>4, <3>1 DEF Bad
  <2>6. All(s) = All(r) \cup p /\ All(r) \cap p = {} /\ All(r) \subseteq U /\ p \subseteq U
    BY <2>4
  <2>7. g[e] = SumOver(f, p)
    BY <2>4
  <2>8. \A x \in r : g[x] = SumOver(f, part[x]) /\ part[x] \subseteq U
    BY <2>4
  <2> HIDE DEF e, r, p, All
  <2>9. IsFiniteSet(r) /\ IsFiniteSet(All(r)) /\ IsFiniteSet(p)
    BY <2>4, <2>6, FS_Subset
  <2>10. Summands(f, All(r)) /\ Summands(f, p)
    BY <2>6 DEF Summands
  <2>11. SumOver(f, All(r) \cup p) = SumOver(f, All(r)) + SumOver(f, p)
    BY <2>6, <2>9, <2>10, SumUnion
  <2>12. Summands(g, r) /\ g[e] \in Int
    <3>1. ASSUME NEW x \in r PROVE g[x] \in Int
      <4>1. IsFiniteSet(part[x]) /\ Summands(f, part[x])
        BY <2>8, FS_Subset DEF Summands
      <4> QED
        BY <2>8, <4>1, SumType
    <3> QED
      BY <2>7, <2>9, <2>10, <3>1, SumType DEF Summands
  <2>13. SumOver(g, r \cup {e}) = SumOver(g, r) + g[e]
    BY <2>4, <2>9, <2>12, SumAdds
  <2>14. SumOver(f, All(s)) = SumOver(g, s)
    BY <2>4, <2>5, <2>6, <2>7, <2>11, <2>13, Zenon
  <2> QED
    BY <2>2, <2>14
<1> QED
  BY <1>1

(* One summand changes.                                                     *)
LEMMA SumChanges ==
    ASSUME NEW S, IsFiniteSet(S), NEW f, NEW g, Summands(f, S), Summands(g, S),
           NEW r \in S, \A x \in S \ {r} : g[x] = f[x]
    PROVE  SumOver(g, S) = SumOver(f, S) - f[r] + g[r]
<1> DEFINE R == S \ {r}
<1>1. IsFiniteSet(R) /\ r \notin R /\ S = R \cup {r}
  BY FS_Subset
<1>2. /\ Summands(f, R) /\ Summands(g, R) /\ f[r] \in Int /\ g[r] \in Int
      /\ \A x \in R : g[x] = f[x]
  BY DEF Summands
<1> HIDE DEF R
<1>3. SumOver(f, R \cup {r}) = SumOver(f, R) + f[r]
  BY <1>1, <1>2, SumAdds
<1>4. SumOver(g, R \cup {r}) = SumOver(g, R) + g[r]
  BY <1>1, <1>2, SumAdds
<1>5. SumOver(g, R) = SumOver(f, R) /\ SumOver(f, R) \in Int
  BY <1>1, <1>2, SumAgrees, SumType
<1>6. SumOver(f, S) = SumOver(f, R \cup {r}) /\ SumOver(g, S) = SumOver(g, R \cup {r})
  BY <1>1, Zenon
<1> QED
  BY <1>2, <1>3, <1>4, <1>5, <1>6

(* A sum of equal summands is a product.                                    *)
LEMMA SumOfSame ==
    ASSUME NEW f, NEW S, IsFiniteSet(S), NEW n \in Int, \A x \in S : f[x] = n
    PROVE  SumOver(f, S) = n * Cardinality(S)
<1> DEFINE Bad == {s \in SUBSET S : SumOver(f, s) # n * Cardinality(s)}
<1>1. ASSUME Bad # {} PROVE FALSE
  <2>0. Bad \subseteq SUBSET S
    OBVIOUS
  <2> HIDE DEF Bad
  <2>1. PICK x \in Bad : \A y \in Bad : y \subseteq x => y = x
    BY <1>1, <2>0, Smallest
  <2> USE DEF Bad
  <2>2. x # {}
    <3>1. SumOver(f, x) # n * Cardinality(x)
      BY <2>1
    <3>2. SumOver(f, {}) = n * Cardinality({})
      BY SumOfNone, FS_EmptySet
    <3> QED
      BY <3>1, <3>2, Zenon
  <2> DEFINE e == First(x)
             r == x \ {e}
  <2>3. /\ e \in x /\ e \notin r /\ x = r \cup {e} /\ r \in SUBSET S
        /\ r \subseteq x /\ r # x /\ e \in S
    BY <2>1, <2>2, FirstIn
  <2>4. IsFiniteSet(r) /\ Summands(f, r) /\ f[e] = n
    BY <2>3, FS_Subset DEF Summands
  <2>5. SumOver(f, r) = n * Cardinality(r)
    BY <2>1, <2>3
  <2>6. SumOver(f, x) # n * Cardinality(x)
    BY <2>1
  <2> HIDE DEF e, r
  <2>7. SumOver(f, r \cup {e}) = SumOver(f, r) + n
    BY <2>3, <2>4, SumAdds
  <2>8. Cardinality(r \cup {e}) = Cardinality(r) + 1 /\ Cardinality(r) \in Nat
    BY <2>3, <2>4, FS_AddElement, FS_CardinalityType
  <2>9. n * (Cardinality(r) + 1) = n * Cardinality(r) + n
    BY <2>8
  <2>10. SumOver(f, x) = n * Cardinality(x)
    BY <2>3, <2>5, <2>7, <2>8, <2>9, Zenon
  <2> QED
    BY <2>6, <2>10
<1> QED
  BY <1>1

=============================================================================
