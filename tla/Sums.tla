-------------------------------- MODULE Sums --------------------------------
(***************************************************************************)
(* Finite sums.  The modules add up units and amounts with SumFunction and *)
(* SumFunctionOnSet, whose value is that of a recursive function which     *)
(* takes the elements in the order of CHOOSE.  These lemmas say that it is *)
(* what one expects of a sum.  Induction over the subsets of a finite set  *)
(* is by a smallest counterexample: WFMin, unlike the induction theorems   *)
(* of the library, has no operator to instantiate.                         *)
(***************************************************************************)
EXTENDS FiniteSetsExt, FiniteSetTheorems, TLAPS

First(s) == CHOOSE x \in s : TRUE

\* g gives the sum over each subset of S, taking the elements as CHOOSE does.
Table(f, g, S) ==
    \A s \in SUBSET S :
        g[s] = IF s = {} THEN 0 ELSE f[First(s)] + g[s \ {First(s)}]

\* g gives the sum over each subset of S, in whatever order.
Adds(f, g, S) ==
    /\ g[{}] = 0
    /\ \A s \in SUBSET S :
          /\ g[s] \in Int
          /\ \A x \in s : g[s] = f[x] + g[s \ {x}]

\* A set of subsets of a finite set has a smallest member.
LEMMA SmallestSubset ==
    ASSUME NEW S, IsFiniteSet(S), NEW T \in SUBSET (SUBSET S), T # {}
    PROVE  \E x \in T : \A y \in T : y \subseteq x => y = x
  <1>1. FiniteSubsetsOf(S) = SUBSET S
    BY FS_FiniteSubsetsOfFinite
  <1>2. IsWellFoundedOn(StrictSubsetOrdering(S), SUBSET S)
    BY <1>1, FS_StrictSubsetOrderingWellFounded
  <1>3. PICK x \in T : \A y \in T : ~ (<<y, x>> \in StrictSubsetOrdering(S))
    BY <1>2, WFMin
  <1> QED
    BY <1>3 DEF StrictSubsetOrdering

LEMMA FirstIn == ASSUME NEW s, s # {} PROVE First(s) \in s
  BY DEF First

LEMMA TablesAgree ==
    ASSUME NEW f, NEW g, NEW h, NEW S, IsFiniteSet(S), Table(f, g, S), Table(f, h, S)
    PROVE  \A s \in SUBSET S : g[s] = h[s]
  <1> DEFINE B == {s \in SUBSET S : g[s] # h[s]}
  <1> SUFFICES ASSUME B # {} PROVE FALSE
    OBVIOUS
  <1>1. PICK s \in B : \A t \in B : t \subseteq s => t = s
    <2>1. B \in SUBSET (SUBSET S)
      OBVIOUS
    <2> HIDE DEF B
    <2> QED
      BY <2>1, SmallestSubset
  <1>2. s # {}
    BY <1>1 DEF Table
  <1>3. First(s) \in s
    BY <1>2, FirstIn
  <1>4. g[s \ {First(s)}] = h[s \ {First(s)}]
    BY <1>1, <1>3
  <1> QED
    BY <1>1, <1>2, <1>4 DEF Table

LEMMA TableExists ==
    ASSUME NEW f, NEW S, IsFiniteSet(S)
    PROVE  \E g : Table(f, g, S)
  <1> DEFINE B == {T \in SUBSET S : ~ \E g : Table(f, g, T)}
  <1> SUFFICES ASSUME B # {} PROVE FALSE
    OBVIOUS
  <1>1. PICK T \in B : \A U \in B : U \subseteq T => U = T
    <2>1. B \in SUBSET (SUBSET S)
      OBVIOUS
    <2> HIDE DEF B
    <2> QED
      BY <2>1, SmallestSubset
  <1>2. \A s \in SUBSET T : IsFiniteSet(s)
    BY FS_Subset
  <1> DEFINE G(s) == CHOOSE g : Table(f, g, s)
             h == [s \in SUBSET T |-> IF s # T THEN G(s)[s]
                                      ELSE IF T = {} THEN 0
                                      ELSE f[First(T)] + G(T \ {First(T)})[T \ {First(T)}]]
  <1>3. ASSUME NEW s \in SUBSET T, s # T
        PROVE  Table(f, G(s), s)
    <2>1. \E g : Table(f, g, s)
      BY <1>1, <1>3
    <2> QED
      BY <2>1
  <1>4. ASSUME NEW s \in SUBSET T, s # T, s # {}
        PROVE  G(s)[s] = f[First(s)] + G(s \ {First(s)})[s \ {First(s)}]
    <2> DEFINE r == s \ {First(s)}
    <2>1. First(s) \in s /\ r # T /\ r \in SUBSET T /\ r \in SUBSET s
      BY <1>4, FirstIn
    <2>2. Table(f, G(s), r) /\ Table(f, G(r), r)
      BY <1>3, <1>4, <2>1 DEF Table
    <2>3. G(s)[r] = G(r)[r]
      BY <1>2, <2>1, <2>2, TablesAgree
    <2>4. Table(f, G(s), s)
      BY <1>3, <1>4
    <2> HIDE DEF G
    <2> QED
      BY <1>4, <2>3, <2>4 DEF Table
  <1>5. ASSUME {} # T PROVE G({})[{}] = 0
    BY <1>3, <1>5 DEF Table
  <1>6. ASSUME NEW s \in SUBSET T
        PROVE  h[s] = IF s = {} THEN 0 ELSE f[First(s)] + h[s \ {First(s)}]
    <2> HIDE DEF G
    <2>1. s # {} => First(s) \in s
      BY FirstIn
    <2>2. s # {} => h[s \ {First(s)}] = G(s \ {First(s)})[s \ {First(s)}]
      BY <2>1
    <2> QED
      BY <1>4, <1>5, <2>1, <2>2
  <1> HIDE DEF h
  <1>7. Table(f, h, T)
    BY <1>6 DEF Table
  <1> QED
    BY <1>1, <1>7

\* SumFunctionOnSet over a finite set is the last entry of such a table.
LEMMA SumTable ==
    ASSUME NEW f, NEW S, IsFiniteSet(S)
    PROVE  \E g : Table(f, g, S) /\ SumFunctionOnSet(f, S) = g[S]
  <1>1. PICK h : Table(f, h, S)
    BY TableExists
  <1> DEFINE Entry(g, s) == IF s = {} THEN 0 ELSE f[First(s)] + g[s \ {First(s)}]
             k == [s \in SUBSET S |-> h[s]]
             g == CHOOSE e : e = [s \in SUBSET S |-> Entry(e, s)]
  <1>2. k = [s \in SUBSET S |-> Entry(k, s)]
    BY <1>1, FirstIn DEF Table
  <1> HIDE DEF k
  <1>3. g = [s \in SUBSET S |-> Entry(g, s)]
    BY <1>2
  <1>4. SumFunctionOnSet(f, S) = g[S]
    BY DEF SumFunctionOnSet, FoldFunctionOnSet, MapThenFoldSet, First
  <1> HIDE DEF g
  <1>5. Table(f, g, S)
    BY <1>3 DEF Table
  <1> QED
    BY <1>4, <1>5

\* The order in which the elements are taken does not matter.
LEMMA AnyOrder ==
    ASSUME NEW f, NEW g, NEW S, IsFiniteSet(S), Table(f, g, S), \A x \in S : f[x] \in Int
    PROVE  Adds(f, g, S)
  <1> DEFINE Good(s) == g[s] \in Int /\ \A x \in s : g[s] = f[x] + g[s \ {x}]
             B == {s \in SUBSET S : ~ Good(s)}
  <1>1. g[{}] = 0
    BY DEF Table
  <1>2. SUFFICES ASSUME B # {} PROVE FALSE
    BY <1>1 DEF Adds
  <1>3. PICK s \in B : \A t \in B : t \subseteq s => t = s
    <2>1. B \in SUBSET (SUBSET S)
      OBVIOUS
    <2> HIDE DEF B
    <2> QED
      BY <1>2, <2>1, SmallestSubset
  <1>4. \A t \in SUBSET s : t # s => Good(t)
    BY <1>3
  <1>5. s # {}
    <2>1. ~ Good(s)
      BY <1>3
    <2>2. CASE s = {}
      <3>1. g[s] = 0
        BY <1>1, <2>2
      <3> QED
        BY <2>1, <2>2, <3>1
    <2> QED
      BY <2>2
  <1> DEFINE c == First(s)
  <1>6. c \in s
    BY <1>5, FirstIn
  <1> HIDE DEF c
  <1>7. g[s] = f[c] + g[s \ {c}] /\ g[s \ {c}] \in Int /\ f[c] \in Int
    BY <1>3, <1>4, <1>5, <1>6 DEF Table, c
  <1>8. ASSUME NEW x \in s
        PROVE  g[s] = f[x] + g[s \ {x}]
    <2>1. CASE x = c
      BY <1>7, <2>1
    <2>2. CASE x # c
      <3> DEFINE r == (s \ {c}) \ {x}
      <3>1. g[s \ {c}] = f[x] + g[r]
        BY <1>4, <1>6, <2>2
      <3>2. r = (s \ {x}) \ {c}
        OBVIOUS
      <3>3. g[s \ {x}] = f[c] + g[r]
        BY <1>4, <1>6, <2>2, <3>2
      <3>4. g[r] \in Int /\ f[x] \in Int
        BY <1>3, <1>4, <1>6
      <3> HIDE DEF r
      <3> QED
        BY <1>7, <3>1, <3>3, <3>4
    <2> QED
      BY <2>1, <2>2
  <1>9. Good(s)
    <2>1. g[s] \in Int
      BY <1>7
    <2> QED
      BY <2>1, <1>8
  <1> QED
    BY <1>3, <1>9

LEMMA SumAdds ==
    ASSUME NEW f, NEW S, IsFiniteSet(S), \A x \in S : f[x] \in Int
    PROVE  \E g : Adds(f, g, S) /\ SumFunctionOnSet(f, S) = g[S]
  BY SumTable, AnyOrder

LEMMA SumsAt ==
    ASSUME NEW f, NEW g, NEW S, Adds(f, g, S), NEW s \in SUBSET S
    PROVE  /\ s = {} => g[s] = 0
           /\ g[s] \in Int
           /\ \A x \in s : g[s] = f[x] + g[s \ {x}] /\ g[s \ {x}] \in Int
  <1>1. \A x \in s : s \ {x} \in SUBSET S
    OBVIOUS
  <1> QED
    BY <1>1 DEF Adds

LEMMA SumsDown ==
    ASSUME NEW f, NEW g, NEW S, NEW T \in SUBSET S, Adds(f, g, S)
    PROVE  Adds(f, g, T)
  BY DEF Adds

\* Two functions that agree on a set have one sum over it.
LEMMA SumsAgree ==
    ASSUME NEW f, NEW h, NEW g, NEW k, NEW S, IsFiniteSet(S),
           Adds(f, g, S), Adds(h, k, S), \A x \in S : f[x] = h[x]
    PROVE  g[S] = k[S]
  <1> DEFINE B == {s \in SUBSET S : g[s] # k[s]}
  <1> SUFFICES ASSUME B # {} PROVE FALSE
    OBVIOUS
  <1>1. PICK s \in B : \A t \in B : t \subseteq s => t = s
    <2>1. B \in SUBSET (SUBSET S)
      OBVIOUS
    <2> HIDE DEF B
    <2> QED
      BY <2>1, SmallestSubset
  <1>2. s \in SUBSET S /\ g[s] # k[s]
    BY <1>1
  <1>3. s # {}
    BY <1>2, SumsAt
  <1>4. PICK x \in s : TRUE
    BY <1>3
  <1>5. g[s \ {x}] = k[s \ {x}]
    <2>1. s \ {x} \in SUBSET S /\ s \ {x} \subseteq s /\ s \ {x} # s
      BY <1>2
    <2> QED
      BY <1>1, <2>1
  <1>6. g[s] = f[x] + g[s \ {x}] /\ k[s] = h[x] + k[s \ {x}] /\ f[x] = h[x]
    BY <1>2, SumsAt
  <1> QED
    BY <1>2, <1>5, <1>6

-----------------------------------------------------------------------------
(* What the other modules use.                                             *)

LEMMA EmptySum == ASSUME NEW f PROVE SumFunctionOnSet(f, {}) = 0
  <1>1. IsFiniteSet({})
    BY FS_EmptySet
  <1> QED
    BY <1>1, SumTable DEF Table

LEMMA EqualSums ==
    ASSUME NEW f, NEW h, NEW S, IsFiniteSet(S), \A x \in S : f[x] \in Int,
           \A x \in S : f[x] = h[x]
    PROVE  SumFunctionOnSet(f, S) = SumFunctionOnSet(h, S)
  BY SumAdds, SumsAgree

\* An element apart.
LEMMA SumWithout ==
    ASSUME NEW f, NEW S, IsFiniteSet(S), \A x \in S : f[x] \in Int, NEW x \in S
    PROVE  /\ SumFunctionOnSet(f, S) = f[x] + SumFunctionOnSet(f, S \ {x})
           /\ SumFunctionOnSet(f, S \ {x}) \in Int
  <1>1. PICK g : Adds(f, g, S) /\ SumFunctionOnSet(f, S) = g[S]
    BY SumAdds
  <1>2. IsFiniteSet(S \ {x})
    BY FS_Subset
  <1>3. PICK k : Adds(f, k, S \ {x}) /\ SumFunctionOnSet(f, S \ {x}) = k[S \ {x}]
    BY <1>2, SumAdds
  <1>4. Adds(f, g, S \ {x})
    BY <1>1, SumsDown
  <1>5. g[S \ {x}] = k[S \ {x}]
    BY <1>2, <1>3, <1>4, SumsAgree
  <1>6. g[S] = f[x] + g[S \ {x}] /\ g[S \ {x}] \in Int
    BY <1>1, SumsAt
  <1> QED
    BY <1>1, <1>3, <1>5, <1>6

\* One value changes.
LEMMA SumChanged ==
    ASSUME NEW f, NEW h, NEW S, IsFiniteSet(S), NEW x \in S,
           \A y \in S : f[y] \in Int, \A y \in S : h[y] \in Int,
           \A y \in S \ {x} : h[y] = f[y]
    PROVE  SumFunctionOnSet(h, S) = SumFunctionOnSet(f, S) + (h[x] - f[x])
  <1>1. IsFiniteSet(S \ {x})
    BY FS_Subset
  <1>2. SumFunctionOnSet(h, S \ {x}) = SumFunctionOnSet(f, S \ {x})
    BY <1>1, EqualSums
  <1>3. /\ SumFunctionOnSet(f, S) = f[x] + SumFunctionOnSet(f, S \ {x})
        /\ SumFunctionOnSet(f, S \ {x}) \in Int
    BY SumWithout
  <1>4. SumFunctionOnSet(h, S) = h[x] + SumFunctionOnSet(h, S \ {x})
    BY SumWithout
  <1> QED
    BY <1>2, <1>3, <1>4

LEMMA SumInt ==
    ASSUME NEW f, NEW S, IsFiniteSet(S), \A x \in S : f[x] \in Int
    PROVE  SumFunctionOnSet(f, S) \in Int
  <1>1. PICK g : Adds(f, g, S) /\ SumFunctionOnSet(f, S) = g[S]
    BY SumAdds
  <1> QED
    BY <1>1, SumsAt

LEMMA SumNat ==
    ASSUME NEW f, NEW S, IsFiniteSet(S), \A x \in S : f[x] \in Nat
    PROVE  SumFunctionOnSet(f, S) \in Nat
  <1> DEFINE B == {s \in SUBSET S : SumFunctionOnSet(f, s) \notin Nat}
  <1> SUFFICES ASSUME B # {} PROVE FALSE
    OBVIOUS
  <1>1. PICK s \in B : \A t \in B : t \subseteq s => t = s
    <2>1. B \in SUBSET (SUBSET S)
      OBVIOUS
    <2> HIDE DEF B
    <2> QED
      BY <2>1, SmallestSubset
  <1>2. PICK x \in s : TRUE
    <2>1. CASE s = {}
      <3>1. SumFunctionOnSet(f, s) = 0
        BY <2>1, EmptySum
      <3> QED
        BY <1>1, <3>1
    <2> QED
      BY <2>1
  <1>3. SumFunctionOnSet(f, s \ {x}) \in Nat
    BY <1>1
  <1>4. SumFunctionOnSet(f, s) = f[x] + SumFunctionOnSet(f, s \ {x})
    <2>1. IsFiniteSet(s)
      BY FS_Subset
    <2> QED
      BY <2>1, SumWithout
  <1> QED
    BY <1>1, <1>3, <1>4

LEMMA ZeroSum ==
    ASSUME NEW f, NEW S, IsFiniteSet(S), \A x \in S : f[x] = 0
    PROVE  SumFunctionOnSet(f, S) = 0
  <1> DEFINE B == {s \in SUBSET S : SumFunctionOnSet(f, s) # 0}
  <1> SUFFICES ASSUME B # {} PROVE FALSE
    OBVIOUS
  <1>1. PICK s \in B : \A t \in B : t \subseteq s => t = s
    <2>1. B \in SUBSET (SUBSET S)
      OBVIOUS
    <2> HIDE DEF B
    <2> QED
      BY <2>1, SmallestSubset
  <1>2. PICK x \in s : TRUE
    BY <1>1, EmptySum
  <1>3. SumFunctionOnSet(f, s \ {x}) = 0
    BY <1>1
  <1>4. SumFunctionOnSet(f, s) = f[x] + SumFunctionOnSet(f, s \ {x})
    <2>1. IsFiniteSet(s)
      BY FS_Subset
    <2> QED
      BY <2>1, SumWithout
  <1> QED
    BY <1>1, <1>3, <1>4

\* Sums add.
LEMMA SumOfSums ==
    ASSUME NEW f, NEW h, NEW k, NEW S, IsFiniteSet(S),
           \A x \in S : f[x] \in Int /\ h[x] \in Int /\ k[x] = f[x] + h[x]
    PROVE  SumFunctionOnSet(k, S) = SumFunctionOnSet(f, S) + SumFunctionOnSet(h, S)
  <1> DEFINE Both(s) == SumFunctionOnSet(f, s) + SumFunctionOnSet(h, s)
             B == {s \in SUBSET S : SumFunctionOnSet(k, s) # Both(s)}
  <1> SUFFICES ASSUME B # {} PROVE FALSE
    OBVIOUS
  <1>1. PICK s \in B : \A t \in B : t \subseteq s => t = s
    <2>1. B \in SUBSET (SUBSET S)
      OBVIOUS
    <2> HIDE DEF B
    <2> QED
      BY <2>1, SmallestSubset
  <1>2. PICK x \in s : TRUE
    <2>1. CASE s = {}
      <3>1. /\ SumFunctionOnSet(f, s) = 0
            /\ SumFunctionOnSet(h, s) = 0
            /\ SumFunctionOnSet(k, s) = 0
        BY <2>1, EmptySum
      <3> QED
        BY <1>1, <3>1
    <2> QED
      BY <2>1
  <1>3. SumFunctionOnSet(k, s \ {x}) = Both(s \ {x})
    BY <1>1
  <1>4. IsFiniteSet(s)
    BY FS_Subset
  <1>5. /\ SumFunctionOnSet(f, s) = f[x] + SumFunctionOnSet(f, s \ {x})
        /\ SumFunctionOnSet(f, s \ {x}) \in Int
    BY <1>4, SumWithout
  <1>6. /\ SumFunctionOnSet(h, s) = h[x] + SumFunctionOnSet(h, s \ {x})
        /\ SumFunctionOnSet(h, s \ {x}) \in Int
    BY <1>4, SumWithout
  <1>7. SumFunctionOnSet(k, s) = k[x] + SumFunctionOnSet(k, s \ {x})
    BY <1>4, SumWithout
  <1> QED
    BY <1>1, <1>3, <1>5, <1>6, <1>7
=============================================================================
