--------------------------------- MODULE Sums ---------------------------------
(***************************************************************************)
(* Sums over finite sets, as MapThenSumSet and SumFunction take them.      *)
(*                                                                         *)
(* MapThenSumSet is a recursive function that takes the elements in an     *)
(* order of its own, and what it adds up does not depend on it.  An        *)
(* argument by induction takes a least number or a smallest set that       *)
(* fails.                                                                  *)
(***************************************************************************)
EXTENDS Integers, FiniteSetsExt, Functions, FiniteSetTheorems, WellFoundedInduction, TLAPS

\* A set of numbers has a least one.
LEMMA LeastNumber ==
  ASSUME NEW B \in SUBSET Nat, B # {}
  PROVE  \E n \in B : \A m \in B : n <= m
<1> DEFINE R == OpToRel(<, Nat)
<1>1. \E n \in B : \A m \in B : <<m, n>> \notin R
  BY NatLessThanWellFounded, WFMin, Zenon
<1>2. \A n, m \in Nat : <<m, n>> \in R <=> m < n  BY DEF OpToRel
<1> HIDE DEF R
<1>3. PICK n \in B : \A m \in B : <<m, n>> \notin R  BY <1>1
<1>4. \A m \in B : ~(m < n)  BY Zenon, <1>2, <1>3
<1> QED BY <1>3, <1>4

\* Of a set of subsets of a finite set, one has no strict subset among them.
LEMMA SmallestSet ==
  ASSUME NEW S, IsFiniteSet(S), NEW D \in SUBSET SUBSET S, D # {}
  PROVE  \E s \in D : \A r \in SUBSET s : r # s => r \notin D
<1> DEFINE B == {Cardinality(s) : s \in D}
<1>1. \A s \in SUBSET S : IsFiniteSet(s) /\ Cardinality(s) \in Nat
  BY FS_Subset, FS_CardinalityType
<1>2. B \in SUBSET Nat /\ B # {}  BY <1>1
<1>3. PICK n \in B : \A m \in B : n <= m  BY <1>2, LeastNumber, Zenon
<1>4. PICK s \in D : Cardinality(s) = n  BY <1>3
<1>5. ASSUME NEW r \in SUBSET s, r # s PROVE r \notin D
  <2>1. Cardinality(r) <= Cardinality(s) /\ Cardinality(r) # Cardinality(s)
    BY <1>1, <1>5, FS_Subset
  <2>2. Cardinality(r) \in Nat /\ Cardinality(s) \in Nat  BY <1>1
  <2>3. SUFFICES ASSUME r \in D PROVE FALSE  OBVIOUS
  <2>4. Cardinality(r) \in B  BY <2>3
  <2> HIDE DEF B
  <2> QED BY <1>3, <1>4, <2>1, <2>2, <2>4
<1> QED BY <1>5

-----------------------------------------------------------------------------
(* What MapThenSumSet adds up.                                             *)

Chosen(s) == CHOOSE x \in s : TRUE
Total(g, S) == MapThenSumSet(LAMBDA t : g[t], S)

\* f adds up g over every subset of S, in the order of MapThenSumSet.
Adds(f, g, S) ==
  f = [s \in SUBSET S |-> IF s = {} THEN 0 ELSE g[Chosen(s)] + f[s \ {Chosen(s)}]]

\* Total, by the choice its definition makes.
LEMMA TotalIsChosen ==
  ASSUME NEW g, NEW S
  PROVE  Total(g, S) = (CHOOSE f : Adds(f, g, S))[S]
BY DEF Total, MapThenSumSet, MapThenFoldSet, Adds, Chosen

\* The chosen element is an element.
LEMMA ChosenIn == \A s : s # {} => Chosen(s) \in s
BY DEF Chosen

\* There is such an f: there is one for the subsets of up to n elements.
LEMMA AddsExists ==
  ASSUME NEW S, IsFiniteSet(S), NEW g, \A t \in S : g[t] \in Int
  PROVE  \E f \in [SUBSET S -> Int] : Adds(f, g, S)
<1> DEFINE Rest(f, s) == IF s = {} THEN 0 ELSE g[Chosen(s)] + f[s \ {Chosen(s)}]
           Upto(f, n) == \A s \in SUBSET S : Cardinality(s) <= n => f[s] = Rest(f, s)
           B == {n \in Nat : ~ \E f \in [SUBSET S -> Int] : Upto(f, n)}
<1>1. \A s \in SUBSET S : /\ IsFiniteSet(s) /\ Cardinality(s) \in Nat
                          /\ Cardinality(s) <= Cardinality(S)
                          /\ Cardinality(s) = 0 => s = {}
  BY FS_Subset, FS_CardinalityType, FS_EmptySet
<1>2. \A s \in SUBSET S : s # {} =>
        /\ Chosen(s) \in S /\ s \ {Chosen(s)} \in SUBSET S
        /\ Cardinality(s \ {Chosen(s)}) = Cardinality(s) - 1
  BY <1>1, ChosenIn, FS_RemoveElement
<1>3. \A f \in [SUBSET S -> Int], s \in SUBSET S : Rest(f, s) \in Int
  <2> SUFFICES ASSUME NEW f \in [SUBSET S -> Int], NEW s \in SUBSET S
               PROVE  Rest(f, s) \in Int
    OBVIOUS
  <2>1. CASE s = {}  BY <2>1
  <2>2. CASE s # {}
    <3>1. g[Chosen(s)] \in Int  BY <1>2, <2>2
    <3>2. f[s \ {Chosen(s)}] \in Int  BY <1>2, <2>2
    <3> QED BY <2>2, <3>1, <3>2
  <2> QED BY <2>1, <2>2
<1>4. B = {}
  <2> SUFFICES ASSUME B # {} PROVE FALSE
    OBVIOUS
  <2>1. PICK n \in B : \A m \in B : n <= m
    <3>1. B \in SUBSET Nat  OBVIOUS
    <3> HIDE DEF B
    <3> QED BY <3>1, LeastNumber
  <2>2. n \in Nat /\ n # 0
    <3> DEFINE zero == [s \in SUBSET S |-> 0]
    <3>1. zero \in [SUBSET S -> Int] /\ Upto(zero, 0)  BY <1>1
    <3> QED BY <3>1
  <2>3. n - 1 \in Nat /\ n - 1 \notin B
    <3> HIDE DEF B
    <3> QED BY <2>1, <2>2
  <2>4. PICK f \in [SUBSET S -> Int] : Upto(f, n - 1)  BY <2>3
  <2> HIDE DEF Rest
  <2> DEFINE h == [s \in SUBSET S |-> Rest(f, s)]
  <2>5. h \in [SUBSET S -> Int]  BY <1>3
  <2>6. Upto(h, n)
    <3> SUFFICES ASSUME NEW s \in SUBSET S, Cardinality(s) <= n PROVE h[s] = Rest(h, s)
      OBVIOUS
    <3>1. CASE s = {}  BY <3>1 DEF Rest
    <3>2. CASE s # {}
      <4>1. /\ s \ {Chosen(s)} \in SUBSET S
            /\ Cardinality(s \ {Chosen(s)}) <= n - 1
        BY <1>1, <1>2, <2>2, <3>2
      <4>2. h[s \ {Chosen(s)}] = f[s \ {Chosen(s)}]  BY <2>4, <4>1
      <4> QED BY <3>2, <4>2 DEF Rest
    <3> QED BY <3>1, <3>2
  <2> HIDE DEF h, Upto
  <2> QED BY <2>1, <2>5, <2>6
<1>5. PICK f \in [SUBSET S -> Int] : Upto(f, Cardinality(S))
  <2>1. Cardinality(S) \in Nat  BY <1>1
  <2> QED BY <1>4, <2>1
<1>6. \A s \in SUBSET S : f[s] = Rest(f, s)  BY <1>1, <1>5
<1>7. f = [s \in SUBSET S |-> Rest(f, s)]  BY <1>6
<1> QED BY <1>7 DEF Adds

\* Two that add up the same over T agree about T.
LEMMA AddsAgree ==
  ASSUME NEW S, IsFiniteSet(S), NEW T \in SUBSET S, NEW f, NEW g, NEW h, NEW k,
         Adds(f, g, S), Adds(h, k, T), \A t \in T : g[t] = k[t]
  PROVE  f[T] = h[T]
<1> DEFINE D == {s \in SUBSET T : f[s] # h[s]}
<1>1. D = {}
  <2> SUFFICES ASSUME D # {} PROVE FALSE
    OBVIOUS
  <2>1. IsFiniteSet(T) /\ D \in SUBSET SUBSET T  BY FS_Subset
  <2>2. PICK s \in D : \A r \in SUBSET s : r # s => r \notin D
    <3> HIDE DEF D
    <3> QED BY <2>1, SmallestSet
  <2>3. /\ s \in SUBSET T /\ s \in SUBSET S
        /\ f[s] = IF s = {} THEN 0 ELSE g[Chosen(s)] + f[s \ {Chosen(s)}]
        /\ h[s] = IF s = {} THEN 0 ELSE k[Chosen(s)] + h[s \ {Chosen(s)}]
    BY DEF Adds
  <2>4. s # {}  BY <2>2, <2>3
  <2>5. Chosen(s) \in s  BY <2>4, ChosenIn
  <2>6. f[s \ {Chosen(s)}] = h[s \ {Chosen(s)}]  BY <2>2, <2>3, <2>5
  <2> QED BY <2>2, <2>3, <2>4, <2>5, <2>6
<1> QED BY <1>1

\* What the elements of S add, one at a time, in the order of MapThenSumSet.
LEMMA TotalStep ==
  ASSUME NEW S, IsFiniteSet(S), NEW g, \A t \in S : g[t] \in Int
  PROVE  /\ Total(g, S) \in Int
         /\ S = {} => Total(g, S) = 0
         /\ S # {} => Total(g, S) = g[Chosen(S)] + Total(g, S \ {Chosen(S)})
<1> DEFINE R == S \ {Chosen(S)}
<1>1. PICK f \in [SUBSET S -> Int] : Adds(f, g, S)  BY AddsExists
<1>2. IsFiniteSet(R) /\ R \in SUBSET S  BY FS_Subset
<1>3. PICK h \in [SUBSET R -> Int] : Adds(h, g, R)  BY <1>2, AddsExists
<1>4. Total(g, S) = f[S]
  <2> DEFINE c == CHOOSE e : Adds(e, g, S)
  <2>1. Adds(c, g, S)  BY <1>1
  <2>2. Total(g, S) = c[S]  BY TotalIsChosen
  <2> HIDE DEF c
  <2>3. c[S] = f[S]  BY <1>1, <2>1, AddsAgree
  <2> QED BY <2>2, <2>3
<1>5. Total(g, R) = h[R]
  <2> DEFINE c == CHOOSE e : Adds(e, g, R)
  <2>1. Adds(c, g, R)  BY <1>3
  <2>2. Total(g, R) = c[R]  BY TotalIsChosen
  <2> HIDE DEF c, R
  <2>3. c[R] = h[R]  BY <1>2, <1>3, <2>1, AddsAgree
  <2> QED BY <2>2, <2>3
<1>6. f[R] = h[R]
  <2> HIDE DEF R
  <2> QED BY <1>1, <1>2, <1>3, AddsAgree
<1>7. f[S] = IF S = {} THEN 0 ELSE g[Chosen(S)] + f[R]  BY <1>1 DEF Adds
<1> HIDE DEF R
<1>8. f[S] \in Int  OBVIOUS
<1> QED BY <1>4, <1>5, <1>6, <1>7, <1>8 DEF R

\* ... and in any other order.
LEMMA TotalAny ==
  ASSUME NEW S, IsFiniteSet(S), NEW g, \A t \in S : g[t] \in Int, NEW y \in S
  PROVE  Total(g, S) = g[y] + Total(g, S \ {y})
<1> DEFINE Holds(s) == \A x \in s : Total(g, s) = g[x] + Total(g, s \ {x})
           D == {s \in SUBSET S : ~Holds(s)}
<1>1. \A s \in SUBSET S : /\ IsFiniteSet(s) /\ Total(g, s) \in Int
                          /\ s # {} => Total(g, s) = g[Chosen(s)] + Total(g, s \ {Chosen(s)})
  <2> SUFFICES ASSUME NEW s \in SUBSET S
               PROVE  /\ IsFiniteSet(s) /\ Total(g, s) \in Int
                      /\ s # {} => Total(g, s) = g[Chosen(s)] + Total(g, s \ {Chosen(s)})
    OBVIOUS
  <2>1. IsFiniteSet(s)  BY FS_Subset
  <2>2. \A t \in s : g[t] \in Int  OBVIOUS
  <2> QED BY <2>1, <2>2, TotalStep
<1>2. D = {}
  <2> SUFFICES ASSUME D # {} PROVE FALSE
    OBVIOUS
  <2>1. PICK s \in D : \A r \in SUBSET s : r # s => r \notin D
    <3>1. D \in SUBSET SUBSET S  OBVIOUS
    <3> HIDE DEF D
    <3> QED BY <3>1, SmallestSet
  <2>2. PICK x \in s : Total(g, s) # g[x] + Total(g, s \ {x})  OBVIOUS
  <2> DEFINE c == Chosen(s)
  <2>3. /\ s \in SUBSET S /\ c \in s /\ c # x
        /\ Total(g, s) = g[c] + Total(g, s \ {c})
    BY <1>1, <2>2, ChosenIn
  <2>4. Holds(s \ {c}) /\ Holds(s \ {x})  BY <2>1, <2>3
  <2> HIDE DEF c, D
  <2>5. x \in s \ {c} /\ c \in s \ {x}  BY <2>3
  <2> DEFINE u == (s \ {c}) \ {x}
             v == (s \ {x}) \ {c}
             m == Total(g, u)
             sc == Total(g, s \ {c})
             sx == Total(g, s \ {x})
  <2>6. sc = g[x] + m  BY <2>4, <2>5
  <2>7. sx = g[c] + Total(g, v)  BY <2>4, <2>5
  <2>8. u = v  OBVIOUS
  <2>9. g[x] \in Int /\ g[c] \in Int /\ m \in Int
    <3>1. u \in SUBSET S  BY <2>3
    <3> HIDE DEF u
    <3> QED BY <1>1, <2>3, <3>1
  <2>10. Total(g, s) # g[x] + sx /\ Total(g, s) = g[c] + sc  BY <2>2, <2>3
  <2> HIDE DEF u, v
  <2>11. sx = g[c] + m  BY <2>7, <2>8
  <2> HIDE DEF m, sc, sx
  <2> QED BY <2>6, <2>9, <2>10, <2>11
<1> QED BY <1>2

\* Functions that agree on S have the same total.
LEMMA TotalSame ==
  ASSUME NEW S, IsFiniteSet(S), NEW g, NEW k, \A t \in S : g[t] \in Int,
         \A t \in S : g[t] = k[t]
  PROVE  Total(g, S) = Total(k, S)
<1>1. \A t \in S : k[t] \in Int  OBVIOUS
<1>2. PICK f : Adds(f, g, S)  BY AddsExists
<1>3. PICK h : Adds(h, k, S)  BY <1>1, AddsExists
<1> DEFINE c == CHOOSE e : Adds(e, g, S)
           d == CHOOSE e : Adds(e, k, S)
<1>4. Adds(c, g, S)  BY <1>2
<1>5. Adds(d, k, S)  BY <1>3
<1>6. Total(g, S) = c[S] /\ Total(k, S) = d[S]  BY TotalIsChosen
<1> HIDE DEF c, d
<1>7. S \in SUBSET S  OBVIOUS
<1>8. c[S] = d[S]  BY <1>4, <1>5, <1>7, AddsAgree
<1> QED BY <1>6, <1>8

\* The total of a pointwise sum is the sum of the totals.
LEMMA TotalPlus ==
  ASSUME NEW S, IsFiniteSet(S), NEW f, NEW g, NEW h,
         \A t \in S : g[t] \in Int /\ h[t] \in Int /\ f[t] = g[t] + h[t]
  PROVE  Total(f, S) = Total(g, S) + Total(h, S)
<1> DEFINE D == {s \in SUBSET S : Total(f, s) # Total(g, s) + Total(h, s)}
<1>1. \A t \in S : f[t] \in Int  OBVIOUS
<1>2. \A s \in SUBSET S : /\ Total(f, s) \in Int
                          /\ s = {} => Total(f, s) = 0
                          /\ s # {} => Total(f, s) = f[Chosen(s)] + Total(f, s \ {Chosen(s)})
  BY <1>1, FS_Subset, TotalStep
<1>3. \A s \in SUBSET S : /\ Total(g, s) \in Int
                          /\ s = {} => Total(g, s) = 0
                          /\ s # {} => Total(g, s) = g[Chosen(s)] + Total(g, s \ {Chosen(s)})
  BY FS_Subset, TotalStep
<1>4. \A s \in SUBSET S : /\ Total(h, s) \in Int
                          /\ s = {} => Total(h, s) = 0
                          /\ s # {} => Total(h, s) = h[Chosen(s)] + Total(h, s \ {Chosen(s)})
  BY FS_Subset, TotalStep
<1>5. D = {}
  <2> SUFFICES ASSUME D # {} PROVE FALSE
    OBVIOUS
  <2>1. PICK s \in D : \A r \in SUBSET s : r # s => r \notin D
    <3>1. D \in SUBSET SUBSET S  OBVIOUS
    <3> HIDE DEF D
    <3> QED BY <3>1, SmallestSet
  <2>2. s \in SUBSET S /\ Total(f, s) # Total(g, s) + Total(h, s)  OBVIOUS
  <2>3. s # {}
    <3> HIDE DEF D
    <3> QED BY <1>2, <1>3, <1>4, <2>2
  <2> DEFINE c == Chosen(s)
             r == s \ {c}
  <2>4. c \in S /\ r \in SUBSET S /\ r \in SUBSET s /\ r # s  BY <2>2, <2>3, ChosenIn
  <2>5. Total(f, r) = Total(g, r) + Total(h, r)  BY <2>1, <2>4
  <2>6. /\ Total(f, s) = f[c] + Total(f, r)
        /\ Total(g, s) = g[c] + Total(g, r)
        /\ Total(h, s) = h[c] + Total(h, r)
    <3> HIDE DEF D
    <3> QED BY <1>2, <1>3, <1>4, <2>2, <2>3
  <2>7. g[c] \in Int /\ h[c] \in Int /\ f[c] = g[c] + h[c]  BY <2>4
  <2>8. Total(g, r) \in Int /\ Total(h, r) \in Int
    <3> HIDE DEF D, r
    <3> QED BY <1>3, <1>4, <2>4
  <2> HIDE DEF D, c, r
  <2> QED BY <2>2, <2>5, <2>6, <2>7, <2>8
<1>6. S \in SUBSET S  OBVIOUS
<1> QED BY <1>5, <1>6

\* Elements that add nothing may be left out.
LEMMA TotalWithin ==
  ASSUME NEW S, IsFiniteSet(S), NEW T \in SUBSET S, NEW g, \A t \in S : g[t] \in Int,
         \A t \in S \ T : g[t] = 0
  PROVE  Total(g, S) = Total(g, T)
<1> DEFINE D == {s \in SUBSET (S \ T) : Total(g, T \cup s) # Total(g, T)}
<1>1. D = {}
  <2> SUFFICES ASSUME D # {} PROVE FALSE
    OBVIOUS
  <2>1. IsFiniteSet(S \ T) /\ D \in SUBSET SUBSET (S \ T)  BY FS_Subset
  <2>2. PICK s \in D : \A r \in SUBSET s : r # s => r \notin D
    <3> HIDE DEF D
    <3> QED BY <2>1, SmallestSet
  <2>3. s \in SUBSET (S \ T) /\ Total(g, T \cup s) # Total(g, T)  OBVIOUS
  <2>4. s # {}
    <3>1. T \cup {} = T  OBVIOUS
    <3> HIDE DEF D
    <3> QED BY <2>3, <3>1
  <2> DEFINE c == Chosen(s)
             r == s \ {c}
             u == T \cup s
             v == T \cup r
  <2>5. /\ c \in S /\ c \notin T /\ g[c] = 0 /\ c \in u
        /\ r \in SUBSET s /\ r # s /\ r \in SUBSET (S \ T)
        /\ u \ {c} = v /\ u \in SUBSET S /\ v \in SUBSET S
    <3>1. c \in s  BY <2>4, ChosenIn
    <3> HIDE DEF c, D
    <3> QED BY <2>3, <3>1
  <2>6. Total(g, v) = Total(g, T)  BY <2>2, <2>5
  <2>7. Total(g, u) # Total(g, T)  BY <2>3
  <2> HIDE DEF c, r, u, v, D
  <2>8. IsFiniteSet(u) /\ IsFiniteSet(v)  BY <2>5, FS_Subset
  <2>9. Total(g, u) = g[c] + Total(g, u \ {c})  BY <2>5, <2>8, TotalAny
  <2>10. Total(g, u) = 0 + Total(g, v)  BY <2>5, <2>9
  <2>11. Total(g, v) \in Int  BY <2>5, <2>8, TotalStep
  <2> QED BY <2>6, <2>7, <2>10, <2>11
<1>2. S \ T \notin D  BY <1>1
<1>3. T \cup (S \ T) = S  OBVIOUS
<1> HIDE DEF D
<1> QED BY <1>2, <1>3 DEF D

\* Adding n to what one element adds is adding n to the total.
LEMMA TotalChange ==
  ASSUME NEW S, IsFiniteSet(S), NEW g, NEW k, NEW y \in S, NEW n \in Int,
         \A t \in S : g[t] \in Int,
         \A t \in S : k[t] = IF t = y THEN g[t] + n ELSE g[t]
  PROVE  Total(k, S) = Total(g, S) + n
<1> DEFINE R == S \ {y}
<1>1. \A t \in S : k[t] \in Int  OBVIOUS
<1>2. IsFiniteSet(R) /\ R \in SUBSET S  BY FS_Subset
<1>3. Total(k, S) = k[y] + Total(k, R)  BY <1>1, TotalAny
<1>4. Total(g, S) = g[y] + Total(g, R)  BY TotalAny
<1>5. \A t \in R : g[t] = k[t] /\ g[t] \in Int  OBVIOUS
<1>6. k[y] = g[y] + n /\ g[y] \in Int  OBVIOUS
<1> HIDE DEF R
<1>7. Total(g, R) = Total(k, R)  BY <1>2, <1>5, TotalSame
<1>8. Total(g, R) \in Int  BY <1>2, <1>5, TotalStep
<1> QED BY <1>3, <1>4, <1>6, <1>7, <1>8

\* What counts up to nothing below zero.
LEMMA TotalNatural ==
  ASSUME NEW S, IsFiniteSet(S), NEW g, \A t \in S : g[t] \in Nat
  PROVE  Total(g, S) \in Nat
<1> DEFINE D == {s \in SUBSET S : Total(g, s) \notin Nat}
<1>1. D = {}
  <2> SUFFICES ASSUME D # {} PROVE FALSE  OBVIOUS
  <2>1. PICK s \in D : \A r \in SUBSET s : r # s => r \notin D
    <3>1. D \in SUBSET SUBSET S  OBVIOUS
    <3> HIDE DEF D
    <3> QED BY <3>1, SmallestSet
  <2>2. IsFiniteSet(s) /\ s \in SUBSET S /\ \A t \in s : g[t] \in Int
    BY FS_Subset
  <2>3. /\ s = {} => Total(g, s) = 0
        /\ s # {} => Total(g, s) = g[Chosen(s)] + Total(g, s \ {Chosen(s)})
    BY <2>2, TotalStep
  <2>4. s # {}  BY <2>3
  <2>5. Chosen(s) \in s /\ g[Chosen(s)] \in Nat  BY <2>2, <2>4, ChosenIn
  <2>6. Total(g, s \ {Chosen(s)}) \in Nat
    <3>1. s \ {Chosen(s)} \in SUBSET s /\ s \ {Chosen(s)} # s  BY <2>5
    <3>2. s \ {Chosen(s)} \notin D  BY <2>1, <3>1, Zenon
    <3> QED BY <2>2, <3>1, <3>2
  <2>7. Total(g, s) \notin Nat  OBVIOUS
  <2> QED BY <2>3, <2>4, <2>5, <2>6, <2>7
<1> QED BY <1>1

\* Nothing adds up to nothing.
LEMMA TotalNothing ==
  ASSUME NEW S, IsFiniteSet(S), NEW g, \A t \in S : g[t] = 0
  PROVE  Total(g, S) = 0
<1>1. {} \in SUBSET S /\ \A t \in S : g[t] \in Int  OBVIOUS
<1>2. IsFiniteSet({})  BY FS_EmptySet
<1>3. Total(g, {}) = 0  BY <1>2, TotalStep
<1> QED BY <1>1, <1>3, TotalWithin

-----------------------------------------------------------------------------
(* Sums of the first elements of a function on numbers from 0 on.          *)

First(g, j) == Total(g, 0..(j - 1))

\* g has numbers at the first j places.
Counts(g, j) == \A a \in 0..(j - 1) : g[a] \in Nat

\* SumFunction is the sum of all of them.
LEMMA SumIsFirst ==
  ASSUME NEW n, NEW g \in [0..(n - 1) -> Nat]
  PROVE  SumFunction(g) = First(g, n)
<1>1. DOMAIN g = 0..(n - 1)  OBVIOUS
<1> QED BY <1>1 DEF SumFunction, SumFunctionOnSet, FoldFunctionOnSet, First, Total, MapThenSumSet,
     MapThenFoldSet

\* The sum of the first no terms.
LEMMA FirstNone == \A g : First(g, 0) = 0
<1> TAKE g
<1>1. 0..(0 - 1) = {}  OBVIOUS
<1>2. IsFiniteSet({})  BY FS_EmptySet
<1>3. Total(g, {}) = 0  BY <1>2, TotalStep
<1> QED BY <1>1, <1>3 DEF First

\* One term more.
LEMMA FirstNext ==
  ASSUME NEW g, NEW j \in Nat, Counts(g, j + 1)
  PROVE  First(g, j + 1) = First(g, j) + g[j] /\ g[j] \in Nat
<1> DEFINE S == 0..j
<1>1. S = 0..((j + 1) - 1) /\ S \ {j} = 0..(j - 1) /\ j \in S  OBVIOUS
<1>2. IsFiniteSet(S)  BY FS_Interval
<1>3. \A t \in S : g[t] \in Nat  BY DEF Counts
<1>4. \A t \in S : g[t] \in Int  BY <1>3
<1> HIDE DEF S
<1>5. Total(g, S) = g[j] + Total(g, S \ {j})  BY <1>1, <1>2, <1>4, TotalAny
<1>6. S \ {j} \in SUBSET S /\ IsFiniteSet(S \ {j})  BY <1>2, FS_Subset
<1>7. Total(g, S \ {j}) \in Int  BY <1>4, <1>6, TotalStep
<1>8. First(g, j + 1) = Total(g, S) /\ First(g, j) = Total(g, S \ {j})  BY <1>1 DEF First
<1>9. g[j] \in Nat  BY <1>1, <1>3
<1> QED BY <1>5, <1>7, <1>8, <1>9

\* The sum is a number, and it grows.
LEMMA FirstGrows ==
  ASSUME NEW g, NEW j \in Nat, Counts(g, j)
  PROVE  \A i \in 0..j : First(g, i) \in Nat /\ First(g, i) <= First(g, j)
<1> DEFINE B == {n \in Nat : n <= j /\ ~(First(g, n) \in Nat /\ \A i \in 0..n : First(g, i) <= First(g, n))}
<1>1. B = {}
  <2> SUFFICES ASSUME B # {} PROVE FALSE  OBVIOUS
  <2>1. PICK n \in B : \A m \in B : n <= m
    <3>1. B \in SUBSET Nat  OBVIOUS
    <3> HIDE DEF B
    <3> QED BY <3>1, LeastNumber
  <2>2. n # 0
    <3>1. First(g, 0) = 0  BY FirstNone
    <3>2. \A i \in 0..0 : i = 0  OBVIOUS
    <3> QED BY <3>1, <3>2
  <2>3. n - 1 \in Nat /\ n - 1 <= j /\ n \in Nat /\ n - 1 \notin B
    <3> HIDE DEF B
    <3>1. n \in Nat /\ n <= j  BY DEF B
    <3>2. ~(n <= n - 1)  BY <3>1
    <3> QED BY <2>1, <2>2, <3>1, <3>2
  <2>4. First(g, n - 1) \in Nat /\ \A i \in 0..(n - 1) : First(g, i) <= First(g, n - 1)  BY <2>3
  <2>5. Counts(g, (n - 1) + 1)
    <3>1. 0..(((n - 1) + 1) - 1) \subseteq 0..(j - 1)  BY <2>3
    <3> QED BY <3>1 DEF Counts
  <2>6. (n - 1) + 1 = n  BY <2>3
  <2>7. First(g, n) = First(g, n - 1) + g[n - 1] /\ g[n - 1] \in Nat
    BY <2>3, <2>5, <2>6, FirstNext
  <2>8. First(g, n) \in Nat /\ First(g, n - 1) <= First(g, n)  BY <2>4, <2>7
  <2>9. ASSUME NEW i \in 0..n PROVE First(g, i) <= First(g, n)
    <3>1. CASE i = n  BY <2>8, <3>1
    <3>2. CASE i # n
      <4>1. i \in 0..(n - 1)  BY <2>3, <3>2
      <4>2. First(g, i) <= First(g, n - 1)  BY <2>4, <4>1
      <4>3. First(g, i) \in Nat
        <5> HIDE DEF B
        <5>1. i \in Nat /\ i <= j /\ i \notin B  BY <2>1, <2>3, <4>1
        <5> QED BY <5>1 DEF B
      <4> QED BY <2>4, <2>8, <4>2, <4>3
    <3> QED BY <3>1, <3>2
  <2> QED BY <2>8, <2>9
<1>2. \A n \in 0..j : First(g, n) \in Nat /\ \A i \in 0..n : First(g, i) <= First(g, n)
  BY <1>1
<1> QED BY <1>2

\* All of them move on by one place, and 0 comes first.
LEMMA FirstShift ==
  ASSUME NEW g, NEW h, NEW j \in Nat, Counts(g, j), h[0] = 0,
         \A a \in 1..j : h[a] = g[a - 1]
  PROVE  First(h, j + 1) = First(g, j)
<1> DEFINE B == {n \in Nat : n <= j /\ First(h, n + 1) # First(g, n)}
<1>0. Counts(h, j + 1)
  <2> SUFFICES ASSUME NEW a \in 0..((j + 1) - 1) PROVE h[a] \in Nat  BY DEF Counts
  <2>1. CASE a = 0  BY <2>1
  <2>2. CASE a # 0
    <3>1. a \in 1..j /\ a - 1 \in 0..(j - 1)  BY <2>2
    <3> QED BY <3>1 DEF Counts
  <2> QED BY <2>1, <2>2
<1>1. B = {}
  <2> SUFFICES ASSUME B # {} PROVE FALSE  OBVIOUS
  <2>1. PICK n \in B : \A m \in B : n <= m
    <3>1. B \in SUBSET Nat  OBVIOUS
    <3> HIDE DEF B
    <3> QED BY <3>1, LeastNumber
  <2>2. n \in Nat /\ n <= j /\ First(h, n + 1) # First(g, n)  OBVIOUS
  <2>3. Counts(h, n + 1)
    <3>1. 0..((n + 1) - 1) \subseteq 0..((j + 1) - 1)  BY <2>2
    <3> QED BY <1>0, <3>1 DEF Counts
  <2>4. First(h, n + 1) = First(h, n) + h[n] /\ h[n] \in Nat  BY <2>2, <2>3, FirstNext
  <2>5. n # 0
    <3> SUFFICES ASSUME n = 0 PROVE FALSE  OBVIOUS
    <3>1. First(h, 0) = 0 /\ First(g, 0) = 0  BY FirstNone
    <3> QED BY <2>2, <2>4, <3>1
  <2>6. n - 1 \in Nat /\ n - 1 <= j /\ (n - 1) + 1 = n /\ n - 1 \notin B
    <3> HIDE DEF B
    <3>1. ~(n <= n - 1)  BY <2>2
    <3> QED BY <2>1, <2>2, <2>5, <3>1
  <2>7. First(h, n) = First(g, n - 1)  BY <2>6
  <2>8. Counts(g, (n - 1) + 1)
    <3>1. 0..(((n - 1) + 1) - 1) \subseteq 0..(j - 1)  BY <2>2, <2>6
    <3> QED BY <3>1 DEF Counts
  <2>9. First(g, n) = First(g, n - 1) + g[n - 1]  BY <2>6, <2>8, FirstNext
  <2>10. h[n] = g[n - 1]  BY <2>2, <2>5
  <2> QED BY <2>2, <2>4, <2>7, <2>9, <2>10
<1>2. j \notin B  BY <1>1
<1> HIDE DEF B
<1> QED BY <1>2 DEF B

\* One more in the first place.
LEMMA FirstMore ==
  ASSUME NEW g, NEW h, NEW j \in Nat \ {0}, Counts(g, j), h[0] = g[0] + 1,
         \A a \in 1..(j - 1) : h[a] = g[a]
  PROVE  First(h, j) = First(g, j) + 1
<1> DEFINE S == 0..(j - 1)
<1>1. 0 \in S /\ \A a \in S : a = 0 \/ a \in 1..(j - 1)  OBVIOUS
<1>2. IsFiniteSet(S)  BY FS_Interval
<1>3. \A t \in S : g[t] \in Nat  BY DEF Counts
<1>4. \A t \in S : g[t] \in Int  BY <1>3
<1>5. \A t \in S : h[t] = IF t = 0 THEN g[t] + 1 ELSE g[t]  BY <1>1
<1> HIDE DEF S
<1>6. Total(h, S) = Total(g, S) + 1  BY <1>1, <1>2, <1>4, <1>5, TotalChange
<1> QED BY <1>6 DEF First, S

\* Nothing but zeros.
LEMMA FirstZero ==
  ASSUME NEW g, NEW j \in Nat, \A a \in 0..(j - 1) : g[a] = 0
  PROVE  First(g, j) = 0
<1>1. IsFiniteSet(0..(j - 1))  BY FS_Interval
<1> QED BY <1>1, TotalNothing DEF First

=============================================================================
