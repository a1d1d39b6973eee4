---------------------------- MODULE LogQueueProofs -----------------------------
(***************************************************************************)
(* The logger's queue, proved for any set of producers, any capacity and   *)
(* any number of lines: no line and no count is lost, and the shutdown     *)
(* comes after what was queued before it.                                  *)
(***************************************************************************)
EXTENDS LogQueue, FiniteSetTheorems, WellFoundedInduction, TLAPS

-------------------------------------------------------------------------------
(* Sums over finite sets.                                                  *)

\* A set of numbers that has zero, and with every number the next, has all.
LEMMA NaturalsClosed ==
  ASSUME NEW S \in SUBSET Nat, 0 \in S, \A k \in S : k + 1 \in S
  PROVE  S = Nat
<1> SUFFICES ASSUME Nat \ S # {} PROVE FALSE
  OBVIOUS
<1>1. \E least \in Nat \ S : \A other \in Nat \ S : ~(<<other, least>> \in OpToRel(<, Nat))
  BY NatLessThanWellFounded, WFMin
<1>2. PICK least \in Nat \ S : \A other \in Nat \ S : ~(<<other, least>> \in OpToRel(<, Nat))
  BY <1>1
<1>3. least - 1 \in Nat /\ least = (least - 1) + 1 /\ least - 1 < least
  OBVIOUS
<1>4. <<least - 1, least>> \in {pair \in Nat \X Nat : pair[1] < pair[2]}
  BY <1>3
<1>5. least - 1 \notin Nat \ S
  BY <1>2, <1>4 DEF OpToRel
<1> QED
  BY <1>3, <1>5

\* The same for the subsets of a finite set.
LEMMA SubsetsClosed ==
  ASSUME NEW S, IsFiniteSet(S), NEW C \in SUBSET (SUBSET S),
         {} \in C,
         ASSUME NEW s \in SUBSET S, s # {}, \A x \in s : s \ {x} \in C PROVE s \in C
  PROVE  C = SUBSET S
<1> DEFINE Covered(k) == \A s \in SUBSET S : Cardinality(s) = k => s \in C
           N == {k \in Nat : Covered(k)}
<1>1. Covered(0)
  <2> SUFFICES ASSUME NEW s \in SUBSET S, Cardinality(s) = 0 PROVE s \in C
    OBVIOUS
  <2>1. IsFiniteSet(s)
    BY FS_Subset
  <2> QED
    BY <2>1, FS_EmptySet
<1>2. ASSUME NEW k \in Nat, Covered(k) PROVE Covered(k + 1)
  <2> SUFFICES ASSUME NEW s \in SUBSET S, Cardinality(s) = k + 1 PROVE s \in C
    OBVIOUS
  <2>1. IsFiniteSet(s)
    BY FS_Subset
  <2>2. s # {}
    BY FS_EmptySet
  <2>3. ASSUME NEW x \in s PROVE s \ {x} \in C
    <3>1. Cardinality(s \ {x}) = Cardinality(s) - 1
      BY <2>1, <2>3, FS_RemoveElement
    <3>2. Cardinality(s \ {x}) = k
      BY <3>1
    <3> QED
      BY <1>2, <3>2
  <2> QED
    BY <2>2, <2>3
<1>3. N = Nat
  <2>1. N \in SUBSET Nat /\ 0 \in N
    BY <1>1
  <2>2. \A k \in N : k + 1 \in N
    BY <1>2
  <2> HIDE DEF N
  <2> QED
    BY <2>1, <2>2, NaturalsClosed
<1>4. ASSUME NEW s \in SUBSET S PROVE s \in C
  <2>1. IsFiniteSet(s)
    BY FS_Subset
  <2>2. Cardinality(s) \in Nat
    BY <2>1, FS_CardinalityType
  <2>3. Covered(Cardinality(s))
    BY <1>3, <2>2
  <2> QED
    BY <2>3
<1> QED
  BY <1>4

Pick(s) == CHOOSE x \in s : TRUE

Small(S, k) == {s \in SUBSET S : Cardinality(s) <= k}

\* The function by which a sum is defined, on the subsets of up to k members.
SumUpTo(g, f, S, k) ==
  g = [s \in Small(S, k) |-> IF s = {} THEN 0 ELSE f[Pick(s)] + g[s \ {Pick(s)}]]

IsSum(g, f, S) ==
  g = [s \in SUBSET S |-> IF s = {} THEN 0 ELSE f[Pick(s)] + g[s \ {Pick(s)}]]

\* It exists for one member more.
LEMMA SumGrows ==
  ASSUME NEW S, IsFiniteSet(S), NEW f, NEW k \in Nat, NEW g, SumUpTo(g, f, S, k)
  PROVE  \E h : SumUpTo(h, f, S, k + 1)
<1> DEFINE h == [s \in Small(S, k + 1) |-> IF s = {} THEN 0 ELSE f[Pick(s)] + g[s \ {Pick(s)}]]
<1>1. ASSUME NEW s \in Small(S, k + 1), s # {}
      PROVE  s \ {Pick(s)} \in Small(S, k)
  <2>1. s \in SUBSET S /\ Cardinality(s) <= k + 1
    BY <1>1 DEF Small
  <2>2. IsFiniteSet(s)
    BY <2>1, FS_Subset
  <2>3. Pick(s) \in s
    BY <1>1 DEF Pick
  <2>4. Cardinality(s \ {Pick(s)}) = Cardinality(s) - 1 /\ Cardinality(s) \in Nat
    BY <2>2, <2>3, FS_RemoveElement, FS_CardinalityType
  <2> QED
    BY <2>1, <2>4 DEF Small
<1>2. ASSUME NEW s \in Small(S, k)
      PROVE  h[s] = g[s]
  <2>1. s \in SUBSET S /\ Cardinality(s) <= k
    BY <1>2 DEF Small
  <2>2. Cardinality(s) \in Nat
    BY <2>1, FS_Subset, FS_CardinalityType
  <2>3. s \in Small(S, k + 1)
    BY <2>1, <2>2 DEF Small
  <2> QED
    BY <1>2, <2>3 DEF SumUpTo
<1>3. ASSUME NEW s \in Small(S, k + 1)
      PROVE  h[s] = IF s = {} THEN 0 ELSE f[Pick(s)] + h[s \ {Pick(s)}]
  <2>1. h[s] = IF s = {} THEN 0 ELSE f[Pick(s)] + g[s \ {Pick(s)}]
    BY <1>3
  <2>2. s # {} => h[s \ {Pick(s)}] = g[s \ {Pick(s)}]
    BY <1>1, <1>2, <1>3
  <2> HIDE DEF h
  <2> QED
    BY <2>1, <2>2
<1>4. SumUpTo(h, f, S, k + 1)
  BY <1>3 DEF SumUpTo
<1> HIDE DEF h
<1> QED
  BY <1>4

\* It exists for all of them, and its value is the sum.
LEMMA SumExists ==
  ASSUME NEW S, IsFiniteSet(S), NEW f
  PROVE  \E g : IsSum(g, f, S)
<1> DEFINE N == {k \in Nat : \E g : SumUpTo(g, f, S, k)}
<1>1. 0 \in N
  <2> DEFINE g == [s \in Small(S, 0) |-> 0]
  <2>1. ASSUME NEW s \in Small(S, 0) PROVE s = {}
    <3>1. s \in SUBSET S /\ Cardinality(s) <= 0
      BY <2>1 DEF Small
    <3>2. IsFiniteSet(s) /\ Cardinality(s) \in Nat
      BY <3>1, FS_Subset, FS_CardinalityType
    <3>3. Cardinality(s) = 0
      BY <3>1, <3>2
    <3> QED
      BY <3>2, <3>3, FS_EmptySet
  <2>2. SumUpTo(g, f, S, 0)
    BY <2>1 DEF SumUpTo
  <2> HIDE DEF g
  <2> QED
    BY <2>2
<1>2. ASSUME NEW k \in N PROVE k + 1 \in N
  <2>1. k \in Nat /\ \E g : SumUpTo(g, f, S, k)
    BY <1>2
  <2>2. \E g : SumUpTo(g, f, S, k + 1)
    BY <2>1, SumGrows
  <2> QED
    BY <2>1, <2>2
<1>3. N = Nat
  <2>1. N \in SUBSET Nat
    OBVIOUS
  <2> HIDE DEF N
  <2> QED
    BY <1>1, <1>2, <2>1, NaturalsClosed
<1>4. Cardinality(S) \in Nat
  BY FS_CardinalityType
<1>5. PICK g : SumUpTo(g, f, S, Cardinality(S))
  BY <1>3, <1>4
<1>6. Small(S, Cardinality(S)) = SUBSET S
  <2>1. \A s \in SUBSET S : Cardinality(s) <= Cardinality(S)
    BY FS_Subset
  <2> QED
    BY <2>1 DEF Small
<1> QED
  BY <1>5, <1>6 DEF SumUpTo, IsSum

LEMMA SumIs ==
  ASSUME NEW S, IsFiniteSet(S), NEW f, DOMAIN f = S
  PROVE  \E g : IsSum(g, f, S) /\ SumFunction(f) = g[S]
<1> DEFINE sum == CHOOSE g : IsSum(g, f, S)
<1>1. IsSum(sum, f, S)
  BY SumExists
<1>2. SumFunction(f) = sum[S]
  BY DEF SumFunction, SumFunctionOnSet, FoldFunctionOnSet, MapThenFoldSet, IsSum, Pick
<1> HIDE DEF sum
<1> QED
  BY <1>1, <1>2

\* What the definition says, of a sum of integers.
Begins(g, f, S) ==
  /\ g[{}] = 0
  /\ \A s \in SUBSET S :
       g[s] \in Int /\ (s # {} => Pick(s) \in s /\ g[s] = f[Pick(s)] + g[s \ {Pick(s)}])

LEMMA SumBegins ==
  ASSUME NEW S, IsFiniteSet(S), NEW f \in [S -> Int], NEW g, IsSum(g, f, S)
  PROVE  Begins(g, f, S)
<1> DEFINE C == {s \in SUBSET S : g[s] \in Int}
<1>1. /\ g[{}] = 0
      /\ \A s \in SUBSET S : s # {} => Pick(s) \in s /\ g[s] = f[Pick(s)] + g[s \ {Pick(s)}]
  BY DEF IsSum, Pick
<1>2. {} \in C
  BY <1>1
<1>3. ASSUME NEW s \in SUBSET S, s # {}, \A x \in s : s \ {x} \in C
      PROVE  s \in C
  <2>1. Pick(s) \in s /\ g[s] = f[Pick(s)] + g[s \ {Pick(s)}]
    BY <1>1, <1>3
  <2>2. f[Pick(s)] \in Int /\ g[s \ {Pick(s)}] \in Int
    BY <1>3, <2>1
  <2> QED
    BY <2>1, <2>2
<1>4. C = SUBSET S
  <2>1. C \in SUBSET (SUBSET S)
    OBVIOUS
  <2> HIDE DEF C
  <2> QED
    BY <1>2, <1>3, <2>1, SubsetsClosed
<1> QED
  BY <1>1, <1>4 DEF Begins

\* A sum may begin with any member.
Adds(g, f, S) ==
  /\ g[{}] = 0
  /\ \A s \in SUBSET S : g[s] \in Int /\ \A x \in s : g[s] = f[x] + g[s \ {x}]

LEMMA SumAdds ==
  ASSUME NEW S, IsFiniteSet(S), NEW f \in [S -> Int], NEW g, IsSum(g, f, S)
  PROVE  Adds(g, f, S)
<1> DEFINE C == {s \in SUBSET S : \A x \in s : g[s] = f[x] + g[s \ {x}]}
<1>0. Begins(g, f, S)
  BY SumBegins
<1>1. g[{}] = 0 /\ \A s \in SUBSET S : g[s] \in Int
  BY <1>0 DEF Begins
<1>2. ASSUME NEW s \in SUBSET S, s # {}, \A x \in s : s \ {x} \in C
      PROVE  s \in C
  <2> SUFFICES \A x \in s : g[s] = f[x] + g[s \ {x}]
    OBVIOUS
  <2> TAKE x \in s
  <2> DEFINE c == Pick(s)
  <2>1. c \in s /\ g[s] = f[c] + g[s \ {c}]
    BY <1>0, <1>2 DEF Begins
  <2> HIDE DEF c
  <2>2. CASE x = c
    BY <2>1, <2>2
  <2>3. CASE x # c
    <3>1. g[s \ {c}] = f[x] + g[(s \ {c}) \ {x}]
      BY <1>2, <2>1, <2>3
    <3>2. g[s \ {x}] = f[c] + g[(s \ {x}) \ {c}]
      BY <1>2, <2>1, <2>3
    <3>3. (s \ {c}) \ {x} = (s \ {x}) \ {c}
      OBVIOUS
    <3> DEFINE both == g[(s \ {x}) \ {c}]
    <3>4. f[x] \in Int /\ f[c] \in Int /\ both \in Int
      BY <1>1, <2>1
    <3>5. g[s \ {c}] = f[x] + both /\ g[s \ {x}] = f[c] + both
      BY <3>1, <3>2, <3>3
    <3> HIDE DEF both, C
    <3> QED
      BY <2>1, <3>4, <3>5
  <2> QED
    BY <2>2, <2>3
<1>3. C = SUBSET S
  <2>1. C \in SUBSET (SUBSET S) /\ {} \in C
    OBVIOUS
  <2> HIDE DEF C
  <2> QED
    BY <1>2, <2>1, SubsetsClosed
<1> QED
  BY <1>1, <1>3 DEF Adds

\* Sums of the same values are the same.
LEMMA SumMatches ==
  ASSUME NEW S, NEW f, NEW g, IsSum(g, f, S),
         NEW T, NEW e, NEW h, IsSum(h, e, T),
         NEW R \in SUBSET (S \cap T), IsFiniteSet(R), \A x \in R : f[x] = e[x]
  PROVE  g[R] = h[R]
<1> DEFINE C == {s \in SUBSET R : g[s] = h[s]}
<1>1. {} \in C
  BY DEF IsSum
<1>2. ASSUME NEW s \in SUBSET R, s # {}, \A x \in s : s \ {x} \in C
      PROVE  s \in C
  <2>1. s \in SUBSET S /\ s \in SUBSET T /\ Pick(s) \in s
    BY <1>2 DEF Pick
  <2>2. g[s] = f[Pick(s)] + g[s \ {Pick(s)}] /\ h[s] = e[Pick(s)] + h[s \ {Pick(s)}]
    BY <1>2, <2>1 DEF IsSum
  <2> QED
    BY <1>2, <2>1, <2>2
<1>3. C = SUBSET R
  <2>1. C \in SUBSET (SUBSET R)
    OBVIOUS
  <2> HIDE DEF C
  <2> QED
    BY <1>1, <1>2, <2>1, SubsetsClosed
<1> QED
  BY <1>3

LEMMA AddsMember ==
  ASSUME NEW S, NEW f, NEW g, Adds(g, f, S), NEW s \in SUBSET S, NEW x \in s, NEW rest, rest = s \ {x}
  PROVE  g[s] = f[x] + g[rest] /\ g[s] \in Int /\ g[rest] \in Int
<1>1. rest \in SUBSET S
  OBVIOUS
<1> QED
  BY <1>1 DEF Adds

\* One value is changed.
LEMMA SumChanges ==
  ASSUME NEW S, IsFiniteSet(S), NEW f \in [S -> Int], NEW e \in [S -> Int],
         NEW x \in S, \A y \in S \ {x} : e[y] = f[y]
  PROVE  SumFunction(e) = SumFunction(f) - f[x] + e[x] /\ SumFunction(f) \in Int
<1>1. PICK g : IsSum(g, f, S) /\ SumFunction(f) = g[S]
  BY SumIs
<1>2. PICK h : IsSum(h, e, S) /\ SumFunction(e) = h[S]
  BY SumIs
<1>3. g[S] = f[x] + g[S \ {x}] /\ g[S] \in Int /\ g[S \ {x}] \in Int
  <2>1. Adds(g, f, S)
    BY <1>1, SumAdds
  <2> QED
    BY <2>1, AddsMember
<1>4. h[S] = e[x] + h[S \ {x}]
  <2>1. Adds(h, e, S)
    BY <1>2, SumAdds
  <2> QED
    BY <2>1, AddsMember
<1>5. g[S \ {x}] = h[S \ {x}]
  <2>1. IsFiniteSet(S \ {x}) /\ S \ {x} \in SUBSET (S \cap S)
    BY FS_RemoveElement
  <2> QED
    BY <1>1, <1>2, <2>1, SumMatches
<1> QED
  BY <1>1, <1>2, <1>3, <1>4, <1>5

\* Of nothing, and of zeros.
LEMMA SumOfZeros ==
  ASSUME NEW S, IsFiniteSet(S), NEW f \in [S -> Int], \A x \in S : f[x] = 0
  PROVE  SumFunction(f) = 0
<1>1. PICK g : IsSum(g, f, S) /\ SumFunction(f) = g[S]
  BY SumIs
<1> DEFINE C == {s \in SUBSET S : g[s] = 0}
<1> HIDE DEF C
<1>5. Adds(g, f, S)
  BY <1>1, SumAdds
<1>2. {} \in C
  BY <1>5 DEF Adds, C
<1>3. ASSUME NEW s \in SUBSET S, s # {}, \A x \in s : s \ {x} \in C
      PROVE  s \in C
  <2>1. PICK x \in s : TRUE
    BY <1>3
  <2>2. g[s] = f[x] + g[s \ {x}]
    BY <1>5, AddsMember
  <2> QED
    BY <1>3, <2>1, <2>2 DEF C
<1>4. C = SUBSET S
  <2>1. C \in SUBSET (SUBSET S)
    BY DEF C
  <2> QED
    BY <1>2, <1>3, <2>1, SubsetsClosed
<1> QED
  BY <1>1, <1>4 DEF C

\* A list of numbers gets one more at its end.
LEMMA SumAppends ==
  ASSUME NEW n \in Nat, NEW f \in [1 .. n -> Int], NEW e \in [1 .. n + 1 -> Int],
         \A i \in 1 .. n : e[i] = f[i]
  PROVE  SumFunction(e) = SumFunction(f) + e[n + 1] /\ SumFunction(f) \in Int
<1>1. IsFiniteSet(1 .. n) /\ IsFiniteSet(1 .. n + 1)
  BY FS_Interval
<1>2. PICK g : IsSum(g, f, 1 .. n) /\ SumFunction(f) = g[1 .. n]
  BY <1>1, SumIs
<1>3. PICK h : IsSum(h, e, 1 .. n + 1) /\ SumFunction(e) = h[1 .. n + 1]
  BY <1>1, SumIs
<1>4. g[1 .. n] \in Int
  <2>1. Adds(g, f, 1 .. n)
    BY <1>1, <1>2, SumAdds
  <2> QED
    BY <2>1 DEF Adds
<1>6. (1 .. n + 1) \ {n + 1} = 1 .. n /\ 1 .. n \in SUBSET ((1 .. n) \cap (1 .. n + 1))
  OBVIOUS
<1>5. h[1 .. n + 1] = e[n + 1] + h[1 .. n]
  <2>1. Adds(h, e, 1 .. n + 1)
    BY <1>1, <1>3, SumAdds
  <2>2. n + 1 \in 1 .. n + 1 /\ 1 .. n = (1 .. n + 1) \ {n + 1}
    OBVIOUS
  <2> QED
    BY <2>1, <2>2, AddsMember
<1>7. g[1 .. n] = h[1 .. n]
  BY <1>1, <1>2, <1>3, <1>6, SumMatches
<1> QED
  BY <1>2, <1>3, <1>4, <1>5, <1>6, <1>7

\* Its first is taken.
LEMMA SumShifts ==
  ASSUME NEW n \in Nat, NEW f \in [1 .. n + 1 -> Int], NEW e \in [1 .. n -> Int],
         \A i \in 1 .. n : e[i] = f[i + 1]
  PROVE  SumFunction(f) = f[1] + SumFunction(e) /\ SumFunction(e) \in Int
<1>1. IsFiniteSet(1 .. n) /\ IsFiniteSet(1 .. n + 1)
  BY FS_Interval
<1>2. PICK g : IsSum(g, f, 1 .. n + 1) /\ SumFunction(f) = g[1 .. n + 1]
  BY <1>1, SumIs
<1>3. PICK h : IsSum(h, e, 1 .. n) /\ SumFunction(e) = h[1 .. n]
  BY <1>1, SumIs
<1>4. Adds(g, f, 1 .. n + 1)
  BY <1>1, <1>2, SumAdds
<1>5. Adds(h, e, 1 .. n)
  BY <1>1, <1>3, SumAdds
<1> DEFINE Same(k) == k <= n => g[2 .. k + 1] = h[1 .. k]
           N == {k \in Nat : Same(k)}
<1>6. Same(0)
  <2>1. 2 .. 0 + 1 = {} /\ 1 .. 0 = {}
    OBVIOUS
  <2> QED
    BY <1>4, <1>5, <2>1 DEF Adds
<1>7. ASSUME NEW k \in Nat, Same(k) PROVE Same(k + 1)
  <2> SUFFICES ASSUME k + 1 <= n PROVE g[2 .. (k + 1) + 1] = h[1 .. k + 1]
    OBVIOUS
  <2> DEFINE u == 2 .. (k + 1) + 1
             v == 2 .. k + 1
             w == 1 .. k + 1
             z == 1 .. k
             S == 1 .. n + 1
             T == 1 .. n
  <2>1. u \in SUBSET S /\ k + 2 \in u /\ w \in SUBSET T /\ k + 1 \in w
    OBVIOUS
  <2>2. v = u \ {k + 2} /\ z = w \ {k + 1}
    <3>1. \A i \in Int : i \in v <=> i \in u \ {k + 2}
      OBVIOUS
    <3>2. \A i \in Int : i \in z <=> i \in w \ {k + 1}
      OBVIOUS
    <3>3. \A i \in u \cup v \cup w \cup z : i \in Int
      OBVIOUS
    <3> HIDE DEF u, v, w, z
    <3> QED
      BY <3>1, <3>2, <3>3
  <2>3. g[u] = f[k + 2] + g[v]
    <3> DEFINE x == k + 2
    <3>1. Adds(g, f, S)
      BY <1>4
    <3>2. u \in SUBSET S /\ x \in u /\ v = u \ {x}
      BY <2>1, <2>2
    <3> HIDE DEF u, v, S, x
    <3>3. g[u] = f[x] + g[u \ {x}]
      BY <3>1, <3>2 DEF Adds
    <3> QED
      BY <3>2, <3>3 DEF x
  <2>4. h[w] = e[k + 1] + h[z]
    <3> DEFINE x == k + 1
    <3>1. Adds(h, e, T)
      BY <1>5
    <3>2. w \in SUBSET T /\ x \in w /\ z = w \ {x}
      BY <2>1, <2>2
    <3> HIDE DEF w, z, T, x
    <3>3. h[w] = e[x] + h[w \ {x}]
      BY <3>1, <3>2 DEF Adds
    <3> QED
      BY <3>2, <3>3 DEF x
  <2>5. e[k + 1] = f[k + 2]
    <3>1. k + 1 \in 1 .. n /\ (k + 1) + 1 = k + 2
      OBVIOUS
    <3> QED
      BY <3>1
  <2>6. g[2 .. k + 1] = h[1 .. k]
    BY <1>7
  <2> QED
    BY <2>3, <2>4, <2>5, <2>6
<1>8. N = Nat
  <2> HIDE DEF Same
  <2>1. N \in SUBSET Nat /\ 0 \in N
    BY <1>6
  <2>2. \A k \in N : k + 1 \in N
    BY <1>7
  <2> HIDE DEF N
  <2> QED
    BY <2>1, <2>2, NaturalsClosed
<1>9. g[2 .. n + 1] = h[1 .. n]
  BY <1>8
<1>10. 1 .. n \in SUBSET (1 .. n)
  OBVIOUS
<1>11. g[1 .. n + 1] = f[1] + g[2 .. n + 1]
  <2> DEFINE u == 1 .. n + 1
             v == 2 .. n + 1
  <2>1. u \in SUBSET (1 .. n + 1) /\ 1 \in u
    OBVIOUS
  <2>2. v = u \ {1}
    OBVIOUS
  <2>3. Adds(g, f, u)
    BY <1>4
  <2> HIDE DEF u, v
  <2>4. g[u] = f[1] + g[v]
    BY <2>1, <2>2, <2>3, AddsMember
  <2> QED
    BY <2>4 DEF u, v
<1>12. h[1 .. n] \in Int
  BY <1>5, <1>10 DEF Adds
<1> QED
  BY <1>2, <1>3, <1>9, <1>11, <1>12

\* A list of ones adds up to its length.
LEMMA SumOfOnes ==
  ASSUME NEW n \in Nat, NEW f \in [1 .. n -> Int], \A i \in 1 .. n : f[i] = 1
  PROVE  SumFunction(f) = n
<1>1. IsFiniteSet(1 .. n)
  BY FS_Interval
<1>2. PICK g : IsSum(g, f, 1 .. n) /\ SumFunction(f) = g[1 .. n]
  BY <1>1, SumIs
<1>3. Adds(g, f, 1 .. n)
  BY <1>1, <1>2, SumAdds
<1> DEFINE Same(k) == k <= n => g[1 .. k] = k
           N == {k \in Nat : Same(k)}
<1>4. Same(0)
  <2>1. 1 .. 0 = {}
    OBVIOUS
  <2> QED
    BY <1>3, <2>1 DEF Adds
<1>5. ASSUME NEW k \in Nat, Same(k) PROVE Same(k + 1)
  <2> SUFFICES ASSUME k + 1 <= n PROVE g[1 .. k + 1] = k + 1
    OBVIOUS
  <2>1. /\ 1 .. k + 1 \in SUBSET (1 .. n) /\ k + 1 \in 1 .. k + 1 /\ k + 1 \in 1 .. n
        /\ (1 .. k + 1) \ {k + 1} = 1 .. k
    OBVIOUS
  <2>2. g[1 .. k + 1] = f[k + 1] + g[1 .. k]
    BY <1>3, <2>1, AddsMember
  <2>3. g[1 .. k] = k
    BY <1>5
  <2> QED
    BY <2>1, <2>2, <2>3
<1>6. N = Nat
  <2>1. N \in SUBSET Nat /\ 0 \in N
    BY <1>4
  <2>2. \A k \in N : k + 1 \in N
    BY <1>5
  <2> HIDE DEF N
  <2> QED
    BY <2>1, <2>2, NaturalsClosed
<1> QED
  BY <1>2, <1>6

-------------------------------------------------------------------------------
(* The invariant.                                                          *)

Tasks == Producers \cup {Main}

Message == [lines : {0, 1}, dropped : Nat]

Place == {"idle", "reserved", "swapped", "full", "sending", "joining", "finished"}

QueueType ==
  /\ at \in [Tasks -> Place] /\ held \in [Tasks -> Nat] /\ queue \in Seq(Message)
  /\ dropped \in Nat /\ written \in Nat /\ reported \in Nat
  /\ offers \in Nat /\ rejected \in Nat /\ due \in Nat
  /\ \A p \in Producers : at[p] \in {"idle", "reserved", "swapped", "full"}
  /\ at[Main] \in {"idle", "sending", "joining", "finished"}
  /\ logger \in {"running", "ended", "failed"}

\* Whoever has taken the count is on the way to send it.
HeldInv ==
  /\ \A p \in Producers : at[p] # "swapped" => held[p] = 0
  /\ at[Main] # "sending" => held[Main] = 0

\* The message at place k is the shutdown, and before it are the lines that the
\* shutdown waits for.
ShutdownAt(k) ==
  /\ queue[k].lines = 0 /\ \A i \in 1 .. k - 1 : queue[i].lines = 1
  /\ written + (k - 1) >= due

\* There is one shutdown: it is to be sent, then in the queue, then consumed.
ShutdownInv ==
  /\ at[Main] \in {"idle", "sending"} =>
       logger # "ended" /\ \A i \in 1 .. Len(queue) : queue[i].lines = 1
  /\ at[Main] = "sending" => written + Len(queue) >= due
  /\ at[Main] \in {"joining", "finished"} =>
       \/ logger = "failed"
       \/ logger = "ended" /\ written >= due
       \/ logger = "running" /\ \E k \in 1 .. Len(queue) : ShutdownAt(k)
  /\ at[Main] = "finished" => logger # "running"

\* A message in the channel or a permit granted takes a place each.
SpaceInv == Len(queue) + Cardinality(Waiting({"reserved", "swapped"})) <= Capacity

IInv == QueueType /\ HeldInv /\ EveryLineIsCounted /\ ShutdownInv /\ SpaceInv

-------------------------------------------------------------------------------
(* What a step does to the sums and the numbers of producers.              *)

LEMMA WaitingType ==
  ASSUME NEW places
  PROVE  IsFiniteSet(Waiting(places)) /\ Cardinality(Waiting(places)) \in Nat
<1>1. Waiting(places) \in SUBSET Producers
  BY DEF Waiting
<1>2. IsFiniteSet(Waiting(places))
  BY <1>1, ProducersAssumption, FS_Subset
<1> QED
  BY <1>2, FS_CardinalityType

\* A producer moves.
LEMMA WaitingMoves ==
  ASSUME QueueType, NEW p \in Producers, NEW place, at' = [at EXCEPT ![p] = place], NEW places
  PROVE  Cardinality(Waiting(places)') = Cardinality(Waiting(places))
           - (IF at[p] \in places THEN 1 ELSE 0) + (IF place \in places THEN 1 ELSE 0)
<1> DEFINE before == Waiting(places)
           after == Waiting(places)'
<1>1. at'[p] = place /\ \A q \in Producers \ {p} : at'[q] = at[q]
  BY DEF QueueType, Tasks
<1>2. after \ {p} = before \ {p}
  BY <1>1 DEF Waiting
<1>3. (p \in before <=> at[p] \in places) /\ (p \in after <=> place \in places)
  BY <1>1 DEF Waiting
<1>4. IsFiniteSet(before) /\ IsFiniteSet(after)
  <2>1. after \in SUBSET Producers
    BY DEF Waiting
  <2> QED
    BY <2>1, WaitingType, ProducersAssumption, FS_Subset
<1> HIDE DEF before, after
<1>5. Cardinality(before) \in Nat /\ Cardinality(after) \in Nat
  BY <1>4, FS_CardinalityType
<1>6. Cardinality(before \ {p}) = Cardinality(before) - (IF at[p] \in places THEN 1 ELSE 0)
  <2>1. CASE p \in before
    BY <1>3, <1>4, <2>1, FS_RemoveElement
  <2>2. CASE p \notin before
    <3>1. Cardinality(before \ {p}) = Cardinality(before)
      <4>1. before \ {p} = before
        BY <2>2
      <4> QED
        BY <4>1
    <3> QED
      BY <1>3, <1>5, <2>2, <3>1
  <2> QED
    BY <2>1, <2>2
<1>7. Cardinality(after \ {p}) = Cardinality(after) - (IF place \in places THEN 1 ELSE 0)
  <2>1. CASE p \in after
    BY <1>3, <1>4, <2>1, FS_RemoveElement
  <2>2. CASE p \notin after
    <3>1. Cardinality(after \ {p}) = Cardinality(after)
      <4>1. after \ {p} = after
        BY <2>2
      <4> QED
        BY <4>1
    <3> QED
      BY <1>3, <1>5, <2>2, <3>1
  <2> QED
    BY <2>1, <2>2
<1>8. Cardinality(after) = Cardinality(before)
        - (IF at[p] \in places THEN 1 ELSE 0) + (IF place \in places THEN 1 ELSE 0)
  BY <1>2, <1>5, <1>6, <1>7
<1> QED
  BY <1>8 DEF before, after

\* Main moves, or nobody.
LEMMA WaitingStays ==
  ASSUME QueueType, NEW place, at' = [at EXCEPT ![Main] = place] \/ at' = at, NEW places
  PROVE  Waiting(places)' = Waiting(places)
<1>1. \A q \in Producers : at'[q] = at[q]
  BY ProducersAssumption DEF QueueType, Tasks
<1> QED
  BY <1>1 DEF Waiting

Lines(list) == [i \in 1 .. Len(list) |-> list[i].lines]
Counts(list) == [i \in 1 .. Len(list) |-> list[i].dropped]

LEMMA SumsAre == LinesQueued = SumFunction(Lines(queue)) /\ DroppedQueued = SumFunction(Counts(queue))
  BY DEF LinesQueued, DroppedQueued, Lines, Counts

LEMMA FieldsType ==
  ASSUME NEW list \in Seq(Message)
  PROVE  Lines(list) \in [1 .. Len(list) -> Int] /\ Counts(list) \in [1 .. Len(list) -> Int]
<1>1. ASSUME NEW i \in 1 .. Len(list) PROVE list[i].lines \in Int /\ list[i].dropped \in Int
  <2>1. list[i] \in Message
    OBVIOUS
  <2> QED
    BY <2>1 DEF Message
<1> QED
  BY <1>1 DEF Lines, Counts

\* A message is sent.
LEMMA SumsOfSent ==
  ASSUME NEW list \in Seq(Message), NEW m \in Message
  PROVE  /\ SumFunction(Lines(Append(list, m))) = SumFunction(Lines(list)) + m.lines
         /\ SumFunction(Counts(Append(list, m))) = SumFunction(Counts(list)) + m.dropped
<1> DEFINE longer == Append(list, m)
           n == Len(list)
<1>1. longer \in Seq(Message) /\ n \in Nat /\ Len(longer) = n + 1
  OBVIOUS
<1>2. longer[n + 1] = m /\ \A i \in 1 .. n : longer[i] = list[i]
  OBVIOUS
<1> HIDE DEF longer
<1>3. /\ Lines(list) \in [1 .. n -> Int] /\ Lines(longer) \in [1 .. n + 1 -> Int]
      /\ Counts(list) \in [1 .. n -> Int] /\ Counts(longer) \in [1 .. n + 1 -> Int]
  BY <1>1, FieldsType
<1>4. /\ \A i \in 1 .. n : Lines(longer)[i] = Lines(list)[i]
      /\ \A i \in 1 .. n : Counts(longer)[i] = Counts(list)[i]
      /\ Lines(longer)[n + 1] = m.lines /\ Counts(longer)[n + 1] = m.dropped
  BY <1>1, <1>2 DEF Lines, Counts
<1> HIDE DEF n
<1>5. SumFunction(Lines(longer)) = SumFunction(Lines(list)) + Lines(longer)[n + 1]
  BY <1>1, <1>3, <1>4, SumAppends
<1>6. SumFunction(Counts(longer)) = SumFunction(Counts(list)) + Counts(longer)[n + 1]
  BY <1>1, <1>3, <1>4, SumAppends
<1> QED
  BY <1>4, <1>5, <1>6 DEF longer

\* The first is consumed.
LEMMA SumsOfConsumed ==
  ASSUME NEW list \in Seq(Message), list # <<>>
  PROVE  /\ SumFunction(Lines(list)) = Head(list).lines + SumFunction(Lines(Tail(list)))
         /\ SumFunction(Counts(list)) = Head(list).dropped + SumFunction(Counts(Tail(list)))
         /\ SumFunction(Lines(Tail(list))) \in Int /\ SumFunction(Counts(Tail(list))) \in Int
<1> DEFINE rest == Tail(list)
           n == Len(rest)
<1>1. rest \in Seq(Message) /\ n \in Nat /\ Len(list) = n + 1
  OBVIOUS
<1>2. list[1] = Head(list) /\ \A i \in 1 .. n : rest[i] = list[i + 1]
  OBVIOUS
<1> HIDE DEF rest
<1>3. /\ Lines(list) \in [1 .. n + 1 -> Int] /\ Lines(rest) \in [1 .. n -> Int]
      /\ Counts(list) \in [1 .. n + 1 -> Int] /\ Counts(rest) \in [1 .. n -> Int]
  BY <1>1, FieldsType
<1>4. /\ \A i \in 1 .. n : Lines(rest)[i] = Lines(list)[i + 1]
      /\ \A i \in 1 .. n : Counts(rest)[i] = Counts(list)[i + 1]
      /\ Lines(list)[1] = Head(list).lines /\ Counts(list)[1] = Head(list).dropped
  BY <1>1, <1>2 DEF Lines, Counts
<1> HIDE DEF n
<1>5. /\ SumFunction(Lines(list)) = Lines(list)[1] + SumFunction(Lines(rest))
      /\ SumFunction(Lines(rest)) \in Int
  BY <1>1, <1>3, <1>4, SumShifts
<1>6. /\ SumFunction(Counts(list)) = Counts(list)[1] + SumFunction(Counts(rest))
      /\ SumFunction(Counts(rest)) \in Int
  BY <1>1, <1>3, <1>4, SumShifts
<1> QED
  BY <1>4, <1>5, <1>6 DEF rest

\* A sum is a number.
LEMMA SumIsInt ==
  ASSUME NEW S, IsFiniteSet(S), NEW f \in [S -> Int]
  PROVE  SumFunction(f) \in Int
<1>1. PICK g : IsSum(g, f, S) /\ SumFunction(f) = g[S]
  BY SumIs
<1>2. Adds(g, f, S)
  BY <1>1, SumAdds
<1> QED
  BY <1>1, <1>2 DEF Adds

LEMMA TasksFinite == IsFiniteSet(Tasks)
  BY ProducersAssumption, FS_AddElement DEF Tasks

\* All that the balance is made of are numbers.
LEMMA NumbersType ==
  ASSUME QueueType
  PROVE  /\ LinesQueued \in Int /\ DroppedQueued \in Int /\ SumFunction(held) \in Int
         /\ \A places : Cardinality(Waiting(places)) \in Nat
<1>1. queue \in Seq(Message) /\ Len(queue) \in Nat
  BY DEF QueueType
<1>2. IsFiniteSet(1 .. Len(queue))
  BY <1>1, FS_Interval
<1>3. LinesQueued \in Int
  BY <1>1, <1>2, SumsAre, FieldsType, SumIsInt
<1>4. DroppedQueued \in Int
  BY <1>1, <1>2, SumsAre, FieldsType, SumIsInt
<1>5. held \in [Tasks -> Int]
  BY DEF QueueType
<1>6. SumFunction(held) \in Int
  BY <1>5, TasksFinite, SumIsInt
<1> QED
  BY <1>3, <1>4, <1>6, WaitingType

\* Somebody takes, or gives up, a count.
LEMMA HeldChanges ==
  ASSUME QueueType, NEW t \in Tasks, NEW n \in Nat, held' = [held EXCEPT ![t] = n]
  PROVE  SumFunction(held') = SumFunction(held) - held[t] + n
<1> DEFINE e == [held EXCEPT ![t] = n]
<1>1. held \in [Tasks -> Int] /\ e \in [Tasks -> Int]
  BY DEF QueueType
<1>2. e[t] = n /\ \A y \in Tasks \ {t} : e[y] = held[y]
  BY DEF QueueType
<1>3. held' = e
  OBVIOUS
<1> HIDE DEF e
<1>4. SumFunction(e) = SumFunction(held) - held[t] + e[t]
  BY <1>1, <1>2, TasksFinite, SumChanges
<1> QED
  BY <1>2, <1>3, <1>4

LEMMA SumsStay ==
  ASSUME queue' = queue
  PROVE  LinesQueued' = LinesQueued /\ DroppedQueued' = DroppedQueued
  BY DEF LinesQueued, DroppedQueued

LEMMA SumsSend ==
  ASSUME QueueType, NEW m \in Message, queue' = Append(queue, m)
  PROVE  LinesQueued' = LinesQueued + m.lines /\ DroppedQueued' = DroppedQueued + m.dropped
<1>1. queue \in Seq(Message)
  BY DEF QueueType
<1>2. /\ LinesQueued' = SumFunction(Lines(Append(queue, m)))
      /\ DroppedQueued' = SumFunction(Counts(Append(queue, m)))
  BY DEF LinesQueued, DroppedQueued, Lines, Counts
<1> QED
  BY <1>1, <1>2, SumsAre, SumsOfSent

LEMMA SumsConsume ==
  ASSUME QueueType, queue # <<>>, queue' = Tail(queue)
  PROVE  /\ LinesQueued = Head(queue).lines + LinesQueued' /\ LinesQueued' \in Int
         /\ DroppedQueued = Head(queue).dropped + DroppedQueued' /\ DroppedQueued' \in Int
<1>1. queue \in Seq(Message)
  BY DEF QueueType
<1>2. LinesQueued' = SumFunction(Lines(Tail(queue))) /\ DroppedQueued' = SumFunction(Counts(Tail(queue)))
  BY DEF LinesQueued, DroppedQueued, Lines, Counts
<1> QED
  BY <1>1, <1>2, SumsAre, SumsOfConsumed

\* As long as no shutdown was sent the queue has nothing but lines.
LEMMA LinesAreAll ==
  ASSUME QueueType, \A i \in 1 .. Len(queue) : queue[i].lines = 1
  PROVE  LinesQueued = Len(queue)
<1> DEFINE n == Len(queue)
<1>1. n \in Nat /\ Lines(queue) \in [1 .. n -> Int]
  BY FieldsType DEF QueueType
<1>2. \A i \in 1 .. n : Lines(queue)[i] = 1
  BY DEF Lines
<1> HIDE DEF n
<1>3. SumFunction(Lines(queue)) = n
  BY <1>1, <1>2, SumOfOnes
<1> QED
  BY <1>3, SumsAre DEF n

-------------------------------------------------------------------------------
(* Every action keeps the invariant.                                       *)

LEMMA InitKeeps == Init => IInv
<1> SUFFICES ASSUME Init PROVE IInv
  OBVIOUS
<1>1. QueueType /\ HeldInv
  BY DEF Init, QueueType, HeldInv, Tasks, Message, Place
<1>2. \A places : "idle" \notin places => Waiting(places) = {} /\ Cardinality(Waiting(places)) = 0
  BY FS_EmptySet DEF Init, Waiting
<1>3. SumFunction(held) = 0
  <2>1. held \in [Tasks -> Int] /\ \A t \in Tasks : held[t] = 0
    BY DEF Init, Tasks
  <2> QED
    BY <2>1, TasksFinite, SumOfZeros
<1>4. Len(queue) = 0
  BY DEF Init
<1>5. LinesQueued = 0 /\ DroppedQueued = 0
  <2>1. 1 .. Len(queue) = {} /\ queue \in Seq(Message)
    BY <1>1, <1>4 DEF QueueType
  <2>2. /\ Lines(queue) \in [1 .. Len(queue) -> Int] /\ Counts(queue) \in [1 .. Len(queue) -> Int]
        /\ IsFiniteSet(1 .. Len(queue))
    BY <1>4, <2>1, FieldsType, FS_EmptySet
  <2>3. SumFunction(Lines(queue)) = 0
    BY <2>1, <2>2, SumOfZeros
  <2>4. SumFunction(Counts(queue)) = 0
    BY <2>1, <2>2, SumOfZeros
  <2> QED
    BY <2>3, <2>4, SumsAre
<1>6. EveryLineIsCounted
  <2>1. Cardinality(Waiting({"reserved", "swapped", "full"})) = 0
    BY <1>2
  <2> QED
    BY <1>3, <1>5, <2>1 DEF Init, EveryLineIsCounted, Known
<1>7. SpaceInv
  <2>1. Cardinality(Waiting({"reserved", "swapped"})) = 0
    BY <1>2
  <2> QED
    BY <1>4, <2>1, CapacityAssumption DEF SpaceInv
<1>8. ShutdownInv
  <2>1. at[Main] = "idle" /\ logger = "running" /\ 1 .. Len(queue) = {}
    BY <1>4 DEF Init
  <2> QED
    BY <2>1 DEF ShutdownInv
<1> QED
  BY <1>1, <1>6, <1>7, <1>8 DEF IInv

\* What a producer does is nothing to the shutdown, unless it sends a line.
LEMMA MainUnmoved ==
  ASSUME QueueType, NEW p \in Producers, NEW place, at' = [at EXCEPT ![p] = place]
  PROVE  at'[Main] = at[Main] /\ at'[p] = place /\ \A q \in Producers \ {p} : at'[q] = at[q]
  BY ProducersAssumption DEF QueueType, Tasks

LEMMA ShutdownUnmoved ==
  ASSUME ShutdownInv, at'[Main] = at[Main], UNCHANGED <<queue, logger, written, due>>
  PROVE  ShutdownInv'
  BY DEF ShutdownInv, ShutdownAt

LEMMA ReserveKeeps ==
  ASSUME IInv, NEW p \in Producers, Reserve(p)
  PROVE  IInv'
<1>1. /\ QueueType /\ HeldInv /\ EveryLineIsCounted /\ ShutdownInv /\ SpaceInv
      /\ LinesQueued' = LinesQueued /\ DroppedQueued' = DroppedQueued
      /\ SumFunction(held') = SumFunction(held) /\ offers' = offers + 1
      /\ UNCHANGED <<held, queue, dropped, logger, written, reported, due>> /\ at[p] = "idle"
  BY SumsStay DEF IInv, Reserve
<1>2. /\ LinesQueued \in Int /\ DroppedQueued \in Int /\ SumFunction(held) \in Int
      /\ \A places : Cardinality(Waiting(places)) \in Nat
  BY <1>1, NumbersType
<1>3. CASE logger # "running" /\ rejected' = rejected + 1 /\ UNCHANGED at
  <2>1. \A places : Waiting(places)' = Waiting(places)
    BY <1>3 DEF Waiting
  <2>2. QueueType' /\ HeldInv'
    BY <1>1, <1>3 DEF QueueType, HeldInv
  <2>3. EveryLineIsCounted'
    BY <1>1, <1>2, <1>3, <2>1 DEF EveryLineIsCounted, Known, QueueType
  <2>4. ShutdownInv'
    BY <1>1, <1>3, ShutdownUnmoved
  <2>5. SpaceInv'
    BY <1>1, <2>1 DEF SpaceInv
  <2> QED
    BY <2>2, <2>3, <2>4, <2>5 DEF IInv
<1>4. CASE /\ logger = "running" /\ UNCHANGED rejected
           /\ at' = [at EXCEPT ![p] = IF FreeForProducers > 0 THEN "reserved" ELSE "full"]
  <2> DEFINE place == IF FreeForProducers > 0 THEN "reserved" ELSE "full"
  <2>1. at' = [at EXCEPT ![p] = place] /\ place \in {"reserved", "full"}
        /\ (place = "reserved" => FreeForProducers > 0)
    BY <1>4
  <2> HIDE DEF place
  <2>2. at'[Main] = at[Main] /\ at'[p] = place /\ \A q \in Producers \ {p} : at'[q] = at[q]
    BY <1>1, <2>1, MainUnmoved
  <2>3. QueueType'
    <3>1. at' \in [Tasks -> Place]
      BY <1>1, <2>1 DEF QueueType, Place
    <3> QED
      BY <1>1, <1>4, <2>1, <2>2, <3>1 DEF QueueType
  <2>4. HeldInv'
    BY <1>1, <2>1, <2>2 DEF HeldInv
  <2>5. EveryLineIsCounted'
    <3> DEFINE places == {"reserved", "swapped", "full"}
    <3>1. Cardinality(Waiting(places)') = Cardinality(Waiting(places)) + 1
      <4>1. Cardinality(Waiting(places)') = Cardinality(Waiting(places))
              - (IF at[p] \in places THEN 1 ELSE 0) + (IF place \in places THEN 1 ELSE 0)
        BY <1>1, <2>1, WaitingMoves
      <4> QED
        BY <1>1, <1>2, <2>1, <4>1
    <3> QED
      BY <1>1, <1>2, <1>4, <3>1 DEF EveryLineIsCounted, Known, QueueType
  <2>6. ShutdownInv'
    BY <1>1, <2>2, ShutdownUnmoved
  <2>7. SpaceInv'
    <3> DEFINE places == {"reserved", "swapped"}
    <3>1. Cardinality(Waiting(places)') = Cardinality(Waiting(places))
            - (IF at[p] \in places THEN 1 ELSE 0) + (IF place \in places THEN 1 ELSE 0)
      BY <1>1, <2>1, WaitingMoves
    <3>2. CASE place = "reserved"
      <4>1. Cardinality(Waiting(places)') = Cardinality(Waiting(places)) + 1
        BY <1>1, <1>2, <3>1, <3>2
      <4>2. Capacity - Len(queue) - Cardinality(Waiting(places)) > 0
        BY <1>1, <1>2, <2>1, <3>2, CapacityAssumption DEF FreeForProducers, Free, QueueType
      <4> QED
        BY <1>1, <1>2, <4>1, <4>2, CapacityAssumption DEF SpaceInv, QueueType
    <3>3. CASE place = "full"
      <4>1. Cardinality(Waiting(places)') = Cardinality(Waiting(places))
        BY <1>1, <1>2, <3>1, <3>3
      <4> QED
        BY <1>1, <4>1 DEF SpaceInv
    <3> QED
      BY <2>1, <3>2, <3>3
  <2> QED
    BY <2>3, <2>4, <2>5, <2>6, <2>7 DEF IInv
<1> QED
  BY <1>3, <1>4 DEF Reserve

LEMMA CountDroppedKeeps ==
  ASSUME IInv, NEW p \in Producers, CountDropped(p)
  PROVE  IInv'
<1>1. /\ QueueType /\ HeldInv /\ EveryLineIsCounted /\ ShutdownInv /\ SpaceInv
      /\ LinesQueued' = LinesQueued /\ DroppedQueued' = DroppedQueued
      /\ at[p] = "full" /\ at' = [at EXCEPT ![p] = "idle"] /\ dropped' = dropped + 1
      /\ UNCHANGED <<held, queue, logger, written, reported, offers, rejected, due>>
  BY SumsStay DEF IInv, CountDropped
<1>2. /\ LinesQueued \in Int /\ DroppedQueued \in Int /\ SumFunction(held) \in Int
      /\ \A places : Cardinality(Waiting(places)) \in Nat
  BY <1>1, NumbersType
<1>3. at'[Main] = at[Main] /\ at'[p] = "idle" /\ \A q \in Producers \ {p} : at'[q] = at[q]
  BY <1>1, MainUnmoved
<1>4. QueueType' /\ HeldInv'
  BY <1>1, <1>3 DEF QueueType, HeldInv, Place
<1>5. EveryLineIsCounted'
  <2> DEFINE places == {"reserved", "swapped", "full"}
  <2>1. Cardinality(Waiting(places)') = Cardinality(Waiting(places)) - 1
    <3>1. Cardinality(Waiting(places)') = Cardinality(Waiting(places))
            - (IF at[p] \in places THEN 1 ELSE 0) + (IF "idle" \in places THEN 1 ELSE 0)
      BY <1>1, WaitingMoves
    <3> QED
      BY <1>1, <1>2, <3>1
  <2> QED
    BY <1>1, <1>2, <2>1 DEF EveryLineIsCounted, Known, QueueType
<1>6. SpaceInv'
  <2> DEFINE places == {"reserved", "swapped"}
  <2>1. Cardinality(Waiting(places)') = Cardinality(Waiting(places))
    <3>1. Cardinality(Waiting(places)') = Cardinality(Waiting(places))
            - (IF at[p] \in places THEN 1 ELSE 0) + (IF "idle" \in places THEN 1 ELSE 0)
      BY <1>1, WaitingMoves
    <3> QED
      BY <1>1, <1>2, <3>1
  <2> QED
    BY <1>1, <2>1 DEF SpaceInv
<1> QED
  BY <1>1, <1>3, <1>4, <1>5, <1>6, ShutdownUnmoved DEF IInv

LEMMA SwapCountKeeps ==
  ASSUME IInv, NEW p \in Producers, SwapCount(p)
  PROVE  IInv'
<1>1. /\ QueueType /\ HeldInv /\ EveryLineIsCounted /\ ShutdownInv /\ SpaceInv
      /\ LinesQueued' = LinesQueued /\ DroppedQueued' = DroppedQueued
      /\ at[p] = "reserved" /\ at' = [at EXCEPT ![p] = "swapped"]
      /\ held' = [held EXCEPT ![p] = dropped] /\ dropped' = 0
      /\ UNCHANGED <<queue, logger, written, reported, offers, rejected, due>>
  BY SumsStay DEF IInv, SwapCount
<1>2. /\ LinesQueued \in Int /\ DroppedQueued \in Int /\ SumFunction(held) \in Int
      /\ \A places : Cardinality(Waiting(places)) \in Nat
  BY <1>1, NumbersType
<1>3. at'[Main] = at[Main] /\ at'[p] = "swapped" /\ \A q \in Producers \ {p} : at'[q] = at[q]
  BY <1>1, MainUnmoved
<1>4. /\ held[p] = 0 /\ held'[Main] = held[Main] /\ p \in Tasks
      /\ \A q \in Producers \ {p} : held'[q] = held[q]
  BY <1>1, ProducersAssumption DEF HeldInv, QueueType, Tasks
<1>5. QueueType'
  <2>1. at' \in [Tasks -> Place] /\ held' \in [Tasks -> Nat]
    BY <1>1 DEF QueueType, Place
  <2> QED
    BY <1>1, <1>3, <2>1 DEF QueueType
<1>6. HeldInv'
  BY <1>1, <1>3, <1>4 DEF HeldInv
<1>7. SumFunction(held') = SumFunction(held) + dropped
  <2>1. dropped \in Nat
    BY <1>1 DEF QueueType
  <2>2. SumFunction(held') = SumFunction(held) - held[p] + dropped
    BY <1>1, <1>4, <2>1, HeldChanges
  <2> QED
    BY <1>2, <1>4, <2>1, <2>2
<1>8. ASSUME NEW places, "reserved" \in places, "swapped" \in places
      PROVE  Cardinality(Waiting(places)') = Cardinality(Waiting(places))
  <2>1. Cardinality(Waiting(places)') = Cardinality(Waiting(places))
          - (IF at[p] \in places THEN 1 ELSE 0) + (IF "swapped" \in places THEN 1 ELSE 0)
    BY <1>1, WaitingMoves
  <2> QED
    BY <1>1, <1>2, <1>8, <2>1
<1>9. EveryLineIsCounted'
  <2>1. Cardinality(Waiting({"reserved", "swapped", "full"})')
          = Cardinality(Waiting({"reserved", "swapped", "full"}))
    BY <1>8
  <2> QED
    BY <1>1, <1>2, <1>7, <2>1 DEF EveryLineIsCounted, Known, QueueType
<1>10. SpaceInv'
  <2>1. Cardinality(Waiting({"reserved", "swapped"})') = Cardinality(Waiting({"reserved", "swapped"}))
    BY <1>8
  <2> QED
    BY <1>1, <2>1 DEF SpaceInv
<1> QED
  BY <1>1, <1>3, <1>5, <1>6, <1>9, <1>10, ShutdownUnmoved DEF IInv

\* A line behind the shutdown is nothing to it, one before it is one more.
LEMMA LineKeepsShutdown ==
  ASSUME QueueType, ShutdownInv, NEW m \in Message, m.lines = 1,
         queue' = Append(queue, m), at'[Main] = at[Main], UNCHANGED <<logger, written, due>>
  PROVE  ShutdownInv'
<1>1. /\ queue \in Seq(Message) /\ Len(queue) \in Nat /\ Len(queue') = Len(queue) + 1
      /\ written \in Nat /\ due \in Nat
  BY DEF QueueType
<1>2. queue'[Len(queue) + 1] = m /\ \A i \in 1 .. Len(queue) : queue'[i] = queue[i]
  BY <1>1
<1>3. CASE at[Main] \in {"idle", "sending"}
  <2>1. logger # "ended" /\ \A i \in 1 .. Len(queue) : queue[i].lines = 1
    BY <1>3 DEF ShutdownInv
  <2>2. \A i \in 1 .. Len(queue') : queue'[i].lines = 1
    BY <1>1, <1>2, <2>1
  <2>3. at[Main] = "sending" => written + Len(queue) >= due
    BY DEF ShutdownInv
  <2>4. at'[Main] = "sending" => written' + Len(queue') >= due'
    BY <1>1, <2>3
  <2> QED
    BY <1>3, <2>1, <2>2, <2>4 DEF ShutdownInv
<1>4. CASE at[Main] \in {"joining", "finished"} /\ logger = "running"
  <2>1. PICK k \in 1 .. Len(queue) : ShutdownAt(k)
    BY <1>4 DEF ShutdownInv
  <2>2. k \in 1 .. Len(queue') /\ ShutdownAt(k)'
    BY <1>1, <1>2, <2>1 DEF ShutdownAt
  <2> QED
    BY <1>4, <2>2 DEF ShutdownInv
<1>5. CASE at[Main] \in {"joining", "finished"} /\ logger # "running"
  BY <1>5 DEF ShutdownInv
<1> QED
  BY <1>3, <1>4, <1>5 DEF QueueType

LEMMA SendLineKeeps ==
  ASSUME IInv, NEW p \in Producers, SendLine(p)
  PROVE  IInv'
<1> DEFINE m == [lines |-> 1, dropped |-> held[p]]
<1>1. /\ QueueType /\ HeldInv /\ EveryLineIsCounted /\ ShutdownInv /\ SpaceInv
      /\ at[p] = "swapped" /\ at' = [at EXCEPT ![p] = "idle"]
      /\ queue' = Append(queue, m) /\ held' = [held EXCEPT ![p] = 0]
      /\ UNCHANGED <<dropped, logger, written, reported, offers, rejected, due>>
  BY DEF IInv, SendLine
<1>2. /\ LinesQueued \in Int /\ DroppedQueued \in Int /\ SumFunction(held) \in Int
      /\ \A places : Cardinality(Waiting(places)) \in Nat
  BY <1>1, NumbersType
<1>3. at'[Main] = at[Main] /\ at'[p] = "idle" /\ \A q \in Producers \ {p} : at'[q] = at[q]
  BY <1>1, MainUnmoved
<1>4. /\ held[p] \in Nat /\ held'[p] = 0 /\ held'[Main] = held[Main] /\ p \in Tasks
      /\ \A q \in Producers \ {p} : held'[q] = held[q]
  BY <1>1, ProducersAssumption DEF QueueType, Tasks
<1>5. m \in Message /\ m.lines = 1 /\ m.dropped = held[p]
  BY <1>4 DEF Message
<1> HIDE DEF m
<1>6. QueueType' /\ Len(queue') = Len(queue) + 1
  <2>1. at' \in [Tasks -> Place] /\ held' \in [Tasks -> Nat]
    BY <1>1 DEF QueueType, Place
  <2>2. queue' \in Seq(Message) /\ Len(queue') = Len(queue) + 1
    BY <1>1, <1>5 DEF QueueType
  <2> QED
    BY <1>1, <1>3, <2>1, <2>2 DEF QueueType
<1>7. HeldInv'
  BY <1>1, <1>3, <1>4 DEF HeldInv
<1>8. LinesQueued' = LinesQueued + 1 /\ DroppedQueued' = DroppedQueued + held[p]
  BY <1>1, <1>5, SumsSend
<1>9. SumFunction(held') = SumFunction(held) - held[p]
  <2>1. SumFunction(held') = SumFunction(held) - held[p] + 0
    BY <1>1, <1>4, HeldChanges
  <2> QED
    BY <1>2, <1>4, <2>1
<1>10. ASSUME NEW places, "swapped" \in places, "idle" \notin places
       PROVE  Cardinality(Waiting(places)') = Cardinality(Waiting(places)) - 1
  <2>1. Cardinality(Waiting(places)') = Cardinality(Waiting(places))
          - (IF at[p] \in places THEN 1 ELSE 0) + (IF "idle" \in places THEN 1 ELSE 0)
    BY <1>1, WaitingMoves
  <2> QED
    BY <1>1, <1>2, <1>10, <2>1
<1>11. EveryLineIsCounted'
  <2>1. Cardinality(Waiting({"reserved", "swapped", "full"})')
          = Cardinality(Waiting({"reserved", "swapped", "full"})) - 1
    BY <1>10
  <2> QED
    BY <1>1, <1>2, <1>4, <1>8, <1>9, <2>1 DEF EveryLineIsCounted, Known, QueueType
<1>12. SpaceInv'
  <2>1. Cardinality(Waiting({"reserved", "swapped"})')
          = Cardinality(Waiting({"reserved", "swapped"})) - 1
    BY <1>10
  <2>2. Len(queue) \in Nat
    BY <1>1 DEF QueueType
  <2> QED
    BY <1>1, <1>2, <1>6, <2>1, <2>2 DEF SpaceInv
<1>13. ShutdownInv'
  BY <1>1, <1>3, <1>5, LineKeepsShutdown
<1> QED
  BY <1>6, <1>7, <1>11, <1>12, <1>13 DEF IInv

\* A step of main leaves the producers where they are.
LEMMA ProducersUnmoved ==
  ASSUME QueueType, NEW place, at' = [at EXCEPT ![Main] = place]
  PROVE  /\ at'[Main] = place /\ \A q \in Producers : at'[q] = at[q]
         /\ \A places : Waiting(places)' = Waiting(places)
<1>1. at'[Main] = place /\ \A q \in Producers : at'[q] = at[q]
  BY ProducersAssumption DEF QueueType, Tasks
<1> QED
  BY <1>1 DEF Waiting

LEMMA BeginShutdownKeeps ==
  ASSUME IInv, BeginShutdown
  PROVE  IInv'
<1>1. /\ QueueType /\ HeldInv /\ EveryLineIsCounted /\ ShutdownInv /\ SpaceInv
      /\ LinesQueued' = LinesQueued /\ DroppedQueued' = DroppedQueued
      /\ at[Main] = "idle" /\ at' = [at EXCEPT ![Main] = "sending"]
      /\ held' = [held EXCEPT ![Main] = dropped] /\ dropped' = 0
      /\ due' = written + LinesQueued
      /\ UNCHANGED <<queue, logger, written, reported, offers, rejected>>
  BY SumsStay DEF IInv, BeginShutdown
<1>2. /\ LinesQueued \in Int /\ DroppedQueued \in Int /\ SumFunction(held) \in Int
      /\ \A places : Cardinality(Waiting(places)) \in Nat
  BY <1>1, NumbersType
<1>3. /\ at'[Main] = "sending" /\ \A q \in Producers : at'[q] = at[q]
      /\ \A places : Waiting(places)' = Waiting(places)
  BY <1>1, ProducersUnmoved
<1>4. /\ held[Main] = 0 /\ Main \in Tasks /\ dropped \in Nat
      /\ \A q \in Producers : held'[q] = held[q]
  BY <1>1, ProducersAssumption DEF HeldInv, QueueType, Tasks
<1>5. logger # "ended" /\ \A i \in 1 .. Len(queue) : queue[i].lines = 1
  BY <1>1 DEF ShutdownInv
<1>6. LinesQueued = Len(queue) /\ Len(queue) \in Nat /\ written \in Nat
  BY <1>1, <1>5, LinesAreAll DEF QueueType
<1>7. QueueType'
  <2>1. at' \in [Tasks -> Place] /\ held' \in [Tasks -> Nat]
    BY <1>1 DEF QueueType, Place
  <2> QED
    BY <1>1, <1>3, <1>6, <2>1 DEF QueueType
<1>8. HeldInv'
  BY <1>1, <1>3, <1>4 DEF HeldInv
<1>9. SumFunction(held') = SumFunction(held) + dropped
  <2>1. SumFunction(held') = SumFunction(held) - held[Main] + dropped
    BY <1>1, <1>4, HeldChanges
  <2> QED
    BY <1>2, <1>4, <2>1
<1>10. EveryLineIsCounted'
  BY <1>1, <1>2, <1>3, <1>9 DEF EveryLineIsCounted, Known, QueueType
<1>11. SpaceInv'
  BY <1>1, <1>3 DEF SpaceInv
<1>12. ShutdownInv'
  BY <1>1, <1>3, <1>5, <1>6 DEF ShutdownInv
<1> QED
  BY <1>7, <1>8, <1>10, <1>11, <1>12 DEF IInv

LEMMA SendShutdownKeeps ==
  ASSUME IInv, SendShutdown
  PROVE  IInv'
<1> DEFINE m == [lines |-> 0, dropped |-> held[Main]]
<1>1. /\ QueueType /\ HeldInv /\ EveryLineIsCounted /\ ShutdownInv /\ SpaceInv
      /\ at[Main] = "sending" /\ logger = "running" /\ Free > 0
      /\ at' = [at EXCEPT ![Main] = "joining"]
      /\ queue' = Append(queue, m) /\ held' = [held EXCEPT ![Main] = 0]
      /\ UNCHANGED <<dropped, logger, written, reported, offers, rejected, due>>
  BY DEF IInv, SendShutdown
<1>2. /\ LinesQueued \in Int /\ DroppedQueued \in Int /\ SumFunction(held) \in Int
      /\ \A places : Cardinality(Waiting(places)) \in Nat
  BY <1>1, NumbersType
<1>3. /\ at'[Main] = "joining" /\ \A q \in Producers : at'[q] = at[q]
      /\ \A places : Waiting(places)' = Waiting(places)
  BY <1>1, ProducersUnmoved
<1>4. /\ held[Main] \in Nat /\ held'[Main] = 0 /\ Main \in Tasks
      /\ \A q \in Producers : held'[q] = held[q]
  BY <1>1, ProducersAssumption DEF QueueType, Tasks
<1>5. m \in Message /\ m.lines = 0 /\ m.dropped = held[Main]
  BY <1>4 DEF Message
<1> HIDE DEF m
<1>6. /\ queue \in Seq(Message) /\ Len(queue) \in Nat /\ Len(queue') = Len(queue) + 1
      /\ queue' \in Seq(Message)
      /\ queue'[Len(queue) + 1] = m /\ \A i \in 1 .. Len(queue) : queue'[i] = queue[i]
  BY <1>1, <1>5 DEF QueueType
<1>7. QueueType'
  <2>1. at' \in [Tasks -> Place] /\ held' \in [Tasks -> Nat]
    BY <1>1 DEF QueueType, Place
  <2> QED
    BY <1>1, <1>3, <1>6, <2>1 DEF QueueType
<1>8. HeldInv'
  BY <1>1, <1>3, <1>4 DEF HeldInv
<1>9. LinesQueued' = LinesQueued /\ DroppedQueued' = DroppedQueued + held[Main]
  <2>1. LinesQueued' = LinesQueued + 0 /\ DroppedQueued' = DroppedQueued + held[Main]
    BY <1>1, <1>5, SumsSend
  <2> QED
    BY <1>2, <2>1
<1>10. SumFunction(held') = SumFunction(held) - held[Main]
  <2>1. SumFunction(held') = SumFunction(held) - held[Main] + 0
    BY <1>1, <1>4, HeldChanges
  <2> QED
    BY <1>2, <1>4, <2>1
<1>11. EveryLineIsCounted'
  BY <1>1, <1>2, <1>3, <1>4, <1>9, <1>10 DEF EveryLineIsCounted, Known, QueueType
<1>12. SpaceInv'
  BY <1>1, <1>2, <1>3, <1>6, CapacityAssumption DEF SpaceInv, Free
<1>13. ShutdownInv'
  <2>1. /\ \A i \in 1 .. Len(queue) : queue[i].lines = 1
        /\ written + Len(queue) >= due
    BY <1>1 DEF ShutdownInv
  <2>0. \E k \in Nat : k = Len(queue) + 1
    BY <1>6
  <2>2. PICK k \in Nat : k = Len(queue) + 1
    BY <2>0
  <2>3. queue'[k].lines = 0 /\ \A i \in 1 .. Len(queue) : queue'[i].lines = 1
    BY <1>5, <1>6, <2>1, <2>2
  <2>4. 1 .. k - 1 = 1 .. Len(queue) /\ written' + (k - 1) >= due' /\ k \in 1 .. Len(queue')
    BY <1>1, <1>6, <2>1, <2>2
  <2>5. ShutdownAt(k)'
    BY <2>3, <2>4 DEF ShutdownAt
  <2>6. \E j \in 1 .. Len(queue') : ShutdownAt(j)'
    BY <2>4, <2>5
  <2> QED
    BY <1>1, <1>3, <2>6 DEF ShutdownInv
<1> QED
  BY <1>7, <1>8, <1>11, <1>12, <1>13 DEF IInv

LEMMA ShutdownRefusedKeeps ==
  ASSUME IInv, ShutdownRefused
  PROVE  IInv'
<1>1. /\ QueueType /\ HeldInv /\ EveryLineIsCounted /\ ShutdownInv /\ SpaceInv
      /\ LinesQueued' = LinesQueued /\ DroppedQueued' = DroppedQueued
      /\ at[Main] = "sending" /\ logger # "running" /\ at' = [at EXCEPT ![Main] = "joining"]
      /\ dropped' = dropped + held[Main] /\ held' = [held EXCEPT ![Main] = 0]
      /\ UNCHANGED <<queue, logger, written, reported, offers, rejected, due>>
  BY SumsStay DEF IInv, ShutdownRefused
<1>2. /\ LinesQueued \in Int /\ DroppedQueued \in Int /\ SumFunction(held) \in Int
      /\ \A places : Cardinality(Waiting(places)) \in Nat
  BY <1>1, NumbersType
<1>3. /\ at'[Main] = "joining" /\ \A q \in Producers : at'[q] = at[q]
      /\ \A places : Waiting(places)' = Waiting(places)
  BY <1>1, ProducersUnmoved
<1>4. /\ held[Main] \in Nat /\ held'[Main] = 0 /\ Main \in Tasks
      /\ \A q \in Producers : held'[q] = held[q]
  BY <1>1, ProducersAssumption DEF QueueType, Tasks
<1>5. QueueType'
  <2>1. at' \in [Tasks -> Place] /\ held' \in [Tasks -> Nat]
    BY <1>1 DEF QueueType, Place
  <2>2. dropped' \in Nat
    BY <1>1, <1>4 DEF QueueType
  <2> QED
    BY <1>1, <1>3, <2>1, <2>2 DEF QueueType
<1>6. HeldInv'
  BY <1>1, <1>3, <1>4 DEF HeldInv
<1>7. SumFunction(held') = SumFunction(held) - held[Main]
  <2>1. SumFunction(held') = SumFunction(held) - held[Main] + 0
    BY <1>1, <1>4, HeldChanges
  <2> QED
    BY <1>2, <1>4, <2>1
<1>8. EveryLineIsCounted'
  <2>1. {dropped, written, reported, offers, rejected} \subseteq Nat
    BY <1>1 DEF QueueType
  <2>2. Waiting({"reserved", "swapped", "full"})' = Waiting({"reserved", "swapped", "full"})
    BY <1>3
  <2> QED
    BY <1>1, <1>2, <1>4, <1>7, <2>1, <2>2 DEF EveryLineIsCounted, Known
<1>9. SpaceInv'
  BY <1>1, <1>3 DEF SpaceInv
<1>10. ShutdownInv'
  <2>1. logger = "failed"
    BY <1>1 DEF ShutdownInv, QueueType
  <2> QED
    BY <1>1, <1>3, <2>1 DEF ShutdownInv
<1> QED
  BY <1>5, <1>6, <1>8, <1>9, <1>10 DEF IInv

LEMMA JoinKeeps ==
  ASSUME IInv, Join
  PROVE  IInv'
<1>1. /\ QueueType /\ HeldInv /\ EveryLineIsCounted /\ ShutdownInv /\ SpaceInv
      /\ LinesQueued' = LinesQueued /\ DroppedQueued' = DroppedQueued
      /\ at[Main] = "joining" /\ logger # "running" /\ at' = [at EXCEPT ![Main] = "finished"]
      /\ UNCHANGED <<held, queue, dropped, logger, written, reported, offers, rejected, due>>
  BY SumsStay DEF IInv, Join
<1>2. /\ at'[Main] = "finished" /\ \A q \in Producers : at'[q] = at[q]
      /\ \A places : Waiting(places)' = Waiting(places)
  BY <1>1, ProducersUnmoved
<1>3. QueueType' /\ HeldInv'
  <2>1. at' \in [Tasks -> Place]
    BY <1>1 DEF QueueType, Place
  <2> QED
    BY <1>1, <1>2, <2>1 DEF QueueType, HeldInv
<1>4. EveryLineIsCounted' /\ SpaceInv'
  BY <1>1, <1>2 DEF EveryLineIsCounted, Known, SpaceInv
<1>5. ShutdownInv'
  BY <1>1, <1>2 DEF ShutdownInv
<1> QED
  BY <1>3, <1>4, <1>5 DEF IInv

LEMMA ConsumeKeeps ==
  ASSUME IInv, Consume
  PROVE  IInv'
<1>1. /\ QueueType /\ HeldInv /\ EveryLineIsCounted /\ ShutdownInv /\ SpaceInv
      /\ logger = "running" /\ queue # <<>> /\ queue' = Tail(queue)
      /\ written' = written + Head(queue).lines /\ reported' = reported + Head(queue).dropped
      /\ logger' = IF IsShutdown(Head(queue)) THEN "ended" ELSE logger
      /\ UNCHANGED <<at, held, dropped, offers, rejected, due>>
  BY DEF IInv, Consume
<1>2. /\ LinesQueued \in Int /\ DroppedQueued \in Int /\ SumFunction(held) \in Int
      /\ \A places : Cardinality(Waiting(places)) \in Nat
  BY <1>1, NumbersType
<1>3. /\ LinesQueued = Head(queue).lines + LinesQueued' /\ LinesQueued' \in Int
      /\ DroppedQueued = Head(queue).dropped + DroppedQueued' /\ DroppedQueued' \in Int
  BY <1>1, SumsConsume
<1>4. \A places : Waiting(places)' = Waiting(places)
  BY <1>1 DEF Waiting
<1>5. /\ queue \in Seq(Message) /\ Len(queue) \in Nat \ {0} /\ Len(queue') = Len(queue) - 1
      /\ queue' \in Seq(Message) /\ Head(queue) = queue[1] /\ Head(queue) \in Message
      /\ \A i \in 1 .. Len(queue') : queue'[i] = queue[i + 1]
  BY <1>1 DEF QueueType
<1>6. Head(queue).lines \in {0, 1} /\ Head(queue).dropped \in Nat
  BY <1>5 DEF Message
<1>7. QueueType' /\ HeldInv'
  BY <1>1, <1>5, <1>6 DEF QueueType, HeldInv
<1>8. EveryLineIsCounted'
  <2>1. {dropped, written, reported, offers, rejected} \subseteq Nat
    BY <1>1 DEF QueueType
  <2>2. Waiting({"reserved", "swapped", "full"})' = Waiting({"reserved", "swapped", "full"})
    BY <1>4
  <2> DEFINE a == Head(queue).lines
             b == Head(queue).dropped
             waiting == Cardinality(Waiting({"reserved", "swapped", "full"}))
  <2>3. /\ written' = written + a /\ reported' = reported + b /\ a \in Nat /\ b \in Nat
        /\ LinesQueued = a + LinesQueued' /\ DroppedQueued = b + DroppedQueued'
    BY <1>1, <1>3, <1>6
  <2>4. offers = written + LinesQueued + waiting
                   + (reported + dropped + DroppedQueued + SumFunction(held)) + rejected
    BY <1>1 DEF EveryLineIsCounted, Known
  <2>5. SumFunction(held') = SumFunction(held) /\ waiting \in Nat
    BY <1>1, <1>2
  <2> HIDE DEF a, b, waiting
  <2>6. offers = written' + LinesQueued' + waiting
                   + (reported' + dropped + DroppedQueued' + SumFunction(held)) + rejected
    BY <1>2, <1>3, <2>1, <2>3, <2>4, <2>5
  <2> QED
    BY <1>1, <2>2, <2>5, <2>6 DEF EveryLineIsCounted, Known, waiting
<1>9. SpaceInv'
  BY <1>1, <1>2, <1>4, <1>5, CapacityAssumption DEF SpaceInv
<1>10. CASE at[Main] \in {"idle", "sending"}
  <2>1. /\ \A i \in 1 .. Len(queue) : queue[i].lines = 1
        /\ at[Main] = "sending" => written + Len(queue) >= due
    BY <1>10 DEF ShutdownInv, IInv
  <2>2. Head(queue).lines = 1 /\ logger' = "running"
    BY <1>1, <1>5, <2>1 DEF IsShutdown
  <2>3. \A i \in 1 .. Len(queue') : queue'[i].lines = 1
    <3>1. \A i \in 1 .. Len(queue') : i + 1 \in 1 .. Len(queue)
      BY <1>5
    <3> QED
      BY <1>5, <2>1, <3>1
  <2>4. at[Main] = "sending" => written' + Len(queue') >= due
    BY <1>1, <1>5, <2>1, <2>2 DEF QueueType
  <2>5. ShutdownInv'
    BY <1>1, <1>10, <2>2, <2>3, <2>4 DEF ShutdownInv
  <2> QED
    BY <1>7, <1>8, <1>9, <2>5 DEF IInv
<1>11. CASE at[Main] \in {"joining", "finished"}
  <2>1. PICK k \in 1 .. Len(queue) : ShutdownAt(k)
    BY <1>1, <1>11 DEF ShutdownInv
  <2>2. at[Main] = "joining"
    BY <1>1, <1>11 DEF ShutdownInv
  <2>3. written \in Nat /\ due \in Nat
    BY <1>1 DEF QueueType
  <2>4. ASSUME k = 1 PROVE ShutdownInv'
    <3>1. Head(queue).lines = 0 /\ written >= due
      BY <1>5, <2>1, <2>3, <2>4 DEF ShutdownAt
    <3>2. logger' = "ended" /\ written' >= due'
      BY <1>1, <2>3, <3>1 DEF IsShutdown
    <3> QED
      BY <1>1, <2>2, <3>2 DEF ShutdownInv
  <2>5. ASSUME k # 1 PROVE ShutdownInv'
    <3>1. k - 1 \in 1 .. Len(queue') /\ 1 \in 1 .. k - 1
      BY <1>5, <2>1, <2>5
    <3>2. Head(queue).lines = 1 /\ logger' = "running"
      BY <1>1, <1>5, <2>1, <3>1 DEF IsShutdown, ShutdownAt
    <3>3. queue'[k - 1].lines = 0
      BY <1>5, <2>1, <3>1 DEF ShutdownAt
    <3>4. \A i \in 1 .. (k - 1) - 1 : queue'[i].lines = 1
      <4> SUFFICES ASSUME NEW i \in 1 .. (k - 1) - 1 PROVE queue'[i].lines = 1
        OBVIOUS
      <4>1. i \in 1 .. Len(queue') /\ i + 1 \in 1 .. k - 1
        BY <1>5, <2>1, <3>1
      <4>2. queue[i + 1].lines = 1
        BY <2>1, <4>1 DEF ShutdownAt
      <4>3. queue'[i] = queue[i + 1]
        BY <1>5, <4>1
      <4> QED
        BY <4>2, <4>3
    <3>5. written' + ((k - 1) - 1) >= due'
      BY <1>1, <2>1, <2>3, <3>2 DEF ShutdownAt
    <3>6. ShutdownAt(k - 1)'
      BY <3>3, <3>4, <3>5 DEF ShutdownAt
    <3>7. \E j \in 1 .. Len(queue') : ShutdownAt(j)'
      BY <3>1, <3>6
    <3> QED
      BY <1>1, <2>2, <3>2, <3>7 DEF ShutdownInv
  <2>6. ShutdownInv'
    BY <2>4, <2>5
  <2> QED
    BY <1>7, <1>8, <1>9, <2>6 DEF IInv
<1> QED
  BY <1>1, <1>10, <1>11 DEF QueueType

LEMMA LoggerFailsKeeps ==
  ASSUME IInv, LoggerFails \/ UNCHANGED vars
  PROVE  IInv'
<1>1. /\ QueueType /\ HeldInv /\ EveryLineIsCounted /\ ShutdownInv /\ SpaceInv
      /\ LinesQueued' = LinesQueued /\ DroppedQueued' = DroppedQueued
      /\ logger' \in {logger, "failed"}
      /\ UNCHANGED <<at, held, queue, dropped, written, reported, offers, rejected, due>>
  BY SumsStay DEF IInv, LoggerFails, vars
<1>2. \A places : Waiting(places)' = Waiting(places)
  BY <1>1 DEF Waiting
<1>3. QueueType' /\ HeldInv'
  BY <1>1 DEF QueueType, HeldInv
<1>4. EveryLineIsCounted' /\ SpaceInv'
  BY <1>1, <1>2 DEF EveryLineIsCounted, Known, SpaceInv
<1>5. ShutdownInv'
  BY <1>1 DEF ShutdownInv, ShutdownAt
<1> QED
  BY <1>3, <1>4, <1>5 DEF IInv

-------------------------------------------------------------------------------
(* The theorems.                                                           *)

\* Types, the balance of the lines, and the place of the shutdown in the queue
\* are as they should be in every reachable state, whoever logs in between.
THEOREM QueueInvariantHolds == Spec => []IInv
<1>1. IInv /\ [Next]_vars => IInv'
  <2> SUFFICES ASSUME IInv, [Next]_vars PROVE IInv'
    OBVIOUS
  <2>1. CASE \E p \in Producers : Reserve(p) \/ Produce(p)
    BY <2>1, ReserveKeeps, CountDroppedKeeps, SwapCountKeeps, SendLineKeeps DEF Produce
  <2>2. CASE BeginShutdown \/ Shutdown
    BY <2>2, BeginShutdownKeeps, SendShutdownKeeps, ShutdownRefusedKeeps, JoinKeeps DEF Shutdown
  <2>3. CASE Consume
    BY <2>3, ConsumeKeeps
  <2>4. CASE LoggerFails \/ UNCHANGED vars
    BY <2>4, LoggerFailsKeeps
  <2> QED
    BY <2>1, <2>2, <2>3, <2>4 DEF Next
<1> QED
  BY <1>1, InitKeeps, PTL DEF Spec

\* try_queue_line and the logger lose no line without counting it and count none
\* twice, with any number of threads between the steps of each other.
THEOREM EveryLineIsAccountedFor == Spec => []EveryLineIsCounted
<1>1. IInv => EveryLineIsCounted
  BY DEF IInv
<1> QED
  BY <1>1, QueueInvariantHolds, PTL

\* shutdown_logging returns only after every line queued before it was written.
THEOREM ShutdownWaitsForPending == Spec => []PendingAreWritten
<1>1. IInv => PendingAreWritten
  BY DEF IInv, ShutdownInv, PendingAreWritten
<1> QED
  BY <1>1, QueueInvariantHolds, PTL

\* The channel never holds more than its capacity, the places that try_reserve
\* has granted included: no send of a permit has to wait.
THEOREM QueueIsBounded == Spec => [](Len(queue) <= Capacity)
<1>1. IInv => Len(queue) <= Capacity
  BY WaitingType, CapacityAssumption DEF IInv, SpaceInv, QueueType
<1> QED
  BY <1>1, QueueInvariantHolds, PTL
===============================================================================
