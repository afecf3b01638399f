--------------------------- MODULE CollectionLemmas ---------------------------
(***************************************************************************)
(* What the proofs need of the operators that go over collections:         *)
(* SumFunctionOnSet, which adds up the values of a function on a finite    *)
(* set in an order of its own choice, and sequences that list a set in     *)
(* order.                                                                  *)
(*                                                                         *)
(* Each fact holds by induction on a size, stated as the absence of a      *)
(* least counterexample.                                                   *)
(***************************************************************************)
EXTENDS Functions, Sequences, FiniteSetTheorems, TLAPS

Less == {ss \in Nat \X Nat : ss[1] < ss[2]}

LEMMA LeastOf ==
  ASSUME NEW S \in SUBSET Nat, S # {}
  PROVE  \E i \in S : \A k \in S : i <= k
<1>1. IsWellFoundedOn(Less, Nat)
  BY NatLessThanWellFounded DEF OpToRel, Less
<1>2. PICK x \in S : \A y \in S : ~ (<<y, x>> \in Less)
  BY <1>1, WFMin
<1>3. ASSUME NEW y \in S PROVE x <= y
  <2>1. x \in Nat /\ y \in Nat
    OBVIOUS
  <2>2. CASE y < x
    <3>1. <<y, x>> \in Less
      BY <2>1, <2>2 DEF Less
    <3> QED BY <1>2, <3>1
  <2> QED BY <2>1, <2>2
<1> QED BY <1>3

-----------------------------------------------------------------------------
(* Sums *)

\* The recursion that SumFunctionOnSet stands for.
Pick(s)      == CHOOSE x \in s : TRUE
Step(f, g, s) == IF s = {} THEN 0 ELSE f[Pick(s)] + g[s \ {Pick(s)}]
Iter(f, S)   == CHOOSE g : g = [s \in SUBSET S |-> Step(f, g, s)]

LEMMA SumIsIter ==
  ASSUME NEW f, NEW S
  PROVE  SumFunctionOnSet(f, S) = Iter(f, S)[S]
BY DEF SumFunctionOnSet, FoldFunctionOnSet, MapThenFoldSet, Iter, Step, Pick

LEMMA PickIsElement ==
  ASSUME NEW s, s # {}
  PROVE  Pick(s) \in s
BY DEF Pick

\* Subsets of S with at most n elements.
UpTo(S, n) == {s \in SUBSET S : Cardinality(s) <= n}

LEMMA SizeWithout ==
  ASSUME NEW S, IsFiniteSet(S), NEW s \in SUBSET S, NEW x \in s
  PROVE  /\ Cardinality(s) \in Nat /\ Cardinality(s) > 0
         /\ s \ {x} \in SUBSET S /\ Cardinality(s \ {x}) = Cardinality(s) - 1
<1>1. IsFiniteSet(s)
  BY FS_Subset
<1>2. Cardinality(s) \in Nat /\ (Cardinality(s) = 0 <=> s = {})
  BY <1>1, FS_CardinalityType, FS_EmptySet
<1>3. Cardinality(s \ {x}) = Cardinality(s) - 1
  BY <1>1, FS_RemoveElement
<1> QED BY <1>2, <1>3

\* For sets of bounded size there is such a function, so there is one.
LEMMA IterExists ==
  ASSUME NEW f, NEW S, IsFiniteSet(S)
  PROVE  \E g : g = [s \in SUBSET S |-> Step(f, g, s)]
<1> DEFINE Upto(n) == \E g : \A s \in UpTo(S, n) : g[s] = Step(f, g, s)
           Bad == {n \in Nat : ~ Upto(n)}
<1>1. Upto(0)
  <2>1. \A s \in UpTo(S, 0) : s = {}
    <3> SUFFICES ASSUME NEW s \in UpTo(S, 0), s # {} PROVE FALSE
      OBVIOUS
    <3>1. s \in SUBSET S /\ Cardinality(s) <= 0
      BY DEF UpTo
    <3>2. PICK x \in s : TRUE
      OBVIOUS
    <3>3. Cardinality(s) \in Nat /\ Cardinality(s) > 0
      BY <3>1, <3>2, SizeWithout
    <3> QED BY <3>1, <3>3
  <2>2. \A s \in UpTo(S, 0) : [t \in {{}} |-> 0][s] = Step(f, [t \in {{}} |-> 0], s)
    BY <2>1 DEF Step
  <2> QED BY <2>2
<1>2. ASSUME NEW n \in Nat, Upto(n) PROVE Upto(n + 1)
  <2>1. PICK g : \A s \in UpTo(S, n) : g[s] = Step(f, g, s)
    BY <1>2
  <2> DEFINE h == [s \in SUBSET S |-> IF s \in UpTo(S, n) THEN g[s] ELSE Step(f, g, s)]
  <2>2. ASSUME NEW s \in UpTo(S, n + 1)
        PROVE  h[s] = Step(f, h, s)
    <3>1. s \in SUBSET S /\ Cardinality(s) <= n + 1
      BY DEF UpTo
    <3>2. h[s] = Step(f, g, s)
      BY <2>1, <3>1
    <3>3. ASSUME s # {} PROVE h[s \ {Pick(s)}] = g[s \ {Pick(s)}]
      <4>1. Pick(s) \in s
        BY <3>3, PickIsElement
      <4>2. s \ {Pick(s)} \in SUBSET S /\ Cardinality(s \ {Pick(s)}) <= n
        BY <3>1, <4>1, SizeWithout
      <4> QED BY <4>2 DEF UpTo
    <3> HIDE DEF h
    <3> QED BY <3>2, <3>3 DEF Step
  <2> HIDE DEF h
  <2> QED BY <2>2
<1> HIDE DEF Upto
<1>3. Bad = {}
  <2> SUFFICES ASSUME Bad # {} PROVE FALSE
    OBVIOUS
  <2>1. PICK n \in Bad : \A k \in Bad : n <= k
    BY LeastOf
  <2>2. n \in Nat /\ ~ Upto(n) /\ n # 0
    BY <1>1
  <2>3. n - 1 \in Nat /\ n - 1 \notin Bad
    BY <2>1, <2>2
  <2>4. Upto(n - 1)
    BY <2>3
  <2>5. Upto(n - 1 + 1)
    BY <1>2, <2>3, <2>4
  <2> QED BY <2>2, <2>5
<1>4. Cardinality(S) \in Nat /\ UpTo(S, Cardinality(S)) = SUBSET S
  BY FS_CardinalityType, FS_Subset DEF UpTo
<1>5. PICK g : \A s \in SUBSET S : g[s] = Step(f, g, s)
  BY <1>3, <1>4 DEF Upto
<1>6. \A s \in SUBSET S : Step(f, [t \in SUBSET S |-> g[t]], s) = Step(f, g, s)
  BY PickIsElement DEF Step
<1>7. [t \in SUBSET S |-> g[t]] = [s \in SUBSET S |-> Step(f, [t \in SUBSET S |-> g[t]], s)]
  BY <1>5, <1>6
<1> QED BY <1>7

LEMMA IterDefined ==
  ASSUME NEW f, NEW S, IsFiniteSet(S), NEW s \in SUBSET S
  PROVE  Iter(f, S)[s] = Step(f, Iter(f, S), s)
<1>1. Iter(f, S) = [t \in SUBSET S |-> Step(f, Iter(f, S), t)]
  BY IterExists DEF Iter
<1> QED BY <1>1

\* The functions of two sets agree where they are both defined.
LEMMA IterAgree ==
  ASSUME NEW f, NEW S, IsFiniteSet(S), NEW T \in SUBSET S
  PROVE  Iter(f, S)[T] = Iter(f, T)[T]
<1> DEFINE g == Iter(f, S)
           h == Iter(f, T)
           Bad == {n \in Nat : \E s \in SUBSET T : Cardinality(s) = n /\ g[s] # h[s]}
<1>1. IsFiniteSet(T)
  BY FS_Subset
<1>2. \A s \in SUBSET T : g[s] = Step(f, g, s) /\ h[s] = Step(f, h, s)
  BY <1>1, IterDefined
<1> HIDE DEF g, h
<1>3. Bad = {}
  <2> SUFFICES ASSUME Bad # {} PROVE FALSE
    OBVIOUS
  <2>1. PICK n \in Bad : \A k \in Bad : n <= k
    BY LeastOf
  <2>2. PICK s \in SUBSET T : Cardinality(s) = n /\ g[s] # h[s]
    BY <2>1
  <2>3. s # {}
    BY <1>2, <2>2 DEF Step
  <2>4. Pick(s) \in s
    BY <2>3, PickIsElement
  <2> DEFINE r == s \ {Pick(s)}
  <2>5. r \in SUBSET T /\ Cardinality(r) = n - 1 /\ n - 1 \in Nat
    BY <1>1, <2>2, <2>4, SizeWithout
  <2>6. g[r] = h[r]
    <3>1. n - 1 \notin Bad
      BY <2>1, <2>5
    <3> QED BY <2>5, <3>1
  <2> QED BY <1>2, <2>2, <2>6 DEF Step
<1>4. Cardinality(T) \in Nat
  BY <1>1, FS_CardinalityType
<1> QED BY <1>3, <1>4 DEF g, h

LEMMA SumOfNone ==
  ASSUME NEW f
  PROVE  SumFunctionOnSet(f, {}) = 0
<1>1. IsFiniteSet({})
  BY FS_EmptySet
<1> QED BY <1>1, SumIsIter, IterDefined DEF Step

LEMMA SumWithoutPick ==
  ASSUME NEW f, NEW S, IsFiniteSet(S), S # {}
  PROVE  SumFunctionOnSet(f, S) = f[Pick(S)] + SumFunctionOnSet(f, S \ {Pick(S)})
<1>1. Iter(f, S)[S] = f[Pick(S)] + Iter(f, S)[S \ {Pick(S)}]
  BY IterDefined DEF Step
<1>2. Iter(f, S)[S \ {Pick(S)}] = Iter(f, S \ {Pick(S)})[S \ {Pick(S)}]
  BY IterAgree
<1> QED BY <1>1, <1>2, SumIsIter

\* A sum of naturals is a natural, and it does not matter which element is
\* taken out: if it did for a least set, take out the one that Pick takes too.
LEMMA SumOfNaturals ==
  ASSUME NEW f, NEW S, IsFiniteSet(S), \A x \in S : f[x] \in Nat
  PROVE  /\ SumFunctionOnSet(f, S) \in Nat
         /\ \A x \in S : SumFunctionOnSet(f, S) = f[x] + SumFunctionOnSet(f, S \ {x})
<1> DEFINE Sum(s) == SumFunctionOnSet(f, s)
           OK(s)  == Sum(s) \in Nat /\ \A x \in s : Sum(s) = f[x] + Sum(s \ {x})
           Bad    == {n \in Nat : \E s \in SUBSET S : Cardinality(s) = n /\ ~ OK(s)}
<1>1. \A s \in SUBSET S : IsFiniteSet(s) /\ Cardinality(s) \in Nat
  BY FS_Subset, FS_CardinalityType
<1>2. \A s \in SUBSET S : s # {} => Pick(s) \in s /\ Sum(s) = f[Pick(s)] + Sum(s \ {Pick(s)})
  BY <1>1, PickIsElement, SumWithoutPick
<1>3. Sum({}) = 0
  BY SumOfNone
<1> HIDE DEF Sum, OK
<1>4. Bad = {}
  <2> SUFFICES ASSUME Bad # {} PROVE FALSE
    OBVIOUS
  <2>1. PICK n \in Bad : \A k \in Bad : n <= k
    BY LeastOf
  <2>2. PICK s \in SUBSET S : Cardinality(s) = n /\ ~ OK(s)
    BY <2>1
  <2>3. ASSUME NEW r \in SUBSET S, Cardinality(r) < n PROVE OK(r)
    BY <1>1, <2>1, <2>3
  <2>4. s # {}
    BY <1>3, <2>2 DEF OK
  <2>5. PICK p \in s : Sum(s) = f[p] + Sum(s \ {p})
    BY <1>2, <2>4
  <2>6. ASSUME NEW x \in s
        PROVE  OK(s \ {x}) /\ s \ {x} \in SUBSET S /\ n \in Nat /\ Cardinality(s \ {x}) = n - 1
    <3>1. s \ {x} \in SUBSET S /\ Cardinality(s \ {x}) = n - 1 /\ n \in Nat
      BY <2>2, <2>6, SizeWithout
    <3> QED BY <2>3, <3>1
  <2>7. ASSUME NEW x \in s, x # p PROVE Sum(s) = f[x] + Sum(s \ {x})
    <3>1. x \in s \ {p} /\ p \in s \ {x} /\ (s \ {p}) \ {x} = (s \ {x}) \ {p}
      BY <2>7
    <3>2. Sum(s \ {p}) = f[x] + Sum((s \ {p}) \ {x}) /\ Sum(s \ {x}) = f[p] + Sum((s \ {x}) \ {p})
      BY <2>6, <3>1 DEF OK
    <3>3. Sum((s \ {p}) \ {x}) \in Nat
      <4>1. Cardinality((s \ {p}) \ {x}) < n /\ (s \ {p}) \ {x} \in SUBSET S
        <5>1. s \ {p} \in SUBSET S /\ x \in s \ {p}
          BY <2>6, <3>1
        <5>2. (s \ {p}) \ {x} \in SUBSET S /\ Cardinality((s \ {p}) \ {x}) = Cardinality(s \ {p}) - 1
          BY <5>1, SizeWithout
        <5>3. Cardinality(s \ {p}) = n - 1 /\ n \in Nat
          BY <2>6
        <5> QED BY <5>2, <5>3
      <4>2. OK((s \ {p}) \ {x})
        BY <2>3, <4>1
      <4> QED BY <4>2 DEF OK
    <3>4. f[x] \in Nat /\ f[p] \in Nat
      OBVIOUS
    <3>5. Sum((s \ {x}) \ {p}) = Sum((s \ {p}) \ {x})
      BY <3>1
    <3>6. Sum(s) = f[p] + (f[x] + Sum((s \ {p}) \ {x})) /\ Sum(s \ {x}) = f[p] + Sum((s \ {p}) \ {x})
      BY <2>5, <3>2, <3>5
    <3> QED BY <3>3, <3>4, <3>6
  <2>8. Sum(s) \in Nat
    BY <2>5, <2>6 DEF OK
  <2> QED BY <2>2, <2>5, <2>7, <2>8 DEF OK
<1>5. OK(S)
  BY <1>1, <1>4
<1> QED BY <1>5 DEF Sum, OK

LEMMA SumWith ==
  ASSUME NEW f, NEW S, IsFiniteSet(S), NEW x, x \notin S,
         \A y \in S \cup {x} : f[y] \in Nat
  PROVE  SumFunctionOnSet(f, S \cup {x}) = f[x] + SumFunctionOnSet(f, S)
<1>1. IsFiniteSet(S \cup {x}) /\ (S \cup {x}) \ {x} = S
  BY FS_AddElement
<1> QED BY <1>1, SumOfNaturals

-----------------------------------------------------------------------------
(* Sequences that list a set in order *)

Lists(s, S) ==
  /\ s \in [1 .. Cardinality(S) -> S]
  /\ \A j, k \in DOMAIN s : j < k => s[j] < s[k]

LEMMA ListExists ==
  ASSUME NEW S \in SUBSET Nat, IsFiniteSet(S)
  PROVE  \E s : Lists(s, S)
<1> DEFINE Bad == {n \in Nat : \E T \in SUBSET S : Cardinality(T) = n /\ \A s : ~ Lists(s, T)}
<1>1. Bad = {}
  <2> SUFFICES ASSUME Bad # {} PROVE FALSE
    OBVIOUS
  <2>1. PICK n \in Bad : \A k \in Bad : n <= k
    BY LeastOf
  <2>2. PICK T \in SUBSET S : Cardinality(T) = n /\ \A s : ~ Lists(s, T)
    BY <2>1
  <2>3. T # {}
    <3> SUFFICES ASSUME T = {} PROVE FALSE
      OBVIOUS
    <3>1. Cardinality(T) = 0
      BY FS_EmptySet
    <3>2. Lists([i \in 1 .. 0 |-> 0], T)
      BY <3>1 DEF Lists
    <3> QED BY <2>2, <3>2
  <2>4. PICK m \in T : \A k \in T : m <= k
    BY <2>3, LeastOf
  <2> DEFINE R == T \ {m}
  <2>5. R \in SUBSET S /\ Cardinality(R) = n - 1 /\ n - 1 \in Nat
    <3>1. /\ Cardinality(T) \in Nat /\ Cardinality(T) > 0
          /\ R \in SUBSET S /\ Cardinality(R) = Cardinality(T) - 1
      BY SizeWithout
    <3> QED BY <2>2, <3>1
  <2>6. PICK s : Lists(s, R)
    BY <2>1, <2>5
  <2> DEFINE h == [i \in 1 .. n |-> IF i = 1 THEN m ELSE s[i - 1]]
  <2>7. s \in [1 .. n - 1 -> R] /\ \A j, k \in 1 .. n - 1 : j < k => s[j] < s[k]
    BY <2>5, <2>6 DEF Lists
  <2>8. h \in [1 .. n -> T]
    <3> SUFFICES ASSUME NEW i \in 1 .. n, i # 1 PROVE s[i - 1] \in T
      OBVIOUS
    <3>1. i - 1 \in 1 .. n - 1
      BY <2>5
    <3> QED BY <2>7, <3>1
  <2>9. ASSUME NEW j \in 1 .. n, NEW k \in 1 .. n, j < k PROVE h[j] < h[k]
    <3>1. k - 1 \in 1 .. n - 1 /\ h[k] = s[k - 1] /\ s[k - 1] \in R
      BY <2>5, <2>7, <2>9
    <3>2. CASE j = 1
      <4>1. h[j] = m /\ m \in Nat /\ s[k - 1] \in Nat
        BY <3>1, <3>2
      <4>2. m <= s[k - 1] /\ s[k - 1] # m
        BY <2>4, <3>1
      <4> QED BY <3>1, <4>1, <4>2
    <3>3. CASE j # 1
      <4>1. j - 1 \in 1 .. n - 1 /\ h[j] = s[j - 1] /\ j - 1 < k - 1
        BY <2>5, <2>9, <3>3
      <4> QED BY <2>7, <3>1, <4>1
    <3> QED BY <3>2, <3>3
  <2> HIDE DEF h
  <2>10. Lists(h, T)
    BY <2>2, <2>8, <2>9 DEF Lists
  <2> QED BY <2>2, <2>10
<1>2. Cardinality(S) \in Nat
  BY FS_CardinalityType
<1> QED BY <1>1, <1>2

\* Such a list has all elements, and behind the k-th come the larger ones.
LEMMA ListIs ==
  ASSUME NEW S \in SUBSET Nat, IsFiniteSet(S), NEW s, Lists(s, S), NEW n, n = Cardinality(S)
  PROVE  /\ n \in Nat /\ s \in Seq(S) /\ Len(s) = n
         /\ \A k \in 1 .. n : Cardinality({x \in S : x > s[k]}) = n - k
<1>1. n \in Nat /\ s \in [1 .. n -> S] /\ \A j, k \in 1 .. n : j < k => s[j] < s[k]
  BY FS_CardinalityType DEF Lists
<1>2. s \in Seq(S) /\ Len(s) = n
  BY <1>1
<1>3. ASSUME NEW j \in 1 .. n, NEW k \in 1 .. n, s[j] = s[k] PROVE j = k
  <2>1. s[j] \in Nat /\ s[k] \in Nat
    BY <1>1
  <2>2. ~ (j < k) /\ ~ (k < j)
    BY <1>1, <1>3, <2>1
  <2> QED BY <2>2
<1>4. \A x \in S : \E j \in 1 .. n : s[j] = x
  <2>1. s \in Injection(1 .. n, S)
    BY <1>1, <1>3 DEF Injection, IsInjective
  <2>2. Cardinality(1 .. n) = n /\ IsFiniteSet(1 .. n)
    BY <1>1, FS_Interval
  <2>3. s \in Surjection(1 .. n, S)
    BY <2>1, <2>2, FS_Injection
  <2> QED BY <2>3 DEF Surjection
<1>5. ASSUME NEW k \in 1 .. n PROVE Cardinality({x \in S : x > s[k]}) = n - k
  <2> DEFINE T == {x \in S : x > s[k]}
             f == [j \in k + 1 .. n |-> s[j]]
  <2>1. IsFiniteSet(k + 1 .. n) /\ Cardinality(k + 1 .. n) = n - k
    <3>1. k \in Int /\ k + 1 \in Int /\ n \in Int /\ k <= n
      BY <1>1
    <3>2. /\ IsFiniteSet(k + 1 .. n)
          /\ Cardinality(k + 1 .. n) = IF k + 1 > n THEN 0 ELSE n - (k + 1) + 1
      BY <3>1, FS_Interval
    <3> QED BY <3>1, <3>2
  <2>2. f \in [k + 1 .. n -> T]
    BY <1>1
  <2>3. IsInjective(f)
    BY <1>1, <1>3 DEF IsInjective
  <2>4. ASSUME NEW x \in T PROVE \E j \in k + 1 .. n : f[j] = x
    <3>1. PICK j \in 1 .. n : s[j] = x
      BY <1>4
    <3>2. s[k] \in Nat /\ x \in Nat /\ x > s[k]
      BY <1>1
    <3>3. ~ (j < k) /\ j # k
      BY <1>1, <3>1, <3>2
    <3>4. j \in k + 1 .. n
      BY <1>1, <3>3
    <3> QED BY <3>1, <3>4
  <2>5. f \in Bijection(k + 1 .. n, T)
    BY <2>2, <2>3, <2>4 DEF Bijection, Injection, Surjection
  <2> QED BY <2>1, <2>5, FS_Bijection DEF ExistsBijection
<1> QED BY <1>1, <1>2, <1>5
===============================================================================
