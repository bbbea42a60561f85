---------------------------- MODULE SequenceFacts ----------------------------
(***************************************************************************)
(* Facts about data that the proofs of several modules rest on: induction  *)
(* and recursion over the natural numbers, stated with sets and functions, *)
(* what Retained, folds and sums return, and what positions, removals and  *)
(* concatenations of sequences are.                                        *)
(***************************************************************************)
EXTENDS Retaining, SequencesExt, FiniteSetTheorems, SequenceTheorems, TLAPS

-----------------------------------------------------------------------------
(* Induction and recursion. *)

LEMMA LeastUpTo ==
  ASSUME NEW n \in Nat, NEW T \in SUBSET (0..n), T # {}
  PROVE  \E x \in T : \A y \in T : x <= y
<1> DEFINE Below(x) == 1..x
           TT == {Below(x) : x \in T}
<1>1. IsWellFoundedOn(StrictSubsetOrdering(1..n), FiniteSubsetsOf(1..n))
  BY FS_StrictSubsetOrderingWellFounded
<1>2. IsFiniteSet(1..n)
  BY FS_Interval
<1>3. TT \subseteq FiniteSubsetsOf(1..n)
  <2> SUFFICES ASSUME NEW x \in T PROVE Below(x) \in FiniteSubsetsOf(1..n)
    OBVIOUS
  <2>1. Below(x) \in SUBSET (1..n)
    OBVIOUS
  <2> QED BY <2>1, <1>2, FS_Subset DEF FiniteSubsetsOf
<1>4. TT # {}
  OBVIOUS
<1> HIDE DEF TT
<1>5. PICK A \in TT : \A B \in TT : ~ (<<B, A>> \in StrictSubsetOrdering(1..n))
  BY <1>1, <1>3, <1>4, WFMin, Zenon
<1>6. PICK x \in T : A = Below(x)
  BY <1>5 DEF TT
<1>7. \A y \in T : x <= y
  <2> SUFFICES ASSUME NEW y \in T, ~ (x <= y) PROVE FALSE
    OBVIOUS
  <2>1. Below(y) \in TT
    BY DEF TT
  <2>2. Below(y) \subseteq Below(x) /\ x \in Below(x) /\ x \notin Below(y)
    OBVIOUS
  <2>3. Below(y) \in SUBSET (1..n) /\ Below(x) \in SUBSET (1..n)
    OBVIOUS
  <2>4. <<Below(y), A>> \in StrictSubsetOrdering(1..n)
    BY <1>6, <2>2, <2>3 DEF StrictSubsetOrdering
  <2> QED BY <1>5, <2>1, <2>4
<1> QED BY <1>7

\* What holds for 0 and passes from each number to the next holds for all.
LEMMA InductionUpTo ==
  ASSUME NEW n \in Nat, NEW S, 0 \in S, \A i \in 0..n : i # n /\ i \in S => i + 1 \in S
  PROVE  0..n \subseteq S
<1> SUFFICES ASSUME 0..n \ S # {} PROVE FALSE
  OBVIOUS
<1>1. PICK x \in 0..n \ S : \A y \in 0..n \ S : x <= y
  BY LeastUpTo
<1>2. x # 0
  OBVIOUS
<1>3. x - 1 \in 0..n /\ x - 1 # n /\ ~(x <= x - 1)
  BY <1>2
<1>4. x - 1 \in S
  BY <1>1, <1>3
<1>5. (x - 1) + 1 \in S
  BY <1>3, <1>4
<1>6. (x - 1) + 1 = x
  OBVIOUS
<1> QED BY <1>5, <1>6

\* g is computed step by step, from base.
Computed(g, n, A, base, step) ==
    /\ g \in [0..n -> A]
    /\ g[0] = base
    /\ \A i \in 1..n : g[i] = step[<<i, g[i - 1]>>]

\* A function of n steps with values in A.
Steps(n, A) == [(1..n) \X A -> A]

\* Functions are defined by recursion over the numbers up to n.
LEMMA RecursionUpTo ==
  ASSUME NEW n \in Nat, NEW A, NEW base \in A, NEW step \in Steps(n, A)
  PROVE  \E g : Computed(g, n, A, base, step)
<1> DEFINE Good(k, g) == g \in [0..k -> A] /\ g[0] = base /\ \A i \in 1..k : g[i] = step[<<i, g[i - 1]>>]
           S == {k \in 0..n : \E g : Good(k, g)}
<1>1. 0 \in S
  <2>1. Good(0, [i \in 0..0 |-> base])
    OBVIOUS
  <2> HIDE DEF Good
  <2> QED BY <2>1
<1>2. ASSUME NEW k \in 0..n, k # n, k \in S PROVE k + 1 \in S
  <2>1. PICK g : Good(k, g)
    BY <1>2
  <2> DEFINE h == [i \in 0..(k + 1) |-> IF i = k + 1 THEN step[<<k + 1, g[k]>>] ELSE g[i]]
  <2>2. k + 1 \in 1..n /\ g[k] \in A
    BY <1>2, <2>1
  <2>3. <<k + 1, g[k]>> \in (1..n) \X A
    BY <2>2
  <2>4. step[<<k + 1, g[k]>>] \in A
    BY <2>3 DEF Steps
  <2>5. h \in [0..(k + 1) -> A] /\ h[0] = base
    BY <2>1, <2>4
  <2>6. ASSUME NEW i \in 1..(k + 1) PROVE h[i] = step[<<i, h[i - 1]>>]
    <3>1. CASE i = k + 1
      <4>1. h[i - 1] = g[k]
        BY <3>1
      <4>2. h[i] = step[<<k + 1, g[k]>>]
        BY <3>1
      <4> HIDE DEF h
      <4> QED BY <3>1, <4>1, <4>2
    <3>2. CASE i # k + 1
      <4>1. i \in 1..k /\ i - 1 \in 0..k
        BY <3>2
      <4>2. h[i - 1] = g[i - 1] /\ h[i] = g[i]
        BY <4>1
      <4> HIDE DEF h
      <4> QED BY <2>1, <4>1, <4>2
    <3> QED BY <3>1, <3>2
  <2>7. Good(k + 1, h)
    <3> HIDE DEF h
    <3> QED BY <2>5, <2>6
  <2> HIDE DEF Good, h
  <2> QED BY <2>2, <2>7
<1>3. n \in S
  <2> HIDE DEF S
  <2> QED BY <1>1, <1>2, InductionUpTo
<1> QED BY <1>3 DEF Computed

\* The greatest element of a set of numbers up to n.
LEMMA GreatestUpTo ==
  ASSUME NEW n \in Nat, NEW S \in SUBSET (0..n), S # {}
  PROVE  Max(S) \in S /\ \A x \in S : x <= Max(S)
<1> DEFINE T == {n - x : x \in S}
<1>1. T \in SUBSET (0..n) /\ T # {}
  OBVIOUS
<1> HIDE DEF T
<1>2. PICK t \in T : \A u \in T : t <= u
  BY <1>1, LeastUpTo
<1>3. PICK m \in S : t = n - m
  BY <1>2 DEF T
<1>4. \A x \in S : n - m <= n - x
  BY <1>2, <1>3 DEF T
<1>5. \A x \in S : m >= x
  BY <1>4
<1>6. Max(S) \in S /\ \A x \in S : Max(S) >= x
  BY <1>5 DEF Max
<1>7. \A x \in S : x \in Int
  OBVIOUS
<1> QED BY <1>6, <1>7

\* The least element of a set of numbers up to n.
LEMMA LeastIsMin ==
  ASSUME NEW n \in Nat, NEW S \in SUBSET (0..n), S # {}
  PROVE  Min(S) \in S /\ \A x \in S : Min(S) <= x
<1>1. \E m \in S : \A x \in S : m <= x
  BY LeastUpTo
<1> QED BY <1>1 DEF Min

LEMMA IntervalFacts ==
  ASSUME NEW n \in Nat, NEW k \in 0..n, k # n
  PROVE  /\ 1..(k + 1) \in SUBSET (1..n) /\ 1..(k + 1) # {}
         /\ Max(1..(k + 1)) = k + 1
         /\ (1..(k + 1)) \ {k + 1} = 1..k
<1>1. k + 1 \in 1..n /\ k + 1 \in Nat
  OBVIOUS
<1>2. 1..(k + 1) \in SUBSET (0..(k + 1)) /\ 1..(k + 1) # {}
  OBVIOUS
<1>3. Max(1..(k + 1)) \in 1..(k + 1) /\ \A x \in 1..(k + 1) : x <= Max(1..(k + 1))
  BY <1>1, <1>2, GreatestUpTo
<1>4. k + 1 \in 1..(k + 1)
  OBVIOUS
<1>5. Max(1..(k + 1)) = k + 1
  BY <1>3, <1>4
<1> QED BY <1>1, <1>2, <1>5

\* f folds the sets of numbers up to n, the greatest number last.
FoldsSets(f, n, A, base, step) ==
    /\ f \in [SUBSET (1..n) -> A]
    /\ f[{}] = base
    /\ \A s \in SUBSET (1..n) : s # {} => f[s] = step[<<Max(s), f[s \ {Max(s)}]>>]

LEMMA FoldExists ==
  ASSUME NEW n \in Nat, NEW A, NEW base \in A, NEW step \in Steps(n, A)
  PROVE  \E f : FoldsSets(f, n, A, base, step)
<1> DEFINE B == [SUBSET (1..n) -> A]
           none == [s \in SUBSET (1..n) |-> base]
           Grown(k, F) == [s \in SUBSET (1..n) |->
                              IF k \in s /\ s \subseteq 1..k THEN step[<<k, F[s \ {k}]>>] ELSE F[s]]
           grow == [x \in (1..n) \X B |-> Grown(x[1], x[2])]
<1>1. none \in B
  OBVIOUS
<1>2. \A k \in 1..n, F \in B : Grown(k, F) \in B
  <2> SUFFICES ASSUME NEW k \in 1..n, NEW F \in B, NEW s \in SUBSET (1..n)
               PROVE  (IF k \in s /\ s \subseteq 1..k THEN step[<<k, F[s \ {k}]>>] ELSE F[s]) \in A
    OBVIOUS
  <2>1. F[s] \in A /\ F[s \ {k}] \in A
    OBVIOUS
  <2> QED BY <2>1 DEF Steps
<1>3. grow \in Steps(n, B)
  <2> HIDE DEF B, Grown
  <2> QED BY <1>2 DEF Steps
<1>4. PICK g : Computed(g, n, B, none, grow)
  <2> HIDE DEF B, none, grow
  <2> QED BY <1>1, <1>3, RecursionUpTo
<1>5. g \in [0..n -> B] /\ g[0] = none /\ \A k \in 1..n : g[k] = grow[<<k, g[k - 1]>>]
  <2> HIDE DEF B, none, grow
  <2> QED BY <1>4 DEF Computed
<1>6. \A k \in 1..n : k - 1 \in 0..n /\ g[k - 1] \in B /\ g[k] = Grown(k, g[k - 1])
  <2> SUFFICES ASSUME NEW k \in 1..n PROVE k - 1 \in 0..n /\ g[k - 1] \in B /\ g[k] = Grown(k, g[k - 1])
    OBVIOUS
  <2>1. k - 1 \in 0..n /\ g[k - 1] \in B
    BY <1>5
  <2> DEFINE F == g[k - 1]
  <2> HIDE DEF B, Grown, F
  <2>2. F \in B
    BY <2>1 DEF F
  <2>3. grow[<<k, F>>] = Grown(k, F)
    BY <2>2
  <2> HIDE DEF grow
  <2> QED BY <1>5, <2>1, <2>3 DEF F
<1>7. \A k \in 1..n, s \in SUBSET (1..n) :
         g[k][s] = IF k \in s /\ s \subseteq 1..k THEN step[<<k, g[k - 1][s \ {k}]>>] ELSE g[k - 1][s]
  BY <1>6
<1>8. \A s \in SUBSET (1..n) : g[0][s] = base
  BY <1>5
<1> HIDE DEF B, none, grow, Grown
\* A set keeps its value once its numbers were reached.
<1>9. ASSUME NEW j \in 0..n, NEW s \in SUBSET (1..n), s \subseteq 1..j
      PROVE  g[n][s] = g[j][s]
  <2> DEFINE Same == {k \in 0..n : k >= j => g[k][s] = g[j][s]}
  <2>1. 0 \in Same
    <3>1. 0 >= j => j = 0
      OBVIOUS
    <3> QED BY <3>1
  <2>2. ASSUME NEW k \in 0..n, k # n, k \in Same PROVE k + 1 \in Same
    <3>1. k + 1 \in 1..n /\ k + 1 \in 0..n /\ (k + 1) - 1 = k
      BY <2>2
    <3>2. CASE k + 1 > j
      <4>1. k + 1 \notin s
        BY <1>9, <3>2
      <4>2. g[k + 1][s] = g[k][s]
        <5> DEFINE q == k + 1
        <5>1. q \in 1..n /\ q - 1 = k /\ q \notin s
          BY <3>1, <4>1
        <5> HIDE DEF q
        <5>2. g[q][s] = g[q - 1][s]
          BY <1>7, <5>1
        <5> QED BY <5>1, <5>2 DEF q
      <4>3. k >= j
        BY <3>2
      <4> QED BY <2>2, <3>1, <4>2, <4>3
    <3>3. CASE ~(k + 1 > j)
      <4>1. k + 1 >= j => k + 1 = j
        BY <3>3
      <4> QED BY <3>1, <4>1
    <3> QED BY <3>2, <3>3
  <2>3. 0..n \subseteq Same
    <3> HIDE DEF Same
    <3> QED BY <2>1, <2>2, InductionUpTo
  <2>4. n \in Same /\ n >= j
    BY <2>3
  <2> QED BY <2>4
<1> DEFINE f == g[n]
<1>10. f \in [SUBSET (1..n) -> A]
  <2>1. g[n] \in B
    BY <1>5
  <2> QED BY <2>1 DEF B
<1>11. f[{}] = base
  BY <1>8, <1>9
<1>12. ASSUME NEW s \in SUBSET (1..n), s # {} PROVE f[s] = step[<<Max(s), f[s \ {Max(s)}]>>]
  <2> DEFINE m == Max(s)
  <2>1. m \in s /\ (\A x \in s : x <= m) /\ m \in 1..n
    <3>1. s \in SUBSET (0..n)
      OBVIOUS
    <3> QED BY <1>12, <3>1, GreatestUpTo
  <2> HIDE DEF m
  <2>2. s \subseteq 1..m /\ s \ {m} \subseteq 1..(m - 1) /\ m - 1 \in 0..n
    BY <2>1
  <2>3. f[s] = g[m][s]
    BY <1>9, <2>1, <2>2
  <2>4. f[s \ {m}] = g[m - 1][s \ {m}]
    BY <1>9, <2>1, <2>2
  <2>5. g[m][s] = step[<<m, g[m - 1][s \ {m}]>>]
    BY <1>7, <2>1, <2>2
  <2> QED BY <2>3, <2>4, <2>5 DEF m
<1> HIDE DEF f
<1> QED BY <1>10, <1>11, <1>12 DEF FoldsSets

\* c is a fold of step, as far as its values are in A.
Follows(c, n, A, base, step) ==
    /\ c[{}] = base
    /\ \A s \in SUBSET (1..n) :
          s # {} /\ c[s \ {Max(s)}] \in A => c[s] = step[<<Max(s), c[s \ {Max(s)}]>>]

\* A fold of the numbers up to n is computed step by step.
LEMMA FoldValue ==
  ASSUME NEW n \in Nat, NEW A, NEW base \in A, NEW step \in Steps(n, A),
         NEW c, Follows(c, n, A, base, step)
  PROVE  \E g : Computed(g, n, A, base, step) /\ c[1..n] = g[n]
<1>1. PICK g : Computed(g, n, A, base, step)
  BY RecursionUpTo
<1>2. g \in [0..n -> A] /\ g[0] = base /\ \A i \in 1..n : g[i] = step[<<i, g[i - 1]>>]
  BY <1>1 DEF Computed
<1> DEFINE Same == {k \in 0..n : c[1..k] = g[k]}
<1>3. 0 \in Same
  <2>1. 1..0 = {}
    OBVIOUS
  <2>2. c[1..0] = base
    BY <2>1 DEF Follows
  <2> QED BY <1>2, <2>2
<1>4. ASSUME NEW k \in 0..n, k # n, k \in Same PROVE k + 1 \in Same
  <2> DEFINE s == 1..(k + 1)
             q == k + 1
  <2>1. s \in SUBSET (1..n) /\ s # {} /\ Max(s) = q /\ s \ {q} = 1..k
    BY <1>4, IntervalFacts
  <2>2. q \in 1..n /\ q - 1 = k
    BY <1>4
  <2> HIDE DEF s
  <2>3. c[s \ {Max(s)}] = g[k] /\ g[k] \in A
    BY <1>2, <1>4, <2>1
  <2>4. c[s] = step[<<Max(s), c[s \ {Max(s)}]>>]
    BY <2>1, <2>3 DEF Follows
  <2>5. c[s] = step[<<q, g[k]>>]
    BY <2>1, <2>3, <2>4
  <2> HIDE DEF q
  <2>6. g[q] = step[<<q, g[k]>>]
    BY <1>2, <2>2
  <2> QED BY <1>4, <2>5, <2>6 DEF s, q
<1>5. n \in Same
  <2> HIDE DEF Same
  <2>1. 0..n \subseteq Same
    BY <1>3, <1>4, InductionUpTo
  <2> QED BY <2>1
<1> QED BY <1>1, <1>5

-----------------------------------------------------------------------------
(* Retained. *)

\* g collects the elements of s that are in S.
Collects(g, s, S, T) ==
    /\ g \in [0..Len(s) -> Seq(T)]
    /\ g[0] = <<>>
    /\ \A i \in 1..Len(s) : g[i] = IF s[i] \in S THEN Append(g[i - 1], s[i]) ELSE g[i - 1]

\* What Retained collects on its way.
LEMMA RetainedSteps ==
  ASSUME NEW T, NEW s \in Seq(T), NEW S
  PROVE  \E g : Collects(g, s, S, T) /\ Retained(s, S) = g[Len(s)]
<1> DEFINE n == Len(s)
           step == [x \in (1..n) \X Seq(T) |-> IF s[x[1]] \in S THEN Append(x[2], s[x[1]]) ELSE x[2]]
           Equation(g) == g = [i \in 0..n |-> IF i = 0 THEN <<>>
                                              ELSE IF s[i] \in S THEN Append(g[i - 1], s[i])
                                              ELSE g[i - 1]]
<1>1. n \in Nat /\ <<>> \in Seq(T) /\ \A i \in 1..n : s[i] \in T
  OBVIOUS
<1>2. step \in [(1..n) \X Seq(T) -> Seq(T)]
  <2> SUFFICES ASSUME NEW i \in 1..n, NEW r \in Seq(T)
               PROVE  (IF s[i] \in S THEN Append(r, s[i]) ELSE r) \in Seq(T)
    OBVIOUS
  <2> QED BY <1>1
<1>3. PICK g \in [0..n -> Seq(T)] : g[0] = <<>> /\ \A i \in 1..n : g[i] = step[<<i, g[i - 1]>>]
  <2> DEFINE A == Seq(T)
             none == <<>>
  <2>1. n \in Nat /\ none \in A /\ step \in [(1..n) \X A -> A]
    BY <1>1, <1>2
  <2> HIDE DEF step, n, A, none
  <2>2. \E g \in [0..n -> A] : g[0] = none /\ \A i \in 1..n : g[i] = step[<<i, g[i - 1]>>]
    <3>1. step \in Steps(n, A)
      BY <2>1 DEF Steps
    <3>2. \E g : Computed(g, n, A, none, step)
      BY <2>1, <3>1, RecursionUpTo
    <3> QED BY <3>2 DEF Computed
  <2> QED BY <2>2 DEF A, none
<1>4. \A i \in 1..n : g[i] = IF s[i] \in S THEN Append(g[i - 1], s[i]) ELSE g[i - 1]
  <2> SUFFICES ASSUME NEW i \in 1..n
               PROVE  g[i] = IF s[i] \in S THEN Append(g[i - 1], s[i]) ELSE g[i - 1]
    OBVIOUS
  <2>1. g[i - 1] \in Seq(T)
    BY <1>3
  <2>2. step[<<i, g[i - 1]>>] = IF s[i] \in S THEN Append(g[i - 1], s[i]) ELSE g[i - 1]
    <3> DEFINE r == g[i - 1]
    <3>1. r \in Seq(T)
      BY <2>1
    <3> HIDE DEF r
    <3>2. step[<<i, r>>] = IF s[i] \in S THEN Append(r, s[i]) ELSE r
      BY <3>1
    <3> HIDE DEF step
    <3> QED BY <3>2 DEF r
  <2> QED BY <1>3, <2>2
<1>5. Equation(g)
  <2> HIDE DEF step
  <2> DEFINE h == [i \in 0..n |-> IF i = 0 THEN <<>>
                                  ELSE IF s[i] \in S THEN Append(g[i - 1], s[i]) ELSE g[i - 1]]
  <2>1. \A i \in 0..n : g[i] = h[i]
    <3> SUFFICES ASSUME NEW i \in 0..n PROVE g[i] = h[i]
      OBVIOUS
    <3>1. CASE i = 0
      BY <1>3, <3>1
    <3>2. CASE i # 0
      <4>1. i \in 1..n
        BY <1>1, <3>2
      <4> QED BY <1>4, <3>2, <4>1
    <3> QED BY <3>1, <3>2
  <2>2. g = [i \in 0..n |-> g[i]] /\ h = [i \in 0..n |-> h[i]]
    BY <1>3
  <2> QED BY <2>1, <2>2
<1> DEFINE c == CHOOSE f : Equation(f)
<1>6. Retained(s, S) = c[n]
  BY DEF Retained
<1>7. Equation(c)
  <2> HIDE DEF Equation
  <2> QED BY <1>5
<1> HIDE DEF c
<1>8. \A i \in 0..n : c[i] = g[i]
  <2> DEFINE Same == {i \in 0..n : c[i] = g[i]}
  <2>1. \A i \in 0..n : c[i] = IF i = 0 THEN <<>>
                                ELSE IF s[i] \in S THEN Append(c[i - 1], s[i]) ELSE c[i - 1]
    <3> DEFINE D == 0..n
    <3>1. c = [i \in D |-> IF i = 0 THEN <<>> ELSE IF s[i] \in S THEN Append(c[i - 1], s[i]) ELSE c[i - 1]]
      BY <1>7
    <3> HIDE DEF D
    <3>2. \A i \in D : c[i] = IF i = 0 THEN <<>> ELSE IF s[i] \in S THEN Append(c[i - 1], s[i]) ELSE c[i - 1]
      BY <3>1, Zenon
    <3> QED BY <3>2 DEF D
  <2>2. 0 \in Same
    BY <1>1, <1>3, <2>1
  <2>3. ASSUME NEW i \in 0..n, i # n, i \in Same PROVE i + 1 \in Same
    <3>1. i + 1 \in 1..n /\ i + 1 # 0 /\ (i + 1) - 1 = i
      BY <1>1, <2>3
    <3>2. c[i] = g[i]
      BY <2>3
    <3>3. c[i + 1] = IF s[i + 1] \in S THEN Append(c[i], s[i + 1]) ELSE c[i]
      BY <2>1, <3>1
    <3>4. g[i + 1] = IF s[i + 1] \in S THEN Append(g[i], s[i + 1]) ELSE g[i]
      BY <1>4, <3>1
    <3> QED BY <3>1, <3>2, <3>3, <3>4
  <2> HIDE DEF Same
  <2>4. 0..n \subseteq Same
    BY <1>1, <2>2, <2>3, InductionUpTo
  <2> QED BY <2>4 DEF Same
<1> HIDE DEF step, Equation
<1>9. Collects(g, s, S, T)
  BY <1>3, <1>4 DEF Collects
<1> QED BY <1>1, <1>6, <1>8, <1>9

\* e tells which of the first k elements of s those of r are: all that are in
\* S, in their order.
Picks(e, r, s, k, S) ==
    /\ e \in [1..Len(r) -> 1..k]
    /\ \A i \in 1..Len(r) : r[i] = s[e[i]] /\ r[i] \in S
    /\ \A i, j \in 1..Len(r) : i < j => e[i] < e[j]
    /\ \A m \in 1..k : s[m] \in S => \E i \in 1..Len(r) : e[i] = m

\* Retained keeps the elements of s that are in S, each once, in their order.
LEMMA RetainedPicks ==
  ASSUME NEW T, NEW s \in Seq(T), NEW S
  PROVE  /\ Retained(s, S) \in Seq(T)
         /\ \E e : Picks(e, Retained(s, S), s, Len(s), S)
<1>0. PICK g : Collects(g, s, S, T) /\ Retained(s, S) = g[Len(s)]
  BY RetainedSteps
<1>1. /\ g \in [0..Len(s) -> Seq(T)]
      /\ g[0] = <<>>
      /\ \A i \in 1..Len(s) : g[i] = IF s[i] \in S THEN Append(g[i - 1], s[i]) ELSE g[i - 1]
      /\ Retained(s, S) = g[Len(s)]
  BY <1>0 DEF Collects
<1> DEFINE n == Len(s)
           Done == {k \in 0..n : \E e : Picks(e, g[k], s, k, S)}
<1>2. n \in Nat /\ \A i \in 1..n : s[i] \in T
  OBVIOUS
<1>3. 0 \in Done
  <2> DEFINE e == [i \in 1..0 |-> 0]
  <2>1. g[0] = <<>> /\ Len(<<>>) = 0
    BY <1>1
  <2>2. Picks(e, <<>>, s, 0, S)
    BY DEF Picks
  <2> HIDE DEF e
  <2> QED BY <1>2, <2>1, <2>2
<1>4. ASSUME NEW k \in 0..n, k # n, k \in Done PROVE k + 1 \in Done
  <2>1. k + 1 \in 1..n /\ (k + 1) - 1 = k /\ k \in Nat
    BY <1>2, <1>4
  <2>2. PICK e : Picks(e, g[k], s, k, S)
    BY <1>4
  <2> DEFINE r == g[k]
             m == Len(r)
  <2>3. r \in Seq(T) /\ m \in Nat /\ s[k + 1] \in T
    BY <1>1, <1>2, <2>1
  <2>4. CASE s[k + 1] \in S
    <3>1. g[k + 1] = Append(r, s[k + 1])
      BY <1>1, <2>1, <2>4
    <3> DEFINE q == Append(r, s[k + 1])
               f == [i \in 1..(m + 1) |-> IF i = m + 1 THEN k + 1 ELSE e[i]]
    <3>2. /\ Len(q) = m + 1 /\ q[m + 1] = s[k + 1]
          /\ \A i \in 1..m : q[i] = r[i]
      BY <2>3
    <3>3. /\ \A i \in 1..m : e[i] \in 1..k /\ r[i] = s[e[i]] /\ r[i] \in S
          /\ \A i, j \in 1..m : i < j => e[i] < e[j]
          /\ \A j \in 1..k : s[j] \in S => \E i \in 1..m : e[i] = j
      BY <2>2 DEF Picks
    <3> HIDE DEF q
    <3>4. f[m + 1] = k + 1 /\ \A i \in 1..m : f[i] = e[i]
      BY <2>3
    <3>5. f \in [1..(m + 1) -> 1..(k + 1)]
      <4>1. \A i \in 1..(m + 1) : f[i] \in 1..(k + 1)
        BY <2>1, <2>3, <3>3
      <4> QED BY <4>1
    <3>6. DOMAIN f = 1..(m + 1)
      OBVIOUS
    <3> HIDE DEF f
    <3>7. \A i \in 1..(m + 1) : i = m + 1 \/ i \in 1..m
      BY <2>3
    <3>8. \A i \in 1..(m + 1) : q[i] = s[f[i]] /\ q[i] \in S
      BY <2>4, <3>2, <3>3, <3>4, <3>7
    <3>9. \A i, j \in 1..(m + 1) : i < j => f[i] < f[j]
      <4> SUFFICES ASSUME NEW i \in 1..(m + 1), NEW j \in 1..(m + 1), i < j PROVE f[i] < f[j]
        OBVIOUS
      <4>1. i \in 1..m /\ f[i] = e[i] /\ e[i] \in 1..k
        BY <2>3, <3>3, <3>4
      <4>2. CASE j = m + 1
        BY <2>1, <3>4, <4>1, <4>2
      <4>3. CASE j \in 1..m
        BY <3>3, <3>4, <4>1, <4>3
      <4> QED BY <3>7, <4>2, <4>3
    <3>10. \A j \in 1..(k + 1) : s[j] \in S => \E i \in 1..(m + 1) : f[i] = j
      <4> SUFFICES ASSUME NEW j \in 1..(k + 1), s[j] \in S PROVE \E i \in 1..(m + 1) : f[i] = j
        OBVIOUS
      <4>1. CASE j = k + 1
        BY <2>3, <3>4, <4>1
      <4>2. CASE j # k + 1
        <5>1. j \in 1..k
          BY <2>1, <4>2
        <5>2. PICK i \in 1..m : e[i] = j
          BY <3>3, <5>1
        <5> QED BY <2>3, <3>4, <5>2
      <4> QED BY <4>1, <4>2
    <3>11. Picks(f, q, s, k + 1, S)
      <4> HIDE DEF m
      <4>1. 1..Len(q) = 1..(m + 1)
        BY <3>2
      <4>2. f \in [1..Len(q) -> 1..(k + 1)]
        BY <3>5, <4>1, Zenon
      <4>3. \A i \in 1..Len(q) : q[i] = s[f[i]] /\ q[i] \in S
        BY <3>8, <4>1, Zenon
      <4>4. \A i, j \in 1..Len(q) : i < j => f[i] < f[j]
        BY <3>9, <4>1, Zenon
      <4>5. \A j \in 1..(k + 1) : s[j] \in S => \E i \in 1..Len(q) : f[i] = j
        BY <3>10, <4>1, Zenon
      <4> QED BY <4>2, <4>3, <4>4, <4>5 DEF Picks
    <3>12. g[k + 1] = q
      BY <3>1 DEF q
    <3>13. Picks(f, g[k + 1], s, k + 1, S)
      BY <3>11, <3>12, Zenon
    <3> QED BY <2>1, <3>13
  <2>5. CASE s[k + 1] \notin S
    <3>1. g[k + 1] = r
      BY <1>1, <2>1, <2>5
    <3>2. Picks(e, r, s, k + 1, S)
      <4>1. /\ e \in [1..m -> 1..k]
            /\ \A i \in 1..m : r[i] = s[e[i]] /\ r[i] \in S
            /\ \A i, j \in 1..m : i < j => e[i] < e[j]
            /\ \A j \in 1..k : s[j] \in S => \E i \in 1..m : e[i] = j
        BY <2>2 DEF Picks
      <4>2. e \in [1..m -> 1..(k + 1)]
        BY <2>1, <4>1
      <4>3. \A j \in 1..(k + 1) : s[j] \in S => j \in 1..k
        BY <2>1, <2>5
      <4> QED BY <4>1, <4>2, <4>3 DEF Picks
    <3> QED BY <2>1, <3>1, <3>2
  <2> QED BY <2>4, <2>5
<1>5. n \in Done
  <2>1. n \in Nat /\ 0 \in Done /\ \A k \in 0..n : k # n /\ k \in Done => k + 1 \in Done
    BY <1>2, <1>3, <1>4
  <2> HIDE DEF Done, n
  <2>2. 0..n \subseteq Done
    BY <2>1, InductionUpTo
  <2> QED BY <2>1, <2>2
<1>6. g[n] \in Seq(T)
  BY <1>1, <1>2
<1> QED BY <1>1, <1>5, <1>6

\* Increasing positions of a sequence are no more than it has.
LEMMA IncreasingBound ==
  ASSUME NEW n \in Nat, NEW m \in Nat, NEW e \in [1..n -> 1..m],
         \A i, j \in 1..n : i < j => e[i] < e[j]
  PROVE  n <= m
<1> DEFINE Below == {k \in 0..n : k = 0 \/ e[k] >= k}
<1>1. 0 \in Below
  OBVIOUS
<1>2. ASSUME NEW k \in 0..n, k # n, k \in Below
      PROVE  k + 1 \in Below
  <2>1. k + 1 \in 1..n /\ e[k + 1] \in 1..m
    BY <1>2
  <2>2. CASE k = 0
    BY <2>1, <2>2
  <2>3. CASE k # 0
    <3>1. k \in 1..n /\ k < k + 1
      BY <2>3
    <3>2. e[k] >= k /\ e[k] < e[k + 1] /\ e[k] \in 1..m
      BY <1>2, <2>1, <2>3, <3>1
    <3> QED BY <2>1, <3>2
  <2> QED BY <2>2, <2>3
<1>3. n \in Below
  <2> HIDE DEF Below
  <2>1. 0..n \subseteq Below
    BY <1>1, <1>2, InductionUpTo
  <2> QED BY <2>1
<1>4. CASE n # 0
  <2>1. n \in 1..n /\ e[n] >= n /\ e[n] \in 1..m
    BY <1>3, <1>4
  <2> QED BY <2>1
<1> QED BY <1>4

\* What is left is in the set, was there before, and is there once if it was.
LEMMA RetainedFacts ==
  ASSUME NEW T, NEW s \in Seq(T), NEW S
  PROVE  /\ Retained(s, S) \in Seq(T)
         /\ Len(Retained(s, S)) \in 0..Len(s)
         /\ Range(Retained(s, S)) = Range(s) \cap S
         /\ IsInjective(s) => IsInjective(Retained(s, S))
<1> DEFINE r == Retained(s, S)
<1>1. r \in Seq(T)
  BY RetainedPicks
<1>2. PICK e : Picks(e, r, s, Len(s), S)
  BY RetainedPicks
<1> HIDE DEF r
<1>3. /\ e \in [1..Len(r) -> 1..Len(s)]
      /\ \A i \in 1..Len(r) : r[i] = s[e[i]] /\ r[i] \in S
      /\ \A i, j \in 1..Len(r) : i < j => e[i] < e[j]
      /\ \A m \in 1..Len(s) : s[m] \in S => \E i \in 1..Len(r) : e[i] = m
  BY <1>2 DEF Picks
<1>4. Len(r) \in Nat /\ Len(s) \in Nat /\ DOMAIN r = 1..Len(r) /\ DOMAIN s = 1..Len(s)
  BY <1>1
<1>5. Range(r) = Range(s) \cap S
  <2>1. \A i \in DOMAIN r : r[i] \in S /\ \E m \in DOMAIN s : r[i] = s[m]
    BY <1>3, <1>4
  <2>2. \A m \in DOMAIN s : s[m] \in S => \E i \in DOMAIN r : r[i] = s[m]
    BY <1>3, <1>4
  <2> QED BY <2>1, <2>2 DEF Range
<1>6. \A i, j \in 1..Len(r) : e[i] = e[j] => i = j
  <2> SUFFICES ASSUME NEW i \in 1..Len(r), NEW j \in 1..Len(r), e[i] = e[j], i # j PROVE FALSE
    OBVIOUS
  <2>1. e[i] \in Int /\ e[j] \in Int
    BY <1>3
  <2>2. i < j \/ j < i
    OBVIOUS
  <2> QED BY <1>3, <2>1, <2>2
<1>7. IsInjective(s) => IsInjective(r)
  <2> SUFFICES ASSUME IsInjective(s), NEW i \in DOMAIN r, NEW j \in DOMAIN r, r[i] = r[j] PROVE i = j
    BY DEF IsInjective
  <2>1. e[i] \in DOMAIN s /\ e[j] \in DOMAIN s /\ s[e[i]] = s[e[j]]
    BY <1>3, <1>4
  <2>2. e[i] = e[j]
    BY <2>1 DEF IsInjective
  <2> QED BY <1>4, <1>6, <2>2
<1>8. Len(r) \in 0..Len(s)
  <2>1. Len(r) <= Len(s)
    BY <1>3, <1>4, IncreasingBound
  <2> QED BY <1>4, <2>1
<1> QED BY <1>1, <1>5, <1>7, <1>8 DEF r

\* When the members of S come first, Retained keeps this front of the sequence.
LEMMA RetainedFront ==
  ASSUME NEW T, NEW s \in Seq(T), NEW S, NEW m \in 0..Len(s),
         \A i \in 1..Len(s) : s[i] \in S <=> i <= m
  PROVE  /\ Len(Retained(s, S)) = m
         /\ \A i \in 1..m : Retained(s, S)[i] = s[i]
<1>0. PICK g : Collects(g, s, S, T) /\ Retained(s, S) = g[Len(s)]
  BY RetainedSteps
<1>1. /\ g \in [0..Len(s) -> Seq(T)]
      /\ g[0] = <<>>
      /\ \A i \in 1..Len(s) : g[i] = IF s[i] \in S THEN Append(g[i - 1], s[i]) ELSE g[i - 1]
  BY <1>0 DEF Collects
<1> DEFINE n == Len(s)
           Kept(k) == IF k <= m THEN k ELSE m
           Done == {k \in 0..n : Len(g[k]) = Kept(k) /\ \A i \in 1..Kept(k) : g[k][i] = s[i]}
<1>2. n \in Nat /\ \A i \in 1..n : s[i] \in T
  OBVIOUS
<1>3. 0 \in Done
  <2>1. Len(g[0]) = 0 /\ Kept(0) = 0
    BY <1>1
  <2> QED BY <1>2, <2>1
<1>4. ASSUME NEW k \in 0..n, k # n, k \in Done PROVE k + 1 \in Done
  <2> DEFINE r == g[k]
             t == g[k + 1]
  <2>1. k + 1 \in 1..n /\ (k + 1) - 1 = k /\ k \in 0..n /\ k + 1 \in 0..n
    BY <1>2, <1>4
  <2>2. r \in Seq(T) /\ Len(r) = Kept(k) /\ \A i \in 1..Kept(k) : r[i] = s[i]
    BY <1>1, <1>4
  <2>3. t = IF s[k + 1] \in S THEN Append(r, s[k + 1]) ELSE r
    BY <1>1, <2>1
  <2> HIDE DEF r
  <2>4. CASE k + 1 <= m
    <3>1. t = Append(r, s[k + 1]) /\ Kept(k) = k /\ Kept(k + 1) = k + 1
      BY <2>1, <2>3, <2>4
    <3>2. Len(t) = k + 1 /\ \A i \in 1..(k + 1) : t[i] = IF i <= k THEN r[i] ELSE s[k + 1]
      BY <1>2, <2>1, <2>2, <3>1
    <3>3. \A i \in 1..(k + 1) : t[i] = s[i]
      BY <2>1, <2>2, <3>1, <3>2
    <3> QED BY <2>1, <3>1, <3>2, <3>3
  <2>5. CASE ~(k + 1 <= m)
    <3>1. t = r /\ Kept(k) = m /\ Kept(k + 1) = m
      BY <2>1, <2>3, <2>5
    <3> QED BY <2>1, <2>2, <3>1
  <2> QED BY <2>4, <2>5
<1>5. n \in Done
  <2> HIDE DEF Done
  <2>1. 0..n \subseteq Done
    BY <1>2, <1>3, <1>4, InductionUpTo
  <2> QED BY <1>2, <2>1
<1> QED BY <1>0, <1>5

-----------------------------------------------------------------------------
(* What is in a sequence, and whether it is there twice. *)

LEMMA EmptyFacts ==
  /\ Range(<<>>) = {}
  /\ IsInjective(<<>>)
<1> DOMAIN <<>> = {}
  OBVIOUS
<1> QED BY DEF Range, IsInjective

LEMMA AppendFacts ==
  ASSUME NEW T, NEW s \in Seq(T), NEW x \in T
  PROVE  /\ Append(s, x) \in Seq(T)
         /\ Range(Append(s, x)) = Range(s) \cup {x}
         /\ IsInjective(s) /\ x \notin Range(s) => IsInjective(Append(s, x))
<1> DEFINE r == Append(s, x)
           n == Len(s)
<1>1. /\ n \in Nat /\ r \in Seq(T) /\ DOMAIN s = 1..n
      /\ DOMAIN r = 1..(n + 1) /\ r[n + 1] = x /\ \A i \in 1..n : r[i] = s[i]
  OBVIOUS
<1> HIDE DEF r, n
<1>2. \A i \in 1..(n + 1) : i = n + 1 \/ i \in 1..n
  BY <1>1
<1>3. 1..n \subseteq 1..(n + 1) /\ n + 1 \in 1..(n + 1)
  BY <1>1
<1>4. Range(r) = Range(s) \cup {x}
  BY <1>1, <1>2, <1>3 DEF Range
<1>5. IsInjective(s) /\ x \notin Range(s) => IsInjective(r)
  <2> SUFFICES ASSUME IsInjective(s), x \notin Range(s),
                      NEW i \in 1..(n + 1), NEW j \in 1..(n + 1), r[i] = r[j]
               PROVE  i = j
    BY <1>1 DEF IsInjective
  <2>1. \A m \in 1..n : s[m] # x
    BY <1>1 DEF Range
  <2>2. \A k, m \in 1..n : s[k] = s[m] => k = m
    BY <1>1 DEF IsInjective
  <2> QED BY <1>1, <1>2, <2>1, <2>2
<1> QED BY <1>1, <1>4, <1>5 DEF r

LEMMA PrependFacts ==
  ASSUME NEW T, NEW s \in Seq(T), NEW x \in T
  PROVE  /\ <<x>> \o s \in Seq(T)
         /\ Range(<<x>> \o s) = Range(s) \cup {x}
         /\ IsInjective(s) /\ x \notin Range(s) => IsInjective(<<x>> \o s)
<1> DEFINE r == <<x>> \o s
           n == Len(s)
<1>1. /\ n \in Nat /\ r \in Seq(T) /\ DOMAIN s = 1..n
      /\ DOMAIN r = 1..(n + 1) /\ r[1] = x /\ \A i \in 1..n : r[i + 1] = s[i]
  OBVIOUS
<1> HIDE DEF r, n
<1>2. \A i \in 1..(n + 1) : i = 1 \/ (i - 1 \in 1..n /\ r[i] = s[i - 1])
  <2> SUFFICES ASSUME NEW i \in 1..(n + 1), i # 1 PROVE i - 1 \in 1..n /\ r[i] = s[i - 1]
    OBVIOUS
  <2>1. i - 1 \in 1..n /\ (i - 1) + 1 = i
    BY <1>1
  <2> QED BY <1>1, <2>1
<1>3. 1 \in 1..(n + 1) /\ \A i \in 1..n : i + 1 \in 1..(n + 1)
  BY <1>1
<1>4. Range(r) = Range(s) \cup {x}
  <2>1. ASSUME NEW y \in Range(r) PROVE y = x \/ y \in Range(s)
    <3>1. PICK i \in 1..(n + 1) : y = r[i]
      BY <1>1 DEF Range
    <3>2. CASE i = 1
      BY <1>1, <3>1, <3>2
    <3>3. CASE i # 1
      <4>1. i - 1 \in DOMAIN s /\ y = s[i - 1]
        BY <1>1, <1>2, <3>1, <3>3
      <4> QED BY <4>1 DEF Range
    <3> QED BY <3>2, <3>3
  <2>2. x \in Range(r)
    BY <1>1, <1>3 DEF Range
  <2>3. \A y \in Range(s) : y \in Range(r)
    BY <1>1, <1>3 DEF Range
  <2> QED BY <2>1, <2>2, <2>3
<1>5. IsInjective(s) /\ x \notin Range(s) => IsInjective(r)
  <2> SUFFICES ASSUME IsInjective(s), x \notin Range(s),
                      NEW i \in 1..(n + 1), NEW j \in 1..(n + 1), r[i] = r[j]
               PROVE  i = j
    BY <1>1 DEF IsInjective
  <2>1. \A m \in 1..n : s[m] # x
    BY <1>1 DEF Range
  <2>2. \A k, m \in 1..n : s[k] = s[m] => k = m
    BY <1>1 DEF IsInjective
  <2>3. i - 1 = j - 1 => i = j
    OBVIOUS
  <2>4. CASE i = 1 \/ j = 1
    BY <1>1, <1>2, <2>1, <2>4
  <2>5. CASE i # 1 /\ j # 1
    <3>1. /\ i - 1 \in 1..n /\ r[i] = s[i - 1]
          /\ j - 1 \in 1..n /\ r[j] = s[j - 1]
      BY <1>2, <2>5
    <3>2. s[i - 1] = s[j - 1]
      BY <3>1
    <3>3. i - 1 = j - 1
      BY <2>2, <3>1, <3>2
    <3> QED BY <2>3, <3>3
  <2> QED BY <2>4, <2>5
<1> QED BY <1>1, <1>4, <1>5 DEF r

LEMMA TailFacts ==
  ASSUME NEW T, NEW s \in Seq(T), s # <<>>
  PROVE  /\ Tail(s) \in Seq(T) /\ Head(s) \in T
         /\ Range(s) = {Head(s)} \cup Range(Tail(s))
         /\ IsInjective(s) => IsInjective(Tail(s)) /\ Head(s) \notin Range(Tail(s))
<1> DEFINE r == Tail(s)
           n == Len(r)
<1>1. /\ n \in Nat /\ r \in Seq(T) /\ Head(s) \in T /\ Head(s) = s[1] /\ DOMAIN r = 1..n
      /\ DOMAIN s = 1..(n + 1) /\ \A i \in 1..n : r[i] = s[i + 1]
  OBVIOUS
<1> HIDE DEF r, n
<1>2. 1 \in 1..(n + 1) /\ \A i \in 1..n : i + 1 \in 1..(n + 1) /\ i + 1 # 1
  BY <1>1
<1>3. \A i \in 1..(n + 1) : i = 1 \/ (i - 1 \in 1..n /\ s[i] = r[i - 1])
  <2> SUFFICES ASSUME NEW i \in 1..(n + 1), i # 1 PROVE i - 1 \in 1..n /\ s[i] = r[i - 1]
    OBVIOUS
  <2>1. i - 1 \in 1..n /\ (i - 1) + 1 = i
    BY <1>1
  <2> QED BY <1>1, <2>1
<1>4. Range(s) = {Head(s)} \cup Range(r)
  <2>1. \A i \in DOMAIN s : s[i] = Head(s) \/ \E j \in DOMAIN r : s[i] = r[j]
    BY <1>1, <1>3
  <2>2. \A j \in DOMAIN r : \E i \in DOMAIN s : s[i] = r[j]
    BY <1>1, <1>2
  <2>3. \E i \in DOMAIN s : s[i] = Head(s)
    BY <1>1, <1>2
  <2> QED BY <2>1, <2>2, <2>3 DEF Range
<1>5. ASSUME IsInjective(s)
      PROVE  IsInjective(r) /\ Head(s) \notin Range(r)
  <2>1. ASSUME NEW i \in 1..n, NEW j \in 1..n, r[i] = r[j]
        PROVE  i = j
    <3>1. i + 1 \in DOMAIN s /\ j + 1 \in DOMAIN s /\ s[i + 1] = s[j + 1]
      BY <1>1, <1>2, <2>1
    <3>2. i + 1 = j + 1
      BY <1>5, <3>1 DEF IsInjective
    <3> QED BY <3>2
  <2>2. \A i \in 1..n : r[i] # s[1]
    BY <1>1, <1>2, <1>5 DEF IsInjective
  <2> QED BY <1>1, <2>1, <2>2 DEF IsInjective, Range
<1> QED BY <1>1, <1>4, <1>5 DEF r

LEMMA ConcatFacts ==
  ASSUME NEW T, NEW s \in Seq(T), NEW t \in Seq(T)
  PROVE  /\ s \o t \in Seq(T)
         /\ Range(s \o t) = Range(s) \cup Range(t)
         /\ IsInjective(s) /\ IsInjective(t) /\ Range(s) \cap Range(t) = {} => IsInjective(s \o t)
<1> DEFINE r == s \o t
           n == Len(s)
           m == Len(t)
<1>1. /\ n \in Nat /\ m \in Nat /\ r \in Seq(T) /\ DOMAIN s = 1..n /\ DOMAIN t = 1..m
      /\ DOMAIN r = 1..(n + m) /\ \A i \in 1..n : r[i] = s[i]
      /\ \A i \in 1..m : r[n + i] = t[i]
  OBVIOUS
<1> HIDE DEF r, n, m
<1>2. /\ \A i \in 1..n : i \in 1..(n + m)
      /\ \A i \in 1..m : n + i \in 1..(n + m)
  BY <1>1
<1>3. ASSUME NEW i \in 1..(n + m)
      PROVE  \/ i \in 1..n /\ r[i] = s[i]
             \/ i - n \in 1..m /\ r[i] = t[i - n]
  <2>1. CASE i <= n
    BY <1>1, <2>1
  <2>2. CASE ~(i <= n)
    <3>1. i - n \in 1..m /\ n + (i - n) = i
      BY <1>1, <2>2
    <3> QED BY <1>1, <3>1
  <2> QED BY <2>1, <2>2
<1>4. Range(r) = Range(s) \cup Range(t)
  <2>1. \A i \in DOMAIN r : r[i] \in Range(s) \/ r[i] \in Range(t)
    BY <1>1, <1>3 DEF Range
  <2>2. \A i \in DOMAIN s : \E j \in DOMAIN r : r[j] = s[i]
    BY <1>1, <1>2
  <2>3. \A i \in DOMAIN t : \E j \in DOMAIN r : r[j] = t[i]
    BY <1>1, <1>2
  <2> QED BY <2>1, <2>2, <2>3 DEF Range
<1>5. ASSUME IsInjective(s), IsInjective(t), Range(s) \cap Range(t) = {}
      PROVE  IsInjective(r)
  <2>0. \A i \in 1..n, j \in 1..m : s[i] # t[j]
    BY <1>1, <1>5 DEF Range
  <2> SUFFICES ASSUME NEW i \in 1..(n + m), NEW j \in 1..(n + m), r[i] = r[j]
               PROVE  i = j
    BY <1>1 DEF IsInjective
  <2>1. CASE i \in 1..n /\ r[i] = s[i] /\ j \in 1..n /\ r[j] = s[j]
    BY <1>1, <1>5, <2>1 DEF IsInjective
  <2>2. CASE i - n \in 1..m /\ r[i] = t[i - n] /\ j - n \in 1..m /\ r[j] = t[j - n]
    <3>1. i - n = j - n
      BY <1>1, <1>5, <2>2 DEF IsInjective
    <3> QED BY <1>1, <3>1
  <2> QED BY <1>3, <2>0, <2>1, <2>2
<1> QED BY <1>1, <1>4, <1>5 DEF r

LEMMA LastFacts ==
  ASSUME NEW T, NEW s \in Seq(T), s # <<>>
  PROVE  Last(s) \in Range(s) /\ Last(s) \in T
<1>1. Len(s) \in DOMAIN s /\ s[Len(s)] \in T
  OBVIOUS
<1> QED BY <1>1 DEF Last, Range

LEMMA IntervalSize ==
  ASSUME NEW n \in Nat
  PROVE  IsFiniteSet(1..n) /\ Cardinality(1..n) = n
<1>1. IsFiniteSet(1..n) /\ Cardinality(1..n) = IF 1 > n THEN 0 ELSE n - 1 + 1
  BY FS_Interval
<1> QED BY <1>1

\* A sequence shorter than n leaves out one of the numbers up to n.
LEMMA NotAllUsed ==
  ASSUME NEW T, NEW s \in Seq(T), NEW n \in Nat, Len(s) < n
  PROVE  \E x \in 1..n : x \notin Range(s)
<1> SUFFICES ASSUME \A x \in 1..n : x \in Range(s) PROVE FALSE
  OBVIOUS
<1> DEFINE f == [x \in 1..n |-> CHOOSE i \in 1..Len(s) : s[i] = x]
<1>1. Len(s) \in Nat /\ DOMAIN s = 1..Len(s)
  OBVIOUS
<1>2. \A x \in 1..n : \E i \in 1..Len(s) : s[i] = x
  BY <1>1 DEF Range
<1>3. \A x \in 1..n : f[x] \in 1..Len(s) /\ s[f[x]] = x
  BY <1>2
<1>4. f \in [1..n -> 1..Len(s)]
  BY <1>3
<1>5. /\ IsFiniteSet(1..n) /\ Cardinality(1..n) = n
      /\ IsFiniteSet(1..Len(s)) /\ Cardinality(1..Len(s)) = Len(s)
  BY <1>1, IntervalSize
<1> HIDE DEF f
<1>6. \E x, y \in 1..n : x # y /\ f[x] = f[y]
  <2> DEFINE S == 1..n
             U == 1..Len(s)
  <2>1. IsFiniteSet(S) /\ IsFiniteSet(U) /\ Cardinality(U) < Cardinality(S) /\ f \in [S -> U]
    BY <1>4, <1>5
  <2> HIDE DEF S, U
  <2>2. \E x, y \in S : x # y /\ f[x] = f[y]
    BY <2>1, FS_PigeonHole
  <2> QED BY <2>2 DEF S
<1> QED BY <1>3, <1>6

-----------------------------------------------------------------------------
(* Positions, removals and concatenations. *)

\* A nonempty set of positions of a sequence has a greatest one.
LEMMA MaxPosition ==
    ASSUME NEW n \in Nat, NEW T \in SUBSET (1..n), T # {}
    PROVE  Max(T) \in T /\ \A y \in T : Max(T) >= y
<1>1. T \in SUBSET (0..n)
  OBVIOUS
<1>2. Max(T) \in T /\ \A y \in T : y <= Max(T)
  BY <1>1, GreatestUpTo
<1>3. T \subseteq Nat
  OBVIOUS
<1> QED BY <1>2, <1>3

\* What RemoveAt returns.
LEMMA RemoveAtProperties ==
    ASSUME NEW S, NEW q \in Seq(S), NEW k \in 1..Len(q)
    PROVE  /\ RemoveAt(q, k) \in Seq(S)
           /\ Len(RemoveAt(q, k)) = Len(q) - 1
           /\ \A i \in 1..Len(q) - 1 :
                RemoveAt(q, k)[i] = IF i < k THEN q[i] ELSE q[i + 1]
<1> DEFINE front == SubSeq(q, 1, k - 1)
           back  == SubSeq(q, k + 1, Len(q))
<1>1. /\ front \in Seq(S)
      /\ Len(front) = k - 1
      /\ \A i \in 1..k - 1 : front[i] = q[i]
  BY SubSeqProperties
<1>2. /\ back \in Seq(S)
      /\ Len(back) = Len(q) - k
      /\ \A i \in 1..Len(q) - k : back[i] = q[k + i]
  BY SubSeqProperties
<1> HIDE DEF front, back
<1>3. /\ front \o back \in Seq(S)
      /\ Len(front \o back) = Len(front) + Len(back)
      /\ \A i \in 1..Len(front) + Len(back) :
            (front \o back)[i] = IF i <= Len(front) THEN front[i] ELSE back[i - Len(front)]
  BY <1>1, <1>2, ConcatProperties
<1>4. RemoveAt(q, k) = front \o back
  BY DEF RemoveAt, front, back
<1>5. ASSUME NEW i \in 1..Len(q) - 1
      PROVE  (front \o back)[i] = IF i < k THEN q[i] ELSE q[i + 1]
  <2>1. CASE i < k
    BY <2>1, <1>1, <1>2, <1>3
  <2>2. CASE ~ (i < k)
    <3>1. i - (k - 1) \in 1..Len(q) - k
      BY <2>2
    <3>2. back[i - (k - 1)] = q[i + 1]
      BY <3>1, <1>2
    <3> QED BY <2>2, <3>2, <1>1, <1>2, <1>3
  <2> QED BY <2>1, <2>2
<1>6. Len(front) + Len(back) = Len(q) - 1
  BY <1>1, <1>2
<1> QED BY <1>3, <1>4, <1>5, <1>6

\* r is q without its element at c.
Lacks(r, q, c) ==
  /\ c \in 1..Len(q) /\ Len(r) = Len(q) - 1
  /\ \A i \in 1..Len(r) : r[i] = IF i < c THEN q[i] ELSE q[i + 1]

\* What a concatenation holds.
LEMMA ConcatAt ==
  ASSUME NEW T, NEW s \in Seq(T), NEW t \in Seq(T)
  PROVE  /\ s \o t \in Seq(T) /\ Len(s) \in Nat /\ Len(t) \in Nat /\ Len(s \o t) = Len(s) + Len(t)
         /\ \A i \in 1..Len(s) : (s \o t)[i] = s[i]
         /\ \A i \in 1..Len(t) : (s \o t)[Len(s) + i] = t[i]
OBVIOUS

\* It lacks it as well with t behind.
LEMMA LacksBehind ==
  ASSUME NEW T, NEW r \in Seq(T), NEW q \in Seq(T), NEW t \in Seq(T), NEW c, Lacks(r, q, c)
  PROVE  Lacks(r \o t, q \o t, c)
<1> DEFINE u == r \o t
           v == q \o t
           n == Len(q)
           m == Len(t)
<1>1. /\ n \in Nat /\ m \in Nat /\ Len(r) = n - 1 /\ c \in 1..n
      /\ Len(u) = (n - 1) + m /\ Len(v) = n + m
      /\ \A i \in 1..(n - 1) : u[i] = r[i]
      /\ \A i \in 1..m : u[n - 1 + i] = t[i]
      /\ \A i \in 1..n : v[i] = q[i]
      /\ \A i \in 1..m : v[n + i] = t[i]
  <2>1. Len(r) = n - 1 /\ c \in 1..n /\ n \in Nat
    BY DEF Lacks
  <2>2. /\ Len(u) = Len(r) + Len(t)
        /\ \A i \in 1..Len(r) : u[i] = r[i]
        /\ \A i \in 1..Len(t) : u[Len(r) + i] = t[i]
    BY ConcatAt
  <2>3. /\ m \in Nat /\ Len(v) = Len(q) + Len(t)
        /\ \A i \in 1..Len(q) : v[i] = q[i]
        /\ \A i \in 1..Len(t) : v[Len(q) + i] = t[i]
    BY ConcatAt
  <2> HIDE DEF u, v
  <2> QED BY <2>1, <2>2, <2>3
<1>2. \A i \in 1..(n - 1) : r[i] = IF i < c THEN q[i] ELSE q[i + 1]
  BY <1>1 DEF Lacks
<1> HIDE DEF u, v, n, m
<1>3. ASSUME NEW i \in 1..((n - 1) + m)
      PROVE  u[i] = IF i < c THEN v[i] ELSE v[i + 1]
  <2>1. CASE i \in 1..(n - 1)
    <3>1. i \in 1..n /\ i + 1 \in 1..n
      BY <1>1, <2>1
    <3> QED BY <1>1, <1>2, <2>1, <3>1
  <2>2. CASE i \notin 1..(n - 1)
    <3> DEFINE j == i - (n - 1)
    <3>1. j \in 1..m /\ n - 1 + j = i /\ n + j = i + 1 /\ ~(i < c)
      BY <1>1, <2>2
    <3> HIDE DEF j
    <3>2. u[n - 1 + j] = t[j] /\ v[n + j] = t[j]
      BY <1>1, <3>1
    <3> QED BY <3>1, <3>2
  <2> QED BY <2>1, <2>2
<1>4. c \in 1..(n + m) /\ (n - 1) + m = (n + m) - 1
  BY <1>1
<1>5. Lacks(u, v, c)
  BY <1>1, <1>3, <1>4 DEF Lacks
<1> QED BY <1>5 DEF u, v

\* It lacks it as well with s ahead.
LEMMA LacksAhead ==
  ASSUME NEW T, NEW r \in Seq(T), NEW q \in Seq(T), NEW s \in Seq(T), NEW c, Lacks(r, q, c)
  PROVE  Lacks(s \o r, s \o q, Len(s) + c)
<1> DEFINE u == s \o r
           v == s \o q
           n == Len(q)
           m == Len(s)
           d == m + c
<1>1. /\ n \in Nat /\ m \in Nat /\ Len(r) = n - 1 /\ c \in 1..n
      /\ Len(u) = m + (n - 1) /\ Len(v) = m + n
      /\ \A i \in 1..m : u[i] = s[i] /\ v[i] = s[i]
      /\ \A i \in 1..(n - 1) : u[m + i] = r[i]
      /\ \A i \in 1..n : v[m + i] = q[i]
  <2>1. Len(r) = n - 1 /\ c \in 1..n /\ n \in Nat
    BY DEF Lacks
  <2>2. /\ Len(u) = Len(s) + Len(r)
        /\ \A i \in 1..Len(s) : u[i] = s[i]
        /\ \A i \in 1..Len(r) : u[Len(s) + i] = r[i]
    BY ConcatAt
  <2>3. /\ m \in Nat /\ Len(v) = Len(s) + Len(q)
        /\ \A i \in 1..Len(s) : v[i] = s[i]
        /\ \A i \in 1..Len(q) : v[Len(s) + i] = q[i]
    BY ConcatAt
  <2> HIDE DEF u, v
  <2> QED BY <2>1, <2>2, <2>3
<1>2. \A i \in 1..(n - 1) : r[i] = IF i < c THEN q[i] ELSE q[i + 1]
  BY <1>1 DEF Lacks
<1>6. d \in 1..(m + n) /\ m + (n - 1) = (m + n) - 1 /\ \A i \in Int : m + i < d <=> i < c
  BY <1>1
<1> HIDE DEF u, v, n, m, d
<1>3. ASSUME NEW i \in 1..(m + (n - 1))
      PROVE  u[i] = IF i < d THEN v[i] ELSE v[i + 1]
  <2>1. CASE i \in 1..m
    <3>1. i < d
      BY <1>1, <2>1 DEF d
    <3> QED BY <1>1, <2>1, <3>1
  <2>2. CASE i \notin 1..m
    <3> DEFINE j == i - m
    <3>1. j \in 1..(n - 1) /\ m + j = i /\ j \in 1..n /\ j + 1 \in 1..n /\ m + (j + 1) = i + 1
      BY <1>1, <2>2
    <3> HIDE DEF j
    <3>2. u[m + j] = r[j] /\ v[m + j] = q[j] /\ v[m + (j + 1)] = q[j + 1]
      BY <1>1, <3>1
    <3>3. r[j] = IF j < c THEN q[j] ELSE q[j + 1]
      BY <1>2, <3>1
    <3>4. i < d <=> j < c
      BY <1>6, <3>1
    <3> QED BY <3>1, <3>2, <3>3, <3>4
  <2> QED BY <2>1, <2>2
<1>5. Lacks(u, v, d)
  BY <1>1, <1>3, <1>6 DEF Lacks
<1> QED BY <1>5 DEF u, v, d, m

\* The first of t goes behind s.
LEMMA ConcatMoved ==
  ASSUME NEW T, NEW s \in Seq(T), NEW t \in Seq(T), t # <<>>
  PROVE  Append(s, Head(t)) \o Tail(t) = s \o t
<1> DEFINE h == Head(t)
           z == Tail(t)
           a == Append(s, h)
<1>1. h \in T /\ z \in Seq(T) /\ Len(t) = Len(z) + 1 /\ t[1] = h /\ \A i \in 1..Len(z) : t[i + 1] = z[i]
  OBVIOUS
<1>2. a \in Seq(T) /\ Len(a) = Len(s) + 1 /\ a[Len(s) + 1] = h /\ \A i \in 1..Len(s) : a[i] = s[i]
  BY <1>1
<1> HIDE DEF a, h, z
<1> DEFINE n == Len(s)
           m == Len(z)
           u == a \o z
           v == s \o t
<1>3. /\ n \in Nat /\ m \in Nat
      /\ u \in Seq(T) /\ Len(u) = (n + 1) + m /\ \A i \in 1..(n + 1) : u[i] = a[i]
      /\ \A i \in 1..m : u[n + 1 + i] = z[i]
      /\ v \in Seq(T) /\ Len(v) = n + (m + 1) /\ \A i \in 1..n : v[i] = s[i]
      /\ \A i \in 1..(m + 1) : v[n + i] = t[i]
  <2>0. a \in Seq(T) /\ z \in Seq(T)
    BY <1>1, <1>2
  <2>1. /\ u \in Seq(T) /\ Len(a) \in Nat /\ m \in Nat /\ Len(u) = Len(a) + m
        /\ \A i \in 1..Len(a) : u[i] = a[i]
        /\ \A i \in 1..m : u[Len(a) + i] = z[i]
    BY <2>0, ConcatAt
  <2>2. /\ v \in Seq(T) /\ n \in Nat /\ Len(v) = n + Len(t)
        /\ \A i \in 1..n : v[i] = s[i]
        /\ \A i \in 1..Len(t) : v[n + i] = t[i]
    BY ConcatAt
  <2>3. Len(a) = n + 1 /\ Len(t) = m + 1
    BY <1>1, <1>2
  <2> HIDE DEF u, v, n, m
  <2> QED BY <2>1, <2>2, <2>3
<1>4. t[1] = h /\ \A i \in 1..m : t[i + 1] = z[i]
  BY <1>1
<1>5. a[n + 1] = h /\ \A i \in 1..n : a[i] = s[i]
  BY <1>2
<1> HIDE DEF n, m, u, v
<1>6. ASSUME NEW i \in 1..Len(u) PROVE u[i] = v[i]
  <2>1. CASE i \in 1..n
    <3>1. i \in 1..(n + 1)
      BY <1>3, <2>1
    <3> QED BY <1>3, <1>5, <2>1, <3>1
  <2>2. CASE i = n + 1
    <3>1. i \in 1..(n + 1) /\ 1 \in 1..(m + 1)
      BY <1>3, <2>2
    <3> QED BY <1>3, <1>4, <1>5, <2>2, <3>1
  <2>3. CASE i \notin 1..n /\ i # n + 1
    <3> DEFINE j == i - (n + 1)
    <3>1. j \in 1..m /\ n + 1 + j = i /\ j + 1 \in 1..(m + 1) /\ n + (j + 1) = i
      BY <1>3, <2>3
    <3> HIDE DEF j
    <3>2. u[n + 1 + j] = z[j] /\ v[n + (j + 1)] = t[j + 1] /\ t[j + 1] = z[j]
      BY <1>3, <1>4, <3>1
    <3> QED BY <3>1, <3>2
  <2> QED BY <2>1, <2>2, <2>3
<1>7. Len(u) = Len(v)
  BY <1>3
<1>8. u = v
  BY <1>3, <1>6, <1>7, SeqEqual
<1> QED BY <1>8 DEF u, v, a, h, z

\* The first of s is taken off.
LEMMA ConcatTail ==
  ASSUME NEW T, NEW s \in Seq(T), NEW t \in Seq(T), s # <<>>
  PROVE  /\ s \o t # <<>> /\ Head(s \o t) = Head(s) /\ Tail(s \o t) = Tail(s) \o t
<1> DEFINE z == Tail(s)
           v == s \o t
           u == z \o t
           w == Tail(v)
           n == Len(z)
           m == Len(t)
<1>1. z \in Seq(T) /\ n \in Nat /\ Len(s) = n + 1 /\ s[1] = Head(s) /\ \A i \in 1..n : s[i + 1] = z[i]
  OBVIOUS
<1>2. /\ m \in Nat /\ v \in Seq(T) /\ Len(v) = (n + 1) + m /\ \A i \in 1..(n + 1) : v[i] = s[i]
      /\ \A i \in 1..m : v[n + 1 + i] = t[i]
  BY <1>1
<1> HIDE DEF z
<1>3. /\ u \in Seq(T) /\ Len(u) = n + m /\ \A i \in 1..n : u[i] = z[i]
      /\ \A i \in 1..m : u[n + i] = t[i]
  BY <1>1
<1> HIDE DEF n, m, u, v
<1>4. v # <<>> /\ Head(v) = v[1]
  BY <1>1, <1>2
<1>5. w \in Seq(T) /\ Len(w) = n + m /\ \A i \in 1..(n + m) : w[i] = v[i + 1]
  BY <1>1, <1>2, <1>4
<1> HIDE DEF w
<1>6. ASSUME NEW i \in 1..(n + m) PROVE u[i] = w[i]
  <2>1. CASE i \in 1..n
    <3>1. i + 1 \in 1..(n + 1)
      BY <1>1, <2>1
    <3> QED BY <1>1, <1>2, <1>3, <1>5, <2>1, <3>1
  <2>2. CASE i \notin 1..n
    <3> DEFINE j == i - n
    <3>1. j \in 1..m /\ n + j = i /\ n + 1 + j = i + 1
      BY <1>1, <1>2, <2>2
    <3> HIDE DEF j
    <3>2. u[n + j] = t[j] /\ v[n + 1 + j] = t[j]
      BY <1>2, <1>3, <3>1
    <3> QED BY <1>5, <3>1, <3>2
  <2> QED BY <2>1, <2>2
<1>7. u = w
  BY <1>3, <1>5, <1>6, SeqEqual
<1>8. v[1] = s[1]
  <2>1. 1 \in 1..(n + 1)
    BY <1>1
  <2> QED BY <1>2, <2>1
<1> QED BY <1>1, <1>4, <1>7, <1>8 DEF u, v, w, z

\* What is behind may be put together first.
LEMMA ConcatRegrouped ==
  \A T : \A s, t, u \in Seq(T) : (s \o t) \o u = s \o (t \o u)
BY ConcatAssociative

\* One more behind.
LEMMA ConcatAppend ==
  ASSUME NEW T, NEW s \in Seq(T), NEW t \in Seq(T), NEW x \in T
  PROVE  s \o Append(t, x) = Append(s \o t, x)
<1>1. Append(t, x) = t \o <<x>> /\ Append(s \o t, x) = (s \o t) \o <<x>> /\ <<x>> \in Seq(T)
  <2>1. s \o t \in Seq(T)
    OBVIOUS
  <2> DEFINE v == s \o t
  <2> HIDE DEF v
  <2>2. Append(t, x) = t \o <<x>> /\ Append(v, x) = v \o <<x>>
    BY <2>1, AppendIsConcat DEF v
  <2> QED BY <2>2 DEF v
<1> QED BY <1>1, ConcatAssociative

\* Of the positions that satisfy something there is a last one.
LEMMA LastPosition ==
  ASSUME NEW n \in Nat, NEW P \in SUBSET (1..n)
  PROVE  P = {} \/ \E i \in P : \A j \in 1..n : j > i => j \notin P
<1>1. CASE P # {}
  <2>1. Max(P) \in P /\ \A y \in P : Max(P) >= y
    BY <1>1, MaxPosition
  <2> DEFINE i == Max(P)
  <2>2. i \in P /\ \A y \in P : i >= y
    BY <2>1
  <2> HIDE DEF i
  <2>3. \A j \in 1..n : j > i => j \notin P
    BY <2>2
  <2> QED BY <2>2, <2>3
<1> QED BY <1>1

\* It is the largest.
LEMMA MaxIsLast ==
  ASSUME NEW n \in Nat, NEW P \in SUBSET (1..n), NEW i \in P, \A j \in 1..n : j > i => j \notin P
  PROVE  Max(P) = i
<1> DEFINE x == Max(P)
<1>1. x \in P /\ x >= i
  BY MaxPosition
<1> HIDE DEF x
<1>2. i \in 1..n /\ x \in 1..n /\ ~(x > i)
  BY <1>1
<1>3. x = i
  BY <1>1, <1>2
<1> QED BY <1>3 DEF x

\* g concatenates more and more of the sequences of b.
Joins(g, b, T) ==
    /\ g \in [0..Len(b) -> Seq(T)]
    /\ g[0] = <<>>
    /\ \A i \in 1..Len(b) : g[i] = g[i - 1] \o b[i]

\* What FlattenSeq concatenates on its way.
LEMMA FlattenSteps ==
  ASSUME NEW T, NEW b \in Seq(Seq(T))
  PROVE  \E g : Joins(g, b, T) /\ FlattenSeq(b) = g[Len(b)]
<1> DEFINE n == Len(b)
           A == Seq(T)
           step == [x \in (1..n) \X A |-> x[2] \o b[x[1]]]
           none == <<>>
           Equation(f) == f = [i \in 1..n |-> IF i = 1 THEN b[i] ELSE f[i - 1] \o b[i]]
           c == CHOOSE f : Equation(f)
<1>1. n \in Nat /\ none \in A /\ \A i \in 1..n : b[i] \in A
  OBVIOUS
<1>2. \A r \in A, t \in A : r \o t \in A
  OBVIOUS
<1> HIDE DEF A
<1>3. step \in Steps(n, A)
  <2> SUFFICES ASSUME NEW i \in 1..n, NEW r \in A PROVE r \o b[i] \in A
    BY DEF Steps
  <2> QED BY <1>1, <1>2
<1>4. \A i \in 1..n, r \in A : step[<<i, r>>] = r \o b[i]
  OBVIOUS
<1>5. PICK g : Computed(g, n, A, none, step)
  <2> HIDE DEF step, n, none
  <2> QED BY <1>1, <1>3, RecursionUpTo
<1>6. /\ g \in [0..n -> A] /\ g[0] = <<>>
      /\ \A i \in 1..n : g[i] = g[i - 1] \o b[i]
  <2>1. g \in [0..n -> A] /\ g[0] = none /\ \A i \in 1..n : g[i] = step[<<i, g[i - 1]>>]
    BY <1>5 DEF Computed
  <2> HIDE DEF step
  <2>2. \A i \in 1..n : g[i - 1] \in A
    <3> SUFFICES ASSUME NEW i \in 1..n PROVE g[i - 1] \in A
      OBVIOUS
    <3>1. i - 1 \in 0..n
      BY <1>1
    <3> HIDE DEF n
    <3> QED BY <2>1, <3>1
  <2> QED BY <1>4, <2>1, <2>2
<1>7. Joins(g, b, T)
  BY <1>6 DEF Joins, A
<1>8. CASE n = 0
  <2>1. b = <<>> /\ FlattenSeq(b) = b
    BY <1>8 DEF FlattenSeq
  <2> QED BY <1>6, <1>7, <1>8, <2>1
<1>9. CASE n # 0
  <2> DEFINE f == [i \in 1..n |-> g[i]]
  <2>1. \A i \in 1..n : g[i] = IF i = 1 THEN b[i] ELSE g[i - 1] \o b[i]
    <3> SUFFICES ASSUME NEW i \in 1..n, i = 1 PROVE g[i] = b[i]
      BY <1>6
    <3>1. g[i] = <<>> \o b[i]
      BY <1>6
    <3>2. \A r \in Seq(T) : <<>> \o r = r
      OBVIOUS
    <3> QED BY <1>1, <3>1, <3>2 DEF A
  <2>2. Equation(f)
    <3> DEFINE h == [i \in 1..n |-> IF i = 1 THEN b[i] ELSE f[i - 1] \o b[i]]
    <3>1. \A i \in 1..n : f[i] = h[i]
      <4> SUFFICES ASSUME NEW i \in 1..n PROVE f[i] = h[i]
        OBVIOUS
      <4>1. f[i] = g[i] /\ h[i] = IF i = 1 THEN b[i] ELSE f[i - 1] \o b[i]
        OBVIOUS
      <4>2. i # 1 => f[i - 1] = g[i - 1]
        BY <1>1
      <4> QED BY <2>1, <4>1, <4>2
    <3>2. f = [i \in 1..n |-> f[i]] /\ h = [i \in 1..n |-> h[i]]
      OBVIOUS
    <3> QED BY <3>1, <3>2
  <2> HIDE DEF f
  <2>3. Equation(c)
    <3> HIDE DEF Equation
    <3> QED BY <2>2
  <2>4. FlattenSeq(b) = c[n]
    BY <1>9 DEF FlattenSeq
  <2> HIDE DEF c
  <2>5. \A i \in 1..n : c[i] = IF i = 1 THEN b[i] ELSE c[i - 1] \o b[i]
    <3> DEFINE D == 1..n
    <3>1. c = [i \in D |-> IF i = 1 THEN b[i] ELSE c[i - 1] \o b[i]]
      BY <2>3
    <3> HIDE DEF D
    <3>2. \A i \in D : c[i] = IF i = 1 THEN b[i] ELSE c[i - 1] \o b[i]
      BY <3>1, Zenon
    <3> QED BY <3>2 DEF D
  <2> DEFINE Same == {i \in 0..n : i = 0 \/ c[i] = g[i]}
  <2>6. 0 \in Same
    BY <1>1
  <2>7. ASSUME NEW i \in 0..n, i # n, i \in Same PROVE i + 1 \in Same
    <3>1. i + 1 \in 1..n /\ i + 1 \in 0..n /\ (i + 1) - 1 = i
      BY <1>1, <2>7
    <3>2. i = 0 => i + 1 = 1
      OBVIOUS
    <3>3. i # 0 => i + 1 # 1 /\ c[i] = g[i]
      BY <2>7
    <3>4. c[i + 1] = IF i + 1 = 1 THEN b[i + 1] ELSE c[i] \o b[i + 1]
      BY <2>5, <3>1
    <3>5. g[i + 1] = IF i + 1 = 1 THEN b[i + 1] ELSE g[i] \o b[i + 1]
      BY <2>1, <3>1
    <3> QED BY <3>1, <3>2, <3>3, <3>4, <3>5
  <2> HIDE DEF Same
  <2>8. 0..n \subseteq Same
    BY <1>1, <2>6, <2>7, InductionUpTo
  <2>9. c[n] = g[n]
    BY <1>1, <1>9, <2>8 DEF Same
  <2> QED BY <1>7, <2>4, <2>9
<1> QED BY <1>8, <1>9

-----------------------------------------------------------------------------
(* Events that set keys: w holds what each key was before them. *)

\* What the key k was last set to by the first n events of q, from w on.
Says(q, w, n, k, v) ==
    \/ w[k] = v /\ \A i \in 1..n : q[i].key # k
    \/ \E i \in 1..n : q[i].key = k /\ q[i].id = v /\ \A j \in 1..n : j > i => q[j].key # k

\* They say one thing.
LEMMA SaysOne ==
    ASSUME NEW q, NEW w, NEW n \in Nat, NEW k, NEW u, NEW v, Says(q, w, n, k, u), Says(q, w, n, k, v)
    PROVE  u = v
<1>1. CASE \E i \in 1..n : q[i].key = k
  <2>1. PICK i \in 1..n : q[i].key = k /\ q[i].id = u /\ \A j \in 1..n : j > i => q[j].key # k
    BY <1>1 DEF Says
  <2>2. PICK j \in 1..n : q[j].key = k /\ q[j].id = v /\ \A m \in 1..n : m > j => q[m].key # k
    BY <1>1 DEF Says
  <2>3. i = j
    BY <2>1, <2>2
  <2> QED BY <2>1, <2>2, <2>3
<1>2. CASE \A i \in 1..n : q[i].key # k
  BY <1>2 DEF Says
<1> QED BY <1>1, <1>2

\* Alike events say the same.
LEMMA SaysAlike ==
  ASSUME NEW q, NEW r, NEW w, NEW n, NEW k, NEW v, \A i \in 1..n : r[i] = q[i], Says(q, w, n, k, v)
  PROVE  Says(r, w, n, k, v)
BY DEF Says

\* One more event.
LEMMA SaysMore ==
  ASSUME NEW q, NEW w, NEW n \in Nat, NEW k, NEW v, Says(q, w, n, k, v)
  PROVE  Says(q, w, n + 1, k, IF q[n + 1].key = k THEN q[n + 1].id ELSE v)
<1>1. /\ n + 1 \in 1..(n + 1) /\ \A j \in 1..(n + 1) : ~(j > n + 1)
      /\ \A i \in 1..n : i \in 1..(n + 1)
      /\ \A i \in 1..(n + 1) : i = n + 1 \/ i \in 1..n
  OBVIOUS
<1>2. CASE q[n + 1].key = k
  BY <1>1, <1>2 DEF Says
<1>3. CASE q[n + 1].key # k
  BY <1>1, <1>3 DEF Says
<1> QED BY <1>2, <1>3

\* The first event is taken.
LEMMA SaysTaken ==
  ASSUME NEW q, NEW t, NEW w, NEW u, NEW n \in Nat, NEW k, NEW v, Says(q, w, n + 1, k, v),
         \A i \in 1..n : t[i] = q[i + 1], u[k] = IF q[1].key = k THEN q[1].id ELSE w[k]
  PROVE  Says(t, u, n, k, v)
<1> DEFINE m == n + 1
<1>1. /\ m \in Nat /\ 1 \in 1..m /\ \A i \in 1..n : i + 1 \in 1..m
  OBVIOUS
<1>2. CASE w[k] = v /\ \A i \in 1..m : q[i].key # k
  <2>1. u[k] = v
    BY <1>1, <1>2
  <2>2. \A i \in 1..n : t[i].key # k
    BY <1>1, <1>2
  <2> QED BY <2>1, <2>2 DEF Says
<1>3. CASE \E i \in 1..m : q[i].key = k /\ q[i].id = v /\ \A j \in 1..m : j > i => q[j].key # k
  <2>1. PICK i \in 1..m : q[i].key = k /\ q[i].id = v /\ \A j \in 1..m : j > i => q[j].key # k
    BY <1>3
  <2>2. ASSUME NEW j \in 1..n, j > i - 1 PROVE t[j].key # k
    <3>1. j + 1 \in 1..m /\ j + 1 > i
      BY <2>2
    <3> QED BY <2>1, <3>1
  <2>3. CASE i = 1
    <3>1. u[k] = v
      BY <2>1, <2>3
    <3>2. \A j \in 1..n : t[j].key # k
      BY <2>2, <2>3
    <3> QED BY <3>1, <3>2 DEF Says
  <2>4. CASE i # 1
    <3>1. i - 1 \in 1..n /\ (i - 1) + 1 = i
      BY <2>4
    <3>2. t[i - 1] = q[i]
      BY <3>1
    <3> QED BY <2>1, <2>2, <3>1, <3>2 DEF Says
  <2> QED BY <2>3, <2>4
<1> QED BY <1>2, <1>3 DEF Says

\* An update that a later one of its key supersedes is not missed after it.
LEMMA SaysWithout ==
  ASSUME NEW q, NEW r, NEW w, NEW c \in Nat, NEW m \in Nat, NEW n \in Nat, NEW k, NEW v, Says(q, w, n, k, v),
         1 <= c, c < m, m <= n, q[m].key = q[c].key,
         \A i \in 1..(n - 1) : r[i] = IF i < c THEN q[i] ELSE q[i + 1]
  PROVE  Says(r, w, n - 1, k, v)
<1>1. n - 1 \in Nat /\ c \in 1..n /\ m \in 1..n
  OBVIOUS
<1>2. CASE w[k] = v /\ \A i \in 1..n : q[i].key # k
  <2>1. \A i \in 1..n - 1 : i \in 1..n /\ i + 1 \in 1..n
    OBVIOUS
  <2> QED BY <1>2, <2>1 DEF Says
<1>3. CASE \E i \in 1..n : q[i].key = k /\ q[i].id = v /\ \A j \in 1..n : j > i => q[j].key # k
  <2>1. PICK i \in 1..n : q[i].key = k /\ q[i].id = v /\ \A j \in 1..n : j > i => q[j].key # k
    BY <1>3
  <2>2. i # c
    BY <1>1, <2>1
  <2> DEFINE x == IF i < c THEN i ELSE i - 1
  <2>3. x \in 1..n - 1 /\ r[x] = q[i]
    <3>1. CASE i < c
      <4>1. i \in 1..n - 1
        BY <1>1, <3>1
      <4> QED BY <3>1, <4>1
    <3>2. CASE ~(i < c)
      <4>1. i > c /\ i - 1 \in 1..n - 1 /\ (i - 1) + 1 = i /\ ~(i - 1 < c)
        BY <1>1, <2>2, <3>2
      <4> QED BY <3>2, <4>1
    <3> QED BY <3>1, <3>2
  <2>4. ASSUME NEW j \in 1..n - 1, j > x PROVE r[j].key # k
    <3>1. CASE j < c
      <4>1. i < c /\ j > i /\ j \in 1..n
        BY <1>1, <2>2, <2>4, <3>1
      <4> QED BY <2>1, <3>1, <4>1
    <3>2. CASE ~(j < c)
      <4>1. j + 1 > i /\ j + 1 \in 1..n
        BY <1>1, <2>4, <3>2
      <4> QED BY <2>1, <3>2, <4>1
    <3> QED BY <3>1, <3>2
  <2> HIDE DEF x
  <2> QED BY <2>1, <2>3, <2>4 DEF Says
<1> QED BY <1>2, <1>3 DEF Says

-----------------------------------------------------------------------------
(* Sums over finite sets.                                                  *)

AnyOf(T) == CHOOSE x \in T : TRUE

\* F has the sums of f over the subsets of S that have at most k elements.
Sums(F, f, S, k) ==
    /\ F \in [SUBSET S -> Nat]
    /\ F[{}] = 0
    /\ \A T \in SUBSET S :
          T # {} /\ Cardinality(T) <= k => F[T] = f[AnyOf(T)] + F[T \ {AnyOf(T)}]

LEMMA AnyOfFacts ==
  ASSUME NEW S, IsFiniteSet(S), NEW T \in SUBSET S
  PROVE  /\ IsFiniteSet(T) /\ Cardinality(T) \in 0..Cardinality(S) /\ Cardinality(S) \in Nat
         /\ Cardinality(T) = 0 <=> T = {}
         /\ T # {} => /\ AnyOf(T) \in T /\ T \ {AnyOf(T)} \in SUBSET S
                      /\ Cardinality(T \ {AnyOf(T)}) = Cardinality(T) - 1
<1>1. /\ IsFiniteSet(T) /\ Cardinality(T) \in Nat /\ Cardinality(S) \in Nat
      /\ Cardinality(T) <= Cardinality(S)
  BY FS_Subset, FS_CardinalityType
<1>2. Cardinality(T) = 0 <=> T = {}
  BY <1>1, FS_EmptySet
<1>3. ASSUME T # {}
      PROVE  /\ AnyOf(T) \in T /\ T \ {AnyOf(T)} \in SUBSET S
             /\ Cardinality(T \ {AnyOf(T)}) = Cardinality(T) - 1
  <2>1. AnyOf(T) \in T
    BY <1>3 DEF AnyOf
  <2> QED BY <1>1, <2>1, FS_RemoveElement
<1> QED BY <1>1, <1>2, <1>3

LEMMA SumsExist ==
  ASSUME NEW S, IsFiniteSet(S), NEW f \in [S -> Nat]
  PROVE  \E F : Sums(F, f, S, Cardinality(S))
<1> DEFINE n == Cardinality(S)
           K == {k \in 0..n : \E F : Sums(F, f, S, k)}
<1>1. n \in Nat
  BY FS_CardinalityType
<1> HIDE DEF n
<1>2. 0 \in K
  <2> DEFINE F == [T \in SUBSET S |-> 0]
  <2>1. F \in [SUBSET S -> Nat] /\ F[{}] = 0
    OBVIOUS
  <2>2. ASSUME NEW T \in SUBSET S, T # {}
        PROVE  ~(Cardinality(T) <= 0)
    <3>1. Cardinality(T) \in 0..Cardinality(S) /\ Cardinality(S) \in Nat /\ Cardinality(T) # 0
      BY <2>2, AnyOfFacts
    <3> QED BY <3>1
  <2>3. Sums(F, f, S, 0)
    BY <2>1, <2>2 DEF Sums
  <2> QED BY <1>1, <2>3
<1>3. ASSUME NEW k \in 0..n, k # n, k \in K
      PROVE  k + 1 \in K
  <2>1. PICK F : Sums(F, f, S, k)
    BY <1>3
  <2> DEFINE G == [T \in SUBSET S |-> IF Cardinality(T) = k + 1 THEN f[AnyOf(T)] + F[T \ {AnyOf(T)}]
                                      ELSE F[T]]
  <2>2. \A T \in SUBSET S : T # {} => /\ AnyOf(T) \in S /\ T \ {AnyOf(T)} \in SUBSET S
                                      /\ Cardinality(T) \in Nat
                                      /\ Cardinality(T \ {AnyOf(T)}) = Cardinality(T) - 1
    BY AnyOfFacts
  <2>3. ASSUME NEW T \in SUBSET S, Cardinality(T) = k + 1
        PROVE  T # {}
    <3>1. k + 1 # 0
      BY <1>1
    <3> QED BY <2>3, <3>1, AnyOfFacts
  <2>4. F \in [SUBSET S -> Nat] /\ F[{}] = 0
    BY <2>1 DEF Sums
  <2>5. G \in [SUBSET S -> Nat]
    <3> SUFFICES ASSUME NEW T \in SUBSET S
                 PROVE  (IF Cardinality(T) = k + 1 THEN f[AnyOf(T)] + F[T \ {AnyOf(T)}] ELSE F[T]) \in Nat
      OBVIOUS
    <3>1. F[T] \in Nat
      BY <2>4
    <3>2. Cardinality(T) = k + 1 => f[AnyOf(T)] \in Nat /\ F[T \ {AnyOf(T)}] \in Nat
      BY <2>2, <2>3, <2>4
    <3> QED BY <3>1, <3>2
  <2>6. \A T \in SUBSET S : G[T] = IF Cardinality(T) = k + 1 THEN f[AnyOf(T)] + F[T \ {AnyOf(T)}] ELSE F[T]
    OBVIOUS
  <2> HIDE DEF G
  <2>7. G[{}] = 0
    BY <2>3, <2>4, <2>6
  <2>8. ASSUME NEW T \in SUBSET S, T # {}, Cardinality(T) <= k + 1
        PROVE  G[T] = f[AnyOf(T)] + G[T \ {AnyOf(T)}]
    <3>1. /\ T \ {AnyOf(T)} \in SUBSET S /\ Cardinality(T) \in Nat
          /\ Cardinality(T \ {AnyOf(T)}) = Cardinality(T) - 1
      BY <2>2, <2>8
    <3>2. Cardinality(T \ {AnyOf(T)}) # k + 1
      BY <2>8, <3>1
    <3>3. G[T \ {AnyOf(T)}] = F[T \ {AnyOf(T)}]
      BY <2>6, <3>1, <3>2
    <3>4. Cardinality(T) # k + 1 => Cardinality(T) <= k
      BY <2>8, <3>1
    <3>5. Cardinality(T) # k + 1 => F[T] = f[AnyOf(T)] + F[T \ {AnyOf(T)}]
      BY <2>1, <2>8, <3>4 DEF Sums
    <3> QED BY <2>6, <3>3, <3>5
  <2>9. Sums(G, f, S, k + 1)
    BY <2>5, <2>7, <2>8 DEF Sums
  <2> QED BY <1>1, <1>3, <2>9
<1> HIDE DEF K
<1>4. 0..n \subseteq K
  BY <1>1, <1>2, <1>3, InductionUpTo
<1>5. n \in K
  BY <1>1, <1>4
<1> QED BY <1>5 DEF K, n

\* Induction over the subsets of a finite set, by the element that is chosen.
LEMMA InductionOverSets ==
  ASSUME NEW S, IsFiniteSet(S), NEW P, {} \in P,
         \A T \in SUBSET S : T # {} /\ T \ {AnyOf(T)} \in P => T \in P
  PROVE  SUBSET S \subseteq P
<1> DEFINE n == Cardinality(S)
           K == {k \in 0..n : \A T \in SUBSET S : Cardinality(T) = k => T \in P}
<1>1. n \in Nat
  BY FS_CardinalityType
<1>2. \A T \in SUBSET S : Cardinality(T) \in 0..n
  BY AnyOfFacts
<1> HIDE DEF n
<1>3. 0 \in K
  <2>1. \A T \in SUBSET S : Cardinality(T) = 0 => T = {}
    BY AnyOfFacts
  <2> QED BY <1>1, <2>1
<1>4. ASSUME NEW k \in 0..n, k # n, k \in K
      PROVE  k + 1 \in K
  <2>1. ASSUME NEW T \in SUBSET S, Cardinality(T) = k + 1
        PROVE  T \in P
    <3>1. Cardinality(T) # 0 /\ (k + 1) - 1 = k
      BY <1>1, <2>1
    <3>2. T # {}
      BY <3>1, AnyOfFacts
    <3>3. T \ {AnyOf(T)} \in SUBSET S /\ Cardinality(T \ {AnyOf(T)}) = Cardinality(T) - 1
      BY <3>2, AnyOfFacts
    <3>4. Cardinality(T \ {AnyOf(T)}) = k
      BY <2>1, <3>1, <3>3
    <3>5. T \ {AnyOf(T)} \in P
      BY <1>4, <3>3, <3>4
    <3> QED BY <3>2, <3>5
  <2>2. k + 1 \in 0..n
    BY <1>1, <1>4
  <2> QED BY <2>1, <2>2
<1>5. 0..n \subseteq K
  <2> HIDE DEF K
  <2> QED BY <1>1, <1>3, <1>4, InductionUpTo
<1> QED BY <1>2, <1>5

\* The sums of f over all subsets of S.
AllSums(F, f, S) ==
    /\ F \in [SUBSET S -> Nat]
    /\ F[{}] = 0
    /\ \A T \in SUBSET S : T # {} => F[T] = f[AnyOf(T)] + F[T \ {AnyOf(T)}]

\* The sum of the community modules is computed element by element.
LEMMA SumsUp ==
  ASSUME NEW S, IsFiniteSet(S), NEW f \in [S -> Nat]
  PROVE  \E F : AllSums(F, f, S) /\ SumFunction(f) = F[S]
<1> DEFINE n == Cardinality(S)
           Equation(F) == F = [T \in SUBSET S |->
                                 IF T = {} THEN 0 ELSE f[AnyOf(T)] + F[T \ {AnyOf(T)}]]
           c == CHOOSE F : Equation(F)
           P == {T \in SUBSET S : c[T] \in Nat}
<1>1. DOMAIN f = S
  OBVIOUS
<1>2. PICK F : Sums(F, f, S, n)
  BY SumsExist
<1>3. \A T \in SUBSET S : Cardinality(T) <= n
  BY FS_Subset
<1> HIDE DEF n
<1>4. Equation(F)
  <2>1. F = [T \in SUBSET S |-> F[T]] /\ F[{}] = 0
    BY <1>2 DEF Sums
  <2>2. \A T \in SUBSET S : T # {} => F[T] = f[AnyOf(T)] + F[T \ {AnyOf(T)}]
    BY <1>2, <1>3 DEF Sums
  <2> QED BY <2>1, <2>2
<1>5. Equation(c)
  <2> HIDE DEF Equation
  <2> QED BY <1>4
<1>6. SumFunction(f) = c[S]
  BY <1>1 DEF SumFunction, SumFunctionOnSet, FoldFunctionOnSet, MapThenFoldSet, AnyOf
<1> HIDE DEF c
<1>7. c[{}] = 0 /\ \A T \in SUBSET S : T # {} => c[T] = f[AnyOf(T)] + c[T \ {AnyOf(T)}]
  BY <1>5
<1>8. {} \in P
  BY <1>7
<1>9. ASSUME NEW T \in SUBSET S, T # {}, T \ {AnyOf(T)} \in P
      PROVE  T \in P
  <2>1. AnyOf(T) \in S
    BY <1>9 DEF AnyOf
  <2>2. f[AnyOf(T)] \in Nat /\ c[T \ {AnyOf(T)}] \in Nat
    BY <1>9, <2>1
  <2>3. c[T] = f[AnyOf(T)] + c[T \ {AnyOf(T)}]
    BY <1>7, <1>9
  <2> QED BY <2>2, <2>3
<1>10. SUBSET S \subseteq P
  <2> HIDE DEF P
  <2> QED BY <1>8, <1>9, InductionOverSets
<1>11. c = [T \in SUBSET S |-> c[T]]
  BY <1>5
<1>12. c \in [SUBSET S -> Nat]
  BY <1>10, <1>11
<1> QED BY <1>6, <1>7, <1>12 DEF AllSums

\* Where one term changes, the sum changes by as much.
LEMMA SumChanged ==
  ASSUME NEW S, IsFiniteSet(S), NEW f \in [S -> Nat], NEW g \in [S -> Nat], NEW r \in S,
         \A x \in S : x # r => g[x] = f[x]
  PROVE  /\ SumFunction(f) \in Nat /\ SumFunction(g) \in Nat
         /\ SumFunction(g) + f[r] = SumFunction(f) + g[r]
<1>1. PICK F : AllSums(F, f, S) /\ SumFunction(f) = F[S]
  BY SumsUp
<1>2. PICK G : AllSums(G, g, S) /\ SumFunction(g) = G[S]
  BY SumsUp
<1>3. /\ F \in [SUBSET S -> Nat] /\ F[{}] = 0
      /\ \A T \in SUBSET S : T # {} => F[T] = f[AnyOf(T)] + F[T \ {AnyOf(T)}]
  BY <1>1 DEF AllSums
<1>4. /\ G \in [SUBSET S -> Nat] /\ G[{}] = 0
      /\ \A T \in SUBSET S : T # {} => G[T] = g[AnyOf(T)] + G[T \ {AnyOf(T)}]
  BY <1>2 DEF AllSums
<1> DEFINE Moves(T) == IF r \in T THEN G[T] + f[r] = F[T] + g[r] ELSE G[T] = F[T]
           P == {T \in SUBSET S : Moves(T)}
<1>5. {} \in P
  BY <1>3, <1>4
<1>6. ASSUME NEW T \in SUBSET S, T # {}, T \ {AnyOf(T)} \in P
      PROVE  T \in P
  <2> DEFINE x == AnyOf(T)
             R == T \ {x}
  <2>1. x \in T /\ x \in S
    BY <1>6 DEF AnyOf
  <2>2. Moves(R) /\ R \in SUBSET S
    BY <1>6
  <2>3. F[T] = f[x] + F[R] /\ G[T] = g[x] + G[R]
    BY <1>3, <1>4, <1>6
  <2>4. r \in R <=> r \in T /\ r # x
    OBVIOUS
  <2> HIDE DEF x, R
  <2>5. {F[R], G[R], f[x], g[x], f[r], g[r]} \subseteq Nat
    BY <1>3, <1>4, <2>1, <2>2
  <2>6. x # r => g[x] = f[x]
    BY <2>1
  <2>7. CASE x = r
    BY <2>1, <2>2, <2>3, <2>4, <2>5, <2>7
  <2>8. CASE x # r /\ r \in T
    BY <2>1, <2>2, <2>3, <2>4, <2>5, <2>6, <2>8
  <2>9. CASE x # r /\ r \notin T
    BY <2>1, <2>2, <2>3, <2>4, <2>5, <2>6, <2>9
  <2> QED BY <2>7, <2>8, <2>9
<1>7. SUBSET S \subseteq P
  <2> HIDE DEF P
  <2> QED BY <1>5, <1>6, InductionOverSets
<1>8. Moves(S) /\ S \in SUBSET S
  BY <1>7
<1> QED BY <1>1, <1>2, <1>3, <1>4, <1>8

\* A sum of nothing but zeros.
LEMMA SumOfZeros ==
  ASSUME NEW S, IsFiniteSet(S), NEW f \in [S -> Nat], \A x \in S : f[x] = 0
  PROVE  SumFunction(f) = 0
<1>1. PICK F : AllSums(F, f, S) /\ SumFunction(f) = F[S]
  BY SumsUp
<1>2. /\ F[{}] = 0
      /\ \A T \in SUBSET S : T # {} => F[T] = f[AnyOf(T)] + F[T \ {AnyOf(T)}]
  BY <1>1 DEF AllSums
<1> DEFINE P == {T \in SUBSET S : F[T] = 0}
<1>3. {} \in P
  BY <1>2
<1>4. ASSUME NEW T \in SUBSET S, T # {}, T \ {AnyOf(T)} \in P
      PROVE  T \in P
  <2>1. AnyOf(T) \in S
    BY <1>4 DEF AnyOf
  <2>2. f[AnyOf(T)] = 0 /\ F[T \ {AnyOf(T)}] = 0
    BY <1>4, <2>1
  <2>3. F[T] = f[AnyOf(T)] + F[T \ {AnyOf(T)}]
    BY <1>2, <1>4
  <2>4. F[T] = 0
    BY <2>2, <2>3
  <2> QED BY <2>4
<1>5. SUBSET S \subseteq P
  <2> HIDE DEF P
  <2> QED BY <1>3, <1>4, InductionOverSets
<1> QED BY <1>1, <1>5
=============================================================================
