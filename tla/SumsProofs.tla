----------------------------- MODULE SumsProofs -----------------------------
(***************************************************************************)
(* What the provers need to know of Total.  Its recursive function is a    *)
(* CHOOSE until a function that satisfies the recursion is shown to exist; *)
(* after that a total is followed term by term.  Induction goes over sets  *)
(* of numbers (SetInduction), from the well-foundedness of < on Nat.       *)
(***************************************************************************)
EXTENDS Sums, WellFoundedInduction, TLAPS

\* A set of numbers that holds 0 and each successor of its elements is Nat.
LEMMA SetInduction ==
    ASSUME NEW T \in SUBSET Nat, 0 \in T, \A k \in T : k + 1 \in T
    PROVE  T = Nat
<1>1. ASSUME Nat \ T # {} PROVE FALSE
  <2>1. PICK x \in Nat \ T : \A y \in Nat \ T : ~(<<y, x>> \in OpToRel(<, Nat))
    BY <1>1, NatLessThanWellFounded, WFMin
  <2>2. \A y \in Nat \ T : ~(y < x)
    BY <2>1 DEF OpToRel
  <2>3. x \in Nat /\ x # 0
    OBVIOUS
  <2>4. x - 1 \in Nat /\ x - 1 < x
    BY <2>3
  <2>5. x - 1 \in T
    BY <2>2, <2>4
  <2>6. (x - 1) + 1 = x
    BY <2>3
  <2> QED BY <2>5, <2>6
<1> QED BY <1>1

\* s satisfies the recursion of Partial up to m.
SumsUpTo(s, n, f, m) ==
    /\ s[0] = 0
    /\ \A k \in 1 .. n : k <= m => s[k] = s[k - 1] + f[k]

\* The function Partial chooses exists, and satisfies its recursion.
LEMMA PartialExists ==
    ASSUME NEW n \in Nat, NEW f \in [1 .. n -> Int]
    PROVE  /\ Partial(n, f) \in [0 .. n -> Int]
           /\ Partial(n, f)[0] = 0
           /\ \A k \in 1 .. n : Partial(n, f)[k] = Partial(n, f)[k - 1] + f[k]
<1> DEFINE T == {m \in Nat : \E s \in [0 .. n -> Int] : SumsUpTo(s, n, f, m)}
<1>1. 0 \in T
  <2>1. [k \in 0 .. n |-> 0] \in [0 .. n -> Int]
    OBVIOUS
  <2>2. SumsUpTo([k \in 0 .. n |-> 0], n, f, 0)
    BY DEF SumsUpTo
  <2> QED BY <2>1, <2>2
<1>2. ASSUME NEW m \in Nat, NEW s \in [0 .. n -> Int], SumsUpTo(s, n, f, m)
      PROVE  \E u \in [0 .. n -> Int] : SumsUpTo(u, n, f, m + 1)
  <2>1. CASE m + 1 \in 1 .. n
    <3> DEFINE u == [k \in 0 .. n |-> IF k = m + 1 THEN s[m] + f[m + 1] ELSE s[k]]
    <3>0. s[m] \in Int /\ f[m + 1] \in Int
      BY <2>1
    <3>1. u \in [0 .. n -> Int]
      BY <2>1, <3>0
    <3>2. u[0] = 0
      BY <1>2, <2>1 DEF SumsUpTo
    <3>3. ASSUME NEW k \in 1 .. n, k <= m + 1 PROVE u[k] = u[k - 1] + f[k]
      <4>1. CASE k = m + 1
        BY <2>1, <4>1
      <4>2. CASE k # m + 1
        <5>1. k <= m /\ k - 1 # m + 1 /\ k \in 0 .. n /\ k - 1 \in 0 .. n
          BY <3>3, <4>2
        <5>2. u[k] = s[k] /\ u[k - 1] = s[k - 1]
          BY <5>1, <4>2
        <5> QED BY <1>2, <5>1, <5>2 DEF SumsUpTo
      <4> QED BY <4>1, <4>2
    <3> HIDE DEF u
    <3>4. SumsUpTo(u, n, f, m + 1)
      BY <3>2, <3>3 DEF SumsUpTo
    <3> QED BY <3>1, <3>4
  <2>2. CASE ~(m + 1 \in 1 .. n)
    <3>1. \A k \in 1 .. n : k <= m + 1 => k <= m
      BY <2>2
    <3>2. SumsUpTo(s, n, f, m + 1)
      BY <1>2, <3>1 DEF SumsUpTo
    <3> QED BY <3>2
  <2> QED BY <2>1, <2>2
<1>3. \A m \in T : m + 1 \in T
  BY <1>2
<1>4. n \in T
  <2>1. T \in SUBSET Nat
    OBVIOUS
  <2> HIDE DEF T
  <2>2. T = Nat BY <1>1, <1>3, <2>1, SetInduction
  <2> QED BY <2>2
<1>5. PICK s \in [0 .. n -> Int] : SumsUpTo(s, n, f, n)
  BY <1>4
<1>6. s = [k \in 0 .. n |-> IF k = 0 THEN 0 ELSE s[k - 1] + f[k]]
  <2>1. \A k \in 0 .. n : s[k] = IF k = 0 THEN 0 ELSE s[k - 1] + f[k]
    BY <1>5 DEF SumsUpTo
  <2> QED BY <2>1
<1> DEFINE p == Partial(n, f)
<1>7. p = CHOOSE t : t = [k \in 0 .. n |-> IF k = 0 THEN 0 ELSE t[k - 1] + f[k]]
  BY DEF Partial
<1>8. p = [k \in 0 .. n |-> IF k = 0 THEN 0 ELSE p[k - 1] + f[k]]
  <2> HIDE DEF p
  <2> QED BY <1>6, <1>7
<1>9. p \in [0 .. n -> Int]
  <2> DEFINE D == {k \in Nat : k \in 0 .. n => p[k] \in Int}
  <2>1. 0 \in D
    BY <1>8
  <2>2. ASSUME NEW k \in D PROVE k + 1 \in D
    BY <1>8, <2>2
  <2>3. D = Nat
    <3>1. D \in SUBSET Nat
      OBVIOUS
    <3> HIDE DEF D
    <3> QED BY <2>1, <2>2, <3>1, SetInduction
  <2>4. \A k \in 0 .. n : p[k] \in Int
    BY <2>3
  <2>5. p = [k \in 0 .. n |-> p[k]]
    BY <1>8
  <2> HIDE DEF p, D
  <2> QED BY <2>4, <2>5
<1>10. \A k \in 0 .. n : p[k] = IF k = 0 THEN 0 ELSE p[k - 1] + f[k]
  BY <1>8
<1> HIDE DEF p
<1>11. p[0] = 0 /\ \A k \in 1 .. n : p[k] = p[k - 1] + f[k]
  BY <1>10
<1> QED BY <1>9, <1>11 DEF p

\* Changing one term of a total changes the total by the difference of the term:
\* what lets the gateway keep its totals by differences.
LEMMA TotalUpdate ==
    ASSUME NEW n \in Nat, NEW f \in [1 .. n -> Int], NEW g \in [1 .. n -> Int],
           NEW k \in 1 .. n, \A j \in 1 .. n : j # k => g[j] = f[j]
    PROVE  /\ Total(n, f) \in Int
           /\ Total(n, g) \in Int
           /\ Total(n, g) = Total(n, f) + g[k] - f[k]
<1> DEFINE p == Partial(n, f)
           q == Partial(n, g)
           D == {m \in Nat : m \in 0 .. n =>
                               q[m] = p[m] + IF k <= m THEN g[k] - f[k] ELSE 0}
<1>1. /\ p \in [0 .. n -> Int]
      /\ p[0] = 0
      /\ \A j \in 1 .. n : p[j] = p[j - 1] + f[j]
  BY PartialExists
<1>2. /\ q \in [0 .. n -> Int]
      /\ q[0] = 0
      /\ \A j \in 1 .. n : q[j] = q[j - 1] + g[j]
  BY PartialExists
<1> HIDE DEF p, q
<1>3. 0 \in D
  BY <1>1, <1>2
<1>4. ASSUME NEW m \in D PROVE m + 1 \in D
  <2>1. CASE m + 1 \in 1 .. n
    <3>1. /\ p[m + 1] = p[m] + f[m + 1]
          /\ q[m + 1] = q[m] + g[m + 1]
          /\ p[m] \in Int /\ q[m] \in Int /\ f[m + 1] \in Int /\ g[m + 1] \in Int
      <4>1. m \in 0 .. n /\ (m + 1) - 1 = m
        BY <2>1
      <4>2. p[m] \in Int /\ q[m] \in Int /\ f[m + 1] \in Int /\ g[m + 1] \in Int
        BY <1>1, <1>2, <2>1, <4>1
      <4> HIDE DEF D
      <4>3. p[m + 1] = p[m] + f[m + 1] /\ q[m + 1] = q[m] + g[m + 1]
        BY <1>1, <1>2, <2>1, <4>1
      <4> QED BY <4>2, <4>3
    <3>2. q[m] = p[m] + IF k <= m THEN g[k] - f[k] ELSE 0
      BY <2>1
    <3>3. g[k] \in Int /\ f[k] \in Int
      OBVIOUS
    <3>4. q[m + 1] = p[m + 1] + IF k <= m + 1 THEN g[k] - f[k] ELSE 0
      <4>0. m \in Nat
        OBVIOUS
      <4> HIDE DEF D
      <4>1. CASE m + 1 = k
        <5>1. ~(k <= m) /\ k <= m + 1
          BY <4>0, <4>1
        <5>2. g[m + 1] = g[k] /\ f[m + 1] = f[k]
          BY <4>1
        <5> QED BY <3>1, <3>2, <3>3, <5>1, <5>2
      <4>2. CASE m + 1 # k
        <5>1. g[m + 1] = f[m + 1]
          BY <2>1, <4>2
        <5>2. k <= m <=> k <= m + 1
          BY <4>0, <4>2
        <5>3. CASE k <= m
          <6>1. q[m] = p[m] + (g[k] - f[k]) /\ k <= m + 1
            BY <3>2, <5>2, <5>3
          <6>2. q[m + 1] = p[m + 1] + (g[k] - f[k])
            BY <3>1, <3>3, <5>1, <6>1
          <6> QED BY <6>1, <6>2
        <5>4. CASE ~(k <= m)
          <6>1. q[m] = p[m] /\ ~(k <= m + 1)
            BY <3>1, <3>2, <5>2, <5>4
          <6>2. q[m + 1] = p[m + 1] + 0
            BY <3>1, <5>1, <6>1
          <6> QED BY <6>1, <6>2
        <5> QED BY <5>3, <5>4
      <4> QED BY <4>1, <4>2
    <3> QED BY <3>4
  <2>2. CASE m + 1 \notin 1 .. n
    BY <2>2
  <2> QED BY <2>1, <2>2
<1>5. D = Nat
  <2>1. D \in SUBSET Nat
    OBVIOUS
  <2> HIDE DEF D
  <2> QED BY <1>3, <1>4, <2>1, SetInduction
<1>6. q[n] = p[n] + (g[k] - f[k])
  <2>1. n \in D
    BY <1>5
  <2>2. n \in 0 .. n /\ k <= n
    OBVIOUS
  <2> QED BY <2>1, <2>2
<1>7. p[n] \in Int /\ q[n] \in Int /\ g[k] \in Int /\ f[k] \in Int
  BY <1>1, <1>2
<1> QED BY <1>6, <1>7 DEF Total, p, q

\* A total of terms none of which is negative is at least each of them.
LEMMA TotalBounds ==
    ASSUME NEW n \in Nat, NEW f \in [1 .. n -> Int], \A j \in 1 .. n : f[j] >= 0
    PROVE  /\ Total(n, f) \in Nat
           /\ \A k \in 1 .. n : f[k] <= Total(n, f)
<1> DEFINE p == Partial(n, f)
           D == {m \in Nat : m \in 0 .. n =>
                               /\ p[m] >= 0
                               /\ \A k \in 1 .. m : f[k] <= p[m]}
<1>1. /\ p \in [0 .. n -> Int]
      /\ p[0] = 0
      /\ \A j \in 1 .. n : p[j] = p[j - 1] + f[j]
  BY PartialExists
<1> HIDE DEF p
<1>2. 0 \in D
  BY <1>1
<1>3. ASSUME NEW m \in D PROVE m + 1 \in D
  <2>1. CASE m + 1 \in 1 .. n
    <3>1. p[m + 1] = p[m] + f[m + 1] /\ p[m] \in Int /\ f[m + 1] \in Int
      BY <1>1, <2>1
    <3>2. p[m] >= 0 /\ \A k \in 1 .. m : f[k] <= p[m]
      BY <2>1
    <3>3. f[m + 1] >= 0
      BY <2>1
    <3>4. ASSUME NEW k \in 1 .. m + 1 PROVE f[k] <= p[m + 1]
      <4>1. CASE k = m + 1
        BY <3>1, <3>2, <4>1
      <4>2. CASE k # m + 1
        <5>1. k \in 1 .. m /\ f[k] \in Int
          BY <2>1, <4>2
        <5> QED BY <3>1, <3>2, <3>3, <5>1
      <4> QED BY <4>1, <4>2
    <3>5. p[m + 1] >= 0
      BY <3>1, <3>2, <3>3
    <3> QED BY <3>4, <3>5
  <2>2. CASE m + 1 \notin 1 .. n
    BY <2>2
  <2> QED BY <2>1, <2>2
<1>4. D = Nat
  <2>1. D \in SUBSET Nat
    OBVIOUS
  <2> HIDE DEF D
  <2> QED BY <1>2, <1>3, <2>1, SetInduction
<1>5. p[n] >= 0 /\ \A k \in 1 .. n : f[k] <= p[n]
  BY <1>4
<1>6. p[n] \in Int
  BY <1>1
<1> QED BY <1>5, <1>6 DEF Total, p

\* A total of zeros is zero.
LEMMA TotalZero ==
    ASSUME NEW n \in Nat
    PROVE  Total(n, [k \in 1 .. n |-> 0]) = 0
<1> DEFINE f == [k \in 1 .. n |-> 0]
           p == Partial(n, f)
           D == {m \in Nat : m \in 0 .. n => p[m] = 0}
<1>1. f \in [1 .. n -> Int] /\ \A j \in 1 .. n : f[j] = 0
  OBVIOUS
<1> HIDE DEF f
<1>2. p[0] = 0 /\ \A j \in 1 .. n : p[j] = p[j - 1] + f[j]
  BY <1>1, PartialExists
<1> HIDE DEF p
<1>3. 0 \in D
  BY <1>2
<1>4. ASSUME NEW m \in D PROVE m + 1 \in D
  <2>1. CASE m + 1 \in 1 .. n
    BY <1>1, <1>2, <2>1
  <2>2. CASE m + 1 \notin 1 .. n
    BY <2>2
  <2> QED BY <2>1, <2>2
<1>5. D = Nat
  <2>1. D \in SUBSET Nat
    OBVIOUS
  <2> HIDE DEF D
  <2> QED BY <1>3, <1>4, <2>1, SetInduction
<1>6. p[n] = 0
  BY <1>5
<1> QED BY <1>6 DEF Total, p, f

\* Where the terms of one total are those of another, d places on, so are its
\* partial sums.
LEMMA PartialShift ==
    ASSUME NEW n \in Nat, NEW m \in Nat, NEW d \in Nat, n + d <= m,
           NEW f \in [1 .. n -> Int], NEW g \in [1 .. m -> Int],
           \A j \in 1 .. n : g[j + d] = f[j]
    PROVE  Partial(m, g)[n + d] = Total(n, f) + Partial(m, g)[d]
<1> DEFINE p == Partial(n, f)
           q == Partial(m, g)
           D == {j \in Nat : j \in 0 .. n => q[j + d] = p[j] + q[d]}
<1>1. /\ p \in [0 .. n -> Int]
      /\ p[0] = 0
      /\ \A j \in 1 .. n : p[j] = p[j - 1] + f[j]
  BY PartialExists
<1>2. /\ q \in [0 .. m -> Int]
      /\ \A j \in 1 .. m : q[j] = q[j - 1] + g[j]
  BY PartialExists
<1> HIDE DEF p, q
<1>3. d \in 0 .. m /\ q[d] \in Int
  BY <1>2
<1>4. 0 \in D
  BY <1>1, <1>3
<1>5. ASSUME NEW j \in D PROVE j + 1 \in D
  <2>1. CASE j + 1 \in 1 .. n
    <3>1. j \in 0 .. n /\ (j + 1) - 1 = j /\ ((j + 1) + d) - 1 = j + d
          /\ (j + 1) + d \in 1 .. m /\ j + d \in 0 .. m
      BY <2>1
    <3>2. q[j + d] = p[j] + q[d]
      BY <3>1
    <3> HIDE DEF D
    <3>3. p[j + 1] = p[j] + f[j + 1] /\ q[(j + 1) + d] = q[j + d] + g[(j + 1) + d]
      <4>1. p[j + 1] = p[(j + 1) - 1] + f[j + 1]
        BY <1>1, <2>1
      <4>2. q[(j + 1) + d] = q[((j + 1) + d) - 1] + g[(j + 1) + d]
        BY <1>2, <3>1
      <4> QED BY <3>1, <4>1, <4>2
    <3>4. g[(j + 1) + d] = f[j + 1] /\ f[j + 1] \in Int /\ p[j] \in Int
      BY <1>1, <2>1, <3>1
    <3>5. q[(j + 1) + d] = p[j + 1] + q[d]
      BY <1>3, <3>2, <3>3, <3>4
    <3>6. j + 1 \in Nat
      BY <2>1
    <3>7. j + 1 \in 0 .. n => q[(j + 1) + d] = p[j + 1] + q[d]
      BY <3>5
    <3> QED BY <3>6, <3>7 DEF D
  <2>2. CASE j + 1 \notin 1 .. n
    BY <2>2
  <2> QED BY <2>1, <2>2
<1>6. D = Nat
  <2>1. D \in SUBSET Nat
    OBVIOUS
  <2> HIDE DEF D
  <2> QED BY <1>4, <1>5, <2>1, SetInduction
<1>7. q[n + d] = p[n] + q[d]
  <2>1. n \in D
    BY <1>6
  <2>2. n \in 0 .. n
    OBVIOUS
  <2> QED BY <2>1, <2>2
<1> QED BY <1>7 DEF Total, p, q

\* A total with one term more, at the end ...
LEMMA TotalAppend ==
    ASSUME NEW n \in Nat, NEW f \in [1 .. n -> Int], NEW g \in [1 .. n + 1 -> Int],
           \A j \in 1 .. n : g[j] = f[j]
    PROVE  /\ Total(n, f) \in Int
           /\ Total(n + 1, g) = Total(n, f) + g[n + 1]
<1>1. /\ Partial(n + 1, g) \in [0 .. n + 1 -> Int]
      /\ Partial(n + 1, g)[0] = 0
      /\ \A k \in 1 .. n + 1 : Partial(n + 1, g)[k] = Partial(n + 1, g)[k - 1] + g[k]
  <2>1. n + 1 \in Nat
    OBVIOUS
  <2> QED BY <2>1, PartialExists
<1>2. Partial(n + 1, g)[n + 0] = Total(n, f) + Partial(n + 1, g)[0]
  <2>1. n + 1 \in Nat /\ 0 \in Nat /\ n + 0 <= n + 1
    OBVIOUS
  <2>2. \A j \in 1 .. n : g[j + 0] = f[j]
    OBVIOUS
  <2> QED BY <2>1, <2>2, PartialShift
<1>3. Partial(n, f) \in [0 .. n -> Int]
  BY PartialExists
<1>4. Total(n, f) \in Int
  BY <1>3 DEF Total
<1>5. n + 1 \in 1 .. n + 1 /\ (n + 1) - 1 = n /\ n + 0 = n
  OBVIOUS
<1> QED BY <1>1, <1>2, <1>4, <1>5 DEF Total

\* ... and at the beginning.
LEMMA TotalTail ==
    ASSUME NEW n \in Nat, NEW f \in [1 .. n -> Int], NEW g \in [1 .. n + 1 -> Int],
           \A j \in 1 .. n : g[j + 1] = f[j]
    PROVE  /\ Total(n, f) \in Int
           /\ Total(n + 1, g) = Total(n, f) + g[1]
<1>1. /\ Partial(n + 1, g)[0] = 0
      /\ \A k \in 1 .. n + 1 : Partial(n + 1, g)[k] = Partial(n + 1, g)[k - 1] + g[k]
  <2>1. n + 1 \in Nat
    OBVIOUS
  <2> QED BY <2>1, PartialExists
<1>2. 1 \in 1 .. n + 1 /\ 1 - 1 = 0 /\ g[1] \in Int
  OBVIOUS
<1>3. Partial(n + 1, g)[1] = g[1]
  BY <1>1, <1>2
<1>4. Partial(n + 1, g)[n + 1] = Total(n, f) + Partial(n + 1, g)[1]
  <2>1. n + 1 \in Nat /\ 1 \in Nat /\ n + 1 <= n + 1
    OBVIOUS
  <2> QED BY <2>1, PartialShift
<1>5. Partial(n, f) \in [0 .. n -> Int]
  BY PartialExists
<1> QED BY <1>3, <1>4, <1>5 DEF Total
=============================================================================
