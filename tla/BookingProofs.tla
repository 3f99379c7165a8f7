----------------------------- MODULE BookingProofs -----------------------------
(***************************************************************************)
(* Theorems about Booking, for every number of positions, rows, instants   *)
(* and parts, every dating, window, amount and hardship.                   *)
(*                                                                         *)
(* The sums and the matching are functions defined by recursion over a     *)
(* number.  What is proved of them rests on Induction, which is stated of  *)
(* a set of numbers, and on Iteration, that such a function exists.        *)
(***************************************************************************)
EXTENDS Booking, WellFoundedInduction, TLAPS

-----------------------------------------------------------------------------
(* Induction and recursion *)

(* A set of natural numbers has a least element. *)
LEMMA Smallest ==
    ASSUME NEW T \in SUBSET Nat, T # {}
    PROVE  \E x \in T : \A y \in T : x <= y
<1>1. IsWellFoundedOn(OpToRel(<, Nat), Nat)
  BY NatLessThanWellFounded
<1> DEFINE R == OpToRel(<, Nat)
<1>2. \E x \in T : \A y \in T : ~ (<<y, x>> \in R)
  BY <1>1, WFMin
<1>3. \A x, y \in Nat : x < y => <<x, y>> \in R
  BY DEF OpToRel
<1> HIDE DEF R
<1>4. PICK x \in T : \A y \in T : ~ (<<y, x>> \in R)
  BY <1>2
<1>5. ASSUME NEW y \in T
      PROVE  x <= y
  <2>1. x \in Nat /\ y \in Nat
    OBVIOUS
  <2>2. y < x => <<y, x>> \in R
    BY <1>3, <2>1, Zenon
  <2>3. <<y, x>> \notin R
    BY <1>4, Zenon
  <2>4. ~(y < x)
    BY <2>2, <2>3, Zenon
  <2> QED
    BY <2>1, <2>4
<1> QED
  BY <1>5

(* Induction, stated for a set so that it takes no operator as a parameter. *)
LEMMA Induction ==
    ASSUME NEW S \in SUBSET Nat, 0 \in S, \A n \in S : n + 1 \in S
    PROVE  S = Nat
<1> SUFFICES ASSUME S # Nat
             PROVE  FALSE
  OBVIOUS
<1> DEFINE T == Nat \ S
<1>1. T \in SUBSET Nat /\ T # {}
  OBVIOUS
<1>2. PICK x \in T : \A y \in T : x <= y
  BY <1>1, Smallest
<1>3. x # 0 /\ x \in Nat /\ x \notin S
  BY <1>2
<1>4. x - 1 \in Nat /\ x - 1 \notin T
  BY <1>2, <1>3
<1>5. x - 1 + 1 \in S
  BY <1>4
<1> QED
  BY <1>3, <1>5
\* f is what x becomes when g[1], g[2], ... are applied in turn.
Iterates(f, x, g, n) == f[0] = x /\ \A i \in 1..n : f[i] = g[i][f[i - 1]]

(* Such a function exists. *)
LEMMA Iteration ==
    ASSUME NEW S, NEW x \in S, NEW g \in [Nat -> [S -> S]]
    PROVE  \A n \in Nat : \E f \in [0..n -> S] : Iterates(f, x, g, n)
<1> USE DEF Iterates
<1> DEFINE Good(n, f) == Iterates(f, x, g, n)
           T == {n \in Nat : \E f \in [0..n -> S] : Good(n, f)}
<1>1. 0 \in T
  <2> DEFINE f == [i \in 0..0 |-> x]
  <2>1. f \in [0..0 -> S] /\ Good(0, f)
    OBVIOUS
  <2> QED
    BY <2>1
<1>2. ASSUME NEW n \in T
      PROVE  n + 1 \in T
  <2>1. PICK f \in [0..n -> S] : Good(n, f)
    OBVIOUS
  <2> DEFINE h == [i \in 0..(n + 1) |-> IF i = n + 1 THEN g[n + 1][f[n]] ELSE f[i]]
  <2>2. f[n] \in S /\ n \in 0..n /\ n + 1 \in Nat
    OBVIOUS
  <2>3. g[n + 1][f[n]] \in S
    BY <2>2
  <2>4. h \in [0..(n + 1) -> S]
    BY <2>3
  <2>5. h[0] = x
    BY <2>1
  <2>6. ASSUME NEW i \in 1..(n + 1)
        PROVE  h[i] = g[i][h[i - 1]]
    <3>1. CASE i = n + 1
      <4>1. h[i] = g[n + 1][f[n]] /\ h[n] = f[n] /\ i - 1 = n
        BY <2>2, <3>1
      <4> HIDE DEF h
      <4> QED
        BY <3>1, <4>1
    <3>2. CASE i \in 1..n
      <4>1. h[i] = f[i] /\ h[i - 1] = f[i - 1]
        BY <3>2
      <4> QED
        BY <2>1, <3>2, <4>1
    <3> QED
      BY <3>1, <3>2
  <2> QED
    BY <2>2, <2>4, <2>5, <2>6
<1>3. T \in SUBSET Nat
  OBVIOUS
<1> HIDE DEF T
<1>4. T = Nat
  BY <1>1, <1>2, <1>3, Induction
<1> QED
  BY <1>4 DEF T

-----------------------------------------------------------------------------
(* Sums *)

(* The recursive function inside Total exists, and is one of the integers. *)
LEMMA TotalSums ==
    ASSUME NEW n \in Nat, NEW f, \A i \in 1..n : f[i] \in Int
    PROVE  \E sum \in [0..n -> Int] :
             /\ sum[0] = 0 /\ \A i \in 1..n : sum[i] = sum[i - 1] + f[i]
             /\ Total(f, n) = sum[n]
<1> DEFINE g == [i \in Nat |-> [k \in Int |-> IF i \in 1..n THEN k + f[i] ELSE 0]]
           P(s) == s = [i \in 0..n |-> IF i = 0 THEN 0 ELSE s[i - 1] + f[i]]
           t == CHOOSE s : P(s)
<1>1. g \in [Nat -> [Int -> Int]]
  OBVIOUS
<1>2. \A k \in Int, i \in 1..n : g[i][k] = k + f[i]
  OBVIOUS
<1>3. 0 \in Int
  OBVIOUS
<1> HIDE DEF g
<1>4. PICK s \in [0..n -> Int] : s[0] = 0 /\ \A i \in 1..n : s[i] = g[i][s[i - 1]]
  <2>1. \E s \in [0..n -> Int] : Iterates(s, 0, g, n)
    BY <1>1, <1>3, Iteration, Zenon
  <2> QED
    BY <2>1 DEF Iterates
<1>5. \A i \in 1..n : s[i - 1] \in Int /\ s[i] = s[i - 1] + f[i]
  <2> SUFFICES ASSUME NEW i \in 1..n
               PROVE  s[i - 1] \in Int /\ s[i] = s[i - 1] + f[i]
    OBVIOUS
  <2>1. i - 1 \in 0..n
    OBVIOUS
  <2>2. s[i - 1] \in Int
    BY <2>1
  <2>3. s[i] = g[i][s[i - 1]]
    BY <1>4
  <2> QED
    BY <1>2, <2>2, <2>3
<1>6. P(s)
  BY <1>4, <1>5
<1>7. P(t)
  BY <1>6
<1>8. Total(f, n) = t[n]
  BY DEF Total
<1> HIDE DEF t
<1>9. DOMAIN t = 0..n /\ t[0] = 0 /\ \A i \in 1..n : t[i] = t[i - 1] + f[i]
  <2>1. \A i \in 0..n : t[i] = IF i = 0 THEN 0 ELSE t[i - 1] + f[i]
    BY <1>7
  <2>2. DOMAIN t = 0..n
    BY <1>7
  <2> QED
    BY <2>1, <2>2
<1>10. t \in [0..n -> Int]
  <2> DEFINE S == {i \in Nat : i <= n => t[i] \in Int}
  <2>1. 0 \in S
    BY <1>9
  <2>2. ASSUME NEW i \in S
        PROVE  i + 1 \in S
    <3>1. CASE i + 1 <= n
      <4>1. i + 1 \in 1..n /\ i + 1 - 1 = i /\ i <= n
        BY <3>1
      <4>2. t[i + 1] = t[i] + f[i + 1] /\ t[i] \in Int /\ f[i + 1] \in Int
        BY <1>9, <4>1
      <4> QED
        BY <4>1, <4>2
    <3> QED
      BY <3>1
  <2>3. S \in SUBSET Nat
    OBVIOUS
  <2> HIDE DEF S
  <2>4. S = Nat
    BY <2>1, <2>2, <2>3, Induction
  <2>5. \A i \in 0..n : t[i] \in Int
    BY <2>4 DEF S
  <2>6. t = [i \in 0..n |-> t[i]]
    BY <1>7, <1>9
  <2> QED
    BY <2>5, <2>6
<1> QED
  BY <1>8, <1>9, <1>10

(* The recursion of Total: nothing sums up to 0, and one more number is added. *)
LEMMA TotalStart == ASSUME NEW f PROVE Total(f, 0) = 0
<1>1. \A i \in 1..0 : f[i] \in Int
  OBVIOUS
<1>2. 0 \in Nat
  OBVIOUS
<1> QED
  BY <1>1, <1>2, TotalSums

LEMMA TotalStep ==
    ASSUME NEW n \in Nat, NEW f, \A i \in 1..(n + 1) : f[i] \in Int
    PROVE  Total(f, n) \in Int /\ Total(f, n + 1) = Total(f, n) + f[n + 1]
<1>1. PICK a \in [0..n -> Int] :
         /\ a[0] = 0 /\ \A i \in 1..n : a[i] = a[i - 1] + f[i]
         /\ Total(f, n) = a[n]
  <2>1. \A i \in 1..n : f[i] \in Int
    OBVIOUS
  <2> QED
    BY <2>1, TotalSums
<1>2. PICK b \in [0..(n + 1) -> Int] :
         /\ b[0] = 0 /\ \A i \in 1..(n + 1) : b[i] = b[i - 1] + f[i]
         /\ Total(f, n + 1) = b[n + 1]
  <2>1. n + 1 \in Nat
    OBVIOUS
  <2> QED
    BY <2>1, TotalSums
<1> DEFINE S == {i \in Nat : i <= n => a[i] = b[i]}
<1>3. 0 \in S
  BY <1>1, <1>2
<1>4. ASSUME NEW i \in S
      PROVE  i + 1 \in S
  <2>1. CASE i + 1 <= n
    <3>1. i + 1 \in 1..n /\ i + 1 \in 1..(n + 1) /\ i + 1 - 1 = i /\ i <= n
      BY <2>1
    <3> QED
      BY <1>1, <1>2, <3>1
  <2> QED
    BY <2>1
<1>5. S \in SUBSET Nat
  OBVIOUS
<1>6. n \in S
  <2> HIDE DEF S
  <2> QED
    BY <1>3, <1>4, <1>5, Induction
<1>7. n + 1 \in 1..(n + 1) /\ n + 1 - 1 = n /\ n \in 0..n
  OBVIOUS
<1>8. b[n + 1] = b[n] + f[n + 1]
  BY <1>2, <1>7
<1> QED
  BY <1>1, <1>2, <1>6, <1>7, <1>8

LEMMA TotalInt ==
    ASSUME NEW n \in Nat, NEW f, \A i \in 1..n : f[i] \in Int
    PROVE  Total(f, n) \in Int
<1>1. n \in 0..n
  OBVIOUS
<1> QED
  BY <1>1, TotalSums

(* Where two functions agree so do their sums; where they differ in one place the   *)
(* sums differ by as much.                                                          *)
LEMMA TotalSame ==
    ASSUME NEW n \in Nat, NEW f, NEW g,
           \A i \in 1..n : f[i] \in Int /\ g[i] = f[i]
    PROVE  Total(g, n) = Total(f, n)
<1> DEFINE S == {m \in Nat : m <= n => Total(g, m) = Total(f, m)}
<1>1. 0 \in S
  BY TotalStart
<1>2. ASSUME NEW m \in S
      PROVE  m + 1 \in S
  <2>1. CASE m + 1 <= n
    <3>1. m \in Nat /\ m <= n /\ m + 1 \in 1..n
      BY <2>1
    <3>2. \A i \in 1..(m + 1) : f[i] \in Int /\ g[i] \in Int
      BY <2>1
    <3>3. Total(f, m + 1) = Total(f, m) + f[m + 1]
      BY <3>1, <3>2, TotalStep
    <3>4. Total(g, m + 1) = Total(g, m) + g[m + 1]
      BY <3>1, <3>2, TotalStep
    <3> QED
      BY <3>1, <3>3, <3>4
  <2> QED
    BY <2>1
<1>3. S \in SUBSET Nat
  OBVIOUS
<1>4. n \in S
  <2> HIDE DEF S
  <2> QED
    BY <1>1, <1>2, <1>3, Induction
<1> QED
  BY <1>4

LEMMA TotalChange ==
    ASSUME NEW n \in Nat, NEW f, NEW g, NEW k \in 1..n,
           \A i \in 1..n : f[i] \in Int /\ g[i] \in Int /\ (i # k => g[i] = f[i])
    PROVE  Total(g, n) = Total(f, n) + (g[k] - f[k])
<1> DEFINE S == {m \in Nat : m + k <= n => Total(g, m + k) = Total(f, m + k) + (g[k] - f[k])}
<1>1. 0 \in S
  <2>1. k - 1 \in Nat /\ (k - 1) + 1 = k /\ 0 + k = k
    OBVIOUS
  <2>2. \A i \in 1..(k - 1) : f[i] \in Int /\ g[i] = f[i]
    OBVIOUS
  <2>3. Total(g, k - 1) = Total(f, k - 1)
    BY <2>1, <2>2, TotalSame
  <2>4. \A i \in 1..((k - 1) + 1) : f[i] \in Int /\ g[i] \in Int
    OBVIOUS
  <2>5. Total(f, k - 1) \in Int /\ Total(f, (k - 1) + 1) = Total(f, k - 1) + f[(k - 1) + 1]
    BY <2>1, <2>4, TotalStep
  <2>6. Total(g, (k - 1) + 1) = Total(g, k - 1) + g[(k - 1) + 1]
    BY <2>1, <2>4, TotalStep
  <2>7. f[k] \in Int /\ g[k] \in Int
    OBVIOUS
  <2> QED
    BY <2>1, <2>3, <2>5, <2>6, <2>7
<1>2. ASSUME NEW m \in S
      PROVE  m + 1 \in S
  <2>1. CASE (m + 1) + k <= n
    <3>1. m + k \in Nat /\ m + k <= n /\ (m + k) + 1 = (m + 1) + k /\ (m + k) + 1 \in 1..n
          /\ (m + k) + 1 # k
      BY <2>1
    <3>2. \A i \in 1..((m + k) + 1) : f[i] \in Int /\ g[i] \in Int
      BY <2>1
    <3>3. Total(f, m + k) \in Int /\ Total(f, (m + k) + 1) = Total(f, m + k) + f[(m + k) + 1]
      BY <3>1, <3>2, TotalStep
    <3>4. Total(g, (m + k) + 1) = Total(g, m + k) + g[(m + k) + 1]
      BY <3>1, <3>2, TotalStep
    <3>5. g[(m + k) + 1] = f[(m + k) + 1] /\ f[(m + k) + 1] \in Int /\ f[k] \in Int /\ g[k] \in Int
      BY <3>1
    <3>6. Total(g, m + k) = Total(f, m + k) + (g[k] - f[k])
      BY <3>1
    <3>7. Total(g, (m + k) + 1) = Total(f, (m + k) + 1) + (g[k] - f[k])
      BY <3>3, <3>4, <3>5, <3>6
    <3> QED
      BY <3>1, <3>7
  <2> QED
    BY <2>1
<1>3. S \in SUBSET Nat
  OBVIOUS
<1>4. n - k \in S
  <2>1. n - k \in Nat
    OBVIOUS
  <2> HIDE DEF S
  <2> QED
    BY <1>1, <1>2, <1>3, <2>1, Induction
<1>5. (n - k) + k = n
  OBVIOUS
<1> QED
  BY <1>4, <1>5

(* A larger function has a larger sum. *)
LEMMA TotalBelow ==
    ASSUME NEW n \in Nat, NEW f, NEW g,
           \A i \in 1..n : f[i] \in Int /\ g[i] \in Int /\ f[i] <= g[i]
    PROVE  Total(f, n) <= Total(g, n)
<1> DEFINE S == {m \in Nat : m <= n => Total(f, m) <= Total(g, m)}
<1>1. 0 \in S
  BY TotalStart
<1>2. ASSUME NEW m \in S
      PROVE  m + 1 \in S
  <2>1. CASE m + 1 <= n
    <3>1. m \in Nat /\ m <= n /\ m + 1 \in 1..n
      BY <2>1
    <3>2. \A i \in 1..(m + 1) : f[i] \in Int /\ g[i] \in Int
      BY <2>1
    <3>3. Total(f, m) \in Int /\ Total(f, m + 1) = Total(f, m) + f[m + 1]
      BY <3>1, <3>2, TotalStep
    <3>4. Total(g, m) \in Int /\ Total(g, m + 1) = Total(g, m) + g[m + 1]
      BY <3>1, <3>2, TotalStep
    <3>5. f[m + 1] <= g[m + 1] /\ f[m + 1] \in Int /\ g[m + 1] \in Int
      BY <3>1
    <3>6. Total(f, m) <= Total(g, m)
      BY <3>1
    <3>7. Total(f, m + 1) <= Total(g, m + 1)
      BY <3>3, <3>4, <3>5, <3>6
    <3> QED
      BY <3>7
  <2> QED
    BY <2>1
<1>3. S \in SUBSET Nat
  OBVIOUS
<1>4. n \in S
  <2> HIDE DEF S
  <2> QED
    BY <1>1, <1>2, <1>3, Induction
<1> QED
  BY <1>4

LEMMA TotalNat ==
    ASSUME NEW n \in Nat, NEW f, \A i \in 1..n : f[i] \in Nat
    PROVE  Total(f, n) \in Nat
<1> DEFINE S == {m \in Nat : m <= n => Total(f, m) \in Nat}
<1>1. 0 \in S
  BY TotalStart
<1>2. ASSUME NEW m \in S
      PROVE  m + 1 \in S
  <2>1. CASE m + 1 <= n
    <3>1. m \in Nat /\ m <= n /\ m + 1 \in 1..n
      BY <2>1
    <3>2. \A i \in 1..(m + 1) : f[i] \in Int
      BY <2>1
    <3>3. Total(f, m + 1) = Total(f, m) + f[m + 1]
      BY <3>1, <3>2, TotalStep
    <3> QED
      BY <3>1, <3>3
  <2> QED
    BY <2>1
<1>3. S \in SUBSET Nat
  OBVIOUS
<1>4. n \in S
  <2> HIDE DEF S
  <2> QED
    BY <1>1, <1>2, <1>3, Induction
<1> QED
  BY <1>4

LEMMA TotalZero ==
    ASSUME NEW n \in Nat, NEW f, \A i \in 1..n : f[i] = 0
    PROVE  Total(f, n) = 0
<1> DEFINE S == {m \in Nat : m <= n => Total(f, m) = 0}
<1>1. 0 \in S
  BY TotalStart
<1>2. ASSUME NEW m \in S
      PROVE  m + 1 \in S
  <2>1. CASE m + 1 <= n
    <3>1. m \in Nat /\ m <= n /\ m + 1 \in 1..n /\ \A i \in 1..(m + 1) : f[i] \in Int
      BY <2>1
    <3>2. Total(f, m + 1) = Total(f, m) + f[m + 1]
      BY <3>1, TotalStep
    <3> QED
      BY <3>1, <3>2
  <2> QED
    BY <2>1
<1>3. S \in SUBSET Nat
  OBVIOUS
<1>4. n \in S
  <2> HIDE DEF S
  <2> QED
    BY <1>1, <1>2, <1>3, Induction
<1> QED
  BY <1>4

(* Sums of deals: their types, their growth by one deal, and that a later deal does *)
(* not change a sum of earlier ones.                                                *)
LEMMA SumType ==
    ASSUME NEW s \in Seq(Deal), NEW I
    PROVE  Sized(s, I) \in Nat /\ Net(s, I) \in Int
<1> DEFINE f == [i \in DOMAIN s |-> IF i \in I THEN s[i].volume ELSE 0]
           g == [i \in DOMAIN s |-> IF i \in I THEN s[i].net ELSE 0]
<1>1. Len(s) \in Nat /\ DOMAIN s = 1..Len(s) /\ \A i \in 1..Len(s) : s[i] \in Deal
  OBVIOUS
<1>2. \A i \in 1..Len(s) : f[i] \in Nat /\ g[i] \in Int
  BY <1>1, SizeAssumption DEF Deal
<1> HIDE DEF f, g
<1>3. Total(f, Len(s)) \in Nat
  BY <1>1, <1>2, TotalNat
<1>4. Total(g, Len(s)) \in Int
  BY <1>1, <1>2, TotalInt
<1> QED
  BY <1>3, <1>4 DEF Sized, Net, f, g

LEMMA SumOne ==
    ASSUME NEW s \in Seq(Deal), NEW I, NEW k \in DOMAIN s, k \notin I
    PROVE  /\ Sized(s, I \cup {k}) = Sized(s, I) + s[k].volume
           /\ Net(s, I \cup {k}) = Net(s, I) + s[k].net
<1> DEFINE f(J) == [i \in DOMAIN s |-> IF i \in J THEN s[i].volume ELSE 0]
           g(J) == [i \in DOMAIN s |-> IF i \in J THEN s[i].net ELSE 0]
           K == I \cup {k}
<1>1. Len(s) \in Nat /\ DOMAIN s = 1..Len(s) /\ \A i \in 1..Len(s) : s[i] \in Deal
  OBVIOUS
<1>2. \A i \in 1..Len(s) :
         /\ f(I)[i] \in Int /\ f(K)[i] \in Int /\ (i # k => f(K)[i] = f(I)[i])
         /\ g(I)[i] \in Int /\ g(K)[i] \in Int /\ (i # k => g(K)[i] = g(I)[i])
  BY <1>1, SizeAssumption DEF Deal
<1>3. f(K)[k] = s[k].volume /\ f(I)[k] = 0 /\ g(K)[k] = s[k].net /\ g(I)[k] = 0
  OBVIOUS
<1>4. s[k].volume \in Int /\ s[k].net \in Int
  BY <1>1, SizeAssumption DEF Deal
<1>5. /\ Sized(s, I) = Total(f(I), Len(s)) /\ Sized(s, K) = Total(f(K), Len(s))
      /\ Net(s, I) = Total(g(I), Len(s)) /\ Net(s, K) = Total(g(K), Len(s))
  BY DEF Sized, Net
<1> HIDE DEF f, g, K
<1>6. Total(f(K), Len(s)) = Total(f(I), Len(s)) + (f(K)[k] - f(I)[k])
  <2>1. \A i \in 1..Len(s) : f(I)[i] \in Int /\ f(K)[i] \in Int /\ (i # k => f(K)[i] = f(I)[i])
    BY <1>2
  <2>2. k \in 1..Len(s) /\ Len(s) \in Nat
    BY <1>1
  <2> QED
    BY <2>1, <2>2, TotalChange, Zenon
<1>7. Total(g(K), Len(s)) = Total(g(I), Len(s)) + (g(K)[k] - g(I)[k])
  <2>1. \A i \in 1..Len(s) : g(I)[i] \in Int /\ g(K)[i] \in Int /\ (i # k => g(K)[i] = g(I)[i])
    BY <1>2
  <2>2. k \in 1..Len(s) /\ Len(s) \in Nat
    BY <1>1
  <2> QED
    BY <2>1, <2>2, TotalChange, Zenon
<1>8. Sized(s, I) \in Int /\ Net(s, I) \in Int
  BY SumType
<1>9. Sized(s, K) = Sized(s, I) + s[k].volume /\ Net(s, K) = Net(s, I) + s[k].net
  BY <1>3, <1>4, <1>5, <1>6, <1>7, <1>8
<1> QED
  BY <1>9 DEF K

LEMMA SumNone ==
    ASSUME NEW s \in Seq(Deal)
    PROVE  Sized(s, {}) = 0 /\ Net(s, {}) = 0
<1> DEFINE f == [i \in DOMAIN s |-> IF i \in {} THEN s[i].volume ELSE 0]
           g == [i \in DOMAIN s |-> IF i \in {} THEN s[i].net ELSE 0]
<1>1. Len(s) \in Nat /\ \A i \in 1..Len(s) : f[i] = 0 /\ g[i] = 0
  OBVIOUS
<1> HIDE DEF f, g
<1>2. Total(f, Len(s)) = 0 /\ Total(g, Len(s)) = 0
  BY <1>1, TotalZero
<1> QED
  BY <1>2 DEF Sized, Net, f, g

LEMMA SizedBelow ==
    ASSUME NEW s \in Seq(Deal), NEW I, NEW J, I \subseteq J
    PROVE  Sized(s, I) <= Sized(s, J)
<1> DEFINE f(K) == [i \in DOMAIN s |-> IF i \in K THEN s[i].volume ELSE 0]
<1>1. Len(s) \in Nat /\ DOMAIN s = 1..Len(s) /\ \A i \in 1..Len(s) : s[i] \in Deal
  OBVIOUS
<1>2. \A i \in 1..Len(s) : f(I)[i] \in Int /\ f(J)[i] \in Int /\ f(I)[i] <= f(J)[i]
  BY <1>1, SizeAssumption DEF Deal
<1>3. Sized(s, I) = Total(f(I), Len(s)) /\ Sized(s, J) = Total(f(J), Len(s))
  BY DEF Sized
<1> HIDE DEF f
<1> QED
  BY <1>1, <1>2, <1>3, TotalBelow

LEMMA SizedLess ==
    ASSUME NEW s \in Seq(Deal), NEW I, NEW J, I \subseteq J,
           NEW k \in DOMAIN s, k \in J, k \notin I
    PROVE  Sized(s, I) < Sized(s, J)
<1>1. Sized(s, I \cup {k}) = Sized(s, I) + s[k].volume
  BY SumOne
<1>2. Sized(s, I \cup {k}) <= Sized(s, J)
  BY SizedBelow
<1>3. s[k] \in Deal
  OBVIOUS
<1>4. s[k].volume \in Nat /\ s[k].volume > 0
  BY <1>3, SizeAssumption DEF Deal
<1>5. Sized(s, I) \in Nat /\ Sized(s, J) \in Nat
  BY SumType
<1> QED
  BY <1>1, <1>2, <1>4, <1>5

LEMMA SumAppend ==
    ASSUME NEW s \in Seq(Deal), NEW d \in Deal, NEW I \in SUBSET (DOMAIN s)
    PROVE  /\ Sized(Append(s, d), I) = Sized(s, I)
           /\ Net(Append(s, d), I) = Net(s, I)
<1> DEFINE t == Append(s, d)
           f(r) == [i \in DOMAIN r |-> IF i \in I THEN r[i].volume ELSE 0]
           g(r) == [i \in DOMAIN r |-> IF i \in I THEN r[i].net ELSE 0]
<1>1. /\ t \in Seq(Deal) /\ Len(s) \in Nat /\ Len(t) = Len(s) + 1
      /\ DOMAIN s = 1..Len(s) /\ DOMAIN t = 1..(Len(s) + 1)
      /\ \A i \in 1..Len(s) : t[i] = s[i] /\ s[i] \in Deal
  OBVIOUS
<1> HIDE DEF t
<1>2. ASSUME NEW i \in 1..Len(s)
      PROVE  f(s)[i] \in Int /\ f(t)[i] = f(s)[i] /\ g(s)[i] \in Int /\ g(t)[i] = g(s)[i]
  <2>1. s[i] \in Deal /\ t[i] = s[i] /\ i \in DOMAIN t /\ i \in DOMAIN s
    BY <1>1
  <2>2. s[i].volume \in Int /\ s[i].net \in Int
    BY <2>1, SizeAssumption DEF Deal
  <2>3. f(t)[i] = f(s)[i] /\ g(t)[i] = g(s)[i]
    BY <2>1
  <2>4. f(s)[i] \in Int /\ g(s)[i] \in Int
    BY <2>1, <2>2
  <2> QED
    BY <2>3, <2>4
<1>3. f(t)[Len(s) + 1] = 0 /\ g(t)[Len(s) + 1] = 0
  BY <1>1
<1>4. ASSUME NEW i \in 1..(Len(s) + 1)
      PROVE  f(t)[i] \in Int /\ g(t)[i] \in Int
  <2>1. i \in 1..Len(s) \/ i = Len(s) + 1
    BY <1>1
  <2> HIDE DEF f, g
  <2> QED
    BY <1>2, <1>3, <2>1
<1>5. /\ Sized(s, I) = Total(f(s), Len(s)) /\ Sized(t, I) = Total(f(t), Len(s) + 1)
      /\ Net(s, I) = Total(g(s), Len(s)) /\ Net(t, I) = Total(g(t), Len(s) + 1)
  BY <1>1 DEF Sized, Net
<1> HIDE DEF f, g
<1>6. Total(f(t), Len(s)) = Total(f(s), Len(s)) /\ Total(g(t), Len(s)) = Total(g(s), Len(s))
  BY <1>1, <1>2, TotalSame
<1>7. Total(f(t), Len(s)) \in Int /\ Total(f(t), Len(s) + 1) = Total(f(t), Len(s)) + f(t)[Len(s) + 1]
  BY <1>1, <1>4, TotalStep
<1>8. Total(g(t), Len(s)) \in Int /\ Total(g(t), Len(s) + 1) = Total(g(t), Len(s)) + g(t)[Len(s) + 1]
  BY <1>1, <1>4, TotalStep
<1>9. Sized(t, I) = Sized(s, I) /\ Net(t, I) = Net(s, I)
  BY <1>3, <1>5, <1>6, <1>7, <1>8
<1> QED
  BY <1>9 DEF t

-----------------------------------------------------------------------------
(* Deals and the positions built of them *)

LEMMA LeastIs ==
    ASSUME NEW I \in SUBSET Nat, I # {}
    PROVE  Least(I) \in I /\ \A j \in I : Least(I) <= j
BY Smallest DEF Least

LEMMA GreatestIs ==
    ASSUME NEW n \in Nat, NEW I \in SUBSET (1..n), I # {}
    PROVE  Greatest(I) \in I /\ \A j \in I : j <= Greatest(I)
<1> DEFINE T == {n - i : i \in I}
<1>1. T \in SUBSET Nat /\ T # {}
  <2>1. \A i \in I : n - i \in Nat /\ n - i \in T
    OBVIOUS
  <2> QED
    BY <2>1
<1>2. PICK x \in T : \A y \in T : x <= y
  BY <1>1, Smallest
<1>3. PICK k \in I : x = n - k
  BY <1>2
<1>4. ASSUME NEW j \in I
      PROVE  j <= k
  <2>1. n - k <= n - j
    BY <1>2, <1>3
  <2> QED
    BY <2>1
<1>5. \E m \in I : \A j \in I : j <= m
  BY <1>4
<1> QED
  BY <1>5 DEF Greatest

\* What the broker holds of a position: one entry and then exits of no more than its
\* volume, in the order of their days.
Opened(s) ==
    /\ s[1].entry /\ s[1].own /\ s[1].volume = Volume
    /\ \A i \in 2..Len(s) : ~s[i].entry
    /\ \A i, j \in DOMAIN s : i <= j => s[i].time <= s[j].time
    /\ Sized(s, Exits(s)) <= Volume

DealsInv ==
    \A p \in Position :
        /\ \A i \in DOMAIN deals[p] : deals[p][i].time <= now
        /\ deals[p] # <<>> => Opened(deals[p])

DealsType == now \in Moment /\ deals \in [Position -> Seq(Deal)]

\* The positions a run may have found
FoundSound(b) ==
    /\ b.known \in SUBSET Own(deals[b.id]) /\ b.out <= Volume
    /\ Least(b.known) \in b.known /\ Greatest(b.known) \in b.known
    /\ \A k \in b.known : k <= Greatest(b.known)
    /\ b.closed = None <=> b.known = {1}

LEMMA Constants ==
    /\ Positions \in Nat /\ Rows \in Nat /\ LastDay \in Nat /\ Lookback \in Nat
    /\ Volume \in Nat /\ Volume > 0 /\ Day \subseteq Nat /\ None \notin Day
    /\ Horizon \in Nat /\ Horizon > 0 /\ Moment \subseteq Nat /\ None \notin Moment /\ Date \in [Moment -> Day]
    /\ Position \subseteq Nat /\ None \notin Position
BY SizeAssumption DEF Day, Moment, Position, None

(* The deals in the window are the last ones. *)
LEMMA KnownSound ==
    ASSUME DealsType, DealsInv, NEW p \in Position
    PROVE  /\ Known(p) \in SUBSET Nat /\ Known(p) \subseteq Own(deals[p])
           /\ Own(deals[p]) \subseteq DOMAIN deals[p]
           /\ \A i \in Known(p), j \in Own(deals[p]) : i <= j => j \in Known(p)
<1>1. deals[p] \in Seq(Deal) /\ now \in Nat
  BY Constants DEF DealsType
<1>2. Len(deals[p]) \in Nat /\ DOMAIN deals[p] = 1..Len(deals[p])
  BY <1>1
<1>3. \A i \in DOMAIN deals[p] : deals[p][i].time \in Nat
  <2> SUFFICES ASSUME NEW i \in DOMAIN deals[p]
               PROVE  deals[p][i].time \in Nat
    OBVIOUS
  <2>1. deals[p][i] \in Deal
    BY <1>1
  <2> QED
    BY <2>1, Constants DEF Deal
<1>4. ASSUME NEW i \in Known(p), NEW j \in Own(deals[p]), i <= j
      PROVE  j \in Known(p)
  <2>1. /\ i \in DOMAIN deals[p] /\ deals[p][i].time >= now - Lookback
        /\ j \in DOMAIN deals[p]
    BY DEF Known, Own
  <2>2. deals[p] # <<>>
    BY <1>1, <2>1
  <2>3. deals[p][i].time <= deals[p][j].time
    BY <1>4, <2>1, <2>2 DEF DealsInv, Opened
  <2>4. deals[p][j].time >= now - Lookback
    BY <1>1, <1>3, <2>1, <2>3, Constants
  <2> QED
    BY <2>4 DEF Known
<1>5. Known(p) \subseteq Own(deals[p]) /\ Own(deals[p]) \subseteq 1..Len(deals[p])
  BY <1>2 DEF Known, Own
<1> QED
  BY <1>2, <1>4, <1>5

LEMMA EntryAndExits ==
    ASSUME DealsType, DealsInv, NEW p \in Position, deals[p] # <<>>
    PROVE  /\ 1 \in DOMAIN deals[p] /\ 1 \in Own(deals[p]) /\ Entries(deals[p]) = {1}
           /\ Exits(deals[p]) = DOMAIN deals[p] \ {1}
           /\ Sized(deals[p], Entries(deals[p])) = Volume
           /\ Sized(deals[p], Exits(deals[p])) <= Volume
<1> DEFINE s == deals[p]
<1>1. s \in Seq(Deal) /\ s # <<>> /\ Opened(s)
  BY DEF DealsType, DealsInv
<1> HIDE DEF s
<1>2. Len(s) \in Nat /\ DOMAIN s = 1..Len(s) /\ 1 \in DOMAIN s
  BY <1>1
<1>3. \A i \in DOMAIN s : i = 1 \/ i \in 2..Len(s)
  BY <1>2
<1>4. Entries(s) = {1} /\ Exits(s) = DOMAIN s \ {1}
  BY <1>1, <1>2, <1>3 DEF Entries, Exits, Opened
<1>5. Sized(s, {1}) = Volume
  <2>1. Sized(s, {} \cup {1}) = Sized(s, {}) + s[1].volume
    BY <1>1, <1>2, SumOne
  <2>2. {} \cup {1} = {1}
    OBVIOUS
  <2>3. s[1].volume = Volume
    BY <1>1 DEF Opened
  <2> QED
    BY <1>1, <2>1, <2>2, <2>3, SumNone, Constants
<1> QED
  BY <1>1, <1>2, <1>4, <1>5 DEF Opened, Own, s

LEMMA BuiltSound ==
    ASSUME DealsType, DealsInv, NEW p \in Position, Known(p) # {}
    PROVE  /\ Built(p, Known(p)) \in Found /\ FoundSound(Built(p, Known(p)))
           /\ 1 \notin Known(p) => Built(p, Known(p)).volume = Sized(deals[p], Known(p))
<1> DEFINE s == deals[p]  own == Known(p)  n == Len(s)
           ins == own \cap Entries(s)  outs == own \cap Exits(s)
<1>1. s \in Seq(Deal) /\ n \in Nat /\ DOMAIN s = 1..n
  BY DEF DealsType
<1>2. own \in SUBSET Nat /\ own \subseteq Own(s) /\ Own(s) \subseteq DOMAIN s /\ own # {}
  BY KnownSound, Zenon
<1>3. s # <<>>
  BY <1>1, <1>2
<1>4. /\ 1 \in DOMAIN s /\ Entries(s) = {1} /\ Exits(s) = DOMAIN s \ {1}
      /\ Sized(s, Exits(s)) <= Volume
  BY <1>3, EntryAndExits
<1> HIDE DEF s, own, n
<1>5. Least(own) \in own
  BY <1>2, LeastIs
<1>6. Greatest(own) \in own /\ \A k \in own : k <= Greatest(own)
  <2>1. own \in SUBSET (1..n)
    BY <1>1, <1>2
  <2> QED
    BY <1>1, <1>2, <2>1, GreatestIs
<1>7. \A i \in own : s[i].time \in Moment
  <2>1. \A i \in own : s[i] \in Deal
    BY <1>1, <1>2
  <2> QED
    BY <2>1 DEF Deal
<1>8. /\ Sized(s, outs) \in Nat /\ Sized(s, ins) \in Nat /\ Net(s, own) \in Int
      /\ Sized(s, Exits(s)) \in Nat
  BY <1>1, SumType
<1>9. Sized(s, outs) <= Volume
  <2>1. Sized(s, outs) <= Sized(s, Exits(s))
    BY <1>1, SizedBelow
  <2> QED
    BY <1>4, <1>8, <2>1, Constants
<1>10. outs # {} => Greatest(outs) \in own
  <2> SUFFICES ASSUME outs # {}
               PROVE  Greatest(outs) \in own
    OBVIOUS
  <2>1. outs \in SUBSET (1..n)
    BY <1>1, <1>2
  <2> QED
    BY <1>1, <2>1, GreatestIs
<1>11. outs = {} <=> own = {1}
  BY <1>2, <1>4
<1> DEFINE b == Built(p, Known(p))
<1>12. /\ b.id = p /\ b.known = own /\ b.opened = s[Least(own)].time /\ b.out = Sized(s, outs)
       /\ b.volume = (IF ins # {} THEN Sized(s, ins) ELSE Sized(s, outs))
       /\ b.net = Net(s, own)
       /\ b.closed = (IF outs = {} THEN None ELSE s[Greatest(outs)].time)
       /\ b = [id |-> b.id, known |-> b.known, opened |-> b.opened, out |-> b.out,
               volume |-> b.volume, net |-> b.net, closed |-> b.closed]
  BY DEF Built, s, own
<1> HIDE DEF b, ins
<1>13. b.closed = None <=> outs = {}
  BY <1>7, <1>10, <1>12, Constants
<1>14. /\ b.opened \in Moment /\ b.closed \in Moment \cup {None} /\ b.volume \in Nat
       /\ b.out \in Nat /\ b.net \in Int /\ b.known \in SUBSET Nat
  BY <1>2, <1>5, <1>7, <1>8, <1>10, <1>12
<1>15. b \in Found
  BY <1>12, <1>14 DEF Found
<1>16. FoundSound(b)
  <2>1. b.known \in SUBSET Own(deals[b.id])
    BY <1>2, <1>12 DEF s
  <2>2. b.out <= Volume /\ (b.closed = None <=> b.known = {1})
    BY <1>9, <1>11, <1>12, <1>13
  <2>3. Least(b.known) \in b.known /\ Greatest(b.known) \in b.known
        /\ \A k \in b.known : k <= Greatest(b.known)
    BY <1>5, <1>6, <1>12
  <2> QED
    BY <2>1, <2>2, <2>3 DEF FoundSound
<1>17. 1 \notin own => b.volume = Sized(s, own)
  <2> SUFFICES ASSUME 1 \notin own
               PROVE  b.volume = Sized(s, own)
    OBVIOUS
  <2>1. ins = {} /\ outs = own
    BY <1>2, <1>4 DEF ins
  <2> QED
    BY <1>12, <2>1
<1> QED
  BY <1>15, <1>16, <1>17 DEF b, own, s

-----------------------------------------------------------------------------
(* The matching *)

\* What _match has made of the first i rows that no ticket has matched
Pairing(found, M, i) ==
    /\ M \in SUBSET ((DOMAIN rows) \X found)
    /\ \A m, n \in M : m[1] = n[1] \/ m[2] = n[2] => m = n
    /\ \A m \in M : \A j \in 1..(m[1] - 1) : ~Holds(rows[j], m[2])
    /\ \A m \in M :
          \/ Holds(rows[m[1]], m[2])
          \/ /\ m[2].volume = Volume /\ Near(m[2].opened, rows[m[1]].at)
             /\ \A j \in DOMAIN rows : ~Holds(rows[j], m[2])
    /\ \A b \in found, j \in DOMAIN rows : Holds(rows[j], b) => \E m \in M : m[2] = b
    /\ \A k \in 1..i : (\A m \in M : m[1] # k) =>
          \A b \in found : b.volume = Volume /\ Near(b.opened, rows[k].at) => \E m \in M : m[2] = b

LEMMA ByTicketSound ==
    ASSUME DOMAIN rows = 1..Len(rows), Len(rows) \in Nat, NEW found,
           \A b, c \in found : b.id = c.id => b = c
    PROVE  Pairing(found, ByTicket(found), 0)
<1> DEFINE M == ByTicket(found)
<1>1. M \in SUBSET ((DOMAIN rows) \X found)
  BY DEF ByTicket
<1>2. \A m \in M : Holds(rows[m[1]], m[2]) /\ \A j \in 1..(m[1] - 1) : ~Holds(rows[j], m[2])
  BY DEF ByTicket
<1>3. ASSUME NEW b \in found, NEW j \in DOMAIN rows, Holds(rows[j], b)
      PROVE  \E m \in M : m[2] = b
  <2> DEFINE T == {i \in DOMAIN rows : Holds(rows[i], b)}
  <2>1. T \in SUBSET Nat /\ T # {}
    BY <1>3
  <2>2. PICK i \in T : \A k \in T : i <= k
    BY <2>1, Smallest
  <2>3. i \in DOMAIN rows /\ Holds(rows[i], b)
    OBVIOUS
  <2>4. ASSUME NEW k \in 1..(i - 1)
        PROVE  ~Holds(rows[k], b)
    <3>1. k \in DOMAIN rows /\ ~(i <= k)
      BY <2>3
    <3> QED
      BY <2>2, <3>1
  <2>5. <<i, b>> \in M
    <3>1. <<i, b>> \in (DOMAIN rows) \X found /\ <<i, b>>[1] = i /\ <<i, b>>[2] = b
      BY <2>3
    <3> QED
      BY <2>3, <2>4, <3>1 DEF ByTicket
  <2> QED
    BY <2>5
<1> HIDE DEF M
<1>4. ASSUME NEW m \in M, NEW n \in M, m[1] = n[1] \/ m[2] = n[2]
      PROVE  m = n
  <2>1. /\ m[1] \in 1..Len(rows) /\ n[1] \in 1..Len(rows) /\ m[2] \in found /\ n[2] \in found
        /\ m = <<m[1], m[2]>> /\ n = <<n[1], n[2]>>
    BY <1>1
  <2>2. CASE m[1] = n[1]
    <3>1. m[2].id = n[2].id
      BY <1>2, <2>2 DEF Holds
    <3> QED
      BY <2>1, <2>2, <3>1
  <2>3. CASE m[2] = n[2]
    <3>1. n[1] \notin 1..(m[1] - 1) /\ m[1] \notin 1..(n[1] - 1)
      BY <1>2, <2>3
    <3>2. m[1] = n[1]
      BY <2>1, <3>1
    <3> QED
      BY <2>1, <2>3, <3>2
  <2> QED
    BY <1>4, <2>2, <2>3
<1> QED
  BY <1>1, <1>2, <1>3, <1>4 DEF Pairing, M

LEMMA FallbackSound ==
    ASSUME DOMAIN rows = 1..Len(rows), Len(rows) \in Nat, NEW found,
           \A b \in found : b.id \in Nat,
           NEW i \in Nat, i + 1 <= Len(rows), NEW M, Pairing(found, M, i)
    PROVE  Pairing(found, Fallback(found, M, i + 1), i + 1)
<1> DEFINE free == Free(found, M, rows[i + 1])
           first == CHOOSE b \in free : \A c \in free : b.id <= c.id
           N == Fallback(found, M, i + 1)
<1>1. \A k \in 1..(i + 1) : k = i + 1 \/ k \in 1..i
  OBVIOUS
<1>2. CASE free = {} \/ \E m \in M : m[1] = i + 1
  <2>1. N = M
    BY <1>2 DEF Fallback
  <2> HIDE DEF N
  <2>2. ASSUME \A m \in M : m[1] # i + 1
        PROVE  \A b \in found : b.volume = Volume /\ Near(b.opened, rows[i + 1].at) => \E m \in M : m[2] = b
    <3>1. free = {}
      BY <1>2, <2>2
    <3> QED
      BY <3>1 DEF Free
  <2>3. ASSUME NEW k \in 1..(i + 1), \A m \in M : m[1] # k
        PROVE  \A b \in found : b.volume = Volume /\ Near(b.opened, rows[k].at) => \E m \in M : m[2] = b
    BY <1>1, <2>2, <2>3 DEF Pairing
  <2>4. Pairing(found, M, i + 1)
    BY <2>3 DEF Pairing
  <2> QED
    BY <2>1, <2>4 DEF N
<1>3. CASE free # {} /\ \A m \in M : m[1] # i + 1
  <2>1. N = M \cup {<<i + 1, first>>}
    BY <1>3 DEF Fallback
  <2>2. first \in free
    <3> DEFINE T == {b.id : b \in free}
    <3>1. T \in SUBSET Nat /\ T # {}
      BY <1>3 DEF Free
    <3>2. PICK x \in T : \A y \in T : x <= y
      BY <3>1, Smallest
    <3>3. \E b \in free : \A c \in free : b.id <= c.id
      BY <3>2
    <3> QED
      BY <3>3
  <2>3. /\ first \in found /\ first.volume = Volume /\ Near(first.opened, rows[i + 1].at)
        /\ \A m \in M : m[2] # first
    BY <2>2 DEF Free
  <2> HIDE DEF N, first, free
  <2>4. \A j \in DOMAIN rows : ~Holds(rows[j], first)
    BY <2>3 DEF Pairing
  <2>5. i + 1 \in DOMAIN rows
    OBVIOUS
  <2> DEFINE new == <<i + 1, first>>
  <2>6. /\ new \in (DOMAIN rows) \X found /\ new[1] = i + 1 /\ new[2] = first
        /\ N = M \cup {new}
    BY <2>1, <2>3, <2>5
  <2> HIDE DEF new
  <2>7. N \in SUBSET ((DOMAIN rows) \X found)
    BY <2>6 DEF Pairing
  <2>8. ASSUME NEW m \in N, NEW n \in N, m[1] = n[1] \/ m[2] = n[2]
        PROVE  m = n
    <3>1. CASE m \in M /\ n \in M
      BY <2>8, <3>1 DEF Pairing
    <3>2. \A l \in M : l[1] # new[1] /\ l[2] # new[2]
      BY <1>3, <2>3, <2>6
    <3> QED
      BY <2>6, <2>8, <3>1, <3>2
  <2>9. ASSUME NEW m \in N
        PROVE  \A j \in 1..(m[1] - 1) : ~Holds(rows[j], m[2])
    <3>1. CASE m \in M
      BY <3>1 DEF Pairing
    <3>2. CASE m = new
      <4>1. \A j \in 1..(m[1] - 1) : j \in DOMAIN rows
        BY <2>6, <3>2
      <4> QED
        BY <2>4, <2>6, <3>2, <4>1
    <3> QED
      BY <2>6, <3>1, <3>2
  <2>10. ASSUME NEW m \in N
         PROVE  \/ Holds(rows[m[1]], m[2])
                \/ /\ m[2].volume = Volume /\ Near(m[2].opened, rows[m[1]].at)
                   /\ \A j \in DOMAIN rows : ~Holds(rows[j], m[2])
    <3>1. CASE m \in M
      BY <3>1 DEF Pairing
    <3>2. CASE m = new
      BY <2>3, <2>4, <2>6, <3>2
    <3> QED
      BY <2>6, <3>1, <3>2
  <2>11. \A b \in found, j \in DOMAIN rows : Holds(rows[j], b) => \E m \in N : m[2] = b
    BY <2>6 DEF Pairing
  <2>12. ASSUME NEW k \in 1..(i + 1), \A m \in N : m[1] # k
         PROVE  \A b \in found : b.volume = Volume /\ Near(b.opened, rows[k].at) => \E m \in N : m[2] = b
    <3>1. k \in 1..i /\ \A m \in M : m[1] # k
      BY <1>1, <2>6, <2>12
    <3> QED
      BY <2>6, <3>1 DEF Pairing
  <2> QED
    BY <2>7, <2>8, <2>9, <2>10, <2>11, <2>12 DEF Pairing, N
<1> QED
  BY <1>2, <1>3

LEMMA MatchedSound ==
    ASSUME rows \in Seq(Row), NEW found, \A b \in found : b.id \in Nat,
           \A b, c \in found : b.id = c.id => b = c
    PROVE  Pairing(found, Matched(found), Len(rows))
<1> DEFINE n == Len(rows)
           S == SUBSET ((DOMAIN rows) \X found)
           g == [i \in Nat |-> [M \in S |-> IF i \in 1..n THEN Fallback(found, M, i) ELSE M]]
           P(s) == s = [i \in 0..n |-> IF i = 0 THEN ByTicket(found) ELSE Fallback(found, s[i - 1], i)]
           t == CHOOSE s : P(s)
<1>1. n \in Nat /\ DOMAIN rows = 1..n
  OBVIOUS
<1> HIDE DEF n
<1>2. ByTicket(found) \in S
  BY DEF ByTicket
<1>3. \A M \in S, i \in 1..n : Fallback(found, M, i) \in S
  <2> SUFFICES ASSUME NEW M \in S, NEW i \in 1..n
               PROVE  Fallback(found, M, i) \in S
    OBVIOUS
  <2> DEFINE free == Free(found, M, rows[i])
             first == CHOOSE b \in free : \A c \in free : b.id <= c.id
  <2>1. CASE free = {} \/ \E m \in M : m[1] = i
    BY <2>1 DEF Fallback
  <2>2. CASE free # {} /\ \A m \in M : m[1] # i
    <3> DEFINE T == {b.id : b \in free}
    <3>1. T \in SUBSET Nat /\ T # {}
      BY <2>2 DEF Free
    <3>2. PICK x \in T : \A y \in T : x <= y
      BY <3>1, Smallest
    <3>3. \E b \in free : \A c \in free : b.id <= c.id
      BY <3>2
    <3>4. first \in free
      BY <3>3
    <3>5. first \in found
      BY <3>4 DEF Free
    <3>6. Fallback(found, M, i) = M \cup {<<i, first>>}
      BY <2>2 DEF Fallback
    <3> HIDE DEF first
    <3> QED
      BY <1>1, <3>5, <3>6
  <2> QED
    BY <2>1, <2>2
<1>4. g \in [Nat -> [S -> S]]
  BY <1>3
<1>5. \A M \in S, i \in 1..n : g[i][M] = Fallback(found, M, i)
  OBVIOUS
<1> HIDE DEF g, S
<1>6. PICK s \in [0..n -> S] : s[0] = ByTicket(found) /\ \A i \in 1..n : s[i] = g[i][s[i - 1]]
  <2>1. \E s \in [0..n -> S] : Iterates(s, ByTicket(found), g, n)
    BY <1>1, <1>2, <1>4, Iteration, Zenon
  <2> QED
    BY <2>1 DEF Iterates
<1>7. \A i \in 1..n : s[i] = Fallback(found, s[i - 1], i)
  <2> SUFFICES ASSUME NEW i \in 1..n
               PROVE  s[i] = Fallback(found, s[i - 1], i)
    OBVIOUS
  <2>1. i - 1 \in 0..n
    BY <1>1
  <2>2. s[i - 1] \in S
    BY <2>1
  <2>3. s[i] = g[i][s[i - 1]]
    BY <1>6
  <2> QED
    BY <1>5, <2>2, <2>3
<1>8. P(s)
  BY <1>6, <1>7
<1>9. P(t)
  BY <1>8
<1>10. Matched(found) = t[n]
  BY DEF Matched, n
<1> HIDE DEF t
<1>11. t[0] = ByTicket(found) /\ \A i \in 1..n : t[i] = Fallback(found, t[i - 1], i)
  <2>1. \A i \in 0..n : t[i] = IF i = 0 THEN ByTicket(found) ELSE Fallback(found, t[i - 1], i)
    BY <1>9
  <2> QED
    BY <1>1, <2>1
<1> DEFINE G == {i \in Nat : i <= n => Pairing(found, t[i], i)}
<1>12. 0 \in G
  BY <1>1, <1>11, ByTicketSound DEF n
<1>13. ASSUME NEW i \in G
       PROVE  i + 1 \in G
  <2>1. CASE i + 1 <= n
    <3>1. i \in Nat /\ i <= n /\ i + 1 \in 1..n /\ i + 1 - 1 = i
      BY <1>1, <2>1
    <3>2. Pairing(found, t[i], i) /\ t[i + 1] = Fallback(found, t[i], i + 1)
      BY <1>11, <3>1
    <3>3. Pairing(found, Fallback(found, t[i], i + 1), i + 1)
      BY <1>1, <2>1, <3>1, <3>2, FallbackSound DEF n
    <3> QED
      BY <3>1, <3>2, <3>3
  <2> QED
    BY <2>1
<1>14. G \in SUBSET Nat
  OBVIOUS
<1>15. n \in G
  <2> HIDE DEF G
  <2> QED
    BY <1>1, <1>12, <1>13, <1>14, Induction
<1> QED
  BY <1>1, <1>10, <1>15 DEF n

-----------------------------------------------------------------------------
(* Type correctness *)

BaseInv ==
    /\ TypeOK /\ DealsInv
    /\ pc = "idle" => view = <<>> /\ todo = {}
    /\ pc # "idle" => Len(view) = Len(rows)
    /\ pc # "book" => due = NoDue
    /\ pc = "book" => due.day \in Day
    /\ \A m \in todo : FoundSound(m[2])

LEMMA GroupedSound ==
    ASSUME DealsType, DealsInv
    PROVE  /\ \A b \in Grouped :
                 /\ b \in Found /\ FoundSound(b) /\ b.id \in Position /\ b.id \in Nat
                 /\ b = Built(b.id, Known(b.id)) /\ b.known = Known(b.id) /\ b.known # {}
           /\ \A b, c \in Grouped : b.id = c.id => b = c
           /\ \A p \in Position : Known(p) # {} => Built(p, Known(p)) \in Grouped
<1>1. ASSUME NEW b \in Grouped
      PROVE  /\ b \in Found /\ FoundSound(b) /\ b.id \in Position /\ b.id \in Nat
             /\ b = Built(b.id, Known(b.id)) /\ b.known = Known(b.id) /\ b.known # {}
  <2>1. PICK p \in Position : Known(p) # {} /\ b = Built(p, Known(p))
    BY DEF Grouped
  <2>2. b.id = p /\ b.known = Known(p)
    BY <2>1 DEF Built
  <2> QED
    BY <2>1, <2>2, BuiltSound, Constants
<1>2. \A b, c \in Grouped : b.id = c.id => b = c
  BY <1>1
<1>3. \A p \in Position : Known(p) # {} => Built(p, Known(p)) \in Grouped
  BY DEF Grouped
<1> QED
  BY <1>1, <1>2, <1>3

LEMMA MatchedPairing ==
    ASSUME TypeOK, DealsInv
    PROVE  Pairing(Grouped, Matched(Grouped), Len(rows))
<1>1. DealsType /\ rows \in Seq(Row)
  BY DEF TypeOK, DealsType
<1>2. /\ \A b \in Grouped : b.id \in Nat
      /\ \A b, c \in Grouped : b.id = c.id => b = c
  BY <1>1, GroupedSound
<1> QED
  BY <1>1, <1>2, MatchedSound

\* A step that applies what was found for a row, which becomes r
Applied(m, r) ==
    /\ pc = "apply" /\ m \in todo /\ todo' = todo \ {m}
    /\ r \in Row /\ view' = [view EXCEPT ![m[1]] = r]
    /\ r.held = m[2].id /\ r.tickets = {1, Least(m[2].known), Greatest(m[2].known)}
    /\ r.at = m[2].opened /\ r.net = m[2].net /\ r.closed = m[2].closed
    /\ r.moved = (view[m[1]].moved \/ view[m[1]].held \notin {None, m[2].id})
    /\ UNCHANGED <<market, history>>
    /\ \/ /\ m[2].closed = None \/ m[2].net = view[m[1]].net
          /\ r.waived = view[m[1]].waived + (m[2].net - view[m[1]].net)
          /\ UNCHANGED <<tables, pc, due>>
       \/ /\ m[2].closed # None /\ m[2].net # view[m[1]].net
          /\ r.waived = view[m[1]].waived /\ rows' = view'
          /\ filed' = filed \cup {Date[m[2].closed]}
          /\ \/ /\ booked' = [booked EXCEPT ![Date[m[2].closed]] = @ + (m[2].net - view[m[1]].net)]
                /\ UNCHANGED <<pc, due>>
             \/ /\ due' = [day |-> Date[m[2].closed], amount |-> m[2].net - view[m[1]].net]
                /\ pc' = "book" /\ UNCHANGED booked

LEMMA RestatedType ==
    ASSUME NEW r \in Row, NEW b \in Found, FoundSound(b)
    PROVE  /\ Restated(r, b) \in Row /\ Restated(r, b).waived = r.waived
           /\ Restated(r, b).held = b.id
           /\ Restated(r, b).tickets = {1, Least(b.known), Greatest(b.known)}
           /\ Restated(r, b).at = b.opened /\ Restated(r, b).net = b.net
           /\ Restated(r, b).closed = b.closed
           /\ Restated(r, b).moved = (r.moved \/ r.held \notin {None, b.id})
<1>1. /\ b.id \in Position /\ b.known \in SUBSET Nat /\ b.opened \in Moment /\ b.out \in Nat
      /\ b.out <= Volume /\ b.net \in Int /\ b.closed \in Moment \cup {None}
      /\ Least(b.known) \in b.known /\ Greatest(b.known) \in b.known
  BY DEF Found, FoundSound
<1>2. {1, Least(b.known), Greatest(b.known)} \in SUBSET Nat
  BY <1>1
<1>3. b.out \in 0..Volume
  BY <1>1, Constants
<1> QED
  BY <1>1, <1>2, <1>3 DEF Restated, Row

LEMMA ApplyIs ==
    ASSUME BaseInv, Apply
    PROVE  \E m \in todo, r \in Row : Applied(m, r)
<1>1. PICK m \in todo : /\ ApplyOpen(m[1], m[2]) \/ ApplyClosed(m[1], m[2])
                        /\ todo' = todo \ {m}
  BY DEF Apply
<1> DEFINE i == m[1]  b == m[2]  s == Restated(view[i], b)
           w == [s EXCEPT !.waived = view[i].waived + Delta(view[i], b)]
<1>2. i \in DOMAIN view /\ b \in Found /\ FoundSound(b) /\ view \in Seq(Row)
  BY DEF BaseInv, TypeOK
<1>3. view[i] \in Row
  BY <1>2
<1>4. /\ s \in Row /\ s.waived = view[i].waived /\ s.held = b.id
      /\ s.tickets = {1, Least(b.known), Greatest(b.known)}
      /\ s.at = b.opened /\ s.net = b.net /\ s.closed = b.closed
      /\ s.moved = (view[i].moved \/ view[i].held \notin {None, b.id})
  BY <1>2, <1>3, RestatedType
<1>5. Delta(view[i], b) = b.net - view[i].net /\ b.net \in Int /\ view[i].net \in Int
      /\ s.waived \in Int
  BY <1>2, <1>3, <1>4 DEF Delta, Found, Row
<1>6. pc = "apply" /\ UNCHANGED <<market, history>>
  BY DEF Apply
<1>7. CASE ApplyOpen(i, b)
  <2>1. view' = [view EXCEPT ![i] = w]
    BY <1>7 DEF ApplyOpen
  <2>2. (b.closed = None \/ Delta(view[i], b) = 0) /\ UNCHANGED <<tables, pc, due>>
    BY <1>7 DEF ApplyOpen
  <2> HIDE DEF s
  <2>3. /\ w \in Row /\ w.waived = view[i].waived + Delta(view[i], b)
        /\ w.held = s.held /\ w.tickets = s.tickets /\ w.at = s.at /\ w.net = s.net
        /\ w.closed = s.closed /\ w.moved = s.moved
    BY <1>4, <1>5 DEF Row
  <2> HIDE DEF w
  <2>4. b.closed = None \/ b.net = view[i].net
    BY <1>5, <2>2
  <2>5. Applied(m, w)
    BY <1>1, <1>4, <1>5, <1>6, <2>1, <2>2, <2>3, <2>4 DEF Applied
  <2> QED
    BY <2>3, <2>5
<1>8. CASE ApplyClosed(i, b)
  <2>1. /\ b.closed # None /\ Delta(view[i], b) # 0 /\ view' = [view EXCEPT ![i] = s]
        /\ rows' = view' /\ filed' = filed \cup {Date[b.closed]}
    BY <1>8 DEF ApplyClosed
  <2>2. \/ /\ booked' = [booked EXCEPT ![Date[b.closed]] = @ + Delta(view[i], b)]
           /\ UNCHANGED <<pc, due>>
        \/ /\ due' = [day |-> Date[b.closed], amount |-> Delta(view[i], b)]
           /\ pc' = "book" /\ UNCHANGED booked
    BY <1>8 DEF ApplyClosed
  <2> HIDE DEF s
  <2>3. b.net # view[i].net
    BY <1>5, <2>1
  <2>4. Applied(m, s)
    BY <1>1, <1>4, <1>5, <1>6, <2>1, <2>2, <2>3 DEF Applied
  <2> QED
    BY <1>4, <2>4
<1> QED
  BY <1>1, <1>7, <1>8

LEMMA AppliedView ==
    ASSUME BaseInv, NEW m \in todo, NEW r \in Row, Applied(m, r)
    PROVE  /\ m[1] \in DOMAIN view /\ m[2] \in Found /\ m[2].id \in Position
           /\ FoundSound(m[2]) /\ view \in Seq(Row) /\ view' \in Seq(Row)
           /\ Len(view') = Len(view) /\ DOMAIN view' = DOMAIN view /\ view'[m[1]] = r
           /\ \A k \in DOMAIN view : k # m[1] => view'[k] = view[k]
<1>1. /\ m[1] \in DOMAIN view /\ m[2] \in Found /\ FoundSound(m[2]) /\ view \in Seq(Row)
  BY DEF BaseInv, TypeOK
<1>2. m[2].id \in Position
  BY <1>1 DEF Found
<1>3. view' = [view EXCEPT ![m[1]] = r]
  BY DEF Applied
<1> QED
  BY <1>1, <1>2, <1>3

(* What becomes of a row does not affect the deals; what becomes of the deals only   *)
(* adds to them.                                                                     *)
Grown ==
    /\ now' \in Moment /\ now <= now' /\ deals' \in [Position -> Seq(Deal)]
    /\ \A p \in Position :
          /\ Len(deals[p]) <= Len(deals'[p])
          /\ \A i \in DOMAIN deals[p] : i \in DOMAIN deals'[p] /\ deals'[p][i] = deals[p][i]

LEMMA OpenSound ==
    ASSUME BaseInv, Open
    PROVE  Grown /\ DealsInv'
<1> DEFINE d == [entry |-> TRUE, own |-> TRUE, volume |-> Volume, net |-> -Commission,
                time |-> now]
<1>1. PICK p \in Position : deals[p] = <<>> /\ deals' = [deals EXCEPT ![p] = <<d>>] /\ now' = now
  BY DEF Open
<1>2. deals \in [Position -> Seq(Deal)] /\ now \in Moment /\ now \in Nat
  BY Constants DEF BaseInv, TypeOK
<1>3. d \in Deal
  BY <1>2, Constants, MoneyAssumption DEF Deal
<1>4. d.entry /\ d.own /\ d.volume = Volume /\ d.time = now
  OBVIOUS
<1> HIDE DEF d
<1>5. deals' \in [Position -> Seq(Deal)]
  BY <1>1, <1>2, <1>3
<1>6. Grown
  <2> SUFFICES ASSUME NEW q \in Position
               PROVE  /\ Len(deals[q]) <= Len(deals'[q])
                      /\ \A i \in DOMAIN deals[q] : i \in DOMAIN deals'[q] /\ deals'[q][i] = deals[q][i]
    BY <1>1, <1>2, <1>5 DEF Grown
  <2>1. CASE q = p
    BY <1>1, <1>2, <2>1
  <2>2. CASE q # p
    <3>1. deals'[q] = deals[q] /\ deals[q] \in Seq(Deal)
      BY <1>1, <1>2, <2>2
    <3> QED
      BY <3>1
  <2> QED
    BY <2>1, <2>2
<1>7. DealsInv'
  <2> SUFFICES ASSUME NEW q \in Position
               PROVE  /\ \A i \in DOMAIN deals'[q] : deals'[q][i].time <= now'
                      /\ deals'[q] # <<>> => Opened(deals'[q])
    BY DEF DealsInv
  <2>1. CASE q = p
    <3>1. deals'[q] = <<d>>
      BY <1>1, <1>2, <2>1
    <3>2. DOMAIN <<d>> = {1} /\ <<d>>[1] = d /\ Len(<<d>>) = 1
      OBVIOUS
    <3>3. Exits(<<d>>) = {}
      BY <1>4, <3>2 DEF Exits
    <3>4. Sized(<<d>>, {}) = 0
      <4>1. <<d>> \in Seq(Deal)
        BY <1>3
      <4> QED
        BY <4>1, SumNone
    <3>5. Opened(<<d>>)
      <4>1. Sized(<<d>>, Exits(<<d>>)) <= Volume
        BY <3>3, <3>4, Constants
      <4>2. <<d>>[1].entry /\ <<d>>[1].own /\ <<d>>[1].volume = Volume /\ 2..Len(<<d>>) = {}
        BY <1>4, <3>2
      <4>3. \A i, j \in DOMAIN <<d>> : <<d>>[i].time <= <<d>>[j].time
        BY <1>2, <1>4, <3>2
      <4> QED
        BY <4>1, <4>2, <4>3 DEF Opened
    <3> QED
      BY <1>1, <1>2, <1>4, <3>1, <3>2, <3>5
  <2>2. CASE q # p
    <3>1. deals'[q] = deals[q]
      BY <1>1, <1>2, <2>2
    <3> QED
      BY <1>1, <3>1 DEF BaseInv, DealsInv
  <2> QED
    BY <2>1, <2>2
<1> QED
  BY <1>6, <1>7

LEMMA CloseSound ==
    ASSUME BaseInv, Close
    PROVE  Grown /\ DealsInv'
<1>1. PICK p \in Position, v \in 1..Volume, profit \in Profit, own \in BOOLEAN :
         /\ Sized(deals[p], Exits(deals[p])) + v <= Sized(deals[p], Entries(deals[p]))
         /\ deals' = [deals EXCEPT ![p] = Append(@,
                [entry |-> FALSE, own |-> own, volume |-> v, net |-> profit - Commission,
                 time |-> now])]
  BY DEF Close
<1> DEFINE d == [entry |-> FALSE, own |-> own, volume |-> v, net |-> profit - Commission,
                 time |-> now]
           s == deals[p]  t == Append(s, d)  n == Len(s)
<1>2. now' = now /\ now \in Moment /\ now \in Nat /\ deals \in [Position -> Seq(Deal)]
      /\ DealsType /\ DealsInv
  BY Constants DEF BaseInv, TypeOK, Close, DealsType
<1>3. profit - Commission \in Int
  BY MoneyAssumption
<1>4. d \in Deal /\ d.entry = FALSE /\ d.volume = v /\ d.time = now
  BY <1>2, <1>3 DEF Deal
<1> HIDE DEF d
<1>5. s \in Seq(Deal) /\ t \in Seq(Deal) /\ n \in Nat /\ Len(t) = n + 1 /\ DOMAIN s = 1..n
      /\ DOMAIN t = 1..(n + 1) /\ t[n + 1] = d /\ \A i \in 1..n : t[i] = s[i]
  BY <1>2, <1>4
<1>6. deals' = [deals EXCEPT ![p] = t]
  BY <1>1 DEF d
<1>7. s # <<>>
  <2> SUFFICES ASSUME s = <<>>
               PROVE  FALSE
    OBVIOUS
  <2>1. Entries(s) = {}
    BY DEF Entries
  <2>2. Sized(s, Entries(s)) = 0
    BY <1>5, <2>1, SumNone
  <2>3. Sized(s, Exits(s)) \in Nat
    BY <1>5, SumType
  <2> QED
    BY <1>1, <2>2, <2>3, Constants
<1>8. /\ 1 \in DOMAIN s /\ Sized(s, Entries(s)) = Volume /\ Opened(s)
      /\ \A i \in DOMAIN s : s[i].time <= now
  BY <1>2, <1>7, EntryAndExits DEF DealsInv
<1>9. Sized(s, Exits(s)) + v <= Volume
  BY <1>1, <1>8
<1> HIDE DEF s, t, n
<1>10. Grown
  <2> SUFFICES ASSUME NEW q \in Position
               PROVE  /\ Len(deals[q]) <= Len(deals'[q])
                      /\ \A i \in DOMAIN deals[q] : i \in DOMAIN deals'[q] /\ deals'[q][i] = deals[q][i]
    <3>1. deals' \in [Position -> Seq(Deal)]
      BY <1>2, <1>5, <1>6
    <3> QED
      BY <1>2, <3>1 DEF Grown
  <2>1. CASE q = p
    <3>1. deals'[q] = t /\ deals[q] = s
      BY <1>2, <1>6, <2>1 DEF s
    <3> QED
      BY <1>5, <3>1
  <2>2. CASE q # p
    <3>1. deals'[q] = deals[q] /\ deals[q] \in Seq(Deal)
      BY <1>2, <1>6, <2>2
    <3> QED
      BY <3>1
  <2> QED
    BY <2>1, <2>2
<1>11. Exits(t) = Exits(s) \cup {n + 1} /\ n + 1 \notin Exits(s)
  <2>1. \A i \in 1..(n + 1) : i \in 1..n \/ i = n + 1
    BY <1>5
  <2>2. n + 1 \notin DOMAIN s /\ n + 1 \in DOMAIN t
    BY <1>5
  <2> QED
    BY <1>4, <1>5, <2>1, <2>2 DEF Exits
<1>12. Sized(t, Exits(t)) <= Volume
  <2>1. Sized(t, Exits(s)) = Sized(s, Exits(s))
    <3>1. Exits(s) \in SUBSET (DOMAIN s)
      BY DEF Exits
    <3> QED
      BY <1>4, <1>5, <3>1, SumAppend DEF t
  <2>2. Sized(t, Exits(s) \cup {n + 1}) = Sized(t, Exits(s)) + t[n + 1].volume
    <3>1. n + 1 \in DOMAIN t
      BY <1>5
    <3> QED
      BY <1>5, <1>11, <3>1, SumOne
  <2> QED
    BY <1>4, <1>5, <1>9, <1>11, <2>1, <2>2
<1>13. Opened(t)
  <2>1. t[1].entry /\ t[1].own /\ t[1].volume = Volume
    BY <1>5, <1>8 DEF Opened
  <2>2. \A i \in 2..(n + 1) : ~t[i].entry
    <3>1. \A i \in 2..(n + 1) : i \in 2..n \/ i = n + 1
      BY <1>5
    <3>2. \A i \in 2..n : i \in 1..n /\ ~s[i].entry
      BY <1>5, <1>8 DEF Opened, n
    <3> QED
      BY <1>4, <1>5, <3>1, <3>2
  <2>3. ASSUME NEW i \in DOMAIN t, NEW j \in DOMAIN t, i <= j
        PROVE  t[i].time <= t[j].time
    <3>1. CASE j \in 1..n
      <4>1. i \in 1..n
        BY <1>5, <2>3, <3>1
      <4>2. s[i].time <= s[j].time
        BY <1>5, <1>8, <2>3, <3>1, <4>1 DEF Opened
      <4> QED
        BY <1>5, <3>1, <4>1, <4>2
    <3>2. CASE j = n + 1 /\ i \in 1..n
      <4>1. s[i].time <= now
        BY <1>5, <1>8, <3>2
      <4> QED
        BY <1>4, <1>5, <3>2, <4>1
    <3>3. CASE j = n + 1 /\ i = n + 1
      BY <1>2, <1>4, <1>5, <3>3
    <3>4. j \in 1..n \/ (j = n + 1 /\ i \in 1..n) \/ (j = n + 1 /\ i = n + 1)
      BY <1>5
    <3> QED
      BY <3>1, <3>2, <3>3, <3>4
  <2> QED
    BY <1>5, <1>12, <2>1, <2>2, <2>3 DEF Opened
<1>14. DealsInv'
  <2> SUFFICES ASSUME NEW q \in Position
               PROVE  /\ \A i \in DOMAIN deals'[q] : deals'[q][i].time <= now'
                      /\ deals'[q] # <<>> => Opened(deals'[q])
    BY DEF DealsInv
  <2>1. CASE q = p
    <3>1. deals'[q] = t
      BY <1>2, <1>6, <2>1
    <3>2. ASSUME NEW i \in DOMAIN t
          PROVE  t[i].time <= now'
      <4>1. i \in 1..n \/ i = n + 1
        BY <1>5
      <4>2. CASE i \in 1..n
        BY <1>2, <1>5, <1>8, <4>2
      <4>3. CASE i = n + 1
        BY <1>2, <1>4, <1>5, <4>3
      <4> QED
        BY <4>1, <4>2, <4>3
    <3> QED
      BY <1>13, <3>1, <3>2
  <2>2. CASE q # p
    <3>1. deals'[q] = deals[q]
      BY <1>2, <1>6, <2>2
    <3> QED
      BY <1>2, <3>1 DEF DealsInv
  <2> QED
    BY <2>1, <2>2
<1> QED
  BY <1>10, <1>14

LEMMA DealsStep ==
    ASSUME BaseInv, [Next]_vars
    PROVE  Grown /\ DealsInv'
<1>1. now \in Moment /\ now \in Nat /\ deals \in [Position -> Seq(Deal)] /\ DealsInv
  BY Constants DEF BaseInv, TypeOK
<1>2. ASSUME UNCHANGED deals, now' \in Moment, now <= now'
      PROVE  Grown /\ DealsInv'
  <2>1. \A p \in Position : deals[p] \in Seq(Deal)
    BY <1>1
  <2>2. \A p \in Position : Len(deals[p]) \in Nat
    BY <2>1
  <2>3. Grown
    BY <1>1, <1>2, <2>2 DEF Grown
  <2>4. \A p \in Position : \A i \in DOMAIN deals[p] : deals[p][i].time \in Nat
    <3> SUFFICES ASSUME NEW p \in Position, NEW i \in DOMAIN deals[p]
                 PROVE  deals[p][i].time \in Nat
      OBVIOUS
    <3>1. deals[p][i] \in Deal
      BY <2>1
    <3> QED
      BY <3>1, Constants DEF Deal
  <2>5. \A p \in Position : \A i \in DOMAIN deals[p] : deals[p][i].time <= now'
    <3>1. now' \in Nat
      BY <1>2, Constants
    <3> QED
      BY <1>1, <1>2, <2>4, <3>1 DEF DealsInv
  <2> QED
    BY <1>1, <1>2, <2>3, <2>5 DEF DealsInv
<1>3. CASE UNCHANGED market
  BY <1>1, <1>2, <1>3 DEF market
<1>4. CASE Tick
  BY <1>1, <1>2, <1>4, Constants DEF Tick, Moment
<1>5. CASE Open
  BY <1>5, OpenSound
<1>6. CASE Close
  BY <1>6, CloseSound
<1>7. Begin \/ Apply \/ Book \/ Finish \/ Crash \/ Fail \/ Materialise \/ UNCHANGED vars
      => UNCHANGED market
  BY DEF Begin, Apply, Book, Finish, Crash, Fail, Materialise, vars
<1> QED
  BY <1>3, <1>4, <1>5, <1>6, <1>7 DEF Next

LEMMA FoundKept ==
    ASSUME BaseInv, Grown, NEW b \in Found, FoundSound(b)
    PROVE  FoundSound(b)'
<1>1. b.id \in Position
  BY DEF Found
<1>2. Own(deals[b.id]) \subseteq Own(deals'[b.id])
  BY <1>1 DEF Grown, Own
<1> QED
  BY <1>2 DEF FoundSound

LEMMA BeginBase == ASSUME BaseInv, Begin PROVE BaseInv'
<1>1. /\ pc' = "apply" /\ view' = rows /\ todo' = Matched(Grouped) /\ fresh' = news /\ news' = FALSE
      /\ UNCHANGED <<market, tables, due, split>> /\ pc = "idle" /\ due = NoDue
  BY DEF Begin, BaseInv
<1>2. TypeOK /\ DealsType /\ DealsInv
  BY DEF BaseInv, TypeOK, DealsType
<1>3. Matched(Grouped) \in SUBSET ((DOMAIN rows) \X Grouped)
  BY <1>2, MatchedPairing DEF Pairing
<1>4. \A b \in Grouped : b \in Found /\ FoundSound(b)
  BY <1>2, GroupedSound
<1>5. todo' \subseteq (DOMAIN view') \X Found /\ \A m \in todo' : FoundSound(m[2])
  BY <1>1, <1>3, <1>4
<1>6. UNCHANGED <<now, deals, rows, filed, booked, due, split>>
  BY <1>1 DEF market, tables
<1>7. \A m \in todo' : FoundSound(m[2])'
  BY <1>5, <1>6 DEF FoundSound
<1>8. TypeOK'
  BY <1>1, <1>2, <1>5, <1>6 DEF TypeOK
<1>9. DealsInv'
  BY <1>2, <1>6 DEF DealsInv
<1> QED
  BY <1>1, <1>6, <1>7, <1>8, <1>9 DEF BaseInv

LEMMA ApplyBase == ASSUME BaseInv, Apply PROVE BaseInv'
<1>1. PICK m \in todo, r \in Row : Applied(m, r)
  BY ApplyIs
<1>2. /\ m[2] \in Found /\ view' \in Seq(Row) /\ Len(view') = Len(view) /\ DOMAIN view' = DOMAIN view
      /\ m[1] \in DOMAIN view /\ view \in Seq(Row)
  BY <1>1, AppliedView
<1>3. TypeOK /\ pc = "apply" /\ due = NoDue /\ Len(view) = Len(rows) /\ DealsInv
  BY <1>1 DEF BaseInv, Applied
<1>4. todo' = todo \ {m} /\ UNCHANGED <<now, deals, news, fresh, split>>
  BY <1>1 DEF Applied, market, history
<1>5. DealsInv' /\ \A n \in todo' : FoundSound(n[2])'
  BY <1>4 DEF BaseInv, DealsInv, FoundSound
<1>6. todo' \subseteq (DOMAIN view') \X Found
  BY <1>2, <1>3, <1>4 DEF TypeOK
<1>7. m[2].net \in Int /\ view[m[1]].net \in Int /\ m[2].closed \in Moment \cup {None}
  <2>1. view[m[1]] \in Row
    BY <1>2
  <2> QED
    BY <1>2, <2>1 DEF Found, Row
<1>8. CASE UNCHANGED <<tables, pc, due>>
  <2>1. UNCHANGED <<rows, filed, booked, pc, due>>
    BY <1>8 DEF tables
  <2>2. TypeOK'
    BY <1>2, <1>3, <1>4, <1>6, <2>1 DEF TypeOK
  <2> QED
    BY <1>2, <1>3, <1>5, <2>1, <2>2 DEF BaseInv
<1>9. CASE /\ m[2].closed # None /\ rows' = view' /\ filed' = filed \cup {Date[m[2].closed]}
           /\ \/ /\ booked' = [booked EXCEPT ![Date[m[2].closed]] = @ + (m[2].net - view[m[1]].net)]
                 /\ UNCHANGED <<pc, due>>
              \/ /\ due' = [day |-> Date[m[2].closed], amount |-> m[2].net - view[m[1]].net]
                 /\ pc' = "book" /\ UNCHANGED booked
  <2>1. Date[m[2].closed] \in Day /\ m[2].net - view[m[1]].net \in Int
    <3>1. m[2].closed \in Moment
      BY <1>7, <1>9
    <3>2. Date[m[2].closed] \in Day
      BY <3>1, Constants
    <3>3. m[2].net \in Int /\ view[m[1]].net \in Int
      BY <1>7
    <3> QED
      BY <3>2, <3>3
  <2>2. rows' \in Seq(Row) /\ Len(rows') <= Rows /\ filed' \subseteq Day /\ Len(view') = Len(rows')
    BY <1>2, <1>3, <1>9, <2>1 DEF TypeOK
  <2>3. CASE booked' = [booked EXCEPT ![Date[m[2].closed]] = @ + (m[2].net - view[m[1]].net)] /\ UNCHANGED <<pc, due>>
    <3>1. booked' \in [Day -> Int]
      BY <1>3, <2>1, <2>3 DEF TypeOK
    <3>2. TypeOK'
      BY <1>2, <1>3, <1>4, <1>6, <2>2, <2>3, <3>1 DEF TypeOK
    <3> QED
      BY <1>3, <1>5, <2>2, <2>3, <3>2 DEF BaseInv
  <2>4. CASE /\ due' = [day |-> Date[m[2].closed], amount |-> m[2].net - view[m[1]].net]
             /\ pc' = "book" /\ UNCHANGED booked
    <3>1. due' \in [day : Day \cup {None}, amount : Int] /\ due'.day \in Day
      BY <2>1, <2>4
    <3>2. TypeOK'
      BY <1>2, <1>3, <1>4, <1>6, <2>2, <2>4, <3>1 DEF TypeOK
    <3> QED
      BY <1>3, <1>5, <2>2, <2>4, <3>1, <3>2 DEF BaseInv
  <2> QED
    BY <1>9, <2>3, <2>4
<1> QED
  BY <1>1, <1>8, <1>9 DEF Applied

LEMMA LeaveBase ==
    ASSUME BaseInv, Leave, UNCHANGED market, news' \in BOOLEAN, fresh' \in BOOLEAN, split' \in Int,
           UNCHANGED <<filed, booked>>, rows' = rows \/ (pc # "idle" /\ rows' = view)
    PROVE  BaseInv'
<1>1. pc' = "idle" /\ view' = <<>> /\ todo' = {} /\ due' = NoDue /\ UNCHANGED <<now, deals>>
  BY DEF Leave, market
<1>2. DealsInv'
  BY <1>1 DEF BaseInv, DealsInv
<1>3. rows' \in Seq(Row) /\ Len(rows') <= Rows
  BY DEF BaseInv, TypeOK
<1>4. due' \in [day : Day \cup {None}, amount : Int] /\ view' \in Seq(Row)
  BY <1>1 DEF NoDue
<1>5. TypeOK'
  BY <1>1, <1>3, <1>4 DEF TypeOK, BaseInv
<1> QED
  BY <1>1, <1>2, <1>5 DEF BaseInv

LEMMA NewRowType ==
    ASSUME now \in Moment, NEW status \in {"EXECUTED", "FAILED"}, NEW p \in Position \cup {None},
           NEW t \in SUBSET Nat
    PROVE  NewRow(status, p, t) \in Row
BY Constants DEF NewRow, Row

LEMMA RowsAppended ==
    ASSUME BaseInv, pc = "idle", NEW r \in Row, Len(rows) < Rows, rows' = Append(rows, r),
           now' = now, Grown, DealsInv', news' = TRUE,
           UNCHANGED <<filed, booked, session, fresh, split>>
    PROVE  BaseInv'
<1>1. rows' \in Seq(Row) /\ Len(rows') <= Rows
  BY Constants DEF BaseInv, TypeOK
<1>2. pc' = "idle" /\ view' = view /\ todo' = todo /\ due' = due /\ view = <<>> /\ todo = {}
      /\ due = NoDue
  BY DEF session, BaseInv
<1>3. TypeOK'
  BY <1>1, <1>2 DEF TypeOK, BaseInv, Grown
<1> QED
  BY <1>2, <1>3 DEF BaseInv

LEMMA BaseStep == BaseInv /\ [Next]_vars => BaseInv'
<1> SUFFICES ASSUME BaseInv, [Next]_vars
             PROVE  BaseInv'
  OBVIOUS
<1>1. Grown /\ DealsInv'
  BY DealsStep
<1>2. CASE Begin
  BY <1>2, BeginBase
<1>3. CASE Apply
  BY <1>3, ApplyBase
<1>4. CASE Book
  <2>1. /\ pc = "book" /\ due.day \in Day /\ booked \in [Day -> Int] /\ due.amount \in Int
        /\ booked' = [booked EXCEPT ![due.day] = @ + due.amount]
        /\ pc' = "apply" /\ due' = NoDue
        /\ UNCHANGED <<now, deals, rows, filed, view, todo, news, fresh, split>>
    BY <1>4 DEF Book, BaseInv, TypeOK, market, history
  <2>2. booked' \in [Day -> Int] /\ due' \in [day : Day \cup {None}, amount : Int]
    BY <2>1 DEF NoDue
  <2>3. \A m \in todo' : FoundSound(m[2])'
    BY <2>1 DEF BaseInv, FoundSound
  <2>4. TypeOK'
    BY <2>1, <2>2 DEF BaseInv, TypeOK
  <2> QED
    BY <1>1, <2>1, <2>3, <2>4 DEF BaseInv
<1>5. CASE Finish
  BY <1>5, LeaveBase DEF Finish, BaseInv, TypeOK
<1>6. CASE Crash
  <2>1. split' \in Int
    BY <1>6 DEF Crash, BaseInv, TypeOK
  <2> QED
    BY <1>6, <2>1, LeaveBase DEF Crash, BaseInv, TypeOK, tables
<1>7. CASE Open
  <2>1. /\ pc = "idle" /\ now' = now /\ news' = TRUE
        /\ UNCHANGED <<filed, booked, session, fresh, split>>
    BY <1>7 DEF Open
  <2>2. PICK p \in Position :
          \/ /\ Len(rows) < Rows
             /\ \/ rows' = Append(rows, NewRow("EXECUTED", p, {1}))
                \/ rows' = Append(rows, NewRow("FAILED", None, {}))
          \/ UNCHANGED rows
    BY <1>7 DEF Open
  <2>3. NewRow("EXECUTED", p, {1}) \in Row /\ NewRow("FAILED", None, {}) \in Row
    <3>1. {1} \in SUBSET Nat /\ {} \in SUBSET Nat /\ now \in Moment
      BY DEF BaseInv, TypeOK
    <3>2. NewRow("EXECUTED", p, {1}) \in Row
      BY <3>1, NewRowType
    <3>3. NewRow("FAILED", None, {}) \in Row
      BY <3>1, NewRowType
    <3> QED
      BY <3>2, <3>3
  <2>4. CASE UNCHANGED rows
    <3>1. pc' = "idle" /\ view' = <<>> /\ todo' = {} /\ due' = NoDue
      BY <2>1 DEF session, BaseInv
    <3>2. TypeOK'
      BY <1>1, <2>1, <2>4, <3>1 DEF TypeOK, BaseInv, Grown, session
    <3> QED
      BY <1>1, <3>1, <3>2 DEF BaseInv
  <2>5. CASE Len(rows) < Rows /\ rows' = Append(rows, NewRow("EXECUTED", p, {1}))
    BY <1>1, <2>1, <2>3, <2>5, RowsAppended
  <2>6. CASE Len(rows) < Rows /\ rows' = Append(rows, NewRow("FAILED", None, {}))
    BY <1>1, <2>1, <2>3, <2>6, RowsAppended
  <2> QED
    BY <2>2, <2>4, <2>5, <2>6
<1>8. CASE Fail
  <2>1. NewRow("FAILED", None, {}) \in Row
    <3>1. {} \in SUBSET Nat /\ now \in Moment
      BY DEF BaseInv, TypeOK
    <3> QED
      BY <3>1, NewRowType
  <2>2. /\ pc = "idle" /\ now' = now /\ news' = TRUE
        /\ UNCHANGED <<filed, booked, session, fresh, split>>
        /\ Len(rows) < Rows /\ rows' = Append(rows, NewRow("FAILED", None, {}))
    BY <1>8 DEF Fail, market
  <2> QED
    BY <1>1, <2>1, <2>2, RowsAppended
<1>9. CASE Close \/ Materialise \/ Tick \/ UNCHANGED vars
  <2>1. /\ UNCHANGED <<rows, booked, pc, view, todo, due, fresh, split>>
        /\ news' \in BOOLEAN /\ filed' \subseteq Day
    BY <1>9, Constants DEF Close, Materialise, Tick, vars, market, tables, session, history, BaseInv, TypeOK
  <2>2. TypeOK'
    BY <1>1, <2>1 DEF BaseInv, TypeOK, Grown
  <2>3. \A m \in todo' : FoundSound(m[2])'
    <3> SUFFICES ASSUME NEW m \in todo
                 PROVE  FoundSound(m[2])'
      BY <2>1
    <3>1. m[2] \in Found /\ FoundSound(m[2])
      BY DEF BaseInv, TypeOK
    <3>2. \A b \in Found : FoundSound(b) => FoundSound(b)'
      BY <1>1, FoundKept
    <3> QED
      BY <3>1, <3>2
  <2> QED
    BY <1>1, <2>1, <2>2, <2>3 DEF BaseInv
<1> QED
  BY <1>2, <1>3, <1>4, <1>5, <1>6, <1>7, <1>8, <1>9 DEF Next

LEMMA BaseInit == Init => BaseInv
<1> SUFFICES ASSUME Init
             PROVE  BaseInv
  OBVIOUS
<1>1. 1 \in Moment /\ 0 \in Int
  BY SizeAssumption DEF Moment
<1>2. TypeOK
  <2>1. deals \in [Position -> Seq(Deal)] /\ booked \in [Day -> Int]
    BY <1>1 DEF Init
  <2>2. rows \in Seq(Row) /\ view \in Seq(Row) /\ Len(rows) = 0
    BY DEF Init
  <2>3. due \in [day : Day \cup {None}, amount : Int]
    BY <1>1 DEF Init, NoDue
  <2>4. todo \subseteq (DOMAIN view) \X Found /\ filed \subseteq Day /\ Len(rows) <= Rows
    BY <2>2, Constants DEF Init
  <2>5. pc \in {"idle", "apply", "book"} /\ now \in Moment /\ split \in Int
        /\ news \in BOOLEAN /\ fresh \in BOOLEAN
    BY <1>1 DEF Init
  <2> QED
    BY <2>1, <2>2, <2>3, <2>4, <2>5 DEF TypeOK
<1>3. DealsInv
  BY DEF Init, DealsInv
<1> QED
  BY <1>2, <1>3 DEF Init, BaseInv

LEMMA BaseAlways == Spec => []BaseInv
BY BaseInit, BaseStep, PTL DEF Spec

(* Every reachable state is well typed: the rows and the session's copy of them, what *)
(* _match has found, the booked days and the amount between two commits.              *)
THEOREM TypeCorrect == Spec => []TypeOK
<1>1. BaseInv => TypeOK
  BY DEF BaseInv
<1> QED
  BY <1>1, BaseAlways, PTL

-----------------------------------------------------------------------------
(* What is booked is what the rows state *)

LEMMA StatedType ==
    ASSUME NEW s \in Seq(Row)
    PROVE  Stated(s) \in Int
<1> DEFINE f == [i \in DOMAIN s |-> s[i].net - s[i].waived]
<1>1. Len(s) \in Nat /\ \A i \in 1..Len(s) : s[i] \in Row
  OBVIOUS
<1>2. \A i \in 1..Len(s) : f[i] \in Int
  BY <1>1 DEF Row
<1> HIDE DEF f
<1>3. Total(f, Len(s)) \in Int
  BY <1>1, <1>2, TotalInt
<1> QED
  BY <1>3 DEF Stated, f

LEMMA StatedChange ==
    ASSUME NEW s \in Seq(Row), NEW k \in DOMAIN s, NEW r \in Row
    PROVE  Stated([s EXCEPT ![k] = r]) = Stated(s) + ((r.net - r.waived) - (s[k].net - s[k].waived))
<1> DEFINE t == [s EXCEPT ![k] = r]
           f == [i \in DOMAIN s |-> s[i].net - s[i].waived]
           g == [i \in DOMAIN t |-> t[i].net - t[i].waived]
<1>1. /\ Len(s) \in Nat /\ k \in 1..Len(s) /\ Len(t) = Len(s) /\ DOMAIN t = 1..Len(s)
      /\ t[k] = r /\ \A i \in 1..Len(s) : s[i] \in Row /\ t[i] \in Row /\ (i # k => t[i] = s[i])
  OBVIOUS
<1> HIDE DEF t
<1>2. ASSUME NEW i \in 1..Len(s)
      PROVE  f[i] \in Int /\ g[i] \in Int /\ (i # k => g[i] = f[i])
  <2>1. s[i] \in Row /\ t[i] \in Row /\ (i # k => t[i] = s[i]) /\ i \in DOMAIN t /\ i \in DOMAIN s
    BY <1>1
  <2>2. f[i] = s[i].net - s[i].waived /\ g[i] = t[i].net - t[i].waived
    BY <2>1
  <2>3. s[i].net \in Int /\ s[i].waived \in Int /\ t[i].net \in Int /\ t[i].waived \in Int
    BY <2>1 DEF Row
  <2> HIDE DEF f, g
  <2>4. f[i] \in Int /\ g[i] \in Int
    BY <2>2, <2>3
  <2> QED
    BY <2>1, <2>2, <2>4
<1>3. f[k] = s[k].net - s[k].waived /\ g[k] = r.net - r.waived
  BY <1>1
<1>4. Stated(s) = Total(f, Len(s)) /\ Stated(t) = Total(g, Len(s))
  BY <1>1 DEF Stated
<1> HIDE DEF f, g
<1>5. Total(g, Len(s)) = Total(f, Len(s)) + (g[k] - f[k])
  <2>1. \A i \in 1..Len(s) : f[i] \in Int /\ g[i] \in Int /\ (i # k => g[i] = f[i])
    BY <1>2
  <2>2. k \in 1..Len(s) /\ Len(s) \in Nat
    BY <1>1
  <2> QED
    BY <2>1, <2>2, TotalChange, Zenon
<1> QED
  BY <1>3, <1>4, <1>5 DEF t

LEMMA StatedAppend ==
    ASSUME NEW s \in Seq(Row), NEW r \in Row
    PROVE  Stated(Append(s, r)) = Stated(s) + (r.net - r.waived)
<1> DEFINE t == Append(s, r)
           f == [i \in DOMAIN s |-> s[i].net - s[i].waived]
           g == [i \in DOMAIN t |-> t[i].net - t[i].waived]
<1>1. /\ Len(s) \in Nat /\ Len(t) = Len(s) + 1 /\ DOMAIN t = 1..(Len(s) + 1) /\ DOMAIN s = 1..Len(s)
      /\ t[Len(s) + 1] = r /\ \A i \in 1..Len(s) : s[i] \in Row /\ t[i] = s[i]
  OBVIOUS
<1> HIDE DEF t
<1>2. ASSUME NEW i \in 1..Len(s)
      PROVE  f[i] \in Int /\ g[i] = f[i]
  <2>1. s[i] \in Row /\ t[i] = s[i] /\ i \in DOMAIN t /\ i \in DOMAIN s
    BY <1>1
  <2> QED
    BY <2>1 DEF Row
<1>3. g[Len(s) + 1] = r.net - r.waived /\ g[Len(s) + 1] \in Int
  BY <1>1 DEF Row
<1>4. Stated(s) = Total(f, Len(s)) /\ Stated(t) = Total(g, Len(s) + 1)
  BY <1>1 DEF Stated
<1> HIDE DEF f, g
<1>5. Total(g, Len(s)) = Total(f, Len(s))
  BY <1>1, <1>2, TotalSame
<1>6. \A i \in 1..(Len(s) + 1) : g[i] \in Int
  <2>1. \A i \in 1..(Len(s) + 1) : i \in 1..Len(s) \/ i = Len(s) + 1
    BY <1>1
  <2> QED
    BY <1>2, <1>3, <2>1
<1>7. Total(g, Len(s) + 1) = Total(g, Len(s)) + g[Len(s) + 1]
  BY <1>1, <1>6, TotalStep
<1> QED
  BY <1>3, <1>4, <1>5, <1>7 DEF t

LEMMA BookedChange ==
    ASSUME booked \in [Day -> Int], NEW d \in Day, NEW x \in Int
    PROVE  /\ Total(booked, LastDay) \in Int
           /\ Total([booked EXCEPT ![d] = @ + x], LastDay) = Total(booked, LastDay) + x
<1> DEFINE g == [booked EXCEPT ![d] = @ + x]
<1>1. LastDay \in Nat /\ d \in 1..LastDay
  BY Constants DEF Day
<1>2. \A i \in 1..LastDay : booked[i] \in Int /\ g[i] \in Int /\ (i # d => g[i] = booked[i])
  BY DEF Day
<1>3. g[d] = booked[d] + x
  OBVIOUS
<1> HIDE DEF g
<1>4. Total(booked, LastDay) \in Int
  BY <1>1, <1>2, TotalInt
<1>5. Total(g, LastDay) = Total(booked, LastDay) + (g[d] - booked[d])
  BY <1>1, <1>2, TotalChange, Zenon
<1>6. booked[d] \in Int
  BY <1>1, <1>2
<1> QED
  BY <1>3, <1>4, <1>5, <1>6 DEF g

\* The session's rows state no more than the committed ones.
BalancedInv == Balanced /\ (pc # "idle" => Stated(view) = Stated(rows))

LEMMA ApplyBalanced ==
    ASSUME BaseInv, BalancedInv, Apply
    PROVE  BalancedInv'
<1>1. PICK m \in todo, r \in Row : Applied(m, r)
  BY ApplyIs
<1> DEFINE old == view[m[1]]  amount == m[2].net - old.net
<1>2. /\ m[1] \in DOMAIN view /\ m[2] \in Found /\ view \in Seq(Row)
      /\ view' = [view EXCEPT ![m[1]] = r]
  BY <1>1, AppliedView DEF Applied
<1>3. old \in Row
  BY <1>2
<1>4. /\ m[2].net \in Int /\ old.net \in Int /\ old.waived \in Int /\ r.waived \in Int
      /\ m[2].closed \in Moment \cup {None} /\ r.net = m[2].net /\ amount \in Int
  <2>1. m[2].net \in Int /\ m[2].closed \in Moment \cup {None}
    BY <1>2 DEF Found
  <2>2. old.net \in Int /\ old.waived \in Int /\ r.waived \in Int
    BY <1>3 DEF Row
  <2>3. r.net = m[2].net
    BY <1>1 DEF Applied
  <2> QED
    BY <2>1, <2>2, <2>3
<1>5. Stated(view') = Stated(view) + ((r.net - r.waived) - (old.net - old.waived))
  BY <1>2, StatedChange
<1>6. Stated(view) \in Int /\ rows \in Seq(Row) /\ booked \in [Day -> Int] /\ split \in Int
  BY <1>2, StatedType DEF BaseInv, TypeOK
<1>7. /\ pc = "apply" /\ due = NoDue /\ split' = split
      /\ Total(booked, LastDay) + split + due.amount = Stated(rows) /\ Stated(view) = Stated(rows)
  BY <1>1 DEF Applied, BaseInv, BalancedInv, Balanced, history
<1> HIDE DEF old
<1>8. CASE /\ m[2].closed = None \/ m[2].net = old.net
           /\ r.waived = old.waived + (m[2].net - old.net)
           /\ UNCHANGED <<tables, pc, due>>
  <2>1. Stated(view') = Stated(view)
    <3>1. (r.net - r.waived) - (old.net - old.waived) = 0
      BY <1>4, <1>8
    <3> QED
      BY <1>5, <1>6, <3>1
  <2>2. UNCHANGED <<rows, booked, pc, due>>
    BY <1>8 DEF tables
  <2> QED
    BY <1>7, <2>1, <2>2 DEF BalancedInv, Balanced
<1>9. CASE /\ m[2].closed # None /\ m[2].net # old.net
           /\ r.waived = old.waived /\ rows' = view'
           /\ \/ booked' = [booked EXCEPT ![Date[m[2].closed]] = @ + amount] /\ UNCHANGED <<pc, due>>
              \/ /\ due' = [day |-> Date[m[2].closed], amount |-> amount]
                 /\ pc' = "book" /\ UNCHANGED booked
  <2>1. Stated(view') = Stated(view) + amount
    BY <1>4, <1>5, <1>6, <1>9
  <2>2. Date[m[2].closed] \in Day
    BY <1>4, <1>9, Constants
  <2>3. /\ Total(booked, LastDay) \in Int
        /\ Total([booked EXCEPT ![Date[m[2].closed]] = @ + amount], LastDay) = Total(booked, LastDay) + amount
    BY <1>4, <1>6, <2>2, BookedChange
  <2> HIDE DEF amount
  <2>4. CASE booked' = [booked EXCEPT ![Date[m[2].closed]] = @ + amount] /\ UNCHANGED <<pc, due>>
    <3>1. Total(booked', LastDay) = Total(booked, LastDay) + amount
      BY <2>3, <2>4
    <3>2. NoDue.amount = 0
      BY DEF NoDue
    <3>3. Total(booked', LastDay) + split' + due'.amount = Stated(rows')
      BY <1>4, <1>6, <1>7, <1>9, <2>1, <2>3, <2>4, <3>1, <3>2
    <3> QED
      BY <1>9, <3>3 DEF BalancedInv, Balanced
  <2>5. CASE /\ due' = [day |-> Date[m[2].closed], amount |-> amount]
             /\ pc' = "book" /\ UNCHANGED booked
    <3>1. due'.amount = amount /\ NoDue.amount = 0
      BY <2>5 DEF NoDue
    <3>2. Total(booked', LastDay) + split' + due'.amount = Stated(rows')
      BY <1>4, <1>6, <1>7, <1>9, <2>1, <2>3, <2>5, <3>1
    <3> QED
      BY <1>9, <3>2 DEF BalancedInv, Balanced
  <2> QED
    BY <1>9, <2>4, <2>5
<1> QED
  BY <1>1, <1>8, <1>9 DEF Applied, old

LEMMA BalancedStep == BaseInv /\ BalancedInv /\ [Next]_vars => BalancedInv'
<1> SUFFICES ASSUME BaseInv, BalancedInv, [Next]_vars
             PROVE  BalancedInv'
  OBVIOUS
<1>1. /\ rows \in Seq(Row) /\ view \in Seq(Row) /\ booked \in [Day -> Int] /\ split \in Int
      /\ due.amount \in Int /\ NoDue.amount = 0 /\ now \in Moment /\ Date[now] \in Day
  BY Constants DEF BaseInv, TypeOK, NoDue
<1>2. Total(booked, LastDay) \in Int /\ Stated(rows) \in Int
  BY <1>1, BookedChange, StatedType
<1>3. Total(booked, LastDay) + split + due.amount = Stated(rows)
  BY DEF BalancedInv, Balanced
<1>4. CASE Begin
  BY <1>4 DEF Begin, BalancedInv, Balanced, tables
<1>5. CASE Apply
  BY <1>5, ApplyBalanced
<1>6. CASE Book
  <2>1. /\ pc = "book" /\ due.day \in Day /\ booked' = [booked EXCEPT ![due.day] = @ + due.amount]
        /\ due' = NoDue /\ UNCHANGED <<rows, view, split>>
    BY <1>6 DEF Book, BaseInv, history
  <2>2. Total(booked', LastDay) = Total(booked, LastDay) + due.amount
    BY <1>1, <2>1, BookedChange
  <2>3. Total(booked', LastDay) + split' + due'.amount = Stated(rows')
    BY <1>1, <1>2, <1>3, <2>1, <2>2
  <2> QED
    BY <2>1, <2>3 DEF BalancedInv, Balanced
<1>7. CASE Finish
  <2>1. /\ pc = "apply" /\ due = NoDue /\ due' = NoDue /\ pc' = "idle" /\ rows' = view
        /\ UNCHANGED <<booked, split>>
    BY <1>7 DEF Finish, Leave, BaseInv
  <2> QED
    BY <2>1 DEF BalancedInv, Balanced
<1>8. CASE Crash
  <2>1. /\ due' = NoDue /\ pc' = "idle" /\ split' = split + due.amount /\ UNCHANGED <<rows, booked>>
    BY <1>8 DEF Crash, Leave, tables
  <2>2. Total(booked', LastDay) + split' + due'.amount = Stated(rows')
    BY <1>1, <1>2, <1>3, <2>1
  <2> QED
    BY <2>1, <2>2 DEF BalancedInv, Balanced
<1>9. CASE Open \/ Fail
  <2>1. pc = "idle" /\ pc' = "idle" /\ UNCHANGED <<booked, split, due>>
    BY <1>9 DEF Open, Fail, session
  <2>2. \/ UNCHANGED rows
        \/ \E p \in Position \cup {None}, t \in SUBSET Nat, status \in {"EXECUTED", "FAILED"} :
              rows' = Append(rows, NewRow(status, p, t))
    <3>1. {} \in SUBSET Nat /\ {1} \in SUBSET Nat
      OBVIOUS
    <3>2. CASE Fail
      BY <3>1, <3>2 DEF Fail
    <3>3. CASE Open
      <4>1. PICK p \in Position :
              \/ rows' = Append(rows, NewRow("EXECUTED", p, {1}))
              \/ rows' = Append(rows, NewRow("FAILED", None, {}))
              \/ UNCHANGED rows
        BY <3>3 DEF Open
      <4> QED
        BY <3>1, <4>1
    <3> QED
      BY <1>9, <3>2, <3>3
  <2>3. ASSUME NEW p \in Position \cup {None}, NEW t \in SUBSET Nat, NEW status \in {"EXECUTED", "FAILED"},
               rows' = Append(rows, NewRow(status, p, t))
        PROVE  Stated(rows') = Stated(rows)
    <3> DEFINE r == NewRow(status, p, t)
    <3>1. r \in Row
      BY <1>1, NewRowType
    <3>2. r.net = 0 /\ r.waived = 0
      BY DEF NewRow
    <3> HIDE DEF r
    <3>3. Stated(Append(rows, r)) = Stated(rows) + (r.net - r.waived)
      BY <1>1, <3>1, StatedAppend
    <3> QED
      BY <1>2, <2>3, <3>2, <3>3 DEF r
  <2>4. Stated(rows') = Stated(rows)
    BY <2>2, <2>3
  <2> QED
    BY <1>3, <2>1, <2>4 DEF BalancedInv, Balanced
<1>10. CASE Close \/ Materialise \/ Tick \/ UNCHANGED vars
  <2>1. UNCHANGED <<rows, booked, pc, view, due, split>>
    BY <1>10 DEF Close, Materialise, Tick, vars, market, tables, session, history
  <2> QED
    BY <2>1 DEF BalancedInv, Balanced
<1> QED
  BY <1>4, <1>5, <1>6, <1>7, <1>8, <1>9, <1>10 DEF Next

LEMMA BalancedAlways == Spec => []BalancedInv
<1>1. Init => BalancedInv
  <2> SUFFICES ASSUME Init
               PROVE  BalancedInv
    OBVIOUS
  <2>1. \A i \in 1..LastDay : booked[i] = 0
    BY DEF Init, Day
  <2>2. Total(booked, LastDay) = 0
    BY <2>1, TotalZero, Constants
  <2>3. Stated(<<>>) = 0
    <3>1. Len(<<>>) = 0
      OBVIOUS
    <3> QED
      BY <3>1, TotalStart DEF Stated
  <2> QED
    BY <2>2, <2>3 DEF Init, BalancedInv, Balanced, NoDue
<1> QED
  BY <1>1, BaseAlways, BalancedStep, PTL DEF Spec

(* What is booked is what the rows state, but for what they stated of an open position *)
(* and for what a crash lost between two commits, whatever the deals, the window and   *)
(* the number of runs and crashes.                                                     *)
THEOREM BooksBalance == Spec => []Balanced
<1>1. BalancedInv => Balanced
  BY DEF BalancedInv
<1> QED
  BY <1>1, BalancedAlways, PTL

-----------------------------------------------------------------------------
(* No result is stated twice *)

\* At instant d the entry of p has left the window, given the deals D.
Gone(D, d, p) == D[p][1].time < d - Lookback

\* What a row says of itself: it holds its position's entry ticket, and the ticket of
\* an exit when it is told of one.
RowSound(D, r) ==
    /\ r.held = None => r.tickets = {} /\ r.net = 0 /\ r.waived = 0
    /\ r.held # None => 1 \in r.tickets /\ r.tickets \subseteq Own(D[r.held])
    /\ r.closed # None <=> \E k \in r.tickets : k > 1

\* Two rows hold tickets of one position only when its entry has left the window, and
\* then one of them was never told of an exit.
RowsSound(D, d, s) ==
    /\ \A i \in DOMAIN s : RowSound(D, s[i])
    /\ \A i, j \in DOMAIN s :
          i # j /\ s[i].held # None /\ s[i].held = s[j].held =>
             Gone(D, d, s[i].held) /\ (s[i].closed = None \/ s[j].closed = None)

\* What is left to apply does not bring two rows together either.
TodoApart(D, d, s, T) ==
    /\ \A m, n \in T : m[1] = n[1] \/ m[2].id = n[2].id => m = n
    /\ \A m \in T : \A k \in DOMAIN s :
          k # m[1] /\ s[k].held = m[2].id =>
             Gone(D, d, m[2].id) /\ (m[2].closed # None => s[k].closed = None)

OnceInv ==
    /\ RowsSound(deals, now, rows) /\ RowsSound(deals, now, view)
    /\ TodoApart(deals, now, view, todo)

LEMMA GoneIs ==
    ASSUME BaseInv, NEW p \in Position, 1 \in Own(deals[p])
    PROVE  Gone(deals, now, p) <=> 1 \notin Known(p)
<1>1. deals[p] \in Seq(Deal) /\ now \in Nat /\ 1 \in DOMAIN deals[p]
  BY Constants DEF BaseInv, TypeOK, Own
<1>2. deals[p][1] \in Deal
  BY <1>1
<1>3. deals[p][1].time \in Nat
  BY <1>2, Constants DEF Deal
<1> QED
  BY <1>1, <1>3, Constants DEF Gone, Known

LEMMA GoneStays ==
    ASSUME BaseInv, Grown, NEW p \in Position, 1 \in DOMAIN deals[p], Gone(deals, now, p)
    PROVE  Gone(deals', now', p)
<1>1. deals[p] \in Seq(Deal) /\ now \in Nat /\ now' \in Nat /\ now <= now'
  BY Constants DEF BaseInv, TypeOK, Grown
<1>2. deals[p][1] \in Deal /\ deals'[p][1] = deals[p][1]
  BY <1>1 DEF Grown
<1>3. deals[p][1].time \in Nat
  BY <1>2, Constants DEF Deal
<1>4. deals[p][1].time < now - Lookback
  BY DEF Gone
<1>5. deals[p][1].time < now' - Lookback
  BY <1>1, <1>3, <1>4, Constants
<1> QED
  BY <1>2, <1>5 DEF Gone

LEMMA RowsGrow ==
    ASSUME BaseInv, Grown, NEW s \in Seq(Row), RowsSound(deals, now, s)
    PROVE  RowsSound(deals', now', s)
<1>1. \A i \in DOMAIN s : s[i] \in Row
  OBVIOUS
<1>2. \A i \in DOMAIN s : s[i].held # None => s[i].held \in Position
  BY <1>1 DEF Row
<1>3. ASSUME NEW i \in DOMAIN s
      PROVE  RowSound(deals', s[i])
  <2>1. RowSound(deals, s[i])
    BY DEF RowsSound
  <2>2. s[i].held # None => Own(deals[s[i].held]) \subseteq Own(deals'[s[i].held])
    BY <1>2 DEF Grown, Own
  <2> QED
    BY <2>1, <2>2 DEF RowSound
<1>4. ASSUME NEW i \in DOMAIN s, NEW j \in DOMAIN s, i # j, s[i].held # None, s[i].held = s[j].held
      PROVE  Gone(deals', now', s[i].held) /\ (s[i].closed = None \/ s[j].closed = None)
  <2>1. /\ Gone(deals, now, s[i].held) /\ (s[i].closed = None \/ s[j].closed = None)
        /\ RowSound(deals, s[i])
    BY <1>4 DEF RowsSound
  <2>2. s[i].held \in Position /\ 1 \in DOMAIN deals[s[i].held]
    BY <1>2, <1>4, <2>1 DEF RowSound, Own
  <2> QED
    BY <2>1, <2>2, GoneStays
<1> QED
  BY <1>3, <1>4 DEF RowsSound

LEMMA TodoGrow ==
    ASSUME BaseInv, Grown, TodoApart(deals, now, view, todo)
    PROVE  TodoApart(deals', now', view, todo)
<1>1. ASSUME NEW m \in todo, Gone(deals, now, m[2].id)
      PROVE  Gone(deals', now', m[2].id)
  <2>1. m[2] \in Found /\ FoundSound(m[2])
    BY DEF BaseInv, TypeOK
  <2>2. m[2].id \in Position
    BY <2>1 DEF Found
  <2>3. 1 \in DOMAIN deals[m[2].id]
    <3>1. m[2].known \in SUBSET (DOMAIN deals[m[2].id]) /\ Least(m[2].known) \in m[2].known
      BY <2>1 DEF FoundSound, Own
    <3>2. deals[m[2].id] \in Seq(Deal)
      BY <2>2 DEF BaseInv, TypeOK
    <3> QED
      BY <3>1, <3>2
  <2> QED
    BY <1>1, <2>2, <2>3, GoneStays
<1> QED
  BY <1>1 DEF TodoApart

LEMMA BeginApart ==
    ASSUME BaseInv, RowsSound(deals, now, rows)
    PROVE  TodoApart(deals, now, rows, Matched(Grouped))
<1> DEFINE M == Matched(Grouped)
<1>1. Pairing(Grouped, M, Len(rows)) /\ DealsType /\ DealsInv /\ rows \in Seq(Row)
  BY MatchedPairing DEF BaseInv, TypeOK, DealsType
<1> HIDE DEF M
<1>2. \A m \in M : m[1] \in DOMAIN rows /\ m[2] \in Grouped
  BY <1>1 DEF Pairing
<1>3. ASSUME NEW m \in M, NEW n \in M, m[1] = n[1] \/ m[2].id = n[2].id
      PROVE  m = n
  <2>1. m[1] = n[1] \/ m[2] = n[2]
    BY <1>1, <1>2, <1>3, GroupedSound
  <2> QED
    BY <1>1, <2>1 DEF Pairing
<1>4. ASSUME NEW m \in M, NEW k \in DOMAIN rows, k # m[1], rows[k].held = m[2].id
      PROVE  Gone(deals, now, m[2].id) /\ (m[2].closed # None => rows[k].closed = None)
  <2> DEFINE b == m[2]  p == b.id  i == m[1]  s == deals[p]
  <2>1. /\ b \in Found /\ p \in Position /\ b = Built(p, Known(p)) /\ b.known = Known(p)
        /\ b.known # {} /\ p # None
    BY <1>1, <1>2, GroupedSound, Constants
  <2>2. i \in DOMAIN rows /\ RowSound(deals, rows[i]) /\ RowSound(deals, rows[k])
    BY <1>2 DEF RowsSound
  <2>3. /\ 1 \in rows[k].tickets /\ rows[k].tickets \subseteq Own(s) /\ Own(s) \subseteq DOMAIN s
        /\ s \in Seq(Deal)
    BY <1>1, <1>4, <2>1, <2>2 DEF RowSound, DealsType, Own
  <2>4. 1 \in Own(s) /\ 1 \in DOMAIN s /\ s # <<>>
    BY <2>3
  <2>5. Gone(deals, now, p) <=> 1 \notin Known(p)
    BY <2>1, <2>4, GoneIs
  <2> HIDE DEF b, p, i, s
  <2>6. CASE Holds(rows[i], b)
    <3>1. rows[i].held = p /\ rows[i].tickets \cap Known(p) # {}
      BY <2>1, <2>6 DEF Holds, p
    <3>2. Gone(deals, now, p) /\ (rows[i].closed = None \/ rows[k].closed = None)
      BY <1>4, <2>1, <2>2, <3>1 DEF RowsSound, p, i, b
    <3>3. rows[i].closed = None => FALSE
      <4> SUFFICES ASSUME rows[i].closed = None
                   PROVE  FALSE
        OBVIOUS
      <4>1. rows[i].tickets \subseteq DOMAIN s /\ \A t \in rows[i].tickets : ~(t > 1)
        BY <2>1, <2>2, <2>3, <3>1 DEF RowSound, s
      <4>2. \A t \in DOMAIN s : t \in Nat /\ t >= 1
        BY <2>3
      <4>3. \A t \in rows[i].tickets : t = 1
        BY <4>1, <4>2
      <4>4. 1 \notin Known(p)
        BY <2>5, <3>2
      <4> QED
        BY <3>1, <4>3, <4>4
    <3> QED
      BY <3>2, <3>3 DEF b, p
  <2>7. CASE /\ b.volume = Volume /\ \A j \in DOMAIN rows : ~Holds(rows[j], b)
    <3>1. rows[k].tickets \cap Known(p) = {}
      BY <1>4, <2>1, <2>7 DEF Holds, b, p
    <3>2. 1 \notin Known(p)
      BY <2>3, <3>1
    <3>3. rows[k].closed = None
      <4> SUFFICES ASSUME rows[k].closed # None
                   PROVE  FALSE
        OBVIOUS
      <4>1. PICK t \in rows[k].tickets : t > 1
        BY <2>2 DEF RowSound
      <4>2. t \in DOMAIN s /\ t \notin Known(p) /\ t # 1
        BY <2>3, <3>1, <4>1
      <4>3. Exits(s) = DOMAIN s \ {1} /\ Sized(s, Exits(s)) <= Volume
        BY <1>1, <2>1, <2>4, EntryAndExits DEF s
      <4>4. Known(p) \subseteq DOMAIN s
        BY <1>1, <2>1, KnownSound DEF s
      <4>5. Sized(s, Known(p)) < Sized(s, Exits(s))
        <5>1. Known(p) \subseteq Exits(s) /\ t \in Exits(s)
          BY <3>2, <4>2, <4>3, <4>4
        <5> QED
          BY <2>3, <4>2, <5>1, SizedLess
      <4>6. Sized(s, Known(p)) = Volume
        BY <1>1, <2>1, <2>7, <3>2, BuiltSound DEF s
      <4>7. Sized(s, Exits(s)) \in Nat
        BY <2>3, SumType
      <4> QED
        BY <4>3, <4>5, <4>6, <4>7, Constants
    <3> QED
      BY <2>5, <3>2, <3>3 DEF b, p
  <2>8. Holds(rows[i], b) \/ (b.volume = Volume /\ \A j \in DOMAIN rows : ~Holds(rows[j], b))
    BY <1>1 DEF Pairing, b, i
  <2> QED
    BY <2>6, <2>7, <2>8
<1> QED
  BY <1>3, <1>4 DEF TodoApart, M

LEMMA AppliedSound ==
    ASSUME BaseInv, OnceInv, NEW m \in todo, NEW r \in Row, Applied(m, r)
    PROVE  RowsSound(deals, now, view') /\ TodoApart(deals, now, view', todo')
<1> DEFINE b == m[2]  p == b.id  i == m[1]
<1>1. /\ i \in DOMAIN view /\ b \in Found /\ p \in Position /\ FoundSound(b)
      /\ view \in Seq(Row) /\ view' \in Seq(Row) /\ DOMAIN view' = DOMAIN view /\ view'[i] = r
      /\ \A k \in DOMAIN view : k # i => view'[k] = view[k]
  BY AppliedView
<1>2. /\ r.held = p /\ r.tickets = {1, Least(b.known), Greatest(b.known)} /\ r.closed = b.closed
      /\ todo' = todo \ {m}
  BY DEF Applied
<1>3. p # None
  BY <1>1, Constants
<1>4. /\ b.known \in SUBSET Own(deals[p]) /\ Least(b.known) \in b.known
      /\ Own(deals[p]) \subseteq DOMAIN deals[p] /\ Greatest(b.known) \in b.known /\ \A k \in b.known : k <= Greatest(b.known)
      /\ (b.closed = None <=> b.known = {1})
  BY <1>1 DEF FoundSound, Own
<1>5. deals[p] \in Seq(Deal)
  BY <1>1 DEF BaseInv, TypeOK
<1>6. TodoApart(deals, now, view, todo) /\ RowsSound(deals, now, view)
  BY DEF OnceInv
<1> HIDE DEF b, p, i
<1>7. RowSound(deals, r)
  <2>1. \A k \in DOMAIN deals[p] : k \in Nat /\ k >= 1
    BY <1>5
  <2>2. 1 \in Own(deals[p])
    <3>1. deals[p] # <<>>
      BY <1>4, <1>5
    <3>2. DealsType /\ DealsInv /\ p \in Position
      BY <1>1 DEF BaseInv, TypeOK, DealsType, p, b
    <3> QED
      BY <3>1, <3>2, EntryAndExits
  <2>3. r.tickets \subseteq Own(deals[p])
    BY <1>2, <1>4, <2>2
  <2>4. b.closed = None => \A k \in r.tickets : ~(k > 1)
    BY <1>2, <1>4
  <2>5. b.closed # None => Greatest(b.known) > 1
    <3> SUFFICES ASSUME ~(Greatest(b.known) > 1)
                 PROVE  b.known = {1}
      BY <1>4
    <3>1. \A k \in b.known : k = 1
      BY <1>4, <2>1
    <3> QED
      BY <1>4, <3>1
  <2> QED
    BY <1>2, <1>3, <2>3, <2>4, <2>5 DEF RowSound
<1>8. ASSUME NEW j \in DOMAIN view, j # i, view[j].held = p
      PROVE  Gone(deals, now, p) /\ (r.closed = None \/ view[j].closed = None)
  BY <1>2, <1>6, <1>8 DEF TodoApart, b, i, p
<1>9. ASSUME NEW j \in DOMAIN view', NEW k \in DOMAIN view', j # k,
             view'[j].held # None, view'[j].held = view'[k].held
      PROVE  Gone(deals, now, view'[j].held) /\ (view'[j].closed = None \/ view'[k].closed = None)
  <2>1. CASE j = i
    <3>1. view'[k] = view[k] /\ view[k].held = p
      BY <1>1, <1>2, <1>9, <2>1
    <3> QED
      BY <1>1, <1>2, <1>8, <1>9, <2>1, <3>1
  <2>2. CASE k = i
    <3>1. view'[j] = view[j] /\ view[j].held = p
      BY <1>1, <1>2, <1>9, <2>2
    <3> QED
      BY <1>1, <1>2, <1>8, <1>9, <2>2, <3>1
  <2>3. CASE j # i /\ k # i
    <3>1. view'[j] = view[j] /\ view'[k] = view[k]
      BY <1>1, <2>3
    <3> QED
      BY <1>1, <1>6, <1>9, <3>1 DEF RowsSound
  <2> QED
    BY <2>1, <2>2, <2>3
<1>10. \A j \in DOMAIN view' : RowSound(deals, view'[j])
  BY <1>1, <1>6, <1>7 DEF RowsSound
<1>11. ASSUME NEW n \in todo', NEW k \in DOMAIN view', k # n[1], view'[k].held = n[2].id
       PROVE  Gone(deals, now, n[2].id) /\ (n[2].closed # None => view'[k].closed = None)
  <2>1. n \in todo /\ n # m
    BY <1>2
  <2>2. k # i
    <3> SUFFICES ASSUME k = i
                 PROVE  FALSE
      OBVIOUS
    <3>1. n[2].id = m[2].id
      BY <1>1, <1>2, <1>11 DEF p, b
    <3> QED
      BY <1>6, <2>1, <3>1 DEF TodoApart
  <2> QED
    BY <1>1, <1>6, <1>11, <2>1, <2>2 DEF TodoApart
<1>12. \A n, l \in todo' : n[1] = l[1] \/ n[2].id = l[2].id => n = l
  BY <1>2, <1>6 DEF TodoApart
<1> QED
  BY <1>9, <1>10, <1>11, <1>12 DEF RowsSound, TodoApart

LEMMA AppendedSound ==
    ASSUME BaseInv, Grown, NEW s \in Seq(Row), RowsSound(deals, now, s), NEW r \in Row,
           r.held # None => deals[r.held] = <<>>, RowSound(deals', r)
    PROVE  RowsSound(deals', now', Append(s, r))
<1> DEFINE t == Append(s, r)
<1>1. RowsSound(deals', now', s)
  BY RowsGrow
<1>2. /\ Len(s) \in Nat /\ DOMAIN t = 1..(Len(s) + 1) /\ DOMAIN s = 1..Len(s)
      /\ t[Len(s) + 1] = r /\ \A i \in 1..Len(s) : t[i] = s[i]
  OBVIOUS
<1> HIDE DEF t
<1>3. \A i \in DOMAIN t : (i \in DOMAIN s /\ t[i] = s[i]) \/ (i = Len(s) + 1 /\ t[i] = r)
  BY <1>2
<1>4. ASSUME NEW j \in DOMAIN s, s[j].held = r.held, r.held # None
      PROVE  FALSE
  <2>1. RowSound(deals, s[j])
    BY DEF RowsSound
  <2>2. 1 \in DOMAIN deals[r.held]
    BY <1>4, <2>1 DEF RowSound, Own
  <2> QED
    BY <1>4, <2>2
<1>5. \A i \in DOMAIN t : RowSound(deals', t[i])
  BY <1>1, <1>3 DEF RowsSound
<1>6. ASSUME NEW i \in DOMAIN t, NEW j \in DOMAIN t, i # j, t[i].held # None, t[i].held = t[j].held
      PROVE  Gone(deals', now', t[i].held) /\ (t[i].closed = None \/ t[j].closed = None)
  <2>1. i \in DOMAIN s /\ j \in DOMAIN s /\ t[i] = s[i] /\ t[j] = s[j]
    BY <1>3, <1>4, <1>6
  <2> QED
    BY <1>1, <1>6, <2>1 DEF RowsSound
<1>7. RowsSound(deals', now', t)
  BY <1>5, <1>6 DEF RowsSound
<1> QED
  BY <1>7 DEF t

LEMMA OnceStep == BaseInv /\ OnceInv /\ [Next]_vars => OnceInv'
<1> SUFFICES ASSUME BaseInv, OnceInv, [Next]_vars
             PROVE  OnceInv'
  OBVIOUS
<1>1. Grown
  BY DealsStep
<1>2. /\ RowsSound(deals, now, rows) /\ RowsSound(deals, now, view)
      /\ TodoApart(deals, now, view, todo) /\ rows \in Seq(Row) /\ view \in Seq(Row)
  BY DEF OnceInv, BaseInv, TypeOK
<1>3. /\ RowsSound(deals', now', rows) /\ RowsSound(deals', now', view)
      /\ TodoApart(deals', now', view, todo)
  BY <1>1, <1>2, RowsGrow, TodoGrow
<1>4. RowsSound(deals', now', <<>>) /\ TodoApart(deals', now', <<>>, {})
  BY DEF RowsSound, TodoApart
<1>5. CASE Begin
  <2>1. /\ view' = rows /\ todo' = Matched(Grouped) /\ UNCHANGED <<now, deals, rows>>
    BY <1>5 DEF Begin, market, tables
  <2>2. TodoApart(deals, now, rows, Matched(Grouped))
    BY <1>2, BeginApart
  <2> QED
    BY <1>2, <2>1, <2>2 DEF OnceInv
<1>6. CASE Apply
  <2>1. PICK m \in todo, r \in Row : Applied(m, r)
    BY <1>6, ApplyIs
  <2>2. RowsSound(deals, now, view') /\ TodoApart(deals, now, view', todo')
    BY <2>1, AppliedSound
  <2>3. UNCHANGED <<now, deals>> /\ (rows' = rows \/ rows' = view')
    BY <2>1 DEF Applied, market, tables
  <2> QED
    BY <1>2, <2>2, <2>3 DEF OnceInv
<1>7. CASE Book \/ Close \/ Materialise \/ Tick \/ UNCHANGED vars
  <2>1. UNCHANGED <<rows, view, todo>>
    BY <1>7 DEF Book, Close, Materialise, Tick, vars, market, tables, session, history
  <2> QED
    BY <1>3, <2>1 DEF OnceInv
<1>8. CASE Finish
  BY <1>3, <1>4, <1>8 DEF Finish, Leave, OnceInv
<1>9. CASE Crash
  BY <1>3, <1>4, <1>9 DEF Crash, Leave, OnceInv, tables
<1>10. CASE Open
  <2>1. UNCHANGED <<view, todo>> /\ now \in Moment
    BY <1>10 DEF Open, session, BaseInv, TypeOK
  <2>2. PICK p \in Position :
          /\ deals[p] = <<>>
          /\ deals' = [deals EXCEPT ![p] =
                 <<[entry |-> TRUE, own |-> TRUE, volume |-> Volume, net |-> -Commission,
                    time |-> now]>>]
          /\ \/ rows' = Append(rows, NewRow("EXECUTED", p, {1}))
             \/ rows' = Append(rows, NewRow("FAILED", None, {}))
             \/ UNCHANGED rows
    BY <1>10 DEF Open
  <2>3. CASE UNCHANGED rows
    BY <1>3, <2>1, <2>3 DEF OnceInv
  <2>4. CASE rows' = Append(rows, NewRow("EXECUTED", p, {1}))
    <3> DEFINE r == NewRow("EXECUTED", p, {1})
    <3>1. r \in Row
      <4>1. {1} \in SUBSET Nat
        OBVIOUS
      <4> QED
        BY <2>1, <4>1, NewRowType
    <3>2. r.held = p /\ r.tickets = {1} /\ r.closed = None
      BY DEF NewRow
    <3>3. 1 \in Own(deals'[p]) /\ p # None
      BY <2>2, Constants DEF BaseInv, TypeOK, Own
    <3> HIDE DEF r
    <3>4. RowSound(deals', r)
      BY <3>2, <3>3 DEF RowSound
    <3>5. RowsSound(deals', now', Append(rows, r))
      BY <1>1, <1>2, <2>2, <3>1, <3>2, <3>4, AppendedSound
    <3> QED
      BY <1>3, <2>1, <2>4, <3>5 DEF OnceInv, r
  <2>5. CASE rows' = Append(rows, NewRow("FAILED", None, {}))
    <3> DEFINE r == NewRow("FAILED", None, {})
    <3>1. r \in Row
      <4>1. {} \in SUBSET Nat
        OBVIOUS
      <4> QED
        BY <2>1, <4>1, NewRowType
    <3>2. r.held = None /\ r.tickets = {} /\ r.closed = None /\ r.net = 0 /\ r.waived = 0
      BY DEF NewRow
    <3> HIDE DEF r
    <3>3. RowSound(deals', r)
      BY <3>2 DEF RowSound
    <3>4. RowsSound(deals', now', Append(rows, r))
      BY <1>1, <1>2, <3>1, <3>2, <3>3, AppendedSound
    <3> QED
      BY <1>3, <2>1, <2>5, <3>4 DEF OnceInv, r
  <2> QED
    BY <2>2, <2>3, <2>4, <2>5
<1>11. CASE Fail
  <2>1. /\ UNCHANGED <<view, todo>> /\ now \in Moment
        /\ rows' = Append(rows, NewRow("FAILED", None, {}))
    BY <1>11 DEF Fail, session, BaseInv, TypeOK
  <2> DEFINE r == NewRow("FAILED", None, {})
  <2>2. r \in Row
    <3>1. {} \in SUBSET Nat
      OBVIOUS
    <3> QED
      BY <2>1, <3>1, NewRowType
  <2>3. r.held = None /\ r.tickets = {} /\ r.closed = None /\ r.net = 0 /\ r.waived = 0
    BY DEF NewRow
  <2> HIDE DEF r
  <2>4. RowSound(deals', r)
    BY <2>3 DEF RowSound
  <2>5. RowsSound(deals', now', Append(rows, r))
    BY <1>1, <1>2, <2>2, <2>3, <2>4, AppendedSound
  <2> QED
    BY <1>3, <2>1, <2>5 DEF OnceInv, r
<1> QED
  BY <1>5, <1>6, <1>7, <1>8, <1>9, <1>10, <1>11 DEF Next

LEMMA OnceAlways == Spec => []OnceInv
<1>1. Init => OnceInv
  BY DEF Init, OnceInv, RowsSound, TodoApart
<1> QED
  BY <1>1, BaseAlways, OnceStep, PTL DEF Spec

(* No two rows state the result of one position, however many rows without tickets the *)
(* fallback has to choose from and whatever has left the window.                       *)
THEOREM StatedOnce == Spec => []OncePerPosition
<1>1. OnceInv => OncePerPosition
  BY DEF OnceInv, RowsSound, RowSound, OncePerPosition
<1> QED
  BY <1>1, OnceAlways, PTL

-----------------------------------------------------------------------------
(* A run that reads nothing new books nothing *)

\* The positions found have their rows in s by the pairs in M, all but those of T are
\* stated there, and _match would find no others: the earliest row that holds a ticket
\* of a position has it, and for a row that is left there is no position left.
Placed(found, s, M, T) ==
    /\ M \in SUBSET ((DOMAIN s) \X found)
    /\ \A m, n \in M : m[1] = n[1] \/ m[2] = n[2] => m = n
    /\ \A m \in M : \A j \in 1..(m[1] - 1) : ~Holds(s[j], m[2])
    /\ \A m \in M \ T :
          Holds(s[m[1]], m[2]) /\ s[m[1]].net = m[2].net /\ s[m[1]].closed = m[2].closed
    /\ \A b \in found, j \in DOMAIN s : Holds(s[j], b) => \E m \in M : m[2] = b
    /\ \A i \in DOMAIN s : (\A m \in M : m[1] # i) =>
          \A b \in found : b.volume = Volume /\ Near(b.opened, s[i].at) => \E m \in M : m[2] = b

ReadInv ==
    /\ pc = "idle" => ~fresh
    /\ ~news /\ ~fresh => \E M : Placed(Grouped, rows, M, {})
    /\ pc # "idle" /\ ~news => \E M : todo \subseteq M /\ Placed(Grouped, view, M, todo)
    /\ pc # "idle" /\ ~fresh => pc = "apply" /\ \A m \in todo : view[m[1]].net = m[2].net

LEMMA GroupedKept ==
    ASSUME UNCHANGED <<now, deals>>
    PROVE  Grouped' = Grouped
BY DEF Grouped, Built, Known

LEMMA PairingPlaced ==
    ASSUME Len(rows) \in Nat, DOMAIN rows = 1..Len(rows), NEW found, NEW M,
           Pairing(found, M, Len(rows))
    PROVE  Placed(found, rows, M, M)
BY DEF Pairing, Placed

(* What _match makes of rows in which everything has its place is what they state.   *)
LEMMA SamePlace ==
    ASSUME Len(rows) \in Nat, DOMAIN rows = 1..Len(rows), NEW found,
           NEW M, Placed(found, rows, M, {}),
           NEW N, Pairing(found, N, Len(rows)), NEW n \in N
    PROVE  rows[n[1]].net = n[2].net
<1>1. n[1] \in DOMAIN rows /\ n[2] \in found
  BY DEF Pairing
<1>2. \A m \in M : /\ m[1] \in DOMAIN rows /\ m[2] \in found
                   /\ Holds(rows[m[1]], m[2]) /\ rows[m[1]].net = m[2].net
                   /\ \A j \in 1..(m[1] - 1) : ~Holds(rows[j], m[2])
  BY DEF Placed
<1>3. \A l \in N : /\ l[1] \in DOMAIN rows /\ l[2] \in found
                   /\ \A j \in 1..(l[1] - 1) : ~Holds(rows[j], l[2])
  BY DEF Pairing
<1>4. ASSUME NEW m \in M, NEW l \in N, m[2] = l[2], Holds(rows[l[1]], l[2])
      PROVE  m[1] = l[1]
  <2>1. m[1] \in 1..Len(rows) /\ l[1] \in 1..Len(rows)
    BY <1>2, <1>3
  <2>2. m[1] \notin 1..(l[1] - 1) /\ l[1] \notin 1..(m[1] - 1)
    BY <1>2, <1>3, <1>4
  <2> QED
    BY <2>1, <2>2
<1>5. CASE Holds(rows[n[1]], n[2])
  <2>1. PICK m \in M : m[2] = n[2]
    BY <1>1, <1>5 DEF Placed
  <2>2. m[1] = n[1]
    BY <1>4, <1>5, <2>1
  <2> QED
    BY <1>2, <2>1, <2>2
<1>6. CASE /\ n[2].volume = Volume /\ Near(n[2].opened, rows[n[1]].at)
           /\ \A j \in DOMAIN rows : ~Holds(rows[j], n[2])
  <2>1. \A m \in M : m[2] # n[2]
    BY <1>2, <1>6
  <2>2. PICK m \in M : m[1] = n[1]
    BY <1>1, <1>6, <2>1 DEF Placed
  <2>3. PICK l \in N : l[2] = m[2]
    BY <1>2 DEF Pairing
  <2>4. Holds(rows[l[1]], l[2])
    BY <1>2, <2>3 DEF Pairing
  <2>5. l[1] = n[1]
    BY <1>4, <2>2, <2>3, <2>4
  <2>6. l = n
    BY <2>5 DEF Pairing
  <2> QED
    BY <2>1, <2>3, <2>6
<1> QED
  BY <1>5, <1>6 DEF Pairing

LEMMA AppliedPlaced ==
    ASSUME BaseInv, NEW m \in todo, NEW r \in Row, Applied(m, r),
           NEW M, todo \subseteq M, Placed(Grouped, view, M, todo)
    PROVE  todo' \subseteq M /\ Placed(Grouped, view', M, todo')
<1> DEFINE b == m[2]  i == m[1]
<1>1. /\ i \in DOMAIN view /\ FoundSound(b) /\ DOMAIN view' = DOMAIN view /\ view'[i] = r
      /\ view \in Seq(Row)
      /\ \A k \in DOMAIN view : k # i => view'[k] = view[k]
  BY AppliedView
<1>2. /\ r.held = b.id /\ r.tickets = {1, Least(b.known), Greatest(b.known)} /\ r.net = b.net /\ r.closed = b.closed
      /\ todo' = todo \ {m}
  BY DEF Applied
<1>3. Holds(r, b)
  BY <1>1, <1>2 DEF FoundSound, Holds
<1>4. \A c \in Grouped : Holds(r, c) => c = b
  <2>1. DealsType /\ DealsInv
    BY DEF BaseInv, TypeOK, DealsType
  <2>2. b \in Grouped
    BY DEF Placed
  <2> QED
    BY <1>2, <2>1, <2>2, GroupedSound DEF Holds
<1>5. DOMAIN view = 1..Len(view) /\ Len(view) \in Nat
  BY <1>1
<1> HIDE DEF b, i
<1>6. M \in SUBSET ((DOMAIN view') \X Grouped)
  BY <1>1 DEF Placed
<1>7. \A k, n \in M : k[1] = n[1] \/ k[2] = n[2] => k = n
  BY DEF Placed
<1>8. ASSUME NEW n \in M, NEW j \in 1..(n[1] - 1)
      PROVE  ~Holds(view'[j], n[2])
  <2>1. n[1] \in 1..Len(view) /\ n[2] \in Grouped
    BY <1>5 DEF Placed
  <2>2. j \in DOMAIN view /\ j # n[1]
    BY <1>5, <2>1
  <2>3. CASE j = i
    <3>1. Holds(view'[j], n[2]) => n = m
      BY <1>1, <1>4, <1>7, <2>1, <2>3 DEF b
    <3> QED
      BY <2>2, <2>3, <3>1 DEF i
  <2>4. CASE j # i
    BY <1>1, <2>2, <2>4 DEF Placed
  <2> QED
    BY <2>3, <2>4
<1>9. ASSUME NEW n \in M \ todo'
      PROVE  /\ Holds(view'[n[1]], n[2]) /\ view'[n[1]].net = n[2].net
             /\ view'[n[1]].closed = n[2].closed
  <2>1. CASE n = m
    BY <1>1, <1>2, <1>3, <2>1 DEF b, i
  <2>2. CASE n # m
    <3>1. n \in M \ todo /\ n[1] # i /\ n[1] \in DOMAIN view
      BY <1>2, <1>7, <2>2 DEF i, Placed
    <3> QED
      BY <1>1, <3>1 DEF Placed
  <2> QED
    BY <2>1, <2>2
<1>10. ASSUME NEW c \in Grouped, NEW j \in DOMAIN view', Holds(view'[j], c)
       PROVE  \E n \in M : n[2] = c
  <2>1. CASE j = i
    BY <1>1, <1>4, <1>10, <2>1 DEF b
  <2>2. CASE j # i
    BY <1>1, <1>10, <2>2 DEF Placed
  <2> QED
    BY <2>1, <2>2
<1>11. ASSUME NEW j \in DOMAIN view', \A n \in M : n[1] # j
       PROVE  \A c \in Grouped : c.volume = Volume /\ Near(c.opened, view'[j].at) => \E n \in M : n[2] = c
  <2>1. j # i
    BY <1>11 DEF i
  <2>2. j \in DOMAIN view /\ view'[j] = view[j]
    BY <1>1, <2>1
  <2> QED
    BY <1>11, <2>2 DEF Placed
<1> QED
  BY <1>2, <1>6, <1>7, <1>8, <1>9, <1>10, <1>11 DEF Placed

LEMMA ReadBegin == ASSUME BaseInv, ReadInv, Begin PROVE ReadInv'
<1> DEFINE M == Matched(Grouped)
<1>1. /\ pc = "idle" /\ pc' = "apply" /\ view' = rows /\ fresh' = news /\ news' = FALSE
      /\ todo' = M /\ UNCHANGED <<now, deals, rows>>
  BY DEF Begin, market, tables
<1>2. Pairing(Grouped, M, Len(rows)) /\ Len(rows) \in Nat /\ DOMAIN rows = 1..Len(rows)
  BY MatchedPairing DEF BaseInv, TypeOK
<1> HIDE DEF M
<1>3. Grouped' = Grouped
  BY <1>1, GroupedKept
<1>4. Placed(Grouped, rows, M, M)
  BY <1>2, PairingPlaced
<1>5. ASSUME ~news
      PROVE  /\ \E N : Placed(Grouped, rows, N, {})
             /\ \A m \in M : rows[m[1]].net = m[2].net
  <2>1. PICK N : Placed(Grouped, rows, N, {})
    BY <1>1, <1>5 DEF ReadInv
  <2>2. \A m \in M : rows[m[1]].net = m[2].net
    BY <1>2, <2>1, SamePlace
  <2> QED
    BY <2>1, <2>2
<1>6. ~fresh' => \E N : Placed(Grouped', rows', N, {})
  BY <1>1, <1>3, <1>5
<1>7. todo' \subseteq M /\ Placed(Grouped', view', M, todo')
  BY <1>1, <1>3, <1>4
<1>8. ~fresh' => \A m \in todo' : view'[m[1]].net = m[2].net
  BY <1>1, <1>5
<1> QED
  BY <1>1, <1>6, <1>7, <1>8 DEF ReadInv

LEMMA ReadApply ==
    ASSUME BaseInv, OnceInv, ReadInv, Apply
    PROVE  ReadInv' /\ (booked' # booked => fresh)
<1>1. PICK m \in todo, r \in Row : Applied(m, r)
  BY ApplyIs
<1>2. /\ pc = "apply" /\ todo' = todo \ {m} /\ UNCHANGED <<now, deals, news, fresh>>
      /\ (UNCHANGED <<tables, pc>> \/ (m[2].net # view[m[1]].net /\ pc' \in {"apply", "book"}))
  BY <1>1 DEF Applied, market, history
<1>3. Grouped' = Grouped
  BY <1>2, GroupedKept
<1>4. ~fresh => UNCHANGED <<rows, booked, pc>>
  BY <1>2 DEF ReadInv, tables
<1>5. pc' # "idle"
  BY <1>2
<1>6. ~news' /\ ~fresh' => \E M : Placed(Grouped', rows', M, {})
  BY <1>2, <1>3, <1>4 DEF ReadInv
<1>7. ~news' => \E M : todo' \subseteq M /\ Placed(Grouped', view', M, todo')
  <2> SUFFICES ASSUME ~news
               PROVE  \E M : todo' \subseteq M /\ Placed(Grouped', view', M, todo')
    BY <1>2
  <2>1. PICK M : todo \subseteq M /\ Placed(Grouped, view, M, todo)
    BY <1>2 DEF ReadInv
  <2> QED
    BY <1>1, <1>3, <2>1, AppliedPlaced
<1>8. ~fresh' => pc' = "apply" /\ \A n \in todo' : view'[n[1]].net = n[2].net
  <2> SUFFICES ASSUME ~fresh
               PROVE  pc' = "apply" /\ \A n \in todo' : view'[n[1]].net = n[2].net
    BY <1>2
  <2>1. \A n \in todo' : n \in todo /\ n[1] # m[1] /\ n[1] \in DOMAIN view
    BY <1>2 DEF OnceInv, TodoApart, BaseInv, TypeOK
  <2>2. \A k \in DOMAIN view : k # m[1] => view'[k] = view[k]
    BY <1>1, AppliedView
  <2> QED
    BY <1>2, <1>4, <2>1, <2>2 DEF ReadInv
<1> QED
  BY <1>4, <1>5, <1>6, <1>7, <1>8 DEF ReadInv

LEMMA ReadStep ==
    BaseInv /\ OnceInv /\ ReadInv /\ [Next]_vars => ReadInv' /\ (booked' # booked => fresh)
<1> SUFFICES ASSUME BaseInv, OnceInv, ReadInv, [Next]_vars
             PROVE  ReadInv' /\ (booked' # booked => fresh)
  OBVIOUS
<1>1. CASE Begin
  BY <1>1, ReadBegin DEF Begin, tables
<1>2. CASE Apply
  BY <1>2, ReadApply
<1>3. CASE Book
  <2>1. /\ pc = "book" /\ pc' = "apply"
        /\ UNCHANGED <<now, deals, rows, view, todo, news, fresh>>
    BY <1>3 DEF Book, market, history
  <2>2. Grouped' = Grouped
    BY <2>1, GroupedKept
  <2>3. fresh
    BY <2>1 DEF ReadInv
  <2> QED
    BY <2>1, <2>2, <2>3 DEF ReadInv
<1>4. CASE Finish
  <2>1. /\ pc = "apply" /\ todo = {} /\ rows' = view /\ fresh' = FALSE /\ pc' = "idle"
        /\ UNCHANGED <<now, deals, booked, news>>
    BY <1>4 DEF Finish, Leave, market
  <2>2. Grouped' = Grouped
    BY <2>1, GroupedKept
  <2> QED
    BY <2>1, <2>2 DEF ReadInv
<1>5. CASE Crash
  <2>1. /\ news' = (news \/ fresh) /\ fresh' = FALSE /\ pc' = "idle"
        /\ UNCHANGED <<now, deals, rows, booked>>
    BY <1>5 DEF Crash, Leave, market, tables
  <2>2. Grouped' = Grouped
    BY <2>1, GroupedKept
  <2> QED
    BY <2>1, <2>2 DEF ReadInv
<1>6. CASE Open \/ Fail \/ Close \/ Tick
  <2>1. news' = TRUE /\ UNCHANGED <<booked, pc, view, todo, fresh>>
    BY <1>6 DEF Open, Fail, Close, Tick, session, tables
  <2> QED
    BY <2>1 DEF ReadInv
<1>7. CASE Materialise \/ UNCHANGED vars
  <2>1. UNCHANGED <<now, deals, rows, booked, pc, view, todo, news, fresh>>
    BY <1>7 DEF Materialise, vars, market, tables, session, history
  <2>2. Grouped' = Grouped
    BY <2>1, GroupedKept
  <2> QED
    BY <2>1, <2>2 DEF ReadInv
<1> QED
  BY <1>1, <1>2, <1>3, <1>4, <1>5, <1>6, <1>7 DEF Next

LEMMA ReadInit == Init => ReadInv
<1> SUFFICES ASSUME Init
             PROVE  ReadInv
  OBVIOUS
<1>1. Grouped = {}
  BY DEF Init, Grouped, Known, Own
<1>2. Placed(Grouped, rows, {}, {})
  BY <1>1 DEF Init, Placed
<1> QED
  BY <1>2 DEF Init, ReadInv

LEMMA ReadAlways == Spec => []ReadInv
BY BaseAlways, OnceAlways, ReadInit, ReadStep, PTL DEF Spec

(* Running reconciliation again over what the last completed run has read books      *)
(* nothing, whichever rows the fallback chose for whichever positions.               *)
THEOREM RunsRepeat == Spec => Idempotent
<1>1. BaseInv /\ OnceInv /\ ReadInv /\ [Next]_vars => [booked' # booked => fresh]_vars
  BY ReadStep
<1> QED
  BY <1>1, BaseAlways, OnceAlways, ReadAlways, PTL DEF Spec, Idempotent

-----------------------------------------------------------------------------
(* The books agree with the deals *)

\* A row that has been of one position only has not booked the cost of the entry, or has
\* booked all, and while it is not told of an exit nothing.
RowKept(D, r) ==
    r.held # None /\ ~r.moved =>
        /\ r.waived \in {0, D[r.held][1].net}
        /\ r.closed = None => r.waived = r.net

RowsKept(D, s) == \A i \in DOMAIN s : RowKept(D, s[i])

\* A position found without an exit comes to what its entry cost, and its row is not told
\* of one.
TodoKept(D, s, T) ==
    \A m \in T : m[2].closed = None /\ s[m[1]].held \in {None, m[2].id} =>
        s[m[1]].closed = None /\ m[2].net = D[m[2].id][1].net

AgreeInv ==
    RowsKept(deals, rows) /\ RowsKept(deals, view) /\ TodoKept(deals, view, todo)

LEMMA RowsKeptGrow ==
    ASSUME BaseInv, Grown, NEW s \in Seq(Row), RowsSound(deals, now, s), RowsKept(deals, s)
    PROVE  RowsKept(deals', s)
<1> SUFFICES ASSUME NEW i \in DOMAIN s, s[i].held # None
             PROVE  RowKept(deals', s[i])
  BY DEF RowsKept, RowKept
<1> DEFINE r == s[i]
<1>1. r \in Row /\ RowSound(deals, r) /\ RowKept(deals, r)
  BY DEF RowsSound, RowsKept
<1>2. r.held # None
  OBVIOUS
<1> HIDE DEF r
<1>3. r.held \in Position /\ 1 \in DOMAIN deals[r.held]
  BY <1>1, <1>2 DEF Row, RowSound, Own
<1>4. deals'[r.held][1] = deals[r.held][1]
  BY <1>3 DEF Grown
<1>5. RowKept(deals', r)
  BY <1>1, <1>4 DEF RowKept
<1> QED
  BY <1>5 DEF r

LEMMA TodoKeptGrow ==
    ASSUME BaseInv, Grown, TodoKept(deals, view, todo)
    PROVE  TodoKept(deals', view, todo)
<1> SUFFICES ASSUME NEW m \in todo
             PROVE  TodoKept(deals', view, {m})
  BY DEF TodoKept
<1>1. m[2] \in Found /\ FoundSound(m[2])
  BY DEF BaseInv, TypeOK
<1>2. m[2].id \in Position /\ Least(m[2].known) \in DOMAIN deals[m[2].id]
  BY <1>1 DEF Found, FoundSound, Own
<1>3. deals[m[2].id] \in Seq(Deal)
  BY <1>2 DEF BaseInv, TypeOK
<1>4. 1 \in DOMAIN deals[m[2].id]
  BY <1>2, <1>3
<1>5. deals'[m[2].id][1] = deals[m[2].id][1]
  BY <1>2, <1>4 DEF Grown
<1> QED
  BY <1>5 DEF TodoKept

(* The only row that holds a ticket of a position found, or one of those that do, has *)
(* not lost it to a second: two rows of one position are one of them without an exit, *)
(* and with the entry out of the window it holds none of what was found.              *)
LEMMA OneHolder ==
    ASSUME BaseInv, RowsSound(deals, now, rows), NEW b \in Grouped,
           NEW i \in DOMAIN rows, NEW j \in DOMAIN rows, Holds(rows[i], b), Holds(rows[j], b)
    PROVE  i = j
<1> SUFFICES ASSUME i # j
             PROVE  FALSE
  OBVIOUS
<1> DEFINE p == b.id
<1>1. DealsType /\ DealsInv
  BY DEF BaseInv, TypeOK, DealsType
<1>2. p \in Position /\ p # None /\ b.known = Known(p)
  BY <1>1, GroupedSound, Constants
<1>3. rows[i].held = p /\ rows[j].held = p
  BY DEF Holds
<1>4. Gone(deals, now, p) /\ (rows[i].closed = None \/ rows[j].closed = None)
  BY <1>2, <1>3 DEF RowsSound
<1> HIDE DEF p
<1>5. ASSUME NEW k \in DOMAIN rows, Holds(rows[k], b), rows[k].closed = None, rows[k].held = p
      PROVE  FALSE
  <2>1. RowSound(deals, rows[k])
    BY DEF RowsSound
  <2>2. 1 \in rows[k].tickets /\ rows[k].tickets \subseteq Own(deals[p])
        /\ Own(deals[p]) \subseteq DOMAIN deals[p] /\ \A t \in rows[k].tickets : ~(t > 1)
    BY <1>2, <1>5, <2>1 DEF RowSound, Own
  <2>3. deals[p] \in Seq(Deal)
    BY <1>1, <1>2 DEF DealsType
  <2>4. 1 \in Own(deals[p]) /\ \A t \in rows[k].tickets : t = 1
    BY <2>2, <2>3
  <2>5. 1 \notin Known(p)
    BY <1>2, <1>4, <2>4, GoneIs
  <2> QED
    BY <1>2, <1>5, <2>4, <2>5 DEF Holds
<1> QED
  BY <1>3, <1>4, <1>5

LEMMA BeginKept ==
    ASSUME BaseInv, RowsSound(deals, now, rows)
    PROVE  TodoKept(deals, rows, Matched(Grouped))
<1> DEFINE M == Matched(Grouped)
<1>1. Pairing(Grouped, M, Len(rows)) /\ DealsType /\ DealsInv /\ rows \in Seq(Row)
  BY MatchedPairing DEF BaseInv, TypeOK, DealsType
<1> HIDE DEF M
<1> SUFFICES ASSUME NEW m \in M, m[2].closed = None, rows[m[1]].held \in {None, m[2].id}
             PROVE  rows[m[1]].closed = None /\ m[2].net = deals[m[2].id][1].net
  BY DEF TodoKept, M
<1> DEFINE b == m[2]  i == m[1]  p == b.id  s == deals[p]
<1>2. i \in DOMAIN rows /\ b \in Grouped
  BY <1>1 DEF Pairing
<1>3. /\ p \in Position /\ b = Built(p, Known(p)) /\ b.known = Known(p) /\ b.known # {}
      /\ FoundSound(b)
  BY <1>1, <1>2, GroupedSound
<1>4. s \in Seq(Deal) /\ rows[i] \in Row /\ RowSound(deals, rows[i]) /\ rows[i].held \in {None, p}
  BY <1>1, <1>2, <1>3 DEF DealsType, RowsSound
<1>5. b.net = Net(s, b.known) /\ b.closed = None
  BY <1>3 DEF Built
<1> HIDE DEF b, i, p, s
<1>6. Known(p) = {1}
  BY <1>3, <1>5 DEF FoundSound
<1>7. 1 \in DOMAIN s /\ Own(s) = {1}
  <2>1. /\ Known(p) \subseteq Own(s) /\ Own(s) \subseteq DOMAIN s
        /\ \A x \in Known(p), y \in Own(s) : x <= y => y \in Known(p)
    BY <1>1, <1>3, KnownSound DEF s
  <2>2. \A y \in DOMAIN s : 1 <= y
    BY <1>4
  <2> QED
    BY <1>6, <2>1, <2>2
<1>8. rows[i].closed = None
  <2>1. rows[i].tickets \subseteq {1}
    BY <1>4, <1>7 DEF RowSound, s
  <2>2. ~\E k \in rows[i].tickets : k > 1
    BY <2>1
  <2> QED
    BY <1>4, <2>2 DEF RowSound
<1>9. b.net = s[1].net
  <2>1. Net(s, {} \cup {1}) = Net(s, {}) + s[1].net /\ Net(s, {}) = 0
    BY <1>4, <1>7, SumOne, SumNone
  <2>2. {} \cup {1} = {1}
    OBVIOUS
  <2>3. s[1] \in Deal
    BY <1>4, <1>7
  <2>4. s[1].net \in Int
    BY <2>3 DEF Deal
  <2> QED
    BY <1>3, <1>5, <1>6, <2>1, <2>2, <2>4
<1> QED
  BY <1>8, <1>9 DEF b, i, p, s

LEMMA ApplyKept ==
    ASSUME BaseInv, OnceInv, AgreeInv, NEW m \in todo, NEW r \in Row, Applied(m, r)
    PROVE  RowsKept(deals, view') /\ TodoKept(deals, view', todo')
<1> DEFINE b == m[2]  p == b.id  i == m[1]  old == view[i]  s == deals[p]
<1>1. /\ i \in DOMAIN view /\ b \in Found /\ p \in Position /\ FoundSound(b)
      /\ view \in Seq(Row) /\ DOMAIN view' = DOMAIN view /\ view'[i] = r
      /\ \A k \in DOMAIN view : k # i => view'[k] = view[k]
  BY AppliedView
<1>2. /\ r.held = p /\ r.net = b.net /\ r.closed = b.closed /\ todo' = todo \ {m}
      /\ r.moved = (old.moved \/ old.held \notin {None, p})
      /\ \/ (b.closed = None \/ b.net = old.net) /\ r.waived = old.waived + (b.net - old.net)
         \/ b.closed # None /\ r.waived = old.waived
  BY DEF Applied
<1>3. old \in Row /\ RowSound(deals, old) /\ RowKept(deals, old)
  BY <1>1 DEF OnceInv, RowsSound, AgreeInv, RowsKept
<1>4. b.closed = None /\ old.held \in {None, p} => old.closed = None /\ b.net = s[1].net
  BY DEF AgreeInv, TodoKept
<1>5. s \in Seq(Deal) /\ Least(b.known) \in DOMAIN s
  BY <1>1 DEF BaseInv, TypeOK, FoundSound, Own
<1>6. s[1] \in Deal
  <2>1. 1 \in DOMAIN s
    BY <1>5
  <2> QED
    BY <1>5, <2>1
<1>7. old.waived \in Int /\ old.net \in Int /\ b.net \in Int /\ s[1].net \in Int
  BY <1>1, <1>3, <1>6 DEF Row, Found, Deal
<1>8. ~r.moved => /\ old.held \in {None, p} /\ old.waived \in {0, s[1].net}
                  /\ old.closed = None => old.waived = old.net
  <2> SUFFICES ASSUME ~r.moved
               PROVE  /\ old.held \in {None, p} /\ old.waived \in {0, s[1].net}
                      /\ old.closed = None => old.waived = old.net
    OBVIOUS
  <2>1. ~old.moved /\ old.held \in {None, p}
    BY <1>2
  <2>2. CASE old.held = None
    BY <1>3, <2>1, <2>2 DEF RowSound
  <2>3. CASE old.held = p /\ p # None
    BY <1>3, <2>1, <2>3 DEF RowKept
  <2> QED
    BY <1>1, <2>1, <2>2, <2>3, Constants
<1> HIDE DEF b, p, i, s, old
<1>9. ~r.moved => r.waived \in {0, s[1].net} /\ (r.closed = None => r.waived = r.net)
  <2> SUFFICES ASSUME ~r.moved
               PROVE  r.waived \in {0, s[1].net} /\ (r.closed = None => r.waived = r.net)
    OBVIOUS
  <2>1. CASE b.closed # None /\ r.waived = old.waived
    BY <1>2, <1>8, <2>1
  <2>2. CASE b.closed = None /\ r.waived = old.waived + (b.net - old.net)
    <3>1. r.waived = b.net
      BY <1>4, <1>7, <1>8, <2>2
    <3> QED
      BY <1>2, <1>4, <1>8, <2>2, <3>1
  <2>3. CASE b.closed # None /\ b.net = old.net /\ r.waived = old.waived + (b.net - old.net)
    <3>1. r.waived = old.waived
      BY <1>7, <2>3
    <3> QED
      BY <2>1, <2>3, <3>1
  <2> QED
    BY <1>2, <2>1, <2>2, <2>3
<1>10. RowKept(deals, r)
  BY <1>2, <1>9 DEF RowKept, s
<1>11. RowsKept(deals, view')
  <2> SUFFICES ASSUME NEW k \in DOMAIN view
               PROVE  RowKept(deals, view'[k])
    BY <1>1 DEF RowsKept
  <2>1. CASE k = i
    BY <1>1, <1>10, <2>1
  <2>2. CASE k # i
    BY <1>1, <2>2 DEF AgreeInv, RowsKept
  <2> QED
    BY <2>1, <2>2
<1>12. TodoKept(deals, view', todo')
  <2> SUFFICES ASSUME NEW n \in todo'
               PROVE  TodoKept(deals, view', {n})
    BY DEF TodoKept
  <2>1. n \in todo /\ n[1] # i /\ n[1] \in DOMAIN view
    BY <1>2 DEF OnceInv, TodoApart, BaseInv, TypeOK, i
  <2>2. view'[n[1]] = view[n[1]]
    BY <1>1, <2>1
  <2> QED
    BY <2>1, <2>2 DEF AgreeInv, TodoKept
<1> QED
  BY <1>11, <1>12

LEMMA AppendedKept ==
    ASSUME BaseInv, Grown, NEW s \in Seq(Row), RowsSound(deals, now, s), RowsKept(deals, s),
           NEW r \in Row, RowKept(deals', r)
    PROVE  RowsKept(deals', Append(s, r))
<1> DEFINE t == Append(s, r)
<1>1. RowsKept(deals', s)
  BY RowsKeptGrow
<1>2. /\ Len(s) \in Nat /\ DOMAIN t = 1..(Len(s) + 1) /\ DOMAIN s = 1..Len(s)
      /\ t[Len(s) + 1] = r /\ \A i \in 1..Len(s) : t[i] = s[i]
  OBVIOUS
<1> HIDE DEF t
<1>3. \A i \in DOMAIN t : (i \in DOMAIN s /\ t[i] = s[i]) \/ t[i] = r
  BY <1>2
<1>4. RowsKept(deals', t)
  BY <1>1, <1>3 DEF RowsKept
<1> QED
  BY <1>4 DEF t

LEMMA AgreeOpen ==
    ASSUME BaseInv, OnceInv, AgreeInv, Grown, Open \/ Fail
    PROVE  RowsKept(deals', rows')
<1>1. /\ RowsSound(deals, now, rows) /\ RowsKept(deals, rows) /\ rows \in Seq(Row)
      /\ now \in Moment
  BY DEF OnceInv, AgreeInv, BaseInv, TypeOK
<1>2. CASE UNCHANGED rows
  BY <1>1, <1>2, RowsKeptGrow
<1>3. ASSUME NEW status \in {"EXECUTED", "FAILED"}, NEW p \in Position \cup {None},
             NEW t \in SUBSET Nat, rows' = Append(rows, NewRow(status, p, t))
      PROVE  RowsKept(deals', rows')
  <2> DEFINE r == NewRow(status, p, t)
  <2>1. r \in Row
    BY <1>1, NewRowType
  <2>2. r.waived = 0 /\ r.net = 0
    BY DEF NewRow
  <2> HIDE DEF r
  <2>3. RowKept(deals', r)
    BY <2>2 DEF RowKept
  <2>4. RowsKept(deals', Append(rows, r))
    BY <1>1, <2>1, <2>3, AppendedKept
  <2> QED
    BY <1>3, <2>4 DEF r
<1>4. CASE \E p \in Position : rows' = Append(rows, NewRow("EXECUTED", p, {1}))
  <2>1. PICK p \in Position : rows' = Append(rows, NewRow("EXECUTED", p, {1}))
    BY <1>4
  <2>2. {1} \in SUBSET Nat
    OBVIOUS
  <2> QED
    BY <1>3, <2>1, <2>2
<1>5. CASE rows' = Append(rows, NewRow("FAILED", None, {}))
  <2>1. {} \in SUBSET Nat
    OBVIOUS
  <2> QED
    BY <1>3, <1>5, <2>1
<1>6. Open => \/ UNCHANGED rows \/ rows' = Append(rows, NewRow("FAILED", None, {}))
              \/ \E p \in Position : rows' = Append(rows, NewRow("EXECUTED", p, {1}))
  BY DEF Open
<1>7. Fail => rows' = Append(rows, NewRow("FAILED", None, {}))
  BY DEF Fail
<1> QED
  BY <1>2, <1>4, <1>5, <1>6, <1>7

LEMMA AgreeStep == BaseInv /\ OnceInv /\ AgreeInv /\ [Next]_vars => AgreeInv'
<1> SUFFICES ASSUME BaseInv, OnceInv, AgreeInv, [Next]_vars
             PROVE  AgreeInv'
  OBVIOUS
<1>1. Grown
  BY DealsStep
<1>2. /\ RowsKept(deals, rows) /\ RowsKept(deals, view) /\ TodoKept(deals, view, todo)
      /\ RowsSound(deals, now, rows) /\ RowsSound(deals, now, view)
      /\ rows \in Seq(Row) /\ view \in Seq(Row)
  BY DEF AgreeInv, OnceInv, BaseInv, TypeOK
<1>3. /\ RowsKept(deals', rows) /\ RowsKept(deals', view) /\ TodoKept(deals', view, todo)
  BY <1>1, <1>2, RowsKeptGrow, TodoKeptGrow
<1>4. RowsKept(deals', <<>>) /\ TodoKept(deals', <<>>, {})
  BY DEF RowsKept, TodoKept
<1>5. CASE Begin
  <2>1. /\ view' = rows /\ todo' = Matched(Grouped) /\ UNCHANGED <<now, deals, rows>>
    BY <1>5 DEF Begin, market, tables
  <2>2. TodoKept(deals, rows, Matched(Grouped))
    BY <1>2, BeginKept
  <2> QED
    BY <1>2, <2>1, <2>2 DEF AgreeInv
<1>6. CASE Apply
  <2>1. PICK m \in todo, r \in Row : Applied(m, r)
    BY <1>6, ApplyIs
  <2>2. RowsKept(deals, view') /\ TodoKept(deals, view', todo')
    BY <2>1, ApplyKept
  <2>3. UNCHANGED <<now, deals>> /\ (rows' = rows \/ rows' = view')
    BY <2>1 DEF Applied, market, tables
  <2> QED
    BY <1>2, <2>2, <2>3 DEF AgreeInv
<1>7. CASE Book \/ Close \/ Materialise \/ Tick \/ UNCHANGED vars
  <2>1. UNCHANGED <<rows, view, todo>>
    BY <1>7 DEF Book, Close, Materialise, Tick, vars, market, tables, session, history
  <2> QED
    BY <1>3, <2>1 DEF AgreeInv
<1>8. CASE Finish
  BY <1>3, <1>4, <1>8 DEF Finish, Leave, AgreeInv
<1>9. CASE Crash
  BY <1>3, <1>4, <1>9 DEF Crash, Leave, AgreeInv, tables
<1>10. CASE Open \/ Fail
  <2>1. UNCHANGED <<view, todo>>
    BY <1>10 DEF Open, Fail, session
  <2>2. RowsKept(deals', rows')
    BY <1>1, <1>10, AgreeOpen
  <2> QED
    BY <1>3, <2>1, <2>2 DEF AgreeInv
<1> QED
  BY <1>5, <1>6, <1>7, <1>8, <1>9, <1>10 DEF Next

LEMMA AgreeAlways == Spec => []AgreeInv
<1>1. Init => AgreeInv
  BY DEF Init, AgreeInv, RowsKept, TodoKept
<1> QED
  BY <1>1, BaseAlways, OnceAlways, AgreeStep, PTL DEF Spec

(* A completed run has told a row whose position's deals are all in the window of     *)
(* every exit of the bot's.                                                           *)
LEMMA RowTold ==
    ASSUME BaseInv, OnceInv, ReadInv, UpToDate,
           NEW i \in DOMAIN rows, rows[i].held # None, 1 \in Known(rows[i].held)
    PROVE  LET s == deals[rows[i].held]
           IN  /\ rows[i].closed # None <=> Own(s) \cap Exits(s) # {}
               /\ rows[i].net = Net(s, Own(s))
<1> DEFINE r == rows[i]  p == r.held  s == deals[p]  b == Built(p, Known(p))
<1>1. rows \in Seq(Row) /\ DealsType /\ DealsInv
  BY DEF BaseInv, TypeOK, DealsType
<1>2. r \in Row /\ RowSound(deals, r) /\ RowsSound(deals, now, rows)
  BY <1>1 DEF OnceInv, RowsSound
<1>3. p \in Position /\ 1 \in r.tickets
  BY <1>2 DEF Row, RowSound
<1>4. b \in Grouped /\ b.id = p /\ b.known = Known(p) /\ b.net = Net(s, Known(p)) /\ FoundSound(b)
  BY <1>1, <1>3, GroupedSound, BuiltSound DEF Built
<1>5. s \in Seq(Deal)
  BY <1>1, <1>3 DEF DealsType
<1>6. Known(p) = Own(s) /\ 1 \in Own(s) /\ Own(s) \subseteq DOMAIN s
  <2>1. /\ Known(p) \subseteq Own(s) /\ Own(s) \subseteq DOMAIN s
        /\ \A y \in Own(s) : 1 <= y => y \in Known(p)
    BY <1>1, <1>3, KnownSound
  <2>2. \A y \in DOMAIN s : 1 <= y
    BY <1>5
  <2> QED
    BY <2>1, <2>2
<1> HIDE DEF b
<1>7. Holds(r, b)
  BY <1>3, <1>4 DEF Holds
<1>8. ~fresh
  BY DEF ReadInv, UpToDate
<1>9. PICK M : Placed(Grouped, rows, M, {})
  BY <1>8 DEF ReadInv, UpToDate
<1>10. PICK m \in M : m[2] = b
  BY <1>4, <1>7, <1>9 DEF Placed
<1>11. /\ m[1] \in DOMAIN rows /\ Holds(rows[m[1]], b) /\ rows[m[1]].net = b.net
       /\ rows[m[1]].closed = b.closed
  BY <1>9, <1>10 DEF Placed
<1>12. m[1] = i
  BY <1>2, <1>4, <1>7, <1>11, OneHolder
<1>13. r.closed = None <=> Own(s) = {1}
  BY <1>4, <1>6, <1>11, <1>12 DEF FoundSound
<1>14. Exits(s) = DOMAIN s \ {1}
  <2>1. s # <<>>
    BY <1>5, <1>6
  <2> QED
    BY <1>1, <1>3, <2>1, EntryAndExits
<1>15. Own(s) \cap Exits(s) = {} <=> Own(s) = {1}
  BY <1>6, <1>14
<1> QED
  BY <1>4, <1>6, <1>11, <1>12, <1>13, <1>15

(* What such a row states and has not waived is what is to have been booked for it.   *)
LEMMA RowEarned ==
    ASSUME BaseInv, OnceInv, ReadInv, AgreeInv, UpToDate,
           NEW i \in DOMAIN rows, Kept(rows[i])
    PROVE  /\ rows[i].net \in Int /\ rows[i].waived \in Int
           /\ rows[i].net - rows[i].waived = Earned(rows[i])
<1> DEFINE r == rows[i]  s == deals[r.held]
<1>1. r \in Row /\ RowSound(deals, r) /\ RowKept(deals, r) /\ DealsType /\ DealsInv
  BY DEF BaseInv, TypeOK, OnceInv, RowsSound, AgreeInv, RowsKept, DealsType
<1>2. r.net \in Int /\ r.waived \in Int
  BY <1>1 DEF Row
<1>3. CASE r.held = None
  <2>1. r.tickets = {} /\ r.net = 0 /\ r.waived = 0 /\ r.closed = None
    BY <1>1, <1>3 DEF RowSound
  <2> QED
    BY <1>2, <2>1 DEF Earned
<1>4. CASE r.held # None
  <2>1. 1 \in Known(r.held) /\ ~r.moved /\ r.held \in Position
    BY <1>1, <1>4 DEF Kept, Row
  <2>2. r.net = Net(s, Own(s))
    BY <1>4, <2>1, RowTold
  <2>3. r.waived \in {0, s[1].net} /\ (r.closed = None => r.waived = r.net)
    BY <1>1, <1>4, <2>1 DEF RowKept
  <2>4. s \in Seq(Deal) /\ 1 \in Own(s) /\ Own(s) \subseteq DOMAIN s
    BY <1>1, <2>1, KnownSound DEF DealsType
  <2> HIDE DEF s
  <2>5. Net(s, Own(s)) = Net(s, Own(s) \ {1}) + s[1].net
    <3> DEFINE I == Own(s) \ {1}
    <3>1. I \cup {1} = Own(s) /\ 1 \notin I
      BY <2>4
    <3>2. 1 \in DOMAIN s
      BY <2>4
    <3> HIDE DEF I
    <3>3. Net(s, I \cup {1}) = Net(s, I) + s[1].net
      BY <2>4, <3>1, <3>2, SumOne
    <3> QED
      BY <3>1, <3>3 DEF I
  <2>6. Net(s, Own(s) \ {1}) \in Int /\ s[1].net \in Int
    <3>1. 1 \in DOMAIN s
      BY <2>4
    <3>2. s[1] \in Deal
      BY <2>4, <3>1
    <3> QED
      BY <2>4, <3>2, SumType DEF Deal
  <2>7. CASE r.closed = None
    <3>1. Earned(r) = 0
      BY <2>7 DEF Earned
    <3> QED
      BY <1>2, <2>3, <2>7, <3>1
  <2>8. CASE r.closed # None /\ r.waived = 0
    <3>1. Earned(r) = Net(s, Own(s))
      BY <2>8 DEF Earned, s
    <3> QED
      BY <1>2, <2>2, <2>8, <3>1
  <2>9. CASE r.closed # None /\ r.waived # 0
    <3>1. Earned(r) = Net(s, Own(s) \ {1}) /\ r.waived = s[1].net
      BY <2>3, <2>9 DEF Earned, s
    <3> QED
      BY <1>2, <2>2, <2>5, <2>6, <3>1
  <2> QED
    BY <1>2, <2>7, <2>8, <2>9
<1> QED
  BY <1>3, <1>4

(* While the entry of a row's position is in the window, a completed run has told the *)
(* row of every exit of the bot's; and what is booked in all is what these deals come *)
(* to, but for costs stored before an exit and what a crash has lost.                 *)
THEOREM BooksTrue == Spec => []BooksAgree
<1>1. ASSUME BaseInv, OnceInv, ReadInv, AgreeInv, BalancedInv, UpToDate,
             split = 0, \A i \in DOMAIN rows : Kept(rows[i])
      PROVE  Total(booked, LastDay) = Total([i \in DOMAIN rows |-> Earned(rows[i])], Len(rows))
  <2> DEFINE f == [i \in DOMAIN rows |-> rows[i].net - rows[i].waived]
             g == [i \in DOMAIN rows |-> Earned(rows[i])]
  <2>1. Len(rows) \in Nat /\ DOMAIN rows = 1..Len(rows) /\ booked \in [Day -> Int]
    BY <1>1 DEF BaseInv, TypeOK
  <2>2. \A i \in DOMAIN rows : f[i] \in Int /\ g[i] = f[i]
    <3> SUFFICES ASSUME NEW i \in DOMAIN rows
                 PROVE  f[i] \in Int /\ g[i] = f[i]
      OBVIOUS
    <3>1. /\ rows[i].net \in Int /\ rows[i].waived \in Int
          /\ rows[i].net - rows[i].waived = Earned(rows[i])
      BY <1>1, RowEarned
    <3> QED
      BY <3>1
  <2>3. Stated(rows) = Total(f, Len(rows))
    BY DEF Stated
  <2> HIDE DEF f, g
  <2>4. Total(g, Len(rows)) = Total(f, Len(rows))
    BY <2>1, <2>2, TotalSame
  <2>5. Total(booked, LastDay) + split + due.amount = Stated(rows) /\ due.amount = 0
    BY <1>1 DEF BalancedInv, Balanced, BaseInv, UpToDate, NoDue
  <2>6. Total(booked, LastDay) \in Int
    <3>1. \A d \in 1..LastDay : booked[d] \in Int
      BY <2>1 DEF Day
    <3> QED
      BY <3>1, Constants, TotalInt
  <2> QED
    BY <1>1, <2>3, <2>4, <2>5, <2>6 DEF g
<1>2. BaseInv /\ OnceInv /\ ReadInv /\ AgreeInv /\ BalancedInv => BooksAgree
  <2> SUFFICES ASSUME BaseInv, OnceInv, ReadInv, AgreeInv, BalancedInv
               PROVE  BooksAgree
    OBVIOUS
  <2>1. ASSUME UpToDate, NEW i \in DOMAIN rows, rows[i].held # None, Kept(rows[i])
        PROVE  LET s == deals[rows[i].held]
               IN  /\ rows[i].closed # None <=> Own(s) \cap Exits(s) # {}
                   /\ rows[i].net = Net(s, Own(s))
    BY <2>1, RowTold DEF Kept
  <2> QED
    BY <1>1, <2>1 DEF BooksAgree
<1> QED
  BY <1>2, BaseAlways, OnceAlways, ReadAlways, AgreeAlways, BalancedAlways, PTL

=============================================================================
