----------------------------- MODULE Induction ------------------------------
(* Induction over the natural numbers and recursion along them, stated for  *)
(* sets and functions.  The theorems of NaturalsInduction say the same of   *)
(* operators that are passed as parameters, which the provers used here     *)
(* cannot instantiate.  Behind them the lemmas about remainders that an     *)
(* induction over the digits of a number needs.                             *)
EXTENDS Integers, WellFoundedInduction, TLAPS

(* A set of naturals that has 0 and with every number the next one.         *)
LEMMA SetInduction ==
  ASSUME NEW T, T \subseteq Nat, 0 \in T, \A n \in T : n + 1 \in T
  PROVE  T = Nat
<1> SUFFICES ASSUME Nat \ T # {} PROVE FALSE
  OBVIOUS
<1> DEFINE R == {ss \in Nat \X Nat : ss[1] < ss[2]}
<1>1. IsWellFoundedOn(R, Nat)
  BY NatLessThanWellFounded, Zenon DEF OpToRel
<1>2. PICK x \in Nat \ T : \A y \in Nat \ T : ~ (<<y, x>> \in R)
  BY <1>1, WFMin, Zenon
<1>3. x # 0 /\ x - 1 \in Nat
  BY <1>2
<1>4. <<x-1, x>> \in R
  BY <1>3
<1>5. x - 1 \in T
  BY <1>2, <1>3, <1>4
<1>6. x - 1 + 1 = x
  BY <1>3
<1>7. QED
  BY <1>2, <1>5, <1>6

(* g follows st from s0 as far as n.                                        *)
Follows(g, s0, st, n) ==
  g[0] = s0 /\ \A i \in 0..n : i < n => g[i+1] = st[<<g[i], i>>]

(* The values up to n are fixed by the start and the step.                  *)
LEMMA FollowsOnce ==
  ASSUME NEW s0, NEW st, NEW m \in Nat, NEW n \in Nat, m <= n, NEW g, NEW h,
         Follows(g, s0, st, m), Follows(h, s0, st, n)
  PROVE  \A i \in 0..m : g[i] = h[i]
<1> DEFINE T == {i \in Nat : i <= m => g[i] = h[i]}
<1>1. T \subseteq Nat
  OBVIOUS
<1>2. 0 \in T
  BY DEF Follows
<1>3. ASSUME NEW i \in T PROVE i + 1 \in T
  <2>1. i \in Nat
    OBVIOUS
  <2>2. SUFFICES ASSUME i + 1 <= m PROVE g[i+1] = h[i+1]
    BY <2>1
  <2>3. i \in 0..m /\ i < m /\ i \in 0..n /\ i < n
    BY <2>1, <2>2
  <2>4. g[i] = h[i]
    BY <2>3
  <2>5. g[i+1] = st[<<g[i], i>>] /\ h[i+1] = st[<<h[i], i>>]
    BY <2>3 DEF Follows
  <2>6. QED
    BY <2>4, <2>5
<1> HIDE DEF T
<1>4. T = Nat
  BY <1>1, <1>2, <1>3, SetInduction
<1>5. QED
  BY <1>4 DEF T

(* f is the orbit of s0 in S under st.                                      *)
Orbit(f, S, s0, st) ==
  f \in [Nat -> S] /\ f[0] = s0 /\ \A n \in Nat : f[n+1] = st[<<f[n], n>>]

Steps(S, st) == \A s \in S : \A n \in Nat : st[<<s, n>>] \in S

(* A step function has an orbit: primitive recursion defines a function.    *)
LEMMA Recursion ==
  ASSUME NEW S, NEW s0, NEW st, s0 \in S, Steps(S, st)
  PROVE  \E f : Orbit(f, S, s0, st)
<1>0. \A s \in S, n \in Nat : st[<<s, n>>] \in S
  BY DEF Steps
<1> DEFINE G(n) == {g \in [0..n -> S] : Follows(g, s0, st, n)}
           T == {n \in Nat : G(n) # {}}
<1>1. T = Nat
  <2>1. T \subseteq Nat
    OBVIOUS
  <2>2. 0 \in T
    <3>1. [i \in 0..0 |-> s0] \in G(0)
      BY DEF Follows
    <3>2. QED
      BY <3>1
  <2>3. ASSUME NEW n \in T PROVE n + 1 \in T
    <3>1. n \in Nat
      OBVIOUS
    <3>2. PICK g \in G(n) : TRUE
      OBVIOUS
    <3> DEFINE h == [i \in 0..(n+1) |-> IF i <= n THEN g[i] ELSE st[<<g[n], n>>]]
    <3>3. g \in [0..n -> S] /\ g[n] \in S
      BY <3>1, <3>2
    <3>4. st[<<g[n], n>>] \in S
      BY <1>0, <3>1, <3>3
    <3>5. h \in [0..(n+1) -> S]
      BY <3>1, <3>3, <3>4
    <3>6. g[0] = s0 /\ \A i \in 0..n : i < n => g[i+1] = st[<<g[i], i>>]
      BY <3>2 DEF Follows
    <3>7. h[0] = s0
      BY <3>1, <3>6
    <3>8. ASSUME NEW i \in 0..(n+1), i < n + 1 PROVE h[i+1] = st[<<h[i], i>>]
      <4>1. CASE i < n
        BY <4>1, <3>1, <3>6
      <4>2. CASE i = n
        BY <4>2, <3>1
      <4>3. QED
        BY <3>8, <3>1, <4>1, <4>2
    <3>9. Follows(h, s0, st, n + 1)
      BY <3>7, <3>8 DEF Follows
    <3>10. h \in G(n+1)
      BY <3>5, <3>9
    <3> HIDE DEF G, h
    <3>11. G(n+1) # {} /\ n + 1 \in Nat
      BY <3>1, <3>10
    <3>12. QED
      BY <3>11, Zenon
  <2> HIDE DEF T
  <2>4. QED
    BY <2>1, <2>2, <2>3, SetInduction
<1> DEFINE pick == [n \in Nat |-> CHOOSE g \in G(n) : TRUE]
           f == [n \in Nat |-> pick[n][n]]
<1>2. ASSUME NEW n \in Nat PROVE pick[n] \in G(n)
  <2>1. n \in T
    BY <1>1
  <2>2. G(n) # {}
    BY <2>1
  <2>3. QED
    BY <2>2
<1> HIDE DEF pick
<1>3. ASSUME NEW n \in Nat
      PROVE  pick[n] \in [0..n -> S] /\ Follows(pick[n], s0, st, n)
  BY <1>2
<1>4. ASSUME NEW n \in Nat PROVE f[n] \in S
  <2>1. n \in 0..n /\ f[n] = pick[n][n]
    OBVIOUS
  <2>2. QED
    BY <2>1, <1>3
<1>5. f \in [Nat -> S]
  BY <1>4
<1>6. f[0] = s0
  BY <1>3 DEF Follows
<1>7. ASSUME NEW n \in Nat PROVE f[n+1] = st[<<f[n], n>>]
  <2>1. Follows(pick[n], s0, st, n) /\ Follows(pick[n+1], s0, st, n+1)
    BY <1>3
  <2>2. pick[n][n] = pick[n+1][n]
    <3>1. n + 1 \in Nat /\ n <= n + 1 /\ n \in 0..n
      OBVIOUS
    <3>2. ASSUME NEW a, NEW b, Follows(a, s0, st, n), Follows(b, s0, st, n + 1)
          PROVE  \A i \in 0..n : a[i] = b[i]
      BY <3>1, <3>2, FollowsOnce
    <3>3. \A i \in 0..n : pick[n][i] = pick[n+1][i]
      BY <2>1, <3>2
    <3>4. QED
      BY <3>1, <3>3
  <2>3. pick[n+1][n+1] = st[<<pick[n+1][n], n>>]
    <3>1. n \in 0..(n+1) /\ n < n + 1
      OBVIOUS
    <3>2. QED
      BY <2>1, <3>1 DEF Follows
  <2>4. f[n+1] = pick[n+1][n+1] /\ f[n] = pick[n][n]
    OBVIOUS
  <2>5. QED
    BY <2>2, <2>3, <2>4
<1> HIDE DEF f
<1>8. Orbit(f, S, s0, st)
  BY <1>5, <1>6, <1>7 DEF Orbit
<1>9. QED
  BY <1>8

(* g is defined by recursion along 0..n, and st stays in S.                  *)
Along(g, n, s0, st) == g = [i \in 0..n |-> IF i = 0 THEN s0 ELSE st[<<g[i-1], i>>]]
Closed(S, n, st) == \A a \in S : \A i \in 1..n : st[<<a, i>>] \in S

LEMMA Recursive ==
  ASSUME NEW n \in Nat, NEW S, NEW s0 \in S, NEW st, Closed(S, n, st)
  PROVE  \E g \in [0..n -> S] : Along(g, n, s0, st)
<1> DEFINE up == [x \in S \X Nat |-> IF x[2] + 1 \in 1..n THEN st[<<x[1], x[2] + 1>>] ELSE x[1]]
<1>1. ASSUME NEW s \in S, NEW i \in Nat
      PROVE  up[<<s, i>>] = IF i + 1 \in 1..n THEN st[<<s, i + 1>>] ELSE s
  OBVIOUS
<1> HIDE DEF up
<1>2. Steps(S, up)
  BY <1>1 DEF Steps, Closed
<1>3. PICK f : Orbit(f, S, s0, up)
  BY <1>2, Recursion
<1> DEFINE g == [i \in 0..n |-> f[i]]
<1>4. g \in [0..n -> S]
  BY <1>3 DEF Orbit
<1>5. ASSUME NEW i \in 0..n PROVE g[i] = IF i = 0 THEN s0 ELSE st[<<g[i-1], i>>]
  <2>1. CASE i = 0
    BY <2>1, <1>3 DEF Orbit
  <2>2. CASE i # 0
    <3>1. PICK k : k = i - 1
      OBVIOUS
    <3>2. k \in Nat /\ k + 1 = i /\ k \in 0..n /\ k + 1 \in 1..n
      BY <2>2, <3>1
    <3>3. f[k] \in S /\ f[k + 1] = up[<<f[k], k>>]
      BY <3>2, <1>3 DEF Orbit
    <3>4. f[i] = st[<<f[k], i>>]
      BY <3>2, <3>3, <1>1
    <3>5. g[i] = f[i] /\ g[k] = f[k]
      BY <3>2
    <3> HIDE DEF g
    <3>6. QED
      BY <2>2, <3>1, <3>4, <3>5
  <2>3. QED
    BY <2>1, <2>2
<1>6. g = [i \in 0..n |-> g[i]]
  OBVIOUS
<1> HIDE DEF g
<1>7. Along(g, n, s0, st)
  BY <1>5, <1>6 DEF Along
<1>8. QED
  BY <1>4, <1>7

-----------------------------------------------------------------------------
(* What is left of x by W, and that nothing else is.                        *)
LEMMA Division ==
  ASSUME NEW W \in Nat, W > 0, NEW x \in Int
  PROVE  x = W * (x \div W) + (x % W)
  OBVIOUS

LEMMA Remainder ==
  ASSUME NEW W \in Nat, W > 0, NEW x \in Int
  PROVE  x % W \in 0..(W-1) /\ \E k \in Int : x = k * W + (x % W)
<1>1. x % W \in 0..(W-1)
  OBVIOUS
<1>2. x \div W \in Int
  OBVIOUS
<1>3. PICK k \in Int : k = x \div W
  BY <1>2
<1>4. PICK r \in Int : r = x % W
  BY <1>1
<1>5. x = W * k + r
  BY <1>3, <1>4, Division
<1>6. x = k * W + r
  BY <1>5
<1>7. QED
  BY <1>1, <1>4, <1>6

LEMMA Spread ==
  ASSUME NEW a \in Int, NEW b \in Int, NEW c \in Int
  PROVE  (a - b) * c = a * c - b * c /\ (a + b) * c = a * c + b * c
  OBVIOUS

LEMMA RemainderIs ==
  ASSUME NEW W \in Nat, W > 0, NEW x \in Int, NEW q \in Int, NEW r \in 0..(W-1), x = r + q * W
  PROVE  x % W = r
<1>1. PICK k \in Int : x = k * W + (x % W)
  BY Remainder
<1>2. PICK s \in 0..(W-1) : s = x % W
  BY Remainder
<1>3. (q - k) * W = s - r
  <2>1. (q - k) * W = q * W - k * W
    BY Spread
  <2>2. q * W \in Int /\ k * W \in Int
    OBVIOUS
  <2>3. PICK a \in Int, b \in Int : a = q * W /\ b = k * W
    BY <2>2
  <2>4. x = r + a /\ x = b + s
    BY <1>1, <1>2, <2>3
  <2>5. a - b = s - r
    <3>1. s \in Int /\ r \in Int
      BY <1>2
    <3>2. QED
      BY <2>4, <3>1
  <2>6. QED
    BY <2>1, <2>3, <2>5
<1>4. q - k = 0
  <2>1. q - k >= 1 => (q - k) * W >= W
    OBVIOUS
  <2>2. q - k <= -1 => (q - k) * W <= -W
    OBVIOUS
  <2>3. QED
    BY <1>3, <2>1, <2>2
<1>5. QED
  BY <1>2, <1>3, <1>4

(* One digit more: what the remainder b of a * base + d leaves out, times    *)
(* the place of the digit, are whole Ws again.                               *)
Carries(W, base, p, d, a, q, b) ==
  \E r \in Int : (a * (base * p) + q * W) + d * p = b * p + r * W

LEMMA Carry ==
  ASSUME NEW W \in Nat, W > 0, NEW base \in Nat, NEW p \in Nat, NEW d \in Nat, NEW a \in Nat,
         NEW q \in Int, NEW b \in Nat, b = (a * base + d) % W
  PROVE  Carries(W, base, p, d, a, q, b)
<1>1. PICK x \in Nat : x = a * base + d
  OBVIOUS
<1>2. PICK k \in Int : x = k * W + (x % W)
  BY Remainder
<1>3. x = k * W + b
  BY <1>1, <1>2
<1>4. x * p = (a * base) * p + d * p
  BY <1>1
<1>5. (a * base) * p = a * (base * p)
  OBVIOUS
<1>6. x * p = (k * W) * p + b * p
  BY <1>3
<1>7. (k * W) * p + q * W = (k * p + q) * W
  OBVIOUS
<1>8. PICK r \in Int : r = k * p + q
  OBVIOUS
<1>9. PICK t1 \in Int, t2 \in Int, t3 \in Int, t4 \in Int, t5 \in Int :
        /\ t1 = a * (base * p) /\ t2 = q * W /\ t3 = d * p /\ t4 = b * p /\ t5 = (k * W) * p
  OBVIOUS
<1>10. t1 + t3 = t5 + t4
  BY <1>4, <1>5, <1>6, <1>9
<1>11. t5 + t2 = r * W
  BY <1>7, <1>8, <1>9
<1>12. (t1 + t2) + t3 = t4 + r * W
  BY <1>10, <1>11
<1>13. QED
  BY <1>8, <1>9, <1>12 DEF Carries
=============================================================================
