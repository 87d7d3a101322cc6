---------------------------- MODULE MotionProofs ----------------------------
(***************************************************************************)
(* Theorems about the way from planned blocks to steps: whatever replans,  *)
(* holds, resumes and flushes come between, and however the interrupt      *)
(* falls between the steps of the main program, the steps of the lines are *)
(* taken one by one and in order. For any sizes of both rings and any      *)
(* lines; nothing is assumed of the host or of the time it takes.          *)
(*                                                                         *)
(* The argument: the blocks of the plan are the last lines (Lined), the    *)
(* segments go on from line to line up to the one being prepared, each     *)
(* referring to a slot that is as far back as its line (Ringed), and what  *)
(* of the line in front is not left has been traced (Stepped).             *)
(***************************************************************************)
EXTENDS Motion, Integers, TLAPS, WellFoundedInduction

-------------------------------------------------------------------------------
(* Induction over a set of numbers, and what it says of functions that are *)
(* defined by recursion and of sums.                                       *)
LEMMA Induction ==
  ASSUME NEW S, 0 \in S, \A n \in Nat : n \in S => n + 1 \in S
  PROVE  \A n \in Nat : n \in S
<1> DEFINE T == Nat \ S
<1> SUFFICES ASSUME T # {} PROVE FALSE OBVIOUS
<1>1. IsWellFoundedOn(OpToRel(<, Nat), Nat) BY NatLessThanWellFounded
<1>2. T \in SUBSET Nat OBVIOUS
<1> HIDE DEF T
<1>3. PICK x \in T : \A y \in T : ~(<<y, x>> \in OpToRel(<, Nat)) BY <1>1, <1>2, WFMin
<1>4. \A y \in T : ~(y < x) BY <1>2, <1>3 DEF OpToRel
<1>5. x \in Nat /\ x \notin S /\ x # 0 BY <1>3 DEF T
<1>6. x - 1 \in Nat /\ x - 1 < x /\ x - 1 \notin T BY <1>4, <1>5
<1>7. x - 1 \in S BY <1>6 DEF T
<1>8. (x - 1) + 1 \in S BY <1>6, <1>7
<1> QED BY <1>5, <1>8

(* A set of numbers with a bound has a largest one.                        *)
LEMMA LargestOf ==
  ASSUME NEW n \in Nat, NEW T \in SUBSET (0..n), T # {}
  PROVE  \E m \in T : \A k \in T : k <= m
<1> DEFINE Q == {m \in Nat : (\E k \in T : k > n - m) => \E k \in T : \A l \in T : l <= k}
<1>1. 0 \in Q
  <2>1. ~\E k \in T : k > n - 0 OBVIOUS
  <2> QED BY <2>1
<1>2. ASSUME NEW m \in Nat, m \in Q PROVE m + 1 \in Q
  <2> SUFFICES ASSUME NEW k \in T, k > n - (m + 1) PROVE \E j \in T : \A l \in T : l <= j
    OBVIOUS
  <2>1. CASE \E j \in T : j > n - m BY <1>2, <2>1
  <2>2. CASE \A j \in T : ~(j > n - m)
    <3>1. \A l \in T : l <= k BY <2>2
    <3> QED BY <3>1
  <2> QED BY <2>1, <2>2
<1> HIDE DEF Q
<1>3. \A m \in Nat : m \in Q BY <1>1, <1>2, Induction
<1>4. n + 1 \in Q BY <1>3
<1>5. \E k \in T : k > n - (n + 1)
  <2>1. PICK k \in T : TRUE OBVIOUS
  <2>2. k > n - (n + 1) BY <2>1
  <2> QED BY <2>2
<1> QED BY <1>4, <1>5 DEF Q

(* A function given by its first value and by each from the one before.    *)
Unfolds(g, n, base, step) == g[0] = base /\ \A k \in 1..n : g[k] = step[k][g[k - 1]]

(* Such a function exists, and stays within its type.                      *)
LEMMA Recursion ==
  ASSUME NEW n \in Nat, NEW V, NEW base \in V, NEW step \in [1..n -> [V -> V]]
  PROVE  \E g \in [0..n -> V] : Unfolds(g, n, base, step)
<1> DEFINE Fits(g, m) == Unfolds(g, m, base, step)
           S == {m \in Nat : m <= n => \E g \in [0..m -> V] : Fits(g, m)}
<1>1. 0 \in S
  <2>1. [k \in 0..0 |-> base] \in [0..0 -> V] /\ Fits([k \in 0..0 |-> base], 0) BY DEF Unfolds
  <2> HIDE DEF Fits
  <2> QED BY <2>1
<1>2. ASSUME NEW m \in Nat, m \in S PROVE m + 1 \in S
  <2> SUFFICES ASSUME m + 1 <= n PROVE \E g \in [0..(m + 1) -> V] : Fits(g, m + 1)
    OBVIOUS
  <2>1. PICK g \in [0..m -> V] : Fits(g, m)
    <3> HIDE DEF Fits
    <3> QED BY <1>2
  <2>2. m + 1 \in 1..n /\ m \in 0..m OBVIOUS
  <2>3. step[m + 1] \in [V -> V] /\ g[m] \in V BY <2>2
  <2>4. step[m + 1][g[m]] \in V BY <2>3
  <2> DEFINE h == [k \in 0..(m + 1) |-> IF k = m + 1 THEN step[m + 1][g[m]] ELSE g[k]]
  <2>5. h \in [0..(m + 1) -> V] BY <2>4
  <2>6. h[0] = base BY <2>1 DEF Unfolds
  <2>7. ASSUME NEW k \in 1..(m + 1) PROVE h[k] = step[k][h[k - 1]]
    <3>1. k \in 0..(m + 1) /\ k - 1 \in 0..(m + 1) /\ k - 1 # m + 1 OBVIOUS
    <3>2. h[k - 1] = g[k - 1] BY <3>1
    <3>3. CASE k = m + 1
      <4>1. h[k] = step[m + 1][g[m]] /\ k - 1 = m BY <3>3
      <4> HIDE DEF h
      <4> QED BY <3>2, <3>3, <4>1
    <3>4. CASE k # m + 1
      <4>1. k \in 1..m BY <3>4
      <4>2. h[k] = g[k] BY <3>1, <3>4
      <4> HIDE DEF h
      <4> QED BY <2>1, <3>2, <4>1, <4>2 DEF Unfolds
    <3> QED BY <3>3, <3>4
  <2> HIDE DEF h
  <2> QED BY <2>5, <2>6, <2>7 DEF Unfolds
<1> HIDE DEF S
<1>3. \A m \in Nat : m \in S BY <1>1, <1>2, Induction
<1>4. n \in S BY <1>3
<1> QED BY <1>4 DEF S

(* The sums of the first k values, for every k.                            *)
LEMMA Sums ==
  ASSUME NEW n \in Nat, NEW f \in [0..(n - 1) -> Int]
  PROVE  \E s \in [0..n -> Int] : /\ Total(f, n) = s[n] /\ s[0] = 0
                                  /\ \A k \in 1..n : s[k] = s[k - 1] + f[k - 1]
<1> DEFINE R(s) == [k \in 0..n |-> IF k = 0 THEN 0 ELSE s[k - 1] + f[k - 1]]
           s == CHOOSE s : s = R(s)
           step == [k \in 1..n |-> [v \in Int |-> v + f[k - 1]]]
<1>1. step \in [1..n -> [Int -> Int]]
  <2>1. \A k \in 1..n : f[k - 1] \in Int OBVIOUS
  <2> QED BY <2>1
<1>2. PICK g \in [0..n -> Int] : Unfolds(g, n, 0, step)
  <2> DEFINE V == Int
             zero == 0
  <2>1. zero \in V /\ step \in [1..n -> [V -> V]] BY <1>1
  <2> HIDE DEF V, zero, step
  <2>2. \E g \in [0..n -> V] : Unfolds(g, n, zero, step) BY <2>1, Recursion, Zenon
  <2> QED BY <2>2 DEF V, zero
<1>3. \A k \in 1..n : g[k - 1] \in Int /\ g[k] = g[k - 1] + f[k - 1]
  <2>1. \A k \in 1..n : k - 1 \in 0..n OBVIOUS
  <2> QED BY <1>2, <2>1 DEF Unfolds
<1> HIDE DEF step
<1>4. g = R(g) BY <1>2, <1>3 DEF Unfolds
<1>5. s = R(s)
  <2> HIDE DEF R
  <2> QED BY <1>4
<1>6. Total(f, n) = s[n] BY DEF Total
<1>7. s = [k \in 0..n |-> IF k = 0 THEN 0 ELSE s[k - 1] + f[k - 1]] BY <1>5
<1> HIDE DEF s, R
<1>8. \A k \in 0..n : s[k] = IF k = 0 THEN 0 ELSE s[k - 1] + f[k - 1] BY <1>7
<1>9. s[0] = 0 /\ \A k \in 1..n : s[k] = s[k - 1] + f[k - 1]
  <2>1. 0 \in 0..n /\ \A k \in 1..n : k \in 0..n /\ k # 0 OBVIOUS
  <2> QED BY <1>8, <2>1
<1>10. \A k \in Nat : k \in {k2 \in Nat : k2 <= n => s[k2] \in Int}
  <2> DEFINE S == {k \in Nat : k <= n => s[k] \in Int}
  <2>1. 0 \in S BY <1>9
  <2>2. ASSUME NEW m \in Nat, m \in S PROVE m + 1 \in S
    <3> SUFFICES ASSUME m + 1 <= n PROVE s[m + 1] \in Int OBVIOUS
    <3>1. m + 1 \in 1..n /\ (m + 1) - 1 = m /\ m \in 0..(n - 1) /\ s[m] \in Int BY <2>2
    <3>2. s[m + 1] = s[m] + f[m] BY <1>9, <3>1
    <3> QED BY <3>1, <3>2
  <2> HIDE DEF S
  <2>3. \A k \in Nat : k \in S BY <2>1, <2>2, Induction
  <2> QED BY <2>3 DEF S
<1>11. s \in [0..n -> Int]
  <2>1. \A k \in 0..n : s[k] \in Int BY <1>10
  <2>2. DOMAIN s = 0..n /\ s = [k \in 0..n |-> s[k]] BY <1>7
  <2> QED BY <2>1, <2>2
<1> QED BY <1>6, <1>9, <1>11

(* Any such sums are the sums.                                             *)
LEMMA TotalIs ==
  ASSUME NEW n \in Nat, NEW f \in [0..(n - 1) -> Int], NEW t \in [0..n -> Int],
         t[0] = 0, \A k \in 1..n : t[k] = t[k - 1] + f[k - 1]
  PROVE  Total(f, n) = t[n]
<1>1. PICK s \in [0..n -> Int] : /\ Total(f, n) = s[n] /\ s[0] = 0
                                 /\ \A k \in 1..n : s[k] = s[k - 1] + f[k - 1]
  BY Sums
<1> DEFINE S == {k \in Nat : k <= n => s[k] = t[k]}
<1>2. 0 \in S BY <1>1
<1>3. ASSUME NEW m \in Nat, m \in S PROVE m + 1 \in S
  <2> SUFFICES ASSUME m + 1 <= n PROVE s[m + 1] = t[m + 1] OBVIOUS
  <2>1. m + 1 \in 1..n /\ (m + 1) - 1 = m /\ s[m] = t[m] BY <1>3
  <2>2. s[m + 1] = s[m] + f[m] /\ t[m + 1] = t[m] + f[m] BY <1>1, <2>1
  <2> QED BY <2>1, <2>2
<1> HIDE DEF S
<1>4. n \in S BY <1>2, <1>3, Induction
<1> QED BY <1>1, <1>4 DEF S

(* A sum of integers is one, and an empty one is 0.                        *)
LEMMA TotalType ==
  ASSUME NEW n \in Nat, NEW f \in [0..(n - 1) -> Int]
  PROVE  Total(f, n) \in Int /\ (n = 0 => Total(f, n) = 0)
<1>1. PICK s \in [0..n -> Int] : Total(f, n) = s[n] /\ s[0] = 0 BY Sums
<1> QED BY <1>1

(* A sum and its last term.                                                *)
LEMMA TotalNext ==
  ASSUME NEW n \in Nat, NEW f \in [0..n -> Int], NEW g \in [0..(n - 1) -> Int],
         \A k \in 0..(n - 1) : g[k] = f[k]
  PROVE  Total(f, n + 1) = Total(g, n) + f[n]
<1>1. PICK s \in [0..n -> Int] : /\ Total(g, n) = s[n] /\ s[0] = 0
                                 /\ \A k \in 1..n : s[k] = s[k - 1] + g[k - 1]
  BY Sums
<1> DEFINE t == [k \in 0..(n + 1) |-> IF k = n + 1 THEN s[n] + f[n] ELSE s[k]]
<1>2. t \in [0..(n + 1) -> Int] /\ t[0] = 0 /\ t[n + 1] = s[n] + f[n] BY <1>1
<1>3. ASSUME NEW k \in 1..(n + 1) PROVE t[k] = t[k - 1] + f[k - 1]
  <2>1. t[k - 1] = s[k - 1] OBVIOUS
  <2>2. CASE k = n + 1 BY <1>1, <2>1, <2>2
  <2>3. CASE k # n + 1
    <3>1. k \in 1..n /\ k - 1 \in 0..(n - 1) /\ t[k] = s[k] BY <2>3
    <3> HIDE DEF t
    <3> QED BY <1>1, <2>1, <3>1
  <2> QED BY <2>2, <2>3
<1> HIDE DEF t
<1>4. n + 1 \in Nat /\ (n + 1) - 1 = n OBVIOUS
<1>5. Total(f, n + 1) = t[n + 1] BY <1>2, <1>3, <1>4, TotalIs
<1> QED BY <1>1, <1>2, <1>5

(* A sum and its first term.                                               *)
LEMMA TotalFirst ==
  ASSUME NEW n \in Nat, NEW f \in [0..n -> Int], NEW g \in [0..(n - 1) -> Int],
         \A k \in 0..(n - 1) : g[k] = f[k + 1]
  PROVE  Total(f, n + 1) = f[0] + Total(g, n)
<1>1. PICK s \in [0..n -> Int] : /\ Total(g, n) = s[n] /\ s[0] = 0
                                 /\ \A k \in 1..n : s[k] = s[k - 1] + g[k - 1]
  BY Sums
<1> DEFINE t == [k \in 0..(n + 1) |-> IF k = 0 THEN 0 ELSE f[0] + s[k - 1]]
<1>2. t \in [0..(n + 1) -> Int] /\ t[0] = 0 /\ t[n + 1] = f[0] + s[n]
  <2>1. \A k \in 0..(n + 1) : k # 0 => k - 1 \in 0..n OBVIOUS
  <2> QED BY <1>1, <2>1
<1>3. ASSUME NEW k \in 1..(n + 1) PROVE t[k] = t[k - 1] + f[k - 1]
  <2>1. t[k] = f[0] + s[k - 1] OBVIOUS
  <2>2. CASE k = 1
    <3>1. t[0] = 0 /\ k - 1 = 0 BY <2>2
    <3> HIDE DEF t
    <3> QED BY <1>1, <2>1, <2>2, <3>1
  <2>3. CASE k # 1
    <3>1. k - 1 \in 1..n /\ k - 2 \in 0..(n - 1) /\ t[k - 1] = f[0] + s[k - 2] /\ k - 1 - 1 = k - 2
      BY <2>3
    <3>2. s[k - 1] = s[k - 2] + g[k - 2] /\ g[k - 2] = f[k - 1]
      <4>1. (k - 2) + 1 = k - 1 OBVIOUS
      <4> QED BY <1>1, <3>1, <4>1
    <3>3. s[k - 2] \in Int /\ f[0] \in Int /\ f[k - 1] \in Int
      BY <3>1
    <3> HIDE DEF t
    <3> QED BY <2>1, <3>1, <3>2, <3>3
  <2> QED BY <2>2, <2>3
<1> HIDE DEF t
<1>4. n + 1 \in Nat /\ (n + 1) - 1 = n OBVIOUS
<1>5. Total(f, n + 1) = t[n + 1]
  <2> DEFINE m == n + 1
  <2>1. /\ m \in Nat /\ t \in [0..m -> Int] /\ f \in [0..(m - 1) -> Int] /\ t[0] = 0
        /\ \A k \in 1..m : t[k] = t[k - 1] + f[k - 1]
    BY <1>2, <1>3, <1>4
  <2> HIDE DEF m
  <2>2. Total(f, m) = t[m] BY <2>1, TotalIs
  <2> QED BY <2>2 DEF m
<1> QED BY <1>1, <1>2, <1>5

(* A sum of zeros.                                                         *)
LEMMA TotalNone ==
  ASSUME NEW n \in Nat, NEW f \in [0..(n - 1) -> Int], \A k \in 0..(n - 1) : f[k] = 0
  PROVE  Total(f, n) = 0
<1> DEFINE t == [k \in 0..n |-> 0]
<1>1. t \in [0..n -> Int] /\ t[0] = 0 /\ t[n] = 0 OBVIOUS
<1>2. \A k \in 1..n : t[k] = t[k - 1] + f[k - 1] OBVIOUS
<1> HIDE DEF t
<1> QED BY <1>1, <1>2, TotalIs

(* A sum of natural numbers is one.                                        *)
LEMMA TotalNat ==
  ASSUME NEW n \in Nat, NEW f \in [0..(n - 1) -> Nat]
  PROVE  Total(f, n) \in Nat
<1>0. f \in [0..(n - 1) -> Int] OBVIOUS
<1>1. PICK s \in [0..n -> Int] : /\ Total(f, n) = s[n] /\ s[0] = 0
                                 /\ \A k \in 1..n : s[k] = s[k - 1] + f[k - 1]
  BY <1>0, Sums
<1> DEFINE S == {k \in Nat : k <= n => s[k] \in Nat}
<1>2. 0 \in S BY <1>1
<1>3. ASSUME NEW m \in Nat, m \in S PROVE m + 1 \in S
  <2> SUFFICES ASSUME m + 1 <= n PROVE s[m + 1] \in Nat OBVIOUS
  <2>1. m + 1 \in 1..n /\ (m + 1) - 1 = m /\ s[m] \in Nat /\ m \in 0..(n - 1) BY <1>3
  <2>2. s[m + 1] = s[m] + f[m] /\ f[m] \in Nat BY <1>1, <2>1
  <2> QED BY <2>1, <2>2
<1> HIDE DEF S
<1>4. n \in S BY <1>2, <1>3, Induction
<1> QED BY <1>1, <1>4 DEF S

-------------------------------------------------------------------------------
(* Rings                                                                   *)
LEMMA Modulo ==
  ASSUME NEW n \in Nat \ {0}, NEW x \in (-n)..(2 * n - 1)
  PROVE  x % n = IF x < 0 THEN x + n ELSE IF x < n THEN x ELSE x - n
<1>1. \A y \in 0..(n - 1) : y % n = y /\ (y + n) % n = y /\ (y - n) % n = y BY Z3
<1>2. CASE x < 0
  <2>1. x + n \in 0..(n - 1) /\ (x + n) - n = x BY <1>2
  <2> QED BY <1>1, <1>2, <2>1
<1>3. CASE x \in 0..(n - 1) BY <1>1, <1>3
<1>4. CASE x >= n
  <2>1. x - n \in 0..(n - 1) /\ (x - n) + n = x BY <1>4
  <2> QED BY <1>1, <1>4, <2>1
<1> QED BY <1>2, <1>3, <1>4

Following(i, n) == IF i + 1 = n THEN 0 ELSE i + 1

RingLaws(n, head, tail, used) ==
  /\ used \in 0..(n - 1) /\ (used = 0 <=> head = tail)
  /\ Following(head, n) \in 0..(n - 1) /\ Following(tail, n) \in 0..(n - 1)
  /\ used = n - 1 <=> Following(head, n) = tail
  /\ (tail + 0) % n = tail /\ (tail + used) % n = head
  /\ Following(head, n) # tail => (Following(head, n) - tail) % n = used + 1
  /\ head # tail => (head - Following(tail, n)) % n = used - 1
  /\ \A k \in 0..(n - 1) : (tail + k) % n \in 0..(n - 1)
  /\ \A k \in 0..(n - 2) : (Following(tail, n) + k) % n = (tail + (k + 1)) % n
  /\ \A j, k \in 0..(n - 1) : (tail + j) % n = (tail + k) % n => j = k

(* Every ring keeps these laws.                                            *)
LEMMA Rings ==
  ASSUME NEW n \in Nat \ {0}, NEW head \in 0..(n - 1), NEW tail \in 0..(n - 1)
  PROVE  RingLaws(n, head, tail, (head - tail) % n)
<1> DEFINE used == (head - tail) % n
<1> DEFINE Place(t, k) == IF t + k < n THEN t + k ELSE t + k - n
           Gap(h, t) == IF h < t THEN h - t + n ELSE h - t
<1>1. ASSUME NEW h \in 0..(n - 1), NEW t \in 0..(n - 1) PROVE (h - t) % n = Gap(h, t)
  <2>1. h - t \in (-n)..(2 * n - 1) OBVIOUS
  <2>2. (h - t) % n = IF h - t < 0 THEN h - t + n ELSE IF h - t < n THEN h - t ELSE h - t - n
    BY <2>1, Modulo
  <2> QED BY <2>2
<1>2. ASSUME NEW k \in 0..(n - 1), NEW t \in 0..(n - 1) PROVE (t + k) % n = Place(t, k)
  <2> DEFINE x == t + k
  <2>1. x \in (-n)..(2 * n - 1) OBVIOUS
  <2>2. x % n = IF x < 0 THEN x + n ELSE IF x < n THEN x ELSE x - n
    <3> HIDE DEF x
    <3> QED BY <2>1, Modulo
  <2> QED BY <2>2
<1>3. Following(head, n) \in 0..(n - 1) /\ Following(tail, n) \in 0..(n - 1) BY DEF Following
<1>4. used = Gap(head, tail) BY <1>1
<1>5. used \in 0..(n - 1) /\ (used = 0 <=> head = tail) BY <1>4
<1>6. used = n - 1 <=> Following(head, n) = tail BY <1>4 DEF Following
<1>7. (tail + 0) % n = tail /\ (tail + used) % n = head
  <2>1. 0 \in 0..(n - 1) OBVIOUS
  <2>2. (tail + 0) % n = Place(tail, 0) /\ (tail + used) % n = Place(tail, used) BY <1>2, <1>5, <2>1
  <2> QED BY <1>4, <2>2
<1>8. ASSUME Following(head, n) # tail PROVE (Following(head, n) - tail) % n = used + 1
  <2>1. (Following(head, n) - tail) % n = Gap(Following(head, n), tail) BY <1>1, <1>3
  <2> QED BY <1>4, <1>8, <2>1 DEF Following
<1>9. ASSUME head # tail PROVE (head - Following(tail, n)) % n = used - 1
  <2>1. (head - Following(tail, n)) % n = Gap(head, Following(tail, n)) BY <1>1, <1>3
  <2> QED BY <1>4, <1>9, <2>1 DEF Following
<1>10. \A k \in 0..(n - 1) : (tail + k) % n \in 0..(n - 1)
  <2> SUFFICES ASSUME NEW k \in 0..(n - 1) PROVE (tail + k) % n \in 0..(n - 1) OBVIOUS
  <2>1. (tail + k) % n = Place(tail, k) BY <1>2
  <2> QED BY <2>1
<1>11. ASSUME NEW k \in 0..(n - 2) PROVE (Following(tail, n) + k) % n = (tail + (k + 1)) % n
  <2>1. k \in 0..(n - 1) /\ k + 1 \in 0..(n - 1) OBVIOUS
  <2>2. (Following(tail, n) + k) % n = Place(Following(tail, n), k) BY <1>2, <1>3, <2>1
  <2>3. (tail + (k + 1)) % n = Place(tail, k + 1) BY <1>2, <2>1
  <2> QED BY <2>2, <2>3 DEF Following
<1>12. ASSUME NEW j \in 0..(n - 1), NEW k \in 0..(n - 1), (tail + j) % n = (tail + k) % n
       PROVE  j = k
  <2>1. (tail + j) % n = Place(tail, j) /\ (tail + k) % n = Place(tail, k) BY <1>2
  <2> QED BY <1>12, <2>1
<1> HIDE DEF Place, Gap
<1> HIDE DEF used
<1>13. RingLaws(n, head, tail, used)
  BY <1>3, <1>5, <1>6, <1>7, <1>8, <1>9, <1>10, <1>11, <1>12 DEF RingLaws
<1> QED BY <1>13 DEF used

(* Slots counted back from an index.                                       *)
BackLaws(n, i) ==
  /\ (i - 0) % n = i
  /\ \A d \in 0..(n - 1) : (i - d) % n \in 0..(n - 1)
  /\ \A d, e \in 0..(n - 1) : (i - d) % n = (i - e) % n => d = e
  /\ \A d \in 0..(n - 1) : (Following(i, n) - (d + 1)) % n = (i - d) % n

(* Counting back keeps these laws.                                         *)
LEMMA Backwards ==
  ASSUME NEW n \in Nat \ {0}, NEW i \in 0..(n - 1)
  PROVE  BackLaws(n, i)
<1> DEFINE Gap(h, d) == IF h < d THEN h - d + n ELSE h - d
<1>1. ASSUME NEW h \in 0..(n - 1), NEW d \in 0..n PROVE (h - d) % n = Gap(h, d)
  <2>1. h - d \in (-n)..(2 * n - 1) OBVIOUS
  <2>2. (h - d) % n = IF h - d < 0 THEN h - d + n ELSE IF h - d < n THEN h - d ELSE h - d - n
    BY <2>1, Modulo
  <2> QED BY <2>2
<1>2. (i - 0) % n = i
  <2>1. 0 \in 0..n OBVIOUS
  <2>2. (i - 0) % n = Gap(i, 0) BY <1>1, <2>1
  <2> QED BY <2>2
<1>3. \A d \in 0..(n - 1) : d \in 0..n /\ (i - d) % n = Gap(i, d)
  <2>1. \A d \in 0..(n - 1) : d \in 0..n OBVIOUS
  <2> QED BY <1>1, <2>1
<1>4. \A d \in 0..(n - 1) : (i - d) % n \in 0..(n - 1) BY <1>3
<1>5. ASSUME NEW d \in 0..(n - 1), NEW e \in 0..(n - 1), (i - d) % n = (i - e) % n PROVE d = e
  <2>1. (i - d) % n = Gap(i, d) /\ (i - e) % n = Gap(i, e) BY <1>3
  <2> QED BY <1>5, <2>1
<1>6. ASSUME NEW d \in 0..(n - 1) PROVE (Following(i, n) - (d + 1)) % n = (i - d) % n
  <2>1. Following(i, n) \in 0..(n - 1) /\ d + 1 \in 0..n BY DEF Following
  <2>2. (Following(i, n) - (d + 1)) % n = Gap(Following(i, n), d + 1) BY <1>1, <2>1
  <2>3. (i - d) % n = Gap(i, d) BY <1>3
  <2> QED BY <2>2, <2>3 DEF Following
<1> HIDE DEF Gap
<1> QED BY <1>2, <1>4, <1>5, <1>6 DEF BackLaws

-------------------------------------------------------------------------------
(* The planner: replanning changes speeds, not work                        *)

Plans == [blocks : [Slots -> Block], tail : Slots, head : Slots, planned : Slots, nominal : Nat]

(* Two plans of the same work: they differ in speeds only.                 *)
SameWork(p, q) ==
  /\ q.tail = p.tail /\ q.head = p.head
  /\ \A i \in Slots : q.blocks[i].id = p.blocks[i].id /\ q.blocks[i].mm = p.blocks[i].mm

(* The parts of a plan and their types.                                    *)
LEMMA PlanParts ==
  ASSUME NEW p \in Plans
  PROVE  /\ p.blocks \in [Slots -> Block] /\ p.nominal \in Nat
         /\ p.tail \in Slots /\ p.head \in Slots /\ p.planned \in Slots
         /\ \A i \in Slots : /\ p.blocks[i].id \in 0..MaxLines /\ p.blocks[i].mm \in Nat
                             /\ p.blocks[i].rate \in Nat /\ p.blocks[i].junction \in Nat
                             /\ p.blocks[i].max \in Nat /\ p.blocks[i].entry \in Nat
<1>1. /\ p.blocks \in [Slots -> Block] /\ p.nominal \in Nat
      /\ p.tail \in Slots /\ p.head \in Slots /\ p.planned \in Slots
  BY DEF Plans
<1>2. \A i \in Slots : p.blocks[i] \in Block BY <1>1
<1> QED BY <1>1, <1>2 DEF Block

(* The slots, numbered from the planned block.                             *)
LEMMA Positions ==
  ASSUME NEW p \in Plans
  PROVE  /\ LastPosition(p) \in 0..(BlockBufferSize - 1)
         /\ \A i \in Slots : Position(p, i) \in 0..(BlockBufferSize - 1)
         /\ \A k \in 0..(BlockBufferSize - 1) : At(p, k) \in Slots
         /\ Position(p, p.planned) = 0
         /\ \A i \in Slots : At(p, Position(p, i)) = i
         /\ \A k \in 0..(BlockBufferSize - 1) : Position(p, At(p, k)) = k
<1> DEFINE N == BlockBufferSize
<1>0. N \in Nat \ {0} /\ Slots = 0..(N - 1) /\ p.planned \in 0..(N - 1) /\ p.head \in 0..(N - 1)
  BY PlannerAssumption, PlanParts DEF Slots
<1> HIDE DEF N
<1>1. \A x \in (-N)..(2 * N - 1) : x % N = IF x < 0 THEN x + N ELSE IF x < N THEN x ELSE x - N
  BY <1>0, Modulo
<1>2. p.head - 1 - p.planned \in (-N)..(2 * N - 1) BY <1>0
<1>3. LastPosition(p) \in 0..(N - 1)
  <2> DEFINE x == p.head - 1 - p.planned
  <2>1. x % N = IF x < 0 THEN x + N ELSE IF x < N THEN x ELSE x - N BY <1>1, <1>2
  <2>2. x % N \in 0..(N - 1) BY <1>0, <2>1
  <2> QED BY <2>2 DEF LastPosition, N
<1>4. ASSUME NEW i \in Slots
      PROVE  Position(p, i) = IF i < p.planned THEN i - p.planned + N ELSE i - p.planned
  <2> DEFINE x == i - p.planned
  <2>1. x \in (-N)..(2 * N - 1) BY <1>0
  <2>2. x % N = IF x < 0 THEN x + N ELSE IF x < N THEN x ELSE x - N BY <1>1, <2>1
  <2>3. x % N = IF i < p.planned THEN x + N ELSE x BY <1>0, <2>2
  <2> QED BY <2>3 DEF Position, N
<1>5. ASSUME NEW k \in 0..(N - 1)
      PROVE  At(p, k) = IF p.planned + k < N THEN p.planned + k ELSE p.planned + k - N
  <2> DEFINE x == p.planned + k
  <2>1. x \in (-N)..(2 * N - 1) BY <1>0
  <2>2. x % N = IF x < 0 THEN x + N ELSE IF x < N THEN x ELSE x - N BY <1>1, <2>1
  <2>3. x % N = IF p.planned + k < N THEN p.planned + k ELSE p.planned + k - N BY <1>0, <2>2
  <2>4. At(p, k) = x % N BY DEF At, N
  <2> HIDE DEF x
  <2> QED BY <2>3, <2>4
<1>6. \A i \in Slots : Position(p, i) \in 0..(N - 1) BY <1>0, <1>4
<1>7. \A k \in 0..(N - 1) : At(p, k) \in Slots BY <1>0, <1>5
<1>8. \A i \in Slots : At(p, Position(p, i)) = i
  <2> SUFFICES ASSUME NEW i \in Slots PROVE At(p, Position(p, i)) = i OBVIOUS
  <2> DEFINE k == Position(p, i)
  <2>1. k \in 0..(N - 1) BY <1>6
  <2>2. At(p, k) = IF p.planned + k < N THEN p.planned + k ELSE p.planned + k - N BY <1>5, <2>1
  <2>3. k = IF i < p.planned THEN i - p.planned + N ELSE i - p.planned BY <1>4
  <2> HIDE DEF k
  <2>4. At(p, k) = i BY <1>0, <2>2, <2>3
  <2> QED BY <2>4 DEF k
<1>9. \A k \in 0..(N - 1) : Position(p, At(p, k)) = k
  <2> SUFFICES ASSUME NEW k \in 0..(N - 1) PROVE Position(p, At(p, k)) = k OBVIOUS
  <2> DEFINE i == At(p, k)
  <2>1. i \in Slots BY <1>7
  <2>2. Position(p, i) = IF i < p.planned THEN i - p.planned + N ELSE i - p.planned BY <1>4, <2>1
  <2>3. i = IF p.planned + k < N THEN p.planned + k ELSE p.planned + k - N BY <1>5
  <2> HIDE DEF i
  <2>4. Position(p, i) = k BY <1>0, <2>2, <2>3
  <2> QED BY <2>4 DEF i
<1>10. Position(p, p.planned) = 0 BY <1>0, <1>4
<1> QED BY <1>3, <1>6, <1>7, <1>8, <1>9, <1>10 DEF N

(* The passes of planner_recalculate are what their recursion says.        *)
LEMMA ReverseSpeedsAre ==
  ASSUME NEW p \in Plans
  PROVE  /\ ReverseSpeeds(p) \in [1..LastPosition(p) -> Nat]
         /\ \A k \in 1..LastPosition(p) :
              ReverseSpeeds(p)[k] = IF k = LastPosition(p)
                                    THEN Least(p.blocks[At(p, k)].max, p.blocks[At(p, k)].mm)
                                    ELSE Backward(p.blocks[At(p, k)], ReverseSpeeds(p)[k + 1])
<1> DEFINE L == LastPosition(p)
           b(k) == p.blocks[At(p, k)]
           last == Least(b(L).max, b(L).mm)
           R(s) == [k \in 1..L |-> IF k = L THEN last ELSE Backward(b(k), s[k + 1])]
           s == CHOOSE s : s = R(s)
<1>1. L \in 0..(BlockBufferSize - 1) /\ L \in Nat BY Positions, PlannerAssumption
<1>2. ASSUME NEW k \in 1..L, NEW v \in Nat
      PROVE  Least(b(k).max, b(k).mm) \in Nat /\ Backward(b(k), v) \in Nat
  <2>1. k \in 0..(BlockBufferSize - 1) BY <1>1, PlannerAssumption
  <2>2. At(p, k) \in Slots BY <2>1, Positions
  <2>3. b(k).max \in Nat /\ b(k).mm \in Nat /\ b(k).entry \in Nat BY <2>2, PlanParts
  <2> QED BY <2>3 DEF Least, Backward
<1> HIDE DEF b
<1>3. ReverseSpeeds(p) = s
  <2>1. ReverseSpeeds(p) = CHOOSE t : t = [k \in 1..L |-> IF k = L THEN Least(b(k).max, b(k).mm)
                                                         ELSE Backward(b(k), t[k + 1])]
    BY DEF ReverseSpeeds, b
  <2>2. \A t : [k \in 1..L |-> IF k = L THEN Least(b(k).max, b(k).mm) ELSE Backward(b(k), t[k + 1])]
                 = R(t)
    OBVIOUS
  <2> QED BY <2>1, <2>2
<1>4. \E g : g = R(g)
  <2>1. CASE L = 0
    <3>1. [k \in 1..L |-> 0] = R([k \in 1..L |-> 0]) BY <2>1
    <3> HIDE DEF R
    <3> QED BY <3>1
  <2>2. CASE L > 0
    <3> DEFINE step == [j \in 1..(L - 1) |-> [v \in Nat |-> Backward(b(L - j), v)]]
    <3>1. \A j \in 1..(L - 1) : L - j \in 1..L BY <1>1
    <3>2. step \in [1..(L - 1) -> [Nat -> Nat]] BY <1>2, <3>1
    <3>3. last \in Nat /\ L - 1 \in Nat
      <4>1. L \in 1..L /\ 0 \in Nat BY <1>1, <2>2
      <4> QED BY <1>1, <1>2, <2>2, <4>1
    <3>4. PICK h \in [0..(L - 1) -> Nat] : Unfolds(h, L - 1, last, step)
      <4> DEFINE V == Nat
                 m == L - 1
      <4>1. m \in Nat /\ last \in V /\ step \in [1..m -> [V -> V]] BY <3>2, <3>3
      <4> HIDE DEF V, m, last, step
      <4>2. \E h \in [0..m -> V] : Unfolds(h, m, last, step) BY <4>1, Recursion, Zenon
      <4> QED BY <4>2 DEF V, m
    <3> DEFINE g == [k \in 1..L |-> h[L - k]]
    <3>5. ASSUME NEW k \in 1..L
          PROVE  g[k] = IF k = L THEN last ELSE Backward(b(k), g[k + 1])
      <4> HIDE DEF last
      <4>1. g[k] = h[L - k] OBVIOUS
      <4>2. CASE k = L BY <1>1, <3>4, <4>1, <4>2 DEF Unfolds
      <4>3. CASE k # L
        <5>1. /\ L - k \in 1..(L - 1) /\ L - k - 1 \in 0..(L - 1) /\ k + 1 \in 1..L
              /\ L - (k + 1) = L - k - 1 /\ L - (L - k) = k
          BY <1>1, <4>3
        <5>2. g[k + 1] = h[L - k - 1] BY <5>1
        <5>3. h[L - k] = step[L - k][h[L - k - 1]] BY <3>4, <5>1 DEF Unfolds
        <5>4. h[L - k - 1] \in Nat BY <5>1
        <5>5. step[L - k][h[L - k - 1]] = Backward(b(L - (L - k)), h[L - k - 1]) BY <5>1, <5>4
        <5> HIDE DEF g, step
        <5> QED BY <4>1, <4>3, <5>1, <5>2, <5>3, <5>5
      <4> QED BY <4>2, <4>3
    <3>6. g = R(g)
      <4> HIDE DEF last
      <4>1. R(g) = [k \in 1..L |-> g[k]] BY <3>5
      <4> QED BY <4>1
    <3> HIDE DEF g, R
    <3> QED BY <3>6
  <2> QED BY <1>1, <2>1, <2>2
<1>5. s = R(s)
  <2> HIDE DEF R
  <2> QED BY <1>4
<1>6. s = [k \in 1..L |-> IF k = L THEN last ELSE Backward(b(k), s[k + 1])] BY <1>5
<1> HIDE DEF s, R, last
<1>7. DOMAIN s = 1..L /\ \A k \in 1..L : s[k] = IF k = L THEN last ELSE Backward(b(k), s[k + 1])
  BY <1>6
<1>8. ASSUME NEW k \in 1..L PROVE s[k] \in Nat
  <2> DEFINE S == {j \in Nat : j < L => s[L - j] \in Nat}
  <2>1. 0 \in S
    <3> SUFFICES ASSUME 0 < L PROVE s[L - 0] \in Nat OBVIOUS
    <3>1. L \in 1..L /\ L - 0 = L BY <1>1
    <3>2. last \in Nat
      <4>1. 0 \in Nat OBVIOUS
      <4> QED BY <1>2, <3>1, <4>1 DEF last
    <3> QED BY <1>7, <3>1, <3>2
  <2>2. ASSUME NEW m \in Nat, m \in S PROVE m + 1 \in S
    <3> SUFFICES ASSUME m + 1 < L PROVE s[L - (m + 1)] \in Nat OBVIOUS
    <3>1. L - (m + 1) \in 1..L /\ L - (m + 1) # L /\ L - (m + 1) + 1 = L - m BY <1>1
    <3>2. s[L - m] \in Nat BY <1>1, <2>2
    <3>3. s[L - (m + 1)] = Backward(b(L - (m + 1)), s[L - m]) BY <1>7, <3>1
    <3> QED BY <1>2, <3>1, <3>2, <3>3
  <2> HIDE DEF S
  <2>3. L - k \in Nat /\ L - k < L /\ L - (L - k) = k BY <1>1
  <2>4. L - k \in S BY <2>1, <2>2, <2>3, Induction
  <2> QED BY <2>3, <2>4 DEF S
<1>9. s \in [1..L -> Nat]
  <2>1. s = [k \in 1..L |-> s[k]] BY <1>6, <1>7
  <2> QED BY <1>8, <2>1
<1> QED BY <1>3, <1>7, <1>9 DEF b, last

(* The speeds of the forward pass.                                         *)
LEMMA ForwardSpeedsAre ==
  ASSUME NEW p \in Plans
  PROVE  /\ ForwardSpeeds(p) \in [0..LastPosition(p) -> Nat]
         /\ ForwardSpeeds(p)[0] = p.blocks[At(p, 0)].entry
         /\ \A k \in 1..LastPosition(p) :
              ForwardSpeeds(p)[k] = Forward(p.blocks[At(p, k)], p.blocks[At(p, k - 1)],
                                            ForwardSpeeds(p)[k - 1])
<1> DEFINE L == LastPosition(p)
           b(k) == p.blocks[At(p, k)]
           R(s) == [k \in 0..L |-> IF k = 0 THEN b(k).entry ELSE Forward(b(k), b(k - 1), s[k - 1])]
           s == CHOOSE s : s = R(s)
           step == [k \in 1..L |-> [v \in Nat |-> Forward(b(k), b(k - 1), v)]]
<1>1. L \in 0..(BlockBufferSize - 1) /\ L \in Nat BY Positions, PlannerAssumption
<1>2. ASSUME NEW k \in 0..L PROVE b(k).mm \in Nat /\ b(k).entry \in Nat
  <2>1. k \in 0..(BlockBufferSize - 1) BY <1>1, PlannerAssumption
  <2>2. At(p, k) \in Slots BY <2>1, Positions
  <2> QED BY <2>2, PlanParts
<1> HIDE DEF b
<1>3. ASSUME NEW k \in 1..L, NEW v \in Nat PROVE Forward(b(k), b(k - 1), v) \in Nat
  <2>1. k \in 0..L /\ k - 1 \in 0..L BY <1>1
  <2>2. b(k).entry \in Nat /\ b(k - 1).mm \in Nat BY <1>2, <2>1
  <2> QED BY <2>2 DEF Forward, Least
<1>4. ForwardSpeeds(p) = s BY DEF ForwardSpeeds, b
<1>5. 0 \in 0..L /\ b(0).entry \in Nat
  <2>1. 0 \in 0..L BY <1>1
  <2> QED BY <1>2, <2>1
<1>6. PICK g \in [0..L -> Nat] : Unfolds(g, L, b(0).entry, step)
  <2> DEFINE V == Nat
  <2>1. b(0).entry \in V /\ step \in [1..L -> [V -> V]] BY <1>3, <1>5
  <2> HIDE DEF V, step, L
  <2>2. \E h \in [0..L -> V] : Unfolds(h, L, b(0).entry, step) BY <1>1, <2>1, Recursion, Zenon
  <2> QED BY <2>2 DEF V
<1>7. ASSUME NEW k \in 1..L PROVE g[k] = Forward(b(k), b(k - 1), g[k - 1])
  <2>1. k - 1 \in 0..L BY <1>1
  <2>2. g[k - 1] \in Nat BY <2>1
  <2>3. g[k] = step[k][g[k - 1]] BY <1>6 DEF Unfolds
  <2> QED BY <2>2, <2>3
<1>8. g = R(g)
  <2>1. \A k \in 0..L : g[k] = IF k = 0 THEN b(k).entry ELSE Forward(b(k), b(k - 1), g[k - 1])
    <3>1. g[0] = b(0).entry BY <1>6 DEF Unfolds
    <3>2. \A k \in 0..L : k = 0 \/ k \in 1..L BY <1>1
    <3> QED BY <1>7, <3>1, <3>2
  <2> HIDE DEF step
  <2>2. R(g) = [k \in 0..L |-> g[k]] BY <2>1
  <2> QED BY <2>2
<1>9. s = R(s)
  <2> HIDE DEF R
  <2> QED BY <1>8
<1>10. s = [k \in 0..L |-> IF k = 0 THEN b(k).entry ELSE Forward(b(k), b(k - 1), s[k - 1])]
  BY <1>9
<1> HIDE DEF s, R, step
<1>11. /\ DOMAIN s = 0..L
       /\ \A k \in 0..L : s[k] = IF k = 0 THEN b(k).entry ELSE Forward(b(k), b(k - 1), s[k - 1])
  BY <1>10
<1>12. s[0] = b(0).entry /\ \A k \in 1..L : s[k] = Forward(b(k), b(k - 1), s[k - 1])
  <2>1. \A k \in 1..L : k \in 0..L /\ k # 0 BY <1>1
  <2> QED BY <1>5, <1>11, <2>1
<1>13. ASSUME NEW k \in 0..L PROVE s[k] \in Nat
  <2> DEFINE S == {j \in Nat : j <= L => s[j] \in Nat}
  <2>1. 0 \in S BY <1>5, <1>12
  <2>2. ASSUME NEW m \in Nat, m \in S PROVE m + 1 \in S
    <3> SUFFICES ASSUME m + 1 <= L PROVE s[m + 1] \in Nat OBVIOUS
    <3>1. m + 1 \in 1..L /\ (m + 1) - 1 = m BY <1>1
    <3>2. s[m] \in Nat BY <1>1, <2>2
    <3>3. s[m + 1] = Forward(b(m + 1), b(m + 1 - 1), s[m]) BY <1>12, <3>1
    <3> QED BY <1>3, <3>1, <3>2, <3>3
  <2> HIDE DEF S
  <2>3. k \in Nat /\ k <= L BY <1>1
  <2>4. k \in S BY <2>1, <2>2, <2>3, Induction
  <2> QED BY <2>3, <2>4 DEF S
<1>14. s \in [0..L -> Nat]
  <2>1. s = [k \in 0..L |-> s[k]] BY <1>10, <1>11
  <2> QED BY <1>13, <2>1
<1> QED BY <1>4, <1>12, <1>14 DEF b

(* Setting entry speeds changes nothing else.                              *)
LEMMA EnteredKeeps ==
  ASSUME NEW p \in Plans, NEW speed, \A k \in 1..LastPosition(p) : speed[k] \in Nat
  PROVE  /\ Entered(p, speed) \in Plans /\ SameWork(p, Entered(p, speed))
         /\ Entered(p, speed).planned = p.planned
         /\ \A i \in Slots : Entered(p, speed).blocks[i] =
              IF Position(p, i) \in 1..LastPosition(p)
              THEN [p.blocks[i] EXCEPT !.entry = speed[Position(p, i)]] ELSE p.blocks[i]
<1> DEFINE new(i) == IF Position(p, i) \in 1..LastPosition(p)
                     THEN [p.blocks[i] EXCEPT !.entry = speed[Position(p, i)]] ELSE p.blocks[i]
           q == Entered(p, speed)
<1>1. ASSUME NEW i \in Slots
      PROVE  new(i) \in Block /\ new(i).id = p.blocks[i].id /\ new(i).mm = p.blocks[i].mm
  <2>1. p.blocks[i] \in Block BY PlanParts
  <2>2. CASE Position(p, i) \in 1..LastPosition(p)
    <3>1. speed[Position(p, i)] \in Nat BY <2>2
    <3> QED BY <2>1, <2>2, <3>1 DEF Block
  <2>3. CASE Position(p, i) \notin 1..LastPosition(p) BY <2>1, <2>3
  <2> QED BY <2>2, <2>3
<1>2. q = [p EXCEPT !.blocks = [i \in Slots |-> new(i)]]
  <2>1. p.blocks \in [Slots -> Block] BY PlanParts
  <2> QED BY DEF Entered
<1> HIDE DEF new
<1>3. [i \in Slots |-> new(i)] \in [Slots -> Block] BY <1>1
<1>4. q \in Plans /\ q.blocks = [i \in Slots |-> new(i)] /\ q.tail = p.tail /\ q.head = p.head
      /\ q.planned = p.planned
  BY <1>2, <1>3 DEF Plans
<1> HIDE DEF q
<1>5. \A i \in Slots : q.blocks[i] = new(i) BY <1>4
<1>6. SameWork(p, q) BY <1>1, <1>4, <1>5 DEF SameWork
<1> QED BY <1>4, <1>5, <1>6 DEF q, new

(* The choice of the new planned block is one of the optimal ones.         *)
LEMMA PlannedLast ==
  ASSUME NEW p \in Plans, NEW optimal \in SUBSET (1..LastPosition(p)), optimal # {}
  PROVE  /\ (CHOOSE k \in optimal : \A other \in optimal : other <= k) \in optimal
         /\ \A other \in optimal :
              other <= (CHOOSE k \in optimal : \A other1 \in optimal : other1 <= k)
<1>1. LastPosition(p) \in Nat BY Positions, PlannerAssumption
<1>2. optimal \in SUBSET (0..LastPosition(p)) BY <1>1
<1>3. \E m \in optimal : \A k \in optimal : k <= m BY <1>1, <1>2, LargestOf
<1> QED BY <1>3

(* planner_recalculate changes speeds only.                                *)
LEMMA RecalculatedKeeps ==
  ASSUME NEW p \in Plans
  PROVE  Recalculated(p) \in Plans /\ SameWork(p, Recalculated(p))
<1>1. CASE LastPosition(p) = 0 BY <1>1 DEF Recalculated, SameWork
<1>2. CASE LastPosition(p) # 0
  <2> DEFINE r == ReversePass(p)
             speed == ForwardSpeeds(r)
             optimal == {k \in 1..LastPosition(r) : Settled(speed[k], r.blocks[At(r, k)])}
             last == CHOOSE k \in optimal : \A other \in optimal : other <= k
             e == Entered(r, speed)
  <2>1. r \in Plans /\ SameWork(p, r)
    BY ReverseSpeedsAre, EnteredKeeps DEF ReversePass
  <2> HIDE DEF r
  <2>2. \A k \in 1..LastPosition(r) : speed[k] \in Nat
    <3>1. LastPosition(r) \in Nat BY <2>1, Positions, PlannerAssumption
    <3>2. speed \in [0..LastPosition(r) -> Nat] BY <2>1, ForwardSpeedsAre
    <3> QED BY <3>1, <3>2
  <2> HIDE DEF speed
  <2>3. e \in Plans /\ SameWork(r, e) /\ e.planned = r.planned BY <2>1, <2>2, EnteredKeeps
  <2>4. (IF optimal = {} THEN e.planned ELSE At(r, last)) \in Slots
    <3>1. CASE optimal = {} BY <2>3, <3>1, PlanParts
    <3>2. CASE optimal # {}
      <4>1. optimal \in SUBSET (1..LastPosition(r)) OBVIOUS
      <4> HIDE DEF optimal
      <4>2. last \in optimal BY <2>1, <3>2, <4>1, PlannedLast
      <4> HIDE DEF last
      <4>3. last \in 1..LastPosition(r) BY <4>1, <4>2
      <4>4. last \in 0..(BlockBufferSize - 1)
        BY <2>1, <4>3, Positions, PlannerAssumption
      <4> QED BY <2>1, <3>2, <4>4, Positions
    <3> QED BY <3>1, <3>2
  <2>5. Recalculated(p) = [e EXCEPT !.planned = IF optimal = {} THEN @ ELSE At(r, last)]
    BY <1>2 DEF Recalculated, ForwardPass, r, speed
  <2> HIDE DEF e, optimal, last
  <2> DEFINE v == IF optimal = {} THEN e.planned ELSE At(r, last)
  <2>6. Recalculated(p) = [e EXCEPT !.planned = v] BY <2>5
  <2> HIDE DEF v
  <2>7. Recalculated(p) \in Plans
    <3>1. v \in Slots BY <2>4 DEF v
    <3> QED BY <2>3, <2>6, <3>1 DEF Plans
  <2>8. SameWork(e, Recalculated(p)) BY <2>3, <2>6 DEF Plans, SameWork
  <2> QED BY <2>1, <2>3, <2>7, <2>8 DEF SameWork
<1> QED BY <1>1, <1>2

Preps == [loaded : BOOLEAN, index : BlockSlots, recalculate : BOOLEAN,
          override : BOOLEAN, current : Nat, exit : Nat, top : Nat, end : Nat]

(* So does st_update_plan_block_parameters.                                *)
LEMMA CurrentSpeedKeeps ==
  ASSUME NEW p \in Plans, prep \in Preps
  PROVE  AtCurrentSpeed(p) \in Plans /\ SameWork(p, AtCurrentSpeed(p))
<1>1. CASE ~prep.loaded BY <1>1 DEF AtCurrentSpeed, SameWork
<1>2. CASE prep.loaded
  <2> DEFINE b == [p.blocks[p.tail] EXCEPT !.entry = prep.current]
             q == [p EXCEPT !.blocks = [p.blocks EXCEPT ![p.tail] = b]]
  <2>1. p.blocks \in [Slots -> Block] /\ p.tail \in Slots /\ p.blocks[p.tail] \in Block
    BY PlanParts
  <2>2. prep.current \in Nat BY DEF Preps
  <2>3. b \in Block /\ b.id = p.blocks[p.tail].id /\ b.mm = p.blocks[p.tail].mm
    BY <2>1, <2>2 DEF Block
  <2>4. AtCurrentSpeed(p) = q BY <1>2 DEF AtCurrentSpeed
  <2> HIDE DEF b
  <2>5. [p.blocks EXCEPT ![p.tail] = b] \in [Slots -> Block] BY <2>1, <2>3
  <2>6. q \in Plans BY <2>5 DEF Plans
  <2>7. \A i \in Slots : q.blocks[i] = IF i = p.tail THEN b ELSE p.blocks[i] BY <2>1 DEF Plans
  <2>8. q.tail = p.tail /\ q.head = p.head BY DEF Plans
  <2> HIDE DEF q
  <2>9. SameWork(p, q) BY <2>3, <2>7, <2>8 DEF SameWork
  <2> QED BY <2>4, <2>6, <2>9
<1> QED BY <1>1, <1>2

(* A nominal speed is a number.                                            *)
LEMMA NominalNat == ASSUME NEW r \in Nat, NEW s \in BOOLEAN PROVE Nominal(r, s) \in Nat
BY DEF Nominal

(* So does plan_update_velocity_profile_parameters.                        *)
LEMMA UpdatedKeeps ==
  ASSUME NEW p \in Plans, NEW s \in BOOLEAN
  PROVE  Updated(p, s) \in Plans /\ SameWork(p, Updated(p, s))
<1> DEFINE nominal(i) == Nominal(p.blocks[i].rate, s)
           previous(i) == CHOOSE j \in Slots : plan_next_block_index(j) = i
           limit(i) == IF i = p.tail THEN nominal(i) ELSE Least(nominal(i), nominal(previous(i)))
           new(i) == IF i \in Queued(p)
                     THEN [p.blocks[i] EXCEPT !.max = Least(limit(i), p.blocks[i].junction)]
                     ELSE p.blocks[i]
           last == IF IsEmpty(p) THEN 0 ELSE nominal(previous(p.head))
<1>1. ASSUME NEW i \in Slots PROVE previous(i) \in Slots
  <2>0. BlockBufferSize \in Nat \ {0, 1} BY PlannerAssumption
  <2>1. CASE i = 0
    <3>1. BlockBufferSize - 1 \in Slots /\ plan_next_block_index(BlockBufferSize - 1) = i
      BY <2>0, <2>1 DEF Slots, plan_next_block_index
    <3> QED BY <3>1
  <2>2. CASE i # 0
    <3>1. i - 1 \in Slots /\ plan_next_block_index(i - 1) = i
      BY <2>0, <2>2 DEF Slots, plan_next_block_index
    <3> QED BY <3>1
  <2> QED BY <2>1, <2>2
<1> HIDE DEF previous
<1>2. ASSUME NEW i \in Slots PROVE nominal(i) \in Nat
  <2>1. p.blocks[i].rate \in Nat BY PlanParts
  <2> QED BY <2>1, NominalNat
<1> HIDE DEF nominal
<1>3. ASSUME NEW i \in Slots
      PROVE  new(i) \in Block /\ new(i).id = p.blocks[i].id /\ new(i).mm = p.blocks[i].mm
  <2>1. p.blocks[i] \in Block /\ p.blocks[i].junction \in Nat BY PlanParts
  <2>2. Least(limit(i), p.blocks[i].junction) \in Nat BY <1>1, <1>2, <2>1 DEF Least
  <2> HIDE DEF limit
  <2> QED BY <2>1, <2>2 DEF Block
<1>4. last \in Nat
  <2>1. p.head \in Slots BY PlanParts
  <2> QED BY <1>1, <1>2, <2>1
<1>5. Updated(p, s) = [p EXCEPT !.blocks = [i \in Slots |-> new(i)], !.nominal = last]
  <2>1. p.blocks \in [Slots -> Block] BY PlanParts
  <2> QED BY DEF Updated, nominal, previous
<1> DEFINE bs == [i \in Slots |-> new(i)]
<1> HIDE DEF new, last
<1>6. bs \in [Slots -> Block] /\ \A i \in Slots : bs[i] = new(i) BY <1>3
<1>7. Updated(p, s) = [p EXCEPT !.blocks = bs, !.nominal = last] BY <1>5
<1> HIDE DEF bs
<1> DEFINE q == Updated(p, s)
<1>8. q \in Plans /\ q.blocks = bs /\ q.tail = p.tail /\ q.head = p.head
  BY <1>4, <1>6, <1>7 DEF Plans
<1> HIDE DEF q
<1>9. SameWork(p, q) BY <1>3, <1>6, <1>8 DEF SameWork
<1> QED BY <1>8, <1>9 DEF q

(* A plan with one block more, at its head.                                *)
AddsWork(p, q, id, mm) ==
  /\ q.tail = p.tail /\ q.head = plan_next_block_index(p.head)
  /\ \A i \in Slots : i # p.head => q.blocks[i] = p.blocks[i]
  /\ q.blocks[p.head].id = id /\ q.blocks[p.head].mm = mm

(* plan_buffer_line adds its block and leaves the others alone.            *)
LEMMA BufferedAdds ==
  ASSUME NEW p \in Plans, NEW id \in 0..MaxLines, NEW mm \in Nat, NEW rate \in Nat,
         NEW junction \in Nat, NEW s \in BOOLEAN
  PROVE  /\ Buffered(p, id, mm, rate, junction, s) \in Plans
         /\ AddsWork(p, Buffered(p, id, mm, rate, junction, s), id, mm)
<1> DEFINE nominal == Nominal(rate, s)
           limit == IF IsEmpty(p) THEN 0 ELSE junction
           b == [id |-> id, mm |-> mm, rate |-> rate, junction |-> limit, entry |-> 0,
                 max |-> Least(Least(nominal, p.nominal), limit)]
           q == Buffered(p, id, mm, rate, junction, s)
<1>1. p.blocks \in [Slots -> Block] /\ p.head \in Slots /\ p.nominal \in Nat BY PlanParts
<1>2. nominal \in Nat BY NominalNat
<1>3. limit \in Nat /\ Least(Least(nominal, p.nominal), limit) \in Nat BY <1>1, <1>2 DEF Least
<1>4. q = [p EXCEPT !.blocks = [p.blocks EXCEPT ![p.head] = b], !.nominal = nominal,
                    !.head = plan_next_block_index(p.head)]
  BY DEF Buffered
<1> HIDE DEF nominal, limit
<1>5. b \in Block /\ b.id = id /\ b.mm = mm BY <1>3 DEF Block
<1> HIDE DEF b
<1>6. [p.blocks EXCEPT ![p.head] = b] \in [Slots -> Block] BY <1>1, <1>5
<1>7. plan_next_block_index(p.head) \in Slots
  BY <1>1, PlannerAssumption DEF plan_next_block_index, Slots
<1> DEFINE bs == [p.blocks EXCEPT ![p.head] = b]
           n == plan_next_block_index(p.head)
<1>8. bs[p.head] = b /\ \A i \in Slots : i # p.head => bs[i] = p.blocks[i] BY <1>1
<1>9. q = [p EXCEPT !.blocks = bs, !.nominal = nominal, !.head = n] BY <1>4
<1> HIDE DEF bs, n, q
<1>10. q \in Plans BY <1>2, <1>6, <1>7, <1>9 DEF Plans, bs, n
<1>11. q.tail = p.tail /\ q.head = n /\ q.blocks = bs BY <1>9 DEF Plans
<1>12. /\ q.head = plan_next_block_index(p.head)
       /\ \A i \in Slots : i # p.head => q.blocks[i] = p.blocks[i]
       /\ q.blocks[p.head].id = id /\ q.blocks[p.head].mm = mm
  BY <1>5, <1>8, <1>11 DEF n
<1> QED BY <1>10, <1>11, <1>12 DEF q, AddsWork

(* Replanning leaves the work as it is, and the stepper with the block it  *)
(* has begun.                                                              *)
Begun == prep.loaded \/ prep.recalculate
Once == ~(prep.loaded /\ prep.recalculate)

(* The stepper keeps the block it has begun, whoever replans.              *)
LEMMA StepperUpdatedKeeps ==
  ASSUME prep \in Preps, prep' = StepperUpdated \/ prep' = prep
  PROVE  prep' \in Preps /\ Begun' = Begun /\ prep'.index = prep.index /\ (Once => Once')
<1>1. prep' \in Preps /\ prep'.index = prep.index /\ (Once => Once')
  BY DEF StepperUpdated, Preps, Once
<1>2. Begun' = Begun
  <2>1. CASE prep.loaded /\ prep' = StepperUpdated
    BY <2>1 DEF StepperUpdated, Preps, Begun
  <2>2. CASE prep' = prep BY <2>2 DEF Begun
  <2> QED BY <2>1, <2>2 DEF StepperUpdated
<1> QED BY <1>1, <1>2

(* planner_recalculate with its call of the stepper.                       *)
LEMMA RecalculateKeeps ==
  ASSUME NEW p \in Plans, prep \in Preps, Recalculate(p)
  PROVE  /\ plan' \in Plans /\ SameWork(p, plan')
         /\ prep' \in Preps /\ Begun' = Begun /\ prep'.index = prep.index /\ (Once => Once')
<1>1. CASE UpdatesStepper(p)
  <2>1. plan' = Recalculated(AtCurrentSpeed(p)) /\ prep' = StepperUpdated BY <1>1 DEF Recalculate
  <2>2. AtCurrentSpeed(p) \in Plans /\ SameWork(p, AtCurrentSpeed(p)) BY CurrentSpeedKeeps
  <2>3. plan' \in Plans /\ SameWork(AtCurrentSpeed(p), plan') BY <2>1, <2>2, RecalculatedKeeps
  <2> QED BY <2>1, <2>2, <2>3, StepperUpdatedKeeps DEF SameWork
<1>2. CASE ~UpdatesStepper(p)
  <2>1. plan' = Recalculated(p) /\ prep' = prep BY <1>2 DEF Recalculate
  <2> QED BY <2>1, RecalculatedKeeps, StepperUpdatedKeeps
<1> QED BY <1>1, <1>2

(* plan_cycle_reinitialize with its call of the stepper.                   *)
LEMMA ReinitializeKeeps ==
  ASSUME NEW p \in Plans, prep \in Preps, Reinitialize(p)
  PROVE  /\ plan' \in Plans /\ SameWork(p, plan')
         /\ prep' \in Preps /\ Begun' = Begun /\ prep'.index = prep.index /\ (Once => Once')
<1> DEFINE q == AtCurrentSpeed(p)
           r == [q EXCEPT !.planned = p.tail]
<1>1. plan' = Recalculated(r) /\ prep' = StepperUpdated BY DEF Reinitialize
<1>2. q \in Plans /\ SameWork(p, q) BY CurrentSpeedKeeps
<1> HIDE DEF q
<1>3. r \in Plans /\ SameWork(q, r)
  <2>1. p.tail \in Slots BY PlanParts
  <2> QED BY <1>2, <2>1 DEF Plans, SameWork
<1> HIDE DEF r
<1>4. plan' \in Plans /\ SameWork(r, plan') BY <1>1, <1>3, RecalculatedKeeps
<1> QED BY <1>1, <1>2, <1>3, <1>4, StepperUpdatedKeeps DEF SameWork

-------------------------------------------------------------------------------
(* The lines in the plan and in the segments                               *)

(* The line that is being prepared, or the last one that was.              *)
First == Len(lengths) - Count + 1
Cur == IF Begun THEN First ELSE First - 1
Holds(k) == stBlocks[Segment(k).block]           \* the line of a segment

(* The blocks of the plan are the last lines, whole but for the one begun. *)
Lined ==
  /\ Count <= Len(lengths) /\ Once
  /\ Begun => Count > 0 /\ stBlocks[prep.index] = First
  /\ \A k \in 0..(Count - 1) :
       /\ BlockAt(k).id = First + k /\ BlockAt(k).mm > 0
       /\ k > 0 \/ ~Begun => BlockAt(k).mm = lengths[First + k]

(* The segments go on from line to line, up to the one being prepared; the *)
(* slot of a line is as far back as the line is.                           *)
Ringed ==
  /\ \A k \in 0..(Held - 1) :
       /\ Segment(k).n > 0 /\ Holds(k) > 0
       /\ Segment(k).block = (prep.index - (Cur - Holds(k))) % (SegmentBufferSize - 1)
       /\ Cur - Holds(k) \in 0..(SegmentBufferSize - 2)
       /\ Cur - Holds(k) <= IF Begun THEN Held - k ELSE Held - k - 1
  /\ \A j, k \in 0..(Held - 1) :
       j <= k => Holds(j) <= Holds(k) /\ Holds(k) <= Holds(j) + (k - j)

(* A segment that is written, but not yet published.                       *)
Written ==
  pc = "publish" =>
    /\ prep.loaded /\ ~RingFull /\ segments[segHead].block = prep.index
    /\ segments[segHead].n \in 1..(Current(plan).mm - prep.end)

(* The line in execution, what of it has been traced, and the lines before *)
(* and after it.                                                           *)
Front == IF Held > 0 THEN Holds(0) ELSE First
FrontSlot == IF Held > 0 THEN Segment(0).block ELSE prep.index
FrontBegun == Held > 0 \/ Begun
Traced == IF st.index = FrontSlot THEN st.traced ELSE 0
Stepped ==
  /\ st.running => Held > 0 /\ st.count > 0 /\ st.index = Segment(0).block
  /\ ~FrontBegun => st.index = prep.index
  /\ \A line \in 1..Len(lengths) :
       /\ line < Front => Left(line) = 0
       /\ line = Front /\ FrontBegun => Left(line) = lengths[line] - Traced
       /\ line > Front \/ (line = Front /\ ~FrontBegun) => Left(line) = lengths[line]

LinesInv == Lined /\ Ringed /\ Written /\ Stepped

(* The constants and the slots they give.                                  *)
LEMMA SizesAre ==
  /\ BlockBufferSize \in Nat \ {0, 1} /\ Slots = 0..(BlockBufferSize - 1)
  /\ SegmentBufferSize \in Nat /\ SegmentBufferSize >= 3
  /\ SegmentSlots = 0..(SegmentBufferSize - 1) /\ BlockSlots = 0..(SegmentBufferSize - 2)
BY PlannerAssumption, MotionAssumption DEF Slots, SegmentSlots, BlockSlots

(* The type invariant in parts.                                            *)
LEMMA Types ==
  TypeOK <=> /\ plan \in Plans /\ prep \in Preps /\ slow \in BOOLEAN
             /\ state \in {"IDLE", "CYCLE", "HOLD"}
             /\ complete \in BOOLEAN /\ hold \in BOOLEAN /\ endMotion \in BOOLEAN
             /\ pc \in {"poll", "prep", "publish"} /\ wake \in BOOLEAN
             /\ stBlocks \in [BlockSlots -> 0..MaxLines]
             /\ segments \in [SegmentSlots -> [n : Nat, block : BlockSlots]]
             /\ segHead \in SegmentSlots /\ segTail \in SegmentSlots
             /\ st \in [running : BOOLEAN, index : BlockSlots, count : Nat, traced : Nat]
             /\ timer \in BOOLEAN /\ cycleStop \in BOOLEAN
             /\ lengths \in Seq(Nat) /\ Len(lengths) <= MaxLines
             /\ holdsLeft \in 0..MaxHolds /\ overridesLeft \in 0..MaxOverrides
BY DEF TypeOK, Plans, Preps

(* What a step that is typed part by part has to show.                     *)
LEMMA TypesNext ==
  ASSUME TypeOK, plan' \in Plans, prep' \in Preps,
         UNCHANGED slow \/ slow' \in BOOLEAN,
         UNCHANGED state \/ state' \in {"IDLE", "CYCLE", "HOLD"},
         UNCHANGED complete \/ complete' \in BOOLEAN,
         UNCHANGED hold \/ hold' \in BOOLEAN,
         UNCHANGED endMotion \/ endMotion' \in BOOLEAN,
         UNCHANGED pc \/ pc' \in {"poll", "prep", "publish"},
         UNCHANGED wake \/ wake' \in BOOLEAN,
         UNCHANGED stBlocks \/ stBlocks' \in [BlockSlots -> 0..MaxLines],
         UNCHANGED segments \/ segments' \in [SegmentSlots -> [n : Nat, block : BlockSlots]],
         UNCHANGED segHead \/ segHead' \in SegmentSlots,
         UNCHANGED segTail \/ segTail' \in SegmentSlots,
         UNCHANGED st
           \/ st' \in [running : BOOLEAN, index : BlockSlots, count : Nat, traced : Nat],
         UNCHANGED timer \/ timer' \in BOOLEAN,
         UNCHANGED cycleStop \/ cycleStop' \in BOOLEAN,
         UNCHANGED lengths \/ (lengths' \in Seq(Nat) /\ Len(lengths') <= MaxLines),
         UNCHANGED holdsLeft \/ holdsLeft' \in 0..MaxHolds,
         UNCHANGED overridesLeft \/ overridesLeft' \in 0..MaxOverrides
  PROVE  TypeOK'
<1>1. /\ plan' \in Plans /\ prep' \in Preps /\ slow' \in BOOLEAN
      /\ state' \in {"IDLE", "CYCLE", "HOLD"} /\ complete' \in BOOLEAN
  BY DEF TypeOK
<1>2. /\ hold' \in BOOLEAN /\ endMotion' \in BOOLEAN
      /\ pc' \in {"poll", "prep", "publish"} /\ wake' \in BOOLEAN
      /\ stBlocks' \in [BlockSlots -> 0..MaxLines]
  BY DEF TypeOK
<1>3. /\ segments' \in [SegmentSlots -> [n : Nat, block : BlockSlots]]
      /\ segHead' \in SegmentSlots /\ segTail' \in SegmentSlots
      /\ st' \in [running : BOOLEAN, index : BlockSlots, count : Nat, traced : Nat]
  BY DEF TypeOK
<1>4. /\ timer' \in BOOLEAN /\ cycleStop' \in BOOLEAN
      /\ lengths' \in Seq(Nat) /\ Len(lengths') <= MaxLines
      /\ holdsLeft' \in 0..MaxHolds /\ overridesLeft' \in 0..MaxOverrides
  BY DEF TypeOK
<1> QED BY <1>1, <1>2, <1>3, <1>4 DEF TypeOK, Plans, Preps

(* The initial state is typed.                                             *)
LEMMA TypeStart == Init => TypeOK
<1> SUFFICES ASSUME Init PROVE TypeOK OBVIOUS
<1>1. 0 \in Slots /\ 0 \in BlockSlots /\ 0 \in SegmentSlots /\ 0 \in 0..MaxLines
  BY SizesAre, MotionAssumption
<1>2. plan \in Plans
  <2>1. NoBlock \in Block BY <1>1 DEF NoBlock, Block
  <2> QED BY <1>1, <2>1 DEF Init, plan_reset, Plans
<1>3. prep \in Preps BY <1>1 DEF Init, NoPrep, Preps
<1>4. segments \in [SegmentSlots -> [n : Nat, block : BlockSlots]] BY <1>1 DEF Init
<1>5. stBlocks \in [BlockSlots -> 0..MaxLines] BY <1>1 DEF Init
<1>6. st \in [running : BOOLEAN, index : BlockSlots, count : Nat, traced : Nat]
  BY <1>1 DEF Init, NoStepper
<1>7. lengths \in Seq(Nat) /\ Len(lengths) <= MaxLines BY MotionAssumption DEF Init
<1>8. holdsLeft \in 0..MaxHolds /\ overridesLeft \in 0..MaxOverrides
  BY MotionAssumption DEF Init
<1> QED BY <1>1, <1>2, <1>3, <1>4, <1>5, <1>6, <1>7, <1>8, Types DEF Init

(* The blocks in the plan, from the tail on.                               *)
LEMMA CountIs ==
  ASSUME plan \in Plans
  PROVE  /\ Count \in 0..(BlockBufferSize - 1) /\ (Count = 0 <=> IsEmpty(plan))
         /\ BlockAt(0) = Current(plan) /\ Current(plan) = plan.blocks[plan.tail]
         /\ \A k \in 0..(BlockBufferSize - 1) : BlockAt(k) \in Block
         /\ plan.tail \in Slots /\ plan.head \in Slots
<1>1. plan.tail \in 0..(BlockBufferSize - 1) /\ plan.head \in 0..(BlockBufferSize - 1)
  BY PlanParts, SizesAre
<1>2. BlockBufferSize \in Nat \ {0} BY SizesAre
<1>3. /\ Count \in 0..(BlockBufferSize - 1) /\ (Count = 0 <=> plan.head = plan.tail)
      /\ (plan.tail + 0) % BlockBufferSize = plan.tail
      /\ \A k \in 0..(BlockBufferSize - 1) :
           (plan.tail + k) % BlockBufferSize \in 0..(BlockBufferSize - 1)

  <2>1. RingLaws(BlockBufferSize, plan.head, plan.tail, Count) BY <1>1, <1>2, Rings DEF Count
  <2> QED BY <2>1 DEF RingLaws
<1>4. plan.blocks \in [Slots -> Block] BY PlanParts
<1> QED BY <1>1, <1>3, <1>4, SizesAre DEF IsEmpty, BlockAt, Current

(* The segments in the ring, from the tail on.                             *)
LEMMA HeldIs ==
  ASSUME segHead \in SegmentSlots, segTail \in SegmentSlots
  PROVE  /\ Held \in 0..(SegmentBufferSize - 1) /\ (Held = 0 <=> RingEmpty)
         /\ (Held = SegmentBufferSize - 1 <=> RingFull)
         /\ Segment(0) = segments[segTail]
         /\ (segTail + Held) % SegmentBufferSize = segHead
         /\ \A k \in 0..(SegmentBufferSize - 1) :
              (segTail + k) % SegmentBufferSize \in SegmentSlots
         /\ \A j, k \in 0..(SegmentBufferSize - 1) :
              (segTail + j) % SegmentBufferSize = (segTail + k) % SegmentBufferSize => j = k
         /\ NextSegment(segHead) \in SegmentSlots /\ NextSegment(segTail) \in SegmentSlots
<1>1. /\ segHead \in 0..(SegmentBufferSize - 1) /\ segTail \in 0..(SegmentBufferSize - 1)
      /\ SegmentBufferSize \in Nat \ {0}
  BY SizesAre
<1>2. /\ Held \in 0..(SegmentBufferSize - 1) /\ (Held = 0 <=> segHead = segTail)
      /\ (Held = SegmentBufferSize - 1 <=> Following(segHead, SegmentBufferSize) = segTail)
      /\ (segTail + 0) % SegmentBufferSize = segTail
      /\ (segTail + Held) % SegmentBufferSize = segHead
      /\ \A k \in 0..(SegmentBufferSize - 1) :
           (segTail + k) % SegmentBufferSize \in 0..(SegmentBufferSize - 1)
      /\ \A j, k \in 0..(SegmentBufferSize - 1) :
           (segTail + j) % SegmentBufferSize = (segTail + k) % SegmentBufferSize => j = k

  <2>1. RingLaws(SegmentBufferSize, segHead, segTail, Held) BY <1>1, Rings DEF Held
  <2> QED BY <2>1 DEF RingLaws
<1>3. NextSegment(segHead) \in SegmentSlots /\ NextSegment(segTail) \in SegmentSlots
  BY <1>1, SizesAre DEF NextSegment
<1>4. Following(segHead, SegmentBufferSize) = NextSegment(segHead)
  BY DEF NextSegment, Following
<1> QED BY <1>2, <1>3, <1>4, SizesAre DEF RingEmpty, RingFull, Segment

(* A velocity profile is made of numbers.                                  *)
LEMMA ProfileType ==
  ASSUME TypeOK, NEW b \in Block
  PROVE  Profile(b).end \in Nat /\ Profile(b).exit \in Nat /\ Profile(b).override \in BOOLEAN
<1>1. b.mm \in Nat /\ b.entry \in Nat /\ b.rate \in Nat BY DEF Block
<1>2. Nominal(b.rate, slow) \in Nat BY <1>1, Types, NominalNat
<1>3. ExitSpeed(plan) \in Nat
  <2>1. plan_next_block_index(plan.tail) \in Slots
    <3>1. plan.tail \in Slots BY Types, PlanParts
    <3> QED BY <3>1, SizesAre DEF plan_next_block_index
  <2>2. plan.blocks[plan_next_block_index(plan.tail)].entry \in Nat BY <2>1, Types, PlanParts
  <2> QED BY <2>2 DEF ExitSpeed
<1> QED BY <1>1, <1>2, <1>3 DEF Profile

(* Loading a block keeps the types.                                        *)
LEMMA LoadType == ASSUME TypeOK, Load PROVE TypeOK'
<1> DEFINE fresh == ~prep.recalculate
           index == IF fresh THEN SlotAfter(prep.index) ELSE prep.index
           entry == IF fresh /\ Forced THEN prep.exit ELSE Current(plan).entry
           b == [Current(plan) EXCEPT !.entry = entry]
           profile == Profile(b)
           next == [loaded |-> TRUE, index |-> index, recalculate |-> FALSE,
                    override |-> profile.override,
                    current |-> IF fresh THEN entry ELSE prep.current,
                    exit |-> profile.exit, top |-> Nominal(Current(plan).rate, slow),
                    end |-> profile.end]
<1>1. /\ plan' = [plan EXCEPT !.blocks = [plan.blocks EXCEPT ![plan.tail] =
                     [plan.blocks[plan.tail] EXCEPT !.entry = entry]]]
      /\ stBlocks' = [stBlocks EXCEPT ![index] = Current(plan).id]
      /\ prep' = next
      /\ UNCHANGED <<slow, sysVars, pc, wake, segments, segHead, stepperVars, cycleStop,
                     boundVars>>
  BY DEF Load
<1>2. /\ plan \in Plans /\ prep \in Preps /\ slow \in BOOLEAN
      /\ stBlocks \in [BlockSlots -> 0..MaxLines]
  BY Types
<1>3. /\ plan.tail \in Slots /\ plan.blocks \in [Slots -> Block]
      /\ Current(plan) \in Block /\ Current(plan) = plan.blocks[plan.tail]
      /\ Current(plan).entry \in Nat /\ Current(plan).rate \in Nat
      /\ Current(plan).id \in 0..MaxLines
  BY <1>2, PlanParts DEF Current
<1>4. index \in BlockSlots
  <2>1. prep.index \in BlockSlots BY <1>2 DEF Preps
  <2> QED BY <2>1, SizesAre DEF SlotAfter, st_next_block_index
<1>5. entry \in Nat BY <1>2, <1>3 DEF Preps
<1>6. prep.current \in Nat BY <1>2 DEF Preps
<1> HIDE DEF index, entry
<1>7. b \in Block BY <1>3, <1>5 DEF Block
<1>8. Nominal(Current(plan).rate, slow) \in Nat BY <1>2, <1>3, NominalNat
<1>9. profile.end \in Nat /\ profile.exit \in Nat /\ profile.override \in BOOLEAN
  <2> HIDE DEF b
  <2> QED BY <1>7, ProfileType
<1>10. b = [plan.blocks[plan.tail] EXCEPT !.entry = entry] BY <1>3
<1>11. plan' = [plan EXCEPT !.blocks = [plan.blocks EXCEPT ![plan.tail] = b]] BY <1>1, <1>10
<1> HIDE DEF profile, b
<1>12. next \in Preps BY <1>4, <1>5, <1>6, <1>8, <1>9 DEF Preps
<1> HIDE DEF next
<1>13. plan' \in Plans
  <2>1. [plan.blocks EXCEPT ![plan.tail] = b] \in [Slots -> Block] BY <1>3, <1>7
  <2> QED BY <1>2, <1>11, <2>1 DEF Plans
<1>14. stBlocks' \in [BlockSlots -> 0..MaxLines] BY <1>1, <1>2, <1>3, <1>4
<1> QED BY <1>1, <1>12, <1>13, <1>14, TypesNext DEF sysVars, stepperVars, boundVars

(* Publishing takes the steps of the segment from the first block, and     *)
(* discards the block with its last step. The steps are no more than are   *)
(* left.                                                                   *)
LEMMA PublishedWork ==
  ASSUME TypeOK, Written, Publish
  PROVE  LET n == segments[segHead].n
             left == Current(plan).mm - n
             remainder == [plan EXCEPT !.blocks = [plan.blocks EXCEPT ![plan.tail] =
                             [plan.blocks[plan.tail] EXCEPT !.mm = left]]]
         IN  /\ n \in Nat \ {0} /\ left \in Nat /\ prep.end \in Nat /\ left >= prep.end
             /\ remainder \in Plans
             /\ plan' = IF left > 0 THEN remainder ELSE plan_discard_current_block(remainder)
             /\ (left > 0 => prep'.loaded) /\ (left = 0 => ~prep'.loaded)
             /\ prep'.index = prep.index
             /\ prep'.recalculate = prep.recalculate
             /\ prep' \in Preps
             /\ pc' \in {"poll", "prep"}
<1> DEFINE n == segments[segHead].n
           left == Current(plan).mm - n
           b == [plan.blocks[plan.tail] EXCEPT !.mm = left]
           remainder == [plan EXCEPT !.blocks = [plan.blocks EXCEPT ![plan.tail] = b]]
<1>1. plan \in Plans /\ prep \in Preps /\ pc = "publish" /\ prep.loaded BY Types DEF Publish, Written
<1>2. /\ plan.tail \in Slots /\ plan.blocks \in [Slots -> Block]
      /\ Current(plan) \in Block /\ Current(plan) = plan.blocks[plan.tail]
      /\ Current(plan).mm \in Nat
  BY <1>1, PlanParts DEF Current
<1>3. prep.end \in Nat /\ prep.current \in Nat /\ prep.exit \in Nat /\ prep.top \in Nat
  BY <1>1 DEF Preps
<1>4. n \in 1..(Current(plan).mm - prep.end) BY <1>1 DEF Written
<1>5. n \in Nat \ {0} /\ left \in Nat /\ left >= prep.end BY <1>2, <1>3, <1>4
<1>6. \/ /\ left > prep.end
         /\ plan' = remainder /\ prep' = [prep EXCEPT !.current = SpeedAfter(n)]
         /\ pc' = "prep"
      \/ /\ left = prep.end /\ left > 0
         /\ plan' = remainder /\ prep' = [prep EXCEPT !.current = SpeedAfter(n)]
         /\ pc' = "poll"
      \/ /\ left = prep.end /\ left = 0
         /\ plan' = plan_discard_current_block(remainder)
         /\ prep' = [prep EXCEPT !.current = SpeedAfter(n), !.loaded = FALSE]
         /\ pc' = "prep"
  BY DEF Publish, Bails, Leave
<1>7. SpeedAfter(n) \in Nat
  <2>1. SpeedAfter(n) = LET target == Least(prep.top, prep.exit + (left - prep.end))
                        IN  IF left - prep.end = 0 THEN prep.exit
                            ELSE IF prep.current > target THEN Greatest(prep.current - n, target)
                                 ELSE Least(prep.current + n, target)
    BY DEF SpeedAfter
  <2> HIDE DEF n, left
  <2>2. left - prep.end \in Nat BY <1>3, <1>5
  <2>3. Least(prep.top, prep.exit + (left - prep.end)) \in Nat BY <1>3, <2>2 DEF Least
  <2> QED BY <1>3, <1>5, <2>1, <2>3 DEF Least, Greatest
<1> HIDE DEF n, left
<1>8. b \in Block BY <1>2, <1>5 DEF Block
<1> HIDE DEF b
<1>9. remainder \in Plans
  <2>1. [plan.blocks EXCEPT ![plan.tail] = b] \in [Slots -> Block] BY <1>2, <1>8
  <2> QED BY <1>1, <2>1 DEF Plans
<1> HIDE DEF remainder
<1>10. prep' \in Preps /\ prep'.index = prep.index /\ prep'.recalculate = prep.recalculate
  BY <1>1, <1>6, <1>7 DEF Preps
<1>11. left > prep.end => left > 0 BY <1>3, <1>5
<1>12. plan' = IF left > 0 THEN remainder ELSE plan_discard_current_block(remainder)
  BY <1>5, <1>6, <1>11
<1>13. (left > 0 => prep'.loaded) /\ (left = 0 => ~prep'.loaded)
  <2>1. CASE left > 0
    <3>1. prep' = [prep EXCEPT !.current = SpeedAfter(n)] BY <1>6, <2>1
    <3>2. prep'.loaded = prep.loaded BY <1>1, <3>1 DEF Preps
    <3> QED BY <1>1, <2>1, <3>2
  <2>2. CASE left = 0
    <3>1. prep' = [prep EXCEPT !.current = SpeedAfter(n), !.loaded = FALSE] BY <1>3, <1>6, <2>2
    <3>2. prep'.loaded = FALSE BY <1>1, <3>1 DEF Preps
    <3> QED BY <2>2, <3>2
  <2> QED BY <1>5, <2>1, <2>2
<1>14. pc' \in {"poll", "prep"} BY <1>6
<1> QED BY <1>3, <1>5, <1>9, <1>10, <1>12, <1>13, <1>14 DEF n, left, b, remainder

(* Discarding a block keeps the types.                                     *)
LEMMA DiscardType ==
  ASSUME NEW p \in Plans PROVE plan_discard_current_block(p) \in Plans
<1> DEFINE next == plan_next_block_index(p.tail)
           q == [p EXCEPT !.tail = next, !.planned = IF @ = p.tail THEN next ELSE @]
<1>1. next \in Slots BY PlanParts, SizesAre DEF plan_next_block_index
<1> HIDE DEF next
<1>2. q \in Plans BY <1>1 DEF Plans
<1>3. plan_discard_current_block(p) = IF IsEmpty(p) THEN p ELSE q
  BY DEF plan_discard_current_block, next
<1> QED BY <1>2, <1>3

(* Publishing keeps the types.                                             *)
LEMMA PublishType == ASSUME TypeOK, Written, Publish PROVE TypeOK'
<1> DEFINE left == Current(plan).mm - segments[segHead].n
           remainder == [plan EXCEPT !.blocks = [plan.blocks EXCEPT ![plan.tail] =
                             [plan.blocks[plan.tail] EXCEPT !.mm = left]]]
<1>1. /\ remainder \in Plans /\ prep' \in Preps /\ pc' \in {"poll", "prep"}
      /\ plan' = IF left > 0 THEN remainder ELSE plan_discard_current_block(remainder)
  BY PublishedWork
<1> HIDE DEF left, remainder
<1>2. plan' \in Plans BY <1>1, DiscardType
<1>3. segHead' \in SegmentSlots BY HeldIs, Types DEF Publish
<1>4. /\ UNCHANGED <<slow, state, complete, hold, stBlocks, segments, segTail, st, taken,
                     cycleStop, boundVars>>
      /\ endMotion' \in BOOLEAN /\ wake' \in BOOLEAN /\ timer' \in BOOLEAN
  <2>1. UNCHANGED <<endMotion, wake, timer>> \/ Bails
    BY DEF Publish
  <2>2. endMotion \in BOOLEAN /\ wake \in BOOLEAN /\ timer \in BOOLEAN BY Types
  <2>3. endMotion' \in BOOLEAN /\ wake' \in BOOLEAN /\ timer' \in BOOLEAN
    <3>1. CASE UNCHANGED <<endMotion, wake, timer>> BY <2>2, <3>1
    <3>2. CASE Bails BY <2>2, <3>2 DEF Bails, Leave
    <3> QED BY <2>1, <3>1, <3>2
  <2> QED BY <2>3 DEF Publish
<1> QED BY <1>1, <1>2, <1>3, <1>4, TypesNext DEF boundVars

(* Planning a line keeps the types, and adds its block.                    *)
LEMMA PlanLineType ==
  ASSUME TypeOK, NEW length \in Lengths, NEW rate \in Rates, NEW junction \in Junctions,
         PlanLine(length, rate, junction)
  PROVE  /\ TypeOK' /\ lengths' = Append(lengths, length) /\ length \in Nat \ {0}
         /\ LET p == Buffered(plan, Len(lengths'), length, rate, junction, slow)
            IN  p \in Plans /\ SameWork(p, plan') /\ Begun' = Begun /\ prep'.index = prep.index
                /\ (Once => Once')
         /\ Len(lengths') \in 0..MaxLines /\ Len(lengths') = Len(lengths) + 1
         /\ rate \in Nat /\ junction \in Nat
<1>1. length \in Nat \ {0} /\ rate \in Nat /\ junction \in Nat BY MotionAssumption
<1>2. /\ lengths' = Append(lengths, length) /\ Len(lengths) < MaxLines
      /\ UNCHANGED <<slow, sysVars, pc, wake, stBlocks, segments, segHead, stepperVars,
                     cycleStop, holdsLeft, overridesLeft>>
  BY DEF PlanLine
<1>3. /\ plan \in Plans /\ prep \in Preps /\ slow \in BOOLEAN /\ lengths \in Seq(Nat)
      /\ MaxLines \in Nat
  BY Types, MotionAssumption
<1>4. /\ lengths' \in Seq(Nat) /\ Len(lengths') = Len(lengths) + 1 /\ Len(lengths) \in Nat
      /\ Len(lengths') \in 0..MaxLines
  BY <1>1, <1>2, <1>3
<1> DEFINE p == Buffered(plan, Len(lengths'), length, rate, junction, slow)
<1>5. p \in Plans BY <1>1, <1>3, <1>4, BufferedAdds
<1>6. Recalculate(p) BY DEF PlanLine
<1> HIDE DEF p
<1>7. /\ plan' \in Plans /\ SameWork(p, plan')
      /\ prep' \in Preps /\ Begun' = Begun /\ prep'.index = prep.index /\ (Once => Once')
  BY <1>3, <1>5, <1>6, RecalculateKeeps
<1>8. TypeOK' BY <1>2, <1>4, <1>7, TypesNext DEF sysVars, stepperVars
<1> QED BY <1>1, <1>2, <1>4, <1>5, <1>7, <1>8 DEF p

(* The actions that replan.                                                *)
Replans == FeedHold \/ CycleStop \/ Override

(* They keep the types and change no work.                                 *)
LEMMA ReplansKeep ==
  ASSUME TypeOK, Replans
  PROVE  /\ TypeOK' /\ SameWork(plan, plan') /\ Begun' = Begun /\ prep'.index = prep.index
         /\ (Once => Once')
         /\ pc' = "poll"
         /\ UNCHANGED <<stBlocks, segments, segHead, segTail, st, taken, lengths>>
<1>1. plan \in Plans /\ prep \in Preps /\ slow \in BOOLEAN /\ complete \in BOOLEAN /\ hold \in BOOLEAN
  BY Types
<1>2. SameWork(plan, plan) BY DEF SameWork
<1>3. CASE FeedHold
  <2>1. /\ plan' \in Plans /\ SameWork(plan, plan')
        /\ prep' \in Preps /\ Begun' = Begun /\ prep'.index = prep.index /\ (Once => Once')
        /\ complete' \in BOOLEAN /\ hold' \in BOOLEAN /\ endMotion' \in BOOLEAN
    <3>1. CASE state = "CYCLE"
      <4>1. plan' = AtCurrentSpeed(plan) /\ prep' = StepperUpdated /\ hold' = TRUE
            /\ endMotion' = FALSE /\ complete' = complete
        BY <1>3, <3>1 DEF FeedHold
      <4> QED BY <1>1, <4>1, CurrentSpeedKeeps, StepperUpdatedKeeps
    <3>2. CASE state # "CYCLE"
      <4>1. UNCHANGED <<plan, prep, hold, endMotion>> /\ complete' = TRUE
        BY <1>3, <3>2 DEF FeedHold
      <4>2. endMotion \in BOOLEAN BY Types
      <4> QED BY <1>1, <1>2, <4>1, <4>2 DEF Begun, Once
    <3> QED BY <3>1, <3>2
  <2>2. /\ state' = "HOLD" /\ holdsLeft' = holdsLeft - 1 /\ holdsLeft > 0 /\ pc = "poll"
        /\ UNCHANGED <<slow, pc, wake, stBlocks, segments, segHead, stepperVars, cycleStop,
                       lengths, overridesLeft>>
    BY <1>3 DEF FeedHold
  <2>3. holdsLeft' \in 0..MaxHolds
    <3>1. holdsLeft \in 0..MaxHolds BY Types
    <3> QED BY <2>2, <3>1, MotionAssumption
  <2>4. TypeOK' BY <2>1, <2>2, <2>3, TypesNext DEF stepperVars
  <2> QED BY <2>1, <2>2, <2>4 DEF stepperVars
<1>4. CASE CycleStop
  <2>1. /\ plan' \in Plans /\ SameWork(plan, plan')
        /\ prep' \in Preps /\ Begun' = Begun /\ prep'.index = prep.index /\ (Once => Once')
        /\ complete' \in BOOLEAN /\ hold' \in BOOLEAN
        /\ UNCHANGED state \/ state' \in {"IDLE", "CYCLE", "HOLD"}
    <3>1. CASE state = "HOLD"
      <4>1. Reinitialize(plan) /\ complete' = Completes /\ hold' = FALSE /\ UNCHANGED state
        BY <1>4, <3>1 DEF CycleStop
      <4>2. complete' \in BOOLEAN BY <1>1, <4>1 DEF Completes
      <4> QED BY <1>1, <4>1, <4>2, ReinitializeKeeps
    <3>2. CASE state # "HOLD"
      <4>1. UNCHANGED <<plan, prep, complete, hold>> /\ state' = "IDLE"
        BY <1>4, <3>2 DEF CycleStop
      <4> QED BY <1>1, <1>2, <4>1 DEF Begun, Once
    <3> QED BY <3>1, <3>2
  <2>2. /\ cycleStop' = FALSE /\ pc = "poll"
        /\ UNCHANGED <<slow, endMotion, pc, wake, stBlocks, segments, segHead, stepperVars,
                       boundVars>>
    BY <1>4 DEF CycleStop
  <2>3. TypeOK' BY <2>1, <2>2, TypesNext DEF stepperVars, boundVars
  <2> QED BY <2>1, <2>2, <2>3 DEF stepperVars, boundVars
<1>5. CASE Override
  <2>1. /\ slow' = ~slow /\ Reinitialize(Updated(plan, slow')) /\ pc = "poll"
        /\ overridesLeft' = overridesLeft - 1 /\ overridesLeft > 0
        /\ UNCHANGED <<sysVars, pc, wake, stBlocks, segments, segHead, stepperVars, cycleStop,
                       lengths, holdsLeft>>
    BY <1>5 DEF Override
  <2>2. slow' \in BOOLEAN BY <1>1, <2>1
  <2> DEFINE p == Updated(plan, slow')
  <2>3. p \in Plans /\ SameWork(plan, p) BY <1>1, <2>2, UpdatedKeeps
  <2>4. Reinitialize(p) BY <2>1
  <2> HIDE DEF p
  <2>5. /\ plan' \in Plans /\ SameWork(p, plan')
        /\ prep' \in Preps /\ Begun' = Begun /\ prep'.index = prep.index /\ (Once => Once')
    BY <1>1, <2>3, <2>4, ReinitializeKeeps
  <2>6. SameWork(plan, plan') BY <2>3, <2>5 DEF SameWork
  <2>7. overridesLeft' \in 0..MaxOverrides
    <3>1. overridesLeft \in 0..MaxOverrides BY Types
    <3> QED BY <2>1, <3>1, MotionAssumption
  <2>8. TypeOK' BY <2>1, <2>2, <2>5, <2>7, TypesNext DEF sysVars, stepperVars
  <2> QED BY <2>1, <2>5, <2>6, <2>8 DEF stepperVars
<1> QED BY <1>3, <1>4, <1>5 DEF Replans

(* The actions that change no work at all.                                 *)
Passes == CycleStart \/ Prep \/ Filled \/ NoStep \/ Shutdown

(* They keep the types.                                                    *)
LEMMA PassesKeep ==
  ASSUME TypeOK, Passes
  PROVE  /\ TypeOK' /\ UNCHANGED <<plan, prep>>
         /\ pc' # "publish" \/ UNCHANGED pc
         /\ UNCHANGED <<stBlocks, segments, segHead, segTail, st, taken, lengths>>
<1>1. plan \in Plans /\ prep \in Preps /\ timer \in BOOLEAN /\ wake \in BOOLEAN BY Types
<1>2. CASE CycleStart
  <2>1. /\ complete' = FALSE /\ hold' = FALSE /\ endMotion' = FALSE
        /\ state' \in {"IDLE", "CYCLE", "HOLD"}
        /\ pc' = "prep" \/ UNCHANGED pc
        /\ wake' = TRUE \/ UNCHANGED wake
        /\ UNCHANGED <<plan, slow, motionVars, stepperVars, cycleStop, boundVars>>
    BY <1>2 DEF CycleStart
  <2>2. TypeOK' BY <1>1, <2>1, TypesNext DEF motionVars, stepperVars, boundVars
  <2> QED BY <2>1, <2>2 DEF motionVars, stepperVars, boundVars
<1>3. CASE Prep
  <2>1. /\ pc' = "prep"
        /\ UNCHANGED <<plan, slow, sysVars, wake, motionVars, stepperVars, cycleStop, boundVars>>
    BY <1>3 DEF Prep
  <2>2. TypeOK' BY <1>1, <2>1, TypesNext DEF sysVars, motionVars, stepperVars, boundVars
  <2> QED BY <2>1, <2>2 DEF motionVars, stepperVars, boundVars
<1>4. CASE Filled
  <2>1. /\ pc' = "poll" /\ wake' = FALSE /\ timer' \in BOOLEAN
        /\ UNCHANGED <<plan, slow, sysVars, motionVars, segTail, st, taken, cycleStop, boundVars>>
    BY <1>1, <1>4 DEF Filled, Leave
  <2>2. TypeOK' BY <1>1, <2>1, TypesNext DEF sysVars, motionVars, boundVars
  <2> QED BY <2>1, <2>2 DEF motionVars, boundVars
<1>5. CASE NoStep
  <2>1. /\ pc' = "poll" /\ wake' = FALSE /\ timer' \in BOOLEAN /\ endMotion' = TRUE
        /\ UNCHANGED <<plan, slow, state, complete, hold, motionVars, segTail, st, taken,
                       cycleStop, boundVars>>
    BY <1>1, <1>5 DEF NoStep, Bails, Leave
  <2>2. TypeOK' BY <1>1, <2>1, TypesNext DEF motionVars, boundVars
  <2> QED BY <2>1, <2>2 DEF motionVars, boundVars
<1>6. CASE Shutdown
  <2>1. /\ timer' = FALSE /\ cycleStop' = TRUE
        /\ UNCHANGED <<plan, slow, sysVars, pc, wake, motionVars, segTail, st, taken, boundVars>>
    BY <1>6 DEF Shutdown
  <2>2. TypeOK' BY <1>1, <2>1, TypesNext DEF sysVars, motionVars, boundVars
  <2> QED BY <2>1, <2>2 DEF motionVars, boundVars
<1> QED BY <1>2, <1>3, <1>4, <1>5, <1>6 DEF Passes

(* A flush keeps the types.                                                *)
LEMMA FlushType == ASSUME TypeOK, Flush PROVE TypeOK'
<1>1. 0 \in Slots /\ 0 \in BlockSlots /\ 0 \in SegmentSlots /\ 0 \in 0..MaxLines
  BY SizesAre, MotionAssumption
<1>2. plan' \in Plans
  <2>1. NoBlock \in Block BY <1>1 DEF NoBlock, Block
  <2> QED BY <1>1, <2>1 DEF Flush, plan_reset, Plans
<1>3. prep' \in Preps BY <1>1 DEF Flush, NoPrep, Preps
<1>4. st' \in [running : BOOLEAN, index : BlockSlots, count : Nat, traced : Nat]
  BY <1>1 DEF Flush, NoStepper
<1>5. slow' \in BOOLEAN
  <2>1. slow \in BOOLEAN BY Types
  <2> QED BY <2>1 DEF Flush
<1>6. /\ segHead' = 0 /\ segTail' = 0 /\ timer' = FALSE /\ cycleStop' = FALSE
      /\ state' = "IDLE" /\ complete' = FALSE /\ hold' = FALSE /\ endMotion' = FALSE
      /\ UNCHANGED <<pc, wake, stBlocks, segments, taken, boundVars>>
  BY DEF Flush
<1> QED BY <1>1, <1>2, <1>3, <1>4, <1>5, <1>6, TypesNext DEF boundVars

(* Writing a segment keeps the types.                                      *)
LEMMA FillType ==
  ASSUME TypeOK, Fill
  PROVE  /\ TypeOK' /\ pc' = "publish" /\ ~RingFull /\ prep.loaded
         /\ \E n \in 1..(Current(plan).mm - prep.end) :
              segments' = [segments EXCEPT ![segHead] = [n |-> n, block |-> prep.index]]
         /\ UNCHANGED <<plan, prep, stBlocks, segHead, segTail, st, taken, lengths>>
<1>1. /\ plan \in Plans /\ prep \in Preps /\ segHead \in SegmentSlots
      /\ segments \in [SegmentSlots -> [n : Nat, block : BlockSlots]]
  BY Types
<1>2. PICK n \in 1..(Current(plan).mm - prep.end) :
        segments' = [segments EXCEPT ![segHead] = [n |-> n, block |-> prep.index]]
  BY DEF Fill
<1>3. Current(plan).mm \in Nat /\ prep.end \in Nat /\ prep.index \in BlockSlots
  BY <1>1, PlanParts DEF Current, Preps
<1>4. n \in Nat BY <1>2, <1>3
<1>5. segments' \in [SegmentSlots -> [n : Nat, block : BlockSlots]] BY <1>1, <1>2, <1>3, <1>4
<1>6. /\ pc' = "publish" /\ ~RingFull /\ prep.loaded
      /\ UNCHANGED <<plan, slow, sysVars, wake, prep, stBlocks, segHead, stepperVars, cycleStop,
                     boundVars>>
  BY DEF Fill
<1>7. TypeOK' BY <1>1, <1>5, <1>6, TypesNext DEF sysVars, stepperVars, boundVars
<1> QED BY <1>2, <1>6, <1>7 DEF stepperVars, boundVars

(* The interrupt executes the first segment.                               *)
LEMMA PoppedIs ==
  ASSUME TypeOK, Ringed, Stepped, Step
  PROVE  /\ Held > 0
         /\ Popped \in [running : BOOLEAN, index : BlockSlots, count : Nat, traced : Nat]
         /\ Popped.running /\ Popped.count = SegmentLeft(0) /\ Popped.count > 0
         /\ Popped.index = Segment(0).block
         /\ Popped.traced = IF st.index = Segment(0).block THEN st.traced ELSE 0
<1>1. /\ st \in [running : BOOLEAN, index : BlockSlots, count : Nat, traced : Nat]
      /\ segments \in [SegmentSlots -> [n : Nat, block : BlockSlots]]
      /\ segHead \in SegmentSlots /\ segTail \in SegmentSlots
  BY Types
<1>2. Held \in Nat /\ Segment(0) = segments[segTail] /\ (Held = 0 <=> RingEmpty)
  BY <1>1, HeldIs, SizesAre
<1>3. Held > 0 BY <1>2 DEF Step, Stepped
<1>4. segments[segTail] \in [n : Nat, block : BlockSlots] BY <1>1
<1>5. Segment(0).n > 0 BY <1>2, <1>3 DEF Ringed
<1>6. CASE st.running
  <2>1. Popped = st /\ SegmentLeft(0) = st.count BY <1>6 DEF Popped, SegmentLeft
  <2> QED BY <1>1, <1>3, <1>6, <2>1 DEF Stepped
<1>7. CASE ~st.running
  <2>1. Popped = [running |-> TRUE, index |-> segments[segTail].block,
                  count |-> segments[segTail].n,
                  traced |-> IF segments[segTail].block = st.index THEN st.traced ELSE 0]
    BY <1>7 DEF Popped
  <2>2. SegmentLeft(0) = Segment(0).n BY <1>7 DEF SegmentLeft
  <2> QED BY <1>1, <1>2, <1>3, <1>4, <1>5, <2>1, <2>2
<1> QED BY <1>6, <1>7

(* A step keeps the types.                                                 *)
LEMMA StepType ==
  ASSUME TypeOK, Ringed, Stepped, Step
  PROVE  TypeOK'
<1>1. /\ Popped \in [running : BOOLEAN, index : BlockSlots, count : Nat, traced : Nat]
      /\ Popped.count > 0
  BY PoppedIs
<1>2. /\ st' = [Popped EXCEPT !.count = @ - 1, !.traced = @ + 1, !.running = Popped.count # 1]
      /\ segTail' = IF Popped.count = 1 THEN NextSegment(segTail) ELSE segTail
      /\ UNCHANGED <<plan, slow, sysVars, pc, wake, motionVars, timer, cycleStop, boundVars>>
  BY DEF Step
<1>3. st' \in [running : BOOLEAN, index : BlockSlots, count : Nat, traced : Nat]
  <2> DEFINE p == Popped
             more == p.count # 1
  <2>1. st' = [p EXCEPT !.count = p.count - 1, !.traced = p.traced + 1, !.running = more]
    BY <1>2
  <2>2. more \in BOOLEAN /\ p.count - 1 \in Nat /\ p.traced + 1 \in Nat BY <1>1
  <2>3. p \in [running : BOOLEAN, index : BlockSlots, count : Nat, traced : Nat] BY <1>1
  <2> HIDE DEF p, more
  <2> QED BY <2>1, <2>2, <2>3
<1>4. segHead \in SegmentSlots /\ segTail \in SegmentSlots BY Types
<1>5. UNCHANGED segTail \/ segTail' \in SegmentSlots BY <1>2, <1>4, HeldIs
<1>6. plan \in Plans /\ prep \in Preps BY Types
<1> QED BY <1>2, <1>3, <1>5, <1>6, TypesNext DEF sysVars, motionVars, boundVars

(* Every step keeps the types.                                             *)
LEMMA TypeStep ==
  ASSUME TypeOK, Ringed, Written, Stepped, [Next]_vars
  PROVE  TypeOK'
<1>1. CASE Generate
  BY <1>1, PassesKeep, LoadType, FillType, PublishType DEF Generate, Passes
<1>2. CASE Interrupt BY <1>2, StepType, PassesKeep DEF Interrupt, Passes
<1>3. CASE CycleStop BY <1>3, ReplansKeep DEF Replans
<1>4. CASE Operate BY <1>4, PassesKeep, ReplansKeep, FlushType DEF Operate, Passes, Replans
<1>5. CASE Host BY <1>5, PlanLineType DEF Host
<1>6. CASE UNCHANGED vars
  BY <1>6 DEF vars, sysVars, motionVars, stepperVars, boundVars, TypeOK
<1> QED BY <1>1, <1>2, <1>3, <1>4, <1>5, <1>6 DEF Next

-------------------------------------------------------------------------------
(* What is left of a line                                                  *)

(* A sum with one term that is not 0.                                      *)
LEMMA TotalOne ==
  ASSUME NEW n \in Nat, NEW f \in [0..(n - 1) -> Int], NEW j \in 0..(n - 1),
         \A k \in 0..(n - 1) : k # j => f[k] = 0
  PROVE  Total(f, n) = f[j]
<1> DEFINE t == [k \in 0..n |-> IF k <= j THEN 0 ELSE f[j]]
<1>1. t \in [0..n -> Int] /\ t[0] = 0 /\ t[n] = f[j] OBVIOUS
<1>2. ASSUME NEW k \in 1..n PROVE t[k] = t[k - 1] + f[k - 1]
  <2>1. k - 1 \in 0..(n - 1) /\ f[j] \in Int /\ f[k - 1] \in Int OBVIOUS
  <2>2. t[k] = (IF k <= j THEN 0 ELSE f[j]) /\ t[k - 1] = IF k - 1 <= j THEN 0 ELSE f[j]
    OBVIOUS
  <2>3. k - 1 # j => f[k - 1] = 0 BY <2>1
  <2> HIDE DEF t
  <2> QED BY <2>1, <2>2, <2>3
<1> HIDE DEF t
<1>3. Total(f, n) = t[n] BY <1>1, <1>2, TotalIs
<1> QED BY <1>1, <1>3

(* What is left of a line in the plan.                                     *)
PlanTells ==
  \A line \in Nat :
    /\ \A k \in 0..(Count - 1) : line = First + k => PlanLeft(line) = BlockAt(k).mm
    /\ line \notin First..(First + Count - 1) => PlanLeft(line) = 0

(* The blocks are the last lines, so that this holds.                      *)
LEMMA PlanLeftIs == TypeOK /\ Lined => PlanTells
<1> SUFFICES ASSUME TypeOK, Lined, NEW line \in Nat
             PROVE  /\ \A k \in 0..(Count - 1) : line = First + k => PlanLeft(line) = BlockAt(k).mm
                    /\ line \notin First..(First + Count - 1) => PlanLeft(line) = 0
  BY DEF PlanTells
<1> DEFINE f == [k \in 0..(Count - 1) |-> IF BlockAt(k).id = line THEN BlockAt(k).mm ELSE 0]
<1>1. Count \in 0..(BlockBufferSize - 1) /\ Count \in Nat /\ Len(lengths) \in Nat
      /\ \A k \in 0..(BlockBufferSize - 1) : BlockAt(k) \in Block
  <2>1. plan \in Plans /\ lengths \in Seq(Nat) BY Types
  <2> QED BY <2>1, CountIs, SizesAre
<1>2. First \in Int BY <1>1 DEF First
<1>3. \A k \in 0..(Count - 1) : BlockAt(k).mm \in Nat
  <2>1. \A k \in 0..(Count - 1) : k \in 0..(BlockBufferSize - 1) BY <1>1, SizesAre
  <2> QED BY <1>1, <2>1 DEF Block
<1>4. \A k \in 0..(Count - 1) : BlockAt(k).id = First + k BY DEF Lined
<1>5. f \in [0..(Count - 1) -> Int] BY <1>3
<1>6. \A k \in 0..(Count - 1) : f[k] = IF First + k = line THEN BlockAt(k).mm ELSE 0
  BY <1>4
<1>7. PlanLeft(line) = Total(f, Count) BY DEF PlanLeft
<1> HIDE DEF f
<1>8. ASSUME NEW j \in 0..(Count - 1), line = First + j PROVE PlanLeft(line) = BlockAt(j).mm
  <2>1. \A k \in 0..(Count - 1) : k # j => f[k] = 0 BY <1>1, <1>2, <1>6, <1>8
  <2>2. Total(f, Count) = f[j] BY <1>1, <1>5, <2>1, TotalOne
  <2>3. f[j] = BlockAt(j).mm BY <1>6, <1>8
  <2> QED BY <1>7, <2>2, <2>3
<1>9. ASSUME line \notin First..(First + Count - 1) PROVE PlanLeft(line) = 0
  <2>1. \A k \in 0..(Count - 1) : First + k # line BY <1>1, <1>2, <1>9
  <2>2. \A k \in 0..(Count - 1) : f[k] = 0 BY <1>6, <2>1
  <2> QED BY <1>1, <1>5, <1>7, <2>2, TotalNone
<1> QED BY <1>8, <1>9

(* The same of the next state.                                             *)
LEMMA PlanLeftIsNext == (TypeOK /\ Lined => PlanTells)'
BY PlanLeftIs, PTL

(* What is left of a line in the segments.                                 *)
RingPart(line) ==
  [k \in 0..(Held - 1) |-> IF Holds(k) = line THEN SegmentLeft(k) ELSE 0]

RingTells ==
  /\ Held \in 0..(SegmentBufferSize - 1)
  /\ \A k \in 0..(SegmentBufferSize - 1) : /\ Segment(k) \in [n : Nat, block : BlockSlots]
                                           /\ Holds(k) \in 0..MaxLines
                                           /\ SegmentLeft(k) \in Nat
  /\ \A line \in Nat : /\ RingPart(line) \in [0..(Held - 1) -> Nat]
                       /\ RingLeft(line) = Total(RingPart(line), Held)
                       /\ RingLeft(line) \in Nat
                       /\ (\A k \in 0..(Held - 1) : Holds(k) # line) => RingLeft(line) = 0

(* The segments are typed, so that this holds.                             *)
LEMMA RingIs == TypeOK => RingTells
<1> SUFFICES ASSUME TypeOK PROVE RingTells OBVIOUS
<1>1. /\ segHead \in SegmentSlots /\ segTail \in SegmentSlots
      /\ segments \in [SegmentSlots -> [n : Nat, block : BlockSlots]]
      /\ stBlocks \in [BlockSlots -> 0..MaxLines]
      /\ st \in [running : BOOLEAN, index : BlockSlots, count : Nat, traced : Nat]
  BY Types
<1>2. Held \in 0..(SegmentBufferSize - 1) /\ Held \in Nat BY <1>1, HeldIs, SizesAre
<1>3. ASSUME NEW k \in 0..(SegmentBufferSize - 1)
      PROVE  /\ Segment(k) \in [n : Nat, block : BlockSlots] /\ Holds(k) \in 0..MaxLines
             /\ SegmentLeft(k) \in Nat
  <2>1. (segTail + k) % SegmentBufferSize \in SegmentSlots BY <1>1, HeldIs
  <2>2. Segment(k) \in [n : Nat, block : BlockSlots] BY <1>1, <2>1 DEF Segment
  <2>3. Segment(k).n \in Nat /\ Segment(k).block \in BlockSlots /\ st.count \in Nat BY <1>1, <2>2
  <2> QED BY <1>1, <2>2, <2>3 DEF Holds, SegmentLeft
<1>4. ASSUME NEW line \in Nat
      PROVE  /\ RingPart(line) \in [0..(Held - 1) -> Nat]
             /\ RingLeft(line) = Total(RingPart(line), Held)
             /\ RingLeft(line) \in Nat
             /\ (\A k \in 0..(Held - 1) : Holds(k) # line) => RingLeft(line) = 0
  <2>1. \A k \in 0..(Held - 1) : k \in 0..(SegmentBufferSize - 1) BY <1>2, SizesAre
  <2>2. \A k \in 0..(Held - 1) : SegmentLeft(k) \in Nat BY <1>3, <2>1
  <2>3. RingPart(line) \in [0..(Held - 1) -> Nat] BY <2>2 DEF RingPart
  <2>4. RingLeft(line) = Total(RingPart(line), Held) BY DEF RingLeft, RingPart, Holds
  <2>5. Total(RingPart(line), Held) \in Nat BY <1>2, <2>3, TotalNat
  <2>6. ASSUME \A k \in 0..(Held - 1) : Holds(k) # line PROVE RingLeft(line) = 0
    <3>1. \A k \in 0..(Held - 1) : RingPart(line)[k] = 0 BY <2>6 DEF RingPart
    <3>2. RingPart(line) \in [0..(Held - 1) -> Int] BY <2>3
    <3> QED BY <1>2, <2>4, <3>1, <3>2, TotalNone
  <2> QED BY <2>3, <2>4, <2>5, <2>6
<1> QED BY <1>2, <1>3, <1>4 DEF RingTells

(* The same of the next state.                                             *)
LEMMA RingIsNext == (TypeOK => RingTells)'
BY RingIs, PTL

(* The lines before the one in front are gone.                             *)
LinesTell ==
  /\ First \in 1..(Len(lengths) + 1) /\ Cur \in Nat /\ Cur <= Len(lengths)
  /\ First + Count - 1 = Len(lengths)
  /\ \A k \in 0..(Held - 1) : Holds(k) \in Front..Cur
  /\ Front \in 1..(Len(lengths) + 1) /\ Front <= First
  /\ FrontBegun => Front <= Len(lengths)
  /\ \A line \in 1..Len(lengths) :
       /\ Left(line) \in Nat
       /\ line < Front => Left(line) = 0

(* The lines of plan and ring are in order, so that this holds.            *)
LEMMA LinesAre == TypeOK /\ Lined /\ Ringed => LinesTell
<1> SUFFICES ASSUME TypeOK, Lined, Ringed PROVE LinesTell OBVIOUS
<1>0. PlanTells /\ RingTells BY PlanLeftIs, RingIs
<1>1. Held \in 0..(SegmentBufferSize - 1) /\ Held \in Nat BY <1>0, SizesAre DEF RingTells
<1>2. Count \in 0..(BlockBufferSize - 1) /\ Count \in Nat /\ Len(lengths) \in Nat
      /\ \A k \in 0..(BlockBufferSize - 1) : BlockAt(k) \in Block
  <2>1. plan \in Plans /\ lengths \in Seq(Nat) BY Types
  <2> QED BY <2>1, CountIs, SizesAre
<1>3. /\ First \in 1..(Len(lengths) + 1) /\ Cur \in Nat /\ Cur <= Len(lengths)
      /\ First + Count - 1 = Len(lengths)
  BY <1>2 DEF Lined, First, Cur
<1>4. ASSUME NEW k \in 0..(Held - 1) PROVE Holds(k) \in Front..Cur /\ Holds(k) \in Nat
  <2>1. Held > 0 /\ 0 \in 0..(Held - 1) BY <1>1
  <2>2. Front = Holds(0) /\ Holds(0) <= Holds(k) BY <1>1, <2>1 DEF Front, Ringed
  <2>3. Cur - Holds(k) \in 0..(SegmentBufferSize - 2) BY DEF Ringed
  <2>4. k \in 0..(SegmentBufferSize - 1) /\ 0 \in 0..(SegmentBufferSize - 1)
    BY <1>1, <2>1, SizesAre
  <2>5. Holds(k) \in 0..MaxLines /\ Holds(0) \in 0..MaxLines BY <1>0, <2>4 DEF RingTells
  <2>6. MaxLines \in Nat BY MotionAssumption
  <2> QED BY <1>3, <2>2, <2>3, <2>5, <2>6, SizesAre
<1>5. Front \in 1..(Len(lengths) + 1) /\ Front <= First /\ (FrontBegun => Front <= Len(lengths))
  <2>1. CASE Held > 0
    <3>1. 0 \in 0..(Held - 1) BY <1>1, <2>1
    <3>2. Front = Holds(0) /\ Holds(0) > 0 /\ Holds(0) \in Front..Cur BY <1>4, <2>1, <3>1 DEF Front, Ringed
    <3>3. Cur <= First BY <1>3 DEF Cur
    <3>4. Holds(0) \in Nat BY <1>4, <3>1
    <3> QED BY <1>3, <3>2, <3>3, <3>4
  <2>2. CASE ~(Held > 0)
    <3>1. Front = First /\ (FrontBegun => Begun) BY <2>2 DEF Front, FrontBegun
    <3>2. Begun => First <= Len(lengths) BY <1>2, <1>3 DEF Lined
    <3> QED BY <1>3, <3>1, <3>2
  <2> QED BY <2>1, <2>2
<1>6. ASSUME NEW line \in 1..Len(lengths)
      PROVE  Left(line) \in Nat /\ (line < Front => Left(line) = 0)
  <2>1. line \in Nat OBVIOUS
  <2>2. RingLeft(line) \in Nat BY <1>0, <2>1 DEF RingTells
  <2>3. PlanLeft(line) \in Nat
    <3>1. CASE line \in First..(First + Count - 1)
      <4> DEFINE k == line - First
      <4>1. k \in 0..(BlockBufferSize - 1) /\ k \in 0..(Count - 1) /\ line = First + k
        BY <1>2, <1>3, <3>1, SizesAre
      <4> HIDE DEF k
      <4>2. BlockAt(k).mm \in Nat BY <1>2, <4>1 DEF Block
      <4> QED BY <1>0, <2>1, <4>1, <4>2 DEF PlanTells
    <3>2. CASE line \notin First..(First + Count - 1) BY <1>0, <2>1, <3>2 DEF PlanTells
    <3> QED BY <3>1, <3>2
  <2>4. ASSUME line < Front PROVE Left(line) = 0
    <3>1. PlanLeft(line) = 0
      <4>1. line \notin First..(First + Count - 1) BY <1>3, <1>5, <2>4
      <4> QED BY <1>0, <2>1, <4>1 DEF PlanTells
    <3>2. RingLeft(line) = 0
      <4>1. \A k \in 0..(Held - 1) : Holds(k) # line BY <1>3, <1>4, <1>5, <2>4
      <4> QED BY <1>0, <2>1, <4>1 DEF RingTells
    <3> QED BY <3>1, <3>2 DEF Left
  <2> QED BY <2>2, <2>3, <2>4 DEF Left
<1> QED BY <1>3, <1>4, <1>5, <1>6 DEF LinesTell

(* The same of the next state.                                             *)
LEMMA LinesAreNext == (TypeOK /\ Lined /\ Ringed => LinesTell)'
BY LinesAre, PTL

-------------------------------------------------------------------------------
(* Steps of the main program that leave the work alone                     *)

(* The same work is the same blocks.                                       *)
LEMMA PlanKept ==
  ASSUME plan \in Plans, SameWork(plan, plan')
  PROVE  /\ Count' = Count
         /\ \A k \in 0..(BlockBufferSize - 1) :
              BlockAt(k)'.id = BlockAt(k).id /\ BlockAt(k)'.mm = BlockAt(k).mm
<1>1. plan'.tail = plan.tail /\ plan'.head = plan.head BY DEF SameWork
<1>2. Count' = Count BY <1>1 DEF Count
<1>3. ASSUME NEW k \in 0..(BlockBufferSize - 1)
      PROVE  BlockAt(k)'.id = BlockAt(k).id /\ BlockAt(k)'.mm = BlockAt(k).mm
  <2> DEFINE i == (plan.tail + k) % BlockBufferSize
  <2>1. i \in Slots
    <3>1. plan.tail \in 0..(BlockBufferSize - 1) /\ plan.head \in 0..(BlockBufferSize - 1)
      BY PlanParts, SizesAre
    <3>2. RingLaws(BlockBufferSize, plan.head, plan.tail, Count)
      BY <3>1, Rings, SizesAre DEF Count
    <3> QED BY <3>2, SizesAre DEF RingLaws
  <2>2. BlockAt(k)' = plan'.blocks[i] /\ BlockAt(k) = plan.blocks[i] BY <1>1 DEF BlockAt
  <2> HIDE DEF i
  <2> QED BY <2>1, <2>2 DEF SameWork
<1> QED BY <1>2, <1>3

(* The invariant without what is about to be published, and what it and    *)
(* the next state say of the lines.                                        *)
Lines == TypeOK /\ Lined /\ Ringed /\ Stepped
LeftKept == \A line \in 1..Len(lengths) : Left(line)' = Left(line)

(* What the invariant says of the numbers.                                 *)
LEMMA LinesSay ==
  ASSUME Lines
  PROVE  /\ PlanTells /\ RingTells /\ LinesTell
         /\ plan \in Plans /\ prep \in Preps /\ lengths \in Seq(Nat) /\ Len(lengths) \in Nat
         /\ segHead \in SegmentSlots /\ segTail \in SegmentSlots
         /\ Held \in 0..(SegmentBufferSize - 1) /\ Held \in Nat
         /\ Count \in 0..(BlockBufferSize - 1) /\ Count \in Nat
         /\ \A k \in 0..(Held - 1) : k \in 0..(SegmentBufferSize - 1)
         /\ \A k \in 0..(Count - 1) : k \in 0..(BlockBufferSize - 1)
         /\ First \in Nat /\ Cur \in Nat /\ Front \in Nat
<1>1. /\ plan \in Plans /\ prep \in Preps /\ lengths \in Seq(Nat)
      /\ segHead \in SegmentSlots /\ segTail \in SegmentSlots
  BY Types DEF Lines
<1>2. PlanTells /\ RingTells /\ LinesTell BY PlanLeftIs, RingIs, LinesAre DEF Lines
<1>3. Held \in 0..(SegmentBufferSize - 1) /\ Count \in 0..(BlockBufferSize - 1)
  BY <1>1, HeldIs, CountIs
<1>4. Len(lengths) \in Nat BY <1>1
<1>5. First \in Nat /\ Cur \in Nat /\ Front \in Nat BY <1>2, <1>4 DEF LinesTell
<1> QED BY <1>1, <1>2, <1>3, <1>4, <1>5, SizesAre

(* Replanning keeps the lines of the plan.                                 *)
LEMMA LinedKept ==
  ASSUME Lines, SameWork(plan, plan'), Begun' = Begun, prep'.index = prep.index, Once',
         UNCHANGED <<stBlocks, lengths>>
  PROVE  /\ Lined' /\ First' = First /\ Cur' = Cur /\ Count' = Count
         /\ \A k \in 0..(BlockBufferSize - 1) : BlockAt(k)'.mm = BlockAt(k).mm
<1>0. plan \in Plans /\ \A k \in 0..(Count - 1) : k \in 0..(BlockBufferSize - 1) BY LinesSay
<1>1. /\ Count' = Count
      /\ \A k \in 0..(BlockBufferSize - 1) :
           BlockAt(k)'.id = BlockAt(k).id /\ BlockAt(k)'.mm = BlockAt(k).mm
  BY <1>0, PlanKept
<1>2. First' = First BY <1>1 DEF First
<1>3. Cur' = Cur BY <1>2 DEF Cur
<1>4. Lined'
  <2>1. Count' <= Len(lengths') /\ Once' BY <1>1 DEF Lines, Lined
  <2>2. Begun' => Count' > 0 /\ stBlocks'[prep'.index] = First'
    BY <1>1, <1>2 DEF Lines, Lined
  <2>3. \A k \in 0..(Count' - 1) :
          /\ BlockAt(k)'.id = First' + k /\ BlockAt(k)'.mm > 0
          /\ k > 0 \/ ~Begun' => BlockAt(k)'.mm = lengths'[First' + k]
    BY <1>0, <1>1, <1>2 DEF Lines, Lined
  <2> QED BY <2>1, <2>2, <2>3 DEF Lined
<1> QED BY <1>1, <1>2, <1>3, <1>4

(* A plan that says as much as before of the lines.                        *)
LEMMA PlanLeftKept ==
  ASSUME Lines, TypeOK', Lined', First' = First, Count' = Count,
         \A k \in 0..(Count - 1) : BlockAt(k)'.mm = BlockAt(k).mm
  PROVE  \A line \in Nat : PlanLeft(line)' = PlanLeft(line)
<1>1. PlanTells /\ PlanTells' BY LinesSay, PlanLeftIsNext
<1> SUFFICES ASSUME NEW line \in Nat PROVE PlanLeft(line)' = PlanLeft(line) OBVIOUS
<1>4. First \in Nat /\ Count \in Nat BY LinesSay
<1>5. CASE line \in First..(First + Count - 1)
  <2>1. PICK k \in 0..(Count - 1) : line = First + k
    <3>1. line - First \in 0..(Count - 1) /\ line = First + (line - First) BY <1>4, <1>5
    <3> QED BY <3>1
  <2>2. PlanLeft(line) = BlockAt(k).mm BY <1>1, <2>1 DEF PlanTells
  <2>3. PlanLeft(line)' = BlockAt(k)'.mm BY <1>1, <2>1 DEF PlanTells
  <2>4. BlockAt(k)'.mm = BlockAt(k).mm BY <2>1
  <2> QED BY <2>2, <2>3, <2>4
<1>6. CASE line \notin First..(First + Count - 1) BY <1>1, <1>6 DEF PlanTells
<1> QED BY <1>5, <1>6

(* Segments that are left alone hold what they held.                       *)
LEMMA SegmentsKept ==
  ASSUME UNCHANGED <<segHead, segTail, st>>,
         \A k \in 0..(Held - 1) : Segment(k)' = Segment(k) /\ Holds(k)' = Holds(k)
  PROVE  /\ Held' = Held
         /\ \A line \in Nat : RingPart(line)' = RingPart(line)
<1>1. Held' = Held BY DEF Held
<1>2. ASSUME NEW line \in Nat PROVE RingPart(line)' = RingPart(line)
  <2>1. \A k \in 0..(Held - 1) : SegmentLeft(k)' = SegmentLeft(k) BY DEF SegmentLeft
  <2>2. RingPart(line)' = [k \in 0..(Held' - 1) |-> IF Holds(k)' = line THEN SegmentLeft(k)' ELSE 0]
    BY DEF RingPart
  <2> QED BY <1>1, <2>1, <2>2 DEF RingPart
<1> QED BY <1>1, <1>2

(* Segments that are the same, of lines that are the same.                 *)
LEMMA RingKept ==
  ASSUME Lines, TypeOK', First' = First, Cur' = Cur, Begun' = Begun, prep'.index = prep.index,
         UNCHANGED <<stBlocks, segHead, segTail, st>>,
         \A k \in 0..(Held - 1) : Segment(k)' = Segment(k)
  PROVE  /\ Ringed' /\ \A line \in Nat : RingLeft(line)' = RingLeft(line)
         /\ Front' = Front /\ FrontSlot' = FrontSlot /\ FrontBegun' = FrontBegun
         /\ Traced' = Traced
         /\ st'.running => Held' > 0 /\ st'.count > 0 /\ st'.index = Segment(0)'.block
         /\ ~FrontBegun' => st'.index = prep'.index
<1>0. RingTells /\ Held \in Nat BY LinesSay
<1>1. \A k \in 0..(Held - 1) : Holds(k)' = Holds(k) BY DEF Holds
<1>2. Held' = Held /\ \A line \in Nat : RingPart(line)' = RingPart(line)
  BY <1>1, SegmentsKept
<1>3. Ringed'
  <2>1. ASSUME NEW k \in 0..(Held - 1)
        PROVE  /\ Segment(k)'.n > 0 /\ Holds(k)' > 0
               /\ Segment(k)'.block = (prep'.index - (Cur' - Holds(k)')) % (SegmentBufferSize - 1)
               /\ Cur' - Holds(k)' \in 0..(SegmentBufferSize - 2)
               /\ Cur' - Holds(k)' <= IF Begun' THEN Held' - k ELSE Held' - k - 1
    <3>1. /\ Segment(k).n > 0 /\ Holds(k) > 0
          /\ Segment(k).block = (prep.index - (Cur - Holds(k))) % (SegmentBufferSize - 1)
          /\ Cur - Holds(k) \in 0..(SegmentBufferSize - 2)
          /\ Cur - Holds(k) <= IF Begun THEN Held - k ELSE Held - k - 1
      BY DEF Lines, Ringed
    <3>2. Segment(k)' = Segment(k) /\ Holds(k)' = Holds(k) BY <1>1
    <3> QED BY <1>2, <3>1, <3>2
  <2>2. \A j, k \in 0..(Held - 1) :
          j <= k => Holds(j)' <= Holds(k)' /\ Holds(k)' <= Holds(j)' + (k - j)
    BY <1>1 DEF Lines, Ringed
  <2> QED BY <1>2, <2>1, <2>2 DEF Ringed
<1>4. \A line \in Nat : RingLeft(line)' = RingLeft(line)
  <2>1. RingTells' BY RingIsNext
  <2>2. \A line \in Nat : /\ RingLeft(line) = Total(RingPart(line), Held)
                          /\ RingLeft(line)' = Total(RingPart(line)', Held')
    BY <1>0, <2>1 DEF RingTells
  <2> QED BY <1>2, <2>2
<1>5. Held > 0 => Holds(0)' = Holds(0) /\ Segment(0)' = Segment(0) BY <1>0, <1>1
<1>6. Front' = Front BY <1>2, <1>5 DEF Front
<1>7. FrontSlot' = FrontSlot BY <1>2, <1>5 DEF FrontSlot
<1>8. FrontBegun' = FrontBegun BY <1>2 DEF FrontBegun
<1>9. Traced' = Traced BY <1>7 DEF Traced
<1>10. st'.running => Held' > 0 /\ st'.count > 0 /\ st'.index = Segment(0)'.block
  BY <1>2, <1>5 DEF Lines, Stepped
<1>11. ~FrontBegun' => st'.index = prep'.index BY <1>8 DEF Lines, Stepped
<1> QED BY <1>3, <1>4, <1>6, <1>7, <1>8, <1>9, <1>10, <1>11

(* A step that changes no work keeps the invariant and what is left.       *)
LEMMA LinesKept ==
  ASSUME Lines, TypeOK', SameWork(plan, plan'), Begun' = Begun, prep'.index = prep.index,
         Once', UNCHANGED <<stBlocks, segHead, segTail, st, lengths>>,
         \A k \in 0..(Held - 1) : Segment(k)' = Segment(k)
  PROVE  (Lined /\ Ringed /\ Stepped)' /\ LeftKept
<1>0. \A k \in 0..(Count - 1) : k \in 0..(BlockBufferSize - 1) BY LinesSay
<1>1. /\ Lined' /\ First' = First /\ Cur' = Cur /\ Count' = Count
      /\ \A k \in 0..(BlockBufferSize - 1) : BlockAt(k)'.mm = BlockAt(k).mm
  BY LinedKept
<1>2. /\ Ringed' /\ \A line \in Nat : RingLeft(line)' = RingLeft(line)
      /\ Front' = Front /\ FrontBegun' = FrontBegun /\ Traced' = Traced
      /\ st'.running => Held' > 0 /\ st'.count > 0 /\ st'.index = Segment(0)'.block
      /\ ~FrontBegun' => st'.index = prep'.index
  BY <1>1, RingKept
<1>3. LeftKept
  <2>1. \A line \in Nat : PlanLeft(line)' = PlanLeft(line) BY <1>0, <1>1, PlanLeftKept
  <2>2. \A line \in 1..Len(lengths) : line \in Nat OBVIOUS
  <2> QED BY <1>2, <2>1, <2>2 DEF LeftKept, Left
<1>4. \A line \in 1..Len(lengths') :
        /\ line < Front' => Left(line)' = 0
        /\ line = Front' /\ FrontBegun' => Left(line)' = lengths'[line] - Traced'
        /\ line > Front' \/ (line = Front' /\ ~FrontBegun') => Left(line)' = lengths'[line]
  BY <1>2, <1>3 DEF Lines, Stepped, LeftKept
<1>5. Stepped' BY <1>2, <1>4 DEF Stepped
<1> QED BY <1>1, <1>2, <1>3, <1>5

-------------------------------------------------------------------------------
(* Loading a block                                                         *)

(* What loading a block changes.                                           *)
LEMMA LoadParts ==
  ASSUME TypeOK, Load
  PROVE  /\ SameWork(plan, plan') /\ Begun' /\ Once' /\ ~prep.loaded /\ ~RingFull /\ ~IsEmpty(plan)
         /\ prep'.index = IF prep.recalculate THEN prep.index
                          ELSE Following(prep.index, SegmentBufferSize - 1)
         /\ stBlocks' = [stBlocks EXCEPT ![prep'.index] = Current(plan).id]
         /\ UNCHANGED <<segments, segHead, segTail, st, lengths, taken, pc>>
<1>1. plan \in Plans /\ prep \in Preps BY Types
<1>2. PICK entry : plan' = [plan EXCEPT !.blocks = [plan.blocks EXCEPT ![plan.tail] =
                             [plan.blocks[plan.tail] EXCEPT !.entry = entry]]]
  BY DEF Load
<1>3. SameWork(plan, plan')
  <2> DEFINE b == [plan.blocks[plan.tail] EXCEPT !.entry = entry]
             bs == [plan.blocks EXCEPT ![plan.tail] = b]
  <2>1. plan.blocks \in [Slots -> Block] /\ plan.tail \in Slots /\ plan.blocks[plan.tail] \in Block
    BY <1>1, PlanParts
  <2>2. b.id = plan.blocks[plan.tail].id /\ b.mm = plan.blocks[plan.tail].mm
    BY <2>1 DEF Block
  <2> HIDE DEF b
  <2>3. \A i \in Slots : bs[i] = IF i = plan.tail THEN b ELSE plan.blocks[i] BY <2>1
  <2>4. plan' = [plan EXCEPT !.blocks = bs] BY <1>2 DEF b
  <2> HIDE DEF bs
  <2>5. plan'.blocks = bs /\ plan'.tail = plan.tail /\ plan'.head = plan.head
    BY <1>1, <2>4 DEF Plans
  <2> QED BY <2>2, <2>3, <2>5 DEF SameWork
<1>4. /\ prep'.loaded = TRUE /\ prep'.recalculate = FALSE
      /\ prep'.index = IF ~prep.recalculate THEN SlotAfter(prep.index) ELSE prep.index
      /\ stBlocks' = [stBlocks EXCEPT ![prep'.index] = Current(plan).id]
  BY DEF Load
<1>5. Begun' /\ Once' BY <1>4 DEF Begun, Once
<1>6. SlotAfter(prep.index) = Following(prep.index, SegmentBufferSize - 1)
  BY DEF SlotAfter, st_next_block_index, Following
<1>7. /\ ~prep.loaded /\ ~RingFull /\ ~IsEmpty(plan)
      /\ UNCHANGED <<segments, segHead, segTail, st, lengths, taken, pc>>
  BY DEF Load, stepperVars, boundVars
<1> QED BY <1>3, <1>4, <1>5, <1>6, <1>7

(* The first block is the line to be prepared.                             *)
LEMMA FirstBlock ==
  ASSUME Lines, ~IsEmpty(plan)
  PROVE  Count > 0 /\ Current(plan).id = First /\ First \in 1..Len(lengths)
<1>1. plan \in Plans /\ LinesTell /\ Count \in Nat /\ Len(lengths) \in Nat BY LinesSay
<1>2. Count > 0 /\ BlockAt(0) = Current(plan) BY <1>1, CountIs
<1>3. 0 \in 0..(Count - 1) BY <1>1, <1>2
<1>4. BlockAt(0).id = First + 0 BY <1>3 DEF Lines, Lined
<1>5. First \in Nat BY LinesSay
<1> QED BY <1>1, <1>2, <1>4, <1>5 DEF LinesTell

(* A slot of st_block_buffer is taken for a new line while none of the     *)
(* segments in the ring refers to it.                                      *)
LEMMA SlotIsFree ==
  ASSUME Lines, ~RingFull, ~Begun, NEW index,
         index = Following(prep.index, SegmentBufferSize - 1)
  PROVE  \A k \in 0..(Held - 1) :
           /\ Segment(k).block # index
           /\ Segment(k).block = (index - (Cur + 1 - Holds(k))) % (SegmentBufferSize - 1)
           /\ Cur + 1 - Holds(k) \in 0..(SegmentBufferSize - 2)
<1> DEFINE M == SegmentBufferSize - 1
<1>1. M \in Nat \ {0} /\ BlockSlots = 0..(M - 1) BY SizesAre
<1>2. prep.index \in 0..(M - 1) /\ prep \in Preps BY <1>1, LinesSay DEF Preps
<1>3. index \in 0..(M - 1) BY <1>1, <1>2 DEF Following
<1>4. BackLaws(M, prep.index) /\ BackLaws(M, index) BY <1>1, <1>2, <1>3, Backwards
<1>5. Held <= SegmentBufferSize - 2
  <2>1. segHead \in SegmentSlots /\ segTail \in SegmentSlots BY LinesSay
  <2>2. Held \in 0..(SegmentBufferSize - 1) /\ Held # SegmentBufferSize - 1 BY <2>1, HeldIs
  <2> QED BY <2>2, SizesAre
<1> SUFFICES ASSUME NEW k \in 0..(Held - 1)
             PROVE  /\ Segment(k).block # index
                    /\ Segment(k).block = (index - (Cur + 1 - Holds(k))) % M
                    /\ Cur + 1 - Holds(k) \in 0..(SegmentBufferSize - 2)
  BY DEF M
<1> DEFINE d == Cur - Holds(k)
<1>6. d \in 0..(SegmentBufferSize - 2) /\ d <= Held - k - 1
      /\ Segment(k).block = (prep.index - d) % M
  BY DEF Lines, Ringed, M
<1>7. Held \in Nat /\ Cur \in Nat /\ Holds(k) \in Nat
  <2>1. k \in 0..(SegmentBufferSize - 1) /\ RingTells BY LinesSay
  <2>2. Holds(k) \in 0..MaxLines BY <2>1 DEF RingTells
  <2> QED BY <2>2, LinesSay, MotionAssumption
<1>8. Cur + 1 - Holds(k) = d + 1 BY <1>7
<1> HIDE DEF d
<1>13. index = Following(prep.index, M) /\ d + 1 \in 0..(SegmentBufferSize - 2)
  BY <1>5, <1>6, <1>7, SizesAre DEF M
<1>9. d \in 0..(M - 1) /\ d + 1 \in 0..(M - 1) /\ d + 1 # 0 /\ 0 \in 0..(M - 1)
  BY <1>5, <1>6, <1>7, SizesAre DEF M
<1> HIDE DEF M
<1>10. (index - (d + 1)) % M = (prep.index - d) % M BY <1>4, <1>9, <1>13 DEF BackLaws
<1>11. index = (index - 0) % M BY <1>4 DEF BackLaws
<1>12. (index - (d + 1)) % M # (index - 0) % M BY <1>4, <1>9 DEF BackLaws
<1>14. Segment(k).block # index BY <1>6, <1>10, <1>11, <1>12
<1>15. Segment(k).block = (index - (Cur + 1 - Holds(k))) % M BY <1>6, <1>8, <1>10
<1> QED BY <1>8, <1>13, <1>14, <1>15

(* Loading a block keeps the invariant and what is left.                   *)
LEMMA LoadLines ==
  ASSUME Lines, Load
  PROVE  (Lined /\ Ringed /\ Stepped)' /\ LeftKept
<1>0. /\ TypeOK /\ TypeOK' /\ plan \in Plans /\ RingTells /\ LinesTell /\ Held \in Nat
      /\ Len(lengths) \in Nat /\ Count \in Nat /\ First \in Nat
      /\ \A k \in 0..(Held - 1) : k \in 0..(SegmentBufferSize - 1)
      /\ \A k \in 0..(Count - 1) : k \in 0..(BlockBufferSize - 1)
  BY LinesSay, LoadType DEF Lines
<1>1. /\ SameWork(plan, plan') /\ Begun' /\ Once' /\ ~prep.loaded /\ ~RingFull /\ ~IsEmpty(plan)
      /\ prep'.index = IF prep.recalculate THEN prep.index
                       ELSE Following(prep.index, SegmentBufferSize - 1)
      /\ stBlocks' = [stBlocks EXCEPT ![prep'.index] = Current(plan).id]
      /\ UNCHANGED <<segments, segHead, segTail, st, lengths>>
  BY <1>0, LoadParts
<1>2. Count > 0 /\ Current(plan).id = First BY <1>1, FirstBlock
<1>3. stBlocks \in [BlockSlots -> 0..MaxLines] /\ prep'.index \in BlockSlots /\ prep.index \in BlockSlots
  BY <1>0, Types DEF TypeOK, Preps
<1>4. CASE prep.recalculate
  <2>1. Begun /\ prep'.index = prep.index BY <1>1, <1>4 DEF Begun
  <2>2. stBlocks[prep.index] = First BY <2>1 DEF Lines, Lined
  <2>3. stBlocks' = stBlocks BY <1>1, <1>2, <1>3, <2>1, <2>2
  <2>4. \A k \in 0..(Held - 1) : Segment(k)' = Segment(k) BY <1>1 DEF Segment
  <2>5. Begun' = Begun BY <1>1, <2>1 DEF Begun
  <2> QED BY <1>0, <1>1, <2>1, <2>3, <2>4, <2>5, LinesKept
<1>5. CASE ~prep.recalculate
  <2>1. ~Begun /\ prep'.index = Following(prep.index, SegmentBufferSize - 1)
    BY <1>1, <1>5 DEF Begun
  <2> DEFINE M == SegmentBufferSize - 1
  <2>2. \A k \in 0..(Held - 1) :
          /\ Segment(k).block # prep'.index
          /\ Segment(k).block = (prep'.index - (Cur + 1 - Holds(k))) % M
          /\ Cur + 1 - Holds(k) \in 0..(SegmentBufferSize - 2)
    BY <1>1, <2>1, SlotIsFree
  <2>3. ASSUME NEW k \in 0..(Held - 1) PROVE Segment(k)' = Segment(k) /\ Holds(k)' = Holds(k)
    <3>1. Segment(k)' = Segment(k) BY <1>1 DEF Segment
    <3>2. Segment(k) \in [n : Nat, block : BlockSlots] BY <1>0 DEF RingTells
    <3>3. stBlocks'[Segment(k).block] = stBlocks[Segment(k).block]
      BY <1>1, <1>3, <2>2, <3>2
    <3> QED BY <3>1, <3>3 DEF Holds
  <2>4. Held' = Held /\ \A line \in Nat : RingPart(line)' = RingPart(line)
    BY <1>1, <2>3, SegmentsKept
  <2>5. /\ Count' = Count
        /\ \A k \in 0..(BlockBufferSize - 1) :
             BlockAt(k)'.id = BlockAt(k).id /\ BlockAt(k)'.mm = BlockAt(k).mm
    BY <1>0, <1>1, PlanKept
  <2>6. First' = First /\ Cur = First - 1 /\ Cur' = First /\ Cur + 1 = First
    BY <1>0, <1>1, <2>1, <2>5 DEF First, Cur
  <2>7. Lined'
    <3>1. Count' <= Len(lengths') /\ Once' BY <1>1, <2>5 DEF Lines, Lined
    <3>2. stBlocks'[prep'.index] = First' BY <1>1, <1>2, <1>3, <2>6
    <3>3. \A k \in 0..(Count' - 1) :
            /\ BlockAt(k)'.id = First' + k /\ BlockAt(k)'.mm > 0
            /\ k > 0 \/ ~Begun' => BlockAt(k)'.mm = lengths'[First' + k]
      BY <1>0, <1>1, <2>1, <2>5, <2>6 DEF Lines, Lined
    <3> QED BY <1>2, <2>5, <3>1, <3>2, <3>3 DEF Lined
  <2>8. Ringed'
    <3>1. ASSUME NEW k \in 0..(Held - 1)
          PROVE  /\ Segment(k)'.n > 0 /\ Holds(k)' > 0
                 /\ Segment(k)'.block = (prep'.index - (Cur' - Holds(k)')) % (SegmentBufferSize - 1)
                 /\ Cur' - Holds(k)' \in 0..(SegmentBufferSize - 2)
                 /\ Cur' - Holds(k)' <= IF Begun' THEN Held' - k ELSE Held' - k - 1
      <4>1. Segment(k).n > 0 /\ Holds(k) > 0 /\ Cur - Holds(k) <= Held - k - 1
        BY <2>1 DEF Lines, Ringed
      <4>2. Holds(k) \in Nat
        <5>1. Holds(k) \in 0..MaxLines BY <1>0 DEF RingTells
        <5> QED BY <5>1, MotionAssumption
      <4>3. Cur' - Holds(k) <= Held - k BY <1>0, <2>6, <4>1, <4>2
      <4>4. Segment(k)' = Segment(k) /\ Holds(k)' = Holds(k) BY <2>3
      <4>5. Cur' - Holds(k) = Cur + 1 - Holds(k)
        <5>1. Cur' = Cur + 1 BY <2>6
        <5>2. Cur \in Nat BY LinesSay
        <5> QED BY <4>2, <5>1, <5>2
      <4>6. Segment(k)'.block = (prep'.index - (Cur' - Holds(k)')) % (SegmentBufferSize - 1)
        BY <2>2, <4>4, <4>5
      <4>7. Cur' - Holds(k)' \in 0..(SegmentBufferSize - 2) BY <2>2, <4>4, <4>5
      <4> QED BY <1>1, <2>4, <4>1, <4>3, <4>4, <4>6, <4>7
    <3>2. \A j, k \in 0..(Held - 1) :
            j <= k => Holds(j)' <= Holds(k)' /\ Holds(k)' <= Holds(j)' + (k - j)
      BY <2>3 DEF Lines, Ringed
    <3> QED BY <2>4, <3>1, <3>2 DEF Ringed
  <2>9. LeftKept
    <3>1. \A line \in Nat : PlanLeft(line)' = PlanLeft(line)
      BY <1>0, <2>5, <2>6, <2>7, PlanLeftKept
    <3>2. \A line \in Nat : RingLeft(line)' = RingLeft(line)
      <4>1. RingTells' BY <1>0, RingIsNext
      <4>2. \A line \in Nat : /\ RingLeft(line) = Total(RingPart(line), Held)
                              /\ RingLeft(line)' = Total(RingPart(line)', Held')
        BY <1>0, <4>1 DEF RingTells
      <4> QED BY <2>4, <4>2
    <3> QED BY <3>1, <3>2 DEF LeftKept, Left
  <2>10. Stepped'
    <3>1. Front' = Front /\ FrontBegun'
      <4>1. CASE Held > 0
        <5>1. Holds(0)' = Holds(0) BY <1>0, <2>3, <4>1
        <5> QED BY <2>4, <4>1, <5>1 DEF Front, FrontBegun
      <4>2. CASE ~(Held > 0) BY <1>1, <2>4, <2>6, <4>2 DEF Front, FrontBegun
      <4> QED BY <4>1, <4>2
    <3>2. st'.running => Held' > 0 /\ st'.count > 0 /\ st'.index = Segment(0)'.block
      <4>1. Held > 0 => Segment(0)' = Segment(0) BY <1>0, <2>3
      <4> QED BY <1>1, <2>4, <4>1 DEF Lines, Stepped
    <3>3. ASSUME NEW line \in 1..Len(lengths), line = Front
          PROVE  Left(line)' = lengths[line] - Traced'
      <4>1. Left(line)' = Left(line) BY <2>9 DEF LeftKept
      <4>2. CASE Held > 0
        <5>1. FrontBegun /\ FrontSlot' = FrontSlot
          <6>1. Segment(0)' = Segment(0) BY <1>0, <2>3, <4>2
          <6> QED BY <2>4, <4>2, <6>1 DEF FrontBegun, FrontSlot
        <5>2. Traced' = Traced BY <1>1, <5>1 DEF Traced
        <5> QED BY <3>3, <4>1, <5>1, <5>2 DEF Lines, Stepped
      <4>3. CASE ~(Held > 0)
        <5>1. ~FrontBegun BY <2>1, <4>3 DEF FrontBegun
        <5>2. st.index = prep.index /\ Left(line) = lengths[line]
          BY <3>3, <5>1 DEF Lines, Stepped
        <5>3. FrontSlot' = prep'.index BY <2>4, <4>3 DEF FrontSlot
        <5>4. prep'.index # prep.index
          BY <1>3, <2>1, SizesAre DEF Following
        <5>5. Traced' = 0 BY <1>1, <5>2, <5>3, <5>4 DEF Traced
        <5>6. lengths[line] \in Nat
          <6>1. lengths \in Seq(Nat) BY LinesSay
          <6> QED BY <6>1
        <5> QED BY <4>1, <5>2, <5>5, <5>6
      <4> QED BY <4>2, <4>3
    <3>4. \A line \in 1..Len(lengths') :
            /\ line < Front' => Left(line)' = 0
            /\ line = Front' /\ FrontBegun' => Left(line)' = lengths'[line] - Traced'
            /\ line > Front' \/ (line = Front' /\ ~FrontBegun') => Left(line)' = lengths'[line]
      BY <1>1, <2>9, <3>1, <3>3 DEF Lines, Stepped, LeftKept
    <3> QED BY <3>1, <3>2, <3>4 DEF Stepped
  <2> QED BY <2>7, <2>8, <2>9, <2>10
<1> QED BY <1>4, <1>5

-------------------------------------------------------------------------------
(* Publishing a segment                                                    *)

(* The ring as a segment is published.                                     *)
LEMMA RingGrows ==
  ASSUME Lines, Written, Publish
  PROVE  /\ Held' = Held + 1 /\ segments' = segments /\ segTail' = segTail
         /\ \A k \in 0..(Held - 1) : Segment(k)' = Segment(k) /\ Holds(k)' = Holds(k)
                                     /\ SegmentLeft(k)' = SegmentLeft(k)
         /\ \A k \in {Held} : /\ Segment(k)' = segments[segHead]
                              /\ Segment(k)'.block = prep.index /\ Holds(k)' = First
                              /\ SegmentLeft(k)' = segments[segHead].n
         /\ UNCHANGED <<stBlocks, st, lengths, taken>>
<1>1. /\ segHead \in SegmentSlots /\ segTail \in SegmentSlots /\ Held \in Nat
      /\ Held \in 0..(SegmentBufferSize - 1) /\ prep.loaded /\ ~RingFull
      /\ segments[segHead].block = prep.index
      /\ \A k \in 0..(Held - 1) : k \in 0..(SegmentBufferSize - 1)
  BY LinesSay DEF Written, Publish
<1>2. /\ segHead' = NextSegment(segHead)
      /\ UNCHANGED <<stBlocks, segments, segTail, st, lengths, taken>>
  BY DEF Publish, boundVars
<1>3. Held' = Held + 1
  <2>1. RingLaws(SegmentBufferSize, segHead, segTail, Held)
    BY <1>1, Rings, SizesAre DEF Held
  <2>2. NextSegment(segHead) = Following(segHead, SegmentBufferSize) /\ NextSegment(segHead) # segTail
    BY <1>1 DEF NextSegment, Following, RingFull
  <2>3. (NextSegment(segHead) - segTail) % SegmentBufferSize = Held + 1
    BY <2>1, <2>2 DEF RingLaws
  <2> QED BY <1>2, <2>3 DEF Held
<1>4. \A k : Segment(k)' = Segment(k) BY <1>2 DEF Segment
<1>5. \A k : Holds(k)' = Holds(k) /\ SegmentLeft(k)' = SegmentLeft(k)
  BY <1>2, <1>4 DEF Holds, SegmentLeft
<1>6. ASSUME NEW k, k = Held
      PROVE  /\ Segment(k)' = segments[segHead]
             /\ Segment(k)'.block = prep.index /\ Holds(k)' = First
             /\ SegmentLeft(k)' = segments[segHead].n
  <2>1. Segment(k) = segments[segHead] BY <1>1, <1>6, HeldIs DEF Segment
  <2>2. stBlocks[prep.index] = First BY <1>1 DEF Lines, Lined, Begun
  <2>3. k = 0 => ~st.running BY <1>6 DEF Lines, Stepped
  <2>4. Holds(k) = First BY <1>1, <2>1, <2>2 DEF Holds
  <2>5. SegmentLeft(k) = segments[segHead].n BY <2>1, <2>3 DEF SegmentLeft
  <2> QED BY <1>1, <1>4, <1>5, <2>1, <2>4, <2>5
<1> QED BY <1>2, <1>3, <1>4, <1>5, <1>6

(* The steps published are left in the ring.                               *)
LEMMA RingLeftGrows ==
  ASSUME Lines, Written, Publish, TypeOK', NEW line \in Nat
  PROVE  RingLeft(line)' = RingLeft(line) + IF line = First THEN segments[segHead].n ELSE 0
<1>1. RingTells /\ RingTells' /\ Held \in Nat /\ First \in Nat BY LinesSay, RingIsNext
<1>2. /\ Held' = Held + 1
      /\ \A k \in 0..(Held - 1) : Holds(k)' = Holds(k) /\ SegmentLeft(k)' = SegmentLeft(k)
      /\ \A k \in {Held} : Holds(k)' = First /\ SegmentLeft(k)' = segments[segHead].n
  BY RingGrows
<1> DEFINE g == RingPart(line)
           f == RingPart(line)'
<1>3. /\ f \in [0..(Held' - 1) -> Nat] /\ g \in [0..(Held - 1) -> Nat]
      /\ RingLeft(line) = Total(g, Held) /\ RingLeft(line)' = Total(f, Held')
  BY <1>1 DEF RingTells
<1>4. f = [k \in 0..(Held' - 1) |-> IF Holds(k)' = line THEN SegmentLeft(k)' ELSE 0]
  BY DEF RingPart
<1>5. g = [k \in 0..(Held - 1) |-> IF Holds(k) = line THEN SegmentLeft(k) ELSE 0]
  BY DEF RingPart
<1>6. \A k \in 0..(Held - 1) : g[k] = f[k]
  <2>1. \A k \in 0..(Held - 1) : k \in 0..(Held' - 1) BY <1>1, <1>2
  <2> QED BY <1>2, <1>4, <1>5, <2>1
<1>7. f[Held] = IF line = First THEN segments[segHead].n ELSE 0
  <2>1. Held \in 0..(Held' - 1) BY <1>1, <1>2
  <2>2. PICK k \in {Held} : TRUE OBVIOUS
  <2>3. f[k] = IF Holds(k)' = line THEN SegmentLeft(k)' ELSE 0 BY <1>4, <2>1, <2>2
  <2> QED BY <1>1, <1>2, <2>2, <2>3
<1> HIDE DEF f, g
<1>8. f \in [0..Held -> Int] /\ g \in [0..(Held - 1) -> Int]
  <2>1. Held' - 1 = Held BY <1>1, <1>2
  <2> QED BY <1>3, <2>1
<1>9. Total(f, Held + 1) = Total(g, Held) + f[Held] BY <1>1, <1>6, <1>8, TotalNext
<1> QED BY <1>2, <1>3, <1>7, <1>9

(* The plan as steps of its first block are published, and as the block is *)
(* done.                                                                   *)
LEMMA PlanShrinks ==
  ASSUME Lines, Written, Publish
  PROVE  LET left == Current(plan).mm - segments[segHead].n
         IN  /\ Count > 0 /\ left \in Nat /\ Current(plan).mm = BlockAt(0).mm
             /\ left > 0 => /\ Count' = Count /\ BlockAt(0)'.mm = left
                            /\ BlockAt(0)'.id = BlockAt(0).id
                            /\ \A k \in 1..(BlockBufferSize - 1) : BlockAt(k)' = BlockAt(k)
             /\ left = 0 => /\ Count' = Count - 1
                            /\ \A j, k \in 0..(BlockBufferSize - 1) :
                                 j = k + 1 => BlockAt(k)' = BlockAt(j)
<1> DEFINE left == Current(plan).mm - segments[segHead].n
           b == [plan.blocks[plan.tail] EXCEPT !.mm = left]
           bs == [plan.blocks EXCEPT ![plan.tail] = b]
           remainder == [plan EXCEPT !.blocks = bs]
<1>0. /\ TypeOK /\ plan \in Plans /\ Count \in 0..(BlockBufferSize - 1) /\ Count \in Nat
      /\ prep.loaded /\ plan.head \in 0..(BlockBufferSize - 1) /\ plan.tail \in 0..(BlockBufferSize - 1)
      /\ plan.blocks \in [Slots -> Block] /\ BlockBufferSize \in Nat \ {0, 1}
  BY LinesSay, PlanParts, SizesAre DEF Lines, Written, Publish
<1>1. Count > 0 /\ left \in Nat /\ BlockAt(0) = Current(plan)
  <2>1. Count > 0 BY <1>0 DEF Lines, Lined, Begun
  <2>2. left \in Nat BY <1>0, PublishedWork
  <2> QED BY <1>0, <2>1, <2>2, CountIs
<1>2. plan' = IF left > 0 THEN remainder ELSE plan_discard_current_block(remainder)
  BY <1>0, PublishedWork
<1>3. b.id = plan.blocks[plan.tail].id /\ b.mm = left
  <2>1. plan.blocks[plan.tail] \in Block BY <1>0, SizesAre
  <2> QED BY <2>1 DEF Block
<1> HIDE DEF b, left
<1>4. bs[plan.tail] = b /\ \A i \in Slots : i # plan.tail => bs[i] = plan.blocks[i]
  BY <1>0, SizesAre
<1> HIDE DEF bs
<1>5. remainder.blocks = bs /\ remainder.tail = plan.tail /\ remainder.head = plan.head
  BY <1>0 DEF Plans
<1>6. RingLaws(BlockBufferSize, plan.head, plan.tail, Count) BY <1>0, Rings DEF Count
<1>7. /\ (plan.tail + 0) % BlockBufferSize = plan.tail
      /\ \A k \in 0..(BlockBufferSize - 1) : (plan.tail + k) % BlockBufferSize \in Slots
      /\ \A k \in 1..(BlockBufferSize - 1) : (plan.tail + k) % BlockBufferSize # plan.tail
  <2>1. \A k \in 1..(BlockBufferSize - 1) : k \in 0..(BlockBufferSize - 1) /\ k # 0
                                          /\ 0 \in 0..(BlockBufferSize - 1)
    BY <1>0
  <2> QED BY <1>6, <2>1, SizesAre DEF RingLaws
<1>8. ASSUME NEW k \in 1..(BlockBufferSize - 1)
      PROVE  bs[(plan.tail + k) % BlockBufferSize] = BlockAt(k)
  <2>1. k \in 0..(BlockBufferSize - 1) BY <1>0
  <2>2. (plan.tail + k) % BlockBufferSize \in Slots /\ (plan.tail + k) % BlockBufferSize # plan.tail
    BY <1>7, <2>1
  <2> QED BY <1>4, <2>2 DEF BlockAt
<1>9. ASSUME left > 0
      PROVE  /\ Count' = Count /\ BlockAt(0)'.mm = left /\ BlockAt(0)'.id = BlockAt(0).id
             /\ \A k \in 1..(BlockBufferSize - 1) : BlockAt(k)' = BlockAt(k)
  <2>1. plan'.blocks = bs /\ plan'.tail = plan.tail /\ plan'.head = plan.head
    <3> HIDE DEF remainder
    <3> QED BY <1>2, <1>5, <1>9
  <2>2. Count' = Count BY <2>1 DEF Count
  <2>3. BlockAt(0)' = b BY <1>4, <1>7, <2>1 DEF BlockAt
  <2>4. \A k \in 1..(BlockBufferSize - 1) : BlockAt(k)' = BlockAt(k) BY <1>8, <2>1 DEF BlockAt
  <2>5. BlockAt(0).id = b.id BY <1>1, <1>3 DEF Current
  <2> QED BY <1>3, <2>2, <2>3, <2>4, <2>5
<1>10. ASSUME left = 0
       PROVE  /\ Count' = Count - 1
              /\ \A j, k \in 0..(BlockBufferSize - 1) : j = k + 1 => BlockAt(k)' = BlockAt(j)
  <2>1. ~IsEmpty(remainder)
    <3>1. plan.head # plan.tail BY <1>0, <1>1, CountIs DEF IsEmpty
    <3> HIDE DEF remainder
    <3> QED BY <1>5, <3>1 DEF IsEmpty
  <2>2. /\ plan'.blocks = bs /\ plan'.tail = plan_next_block_index(plan.tail)
        /\ plan'.head = plan.head
    <3> DEFINE r == remainder
               n == plan_next_block_index(r.tail)
    <3>1. r \in Plans BY <1>0, PublishedWork DEF left, b, bs
    <3>2. plan' = [r EXCEPT !.tail = n, !.planned = IF @ = r.tail THEN n ELSE @]
      BY <1>2, <1>10, <2>1 DEF plan_discard_current_block
    <3>3. r.blocks = bs /\ r.tail = plan.tail /\ r.head = plan.head BY <1>5
    <3> HIDE DEF r
    <3>4. plan'.blocks = r.blocks /\ plan'.tail = n /\ plan'.head = r.head
      BY <3>1, <3>2 DEF Plans
    <3> QED BY <3>3, <3>4
  <2>3. plan_next_block_index(plan.tail) = Following(plan.tail, BlockBufferSize)
    BY DEF plan_next_block_index, Following
  <2>4. Count' = Count - 1
    <3>1. plan.head # plan.tail BY <1>0, <1>1, CountIs DEF IsEmpty
    <3>2. (plan.head - Following(plan.tail, BlockBufferSize)) % BlockBufferSize = Count - 1
      BY <1>6, <3>1 DEF RingLaws
    <3> QED BY <2>2, <2>3, <3>2 DEF Count
  <2>5. ASSUME NEW j \in 0..(BlockBufferSize - 1), NEW k \in 0..(BlockBufferSize - 1), j = k + 1
        PROVE  BlockAt(k)' = BlockAt(j)
    <3>1. k \in 0..(BlockBufferSize - 2) /\ j \in 1..(BlockBufferSize - 1) BY <1>0, <2>5
    <3>2. (Following(plan.tail, BlockBufferSize) + k) % BlockBufferSize
            = (plan.tail + j) % BlockBufferSize
      BY <1>6, <2>5, <3>1 DEF RingLaws
    <3>3. BlockAt(k)' = bs[(plan.tail + j) % BlockBufferSize] BY <2>2, <2>3, <3>2 DEF BlockAt
    <3> QED BY <1>8, <3>1, <3>3
  <2> QED BY <2>4, <2>5
<1> QED BY <1>1, <1>9, <1>10 DEF left

(* What publishing does to the numbers of the lines.                       *)
LEMMA PublishShifts ==
  ASSUME Lines, Written, Publish, TypeOK'
  PROVE  LET left == Current(plan).mm - segments[segHead].n
         IN  /\ segments[segHead].n \in Nat \ {0} /\ left \in Nat
             /\ First' = (IF left > 0 THEN First ELSE First + 1)
             /\ Begun /\ (Begun' <=> left > 0) /\ Once' /\ Cur = First /\ Cur' = First
             /\ prep'.index = prep.index /\ lengths' = lengths
             /\ First \in 1..Len(lengths)
<1> DEFINE left == Current(plan).mm - segments[segHead].n
<1>0. /\ TypeOK /\ prep \in Preps /\ First \in Nat /\ Count \in Nat /\ Len(lengths) \in Nat
      /\ LinesTell /\ prep.loaded /\ Once
  BY LinesSay DEF Lines, Lined, Written, Publish
<1>1. /\ segments[segHead].n \in Nat \ {0} /\ left \in Nat
      /\ (left > 0 => prep'.loaded) /\ (left = 0 => ~prep'.loaded)
      /\ prep'.index = prep.index /\ prep'.recalculate = prep.recalculate
  BY <1>0, PublishedWork
<1> HIDE DEF left
<1>2. ~prep.recalculate BY <1>0 DEF Once
<1>3. Begun /\ (Begun' <=> left > 0) /\ Once' BY <1>0, <1>1, <1>2 DEF Begun, Once
<1>4. lengths' = lengths BY DEF Publish, boundVars
<1>5. (left > 0 => Count' = Count) /\ (left = 0 => Count' = Count - 1) /\ Count > 0
  BY PlanShrinks DEF left
<1>6. First' = IF left > 0 THEN First ELSE First + 1
  BY <1>0, <1>1, <1>4, <1>5 DEF First
<1>7. Cur = First BY <1>3 DEF Cur
<1>8. Cur' = First
  <2>1. CASE left > 0 BY <1>3, <1>6, <2>1 DEF Cur
  <2>2. CASE left = 0
    <3>1. ~Begun' /\ First' = First + 1 BY <1>3, <1>6, <2>2
    <3>2. Cur' = First' - 1 BY <3>1 DEF Cur
    <3> QED BY <1>0, <3>1, <3>2
  <2> QED BY <1>1, <2>1, <2>2
<1>9. First \in 1..Len(lengths) BY <1>0, <1>5 DEF LinesTell
<1> QED BY <1>1, <1>3, <1>4, <1>6, <1>7, <1>8, <1>9 DEF left

(* Publishing keeps the lines of the plan.                                 *)
LEMMA PublishLined ==
  ASSUME Lines, Written, Publish, TypeOK'
  PROVE  Lined'
<1> DEFINE left == Current(plan).mm - segments[segHead].n
<1>0. /\ First \in Nat /\ Count \in Nat /\ Len(lengths) \in Nat /\ BlockBufferSize \in Nat
      /\ Count \in 0..(BlockBufferSize - 1) /\ LinesTell
  BY LinesSay, SizesAre
<1>1. /\ left \in Nat /\ First' = (IF left > 0 THEN First ELSE First + 1)
      /\ Begun /\ (Begun' <=> left > 0) /\ Once' /\ prep'.index = prep.index /\ lengths' = lengths
  BY PublishShifts
<1>2. /\ Count > 0
      /\ left > 0 => /\ Count' = Count /\ BlockAt(0)'.mm = left /\ BlockAt(0)'.id = BlockAt(0).id
                     /\ \A k \in 1..(BlockBufferSize - 1) : BlockAt(k)' = BlockAt(k)
      /\ left = 0 => /\ Count' = Count - 1
                     /\ \A j, k \in 0..(BlockBufferSize - 1) :
                          j = k + 1 => BlockAt(k)' = BlockAt(j)
  BY PlanShrinks
<1> HIDE DEF left
<1>3. /\ Count <= Len(lengths) /\ stBlocks[prep.index] = First /\ stBlocks' = stBlocks
      /\ \A k \in 0..(Count - 1) :
           /\ BlockAt(k).id = First + k /\ BlockAt(k).mm > 0
           /\ k > 0 => BlockAt(k).mm = lengths[First + k]
  BY <1>1 DEF Lines, Lined, Publish
<1>4. Count' <= Len(lengths') BY <1>0, <1>1, <1>2, <1>3
<1>5. Begun' => Count' > 0 /\ stBlocks'[prep'.index] = First' BY <1>1, <1>2, <1>3
<1>6. ASSUME NEW k \in 0..(Count' - 1)
      PROVE  /\ BlockAt(k)'.id = First' + k /\ BlockAt(k)'.mm > 0
             /\ k > 0 \/ ~Begun' => BlockAt(k)'.mm = lengths'[First' + k]
  <2>1. CASE left > 0
    <3>1. k \in 0..(Count - 1) BY <1>2, <1>6, <2>1
    <3>2. CASE k = 0 BY <1>0, <1>1, <1>2, <1>3, <2>1, <3>1, <3>2
    <3>3. CASE k # 0
      <4>1. k \in 1..(BlockBufferSize - 1) /\ k > 0 BY <1>0, <3>1, <3>3
      <4>2. BlockAt(k)' = BlockAt(k) BY <1>2, <2>1, <4>1
      <4> QED BY <1>1, <1>3, <2>1, <3>1, <4>1, <4>2
    <3> QED BY <3>2, <3>3
  <2>2. CASE left = 0
    <3>1. PICK j \in 0..(BlockBufferSize - 1) : j = k + 1 /\ j \in 0..(Count - 1) /\ j > 0
      <4>1. /\ k + 1 \in 0..(BlockBufferSize - 1) /\ k + 1 \in 0..(Count - 1) /\ k + 1 > 0
        BY <1>0, <1>2, <1>6, <2>2
      <4> QED BY <4>1
    <3>2. k \in 0..(BlockBufferSize - 1) BY <1>0, <3>1
    <3>3. BlockAt(k)' = BlockAt(j) BY <1>2, <2>2, <3>1, <3>2
    <3>4. First' + k = First + j BY <1>0, <1>1, <2>2, <3>1, <3>2
    <3>5. /\ BlockAt(j).id = First + j /\ BlockAt(j).mm > 0
          /\ BlockAt(j).mm = lengths[First + j]
      BY <1>3, <3>1
    <3> QED BY <1>1, <3>3, <3>4, <3>5
  <2> QED BY <1>1, <2>1, <2>2
<1> QED BY <1>1, <1>4, <1>5, <1>6 DEF Lined

(* Publishing keeps the order of the segments.                             *)
LEMMA PublishRinged ==
  ASSUME Lines, Written, Publish, TypeOK'
  PROVE  Ringed'
<1> DEFINE left == Current(plan).mm - segments[segHead].n
           M == SegmentBufferSize - 1
<1>0. /\ First \in Nat /\ Held \in Nat /\ Cur \in Nat /\ RingTells
      /\ \A k \in 0..(Held - 1) : k \in 0..(SegmentBufferSize - 1)
  BY LinesSay
<1>1. /\ left \in Nat /\ Begun /\ (Begun' <=> left > 0) /\ Cur = First /\ Cur' = First
      /\ First \in 1..Len(lengths) /\ prep'.index = prep.index
      /\ segments[segHead].n \in Nat \ {0}
  BY PublishShifts
<1>2. /\ Held' = Held + 1
      /\ \A k \in 0..(Held - 1) : Segment(k)' = Segment(k) /\ Holds(k)' = Holds(k)
      /\ \A k \in {Held} : /\ Segment(k)' = segments[segHead]
                           /\ Segment(k)'.block = prep.index /\ Holds(k)' = First
  BY RingGrows
<1> HIDE DEF left
<1>3. \A k \in 0..(Held - 1) :
        /\ Segment(k).n > 0 /\ Holds(k) > 0
        /\ Segment(k).block = (prep.index - (Cur - Holds(k))) % (SegmentBufferSize - 1)
        /\ Cur - Holds(k) \in 0..(SegmentBufferSize - 2) /\ Cur - Holds(k) <= Held - k
        /\ Holds(k) \in Nat
  <2>1. \A k \in 0..(Held - 1) : Holds(k) \in 0..MaxLines BY <1>0 DEF RingTells
  <2>2. MaxLines \in Nat BY MotionAssumption
  <2> QED BY <1>1, <2>1, <2>2 DEF Lines, Ringed
<1>4. ASSUME NEW k \in 0..(Held' - 1)
      PROVE  /\ Segment(k)'.n > 0 /\ Holds(k)' > 0
             /\ Segment(k)'.block = (prep'.index - (Cur' - Holds(k)')) % (SegmentBufferSize - 1)
             /\ Cur' - Holds(k)' \in 0..(SegmentBufferSize - 2)
             /\ Cur' - Holds(k)' <= IF Begun' THEN Held' - k ELSE Held' - k - 1
             /\ Holds(k)' \in Nat
  <2>1. CASE k \in 0..(Held - 1)
    <3>1. Segment(k)' = Segment(k) /\ Holds(k)' = Holds(k) BY <1>2, <2>1
    <3>2. Cur - Holds(k) <= Held - k /\ Holds(k) \in Nat BY <1>3, <2>1
    <3>3. Cur' - Holds(k)' <= IF Begun' THEN Held' - k ELSE Held' - k - 1
      <4>1. Cur' - Holds(k)' <= Held' - k /\ Cur' - Holds(k)' <= Held' - k - 1
        BY <1>0, <1>1, <1>2, <3>1, <3>2
      <4> QED BY <4>1
    <3> QED BY <1>1, <1>3, <2>1, <3>1, <3>3
  <2>2. CASE k = Held
    <3>1. Segment(k)'.n > 0 /\ Segment(k)'.block = prep.index /\ Holds(k)' = First
      BY <1>1, <1>2, <2>2
    <3>2. prep.index = (prep.index - 0) % M
      <4>1. prep.index \in 0..(M - 1) /\ M \in Nat \ {0}
        BY LinesSay, SizesAre DEF Preps
      <4>2. BackLaws(M, prep.index) BY <4>1, Backwards
      <4> QED BY <4>2 DEF BackLaws
    <3>3. Cur' - Holds(k)' = 0 BY <1>0, <1>1, <3>1
    <3>4. Segment(k)'.block = (prep'.index - (Cur' - Holds(k)')) % M
      BY <1>1, <3>1, <3>2, <3>3
    <3>5. Cur' - Holds(k)' <= IF Begun' THEN Held' - k ELSE Held' - k - 1
      <4>1. Held' - k = 1 BY <1>0, <1>2, <2>2
      <4> QED BY <3>3, <4>1
    <3> QED BY <1>0, <1>1, <3>1, <3>3, <3>4, <3>5, SizesAre
  <2> QED BY <1>0, <1>2, <1>4, <2>1, <2>2
<1>5. ASSUME NEW j \in 0..(Held' - 1), NEW k \in 0..(Held' - 1), j <= k
      PROVE  Holds(j)' <= Holds(k)' /\ Holds(k)' <= Holds(j)' + (k - j)
  <2>1. CASE k \in 0..(Held - 1)
    <3>1. j \in 0..(Held - 1) BY <1>0, <1>5, <2>1
    <3> QED BY <1>2, <1>5, <2>1, <3>1 DEF Lines, Ringed
  <2>2. CASE k = Held
    <3>1. Holds(k)' = First BY <1>2, <2>2
    <3>2. CASE j = Held BY <1>0, <2>2, <3>1, <3>2
    <3>3. CASE j \in 0..(Held - 1)
      <4>1. Cur - Holds(j) \in 0..(SegmentBufferSize - 2) /\ Cur - Holds(j) <= Held - j
            /\ Holds(j) \in Nat /\ Holds(j)' = Holds(j)
        BY <1>2, <1>3, <3>3
      <4>2. First - Holds(j) >= 0 /\ First - Holds(j) <= k - j BY <1>1, <2>2, <4>1, SizesAre
      <4> QED BY <1>0, <2>2, <3>1, <4>1, <4>2
    <3> QED BY <1>0, <1>2, <1>5, <3>2, <3>3
  <2> QED BY <1>0, <1>2, <1>5, <2>1, <2>2
<1> QED BY <1>4, <1>5 DEF Ringed

(* What the plan has less, the ring has more.                              *)
LEMMA PublishLeft ==
  ASSUME Lines, Written, Publish, TypeOK'
  PROVE  LeftKept
<1> DEFINE left == Current(plan).mm - segments[segHead].n
           n == segments[segHead].n
<1>0. /\ First \in Nat /\ Count \in Nat /\ PlanTells /\ RingTells /\ LinesTell
      /\ Count \in 0..(BlockBufferSize - 1) /\ BlockBufferSize \in Nat /\ Len(lengths) \in Nat
  BY LinesSay, SizesAre
<1>1. /\ left \in Nat /\ First' = (IF left > 0 THEN First ELSE First + 1) /\ n \in Nat
      /\ First \in 1..Len(lengths) /\ lengths' = lengths
  BY PublishShifts
<1>2. /\ Count > 0 /\ left = BlockAt(0).mm - n
      /\ left > 0 => /\ Count' = Count /\ BlockAt(0)'.mm = left
                     /\ \A k \in 1..(BlockBufferSize - 1) : BlockAt(k)' = BlockAt(k)
      /\ left = 0 => /\ Count' = Count - 1
                     /\ \A j, k \in 0..(BlockBufferSize - 1) :
                          j = k + 1 => BlockAt(k)' = BlockAt(j)
  BY PlanShrinks
<1> HIDE DEF left
<1>3. PlanTells' BY PublishLined, PlanLeftIsNext
<1>4. BlockAt(0).mm \in Nat
  <2>1. plan \in Plans BY LinesSay
  <2>2. BlockAt(0) \in Block BY <1>0, <2>1, CountIs, SizesAre
  <2> QED BY <2>2 DEF Block
<1> HIDE DEF n
<1>5. ASSUME NEW line \in Nat
      PROVE  PlanLeft(line)' = PlanLeft(line) - (IF line = First THEN n ELSE 0)
             /\ PlanLeft(line) \in Int
  <2>1. /\ \A k \in 0..(Count - 1) : line = First + k => PlanLeft(line) = BlockAt(k).mm
        /\ line \notin First..(First + Count - 1) => PlanLeft(line) = 0
    BY <1>0 DEF PlanTells
  <2>2. /\ \A k \in 0..(Count' - 1) : line = First' + k => PlanLeft(line)' = BlockAt(k)'.mm
        /\ line \notin First'..(First' + Count' - 1) => PlanLeft(line)' = 0
    BY <1>3 DEF PlanTells
  <2>3. CASE line = First
    <3>1. PlanLeft(line) = BlockAt(0).mm
      <4>1. 0 \in 0..(Count - 1) /\ line = First + 0 BY <1>0, <1>2, <2>3
      <4> QED BY <2>1, <4>1
    <3>2. PlanLeft(line)' = left
      <4>1. CASE left > 0
        <5>1. 0 \in 0..(Count' - 1) /\ line = First' + 0 BY <1>0, <1>1, <1>2, <2>3, <4>1
        <5>2. PlanLeft(line)' = BlockAt(0)'.mm BY <2>2, <5>1
        <5> QED BY <1>2, <4>1, <5>2
      <4>2. CASE left = 0
        <5>1. line \notin First'..(First' + Count' - 1) BY <1>0, <1>1, <2>3, <4>2
        <5> QED BY <2>2, <4>2, <5>1
      <4> QED BY <1>1, <4>1, <4>2
    <3> QED BY <1>1, <1>2, <1>4, <2>3, <3>1, <3>2
  <2>4. CASE line # First /\ line \in First..(First + Count - 1)
    <3>1. PICK j \in 1..(Count - 1) : line = First + j
      <4>1. line - First \in 1..(Count - 1) /\ line = First + (line - First) BY <1>0, <2>4
      <4> QED BY <4>1
    <3>2. j \in 0..(Count - 1) /\ j \in 1..(BlockBufferSize - 1) /\ j \in 0..(BlockBufferSize - 1)
      BY <1>0, <3>1
    <3>3. PlanLeft(line) = BlockAt(j).mm BY <2>1, <3>1, <3>2
    <3>4. PlanLeft(line)' = BlockAt(j).mm
      <4>1. CASE left > 0
        <5>1. j \in 0..(Count' - 1) /\ line = First' + j /\ BlockAt(j)' = BlockAt(j)
          BY <1>1, <1>2, <3>1, <3>2, <4>1
        <5> QED BY <2>2, <5>1
      <4>2. CASE left = 0
        <5>1. PICK k \in 0..(BlockBufferSize - 1) : j = k + 1
          <6>1. j - 1 \in 0..(BlockBufferSize - 1) /\ j = (j - 1) + 1 BY <1>0, <3>2
          <6> QED BY <6>1
        <5>2. k \in 0..(Count' - 1) /\ line = First' + k BY <1>0, <1>1, <1>2, <3>1, <4>2, <5>1
        <5>3. BlockAt(k)' = BlockAt(j) BY <1>2, <3>2, <4>2, <5>1
        <5> QED BY <2>2, <5>2, <5>3
      <4> QED BY <1>1, <4>1, <4>2
    <3>5. BlockAt(j).mm \in Nat
      <4>1. plan \in Plans BY LinesSay
      <4>2. BlockAt(j) \in Block BY <3>2, <4>1, CountIs
      <4> QED BY <4>2 DEF Block
    <3> QED BY <2>4, <3>3, <3>4, <3>5
  <2>5. CASE line \notin First..(First + Count - 1)
    <3>1. line \notin First'..(First' + Count' - 1) /\ line # First
      BY <1>0, <1>1, <1>2, <2>5
    <3> QED BY <2>1, <2>2, <2>5, <3>1
  <2> QED BY <2>3, <2>4, <2>5
<1>6. \A line \in Nat : RingLeft(line)' = RingLeft(line) + (IF line = First THEN n ELSE 0)
  BY RingLeftGrows DEF n
<1>7. \A line \in Nat : RingLeft(line) \in Nat BY <1>0 DEF RingTells
<1>8. ASSUME NEW line \in 1..Len(lengths) PROVE Left(line)' = Left(line)
  <2>1. line \in Nat OBVIOUS
  <2>2. PlanLeft(line)' = PlanLeft(line) - (IF line = First THEN n ELSE 0) /\ PlanLeft(line) \in Int
    BY <1>5, <2>1
  <2>3. RingLeft(line)' = RingLeft(line) + (IF line = First THEN n ELSE 0) /\ RingLeft(line) \in Int
    BY <1>6, <1>7, <2>1
  <2>4. RingLeft(line)' + PlanLeft(line)' = RingLeft(line) + PlanLeft(line)
    <3>1. CASE line = First BY <1>1, <2>2, <2>3, <3>1
    <3>2. CASE line # First BY <2>2, <2>3, <3>2
    <3> QED BY <3>1, <3>2
  <2> QED BY <2>4 DEF Left
<1> QED BY <1>8 DEF LeftKept

(* Publishing keeps the invariant and what is left.                        *)
LEMMA PublishLines ==
  ASSUME Lines, Written, Publish, TypeOK'
  PROVE  (Lined /\ Ringed /\ Stepped)' /\ LeftKept
<1>0. /\ First \in Nat /\ Held \in Nat /\ RingTells /\ LinesTell
      /\ \A k \in 0..(Held - 1) : k \in 0..(SegmentBufferSize - 1)
  BY LinesSay
<1>1. Begun /\ lengths' = lengths /\ prep'.index = prep.index BY PublishShifts
<1>2. /\ Held' = Held + 1
      /\ \A k \in 0..(Held - 1) : Segment(k)' = Segment(k) /\ Holds(k)' = Holds(k)
      /\ \A k \in {Held} : Segment(k)'.block = prep.index /\ Holds(k)' = First
      /\ UNCHANGED <<stBlocks, st, lengths>>
  BY RingGrows
<1>3. LeftKept BY PublishLeft
<1>4. Front' = Front /\ FrontSlot' = FrontSlot /\ FrontBegun' /\ FrontBegun
  <2>1. Held' > 0 BY <1>0, <1>2
  <2>2. CASE Held > 0
    <3>1. Segment(0)' = Segment(0) /\ Holds(0)' = Holds(0) BY <1>0, <1>2, <2>2
    <3> QED BY <2>1, <2>2, <3>1 DEF Front, FrontSlot, FrontBegun
  <2>3. CASE Held = 0
    <3>1. Segment(0)'.block = prep.index /\ Holds(0)' = First BY <1>2, <2>3
    <3>2. ~(Held > 0) BY <2>3
    <3> QED BY <1>1, <2>1, <3>1, <3>2 DEF Front, FrontSlot, FrontBegun
  <2> QED BY <1>0, <2>2, <2>3
<1>5. Traced' = Traced BY <1>2, <1>4 DEF Traced
<1>6. st'.running => Held' > 0 /\ st'.count > 0 /\ st'.index = Segment(0)'.block
  <2>1. Held > 0 => Segment(0)' = Segment(0) BY <1>0, <1>2
  <2> QED BY <1>0, <1>2, <2>1 DEF Lines, Stepped
<1>7. \A line \in 1..Len(lengths') :
        /\ line < Front' => Left(line)' = 0
        /\ line = Front' /\ FrontBegun' => Left(line)' = lengths'[line] - Traced'
        /\ line > Front' \/ (line = Front' /\ ~FrontBegun') => Left(line)' = lengths'[line]
  BY <1>1, <1>3, <1>4, <1>5 DEF Lines, Stepped, LeftKept
<1>8. Stepped' BY <1>4, <1>6, <1>7 DEF Stepped
<1> QED BY <1>3, <1>8, PublishLined, PublishRinged

-------------------------------------------------------------------------------
(* Executing a step                                                        *)

(* The slot of the line in front is as far back as the line is.            *)
FrontPlaced ==
  FrontBegun => /\ FrontSlot = (prep.index - (Cur - Front)) % (SegmentBufferSize - 1)
                /\ Cur - Front \in 0..(SegmentBufferSize - 2)

(* The segments are placed by their lines, so that this holds.             *)
LEMMA FrontIs == TypeOK /\ Lined /\ Ringed => FrontPlaced
<1> SUFFICES ASSUME TypeOK, Lined, Ringed, FrontBegun
             PROVE  /\ FrontSlot = (prep.index - (Cur - Front)) % (SegmentBufferSize - 1)
                    /\ Cur - Front \in 0..(SegmentBufferSize - 2)
  BY DEF FrontPlaced
<1> DEFINE M == SegmentBufferSize - 1
<1>1. LinesTell /\ First \in Int /\ Held \in Nat
  <2>1. LinesTell BY LinesAre
  <2>2. Held \in Nat BY HeldIs, Types
  <2> QED BY <2>1, <2>2 DEF LinesTell
<1>2. CASE Held > 0
  <2>1. 0 \in 0..(Held - 1) BY <1>1, <1>2
  <2> QED BY <1>2, <2>1 DEF Ringed, Front, FrontSlot
<1>3. CASE ~(Held > 0)
  <2>1. Begun /\ Front = First /\ Cur = First /\ FrontSlot = prep.index
    BY <1>3 DEF FrontBegun, Front, Cur, FrontSlot
  <2>2. Cur - Front = 0 BY <1>1, <2>1
  <2>3. prep.index = (prep.index - 0) % M
    <3>1. prep.index \in 0..(M - 1) /\ M \in Nat \ {0} BY Types, SizesAre DEF Preps
    <3>2. BackLaws(M, prep.index) BY <3>1, Backwards
    <3> QED BY <3>2 DEF BackLaws
  <2> QED BY <2>1, <2>2, <2>3, SizesAre
<1> QED BY <1>2, <1>3

(* The same of the next state.                                             *)
LEMMA FrontIsNext == (TypeOK /\ Lined /\ Ringed => FrontPlaced)'
BY FrontIs, PTL

(* The ring as a step is executed: its first segment has a step less, and  *)
(* the ring has a segment less when that was the last one.                 *)
LEMMA RingSteps ==
  ASSUME Lines, Step
  PROVE  /\ Held > 0 /\ SegmentLeft(0) \in Nat \ {0}
         /\ SegmentLeft(0) # 1 =>
              /\ Held' = Held /\ SegmentLeft(0)' = SegmentLeft(0) - 1
              /\ \A k \in 0..(Held - 1) : Segment(k)' = Segment(k) /\ Holds(k)' = Holds(k)
              /\ \A k \in 1..(Held - 1) : SegmentLeft(k)' = SegmentLeft(k)
         /\ SegmentLeft(0) = 1 =>
              /\ Held' = Held - 1
              /\ \A j, k \in 0..(Held - 1) :
                   j = k + 1 => /\ Segment(k)' = Segment(j) /\ Holds(k)' = Holds(j)
                                /\ SegmentLeft(k)' = SegmentLeft(j)
<1> DEFINE S == SegmentBufferSize
<1>0. /\ Held > 0 /\ Held \in 0..(S - 1) /\ S \in Nat \ {0} /\ S >= 3
      /\ Popped.count = SegmentLeft(0) /\ Popped.count > 0
      /\ Popped \in [running : BOOLEAN, index : BlockSlots, count : Nat, traced : Nat]
      /\ segHead \in 0..(S - 1) /\ segTail \in 0..(S - 1)
      /\ \A k \in 0..(Held - 1) : k \in 0..(S - 1)
  BY PoppedIs, LinesSay, SizesAre DEF Lines
<1>1. /\ st' = [Popped EXCEPT !.count = @ - 1, !.traced = @ + 1, !.running = Popped.count # 1]
      /\ segTail' = IF Popped.count = 1 THEN NextSegment(segTail) ELSE segTail
      /\ segments' = segments /\ segHead' = segHead /\ stBlocks' = stBlocks
  BY DEF Step, motionVars
<1>2. st'.running = (Popped.count # 1) /\ st'.count = Popped.count - 1 BY <1>0, <1>1
<1>3. CASE SegmentLeft(0) # 1
  <2>1. segTail' = segTail /\ st'.running BY <1>0, <1>1, <1>2, <1>3
  <2>2. Held' = Held BY <1>1, <2>1 DEF Held
  <2>3. \A k \in 0..(Held - 1) : Segment(k)' = Segment(k) /\ Holds(k)' = Holds(k)
    BY <1>1, <2>1 DEF Segment, Holds
  <2>4. SegmentLeft(0)' = SegmentLeft(0) - 1 BY <1>0, <1>2, <2>1 DEF SegmentLeft
  <2>5. ASSUME NEW k \in 1..(Held - 1) PROVE SegmentLeft(k)' = SegmentLeft(k)
    <3>1. k # 0 /\ k \in 0..(Held - 1) BY <1>0, <2>5
    <3>2. SegmentLeft(k) = Segment(k).n BY <3>1 DEF SegmentLeft
    <3>3. SegmentLeft(k)' = Segment(k)'.n BY <3>1 DEF SegmentLeft
    <3> QED BY <2>3, <3>1, <3>2, <3>3
  <2> QED BY <1>0, <1>3, <2>2, <2>3, <2>4, <2>5
<1>4. CASE SegmentLeft(0) = 1
  <2>1. segTail' = NextSegment(segTail) /\ ~st'.running BY <1>0, <1>1, <1>2, <1>4
  <2>2. RingLaws(S, segHead, segTail, Held) BY <1>0, Rings DEF Held
  <2>3. segTail' = Following(segTail, S) BY <2>1 DEF NextSegment, Following
  <2>4. segHead # segTail BY <1>0, <2>2 DEF RingLaws
  <2>5. Held' = Held - 1
    <3>1. Held' = (segHead - Following(segTail, S)) % S BY <1>1, <2>3 DEF Held
    <3> QED BY <2>2, <2>4, <3>1 DEF RingLaws
  <2>6. ASSUME NEW j \in 0..(Held - 1), NEW k \in 0..(Held - 1), j = k + 1
        PROVE  /\ Segment(k)' = Segment(j) /\ Holds(k)' = Holds(j)
               /\ SegmentLeft(k)' = SegmentLeft(j)
    <3>1. k \in 0..(S - 2) /\ j # 0 BY <1>0, <2>6
    <3>2. (Following(segTail, S) + k) % S = (segTail + j) % S BY <2>2, <2>6, <3>1 DEF RingLaws
    <3>3. Segment(k)' = segments[(Following(segTail, S) + k) % S] BY <1>1, <2>3 DEF Segment
    <3>4. Segment(k)' = Segment(j) BY <3>2, <3>3 DEF Segment
    <3>5. Holds(k)' = stBlocks[Segment(k)'.block] BY <1>1 DEF Holds
    <3>6. Holds(k)' = Holds(j) BY <3>4, <3>5 DEF Holds
    <3>7. SegmentLeft(k)' = Segment(k)'.n BY <2>1 DEF SegmentLeft
    <3>8. SegmentLeft(j) = Segment(j).n BY <3>1 DEF SegmentLeft
    <3> QED BY <3>4, <3>6, <3>7, <3>8
  <2> QED BY <1>0, <1>4, <2>5, <2>6
<1> QED BY <1>0, <1>3, <1>4

(* One step less is left in the segments, of the line in front.            *)
LEMMA RingLeftSteps ==
  ASSUME Lines, Step, TypeOK', NEW line \in Nat
  PROVE  RingLeft(line)' = RingLeft(line) - IF line = Front THEN 1 ELSE 0
<1> DEFINE f == RingPart(line)
           one == IF line = Front THEN 1 ELSE 0
           rest == [k \in 0..(Held - 2) |-> f[k + 1]]
<1>0. Held \in Nat /\ Held > 0 /\ RingTells /\ Front = Holds(0) /\ SegmentLeft(0) \in Nat \ {0}
  BY LinesSay, RingSteps DEF Front
<1>1. f \in [0..(Held - 1) -> Int] /\ RingLeft(line) = Total(f, Held)
  <2>1. f \in [0..(Held - 1) -> Nat] /\ RingLeft(line) = Total(f, Held) BY <1>0 DEF RingTells
  <2> HIDE DEF f
  <2> QED BY <2>1
<1>2. rest \in [0..((Held - 1) - 1) -> Int] /\ Held - 1 \in Nat
  <2>1. \A k \in 0..(Held - 2) : k + 1 \in 0..(Held - 1) BY <1>0
  <2>2. (Held - 1) - 1 = Held - 2 BY <1>0
  <2> HIDE DEF f
  <2> QED BY <1>0, <1>1, <2>1, <2>2
<1>3. /\ f[0] = (IF Holds(0) = line THEN SegmentLeft(0) ELSE 0)
      /\ \A k \in 0..(Held - 1) : f[k] = IF Holds(k) = line THEN SegmentLeft(k) ELSE 0
  <2>1. 0 \in 0..(Held - 1) BY <1>0
  <2> QED BY <2>1 DEF RingPart
<1>4. Total(f, Held) = f[0] + Total(rest, Held - 1)
  <2>1. f \in [0..(Held - 1) -> Int] /\ (Held - 1) + 1 = Held BY <1>0, <1>1
  <2>2. \A k \in 0..((Held - 1) - 1) : rest[k] = f[k + 1] BY <1>0
  <2> HIDE DEF f, rest
  <2>3. Total(f, (Held - 1) + 1) = f[0] + Total(rest, Held - 1)
    BY <1>2, <2>1, <2>2, TotalFirst
  <2> QED BY <2>1, <2>3
<1>5. Total(rest, Held - 1) \in Int BY <1>2, TotalType
<1>6. RingTells' BY RingIsNext
<1>7. RingLeft(line)' = Total(RingPart(line)', Held') BY <1>6 DEF RingTells
<1>8. CASE SegmentLeft(0) # 1
  <2> DEFINE g == RingPart(line)'
  <2>1. /\ Held' = Held /\ SegmentLeft(0)' = SegmentLeft(0) - 1
        /\ \A k \in 0..(Held - 1) : Holds(k)' = Holds(k)
        /\ \A k \in 1..(Held - 1) : SegmentLeft(k)' = SegmentLeft(k)
    BY <1>8, RingSteps
  <2>2. g = [k \in 0..(Held - 1) |-> IF Holds(k)' = line THEN SegmentLeft(k)' ELSE 0]
    BY <2>1 DEF RingPart
  <2>3. g \in [0..(Held - 1) -> Int]
    <3>1. g \in [0..(Held' - 1) -> Nat] BY <1>6 DEF RingTells
    <3> HIDE DEF g
    <3> QED BY <2>1, <3>1
  <2>4. g[0] = (IF Holds(0) = line THEN SegmentLeft(0) - 1 ELSE 0)
    <3>1. 0 \in 0..(Held - 1) BY <1>0
    <3>2. g[0] = IF Holds(0)' = line THEN SegmentLeft(0)' ELSE 0 BY <2>2, <3>1
    <3> QED BY <2>1, <3>1, <3>2
  <2>5. ASSUME NEW k \in 0..((Held - 1) - 1) PROVE rest[k] = g[k + 1]
    <3>1. PICK j \in 1..(Held - 1) : j = k + 1
      <4>1. k + 1 \in 1..(Held - 1) BY <1>0
      <4> QED BY <4>1
    <3>2. j \in 0..(Held - 1) /\ k \in 0..(Held - 2) BY <1>0, <3>1
    <3>3. rest[k] = f[j] BY <3>1, <3>2
    <3>4. f[j] = (IF Holds(j) = line THEN SegmentLeft(j) ELSE 0) BY <1>3, <3>2
    <3>5. g[j] = IF Holds(j)' = line THEN SegmentLeft(j)' ELSE 0 BY <2>2, <3>2
    <3>6. Holds(j)' = Holds(j) /\ SegmentLeft(j)' = SegmentLeft(j) BY <2>1, <3>1, <3>2
    <3> QED BY <3>1, <3>3, <3>4, <3>5, <3>6
  <2>6. Total(g, Held) = g[0] + Total(rest, Held - 1)
    <3> HIDE DEF g, rest
    <3>1. (Held - 1) + 1 = Held BY <1>0
    <3>2. Total(g, (Held - 1) + 1) = g[0] + Total(rest, Held - 1)
      BY <1>2, <2>3, <2>5, <3>1, TotalFirst
    <3> QED BY <3>1, <3>2
  <2>7. g[0] = f[0] - one BY <1>0, <1>3, <2>4
  <2>8. f[0] \in Int /\ one \in Int BY <1>0, <1>3
  <2>9. RingLeft(line)' = g[0] + Total(rest, Held - 1) BY <1>7, <2>1, <2>6
  <2> HIDE DEF f, g, rest, one
  <2>10. RingLeft(line)' = RingLeft(line) - one BY <1>1, <1>4, <1>5, <2>7, <2>8, <2>9
  <2> QED BY <2>10 DEF one
<1>9. CASE SegmentLeft(0) = 1
  <2>1. /\ Held' = Held - 1
        /\ \A j, k \in 0..(Held - 1) :
             j = k + 1 => Holds(k)' = Holds(j) /\ SegmentLeft(k)' = SegmentLeft(j)
    BY <1>9, RingSteps
  <2>2. RingPart(line)' = [k \in 0..(Held' - 1) |-> IF Holds(k)' = line THEN SegmentLeft(k)' ELSE 0]
    BY DEF RingPart
  <2>3. RingPart(line)' = rest
    <3>1. Held' - 1 = Held - 2 BY <1>0, <2>1
    <3>2. ASSUME NEW k \in 0..(Held - 2)
          PROVE  rest[k] = IF Holds(k)' = line THEN SegmentLeft(k)' ELSE 0
      <4>1. PICK j \in 0..(Held - 1) : j = k + 1
        <5>1. k + 1 \in 0..(Held - 1) BY <1>0
        <5> QED BY <5>1
      <4>2. rest[k] = f[j] BY <4>1
      <4>3. f[j] = (IF Holds(j) = line THEN SegmentLeft(j) ELSE 0) BY <1>3
      <4>4. k \in 0..(Held - 1) BY <1>0
      <4>5. Holds(k)' = Holds(j) /\ SegmentLeft(k)' = SegmentLeft(j) BY <2>1, <4>1, <4>4
      <4> QED BY <4>2, <4>3, <4>5
    <3>3. rest = [k \in 0..(Held - 2) |-> rest[k]] OBVIOUS
    <3> HIDE DEF rest
    <3> QED BY <2>2, <3>1, <3>2, <3>3
  <2>4. RingLeft(line)' = Total(rest, Held - 1) BY <1>7, <2>1, <2>3
  <2>5. f[0] = one BY <1>0, <1>3, <1>9
  <2>6. one \in Int OBVIOUS
  <2> HIDE DEF f, rest, one
  <2>7. RingLeft(line)' = RingLeft(line) - one BY <1>1, <1>4, <1>5, <2>4, <2>5, <2>6
  <2> QED BY <2>7 DEF one
<1> QED BY <1>8, <1>9

(* A step leaves the plan alone, and one step less of the line in front.   *)
LEMMA StepLeft ==
  ASSUME Lines, Step, TypeOK'
  PROVE  /\ Lined' /\ First' = First /\ Cur' = Cur /\ Begun' = Begun /\ prep' = prep
         /\ lengths' = lengths /\ stBlocks' = stBlocks
         /\ \A line \in Nat : Left(line)' = Left(line) - IF line = Front THEN 1 ELSE 0
         /\ Left(Front) > 0
<1>1. plan' = plan /\ prep' = prep /\ lengths' = lengths /\ stBlocks' = stBlocks
  BY DEF Step, motionVars, boundVars
<1>2. /\ Count' = Count /\ First' = First /\ Cur' = Cur /\ Begun' = Begun /\ Once' = Once
      /\ \A k \in 0..(Count - 1) : BlockAt(k)' = BlockAt(k)
  BY <1>1 DEF Count, First, Cur, Begun, Once, BlockAt
<1>3. Lined' BY <1>1, <1>2 DEF Lines, Lined
<1>4. ASSUME NEW line \in Nat PROVE PlanLeft(line)' = PlanLeft(line)
  <2>1. \A k \in 0..(Count - 1) : BlockAt(k)'.mm = BlockAt(k).mm BY <1>2
  <2> QED BY <1>2, <1>3, <2>1, PlanLeftKept
<1>5. ASSUME NEW line \in Nat
      PROVE  /\ Left(line)' = Left(line) - IF line = Front THEN 1 ELSE 0
             /\ RingLeft(line) \in Nat /\ PlanLeft(line) \in Nat
  <2>1. RingLeft(line)' = RingLeft(line) - IF line = Front THEN 1 ELSE 0 BY RingLeftSteps
  <2>2. RingLeft(line) \in Nat BY LinesSay DEF RingTells
  <2>3. PlanLeft(line) \in Nat
    <3>1. PlanTells /\ First \in Nat /\ Count \in Nat BY LinesSay
    <3>2. CASE line \in First..(First + Count - 1)
      <4>1. PICK k \in 0..(Count - 1) : line = First + k
        <5>1. line - First \in 0..(Count - 1) /\ line = First + (line - First) BY <3>1, <3>2
        <5> QED BY <5>1
      <4>2. PlanLeft(line) = BlockAt(k).mm BY <3>1, <4>1 DEF PlanTells
      <4>3. BlockAt(k) \in Block BY LinesSay, CountIs
      <4> QED BY <4>2, <4>3 DEF Block
    <3>3. CASE line \notin First..(First + Count - 1) BY <3>1, <3>3 DEF PlanTells
    <3> QED BY <3>2, <3>3
  <2> QED BY <1>4, <2>1, <2>2, <2>3 DEF Left
<1>6. Left(Front) > 0
  <2>1. PICK line \in Nat : line = Front BY LinesSay
  <2>2. RingLeft(line)' = RingLeft(line) - 1
    <3>1. RingLeft(line)' = RingLeft(line) - IF line = Front THEN 1 ELSE 0 BY RingLeftSteps
    <3> QED BY <2>1, <3>1
  <2>3. RingLeft(line)' \in Nat BY RingIsNext DEF RingTells
  <2>4. RingLeft(line) + PlanLeft(line) > 0 BY <1>5, <2>2, <2>3
  <2>5. Left(line) > 0 BY <2>4 DEF Left
  <2> QED BY <2>1, <2>5
<1> QED BY <1>1, <1>2, <1>3, <1>5, <1>6

(* A step keeps the order of the segments.                                 *)
LEMMA StepRinged ==
  ASSUME Lines, Step, TypeOK'
  PROVE  Ringed'
<1>0. /\ Held \in Nat /\ Held > 0 /\ Cur \in Nat /\ RingTells
      /\ \A k \in 0..(Held - 1) : Holds(k) \in Nat
  <2>1. Held \in Nat /\ Cur \in Nat /\ RingTells BY LinesSay
  <2>2. \A k \in 0..(Held - 1) : Holds(k) \in 0..MaxLines BY LinesSay DEF RingTells
  <2> QED BY <2>1, <2>2, RingSteps, MotionAssumption
<1>1. Cur' = Cur /\ Begun' = Begun /\ prep' = prep BY StepLeft
<1>2. Ringed BY DEF Lines
<1>3. CASE SegmentLeft(0) # 1
  <2>1. Held' = Held /\ \A k \in 0..(Held - 1) : Segment(k)' = Segment(k) /\ Holds(k)' = Holds(k)
    BY <1>3, RingSteps
  <2> QED BY <1>1, <1>2, <2>1 DEF Ringed
<1>4. CASE SegmentLeft(0) = 1
  <2>1. /\ Held' = Held - 1
        /\ \A j, k \in 0..(Held - 1) :
             j = k + 1 => Segment(k)' = Segment(j) /\ Holds(k)' = Holds(j)
    BY <1>4, RingSteps
  <2>2. \A k \in 0..(Held' - 1) : k \in 0..(Held - 1) /\ k + 1 \in 0..(Held - 1) BY <1>0, <2>1
  <2>3. ASSUME NEW k \in 0..(Held' - 1)
        PROVE  /\ Segment(k)'.n > 0 /\ Holds(k)' > 0
               /\ Segment(k)'.block = (prep'.index - (Cur' - Holds(k)')) % (SegmentBufferSize - 1)
               /\ Cur' - Holds(k)' \in 0..(SegmentBufferSize - 2)
               /\ Cur' - Holds(k)' <= IF Begun' THEN Held' - k ELSE Held' - k - 1
    <3>1. PICK j \in 0..(Held - 1) : j = k + 1 BY <2>2
    <3>2. Segment(k)' = Segment(j) /\ Holds(k)' = Holds(j) BY <2>1, <2>2, <3>1
    <3>3. /\ Segment(j).n > 0 /\ Holds(j) > 0
          /\ Segment(j).block = (prep.index - (Cur - Holds(j))) % (SegmentBufferSize - 1)
          /\ Cur - Holds(j) \in 0..(SegmentBufferSize - 2)
          /\ Cur - Holds(j) <= IF Begun THEN Held - j ELSE Held - j - 1
      BY <1>2 DEF Ringed
    <3>4. Held' - k = Held - j BY <1>0, <2>1, <3>1
    <3> QED BY <1>1, <3>2, <3>3, <3>4
  <2>4. ASSUME NEW j \in 0..(Held' - 1), NEW k \in 0..(Held' - 1), j <= k
        PROVE  Holds(j)' <= Holds(k)' /\ Holds(k)' <= Holds(j)' + (k - j)
    <3>1. PICK m \in 0..(Held - 1) : m = j + 1 BY <2>2
    <3>2. PICK n \in 0..(Held - 1) : n = k + 1 BY <2>2
    <3>3. Holds(j)' = Holds(m) /\ Holds(k)' = Holds(n) BY <2>1, <2>2, <3>1, <3>2
    <3>4. m <= n /\ n - m = k - j BY <1>0, <2>1, <2>4, <3>1, <3>2
    <3>5. Holds(m) <= Holds(n) /\ Holds(n) <= Holds(m) + (n - m) BY <1>2, <3>4 DEF Ringed
    <3> QED BY <3>3, <3>4, <3>5
  <2> QED BY <2>3, <2>4 DEF Ringed
<1> QED BY <1>3, <1>4

(* The line in front after a step: the same, from the same slot, or the    *)
(* next, from another slot.                                                *)
LEMMA FrontMoves ==
  ASSUME Lines, Step, TypeOK'
  PROVE  /\ Front' \in {Front, Front + 1}
         /\ SegmentLeft(0) # 1 => Front' = Front /\ FrontBegun'
         /\ FrontBegun' /\ Front' = Front => FrontSlot' = FrontSlot
         /\ FrontBegun' /\ Front' # Front => FrontSlot' # FrontSlot
         /\ ~FrontBegun' => Front' = Front + 1 /\ FrontSlot = prep.index
<1> DEFINE M == SegmentBufferSize - 1
<1>0. /\ Held \in Nat /\ Held > 0 /\ Cur \in Nat /\ First \in Nat /\ 0 \in 0..(Held - 1)
      /\ \A k \in 0..(Held - 1) : Holds(k) \in Nat
  <2>1. Held \in Nat /\ Cur \in Nat /\ First \in Nat /\ Held > 0 BY LinesSay, RingSteps
  <2>2. \A k \in 0..(Held - 1) : Holds(k) \in 0..MaxLines BY LinesSay DEF RingTells
  <2> QED BY <2>1, <2>2, MotionAssumption
<1>1. Cur' = Cur /\ First' = First /\ Begun' = Begun /\ prep' = prep BY StepLeft
<1>2. Front = Holds(0) /\ FrontBegun /\ FrontSlot = Segment(0).block
  BY <1>0 DEF Front, FrontBegun, FrontSlot
<1>3. /\ FrontSlot = (prep.index - (Cur - Front)) % M /\ Cur - Front \in 0..(M - 1)
      /\ Cur - Front <= IF Begun THEN Held ELSE Held - 1
  <2>1. FrontPlaced BY FrontIs DEF Lines
  <2>2. Cur - Holds(0) <= IF Begun THEN Held - 0 ELSE Held - 0 - 1 BY <1>0 DEF Lines, Ringed
  <2> QED BY <1>0, <1>2, <2>1, <2>2, SizesAre DEF FrontPlaced
<1>4. BackLaws(M, prep.index) /\ M \in Nat
  <2>1. prep.index \in 0..(M - 1) /\ M \in Nat \ {0} BY LinesSay, SizesAre DEF Preps
  <2> QED BY <2>1, Backwards
<1>5. FrontBegun' => FrontSlot' = (prep.index - (Cur - Front')) % M /\ Cur - Front' \in 0..(M - 1)
  <2>1. FrontPlaced' BY FrontIsNext, StepRinged, StepLeft
  <2> QED BY <1>1, <2>1, SizesAre DEF FrontPlaced
<1>6. Front \in Nat BY <1>0, <1>2
<1>7. /\ Front' \in {Front, Front + 1}
      /\ SegmentLeft(0) # 1 => Front' = Front /\ FrontBegun'
      /\ ~FrontBegun' => Front' = Front + 1 /\ Cur = Front
  <2>1. CASE SegmentLeft(0) # 1
    <3>1. Held' = Held /\ Holds(0)' = Holds(0) BY <1>0, <2>1, RingSteps
    <3> QED BY <1>0, <1>2, <2>1, <3>1 DEF Front, FrontBegun
  <2>2. CASE SegmentLeft(0) = 1 /\ Held > 1
    <3>1. Held' = Held - 1 /\ 1 \in 0..(Held - 1) BY <1>0, <2>2, RingSteps
    <3>2. Holds(0)' = Holds(1)
      <4>1. \A j, k \in 0..(Held - 1) : j = k + 1 => Holds(k)' = Holds(j) BY <2>2, RingSteps
      <4> QED BY <1>0, <3>1, <4>1
    <3>3. Holds(0) <= Holds(1) /\ Holds(1) <= Holds(0) + (1 - 0)
      BY <1>0, <3>1 DEF Lines, Ringed
    <3>4. Held' > 0 BY <1>0, <2>2, <3>1
    <3>5. Front' = Holds(1) /\ FrontBegun' BY <3>2, <3>4 DEF Front, FrontBegun
    <3>6. Holds(1) \in {Holds(0), Holds(0) + 1} BY <1>0, <3>1, <3>3
    <3> QED BY <1>2, <2>2, <3>5, <3>6
  <2>3. CASE SegmentLeft(0) = 1 /\ ~(Held > 1)
    <3>1. Held' = Held - 1 BY <2>3, RingSteps
    <3>2. Held = 1 /\ ~(Held' > 0) BY <1>0, <2>3, <3>1
    <3>3. Front' = First /\ (FrontBegun' <=> Begun) BY <1>1, <3>2 DEF Front, FrontBegun
    <3>4. CASE Begun
      <4>1. Cur = First BY <3>4 DEF Cur
      <4>2. First - Front \in 0..(M - 1) /\ First - Front <= 1 BY <1>3, <3>2, <3>4, <4>1
      <4> QED BY <1>0, <1>4, <1>6, <2>3, <3>3, <3>4, <4>2
    <3>5. CASE ~Begun
      <4>1. Cur = First - 1 BY <3>5 DEF Cur
      <4>2. Cur - Front \in 0..(M - 1) /\ Cur - Front <= 0 BY <1>3, <3>2, <3>5
      <4>3. Cur = Front BY <1>0, <1>4, <1>6, <4>2
      <4> QED BY <1>0, <1>6, <2>3, <3>3, <3>5, <4>1, <4>3
    <3> QED BY <3>4, <3>5
  <2> QED BY <2>1, <2>2, <2>3
<1>8. FrontBegun' /\ Front' = Front => FrontSlot' = FrontSlot BY <1>3, <1>5
<1>9. ASSUME FrontBegun', Front' # Front PROVE FrontSlot' # FrontSlot
  <2>1. Front' = Front + 1 BY <1>7, <1>9
  <2>2. Cur - Front' # Cur - Front BY <1>0, <1>6, <2>1
  <2> QED BY <1>3, <1>4, <1>5, <1>9, <2>2 DEF BackLaws
<1>10. ~FrontBegun' => FrontSlot = prep.index
  <2>1. Cur = Front => Cur - Front = 0 BY <1>0
  <2> QED BY <1>3, <1>4, <1>7, <2>1 DEF BackLaws
<1> QED BY <1>7, <1>8, <1>9, <1>10

(* A step keeps the invariant, and is the next one of the line in front:   *)
(* the tracer is restarted if and only if the line changes.                *)
LEMMA StepLines ==
  ASSUME Lines, Step, TypeOK'
  PROVE  /\ (Lined /\ Ringed /\ Stepped)' /\ Front \in 1..Len(lengths)
         /\ taken' = <<Front, lengths[Front] - Left(Front) + 1>>
<1>0. /\ Held \in Nat /\ Held > 0 /\ Front \in Nat /\ LinesTell /\ Popped.running
      /\ Popped \in [running : BOOLEAN, index : BlockSlots, count : Nat, traced : Nat]
      /\ Popped.count = SegmentLeft(0) /\ Popped.count > 0 /\ Popped.index = Segment(0).block
      /\ Popped.traced = (IF st.index = Segment(0).block THEN st.traced ELSE 0)
  BY LinesSay, PoppedIs DEF Lines
<1>1. /\ Lined' /\ First' = First /\ Cur' = Cur /\ Begun' = Begun /\ prep' = prep
      /\ lengths' = lengths /\ stBlocks' = stBlocks
      /\ \A line \in Nat : Left(line)' = Left(line) - IF line = Front THEN 1 ELSE 0
      /\ Left(Front) > 0
  BY StepLeft
<1>2. FrontBegun /\ Front = Holds(0) /\ FrontSlot = Segment(0).block
  BY <1>0 DEF Front, FrontBegun, FrontSlot
<1>3. Front \in 1..Len(lengths) /\ Len(lengths) \in Nat BY <1>0, <1>2, LinesSay DEF LinesTell
<1>4. /\ st'.running = (Popped.count # 1) /\ st'.count = Popped.count - 1
      /\ st'.index = FrontSlot /\ st'.traced = Traced + 1 /\ Traced \in Nat
  <2>1. st' = [Popped EXCEPT !.count = @ - 1, !.traced = @ + 1, !.running = Popped.count # 1]
    BY DEF Step
  <2>2. st'.traced = Popped.traced + 1 /\ st'.index = Popped.index
        /\ st'.running = (Popped.count # 1) /\ st'.count = Popped.count - 1
    BY <1>0, <2>1
  <2> QED BY <1>0, <1>2, <2>2 DEF Traced
<1>5. Left(Front) = lengths[Front] - Traced BY <1>2, <1>3 DEF Lines, Stepped
<1>6. lengths[Front] \in Nat /\ \A line \in 1..Len(lengths) : lengths[line] \in Nat
  BY <1>3, LinesSay
<1>7. taken' = <<Front, lengths[Front] - Left(Front) + 1>>
  <2>1. taken' = <<stBlocks[Popped.index], st'.traced>> BY DEF Step
  <2>2. stBlocks[Popped.index] = Front BY <1>0, <1>2 DEF Holds
  <2>3. st'.traced = lengths[Front] - Left(Front) + 1 BY <1>4, <1>5, <1>6
  <2> QED BY <2>1, <2>2, <2>3
<1>8. /\ Front' \in {Front, Front + 1}
      /\ SegmentLeft(0) # 1 => Front' = Front /\ FrontBegun'
      /\ FrontBegun' /\ Front' = Front => FrontSlot' = FrontSlot
      /\ FrontBegun' /\ Front' # Front => FrontSlot' # FrontSlot
      /\ ~FrontBegun' => Front' = Front + 1 /\ FrontSlot = prep.index
  BY FrontMoves
<1>9. Ringed' BY StepRinged
<1>10. LinesTell' BY <1>1, <1>9, LinesAreNext
<1>11. st'.running => Held' > 0 /\ st'.count > 0 /\ st'.index = Segment(0)'.block
  <2> SUFFICES ASSUME st'.running PROVE Held' > 0 /\ st'.count > 0 /\ st'.index = Segment(0)'.block
    OBVIOUS
  <2>1. SegmentLeft(0) # 1 BY <1>0, <1>4
  <2>2. 0 \in 0..(Held - 1) BY <1>0
  <2>3. Held' = Held /\ Segment(0)' = Segment(0) BY <2>1, <2>2, RingSteps
  <2> QED BY <1>0, <1>2, <1>4, <2>1, <2>3
<1>12. ~FrontBegun' => st'.index = prep'.index BY <1>1, <1>4, <1>8
<1>13. ASSUME NEW line \in 1..Len(lengths)
       PROVE  /\ line < Front' => Left(line)' = 0
              /\ line = Front' /\ FrontBegun' => Left(line)' = lengths[line] - Traced'
              /\ line > Front' \/ (line = Front' /\ ~FrontBegun') => Left(line)' = lengths[line]
  <2>1. line \in Nat /\ Left(line)' = Left(line) - IF line = Front THEN 1 ELSE 0 BY <1>1
  <2>2. line < Front' => Left(line)' = 0 BY <1>1, <1>10 DEF LinesTell
  <2>3. line > Front => Left(line)' = lengths[line]
    <3> SUFFICES ASSUME line > Front PROVE Left(line)' = lengths[line] OBVIOUS
    <3>1. Left(line) = lengths[line] BY DEF Lines, Stepped
    <3>2. line # Front BY <1>0, <2>1
    <3>3. Left(line)' = Left(line) - 0 BY <2>1, <3>2
    <3> QED BY <1>6, <3>1, <3>3
  <2>4. line > Front' \/ (line = Front' /\ ~FrontBegun') => line > Front
    BY <1>0, <1>8, <2>1
  <2>5. ASSUME line = Front', FrontBegun' PROVE Left(line)' = lengths[line] - Traced'
    <3>1. CASE Front' = Front
      <4>1. Traced' = Traced + 1 BY <1>4, <1>8, <2>5, <3>1 DEF Traced
      <4>2. Left(line) = lengths[line] - Traced BY <1>5, <2>5, <3>1
      <4>3. Left(line)' = Left(line) - 1 BY <2>1, <2>5, <3>1
      <4>4. lengths[line] \in Nat /\ Traced \in Nat BY <1>4, <1>6
      <4>5. Left(line)' = (lengths[line] - Traced) - 1 BY <4>2, <4>3
      <4>6. (lengths[line] - Traced) - 1 = lengths[line] - (Traced + 1) BY <4>4
      <4> QED BY <4>1, <4>5, <4>6
    <3>2. CASE Front' # Front
      <4>1. Traced' = 0 BY <1>4, <1>8, <2>5, <3>2 DEF Traced
      <4>2. line > Front BY <1>0, <1>8, <2>5, <3>2
      <4> QED BY <1>6, <2>3, <4>1, <4>2
    <3> QED BY <3>1, <3>2
  <2> QED BY <2>2, <2>3, <2>4, <2>5
<1>14. Stepped' BY <1>1, <1>11, <1>12, <1>13 DEF Stepped
<1> QED BY <1>1, <1>3, <1>7, <1>9, <1>14

-------------------------------------------------------------------------------
(* Planning a line                                                         *)

(* The plan with one more line.                                            *)
LEMMA PlanGrows ==
  ASSUME Lines, NEW length \in Lengths, NEW rate \in Rates, NEW junction \in Junctions,
         PlanLine(length, rate, junction)
  PROVE  /\ Count' = Count + 1
         /\ \A k \in 0..(Count - 1) : BlockAt(k)'.id = BlockAt(k).id /\ BlockAt(k)'.mm = BlockAt(k).mm
         /\ \A k \in {Count} : BlockAt(k)'.id = Len(lengths) + 1 /\ BlockAt(k)'.mm = length
         /\ First' = First /\ Cur' = Cur /\ Begun' = Begun /\ prep'.index = prep.index /\ Once'
         /\ lengths' = Append(lengths, length) /\ Len(lengths') = Len(lengths) + 1
         /\ length \in Nat \ {0}
         /\ UNCHANGED <<stBlocks, segments, segHead, segTail, st, taken, pc>>
<1> DEFINE p == Buffered(plan, Len(lengths'), length, rate, junction, slow)
           B == BlockBufferSize
<1>0. /\ plan \in Plans /\ Count \in Nat /\ Count \in 0..(B - 1) /\ B \in Nat \ {0} /\ First \in Nat
      /\ plan.head \in 0..(B - 1) /\ plan.tail \in 0..(B - 1) /\ Slots = 0..(B - 1)
      /\ TypeOK /\ Len(lengths) \in Nat /\ slow \in BOOLEAN
      /\ \A k \in 0..(Count - 1) : k \in 0..(B - 1)
  <2>1. TypeOK BY DEF Lines
  <2> QED BY <2>1, LinesSay, PlanParts, SizesAre, Types
<1>1. /\ lengths' = Append(lengths, length) /\ length \in Nat \ {0}
      /\ SameWork(p, plan') /\ Begun' = Begun /\ prep'.index = prep.index /\ (Once => Once')
      /\ Len(lengths') \in 0..MaxLines /\ Len(lengths') = Len(lengths) + 1
      /\ rate \in Nat /\ junction \in Nat
  BY <1>0, PlanLineType
<1>2. /\ ~IsFull(plan)
      /\ UNCHANGED <<stBlocks, segments, segHead, segTail, st, taken, pc>>
  BY DEF PlanLine, stepperVars
<1>3. /\ p.tail = plan.tail /\ p.head = plan_next_block_index(plan.head)
      /\ \A i \in Slots : i # plan.head => p.blocks[i] = plan.blocks[i]
      /\ p.blocks[plan.head].id = Len(lengths) + 1 /\ p.blocks[plan.head].mm = length
  <2>1. /\ plan \in Plans /\ length \in Nat /\ rate \in Nat /\ junction \in Nat /\ slow \in BOOLEAN
        /\ Len(lengths') \in 0..MaxLines
    BY <1>0, <1>1
  <2>2. AddsWork(plan, p, Len(lengths'), length) BY <2>1, BufferedAdds
  <2> HIDE DEF p
  <2> QED BY <1>1, <2>2 DEF AddsWork
<1> HIDE DEF p
<1>4. /\ plan'.tail = plan.tail /\ plan'.head = Following(plan.head, B)
      /\ Following(plan.head, B) # plan.tail
  BY <1>1, <1>2, <1>3 DEF SameWork, plan_next_block_index, Following, IsFull
<1>5. RingLaws(B, plan.head, plan.tail, Count) BY <1>0, Rings DEF Count
<1>6. Count' = Count + 1
  <2>1. Count' = (Following(plan.head, B) - plan.tail) % B BY <1>4 DEF Count
  <2> QED BY <1>4, <1>5, <2>1 DEF RingLaws
<1>7. ASSUME NEW k \in 0..(B - 1)
      PROVE  LET i == (plan.tail + k) % B
             IN  /\ i \in Slots /\ BlockAt(k) = plan.blocks[i]
                 /\ BlockAt(k)'.id = p.blocks[i].id /\ BlockAt(k)'.mm = p.blocks[i].mm
  <2> DEFINE i == (plan.tail + k) % B
  <2>1. i \in Slots BY <1>0, <1>5 DEF RingLaws
  <2>2. BlockAt(k) = plan.blocks[i] /\ BlockAt(k)' = plan'.blocks[i] BY <1>4 DEF BlockAt
  <2> HIDE DEF i
  <2>3. plan'.blocks[i].id = p.blocks[i].id /\ plan'.blocks[i].mm = p.blocks[i].mm
    BY <1>1, <2>1 DEF SameWork
  <2> QED BY <2>1, <2>2, <2>3 DEF i
<1>8. ASSUME NEW k \in 0..(Count - 1)
      PROVE  BlockAt(k)'.id = BlockAt(k).id /\ BlockAt(k)'.mm = BlockAt(k).mm
  <2>1. k \in 0..(B - 1) /\ k # Count BY <1>0
  <2>2. (plan.tail + k) % B # plan.head BY <1>0, <1>5, <2>1 DEF RingLaws
  <2> QED BY <1>3, <1>7, <2>1, <2>2
<1>9. ASSUME NEW k \in {Count}
      PROVE  BlockAt(k)'.id = Len(lengths) + 1 /\ BlockAt(k)'.mm = length
  <2>1. k \in 0..(B - 1) /\ (plan.tail + k) % B = plan.head BY <1>0, <1>5 DEF RingLaws
  <2> QED BY <1>3, <1>7, <2>1
<1>10. First' = First BY <1>0, <1>1, <1>6 DEF First
<1>11. Cur' = Cur BY <1>1, <1>10 DEF Cur
<1>12. Once' BY <1>1 DEF Lines, Lined
<1> QED BY <1>1, <1>2, <1>6, <1>8, <1>9, <1>10, <1>11, <1>12

(* Planning a line keeps the lines of the plan.                            *)
LEMMA PlanLineLined ==
  ASSUME Lines, NEW length \in Lengths, NEW rate \in Rates, NEW junction \in Junctions,
         PlanLine(length, rate, junction)
  PROVE  Lined'
<1>0. /\ Count \in Nat /\ First \in Nat /\ Len(lengths) \in Nat /\ First + Count - 1 = Len(lengths)
      /\ lengths \in Seq(Nat)
  BY LinesSay DEF LinesTell
<1>1. /\ Count' = Count + 1
      /\ \A k \in 0..(Count - 1) : BlockAt(k)'.id = BlockAt(k).id /\ BlockAt(k)'.mm = BlockAt(k).mm
      /\ \A k \in {Count} : BlockAt(k)'.id = Len(lengths) + 1 /\ BlockAt(k)'.mm = length
      /\ First' = First /\ Begun' = Begun /\ prep'.index = prep.index /\ Once'
      /\ lengths' = Append(lengths, length) /\ Len(lengths') = Len(lengths) + 1
      /\ length \in Nat \ {0} /\ stBlocks' = stBlocks
  BY PlanGrows
<1>2. /\ Count <= Len(lengths) /\ (Begun => Count > 0 /\ stBlocks[prep.index] = First)
      /\ \A k \in 0..(Count - 1) :
           /\ BlockAt(k).id = First + k /\ BlockAt(k).mm > 0
           /\ k > 0 \/ ~Begun => BlockAt(k).mm = lengths[First + k]
  BY DEF Lines, Lined
<1>3. Count' <= Len(lengths') BY <1>0, <1>1, <1>2
<1>4. Begun' => Count' > 0 /\ stBlocks'[prep'.index] = First' BY <1>0, <1>1, <1>2
<1>5. ASSUME NEW k \in 0..(Count' - 1)
      PROVE  /\ BlockAt(k)'.id = First' + k /\ BlockAt(k)'.mm > 0
             /\ k > 0 \/ ~Begun' => BlockAt(k)'.mm = lengths'[First' + k]
  <2>1. CASE k \in 0..(Count - 1)
    <3>1. First + k \in 1..Len(lengths)
      <4>1. First \in 1..(Len(lengths) + 1) BY LinesSay DEF LinesTell
      <4> QED BY <1>0, <2>1, <4>1
    <3>2. lengths'[First + k] = lengths[First + k] BY <1>0, <1>1, <3>1
    <3> QED BY <1>1, <1>2, <2>1, <3>2
  <2>2. CASE k = Count
    <3>1. First + k = Len(lengths) + 1 BY <1>0, <2>2
    <3>2. lengths'[Len(lengths) + 1] = length BY <1>0, <1>1
    <3> QED BY <1>1, <2>2, <3>1, <3>2
  <2>3. k \in 0..(Count - 1) \/ k = Count BY <1>0, <1>1
  <2> QED BY <2>1, <2>2, <2>3
<1> QED BY <1>1, <1>3, <1>4, <1>5 DEF Lined

(* Planning a line keeps the invariant, and the new line is left whole.    *)
LEMMA PlanLineLines ==
  ASSUME Lines, NEW length \in Lengths, NEW rate \in Rates, NEW junction \in Junctions,
         PlanLine(length, rate, junction)
  PROVE  /\ (Lined /\ Ringed /\ Stepped)' /\ LeftKept
         /\ \A line \in {Len(lengths) + 1} : Left(line)' = length
<1>0. /\ Count \in Nat /\ First \in Nat /\ Len(lengths) \in Nat /\ First + Count - 1 = Len(lengths)
      /\ PlanTells /\ RingTells /\ LinesTell /\ lengths \in Seq(Nat) /\ TypeOK /\ Held \in Nat
  BY LinesSay DEF LinesTell, Lines
<1>1. /\ Count' = Count + 1
      /\ \A k \in 0..(Count - 1) : BlockAt(k)'.mm = BlockAt(k).mm
      /\ \A k \in {Count} : BlockAt(k)'.mm = length
      /\ First' = First /\ Cur' = Cur /\ Begun' = Begun /\ prep'.index = prep.index
      /\ lengths' = Append(lengths, length) /\ Len(lengths') = Len(lengths) + 1
      /\ length \in Nat \ {0}
      /\ UNCHANGED <<stBlocks, segments, segHead, segTail, st>>
  BY PlanGrows
<1>2. TypeOK' BY <1>0, PlanLineType
<1>3. Lined' BY PlanLineLined
<1>4. /\ Ringed' /\ \A line \in Nat : RingLeft(line)' = RingLeft(line)
      /\ Front' = Front /\ FrontBegun' = FrontBegun /\ Traced' = Traced
      /\ st'.running => Held' > 0 /\ st'.count > 0 /\ st'.index = Segment(0)'.block
      /\ ~FrontBegun' => st'.index = prep'.index
  <2>1. \A k \in 0..(Held - 1) : Segment(k)' = Segment(k) BY <1>1 DEF Segment
  <2> QED BY <1>1, <1>2, <2>1, RingKept
<1>5. PlanTells' BY <1>2, <1>3, PlanLeftIsNext
<1>6. ASSUME NEW line \in 1..Len(lengths) PROVE Left(line)' = Left(line)
  <2>1. line \in Nat BY <1>0
  <2>2. PlanLeft(line)' = PlanLeft(line)
    <3>1. CASE line \in First..(First + Count - 1)
      <4>1. PICK k \in 0..(Count - 1) : line = First + k
        <5>1. line - First \in 0..(Count - 1) /\ line = First + (line - First) BY <1>0, <3>1
        <5> QED BY <5>1
      <4>2. k \in 0..(Count' - 1) /\ line = First' + k BY <1>0, <1>1, <4>1
      <4>3. PlanLeft(line) = BlockAt(k).mm BY <1>0, <2>1, <4>1 DEF PlanTells
      <4>4. PlanLeft(line)' = BlockAt(k)'.mm BY <1>5, <2>1, <4>2 DEF PlanTells
      <4> QED BY <1>1, <4>1, <4>3, <4>4
    <3>2. CASE line \notin First..(First + Count - 1)
      <4>1. line \notin First'..(First' + Count' - 1) BY <1>0, <1>1, <3>2
      <4> QED BY <1>0, <1>5, <2>1, <3>2, <4>1 DEF PlanTells
    <3> QED BY <3>1, <3>2
  <2> QED BY <1>4, <2>1, <2>2 DEF Left
<1>7. ASSUME NEW line \in {Len(lengths) + 1} PROVE Left(line)' = length
  <2>1. line \in Nat /\ line = Len(lengths) + 1 BY <1>0
  <2>2. PlanLeft(line)' = length
    <3>1. PICK k \in Nat : k = Count BY <1>0
    <3>2. k \in 0..(Count' - 1) /\ line = First' + k BY <1>0, <1>1, <2>1, <3>1
    <3>3. PlanLeft(line)' = BlockAt(k)'.mm BY <1>5, <2>1, <3>2 DEF PlanTells
    <3> QED BY <1>1, <3>1, <3>3
  <2>3. RingLeft(line) = 0
    <3>1. \A k \in 0..(Held - 1) : Holds(k) \in Front..Cur /\ Cur <= Len(lengths)
      BY <1>0 DEF LinesTell
    <3>2. Front \in Nat /\ Cur \in Nat BY LinesSay
    <3>3. \A k \in 0..(Held - 1) : Holds(k) # line BY <1>0, <2>1, <3>1, <3>2
    <3> QED BY <1>0, <2>1, <3>3 DEF RingTells
  <2>4. RingLeft(line)' = 0 BY <1>4, <2>1, <2>3
  <2> QED BY <1>1, <2>2, <2>4 DEF Left
<1>8. ASSUME NEW line \in 1..Len(lengths')
      PROVE  /\ line < Front' => Left(line)' = 0
             /\ line = Front' /\ FrontBegun' => Left(line)' = lengths'[line] - Traced'
             /\ line > Front' \/ (line = Front' /\ ~FrontBegun') => Left(line)' = lengths'[line]
  <2>1. CASE line \in 1..Len(lengths)
    <3>1. lengths'[line] = lengths[line] BY <1>0, <1>1, <2>1
    <3>2. /\ line < Front => Left(line) = 0
          /\ line = Front /\ FrontBegun => Left(line) = lengths[line] - Traced
          /\ line > Front \/ (line = Front /\ ~FrontBegun) => Left(line) = lengths[line]
      BY <2>1 DEF Lines, Stepped
    <3> QED BY <1>4, <1>6, <2>1, <3>1, <3>2
  <2>2. CASE line = Len(lengths) + 1
    <3>1. lengths'[line] = length /\ Left(line)' = length BY <1>0, <1>1, <1>7, <2>2
    <3>2. Front \in 1..(Len(lengths) + 1) /\ (FrontBegun => Front <= Len(lengths))
      BY <1>0 DEF LinesTell
    <3>3. ~(line < Front') /\ ~(line = Front' /\ FrontBegun')
      BY <1>0, <1>4, <2>2, <3>2
    <3> QED BY <3>1, <3>3
  <2> QED BY <1>0, <1>1, <2>1, <2>2
<1>9. Stepped' BY <1>4, <1>8 DEF Stepped
<1> QED BY <1>3, <1>4, <1>6, <1>7, <1>9 DEF LeftKept

-------------------------------------------------------------------------------
(* Flush, and writing a segment                                            *)

(* Nothing is left of any line after a flush.                              *)
LEMMA FlushLines ==
  ASSUME Lines, Flush
  PROVE  /\ (Lined /\ Ringed /\ Stepped)' /\ \A line \in 1..Len(lengths) : Left(line)' = 0
<1>1. /\ plan' = plan_reset /\ prep' = NoPrep /\ st' = NoStepper /\ segHead' = 0 /\ segTail' = 0
      /\ lengths' = lengths /\ Len(lengths) \in Nat
  BY LinesSay DEF Flush, boundVars
<1>2. Held' = 0 /\ Count' = 0
  <2>1. Held' = (0 - 0) % SegmentBufferSize BY <1>1 DEF Held
  <2>2. Count' = (0 - 0) % BlockBufferSize BY <1>1 DEF Count, plan_reset
  <2> QED BY <2>1, <2>2, SizesAre
<1>3. First' = Len(lengths) + 1 /\ ~Begun' /\ Once'
  BY <1>1, <1>2 DEF First, Begun, Once, NoPrep
<1>4. Lined' BY <1>1, <1>2, <1>3 DEF Lined
<1>5. Ringed' BY <1>2 DEF Ringed
<1>6. Front' = Len(lengths) + 1 /\ ~FrontBegun' BY <1>2, <1>3 DEF Front, FrontBegun
<1>7. LinesTell'
  <2>1. TypeOK' BY FlushType DEF Lines
  <2> QED BY <1>4, <1>5, <2>1, LinesAreNext
<1>8. ASSUME NEW line \in 1..Len(lengths) PROVE Left(line)' = 0 /\ line < Front'
  <2>1. line < Front' BY <1>1, <1>6
  <2> QED BY <1>1, <1>7, <2>1 DEF LinesTell
<1>9. Stepped'
  <2>1. ~st'.running /\ st'.index = prep'.index BY <1>1 DEF NoStepper, NoPrep
  <2>2. \A line \in 1..Len(lengths') :
          /\ line < Front' => Left(line)' = 0
          /\ line = Front' /\ FrontBegun' => Left(line)' = lengths'[line] - Traced'
          /\ line > Front' \/ (line = Front' /\ ~FrontBegun') => Left(line)' = lengths'[line]
    <3> SUFFICES ASSUME NEW line \in 1..Len(lengths')
                 PROVE  Left(line)' = 0 /\ ~(line = Front') /\ ~(line > Front')
      OBVIOUS
    <3>1. line \in 1..Len(lengths) BY <1>1
    <3> QED BY <1>1, <1>6, <1>8, <3>1
  <2> QED BY <2>1, <2>2 DEF Stepped
<1> QED BY <1>4, <1>5, <1>8, <1>9

(* A segment is written to a slot that no published one is in.             *)
LEMMA FillLines ==
  ASSUME Lines, Fill
  PROVE  (Lined /\ Ringed /\ Stepped)' /\ LeftKept /\ Written'
<1>0. /\ TypeOK /\ Held \in Nat /\ Held \in 0..(SegmentBufferSize - 1) /\ Count \in Nat
      /\ segHead \in SegmentSlots /\ segTail \in SegmentSlots
      /\ segments \in [SegmentSlots -> [n : Nat, block : BlockSlots]]
      /\ \A k \in 0..(Held - 1) : k \in 0..(SegmentBufferSize - 1)
  <2>1. TypeOK BY DEF Lines
  <2> QED BY <2>1, LinesSay, Types
<1>1. /\ TypeOK' /\ pc' = "publish" /\ ~RingFull /\ prep.loaded
      /\ UNCHANGED <<plan, prep, stBlocks, segHead, segTail, st, taken, lengths>>
  BY <1>0, FillType
<1>2. PICK n \in 1..(Current(plan).mm - prep.end) :
         segments' = [segments EXCEPT ![segHead] = [n |-> n, block |-> prep.index]]
  BY <1>0, FillType
<1>3. \A k \in 0..(Held - 1) : Segment(k)' = Segment(k)
  <2> SUFFICES ASSUME NEW k \in 0..(Held - 1) PROVE Segment(k)' = Segment(k) OBVIOUS
  <2>1. k \in 0..(SegmentBufferSize - 1) /\ k # Held BY <1>0
  <2>2. (segTail + k) % SegmentBufferSize \in SegmentSlots
        /\ (segTail + k) % SegmentBufferSize # segHead
    BY <1>0, <2>1, HeldIs
  <2> QED BY <1>0, <1>1, <1>2, <2>2 DEF Segment
<1>4. SameWork(plan, plan') /\ Begun' = Begun /\ prep'.index = prep.index /\ Once'
  BY <1>1 DEF SameWork, Begun, Once, Lines, Lined
<1>5. (Lined /\ Ringed /\ Stepped)' /\ LeftKept BY <1>1, <1>3, <1>4, LinesKept
<1>6. Written'
  <2>1. segments'[segHead] = [n |-> n, block |-> prep.index] BY <1>0, <1>2
  <2>2. ~RingFull' BY <1>1 DEF RingFull
  <2>3. Current(plan)' = Current(plan) BY <1>1 DEF Current
  <2>4. segments'[segHead'].block = prep'.index /\ segments'[segHead'].n = n BY <1>1, <2>1
  <2> QED BY <1>1, <1>2, <2>2, <2>3, <2>4 DEF Written
<1> QED BY <1>5, <1>6

(* A full ring has one slot free.                                          *)
LEMMA FullIs ==
  TypeOK => Held \in 0..(SegmentBufferSize - 1) /\ (Held = SegmentBufferSize - 1 <=> RingFull)
BY HeldIs, Types

(* The same of the next state.                                             *)
LEMMA FullIsNext ==
  (TypeOK => Held \in 0..(SegmentBufferSize - 1) /\ (Held = SegmentBufferSize - 1 <=> RingFull))'
BY FullIs, PTL

(* A segment that is written stays so until it is published.               *)
LEMMA WrittenKept ==
  ASSUME TypeOK, TypeOK', Written, Held' <= Held, pc' = "publish" => pc = "publish",
         UNCHANGED <<plan, prep, segments, segHead>>
  PROVE  Written'
<1> SUFFICES ASSUME pc' = "publish" PROVE Written' BY DEF Written
<1>1. /\ prep.loaded /\ ~RingFull /\ segments[segHead].block = prep.index
      /\ segments[segHead].n \in 1..(Current(plan).mm - prep.end)
  BY DEF Written
<1>2. ~RingFull'
  <2>1. Held \in 0..(SegmentBufferSize - 1) /\ (Held = SegmentBufferSize - 1 <=> RingFull)
    BY FullIs
  <2>2. (Held \in 0..(SegmentBufferSize - 1) /\ (Held = SegmentBufferSize - 1 <=> RingFull))'
    BY FullIsNext
  <2> QED BY <1>1, <2>1, <2>2, SizesAre
<1>3. Current(plan)' = Current(plan) BY DEF Current
<1> QED BY <1>1, <1>2, <1>3 DEF Written

-------------------------------------------------------------------------------
(* Every step follows the path                                             *)

(* What is left of every line, as the path sees it.                        *)
LeftOf == [line \in 1..Len(lengths) |-> Left(line)]
PathStep == [P!Plan \/ P!Step \/ P!Flush]_<<lengths, LeftOf, taken>>

(* A step that leaves what is left is none of the path's.                  *)
LEMMA LeftOfKept ==
  ASSUME LeftKept, UNCHANGED <<lengths, taken>>
  PROVE  PathStep
<1>1. LeftOf' = LeftOf BY DEF LeftOf, LeftKept
<1> QED BY <1>1 DEF PathStep

(* The path begins where the machine does.                                 *)
LEMMA StartLines == Init => LinesInv /\ P!Begin
<1> SUFFICES ASSUME Init PROVE LinesInv /\ P!Begin OBVIOUS
<1>1. /\ plan = plan_reset /\ prep = NoPrep /\ st = NoStepper /\ segHead = 0 /\ segTail = 0
      /\ lengths = <<>> /\ pc = "poll" /\ Len(lengths) = 0
  BY DEF Init
<1>2. Held = 0 /\ Count = 0
  <2>1. Held = (0 - 0) % SegmentBufferSize BY <1>1 DEF Held
  <2>2. Count = (0 - 0) % BlockBufferSize BY <1>1 DEF Count, plan_reset
  <2> QED BY <2>1, <2>2, SizesAre
<1>3. Once /\ ~Begun BY <1>1 DEF Begun, Once, NoPrep
<1>4. Lined BY <1>1, <1>2, <1>3 DEF Lined
<1>5. Ringed BY <1>2 DEF Ringed
<1>6. Written BY <1>1 DEF Written
<1>7. Stepped BY <1>1, <1>2 DEF Stepped, NoStepper, NoPrep
<1>8. P!Begin
  <2>1. [line \in 1..Len(lengths) |-> Left(line)] = <<>> BY <1>1
  <2> QED BY <1>1, <2>1 DEF P!Begin
<1> QED BY <1>4, <1>5, <1>6, <1>7, <1>8 DEF LinesInv

(* A line more is a line more of the path, whole.                          *)
LEMMA PlanFollows ==
  ASSUME Lines, NEW length \in Lengths, NEW rate \in Rates, NEW junction \in Junctions,
         PlanLine(length, rate, junction)
  PROVE  PathStep
<1>1. /\ lengths' = Append(lengths, length) /\ Len(lengths') = Len(lengths) + 1
      /\ taken' = taken /\ Len(lengths) \in Nat
  BY PlanGrows, LinesSay
<1>2. /\ \A line \in 1..Len(lengths) : Left(line)' = Left(line)
      /\ \A line \in {Len(lengths) + 1} : Left(line)' = length
  BY PlanLineLines DEF LeftKept
<1>3. LeftOf' = Append(LeftOf, length)
  <2>1. Len(LeftOf) = Len(lengths) BY <1>1 DEF LeftOf
  <2>2. LeftOf' = [line \in 1..(Len(lengths) + 1) |-> Left(line)'] BY <1>1 DEF LeftOf
  <2>3. \A line \in 1..(Len(lengths) + 1) :
          Left(line)' = IF line = Len(lengths) + 1 THEN length ELSE LeftOf[line]
    <3> SUFFICES ASSUME NEW line \in 1..(Len(lengths) + 1)
                 PROVE  Left(line)' = IF line = Len(lengths) + 1 THEN length ELSE LeftOf[line]
      OBVIOUS
    <3>1. CASE line = Len(lengths) + 1 BY <1>2, <3>1
    <3>2. CASE line # Len(lengths) + 1
      <4>1. line \in 1..Len(lengths) BY <1>1, <3>2
      <4> QED BY <1>2, <3>2, <4>1 DEF LeftOf
    <3> QED BY <3>1, <3>2
  <2>4. Append(LeftOf, length) = [line \in 1..(Len(lengths) + 1) |->
                                    IF line = Len(lengths) + 1 THEN length ELSE LeftOf[line]]
    BY <1>1, <2>1 DEF LeftOf
  <2> QED BY <2>2, <2>3, <2>4
<1>4. P!Plan BY <1>1, <1>3 DEF P!Plan, LeftOf
<1> QED BY <1>4 DEF PathStep

(* A step is the next step of the path.                                    *)
LEMMA StepFollows ==
  ASSUME Lines, Step, TypeOK'
  PROVE  PathStep
<1>1. /\ Front \in 1..Len(lengths) /\ taken' = <<Front, lengths[Front] - Left(Front) + 1>>
      /\ LinesTell /\ lengths' = lengths /\ Len(lengths) \in Nat
      /\ \A line \in Nat : Left(line)' = Left(line) - IF line = Front THEN 1 ELSE 0
      /\ Left(Front) > 0
  BY StepLines, StepLeft, LinesSay
<1>2. PICK front \in 1..Len(lengths) : front = Front BY <1>1
<1>3. LeftOf[front] > 0 /\ LeftOf[front] = Left(Front) BY <1>1, <1>2 DEF LeftOf
<1>4. \A other \in 1..(front - 1) : LeftOf[other] = 0
  <2> SUFFICES ASSUME NEW other \in 1..(front - 1) PROVE LeftOf[other] = 0 OBVIOUS
  <2>1. other \in 1..Len(lengths) /\ other < Front BY <1>1, <1>2
  <2> QED BY <1>1, <2>1 DEF LinesTell, LeftOf
<1>5. LeftOf' = [LeftOf EXCEPT ![front] = LeftOf[front] - 1]
  <2>1. LeftOf' = [line \in 1..Len(lengths) |-> Left(line)'] BY <1>1 DEF LeftOf
  <2>2. \A line \in 1..Len(lengths) :
          Left(line)' = IF line = front THEN LeftOf[front] - 1 ELSE LeftOf[line]
    <3> SUFFICES ASSUME NEW line \in 1..Len(lengths)
                 PROVE  Left(line)' = IF line = front THEN LeftOf[front] - 1 ELSE LeftOf[line]
      OBVIOUS
    <3>1. line \in Nat /\ LeftOf[line] = Left(line) /\ Left(line) \in Nat
      BY <1>1 DEF LinesTell, LeftOf
    <3>2. Left(line)' = Left(line) - IF line = Front THEN 1 ELSE 0 BY <1>1, <3>1
    <3>3. CASE line = front BY <1>2, <3>1, <3>2, <3>3
    <3>4. CASE line # front
      <4>1. Left(line)' = Left(line) - 0 BY <1>2, <3>2, <3>4
      <4> QED BY <3>1, <3>4, <4>1
    <3> QED BY <3>3, <3>4
  <2> QED BY <2>1, <2>2 DEF LeftOf
<1>6. Len(LeftOf) = Len(lengths) BY <1>1 DEF LeftOf
<1>7. taken' = <<front, lengths[front] - LeftOf[front] + 1>> BY <1>1, <1>2, <1>3
<1>8. P!Step
  <2>1. /\ front \in 1..Len(LeftOf) /\ LeftOf[front] > 0
        /\ \A other \in 1..(front - 1) : LeftOf[other] = 0
        /\ taken' = <<front, lengths[front] - LeftOf[front] + 1>>
        /\ LeftOf' = [LeftOf EXCEPT ![front] = LeftOf[front] - 1]
        /\ UNCHANGED lengths
    BY <1>1, <1>3, <1>4, <1>5, <1>6, <1>7
  <2> QED BY <2>1 DEF P!Step, LeftOf
<1> QED BY <1>8 DEF PathStep

(* A flush is one of the path.                                             *)
LEMMA FlushFollows ==
  ASSUME Lines, Flush
  PROVE  PathStep
<1>1. /\ \A line \in 1..Len(lengths) : Left(line)' = 0
      /\ UNCHANGED <<lengths, taken>> /\ Len(lengths) \in Nat
  BY FlushLines, LinesSay DEF Flush, boundVars
<1>2. LeftOf' = [line \in 1..Len(LeftOf) |-> 0]
  <2>1. Len(LeftOf) = Len(lengths) BY <1>1 DEF LeftOf
  <2>2. LeftOf' = [line \in 1..Len(lengths) |-> Left(line)'] BY <1>1 DEF LeftOf
  <2> QED BY <1>1, <2>1, <2>2
<1>3. P!Flush BY <1>1, <1>2 DEF P!Flush, LeftOf
<1> QED BY <1>3 DEF PathStep

(* Every step of the machine is a step of the path or none.                *)
LEMMA LinesStep ==
  TypeOK /\ LinesInv /\ [Next]_vars => TypeOK' /\ LinesInv' /\ PathStep
<1> SUFFICES ASSUME TypeOK, LinesInv, [Next]_vars
             PROVE  (Lined /\ Ringed /\ Stepped)' /\ Written' /\ TypeOK' /\ PathStep
  BY DEF LinesInv
<1>1. Lines /\ Written /\ Ringed /\ Stepped BY DEF LinesInv, Lines
<1>2. TypeOK' BY <1>1, TypeStep
<1>3. \A k \in 0..(Held - 1) :
        segTail' = segTail /\ segments' = segments => Segment(k)' = Segment(k)
  BY DEF Segment
<1>4. Once BY <1>1 DEF Lines, Lined
<1>5. ASSUME Replans PROVE (Lined /\ Ringed /\ Stepped)' /\ Written' /\ PathStep
  <2>1. /\ SameWork(plan, plan') /\ Begun' = Begun /\ prep'.index = prep.index /\ Once'
        /\ pc' = "poll"
        /\ UNCHANGED <<stBlocks, segments, segHead, segTail, st, taken, lengths>>
    BY <1>4, <1>5, ReplansKeep
  <2>2. (Lined /\ Ringed /\ Stepped)' /\ LeftKept BY <1>1, <1>2, <1>3, <2>1, LinesKept
  <2>3. Written' BY <2>1 DEF Written
  <2> QED BY <2>1, <2>2, <2>3, LeftOfKept
<1>6. ASSUME Passes \/ UNCHANGED vars PROVE (Lined /\ Ringed /\ Stepped)' /\ Written' /\ PathStep
  <2>1. /\ UNCHANGED <<plan, prep>> /\ (pc' # "publish" \/ UNCHANGED pc)
        /\ UNCHANGED <<stBlocks, segments, segHead, segTail, st, taken, lengths>>
    <3>1. CASE Passes BY <3>1, PassesKeep
    <3>2. CASE UNCHANGED vars BY <3>2 DEF vars, motionVars, stepperVars, boundVars
    <3> QED BY <1>6, <3>1, <3>2
  <2>2. SameWork(plan, plan') /\ Begun' = Begun /\ prep'.index = prep.index /\ Once'
    BY <1>4, <2>1 DEF SameWork, Begun, Once
  <2>3. (Lined /\ Ringed /\ Stepped)' /\ LeftKept BY <1>1, <1>2, <1>3, <2>1, <2>2, LinesKept
  <2>4. Held' <= Held
    <3>1. Held' = Held /\ Held \in Nat BY <1>1, <2>1, LinesSay DEF Held
    <3> QED BY <3>1
  <2>5. Written' BY <1>1, <1>2, <2>1, <2>4, WrittenKept
  <2> QED BY <2>1, <2>3, <2>5, LeftOfKept
<1>7. ASSUME Load PROVE (Lined /\ Ringed /\ Stepped)' /\ Written' /\ PathStep
  <2>1. (Lined /\ Ringed /\ Stepped)' /\ LeftKept BY <1>1, <1>7, LoadLines
  <2>2. UNCHANGED <<lengths, taken>> BY <1>7, LoadParts
  <2>3. Written' BY <1>7 DEF Load, Written
  <2> QED BY <2>1, <2>2, <2>3, LeftOfKept
<1>8. ASSUME Fill PROVE (Lined /\ Ringed /\ Stepped)' /\ Written' /\ PathStep
  <2>1. (Lined /\ Ringed /\ Stepped)' /\ LeftKept /\ Written' BY <1>1, <1>8, FillLines
  <2>2. UNCHANGED <<lengths, taken>> BY <1>8, FillType
  <2> QED BY <2>1, <2>2, LeftOfKept
<1>9. ASSUME Publish PROVE (Lined /\ Ringed /\ Stepped)' /\ Written' /\ PathStep
  <2>1. (Lined /\ Ringed /\ Stepped)' /\ LeftKept BY <1>1, <1>2, <1>9, PublishLines
  <2>2. UNCHANGED <<lengths, taken>> BY <1>1, <1>9, RingGrows
  <2>3. Written' BY <1>1, <1>9, PublishedWork DEF Written
  <2> QED BY <2>1, <2>2, <2>3, LeftOfKept
<1>10. ASSUME Step PROVE (Lined /\ Ringed /\ Stepped)' /\ Written' /\ PathStep
  <2>1. (Lined /\ Ringed /\ Stepped)' BY <1>1, <1>2, <1>10, StepLines
  <2>2. UNCHANGED <<plan, prep, segments, segHead, pc>> BY <1>10 DEF Step, motionVars
  <2>3. Held' <= Held
    <3>1. Held \in Nat BY <1>1, LinesSay
    <3>2. Held' = Held \/ Held' = Held - 1 BY <1>1, <1>10, RingSteps
    <3> QED BY <3>1, <3>2
  <2>4. Written' BY <1>1, <1>2, <2>2, <2>3, WrittenKept
  <2> QED BY <1>1, <1>2, <1>10, <2>1, <2>4, StepFollows
<1>11. ASSUME Flush PROVE (Lined /\ Ringed /\ Stepped)' /\ Written' /\ PathStep
  <2>1. pc' # "publish" BY <1>11 DEF Flush
  <2> QED BY <1>1, <1>11, <2>1, FlushLines, FlushFollows DEF Written
<1>12. ASSUME Host PROVE (Lined /\ Ringed /\ Stepped)' /\ Written' /\ PathStep
  <2>1. PICK n \in Lengths, r \in Rates, j \in Junctions : PlanLine(n, r, j)
    BY <1>12 DEF Host
  <2>2. pc' # "publish" BY <2>1 DEF PlanLine
  <2>3. (Lined /\ Ringed /\ Stepped)' BY <1>1, <2>1, PlanLineLines
  <2> QED BY <1>1, <2>1, <2>2, <2>3, PlanFollows DEF Written
<1>13. Next \/ UNCHANGED vars OBVIOUS
<1> QED BY <1>2, <1>5, <1>6, <1>7, <1>8, <1>9, <1>10, <1>11, <1>12, <1>13
     DEF Next, Generate, Interrupt, Operate, Replans, Passes

(* Indices stay within their rings, speeds and distances never fall below  *)
(* zero, and a block's number is a line's: no plan, hold, resume, override *)
(* or flush, at any moment of the interrupt, takes the planner or the      *)
(* stepper out of range.                                                   *)
THEOREM MotionTypeCorrect == Spec => []TypeOK
<1>1. Init => TypeOK /\ LinesInv BY TypeStart, StartLines
<1> QED BY <1>1, LinesStep, PTL DEF Spec

(* The planner, the segment generator and the stepper interrupt implement  *)
(* the path (planner.c, stepper.c): of every line, every step is taken     *)
(* once and in order, none while one of an earlier line is left, and what  *)
(* a flush throws away it throws away at once, whatever slots are used     *)
(* again and wherever the interrupt falls.                                 *)
THEOREM LinesAreFollowed == Spec => PathFollowed
<1>1. Init => TypeOK /\ LinesInv /\ P!Begin BY TypeStart, StartLines
<1>2. PathStep <=> [P!Plan \/ P!Step \/ P!Flush]_<<lengths,
                       [line \in 1..Len(lengths) |-> Left(line)], taken>>
  BY DEF PathStep, LeftOf
<1> QED BY <1>1, <1>2, LinesStep, PTL DEF Spec, PathFollowed, P!Spec
===============================================================================
