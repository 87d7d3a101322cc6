----------------------------- MODULE SpeedProofs -----------------------------
(***************************************************************************)
(* Theorems about the speeds of the motion: the look-ahead, which stops at *)
(* its planned block and leaves fast blocks alone, still finds the best    *)
(* plan there is; the machine never accelerates or brakes harder than it   *)
(* can, and starts from rest. For any sizes of the rings, any lines and    *)
(* rates, and any number of holds, resumes and flushes.                    *)
(*                                                                         *)
(* The argument: a plan can always be braked in (Braked), whatever         *)
(* replanned it, and outside of a hold every speed is held down by one of  *)
(* its neighbours or by its own limit (Best), up to the planned block by   *)
(* what is behind it, so that no line to come can change it. The profile   *)
(* of the block in execution (Profiled) carries this through the segments. *)
(***************************************************************************)
EXTENDS MotionProofs

(* The blocks of a plan, counted from the tail, and the planned one.       *)
Amount(p) == (p.head - p.tail) % BlockBufferSize
Ahead(p) == (p.planned - p.tail) % BlockBufferSize
NthSlot(p, k) == (p.tail + k) % BlockBufferSize
Nth(p, k) == p.blocks[NthSlot(p, k)]

-------------------------------------------------------------------------------
(* The blocks of a plan                                                    *)

(* The blocks and what they are made of.                                   *)
LEMMA Numbered ==
  ASSUME NEW p \in Plans
  PROVE  /\ Amount(p) \in 0..(BlockBufferSize - 1) /\ Amount(p) \in Nat
         /\ (Amount(p) = 0 <=> IsEmpty(p))
         /\ Nth(p, 0) = Current(p) /\ NthSlot(p, 0) = p.tail
         /\ NthSlot(p, Amount(p)) = p.head
         /\ Ahead(p) \in 0..(BlockBufferSize - 1) /\ NthSlot(p, Ahead(p)) = p.planned
         /\ \A k \in 0..(BlockBufferSize - 1) :
              /\ NthSlot(p, k) \in Slots /\ Nth(p, k) \in Block
              /\ Nth(p, k).mm \in Nat /\ Nth(p, k).rate \in Nat /\ Nth(p, k).max \in Nat
              /\ Nth(p, k).entry \in Nat
         /\ \A j, k \in 0..(BlockBufferSize - 1) : NthSlot(p, j) = NthSlot(p, k) => j = k
<1> DEFINE N == BlockBufferSize
<1>1. /\ N \in Nat \ {0} /\ p.tail \in 0..(N - 1) /\ p.head \in 0..(N - 1)
      /\ p.planned \in 0..(N - 1) /\ p.blocks \in [Slots -> Block] /\ Slots = 0..(N - 1)
  BY PlanParts, SizesAre
<1>2. RingLaws(N, p.head, p.tail, Amount(p)) BY <1>1, Rings DEF Amount
<1>3. RingLaws(N, p.planned, p.tail, Ahead(p)) BY <1>1, Rings DEF Ahead
<1>4. /\ Amount(p) \in 0..(N - 1) /\ Amount(p) \in Nat /\ (Amount(p) = 0 <=> IsEmpty(p))
      /\ NthSlot(p, 0) = p.tail /\ NthSlot(p, Amount(p)) = p.head
      /\ \A k \in 0..(N - 1) : NthSlot(p, k) \in Slots
      /\ \A j, k \in 0..(N - 1) : NthSlot(p, j) = NthSlot(p, k) => j = k
  BY <1>1, <1>2 DEF RingLaws, IsEmpty, NthSlot
<1>5. Ahead(p) \in 0..(N - 1) /\ NthSlot(p, Ahead(p)) = p.planned
  BY <1>3 DEF RingLaws, NthSlot
<1>6. \A k \in 0..(N - 1) : Nth(p, k) \in Block BY <1>1, <1>4 DEF Nth
<1>7. \A k \in 0..(N - 1) : /\ Nth(p, k).mm \in Nat /\ Nth(p, k).rate \in Nat
                            /\ Nth(p, k).max \in Nat /\ Nth(p, k).entry \in Nat
  BY <1>6 DEF Block
<1>8. Nth(p, 0) = Current(p) BY <1>4 DEF Nth, Current
<1> QED BY <1>4, <1>5, <1>6, <1>7, <1>8

(* The exit speed of the first block.                                      *)
LEMMA ExitIs ==
  ASSUME NEW p \in Plans, Amount(p) > 0
  PROVE  ExitSpeed(p) = IF Amount(p) = 1 THEN 0 ELSE Nth(p, 1).entry
<1> DEFINE N == BlockBufferSize
           next == plan_next_block_index(p.tail)
<1>1. N \in Nat \ {0, 1} /\ p.tail \in 0..(N - 1) /\ Slots = 0..(N - 1) BY PlanParts, SizesAre
<1>2. /\ Amount(p) \in 0..(N - 1) /\ NthSlot(p, Amount(p)) = p.head
      /\ \A j, k \in 0..(N - 1) : NthSlot(p, j) = NthSlot(p, k) => j = k
  BY Numbered
<1>3. NthSlot(p, 1) = next
  <2> DEFINE x == p.tail + 1
  <2>1. x \in (-N)..(2 * N - 1) BY <1>1
  <2>2. x % N = IF x < 0 THEN x + N ELSE IF x < N THEN x ELSE x - N
    <3>1. N \in Nat \ {0} BY <1>1
    <3> HIDE DEF x, N
    <3> QED BY <2>1, <3>1, Modulo
  <2>3. x % N = next BY <1>1, <2>2 DEF plan_next_block_index
  <2> QED BY <2>3 DEF NthSlot
<1>4. 1 \in 0..(N - 1) BY <1>1
<1>5. next = p.head <=> Amount(p) = 1 BY <1>2, <1>3, <1>4
<1> QED BY <1>3, <1>5 DEF ExitSpeed, Nth

(* The slots numbered from the planned block and from the tail.            *)
LEMMA FromPlanned ==
  ASSUME NEW p \in Plans, Amount(p) > 0, Ahead(p) < Amount(p)
  PROVE  /\ LastPosition(p) = Amount(p) - 1 - Ahead(p)
         /\ \A k \in 0..(BlockBufferSize - 1) :
              Position(p, NthSlot(p, k)) = IF k >= Ahead(p) THEN k - Ahead(p)
                                           ELSE BlockBufferSize + k - Ahead(p)
<1> DEFINE N == BlockBufferSize
           Gap(x) == IF x < 0 THEN x + N ELSE IF x < N THEN x ELSE x - N
<1>1. /\ N \in Nat \ {0} /\ p.tail \in 0..(N - 1) /\ p.head \in 0..(N - 1)
      /\ p.planned \in 0..(N - 1)
  BY PlanParts, SizesAre
<1>2. \A x \in (-N)..(2 * N - 1) : x % N = Gap(x)
  <2> HIDE DEF N
  <2> QED BY <1>1, Modulo
<1>3. Amount(p) = Gap(p.head - p.tail)
  <2>1. p.head - p.tail \in (-N)..(2 * N - 1) BY <1>1
  <2> HIDE DEF Gap
  <2> QED BY <1>2, <2>1 DEF Amount
<1>4. Ahead(p) = Gap(p.planned - p.tail)
  <2>1. p.planned - p.tail \in (-N)..(2 * N - 1) BY <1>1
  <2> HIDE DEF Gap
  <2> QED BY <1>2, <2>1 DEF Ahead
<1>5. LastPosition(p) = Gap(p.head - 1 - p.planned)
  <2>1. p.head - 1 - p.planned \in (-N)..(2 * N - 1) BY <1>1
  <2> HIDE DEF Gap
  <2> QED BY <1>2, <2>1 DEF LastPosition
<1>6. LastPosition(p) = Amount(p) - 1 - Ahead(p) BY <1>1, <1>3, <1>4, <1>5
<1>7. ASSUME NEW k \in 0..(N - 1)
      PROVE  Position(p, NthSlot(p, k)) = IF k >= Ahead(p) THEN k - Ahead(p) ELSE N + k - Ahead(p)
  <2>1. NthSlot(p, k) = Gap(p.tail + k)
    <3>1. p.tail + k \in (-N)..(2 * N - 1) BY <1>1
    <3> HIDE DEF Gap
    <3> QED BY <1>2, <3>1 DEF NthSlot
  <2> DEFINE i == NthSlot(p, k)
  <2>2. i \in 0..(N - 1) BY <1>1, <2>1
  <2>3. Position(p, i) = Gap(i - p.planned)
    <3>1. i - p.planned \in (-N)..(2 * N - 1) BY <1>1, <2>2
    <3> HIDE DEF Gap, i
    <3> QED BY <1>2, <3>1 DEF Position
  <2>4. i = Gap(p.tail + k) BY <2>1
  <2> HIDE DEF i
  <2>5. Position(p, i) = IF k >= Ahead(p) THEN k - Ahead(p) ELSE N + k - Ahead(p)
    BY <1>1, <1>4, <2>3, <2>4
  <2> QED BY <2>5 DEF i
<1> QED BY <1>6, <1>7

-------------------------------------------------------------------------------
(* What planner_recalculate leaves                                         *)

(* The passes over the slots from the planned block on: s are the speeds   *)
(* of the reverse pass, f those of the forward pass.                       *)
Planned(p, s, f) ==
  LET L == LastPosition(p)
      b(k) == p.blocks[At(p, k)]
  IN  /\ f \in [0..L -> Nat] /\ f[0] = b(0).entry
      /\ s \in [1..L -> Nat]
      /\ \A j \in 1..L :
           /\ s[j] = IF j = L THEN Least(b(j).max, b(j).mm) ELSE Backward(b(j), s[j + 1])
           /\ f[j] = IF f[j - 1] < s[j] THEN Least(s[j], f[j - 1] + b(j - 1).mm) ELSE s[j]

(* The plan they leave: the planned block is the last one that is done.    *)
Leaves(p, s, f, r) ==
  LET L == LastPosition(p)
      b(k) == p.blocks[At(p, k)]
      done(j) == f[j] < s[j] \/ f[j] = b(j).max
  IN  /\ r \in Plans /\ r.tail = p.tail /\ r.head = p.head /\ r.nominal = p.nominal
      /\ \A i \in Slots : r.blocks[i] = IF Position(p, i) \in 1..L
                                        THEN [p.blocks[i] EXCEPT !.entry = f[Position(p, i)]]
                                        ELSE p.blocks[i]
      /\ \/ r.planned = p.planned /\ \A j \in 1..L : ~done(j)
         \/ \E j \in 1..L : r.planned = At(p, j) /\ done(j) /\ \A i \in 1..L : done(i) => i <= j

(* planner_recalculate makes these passes.                                 *)
LEMMA RecalculatedIs ==
  ASSUME NEW p \in Plans, LastPosition(p) # 0
  PROVE  \E s, f : Planned(p, s, f) /\ Leaves(p, s, f, Recalculated(p))
<1> DEFINE L == LastPosition(p)
           s == ReverseSpeeds(p)
           b(k) == p.blocks[At(p, k)]
           q == ReversePass(p)
           f == ForwardSpeeds(q)
           done(j) == f[j] < s[j] \/ f[j] = b(j).max
<1>1. L \in 1..(BlockBufferSize - 1) /\ L \in Nat BY Positions, PlannerAssumption
<1>2. \A k \in 0..L : /\ k \in 0..(BlockBufferSize - 1) /\ At(p, k) \in Slots
                      /\ Position(p, At(p, k)) = k /\ b(k) \in Block
                      /\ b(k).mm \in Nat /\ b(k).max \in Nat /\ b(k).entry \in Nat
  <2> SUFFICES ASSUME NEW k \in 0..L
               PROVE  /\ k \in 0..(BlockBufferSize - 1) /\ At(p, k) \in Slots
                      /\ Position(p, At(p, k)) = k /\ b(k) \in Block
                      /\ b(k).mm \in Nat /\ b(k).max \in Nat /\ b(k).entry \in Nat
    OBVIOUS
  <2>1. k \in 0..(BlockBufferSize - 1) BY <1>1, PlannerAssumption
  <2>2. At(p, k) \in Slots /\ Position(p, At(p, k)) = k BY <2>1, Positions
  <2>3. p.blocks \in [Slots -> Block] BY PlanParts
  <2> QED BY <2>1, <2>2, <2>3, PlanParts
<1>3. /\ s \in [1..L -> Nat]
      /\ \A k \in 1..L : s[k] = IF k = L THEN Least(b(k).max, b(k).mm)
                                ELSE Backward(b(k), s[k + 1])
  <2>1. \A k \in 1..L : s[k] = IF k = L THEN Least(b(L).max, b(L).mm)
                               ELSE Backward(b(k), s[k + 1])
    BY ReverseSpeedsAre
  <2>2. s \in [1..L -> Nat] BY ReverseSpeedsAre
  <2> QED BY <2>1, <2>2
<1>4. /\ q \in Plans /\ q.planned = p.planned /\ q.tail = p.tail /\ q.head = p.head
      /\ q.nominal = p.nominal
      /\ \A i \in Slots : q.blocks[i] = IF Position(p, i) \in 1..L
                                        THEN [p.blocks[i] EXCEPT !.entry = s[Position(p, i)]]
                                        ELSE p.blocks[i]
  <2>1. \A k \in 1..L : s[k] \in Nat BY <1>3
  <2>2. q = Entered(p, s) BY DEF ReversePass
  <2> HIDE DEF s, q
  <2>3. q.nominal = p.nominal BY <2>2 DEF Entered, Plans
  <2> QED BY <2>1, <2>2, <2>3, EnteredKeeps DEF SameWork
<1>5. /\ LastPosition(q) = L /\ \A k : At(q, k) = At(p, k)
      /\ \A i : Position(q, i) = Position(p, i)
  BY <1>4 DEF LastPosition, At, Position
<1> HIDE DEF s, q
<1> DEFINE c(k) == q.blocks[At(q, k)]
<1>6. \A k \in 0..L : /\ c(k).mm = b(k).mm /\ c(k).max = b(k).max
                      /\ c(k).entry = IF k = 0 THEN b(k).entry ELSE s[k]
  <2> SUFFICES ASSUME NEW k \in 0..L
               PROVE  /\ c(k).mm = b(k).mm /\ c(k).max = b(k).max
                      /\ c(k).entry = IF k = 0 THEN b(k).entry ELSE s[k]
    OBVIOUS
  <2>1. c(k) = IF k \in 1..L THEN [b(k) EXCEPT !.entry = s[k]] ELSE b(k)
    BY <1>2, <1>4, <1>5
  <2>2. k \in 1..L <=> k # 0 BY <1>1
  <2>3. b(k) \in Block BY <1>2
  <2> HIDE DEF b, c
  <2> QED BY <2>1, <2>2, <2>3 DEF Block
<1>7. /\ f \in [0..L -> Nat] /\ f[0] = c(0).entry
      /\ \A k \in 1..L : f[k] = Forward(c(k), c(k - 1), f[k - 1])
  BY <1>4, <1>5, ForwardSpeedsAre
<1> HIDE DEF f, c
<1>8. f[0] = b(0).entry
  <2>1. 0 \in 0..L BY <1>1
  <2> QED BY <1>6, <1>7, <2>1
<1>9. ASSUME NEW j \in 1..L
      PROVE  f[j] = IF f[j - 1] < s[j] THEN Least(s[j], f[j - 1] + b(j - 1).mm) ELSE s[j]
  <2>1. j \in 0..L /\ j - 1 \in 0..L /\ j # 0 BY <1>1
  <2>2. c(j).entry = s[j] /\ c(j - 1).mm = b(j - 1).mm BY <1>6, <2>1
  <2> QED BY <1>7, <2>2 DEF Forward
<1>10. Planned(p, s, f) BY <1>3, <1>7, <1>8, <1>9 DEF Planned
<1> DEFINE optimal == {k \in 1..L : Settled(f[k], q.blocks[At(q, k)])}
           last == CHOOSE k \in optimal : \A other \in optimal : other <= k
           e == Entered(q, f)
           r == Recalculated(p)
           pl == IF optimal = {} THEN e.planned ELSE At(q, last)
<1>11. r = [e EXCEPT !.planned = pl]
  BY <1>5 DEF Recalculated, ForwardPass, q, f
<1>12. optimal = {j \in 1..L : done(j)}
  <2>1. \A j \in 1..L : j \in 0..L /\ j # 0 BY <1>1
  <2>2. \A j \in 1..L : Settled(f[j], c(j)) <=> done(j) BY <1>6, <2>1 DEF Settled
  <2>3. optimal = {k \in 1..L : Settled(f[k], c(k))} BY DEF c
  <2> HIDE DEF done, optimal
  <2> QED BY <2>2, <2>3
<1> HIDE DEF optimal
<1>13. /\ e \in Plans /\ e.planned = p.planned /\ e.tail = p.tail /\ e.head = p.head
       /\ e.nominal = p.nominal
       /\ \A i \in Slots : e.blocks[i] = IF Position(p, i) \in 1..L
                                         THEN [q.blocks[i] EXCEPT !.entry = f[Position(p, i)]]
                                         ELSE q.blocks[i]
  <2>1. \A k \in 1..LastPosition(q) : f[k] \in Nat BY <1>1, <1>5, <1>7
  <2>2. e.nominal = q.nominal BY <1>4 DEF Entered, Plans
  <2> HIDE DEF e
  <2> QED BY <1>4, <1>5, <2>1, <2>2, EnteredKeeps DEF SameWork, e
<1>14. \A i \in Slots : e.blocks[i] = IF Position(p, i) \in 1..L
                                      THEN [p.blocks[i] EXCEPT !.entry = f[Position(p, i)]]
                                      ELSE p.blocks[i]
  <2> SUFFICES ASSUME NEW i \in Slots
               PROVE  e.blocks[i] = IF Position(p, i) \in 1..L
                                    THEN [p.blocks[i] EXCEPT !.entry = f[Position(p, i)]]
                                    ELSE p.blocks[i]
    OBVIOUS
  <2> DEFINE was == p.blocks[i]
             k == Position(p, i)
  <2>1. CASE k \notin 1..L BY <1>4, <1>13, <2>1
  <2>2. CASE k \in 1..L
    <3>1. q.blocks[i] = [was EXCEPT !.entry = s[k]] BY <1>4, <2>2
    <3>2. e.blocks[i] = [q.blocks[i] EXCEPT !.entry = f[k]] BY <1>13, <2>2
    <3>3. was \in Block
      <4>1. p.blocks \in [Slots -> Block] BY PlanParts
      <4> QED BY <4>1
    <3> HIDE DEF was, k
    <3>4. e.blocks[i] = [was EXCEPT !.entry = f[k]] BY <3>1, <3>2, <3>3 DEF Block
    <3> QED BY <2>2, <3>4 DEF was, k
  <2> QED BY <2>1, <2>2
<1>15. /\ r \in Plans /\ r.tail = p.tail /\ r.head = p.head /\ r.nominal = p.nominal
       /\ r.blocks = e.blocks /\ r.planned = pl
  <2>1. r \in Plans BY RecalculatedKeeps
  <2> HIDE DEF r, e, pl
  <2> QED BY <1>11, <1>13, <2>1 DEF Plans
<1>16. \/ r.planned = p.planned /\ \A j \in 1..L : ~done(j)
       \/ \E j \in 1..L : r.planned = At(p, j) /\ done(j) /\ \A i \in 1..L : done(i) => i <= j
  <2>1. CASE optimal = {}
    <3>1. r.planned = p.planned BY <1>13, <1>15, <2>1
    <3> HIDE DEF done
    <3>2. \A j \in 1..L : ~done(j) BY <1>12, <2>1
    <3> QED BY <3>1, <3>2
  <2>2. CASE optimal # {}
    <3>1. optimal \in SUBSET (1..L) BY <1>12
    <3>2. last \in optimal /\ \A other \in optimal : other <= last
      <4> HIDE DEF optimal
      <4> QED BY <2>2, <3>1, PlannedLast
    <3>3. r.planned = At(p, last) BY <1>5, <1>15, <2>2
    <3> HIDE DEF done, last, r
    <3>4. last \in 1..L /\ done(last) /\ \A i \in 1..L : done(i) => i <= last
      BY <1>12, <3>2
    <3> QED BY <3>3, <3>4
  <2> QED BY <2>1, <2>2
<1>17. Leaves(p, s, f, r)
  <2> HIDE DEF r, e, pl
  <2> QED BY <1>14, <1>15, <1>16 DEF Leaves
<1> QED BY <1>10, <1>17

-------------------------------------------------------------------------------
(* Speeds of a plan: n blocks are entered at the speeds e, with the limits *)
(* m of their junctions and the ways d to their ends                       *)

Exit(n, e, k) == IF k + 1 = n THEN 0 ELSE e[k + 1]

(* The machine can always brake: within every block to the next one.       *)
CanBrake(n, e, m, d) ==
  /\ \A k \in 1..(n - 1) : e[k] <= m[k]
  /\ \A k \in 0..(n - 1) : e[k] <= Exit(n, e, k) + d[k]

(* A speed can be reached, and it is held down by its own limit, by the    *)
(* block before or by the block after.                                     *)
Reached(e, d, k) == e[k] <= e[k - 1] + d[k - 1]
FromBehind(e, m, d, k) == e[k] = m[k] \/ e[k] = e[k - 1] + d[k - 1]
FromAhead(n, e, d, k) == e[k] = Exit(n, e, k) + d[k]

(* The plan is the best one up to its planned block q, which no line to    *)
(* come can change.                                                        *)
BestUpTo(n, q, e, m, d) ==
  /\ \A k \in 1..q : Reached(e, d, k)
  /\ \A k \in 1..(q - 1) : FromBehind(e, m, d, k) \/ FromAhead(n, e, d, k)
  /\ q > 0 => FromBehind(e, m, d, q)

(* It is the best one.                                                     *)
Best(n, q, e, m, d) ==
  /\ \A k \in 1..(n - 1) : Reached(e, d, k)
  /\ \A k \in 1..(n - 1) : FromBehind(e, m, d, k) \/ FromAhead(n, e, d, k)
  /\ q > 0 => FromBehind(e, m, d, q)

Speeds(n) == [0..(n - 1) -> Nat]

(* The passes of planner_recalculate, which leave the speeds up to q alone *)
(* and set those beyond: s in the reverse pass, then f.                    *)
PassesAre(n, q, e, m, d, s, f) ==
  /\ \A k \in (q + 1)..(n - 1) : s[k] \in Nat
  /\ \A k \in 0..q : f[k] = e[k]
  /\ \A k \in (q + 1)..(n - 1) :
       /\ s[k] = IF k + 1 = n THEN Least(m[k], d[k])
                 ELSE IF e[k] = m[k] THEN e[k] ELSE Least(m[k], s[k + 1] + d[k])
       /\ f[k] = IF f[k - 1] < s[k] THEN Least(s[k], f[k - 1] + d[k - 1]) ELSE s[k]

(* The reverse pass raises speeds only, although it leaves a block alone   *)
(* that is entered as fast as it may be.                                   *)
LEMMA ReverseIs ==
  ASSUME NEW n \in Nat \ {0}, NEW q \in 0..(n - 1), NEW e \in Speeds(n), NEW m \in Speeds(n),
         NEW d \in Speeds(n), NEW s, NEW f, CanBrake(n, e, m, d), PassesAre(n, q, e, m, d, s, f)
  PROVE  \A k \in (q + 1)..(n - 1) :
           /\ e[k] <= s[k] /\ s[k] <= m[k]
           /\ s[k] <= (IF k + 1 = n THEN 0 ELSE s[k + 1]) + d[k]
           /\ s[k] = m[k] \/ s[k] = (IF k + 1 = n THEN 0 ELSE s[k + 1]) + d[k]
<1>1. \A k \in 0..(n - 1) : e[k] \in Nat /\ m[k] \in Nat /\ d[k] \in Nat BY DEF Speeds
<1>2. \A k \in (q + 1)..(n - 1) : k \in 1..(n - 1) /\ k \in 0..(n - 1) OBVIOUS
<1>3. ASSUME NEW k \in (q + 1)..(n - 1) PROVE e[k] <= s[k]
  <2> DEFINE S == {j \in Nat : \A i \in (q + 1)..(n - 1) : i = n - 1 - j => e[i] <= s[i]}
  <2>1. 0 \in S
    <3> SUFFICES ASSUME NEW i \in (q + 1)..(n - 1), i = n - 1 PROVE e[i] <= s[i] OBVIOUS
    <3>1. s[i] = Least(m[i], d[i]) BY DEF PassesAre
    <3>2. e[i] <= m[i] /\ e[i] <= Exit(n, e, i) + d[i] BY <1>2 DEF CanBrake
    <3>3. Exit(n, e, i) = 0 BY DEF Exit
    <3> QED BY <1>1, <1>2, <3>1, <3>2, <3>3 DEF Least
  <2>2. ASSUME NEW j \in Nat, j \in S PROVE j + 1 \in S
    <3> SUFFICES ASSUME NEW i \in (q + 1)..(n - 1), i = n - 1 - (j + 1) PROVE e[i] <= s[i] OBVIOUS
    <3>1. i + 1 \in (q + 1)..(n - 1) /\ i + 1 = n - 1 - j /\ i + 1 # n OBVIOUS
    <3>2. e[i + 1] <= s[i + 1] BY <2>2, <3>1
    <3>3. s[i] = IF e[i] = m[i] THEN e[i] ELSE Least(m[i], s[i + 1] + d[i]) BY <3>1 DEF PassesAre
    <3>4. e[i] <= m[i] /\ e[i] <= e[i + 1] + d[i] BY <1>2, <3>1 DEF CanBrake, Exit
    <3>5. s[i + 1] \in Nat /\ e[i + 1] \in Nat /\ e[i] \in Nat /\ m[i] \in Nat /\ d[i] \in Nat
      BY <1>1, <1>2, <3>1 DEF PassesAre
    <3> QED BY <3>2, <3>3, <3>4, <3>5 DEF Least
  <2> HIDE DEF S
  <2>3. n - 1 - k \in S
    <3>1. n - 1 - k \in Nat OBVIOUS
    <3> QED BY <2>1, <2>2, <3>1, Induction
  <2> QED BY <2>3 DEF S
<1>4. ASSUME NEW k \in (q + 1)..(n - 1)
      PROVE  /\ s[k] <= m[k]
             /\ s[k] <= (IF k + 1 = n THEN 0 ELSE s[k + 1]) + d[k]
             /\ s[k] = m[k] \/ s[k] = (IF k + 1 = n THEN 0 ELSE s[k + 1]) + d[k]
  <2>1. s[k] = IF k + 1 = n THEN Least(m[k], d[k])
               ELSE IF e[k] = m[k] THEN e[k] ELSE Least(m[k], s[k + 1] + d[k])
    BY DEF PassesAre
  <2>2. m[k] \in Nat /\ d[k] \in Nat /\ e[k] \in Nat /\ e[k] <= m[k] BY <1>1, <1>2 DEF CanBrake
  <2>3. CASE k + 1 = n BY <2>1, <2>2, <2>3 DEF Least
  <2>4. CASE k + 1 # n
    <3>1. k + 1 \in (q + 1)..(n - 1) BY <2>4
    <3>2. e[k + 1] <= s[k + 1] /\ s[k + 1] \in Nat /\ e[k + 1] \in Nat
      BY <1>1, <1>2, <1>3, <3>1 DEF PassesAre
    <3>3. e[k] <= e[k + 1] + d[k] BY <1>2, <2>4 DEF CanBrake, Exit
    <3> QED BY <2>1, <2>2, <2>4, <3>2, <3>3 DEF Least
  <2> QED BY <2>3, <2>4
<1> QED BY <1>3, <1>4

(* Replanning keeps a plan that can be braked so, and what it leaves is    *)
(* the best plan if it was up to the planned block.                        *)
LEMMA PassesPlan ==
  ASSUME NEW n \in Nat \ {0}, NEW q \in 0..(n - 1), NEW e \in Speeds(n), NEW m \in Speeds(n),
         NEW d \in Speeds(n), NEW s, NEW f \in Speeds(n),
         CanBrake(n, e, m, d), PassesAre(n, q, e, m, d, s, f), NEW r \in 0..(n - 1),
         r = q \/ (r > q /\ (f[r] < s[r] \/ f[r] = m[r]))
  PROVE  CanBrake(n, f, m, d) /\ (BestUpTo(n, q, e, m, d) => Best(n, r, f, m, d))
<1>1. \A k \in 0..(n - 1) : e[k] \in Nat /\ m[k] \in Nat /\ d[k] \in Nat /\ f[k] \in Nat
  BY DEF Speeds
<1>2. \A k \in (q + 1)..(n - 1) : k \in 1..(n - 1) /\ k \in 0..(n - 1) /\ k - 1 \in 0..(n - 1)
  OBVIOUS
<1>3. \A k \in (q + 1)..(n - 1) :
        /\ e[k] <= s[k] /\ s[k] <= m[k] /\ s[k] \in Nat
        /\ s[k] <= (IF k + 1 = n THEN 0 ELSE s[k + 1]) + d[k]
        /\ s[k] = m[k] \/ s[k] = (IF k + 1 = n THEN 0 ELSE s[k + 1]) + d[k]
  <2>1. \A k \in (q + 1)..(n - 1) : s[k] \in Nat BY DEF PassesAre
  <2> QED BY <2>1, ReverseIs
<1>4. \A k \in (q + 1)..(n - 1) :
        /\ f[k] = IF f[k - 1] < s[k] THEN Least(s[k], f[k - 1] + d[k - 1]) ELSE s[k]
  BY DEF PassesAre
<1>5. \A k \in (q + 1)..(n - 1) :
        /\ f[k] <= s[k] /\ f[k] <= f[k - 1] + d[k - 1]
        /\ f[k] = s[k] \/ (f[k] = f[k - 1] + d[k - 1] /\ f[k] < s[k])
        /\ f[k - 1] >= s[k] => f[k] = s[k]
  <2> SUFFICES ASSUME NEW k \in (q + 1)..(n - 1)
               PROVE  /\ f[k] <= s[k] /\ f[k] <= f[k - 1] + d[k - 1]
                      /\ f[k] = s[k] \/ (f[k] = f[k - 1] + d[k - 1] /\ f[k] < s[k])
                      /\ f[k - 1] >= s[k] => f[k] = s[k]
    OBVIOUS
  <2>1. f[k] \in Nat /\ f[k - 1] \in Nat /\ s[k] \in Nat /\ d[k - 1] \in Nat BY <1>1, <1>2, <1>3
  <2>2. f[k] = IF f[k - 1] < s[k] THEN Least(s[k], f[k - 1] + d[k - 1]) ELSE s[k] BY <1>4
  <2> QED BY <2>1, <2>2 DEF Least
<1>6. \A k \in 0..q : f[k] = e[k] BY DEF PassesAre
<1>7. ASSUME NEW k \in 1..(n - 1) PROVE f[k] <= m[k]
  <2>1. CASE k <= q
    <3>1. k \in 0..q BY <2>1
    <3> QED BY <1>6, <3>1 DEF CanBrake
  <2>2. CASE k > q
    <3>1. k \in (q + 1)..(n - 1) BY <2>2
    <3> QED BY <1>1, <1>2, <1>3, <1>5, <3>1
  <2> QED BY <2>1, <2>2
<1>8. ASSUME NEW k \in 0..(n - 1) PROVE f[k] <= Exit(n, f, k) + d[k]
  <2>1. e[k] <= Exit(n, e, k) + d[k] /\ f[k] \in Nat /\ e[k] \in Nat /\ d[k] \in Nat
    BY <1>1 DEF CanBrake
  <2>2. CASE k < q
    <3>1. k \in 0..q /\ k + 1 \in 0..q /\ k + 1 # n BY <2>2
    <3> QED BY <1>6, <2>1, <3>1 DEF Exit
  <2>3. CASE k >= q /\ k + 1 = n
    <3>1. CASE k = q
      <4>1. k \in 0..q BY <3>1
      <4> QED BY <1>6, <2>1, <2>3, <4>1 DEF Exit
    <3>2. CASE k > q
      <4>1. k \in (q + 1)..(n - 1) BY <3>2
      <4>2. f[k] <= s[k] /\ s[k] <= 0 + d[k] /\ s[k] \in Nat BY <1>3, <1>5, <2>3, <4>1
      <4> QED BY <2>1, <2>3, <4>2 DEF Exit
    <3> QED BY <2>3, <3>1, <3>2
  <2>4. CASE k >= q /\ k + 1 # n
    <3>1. k + 1 \in (q + 1)..(n - 1) /\ (k + 1) - 1 = k BY <2>4
    <3>2. /\ f[k + 1] \in Nat /\ s[k + 1] \in Nat /\ e[k + 1] <= s[k + 1] /\ e[k + 1] \in Nat
          /\ f[k + 1] = s[k + 1] \/ f[k + 1] = f[k] + d[k]
      BY <1>1, <1>2, <1>3, <1>5, <3>1
    <3>3. f[k] <= s[k + 1] + d[k]
      <4>1. CASE k = q
        <5>1. k \in 0..q BY <4>1
        <5> QED BY <1>6, <2>1, <2>4, <3>2, <5>1 DEF Exit
      <4>2. CASE k > q
        <5>1. k \in (q + 1)..(n - 1) BY <4>2
        <5>2. f[k] <= s[k] /\ s[k] <= s[k + 1] + d[k] /\ s[k] \in Nat BY <1>3, <1>5, <2>4, <5>1
        <5> QED BY <2>1, <3>2, <5>2
      <4> QED BY <2>4, <4>1, <4>2
    <3> QED BY <2>1, <2>4, <3>2, <3>3 DEF Exit
  <2> QED BY <2>2, <2>3, <2>4
<1>9. CanBrake(n, f, m, d) BY <1>7, <1>8 DEF CanBrake
<1>10. ASSUME BestUpTo(n, q, e, m, d) PROVE Best(n, r, f, m, d)
  <2>1. \A k \in 1..q : k \in 0..q /\ k - 1 \in 0..q OBVIOUS
  <2>2. ASSUME NEW k \in 1..(n - 1) PROVE Reached(f, d, k)
    <3>1. CASE k <= q
      <4>1. k \in 1..q BY <3>1
      <4> QED BY <1>6, <1>10, <2>1, <4>1 DEF BestUpTo, Reached
    <3>2. CASE k > q
      <4>1. k \in (q + 1)..(n - 1) BY <3>2
      <4> QED BY <1>5, <4>1 DEF Reached
    <3> QED BY <3>1, <3>2
  <2>3. ASSUME NEW k \in 1..q, FromBehind(e, m, d, k) PROVE FromBehind(f, m, d, k)
    BY <1>6, <2>1, <2>3 DEF FromBehind
  <2>4. ASSUME NEW k \in 1..(n - 1) PROVE FromBehind(f, m, d, k) \/ FromAhead(n, f, d, k)
    <3>1. CASE k < q
      <4>1. k \in 1..(q - 1) /\ k \in 1..q /\ k \in 0..q /\ k + 1 \in 0..q /\ k + 1 # n BY <3>1
      <4>2. FromAhead(n, e, d, k) => FromAhead(n, f, d, k) BY <1>6, <4>1 DEF FromAhead, Exit
      <4> QED BY <1>10, <2>3, <4>1, <4>2 DEF BestUpTo
    <3>2. CASE k = q BY <1>10, <2>3, <3>2 DEF BestUpTo
    <3>3. CASE k > q
      <4>1. k \in (q + 1)..(n - 1) BY <3>3
      <4>2. CASE f[k] # s[k] BY <1>5, <4>1, <4>2 DEF FromBehind
      <4>3. CASE f[k] = s[k] /\ s[k] = m[k] BY <4>3 DEF FromBehind
      <4>4. CASE f[k] = s[k] /\ s[k] # m[k]
        <5>1. s[k] = (IF k + 1 = n THEN 0 ELSE s[k + 1]) + d[k] BY <1>3, <4>1, <4>4
        <5>2. CASE k + 1 = n BY <4>4, <5>1, <5>2 DEF FromAhead, Exit
        <5>3. CASE k + 1 # n
          <6>1. k + 1 \in (q + 1)..(n - 1) /\ (k + 1) - 1 = k BY <3>3, <5>3
          <6>2. f[k] = s[k + 1] + d[k] /\ s[k + 1] \in Nat /\ d[k] \in Nat
            BY <1>1, <1>3, <4>4, <5>1, <5>3, <6>1
          <6>3. f[k] >= s[k + 1] BY <6>2
          <6>4. f[k + 1] = s[k + 1] BY <1>5, <6>1, <6>3
          <6> QED BY <5>3, <6>2, <6>4 DEF FromAhead, Exit
        <5> QED BY <5>2, <5>3
      <4> QED BY <4>2, <4>3, <4>4
    <3> QED BY <3>1, <3>2, <3>3
  <2>5. ASSUME r > 0 PROVE FromBehind(f, m, d, r)
    <3>1. CASE r = q
      <4>1. r \in 1..q BY <2>5, <3>1
      <4> QED BY <1>10, <2>3, <2>5, <3>1, <4>1 DEF BestUpTo
    <3>2. CASE r > q
      <4>1. r \in (q + 1)..(n - 1) /\ (f[r] < s[r] \/ f[r] = m[r]) BY <3>2
      <4>2. f[r] \in Nat /\ s[r] \in Nat BY <1>1, <1>2, <1>3, <4>1
      <4>3. f[r] = m[r] \/ f[r] = f[r - 1] + d[r - 1] BY <1>5, <4>1, <4>2
      <4> QED BY <4>3 DEF FromBehind
    <3> QED BY <3>1, <3>2
  <2> QED BY <2>2, <2>4, <2>5 DEF Best
<1> QED BY <1>9, <1>10

-------------------------------------------------------------------------------
(* The speeds of a plan whose first block is entered at v                  *)

Entries(p, v) == [k \in 0..(Amount(p) - 1) |-> IF k = 0 THEN v ELSE Nth(p, k).entry]
Maxes(p) == [k \in 0..(Amount(p) - 1) |-> Nth(p, k).max]
Ways(p) == [k \in 0..(Amount(p) - 1) |-> Nth(p, k).mm]

Braked(p, v) == CanBrake(Amount(p), Entries(p, v), Maxes(p), Ways(p))
Settling(p, v) == BestUpTo(Amount(p), Ahead(p), Entries(p, v), Maxes(p), Ways(p))
Optimal(p, v) == Best(Amount(p), Ahead(p), Entries(p, v), Maxes(p), Ways(p))

(* They are numbers.                                                       *)
LEMMA SpeedsAre ==
  ASSUME NEW p \in Plans, NEW v \in Nat
  PROVE  /\ Entries(p, v) \in Speeds(Amount(p)) /\ Maxes(p) \in Speeds(Amount(p))
         /\ Ways(p) \in Speeds(Amount(p))
         /\ \A k \in 0..(Amount(p) - 1) :
              /\ k \in 0..(BlockBufferSize - 1) /\ Maxes(p)[k] = Nth(p, k).max
              /\ Ways(p)[k] = Nth(p, k).mm
              /\ Entries(p, v)[k] = IF k = 0 THEN v ELSE Nth(p, k).entry
<1>1. \A k \in 0..(Amount(p) - 1) : k \in 0..(BlockBufferSize - 1)
  <2>1. Amount(p) \in 0..(BlockBufferSize - 1) BY Numbered
  <2> QED BY <2>1, PlannerAssumption
<1>2. \A k \in 0..(Amount(p) - 1) :
        Nth(p, k).max \in Nat /\ Nth(p, k).mm \in Nat /\ Nth(p, k).entry \in Nat
  BY <1>1, Numbered
<1> QED BY <1>1, <1>2 DEF Entries, Maxes, Ways, Speeds

(* A plan that differs from another one in its speeds.                     *)
SpeedsOnly(p, r) ==
  /\ r \in Plans /\ r.tail = p.tail /\ r.head = p.head /\ r.nominal = p.nominal
  /\ \A i \in Slots : /\ r.blocks[i].mm = p.blocks[i].mm
                      /\ r.blocks[i].rate = p.blocks[i].rate
                      /\ r.blocks[i].max = p.blocks[i].max

(* It has as many blocks, of the same limits and ways.                     *)
LEMMA OnlySpeeds ==
  ASSUME NEW p \in Plans, NEW r, SpeedsOnly(p, r)
  PROVE  /\ Amount(r) = Amount(p) /\ Maxes(r) = Maxes(p) /\ Ways(r) = Ways(p)
         /\ \A k : NthSlot(r, k) = NthSlot(p, k)
         /\ \A k \in 0..(BlockBufferSize - 1) : /\ Nth(r, k).mm = Nth(p, k).mm
                                                /\ Nth(r, k).rate = Nth(p, k).rate
                                                /\ Nth(r, k).max = Nth(p, k).max
<1>1. Amount(r) = Amount(p) /\ \A k : NthSlot(r, k) = NthSlot(p, k)
  BY DEF SpeedsOnly, Amount, NthSlot
<1>2. \A k \in 0..(BlockBufferSize - 1) : /\ Nth(r, k).mm = Nth(p, k).mm
                                          /\ Nth(r, k).rate = Nth(p, k).rate
                                          /\ Nth(r, k).max = Nth(p, k).max
  BY <1>1, Numbered DEF Nth, SpeedsOnly
<1>3. Amount(p) \in Nat /\ Amount(p) <= BlockBufferSize - 1 /\ BlockBufferSize \in Nat
  BY Numbered, PlannerAssumption
<1>4. \A k \in 0..(Amount(p) - 1) : k \in 0..(BlockBufferSize - 1) BY <1>3
<1>5. \A k \in 0..(Amount(p) - 1) : Nth(r, k).mm = Nth(p, k).mm /\ Nth(r, k).max = Nth(p, k).max
  BY <1>2, <1>4
<1>6. Maxes(r) = Maxes(p) BY <1>1, <1>5 DEF Maxes
<1>7. Ways(r) = Ways(p) BY <1>1, <1>5 DEF Ways
<1> QED BY <1>1, <1>2, <1>6, <1>7

(* planner_recalculate changes speeds only.                                *)
LEMMA RecalculatedOnly ==
  ASSUME NEW p \in Plans
  PROVE  SpeedsOnly(p, Recalculated(p))
<1> DEFINE r == Recalculated(p)
<1>1. CASE LastPosition(p) = 0 BY <1>1 DEF Recalculated, SpeedsOnly
<1>2. CASE LastPosition(p) # 0
  <2>1. PICK s, f : Leaves(p, s, f, r) BY <1>2, RecalculatedIs
  <2> HIDE DEF r
  <2>2. r \in Plans /\ r.tail = p.tail /\ r.head = p.head /\ r.nominal = p.nominal
    BY <2>1 DEF Leaves
  <2>3. ASSUME NEW i \in Slots
        PROVE  /\ r.blocks[i].mm = p.blocks[i].mm /\ r.blocks[i].rate = p.blocks[i].rate
               /\ r.blocks[i].max = p.blocks[i].max
    <3> DEFINE c == p.blocks[i]
               w == f[Position(p, i)]
    <3>1. c \in Block
      <4>1. p.blocks \in [Slots -> Block] BY PlanParts
      <4> QED BY <4>1
    <3>2. r.blocks[i] = [c EXCEPT !.entry = w] \/ r.blocks[i] = c BY <2>1 DEF Leaves
    <3> HIDE DEF c, w
    <3>3. r.blocks[i].mm = c.mm /\ r.blocks[i].rate = c.rate /\ r.blocks[i].max = c.max
      BY <3>1, <3>2 DEF Block
    <3> QED BY <3>3 DEF c
  <2>4. SpeedsOnly(p, r) BY <2>2, <2>3 DEF SpeedsOnly
  <2> QED BY <2>4 DEF r
<1> QED BY <1>1, <1>2

(* planner_recalculate of a plan that can be braked: its blocks up to the  *)
(* planned one are left alone, it can still be braked, and if it was the   *)
(* best one so far it is the best one.                                     *)
LEMMA Replanned ==
  ASSUME NEW p \in Plans, NEW v \in Nat, Amount(p) > 0, Ahead(p) < Amount(p),
         Ahead(p) = 0 => Nth(p, 0).entry = v, Braked(p, v)
  PROVE  LET r == Recalculated(p)
         IN  /\ SpeedsOnly(p, r) /\ Ahead(r) < Amount(p) /\ Ahead(p) <= Ahead(r)
             /\ \A k \in 0..Ahead(p) : Nth(r, k) = Nth(p, k)
             /\ Braked(r, v) /\ (Settling(p, v) => Optimal(r, v))
<1> DEFINE r == Recalculated(p)
           n == Amount(p)
           q == Ahead(p)
           e == Entries(p, v)
           m == Maxes(p)
           d == Ways(p)
           L == LastPosition(p)
           N == BlockBufferSize
<1>1. /\ n \in Nat \ {0} /\ n <= N - 1 /\ N \in Nat \ {0} /\ q \in 0..(n - 1)
      /\ e \in Speeds(n) /\ m \in Speeds(n) /\ d \in Speeds(n)
      /\ \A k \in 0..(n - 1) : /\ k \in 0..(N - 1) /\ m[k] = Nth(p, k).max /\ d[k] = Nth(p, k).mm
                               /\ e[k] = IF k = 0 THEN v ELSE Nth(p, k).entry
  <2>1. n \in 0..(N - 1) /\ q \in 0..(N - 1) BY Numbered
  <2>2. n \in Nat \ {0} /\ n <= N - 1 /\ N \in Nat \ {0} /\ q \in 0..(n - 1)
    BY <2>1, PlannerAssumption
  <2> QED BY <2>2, SpeedsAre
<1>2. L = n - 1 - q BY FromPlanned
<1>3. r \in Plans BY RecalculatedKeeps
<1>4. CASE L = 0
  <2>1. r = p BY <1>4 DEF Recalculated
  <2>2. q = n - 1 BY <1>1, <1>2, <1>4
  <2>3. PassesAre(n, q, e, m, d, e, e)
    <3>1. (q + 1)..(n - 1) = {} BY <1>1, <2>2
    <3> QED BY <3>1 DEF PassesAre
  <2>4. CanBrake(n, e, m, d) BY DEF Braked
  <2>5. BestUpTo(n, q, e, m, d) => Best(n, q, e, m, d)
    <3> HIDE DEF n, q, e, m, d
    <3> QED BY <1>1, <2>3, <2>4, PassesPlan
  <2>6. SpeedsOnly(p, r) BY <2>1 DEF SpeedsOnly
  <2>7. q <= q BY <1>1
  <2> QED BY <2>1, <2>5, <2>6, <2>7 DEF Settling, Optimal
<1>5. CASE L # 0
  <2>1. PICK s0, f0 : Planned(p, s0, f0) /\ Leaves(p, s0, f0, r)
    BY <1>5, RecalculatedIs
  <2> HIDE DEF r
  <2> DEFINE s == [k \in (q + 1)..(n - 1) |-> s0[k - q]]
             f == [k \in 0..(n - 1) |-> IF k <= q THEN e[k] ELSE f0[k - q]]
             b(j) == p.blocks[At(p, j)]
  <2>2. L \in Nat /\ L = n - 1 - q BY <1>1, <1>2
  <2>3. ASSUME NEW k \in q..(n - 1)
        PROVE  At(p, k - q) = NthSlot(p, k) /\ b(k - q) = Nth(p, k) /\ k - q \in 0..L
    <3>1. k \in 0..(N - 1) /\ k >= q BY <1>1
    <3>2. Position(p, NthSlot(p, k)) = k - q
      BY <3>1, FromPlanned
    <3>3. NthSlot(p, k) \in Slots BY <3>1, Numbered
    <3>4. At(p, k - q) = NthSlot(p, k) BY <3>2, <3>3, Positions
    <3> QED BY <1>1, <2>2, <3>4 DEF Nth
  <2>4. \A i \in Slots : r.blocks[i] = IF Position(p, i) \in 1..L
                                       THEN [p.blocks[i] EXCEPT !.entry = f0[Position(p, i)]]
                                       ELSE p.blocks[i]
    BY <2>1 DEF Leaves
  <2>5. SpeedsOnly(p, r) BY RecalculatedOnly DEF r
  <2>6. /\ f0 \in [0..L -> Nat] /\ f0[0] = b(0).entry /\ s0 \in [1..L -> Nat]
        /\ \A j \in 1..L :
             /\ s0[j] = IF j = L THEN Least(b(j).max, b(j).mm) ELSE Backward(b(j), s0[j + 1])
             /\ f0[j] = IF f0[j - 1] < s0[j] THEN Least(s0[j], f0[j - 1] + b(j - 1).mm) ELSE s0[j]
    BY <2>1 DEF Planned
  <2>7. f \in Speeds(n)
    <3>1. \A k \in 0..(n - 1) : ~(k <= q) => k - q \in 0..L BY <1>1, <2>2
    <3>2. \A k \in 0..(n - 1) : e[k] \in Nat BY <1>1 DEF Speeds
    <3> HIDE DEF e, n, q, L
    <3> QED BY <2>6, <3>1, <3>2 DEF Speeds
  <2>8. \A k \in q..(n - 1) : f[k] = f0[k - q]
    <3> SUFFICES ASSUME NEW k \in q..(n - 1) PROVE f[k] = f0[k - q] OBVIOUS
    <3>1. CASE k > q BY <1>1, <3>1
    <3>2. CASE k = q
      <4>1. f[k] = e[q] /\ k - q = 0 BY <1>1, <3>2
      <4>2. b(0) = Nth(p, q) BY <2>3, <3>2, <4>1
      <4>3. e[q] = Nth(p, q).entry BY <1>1
      <4> QED BY <2>6, <4>1, <4>2, <4>3
    <3> QED BY <1>1, <3>1, <3>2
  <2>9. PassesAre(n, q, e, m, d, s, f)
    <3>1. \A k \in (q + 1)..(n - 1) : s[k] \in Nat
      <4>1. \A k \in (q + 1)..(n - 1) : k - q \in 1..L BY <1>1, <2>2
      <4> HIDE DEF n, q, L
      <4> QED BY <2>6, <4>1
    <3>2. \A k \in 0..q : f[k] = e[k] BY <1>1
    <3>3. ASSUME NEW k \in (q + 1)..(n - 1)
          PROVE  /\ s[k] = IF k + 1 = n THEN Least(m[k], d[k])
                           ELSE IF e[k] = m[k] THEN e[k] ELSE Least(m[k], s[k + 1] + d[k])
                 /\ f[k] = IF f[k - 1] < s[k] THEN Least(s[k], f[k - 1] + d[k - 1]) ELSE s[k]
      <4> DEFINE j == k - q
      <4>1. /\ j \in 1..L /\ k \in q..(n - 1) /\ k - 1 \in q..(n - 1) /\ (k - 1) - q = j - 1
            /\ (k + 1 = n <=> j = L) /\ k \in 0..(n - 1) /\ k - 1 \in 0..(n - 1) /\ k # 0
        BY <1>1, <2>2
      <4>2. b(j) = Nth(p, k) /\ b(j - 1) = Nth(p, k - 1) BY <2>3, <4>1
      <4>3. s[k] = s0[j] /\ f[k] = f0[j] /\ f[k - 1] = f0[j - 1] BY <2>8, <4>1
      <4>4. m[k] = b(j).max /\ d[k] = b(j).mm /\ e[k] = b(j).entry /\ d[k - 1] = b(j - 1).mm
        BY <1>1, <4>1, <4>2
      <4>5. k + 1 # n => s[k + 1] = s0[j + 1]
        <5>1. k + 1 # n => k + 1 \in (q + 1)..(n - 1) /\ (k + 1) - q = j + 1 BY <1>1
        <5> HIDE DEF n, q, j
        <5> QED BY <5>1
      <4> HIDE DEF j, b, f, s, L, n, q, m, d, e
      <4>6. s0[j] = IF j = L THEN Least(b(j).max, b(j).mm) ELSE Backward(b(j), s0[j + 1])
        BY <2>6, <4>1
      <4>7. f0[j] = IF f0[j - 1] < s0[j] THEN Least(s0[j], f0[j - 1] + b(j - 1).mm) ELSE s0[j]
        BY <2>6, <4>1
      <4>8. s[k] = IF k + 1 = n THEN Least(m[k], d[k])
                   ELSE IF e[k] = m[k] THEN e[k] ELSE Least(m[k], s[k + 1] + d[k])
        BY <4>1, <4>3, <4>4, <4>5, <4>6 DEF Backward
      <4> QED BY <4>3, <4>4, <4>7, <4>8
    <3> HIDE DEF s, f, n, q, m, d, e
    <3> QED BY <3>1, <3>2, <3>3 DEF PassesAre
  <2>10. \A k \in 0..(n - 1) : k > q => Nth(r, k).entry = f[k]
    <3> SUFFICES ASSUME NEW k \in 0..(n - 1), k > q PROVE Nth(r, k).entry = f[k] OBVIOUS
    <3>1. k \in q..(n - 1) /\ k - q \in 1..L /\ k \in 0..(N - 1) /\ k >= q BY <1>1, <2>2
    <3>2. Position(p, NthSlot(p, k)) = k - q /\ NthSlot(p, k) \in Slots
      BY <3>1, FromPlanned, Numbered
    <3>3. Nth(r, k) = [Nth(p, k) EXCEPT !.entry = f0[k - q]]
      <4>1. Nth(r, k) = r.blocks[NthSlot(p, k)] BY <2>5, OnlySpeeds DEF Nth
      <4> QED BY <2>4, <3>1, <3>2, <4>1 DEF Nth
    <3>4. Nth(p, k) \in Block BY <3>1, Numbered
    <3> DEFINE c == Nth(p, k)
    <3>5. [c EXCEPT !.entry = f0[k - q]].entry = f0[k - q]
      <4> HIDE DEF c
      <4> QED BY <3>4 DEF c, Block
    <3> QED BY <2>8, <3>1, <3>3, <3>5
  <2>11. \A k \in 0..q : Nth(r, k) = Nth(p, k)
    <3> SUFFICES ASSUME NEW k \in 0..q PROVE Nth(r, k) = Nth(p, k) OBVIOUS
    <3>1. k \in 0..(N - 1) BY <1>1
    <3>2. Position(p, NthSlot(p, k)) = (IF k >= q THEN k - q ELSE N + k - q)
          /\ NthSlot(p, k) \in Slots
      BY <3>1, FromPlanned, Numbered
    <3>3. Position(p, NthSlot(p, k)) \notin 1..L BY <1>1, <2>2, <3>1, <3>2
    <3>4. Nth(r, k) = r.blocks[NthSlot(p, k)] BY <2>5, OnlySpeeds DEF Nth
    <3>5. r.blocks[NthSlot(p, k)] = p.blocks[NthSlot(p, k)] BY <2>4, <3>2, <3>3
    <3> QED BY <3>4, <3>5 DEF Nth
  <2>12. Entries(r, v) = f
    <3>1. Amount(r) = n BY <2>5, OnlySpeeds
    <3>2. \A k \in 0..(n - 1) : (IF k = 0 THEN v ELSE Nth(r, k).entry) = f[k]
      <4> SUFFICES ASSUME NEW k \in 0..(n - 1)
                   PROVE  (IF k = 0 THEN v ELSE Nth(r, k).entry) = f[k]
        OBVIOUS
      <4>1. CASE k <= q
        <5>1. k \in 0..q /\ f[k] = e[k] BY <1>1, <4>1
        <5> HIDE DEF f
        <5> QED BY <1>1, <2>11, <5>1
      <4>2. CASE k > q
        <5>1. k # 0 BY <1>1, <4>2
        <5> HIDE DEF f
        <5> QED BY <2>10, <4>2, <5>1
      <4> QED BY <1>1, <4>1, <4>2
    <3>3. Entries(r, v) = [k \in 0..(n - 1) |-> IF k = 0 THEN v ELSE Nth(r, k).entry]
      BY <3>1 DEF Entries
    <3>4. f = [k \in 0..(n - 1) |-> f[k]] OBVIOUS
    <3> HIDE DEF f, n
    <3> QED BY <3>2, <3>3, <3>4
  <2>13. /\ Ahead(r) \in 0..(n - 1)
         /\ Ahead(r) = q \/ (Ahead(r) > q /\ (f[Ahead(r)] < s[Ahead(r)] \/ f[Ahead(r)] = m[Ahead(r)]))
    <3>1. CASE r.planned = p.planned
      <4>1. Ahead(r) = q BY <2>5, <3>1 DEF Ahead, SpeedsOnly
      <4> QED BY <1>1, <4>1
    <3>2. CASE r.planned # p.planned
      <4>1. PICK j \in 1..L : r.planned = At(p, j) /\ (f0[j] < s0[j] \/ f0[j] = b(j).max)
        BY <2>1, <3>2 DEF Leaves
      <4> DEFINE k == q + j
      <4>2. /\ k \in q..(n - 1) /\ k - q = j /\ k > q /\ k \in (q + 1)..(n - 1) /\ k \in 0..(n - 1)
            /\ k \in 0..(N - 1)
        BY <1>1, <2>2
      <4>3. r.planned = NthSlot(p, k) /\ b(j) = Nth(p, k) BY <2>3, <4>1, <4>2
      <4>4. Ahead(r) \in 0..(N - 1) /\ NthSlot(r, Ahead(r)) = r.planned BY <1>3, Numbered
      <4>5. NthSlot(p, Ahead(r)) = NthSlot(p, k) BY <2>5, <4>3, <4>4, OnlySpeeds
      <4>6. Ahead(r) = k BY <4>2, <4>4, <4>5, Numbered
      <4>7. f[k] = f0[j] /\ m[k] = b(j).max BY <1>1, <2>8, <4>2, <4>3
      <4>8. s[k] = s0[j] BY <4>2
      <4> HIDE DEF k, f, s, m, b
      <4> QED BY <4>1, <4>2, <4>6, <4>7, <4>8
    <3> QED BY <3>1, <3>2
  <2>14. CanBrake(n, e, m, d) BY DEF Braked
  <2>15. CanBrake(n, f, m, d) /\ (BestUpTo(n, q, e, m, d) => Best(n, Ahead(r), f, m, d))
    <3> DEFINE a == Ahead(r)
    <3>1. a \in 0..(n - 1) /\ (a = q \/ (a > q /\ (f[a] < s[a] \/ f[a] = m[a]))) BY <2>13
    <3> HIDE DEF n, q, e, m, d, f, s, a
    <3>2. CanBrake(n, f, m, d) /\ (BestUpTo(n, q, e, m, d) => Best(n, a, f, m, d))
      BY <1>1, <2>7, <2>9, <2>14, <3>1, PassesPlan
    <3> QED BY <3>2 DEF a
  <2>16. Amount(r) = n /\ Maxes(r) = m /\ Ways(r) = d BY <2>5, OnlySpeeds
  <2>17. Ahead(r) < n /\ q <= Ahead(r) BY <1>1, <2>13
  <2>18. Braked(r, v) BY <2>12, <2>15, <2>16 DEF Braked
  <2>19. Settling(p, v) => Optimal(r, v) BY <2>12, <2>15, <2>16 DEF Settling, Optimal
  <2> QED BY <2>5, <2>11, <2>17, <2>18, <2>19 DEF r
<1> QED BY <1>4, <1>5

-------------------------------------------------------------------------------
(* What the operations of a plan do to its speeds                          *)

(* The limits of the blocks: no block is entered faster than at its own    *)
(* rate or at that of the one before.                                      *)
Limited(p) ==
  /\ Amount(p) > 0 => /\ p.nominal = Nth(p, Amount(p) - 1).rate /\ Ahead(p) < Amount(p)
  /\ \A k \in 0..(Amount(p) - 1) : Nth(p, k).max <= Nth(p, k).rate
  /\ \A k \in 1..(Amount(p) - 1) : Nth(p, k).max <= Nth(p, k - 1).rate

(* Other speeds and ways leave the limits alone.                           *)
LEMMA LimitedSame ==
  ASSUME NEW p \in Plans, NEW r \in Plans, Limited(p),
         Amount(r) = Amount(p), r.nominal = p.nominal, Amount(p) > 0 => Ahead(r) < Amount(p),
         \A k \in 0..(BlockBufferSize - 1) : /\ Nth(r, k).rate = Nth(p, k).rate
                                             /\ Nth(r, k).max = Nth(p, k).max
  PROVE  Limited(r)
<1>1. Amount(p) \in Nat /\ Amount(p) <= BlockBufferSize - 1 /\ BlockBufferSize \in Nat
  BY Numbered, PlannerAssumption
<1>2. \A k \in 0..(Amount(p) - 1) : k \in 0..(BlockBufferSize - 1) BY <1>1
<1>3. \A k \in 1..(Amount(p) - 1) :
        k \in 0..(Amount(p) - 1) /\ k - 1 \in 0..(Amount(p) - 1)
  BY <1>1
<1>4. Amount(p) > 0 => Amount(p) - 1 \in 0..(Amount(p) - 1) BY <1>1
<1>5. \A k \in 0..(Amount(p) - 1) : Nth(r, k).rate = Nth(p, k).rate /\ Nth(r, k).max = Nth(p, k).max
  BY <1>2
<1> QED BY <1>3, <1>4, <1>5 DEF Limited

(* So does replanning.                                                     *)
LEMMA LimitedKept ==
  ASSUME NEW p \in Plans, NEW r, SpeedsOnly(p, r), Limited(p),
         Amount(p) > 0 => Ahead(r) < Amount(p)
  PROVE  Limited(r)
<1>1. r \in Plans /\ r.nominal = p.nominal BY DEF SpeedsOnly
<1>2. /\ Amount(r) = Amount(p)
      /\ \A k \in 0..(BlockBufferSize - 1) : /\ Nth(r, k).rate = Nth(p, k).rate
                                             /\ Nth(r, k).max = Nth(p, k).max
  BY OnlySpeeds
<1> QED BY <1>1, <1>2, LimitedSame

(* Plans that differ in the entry speed of the first block only.           *)
LEMMA SameSpeeds ==
  ASSUME NEW p \in Plans, NEW r, SpeedsOnly(p, r), NEW v,
         \A k \in 1..(BlockBufferSize - 1) : Nth(r, k).entry = Nth(p, k).entry
  PROVE  /\ Entries(r, v) = Entries(p, v) /\ (Braked(r, v) <=> Braked(p, v))
         /\ Ahead(r) = Ahead(p) => /\ Settling(r, v) <=> Settling(p, v)
                                   /\ Optimal(r, v) <=> Optimal(p, v)
<1>1. Amount(r) = Amount(p) /\ Maxes(r) = Maxes(p) /\ Ways(r) = Ways(p) BY OnlySpeeds
<1>2. Amount(p) \in Nat /\ Amount(p) <= BlockBufferSize - 1 /\ BlockBufferSize \in Nat
  BY Numbered, PlannerAssumption
<1>3. \A k \in 0..(Amount(p) - 1) : k # 0 => k \in 1..(BlockBufferSize - 1) BY <1>2
<1>4. \A k \in 0..(Amount(p) - 1) : (IF k = 0 THEN v ELSE Nth(r, k).entry)
                                      = (IF k = 0 THEN v ELSE Nth(p, k).entry)
  BY <1>3
<1>5. Entries(r, v) = Entries(p, v) BY <1>1, <1>4 DEF Entries
<1> QED BY <1>1, <1>5 DEF Braked, Settling, Optimal

(* The first block is given another entry speed.                           *)
LEMMA EntryIs ==
  ASSUME NEW p \in Plans, NEW v \in Nat, NEW r, r = [p EXCEPT !.blocks[p.tail].entry = v]
  PROVE  /\ SpeedsOnly(p, r) /\ r.planned = p.planned /\ Ahead(r) = Ahead(p)
         /\ Nth(r, 0).entry = v
         /\ \A k \in 1..(BlockBufferSize - 1) : Nth(r, k) = Nth(p, k)
<1> DEFINE b == [p.blocks[p.tail] EXCEPT !.entry = v]
           bs == [p.blocks EXCEPT ![p.tail] = b]
<1>1. p.blocks \in [Slots -> Block] /\ p.tail \in Slots BY PlanParts
<1>2. p.blocks[p.tail] \in Block BY <1>1
<1> DEFINE c == p.blocks[p.tail]
<1>3. b \in Block /\ b.mm = c.mm /\ b.rate = c.rate /\ b.max = c.max /\ b.entry = v
  <2> HIDE DEF c
  <2> QED BY <1>2 DEF Block, c
<1>4. r = [p EXCEPT !.blocks = bs] OBVIOUS
<1> HIDE DEF b
<1>5. bs \in [Slots -> Block] /\ bs[p.tail] = b /\ \A i \in Slots : i # p.tail => bs[i] = p.blocks[i]
  BY <1>1, <1>3
<1> HIDE DEF bs
<1>6. /\ r \in Plans /\ r.blocks = bs /\ r.tail = p.tail /\ r.head = p.head
      /\ r.planned = p.planned /\ r.nominal = p.nominal
  BY <1>4, <1>5 DEF Plans
<1>7. SpeedsOnly(p, r) BY <1>3, <1>5, <1>6 DEF SpeedsOnly
<1>8. Ahead(r) = Ahead(p) /\ \A k : NthSlot(r, k) = NthSlot(p, k) BY <1>6 DEF Ahead, NthSlot
<1>9. NthSlot(p, 0) = p.tail BY Numbered
<1>10. Nth(r, 0).entry = v BY <1>3, <1>5, <1>6, <1>8, <1>9 DEF Nth
<1>11. ASSUME NEW k \in 1..(BlockBufferSize - 1) PROVE Nth(r, k) = Nth(p, k)
  <2>1. k \in 0..(BlockBufferSize - 1) /\ 0 \in 0..(BlockBufferSize - 1) /\ k # 0
    BY PlannerAssumption
  <2>2. NthSlot(p, k) \in Slots /\ NthSlot(p, k) # p.tail BY <1>9, <2>1, Numbered
  <2> QED BY <1>5, <1>6, <1>8, <2>2 DEF Nth
<1> QED BY <1>6, <1>7, <1>8, <1>10, <1>11

(* The pointer of the planner is set to the tail.                          *)
LEMMA FromTail ==
  ASSUME NEW p \in Plans, NEW r, r = [p EXCEPT !.planned = p.tail]
  PROVE  /\ SpeedsOnly(p, r) /\ Ahead(r) = 0
         /\ \A k \in 0..(BlockBufferSize - 1) : Nth(r, k) = Nth(p, k)
<1>1. p.tail \in Slots /\ BlockBufferSize \in Nat \ {0} /\ Slots = 0..(BlockBufferSize - 1)
  BY PlanParts, SizesAre
<1>2. /\ r \in Plans /\ r.blocks = p.blocks /\ r.tail = p.tail /\ r.head = p.head
      /\ r.planned = p.tail /\ r.nominal = p.nominal
  BY <1>1 DEF Plans
<1>3. SpeedsOnly(p, r) BY <1>2 DEF SpeedsOnly
<1>4. Ahead(r) = 0
  <2> DEFINE t == p.tail
             N == BlockBufferSize
  <2>1. Ahead(r) = (t - t) % N BY <1>2 DEF Ahead
  <2>2. RingLaws(N, t, t, (t - t) % N) BY <1>1, Rings
  <2> HIDE DEF t, N
  <2> QED BY <2>1, <2>2 DEF RingLaws
<1>5. \A k \in 0..(BlockBufferSize - 1) : Nth(r, k) = Nth(p, k) BY <1>2 DEF Nth, NthSlot
<1> QED BY <1>3, <1>4, <1>5

(* SpeedsOnly is transitive.                                               *)
LEMMA SpeedsOnlyTwice ==
  ASSUME NEW p, NEW q, NEW r, SpeedsOnly(p, q), SpeedsOnly(q, r)
  PROVE  SpeedsOnly(p, r)
BY DEF SpeedsOnly

(* plan_cycle_reinitialize with its call of the stepper: the plan is made  *)
(* anew from the speed reached.                                            *)
LEMMA Reinitialized ==
  ASSUME plan \in Plans, prep \in Preps, Reinitialize(plan)
  PROVE  /\ plan' \in Plans /\ plan'.tail = plan.tail /\ plan'.head = plan.head
         /\ plan'.nominal = plan.nominal
         /\ ~IsEmpty(plan) /\ Braked(plan, SpeedNow) =>
              /\ SpeedsOnly(plan, plan') /\ Ahead(plan') < Amount(plan)
              /\ Nth(plan', 0).entry = SpeedNow
              /\ Braked(plan', SpeedNow) /\ Optimal(plan', SpeedNow)
<1> DEFINE N == BlockBufferSize
           q == AtCurrentSpeed(plan)
           r == [q EXCEPT !.planned = plan.tail]
           v == SpeedNow
<1>1. BlockAt(0) = Nth(plan, 0) /\ Nth(plan, 0).entry \in Nat /\ prep.current \in Nat /\ v \in Nat
  <2>1. BlockAt(0) = Nth(plan, 0) BY CountIs, Numbered
  <2>2. Nth(plan, 0).entry \in Nat
    <3>1. 0 \in 0..(N - 1) BY PlannerAssumption
    <3> QED BY <3>1, Numbered
  <2>3. prep.current \in Nat BY DEF Preps
  <2> QED BY <2>1, <2>2, <2>3 DEF SpeedNow
<1>2. /\ SpeedsOnly(plan, q) /\ Ahead(q) = Ahead(plan) /\ Nth(q, 0).entry = v
      /\ \A k \in 1..(N - 1) : Nth(q, k) = Nth(plan, k)
  <2>1. CASE prep.loaded
    <3>1. q = [plan EXCEPT !.blocks[plan.tail].entry = v] BY <2>1 DEF AtCurrentSpeed, SpeedNow
    <3> QED BY <1>1, <3>1, EntryIs
  <2>2. CASE ~prep.loaded
    <3>1. q = plan BY <2>2 DEF AtCurrentSpeed
    <3>2. v = Nth(plan, 0).entry BY <1>1, <2>2 DEF SpeedNow
    <3> QED BY <3>1, <3>2 DEF SpeedsOnly
  <2> QED BY <2>1, <2>2
<1>3. plan' = Recalculated(r) BY DEF Reinitialize
<1>4. q \in Plans /\ q.tail = plan.tail BY <1>2 DEF SpeedsOnly
<1> HIDE DEF q, v
<1>5. /\ SpeedsOnly(q, r) /\ Ahead(r) = 0
      /\ \A k \in 0..(N - 1) : Nth(r, k) = Nth(q, k)
  BY <1>4, FromTail
<1>6. SpeedsOnly(plan, r) /\ r \in Plans
  <2>1. SpeedsOnly(plan, r) BY <1>2, <1>5, SpeedsOnlyTwice
  <2> QED BY <2>1 DEF SpeedsOnly
<1> HIDE DEF r
<1>7. /\ plan' \in Plans /\ plan'.tail = plan.tail /\ plan'.head = plan.head
      /\ plan'.nominal = plan.nominal
  <2>1. SpeedsOnly(r, plan') BY <1>3, <1>6, RecalculatedOnly
  <2> QED BY <1>6, <2>1 DEF SpeedsOnly
<1>8. ASSUME ~IsEmpty(plan), Braked(plan, v)
      PROVE  /\ SpeedsOnly(plan, plan') /\ Ahead(plan') < Amount(plan)
             /\ Nth(plan', 0).entry = v
             /\ Braked(plan', v) /\ Optimal(plan', v)
  <2>1. Amount(r) = Amount(plan) BY <1>6, OnlySpeeds
  <2>2. Amount(plan) \in Nat /\ Amount(plan) > 0
    BY <1>8, Numbered
  <2>3. \A k \in 1..(N - 1) : Nth(r, k).entry = Nth(plan, k).entry
    <3>1. \A k \in 1..(N - 1) : k \in 0..(N - 1) BY PlannerAssumption
    <3> QED BY <1>2, <1>5, <3>1
  <2>4. Braked(r, v) BY <1>6, <1>8, <2>3, SameSpeeds
  <2>5. Nth(r, 0).entry = v
    <3>1. 0 \in 0..(N - 1) BY PlannerAssumption
    <3> QED BY <1>2, <1>5, <3>1
  <2>6. /\ SpeedsOnly(r, plan') /\ Ahead(plan') < Amount(r)
        /\ \A k \in 0..Ahead(r) : Nth(plan', k) = Nth(r, k)
        /\ Braked(plan', v) /\ (Settling(r, v) => Optimal(plan', v))
    BY <1>1, <1>3, <1>5, <1>6, <2>1, <2>2, <2>4, <2>5, Replanned
  <2>7. Settling(r, v)
    <3>1. 1..0 = {} /\ 1..(0 - 1) = {} OBVIOUS
    <3> QED BY <1>5, <3>1 DEF Settling, BestUpTo
  <2>8. SpeedsOnly(plan, plan') BY <1>6, <2>6, SpeedsOnlyTwice
  <2> QED BY <1>5, <2>1, <2>5, <2>6, <2>7, <2>8
<1> QED BY <1>7, <1>8 DEF v

(* A plan with one block more, which is entered from rest.                 *)
Extends(p, q, rate, limit) ==
  /\ q \in Plans /\ q.tail = p.tail /\ q.planned = p.planned /\ q.nominal = rate
  /\ Amount(q) = Amount(p) + 1 /\ Amount(p) + 1 \in 0..(BlockBufferSize - 1)
  /\ Ahead(q) = Ahead(p)
  /\ \A k \in 0..(Amount(p) - 1) : Nth(q, k) = Nth(p, k)
  /\ Nth(q, Amount(p)).entry = 0 /\ Nth(q, Amount(p)).rate = rate
  /\ Nth(q, Amount(p)).max = Least(Least(rate, p.nominal), limit)

(* plan_buffer_line makes one, in which the new block waits for the plan   *)
(* to be made anew.                                                        *)
LEMMA BufferedIs ==
  ASSUME NEW p \in Plans, ~IsFull(p), NEW id \in 0..MaxLines, NEW mm \in Nat, NEW rate \in Nat,
         NEW junction \in Nat, NEW s \in BOOLEAN, ~s
  PROVE  Extends(p, Buffered(p, id, mm, rate, junction, s), rate,
                 IF IsEmpty(p) THEN 0 ELSE junction)
<1> DEFINE N == BlockBufferSize
           n == Amount(p)
           limit == IF IsEmpty(p) THEN 0 ELSE junction
           b == [id |-> id, mm |-> mm, rate |-> rate, junction |-> limit, entry |-> 0,
                 max |-> Least(Least(rate, p.nominal), limit)]
           bs == [p.blocks EXCEPT ![p.head] = b]
           h == plan_next_block_index(p.head)
           q == Buffered(p, id, mm, rate, junction, s)
<1>1. /\ N \in Nat \ {0, 1} /\ p.head \in 0..(N - 1) /\ p.tail \in 0..(N - 1)
      /\ Slots = 0..(N - 1) /\ p.blocks \in [Slots -> Block] /\ p.nominal \in Nat
  BY PlanParts, SizesAre
<1>2. q = [p EXCEPT !.blocks = bs, !.nominal = rate, !.head = h]
  BY DEF Buffered, Nominal
<1>3. b \in Block /\ b.mm = mm /\ b.rate = rate /\ b.entry = 0
      /\ b.max = Least(Least(rate, p.nominal), limit)
  <2> DEFINE top == Least(Least(rate, p.nominal), limit)
  <2>1. limit \in Nat /\ top \in Nat BY <1>1 DEF Least
  <2> DEFINE c(x, y) == [id |-> id, mm |-> mm, rate |-> rate, junction |-> x, entry |-> 0, max |-> y]
  <2>2. \A x, y \in Nat : /\ c(x, y) \in Block /\ c(x, y).mm = mm /\ c(x, y).rate = rate
                          /\ c(x, y).entry = 0 /\ c(x, y).max = y
    BY DEF Block
  <2>3. b = c(limit, top) OBVIOUS
  <2> HIDE DEF c, b, top, limit
  <2>4. b \in Block /\ b.mm = mm /\ b.rate = rate /\ b.entry = 0 /\ b.max = top BY <2>1, <2>2, <2>3
  <2> QED BY <2>4 DEF top
<1> HIDE DEF b
<1>4. bs \in [Slots -> Block] /\ bs[p.head] = b /\ \A i \in Slots : i # p.head => bs[i] = p.blocks[i]
  BY <1>1, <1>3
<1>5. h \in Slots /\ h # p.tail BY <1>1 DEF plan_next_block_index, IsFull
<1> HIDE DEF bs, q
<1>6. /\ q.blocks = bs /\ q.tail = p.tail /\ q.head = h /\ q.planned = p.planned
      /\ q.nominal = rate
  BY <1>2 DEF Plans
<1>7. q \in Plans
  <2> HIDE DEF h
  <2> QED BY <1>2, <1>4, <1>5 DEF Plans
<1>8. RingLaws(N, p.head, p.tail, n) BY <1>1, Rings DEF Amount
<1>9. h = Following(p.head, N) BY DEF Following, plan_next_block_index
<1>10. Amount(q) = n + 1
  <2> HIDE DEF h
  <2> QED BY <1>5, <1>6, <1>8, <1>9 DEF RingLaws, Amount
<1>11. n + 1 \in 0..(N - 1) /\ n \in 0..(N - 1) /\ n \in Nat
  <2>1. Amount(q) \in 0..(N - 1) BY <1>7, Numbered
  <2> QED BY <1>10, <2>1, Numbered
<1>12. Ahead(q) = Ahead(p) /\ \A k : NthSlot(q, k) = NthSlot(p, k)
  BY <1>6 DEF Ahead, NthSlot
<1>13. NthSlot(p, n) = p.head BY Numbered
<1>14. Nth(q, n) = b BY <1>4, <1>6, <1>12, <1>13 DEF Nth
<1>15. ASSUME NEW k \in 0..(n - 1) PROVE Nth(q, k) = Nth(p, k)
  <2>1. k \in 0..(N - 1) /\ k # n BY <1>1, <1>11
  <2>2. NthSlot(p, k) \in Slots /\ NthSlot(p, k) # p.head BY <1>11, <1>13, <2>1, Numbered
  <2> QED BY <1>4, <1>6, <1>12, <2>2 DEF Nth
<1> HIDE DEF b
<1>16. /\ Nth(q, n).entry = 0 /\ Nth(q, n).rate = rate
       /\ Nth(q, n).max = Least(Least(rate, p.nominal), limit)
  BY <1>3, <1>14
<1>17. Extends(p, q, rate, limit)
  <2> HIDE DEF limit
  <2> QED BY <1>6, <1>7, <1>10, <1>11, <1>12, <1>15, <1>16 DEF Extends
<1> QED BY <1>17 DEF q

(* The first line of an empty plan starts from rest, wherever the pointer  *)
(* of the planner was left, and does not bother the stepper.               *)
LEMMA FirstPlanned ==
  ASSUME NEW p \in Plans, Amount(p) = 1, Nth(p, 0).entry = 0, Nth(p, 0).max = 0
  PROVE  /\ Ahead(Recalculated(p)) = 0 /\ Nth(Recalculated(p), 0).entry = 0
         /\ ~UpdatesStepper(p)
<1> DEFINE N == BlockBufferSize
           L == LastPosition(p)
           r == Recalculated(p)
           Gap(x) == IF x < 0 THEN x + N ELSE IF x < N THEN x ELSE x - N
<1>1. /\ N \in Nat \ {0, 1} /\ p.tail \in 0..(N - 1) /\ p.head \in 0..(N - 1)
      /\ p.planned \in 0..(N - 1) /\ Slots = 0..(N - 1)
  BY PlanParts, SizesAre
<1>2. \A x \in (-N)..(2 * N - 1) : x % N = Gap(x)
  <2>1. N \in Nat \ {0} BY <1>1
  <2> HIDE DEF N
  <2> QED BY <2>1, Modulo
<1>3. Gap(p.head - p.tail) = 1
  <2>1. p.head - p.tail \in (-N)..(2 * N - 1) BY <1>1
  <2> HIDE DEF Gap
  <2> QED BY <1>2, <2>1 DEF Amount
<1>4. L = Position(p, p.tail)
  <2>1. p.head - 1 - p.planned \in (-N)..(2 * N - 1) /\ p.tail - p.planned \in (-N)..(2 * N - 1)
    BY <1>1
  <2>2. L = Gap(p.head - 1 - p.planned) /\ Position(p, p.tail) = Gap(p.tail - p.planned)
    <3> HIDE DEF Gap
    <3> QED BY <1>2, <2>1 DEF LastPosition, Position
  <2> QED BY <1>1, <1>3, <2>2
<1>5. L \in 0..(N - 1) BY Positions
<1>6. ~UpdatesStepper(p) BY <1>4, <1>5 DEF UpdatesStepper
<1>7. At(p, L) = p.tail BY <1>1, <1>4, Positions
<1>8. SpeedsOnly(p, r) /\ r \in Plans BY RecalculatedOnly DEF SpeedsOnly
<1>9. NthSlot(r, 0) = p.tail /\ NthSlot(p, 0) = p.tail BY <1>8, Numbered DEF SpeedsOnly
<1>10. r.planned = p.tail => Ahead(r) = 0
  <2> DEFINE t == p.tail
  <2>1. RingLaws(N, t, t, (t - t) % N) BY <1>1, Rings
  <2>2. r.tail = t BY <1>8 DEF SpeedsOnly
  <2>3. (t - t) % N = 0
    <3> HIDE DEF t, N
    <3> QED BY <2>1 DEF RingLaws
  <2> HIDE DEF r, t
  <2> QED BY <2>2, <2>3 DEF Ahead, t
<1>11. CASE L = 0
  <2>1. r = p BY <1>11 DEF Recalculated
  <2>2. At(p, 0) = p.planned
    <3>1. Position(p, p.planned) = 0 /\ p.planned \in Slots BY <1>1, Positions
    <3> QED BY <3>1, Positions
  <2> QED BY <1>6, <1>7, <1>10, <1>11, <2>1, <2>2
<1>12. CASE L # 0
  <2>1. PICK s, f : Planned(p, s, f) /\ Leaves(p, s, f, r) BY <1>12, RecalculatedIs
  <2> HIDE DEF r
  <2> DEFINE b(j) == p.blocks[At(p, j)]
  <2>2. L \in 1..L /\ L - 1 \in 0..L BY <1>5, <1>12
  <2>3. b(L) = Nth(p, 0) BY <1>7, <1>9 DEF Nth
  <2>4. b(L).max = 0 /\ b(L).mm \in Nat
    <3>1. 0 \in 0..(N - 1) BY <1>1
    <3> QED BY <2>3, <3>1, Numbered
  <2>5. s[L] = 0
    <3>1. s[L] = Least(b(L).max, b(L).mm) BY <2>1, <2>2 DEF Planned
    <3> QED BY <2>4, <3>1 DEF Least
  <2>6. f[L] = 0
    <3>1. f[L] = IF f[L - 1] < s[L] THEN Least(s[L], f[L - 1] + b(L - 1).mm) ELSE s[L]
      BY <2>1, <2>2 DEF Planned
    <3>2. f[L - 1] \in Nat BY <2>1, <2>2 DEF Planned
    <3> QED BY <2>5, <3>1, <3>2
  <2> HIDE DEF b
  <2>7. r.planned = p.tail
    <3>1. \/ \A j \in 1..L : ~(f[j] < s[j] \/ f[j] = b(j).max)
          \/ \E j \in 1..L : /\ r.planned = At(p, j)
                             /\ \A i \in 1..L : (f[i] < s[i] \/ f[i] = b(i).max) => i <= j
      BY <2>1 DEF Leaves, b
    <3>2. f[L] = b(L).max BY <2>4, <2>6
    <3>3. PICK j \in 1..L : r.planned = At(p, j) /\ L <= j BY <2>2, <3>1, <3>2
    <3>4. j = L BY <1>5, <3>3
    <3> QED BY <1>7, <3>3, <3>4
  <2>8. Nth(r, 0).entry = 0
    <3>1. r.blocks[p.tail] = [p.blocks[p.tail] EXCEPT !.entry = f[L]]
      BY <1>1, <1>4, <2>1, <2>2 DEF Leaves
    <3> DEFINE c == p.blocks[p.tail]
    <3>2. c \in Block
      <4>1. p.blocks \in [Slots -> Block] BY PlanParts
      <4> QED BY <1>1, <4>1
    <3>3. [c EXCEPT !.entry = 0].entry = 0
      <4> HIDE DEF c
      <4> QED BY <3>2 DEF Block
    <3> QED BY <1>9, <2>6, <3>1, <3>3 DEF Nth
  <2> QED BY <1>6, <1>10, <2>7, <2>8 DEF r
<1> QED BY <1>11, <1>12

(* The speed of the machine, now and in the next state.                    *)
LEMMA SpeedNowIs ==
  /\ SpeedNow = IF prep.loaded THEN prep.current ELSE Nth(plan, 0).entry
  /\ SpeedNow' = IF prep'.loaded THEN prep'.current ELSE Nth(plan', 0).entry
BY DEF SpeedNow, BlockAt, Nth, NthSlot

(* It is a number.                                                         *)
LEMMA SpeedNowNat ==
  ASSUME plan \in Plans, prep \in Preps
  PROVE  SpeedNow \in Nat /\ Nth(plan, 0).entry \in Nat /\ Nth(plan, 0) \in Block
<1>1. 0 \in 0..(BlockBufferSize - 1) BY PlannerAssumption
<1>2. Nth(plan, 0).entry \in Nat /\ Nth(plan, 0) \in Block BY <1>1, Numbered
<1>3. prep.current \in Nat BY DEF Preps
<1> QED BY <1>2, <1>3, SpeedNowIs

(* A line is added to a plan that has blocks: it can be braked, and is the *)
(* best one up to the planned block if it was.                             *)
LEMMA LineAdded ==
  ASSUME NEW p \in Plans, ~IsEmpty(p), NEW v \in Nat, Braked(p, v), Limited(p),
         NEW rate \in Nat, NEW junction \in Nat, NEW q, Extends(p, q, rate, junction)
  PROVE  Limited(q) /\ Braked(q, v) /\ (Optimal(p, v) => Settling(q, v))
<1> DEFINE n == Amount(p)
           e == Entries(p, v)
           m == Maxes(p)
           d == Ways(p)
           x == Entries(q, v)
           y == Maxes(q)
           z == Ways(q)
           top == Least(Least(rate, p.nominal), junction)
<1>1. /\ q \in Plans /\ q.nominal = rate /\ Amount(q) = n + 1 /\ Ahead(q) = Ahead(p)
      /\ n + 1 \in 0..(BlockBufferSize - 1)
      /\ \A k \in 0..(n - 1) : Nth(q, k) = Nth(p, k)
      /\ Nth(q, n).entry = 0 /\ Nth(q, n).rate = rate /\ Nth(q, n).max = top
  BY DEF Extends
<1>2. n \in Nat \ {0} /\ Ahead(p) < n /\ Ahead(p) \in Nat /\ p.nominal = Nth(p, n - 1).rate
      /\ p.nominal \in Nat
  <2>1. n \in Nat /\ n # 0 /\ n > 0 BY Numbered
  <2>2. Ahead(p) \in Nat
    <3>1. Ahead(p) \in 0..(BlockBufferSize - 1) BY Numbered
    <3> QED BY <3>1, PlannerAssumption
  <2> QED BY <2>1, <2>2, PlanParts DEF Limited
<1>3. /\ \A k \in 0..(n - 1) : e[k] \in Nat /\ m[k] \in Nat /\ d[k] \in Nat
      /\ \A k \in 0..(n - 1) : /\ m[k] = Nth(p, k).max /\ d[k] = Nth(p, k).mm
                               /\ e[k] = IF k = 0 THEN v ELSE Nth(p, k).entry
  BY SpeedsAre DEF Speeds
<1>4. \A k \in 0..n : /\ y[k] = Nth(q, k).max /\ z[k] = Nth(q, k).mm
                      /\ x[k] = IF k = 0 THEN v ELSE Nth(q, k).entry
  <2>1. Amount(q) - 1 = n BY <1>1, <1>2
  <2> QED BY <1>1, <2>1, SpeedsAre
<1>5. \A k \in 0..(n - 1) : k \in 0..n /\ k # n BY <1>2
<1>6. /\ \A k \in 0..(n - 1) : x[k] = e[k] /\ y[k] = m[k] /\ z[k] = d[k]
      /\ x[n] = 0 /\ y[n] \in Nat /\ z[n] \in Nat
  <2>1. \A k \in 0..(n - 1) : x[k] = e[k] /\ y[k] = m[k] /\ z[k] = d[k]
    BY <1>1, <1>3, <1>4, <1>5
  <2>2. n \in 0..n /\ n # 0 BY <1>2
  <2>3. y[n] = top /\ z[n] = Nth(q, n).mm /\ x[n] = 0 BY <1>1, <1>4, <2>2
  <2>4. n \in 0..(BlockBufferSize - 1) BY <1>1, <1>2, PlannerAssumption
  <2>5. Nth(q, n).mm \in Nat BY <1>1, <2>4, Numbered
  <2> QED BY <1>2, <2>1, <2>3, <2>5 DEF Least
<1>7. Limited(q)
  <2>1. ASSUME NEW k \in 0..n PROVE Nth(q, k).max <= Nth(q, k).rate
    <3>1. CASE k = n BY <1>1, <1>2, <3>1 DEF Least
    <3>2. CASE k # n
      <4>1. k \in 0..(n - 1) BY <1>2, <3>2
      <4> QED BY <1>1, <4>1 DEF Limited
    <3> QED BY <3>1, <3>2
  <2>2. ASSUME NEW k \in 1..n PROVE Nth(q, k).max <= Nth(q, k - 1).rate
    <3>1. k - 1 \in 0..(n - 1) BY <1>2
    <3>2. CASE k = n
      <4>1. Nth(q, k - 1).rate = p.nominal BY <1>1, <1>2, <3>1, <3>2
      <4>2. Nth(q, k).max = top /\ top <= p.nominal BY <1>1, <1>2, <3>2 DEF Least
      <4> QED BY <4>1, <4>2
    <3>3. CASE k # n
      <4>1. k \in 1..(n - 1) /\ k \in 0..(n - 1) BY <1>2, <3>3
      <4> QED BY <1>1, <3>1, <4>1 DEF Limited
    <3> QED BY <3>2, <3>3
  <2>3. (n + 1) - 1 = n /\ Ahead(q) < n + 1 BY <1>1, <1>2
  <2> QED BY <1>1, <2>1, <2>2, <2>3 DEF Limited
<1>8. CanBrake(n, e, m, d) BY DEF Braked
<1> HIDE DEF n, e, m, d, x, y, z
<1>9. CanBrake(n + 1, x, y, z)
  <2>1. ASSUME NEW k \in 1..n PROVE x[k] <= y[k]
    <3>1. CASE k = n BY <1>6, <3>1
    <3>2. CASE k # n
      <4>1. k \in 1..(n - 1) /\ k \in 0..(n - 1) BY <1>2, <3>2
      <4> QED BY <1>6, <1>8, <4>1 DEF CanBrake
    <3> QED BY <3>1, <3>2
  <2>2. ASSUME NEW k \in 0..n PROVE x[k] <= Exit(n + 1, x, k) + z[k]
    <3>1. CASE k = n BY <1>2, <1>6, <3>1 DEF Exit
    <3>2. CASE k # n
      <4>1. k \in 0..(n - 1) /\ k + 1 # n + 1 BY <1>2, <3>2
      <4>2. Exit(n + 1, x, k) = Exit(n, e, k)
        <5>1. CASE k + 1 = n BY <1>2, <1>6, <4>1, <5>1 DEF Exit
        <5>2. CASE k + 1 # n
          <6>1. k + 1 \in 0..(n - 1) BY <1>2, <4>1, <5>2
          <6> QED BY <1>6, <4>1, <5>2, <6>1 DEF Exit
        <5> QED BY <5>1, <5>2
      <4> QED BY <1>6, <1>8, <4>1, <4>2 DEF CanBrake
    <3> QED BY <3>1, <3>2
  <2>3. (n + 1) - 1 = n BY <1>2
  <2> QED BY <2>1, <2>2, <2>3 DEF CanBrake
<1>10. ASSUME Best(n, Ahead(p), e, m, d) PROVE BestUpTo(n + 1, Ahead(p), x, y, z)
  <2> DEFINE a == Ahead(p)
  <2>1. \A k \in 1..a : k \in 1..(n - 1) /\ k \in 0..(n - 1) /\ k - 1 \in 0..(n - 1) BY <1>2
  <2>2. \A k \in 1..a : Reached(x, z, k) BY <1>6, <1>10, <2>1 DEF Best, Reached
  <2>3. \A k \in 1..a : FromBehind(e, m, d, k) => FromBehind(x, y, z, k)
    BY <1>6, <2>1 DEF FromBehind
  <2>4. \A k \in 1..(a - 1) : /\ k \in 1..(n - 1) /\ k \in 0..(n - 1) /\ k + 1 \in 0..(n - 1)
                              /\ k + 1 # n /\ k + 1 # n + 1 /\ k \in 1..a
    BY <1>2
  <2>5. \A k \in 1..(a - 1) : FromAhead(n, e, d, k) => FromAhead(n + 1, x, z, k)
    BY <1>6, <2>4 DEF FromAhead, Exit
  <2>6. a > 0 => a \in 1..a BY <1>2
  <2> HIDE DEF a
  <2>7. \A k \in 1..(a - 1) : FromBehind(x, y, z, k) \/ FromAhead(n + 1, x, z, k)
    BY <1>10, <2>3, <2>4, <2>5 DEF Best, a
  <2>8. a > 0 => FromBehind(x, y, z, a) BY <1>10, <2>3, <2>6 DEF Best, a
  <2> QED BY <2>2, <2>7, <2>8 DEF BestUpTo, a
<1>11. Braked(q, v) BY <1>1, <1>9 DEF Braked, n, x, y, z
<1>12. Optimal(p, v) => Settling(q, v)
  BY <1>1, <1>10 DEF Optimal, Settling, n, e, m, d, x, y, z
<1> QED BY <1>7, <1>11, <1>12

(* Planning a line while blocks are queued: the machine goes on at its     *)
(* speed, either with its profile and the speeds that it is made of, or    *)
(* with a new one.                                                         *)
LEMMA LineReplanned ==
  ASSUME plan \in Plans, prep \in Preps, ~IsEmpty(plan), ~IsFull(plan),
         Braked(plan, SpeedNow), Limited(plan),
         NEW id \in 0..MaxLines, NEW mm \in Nat, NEW rate \in Nat, NEW junction \in Nat,
         NEW s \in BOOLEAN, ~s, Recalculate(Buffered(plan, id, mm, rate, junction, s))
  PROVE  /\ plan' \in Plans /\ ~IsEmpty(plan)' /\ Limited(plan')
         /\ Nth(plan', 0).mm = Nth(plan, 0).mm /\ Nth(plan', 0).rate = Nth(plan, 0).rate
         /\ Braked(plan', SpeedNow) /\ (Optimal(plan, SpeedNow) => Optimal(plan', SpeedNow))
         /\ \/ prep' = StepperUpdated /\ Nth(plan', 0).entry = SpeedNow
            \/ /\ prep' = prep /\ Nth(plan', 0).entry = Nth(plan, 0).entry
               /\ ExitSpeed(plan') = ExitSpeed(plan)
<1> DEFINE N == BlockBufferSize
           n == Amount(plan)
           v == SpeedNow
           q == Buffered(plan, id, mm, rate, junction, s)
<1>1. v \in Nat BY SpeedNowNat
<1>0. Extends(plan, q, rate, junction)
  <2> DEFINE limit == IF IsEmpty(plan) THEN 0 ELSE junction
  <2>1. Extends(plan, q, rate, limit) BY BufferedIs
  <2> QED BY <2>1
<1>2. /\ q \in Plans /\ q.tail = plan.tail /\ Amount(q) = n + 1 /\ Ahead(q) = Ahead(plan)
      /\ n + 1 \in 0..(N - 1) /\ \A k \in 0..(n - 1) : Nth(q, k) = Nth(plan, k)
  BY <1>0 DEF Extends
<1>3. Limited(q) /\ Braked(q, v) /\ (Optimal(plan, v) => Settling(q, v))
  <2> HIDE DEF v
  <2> QED BY <1>0, <1>1, LineAdded DEF v
<1>4. Recalculate(q) OBVIOUS
<1> HIDE DEF q, v
<1>5. n \in Nat \ {0} /\ Ahead(plan) \in 0..(n - 1) /\ N \in Nat \ {0, 1}
  <2>1. n \in Nat /\ n > 0 BY Numbered
  <2>2. Ahead(plan) \in 0..(N - 1) BY Numbered
  <2> QED BY <2>1, <2>2, PlannerAssumption DEF Limited
<1>6. UpdatesStepper(q) <=> Ahead(q) = 0
  <2>1. Amount(q) > 0 /\ Ahead(q) < Amount(q) /\ 0 \in 0..(N - 1) BY <1>2, <1>5
  <2>2. /\ LastPosition(q) = Amount(q) - 1 - Ahead(q)
        /\ Position(q, NthSlot(q, 0)) = IF 0 >= Ahead(q) THEN 0 - Ahead(q) ELSE N + 0 - Ahead(q)
    <3>1. LastPosition(q) = Amount(q) - 1 - Ahead(q) BY <1>2, <2>1, FromPlanned
    <3>2. Position(q, NthSlot(q, 0)) = IF 0 >= Ahead(q) THEN 0 - Ahead(q) ELSE N + 0 - Ahead(q)
      BY <1>2, <2>1, FromPlanned
    <3> QED BY <3>1, <3>2
  <2>3. NthSlot(q, 0) = q.tail BY <1>2, Numbered
  <2> QED BY <1>2, <1>5, <2>2, <2>3 DEF UpdatesStepper
<1>7. \A k \in 0..(n - 1) : k \in 0..(N - 1) BY <1>2, <1>5
<1>8. CASE Ahead(q) = 0
  <2> DEFINE r == AtCurrentSpeed(q)
  <2>1. plan' = Recalculated(r) /\ prep' = StepperUpdated BY <1>4, <1>6, <1>8 DEF Recalculate
  <2>2. /\ SpeedsOnly(q, r) /\ Ahead(r) = Ahead(q) /\ Nth(r, 0).entry = v
        /\ \A k \in 1..(N - 1) : Nth(r, k) = Nth(q, k)
    <3>1. CASE prep.loaded
      <4>1. r = [q EXCEPT !.blocks[q.tail].entry = v]
        BY <3>1 DEF AtCurrentSpeed, SpeedNow, v
      <4> QED BY <1>1, <1>2, <4>1, EntryIs
    <3>2. CASE ~prep.loaded
      <4>1. r = q BY <3>2 DEF AtCurrentSpeed
      <4>2. 0 \in 0..(n - 1) BY <1>5
      <4>3. v = Nth(q, 0).entry BY <1>2, <3>2, <4>2, SpeedNowIs DEF v
      <4> QED BY <1>2, <4>1, <4>3 DEF SpeedsOnly
    <3> QED BY <3>1, <3>2
  <2>3. r \in Plans /\ Amount(r) = n + 1 BY <1>2, <2>2, OnlySpeeds DEF SpeedsOnly
  <2>4. Braked(r, v) /\ (Settling(q, v) => Settling(r, v)) BY <1>2, <1>3, <2>2, SameSpeeds
  <2> HIDE DEF r
  <2>5. /\ SpeedsOnly(r, plan') /\ Ahead(plan') < Amount(r)
        /\ \A k \in 0..Ahead(r) : Nth(plan', k) = Nth(r, k)
        /\ Braked(plan', v) /\ (Settling(r, v) => Optimal(plan', v))
    <3>1. Amount(r) > 0 /\ Ahead(r) < Amount(r) BY <1>5, <1>8, <2>2, <2>3
    <3> QED BY <1>1, <2>1, <2>2, <2>3, <2>4, <3>1, Replanned
  <2>6. SpeedsOnly(q, plan') /\ plan' \in Plans BY <2>2, <2>5, SpeedsOnlyTwice DEF SpeedsOnly
  <2>7. Limited(plan') BY <1>2, <1>3, <2>3, <2>5, <2>6, LimitedKept
  <2>8. Nth(plan', 0).entry = v
    <3>1. 0 \in 0..Ahead(r) BY <1>8, <2>2
    <3> QED BY <2>2, <2>5, <3>1
  <2>9. ~IsEmpty(plan)' /\ Nth(plan', 0).mm = Nth(plan, 0).mm /\ Nth(plan', 0).rate = Nth(plan, 0).rate
    <3>1. Amount(plan') = n + 1 BY <1>2, <2>6, OnlySpeeds
    <3>2. 0 \in 0..(N - 1) /\ 0 \in 0..(n - 1) /\ n + 1 # 0 BY <1>5
    <3>3. Nth(plan', 0).mm = Nth(q, 0).mm /\ Nth(plan', 0).rate = Nth(q, 0).rate
      BY <1>2, <2>6, <3>2, OnlySpeeds
    <3>4. ~IsEmpty(plan') BY <2>6, <3>1, <3>2, Numbered
    <3> QED BY <1>2, <3>2, <3>3, <3>4 DEF IsEmpty
  <2> QED BY <1>3, <2>1, <2>4, <2>5, <2>6, <2>7, <2>8, <2>9 DEF v
<1>9. CASE Ahead(q) # 0
  <2>1. plan' = Recalculated(q) /\ prep' = prep BY <1>4, <1>6, <1>9 DEF Recalculate
  <2>2. /\ SpeedsOnly(q, plan') /\ Ahead(plan') < Amount(q)
        /\ \A k \in 0..Ahead(q) : Nth(plan', k) = Nth(q, k)
        /\ Braked(plan', v) /\ (Settling(q, v) => Optimal(plan', v))
    <3>1. Amount(q) > 0 /\ Ahead(q) < Amount(q) BY <1>2, <1>5
    <3> QED BY <1>1, <1>2, <1>3, <1>9, <2>1, <3>1, Replanned
  <2>3. Limited(plan') /\ plan' \in Plans BY <1>2, <1>3, <2>2, LimitedKept DEF SpeedsOnly
  <2>4. Ahead(q) \in 1..(n - 1) BY <1>2, <1>5, <1>9
  <2>5. 0 \in 0..Ahead(q) /\ 1 \in 0..Ahead(q) /\ 0 \in 0..(n - 1) /\ 1 \in 0..(n - 1) BY <1>5, <2>4
  <2>6. Nth(plan', 0) = Nth(plan, 0) /\ Nth(plan', 1) = Nth(plan, 1) BY <1>2, <2>2, <2>5
  <2>7. Amount(plan') = n + 1 BY <1>2, <2>2, OnlySpeeds
  <2>8. n > 1 /\ n + 1 > 1 /\ n + 1 # 1 /\ n # 1 /\ n + 1 > 0 /\ n > 0 /\ n + 1 # 0 BY <1>5, <2>4
  <2>9. ExitSpeed(plan') = ExitSpeed(plan)
    <3>1. ExitSpeed(plan') = Nth(plan', 1).entry BY <2>3, <2>7, <2>8, ExitIs
    <3>2. ExitSpeed(plan) = Nth(plan, 1).entry BY <2>8, ExitIs
    <3> QED BY <2>6, <3>1, <3>2
  <2>10. ~IsEmpty(plan') BY <2>3, <2>7, <2>8, Numbered
  <2>11. ~IsEmpty(plan)' BY <2>10 DEF IsEmpty
  <2> QED BY <1>3, <2>1, <2>2, <2>3, <2>6, <2>9, <2>11 DEF v
<1> QED BY <1>8, <1>9

-------------------------------------------------------------------------------
(* The first block is shortened by its segments and then discarded         *)

(* The first block is given another way.                                   *)
LEMMA WayIs ==
  ASSUME NEW p \in Plans, NEW mm \in Nat, NEW r, r = [p EXCEPT !.blocks[p.tail].mm = mm]
  PROVE  /\ r \in Plans /\ r.tail = p.tail /\ r.head = p.head /\ r.nominal = p.nominal
         /\ Amount(r) = Amount(p) /\ Ahead(r) = Ahead(p)
         /\ Nth(r, 0).mm = mm /\ Nth(r, 0).entry = Nth(p, 0).entry
         /\ Nth(r, 0).rate = Nth(p, 0).rate /\ Nth(r, 0).max = Nth(p, 0).max
         /\ \A k \in 1..(BlockBufferSize - 1) : Nth(r, k) = Nth(p, k)
<1> DEFINE b == [p.blocks[p.tail] EXCEPT !.mm = mm]
           bs == [p.blocks EXCEPT ![p.tail] = b]
<1>1. p.blocks \in [Slots -> Block] /\ p.tail \in Slots BY PlanParts
<1>2. p.blocks[p.tail] \in Block BY <1>1
<1> DEFINE c == p.blocks[p.tail]
<1>3. b \in Block /\ b.mm = mm /\ b.rate = c.rate /\ b.max = c.max /\ b.entry = c.entry
  <2> HIDE DEF c
  <2> QED BY <1>2 DEF Block, c
<1>4. r = [p EXCEPT !.blocks = bs] OBVIOUS
<1> HIDE DEF b
<1>5. bs \in [Slots -> Block] /\ bs[p.tail] = b /\ \A i \in Slots : i # p.tail => bs[i] = p.blocks[i]
  BY <1>1, <1>3
<1> HIDE DEF bs
<1>6. /\ r \in Plans /\ r.blocks = bs /\ r.tail = p.tail /\ r.head = p.head
      /\ r.planned = p.planned /\ r.nominal = p.nominal
  BY <1>4, <1>5 DEF Plans
<1>7. Amount(r) = Amount(p) /\ Ahead(r) = Ahead(p) /\ \A k : NthSlot(r, k) = NthSlot(p, k)
  BY <1>6 DEF Amount, Ahead, NthSlot
<1>8. NthSlot(p, 0) = p.tail BY Numbered
<1>9. Nth(r, 0) = b /\ Nth(p, 0) = c BY <1>5, <1>6, <1>7, <1>8 DEF Nth
<1>10. ASSUME NEW k \in 1..(BlockBufferSize - 1) PROVE Nth(r, k) = Nth(p, k)
  <2>1. k \in 0..(BlockBufferSize - 1) /\ 0 \in 0..(BlockBufferSize - 1) /\ k # 0
    BY PlannerAssumption
  <2>2. NthSlot(p, k) \in Slots /\ NthSlot(p, k) # p.tail BY <1>8, <2>1, Numbered
  <2> QED BY <1>5, <1>6, <1>7, <2>2 DEF Nth
<1> QED BY <1>3, <1>6, <1>7, <1>9, <1>10

(* plan_discard_current_block                                              *)
LEMMA DiscardIs ==
  ASSUME NEW p \in Plans, Amount(p) > 0, NEW r, r = plan_discard_current_block(p)
  PROVE  /\ r \in Plans /\ r.nominal = p.nominal /\ Amount(r) = Amount(p) - 1
         /\ Ahead(r) = IF Ahead(p) = 0 THEN 0 ELSE Ahead(p) - 1
         /\ \A k \in 0..(BlockBufferSize - 2) : Nth(r, k) = Nth(p, k + 1)
<1> DEFINE N == BlockBufferSize
           next == plan_next_block_index(p.tail)
           new == IF p.planned = p.tail THEN next ELSE p.planned
<1>1. /\ N \in Nat \ {0} /\ p.tail \in 0..(N - 1) /\ p.head \in 0..(N - 1)
      /\ p.planned \in 0..(N - 1) /\ Slots = 0..(N - 1)
  BY PlanParts, SizesAre
<1>2. RingLaws(N, p.head, p.tail, Amount(p)) BY <1>1, Rings DEF Amount
<1>3. RingLaws(N, p.planned, p.tail, Ahead(p)) BY <1>1, Rings DEF Ahead
<1>4. next = Following(p.tail, N) BY DEF Following, plan_next_block_index
<1>5. p.head # p.tail BY Numbered DEF IsEmpty
<1>6. r = [p EXCEPT !.tail = next, !.planned = new]
  BY <1>5 DEF plan_discard_current_block, IsEmpty, Plans
<1>7. next \in Slots BY <1>1, <1>2, <1>4 DEF RingLaws
<1> HIDE DEF next
<1>8. new \in Slots BY <1>1, <1>7
<1> HIDE DEF new
<1>9. /\ r \in Plans /\ r.blocks = p.blocks /\ r.tail = next /\ r.head = p.head
      /\ r.planned = new /\ r.nominal = p.nominal
  BY <1>6, <1>7, <1>8 DEF Plans
<1>10. Amount(r) = Amount(p) - 1 BY <1>2, <1>4, <1>5, <1>9 DEF RingLaws, Amount
<1>11. Ahead(r) = IF Ahead(p) = 0 THEN 0 ELSE Ahead(p) - 1
  <2>1. CASE p.planned = p.tail
    <3>1. Ahead(p) = 0 BY <1>3, <2>1 DEF RingLaws
    <3>2. Ahead(r) = (next - next) % N BY <1>9, <2>1 DEF Ahead, new
    <3>3. RingLaws(N, next, next, (next - next) % N) BY <1>1, <1>7, Rings
    <3>4. (next - next) % N = 0
      <4> HIDE DEF N
      <4> QED BY <3>3 DEF RingLaws
    <3> QED BY <3>1, <3>2, <3>4
  <2>2. CASE p.planned # p.tail
    <3>1. Ahead(p) # 0 BY <1>3, <2>2 DEF RingLaws
    <3>2. (p.planned - next) % N = Ahead(p) - 1 BY <1>3, <1>4, <2>2 DEF RingLaws
    <3>3. Ahead(r) = (p.planned - next) % N BY <1>9, <2>2 DEF Ahead, new
    <3> QED BY <3>1, <3>2, <3>3
  <2> QED BY <2>1, <2>2
<1>12. ASSUME NEW k \in 0..(N - 2) PROVE Nth(r, k) = Nth(p, k + 1)
  <2>1. NthSlot(r, k) = NthSlot(p, k + 1) BY <1>2, <1>4, <1>9 DEF RingLaws, NthSlot
  <2> QED BY <1>9, <2>1 DEF Nth
<1> QED BY <1>9, <1>10, <1>11, <1>12

(* The speeds x over the ways z are those of e over d, but in the first    *)
(* block.                                                                  *)
SameBeyond(n, e, m, d, x, y, z) ==
  \A k \in 0..(n - 1) : y[k] = m[k] /\ (k > 0 => x[k] = e[k] /\ z[k] = d[k])

(* The first block is shortened: its end is still within reach.            *)
LEMMA FirstShorter ==
  ASSUME NEW n \in Nat \ {0}, NEW q \in 0..(n - 1), NEW e, NEW m, NEW d, NEW x, NEW y, NEW z,
         CanBrake(n, e, m, d), SameBeyond(n, e, m, d, x, y, z), x[0] <= Exit(n, e, 0) + z[0]
  PROVE  /\ CanBrake(n, x, y, z)
         /\ /\ Best(n, q, e, m, d)
            /\ n > 1 => e[1] <= x[0] + z[0] /\ (e[1] = e[0] + d[0] => e[1] = x[0] + z[0])
            => Best(n, q, x, y, z)
<1>1. \A k \in 1..(n - 1) : k \in 0..(n - 1) /\ k > 0 /\ k - 1 \in 0..(n - 1) OBVIOUS
<1>2. \A k \in 1..(n - 1) : x[k] = e[k] /\ y[k] = m[k] /\ z[k] = d[k] BY <1>1 DEF SameBeyond
<1>3. \A k \in 0..(n - 1) : Exit(n, x, k) = Exit(n, e, k)
  <2>1. \A k \in 0..(n - 1) : k + 1 # n => k + 1 \in 1..(n - 1) OBVIOUS
  <2> QED BY <1>2, <2>1 DEF Exit
<1>4. CanBrake(n, x, y, z)
  <2>1. \A k \in 0..(n - 1) : k = 0 \/ k \in 1..(n - 1) OBVIOUS
  <2> QED BY <1>1, <1>2, <1>3, <2>1 DEF CanBrake
<1>5. ASSUME Best(n, q, e, m, d),
             n > 1 => e[1] <= x[0] + z[0] /\ (e[1] = e[0] + d[0] => e[1] = x[0] + z[0])
      PROVE  Best(n, q, x, y, z)
  <2>1. ASSUME NEW k \in 1..(n - 1)
        PROVE  Reached(x, z, k) /\ (FromBehind(e, m, d, k) => FromBehind(x, y, z, k))
    <3>1. Reached(e, d, k) BY <1>5 DEF Best
    <3>2. CASE k = 1
      <4>1. n > 1 /\ k - 1 = 0 BY <3>2
      <4> QED BY <1>2, <1>5, <3>2, <4>1 DEF Reached, FromBehind
    <3>3. CASE k # 1
      <4>1. k - 1 \in 1..(n - 1) BY <3>3
      <4> QED BY <1>2, <3>1, <4>1 DEF Reached, FromBehind
    <3> QED BY <3>2, <3>3
  <2>2. \A k \in 1..(n - 1) : FromAhead(n, e, d, k) => FromAhead(n, x, z, k)
    BY <1>1, <1>2, <1>3 DEF FromAhead
  <2>3. q > 0 => q \in 1..(n - 1) OBVIOUS
  <2> QED BY <1>5, <2>1, <2>2, <2>3 DEF Best
<1> QED BY <1>4, <1>5

(* The first block is gone: the others are entered as before.              *)
LEMMA FirstGone ==
  ASSUME NEW n \in Nat \ {0, 1}, NEW q \in 0..(n - 1), NEW e, NEW m, NEW d, NEW x, NEW y, NEW z,
         \A k \in 0..(n - 2) : x[k] = e[k + 1] /\ y[k] = m[k + 1] /\ z[k] = d[k + 1]
  PROVE  /\ CanBrake(n, e, m, d) => CanBrake(n - 1, x, y, z)
         /\ Best(n, q, e, m, d) => Best(n - 1, IF q = 0 THEN 0 ELSE q - 1, x, y, z)
<1>1. \A k \in 0..((n - 1) - 1) : /\ k \in 0..(n - 2) /\ k + 1 \in 0..(n - 1)
                                  /\ k + 1 \in 1..(n - 1)
  OBVIOUS
<1>2. ASSUME NEW k \in 0..((n - 1) - 1) PROVE Exit(n - 1, x, k) = Exit(n, e, k + 1)
  <2>1. CASE k + 1 = n - 1 BY <2>1 DEF Exit
  <2>2. CASE k + 1 # n - 1
    <3>1. k + 1 \in 0..(n - 2) /\ (k + 1) + 1 # n BY <2>2
    <3> QED BY <2>2, <3>1 DEF Exit
  <2> QED BY <2>1, <2>2
<1>3. ASSUME CanBrake(n, e, m, d) PROVE CanBrake(n - 1, x, y, z)
  <2>1. ASSUME NEW k \in 1..((n - 1) - 1) PROVE x[k] <= y[k]
    <3>1. k \in 0..((n - 1) - 1) OBVIOUS
    <3> QED BY <1>1, <1>3, <3>1 DEF CanBrake
  <2>2. ASSUME NEW k \in 0..((n - 1) - 1) PROVE x[k] <= Exit(n - 1, x, k) + z[k]
    BY <1>1, <1>2, <1>3 DEF CanBrake
  <2> QED BY <2>1, <2>2 DEF CanBrake
<1>4. ASSUME Best(n, q, e, m, d) PROVE Best(n - 1, IF q = 0 THEN 0 ELSE q - 1, x, y, z)
  <2>1. \A k \in 1..((n - 1) - 1) : /\ k \in 0..((n - 1) - 1) /\ k - 1 \in 0..(n - 2)
                                    /\ (k + 1) - 1 = (k - 1) + 1 /\ (k + 1) - 1 = k
    OBVIOUS
  <2>2. ASSUME NEW k \in 1..((n - 1) - 1)
        PROVE  /\ Reached(e, d, k + 1) => Reached(x, z, k)
               /\ FromBehind(e, m, d, k + 1) => FromBehind(x, y, z, k)
               /\ FromAhead(n, e, d, k + 1) => FromAhead(n - 1, x, z, k)
    <3>1. /\ x[k] = e[k + 1] /\ y[k] = m[k + 1] /\ z[k] = d[k + 1]
          /\ x[k - 1] = e[k] /\ z[k - 1] = d[k]
      BY <1>1, <2>1
    <3>2. Exit(n - 1, x, k) = Exit(n, e, k + 1) BY <1>2, <2>1
    <3>3. (k + 1) - 1 = k OBVIOUS
    <3> QED BY <3>1, <3>2, <3>3 DEF Reached, FromBehind, FromAhead
  <2>3. \A k \in 1..((n - 1) - 1) : k + 1 \in 1..(n - 1) OBVIOUS
  <2>4. /\ \A k \in 1..((n - 1) - 1) : Reached(x, z, k)
        /\ \A k \in 1..((n - 1) - 1) : FromBehind(x, y, z, k) \/ FromAhead(n - 1, x, z, k)
    BY <1>4, <2>2, <2>3 DEF Best
  <2>5. ASSUME q > 1 PROVE FromBehind(x, y, z, q - 1)
    <3>1. q - 1 \in 1..((n - 1) - 1) /\ (q - 1) + 1 = q BY <2>5
    <3>2. FromBehind(e, m, d, q) BY <1>4, <2>5 DEF Best
    <3> QED BY <2>2, <3>1, <3>2
  <2>6. q = 0 \/ q = 1 \/ q > 1 OBVIOUS
  <2> QED BY <2>4, <2>5, <2>6 DEF Best
<1> QED BY <1>3, <1>4

-------------------------------------------------------------------------------
(* The profile of the block in execution                                   *)

(* The stepper has begun no block.                                         *)
Fresh == ~prep.loaded /\ ~prep.recalculate

(* The way to the end of the profile.                                      *)
Remaining == Current(plan).mm - prep.end

(* The profile of a loaded block can be followed: it ends where the next   *)
(* block begins, or, in a hold, where the machine decelerates to.          *)
Profiled ==
  prep.loaded =>
    /\ prep.top = Current(plan).rate /\ prep.exit <= ExitSpeed(plan)
    /\ prep.end <= Current(plan).mm /\ (prep.end > 0 => prep.exit = 0)
    /\ prep.current <= prep.exit + Remaining /\ prep.exit <= prep.current + Remaining
    /\ ~hold => prep.end = 0 /\ prep.exit = ExitSpeed(plan)
    /\ hold => prep.current = prep.exit + Remaining

(* A block that is to be profiled goes on at the speed reached; one that   *)
(* is new can be entered at the speed at which the last one was left.      *)
Unloaded ==
  /\ ~prep.override
  /\ prep.recalculate => Current(plan).entry = prep.current
  /\ Fresh => prep.exit <= IF IsEmpty(plan) THEN 0 ELSE Current(plan).entry

(* A hold is one of the state, until it is complete.                       *)
HoldsState ==
  /\ hold => state = "HOLD" /\ ~complete
  /\ complete => state = "HOLD"

(* The machine can always brake as its plan says, and outside of a hold    *)
(* the plan is the best one.                                               *)
Planning ==
  ~IsEmpty(plan) => /\ SpeedNow <= Current(plan).rate /\ Braked(plan, SpeedNow)
                    /\ ~hold => Optimal(plan, SpeedNow)
SpeedInv == ~slow /\ HoldsState /\ Limited(plan) /\ Profiled /\ Unloaded /\ Planning
Speedy == NoOverride => SpeedInv

(* What the invariant of the lines says of the first block.                *)
LEMMA FirstLined ==
  ASSUME TypeOK, Lined
  PROVE  /\ plan \in Plans /\ prep \in Preps /\ Once
         /\ Current(plan) = Nth(plan, 0) /\ Current(plan) \in Block
         /\ Current(plan).mm \in Nat /\ Current(plan).rate \in Nat /\ Current(plan).entry \in Nat
         /\ prep.loaded \/ prep.recalculate => ~IsEmpty(plan)
         /\ ~IsEmpty(plan) => Current(plan).mm > 0
         /\ Amount(plan) \in Nat /\ (~IsEmpty(plan) <=> Amount(plan) > 0)
<1>1. plan \in Plans /\ prep \in Preps BY Types
<1>2. Current(plan) = Nth(plan, 0) /\ Current(plan) \in Block
      /\ Current(plan).mm \in Nat /\ Current(plan).rate \in Nat /\ Current(plan).entry \in Nat
  <2>1. 0 \in 0..(BlockBufferSize - 1) BY PlannerAssumption
  <2>2. Current(plan) = Nth(plan, 0) BY <1>1, Numbered
  <2>3. Nth(plan, 0) \in Block BY <1>1, <2>1, Numbered
  <2> QED BY <2>2, <2>3 DEF Block
<1>3. Count = Amount(plan) BY DEF Count, Amount
<1>4. Amount(plan) \in Nat /\ (~IsEmpty(plan) <=> Amount(plan) > 0) BY <1>1, Numbered
<1>5. prep.loaded \/ prep.recalculate => ~IsEmpty(plan) BY <1>3, <1>4 DEF Lined, Begun
<1>6. ~IsEmpty(plan) => Current(plan).mm > 0
  <2>1. ~IsEmpty(plan) => 0 \in 0..(Count - 1) BY <1>3, <1>4
  <2>2. BlockAt(0) = Current(plan) BY <1>1, CountIs
  <2> QED BY <2>1, <2>2 DEF Lined
<1> QED BY <1>1, <1>2, <1>4, <1>5, <1>6 DEF Lined

(* The exit speed of the first block: the machine can brake down to it, it *)
(* can be reached if the plan is the best one, and it fits the block.      *)
LEMMA ExitFits ==
  ASSUME NEW p \in Plans, ~IsEmpty(p), NEW v \in Nat, Braked(p, v), Limited(p)
  PROVE  /\ ExitSpeed(p) \in Nat /\ ExitSpeed(p) = Exit(Amount(p), Entries(p, v), 0)
         /\ v <= ExitSpeed(p) + Nth(p, 0).mm /\ ExitSpeed(p) <= Nth(p, 0).rate
         /\ Optimal(p, v) => ExitSpeed(p) <= v + Nth(p, 0).mm
<1> DEFINE n == Amount(p)
           e == Entries(p, v)
<1>1. n \in Nat /\ n > 0 BY Numbered
<1>2. /\ \A k \in 0..(n - 1) : /\ e[k] \in Nat /\ Maxes(p)[k] = Nth(p, k).max
                               /\ Ways(p)[k] = Nth(p, k).mm
                               /\ e[k] = IF k = 0 THEN v ELSE Nth(p, k).entry
                               /\ Nth(p, k).rate \in Nat /\ Nth(p, k).max \in Nat
                               /\ Nth(p, k).mm \in Nat
  <2>1. \A k \in 0..(n - 1) : Nth(p, k).rate \in Nat /\ Nth(p, k).max \in Nat /\ Nth(p, k).mm \in Nat
    BY SpeedsAre, Numbered
  <2> QED BY <2>1, SpeedsAre DEF Speeds
<1>3. 0 \in 0..(n - 1) BY <1>1
<1>4. ExitSpeed(p) = Exit(n, e, 0)
  <2>1. CASE n = 1 BY <1>1, <2>1, ExitIs DEF Exit
  <2>2. CASE n # 1
    <3>1. 1 \in 0..(n - 1) BY <1>1, <2>2
    <3>2. e[1] = Nth(p, 1).entry BY <1>2, <3>1
    <3>3. ExitSpeed(p) = Nth(p, 1).entry BY <1>1, <2>2, ExitIs
    <3> QED BY <2>2, <3>2, <3>3 DEF Exit
  <2> QED BY <2>1, <2>2
<1>5. v <= ExitSpeed(p) + Nth(p, 0).mm BY <1>2, <1>3, <1>4 DEF Braked, CanBrake
<1>6. CASE n = 1
  <2>1. ExitSpeed(p) = 0 BY <1>4, <1>6 DEF Exit
  <2> QED BY <1>2, <1>3, <1>4, <1>5, <2>1
<1>7. CASE n # 1
  <2>1. 1 \in 0..(n - 1) /\ 1 \in 1..(n - 1) /\ 1 - 1 = 0 BY <1>1, <1>7
  <2>2. ExitSpeed(p) = e[1] BY <1>4, <1>7 DEF Exit
  <2>3. e[1] <= Nth(p, 1).max BY <1>2, <2>1 DEF Braked, CanBrake
  <2>4. Nth(p, 1).max <= Nth(p, 0).rate BY <2>1 DEF Limited
  <2>5. Optimal(p, v) => e[1] <= v + Nth(p, 0).mm BY <1>2, <1>3, <2>1 DEF Optimal, Best, Reached
  <2>6. e[1] \in Nat /\ Nth(p, 1).max \in Nat /\ Nth(p, 0).rate \in Nat BY <1>2, <1>3, <2>1
  <2> QED BY <1>4, <1>5, <2>2, <2>3, <2>4, <2>5, <2>6
<1> QED BY <1>6, <1>7

(* A step that leaves plan and preparation alone.                          *)
LEMMA SpeedyPasses ==
  ASSUME SpeedInv, UNCHANGED <<plan, prep, slow, hold>>, HoldsState'
  PROVE  SpeedInv'
<1>1. SpeedNow' = SpeedNow BY SpeedNowIs
<1>2. Planning' BY <1>1 DEF SpeedInv, Planning
<1>3. Profiled' /\ Unloaded' BY DEF SpeedInv, Profiled, Unloaded, Fresh, Remaining
<1> QED BY <1>2, <1>3 DEF SpeedInv

(* The stepper is told to go on with another plan, at the speed reached.   *)
LEMMA Unprofiled ==
  ASSUME TypeOK, Lined, Unloaded, plan' \in Plans, ~IsEmpty(plan), ~IsEmpty(plan'),
         prep' = StepperUpdated, Nth(plan', 0).entry = SpeedNow
  PROVE  SpeedNow' = SpeedNow /\ Profiled' /\ Unloaded'
<1>1. prep \in Preps /\ Once /\ Current(plan) = Nth(plan, 0) BY FirstLined
<1>2. Current(plan') = Nth(plan', 0) BY Numbered
<1>3. ~prep'.loaded /\ prep'.exit = prep.exit /\ prep'.current = prep.current
      /\ prep'.override = prep.override
      /\ prep'.recalculate = (prep.recalculate \/ prep.loaded)
  BY <1>1 DEF StepperUpdated, Preps
<1>4. SpeedNow' = SpeedNow BY <1>3, SpeedNowIs
<1>5. Profiled' BY <1>3 DEF Profiled
<1>6. prep'.recalculate => Current(plan').entry = prep'.current
  <2>1. CASE prep.loaded BY <1>2, <1>3, <2>1, SpeedNowIs
  <2>2. CASE ~prep.loaded
    <3>1. prep.recalculate => Current(plan).entry = prep.current BY DEF Unloaded
    <3> QED BY <1>1, <1>2, <1>3, <2>2, <3>1, SpeedNowIs
  <2> QED BY <2>1, <2>2
<1>7. Fresh' => prep'.exit <= Current(plan').entry
  <2>1. Fresh' => Fresh BY <1>3 DEF Fresh
  <2>2. Fresh => prep.exit <= Current(plan).entry BY DEF Unloaded
  <2>3. Fresh => SpeedNow = Current(plan).entry BY <1>1, SpeedNowIs DEF Fresh
  <2> QED BY <1>2, <1>3, <2>1, <2>2, <2>3
<1>8. ~prep'.override BY <1>3 DEF Unloaded
<1>9. Unloaded' BY <1>6, <1>7, <1>8 DEF Unloaded
<1> QED BY <1>4, <1>5, <1>9

(* Nothing is loaded while the plan is empty.                              *)
LEMMA Idle ==
  ASSUME TypeOK, Lined, SpeedInv, IsEmpty(plan), plan' \in Plans,
         prep' = StepperUpdated \/ prep' = prep, IsEmpty(plan')
  PROVE  prep' = prep /\ Limited(plan') /\ Profiled' /\ Unloaded' /\ Planning'
<1>1. ~prep.loaded /\ ~prep.recalculate BY FirstLined
<1>2. prep' = prep BY <1>1 DEF StepperUpdated
<1>3. Amount(plan') = 0 BY Numbered
<1>4. Limited(plan')
  <2>1. 0..(0 - 1) = {} /\ 1..(0 - 1) = {} /\ ~(0 > 0) OBVIOUS
  <2> QED BY <1>3, <2>1 DEF Limited
<1>5. Profiled' /\ Planning' BY <1>1, <1>2 DEF Profiled, Planning
<1>6. Unloaded' BY <1>1, <1>2 DEF SpeedInv, Unloaded, Fresh
<1> QED BY <1>2, <1>4, <1>5, <1>6

(* plan_cycle_reinitialize at the end of a hold.                           *)
LEMMA SpeedyReinitialize ==
  ASSUME TypeOK, Lined, SpeedInv, Reinitialize(plan), UNCHANGED slow, HoldsState'
  PROVE  SpeedInv'
<1>1. /\ plan \in Plans /\ prep \in Preps /\ Current(plan) = Nth(plan, 0)
      /\ Amount(plan) \in Nat /\ (~IsEmpty(plan) <=> Amount(plan) > 0)
  BY FirstLined
<1>2. /\ plan' \in Plans /\ plan'.tail = plan.tail /\ plan'.head = plan.head
      /\ ~IsEmpty(plan) /\ Braked(plan, SpeedNow) =>
           /\ SpeedsOnly(plan, plan') /\ Ahead(plan') < Amount(plan)
           /\ Nth(plan', 0).entry = SpeedNow
           /\ Braked(plan', SpeedNow) /\ Optimal(plan', SpeedNow)
  BY <1>1, Reinitialized
<1>3. prep' = StepperUpdated BY DEF Reinitialize
<1>4. IsEmpty(plan') <=> IsEmpty(plan) BY <1>2 DEF IsEmpty
<1>5. ~slow' BY DEF SpeedInv
<1>6. CASE IsEmpty(plan) BY <1>2, <1>3, <1>4, <1>5, <1>6, Idle DEF SpeedInv
<1>7. CASE ~IsEmpty(plan)
  <2>1. Braked(plan, SpeedNow) /\ Limited(plan) /\ Unloaded /\ SpeedNow <= Current(plan).rate
    BY <1>7 DEF SpeedInv, Planning
  <2>2. /\ SpeedsOnly(plan, plan') /\ Ahead(plan') < Amount(plan)
        /\ Nth(plan', 0).entry = SpeedNow
        /\ Braked(plan', SpeedNow) /\ Optimal(plan', SpeedNow)
    BY <1>2, <1>7, <2>1
  <2>3. Limited(plan') BY <1>1, <2>1, <2>2, LimitedKept
  <2>4. SpeedNow' = SpeedNow /\ Profiled' /\ Unloaded'
    BY <1>2, <1>3, <1>4, <1>7, <2>1, <2>2, Unprofiled
  <2>5. Current(plan').rate = Current(plan).rate
    <3>1. 0 \in 0..(BlockBufferSize - 1) BY PlannerAssumption
    <3>2. Current(plan') = Nth(plan', 0) BY <1>2, Numbered
    <3> QED BY <1>1, <2>2, <3>1, <3>2, OnlySpeeds
  <2>6. Planning' BY <2>1, <2>2, <2>4, <2>5 DEF Planning
  <2> QED BY <1>5, <2>3, <2>4, <2>6 DEF SpeedInv
<1> QED BY <1>6, <1>7

(* The beginning of a hold in motion.                                      *)
LEMMA SpeedyHold ==
  ASSUME TypeOK, Lined, SpeedInv, plan' = AtCurrentSpeed(plan), prep' = StepperUpdated,
         UNCHANGED slow, hold', HoldsState'
  PROVE  SpeedInv'
<1>1. /\ plan \in Plans /\ prep \in Preps /\ Current(plan) = Nth(plan, 0)
      /\ prep.loaded \/ prep.recalculate => ~IsEmpty(plan)
      /\ Amount(plan) \in Nat /\ (~IsEmpty(plan) <=> Amount(plan) > 0)
  BY FirstLined
<1>2. ~slow' BY DEF SpeedInv
<1>3. CASE IsEmpty(plan)
  <2>1. plan' = plan BY <1>1, <1>3 DEF AtCurrentSpeed
  <2> QED BY <1>1, <1>2, <1>3, <2>1, Idle DEF SpeedInv
<1>4. CASE ~IsEmpty(plan)
  <2>1. Braked(plan, SpeedNow) /\ Limited(plan) /\ Unloaded /\ SpeedNow <= Current(plan).rate
    BY <1>4 DEF SpeedInv, Planning
  <2>2. SpeedNow \in Nat BY <1>1, SpeedNowNat
  <2>3. /\ SpeedsOnly(plan, plan') /\ Ahead(plan') = Ahead(plan)
        /\ Nth(plan', 0).entry = SpeedNow
        /\ \A k \in 1..(BlockBufferSize - 1) : Nth(plan', k) = Nth(plan, k)
    <3>1. CASE prep.loaded
      <4>1. plan' = [plan EXCEPT !.blocks[plan.tail].entry = SpeedNow]
        BY <3>1 DEF AtCurrentSpeed, SpeedNow
      <4> QED BY <1>1, <2>2, <4>1, EntryIs
    <3>2. CASE ~prep.loaded
      <4>1. plan' = plan BY <3>2 DEF AtCurrentSpeed
      <4> QED BY <1>1, <3>2, <4>1, SpeedNowIs DEF SpeedsOnly
    <3> QED BY <3>1, <3>2
  <2>4. plan' \in Plans /\ ~IsEmpty(plan') BY <1>4, <2>3 DEF SpeedsOnly, IsEmpty
  <2>5. SpeedNow' = SpeedNow /\ Profiled' /\ Unloaded' BY <1>4, <2>1, <2>3, <2>4, Unprofiled
  <2>6. Braked(plan', SpeedNow) BY <1>1, <2>1, <2>3, SameSpeeds
  <2>7. Limited(plan') BY <1>1, <2>1, <2>3, LimitedKept DEF Limited
  <2>8. Current(plan').rate = Current(plan).rate
    <3>1. 0 \in 0..(BlockBufferSize - 1) BY PlannerAssumption
    <3>2. Current(plan') = Nth(plan', 0) BY <2>4, Numbered
    <3> QED BY <1>1, <2>3, <3>1, <3>2, OnlySpeeds
  <2>9. Planning' BY <2>1, <2>5, <2>6, <2>8 DEF Planning
  <2> QED BY <1>2, <2>5, <2>7, <2>9 DEF SpeedInv
<1> QED BY <1>3, <1>4

(* A line planned while nothing is queued: it is entered from rest.        *)
LEMMA FirstLine ==
  ASSUME TypeOK, Lined, ~slow, IsEmpty(plan), NEW length \in Lengths, NEW rate \in Rates,
         NEW junction \in Junctions, PlanLine(length, rate, junction)
  PROVE  /\ rate \in Nat /\ prep' = prep /\ plan' \in Plans /\ plan'.nominal = rate
         /\ Amount(plan') = 1 /\ Ahead(plan') = 0
         /\ Nth(plan', 0).rate = rate /\ Nth(plan', 0).entry = 0 /\ Nth(plan', 0).max = 0
         /\ Nth(plan', 0).mm \in Nat /\ Current(plan') = Nth(plan', 0)
<1>1. /\ plan \in Plans /\ Amount(plan) \in Nat /\ (~IsEmpty(plan) <=> Amount(plan) > 0)
  BY FirstLined
<1>2. Len(lengths') \in 0..MaxLines /\ length \in Nat /\ rate \in Nat /\ junction \in Nat
  BY PlanLineType, MotionAssumption
<1>3. slow \in BOOLEAN BY Types
<1>4. ~IsFull(plan) /\ Recalculate(Buffered(plan, Len(lengths'), length, rate, junction, slow))
  BY DEF PlanLine
<1> DEFINE q == Buffered(plan, Len(lengths'), length, rate, junction, slow)
           limit == IF IsEmpty(plan) THEN 0 ELSE junction
<1>5. Extends(plan, q, rate, limit) BY <1>1, <1>2, <1>3, <1>4, BufferedIs
<1>6. limit = 0 /\ Amount(plan) = 0 BY <1>1
<1>7. plan.nominal \in Nat BY <1>1, PlanParts
<1>8. Recalculate(q) BY <1>4
<1> HIDE DEF q, limit
<1>9. /\ q \in Plans /\ q.nominal = rate /\ Amount(q) = 1 /\ Nth(q, 0).entry = 0
      /\ Nth(q, 0).rate = rate /\ Nth(q, 0).max = 0
  BY <1>2, <1>5, <1>6, <1>7 DEF Extends, Least
<1>10. Ahead(Recalculated(q)) = 0 /\ Nth(Recalculated(q), 0).entry = 0 /\ ~UpdatesStepper(q)
  BY <1>9, FirstPlanned
<1>11. plan' = Recalculated(q) /\ prep' = prep BY <1>8, <1>10 DEF Recalculate
<1>12. SpeedsOnly(q, plan') /\ plan' \in Plans BY <1>9, <1>11, RecalculatedOnly DEF SpeedsOnly
<1>13. 0 \in 0..(BlockBufferSize - 1) BY PlannerAssumption
<1>14. /\ Amount(plan') = 1 /\ plan'.nominal = rate /\ Nth(plan', 0).rate = rate
       /\ Nth(plan', 0).max = 0 /\ Current(plan') = Nth(plan', 0) /\ Nth(plan', 0).mm \in Nat
  BY <1>9, <1>12, <1>13, OnlySpeeds, Numbered DEF SpeedsOnly
<1> QED BY <1>2, <1>10, <1>11, <1>12, <1>14

(* A new line.                                                             *)
LEMMA SpeedyLine ==
  ASSUME TypeOK, Lined, SpeedInv, NEW length \in Lengths, NEW rate \in Rates,
         NEW junction \in Junctions, PlanLine(length, rate, junction)
  PROVE  SpeedInv'
<1>1. /\ plan \in Plans /\ prep \in Preps /\ Current(plan) = Nth(plan, 0)
      /\ prep.loaded \/ prep.recalculate => ~IsEmpty(plan)
      /\ Amount(plan) \in Nat /\ (~IsEmpty(plan) <=> Amount(plan) > 0)
  BY FirstLined
<1>2. /\ Len(lengths') \in 0..MaxLines /\ length \in Nat /\ rate \in Nat /\ junction \in Nat
  BY PlanLineType, MotionAssumption
<1>3. ~slow /\ slow \in BOOLEAN /\ Limited(plan) /\ Unloaded /\ Profiled /\ Planning /\ HoldsState
  BY Types DEF SpeedInv
<1>4. /\ ~IsFull(plan) /\ UNCHANGED <<slow, state, complete, hold>>
      /\ Recalculate(Buffered(plan, Len(lengths'), length, rate, junction, slow))
  BY DEF PlanLine, sysVars
<1>5. ~slow' /\ HoldsState' BY <1>3, <1>4 DEF HoldsState
<1>6. CASE IsEmpty(plan)
  <2>1. /\ prep' = prep /\ plan' \in Plans /\ plan'.nominal = rate
        /\ Amount(plan') = 1 /\ Ahead(plan') = 0
        /\ Nth(plan', 0).rate = rate /\ Nth(plan', 0).entry = 0 /\ Nth(plan', 0).max = 0
        /\ Nth(plan', 0).mm \in Nat /\ Current(plan') = Nth(plan', 0)
    BY <1>3, <1>6, FirstLine
  <2>2. ~prep'.loaded /\ ~prep'.recalculate /\ SpeedNow' = 0 BY <1>1, <1>6, <2>1, SpeedNowIs
  <2>3. Limited(plan')
    <3>1. 0..(1 - 1) = {0} /\ 1..(1 - 1) = {} /\ 1 - 1 = 0 OBVIOUS
    <3> QED BY <1>2, <2>1, <3>1 DEF Limited
  <2>4. Profiled' BY <2>2 DEF Profiled
  <2>5. Unloaded'
    <3>1. ~prep.override /\ prep.exit <= 0 BY <1>1, <1>3, <1>6 DEF Unloaded, Fresh
    <3>2. ~IsEmpty(plan') BY <2>1, Numbered
    <3> QED BY <2>1, <2>2, <3>1, <3>2 DEF Unloaded
  <2>6. Planning'
    <3>1. 0 <= Current(plan').rate BY <1>2, <2>1
    <3>2. Entries(plan', 0)[0] = 0 /\ Ways(plan')[0] \in Nat
      <4>1. 0 \in 0..(Amount(plan') - 1) /\ 0 \in Nat BY <2>1
      <4> QED BY <2>1, <4>1, SpeedsAre
    <3>3. 0..(1 - 1) = {0} /\ 1..(1 - 1) = {} OBVIOUS
    <3>4. Braked(plan', 0) BY <2>1, <3>2, <3>3 DEF Braked, CanBrake, Exit
    <3>5. Optimal(plan', 0) BY <2>1, <3>3 DEF Optimal, Best
    <3> QED BY <2>2, <3>1, <3>4, <3>5 DEF Planning
  <2> QED BY <1>5, <2>3, <2>4, <2>5, <2>6 DEF SpeedInv
<1>7. CASE ~IsEmpty(plan)
  <2>1. Braked(plan, SpeedNow) /\ SpeedNow <= Current(plan).rate /\ (~hold => Optimal(plan, SpeedNow))
    BY <1>3, <1>7 DEF Planning
  <2>2. /\ plan' \in Plans /\ ~IsEmpty(plan)' /\ Limited(plan')
        /\ Nth(plan', 0).mm = Nth(plan, 0).mm /\ Nth(plan', 0).rate = Nth(plan, 0).rate
        /\ Braked(plan', SpeedNow) /\ (Optimal(plan, SpeedNow) => Optimal(plan', SpeedNow))
        /\ \/ prep' = StepperUpdated /\ Nth(plan', 0).entry = SpeedNow
           \/ /\ prep' = prep /\ Nth(plan', 0).entry = Nth(plan, 0).entry
              /\ ExitSpeed(plan') = ExitSpeed(plan)
    BY <1>1, <1>2, <1>3, <1>4, <1>7, <2>1, LineReplanned
  <2>3. Current(plan') = Nth(plan', 0) BY <2>2, Numbered
  <2>4. SpeedNow' = SpeedNow /\ Profiled' /\ Unloaded'
    <3>1. CASE prep' = StepperUpdated /\ Nth(plan', 0).entry = SpeedNow
      BY <1>3, <1>7, <2>2, <3>1, Unprofiled
    <3>2. CASE /\ prep' = prep /\ Nth(plan', 0).entry = Nth(plan, 0).entry
               /\ ExitSpeed(plan') = ExitSpeed(plan)
      <4>1. SpeedNow' = SpeedNow BY <3>2, SpeedNowIs
      <4>2. Profiled' BY <1>1, <1>3, <1>4, <2>2, <2>3, <3>2 DEF Profiled, Remaining
      <4>3. Unloaded' BY <1>1, <1>3, <1>7, <2>2, <2>3, <3>2 DEF Unloaded, Fresh
      <4> QED BY <4>1, <4>2, <4>3
    <3> QED BY <2>2, <3>1, <3>2
  <2>5. Planning' BY <1>1, <1>4, <2>1, <2>2, <2>3, <2>4 DEF Planning
  <2> QED BY <1>5, <2>2, <2>4, <2>5 DEF SpeedInv
<1> QED BY <1>6, <1>7

(* A flush leaves nothing to execute.                                      *)
LEMMA SpeedyFlush ==
  ASSUME TypeOK, SpeedInv, Flush
  PROVE  SpeedInv'
<1>1. /\ plan' = plan_reset /\ prep' = NoPrep /\ slow' \in {slow, FALSE}
      /\ complete' = FALSE /\ hold' = FALSE
  BY DEF Flush
<1>2. plan' \in Plans BY FlushType DEF TypeOK, Plans
<1>3. IsEmpty(plan') BY <1>1 DEF plan_reset, IsEmpty
<1>4. Amount(plan') = 0 BY <1>2, <1>3, Numbered
<1>5. Limited(plan')
  <2>1. 0..(0 - 1) = {} /\ 1..(0 - 1) = {} /\ ~(0 > 0) OBVIOUS
  <2> QED BY <1>4, <2>1 DEF Limited
<1>6. /\ prep'.loaded = FALSE /\ prep'.recalculate = FALSE /\ prep'.override = FALSE
      /\ prep'.exit = 0
  BY <1>1 DEF NoPrep
<1>7. Profiled' /\ Planning' BY <1>3, <1>6 DEF Profiled, Planning
<1>8. Unloaded' BY <1>3, <1>6 DEF Unloaded
<1>9. HoldsState' /\ ~slow'
  <2>1. HoldsState' BY <1>1 DEF HoldsState
  <2>2. ~slow /\ (slow' = slow \/ slow' = FALSE) BY <1>1 DEF SpeedInv
  <2> QED BY <2>1, <2>2
<1> QED BY <1>5, <1>7, <1>8, <1>9 DEF SpeedInv

(* Loading a block: outside of a hold it is followed to its exit speed, in *)
(* a hold the machine decelerates within it as far as it can.              *)
LEMMA SpeedyLoad ==
  ASSUME TypeOK, Lined, SpeedInv, Load
  PROVE  SpeedInv'
<1> DEFINE fresh == ~prep.recalculate
           entry == IF fresh /\ Forced THEN prep.exit ELSE Current(plan).entry
           b == [Current(plan) EXCEPT !.entry = entry]
           E == Current(plan).entry
           M == Current(plan).mm
           R == Current(plan).rate
           X == ExitSpeed(plan)
<1>1. /\ plan \in Plans /\ prep \in Preps
      /\ Current(plan) = Nth(plan, 0) /\ Current(plan) \in Block
      /\ E \in Nat /\ M \in Nat /\ R \in Nat /\ Amount(plan) \in Nat
      /\ ~IsEmpty(plan) => M > 0 /\ Amount(plan) > 0
  BY FirstLined
<1>2. /\ ~prep.loaded /\ ~IsEmpty(plan)
      /\ plan' = [plan EXCEPT !.blocks[plan.tail].entry = entry]
      /\ prep' = [loaded |-> TRUE,
                  index |-> IF fresh THEN SlotAfter(prep.index) ELSE prep.index,
                  recalculate |-> FALSE, override |-> Profile(b).override,
                  current |-> IF fresh THEN entry ELSE prep.current,
                  exit |-> Profile(b).exit, top |-> Nominal(R, slow), end |-> Profile(b).end]
      /\ UNCHANGED <<slow, state, complete, hold>>
  BY DEF Load, sysVars
<1>3. /\ ~slow /\ slow \in BOOLEAN /\ hold \in BOOLEAN /\ HoldsState /\ Limited(plan)
      /\ ~prep.override
      /\ prep.recalculate => E = prep.current
      /\ fresh => prep.exit <= E
  BY <1>2, Types DEF SpeedInv, Unloaded, Fresh
<1>4. SpeedNow = E BY <1>1, <1>2, SpeedNowIs
<1>5. E <= R /\ Braked(plan, E) /\ (~hold => Optimal(plan, E))
  BY <1>2, <1>4 DEF SpeedInv, Planning
<1>6. X \in Nat /\ E <= X + M /\ X <= R /\ (~hold => X <= E + M)
  BY <1>1, <1>2, <1>3, <1>5, ExitFits
<1>7. prep.exit \in Nat /\ prep.current \in Nat BY <1>1 DEF Preps
<1>8. entry \in Nat /\ entry <= E /\ (~hold => entry = E)
      /\ prep'.current = entry
  <2>1. CASE fresh
    <3>1. ~hold => ~Forced BY <1>3 DEF Forced
    <3>2. prep'.current = entry BY <1>2, <2>1
    <3> QED BY <1>1, <1>3, <1>7, <2>1, <3>1, <3>2
  <2>2. CASE ~fresh BY <1>1, <1>2, <1>3, <2>2
  <2> QED BY <2>1, <2>2
<1>9. b.entry = entry /\ b.mm = M /\ b.rate = R
  <2> HIDE DEF entry
  <2> QED BY <1>1 DEF Block
<1>10. Nominal(R, slow) = R BY <1>3 DEF Nominal
<1>11. /\ prep'.loaded = TRUE /\ prep'.recalculate = FALSE
       /\ prep'.override = Profile(b).override /\ prep'.exit = Profile(b).exit
       /\ prep'.top = R /\ prep'.end = Profile(b).end
  BY <1>2, <1>10
<1> HIDE DEF entry, b, fresh
<1>12. /\ SpeedsOnly(plan, plan') /\ Ahead(plan') = Ahead(plan) /\ Nth(plan', 0).entry = entry
       /\ \A k \in 1..(BlockBufferSize - 1) : Nth(plan', k) = Nth(plan, k)
  BY <1>1, <1>2, <1>8, EntryIs
<1>13. plan' \in Plans /\ ~IsEmpty(plan') BY <1>2, <1>12 DEF SpeedsOnly, IsEmpty
<1>14. /\ Current(plan') = Nth(plan', 0) /\ Current(plan').mm = M /\ Current(plan').rate = R
       /\ Amount(plan') = Amount(plan)
  <2>1. 0 \in 0..(BlockBufferSize - 1) BY PlannerAssumption
  <2> QED BY <1>1, <1>12, <1>13, <2>1, OnlySpeeds, Numbered
<1>15. Limited(plan')
  <2>1. Amount(plan) > 0 => Ahead(plan') < Amount(plan) BY <1>3, <1>12 DEF Limited
  <2> QED BY <1>1, <1>3, <1>12, <2>1, LimitedKept
<1>16. ExitSpeed(plan') = X
  <2>1. Amount(plan) > 0 /\ Amount(plan) \in 0..(BlockBufferSize - 1) BY <1>1, <1>2, Numbered
  <2>2. ExitSpeed(plan) = IF Amount(plan) = 1 THEN 0 ELSE Nth(plan, 1).entry
    BY <1>1, <2>1, ExitIs
  <2>3. ExitSpeed(plan') = IF Amount(plan) = 1 THEN 0 ELSE Nth(plan', 1).entry
    BY <1>13, <1>14, <2>1, ExitIs
  <2>4. Amount(plan) = 1 \/ 1 \in 1..(BlockBufferSize - 1) BY <2>1, PlannerAssumption
  <2> QED BY <1>12, <2>2, <2>3, <2>4
<1> HIDE DEF E, M, R, X
<1>17. SpeedNow' = entry BY <1>8, <1>11, SpeedNowIs
<1>18. Braked(plan', entry)
  <2>1. /\ Amount(plan) \in Nat \ {0} /\ Ahead(plan) \in 0..(Amount(plan) - 1)
    BY <1>1, <1>2, <1>3, Numbered DEF Limited
  <2> DEFINE n == Amount(plan)
             e == Entries(plan, E)
             x == Entries(plan', entry)
  <2>2. /\ \A k \in 0..(n - 1) : /\ k \in 0..(BlockBufferSize - 1)
                                 /\ e[k] = IF k = 0 THEN E ELSE Nth(plan, k).entry
                                 /\ x[k] = IF k = 0 THEN entry ELSE Nth(plan', k).entry
        /\ Maxes(plan') = Maxes(plan) /\ Ways(plan') = Ways(plan)
    <3>1. \A k \in 0..(n - 1) : /\ k \in 0..(BlockBufferSize - 1)
                                /\ e[k] = IF k = 0 THEN E ELSE Nth(plan, k).entry
      BY <1>1, SpeedsAre DEF E
    <3>2. \A k \in 0..(n - 1) : x[k] = IF k = 0 THEN entry ELSE Nth(plan', k).entry
      BY <1>8, <1>13, <1>14, SpeedsAre
    <3>3. Maxes(plan') = Maxes(plan) /\ Ways(plan') = Ways(plan) BY <1>1, <1>12, OnlySpeeds
    <3> QED BY <3>1, <3>2, <3>3
  <2>3. \A k \in 0..(n - 1) : k > 0 => x[k] = e[k]
    <3>1. \A k \in 0..(n - 1) : k > 0 => k \in 1..(BlockBufferSize - 1) BY <2>2
    <3> QED BY <1>12, <2>2, <3>1
  <2>4. SameBeyond(n, e, Maxes(plan), Ways(plan), x, Maxes(plan'), Ways(plan'))
    BY <2>2, <2>3 DEF SameBeyond
  <2>5. x[0] <= Exit(n, e, 0) + Ways(plan')[0]
    <3>1. 0 \in 0..(n - 1) BY <2>1
    <3>2. x[0] = entry /\ Ways(plan)[0] = M BY <1>1, <2>2, <3>1, SpeedsAre DEF M
    <3>3. X = Exit(n, e, 0) BY <1>1, <1>2, <1>3, <1>5, ExitFits DEF X, E
    <3>4. entry <= X + M BY <1>1, <1>6, <1>8 DEF E, M, X
    <3> QED BY <2>2, <3>2, <3>3, <3>4
  <2>6. CanBrake(n, e, Maxes(plan), Ways(plan)) BY <1>5 DEF Braked, E
  <2> HIDE DEF n, e, x
  <2>7. CanBrake(n, x, Maxes(plan'), Ways(plan'))
    <3>1. n \in Nat \ {0} /\ Ahead(plan) \in 0..(n - 1) BY <2>1 DEF n
    <3> QED BY <2>4, <2>5, <2>6, <3>1, FirstShorter
  <2> QED BY <1>14, <2>7 DEF Braked, n, x
<1>19. ~hold => Optimal(plan', entry)
  <2>1. Optimal(plan', E) <=> Optimal(plan, E) BY <1>1, <1>12, SameSpeeds
  <2> QED BY <1>5, <1>8, <2>1 DEF E
<1>20. Planning'
  <2>1. entry <= R BY <1>1, <1>5, <1>8 DEF E, R
  <2> QED BY <1>2, <1>14, <1>17, <1>18, <1>19, <2>1 DEF Planning
<1>21. Unloaded'
  <2>1. Profile(b).override = FALSE
    <3>1. CASE hold BY <3>1 DEF Profile
    <3>2. CASE ~hold
      <4>1. ~(entry - R >= M) BY <1>1, <1>2, <1>5, <1>8, <3>2 DEF E, R, M
      <4> QED BY <1>9, <1>10, <3>2, <4>1 DEF Profile
    <3> QED BY <3>1, <3>2
  <2> QED BY <1>11, <2>1 DEF Unloaded, Fresh
<1>22. Profiled'
  <2>1. M \in Nat /\ R \in Nat /\ E \in Nat /\ X \in Nat /\ M > 0 /\ E <= X + M
        /\ (~hold => X <= E + M) /\ E <= R
    BY <1>1, <1>2, <1>5, <1>6 DEF M, R, E, X
  <2>2. Remaining' = M - prep'.end BY <1>14 DEF Remaining
  <2>3. CASE hold
    <3>1. /\ prep'.end = IF M < entry THEN 0 ELSE M - entry
          /\ prep'.exit = IF M < entry THEN entry - M ELSE 0
      BY <1>9, <1>11, <2>3 DEF Profile
    <3>2. /\ prep'.exit <= X /\ prep'.end <= M /\ (prep'.end > 0 => prep'.exit = 0)
          /\ entry = prep'.exit + (M - prep'.end) /\ prep'.exit <= entry + (M - prep'.end)
          /\ entry <= prep'.exit + (M - prep'.end)
      BY <1>8, <2>1, <3>1
    <3> QED BY <1>2, <1>8, <1>11, <1>14, <1>16, <2>2, <2>3, <3>2 DEF Profiled
  <2>4. CASE ~hold
    <3>1. ~(entry - R >= M) BY <1>8, <2>1, <2>4
    <3>2. prep'.end = 0 /\ prep'.exit = X BY <1>9, <1>10, <1>11, <2>4, <3>1 DEF Profile, X
    <3>3. /\ prep'.exit <= X /\ prep'.end <= M /\ ~(prep'.end > 0)
          /\ entry <= prep'.exit + (M - prep'.end) /\ prep'.exit <= entry + (M - prep'.end)
      BY <1>8, <2>1, <2>4, <3>2
    <3> QED BY <1>2, <1>8, <1>11, <1>14, <1>16, <2>2, <2>4, <3>2, <3>3 DEF Profiled
  <2> QED BY <2>3, <2>4
<1>23. ~slow' /\ HoldsState' BY <1>2, <1>3 DEF HoldsState
<1> QED BY <1>15, <1>20, <1>21, <1>22, <1>23 DEF SpeedInv

(* The speed after a segment of n steps, of which r lead on to the end of  *)
(* the profile: it changes by no more than the steps, the end can still be *)
(* met, and a machine that has to accelerate or brake all the way does.    *)
Towards(c, x, top, n, r) ==
  LET target == Least(top, x + r)
  IN  IF r = 0 THEN x
      ELSE IF c > target THEN Greatest(c - n, target) ELSE Least(c + n, target)

LEMMA TowardsIs ==
  ASSUME NEW c \in Nat, NEW x \in Nat, NEW top \in Nat, NEW n \in Nat \ {0}, NEW r \in Nat,
         c <= top, x <= top, c <= x + (n + r), x <= c + (n + r)
  PROVE  LET w == Towards(c, x, top, n, r)
         IN  /\ w \in Nat /\ w <= top /\ w <= x + r /\ x <= w + r
             /\ w - c <= n /\ c - w <= n
             /\ c = x + (n + r) => w = x + r
             /\ x = c + (n + r) => x = w + r
             /\ r = 0 => w = x
<1> DEFINE t == Least(top, x + r)
           w == Towards(c, x, top, n, r)
<1>1. t \in Nat /\ t <= top /\ t <= x + r /\ x <= t /\ (t = top \/ t = x + r) BY DEF Least
<1>2. w = IF r = 0 THEN x
          ELSE IF c > t THEN Greatest(c - n, t) ELSE Least(c + n, t)
  BY DEF Towards
<1> HIDE DEF w, t
<1>3. /\ w \in Nat /\ w <= top /\ w <= x + r /\ x <= w + r
      /\ w - c <= n /\ c - w <= n
      /\ c = x + (n + r) => w = x + r
      /\ x = c + (n + r) => x = w + r
      /\ r = 0 => w = x
  <2>1. CASE r = 0
    <3>1. w = x BY <1>2, <2>1
    <3> QED BY <2>1, <3>1
  <2>2. CASE r # 0 /\ c > t
    <3>1. w = IF c - n > t THEN c - n ELSE t BY <1>1, <1>2, <2>2 DEF Greatest
    <3> QED BY <1>1, <2>2, <3>1
  <2>3. CASE r # 0 /\ ~(c > t)
    <3>1. w = IF c + n < t THEN c + n ELSE t BY <1>1, <1>2, <2>3 DEF Least
    <3> QED BY <1>1, <2>3, <3>1
  <2> QED BY <2>1, <2>2, <2>3
<1> QED BY <1>3 DEF w

(* What publishing a segment does to the speed and to the first block.     *)
LEMMA Published ==
  ASSUME TypeOK, LinesInv, SpeedInv, Publish
  PROVE  LET n == segments[segHead].n
             left == Current(plan).mm - n
             r == left - prep.end
             w == Towards(prep.current, prep.exit, prep.top, n, r)
             remainder == [plan EXCEPT !.blocks[plan.tail].mm = left]
         IN  /\ n \in Nat \ {0} /\ left \in Nat /\ r \in Nat /\ prep.end \in Nat
             /\ Current(plan).mm = left + n /\ Remaining = n + r
             /\ prep.current \in Nat /\ prep.exit \in Nat /\ prep.top \in Nat
             /\ prep.current <= prep.top /\ prep.exit <= prep.top
             /\ prep.current <= prep.exit + (n + r) /\ prep.exit <= prep.current + (n + r)
             /\ prep.loaded /\ ~prep.recalculate /\ ~prep.override /\ ~IsEmpty(plan)
             /\ plan' = IF left > 0 THEN remainder ELSE plan_discard_current_block(remainder)
             /\ (left > 0 => prep'.loaded) /\ (left = 0 => ~prep'.loaded)
             /\ ~prep'.recalculate /\ ~prep'.override
             /\ prep'.current = w /\ prep'.exit = prep.exit /\ prep'.top = prep.top
             /\ prep'.end = prep.end
             /\ UNCHANGED <<slow, state, complete, hold>>
<1> DEFINE n == segments[segHead].n
           left == Current(plan).mm - n
           r == left - prep.end
           remainder == [plan EXCEPT !.blocks[plan.tail].mm = left]
<1>1. /\ plan \in Plans /\ prep \in Preps /\ Once /\ Written
      /\ Current(plan) = Nth(plan, 0) /\ Current(plan) \in Block
      /\ Current(plan).mm \in Nat /\ Current(plan).rate \in Nat
      /\ prep.loaded \/ prep.recalculate => ~IsEmpty(plan)
  BY FirstLined DEF LinesInv
<1>2. /\ n \in Nat \ {0} /\ left \in Nat /\ prep.end \in Nat /\ left >= prep.end
      /\ plan' = IF left > 0 THEN remainder ELSE plan_discard_current_block(remainder)
      /\ (left > 0 => prep'.loaded) /\ (left = 0 => ~prep'.loaded)
      /\ prep'.recalculate = prep.recalculate /\ prep' \in Preps
  BY <1>1, PublishedWork
<1>3. prep.loaded /\ pc = "publish" BY <1>1 DEF Written, Publish
<1>4. prep.current \in Nat /\ prep.exit \in Nat /\ prep.top \in Nat BY <1>1 DEF Preps
<1>5. ~prep.recalculate /\ ~prep.override /\ ~IsEmpty(plan)
  BY <1>1, <1>3 DEF Once, SpeedInv, Unloaded
<1>6. /\ prep.top = Current(plan).rate /\ prep.exit <= ExitSpeed(plan)
      /\ prep.current <= prep.exit + Remaining /\ prep.exit <= prep.current + Remaining
  BY <1>3 DEF SpeedInv, Profiled
<1>7. SpeedNow = prep.current BY <1>3 DEF SpeedNow
<1>8. Braked(plan, prep.current) /\ prep.current <= Current(plan).rate
  BY <1>5, <1>7 DEF SpeedInv, Planning
<1>9. ExitSpeed(plan) \in Nat /\ ExitSpeed(plan) <= Current(plan).rate
  BY <1>1, <1>4, <1>5, <1>8, ExitFits DEF SpeedInv
<1>10. SpeedAfter(n) = Towards(prep.current, prep.exit, prep.top, n, r)
  BY DEF SpeedAfter, Towards
<1>11. /\ prep' = [prep EXCEPT !.current = SpeedAfter(n)]
          \/ prep' = [prep EXCEPT !.current = SpeedAfter(n), !.loaded = FALSE]
       /\ UNCHANGED <<slow, state, complete, hold>>
  BY DEF Publish
<1>12. /\ prep'.current = SpeedAfter(n) /\ prep'.exit = prep.exit /\ prep'.top = prep.top
       /\ prep'.end = prep.end /\ prep'.override = prep.override
  <2> HIDE DEF n
  <2>1. prep' = [prep EXCEPT !.current = SpeedAfter(n)]
        \/ prep' = [[prep EXCEPT !.current = SpeedAfter(n)] EXCEPT !.loaded = FALSE]
    BY <1>11
  <2> QED BY <1>1, <2>1 DEF Preps
<1>13. Remaining = n + r /\ r \in Nat /\ Current(plan).mm = left + n
  <2>1. Remaining = Current(plan).mm - prep.end BY DEF Remaining
  <2>2. n \in Nat /\ prep.end \in Nat /\ left >= prep.end BY <1>2
  <2> HIDE DEF n
  <2> QED BY <1>1, <2>1, <2>2
<1> HIDE DEF n
<1>14. prep.exit <= prep.top BY <1>1, <1>4, <1>6, <1>9
<1> QED BY <1>2, <1>3, <1>4, <1>5, <1>6, <1>8, <1>10, <1>11, <1>12, <1>13, <1>14 DEF n

(* Publishing a segment: the machine is where its profile says, within the *)
(* block or at the beginning of the next one.                              *)
LEMMA SpeedyPublish ==
  ASSUME TypeOK, LinesInv, SpeedInv, Publish
  PROVE  SpeedInv'
<1> DEFINE n == segments[segHead].n
           left == Current(plan).mm - n
           r == left - prep.end
           c == prep.current
           x == prep.exit
           X == ExitSpeed(plan)
           w == Towards(c, x, prep.top, n, r)
           N == Amount(plan)
           e == Entries(plan, c)
<1>1. /\ plan \in Plans /\ prep \in Preps /\ Current(plan) = Nth(plan, 0)
      /\ Current(plan).rate \in Nat
      /\ N \in Nat /\ (~IsEmpty(plan) <=> N > 0)
  BY FirstLined DEF LinesInv
<1>2. /\ n \in Nat \ {0} /\ left \in Nat /\ r \in Nat /\ prep.end \in Nat
      /\ Current(plan).mm = left + n /\ Remaining = n + r
      /\ c \in Nat /\ x \in Nat /\ prep.top \in Nat
      /\ c <= prep.top /\ x <= prep.top /\ c <= x + (n + r) /\ x <= c + (n + r)
      /\ prep.loaded /\ ~prep.recalculate /\ ~prep.override /\ ~IsEmpty(plan)
      /\ plan' = IF left > 0 THEN [plan EXCEPT !.blocks[plan.tail].mm = left]
                 ELSE plan_discard_current_block([plan EXCEPT !.blocks[plan.tail].mm = left])
      /\ (left > 0 => prep'.loaded) /\ (left = 0 => ~prep'.loaded)
      /\ ~prep'.recalculate /\ ~prep'.override
      /\ prep'.current = w /\ prep'.exit = x /\ prep'.top = prep.top /\ prep'.end = prep.end
      /\ UNCHANGED <<slow, state, complete, hold>>
  BY Published
<1>3. /\ w \in Nat /\ w <= prep.top /\ w <= x + r /\ x <= w + r
      /\ c = x + (n + r) => w = x + r
      /\ x = c + (n + r) => x = w + r
      /\ r = 0 => w = x
  <2> HIDE DEF n, left, r, c, x
  <2> QED BY <1>2, TowardsIs
<1>4. /\ ~slow /\ HoldsState /\ Limited(plan)
      /\ prep.top = Current(plan).rate /\ x <= X
      /\ prep.end <= Current(plan).mm /\ (prep.end > 0 => x = 0)
      /\ ~hold => prep.end = 0 /\ x = X
      /\ hold => c = x + Remaining
  BY <1>2 DEF SpeedInv, Profiled
<1>5. SpeedNow = c BY <1>2 DEF SpeedNow
<1>6. Braked(plan, c) /\ (~hold => Optimal(plan, c))
  BY <1>2, <1>5 DEF SpeedInv, Planning
<1>7. X \in Nat /\ X = Exit(N, e, 0) BY <1>1, <1>2, <1>4, <1>6, ExitFits
<1>8. N \in Nat \ {0} /\ Ahead(plan) \in 0..(N - 1)
  <2>1. Ahead(plan) \in Nat /\ Ahead(plan) < N BY <1>1, <1>2, <1>4, Numbered DEF Limited
  <2> QED BY <1>1, <1>2, <2>1
<1>9. \A k \in 0..(N - 1) : /\ k \in 0..(BlockBufferSize - 1)
                            /\ e[k] = IF k = 0 THEN c ELSE Nth(plan, k).entry
                            /\ Maxes(plan)[k] = Nth(plan, k).max
                            /\ Ways(plan)[k] = Nth(plan, k).mm
  BY <1>1, <1>2, SpeedsAre
<1>10. CanBrake(N, e, Maxes(plan), Ways(plan)) BY <1>6 DEF Braked
<1>11. ~hold => Best(N, Ahead(plan), e, Maxes(plan), Ways(plan)) BY <1>6 DEF Optimal
<1>12. ~slow' /\ HoldsState' BY <1>2, <1>4 DEF HoldsState
<1>13. 0 \in 0..(N - 1) BY <1>8
<1>14. N - 1 <= BlockBufferSize - 1 /\ (N = 1 \/ 1 \in 0..(N - 1)) BY <1>1, <1>8, Numbered, PlannerAssumption
<1>15. Remaining' = Current(plan').mm - prep.end BY <1>2 DEF Remaining
<1> DEFINE rem == [plan EXCEPT !.blocks[plan.tail].mm = left]
<1>16. /\ rem \in Plans /\ rem.nominal = plan.nominal
       /\ Amount(rem) = N /\ Ahead(rem) = Ahead(plan)
       /\ Nth(rem, 0).mm = left /\ Nth(rem, 0).entry = Nth(plan, 0).entry
       /\ Nth(rem, 0).rate = Nth(plan, 0).rate /\ Nth(rem, 0).max = Nth(plan, 0).max
       /\ \A k \in 1..(BlockBufferSize - 1) : Nth(rem, k) = Nth(plan, k)
  <2> HIDE DEF left, N
  <2>1. left \in Nat BY <1>2
  <2> QED BY <1>1, <2>1, WayIs DEF N
<1>17. plan' = IF left > 0 THEN rem ELSE plan_discard_current_block(rem) BY <1>2
<1> HIDE DEF rem, n, left, r, c, x, X, w, N, e
<1>18. CASE left > 0
  <2>1. plan' = rem /\ prep'.loaded BY <1>2, <1>17, <1>18
  <2>2. SpeedNow' = w BY <1>2, <2>1, SpeedNowIs
  <2>3. plan' \in Plans /\ ~IsEmpty(plan') /\ Current(plan') = Nth(plan', 0)
    <3>1. plan' \in Plans /\ Amount(plan') = N BY <1>16, <2>1
    <3> QED BY <1>8, <3>1, Numbered
  <2>4. ExitSpeed(plan') = X
    <3>1. ExitSpeed(plan) = IF N = 1 THEN 0 ELSE Nth(plan, 1).entry
      BY <1>1, <1>2, ExitIs DEF N
    <3>2. ExitSpeed(plan') = IF N = 1 THEN 0 ELSE Nth(plan', 1).entry
      <4>1. Amount(plan') = N /\ N > 0 BY <1>8, <1>16, <2>1
      <4> QED BY <2>3, <4>1, ExitIs
    <3>3. N = 1 \/ 1 \in 1..(BlockBufferSize - 1) BY <1>8, <1>14, PlannerAssumption
    <3> QED BY <1>16, <2>1, <3>1, <3>2, <3>3 DEF X
  <2>5. Limited(plan')
    <3>1. \A k \in 0..(BlockBufferSize - 1) : /\ Nth(rem, k).rate = Nth(plan, k).rate
                                              /\ Nth(rem, k).max = Nth(plan, k).max
      <4> TAKE k \in 0..(BlockBufferSize - 1)
      <4>1. k = 0 \/ k \in 1..(BlockBufferSize - 1) OBVIOUS
      <4> QED BY <1>16, <4>1
    <3>2. Ahead(rem) < N BY <1>8, <1>16
    <3> QED BY <1>1, <1>4, <1>16, <2>1, <3>1, <3>2, LimitedSame DEF N
  <2> DEFINE y == Entries(plan', w)
  <2>6. \A k \in 0..(N - 1) : /\ y[k] = IF k = 0 THEN w ELSE Nth(rem, k).entry
                              /\ Maxes(plan')[k] = Nth(rem, k).max
                              /\ Ways(plan')[k] = Nth(rem, k).mm
    BY <1>3, <1>16, <2>1, SpeedsAre
  <2>7. SameBeyond(N, e, Maxes(plan), Ways(plan), y, Maxes(plan'), Ways(plan'))
    <3> SUFFICES ASSUME NEW k \in 0..(N - 1)
                 PROVE  /\ Maxes(plan')[k] = Maxes(plan)[k]
                        /\ k > 0 => y[k] = e[k] /\ Ways(plan')[k] = Ways(plan)[k]
      BY DEF SameBeyond
    <3>1. CASE k = 0 BY <1>9, <1>13, <1>16, <2>6, <3>1
    <3>2. CASE k # 0
      <4>1. k \in 1..(BlockBufferSize - 1) BY <1>9, <3>2
      <4>2. Nth(rem, k) = Nth(plan, k) BY <1>16, <4>1
      <4> QED BY <1>9, <2>6, <3>2, <4>2
    <3> QED BY <3>1, <3>2
  <2>8. y[0] = w /\ Ways(plan')[0] = left /\ e[0] = c /\ Ways(plan)[0] = left + n
    <3>1. y[0] = w /\ Ways(plan')[0] = left BY <1>13, <1>16, <2>6
    <3>2. e[0] = c /\ Ways(plan)[0] = Nth(plan, 0).mm BY <1>9, <1>13
    <3> QED BY <1>1, <1>2, <3>1, <3>2
  <2>9. r \in Nat /\ left \in Nat /\ prep.end \in Nat /\ left = r + prep.end
    BY <1>2 DEF r
  <2>10. y[0] <= Exit(N, e, 0) + Ways(plan')[0]
    <3>1. w <= X + left BY <1>2, <1>3, <1>4, <1>7, <2>9
    <3> QED BY <1>7, <2>8, <3>1
  <2>11. ~hold /\ N > 1 => /\ e[1] <= y[0] + Ways(plan')[0]
                           /\ e[1] = e[0] + Ways(plan)[0] => e[1] = y[0] + Ways(plan')[0]
    <3> SUFFICES ASSUME ~hold, N > 1
                 PROVE  e[1] <= w + left /\ (e[1] = c + (left + n) => e[1] = w + left)
      BY <2>8
    <3>1. e[1] = x
      <4>1. X = e[1] BY <1>7 DEF Exit
      <4> QED BY <1>4, <4>1
    <3>2. left = r BY <1>4, <2>9
    <3> QED BY <1>2, <1>3, <3>1, <3>2
  <2> HIDE DEF y
  <2>12. /\ CanBrake(N, y, Maxes(plan'), Ways(plan'))
         /\ ~hold => Best(N, Ahead(plan), y, Maxes(plan'), Ways(plan'))
    BY <1>8, <1>10, <1>11, <2>7, <2>10, <2>11, FirstShorter
  <2>13. Braked(plan', w) /\ (~hold => Optimal(plan', w))
    BY <1>16, <2>1, <2>12 DEF Braked, Optimal, y
  <2>14. Current(plan').rate = Current(plan).rate /\ Current(plan').mm = left
    BY <1>1, <1>16, <2>1, <2>3
  <2>15. Planning' BY <1>2, <1>3, <1>4, <2>2, <2>13, <2>14 DEF Planning
  <2>16. Unloaded' BY <1>2, <2>1 DEF Unloaded, Fresh
  <2>17. Profiled'
    <3>1. Remaining' = r BY <1>15, <2>9, <2>14
    <3>2. hold => w = x + r BY <1>2, <1>3, <1>4
    <3>3. prep.end <= left BY <2>9
    <3> QED BY <1>2, <1>3, <1>4, <2>4, <2>14, <3>1, <3>2, <3>3 DEF Profiled
  <2> QED BY <1>12, <2>5, <2>15, <2>16, <2>17 DEF SpeedInv
<1>19. CASE left = 0
  <2>1. plan' = plan_discard_current_block(rem) /\ ~prep'.loaded
    <3>1. ~(left > 0) BY <1>19
    <3>2. ~prep'.loaded BY <1>2, <1>19
    <3> QED BY <1>17, <3>1, <3>2
  <2>2. /\ plan' \in Plans /\ plan'.nominal = plan.nominal /\ Amount(plan') = N - 1
        /\ Ahead(plan') = IF Ahead(plan) = 0 THEN 0 ELSE Ahead(plan) - 1
        /\ \A k \in 0..(BlockBufferSize - 2) : Nth(plan', k) = Nth(plan, k + 1)
    <3>1. Amount(rem) > 0 BY <1>8, <1>16
    <3>2. /\ plan' \in Plans /\ plan'.nominal = rem.nominal /\ Amount(plan') = Amount(rem) - 1
          /\ Ahead(plan') = IF Ahead(rem) = 0 THEN 0 ELSE Ahead(rem) - 1
          /\ \A k \in 0..(BlockBufferSize - 2) : Nth(plan', k) = Nth(rem, k + 1)
      BY <1>16, <2>1, <3>1, DiscardIs
    <3>3. \A k \in 0..(BlockBufferSize - 2) : k + 1 \in 1..(BlockBufferSize - 1) BY PlannerAssumption
    <3>4. \A k \in 0..(BlockBufferSize - 2) : Nth(plan', k) = Nth(plan, k + 1)
      BY <1>16, <3>2, <3>3
    <3> QED BY <1>16, <3>2, <3>4
  <2>3. 0 \in 0..(BlockBufferSize - 2) /\ Nth(plan', 0) = Nth(plan, 1)
    <3>1. 0 \in 0..(BlockBufferSize - 2) /\ 0 + 1 = 1 BY PlannerAssumption
    <3> QED BY <2>2, <3>1
  <2>4. SpeedNow' = Nth(plan, 1).entry BY <2>1, <2>3, SpeedNowIs
  <2>5. Current(plan') = Nth(plan, 1) /\ (IsEmpty(plan') <=> N = 1)
    <3>1. Current(plan') = Nth(plan', 0) /\ (Amount(plan') = 0 <=> IsEmpty(plan'))
      BY <2>2, Numbered
    <3>2. Amount(plan') = 0 <=> N = 1 BY <1>8, <2>2
    <3> QED BY <2>3, <3>1, <3>2
  <2>6. Limited(plan')
    <3>1. CASE N = 1
      <4>1. 0..(0 - 1) = {} /\ 1..(0 - 1) = {} /\ ~(0 > 0) /\ Amount(plan') = 0 BY <2>2, <3>1
      <4> QED BY <4>1 DEF Limited
    <3>2. CASE N # 1
      <4>1. /\ plan.nominal = Nth(plan, N - 1).rate
            /\ \A k \in 0..(N - 1) : Nth(plan, k).max <= Nth(plan, k).rate
            /\ \A k \in 1..(N - 1) : Nth(plan, k).max <= Nth(plan, k - 1).rate
        BY <1>4, <1>8 DEF Limited, N
      <4>2. \A k \in 0..(N - 2) : Nth(plan', k) = Nth(plan, k + 1) /\ k + 1 \in 0..(N - 1)
        <5>1. \A k \in 0..(N - 2) : k \in 0..(BlockBufferSize - 2) /\ k + 1 \in 0..(N - 1)
          BY <1>8, <1>14, PlannerAssumption
        <5> QED BY <2>2, <5>1
      <4>3. N - 2 \in 0..(N - 2) /\ (N - 2) + 1 = N - 1 /\ N - 1 > 0 /\ (N - 1) - 1 = N - 2
        BY <1>8, <3>2
      <4>4. plan'.nominal = Nth(plan', (N - 1) - 1).rate BY <2>2, <4>1, <4>2, <4>3
      <4>5. Ahead(plan') < N - 1 BY <1>8, <2>2, <3>2
      <4>6. \A k \in 0..((N - 1) - 1) : Nth(plan', k).max <= Nth(plan', k).rate
        BY <4>1, <4>2, <4>3
      <4>7. \A k \in 1..((N - 1) - 1) : Nth(plan', k).max <= Nth(plan', k - 1).rate
        <5> TAKE k \in 1..((N - 1) - 1)
        <5>1. /\ k \in 0..(N - 2) /\ k - 1 \in 0..(N - 2) /\ k + 1 \in 1..(N - 1)
              /\ (k + 1) - 1 = k /\ (k - 1) + 1 = k
          BY <1>8
        <5>2. Nth(plan', k) = Nth(plan, k + 1) BY <4>2, <5>1
        <5>3. Nth(plan', k - 1) = Nth(plan, (k - 1) + 1) BY <4>2, <5>1
        <5>4. Nth(plan, k + 1).max <= Nth(plan, (k + 1) - 1).rate BY <4>1, <5>1
        <5> QED BY <5>1, <5>2, <5>3, <5>4
      <4> QED BY <2>2, <4>4, <4>5, <4>6, <4>7 DEF Limited
    <3> QED BY <3>1, <3>2
  <2>7. Profiled' BY <2>1 DEF Profiled
  <2>8. Unloaded'
    <3>1. x <= IF N = 1 THEN 0 ELSE Nth(plan, 1).entry
      <4>1. X = IF N = 1 THEN 0 ELSE Nth(plan, 1).entry BY <1>1, <1>8, ExitIs DEF X, N
      <4> QED BY <1>4, <4>1
    <3>2. prep'.exit <= IF IsEmpty(plan') THEN 0 ELSE Current(plan').entry
      BY <1>2, <2>5, <3>1
    <3> QED BY <1>2, <3>2 DEF Unloaded
  <2>9. Planning'
    <3> SUFFICES ASSUME N # 1
                 PROVE  /\ SpeedNow' <= Current(plan').rate /\ Braked(plan', SpeedNow')
                        /\ ~hold => Optimal(plan', SpeedNow')
      BY <1>2, <2>5 DEF Planning
    <3>1. 1 \in 0..(N - 1) /\ 1 \in 1..(N - 1) /\ 1 \in 0..(BlockBufferSize - 1)
      BY <1>8, <1>9
    <3>2. /\ e[1] = Nth(plan, 1).entry /\ Maxes(plan)[1] = Nth(plan, 1).max
          /\ Nth(plan, 1).entry \in Nat /\ Nth(plan, 1).max \in Nat /\ Nth(plan, 1).rate \in Nat
      BY <1>1, <1>9, <3>1, Numbered
    <3>3. SpeedNow' <= Current(plan').rate
      <4>1. e[1] <= Maxes(plan)[1] BY <1>10, <3>1 DEF CanBrake
      <4>2. Nth(plan, 1).max <= Nth(plan, 1).rate BY <1>4, <3>1 DEF Limited, N
      <4> QED BY <2>4, <2>5, <3>2, <4>1, <4>2
    <3> DEFINE y == Entries(plan', e[1])
    <3>4. \A k \in 0..(N - 2) : /\ y[k] = IF k = 0 THEN e[1] ELSE Nth(plan', k).entry
                                /\ Maxes(plan')[k] = Nth(plan', k).max
                                /\ Ways(plan')[k] = Nth(plan', k).mm
      <4>1. (N - 1) - 1 = N - 2 BY <1>8
      <4> QED BY <2>2, <3>2, <4>1, SpeedsAre
    <3>5. \A k \in 0..(N - 2) : /\ y[k] = e[k + 1]
                                /\ Maxes(plan')[k] = Maxes(plan)[k + 1]
                                /\ Ways(plan')[k] = Ways(plan)[k + 1]
      <4> TAKE k \in 0..(N - 2)
      <4>1. k + 1 \in 0..(N - 1) /\ k \in 0..(BlockBufferSize - 2) /\ k + 1 # 0
        BY <1>8, <1>14, PlannerAssumption
      <4>2. Nth(plan', k) = Nth(plan, k + 1) BY <2>2, <4>1
      <4>3. k = 0 => k + 1 = 1 OBVIOUS
      <4> QED BY <1>9, <3>4, <4>1, <4>2, <4>3
    <3>6. N \in Nat \ {0, 1} BY <1>8
    <3> HIDE DEF y
    <3>7. /\ CanBrake(N - 1, y, Maxes(plan'), Ways(plan'))
          /\ ~hold => Best(N - 1, IF Ahead(plan) = 0 THEN 0 ELSE Ahead(plan) - 1,
                           y, Maxes(plan'), Ways(plan'))
      BY <1>8, <1>10, <1>11, <3>5, <3>6, FirstGone
    <3>8. Braked(plan', e[1]) /\ (~hold => Optimal(plan', e[1]))
      BY <2>2, <3>7 DEF Braked, Optimal, y
    <3> QED BY <2>4, <3>2, <3>3, <3>8
  <2> QED BY <1>12, <2>6, <2>7, <2>8, <2>9 DEF SpeedInv
<1> QED BY <1>2, <1>18, <1>19

(* The override is changed by its action only.                             *)
LEMMA NotOverridden ==
  ASSUME TypeOK, [Next]_vars, NoOverride'
  PROVE  ~Override /\ NoOverride
<1>1. overridesLeft \in 0..MaxOverrides /\ MaxOverrides \in Nat BY Types, MotionAssumption
<1>2. ~Override
  <2>1. Override => overridesLeft' = overridesLeft - 1 BY DEF Override
  <2>2. overridesLeft' = MaxOverrides BY DEF NoOverride
  <2> QED BY <1>1, <2>1, <2>2
<1>3. Override \/ overridesLeft' = overridesLeft
  BY DEF Next, Generate, Interrupt, Operate, Host, Prep, Filled, Load, Fill, NoStep, Publish,
         Step, Shutdown, CycleStart, FeedHold, Flush, CycleStop, PlanLine, boundVars, vars
<1> QED BY <1>2, <1>3 DEF NoOverride

(* Every step keeps the invariant.                                         *)
LEMMA SpeedyStep ==
  TypeOK /\ LinesInv /\ Speedy /\ [Next]_vars => Speedy'
<1> SUFFICES ASSUME TypeOK, LinesInv, Speedy, [Next]_vars, NoOverride' PROVE SpeedInv'
  BY DEF Speedy
<1>1. Lined BY DEF LinesInv
<1>2. ~Override BY NotOverridden
<1>3. SpeedInv BY NotOverridden DEF Speedy
<1>4. HoldsState BY <1>3 DEF SpeedInv
<1>5. ASSUME UNCHANGED <<plan, prep, slow, hold>>, HoldsState' PROVE SpeedInv'
  BY <1>3, <1>5, SpeedyPasses
<1>6. CASE Prep \/ Filled \/ NoStep \/ Shutdown \/ Fill \/ Step
  <2>1. UNCHANGED <<plan, prep, slow, state, complete, hold>>
    BY <1>6 DEF Prep, Filled, NoStep, Shutdown, Fill, Step, sysVars, motionVars
  <2> QED BY <1>4, <1>5, <2>1 DEF HoldsState
<1>7. CASE CycleStart
  <2>1. UNCHANGED <<plan, prep, slow>> /\ complete' = FALSE /\ hold' = FALSE
        /\ (state = "IDLE" \/ complete)
    BY <1>7 DEF CycleStart, motionVars
  <2>2. ~hold BY <1>4, <2>1 DEF HoldsState
  <2>3. hold \in BOOLEAN BY Types
  <2>4. hold' = hold BY <2>1, <2>2, <2>3
  <2>5. HoldsState' BY <2>1 DEF HoldsState
  <2> QED BY <1>5, <2>1, <2>4, <2>5
<1>8. CASE Load BY <1>1, <1>3, <1>8, SpeedyLoad
<1>9. CASE Publish BY <1>3, <1>9, SpeedyPublish
<1>10. CASE Flush BY <1>3, <1>10, SpeedyFlush
<1>11. CASE Host
  <2>1. PICK length \in Lengths, rate \in Rates, junction \in Junctions :
          PlanLine(length, rate, junction)
    BY <1>11 DEF Host
  <2> QED BY <1>1, <1>3, <2>1, SpeedyLine
<1>12. CASE FeedHold
  <2>1. CASE state = "CYCLE"
    <3>1. /\ plan' = AtCurrentSpeed(plan) /\ prep' = StepperUpdated /\ hold'
          /\ state' = "HOLD" /\ UNCHANGED <<slow, complete>>
      BY <1>12, <2>1 DEF FeedHold
    <3>2. ~complete BY <1>4, <2>1 DEF HoldsState
    <3>3. HoldsState' BY <3>1, <3>2 DEF HoldsState
    <3> QED BY <1>1, <1>3, <3>1, <3>3, SpeedyHold
  <2>2. CASE state # "CYCLE"
    <3>1. state = "IDLE" /\ state' = "HOLD" /\ UNCHANGED <<plan, prep, slow, hold>>
      BY <1>12, <2>2 DEF FeedHold
    <3>2. HoldsState' BY <1>4, <3>1 DEF HoldsState
    <3> QED BY <1>5, <3>1, <3>2
  <2> QED BY <2>1, <2>2
<1>13. CASE CycleStop
  <2>1. CASE state = "HOLD"
    <3>1. Reinitialize(plan) /\ hold' = FALSE /\ UNCHANGED <<slow, state>>
      BY <1>13, <2>1 DEF CycleStop
    <3>2. HoldsState' BY <2>1, <3>1 DEF HoldsState
    <3> QED BY <1>1, <1>3, <3>1, <3>2, SpeedyReinitialize
  <2>2. CASE state # "HOLD"
    <3>1. UNCHANGED <<plan, prep, slow, complete, hold>> BY <1>13, <2>2 DEF CycleStop
    <3>2. HoldsState' BY <1>4, <2>2, <3>1 DEF HoldsState
    <3> QED BY <1>5, <3>1, <3>2
  <2> QED BY <2>1, <2>2
<1>14. CASE UNCHANGED vars
  <2>1. UNCHANGED <<plan, prep, slow, state, complete, hold>>
    BY <1>14 DEF vars, sysVars, motionVars
  <2> QED BY <1>4, <1>5, <2>1 DEF HoldsState
<1> QED BY <1>2, <1>6, <1>7, <1>8, <1>9, <1>10, <1>11, <1>12, <1>13, <1>14
        DEF Next, Generate, Interrupt, Operate

(* It holds at first.                                                      *)
LEMMA SpeedyStart ==
  Init => Speedy
<1> SUFFICES ASSUME Init PROVE SpeedInv BY DEF Speedy
<1>1. plan \in Plans BY TypeStart, Types
<1>2. plan = plan_reset /\ prep = NoPrep /\ slow = FALSE /\ complete = FALSE /\ hold = FALSE
  BY DEF Init
<1>3. IsEmpty(plan) BY <1>2 DEF plan_reset, IsEmpty
<1>4. Amount(plan) = 0 BY <1>1, <1>3, Numbered
<1>5. Limited(plan)
  <2>1. 0..(0 - 1) = {} /\ 1..(0 - 1) = {} /\ ~(0 > 0) OBVIOUS
  <2> QED BY <1>4, <2>1 DEF Limited
<1>6. /\ prep.loaded = FALSE /\ prep.recalculate = FALSE /\ prep.override = FALSE
      /\ prep.exit = 0
  BY <1>2 DEF NoPrep
<1>7. Profiled /\ Planning /\ Unloaded BY <1>3, <1>6 DEF Profiled, Planning, Unloaded
<1> QED BY <1>2, <1>5, <1>7 DEF SpeedInv, HoldsState

-------------------------------------------------------------------------------
(* The best plan                                                           *)

(* A function that never falls from one place to the next never falls.     *)
LEMMA Rising ==
  ASSUME NEW n \in Nat, NEW g \in [0..n -> Int], \A k \in 1..n : g[k - 1] <= g[k]
  PROVE  \A i \in 0..n : \A j \in i..n : g[i] <= g[j]
<1> SUFFICES ASSUME NEW i \in 0..n PROVE \A j \in i..n : g[i] <= g[j] OBVIOUS
<1> DEFINE S == {a \in Nat : i + a <= n => g[i] <= g[i + a]}
<1>1. 0 \in S
  <2>1. i + 0 = i OBVIOUS
  <2> QED BY <2>1
<1>2. ASSUME NEW a \in Nat, a \in S PROVE a + 1 \in S
  <2> SUFFICES ASSUME i + (a + 1) <= n PROVE g[i] <= g[i + (a + 1)] OBVIOUS
  <2>1. i + (a + 1) \in 1..n /\ (i + (a + 1)) - 1 = i + a /\ i + a <= n /\ i + a \in 0..n
    OBVIOUS
  <2>2. g[i] <= g[i + a] BY <1>2, <2>1
  <2>3. g[i + a] <= g[i + (a + 1)] BY <2>1
  <2>4. g[i] \in Int /\ g[i + a] \in Int /\ g[i + (a + 1)] \in Int BY <2>1
  <2> HIDE DEF S
  <2> QED BY <2>2, <2>3, <2>4
<1> HIDE DEF S
<1>3. \A a \in Nat : a \in S BY <1>1, <1>2, Induction
<1> SUFFICES ASSUME NEW j \in i..n PROVE g[i] <= g[j] OBVIOUS
<1>4. j - i \in Nat /\ i + (j - i) = j /\ j <= n OBVIOUS
<1>5. j - i \in S BY <1>3, <1>4
<1> QED BY <1>4, <1>5 DEF S

(* The speeds over ways that sum up to s.                                  *)
Summed(n, d, s) == s \in [0..n -> Int] /\ \A k \in 1..n : s[k] = s[k - 1] + d[k - 1]

(* What the speed of a block is limited by: the way from the first block   *)
(* or from that of any junction before, and the way to the end or to any   *)
(* junction behind.                                                        *)
Bounds(n, e, m, s, k) ==
  {e[0] + (s[k] - s[0]), s[n] - s[k]} \cup {m[j] + (s[k] - s[j]) : j \in 1..k}
                                      \cup {m[j] + (s[j] - s[k]) : j \in k..(n - 1)}

(* A machine that can brake and reaches its speeds keeps the limits: what  *)
(* a speed lacks to the way done never grows, nor what it has with it      *)
(* falls.                                                                  *)
LEMMA Bounded ==
  ASSUME NEW n \in Nat \ {0}, NEW q, NEW e \in Speeds(n), NEW m \in Speeds(n),
         NEW d \in Speeds(n), NEW s, Summed(n, d, s), CanBrake(n, e, m, d), Best(n, q, e, m, d)
  PROVE  /\ \A i \in 0..(n - 1) : \A j \in i..(n - 1) : e[j] - s[j] <= e[i] - s[i]
         /\ \A i \in 0..(n - 1) : e[i] + s[i] <= s[n]
         /\ \A i \in 0..(n - 1) : \A j \in i..(n - 1) : e[i] + s[i] <= e[j] + s[j]
<1> DEFINE h == [k \in 0..n |-> IF k = n THEN s[n] ELSE e[k] + s[k]]
           g == [k \in 0..(n - 1) |-> s[k] - e[k]]
<1>1. /\ s \in [0..n -> Int] /\ \A k \in 0..(n - 1) : e[k] \in Nat /\ d[k] \in Nat /\ s[k] \in Int
      /\ s[n] \in Int
  BY DEF Speeds, Summed
<1>2. h \in [0..n -> Int] /\ g \in [0..(n - 1) -> Int] BY <1>1
<1>3. \A k \in 0..(n - 1) : h[k] = e[k] + s[k] /\ g[k] = s[k] - e[k] OBVIOUS
<1>4. h[n] = s[n] OBVIOUS
<1> HIDE DEF h, g
<1>5. ASSUME NEW k \in 1..n PROVE h[k - 1] <= h[k]
  <2>1. k - 1 \in 0..(n - 1) /\ (k - 1) + 1 = k OBVIOUS
  <2>2. e[k - 1] <= Exit(n, e, k - 1) + d[k - 1] BY <2>1 DEF CanBrake
  <2>3. s[k] = s[k - 1] + d[k - 1] BY DEF Summed
  <2>4. h[k - 1] = e[k - 1] + s[k - 1] BY <1>3, <2>1
  <2>5. CASE k = n
    <3>1. Exit(n, e, k - 1) = 0 BY <2>1, <2>5 DEF Exit
    <3> QED BY <1>1, <1>4, <2>1, <2>2, <2>3, <2>4, <2>5, <3>1
  <2>6. CASE k # n
    <3>1. Exit(n, e, k - 1) = e[k] BY <2>1, <2>6 DEF Exit
    <3>2. k \in 0..(n - 1) BY <2>6
    <3> QED BY <1>1, <1>3, <2>1, <2>2, <2>3, <2>4, <3>1, <3>2
  <2> QED BY <2>5, <2>6
<1>6. ASSUME NEW k \in 1..(n - 1) PROVE g[k - 1] <= g[k]
  <2>1. k - 1 \in 0..(n - 1) /\ k \in 0..(n - 1) /\ k \in 1..n OBVIOUS
  <2>2. e[k] <= e[k - 1] + d[k - 1] BY DEF Best, Reached
  <2>3. s[k] = s[k - 1] + d[k - 1] BY <2>1 DEF Summed
  <2> QED BY <1>1, <1>3, <2>1, <2>2, <2>3
<1>7. \A i \in 0..n : \A j \in i..n : h[i] <= h[j] BY <1>2, <1>5, Rising
<1>8. \A i \in 0..(n - 1) : \A j \in i..(n - 1) : g[i] <= g[j]
  <2>1. n - 1 \in Nat OBVIOUS
  <2> DEFINE b == n - 1
  <2>2. b \in Nat /\ g \in [0..b -> Int] /\ \A k \in 1..b : g[k - 1] <= g[k] BY <1>2, <1>6, <2>1
  <2> HIDE DEF b
  <2>3. \A i \in 0..b : \A j \in i..b : g[i] <= g[j] BY <2>2, Rising
  <2> QED BY <2>3 DEF b
<1>9. ASSUME NEW i \in 0..(n - 1), NEW j \in i..(n - 1)
      PROVE  e[j] - s[j] <= e[i] - s[i] /\ e[i] + s[i] <= e[j] + s[j]
  <2>1. j \in 0..(n - 1) /\ i \in 0..n /\ j \in i..n OBVIOUS
  <2>2. g[i] <= g[j] /\ h[i] <= h[j] BY <1>7, <1>8, <2>1
  <2>3. /\ g[i] = s[i] - e[i] /\ g[j] = s[j] - e[j]
        /\ h[i] = e[i] + s[i] /\ h[j] = e[j] + s[j]
    BY <1>3, <2>1
  <2>4. e[i] \in Int /\ e[j] \in Int /\ s[i] \in Int /\ s[j] \in Int BY <1>1, <2>1
  <2>5. e[j] - s[j] <= e[i] - s[i]
    <3>1. s[i] - e[i] <= s[j] - e[j] BY <2>2, <2>3
    <3> QED BY <2>4, <3>1
  <2>6. e[i] + s[i] <= e[j] + s[j] BY <2>2, <2>3
  <2> QED BY <2>5, <2>6
<1>10. ASSUME NEW i \in 0..(n - 1) PROVE e[i] + s[i] <= s[n]
  <2>1. i \in 0..n /\ n \in i..n OBVIOUS
  <2>2. h[i] <= h[n] BY <1>7, <2>1
  <2> QED BY <1>3, <1>4, <2>2
<1> QED BY <1>9, <1>10

(* So no speed is above its limits.                                        *)
LEMMA WithinBounds ==
  ASSUME NEW n \in Nat \ {0}, NEW q, NEW e \in Speeds(n), NEW m \in Speeds(n),
         NEW d \in Speeds(n), NEW s, Summed(n, d, s), CanBrake(n, e, m, d), Best(n, q, e, m, d),
         NEW k \in 1..(n - 1), NEW limit \in Bounds(n, e, m, s, k)
  PROVE  e[k] <= limit
<1>1. /\ s \in [0..n -> Int]
      /\ \A i \in 0..(n - 1) : e[i] \in Nat /\ m[i] \in Nat /\ s[i] \in Int
      /\ s[n] \in Int
  <2>1. \A i \in 0..(n - 1) : e[i] \in Nat /\ m[i] \in Nat BY DEF Speeds
  <2>2. s \in [0..n -> Int] BY DEF Summed
  <2>3. \A i \in 0..(n - 1) : i \in 0..n OBVIOUS
  <2>4. n \in 0..n OBVIOUS
  <2> QED BY <2>1, <2>2, <2>3, <2>4
<1>2. /\ \A i \in 0..(n - 1) : \A j \in i..(n - 1) : e[j] - s[j] <= e[i] - s[i]
      /\ \A i \in 0..(n - 1) : e[i] + s[i] <= s[n]
      /\ \A i \in 0..(n - 1) : \A j \in i..(n - 1) : e[i] + s[i] <= e[j] + s[j]
  BY Bounded
<1>3. \A j \in 1..(n - 1) : e[j] <= m[j] BY DEF CanBrake
<1>4. k \in 0..(n - 1) /\ 0 \in 0..(n - 1) /\ k \in 0..(n - 1) OBVIOUS
<1>5. CASE limit = e[0] + (s[k] - s[0])
  <2>1. e[k] - s[k] <= e[0] - s[0] BY <1>2, <1>4
  <2>2. e[k] \in Int /\ s[k] \in Int /\ e[0] \in Int /\ s[0] \in Int BY <1>1, <1>4
  <2> QED BY <1>5, <2>1, <2>2
<1>6. CASE limit = s[n] - s[k]
  <2>1. e[k] + s[k] <= s[n] BY <1>2, <1>4
  <2>2. e[k] \in Int /\ s[k] \in Int /\ s[n] \in Int BY <1>1, <1>4
  <2> QED BY <1>6, <2>1, <2>2
<1>7. ASSUME NEW j \in 1..k, limit = m[j] + (s[k] - s[j]) PROVE e[k] <= limit
  <2>1. j \in 0..(n - 1) /\ j \in 1..(n - 1) /\ k \in j..(n - 1) OBVIOUS
  <2>2. e[k] - s[k] <= e[j] - s[j] /\ e[j] <= m[j] BY <1>2, <1>3, <2>1
  <2>3. e[k] \in Int /\ s[k] \in Int /\ e[j] \in Int /\ s[j] \in Int /\ m[j] \in Int
    BY <1>1, <1>4, <2>1
  <2> QED BY <1>7, <2>2, <2>3
<1>8. ASSUME NEW j \in k..(n - 1), limit = m[j] + (s[j] - s[k]) PROVE e[k] <= limit
  <2>1. j \in 0..(n - 1) /\ j \in 1..(n - 1) OBVIOUS
  <2>2. e[k] + s[k] <= e[j] + s[j] /\ e[j] <= m[j] BY <1>2, <1>3, <1>4, <2>1
  <2>3. e[k] \in Int /\ s[k] \in Int /\ e[j] \in Int /\ s[j] \in Int /\ m[j] \in Int
    BY <1>1, <1>4, <2>1
  <2> QED BY <1>8, <2>2, <2>3
<1> QED BY <1>5, <1>6, <1>7, <1>8 DEF Bounds

(* Every speed is at one of its limits: going from neighbour to neighbour  *)
(* that holds it down ends at a junction, at the first block or at the     *)
(* end, and never turns back, because the ways are not empty.              *)
LEMMA AtBounds ==
  ASSUME NEW n \in Nat \ {0}, NEW q, NEW e \in Speeds(n), NEW m \in Speeds(n),
         NEW d \in Speeds(n), NEW s, Summed(n, d, s), CanBrake(n, e, m, d), Best(n, q, e, m, d),
         \A i \in 0..(n - 1) : d[i] > 0, NEW k \in 1..(n - 1)
  PROVE  e[k] \in Bounds(n, e, m, s, k)
<1>1. /\ s \in [0..n -> Int]
      /\ \A i \in 0..(n - 1) : e[i] \in Nat /\ m[i] \in Nat /\ s[i] \in Int /\ d[i] \in Nat
      /\ s[n] \in Int
  <2>1. \A i \in 0..(n - 1) : e[i] \in Nat /\ m[i] \in Nat /\ d[i] \in Nat BY DEF Speeds
  <2>2. s \in [0..n -> Int] BY DEF Summed
  <2>3. \A i \in 0..(n - 1) : i \in 0..n OBVIOUS
  <2>4. n \in 0..n OBVIOUS
  <2> QED BY <2>1, <2>2, <2>3, <2>4
<1>2. /\ \A i \in 0..(n - 1) : \A j \in i..(n - 1) : e[j] - s[j] <= e[i] - s[i]
      /\ \A i \in 0..(n - 1) : \A j \in i..(n - 1) : e[i] + s[i] <= e[j] + s[j]
  BY Bounded
<1>3. k \in 0..(n - 1) /\ 0 \in 0..(n - 1) OBVIOUS
<1>4. \A j \in 1..(n - 1) : FromBehind(e, m, d, j) \/ FromAhead(n, e, d, j) BY DEF Best
<1>5. \A j \in 1..(n - 1) : e[j] = e[j - 1] + d[j - 1] => e[j] - s[j] = e[j - 1] - s[j - 1]
  <2> TAKE j \in 1..(n - 1)
  <2>1. j - 1 \in 0..(n - 1) /\ j \in 0..(n - 1) /\ j \in 1..n OBVIOUS
  <2>2. s[j] = s[j - 1] + d[j - 1] BY <2>1 DEF Summed
  <2>3. e[j] \in Int /\ e[j - 1] \in Int /\ s[j - 1] \in Int /\ d[j - 1] \in Int BY <1>1, <2>1
  <2> QED BY <2>2, <2>3
<1>6. \A j \in 0..(n - 2) : e[j] = e[j + 1] + d[j] <=> e[j] + s[j] = e[j + 1] + s[j + 1]
  <2> TAKE j \in 0..(n - 2)
  <2>1. j + 1 \in 0..(n - 1) /\ j \in 0..(n - 1) /\ j + 1 \in 1..n /\ (j + 1) - 1 = j OBVIOUS
  <2>2. s[j + 1] = s[j] + d[j] BY <2>1 DEF Summed
  <2>3. e[j] \in Nat /\ e[j + 1] \in Nat /\ s[j] \in Int /\ d[j] \in Nat BY <1>1, <2>1
  <2> QED BY <2>2, <2>3
(* One of the limits behind, unless the speed is held down from before.    *)
<1>7. ASSUME ~(e[k] = e[k - 1] + d[k - 1]) PROVE e[k] \in Bounds(n, e, m, s, k)
  <2> DEFINE T == {j \in 0..(n - 1) : j >= k /\ e[j] + s[j] = e[k] + s[k]}
  <2>1. T \in SUBSET (0..(n - 1)) /\ k \in T /\ n - 1 \in Nat BY <1>3
  <2> HIDE DEF T
  <2>2. PICK j \in T : \A i \in T : i <= j
    <3> DEFINE b == n - 1
    <3>1. b \in Nat /\ T \in SUBSET (0..b) /\ T # {} BY <2>1
    <3> HIDE DEF b
    <3> QED BY <3>1, LargestOf
  <2>3. j \in 0..(n - 1) /\ j >= k /\ e[j] + s[j] = e[k] + s[k] BY <2>2 DEF T
  <2>4. j \in 1..(n - 1) /\ j \in k..(n - 1) BY <2>3
  <2>5. CASE e[j] = m[j]
    <3>1. e[k] \in Nat /\ s[k] \in Int /\ e[j] \in Nat /\ s[j] \in Int BY <1>1, <1>3, <2>3
    <3>2. e[k] = m[j] + (s[j] - s[k]) BY <2>3, <2>5, <3>1
    <3> QED BY <2>4, <3>2 DEF Bounds
  <2>6. CASE e[j] = e[j - 1] + d[j - 1]
    <3>1. j # k BY <1>7, <2>6
    <3>2. /\ j - 1 \in k..(n - 1) /\ j - 1 \in 0..(n - 1) /\ j \in (j - 1)..(n - 1)
          /\ j - 1 \in 0..(n - 2) /\ (j - 1) + 1 = j
      BY <2>3, <3>1
    <3>3. e[k] + s[k] <= e[j - 1] + s[j - 1] /\ e[j - 1] + s[j - 1] <= e[j] + s[j]
      BY <1>2, <1>3, <3>2
    <3>4. e[j - 1] + s[j - 1] = e[j] + s[j]
      <4>1. e[j] \in Nat /\ s[j] \in Int /\ e[j - 1] \in Nat /\ s[j - 1] \in Int
        BY <1>1, <2>3, <3>2
      <4> QED BY <2>3, <3>3, <4>1
    <3>5. e[j - 1] = e[j] + d[j - 1] BY <1>6, <3>2, <3>4
    <3>6. d[j - 1] > 0 BY <3>2
    <3> QED BY <1>1, <2>3, <2>6, <3>2, <3>5, <3>6
  <2>7. CASE FromAhead(n, e, d, j)
    <3>1. e[j] = Exit(n, e, j) + d[j] BY <2>7 DEF FromAhead
    <3>2. CASE j + 1 = n
      <4>1. e[j] = d[j] BY <1>1, <2>3, <3>1, <3>2 DEF Exit
      <4>2. n \in 1..n /\ n - 1 = j BY <2>3, <3>2
      <4>3. s[n] = s[j] + d[j] BY <4>2 DEF Summed
      <4>4. e[k] = s[n] - s[k] BY <1>1, <1>3, <2>3, <4>1, <4>3
      <4> QED BY <4>4 DEF Bounds
    <3>3. CASE j + 1 # n
      <4>1. e[j] = e[j + 1] + d[j] BY <3>1, <3>3 DEF Exit
      <4>2. j \in 0..(n - 2) /\ j + 1 \in 0..(n - 1) /\ j + 1 >= k BY <2>3, <3>3
      <4>3. e[j + 1] + s[j + 1] = e[k] + s[k] BY <1>6, <2>3, <4>1, <4>2
      <4>4. j + 1 \in T BY <4>2, <4>3 DEF T
      <4> QED BY <2>2, <2>3, <4>4
    <3> QED BY <3>2, <3>3
  <2> QED BY <1>4, <2>4, <2>5, <2>6, <2>7 DEF FromBehind
(* One of the limits before.                                               *)
<1>8. ASSUME e[k] = e[k - 1] + d[k - 1] PROVE e[k] \in Bounds(n, e, m, s, k)
  <2> DEFINE T == {a \in 0..k : e[k - a] - s[k - a] = e[k] - s[k]}
  <2>1. T \in SUBSET (0..k) /\ 1 \in T /\ k \in Nat
    <3>1. 1 \in 0..k OBVIOUS
    <3>2. e[k - 1] - s[k - 1] = e[k] - s[k] BY <1>5, <1>8
    <3> QED BY <3>1, <3>2
  <2> HIDE DEF T
  <2>2. PICK a \in T : \A i \in T : i <= a BY <2>1, LargestOf
  <2> DEFINE j == k - a
  <2>3. j \in 0..k /\ e[j] - s[j] = e[k] - s[k] /\ j < k
    <3>1. a \in 0..k /\ 1 <= a BY <2>1, <2>2
    <3>2. e[k - a] - s[k - a] = e[k] - s[k] BY <2>2 DEF T
    <3> QED BY <3>1, <3>2
  <2>4. a \in Nat /\ a = k - j /\ a + 1 = k - (j - 1) /\ k - (a + 1) = j - 1
    <3>1. a \in 0..k BY <2>1, <2>2
    <3> QED BY <3>1
  <2> HIDE DEF j
  <2>5. j \in 0..(n - 1) /\ j + 1 \in 0..(n - 1) /\ j \in 0..(n - 2) BY <2>3
  <2>6. CASE j = 0
    <3>1. e[k] \in Nat /\ s[k] \in Int /\ e[0] \in Nat /\ s[0] \in Int BY <1>1, <1>3
    <3>2. e[k] = e[0] + (s[k] - s[0]) BY <2>3, <2>6, <3>1
    <3> QED BY <3>2 DEF Bounds
  <2>7. CASE j # 0 /\ e[j] = m[j]
    <3>1. e[k] \in Nat /\ s[k] \in Int /\ e[j] \in Nat /\ s[j] \in Int BY <1>1, <1>3, <2>5
    <3>2. e[k] = m[j] + (s[k] - s[j]) BY <2>3, <2>7, <3>1
    <3>3. j \in 1..k BY <2>3, <2>7
    <3> QED BY <3>2, <3>3 DEF Bounds
  <2>8. CASE j # 0 /\ e[j] = e[j - 1] + d[j - 1]
    <3>1. j \in 1..(n - 1) BY <2>3, <2>8
    <3>2. e[j - 1] - s[j - 1] = e[k] - s[k] BY <1>5, <2>3, <2>8, <3>1
    <3>3. a + 1 \in 0..k BY <2>3, <2>4, <2>8
    <3>4. a + 1 \in T BY <2>4, <3>2, <3>3 DEF T
    <3> QED BY <2>2, <2>4, <3>4
  <2>9. CASE j # 0 /\ FromAhead(n, e, d, j)
    <3>1. e[j] = e[j + 1] + d[j]
      <4>1. j + 1 # n BY <2>5
      <4> QED BY <2>9, <4>1 DEF FromAhead, Exit
    <3>2. /\ j \in 0..(n - 1) /\ j + 1 \in j..(n - 1) /\ k \in (j + 1)..(n - 1)
          /\ j + 1 \in 1..(n - 1) /\ (j + 1) - 1 = j
      BY <2>3, <2>5
    <3>3. e[j + 1] - s[j + 1] <= e[j] - s[j] /\ e[k] - s[k] <= e[j + 1] - s[j + 1]
      BY <1>2, <2>5, <3>2
    <3>4. s[j + 1] = s[j] + d[j]
      <4>1. j + 1 \in 1..n BY <3>2
      <4> QED BY <3>2, <4>1 DEF Summed
    <3>5. d[j] > 0 BY <2>5
    <3> QED BY <1>1, <1>3, <2>3, <2>5, <3>1, <3>3, <3>4, <3>5
  <2>10. CASE j # 0
    <3>1. j \in 1..(n - 1) BY <2>3, <2>10
    <3>2. FromBehind(e, m, d, j) \/ FromAhead(n, e, d, j) BY <1>4, <3>1
    <3> QED BY <2>7, <2>8, <2>9, <2>10, <3>2 DEF FromBehind
  <2> QED BY <2>6, <2>10
<1> QED BY <1>7, <1>8

(* The ways between the blocks are differences of sums.                    *)
LEMMA Distances ==
  ASSUME plan \in Plans
  PROVE  \E s : /\ Summed(Count, Ways(plan), s)
                /\ \A i \in 0..Count : \A j \in i..Count : Distance(i, j) = s[j] - s[i]
<1>1. Count \in Nat /\ Count = Amount(plan) BY Numbered DEF Count, Amount
<1>2. Ways(plan) \in [0..(Count - 1) -> Int]
  <2>1. Ways(plan) \in Speeds(Count) BY <1>1, SpeedsAre
  <2> QED BY <2>1 DEF Speeds
<1>3. PICK s \in [0..Count -> Int] : \A k \in 1..Count : s[k] = s[k - 1] + Ways(plan)[k - 1]
  BY <1>1, <1>2, Sums
<1>4. ASSUME NEW i \in 0..Count, NEW j \in i..Count PROVE Distance(i, j) = s[j] - s[i]
  <2> DEFINE b == j - i
             f == [k \in 0..(b - 1) |-> BlockAt(i + k).mm]
             t == [k \in 0..b |-> s[i + k] - s[i]]
  <2>1. b \in Nat /\ i + b = j /\ i + 0 = i BY <1>1
  <2>2. \A k \in 0..(b - 1) : i + k \in 0..(Count - 1) BY <1>1
  <2>3. \A k \in 0..b : i + k \in 0..Count BY <1>1
  <2>4. \A k \in 0..(Count - 1) : BlockAt(k).mm = Ways(plan)[k] /\ Ways(plan)[k] \in Int
    BY <1>1, <1>2 DEF Ways, BlockAt, Nth, NthSlot
  <2>5. f \in [0..(b - 1) -> Int] /\ \A k \in 0..(b - 1) : f[k] = Ways(plan)[i + k]
    BY <2>2, <2>4
  <2>6. \A k \in 0..b : s[i + k] \in Int /\ s[i] \in Int BY <1>3, <2>3
  <2>7. t \in [0..b -> Int] /\ \A k \in 0..b : t[k] = s[i + k] - s[i] BY <2>6
  <2>8. Distance(i, j) = Total(f, b) BY DEF Distance
  <2> HIDE DEF f, t, b
  <2>9. t[0] = 0 /\ t[b] = s[j] - s[i]
    <3>1. 0 \in 0..b /\ b \in 0..b BY <2>1
    <3>2. t[0] = s[i + 0] - s[i] /\ t[b] = s[i + b] - s[i] BY <2>7, <3>1
    <3>3. s[i] \in Int BY <2>6, <3>1
    <3> QED BY <2>1, <3>2, <3>3
  <2>10. ASSUME NEW k \in 1..b PROVE t[k] = t[k - 1] + f[k - 1]
    <3>1. k \in 0..b /\ k - 1 \in 0..b /\ k - 1 \in 0..(b - 1) BY <2>1
    <3>2. i + k \in 1..Count /\ (i + k) - 1 = i + (k - 1) /\ i + (k - 1) \in 0..(Count - 1)
      BY <1>1, <2>1, <2>2, <2>3, <3>1
    <3>3. s[i + k] = s[i + (k - 1)] + Ways(plan)[i + (k - 1)] BY <1>3, <3>2
    <3>4. Ways(plan)[i + (k - 1)] \in Int BY <2>4, <3>2
    <3> QED BY <2>5, <2>6, <2>7, <3>1, <3>3, <3>4
  <2>11. Total(f, b) = t[b] BY <2>1, <2>5, <2>7, <2>9, <2>10, TotalIs
  <2> QED BY <2>8, <2>9, <2>11
<1> QED BY <1>3, <1>4 DEF Summed

(* A plan that is the best one is entered at the least of the limits.      *)
LEMMA BestIsOptimal ==
  ASSUME TypeOK, Lined, Speedy
  PROVE  PlanIsOptimal
<1> SUFFICES ASSUME NoOverride, ~hold, NEW k \in 1..(Count - 1)
             PROVE  /\ BlockAt(k).entry \in SpeedLimits(k)
                    /\ \A limit \in SpeedLimits(k) : BlockAt(k).entry <= limit
  BY DEF PlanIsOptimal
<1> DEFINE n == Count
           e == Entries(plan, SpeedNow)
           m == Maxes(plan)
           d == Ways(plan)
<1>1. /\ plan \in Plans /\ prep \in Preps /\ Count = Amount(plan) /\ Count \in Nat
      /\ (~IsEmpty(plan) <=> Amount(plan) > 0)
  BY FirstLined DEF Count, Amount
<1>2. n \in Nat \ {0} /\ ~IsEmpty(plan) BY <1>1
<1>3. SpeedNow \in Nat BY <1>1, SpeedNowNat
<1>4. Braked(plan, SpeedNow) /\ Optimal(plan, SpeedNow)
  BY <1>2 DEF Speedy, SpeedInv, Planning
<1>5. CanBrake(n, e, m, d) /\ Best(n, Ahead(plan), e, m, d)
  BY <1>1, <1>4 DEF Braked, Optimal
<1>6. /\ e \in Speeds(n) /\ m \in Speeds(n) /\ d \in Speeds(n)
      /\ \A i \in 0..(n - 1) :
           /\ m[i] = BlockAt(i).max /\ d[i] = BlockAt(i).mm
           /\ e[i] = IF i = 0 THEN SpeedNow ELSE BlockAt(i).entry
  <2>1. \A i : Nth(plan, i) = BlockAt(i) BY DEF Nth, NthSlot, BlockAt
  <2> QED BY <1>1, <1>3, <2>1, SpeedsAre
<1>7. \A i \in 0..(n - 1) : d[i] > 0 BY <1>6 DEF Lined
<1>8. PICK s : /\ Summed(n, d, s)
               /\ \A i \in 0..n : \A j \in i..n : Distance(i, j) = s[j] - s[i]
  BY <1>1, Distances
<1>9. k \in 0..(n - 1) /\ k # 0 /\ 0 \in 0..(n - 1) /\ 0 \in 0..n /\ k \in 0..n /\ n \in k..n
  BY <1>1
<1>10. e[0] = SpeedNow /\ e[k] = BlockAt(k).entry BY <1>6, <1>9
<1>11. SpeedLimits(k) = Bounds(n, e, m, s, k)
  <2>1. Distance(0, k) = s[k] - s[0] /\ Distance(k, n) = s[n] - s[k] BY <1>8, <1>9
  <2>2. \A j \in 1..k : BlockAt(j).max + Distance(j, k) = m[j] + (s[k] - s[j])
    <3> TAKE j \in 1..k
    <3>1. j \in 0..(n - 1) /\ j \in 0..n /\ k \in j..n BY <1>1
    <3> HIDE DEF n, e, m, d
    <3> QED BY <1>6, <1>8, <3>1
  <2>3. \A j \in k..(n - 1) : BlockAt(j).max + Distance(k, j) = m[j] + (s[j] - s[k])
    <3> TAKE j \in k..(n - 1)
    <3>1. j \in 0..(n - 1) /\ j \in k..n BY <1>1
    <3> HIDE DEF n, e, m, d
    <3> QED BY <1>6, <1>8, <1>9, <3>1
  <2>4. {BlockAt(j).max + Distance(j, k) : j \in 1..k} = {m[j] + (s[k] - s[j]) : j \in 1..k}
    BY <2>2
  <2>5. {BlockAt(j).max + Distance(k, j) : j \in k..(n - 1)}
        = {m[j] + (s[j] - s[k]) : j \in k..(n - 1)}
    BY <2>3
  <2> HIDE DEF e, m, d
  <2> QED BY <1>10, <2>1, <2>4, <2>5 DEF SpeedLimits, Bounds
<1> HIDE DEF n, e, m, d
<1>12. k \in 1..(n - 1) BY DEF n
<1>13. e[k] \in Bounds(n, e, m, s, k) BY <1>2, <1>5, <1>6, <1>7, <1>8, <1>12, AtBounds
<1>14. \A limit \in Bounds(n, e, m, s, k) : e[k] <= limit
  BY <1>2, <1>5, <1>6, <1>8, <1>12, WithinBounds
<1> QED BY <1>10, <1>11, <1>13, <1>14

(* The look-ahead of the planner (planner.c:62-219) finds the best plan    *)
(* there is, although it neither goes over the blocks up to the planned    *)
(* one again nor lowers the ones that are entered as fast as they may be:  *)
(* whatever lines come, wherever the stepper is, and after any holds,      *)
(* resumes and flushes.                                                    *)
THEOREM PlansAreOptimal == Spec => []PlanIsOptimal
<1>1. Init => TypeOK /\ LinesInv /\ Speedy BY TypeStart, StartLines, SpeedyStart
<1>2. TypeOK /\ LinesInv /\ Speedy => PlanIsOptimal BY BestIsOptimal DEF LinesInv
<1> QED BY <1>1, <1>2, LinesStep, SpeedyStep, PTL DEF Spec

(* The machine can always brake as its plan says (planner.c, stepper.c):   *)
(* every block, from the one in execution on, is entered no faster than it *)
(* can be left at the speed the next one is entered at, the last one at    *)
(* rest, and no faster than its junction and its rates allow.              *)
THEOREM MachineCanBrake ==
  Spec => [](NoOverride /\ ~IsEmpty(plan) => Braked(plan, SpeedNow) /\ Limited(plan))
<1>1. Init => TypeOK /\ LinesInv /\ Speedy BY TypeStart, StartLines, SpeedyStart
<1>2. Speedy => (NoOverride /\ ~IsEmpty(plan) => Braked(plan, SpeedNow) /\ Limited(plan))
  BY DEF Speedy, SpeedInv, Planning
<1> QED BY <1>1, <1>2, LinesStep, SpeedyStep, PTL DEF Spec

-------------------------------------------------------------------------------
(* The speed of the machine is that of its profile                         *)

(* The first block is entered at the speed reached.                        *)
Synced == prep.loaded \/ IsEmpty(plan) \/ Current(plan).entry = prep.current

(* Where no block is begun the last one was left at the speed reached, and *)
(* unless a running machine decelerates, the next one is entered at it.    *)
Continuous ==
  /\ Fresh => prep.exit = prep.current
  /\ (hold /\ timer) \/ Synced

(* A hold's preparation ends at rest.                                      *)
Halted == endMotion => prep.current = 0 /\ Synced /\ pc = "poll"

(* The steppers stop once: a stop is pending only while they stand still,  *)
(* and not when there is nothing to execute or they are to be started.     *)
Awaits ==
  /\ state = "IDLE" \/ complete => ~timer /\ ~cycleStop
  /\ cycleStop => ~timer
  /\ wake => state = "CYCLE" /\ ~cycleStop /\ pc # "poll" /\ ~timer

(* What is prepared while they stand still starts from rest.               *)
Braking ==
  /\ ~timer /\ pc = "poll" => RingFull \/ prep.current = 0
  /\ hold /\ ~timer => pc = "poll" \/ (pc = "prep" /\ prep.current = 0)

SmoothInv == Continuous /\ Halted /\ Awaits /\ Braking
Smooth == NoOverride => SmoothInv

(* The last speed of an empty plan is 0.                                   *)
LEMMA Emptied ==
  ASSUME TypeOK, Lined, SpeedInv, Continuous, IsEmpty(plan)
  PROVE  ~prep.loaded /\ ~prep.recalculate /\ prep.current = 0
<1>1. ~prep.loaded /\ ~prep.recalculate BY FirstLined
<1>2. prep.exit <= 0 BY <1>1 DEF SpeedInv, Unloaded, Fresh
<1>3. prep.exit \in Nat BY FirstLined DEF Preps
<1>4. prep.exit = prep.current BY <1>1 DEF Continuous, Fresh
<1> QED BY <1>1, <1>2, <1>3, <1>4

(* At the end of a hold's profile the machine is at rest, and a machine    *)
(* that is at rest in a hold is at its end.                                *)
LEMMA HoldEnds ==
  ASSUME TypeOK, Lined, SpeedInv, prep.loaded
  PROVE  /\ Current(plan).mm = prep.end => prep.current = 0
         /\ hold /\ prep.current = 0 => ~(Current(plan).mm > prep.end)
<1>1. prep \in Preps /\ ~IsEmpty(plan) /\ Current(plan).mm > 0 /\ Current(plan).mm \in Nat
  BY FirstLined
<1>2. prep.current \in Nat /\ prep.exit \in Nat /\ prep.end \in Nat BY <1>1 DEF Preps
<1>3. /\ prep.end > 0 => prep.exit = 0
      /\ ~hold => prep.end = 0
      /\ hold => prep.current = prep.exit + (Current(plan).mm - prep.end)
  BY DEF SpeedInv, Profiled, Remaining
<1>4. ASSUME Current(plan).mm = prep.end PROVE prep.current = 0
  <2>1. prep.end > 0 BY <1>1, <1>4
  <2>2. hold BY <1>3, <2>1
  <2>3. prep.exit = 0 BY <1>3, <2>1
  <2>4. prep.current = 0 + (prep.end - prep.end) BY <1>3, <1>4, <2>2, <2>3
  <2> QED BY <1>2, <2>4
<1>5. ASSUME hold, prep.current = 0, Current(plan).mm > prep.end PROVE FALSE
  <2>1. 0 = prep.exit + (Current(plan).mm - prep.end) BY <1>3, <1>5
  <2> QED BY <1>1, <1>2, <1>5, <2>1
<1> QED BY <1>4, <1>5

(* Planning a line, and beginning and ending a hold, change no speed.      *)
LEMMA GoesOn ==
  ASSUME TypeOK, Lined, SpeedInv, Continuous, Host \/ FeedHold \/ CycleStop
  PROVE  /\ prep'.current = prep.current
         /\ Fresh' => prep'.exit = prep'.current
         /\ Synced => Synced'
<1>1. /\ plan \in Plans /\ prep \in Preps /\ Current(plan) = Nth(plan, 0)
      /\ prep.loaded \/ prep.recalculate => ~IsEmpty(plan)
      /\ Amount(plan) \in Nat /\ (~IsEmpty(plan) <=> Amount(plan) > 0)
  BY FirstLined
<1>2. ASSUME prep' = prep \/ prep' = StepperUpdated
      PROVE  /\ prep'.current = prep.current /\ (Fresh' => Fresh) /\ prep'.exit = prep.exit
             /\ prep' = StepperUpdated => ~prep'.loaded
  BY <1>1, <1>2 DEF StepperUpdated, Preps, Fresh
<1>3. SpeedNow = prep.current \/ ~Synced \/ IsEmpty(plan) BY <1>1, SpeedNowIs DEF Synced
<1>4. ASSUME prep' = prep \/ prep' = StepperUpdated, Synced => Synced'
      PROVE  /\ prep'.current = prep.current
             /\ Fresh' => prep'.exit = prep'.current
             /\ Synced => Synced'
  BY <1>2, <1>4 DEF Continuous
<1>5. ~slow /\ slow \in BOOLEAN /\ Limited(plan) /\ Planning BY Types DEF SpeedInv
<1>6. ~IsEmpty(plan) => Braked(plan, SpeedNow) BY <1>5 DEF Planning
<1>7. CASE Host
  <2>1. PICK length \in Lengths, rate \in Rates, junction \in Junctions :
          PlanLine(length, rate, junction)
    BY <1>7 DEF Host
  <2>2. CASE IsEmpty(plan)
    <3>1. prep' = prep /\ Nth(plan', 0).entry = 0 /\ Current(plan') = Nth(plan', 0)
      BY <1>5, <2>1, <2>2, FirstLine
    <3>2. prep.current = 0 BY <2>2, Emptied
    <3>3. Synced' BY <3>1, <3>2 DEF Synced
    <3> QED BY <1>4, <3>1, <3>3
  <2>3. CASE ~IsEmpty(plan)
    <3>1. /\ Len(lengths') \in 0..MaxLines /\ length \in Nat /\ rate \in Nat /\ junction \in Nat
      BY <2>1, PlanLineType, MotionAssumption
    <3>2. /\ ~IsFull(plan)
          /\ Recalculate(Buffered(plan, Len(lengths'), length, rate, junction, slow))
      BY <2>1 DEF PlanLine
    <3>3. /\ plan' \in Plans /\ ~IsEmpty(plan)'
          /\ \/ prep' = StepperUpdated /\ Nth(plan', 0).entry = SpeedNow
             \/ /\ prep' = prep /\ Nth(plan', 0).entry = Nth(plan, 0).entry
                /\ ExitSpeed(plan') = ExitSpeed(plan)
      BY <1>1, <1>5, <1>6, <2>3, <3>1, <3>2, LineReplanned
    <3>4. Current(plan') = Nth(plan', 0) BY <3>3, Numbered
    <3>5. CASE prep' = StepperUpdated /\ Nth(plan', 0).entry = SpeedNow
      <4>1. Synced => Synced' BY <1>2, <1>3, <2>3, <3>4, <3>5 DEF Synced
      <4> QED BY <1>4, <3>5, <4>1
    <3>6. CASE prep' = prep /\ Nth(plan', 0).entry = Nth(plan, 0).entry
      <4>1. Synced => Synced' BY <1>1, <2>3, <3>4, <3>6 DEF Synced
      <4> QED BY <1>4, <3>6, <4>1
    <3> QED BY <3>3, <3>5, <3>6
  <2> QED BY <2>2, <2>3
<1>8. ASSUME UNCHANGED <<plan, prep>> PROVE Synced => Synced'
  BY <1>8 DEF Synced
<1>9. CASE FeedHold
  <2>1. CASE state = "CYCLE"
    <3>1. plan' = AtCurrentSpeed(plan) /\ prep' = StepperUpdated BY <1>9, <2>1 DEF FeedHold
    <3>2. CASE prep.loaded
      <4>1. plan' = [plan EXCEPT !.blocks[plan.tail].entry = prep.current]
        BY <3>1, <3>2 DEF AtCurrentSpeed
      <4>2. prep.current \in Nat BY <1>1 DEF Preps
      <4>3. SpeedsOnly(plan, plan') /\ Nth(plan', 0).entry = prep.current
        BY <1>1, <4>1, <4>2, EntryIs
      <4>4. Current(plan') = Nth(plan', 0) BY <4>3, Numbered DEF SpeedsOnly
      <4>5. Synced' BY <1>2, <3>1, <4>3, <4>4 DEF Synced
      <4> QED BY <1>4, <3>1, <4>5
    <3>3. CASE ~prep.loaded
      <4>1. plan' = plan /\ prep' = prep BY <3>1, <3>3 DEF AtCurrentSpeed, StepperUpdated
      <4> QED BY <1>4, <1>8, <4>1
    <3> QED BY <3>2, <3>3
  <2>2. CASE state # "CYCLE"
    <3>1. UNCHANGED <<plan, prep>> BY <1>9, <2>2 DEF FeedHold
    <3> QED BY <1>4, <1>8, <3>1
  <2> QED BY <2>1, <2>2
<1>10. CASE CycleStop
  <2>1. CASE state = "HOLD"
    <3>1. Reinitialize(plan) BY <1>10, <2>1 DEF CycleStop
    <3>2. prep' = StepperUpdated BY <3>1 DEF Reinitialize
    <3>3. /\ plan' \in Plans /\ plan'.tail = plan.tail /\ plan'.head = plan.head
          /\ ~IsEmpty(plan) => Nth(plan', 0).entry = SpeedNow
      BY <1>1, <1>6, <3>1, Reinitialized
    <3>4. Current(plan') = Nth(plan', 0) /\ (IsEmpty(plan') <=> IsEmpty(plan))
      BY <3>3, Numbered DEF IsEmpty
    <3>5. Synced => Synced' BY <1>2, <1>3, <3>2, <3>3, <3>4 DEF Synced
    <3> QED BY <1>4, <3>2, <3>5
  <2>2. CASE state # "HOLD"
    <3>1. UNCHANGED <<plan, prep>> BY <1>10, <2>2 DEF CycleStop
    <3> QED BY <1>4, <1>8, <3>1
  <2> QED BY <2>1, <2>2
<1> QED BY <1>7, <1>9, <1>10

(* A step that leaves plan and preparation alone.                          *)
LEMMA SyncedSame ==
  ASSUME UNCHANGED <<plan, prep>>
  PROVE  (Synced' <=> Synced) /\ (Fresh' <=> Fresh)
BY DEF Synced, Fresh

(* The main program's operations at a poll that may plan anew.             *)
LEMMA SmoothPlans ==
  ASSUME TypeOK, Lined, SpeedInv, SmoothInv, Host \/ FeedHold \/ CycleStop
  PROVE  SmoothInv'
<1>1. /\ prep'.current = prep.current /\ (Fresh' => prep'.exit = prep'.current)
      /\ Synced => Synced'
  BY GoesOn DEF SmoothInv
<1>2. pc = "poll" /\ UNCHANGED <<pc, wake, timer, segHead, segTail>>
  BY DEF Host, PlanLine, FeedHold, CycleStop, stepperVars
<1>3. RingFull' = RingFull BY <1>2 DEF RingFull
<1>4. ~wake BY <1>2 DEF SmoothInv, Awaits
<1>5. Braking' BY <1>1, <1>2, <1>3 DEF SmoothInv, Braking
<1>6. CASE Host
  <2>1. UNCHANGED <<state, complete, hold, endMotion, cycleStop>>
    BY <1>6 DEF Host, PlanLine, sysVars
  <2>2. Continuous' /\ Halted' /\ Awaits'
    BY <1>1, <1>2, <1>4, <2>1 DEF SmoothInv, Continuous, Halted, Awaits
  <2> QED BY <1>5, <2>2 DEF SmoothInv
<1>7. CASE FeedHold
  <2>1. /\ state' = "HOLD" /\ cycleStop' = cycleStop
        /\ \/ state = "CYCLE" /\ hold' = TRUE /\ endMotion' = FALSE /\ complete' = complete
           \/ state = "IDLE" /\ UNCHANGED <<hold, endMotion>>
    BY <1>7 DEF FeedHold
  <2>2. Awaits' BY <1>2, <1>4, <2>1 DEF SmoothInv, Awaits
  <2>3. Continuous'
    <3>1. (hold /\ timer) \/ Synced BY DEF SmoothInv, Continuous
    <3>2. (hold' /\ timer') \/ Synced' BY <1>1, <1>2, <2>1, <3>1
    <3> QED BY <1>1, <3>2 DEF Continuous
  <2>4. Halted' BY <1>1, <1>2, <2>1 DEF SmoothInv, Halted
  <2> QED BY <1>5, <2>2, <2>3, <2>4 DEF SmoothInv
<1>8. CASE CycleStop
  <2>1. cycleStop /\ cycleStop' = FALSE /\ endMotion' = endMotion BY <1>8 DEF CycleStop
  <2>2. ~timer BY <2>1 DEF SmoothInv, Awaits
  <2>3. Awaits' BY <1>2, <1>4, <2>1, <2>2 DEF Awaits
  <2>4. Synced BY <2>2 DEF SmoothInv, Continuous
  <2>5. Continuous' BY <1>1, <2>4 DEF Continuous
  <2>6. Halted' BY <1>1, <1>2, <2>1 DEF SmoothInv, Halted
  <2> QED BY <1>5, <2>3, <2>5, <2>6 DEF SmoothInv
<1> QED BY <1>6, <1>7, <1>8

(* Starting a cycle, and the places of the segment generator that leave    *)
(* plan and profile alone.                                                 *)
LEMMA SmoothPasses ==
  ASSUME TypeOK, Lined, SpeedInv, SmoothInv, CycleStart \/ Prep \/ Filled \/ NoStep \/ Fill
  PROVE  SmoothInv'
<1>1. UNCHANGED <<plan, prep, segHead, segTail, cycleStop>>
  BY DEF CycleStart, Prep, Filled, NoStep, Fill, motionVars, stepperVars
<1>2. (Synced' <=> Synced) /\ (Fresh' <=> Fresh) BY <1>1, SyncedSame
<1>3. RingFull' = RingFull BY <1>1 DEF RingFull
<1>4. HoldsState BY DEF SpeedInv
<1>5. CASE CycleStart
  <2>1. /\ state = "IDLE" \/ complete
        /\ complete' = FALSE /\ hold' = FALSE /\ endMotion' = FALSE /\ timer' = timer
        /\ \/ state' = "CYCLE" /\ pc' = "prep" /\ wake' = TRUE
           \/ state' = "IDLE" /\ pc' = pc /\ wake' = wake
        /\ pc = "poll"
    BY <1>5 DEF CycleStart, stepperVars
  <2>2. ~timer /\ ~cycleStop BY <2>1 DEF SmoothInv, Awaits
  <2>3. Continuous' BY <1>1, <1>2, <2>2 DEF SmoothInv, Continuous
  <2>4. Halted' BY <2>1 DEF Halted
  <2>5. Awaits' BY <1>1, <2>1, <2>2 DEF SmoothInv, Awaits
  <2>6. Braking' BY <1>1, <1>3, <2>1, <2>2 DEF SmoothInv, Braking
  <2> QED BY <2>3, <2>4, <2>5, <2>6 DEF SmoothInv
<1>6. CASE Prep \/ Fill
  <2>1. UNCHANGED <<state, complete, hold, endMotion, wake, timer>>
        /\ (pc' = "prep" \/ pc' = "publish")
    BY <1>6 DEF Prep, Fill, sysVars, stepperVars
  <2>2. Continuous' BY <1>1, <1>2, <2>1 DEF SmoothInv, Continuous
  <2>3. ~endMotion
    <3>1. CASE Prep BY <3>1 DEF Prep
    <3>2. CASE Fill
      <4>1. pc # "poll" BY <3>2 DEF Fill
      <4> QED BY <4>1 DEF SmoothInv, Halted
    <3> QED BY <1>6, <3>1, <3>2
  <2>4. Halted' BY <2>1, <2>3 DEF Halted
  <2>5. Awaits' BY <1>1, <2>1 DEF SmoothInv, Awaits
  <2>6. Braking'
    <3>1. ~(~timer' /\ pc' = "poll") BY <2>1
    <3>2. hold' /\ ~timer' => pc' = "prep" /\ prep'.current = 0
      <4> SUFFICES ASSUME hold, ~timer PROVE pc' = "prep" /\ prep.current = 0 BY <1>1, <2>1
      <4>1. CASE Prep
        <5>1. pc = "poll" /\ ~RingFull /\ pc' = "prep" BY <4>1 DEF Prep
        <5> QED BY <5>1 DEF SmoothInv, Braking
      <4>2. CASE Fill
        <5>1. pc = "prep" /\ prep.loaded /\ Current(plan).mm > prep.end BY <4>2 DEF Fill
        <5>2. prep.current = 0 BY <5>1 DEF SmoothInv, Braking
        <5> QED BY <5>1, <5>2, HoldEnds
      <4> QED BY <1>6, <4>1, <4>2
    <3> QED BY <3>1, <3>2 DEF Braking
  <2> QED BY <2>2, <2>4, <2>5, <2>6 DEF SmoothInv
<1>7. CASE Filled \/ NoStep
  <2>1. /\ pc = "prep" /\ pc' = "poll" /\ wake' = FALSE /\ timer' = (timer \/ wake)
        /\ UNCHANGED <<state, complete, hold>>
    BY <1>7 DEF Filled, NoStep, Bails, Leave, sysVars
  <2>2. /\ timer \in BOOLEAN /\ wake \in BOOLEAN BY Types
  <2>3. timer' <=> timer \/ wake BY <2>1, <2>2
  <2>4. wake => state = "CYCLE" /\ ~cycleStop /\ ~complete
    BY <1>4 DEF SmoothInv, Awaits, HoldsState
  <2>5. Awaits'
    <3>1. (state = "IDLE" \/ complete => ~timer /\ ~cycleStop) /\ (cycleStop => ~timer)
      BY DEF SmoothInv, Awaits
    <3>2. (state' = "IDLE" \/ complete' => ~timer' /\ ~cycleStop') /\ (cycleStop' => ~timer')
      BY <1>1, <2>1, <2>3, <2>4, <3>1
    <3> QED BY <2>1, <3>2 DEF Awaits
  <2>6. (hold /\ timer) \/ Synced BY DEF SmoothInv, Continuous
  <2>7. (hold' /\ timer') \/ Synced' BY <1>2, <2>1, <2>3, <2>6
  <2>8. Continuous' BY <1>1, <1>2, <2>7 DEF SmoothInv, Continuous
  <2>9. CASE Filled
    <3>1. /\ RingFull \/ (~prep.loaded /\ IsEmpty(plan))
          /\ endMotion' = endMotion
      BY <2>9 DEF Filled, sysVars
    <3>2. Halted' BY <2>1, <3>1 DEF SmoothInv, Halted
    <3>3. RingFull \/ prep.current = 0 BY <3>1, Emptied DEF SmoothInv
    <3>4. Braking' BY <1>1, <1>3, <2>1, <3>3 DEF Braking
    <3> QED BY <2>5, <2>8, <3>2, <3>4 DEF SmoothInv
  <2>10. CASE NoStep
    <3>1. prep.loaded /\ Current(plan).mm = prep.end BY <2>10 DEF NoStep
    <3>2. prep.current = 0 BY <3>1, HoldEnds
    <3>3. Synced BY <3>1 DEF Synced
    <3>4. Halted' BY <1>1, <1>2, <2>1, <3>2, <3>3 DEF Halted
    <3>5. Braking' BY <1>1, <2>1, <3>2 DEF Braking
    <3> QED BY <2>5, <2>8, <3>4, <3>5 DEF SmoothInv
  <2> QED BY <1>7, <2>9, <2>10
<1> QED BY <1>5, <1>6, <1>7

(* The interrupt, where the main program does not let the ring run dry.    *)
LEMMA SmoothInterrupts ==
  ASSUME ~MayStarve, TypeOK, Lined, SpeedInv, SmoothInv, Step \/ Shutdown
  PROVE  SmoothInv'
<1>1. timer /\ UNCHANGED <<plan, prep, state, complete, hold, endMotion, pc, wake>>
  BY DEF Step, Shutdown, sysVars, motionVars
<1>2. (Synced' <=> Synced) /\ (Fresh' <=> Fresh) BY <1>1, SyncedSame
<1>3. Halted' BY <1>1, <1>2 DEF SmoothInv, Halted
<1>4. ~wake BY <1>1 DEF SmoothInv, Awaits
<1>5. CASE Step
  <2>1. UNCHANGED <<timer, cycleStop>> BY <1>5 DEF Step
  <2>2. Continuous' BY <1>1, <1>2, <2>1 DEF SmoothInv, Continuous
  <2>3. Awaits' BY <1>1, <2>1 DEF SmoothInv, Awaits
  <2>4. Braking' BY <1>1, <2>1 DEF Braking
  <2> QED BY <1>3, <2>2, <2>3, <2>4 DEF SmoothInv
<1>6. CASE Shutdown
  <2>1. timer' = FALSE /\ cycleStop' = TRUE /\ Fed BY <1>6 DEF Shutdown
  <2>2. pc = "poll" /\ prep.current = 0 /\ Synced
    <3>1. CASE endMotion BY <2>1, <3>1 DEF SmoothInv, Halted
    <3>2. CASE IsEmpty(plan)
      <4>1. prep.current = 0 BY <3>2, Emptied DEF SmoothInv
      <4> QED BY <2>1, <3>2, <4>1 DEF Fed, Synced
    <3> QED BY <2>1, <3>1, <3>2 DEF Fed
  <2>3. Continuous' BY <1>1, <1>2, <2>2 DEF SmoothInv, Continuous
  <2>4. Awaits' BY <1>1, <1>4, <2>1 DEF SmoothInv, Awaits
  <2>5. Braking' BY <1>1, <2>1, <2>2 DEF Braking
  <2> QED BY <1>3, <2>3, <2>4, <2>5 DEF SmoothInv
<1> QED BY <1>5, <1>6

(* A loaded block is entered at the speed reached.                         *)
LEMMA SmoothLoad ==
  ASSUME TypeOK, Lined, SpeedInv, SmoothInv, Load
  PROVE  SmoothInv' /\ prep'.current = prep.current
<1>1. /\ ~prep.loaded /\ ~IsEmpty(plan) /\ pc = "prep"
      /\ prep'.loaded = TRUE
      /\ prep'.current = IF prep.recalculate THEN prep.current
                         ELSE IF Forced THEN prep.exit ELSE Current(plan).entry
      /\ UNCHANGED <<state, complete, hold, endMotion, pc, wake, timer, cycleStop>>
  BY DEF Load, sysVars, stepperVars
<1>2. prep'.current = prep.current
  <2>1. CASE prep.recalculate BY <1>1, <2>1
  <2>2. CASE ~prep.recalculate /\ hold
    <3>1. prep.exit = prep.current BY <1>1, <2>2 DEF SmoothInv, Continuous, Fresh
    <3> QED BY <1>1, <2>2, <3>1 DEF Forced
  <2>3. CASE ~prep.recalculate /\ ~hold
    <3>1. ~Forced BY <2>3 DEF Forced, SpeedInv, Unloaded
    <3>2. Current(plan).entry = prep.current
      BY <1>1, <2>3 DEF SmoothInv, Continuous, Synced
    <3> QED BY <1>1, <2>3, <3>1, <3>2
  <2> QED BY <2>1, <2>2, <2>3
<1>3. Continuous' BY <1>1 DEF Continuous, Fresh, Synced
<1>4. Halted' BY <1>1 DEF SmoothInv, Halted
<1>5. Awaits' BY <1>1 DEF SmoothInv, Awaits
<1>6. Braking' BY <1>1, <1>2 DEF SmoothInv, Braking
<1> QED BY <1>2, <1>3, <1>4, <1>5, <1>6 DEF SmoothInv

(* A published segment changes the speed by no more than its steps, and a  *)
(* block is left at the speed at which the next one is entered.            *)
LEMMA SmoothPublish ==
  ASSUME TypeOK, LinesInv, SpeedInv, SmoothInv, Publish
  PROVE  /\ SmoothInv'
         /\ prep'.current - prep.current <= segments[segHead].n
         /\ prep.current - prep'.current <= segments[segHead].n
<1> DEFINE n == segments[segHead].n
           left == Current(plan).mm - n
           r == left - prep.end
           w == Towards(prep.current, prep.exit, prep.top, n, r)
<1>1. /\ n \in Nat \ {0} /\ left \in Nat /\ r \in Nat /\ prep.end \in Nat
      /\ prep.current \in Nat /\ prep.exit \in Nat /\ prep.top \in Nat
      /\ prep.current <= prep.top /\ prep.exit <= prep.top
      /\ prep.current <= prep.exit + (n + r) /\ prep.exit <= prep.current + (n + r)
      /\ prep.loaded /\ ~prep.recalculate /\ ~IsEmpty(plan)
      /\ plan' = IF left > 0 THEN [plan EXCEPT !.blocks[plan.tail].mm = left]
                 ELSE plan_discard_current_block([plan EXCEPT !.blocks[plan.tail].mm = left])
      /\ (left > 0 => prep'.loaded) /\ (left = 0 => ~prep'.loaded) /\ ~prep'.recalculate
      /\ prep'.current = w /\ prep'.exit = prep.exit
      /\ UNCHANGED <<state, complete, hold>>
  BY Published
<1>2. /\ w \in Nat /\ w - prep.current <= n /\ prep.current - w <= n
      /\ w <= prep.exit + r
      /\ r = 0 => w = prep.exit
  <2> HIDE DEF n, left, r
  <2> QED BY <1>1, TowardsIs
<1>3. /\ pc = "publish" /\ UNCHANGED cycleStop
      /\ \/ pc' = "prep" /\ UNCHANGED <<endMotion, wake, timer>>
         \/ left = prep.end /\ left > 0 /\ endMotion' = TRUE /\ Leave
  BY DEF Publish, Bails
<1>4. ~endMotion BY <1>3 DEF SmoothInv, Halted
<1>5. HoldsState BY DEF SpeedInv
<1>6. hold => timer BY <1>3 DEF SmoothInv, Braking
<1>7. timer' <=> timer \/ (wake /\ pc' = "poll")
  <2>1. timer \in BOOLEAN /\ wake \in BOOLEAN BY Types
  <2>2. CASE pc' = "prep" BY <1>3, <2>1, <2>2 DEF Leave
  <2>3. CASE Leave
    <3>1. pc' = "poll" /\ timer' = (timer \/ wake) BY <2>3 DEF Leave
    <3> QED BY <2>1, <3>1
  <2> QED BY <1>3, <2>2, <2>3
<1>8. hold' => timer' BY <1>1, <1>6, <1>7
<1> HIDE DEF n, left, r, w
<1>9. Synced' \/ hold'
  <2> SUFFICES ASSUME ~hold, ~prep'.loaded, ~IsEmpty(plan')
               PROVE  Current(plan').entry = prep'.current
    BY <1>1 DEF Synced
  <2>1. left = 0 BY <1>1
  <2>2. SpeedInv' BY SpeedyPublish
  <2>3. prep.end = 0 /\ prep.exit = ExitSpeed(plan) BY <1>1 DEF SpeedInv, Profiled
  <2>4. r = 0 BY <2>1, <2>3 DEF r
  <2>5. prep'.current = ExitSpeed(plan) BY <1>1, <1>2, <2>3, <2>4
  <2>6. plan \in Plans /\ Amount(plan) > 0 /\ Amount(plan) \in Nat
    BY <1>1, FirstLined DEF LinesInv
  <2> DEFINE rem == [plan EXCEPT !.blocks[plan.tail].mm = left]
  <2>7. /\ rem \in Plans /\ Amount(rem) = Amount(plan)
        /\ \A k \in 1..(BlockBufferSize - 1) : Nth(rem, k) = Nth(plan, k)
    BY <1>1, <2>6, WayIs
  <2>8. plan' = plan_discard_current_block(rem) BY <1>1, <2>1
  <2> HIDE DEF rem
  <2>9. /\ plan' \in Plans /\ Amount(plan') = Amount(plan) - 1
        /\ \A k \in 0..(BlockBufferSize - 2) : Nth(plan', k) = Nth(rem, k + 1)
    BY <2>6, <2>7, <2>8, DiscardIs
  <2>10. Current(plan') = Nth(plan', 0) /\ Amount(plan') # 0 BY <2>9, Numbered
  <2>11. 0 \in 0..(BlockBufferSize - 2) /\ 0 + 1 = 1 /\ 1 \in 1..(BlockBufferSize - 1)
    BY PlannerAssumption
  <2>12. Current(plan') = Nth(plan, 1) BY <2>7, <2>9, <2>10, <2>11
  <2>13. ExitSpeed(plan) = Nth(plan, 1).entry
    <3>1. Amount(plan) # 1 BY <2>6, <2>9, <2>10
    <3> QED BY <2>6, <3>1, ExitIs
  <2> QED BY <2>5, <2>12, <2>13
<1>10. Fresh' => prep'.exit = prep'.current
  <2> SUFFICES ASSUME ~prep'.loaded PROVE w = prep.exit BY <1>1 DEF Fresh
  <2>1. left = 0 BY <1>1
  <2>2. r = 0
    <3>1. 0 - prep.end \in Nat BY <1>1, <2>1 DEF r
    <3> QED BY <1>1, <2>1, <3>1 DEF r
  <2> QED BY <1>2, <2>2
<1>11. Continuous' BY <1>8, <1>9, <1>10 DEF Continuous
<1>12. pc' = "poll" => prep'.current = 0 /\ prep'.loaded
  <2> SUFFICES ASSUME pc' = "poll" PROVE w = 0 /\ prep'.loaded BY <1>1
  <2>1. left = prep.end /\ left > 0 BY <1>3
  <2>2. prep.exit = 0 BY <1>1, <2>1 DEF SpeedInv, Profiled
  <2>3. r = 0 BY <1>1, <2>1 DEF r
  <2>4. w = 0 BY <1>2, <2>2, <2>3
  <2>5. prep'.loaded BY <1>1, <2>1
  <2> QED BY <2>4, <2>5
<1>13. Halted'
  <2>1. endMotion' => pc' = "poll" BY <1>3, <1>4 DEF Leave
  <2> QED BY <1>12, <2>1 DEF Halted, Synced
<1>14. Awaits'
  <2>1. wake' => pc' = "prep" /\ wake /\ timer' = timer BY <1>3 DEF Leave
  <2>2. wake => state = "CYCLE" /\ ~cycleStop /\ ~timer /\ ~complete
    BY <1>5 DEF SmoothInv, Awaits, HoldsState
  <2>3. (state = "IDLE" \/ complete => ~timer /\ ~cycleStop) /\ (cycleStop => ~timer)
    BY DEF SmoothInv, Awaits
  <2>4. (state' = "IDLE" \/ complete' => ~timer' /\ ~cycleStop') /\ (cycleStop' => ~timer')
    BY <1>1, <1>3, <1>7, <2>2, <2>3
  <2>5. wake' => state' = "CYCLE" /\ ~cycleStop' /\ pc' # "poll" /\ ~timer'
    BY <1>1, <1>3, <2>1, <2>2
  <2> QED BY <2>4, <2>5 DEF Awaits
<1>15. Braking' BY <1>8, <1>12 DEF Braking
<1>16. prep'.current - prep.current <= n /\ prep.current - prep'.current <= n BY <1>1, <1>2
<1> QED BY <1>11, <1>13, <1>14, <1>15, <1>16 DEF SmoothInv, n

(* A flush leaves the machine at rest.                                     *)
LEMMA SmoothFlush ==
  ASSUME SmoothInv, Flush
  PROVE  SmoothInv'
<1>1. /\ pc = "poll" /\ plan' = plan_reset /\ prep' = NoPrep /\ timer' = FALSE /\ cycleStop' = FALSE
      /\ hold' = FALSE /\ endMotion' = FALSE /\ UNCHANGED <<pc, wake>>
  BY DEF Flush
<1>2. IsEmpty(plan') BY <1>1 DEF plan_reset, IsEmpty
<1>3. prep'.exit = 0 /\ prep'.current = 0 BY <1>1 DEF NoPrep
<1>4. ~wake BY <1>1 DEF SmoothInv, Awaits
<1>5. Continuous' BY <1>2, <1>3 DEF Continuous, Synced
<1>6. Halted' /\ Awaits' /\ Braking' BY <1>1, <1>3, <1>4 DEF Halted, Awaits, Braking
<1> QED BY <1>5, <1>6 DEF SmoothInv

(* Every step keeps the invariant, and changes the speed smoothly.         *)
LEMMA SmoothStep ==
  ASSUME ~MayStarve
  PROVE  TypeOK /\ LinesInv /\ Speedy /\ Smooth /\ [Next]_vars => Smooth'
<1> SUFFICES ASSUME TypeOK, LinesInv, Speedy, Smooth, [Next]_vars, NoOverride' PROVE SmoothInv'
  BY DEF Smooth
<1>1. Lined BY DEF LinesInv
<1>2. ~Override /\ SpeedInv /\ SmoothInv BY NotOverridden DEF Speedy, Smooth
<1>3. CASE Host \/ FeedHold \/ CycleStop BY <1>1, <1>2, <1>3, SmoothPlans
<1>4. CASE CycleStart \/ Prep \/ Filled \/ NoStep \/ Fill BY <1>1, <1>2, <1>4, SmoothPasses
<1>5. CASE Step \/ Shutdown BY <1>1, <1>2, <1>5, SmoothInterrupts
<1>6. CASE Load BY <1>1, <1>2, <1>6, SmoothLoad
<1>7. CASE Publish BY <1>2, <1>7, SmoothPublish
<1>8. CASE Flush BY <1>2, <1>8, SmoothFlush
<1>9. CASE UNCHANGED vars
  <2>1. UNCHANGED <<plan, prep, state, complete, hold, endMotion, pc, wake, timer, cycleStop,
                    segHead, segTail>>
    BY <1>9 DEF vars, sysVars, motionVars, stepperVars
  <2>2. (Synced' <=> Synced) /\ (Fresh' <=> Fresh) BY <2>1, SyncedSame
  <2>3. RingFull' = RingFull BY <2>1 DEF RingFull
  <2> QED BY <1>2, <2>1, <2>2, <2>3 DEF SmoothInv, Continuous, Halted, Awaits, Braking
<1> QED BY <1>2, <1>3, <1>4, <1>5, <1>6, <1>7, <1>8, <1>9 DEF Next, Generate, Interrupt, Operate

(* It holds at first.                                                      *)
LEMMA SmoothStart ==
  Init => Smooth
<1> SUFFICES ASSUME Init PROVE SmoothInv BY DEF Smooth
<1>1. /\ plan = plan_reset /\ prep = NoPrep /\ state = "IDLE" /\ hold = FALSE
      /\ endMotion = FALSE /\ wake = FALSE /\ timer = FALSE /\ cycleStop = FALSE
  BY DEF Init
<1>2. IsEmpty(plan) /\ prep.exit = 0 /\ prep.current = 0
  BY <1>1 DEF plan_reset, IsEmpty, NoPrep
<1>3. Continuous BY <1>2 DEF Continuous, Synced
<1>4. Halted /\ Awaits /\ Braking BY <1>1, <1>2 DEF Halted, Awaits, Braking
<1> QED BY <1>3, <1>4 DEF SmoothInv

(* What a step does to the speed.                                          *)
LEMMA SpeedStep ==
  ASSUME TypeOK, LinesInv, Speedy, Smooth, [Next]_vars
  PROVE  [NoOverride /\ ~Cleared =>
            IF pc = "publish"
            THEN /\ prep'.current - prep.current <= segments[segHead].n
                 /\ prep.current - prep'.current <= segments[segHead].n
            ELSE prep'.current = prep.current]_vars
<1> SUFFICES ASSUME NoOverride, ~Cleared, Next
             PROVE  IF pc = "publish"
                    THEN /\ prep'.current - prep.current <= segments[segHead].n
                         /\ prep.current - prep'.current <= segments[segHead].n
                    ELSE prep'.current = prep.current
  OBVIOUS
<1>1. Lined /\ SpeedInv /\ SmoothInv BY DEF LinesInv, Speedy, Smooth
<1>2. prep \in Preps /\ segments[segHead].n \in Nat /\ prep.current \in Nat
  <2>1. /\ prep \in Preps /\ segHead \in SegmentSlots
        /\ segments \in [SegmentSlots -> [n : Nat, block : BlockSlots]]
    BY Types
  <2> QED BY <2>1 DEF Preps
<1>3. ASSUME prep'.current = prep.current
      PROVE  IF pc = "publish"
             THEN /\ prep'.current - prep.current <= segments[segHead].n
                  /\ prep.current - prep'.current <= segments[segHead].n
             ELSE prep'.current = prep.current
  BY <1>2, <1>3
<1>4. CASE Host \/ FeedHold \/ CycleStop
  <2>1. prep'.current = prep.current BY <1>1, <1>4, GoesOn DEF SmoothInv
  <2> QED BY <1>3, <2>1
<1>5. CASE CycleStart \/ Prep \/ Filled \/ NoStep \/ Fill \/ Step \/ Shutdown
  <2>1. prep' = prep
    BY <1>5 DEF CycleStart, Prep, Filled, NoStep, Fill, Step, Shutdown, motionVars
  <2> QED BY <1>3, <2>1
<1>6. CASE Load
  <2>1. prep'.current = prep.current BY <1>1, <1>6, SmoothLoad
  <2> QED BY <1>3, <2>1
<1>7. CASE Publish
  <2>1. pc = "publish" BY <1>7 DEF Publish
  <2> QED BY <1>1, <1>7, <2>1, SmoothPublish
<1>8. CASE Override
  <2>1. prep' = StepperUpdated BY <1>8 DEF Override, Reinitialize
  <2>2. prep'.current = prep.current BY <1>2, <2>1 DEF StepperUpdated, Preps
  <2> QED BY <1>3, <2>2
<1>9. CASE Flush BY <1>9 DEF Flush, Cleared
<1> QED BY <1>4, <1>5, <1>6, <1>7, <1>8, <1>9 DEF Next, Generate, Interrupt, Operate

(* The machine never accelerates or brakes harder than it can              *)
(* (stepper.c:st_prep_buffer): a segment changes the squared speed by no   *)
(* more than its steps, and a change of block, a new plan, a hold or a     *)
(* resume changes nothing, as long as the main program refills the ring in *)
(* time.                                                                   *)
THEOREM SpeedChangesSmoothly ==
  ASSUME ~MayStarve
  PROVE  Spec => SpeedIsSmooth
<1>1. Init => TypeOK /\ LinesInv /\ Speedy /\ Smooth
  BY TypeStart, StartLines, SpeedyStart, SmoothStart
<1>2. TypeOK /\ LinesInv /\ Speedy /\ Smooth /\ [Next]_vars => Smooth' BY SmoothStep
<1>3. TypeOK /\ LinesInv /\ Speedy /\ Smooth /\ [Next]_vars
      => [NoOverride /\ ~Cleared =>
            IF pc = "publish"
            THEN /\ prep'.current - prep.current <= segments[segHead].n
                 /\ prep.current - prep'.current <= segments[segHead].n
            ELSE prep'.current = prep.current]_vars
  BY SpeedStep
<1> QED BY <1>1, <1>2, <1>3, LinesStep, SpeedyStep, PTL DEF Spec, SpeedIsSmooth

(* A machine at rest starts from rest (stepper.c, planner.c): after a stop *)
(* or a completed hold nothing is left of the speed that was planned for   *)
(* the first block, as long as the main program refills the ring in time.  *)
THEOREM MachineStartsFromRest ==
  ASSUME ~MayStarve
  PROVE  Spec => []StartsFromRest
<1>1. Init => TypeOK /\ LinesInv /\ Speedy /\ Smooth
  BY TypeStart, StartLines, SpeedyStart, SmoothStart
<1>2. TypeOK /\ LinesInv /\ Speedy /\ Smooth /\ [Next]_vars => Smooth' BY SmoothStep
<1>3. TypeOK /\ LinesInv /\ Speedy /\ Smooth => StartsFromRest
  <2> SUFFICES ASSUME TypeOK, LinesInv, Speedy, Smooth, NoOverride, ~timer, RingEmpty, pc = "poll",
                      ~IsEmpty(plan)
               PROVE  SpeedNow = 0
    BY DEF StartsFromRest
  <2>1. SmoothInv BY DEF Smooth
  <2>2. ~RingFull
    <3>1. segHead \in SegmentSlots /\ segTail \in SegmentSlots BY Types
    <3>2. Held = 0 BY <3>1, HeldIs
    <3>3. SegmentBufferSize - 1 # 0 BY MotionAssumption
    <3> QED BY <3>1, <3>2, <3>3, HeldIs
  <2>3. prep.current = 0 BY <2>1, <2>2 DEF SmoothInv, Braking
  <2>4. Synced BY <2>1 DEF SmoothInv, Continuous
  <2>5. Current(plan) = Nth(plan, 0) BY FirstLined DEF LinesInv
  <2> QED BY <2>3, <2>4, <2>5, SpeedNowIs DEF Synced
<1> QED BY <1>1, <1>2, <1>3, LinesStep, SpeedyStep, PTL DEF Spec
===============================================================================
