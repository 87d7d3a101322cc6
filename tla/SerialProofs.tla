---------------------------- MODULE SerialProofs ----------------------------
(***************************************************************************)
(* Theorems about the serial link: its two rings are first-in first-out    *)
(* buffers although neither side takes a lock, and a host that counts      *)
(* characters loses none, sees every line answered once, and has its lines *)
(* executed whole, whatever resets come in between.                        *)
(*                                                                         *)
(* ~Stalls, where it is assumed, says that the main program enables the    *)
(* transmit interrupt before two bytes are sent. A stepper interrupt may   *)
(* hold it up for longer; then TxIsFifo is false.                          *)
(***************************************************************************)
EXTENDS Serial, Integers, TLAPS, SequenceTheorems, FiniteSetTheorems

(* The arithmetic of a ring.                                               *)
LEMMA Wraps ==
  ASSUME NEW n \in Nat \ {0}, NEW x \in 0..(n - 1)
  PROVE  x % n = x /\ (x + n) % n = x
BY Z3

IsRing(S, size, buffer, head, tail) ==
  /\ size \in Nat \ {0} /\ buffer \in [0..size -> S]
  /\ head \in 0..size /\ tail \in 0..size

Slot(tail, i, size) == IF tail + i - 1 > size THEN tail + i - 2 - size ELSE tail + i - 1

LEMMA SlotOf ==
  ASSUME NEW size \in Nat \ {0}, NEW tail \in 0..size, NEW i \in 1..(size + 1)
  PROVE  (tail + i - 1) % (size + 1) = Slot(tail, i, size) /\ Slot(tail, i, size) \in 0..size
<1>1. CASE tail + i - 1 > size
  <2>1. tail + i - 2 - size \in 0..((size + 1) - 1) BY <1>1
  <2>2. ((tail + i - 2 - size) + (size + 1)) % (size + 1) = tail + i - 2 - size
    BY <2>1, Wraps
  <2>3. (tail + i - 2 - size) + (size + 1) = tail + i - 1 OBVIOUS
  <2> QED BY <1>1, <2>1, <2>2, <2>3 DEF Slot
<1>2. CASE tail + i - 1 <= size
  <2>1. tail + i - 1 \in 0..((size + 1) - 1) BY <1>2
  <2>2. (tail + i - 1) % (size + 1) = tail + i - 1 BY <2>1, Wraps
  <2> QED BY <1>2, <2>1, <2>2 DEF Slot
<1> QED BY <1>1, <1>2

LEMMA UsedSlots ==
  ASSUME NEW size \in Nat \ {0}, NEW head \in 0..size, NEW tail \in 0..size
  PROVE  /\ Used(head, tail, size) \in 0..size
         /\ Used(head, tail, size) = 0 <=> head = tail
         /\ Used(head, tail, size) = size <=> NextIndex(head, size) = tail
         /\ NextIndex(head, size) # tail =>
              Used(NextIndex(head, size), tail, size) = Used(head, tail, size) + 1
         /\ head # tail =>
              Used(head, NextIndex(tail, size), size) = Used(head, tail, size) - 1
         /\ NextIndex(head, size) \in 0..size
         /\ Slot(tail, Used(head, tail, size) + 1, size) = head
         /\ Slot(tail, 1, size) = tail
BY DEF Used, NextIndex, Slot

LEMMA ContentIs ==
  ASSUME NEW S, NEW size, NEW buffer, NEW head, NEW tail, IsRing(S, size, buffer, head, tail)
  PROVE  /\ Content(buffer, head, tail, size) \in Seq(S)
         /\ Len(Content(buffer, head, tail, size)) = Used(head, tail, size)
         /\ \A i \in 1..Used(head, tail, size) :
              Content(buffer, head, tail, size)[i] = buffer[Slot(tail, i, size)]
<1> DEFINE c == Content(buffer, head, tail, size)  n == Used(head, tail, size)
<1>1. size \in Nat \ {0} /\ tail \in 0..size /\ n \in 0..size BY UsedSlots DEF IsRing
<1>2. ASSUME NEW i \in 1..n
      PROVE  (tail + i - 1) % (size + 1) = Slot(tail, i, size) /\ Slot(tail, i, size) \in 0..size
  <2>1. i \in 1..(size + 1) BY <1>1
  <2> QED BY <1>1, <2>1, SlotOf
<1>3. c = [i \in 1..n |-> buffer[Slot(tail, i, size)]] BY <1>2 DEF Content
<1>4. c \in [1..n -> S] BY <1>2, <1>3 DEF IsRing
<1>5. c \in Seq(S) /\ Len(c) = n BY <1>1, <1>4
<1> QED BY <1>3, <1>5

(* What is written in the slot at the head appears at the end as the head  *)
(* moves on, and not before.                                               *)
LEMMA RingPut ==
  ASSUME NEW S, NEW size, NEW buffer, NEW head, NEW tail, IsRing(S, size, buffer, head, tail),
         NEW x \in S, NEW b, IsRing(S, size, b, head, tail), b[head] = x,
         \A j \in 0..size : j # head => b[j] = buffer[j],
         NEW h, h = NextIndex(head, size)
  PROVE  /\ Content(b, head, tail, size) = Content(buffer, head, tail, size)
         /\ h # tail => Content(b, h, tail, size) = Append(Content(buffer, head, tail, size), x)
<1> DEFINE n == Used(head, tail, size)
           c == Content(buffer, head, tail, size)
<1>1. /\ n \in 0..size /\ size \in Nat \ {0} /\ head \in 0..size /\ tail \in 0..size
      /\ h \in 0..size /\ buffer \in [0..size -> S]
  BY UsedSlots DEF IsRing
<1>2. b \in [0..size -> S] /\ b[head] = x /\ \A j \in 0..size : j # head => b[j] = buffer[j]
  BY DEF IsRing
<1>3. IsRing(S, size, b, head, tail) /\ IsRing(S, size, b, h, tail)
  BY <1>1, <1>2 DEF IsRing
<1>4. \A i \in 1..n : Slot(tail, i, size) # head /\ Slot(tail, i, size) \in 0..size
  BY <1>1 DEF Used, Slot
<1>5. \A i \in 1..n : b[Slot(tail, i, size)] = buffer[Slot(tail, i, size)]
  BY <1>2, <1>4
<1>6. c \in Seq(S) /\ Len(c) = n /\ \A i \in 1..n : c[i] = buffer[Slot(tail, i, size)]
  BY ContentIs
<1>7. Content(b, head, tail, size) = c
  <2> DEFINE d == Content(b, head, tail, size)
  <2>1. d \in Seq(S) /\ Len(d) = n /\ \A i \in 1..n : d[i] = b[Slot(tail, i, size)]
    BY <1>3, ContentIs
  <2>2. \A i \in 1..n : d[i] = c[i] BY <1>5, <1>6, <2>1
  <2> HIDE DEF c, d, n
  <2>3. d = c BY <1>6, <2>1, <2>2, SeqEqual
  <2> QED BY <2>3 DEF d
<1>8. ASSUME h # tail
      PROVE  Content(b, h, tail, size) = Append(c, x)
  <2> DEFINE d == Content(b, h, tail, size)
  <2>1. Used(h, tail, size) = n + 1 BY <1>1, <1>8, UsedSlots
  <2>2. d \in Seq(S) /\ Len(d) = n + 1 /\ \A i \in 1..(n + 1) : d[i] = b[Slot(tail, i, size)]
    BY <1>3, <2>1, ContentIs
  <2>3. Slot(tail, n + 1, size) = head BY <1>1, UsedSlots
  <2> HIDE DEF c, d, n
  <2>4. d[n + 1] = x BY <1>1, <1>2, <2>2, <2>3
  <2>5. /\ Append(c, x) \in Seq(S) /\ Len(Append(c, x)) = n + 1 /\ Append(c, x)[n + 1] = x
        /\ \A i \in 1..n : Append(c, x)[i] = c[i]
    BY <1>6
  <2>6. \A i \in 1..n : d[i] = c[i] BY <1>1, <1>5, <1>6, <2>2
  <2>7. \A i \in 1..(n + 1) : d[i] = Append(c, x)[i] BY <1>1, <2>4, <2>5, <2>6
  <2>8. d = Append(c, x) BY <2>2, <2>5, <2>7, SeqEqual
  <2> QED BY <2>8 DEF d
<1> QED BY <1>3, <1>7, <1>8

(* The oldest item is in the slot at the tail; as the tail moves on it is  *)
(* gone.                                                                   *)
LEMMA RingHead ==
  ASSUME NEW S, NEW size, NEW buffer, NEW head, NEW tail, IsRing(S, size, buffer, head, tail),
         head # tail
  PROVE  /\ Content(buffer, head, tail, size) # <<>>
         /\ Head(Content(buffer, head, tail, size)) = buffer[tail]
<1> DEFINE n == Used(head, tail, size)  c == Content(buffer, head, tail, size)
<1>0. size \in Nat \ {0} /\ head \in 0..size /\ tail \in 0..size BY DEF IsRing
<1>1. n \in 1..size BY <1>0, UsedSlots
<1>2. c \in Seq(S) /\ Len(c) = n /\ \A i \in 1..n : c[i] = buffer[Slot(tail, i, size)]
  BY ContentIs
<1>3. Slot(tail, 1, size) = tail BY <1>0 DEF Slot
<1> QED BY <1>1, <1>2, <1>3

LEMMA RingTake ==
  ASSUME NEW S, NEW size, NEW buffer, NEW head, NEW tail, IsRing(S, size, buffer, head, tail),
         head # tail, NEW t, t = NextIndex(tail, size)
  PROVE  Content(buffer, head, t, size) = Tail(Content(buffer, head, tail, size))
<1> DEFINE n == Used(head, tail, size)
           c == Content(buffer, head, tail, size)
           d == Content(buffer, head, t, size)
<1>0. size \in Nat \ {0} /\ head \in 0..size /\ tail \in 0..size BY DEF IsRing
<1>1. /\ IsRing(S, size, buffer, head, t) /\ n \in 1..size
      /\ size \in Nat \ {0} /\ head \in 0..size /\ tail \in 0..size
      /\ Used(head, t, size) = n - 1
  <2>1. n \in 0..size /\ n # 0 /\ Used(head, t, size) = n - 1 BY <1>0, UsedSlots
  <2>2. t \in 0..size BY <1>0, UsedSlots
  <2> QED BY <1>0, <2>1, <2>2 DEF IsRing
<1>2. c \in Seq(S) /\ Len(c) = n /\ \A i \in 1..n : c[i] = buffer[Slot(tail, i, size)]
  BY ContentIs
<1>3. d \in Seq(S) /\ Len(d) = n - 1 /\ \A i \in 1..(n - 1) : d[i] = buffer[Slot(t, i, size)]
  BY <1>1, ContentIs
<1>4. c # <<>> BY <1>0, RingHead
<1>5. \A i \in 1..(n - 1) : Slot(t, i, size) = Slot(tail, i + 1, size)
  BY <1>1 DEF Slot, NextIndex, Used
<1>6. Tail(c) \in Seq(S) /\ Len(Tail(c)) = n - 1 /\ \A i \in 1..(n - 1) : Tail(c)[i] = c[i + 1]
  BY <1>1, <1>2, <1>4
<1>7. \A i \in 1..(n - 1) : d[i] = Tail(c)[i] BY <1>1, <1>2, <1>3, <1>5, <1>6
<1>8. d = Tail(c)
  <2> HIDE DEF c, d, n
  <2> QED BY <1>3, <1>6, <1>7, SeqEqual
<1> QED BY <1>8

(* As the tail moves on to a place between itself and the head, what was   *)
(* before that place is gone.                                              *)
LEMMA RingDiscard ==
  ASSUME NEW S, NEW size, NEW buffer, NEW head, NEW tail, IsRing(S, size, buffer, head, tail),
         NEW t \in 0..size, Used(t, tail, size) <= Used(head, tail, size)
  PROVE  /\ IsRing(S, size, buffer, head, t)
         /\ Content(buffer, head, t, size) =
              SubSeq(Content(buffer, head, tail, size), Used(t, tail, size) + 1,
                     Len(Content(buffer, head, tail, size)))
<1> DEFINE n == Used(head, tail, size)  k == Used(t, tail, size)
           c == Content(buffer, head, tail, size)
           d == Content(buffer, head, t, size)
<1>1. /\ IsRing(S, size, buffer, head, t) /\ n \in 0..size /\ k \in 0..n
      /\ size \in Nat \ {0} /\ head \in 0..size /\ tail \in 0..size
  BY UsedSlots DEF IsRing
<1>2. Used(head, t, size) = n - k BY <1>1 DEF Used
<1>3. c \in Seq(S) /\ Len(c) = n /\ \A i \in 1..n : c[i] = buffer[Slot(tail, i, size)]
  BY ContentIs
<1>4. d \in Seq(S) /\ Len(d) = n - k /\ \A i \in 1..(n - k) : d[i] = buffer[Slot(t, i, size)]
  BY <1>1, <1>2, ContentIs
<1>5. \A i \in 1..(n - k) : Slot(t, i, size) = Slot(tail, i + k, size)
  BY <1>1 DEF Slot, Used
<1> DEFINE e == SubSeq(c, k + 1, n)
<1>6. e \in Seq(S) /\ Len(e) = n - k /\ \A i \in 1..(n - k) : e[i] = c[i + k]
  BY <1>1, <1>3, SubSeqProperties
<1>7. d = e
  <2> HIDE DEF c, d, e, n, k
  <2>1. \A i \in 1..(n - k) : i + k \in 1..n BY <1>1
  <2>2. \A i \in 1..(n - k) : d[i] = e[i] BY <1>3, <1>4, <1>5, <1>6, <2>1
  <2> QED BY <1>4, <1>6, <2>2, SeqEqual
<1> QED BY <1>1, <1>3, <1>7

-------------------------------------------------------------------------------
(* Type correctness                                                        *)

LEMMA HostKind ==
  ASSUME NEW x, IsHost(x)
  PROVE  /\ x \in HostKinds
         /\ x.resets > 0 => IsHost([x EXCEPT !.resets = @ - 1])
<1>1. PICK h \in Hosts : \E r \in 0..h.resets : x = [h EXCEPT !.resets = r] BY DEF IsHost
<1>2. PICK r \in 0..h.resets : x = [h EXCEPT !.resets = r] BY <1>1
<1>3. h \in HostKinds /\ h.resets \in Nat BY SerialAssumption DEF HostKinds
<1>4. x \in HostKinds /\ x.resets = r BY <1>2, <1>3 DEF HostKinds
<1>5. ASSUME r > 0 PROVE IsHost([x EXCEPT !.resets = @ - 1])
  <2>1. [x EXCEPT !.resets = @ - 1] = [h EXCEPT !.resets = r - 1] BY <1>2, <1>3, <1>4 DEF HostKinds
  <2>2. r - 1 \in 0..h.resets BY <1>3, <1>5
  <2> QED BY <2>1, <2>2 DEF IsHost
<1> QED BY <1>4, <1>5

LEMMA ReceiveType == ASSUME TypeOK, NEW c \in Chars, Receive(c) PROVE TypeOK'
<1>1. /\ sent \in Nat /\ host.send \in Nat /\ acked \in 0..sent
      /\ unanswered \in Seq(1..sent) /\ partial \in Seq(CharKinds) /\ todo \in Seq(Seq(CharKinds))
  <2>1. IsHost(host) /\ sent \in 0..host.send BY DEF TypeOK
  <2>2. host \in HostKinds BY <2>1, HostKind
  <2>3. host.send \in Nat BY <2>2 DEF HostKinds
  <2> QED BY <2>1, <2>3 DEF TypeOK
<1>2. sent' = sent + 1 /\ sent' \in 0..host.send /\ acked' = acked /\ host' = host
  BY <1>1 DEF Receive
<1>3. unanswered' \in Seq(1..sent')
  <2>1. 1..sent \subseteq 1..(sent + 1) /\ sent + 1 \in 1..(sent + 1) BY <1>1
  <2>2. unanswered \in Seq(1..(sent + 1)) BY <1>1, <2>1, SeqMonotonic
  <2>3. Append(unanswered, sent + 1) \in Seq(1..(sent + 1)) BY <2>1, <2>2, AppendProperties
  <2>4. unanswered' \in {unanswered, Append(unanswered, sent + 1)} BY DEF Receive
  <2> QED BY <1>2, <2>2, <2>3, <2>4
<1>4. partial' \in Seq(CharKinds) /\ todo' \in Seq(Seq(CharKinds))
  <2>1. CASE c = "eol"
    <3>1. partial' = <<>> /\ todo' = Append(todo, partial) BY <2>1 DEF Receive
    <3> QED BY <1>1, <3>1, AppendProperties, EmptySeq
  <2>2. CASE c # "eol"
    <3>1. partial' = Append(partial, c) /\ todo' = todo /\ c \in CharKinds BY <2>2 DEF Receive, Chars
    <3> QED BY <1>1, <3>1, AppendProperties
  <2> QED BY <2>1, <2>2
<1>5. /\ rxHead' \in 0..RxSize /\ rxTail' \in 0..RxSize
      /\ rxBuffer' \in [0..RxSize -> Chars]
  <2>1. /\ rxHead \in 0..RxSize /\ rxTail \in 0..RxSize /\ RxSize \in Nat \ {0}
        /\ rxBuffer \in [0..RxSize -> Chars]
    BY SerialAssumption DEF TypeOK
  <2>2. NextIndex(rxHead, RxSize) \in 0..RxSize BY <2>1, UsedSlots
  <2>3. rxTail' = rxTail /\ rxHead' \in {rxHead, NextIndex(rxHead, RxSize)} BY DEF Receive
  <2>4. rxBuffer' = rxBuffer \/ rxBuffer' = [rxBuffer EXCEPT ![rxHead] = c] BY DEF Receive
  <2>5. rxBuffer' \in [0..RxSize -> Chars] BY <2>1, <2>4
  <2> QED BY <2>1, <2>2, <2>3, <2>5
<1>6. UNCHANGED <<txVars, reset, mainVars, heard, waiting>> BY DEF Receive
<1>7. acked' \in 0..sent' BY <1>1, <1>2
<1> QED BY <1>2, <1>3, <1>4, <1>5, <1>6, <1>7 DEF TypeOK, txVars, mainVars

(* A byte of the answer is in the ring before it leaves the answer.        *)
OutStays == pc = "stored" => out # <<>>
LEMMA OutStep == TypeOK /\ OutStays /\ [Next]_vars => OutStays'
BY DEF Next, vars, Main, MainLoop, SerialWrite, Initialize, Host, mainVars, OutStays, Goto,
       Peek, Fetch, Advance, Filter, EndOfLine, Execute, NoData, Write, Written, AdvanceHead,
       Enable, Boot, LoadHead, Flush, Receive, ReceiveReset, Udre

LEMMA TypeStep == TypeOK /\ OutStays /\ [Next]_vars => TypeOK'
<1> SUFFICES ASSUME TypeOK, OutStays, [Next]_vars PROVE TypeOK' OBVIOUS
<1>0. /\ RxSize \in Nat \ {0} /\ TxSize \in Nat \ {0} /\ LineSize \in Nat \ {0}
      /\ NextIndex(rxTail, RxSize) \in 0..RxSize /\ NextIndex(txTail, TxSize) \in 0..TxSize
      /\ NextIndex(txHead, TxSize) \in 0..TxSize
  BY SerialAssumption, UsedSlots DEF TypeOK
<1> USE DEF TypeOK, Goto, Points, rxVars, txVars, mainVars, hostVars
<1>1. CASE Peek BY <1>0, <1>1 DEF Peek
<1>2. CASE Fetch BY <1>0, <1>2 DEF Fetch
<1>3. CASE Advance BY <1>0, <1>3 DEF Advance
<1>4. CASE Filter
  <2>1. lineFlags' \subseteq Flags BY <1>4 DEF Filter, EndsComment, Flags
  <2>2. line' \in Seq({"letter", ")"}) /\ Len(line') < LineSize 
    <3>1. CASE line' = line BY <3>1
    <3>2. CASE Len(line) < LineSize - 1 /\ line' = Append(line, data) /\ data \in {"letter", ")"}
      BY <1>0, <3>2, AppendProperties
    <3> QED BY <1>4, <3>1, <3>2 DEF Filter
  <2> QED BY <1>4, <2>1, <2>2 DEF Filter
<1>5. CASE EndOfLine BY <1>0, <1>5 DEF EndOfLine
<1>6. CASE Execute
  <2>1. out' \in Seq(Bytes)
    <3>1. PICK answer \in Answers : out' = <<"text", answer>> BY <1>6 DEF Execute, Answers
    <3> QED BY <3>1 DEF Bytes
  <2>2. todo' \in Seq(Seq(CharKinds)) BY <1>6, HeadTailProperties DEF Execute
  <2>3. line' \in Seq({"letter", ")"}) /\ Len(line') < LineSize /\ lineFlags' \subseteq Flags
    BY <1>0, <1>6 DEF Execute
  <2> QED BY <1>6, <2>1, <2>2, <2>3 DEF Execute
<1>7. CASE NoData BY <1>0, <1>7 DEF NoData
<1>8. CASE Write
  <2>1. out' \in Seq(Bytes) /\ Head(out) \in Bytes BY <1>8, HeadTailProperties DEF Write
  <2>2. txBuffer' = txBuffer \/ txBuffer' = [txBuffer EXCEPT ![txHead] = Head(out)] BY <1>8 DEF Write
  <2>3. txBuffer' \in [0..TxSize -> Bytes] BY <2>1, <2>2
  <2> QED BY <1>8, <2>1, <2>3 DEF Write
<1>9. CASE Written BY <1>0, <1>9 DEF Written
<1>10. CASE AdvanceHead
  <2>1. out' \in Seq(Bytes) BY <1>10, HeadTailProperties DEF AdvanceHead, OutStays
  <2> QED BY <1>0, <1>10, <2>1 DEF AdvanceHead
<1>11. CASE Enable BY <1>0, <1>11 DEF Enable, TurnedOn
<1>12. CASE Boot BY <1>0, <1>12 DEF Boot
<1>13. CASE LoadHead BY <1>0, <1>13 DEF LoadHead
<1>14. CASE Flush BY <1>0, <1>14 DEF Flush, Bytes
<1>15. CASE ReceiveReset BY <1>0, <1>15, HostKind DEF ReceiveReset
<1>16. CASE Udre
  <2>1. heard' \in Bytes /\ udrie' \in BOOLEAN /\ txTail' \in 0..TxSize BY <1>0, <1>16 DEF Udre
  <2>2. partial' \in Seq(CharKinds) /\ todo' \in Seq(Seq(CharKinds)) BY <1>16, EmptySeq DEF Udre
  <2>3. acked' \in 0..sent /\ unanswered' \in Seq(1..sent)
    <3>1. unanswered # <<>> => Head(unanswered) \in 1..sent /\ Tail(unanswered) \in Seq(1..sent)
      BY HeadTailProperties
    <3>2. host \in HostKinds BY HostKind
    <3>3. sent \in Nat BY <3>2 DEF HostKinds
    <3>4. CASE unanswered' = <<>> /\ acked' = sent BY <3>3, <3>4, EmptySeq
    <3>5. CASE unanswered # <<>> /\ unanswered' = Tail(unanswered) /\ acked' = Head(unanswered)
      BY <3>1, <3>3, <3>5
    <3>6. CASE UNCHANGED <<unanswered, acked>> BY <3>6
    <3> QED BY <1>16, <3>4, <3>5, <3>6 DEF Udre
  <2>4. waiting' \in BOOLEAN BY <1>16 DEF Udre
  <2>5. UNCHANGED <<rxVars, txHead, txBuffer, reset, mainVars, sent, host>> BY <1>16 DEF Udre
  <2> QED BY <2>1, <2>2, <2>3, <2>4, <2>5
<1>17. CASE \E c \in host.chars \cup {"eol"} : Receive(c)
  <2>1. host \in HostKinds BY HostKind
  <2>2. host.chars \subseteq CharKinds BY <2>1 DEF HostKinds
  <2> QED BY <1>17, <2>2, ReceiveType DEF Chars
<1>18. CASE UNCHANGED vars BY <1>18 DEF vars
<1> QED BY <1>1, <1>2, <1>3, <1>4, <1>5, <1>6, <1>7, <1>8, <1>9, <1>10, <1>11, <1>12, <1>13, <1>14, <1>15, <1>16, <1>17, <1>18
    DEF Next, Main, MainLoop, SerialWrite, Initialize, Host

LEMMA TypeStart == Init => TypeOK
<1> SUFFICES ASSUME Init PROVE TypeOK OBVIOUS
<1>1. IsHost(host) /\ host.send \in Nat
  <2>1. host \in Hosts /\ host \in HostKinds BY SerialAssumption DEF Init
  <2>2. host.resets \in 0..host.resets /\ host = [host EXCEPT !.resets = host.resets]
    BY <2>1 DEF HostKinds
  <2> QED BY <2>1, <2>2 DEF IsHost, HostKinds
<1>2. /\ rxBuffer \in [0..RxSize -> Chars] /\ txBuffer \in [0..TxSize -> Bytes]
      /\ 0 \in 0..RxSize /\ 0 \in 0..TxSize
  BY SerialAssumption DEF Init, Bytes
<1>3. Len(line) < LineSize BY SerialAssumption DEF Init
<1>4. <<>> \in Seq(Bytes) /\ <<>> \in Seq({"letter", ")"}) /\ <<>> \in Seq(CharKinds)
      /\ <<>> \in Seq(1..sent) /\ <<>> \in Seq(Seq(CharKinds))
  BY EmptySeq
<1>5. sent \in 0..host.send /\ acked \in 0..sent BY <1>1 DEF Init
<1> QED BY <1>1, <1>2, <1>3, <1>4, <1>5 DEF Init, TypeOK, Points, Bytes, Flags

(* Every variable of the serial link has a value of its kind, and the line *)
(* buffer never more than LINE_BUFFER_SIZE - 1 characters.                 *)
THEOREM SerialTypeCorrect == Spec => []TypeOK
<1>1. Init => OutStays BY DEF Init, OutStays
<1> QED BY <1>1, TypeStart, TypeStep, OutStep, PTL DEF Spec

-------------------------------------------------------------------------------
(* The receive ring                                                        *)

(* What the main program knows of the ring while it reads from it or       *)
(* flushes it: the interrupt only moves the head, and never onto the tail. *)
RxInv ==
  /\ pc = "greet" => Used(copy, rxTail, RxSize) <= Used(rxHead, rxTail, RxSize)
  /\ pc \in {"fetch", "advance"} => rxHead # rxTail
  /\ pc = "advance" => data = rxBuffer[rxTail]

LEMMA RxRing ==
  TypeOK => /\ IsRing(Chars, RxSize, rxBuffer, rxHead, rxTail)
            /\ RxContent \in Seq(Chars)
            /\ Len(RxContent) = Used(rxHead, rxTail, RxSize)
            /\ RxContent = <<>> <=> rxHead = rxTail
<1> SUFFICES ASSUME TypeOK
             PROVE  /\ IsRing(Chars, RxSize, rxBuffer, rxHead, rxTail)
                    /\ RxContent \in Seq(Chars)
                    /\ Len(RxContent) = Used(rxHead, rxTail, RxSize)
                    /\ RxContent = <<>> <=> rxHead = rxTail
  OBVIOUS
<1>1. IsRing(Chars, RxSize, rxBuffer, rxHead, rxTail)
  BY SerialAssumption DEF TypeOK, IsRing
<1>2. RxContent \in Seq(Chars) /\ Len(RxContent) = Used(rxHead, rxTail, RxSize)
  BY <1>1, ContentIs DEF RxContent
<1>3. Used(rxHead, rxTail, RxSize) = 0 <=> rxHead = rxTail BY <1>1, UsedSlots DEF IsRing
<1>4. RxContent = <<>> <=> Len(RxContent) = 0 BY <1>2, EmptySeq
<1> QED BY <1>1, <1>2, <1>3, <1>4

LEMMA RxTake ==
  ASSUME TypeOK, rxHead # rxTail
  PROVE  /\ Head(RxContent) = rxBuffer[rxTail]
         /\ Content(rxBuffer, rxHead, NextIndex(rxTail, RxSize), RxSize) = Tail(RxContent)
<1>1. IsRing(Chars, RxSize, rxBuffer, rxHead, rxTail) BY RxRing
<1>2. Head(Content(rxBuffer, rxHead, rxTail, RxSize)) = rxBuffer[rxTail] BY <1>1, RingHead
<1>3. Content(rxBuffer, rxHead, NextIndex(rxTail, RxSize), RxSize) =
        Tail(Content(rxBuffer, rxHead, rxTail, RxSize))
  BY <1>1, RingTake
<1> QED BY <1>2, <1>3 DEF RxContent

(* The interrupt appends what it receives, or drops it.                    *)
LEMMA Received ==
  ASSUME TypeOK, NEW c \in Chars, Receive(c)
  PROVE  /\ ~RxFull => RxContent' = Append(RxContent, c)
         /\ RxFull => RxContent' = RxContent
         /\ rxHead # rxTail => rxBuffer'[rxTail] = rxBuffer[rxTail] /\ rxHead' # rxTail
         /\ rxTail' = rxTail
<1>1. IsRing(Chars, RxSize, rxBuffer, rxHead, rxTail) BY RxRing
<1>2. rxTail' = rxTail BY DEF Receive
<1>3. CASE RxFull
  <2>1. UNCHANGED <<rxHead, rxBuffer>> BY <1>3 DEF Receive
  <2> QED BY <1>2, <1>3, <2>1 DEF RxContent
<1>4. CASE ~RxFull
  <2>1. rxBuffer' = [rxBuffer EXCEPT ![rxHead] = c] /\ rxHead' = NextIndex(rxHead, RxSize)
    BY <1>4 DEF Receive
  <2>2. NextIndex(rxHead, RxSize) # rxTail BY <1>4 DEF RxFull
  <2>3. /\ rxBuffer' \in [0..RxSize -> Chars] /\ rxBuffer'[rxHead] = c
        /\ \A j \in 0..RxSize : j # rxHead => rxBuffer'[j] = rxBuffer[j]
    BY <1>1, <2>1 DEF IsRing
  <2>7. IsRing(Chars, RxSize, rxBuffer', rxHead, rxTail) BY <1>1, <2>3 DEF IsRing
  <2>8. rxBuffer'[rxHead] = c /\ \A j \in 0..RxSize : j # rxHead => rxBuffer'[j] = rxBuffer[j]
    BY <2>3
  <2>4. Content(rxBuffer', NextIndex(rxHead, RxSize), rxTail, RxSize) =
          Append(Content(rxBuffer, rxHead, rxTail, RxSize), c)
    BY <1>1, <2>2, <2>7, <2>8, RingPut
  <2>5. RxContent' = Append(RxContent, c) BY <1>2, <2>1, <2>4 DEF RxContent
  <2>6. rxHead # rxTail => rxBuffer'[rxTail] = rxBuffer[rxTail] BY <1>1, <2>3 DEF IsRing
  <2> QED BY <1>2, <1>4, <2>1, <2>2, <2>5, <2>6
<1> QED BY <1>3, <1>4

LEMMA RxInvStep == TypeOK /\ RxInv /\ [Next]_vars => RxInv'
<1> SUFFICES ASSUME TypeOK, RxInv, [Next]_vars PROVE RxInv' OBVIOUS
<1>1. CASE \E c \in host.chars \cup {"eol"} : Receive(c)
  <2>1. PICK c \in Chars : Receive(c)
    <3>1. host \in HostKinds BY HostKind DEF TypeOK
    <3> QED BY <1>1, <3>1 DEF HostKinds, Chars
  <2>2. UNCHANGED <<pc, copy, data, rxTail>> BY <2>1 DEF Receive, mainVars
  <2>3. rxHead' = rxHead \/ (~RxFull /\ rxHead' = NextIndex(rxHead, RxSize)) BY <2>1 DEF Receive
  <2>4. Used(rxHead', rxTail, RxSize) >= Used(rxHead, rxTail, RxSize)
    <3>1. /\ RxSize \in Nat \ {0} /\ rxHead \in 0..RxSize /\ rxTail \in 0..RxSize
      BY SerialAssumption DEF TypeOK
    <3> QED BY <2>3, <3>1 DEF RxFull, NextIndex, Used
  <2>5. pc = "greet" => copy \in 0..RxSize /\ Used(copy, rxTail, RxSize) <= Used(rxHead', rxTail, RxSize)
    <3>1. /\ RxSize \in Nat \ {0} /\ rxHead \in 0..RxSize /\ rxTail \in 0..RxSize /\ copy \in 0..RxSize
          /\ rxHead' \in 0..RxSize
      BY <2>1, SerialAssumption, ReceiveType DEF TypeOK
    <3>2. \A i \in 0..RxSize : Used(i, rxTail, RxSize) \in Nat BY <3>1 DEF Used
    <3> QED BY <2>4, <3>1, <3>2 DEF RxInv
  <2> QED BY <2>1, <2>2, <2>5, Received DEF RxInv
<1>2. CASE LoadHead
  <2>1. /\ RxSize \in Nat \ {0} /\ rxHead \in 0..RxSize /\ rxTail \in 0..RxSize
    BY SerialAssumption DEF TypeOK
  <2> QED BY <1>2, <2>1 DEF LoadHead, RxInv, Used, rxVars, Goto
<1>3. CASE Main /\ ~LoadHead
  BY <1>3 DEF Main, MainLoop, SerialWrite, Initialize, rxVars, RxInv, Goto, Peek, Fetch, Advance,
      Filter, EndOfLine, Execute, NoData, Write, Written, AdvanceHead, Enable, Boot, Flush
<1>4. CASE ReceiveReset \/ Udre \/ UNCHANGED vars
  BY <1>4 DEF ReceiveReset, Udre, vars, rxVars, mainVars, RxInv
<1> QED BY <1>1, <1>2, <1>3, <1>4 DEF Next, Host

(* Every step puts a character into the buffer, takes the oldest one,      *)
(* discards what the flush had seen, or leaves it alone.                   *)
LEMMA RxRefines ==
  ASSUME TypeOK, RxInv, [Next]_vars
  PROVE  [Rx!Put \/ Rx!Take \/ Rx!Discard]_<<Unread, data>>
<1>1. /\ RxContent \in Seq(Chars) /\ Len(RxContent) = Used(rxHead, rxTail, RxSize)
      /\ RxContent = <<>> <=> rxHead = rxTail
      /\ IsRing(Chars, RxSize, rxBuffer, rxHead, rxTail)
  BY RxRing
<1>2. CASE \E c \in host.chars \cup {"eol"} : Receive(c)
  <2>1. PICK c \in Chars : Receive(c)
    <3>1. host \in HostKinds BY HostKind DEF TypeOK
    <3> QED BY <1>2, <3>1 DEF HostKinds, Chars
  <2>2. UNCHANGED <<pc, data>> BY <2>1 DEF Receive, mainVars
  <2>3. CASE RxFull BY <2>1, <2>2, <2>3, Received DEF Unread
  <2>4. CASE ~RxFull
    <3>1. RxContent' = Append(RxContent, c) BY <2>1, <2>4, Received
    <3>2. Unread' = Append(Unread, c)
      <4>1. CASE pc = "advance"
        <5>1. RxContent # <<>> BY <1>1, <4>1 DEF RxInv
        <5>2. Tail(Append(RxContent, c)) = Append(Tail(RxContent), c)
          BY <1>1, <5>1, HeadTailAppend
        <5> QED BY <2>2, <3>1, <4>1, <5>2 DEF Unread
      <4>2. CASE pc # "advance" BY <2>2, <3>1, <4>2 DEF Unread
      <4> QED BY <4>1, <4>2
    <3>3. Len(Unread) < RxSize
      <4>1. Used(rxHead, rxTail, RxSize) \in 0..(RxSize - 1)
        BY <1>1, <2>4, UsedSlots DEF RxFull, IsRing
      <4>2. RxContent # <<>> => Len(Tail(RxContent)) = Len(RxContent) - 1 BY <1>1, HeadTailProperties
      <4>3. pc = "advance" => RxContent # <<>> BY <1>1 DEF RxInv
      <4>4. Len(RxContent) \in 0..(RxSize - 1) /\ RxSize \in Nat BY <1>1, <4>1 DEF IsRing
      <4> QED BY <4>2, <4>3, <4>4 DEF Unread
    <3> QED BY <2>2, <3>2, <3>3 DEF Rx!Put
  <2> QED BY <2>3, <2>4
<1>3. CASE Fetch
  <2>1. pc = "fetch" /\ pc' = "advance" /\ data' = rxBuffer[rxTail] /\ UNCHANGED rxVars
    BY <1>3 DEF Fetch, Goto
  <2>2. rxHead # rxTail /\ RxContent' = RxContent BY <2>1 DEF RxInv, rxVars, RxContent
  <2>3. Head(RxContent) = rxBuffer[rxTail] BY <2>2, RxTake
  <2> QED BY <1>1, <2>1, <2>2, <2>3 DEF Rx!Take, Unread
<1>4. CASE Advance
  <2>1. pc = "advance" /\ pc' = "filter" /\ UNCHANGED <<data, rxHead, rxBuffer>>
        /\ rxTail' = NextIndex(rxTail, RxSize)
    BY <1>4 DEF Advance, Goto
  <2>2. rxHead # rxTail BY <2>1 DEF RxInv
  <2>3. RxContent' = Tail(RxContent) BY <2>1, <2>2, RxTake DEF RxContent
  <2> QED BY <2>1, <2>3 DEF Unread
<1>5. CASE Flush
  <2> DEFINE k == Used(copy, rxTail, RxSize)
  <2>1. pc = "greet" /\ pc' = "write" /\ UNCHANGED <<data, rxHead, rxBuffer>> /\ rxTail' = copy
    BY <1>5 DEF Flush, Goto
  <2>2. copy \in 0..RxSize /\ k <= Used(rxHead, rxTail, RxSize) BY <2>1 DEF TypeOK, RxInv
  <2>3. RxContent' = SubSeq(RxContent, k + 1, Len(RxContent))
    BY <1>1, <2>1, <2>2, RingDiscard DEF RxContent
  <2>4. k \in 0..Len(RxContent) BY <1>1, <2>2, UsedSlots DEF IsRing
  <2>5. Unread = RxContent /\ Unread' = RxContent' BY <2>1 DEF Unread
  <2> HIDE DEF k
  <2>6. CASE k = 0
    <3>1. RxContent' = RxContent BY <1>1, <2>3, <2>6, SubSeqFull
    <3> QED BY <2>1, <2>5, <3>1
  <2>7. CASE k # 0
    <3>1. k \in 1..Len(RxContent) BY <1>1, <2>4, <2>7
    <3> QED BY <2>1, <2>3, <2>5, <3>1 DEF Rx!Discard
  <2> QED BY <2>6, <2>7
<1>6. CASE Main /\ ~Fetch /\ ~Advance /\ ~Flush
  <2>1. UNCHANGED <<rxHead, rxTail, rxBuffer, data>> /\ pc # "advance" /\ pc' # "advance"
    BY <1>6 DEF Main, MainLoop, SerialWrite, Initialize, rxVars, Goto, Peek, Filter, EndOfLine,
        Execute, NoData, Write, Written, AdvanceHead, Enable, Boot, LoadHead
  <2> QED BY <2>1 DEF Unread, RxContent
<1>7. CASE ReceiveReset \/ Udre \/ UNCHANGED vars
  BY <1>7 DEF ReceiveReset, Udre, vars, rxVars, mainVars, Unread, RxContent
<1> QED BY <1>2, <1>3, <1>4, <1>5, <1>6, <1>7 DEF Next, Host

(* The receive ring is a first-in first-out buffer of RX_BUFFER_SIZE       *)
(* characters to the two that share it without a lock: whatever the        *)
(* interleaving, the main program reads every character that was stored    *)
(* once and in order, or discards what had arrived when it began to flush. *)
THEOREM RxRingIsFifo == Spec => RxIsFifo
<1>1. Init => RxInv /\ Rx!Init
  <2> SUFFICES ASSUME Init PROVE RxInv /\ Rx!Init OBVIOUS
  <2>1. RxContent = <<>> BY TypeStart, RxRing DEF Init
  <2> QED BY <2>1 DEF Init, RxInv, Rx!Init, Unread
<1>2. TypeOK /\ RxInv /\ [Next]_vars => [Rx!Put \/ Rx!Take \/ Rx!Discard]_<<Unread, data>>
  BY RxRefines
<1> QED BY <1>1, <1>2, RxInvStep, SerialTypeCorrect, PTL DEF Spec, RxIsFifo, Rx!Spec

-------------------------------------------------------------------------------
(* The transmit ring, as long as nothing holds the main program up         *)

(* The byte that is stored is the next one of the answer, in a free slot;  *)
(* the transmit interrupt is enabled if and only if there is something to  *)
(* send, but for the moment before the main program enables it.            *)
TxInv ==
  /\ pc = "stored" => ~TxFull /\ txBuffer[txHead] = Head(out)
  /\ pc = "enable" => txHead # txTail
  /\ udrie => txHead # txTail
  /\ TxKeepsSending

LEMMA TxRing ==
  TypeOK => /\ IsRing(Bytes, TxSize, txBuffer, txHead, txTail)
            /\ TxContent \in Seq(Bytes)
            /\ Len(TxContent) = Used(txHead, txTail, TxSize)
            /\ TxContent = <<>> <=> txHead = txTail
            /\ NextIndex(txHead, TxSize) \in 0..TxSize /\ NextIndex(txTail, TxSize) \in 0..TxSize
<1> SUFFICES ASSUME TypeOK
             PROVE  /\ IsRing(Bytes, TxSize, txBuffer, txHead, txTail)
                    /\ TxContent \in Seq(Bytes)
                    /\ Len(TxContent) = Used(txHead, txTail, TxSize)
                    /\ TxContent = <<>> <=> txHead = txTail
                    /\ NextIndex(txHead, TxSize) \in 0..TxSize
                    /\ NextIndex(txTail, TxSize) \in 0..TxSize
  OBVIOUS
<1>1. IsRing(Bytes, TxSize, txBuffer, txHead, txTail)
  BY SerialAssumption DEF TypeOK, IsRing
<1>2. TxContent \in Seq(Bytes) /\ Len(TxContent) = Used(txHead, txTail, TxSize)
  BY <1>1, ContentIs DEF TxContent
<1>3. Used(txHead, txTail, TxSize) = 0 <=> txHead = txTail BY <1>1, UsedSlots DEF IsRing
<1>4. TxContent = <<>> <=> Len(TxContent) = 0 BY <1>2, EmptySeq
<1>5. NextIndex(txHead, TxSize) \in 0..TxSize /\ NextIndex(txTail, TxSize) \in 0..TxSize
  BY <1>1, UsedSlots DEF IsRing
<1> QED BY <1>1, <1>2, <1>3, <1>4, <1>5

(* What the main program stores is in the ring once the head moves on; the *)
(* interrupt takes the oldest byte.                                        *)
LEMMA Stored ==
  ASSUME TypeOK, TxInv, Write
  PROVE  TxContent' = TxContent /\ UNCHANGED <<txHead, txTail>>
<1>1. IsRing(Bytes, TxSize, txBuffer, txHead, txTail) BY TxRing
<1>2. UNCHANGED <<txHead, txTail>> /\ out # <<>> BY DEF Write
<1>3. CASE UNCHANGED txBuffer BY <1>2, <1>3 DEF TxContent
<1>4. CASE txBuffer' = [txBuffer EXCEPT ![txHead] = Head(out)]
  <2>1. Head(out) \in Bytes BY <1>2, HeadTailProperties DEF TypeOK
  <2>2. /\ txBuffer'[txHead] = Head(out)
        /\ \A j \in 0..TxSize : j # txHead => txBuffer'[j] = txBuffer[j]
    BY <1>1, <1>4 DEF IsRing
  <2>3. IsRing(Bytes, TxSize, txBuffer', txHead, txTail) BY <1>1, <1>4, <2>1 DEF IsRing
  <2>4. Content(txBuffer', txHead, txTail, TxSize) = Content(txBuffer, txHead, txTail, TxSize)
    BY <1>1, <2>1, <2>2, <2>3, RingPut
  <2> QED BY <1>2, <2>4 DEF TxContent
<1> QED BY <1>3, <1>4 DEF Write

LEMMA Sent ==
  ASSUME TypeOK, OutStays, TxInv, AdvanceHead
  PROVE  TxContent' = Append(TxContent, Head(out)) /\ Len(TxContent) < TxSize
<1>1. IsRing(Bytes, TxSize, txBuffer, txHead, txTail) /\ Len(TxContent) = Used(txHead, txTail, TxSize)
  BY TxRing
<1>2. /\ UNCHANGED <<txTail, txBuffer>> /\ txHead' = NextIndex(txHead, TxSize)
      /\ NextIndex(txHead, TxSize) # txTail /\ txBuffer[txHead] = Head(out) /\ out # <<>>
  BY DEF AdvanceHead, TxInv, TxFull, OutStays
<1>3. Head(out) \in Bytes BY <1>2, HeadTailProperties DEF TypeOK
<1>4. \A j \in 0..TxSize : j # txHead => txBuffer[j] = txBuffer[j] OBVIOUS
<1>5. Content(txBuffer, NextIndex(txHead, TxSize), txTail, TxSize) =
        Append(Content(txBuffer, txHead, txTail, TxSize), Head(out))
  BY <1>1, <1>2, <1>3, <1>4, RingPut
<1>6. Used(txHead, txTail, TxSize) \in 0..(TxSize - 1) BY <1>1, <1>2, UsedSlots DEF IsRing
<1> QED BY <1>1, <1>2, <1>5, <1>6 DEF TxContent, IsRing

LEMMA Transmitted ==
  ASSUME TypeOK, TxInv, Udre
  PROVE  /\ TxContent # <<>> /\ heard' = Head(TxContent) /\ TxContent' = Tail(TxContent)
         /\ txHead # txTail
<1>1. IsRing(Bytes, TxSize, txBuffer, txHead, txTail) BY TxRing
<1>2. /\ UNCHANGED <<txHead, txBuffer>> /\ txTail' = NextIndex(txTail, TxSize)
      /\ heard' = txBuffer[txTail] /\ txHead # txTail
  BY DEF Udre, TxInv
<1>3. /\ Content(txBuffer, txHead, txTail, TxSize) # <<>>
      /\ Head(Content(txBuffer, txHead, txTail, TxSize)) = txBuffer[txTail]
  BY <1>1, <1>2, RingHead
<1>4. Content(txBuffer, txHead, NextIndex(txTail, TxSize), TxSize) =
        Tail(Content(txBuffer, txHead, txTail, TxSize))
  BY <1>1, <1>2, RingTake
<1> QED BY <1>2, <1>3, <1>4 DEF TxContent

LEMMA TxInvStep ==
  ASSUME ~Stalls, TypeOK, OutStays, TxInv, [Next]_vars PROVE TxInv'
<1>1. /\ TxSize \in Nat \ {0} /\ txHead \in 0..TxSize /\ txTail \in 0..TxSize
  BY SerialAssumption DEF TypeOK
<1>2. CASE Write
  <2>1. pc' = "stored" => ~TxFull /\ txBuffer'[txHead] = Head(out)
    BY <1>1, <1>2 DEF Write, TypeOK
  <2> QED BY <1>2, <2>1 DEF Write, TxInv, TxKeepsSending, TxFull, Goto
<1>3. CASE AdvanceHead
  <2>1. txHead' # txTail' BY <1>3 DEF AdvanceHead, TxInv, TxFull
  <2> QED BY <1>3, <2>1 DEF AdvanceHead, TxInv, TxKeepsSending, Goto
<1>4. CASE Enable BY <1>4 DEF Enable, TurnedOn, TxInv, TxKeepsSending, Goto
<1>5. CASE Udre
  <2>1. /\ UNCHANGED <<txHead, txBuffer, pc, out>> /\ txTail' = NextIndex(txTail, TxSize)
        /\ udrie' = (txTail' # txHead) /\ txHead # txTail
        /\ pc = "enable" => NextIndex(txTail, TxSize) # txHead
    BY <1>5 DEF Udre, TxInv, mainVars
  <2>2. NextIndex(txHead, TxSize) # NextIndex(txTail, TxSize) BY <1>1, <2>1 DEF NextIndex
  <2>3. (pc = "stored" => ~TxFull /\ txBuffer[txHead] = Head(out))'
    BY <2>1, <2>2 DEF TxInv, TxFull
  <2> QED BY <2>1, <2>3 DEF TxInv, TxKeepsSending
<1>6. CASE Main /\ ~Write /\ ~AdvanceHead /\ ~Enable
  <2>1. UNCHANGED txVars /\ pc \notin {"stored", "enable"} /\ pc' \notin {"stored", "enable"}
    BY <1>6 DEF Main, MainLoop, SerialWrite, Initialize, Goto, Peek, Fetch, Advance, Filter,
        EndOfLine, Execute, NoData, Written, Boot, LoadHead, Flush
  <2> QED BY <2>1 DEF TxInv, TxKeepsSending, txVars
<1>7. CASE (\E c \in host.chars \cup {"eol"} : Receive(c)) \/ ReceiveReset \/ UNCHANGED vars
  BY <1>7 DEF Receive, ReceiveReset, vars, txVars, mainVars, TxInv, TxKeepsSending, TxFull
<1> QED BY <1>2, <1>3, <1>4, <1>5, <1>6, <1>7 DEF Next, Host, Main, SerialWrite

LEMMA TxRefines ==
  ASSUME TypeOK, OutStays, TxInv, [Next]_vars
  PROVE  [Tx!Put \/ Tx!Take]_<<TxContent, heard>>
<1>1. CASE Write
  <2>1. UNCHANGED heard BY <1>1 DEF Write, hostVars
  <2> QED BY <1>1, <2>1, Stored
<1>2. CASE AdvanceHead
  <2>1. UNCHANGED heard /\ pc = "stored" BY <1>2 DEF AdvanceHead, hostVars
  <2>2. Head(out) \in Bytes BY <2>1, HeadTailProperties DEF TypeOK, OutStays
  <2> QED BY <1>2, <2>1, <2>2, Sent DEF Tx!Put
<1>3. CASE Udre BY <1>3, Transmitted DEF Tx!Take
<1>4. CASE Main /\ ~Write /\ ~AdvanceHead
  <2>1. UNCHANGED <<txHead, txTail, txBuffer, heard>>
    BY <1>4 DEF Main, MainLoop, SerialWrite, Initialize, Peek, Fetch, Advance, Filter,
        EndOfLine, Execute, NoData, Written, Enable, Boot, LoadHead, Flush, txVars, hostVars
  <2> QED BY <2>1 DEF TxContent
<1>5. CASE (\E c \in host.chars \cup {"eol"} : Receive(c)) \/ ReceiveReset \/ UNCHANGED vars
  BY <1>5 DEF Receive, ReceiveReset, vars, txVars, hostVars, TxContent
<1> QED BY <1>1, <1>2, <1>3, <1>4, <1>5 DEF Next, Host, Main, SerialWrite

LEMMA TxAlways ==
  ASSUME ~Stalls PROVE Spec => [](TypeOK /\ OutStays /\ TxInv)
<1>1. Init => OutStays /\ TxInv BY DEF Init, OutStays, TxInv, TxKeepsSending
<1>2. TypeOK /\ OutStays /\ TxInv /\ [Next]_vars => TxInv' BY TxInvStep
<1> QED BY <1>1, <1>2, SerialTypeCorrect, OutStep, PTL DEF Spec

(* The transmit ring too is a first-in first-out buffer: every byte that   *)
(* serial_write stores is sent once and in order, and nothing else is. The *)
(* assumption is needed: if two bytes are sent between the head's moving   *)
(* on and the enabling of the interrupt, it sends what is not there.       *)
THEOREM TxRingIsFifo == ASSUME ~Stalls PROVE Spec => TxIsFifo
<1>1. Init => Tx!Init
  <2> SUFFICES ASSUME Init PROVE Tx!Init OBVIOUS
  <2>1. TxContent = <<>> BY TypeStart, TxRing DEF Init
  <2> QED BY <2>1 DEF Tx!Init
<1>2. TypeOK /\ OutStays /\ TxInv /\ [Next]_vars => [Tx!Put \/ Tx!Take]_<<TxContent, heard>>
  BY TxRefines
<1> QED BY <1>1, <1>2, TxAlways, PTL DEF Spec, TxIsFifo, Tx!Steady

(* And it never stops with bytes in the ring: the transmit interrupt is    *)
(* enabled or the main program is about to enable it.                      *)
THEOREM TxNeverStalls == ASSUME ~Stalls PROVE Spec => []TxKeepsSending
<1>1. TxInv => TxKeepsSending BY DEF TxInv
<1> QED BY <1>1, TxAlways, PTL

-------------------------------------------------------------------------------
(* Counting                                                                *)

LEMMA PendingNone == Pending(<<>>) = 0
<1>1. {i \in 1..Len(<<>>) : <<>>[i] \in Answers} = {} OBVIOUS
<1> QED BY <1>1, FS_EmptySet DEF Pending

LEMMA PendingFinite ==
  ASSUME NEW s \in Seq(Bytes)
  PROVE  /\ IsFiniteSet({i \in 1..Len(s) : s[i] \in Answers})
         /\ Pending(s) \in Nat
<1>1. IsFiniteSet(1..Len(s)) BY FS_Interval
<1>2. {i \in 1..Len(s) : s[i] \in Answers} \in SUBSET (1..Len(s)) OBVIOUS
<1>3. IsFiniteSet({i \in 1..Len(s) : s[i] \in Answers}) BY <1>1, <1>2, FS_Subset
<1> QED BY <1>3, FS_CardinalityType DEF Pending

LEMMA PendingAppend ==
  ASSUME NEW s \in Seq(Bytes), NEW x \in Bytes
  PROVE  Pending(Append(s, x)) = Pending(s) + (IF x \in Answers THEN 1 ELSE 0)
<1> DEFINE a == {i \in 1..Len(s) : s[i] \in Answers}
           b == {i \in 1..Len(Append(s, x)) : Append(s, x)[i] \in Answers}
<1>1. IsFiniteSet(a) /\ Cardinality(a) \in Nat BY PendingFinite DEF Pending
<1>2. Len(s) \in Nat /\ Len(s) + 1 \notin a OBVIOUS
<1>3. b = IF x \in Answers THEN a \cup {Len(s) + 1} ELSE a
  <2>1. /\ Len(Append(s, x)) = Len(s) + 1 /\ Append(s, x)[Len(s) + 1] = x
        /\ \A i \in 1..Len(s) : Append(s, x)[i] = s[i]
    OBVIOUS
  <2> QED BY <1>2, <2>1
<1>4. Cardinality(a \cup {Len(s) + 1}) = Cardinality(a) + 1
  <2> HIDE DEF a
  <2> QED BY <1>1, <1>2, FS_AddElement
<1>5. Cardinality(b) = Cardinality(a) + (IF x \in Answers THEN 1 ELSE 0)
  <2> HIDE DEF a, b
  <2> QED BY <1>1, <1>3, <1>4
<1> QED BY <1>5 DEF Pending

LEMMA PendingTail ==
  ASSUME NEW s \in Seq(Bytes), s # <<>>
  PROVE  /\ Pending(Tail(s)) = Pending(s) - (IF Head(s) \in Answers THEN 1 ELSE 0)
         /\ Head(s) \in Answers => Pending(s) > 0
<1> DEFINE a == {i \in 1..Len(s) : s[i] \in Answers}
           b == {i \in 1..Len(Tail(s)) : Tail(s)[i] \in Answers}
           f == [i \in b |-> i + 1]
<1>1. IsFiniteSet(a) /\ Cardinality(a) \in Nat BY PendingFinite DEF Pending
<1>2. /\ Tail(s) \in Seq(Bytes) /\ Len(s) \in Nat \ {0} /\ Len(Tail(s)) = Len(s) - 1
      /\ \A i \in 1..(Len(s) - 1) : Tail(s)[i] = s[i + 1]
      /\ Head(s) = s[1]
  OBVIOUS
<1>3. IsFiniteSet(b) BY <1>2, PendingFinite
<1>4. f \in Bijection(b, a \ {1})
  <2>1. \A i \in b : i + 1 \in a \ {1} BY <1>2
  <2>2. \A i, j \in b : f[i] = f[j] => i = j BY <1>2
  <2>3. \A j \in a \ {1} : j - 1 \in b /\ f[j - 1] = j BY <1>2
  <2>4. f \in [b -> a \ {1}] BY <2>1
  <2>5. f \in Injection(b, a \ {1})
    <3> HIDE DEF a, b, f
    <3> QED BY <2>2, <2>4 DEF Injection, IsInjective
  <2>6. f \in Surjection(b, a \ {1})
    <3> HIDE DEF a, b, f
    <3> QED BY <2>3, <2>4 DEF Surjection
  <2> HIDE DEF a, b, f
  <2> QED BY <2>5, <2>6 DEF Bijection
<1>5. Cardinality(a \ {1}) = Cardinality(b)
  <2>1. ExistsBijection(b, a \ {1}) BY <1>4 DEF ExistsBijection
  <2> HIDE DEF a, b
  <2> QED BY <1>3, <2>1, FS_Bijection
<1>6. Cardinality(a \ {1}) = IF 1 \in a THEN Cardinality(a) - 1 ELSE Cardinality(a)
  <2> HIDE DEF a
  <2> QED BY <1>1, FS_RemoveElement
<1>7. 1 \in a <=> Head(s) \in Answers BY <1>2
<1>8. 1 \in a => Cardinality(a) > 0
  <2> HIDE DEF a
  <2> QED BY <1>1, FS_EmptySet
<1> HIDE DEF a, b
<1>9. Cardinality(b) = Cardinality(a) - (IF Head(s) \in Answers THEN 1 ELSE 0)
  BY <1>1, <1>5, <1>6, <1>7
<1> QED BY <1>7, <1>8, <1>9 DEF Pending, a, b

-------------------------------------------------------------------------------
(* What the filter of the main loop has made of the first m characters of  *)
(* a line s.                                                               *)
KeptTo(s, m) == {i \in 1..m : /\ s[i] \in {"letter", ")"}
                              /\ ~InParentheses(s, i) /\ ~AfterSemicolon(s, i)}
Filtered(s, m, l, f) ==
  \/ f = {"OVERFLOW"} /\ Cardinality(KeptTo(s, m)) >= LineSize
  \/ /\ Len(l) = Cardinality(KeptTo(s, m))
     /\ \A i \in KeptTo(s, m) : l[Cardinality(KeptTo(s, i))] = s[i]
     /\ f = IF AfterSemicolon(s, m + 1) THEN {"SEMICOLON"}
            ELSE IF InParentheses(s, m + 1) THEN {"PARENTHESES"} ELSE {}

LEMMA KeptFinite ==
  ASSUME NEW s, NEW m \in Nat
  PROVE  /\ IsFiniteSet(KeptTo(s, m)) /\ Cardinality(KeptTo(s, m)) \in Nat
         /\ \A i \in KeptTo(s, m) : Cardinality(KeptTo(s, i)) \in 1..Cardinality(KeptTo(s, m))
<1>1. \A n \in Nat : IsFiniteSet(KeptTo(s, n)) /\ Cardinality(KeptTo(s, n)) \in Nat
  <2> TAKE n \in Nat
  <2>1. KeptTo(s, n) \in SUBSET (1..n) BY DEF KeptTo
  <2>2. IsFiniteSet(1..n) BY FS_Interval
  <2>3. IsFiniteSet(KeptTo(s, n)) BY <2>1, <2>2, FS_Subset
  <2> QED BY <2>3, FS_CardinalityType
<1>2. ASSUME NEW i \in KeptTo(s, m)
      PROVE  Cardinality(KeptTo(s, i)) \in 1..Cardinality(KeptTo(s, m))
  <2>1. i \in 1..m /\ i \in Nat /\ i \in KeptTo(s, i) BY DEF KeptTo
  <2>2. KeptTo(s, i) \in SUBSET KeptTo(s, m) BY <2>1 DEF KeptTo
  <2>3. Cardinality(KeptTo(s, i)) <= Cardinality(KeptTo(s, m)) BY <1>1, <2>2, FS_Subset
  <2>4. Cardinality(KeptTo(s, i)) # 0 BY <1>1, <2>1, FS_EmptySet
  <2> QED BY <1>1, <2>1, <2>3, <2>4
<1> QED BY <1>1, <1>2

(* Nothing is filtered at the beginning of a line.                         *)
LEMMA FilteredStart ==
  ASSUME NEW s PROVE Filtered(s, 0, <<>>, {})
<1>1. KeptTo(s, 0) = {} BY DEF KeptTo
<1>2. ~AfterSemicolon(s, 1) /\ ~InParentheses(s, 1) BY DEF AfterSemicolon, InParentheses
<1> QED BY <1>1, <1>2, FS_EmptySet DEF Filtered

(* It does not depend on what comes later in the line.                     *)
LEMMA FilteredPrefix ==
  ASSUME NEW s, NEW t, NEW m \in Nat, \A i \in 1..m : s[i] = t[i],
         NEW l, NEW f, Filtered(s, m, l, f)
  PROVE  Filtered(t, m, l, f)
<1>1. \A i \in 1..(m + 1) : InParentheses(s, i) = InParentheses(t, i)
  BY DEF InParentheses
<1>2. \A i \in 1..(m + 1) : AfterSemicolon(s, i) = AfterSemicolon(t, i)
  <2> TAKE i \in 1..(m + 1)
  <2>1. \A j \in 1..(i - 1) : j \in 1..(m + 1) /\ s[j] = t[j] OBVIOUS
  <2>2. \A j \in 1..(i - 1) : s[j] = ";" /\ ~InParentheses(s, j)
                              <=> t[j] = ";" /\ ~InParentheses(t, j)
    BY <1>1, <2>1
  <2> QED BY <2>2 DEF AfterSemicolon
<1>3. \A n \in 0..m : KeptTo(s, n) = KeptTo(t, n) BY <1>1, <1>2 DEF KeptTo
<1>4. \A i \in KeptTo(s, m) : i \in 1..m BY DEF KeptTo
<1> QED BY <1>1, <1>2, <1>3, <1>4 DEF Filtered

(* One character more.                                                     *)
LEMMA FilteredNext ==
  ASSUME NEW s, NEW m \in Nat, s[m + 1] \in CharKinds
  PROVE  /\ InParentheses(s, m + 2) <=>
              \/ s[m + 1] = "("
              \/ InParentheses(s, m + 1) /\ s[m + 1] # ")"
         /\ AfterSemicolon(s, m + 2) <=>
              \/ AfterSemicolon(s, m + 1)
              \/ s[m + 1] = ";" /\ ~InParentheses(s, m + 1)
         /\ Cardinality(KeptTo(s, m + 1)) =
              IF /\ s[m + 1] \in {"letter", ")"}
                 /\ ~InParentheses(s, m + 1) /\ ~AfterSemicolon(s, m + 1)
              THEN Cardinality(KeptTo(s, m)) + 1 ELSE Cardinality(KeptTo(s, m))
         /\ KeptTo(s, m + 1) =
              IF /\ s[m + 1] \in {"letter", ")"}
                 /\ ~InParentheses(s, m + 1) /\ ~AfterSemicolon(s, m + 1)
              THEN KeptTo(s, m) \cup {m + 1} ELSE KeptTo(s, m)
<1>1. InParentheses(s, m + 2) <=>
        s[m + 1] = "(" \/ (InParentheses(s, m + 1) /\ s[m + 1] # ")")
  <2>1. \A j : j \in 1..(m + 2 - 1) <=> j \in 1..(m + 1 - 1) \/ j = m + 1 OBVIOUS
  <2>2. \A j \in 1..(m + 1 - 1) : \A k : k \in j..(m + 2 - 1) <=> k \in j..(m + 1 - 1) \/ k = m + 1
    OBVIOUS
  <2>3. \A k : k \in (m + 1)..(m + 2 - 1) <=> k = m + 1 OBVIOUS
  <2> QED BY <2>1, <2>2, <2>3 DEF InParentheses
<1>2. AfterSemicolon(s, m + 2) <=>
        AfterSemicolon(s, m + 1) \/ (s[m + 1] = ";" /\ ~InParentheses(s, m + 1))
  <2>1. \A j : j \in 1..(m + 2 - 1) <=> j \in 1..(m + 1 - 1) \/ j = m + 1 OBVIOUS
  <2> DEFINE p(j) == s[j] = ";" /\ ~InParentheses(s, j)
  <2>2. AfterSemicolon(s, m + 2) <=> \E j \in 1..(m + 2 - 1) : p(j) BY DEF AfterSemicolon
  <2>3. AfterSemicolon(s, m + 1) <=> \E j \in 1..(m + 1 - 1) : p(j) BY DEF AfterSemicolon
  <2>4. p(m + 1) <=> s[m + 1] = ";" /\ ~InParentheses(s, m + 1) OBVIOUS
  <2> HIDE DEF p
  <2> QED BY <2>1, <2>2, <2>3, <2>4
<1>3. KeptTo(s, m + 1) =
        IF /\ s[m + 1] \in {"letter", ")"}
           /\ ~InParentheses(s, m + 1) /\ ~AfterSemicolon(s, m + 1)
        THEN KeptTo(s, m) \cup {m + 1} ELSE KeptTo(s, m)
  <2>1. \A j : j \in 1..(m + 1) <=> j \in 1..m \/ j = m + 1 OBVIOUS
  <2> QED BY <2>1 DEF KeptTo
<1>4. m + 1 \notin KeptTo(s, m) /\ IsFiniteSet(KeptTo(s, m)) BY KeptFinite DEF KeptTo
<1>5. Cardinality(KeptTo(s, m) \cup {m + 1}) = Cardinality(KeptTo(s, m)) + 1
  BY <1>4, FS_AddElement
<1> QED BY <1>1, <1>2, <1>3, <1>5

(* One step of the filter.                                                 *)
LEMMA FilterStep ==
  ASSUME TypeOK, Filter, NEW s, NEW m \in Nat, s[m + 1] = data,
         Filtered(s, m, line, lineFlags)
  PROVE  Filtered(s, m + 1, line', lineFlags')
<1> DEFINE n == Cardinality(KeptTo(s, m))
           keep == /\ s[m + 1] \in {"letter", ")"}
                   /\ ~InParentheses(s, m + 1) /\ ~AfterSemicolon(s, m + 1)
<1>1. data \in CharKinds BY DEF TypeOK, Chars, Filter
<1>2. /\ InParentheses(s, m + 2) <=>
           s[m + 1] = "(" \/ (InParentheses(s, m + 1) /\ s[m + 1] # ")")
      /\ AfterSemicolon(s, m + 2) <=>
           AfterSemicolon(s, m + 1) \/ (s[m + 1] = ";" /\ ~InParentheses(s, m + 1))
      /\ Cardinality(KeptTo(s, m + 1)) = IF keep THEN n + 1 ELSE n
      /\ KeptTo(s, m + 1) = IF keep THEN KeptTo(s, m) \cup {m + 1} ELSE KeptTo(s, m)
  BY <1>1, FilteredNext
<1>3. n \in Nat /\ \A i \in KeptTo(s, m) : Cardinality(KeptTo(s, i)) \in 1..n BY KeptFinite
<1>4. LineSize \in Nat \ {0} /\ line \in Seq({"letter", ")"}) /\ Len(line) \in Nat
  BY SerialAssumption DEF TypeOK
<1>5. (m + 1) + 1 = m + 2 OBVIOUS
<1> DEFINE after == AfterSemicolon(s, m + 1)  in == InParentheses(s, m + 1)
           after2 == AfterSemicolon(s, m + 2)  in2 == InParentheses(s, m + 2)
           whole == Len(line) = n /\ \A i \in KeptTo(s, m) : line[Cardinality(KeptTo(s, i))] = s[i]
           whole2 == /\ Len(line') = Cardinality(KeptTo(s, m + 1))
                     /\ \A i \in KeptTo(s, m + 1) : line'[Cardinality(KeptTo(s, i))] = s[i]
           flags2 == IF after2 THEN {"SEMICOLON"} ELSE IF in2 THEN {"PARENTHESES"} ELSE {}
<1>6. SUFFICES \/ lineFlags' = {"OVERFLOW"} /\ Cardinality(KeptTo(s, m + 1)) >= LineSize
               \/ whole2 /\ lineFlags' = flags2
  BY <1>5 DEF Filtered
<1>7. CASE lineFlags = {"OVERFLOW"} /\ n >= LineSize
  <2>1. lineFlags' = {"OVERFLOW"} BY <1>7 DEF Filter, EndsComment
  <2>2. Cardinality(KeptTo(s, m + 1)) \in {n, n + 1} BY <1>2
  <2> HIDE DEF n
  <2>3. Cardinality(KeptTo(s, m + 1)) >= LineSize BY <1>3, <1>4, <1>7, <2>2
  <2> QED BY <2>1, <2>3
<1>8. CASE whole /\ after /\ lineFlags = {"SEMICOLON"}
  <2>1. lineFlags' = {"SEMICOLON"} /\ line' = line BY <1>8 DEF Filter, EndsComment
  <2> QED BY <1>2, <1>8, <2>1
<1>9. CASE whole /\ ~after /\ in /\ lineFlags = {"PARENTHESES"}
  <2>1. lineFlags' = (IF data = ")" THEN {} ELSE {"PARENTHESES"}) /\ line' = line
    BY <1>9 DEF Filter, EndsComment
  <2> QED BY <1>2, <1>9, <2>1
<1>10. CASE whole /\ ~after /\ ~in /\ lineFlags = {}
  <2>1. CASE data \in {"blank", "(", ";"} /\ line' = line
    <3>1. whole2 BY <1>2, <1>10, <2>1
    <3>2. lineFlags' = IF data = "(" THEN {"PARENTHESES"} ELSE IF data = ";" THEN {"SEMICOLON"} ELSE {}
      BY <1>10, <2>1 DEF Filter
    <3> QED BY <1>2, <1>10, <2>1, <3>1, <3>2
  <2>2. CASE data \in {"letter", ")"} /\ Len(line) >= LineSize - 1 /\ lineFlags' = {"OVERFLOW"}
    <3>1. Cardinality(KeptTo(s, m + 1)) = n + 1 BY <1>2, <1>10, <2>2
    <3>2. Len(line) = n BY <1>10
    <3> HIDE DEF n
    <3>3. Cardinality(KeptTo(s, m + 1)) >= LineSize BY <1>3, <1>4, <2>2, <3>1, <3>2
    <3> QED BY <2>2, <3>3
  <2>3. CASE data \in {"letter", ")"} /\ line' = Append(line, data) /\ lineFlags' = lineFlags
    <3>1. /\ Len(line') = n + 1 /\ line'[n + 1] = data
          /\ \A i \in 1..n : line'[i] = line[i]
      BY <1>4, <1>10, <2>3
    <3>2. Cardinality(KeptTo(s, m + 1)) = n + 1 /\ KeptTo(s, m + 1) = KeptTo(s, m) \cup {m + 1}
      BY <1>2, <1>10, <2>3
    <3>3. \A i \in KeptTo(s, m) : line'[Cardinality(KeptTo(s, i))] = s[i]
      BY <1>3, <1>10, <3>1
    <3>4. whole2 BY <3>1, <3>2, <3>3
    <3> QED BY <1>2, <1>10, <2>3, <3>4
  <2> QED BY <1>10, <2>1, <2>2, <2>3 DEF Filter
<1> QED BY <1>7, <1>8, <1>9, <1>10 DEF Filtered

-------------------------------------------------------------------------------
(* A host that counts                                                      *)

(* The characters sent are numbered. The lines not executed and the one    *)
(* that is being sent, where each starts, and what has been read of them.  *)
Text(k) == IF k > Len(todo) THEN partial ELSE todo[k]
Older == Len(unanswered) - Len(todo)
Starts(k) == IF k > Len(todo) THEN sent - Len(partial)
             ELSE unanswered[Older + k] - Len(todo[k]) - 1
Read == sent - Len(RxContent)
Done == Read - Starts(1) - (IF pc \in {"filter", "execute"} THEN 1 ELSE 0)
Follows(content, read, p, c) == p > read => content[p - read] = c

(* The link is live unless the initialization has begun; after the         *)
(* initialization, the greeting is on its way.                             *)
Live == ~waiting \/ (reset /\ pc # "boot")
Greeting == waiting /\ ~reset /\ pc \notin {"boot", "flush", "greet"}

NoHello(s) == \A i \in 1..Len(s) : s[i] # "hello"
Phases ==
  /\ pc \notin {"write", "stored", "enable"} => out = <<>>
  /\ reset => waiting
  /\ pc \in {"boot", "flush", "greet"} => waiting
  /\ pc \in {"flush", "greet"} => ~reset
  /\ pc = "greet" => copy = rxHead
  /\ ~Greeting => NoHello(TxContent) /\ NoHello(out)
Greets ==
  Greeting =>
    /\ RxContent = <<>> /\ line = <<>> /\ lineFlags = {}
    /\ pc \in {"peek", "noData", "write", "stored", "enable"}
    /\ \/ out \in {<<"text", "hello">>, <<"hello">>} /\ NoHello(TxContent)
       \/ /\ out = <<>> /\ TxContent # <<>> /\ TxContent[Len(TxContent)] = "hello"
          /\ \A i \in 1..(Len(TxContent) - 1) : TxContent[i] # "hello"
Acknowledges == acked <= Read /\ \A i \in 1..Older : unanswered[i] <= Read
Answered ==
  /\ Len(unanswered) >= Len(todo) + Pending(TxContent) + Pending(out)
  /\ ~waiting => Len(unanswered) = Len(todo) + Pending(TxContent) + Pending(out)
Chained == \A k \in 1..Len(todo) : Starts(k + 1) = Starts(k) + Len(todo[k]) + 1
Streamed ==
  /\ \A k \in 1..(Len(todo) + 1) : \A i \in 1..Len(Text(k)) :
       Follows(RxContent, Read, Starts(k) + i, Text(k)[i])
  /\ \A k \in 1..Len(todo) : Follows(RxContent, Read, Starts(k + 1), "eol")
Consumed ==
  /\ Done \in 0..Len(Text(1))
  /\ pc = "filter" => IF Done < Len(Text(1)) THEN data = Text(1)[Done + 1]
                      ELSE data = "eol" /\ todo # <<>>
  /\ pc = "execute" => Done = Len(Text(1)) /\ todo # <<>>
  /\ Filtered(Text(1), Done, line, lineFlags)
Lives == Acknowledges /\ Answered /\ Chained /\ Streamed /\ Consumed
LinkInv == host.counts => Phases /\ Greets /\ (Live => Lives)

LEMMA LinkTypes ==
  ASSUME TypeOK
  PROVE  /\ sent \in Nat /\ acked \in Nat /\ acked <= sent
         /\ Len(todo) \in Nat /\ Len(unanswered) \in Nat /\ Len(partial) \in Nat
         /\ unanswered \in Seq(1..sent) /\ partial \in Seq(CharKinds) /\ todo \in Seq(Seq(CharKinds))
         /\ RxContent \in Seq(Chars) /\ Len(RxContent) \in 0..RxSize /\ RxSize \in Nat \ {0}
         /\ Read \in Int /\ Older \in Int
         /\ \A k \in 1..Len(todo) : todo[k] \in Seq(CharKinds) /\ Len(todo[k]) \in Nat
         /\ \A k \in 1..(Len(todo) + 1) : Text(k) \in Seq(CharKinds) /\ Len(Text(k)) \in Nat
<1>1. IsHost(host) /\ sent \in 0..host.send /\ host \in HostKinds BY HostKind DEF TypeOK
<1>2. sent \in Nat /\ acked \in 0..sent BY <1>1 DEF HostKinds, TypeOK
<1>3. unanswered \in Seq(1..sent) /\ partial \in Seq(CharKinds) /\ todo \in Seq(Seq(CharKinds))
  BY DEF TypeOK
<1>4. RxContent \in Seq(Chars) /\ Len(RxContent) \in 0..RxSize /\ RxSize \in Nat \ {0}
  <2>1. RxContent \in Seq(Chars) /\ Len(RxContent) = Used(rxHead, rxTail, RxSize) BY RxRing
  <2> QED BY <2>1, UsedSlots, SerialAssumption DEF TypeOK
<1>5. Read \in Int /\ Older \in Int BY <1>2, <1>3, <1>4 DEF Read, Older
<1>6. \A k \in 1..Len(todo) : todo[k] \in Seq(CharKinds) /\ Len(todo[k]) \in Nat BY <1>3
<1>7. \A k \in 1..(Len(todo) + 1) : Text(k) \in Seq(CharKinds) /\ Len(Text(k)) \in Nat
  BY <1>3, <1>6 DEF Text
<1> QED BY <1>2, <1>3, <1>4, <1>5, <1>6, <1>7

(* Where the lines are, if the answers are not ahead of them.              *)
LEMMA LinkPlaces ==
  ASSUME TypeOK, Older >= 0
  PROVE  /\ \A k \in 1..Len(todo) : unanswered[Older + k] \in 1..sent
         /\ \A i \in 1..Len(unanswered) : unanswered[i] \in 1..sent
         /\ \A k \in 1..(Len(todo) + 1) : Starts(k) \in Int /\ Starts(k) + Len(Text(k)) <= sent
         /\ Done \in Int
<1>1. /\ sent \in Nat /\ Len(todo) \in Nat /\ Len(unanswered) \in Nat /\ Len(partial) \in Nat
      /\ unanswered \in Seq(1..sent) /\ Read \in Int /\ Older \in Int
      /\ \A k \in 1..Len(todo) : Len(todo[k]) \in Nat
  BY LinkTypes
<1>2. \A i \in 1..Len(unanswered) : unanswered[i] \in 1..sent BY <1>1
<1>3. \A k \in 1..Len(todo) : Older + k \in 1..Len(unanswered) BY <1>1 DEF Older
<1>4. \A k \in 1..Len(todo) : unanswered[Older + k] \in 1..sent BY <1>2, <1>3
<1>5. \A k \in 1..(Len(todo) + 1) : Starts(k) \in Int /\ Starts(k) + Len(Text(k)) <= sent
  <2> TAKE k \in 1..(Len(todo) + 1)
  <2>1. CASE k > Len(todo) BY <1>1, <2>1 DEF Starts, Text
  <2>2. CASE k \in 1..Len(todo)
    <3>1. Starts(k) = unanswered[Older + k] - Len(todo[k]) - 1 /\ Text(k) = todo[k]
      BY <1>1, <2>2 DEF Starts, Text
    <3>2. unanswered[Older + k] \in 1..sent /\ Len(todo[k]) \in Nat BY <1>1, <1>4, <2>2
    <3>3. Len(Text(k)) = Len(todo[k]) /\ sent \in Nat BY <1>1, <3>1
    <3>4. Starts(k) + Len(todo[k]) = unanswered[Older + k] - 1 BY <3>1, <3>2
    <3>5. Starts(k) \in Int BY <3>1, <3>2
    <3> QED BY <3>2, <3>3, <3>4, <3>5
  <2> QED BY <1>1, <2>1, <2>2
<1>6. Done \in Int BY <1>1, <1>5 DEF Done
<1> QED BY <1>2, <1>4, <1>5, <1>6
(* A step that reads no character and ends no line moves no line.          *)
LEMMA LinkQuiet ==
  ASSUME UNCHANGED <<RxContent, sent, unanswered, todo, partial>>
  PROVE  /\ Read' = Read /\ Older' = Older
         /\ \A k : Starts(k)' = Starts(k) /\ Text(k)' = Text(k)
         /\ Chained => Chained'
         /\ Streamed => Streamed'
         /\ Acknowledges /\ acked' = acked => Acknowledges'
<1>1. Read' = Read /\ Older' = Older BY DEF Read, Older
<1>2. \A k : Starts(k)' = Starts(k) /\ Text(k)' = Text(k) BY <1>1 DEF Starts, Text
<1>3. Chained => Chained' BY <1>2 DEF Chained
<1>4. Streamed => Streamed' BY <1>1, <1>2 DEF Streamed
<1>5. Acknowledges /\ acked' = acked => Acknowledges' BY <1>1 DEF Acknowledges
<1> QED BY <1>1, <1>2, <1>3, <1>4, <1>5

LEMMA OlderPositive ==
  ASSUME TypeOK, Answered PROVE Older >= 0
<1>1. TxContent \in Seq(Bytes) /\ out \in Seq(Bytes) BY TxRing DEF TypeOK
<1>2. Pending(TxContent) \in Nat /\ Pending(out) \in Nat BY <1>1, PendingFinite
<1>3. Len(todo) \in Nat /\ Len(unanswered) \in Nat BY LinkTypes
<1> QED BY <1>2, <1>3 DEF Answered, Older

(* A step of the main program that changes only its place.                 *)
LEMMA LivesPlace ==
  ASSUME TypeOK, Lives,
         UNCHANGED <<RxContent, TxContent, hostVars, todo, out, line, lineFlags>>,
         \/ pc \notin {"filter", "execute"} /\ pc' \notin {"filter", "execute"}
         \/ pc = "filter" /\ data = "eol" /\ pc' = "execute"
         \/ UNCHANGED <<pc, data>>
  PROVE  Lives'
<1>1. UNCHANGED <<RxContent, sent, unanswered, todo, partial, acked, waiting>> BY DEF hostVars
<1>2. Chained' /\ Streamed' /\ Acknowledges' BY <1>1, LinkQuiet DEF Lives
<1>3. Answered' BY <1>1 DEF Lives, Answered
<1>4. Text(1)' = Text(1) /\ Starts(1)' = Starts(1) /\ Read' = Read BY <1>1, LinkQuiet
<1>5. Done' = Done BY <1>4 DEF Done
<1>6. pc' = "execute" => Done = Len(Text(1)) /\ todo # <<>>
  <2>1. CASE pc = "filter" /\ data = "eol"
    <3>1. Len(todo) \in Nat /\ 1 \in 1..(Len(todo) + 1) BY LinkTypes
    <3>2. Text(1) \in Seq(CharKinds) /\ Len(Text(1)) \in Nat BY <3>1, LinkTypes
    <3>3. Done \in 0..Len(Text(1)) BY DEF Lives, Consumed
    <3>4. Done < Len(Text(1)) => Text(1)[Done + 1] \in CharKinds BY <3>2, <3>3
    <3>5. "eol" \notin CharKinds BY DEF CharKinds
    <3>6. ~(Done < Len(Text(1))) BY <2>1, <3>4, <3>5 DEF Lives, Consumed
    <3> QED BY <2>1, <3>2, <3>3, <3>6 DEF Lives, Consumed
  <2>2. CASE UNCHANGED <<pc, data>> BY <2>2 DEF Lives, Consumed
  <2> QED BY <2>1, <2>2
<1>7. Consumed' BY <1>1, <1>4, <1>5, <1>6 DEF Lives, Consumed
<1> QED BY <1>2, <1>3, <1>7 DEF Lives

LEMMA FollowsTail ==
  ASSUME NEW s \in Seq(Chars), s # <<>>, NEW r \in Int, NEW q \in Int, q <= r + Len(s),
         NEW c, Follows(s, r, q, c)
  PROVE  Follows(Tail(s), r + 1, q, c)
<1>1. Len(s) \in Nat /\ \A i \in 1..(Len(s) - 1) : Tail(s)[i] = s[i + 1] OBVIOUS
<1>2. SUFFICES ASSUME q > r + 1 PROVE Tail(s)[q - (r + 1)] = c BY DEF Follows
<1>3. q - (r + 1) \in 1..(Len(s) - 1) /\ (q - (r + 1)) + 1 = q - r BY <1>1, <1>2
<1>4. s[q - r] = c BY <1>2 DEF Follows
<1> QED BY <1>1, <1>3, <1>4

LEMMA FollowsAppend ==
  ASSUME NEW s \in Seq(Chars), NEW r \in Int, NEW x \in Chars
  PROVE  /\ Follows(Append(s, x), r, r + Len(s) + 1, x)
         /\ \A q \in Int : \A c :
              q <= r + Len(s) /\ Follows(s, r, q, c) => Follows(Append(s, x), r, q, c)
<1>1. /\ Len(s) \in Nat /\ Append(s, x)[Len(s) + 1] = x
      /\ \A i \in 1..Len(s) : Append(s, x)[i] = s[i]
  OBVIOUS
<1>2. (r + Len(s) + 1) - r = Len(s) + 1 BY <1>1
<1>3. Follows(Append(s, x), r, r + Len(s) + 1, x) BY <1>1, <1>2 DEF Follows
<1>4. ASSUME NEW q \in Int, NEW c, q <= r + Len(s), Follows(s, r, q, c)
      PROVE  Follows(Append(s, x), r, q, c)
  <2>1. SUFFICES ASSUME q > r PROVE Append(s, x)[q - r] = c BY DEF Follows
  <2>2. q - r \in 1..Len(s) BY <1>1, <1>4, <2>1
  <2> QED BY <1>1, <1>4, <2>1, <2>2 DEF Follows
<1> QED BY <1>3, <1>4

(* The main program reads a character.                                     *)
LEMMA LivesAdvance ==
  ASSUME TypeOK, RxInv, Lives, Advance PROVE Lives'
<1>1. UNCHANGED <<TxContent, sent, unanswered, todo, partial, acked, waiting, out, line, lineFlags, data>>
  BY DEF Advance, TxContent, txVars, hostVars
<1>2. pc = "advance" /\ pc' = "filter" BY DEF Advance, Goto
<1>3. rxHead # rxTail /\ data = rxBuffer[rxTail] BY <1>2 DEF RxInv
<1>4. RxContent # <<>> /\ data = Head(RxContent) BY <1>3, RxTake, RxRing
<1>5. RxContent' = Tail(RxContent)
  <2>1. UNCHANGED <<rxHead, rxBuffer>> /\ rxTail' = NextIndex(rxTail, RxSize) BY DEF Advance
  <2>2. RxContent' = Content(rxBuffer, rxHead, NextIndex(rxTail, RxSize), RxSize)
    BY <2>1 DEF RxContent
  <2> QED BY <1>3, <2>2, RxTake
<1> DEFINE n == Len(RxContent)
<1>6. /\ n \in Nat /\ n > 0 /\ Len(RxContent') = n - 1 /\ data = RxContent[1]
      /\ \A i \in 1..(n - 1) : RxContent'[i] = RxContent[i + 1]
  BY <1>4, <1>5, LinkTypes
<1>7. /\ sent \in Nat /\ Read \in Int /\ Read = sent - n /\ Read' = Read + 1 /\ Read < sent
  BY <1>1, <1>6, LinkTypes DEF Read
<1>8. Older >= 0 /\ Older \in Int /\ Older' = Older BY <1>1, OlderPositive, LinkTypes DEF Lives, Older
<1>9. \A k : Starts(k)' = Starts(k) /\ Text(k)' = Text(k) BY <1>1, <1>8 DEF Starts, Text
<1>10. Acknowledges'
  <2>1. \A i \in 1..Older : unanswered[i] \in 1..sent
    <3>1. \A i \in 1..Older : i \in 1..Len(unanswered) BY <1>8, LinkTypes DEF Older
    <3> QED BY <1>8, <3>1, LinkPlaces
  <2>2. acked \in Nat BY LinkTypes
  <2> QED BY <1>1, <1>7, <1>8, <2>1, <2>2 DEF Lives, Acknowledges
<1>11. Answered' BY <1>1 DEF Lives, Answered
<1>12. Chained' BY <1>1, <1>9 DEF Lives, Chained
<1>13. \A k \in 1..(Len(todo) + 1) : /\ Starts(k) \in Int /\ Starts(k) + Len(Text(k)) <= sent
                                     /\ Len(Text(k)) \in Nat
  BY <1>8, LinkPlaces, LinkTypes
<1>14. ASSUME NEW q \in Int, q <= sent, NEW c, Follows(RxContent, Read, q, c)
       PROVE  Follows(RxContent', Read', q, c)
  <2>1. q <= Read + Len(RxContent) /\ RxContent \in Seq(Chars) /\ RxContent # <<>> /\ Read \in Int
    BY <1>4, <1>7, <1>6, <1>14, LinkTypes
  <2>2. Follows(RxContent, Read, q, c) BY <1>14
  <2> HIDE DEF n
  <2>3. Follows(Tail(RxContent), Read + 1, q, c) BY <2>1, <2>2, FollowsTail
  <2> QED BY <1>5, <1>7, <2>3
<1>15. Streamed'
  <2>1. ASSUME NEW k \in 1..(Len(todo) + 1), NEW i \in 1..Len(Text(k))
        PROVE  Follows(RxContent', Read', Starts(k) + i, Text(k)[i])
    <3>1. Follows(RxContent, Read, Starts(k) + i, Text(k)[i]) BY DEF Lives, Streamed
    <3>2. Starts(k) + i \in Int /\ Starts(k) + i <= sent BY <1>7, <1>13
    <3> QED BY <3>1, <3>2, <1>14
  <2>2. ASSUME NEW k \in 1..Len(todo)
        PROVE  Follows(RxContent', Read', Starts(k + 1), "eol")
    <3>1. Follows(RxContent, Read, Starts(k + 1), "eol") BY DEF Lives, Streamed
    <3>2. k + 1 \in 1..(Len(todo) + 1) BY LinkTypes
    <3>3. Starts(k + 1) \in Int /\ Starts(k + 1) <= sent BY <3>2, <1>7, <1>13
    <3> QED BY <3>1, <3>3, <1>14
  <2> QED BY <1>1, <1>9, <2>1, <2>2 DEF Streamed
<1>16. Consumed'
  <2>1. Len(todo) \in Nat /\ 1 \in 1..(Len(todo) + 1) BY LinkTypes
  <2>2. Text(1) \in Seq(CharKinds) /\ Len(Text(1)) \in Nat /\ Starts(1) \in Int
        /\ Starts(1) + Len(Text(1)) <= sent
    BY <2>1, <1>13, LinkTypes
  <2>3. Done = Read - Starts(1) /\ Done' = Done BY <1>2, <1>7, <1>9, <2>2 DEF Done
  <2>4. Done \in 0..Len(Text(1)) BY DEF Lives, Consumed
  <2>5. CASE Done < Len(Text(1))
    <3>1. Done + 1 \in 1..Len(Text(1)) /\ Starts(1) + (Done + 1) = Read + 1 BY <1>7, <2>2, <2>3, <2>4, <2>5
    <3>2. Follows(RxContent, Read, Starts(1) + (Done + 1), Text(1)[Done + 1])
      BY <2>1, <3>1 DEF Lives, Streamed
    <3>3. data = Text(1)[Done + 1] BY <1>6, <1>7, <3>1, <3>2 DEF Follows
    <3> QED BY <1>1, <1>2, <1>9, <2>3, <2>5, <3>3 DEF Lives, Consumed
  <2>6. CASE Done = Len(Text(1))
    <3>1. todo # <<>>
      <4>1. SUFFICES ASSUME todo = <<>> PROVE FALSE OBVIOUS
      <4>2. Len(todo) = 0 BY <4>1
      <4>3. Starts(1) = sent - Len(partial) /\ Text(1) = partial BY <4>2 DEF Starts, Text
      <4>4. Read = sent BY <1>7, <2>2, <2>3, <2>6, <4>3
      <4> QED BY <1>7, <4>4
    <3>2. 1 \in 1..Len(todo) /\ 1 + 1 \in 1..(Len(todo) + 1) BY <3>1, LinkTypes
    <3>3. Text(1) = todo[1] BY <3>2 DEF Text
    <3>4. Starts(1 + 1) = Starts(1) + Len(Text(1)) + 1 BY <3>2, <3>3 DEF Lives, Chained
    <3>5. Starts(1 + 1) = Read + 1 BY <1>7, <2>2, <2>3, <2>6, <3>4
    <3>6. Follows(RxContent, Read, Starts(1 + 1), "eol") BY <3>2 DEF Lives, Streamed
    <3>7. data = "eol" BY <1>6, <1>7, <3>5, <3>6 DEF Follows
    <3> QED BY <1>1, <1>2, <1>9, <2>2, <2>3, <2>6, <3>1, <3>7 DEF Lives, Consumed
  <2> QED BY <2>2, <2>4, <2>5, <2>6
<1> QED BY <1>10, <1>11, <1>12, <1>15, <1>16 DEF Lives
LEMMA LivesFilter ==
  ASSUME TypeOK, Lives, Filter PROVE Lives'
<1>1. /\ UNCHANGED <<RxContent, TxContent, sent, unanswered, todo, partial, acked, waiting, out, data>>
      /\ pc = "filter" /\ data # "eol" /\ pc' = "peek"
  BY DEF Filter, RxContent, TxContent, rxVars, txVars, hostVars, Goto
<1>2. Chained' /\ Streamed' /\ Acknowledges' BY <1>1, LinkQuiet DEF Lives
<1>3. Answered' BY <1>1 DEF Lives, Answered
<1>4. Text(1)' = Text(1) /\ Starts(1)' = Starts(1) /\ Read' = Read BY <1>1, LinkQuiet
<1>5. Older >= 0 /\ Len(todo) \in Nat /\ 1 \in 1..(Len(todo) + 1) /\ Read \in Int
  BY OlderPositive, LinkTypes DEF Lives
<1>6. Starts(1) \in Int BY <1>5, LinkPlaces
<1>7. Text(1) \in Seq(CharKinds) /\ Len(Text(1)) \in Nat BY <1>5, LinkTypes
<1>8. Done' = Done + 1 /\ Done \in 0..Len(Text(1))
  BY <1>1, <1>4, <1>5, <1>6, <1>7 DEF Done, Lives, Consumed
<1>9. Done < Len(Text(1)) /\ data = Text(1)[Done + 1] BY <1>1, <1>8 DEF Lives, Consumed
<1>10. Filtered(Text(1), Done + 1, line', lineFlags')
  <2>1. Filtered(Text(1), Done, line, lineFlags) BY DEF Lives, Consumed
  <2>2. Done \in Nat /\ Text(1)[Done + 1] = data BY <1>7, <1>8, <1>9
  <2> QED BY <2>1, <2>2, FilterStep
<1>11. Done + 1 \in 0..Len(Text(1)) BY <1>7, <1>8, <1>9
<1>12. Consumed' BY <1>1, <1>4, <1>8, <1>10, <1>11 DEF Consumed
<1> QED BY <1>2, <1>3, <1>12 DEF Lives

LEMMA PendingAnswer ==
  ASSUME NEW a \in Answers PROVE Pending(<<"text", a>>) = 1 /\ NoHello(<<"text", a>>)
<1>1. "text" \notin Answers BY DEF Answers
<1>2. Len(<<"text", a>>) = 2 /\ <<"text", a>>[1] = "text" /\ <<"text", a>>[2] = a OBVIOUS
<1>3. {i \in 1..Len(<<"text", a>>) : <<"text", a>>[i] \in Answers} = {2} BY <1>1, <1>2
<1>4. Pending(<<"text", a>>) = 1 BY <1>3, FS_Singleton DEF Pending
<1>5. NoHello(<<"text", a>>)
  <2>1. a # "hello" BY DEF Answers
  <2>2. \A i \in 1..Len(<<"text", a>>) : i = 1 \/ i = 2 OBVIOUS
  <2> QED BY <2>1, <2>2 DEF NoHello
<1> QED BY <1>4, <1>5

(* The line has been executed: the next one is the first.                  *)
LEMMA LivesExecute ==
  ASSUME TypeOK, Lives, out = <<>>, Execute PROVE Lives'
<1>1. /\ UNCHANGED <<RxContent, TxContent, sent, unanswered, partial, acked, waiting>>
      /\ pc = "execute" /\ pc' = "write" /\ line' = <<>> /\ lineFlags' = {}
  BY DEF Execute, RxContent, TxContent, rxVars, txVars, hostVars, Goto
<1>2. PICK a \in Answers : out' = <<"text", a>> BY DEF Execute, Answers
<1>3. Done = Len(Text(1)) /\ todo # <<>> BY <1>1 DEF Lives, Consumed
<1>4. todo' = Tail(todo) BY <1>3 DEF Execute
<1> DEFINE n == Len(todo)
<1>5. /\ n \in Nat /\ n > 0 /\ Len(todo') = n - 1
      /\ \A k \in 1..(n - 1) : todo'[k] = todo[k + 1]
  BY <1>3, <1>4, LinkTypes
<1>6. Older >= 0 /\ Older \in Int /\ Older' = Older + 1 /\ Read' = Read /\ Read \in Int
  BY <1>1, <1>5, OlderPositive, LinkTypes DEF Lives, Older, Read
<1>7. \A k \in 1..n : Text(k)' = Text(k + 1) /\ Starts(k)' = Starts(k + 1)
  <2> TAKE k \in 1..n
  <2>1. CASE k = n
    <3>1. k > n - 1 /\ k + 1 > n BY <1>5, <2>1
    <3> QED BY <1>1, <1>5, <3>1 DEF Text, Starts
  <2>2. CASE k \in 1..(n - 1)
    <3>1. ~(k > n - 1) /\ ~(k + 1 > n) /\ todo'[k] = todo[k + 1] BY <1>5, <2>2
    <3>2. Older' + k = Older + (k + 1) BY <1>5, <1>6
    <3> QED BY <1>1, <1>5, <3>1, <3>2 DEF Text, Starts
  <2> QED BY <1>5, <2>1, <2>2
<1>8. /\ Starts(1) \in Int /\ Text(1) \in Seq(CharKinds) /\ Len(Text(1)) \in Nat
      /\ 1 \in 1..n /\ Text(1) = todo[1]
  <2>1. 1 \in 1..(n + 1) /\ 1 \in 1..n /\ ~(1 > n) BY <1>5
  <2> QED BY <1>5, <1>6, <2>1, LinkPlaces, LinkTypes DEF Text
<1>9. Starts(2) = Read
  <2>1. Starts(1 + 1) = Starts(1) + Len(todo[1]) + 1 BY <1>8 DEF Lives, Chained
  <2>2. Done = Read - Starts(1) - 1 BY <1>1 DEF Done
  <2> QED BY <1>3, <1>6, <1>8, <2>1, <2>2
<1>10. Starts(1)' = Read /\ Done' = 0
  <2>1. Starts(1)' = Starts(2) BY <1>5, <1>7
  <2>2. Starts(1)' = Read BY <1>9, <2>1
  <2> QED BY <1>1, <1>6, <2>2 DEF Done
<1>11. Acknowledges'
  <2>1. unanswered[Older + 1] = Read
    <3>1. Starts(1) = unanswered[Older + 1] - Len(todo[1]) - 1 BY <1>5 DEF Starts
    <3>2. unanswered[Older + 1] \in Int /\ Len(todo[1]) \in Nat BY <1>6, <1>8, LinkPlaces, LinkTypes
    <3>3. Done = Read - Starts(1) - 1 BY <1>1 DEF Done
    <3> QED BY <1>3, <1>6, <1>8, <3>1, <3>2, <3>3
  <2>2. \A i \in 1..(Older + 1) : i \in 1..Older \/ i = Older + 1 BY <1>6
  <2> QED BY <1>1, <1>6, <2>1, <2>2 DEF Lives, Acknowledges
<1>12. Answered'
  <2>1. TxContent \in Seq(Bytes) BY TxRing
  <2>2. Pending(TxContent) \in Nat /\ Pending(out) = 0 /\ Pending(out') = 1
    BY <1>2, <2>1, PendingAnswer, PendingNone, PendingFinite
  <2>3. Len(unanswered) >= n + Pending(TxContent) /\ Len(unanswered) \in Nat
    BY <1>5, <2>2, LinkTypes DEF Lives, Answered
  <2>4. ~waiting => Len(unanswered) = n + Pending(TxContent) BY <1>5, <2>2 DEF Lives, Answered
  <2>5. Len(todo') + Pending(TxContent) + Pending(out') = n + Pending(TxContent)
    BY <1>5, <2>2
  <2> QED BY <1>1, <2>3, <2>4, <2>5 DEF Answered
<1>13. Chained'
  <2>1. SUFFICES ASSUME NEW k \in 1..(n - 1)
                 PROVE  Starts(k + 1)' = Starts(k)' + Len(todo'[k]) + 1
    BY <1>5 DEF Chained
  <2>2. k \in 1..n /\ k + 1 \in 1..n BY <1>5
  <2>3. Starts(k)' = Starts(k + 1) /\ Starts(k + 1)' = Starts((k + 1) + 1) BY <1>7, <2>2
  <2>4. Starts((k + 1) + 1) = Starts(k + 1) + Len(todo[k + 1]) + 1 BY <2>2 DEF Lives, Chained
  <2> QED BY <1>5, <2>3, <2>4
<1>14. Streamed'
  <2>1. ASSUME NEW k \in 1..n, NEW i \in 1..Len(Text(k)')
        PROVE  Follows(RxContent, Read, Starts(k)' + i, Text(k)'[i])
    <3>1. k + 1 \in 1..(n + 1) /\ Text(k)' = Text(k + 1) /\ Starts(k)' = Starts(k + 1) BY <1>5, <1>7
    <3> QED BY <3>1 DEF Lives, Streamed
  <2>2. ASSUME NEW k \in 1..(n - 1)
        PROVE  Follows(RxContent, Read, Starts(k + 1)', "eol")
    <3>1. k + 1 \in 1..n BY <1>5
    <3>2. Starts(k + 1)' = Starts((k + 1) + 1) BY <1>7, <3>1
    <3> QED BY <3>1, <3>2 DEF Lives, Streamed
  <2>3. (n - 1) + 1 = n BY <1>5
  <2> QED BY <1>1, <1>5, <1>6, <2>1, <2>2, <2>3 DEF Streamed
<1>15. Consumed'
  <2>1. Len(Text(1)') \in Nat
    <3>1. 1 + 1 \in 1..(n + 1) /\ Text(1)' = Text(1 + 1) BY <1>7, <1>8, <1>5
    <3> QED BY <3>1, LinkTypes
  <2>2. Filtered(Text(1)', 0, <<>>, {}) BY FilteredStart
  <2> QED BY <1>1, <1>10, <2>1, <2>2 DEF Consumed
<1> QED BY <1>11, <1>12, <1>13, <1>14, <1>15 DEF Lives

LEMMA PendingTypes ==
  ASSUME TypeOK
  PROVE  /\ TxContent \in Seq(Bytes) /\ out \in Seq(Bytes)
         /\ Pending(TxContent) \in Nat /\ Pending(out) \in Nat
BY TxRing, PendingFinite DEF TypeOK

(* A byte of the answer goes into the transmit ring, or is dropped.        *)
LEMMA LivesOut ==
  ASSUME TypeOK, Lives, UNCHANGED <<rxVars, hostVars, todo, line, lineFlags, data>>, out # <<>>,
         {pc, pc'} \cap {"filter", "execute"} = {},
         out' = Tail(out),
         \/ TxContent' = Append(TxContent, Head(out))
         \/ waiting /\ TxContent' = TxContent
  PROVE  Lives'
<1>1. UNCHANGED <<RxContent, sent, unanswered, todo, partial, acked, waiting>>
  BY DEF rxVars, hostVars, RxContent
<1>2. Chained' /\ Streamed' /\ Acknowledges' BY <1>1, LinkQuiet DEF Lives
<1>3. Text(1)' = Text(1) /\ Starts(1)' = Starts(1) /\ Read' = Read BY <1>1, LinkQuiet
<1>4. Consumed'
  <2>1. Done' = Done BY <1>3 DEF Done
  <2> QED BY <1>3, <2>1 DEF Lives, Consumed
<1>5. Answered'
  <2> DEFINE x == IF Head(out) \in Answers THEN 1 ELSE 0
  <2>1. Head(out) \in Bytes BY HeadTailProperties DEF TypeOK
  <2>2. Pending(out') = Pending(out) - x BY PendingTypes, PendingTail
  <2>3. TxContent' = Append(TxContent, Head(out)) => Pending(TxContent') = Pending(TxContent) + x
    BY <2>1, PendingTypes, PendingAppend
  <2>4. Pending(TxContent) \in Nat /\ Pending(out) \in Nat BY PendingTypes
  <2>5. Len(unanswered) \in Nat /\ Len(todo) \in Nat BY LinkTypes
  <2>6. x \in {0, 1} OBVIOUS
  <2> HIDE DEF x
  <2> QED BY <1>1, <2>2, <2>3, <2>4, <2>5, <2>6 DEF Lives, Answered
<1> QED BY <1>2, <1>4, <1>5 DEF Lives

(* The host takes a byte. An answer is one to a line that was executed.    *)
LEMMA LivesUdre ==
  ASSUME TypeOK, TxInv, Lives, NoHello(TxContent), Udre PROVE Lives'
<1>1. UNCHANGED <<RxContent, sent, out, line, lineFlags, pc, data>>
  BY DEF Udre, rxVars, mainVars, RxContent
<1>2. TxContent # <<>> /\ heard' = Head(TxContent) /\ TxContent' = Tail(TxContent) BY Transmitted
<1>3. heard' # "hello"
  <2>1. Head(TxContent) = TxContent[1] /\ 1 \in 1..Len(TxContent) BY <1>2, PendingTypes
  <2> QED BY <1>2, <2>1 DEF NoHello
<1>4. UNCHANGED <<waiting, partial, todo>> BY <1>3 DEF Udre
<1>5. /\ Pending(TxContent') = Pending(TxContent) - (IF heard' \in Answers THEN 1 ELSE 0)
      /\ heard' \in Answers => Pending(TxContent) > 0
  BY <1>2, PendingTypes, PendingTail
<1>6. Pending(TxContent) \in Nat /\ Pending(out) \in Nat BY PendingTypes
<1>7. Older >= 0 /\ Older \in Int /\ Len(todo) \in Nat /\ Len(unanswered) \in Nat
  BY OlderPositive, LinkTypes DEF Lives
<1>8. CASE heard' = "text"
  <2>1. UNCHANGED <<acked, unanswered>> /\ heard' \notin Answers BY <1>8 DEF Udre, Answers
  <2>2. Chained' /\ Streamed' /\ Acknowledges' BY <1>1, <1>4, <2>1, LinkQuiet DEF Lives
  <2>3. Answered' BY <1>1, <1>4, <1>5, <1>6, <2>1 DEF Lives, Answered
  <2>4. Text(1)' = Text(1) /\ Starts(1)' = Starts(1) /\ Read' = Read BY <1>1, <1>4, <2>1, LinkQuiet
  <2>5. Consumed' BY <1>1, <1>4, <2>4 DEF Lives, Consumed, Done
  <2> QED BY <2>2, <2>3, <2>5 DEF Lives
<1>9. CASE heard' \in Answers
  <2> DEFINE n == Len(unanswered)
  <2>1. n > 0 /\ Older > 0
    <3>1. n >= Len(todo) + Pending(TxContent) + Pending(out) BY DEF Lives, Answered
    <3> QED BY <1>5, <1>6, <1>7, <1>9, <3>1 DEF Older
  <2>2. unanswered # <<>> BY <2>1
  <2>3. unanswered' = Tail(unanswered) /\ acked' = Head(unanswered)
    BY <1>3, <1>9, <2>2 DEF Udre, Answers
  <2>4. /\ Len(unanswered') = n - 1 /\ acked' = unanswered[1]
        /\ \A i \in 1..(n - 1) : unanswered'[i] = unanswered[i + 1]
    BY <2>2, <2>3, LinkTypes
  <2>5. Older' = Older - 1 /\ Read' = Read BY <1>1, <1>4, <1>7, <2>4 DEF Older, Read
  <2>6. \A k \in 1..(Len(todo) + 1) : Text(k)' = Text(k) /\ Starts(k)' = Starts(k)
    <3> TAKE k \in 1..(Len(todo) + 1)
    <3>1. Text(k)' = Text(k) BY <1>4 DEF Text
    <3>2. CASE k > Len(todo) BY <1>1, <1>4, <3>1, <3>2 DEF Starts
    <3>3. CASE k <= Len(todo)
      <4>1. (Older - 1) + k \in 1..(n - 1) /\ ((Older - 1) + k) + 1 = Older + k
        BY <1>7, <2>1, <3>3 DEF Older
      <4>2. unanswered'[Older' + k] = unanswered[Older + k] BY <2>4, <2>5, <4>1
      <4>3. ~(k > Len(todo)) BY <1>7, <3>3
      <4> QED BY <1>4, <3>1, <4>2, <4>3 DEF Starts
    <3> QED BY <1>7, <3>1, <3>2, <3>3
  <2>7. Acknowledges'
    <3>1. acked' <= Read BY <1>7, <2>1, <2>4 DEF Lives, Acknowledges
    <3>2. ASSUME NEW i \in 1..(Older - 1) PROVE unanswered'[i] <= Read
      <4>1. i + 1 \in 1..Older /\ i \in 1..(n - 1) BY <1>7, <2>1 DEF Older
      <4> QED BY <2>4, <4>1 DEF Lives, Acknowledges
    <3> QED BY <2>5, <3>1, <3>2 DEF Acknowledges
  <2>8. Answered'
    <3>1. Pending(TxContent') = Pending(TxContent) - 1 BY <1>5, <1>9
    <3>2. Len(unanswered') = n - 1 BY <2>4
    <3> HIDE DEF n
    <3>3. n >= Len(todo) + Pending(TxContent) + Pending(out) BY DEF n, Lives, Answered
    <3>4. ~waiting => n = Len(todo) + Pending(TxContent) + Pending(out) BY DEF n, Lives, Answered
    <3>5. n \in Nat BY <1>7 DEF n
    <3>6. Len(unanswered') >= Len(todo) + Pending(TxContent') + Pending(out)
      BY <1>6, <1>7, <3>1, <3>2, <3>3, <3>5
    <3>7. ~waiting => Len(unanswered') = Len(todo) + Pending(TxContent') + Pending(out)
      BY <1>6, <1>7, <3>1, <3>2, <3>4, <3>5
    <3> QED BY <1>1, <1>4, <3>6, <3>7 DEF Answered
  <2>9. Chained'
    <3>1. ASSUME NEW k \in 1..Len(todo) PROVE Starts(k + 1)' = Starts(k)' + Len(todo[k]) + 1
      <4>1. k \in 1..(Len(todo) + 1) /\ k + 1 \in 1..(Len(todo) + 1) BY <1>7
      <4> QED BY <2>6, <4>1 DEF Lives, Chained
    <3> QED BY <1>4, <3>1 DEF Chained
  <2>10. Streamed'
    <3>1. ASSUME NEW k \in 1..(Len(todo) + 1), NEW i \in 1..Len(Text(k)')
          PROVE  Follows(RxContent, Read, Starts(k)' + i, Text(k)'[i])
      BY <2>6 DEF Lives, Streamed
    <3>2. ASSUME NEW k \in 1..Len(todo) PROVE Follows(RxContent, Read, Starts(k + 1)', "eol")
      <4>1. k + 1 \in 1..(Len(todo) + 1) BY <1>7
      <4> QED BY <2>6, <4>1 DEF Lives, Streamed
    <3> QED BY <1>1, <1>4, <2>5, <3>1, <3>2 DEF Streamed
  <2>11. Consumed'
    <3>1. 1 \in 1..(Len(todo) + 1) BY <1>7
    <3>2. Done' = Done BY <1>1, <2>5, <2>6, <3>1 DEF Done
    <3> QED BY <1>1, <1>4, <2>6, <3>1, <3>2 DEF Lives, Consumed
  <2> QED BY <2>7, <2>8, <2>9, <2>10, <2>11 DEF Lives
<1>10. heard' = "text" \/ heard' \in Answers BY <1>3 DEF Udre
<1> QED BY <1>8, <1>9, <1>10

(* A reset on its way: the answers that follow may be dropped.             *)
LEMMA LivesReset ==
  ASSUME TypeOK, Lives, ~waiting, ReceiveReset PROVE Lives'
<1>1. UNCHANGED <<RxContent, TxContent, sent, unanswered, todo, partial, acked,
                  out, line, lineFlags, pc, data>> /\ waiting'
  BY DEF ReceiveReset, rxVars, txVars, mainVars, RxContent, TxContent
<1>2. Chained' /\ Streamed' /\ Acknowledges' BY <1>1, LinkQuiet DEF Lives
<1>3. Answered' BY <1>1 DEF Lives, Answered
<1>4. Text(1)' = Text(1) /\ Starts(1)' = Starts(1) /\ Read' = Read BY <1>1, LinkQuiet
<1>5. Consumed' BY <1>1, <1>4 DEF Lives, Consumed, Done
<1> QED BY <1>2, <1>3, <1>5 DEF Lives

(* A host that counts finds room in the receive ring.                      *)
LEMMA RoomToReceive ==
  ASSUME TypeOK, acked <= Read, Unanswered < RxSize PROVE ~RxFull
<1>1. /\ sent \in Nat /\ acked \in Nat /\ Len(RxContent) \in Nat /\ RxSize \in Nat \ {0}
      /\ rxHead \in 0..RxSize /\ rxTail \in 0..RxSize
  BY LinkTypes DEF TypeOK
<1>2. Len(RxContent) < RxSize BY <1>1 DEF Read, Unanswered
<1>3. Used(rxHead, rxTail, RxSize) = Len(RxContent) BY RxRing
<1>4. RxFull <=> Used(rxHead, rxTail, RxSize) = RxSize
  <2>1. RxSize \in Nat \ {0} /\ rxHead \in 0..RxSize /\ rxTail \in 0..RxSize BY <1>1
  <2>2. Used(rxHead, rxTail, RxSize) = RxSize <=> NextIndex(rxHead, RxSize) = rxTail
    BY <2>1, UsedSlots
  <2> QED BY <2>2 DEF RxFull
<1> QED BY <1>1, <1>2, <1>3, <1>4

(* The host sends a character: of the last line, or the end of it.         *)
LEMMA LivesReceive ==
  ASSUME TypeOK, Lives, host.counts, NEW c \in Chars, Receive(c) PROVE Lives'
<1>1. /\ UNCHANGED <<TxContent, acked, waiting, out, line, lineFlags, pc, data>>
      /\ sent' = sent + 1 /\ ~waiting
  BY DEF Receive, MaySend, txVars, mainVars, TxContent
<1>2. ~RxFull BY RoomToReceive DEF Lives, Acknowledges, Receive, MaySend
<1>3. RxContent' = Append(RxContent, c) BY <1>2, Received
<1> DEFINE n == Len(todo)  m == Len(unanswered)
<1>4. /\ sent \in Nat /\ n \in Nat /\ m \in Nat /\ Len(partial) \in Nat /\ Read \in Int
      /\ Older \in Int /\ Older >= 0 /\ Older = m - n
      /\ RxContent \in Seq(Chars) /\ Len(RxContent) \in Nat /\ Read + Len(RxContent) = sent
      /\ unanswered \in Seq(1..sent) /\ partial \in Seq(CharKinds) /\ todo \in Seq(Seq(CharKinds))
  BY OlderPositive, LinkTypes DEF Lives, Read, Older
<1>5. Read' = Read BY <1>1, <1>3, <1>4 DEF Read
<1>6. \A k \in 1..(n + 1) : /\ Starts(k) \in Int /\ Starts(k) + Len(Text(k)) <= sent
                            /\ Text(k) \in Seq(CharKinds) /\ Len(Text(k)) \in Nat
  BY <1>4, LinkPlaces, LinkTypes
<1>7. ASSUME NEW q \in Int, NEW x, q <= sent, Follows(RxContent, Read, q, x)
      PROVE  Follows(RxContent', Read, q, x)
  <2>1. \A p \in Int : \A y : p <= Read + Len(RxContent) /\ Follows(RxContent, Read, p, y)
          => Follows(Append(RxContent, c), Read, p, y)
    BY <1>4, FollowsAppend
  <2> QED BY <1>3, <1>4, <1>7, <2>1
<1>8. Follows(RxContent', Read, sent + 1, c) BY <1>3, <1>4, FollowsAppend
<1>9. /\ \A k \in 1..(n + 1) : \A i \in 1..Len(Text(k)) :
           Follows(RxContent', Read, Starts(k) + i, Text(k)[i])
      /\ \A k \in 1..n : Follows(RxContent', Read, Starts(k + 1), "eol")
  <2>1. ASSUME NEW k \in 1..(n + 1), NEW i \in 1..Len(Text(k))
        PROVE  Follows(RxContent', Read, Starts(k) + i, Text(k)[i])
    <3>1. Starts(k) + i \in Int /\ Starts(k) + i <= sent BY <1>4, <1>6
    <3>2. Follows(RxContent, Read, Starts(k) + i, Text(k)[i]) BY DEF Lives, Streamed
    <3> QED BY <1>7, <3>1, <3>2
  <2>2. ASSUME NEW k \in 1..n PROVE Follows(RxContent', Read, Starts(k + 1), "eol")
    <3>1. k + 1 \in 1..(n + 1) BY <1>4
    <3>2. Starts(k + 1) \in Int /\ Starts(k + 1) <= sent BY <1>4, <1>6, <3>1
    <3>3. Follows(RxContent, Read, Starts(k + 1), "eol") BY DEF Lives, Streamed
    <3> QED BY <1>7, <3>2, <3>3
  <2> QED BY <2>1, <2>2
<1>10. CASE c # "eol"
  <2>1. partial' = Append(partial, c) /\ UNCHANGED <<unanswered, todo>> BY <1>10 DEF Receive
  <2>2. c \in CharKinds BY <1>10 DEF Chars
  <2>3. /\ Len(partial') = Len(partial) + 1 /\ partial'[Len(partial) + 1] = c
        /\ \A i \in 1..Len(partial) : partial'[i] = partial[i]
    BY <1>4, <2>1, <2>2
  <2>4. Older' = Older BY <2>1 DEF Older
  <2>5. \A k \in 1..(n + 1) : Starts(k)' = Starts(k)
    <3> TAKE k \in 1..(n + 1)
    <3>1. CASE k > n
      <4>1. Starts(k)' = (sent + 1) - (Len(partial) + 1) BY <1>1, <2>1, <2>3, <3>1 DEF Starts
      <4>2. Starts(k) = sent - Len(partial) BY <3>1 DEF Starts
      <4> QED BY <1>4, <4>1, <4>2
    <3>2. CASE ~(k > n) BY <2>1, <2>4, <3>2 DEF Starts
    <3> QED BY <3>1, <3>2
  <2>6. \A k \in 1..n : Text(k)' = Text(k)
    <3> TAKE k \in 1..n
    <3>1. ~(k > n) BY <1>4
    <3> QED BY <2>1, <3>1 DEF Text
  <2>7. \A k \in Nat : k = n + 1 => /\ Text(k)' = partial' /\ Text(k) = partial
                                   /\ Starts(k) = sent - Len(partial)
    <3> TAKE k \in Nat
    <3>1. k = n + 1 => k > n BY <1>4
    <3> QED BY <2>1, <3>1 DEF Text, Starts
  <2>8. Acknowledges' BY <1>1, <1>5, <2>1, <2>4 DEF Lives, Acknowledges
  <2>9. Answered' BY <1>1, <2>1 DEF Lives, Answered
  <2>10. Chained'
    <3>1. ASSUME NEW k \in 1..n PROVE Starts(k + 1)' = Starts(k)' + Len(todo[k]) + 1
      <4>1. k \in 1..(n + 1) /\ k + 1 \in 1..(n + 1) BY <1>4
      <4> QED BY <2>5, <4>1 DEF Lives, Chained
    <3> QED BY <2>1, <3>1 DEF Chained
  <2>11. Streamed'
    <3>1. ASSUME NEW k \in 1..(n + 1), NEW i \in 1..Len(Text(k)')
          PROVE  Follows(RxContent', Read', Starts(k)' + i, Text(k)'[i])
      <4>1. CASE k \in 1..n BY <1>5, <1>9, <2>5, <2>6, <4>1
      <4>2. CASE k = n + 1 /\ i \in 1..Len(partial)
        <5>5. Text(k)' = partial' /\ Text(k) = partial BY <1>4, <2>7, <4>2
        <5>1. Text(k)'[i] = Text(k)[i] /\ i \in 1..Len(Text(k)) BY <2>3, <4>2, <5>5
        <5> QED BY <1>5, <1>9, <2>5, <5>1
      <4>3. CASE k = n + 1 /\ i = Len(partial) + 1
        <5>1. Text(k)'[i] = c BY <1>4, <2>3, <2>7, <4>3
        <5>3. Starts(k)' = sent - Len(partial) /\ i = Len(partial) + 1 BY <1>4, <2>5, <2>7, <4>3
        <5>2. Starts(k)' + i = sent + 1 BY <1>4, <5>3
        <5> QED BY <1>5, <1>8, <5>1, <5>2
      <4>4. k = n + 1 => i \in 1..(Len(partial) + 1) BY <1>4, <2>3, <2>7
      <4> QED BY <1>4, <4>1, <4>2, <4>3, <4>4
    <3>2. ASSUME NEW k \in 1..n PROVE Follows(RxContent', Read', Starts(k + 1)', "eol")
      <4>1. k + 1 \in 1..(n + 1) BY <1>4
      <4> QED BY <1>5, <1>9, <2>5, <4>1
    <3> QED BY <2>1, <3>1, <3>2 DEF Streamed
  <2>12. Consumed'
    <3>1. 1 \in 1..(n + 1) BY <1>4
    <3>2. Done' = Done BY <1>1, <1>5, <2>5, <3>1 DEF Done
    <3>3. CASE n > 0
      <4>1. Text(1)' = Text(1) BY <1>4, <2>6, <3>3
      <4> QED BY <1>1, <2>1, <3>2, <4>1 DEF Lives, Consumed
    <3>4. CASE n = 0
      <4>1. Text(1)' = partial' /\ Text(1) = partial
        <5>1. 1 \in Nat /\ 1 = n + 1 BY <1>4, <3>4
        <5> QED BY <2>7, <5>1
      <4>2. todo = <<>> BY <1>4, <3>4
      <4>3. Done \in 0..Len(partial) /\ Filtered(partial, Done, line, lineFlags)
        BY <4>1 DEF Lives, Consumed
      <4>4. Done \in 0..Len(partial') BY <1>4, <2>3, <4>3
      <4>5. Filtered(partial', Done, line, lineFlags)
        <5>1. Done \in Nat /\ \A i \in 1..Done : partial[i] = partial'[i] BY <1>4, <2>3, <4>3
        <5> QED BY <4>3, <5>1, FilteredPrefix
      <4>6. pc # "execute" BY <4>2 DEF Lives, Consumed
      <4>7. pc = "filter" => Done < Len(partial') /\ data = partial'[Done + 1]
        <5>1. SUFFICES ASSUME pc = "filter" PROVE Done < Len(partial') /\ data = partial'[Done + 1]
          OBVIOUS
        <5>2. Done < Len(partial) /\ data = partial[Done + 1] BY <4>1, <4>2, <5>1 DEF Lives, Consumed
        <5>3. Done + 1 \in 1..Len(partial) /\ Done < Len(partial') BY <1>4, <2>3, <4>3, <5>2
        <5> QED BY <2>3, <5>2, <5>3
      <4> QED BY <1>1, <3>2, <4>1, <4>4, <4>5, <4>6, <4>7 DEF Consumed
    <3> QED BY <1>4, <3>3, <3>4
  <2> QED BY <2>8, <2>9, <2>10, <2>11, <2>12 DEF Lives
<1>11. CASE c = "eol"
  <2>1. /\ unanswered' = Append(unanswered, sent + 1) /\ todo' = Append(todo, partial)
        /\ partial' = <<>>
    BY <1>11 DEF Receive
  <2>2. /\ Len(todo') = n + 1 /\ todo'[n + 1] = partial /\ \A k \in 1..n : todo'[k] = todo[k]
        /\ Len(unanswered') = m + 1 /\ unanswered'[m + 1] = sent + 1
        /\ \A i \in 1..m : unanswered'[i] = unanswered[i]
    BY <1>4, <2>1
  <2>3. Older' = Older BY <1>4, <2>2 DEF Older
  <2>4. \A k \in 1..(n + 1) : Starts(k)' = Starts(k)
    <3> TAKE k \in 1..(n + 1)
    <3>1. Starts(k)' = unanswered'[Older + k] - Len(todo'[k]) - 1
      <4>1. ~(k > n + 1) BY <1>4
      <4> QED BY <2>2, <2>3, <4>1 DEF Starts
    <3>2. CASE k \in 1..n
      <4>1. Older + k \in 1..m /\ ~(k > n) BY <1>4, <3>2
      <4> QED BY <2>2, <3>1, <3>2, <4>1 DEF Starts
    <3>3. CASE k = n + 1
      <4>1. Older + k = m + 1 /\ k > n BY <1>4, <3>3
      <4>2. Starts(k)' = (sent + 1) - Len(partial) - 1 BY <2>2, <3>1, <3>3, <4>1
      <4>3. Starts(k) = sent - Len(partial) BY <4>1 DEF Starts
      <4> QED BY <1>4, <4>2, <4>3
    <3> QED BY <1>4, <3>2, <3>3
  <2>5. \A k \in Nat : k = n + 2 => Starts(k)' = sent + 1 /\ Text(k)' = <<>>
    <3> SUFFICES ASSUME NEW k \in Nat, k = n + 2 PROVE Starts(k)' = sent + 1 /\ Text(k)' = <<>>
      OBVIOUS
    <3>1. k > n + 1 BY <1>4
    <3>2. Len(partial') = 0 BY <2>1
    <3>3. Starts(k)' = (sent + 1) - 0 BY <1>1, <2>2, <3>1, <3>2 DEF Starts
    <3> QED BY <1>4, <2>1, <2>2, <3>1, <3>3 DEF Text
  <2>6. \A k \in 1..(n + 1) : Text(k)' = Text(k)
    <3> TAKE k \in 1..(n + 1)
    <3>1. ~(k > n + 1) BY <1>4
    <3>2. Text(k)' = todo'[k] BY <2>2, <3>1 DEF Text
    <3>3. k > n => k = n + 1 BY <1>4
    <3>4. ~(k > n) => k \in 1..n BY <1>4
    <3> QED BY <2>2, <3>2, <3>3, <3>4 DEF Text
  <2>7. Acknowledges'
    <3>1. \A i \in 1..Older : i \in 1..m BY <1>4
    <3> QED BY <1>1, <1>5, <2>2, <2>3, <3>1 DEF Lives, Acknowledges
  <2>8. Answered'
    <3>1. Pending(TxContent) \in Nat /\ Pending(out) \in Nat BY PendingTypes
    <3>2. m = n + Pending(TxContent) + Pending(out) BY <1>1 DEF Lives, Answered
    <3>3. m + 1 = (n + 1) + Pending(TxContent) + Pending(out) BY <1>4, <3>1, <3>2
    <3>4. Len(unanswered') = Len(todo') + Pending(TxContent) + Pending(out) BY <2>2, <3>3
    <3>5. Len(unanswered') \in Nat BY <1>4, <2>2
    <3> QED BY <1>1, <3>4, <3>5 DEF Answered
  <2>9. Chained'
    <3>1. ASSUME NEW k \in 1..(n + 1) PROVE Starts(k + 1)' = Starts(k)' + Len(todo'[k]) + 1
      <4>1. CASE k \in 1..n
        <5>1. k + 1 \in 1..(n + 1) /\ k \in 1..(n + 1) BY <1>4, <4>1
        <5>2. Starts(k + 1) = Starts(k) + Len(todo[k]) + 1 BY <4>1 DEF Lives, Chained
        <5> QED BY <2>2, <2>4, <4>1, <5>1, <5>2
      <4>2. CASE k = n + 1
        <5>1. k + 1 \in Nat /\ k + 1 = n + 2 /\ k > n BY <1>4, <4>2
        <5>2. Starts(k) = sent - Len(partial) BY <5>1 DEF Starts
        <5>3. Starts(k)' = sent - Len(partial) /\ Starts(k + 1)' = sent + 1 BY <2>4, <2>5, <5>1, <5>2
        <5>4. todo'[k] = partial BY <2>2, <4>2
        <5> QED BY <1>4, <5>3, <5>4
      <4> QED BY <1>4, <4>1, <4>2
    <3> QED BY <2>2, <3>1 DEF Chained
  <2>10. Streamed'
    <3>1. ASSUME NEW k \in 1..(n + 2), NEW i \in 1..Len(Text(k)')
          PROVE  Follows(RxContent', Read', Starts(k)' + i, Text(k)'[i])
      <4>1. CASE k \in 1..(n + 1) BY <1>5, <1>9, <2>4, <2>6, <4>1
      <4>2. CASE k = n + 2
        <5>1. Text(k)' = <<>> BY <1>4, <2>5, <4>2
        <5> QED BY <5>1
      <4> QED BY <1>4, <4>1, <4>2
    <3>2. ASSUME NEW k \in 1..(n + 1) PROVE Follows(RxContent', Read', Starts(k + 1)', "eol")
      <4>1. CASE k \in 1..n
        <5>1. k + 1 \in 1..(n + 1) BY <1>4, <4>1
        <5> QED BY <1>5, <1>9, <2>4, <4>1, <5>1
      <4>2. CASE k = n + 1
        <5>1. k + 1 \in Nat /\ k + 1 = n + 2 BY <1>4, <4>2
        <5> QED BY <1>5, <1>8, <1>11, <2>5, <5>1
      <4> QED BY <1>4, <4>1, <4>2
    <3>3. (n + 1) + 1 = n + 2 BY <1>4
    <3> QED BY <2>2, <3>1, <3>2, <3>3 DEF Streamed
  <2>11. Consumed'
    <3>1. 1 \in 1..(n + 1) BY <1>4
    <3>2. Done' = Done BY <1>1, <1>5, <2>4, <3>1 DEF Done
    <3>3. Text(1)' = Text(1) BY <2>6, <3>1
    <3>4. todo' # <<>> BY <1>4, <2>2
    <3> QED BY <1>1, <3>2, <3>3, <3>4 DEF Lives, Consumed
  <2> QED BY <2>7, <2>8, <2>9, <2>10, <2>11 DEF Lives
<1> QED BY <1>10, <1>11

-------------------------------------------------------------------------------
(* Resets and greetings                                                    *)

LEMMA NoHelloMoves ==
  ASSUME NEW s \in Seq(Bytes), NoHello(s)
  PROVE  /\ s # <<>> => NoHello(Tail(s)) /\ Head(s) # "hello"
         /\ \A x \in Bytes : x # "hello" => NoHello(Append(s, x))
<1>1. Len(s) \in Nat /\ \A i \in 1..Len(s) : s[i] # "hello" BY DEF NoHello
<1>2. ASSUME s # <<>> PROVE NoHello(Tail(s)) /\ Head(s) # "hello"
  <2>1. Len(s) > 0 /\ Head(s) = s[1] /\ Len(Tail(s)) = Len(s) - 1 BY <1>2
  <2>2. \A i \in 1..(Len(s) - 1) : Tail(s)[i] = s[i + 1] /\ i + 1 \in 1..Len(s) BY <1>1, <1>2
  <2>3. NoHello(Tail(s)) BY <1>1, <2>1, <2>2 DEF NoHello
  <2> QED BY <1>1, <2>1, <2>3
<1>3. ASSUME NEW x \in Bytes, x # "hello" PROVE NoHello(Append(s, x))
  <2>1. /\ Len(Append(s, x)) = Len(s) + 1 /\ Append(s, x)[Len(s) + 1] = x
        /\ \A i \in 1..Len(s) : Append(s, x)[i] = s[i]
    OBVIOUS
  <2>2. \A i \in 1..(Len(s) + 1) : i \in 1..Len(s) \/ i = Len(s) + 1 BY <1>1
  <2> QED BY <1>1, <1>3, <2>1, <2>2 DEF NoHello
<1> QED BY <1>2, <1>3

(* A greeting is taken only when the initialization is over, and is then   *)
(* the last byte on its way.                                               *)
LEMMA HelloTaken ==
  ASSUME TypeOK, TxInv, Phases, Greets, Udre, heard' = "hello"
  PROVE  /\ Greeting /\ RxContent = <<>> /\ line = <<>> /\ lineFlags = {} /\ out = <<>>
         /\ TxContent' = <<>> /\ pc \notin {"filter", "execute", "boot", "flush", "greet"}
<1>1. TxContent # <<>> /\ heard' = Head(TxContent) /\ TxContent' = Tail(TxContent) BY Transmitted
<1>2. TxContent \in Seq(Bytes) /\ Len(TxContent) \in Nat \ {0} /\ Head(TxContent) = TxContent[1]
      /\ 1 \in 1..Len(TxContent)
  BY <1>1, PendingTypes
<1>3. ~NoHello(TxContent) BY <1>1, <1>2 DEF NoHello
<1>4. Greeting BY <1>3 DEF Phases
<1>5. /\ out = <<>> /\ \A i \in 1..(Len(TxContent) - 1) : TxContent[i] # "hello"
      /\ RxContent = <<>> /\ line = <<>> /\ lineFlags = {}
      /\ pc \in {"peek", "noData", "write", "stored", "enable"}
  BY <1>3, <1>4 DEF Greets
<1>6. ~(1 \in 1..(Len(TxContent) - 1)) BY <1>1, <1>2, <1>5
<1>7. Len(TxContent) = 1
  <2>1. Len(TxContent) \in Nat \ {0} BY <1>2
  <2>2. \A n \in Nat \ {0} : n # 1 => 1 \in 1..(n - 1) OBVIOUS
  <2> QED BY <1>6, <2>1, <2>2
<1>8. TxContent' = <<>> BY <1>1, <1>2, <1>7
<1> QED BY <1>4, <1>5, <1>8

(* The steps of the main program that leave the answer and the transmit    *)
(* ring alone.                                                             *)
LEMMA PhasesPlace ==
  ASSUME TypeOK, Phases, Greets, UNCHANGED <<TxContent, out, hostVars>>,
         Peek \/ Fetch \/ Advance \/ Filter \/ EndOfLine \/ NoData \/ Written \/ Enable
           \/ Boot \/ LoadHead
  PROVE  Phases' /\ Greets'
<1>1. UNCHANGED waiting BY DEF hostVars
<1>2. CASE Peek \/ NoData \/ Written \/ Enable
  <2>1. UNCHANGED <<rxHead, rxTail, RxContent, reset, line, lineFlags, copy>>
    BY <1>2 DEF Peek, NoData, Written, Enable, rxVars, RxContent
  <2>2. /\ pc \in {"peek", "noData", "write", "enable"} /\ pc' \in {"peek", "fetch", "noData", "write", "boot"}
        /\ pc' = "boot" => reset
        /\ pc' = "fetch" => rxHead # rxTail
        /\ pc' \in {"peek", "fetch", "noData", "boot"} => pc \in {"peek", "noData"} \/ out = <<>>
    BY <1>2 DEF Peek, NoData, Written, Enable, Goto
  <2>3. RxContent = <<>> <=> rxHead = rxTail BY RxRing
  <2> QED BY <1>1, <2>1, <2>2, <2>3 DEF Phases, Greets, Greeting
<1>3. CASE Fetch \/ Advance \/ Filter \/ EndOfLine
  <2>1. UNCHANGED reset /\ pc \in {"fetch", "advance", "filter"}
        /\ pc' \in {"advance", "filter", "peek", "boot", "execute"} /\ (pc' = "boot" => reset)
    BY <1>3 DEF Fetch, Advance, Filter, EndOfLine, Goto
  <2>2. ~Greeting BY <2>1 DEF Greets
  <2>3. Greeting' => Greeting BY <1>1, <2>1 DEF Greeting
  <2> QED BY <1>1, <2>1, <2>2, <2>3 DEF Phases, Greets
<1>4. CASE Boot \/ LoadHead
  <2>1. /\ pc \in {"boot", "flush"} /\ pc' \in {"flush", "greet"} /\ ~reset'
        /\ pc' = "greet" => copy' = rxHead'
    BY <1>4 DEF Boot, LoadHead, Goto, rxVars, Phases
  <2>2. ~Greeting /\ ~Greeting' BY <2>1 DEF Greeting
  <2> QED BY <1>1, <2>1, <2>2 DEF Phases, Greets
<1> QED BY <1>2, <1>3, <1>4

LEMMA PhasesExecute ==
  ASSUME TypeOK, Phases, Greets, Execute PROVE Phases' /\ Greets'
<1>1. /\ UNCHANGED <<TxContent, waiting, reset>> /\ pc = "execute" /\ pc' = "write"
  BY DEF Execute, TxContent, txVars, hostVars, Goto
<1>2. PICK a \in Answers : out' = <<"text", a>> BY DEF Execute, Answers
<1>3. ~Greeting /\ ~Greeting' BY <1>1 DEF Greets, Greeting
<1>4. NoHello(out') BY <1>2, PendingAnswer
<1> QED BY <1>1, <1>3, <1>4 DEF Phases, Greets

LEMMA PhasesFlush ==
  ASSUME TypeOK, Phases, Greets, Flush PROVE Phases' /\ Greets'
<1>1. /\ UNCHANGED <<TxContent, waiting, reset, rxHead, rxBuffer>> /\ pc = "greet" /\ pc' = "write"
      /\ rxTail' = copy /\ line' = <<>> /\ lineFlags' = {} /\ out' = <<"text", "hello">>
  BY DEF Flush, TxContent, txVars, hostVars, Goto
<1>2. waiting /\ ~reset /\ copy = rxHead BY <1>1 DEF Phases
<1>3. ~Greeting /\ Greeting' BY <1>1, <1>2 DEF Greeting
<1>4. RxContent' = <<>>
  <2>1. RxContent' = Content(rxBuffer, rxHead, rxHead, RxSize) BY <1>1, <1>2 DEF RxContent
  <2>2. Used(rxHead, rxHead, RxSize) = 0 BY UsedSlots, SerialAssumption DEF TypeOK
  <2>3. IsRing(Chars, RxSize, rxBuffer, rxHead, rxHead) BY SerialAssumption DEF IsRing, TypeOK
  <2>4. /\ Content(rxBuffer, rxHead, rxHead, RxSize) \in Seq(Chars)
        /\ Len(Content(rxBuffer, rxHead, rxHead, RxSize)) = 0
    BY <2>2, <2>3, ContentIs
  <2> QED BY <2>1, <2>4, EmptySeq
<1> QED BY <1>1, <1>2, <1>3, <1>4 DEF Phases, Greets

LEMMA PhasesWrite ==
  ASSUME TypeOK, TxInv, Phases, Greets, Write PROVE Phases' /\ Greets'
<1>1. /\ UNCHANGED <<TxContent, RxContent, waiting, reset, line, lineFlags>> /\ out # <<>>
      /\ pc = "write" /\ pc' \in {"write", "stored"}
      /\ out' = out \/ (reset /\ out' = Tail(out))
  <2>1. TxContent' = TxContent BY Stored
  <2> QED BY <2>1 DEF Write, rxVars, hostVars, RxContent, Goto, GivesUp
<1>2. Greeting' = Greeting BY <1>1 DEF Greeting
<1>3. CASE out' = out BY <1>1, <1>2, <1>3 DEF Phases, Greets
<1>4. CASE reset /\ out' = Tail(out)
  <2>1. ~Greeting BY <1>4 DEF Greeting
  <2>2. NoHello(out') BY <1>1, <1>4, <2>1, PendingTypes, NoHelloMoves DEF Phases
  <2> QED BY <1>1, <1>2, <2>1, <2>2 DEF Phases, Greets
<1> QED BY <1>1, <1>3, <1>4

LEMMA PhasesAdvanceHead ==
  ASSUME TypeOK, OutStays, TxInv, Phases, Greets, AdvanceHead PROVE Phases' /\ Greets'
<1>1. /\ UNCHANGED <<RxContent, waiting, reset, line, lineFlags>> /\ out # <<>>
      /\ pc = "stored" /\ pc' = "enable" /\ out' = Tail(out)
  BY DEF AdvanceHead, rxVars, hostVars, RxContent, Goto, OutStays
<1>2. TxContent' = Append(TxContent, Head(out)) BY Sent
<1>3. TxContent \in Seq(Bytes) /\ Head(out) \in Bytes BY <1>1, PendingTypes, HeadTailProperties
<1>4. Greeting' = Greeting BY <1>1 DEF Greeting
<1>5. CASE ~Greeting
  <2>1. NoHello(out') /\ NoHello(TxContent')
    <3>1. NoHello(out) /\ NoHello(TxContent) BY <1>5 DEF Phases
    <3> QED BY <1>1, <1>2, <1>3, <3>1, PendingTypes, NoHelloMoves
  <2> QED BY <1>1, <1>4, <1>5, <2>1 DEF Phases, Greets
<1>6. CASE Greeting
  <2>1. out \in {<<"text", "hello">>, <<"hello">>} /\ NoHello(TxContent) /\ RxContent = <<>>
        /\ line = <<>> /\ lineFlags = {}
    BY <1>1, <1>6 DEF Greets
  <2>2. CASE out = <<"text", "hello">>
    <3>1. out' = <<"hello">> /\ Head(out) = "text" BY <1>1, <2>2
    <3>2. NoHello(TxContent') BY <1>2, <1>3, <2>1, <3>1, NoHelloMoves
    <3> QED BY <1>1, <1>4, <1>6, <2>1, <3>1, <3>2 DEF Phases, Greets
  <2>3. CASE out = <<"hello">>
    <3>1. out' = <<>> /\ Head(out) = "hello" BY <1>1, <2>3
    <3>2. /\ Len(TxContent) \in Nat /\ Len(TxContent') = Len(TxContent) + 1
          /\ TxContent'[Len(TxContent) + 1] = "hello"
          /\ \A i \in 1..Len(TxContent) : TxContent'[i] = TxContent[i]
      BY <1>2, <1>3, <3>1
    <3>3. TxContent'[Len(TxContent')] = "hello" /\ TxContent' # <<>> BY <3>2
    <3>4. \A i \in 1..(Len(TxContent') - 1) : TxContent'[i] # "hello" BY <2>1, <3>2 DEF NoHello
    <3> QED BY <1>1, <1>4, <1>6, <2>1, <3>1, <3>3, <3>4 DEF Phases, Greets
  <2> QED BY <2>1, <2>2, <2>3
<1> QED BY <1>5, <1>6

LEMMA PhasesUdre ==
  ASSUME TypeOK, TxInv, Phases, Greets, Udre PROVE Phases' /\ Greets'
<1>1. UNCHANGED <<RxContent, rxHead, reset, pc, out, copy, line, lineFlags>>
  BY DEF Udre, rxVars, mainVars, RxContent
<1>2. TxContent # <<>> /\ heard' = Head(TxContent) /\ TxContent' = Tail(TxContent) BY Transmitted
<1>3. TxContent \in Seq(Bytes) BY PendingTypes
<1>4. CASE heard' = "hello"
  <2>1. /\ Greeting /\ out = <<>> /\ TxContent' = <<>>
        /\ pc \notin {"filter", "execute", "boot", "flush", "greet"}
    BY <1>4, HelloTaken
  <2>2. ~waiting' BY <1>4 DEF Udre, Answers
  <2>3. ~reset /\ ~Greeting' BY <2>1, <2>2 DEF Greeting
  <2>4. NoHello(<<>>) BY DEF NoHello
  <2> QED BY <1>1, <2>1, <2>2, <2>3, <2>4 DEF Phases, Greets
<1>5. CASE heard' # "hello"
  <2>1. waiting' = waiting BY <1>5 DEF Udre
  <2>2. Greeting' = Greeting BY <1>1, <2>1 DEF Greeting
  <2>3. NoHello(TxContent) => NoHello(TxContent') BY <1>2, <1>3, NoHelloMoves
  <2>4. ASSUME TxContent[Len(TxContent)] = "hello",
               \A i \in 1..(Len(TxContent) - 1) : TxContent[i] # "hello"
        PROVE  /\ TxContent' # <<>> /\ TxContent'[Len(TxContent')] = "hello"
               /\ \A i \in 1..(Len(TxContent') - 1) : TxContent'[i] # "hello"
    <3>1. /\ Len(TxContent) \in Nat \ {0} /\ Head(TxContent) = TxContent[1]
          /\ Len(TxContent') = Len(TxContent) - 1
          /\ \A i \in 1..(Len(TxContent) - 1) : TxContent'[i] = TxContent[i + 1]
      BY <1>2, <1>3
    <3>2. Len(TxContent) > 1 BY <1>2, <1>5, <2>4, <3>1
    <3>3. TxContent' # <<>> BY <3>1, <3>2
    <3>4. TxContent'[Len(TxContent')] = "hello" BY <2>4, <3>1, <3>2
    <3>5. ASSUME NEW i \in 1..(Len(TxContent') - 1) PROVE TxContent'[i] # "hello"
      <4>1. i \in 1..(Len(TxContent) - 1) /\ i + 1 \in 1..(Len(TxContent) - 1) BY <3>1, <3>2
      <4> QED BY <2>4, <3>1, <4>1
    <3> QED BY <3>3, <3>4, <3>5
  <2>5. Phases' BY <1>1, <2>1, <2>2, <2>3 DEF Phases
  <2>6. Greets' BY <1>1, <2>2, <2>3, <2>4 DEF Greets
  <2> QED BY <2>5, <2>6
<1> QED BY <1>4, <1>5

LEMMA PhasesHost ==
  ASSUME TypeOK, Phases, Greets, host.counts,
         ReceiveReset \/ (\E c \in Chars : Receive(c))
  PROVE  Phases' /\ Greets'
<1>1. /\ UNCHANGED <<TxContent, pc, out, copy, line, lineFlags>> /\ ~waiting
      /\ \/ UNCHANGED <<reset, waiting>>
         \/ reset' /\ waiting'
  BY DEF ReceiveReset, Receive, MaySend, mainVars, txVars, TxContent
<1>2. ~Greeting /\ ~Greeting' BY <1>1 DEF Greeting
<1>3. pc \notin {"boot", "flush", "greet"} BY <1>1 DEF Phases
<1> QED BY <1>1, <1>2, <1>3 DEF Phases, Greets

-------------------------------------------------------------------------------
(* Together                                                                *)

(* The greeting makes both sides start anew.                               *)
LEMMA LivesHello ==
  ASSUME TypeOK, TxInv, Phases, Greets, Udre, heard' = "hello" PROVE Lives'
<1>1. /\ RxContent = <<>> /\ line = <<>> /\ lineFlags = {} /\ out = <<>> /\ TxContent' = <<>>
      /\ pc \notin {"filter", "execute", "boot", "flush", "greet"}
  BY HelloTaken
<1>2. UNCHANGED <<RxContent, pc, out, line, lineFlags, sent>>
  BY DEF Udre, rxVars, mainVars, RxContent
<1>3. unanswered' = <<>> /\ partial' = <<>> /\ todo' = <<>> /\ acked' = sent /\ ~waiting'
  BY DEF Udre, Answers
<1>4. sent \in Nat /\ Len(RxContent) = 0 BY <1>1, LinkTypes
<1>5. Read' = sent /\ Older' = 0 BY <1>2, <1>3, <1>4 DEF Read, Older
<1>6. \A k \in Nat \ {0} : Starts(k)' = sent /\ Text(k)' = <<>>
  <2> TAKE k \in Nat \ {0}
  <2>1. k > Len(todo') /\ Len(partial') = 0 BY <1>3
  <2> QED BY <1>2, <1>3, <1>4, <2>1 DEF Starts, Text
<1>7. Acknowledges' BY <1>3, <1>4, <1>5 DEF Acknowledges
<1>8. Answered'
  <2>1. Pending(TxContent') = 0 /\ Pending(out') = 0 BY <1>1, <1>2, PendingNone
  <2> QED BY <1>3, <2>1 DEF Answered
<1>9. Chained' /\ Streamed' BY <1>3, <1>6 DEF Chained, Streamed
<1>10. Done' = 0 BY <1>1, <1>2, <1>4, <1>5, <1>6 DEF Done
<1>11. Filtered(Text(1)', Done', line', lineFlags') BY <1>1, <1>2, <1>10, FilteredStart
<1>12. Consumed' BY <1>1, <1>2, <1>6, <1>10, <1>11 DEF Consumed
<1> QED BY <1>7, <1>8, <1>9, <1>12 DEF Lives

LEMMA LinkStart == Init => LinkInv
<1> SUFFICES ASSUME Init PROVE LinkInv OBVIOUS
<1>1. TxContent = <<>> BY TypeStart, TxRing DEF Init
<1>2. NoHello(<<>>) BY DEF NoHello
<1>3. ~Greeting /\ ~Live BY DEF Init, Greeting, Live
<1> QED BY <1>1, <1>2, <1>3 DEF Init, LinkInv, Phases, Greets

LEMMA LinkStep ==
  ASSUME TypeOK, OutStays, RxInv, TxInv, LinkInv, [Next]_vars PROVE LinkInv'
<1>1. CASE UNCHANGED vars
  BY <1>1 DEF vars, rxVars, txVars, mainVars, hostVars, LinkInv, Phases, Greets, Lives, Greeting,
     Live, TxContent, RxContent, Acknowledges, Answered, Chained, Streamed, Consumed, Older, Read,
     Done, Starts, Text
<1>2. SUFFICES ASSUME Next, host'.counts PROVE Phases' /\ Greets' /\ (Live' => Lives')
  BY <1>1 DEF LinkInv
<1>3. host \in HostKinds BY HostKind DEF TypeOK
<1>4. host'.counts = host.counts
  <2>1. CASE ReceiveReset BY <1>3, <2>1 DEF ReceiveReset, HostKinds
  <2>2. CASE ~ReceiveReset
    <3>1. UNCHANGED host
      BY <1>2, <2>2 DEF Next, Main, MainLoop, SerialWrite, Initialize, Host, Peek, Fetch, Advance,
         Filter, EndOfLine, Execute, NoData, Write, Written, AdvanceHead, Enable, Boot, LoadHead,
         Flush, Receive, Udre, hostVars
    <3> QED BY <3>1
  <2> QED BY <2>1, <2>2
<1>5. host.counts /\ Phases /\ Greets /\ (Live => Lives) BY <1>2, <1>4 DEF LinkInv
<1>6. CASE Udre
  <2>1. Phases' /\ Greets' BY <1>5, <1>6, PhasesUdre
  <2>2. CASE heard' = "hello" BY <1>5, <1>6, <2>1, <2>2, LivesHello
  <2>3. CASE heard' # "hello"
    <3>1. UNCHANGED <<waiting, reset, pc>> BY <1>6, <2>3 DEF Udre, mainVars
    <3>2. Live' => Live /\ ~Greeting BY <3>1 DEF Live, Greeting
    <3>3. Live' => Lives' BY <1>5, <1>6, <3>2, LivesUdre DEF Phases
    <3> QED BY <2>1, <3>3
  <2> QED BY <2>2, <2>3
<1>7. CASE ReceiveReset
  <2>1. Phases' /\ Greets' BY <1>5, <1>7, PhasesHost
  <2>2. ~waiting BY <1>7 DEF ReceiveReset
  <2>3. Live BY <2>2 DEF Live
  <2> QED BY <1>5, <1>7, <2>1, <2>2, <2>3, LivesReset
<1>8. CASE \E c \in host.chars \cup {"eol"} : Receive(c)
  <2>1. PICK c \in Chars : Receive(c) BY <1>3, <1>8 DEF HostKinds, Chars
  <2>2. Phases' /\ Greets' BY <1>5, <2>1, PhasesHost
  <2>3. Live BY <1>5, <2>1 DEF Live, Receive, MaySend
  <2>4. Lives' BY <1>5, <2>1, <2>3, LivesReceive
  <2> QED BY <2>2, <2>4
<1>9. CASE Main
  <2>0. UNCHANGED <<waiting, hostVars>>
    BY <1>9 DEF Main, MainLoop, SerialWrite, Initialize, Peek, Fetch, Advance,
       Filter, EndOfLine, Execute, NoData, Write, Written, AdvanceHead, Enable, Boot, LoadHead,
       Flush, hostVars
  <2>1. CASE Peek \/ Fetch \/ NoData \/ Written \/ Enable \/ EndOfLine
    <3>1. /\ UNCHANGED <<TxContent, RxContent, out, line, lineFlags, reset, todo>>
          /\ \/ pc \notin {"filter", "execute"} /\ pc' \notin {"filter", "execute"}
             \/ pc = "filter" /\ data = "eol" /\ pc' = "execute"
             \/ pc = "filter" /\ data = "eol" /\ pc' = "boot"
          /\ pc # "boot"
      BY <2>1 DEF Peek, Fetch, NoData, Written, Enable, EndOfLine, rxVars, txVars, RxContent,
         TxContent, Goto
    <3>2. Phases' /\ Greets' BY <1>5, <2>0, <2>1, <3>1, PhasesPlace
    <3>3. Live' => Live /\ pc' # "boot"
      <4>1. pc' = "boot" => waiting' BY <3>2 DEF Phases
      <4> QED BY <2>0, <3>1, <4>1 DEF Live
    <3>4. Live' => Lives' BY <1>5, <2>0, <3>1, <3>3, LivesPlace
    <3> QED BY <3>2, <3>4
  <2>2. CASE Advance \/ Filter
    <3>1. UNCHANGED <<TxContent, out, reset>> /\ pc # "boot"
      BY <2>2 DEF Advance, Filter, txVars, TxContent
    <3>2. Phases' /\ Greets' BY <1>5, <2>0, <2>2, <3>1, PhasesPlace
    <3>3. Live' => Live BY <2>0, <3>1 DEF Live
    <3> QED BY <1>5, <2>2, <3>2, <3>3, LivesAdvance, LivesFilter
  <2>3. CASE Execute
    <3>1. UNCHANGED reset /\ pc = "execute" BY <2>3 DEF Execute
    <3>2. Live' => Live /\ out = <<>> BY <1>5, <2>0, <3>1 DEF Live, Phases
    <3> QED BY <1>5, <2>3, <3>2, PhasesExecute, LivesExecute
  <2>4. CASE Write
    <3>1. Phases' /\ Greets' BY <1>5, <2>4, PhasesWrite
    <3>2. /\ UNCHANGED <<TxContent, rxVars, todo, line, lineFlags, data, reset>> /\ out # <<>>
          /\ pc = "write" /\ pc' \in {"write", "stored"}
          /\ out' = out \/ (reset /\ out' = Tail(out))
      <4>1. TxContent' = TxContent BY <2>4, Stored
      <4> QED BY <2>4, <4>1 DEF Write, Goto, GivesUp
    <3>3. Live' => Live BY <2>0, <3>2 DEF Live
    <3>4. CASE out' = out
      <4>1. UNCHANGED RxContent BY <3>2 DEF rxVars, RxContent
      <4> QED BY <1>5, <2>0, <3>1, <3>2, <3>3, <3>4, <4>1, LivesPlace
    <3>5. CASE reset /\ out' = Tail(out)
      <4>1. waiting BY <1>5, <3>5 DEF Phases
      <4>2. {pc, pc'} \cap {"filter", "execute"} = {} BY <3>2
      <4> QED BY <1>5, <2>0, <3>1, <3>2, <3>3, <3>5, <4>1, <4>2, LivesOut
    <3> QED BY <3>2, <3>4, <3>5
  <2>5. CASE AdvanceHead
    <3>1. Phases' /\ Greets' BY <1>5, <2>5, PhasesAdvanceHead
    <3>2. /\ UNCHANGED <<rxVars, todo, line, lineFlags, data, reset>> /\ out # <<>>
          /\ pc = "stored" /\ pc' = "enable" /\ out' = Tail(out)
      BY <2>5 DEF AdvanceHead, OutStays, Goto
    <3>3. Live' => Live BY <2>0, <3>2 DEF Live
    <3>4. TxContent' = Append(TxContent, Head(out)) BY <2>5, Sent
    <3>5. {pc, pc'} \cap {"filter", "execute"} = {} BY <3>2
    <3> QED BY <1>5, <2>0, <3>1, <3>2, <3>3, <3>4, <3>5, LivesOut
  <2>6. CASE Boot \/ LoadHead
    <3>1. UNCHANGED <<TxContent, out>> /\ (pc' = "flush" \/ pc' = "greet")
      BY <2>6 DEF Boot, LoadHead, txVars, TxContent, Goto
    <3>2. Phases' /\ Greets' BY <1>5, <2>0, <2>6, <3>1, PhasesPlace
    <3>3. ~Live' BY <3>1, <3>2 DEF Live, Phases
    <3> QED BY <3>2, <3>3
  <2>7. CASE Flush
    <3>1. Phases' /\ Greets' BY <1>5, <2>7, PhasesFlush
    <3>2. pc = "greet" /\ UNCHANGED reset BY <2>7 DEF Flush
    <3>3. ~Live' BY <1>5, <2>0, <3>2 DEF Live, Phases
    <3> QED BY <3>1, <3>3
  <2> QED BY <1>9, <2>1, <2>2, <2>3, <2>4, <2>5, <2>6, <2>7 DEF Main, MainLoop, SerialWrite, Initialize
<1> QED BY <1>2, <1>6, <1>7, <1>8, <1>9 DEF Next, Host

LEMMA LinkAlways ==
  ASSUME ~Stalls PROVE Spec => [](TypeOK /\ OutStays /\ LinkInv)
<1>1. Init => RxInv BY DEF Init, RxInv
<1>2. TypeOK /\ RxInv /\ [Next]_vars => RxInv' BY RxInvStep
<1>3. TypeOK /\ OutStays /\ RxInv /\ TxInv /\ LinkInv /\ [Next]_vars => LinkInv' BY LinkStep
<1> QED BY <1>1, <1>2, <1>3, TxAlways, LinkStart, PTL DEF Spec

(* The receive interrupt drops no character of a host that counts them,    *)
(* whatever resets come in between: a character it has not seen answered   *)
(* has a slot in the ring, and what was flushed or dropped with a reset is *)
(* settled by the greeting.                                                *)
THEOREM NothingIsDropped == ASSUME ~Stalls PROVE Spec => []NothingDropped
<1>1. TypeOK /\ LinkInv => NothingDropped
  <2> SUFFICES ASSUME TypeOK, LinkInv, host.counts, NEW c, MaySend(c) PROVE ~RxFull
    BY DEF NothingDropped
  <2>1. Live /\ Unanswered < RxSize BY DEF Live, MaySend
  <2>2. acked <= Read BY <2>1 DEF LinkInv, Lives, Acknowledges
  <2> QED BY <2>1, <2>2, RoomToReceive
<1> QED BY <1>1, LinkAlways, PTL

(* Every line is answered once, and in order: an answer is missing for the *)
(* lines that are still to be executed and for those whose answer is on    *)
(* its way, and for no others.                                             *)
THEOREM LinesAreAnswered == ASSUME ~Stalls PROVE Spec => []EveryLineAnswered
<1>1. LinkInv => EveryLineAnswered
  BY DEF LinkInv, Live, Lives, Answered, EveryLineAnswered
<1> QED BY <1>1, LinkAlways, PTL

(* The line that is executed is the oldest one the host has sent, whole,   *)
(* without its comments and blanks, and refused if it is too long.         *)
THEOREM LinesAreWhole == ASSUME ~Stalls PROVE Spec => []LineIsWhole
<1>1. TypeOK /\ LinkInv => LineIsWhole
  <2> SUFFICES ASSUME TypeOK, LinkInv, host.counts, pc = "execute"
               PROVE  /\ todo # <<>>
                      /\ IF Overflowed THEN Cardinality(Kept(Head(todo))) >= LineSize
                         ELSE IsLine(line, Head(todo))
    BY DEF LineIsWhole
  <2>1. Lives
    <3>1. Phases /\ Greets /\ (Live => Lives) BY DEF LinkInv
    <3>2. ~Greeting BY <3>1 DEF Greets
    <3> QED BY <3>1, <3>2 DEF Live, Greeting
  <2>2. todo # <<>> /\ Done = Len(Text(1)) /\ Filtered(Text(1), Done, line, lineFlags)
    BY <2>1 DEF Lives, Consumed
  <2>3. Len(todo) \in Nat \ {0} /\ Head(todo) = todo[1] /\ 1 \in 1..Len(todo) BY <2>2, LinkTypes
  <2> DEFINE s == Head(todo)
  <2>4. Text(1) = s /\ s \in Seq(CharKinds) /\ Len(s) \in Nat BY <2>3, LinkTypes DEF Text
  <2> HIDE DEF s
  <2>5. Filtered(s, Len(s), line, lineFlags) BY <2>2, <2>4
  <2>6. KeptTo(s, Len(s)) = Kept(s) BY DEF KeptTo, Kept
  <2>7. CASE lineFlags = {"OVERFLOW"} /\ Cardinality(Kept(s)) >= LineSize
    BY <2>2, <2>7 DEF Overflowed, s
  <2>8. CASE /\ Len(line) = Cardinality(Kept(s))
             /\ \A i \in Kept(s) : line[Cardinality(KeptTo(s, i))] = s[i]
             /\ "OVERFLOW" \notin lineFlags
    <3>1. ASSUME NEW i \in Kept(s) PROVE {j \in Kept(s) : j <= i} = KeptTo(s, i)
      <4>1. \A j : j \in 1..Len(s) /\ j <= i <=> j \in 1..i BY <2>4 DEF Kept
      <4> QED BY <4>1 DEF Kept, KeptTo
    <3>2. IsLine(line, s) BY <2>8, <3>1 DEF IsLine
    <3> QED BY <2>2, <2>8, <3>2 DEF Overflowed, s
  <2> QED BY <2>5, <2>6, <2>7, <2>8 DEF Filtered
<1> QED BY <1>1, LinkAlways, PTL

=============================================================================
