-------------------------------- MODULE Serial --------------------------------
(***************************************************************************)
(* The serial link: the receive and the transmit ring (serial.c), the      *)
(* character filter of the main loop that turns what it reads into lines   *)
(* (protocol.c), the answer to every line, and the flush and greeting of   *)
(* the initialization (main.c).                                            *)
(*                                                                         *)
(* A step of the main program is one access to something an interrupt      *)
(* writes or reads; the interrupts Receive and Udre come in between. The   *)
(* host is external. If it counts characters, it never has more of them    *)
(* unanswered than the receive buffer holds and waits for the greeting     *)
(* after a reset; otherwise it sends at any time. An answer is a text byte *)
(* and a last byte that says what it is.                                   *)
(***************************************************************************)
EXTENDS Naturals, Sequences, FiniteSets

CONSTANTS
  Hosts,          (* the kinds of host: whether it counts characters, what *)
                  (* its lines are made of, the end of line apart, and     *)
                  (* bounds on the characters and the resets it sends      *)
  RxSize,         (* RX_BUFFER_SIZE                                        *)
  TxSize,         (* TX_BUFFER_SIZE                                        *)
  LineSize,       (* LINE_BUFFER_SIZE                                      *)
  Stalls          (* the stepper interrupt may hold the main program up   *)
                  (* while two bytes are sent: it lets other interrupts   *)
                  (* in and st_go_idle waits with delay_ms                *)

(* A letter stands for everything a line keeps, a blank for what it drops. *)
CharKinds == {"letter", "blank", "(", ")", ";"}
Chars == CharKinds \cup {"eol"}
HostKinds == [counts : BOOLEAN, chars : SUBSET CharKinds, send : Nat, resets : Nat]
ASSUME SerialAssumption ==
  /\ Hosts \subseteq HostKinds
  /\ RxSize \in Nat \ {0} /\ TxSize \in Nat \ {0} /\ LineSize \in Nat \ {0}
  /\ Stalls \in BOOLEAN

VARIABLES
  rxHead, rxTail, rxBuffer,       (* receive ring                          *)
  txHead, txTail, txBuffer,       (* transmit ring                         *)
  udrie,                          (* UDRIE0: transmit interrupt enabled    *)
  reset,                          (* EXEC_RESET                            *)
  pc, data, out,                  (* main program: place, character read,  *)
                                  (* bytes of the answer still to write    *)
  copy,                           (* the head that the flush has loaded    *)
  line, lineFlags,                (* line[0..char_counter-1], line_flags   *)
  heard, waiting,                 (* host: last byte it got, whether it    *)
                                  (* waits for a greeting,                 *)
  sent, acked,                    (* characters sent, those of answered    *)
                                  (* lines,                                *)
  unanswered,                     (* how many it had sent at the end of    *)
                                  (* each line that is not answered,       *)
  partial,                        (* and the line that it is sending       *)
  todo,                           (* history: lines sent and not executed  *)
  host                            (* its kind, and what it may still send  *)

rxVars   == <<rxHead, rxTail, rxBuffer>>
txVars   == <<txHead, txTail, txBuffer, udrie>>
mainVars == <<pc, data, out, copy, line, lineFlags>>
hostVars == <<heard, waiting, sent, acked, unanswered, partial, host>>
vars == <<rxVars, txVars, reset, mainVars, hostVars, todo>>

Answers == {"ok", "error"}
Bytes == Answers \cup {"text", "hello"}
Flags == {"OVERFLOW", "PARENTHESES", "SEMICOLON"}
Points == {"boot", "flush", "greet", "peek", "fetch", "advance", "filter", "execute",
           "noData", "write", "stored", "enable"}

Goto(p) == pc' = p

-------------------------------------------------------------------------------
(* Ring arithmetic                                                         *)

Used(head, tail, size) == IF head >= tail THEN head - tail ELSE size + 1 - (tail - head)
NextIndexLate(i, size) == IF i = size + 1 THEN 0 ELSE i + 1      \* mutant: wraps too late
NextIndex(i, size) == IF i + 1 = size + 1 THEN 0 ELSE i + 1
RxFullEarly == Used(rxHead, rxTail, RxSize) >= RxSize - 1   \* mutant: a slot too early
RxFullNever == rxHead + 1 = rxTail                          \* mutant: forgets the wrap
TxFullNever == txHead + 1 = txTail                          \* mutant: forgets the wrap
RxFull == NextIndex(rxHead, RxSize) = rxTail
TxFull == NextIndex(txHead, TxSize) = txTail

Content(buffer, head, tail, size) ==
  [i \in 1..Used(head, tail, size) |-> buffer[(tail + i - 1) % (size + 1)]]
RxContent == Content(rxBuffer, rxHead, rxTail, RxSize)
TxContent == Content(txBuffer, txHead, txTail, TxSize)

-------------------------------------------------------------------------------
(* serial_read                                                             *)

Peek ==
  /\ pc = "peek"
  /\ Goto(IF rxHead = rxTail THEN "noData" ELSE "fetch")
  /\ UNCHANGED <<rxVars, txVars, reset, data, out, copy, line, lineFlags, hostVars, todo>>

Fetch ==
  /\ pc = "fetch"
  /\ data' = rxBuffer[rxTail]
  /\ Goto("advance")
  /\ UNCHANGED <<rxVars, txVars, reset, out, copy, line, lineFlags, hostVars, todo>>

Advance ==
  /\ pc = "advance"
  /\ rxTail' = NextIndex(rxTail, RxSize)
  /\ Goto("filter")
  /\ UNCHANGED <<rxHead, rxBuffer, txVars, reset, data, out, copy, line, lineFlags,
                 hostVars, todo>>

-------------------------------------------------------------------------------
(* protocol_main_loop                                                      *)

(* A character within a line: comments, blanks and what overflows is       *)
(* thrown away.                                                            *)
EndsAnything == IF data = ")" THEN {} ELSE lineFlags    \* mutant: ) ends a ; comment
EndsComment == IF data = ")" THEN lineFlags \ {"PARENTHESES"} ELSE lineFlags
Filter ==
  /\ pc = "filter" /\ data # "eol"
  /\ \/ lineFlags # {} /\ lineFlags' = EndsComment /\ UNCHANGED line
     \/ /\ lineFlags = {} /\ data = "blank"
        /\ UNCHANGED <<line, lineFlags>>
     \/ /\ lineFlags = {} /\ data \in {"(", ";"}
        /\ lineFlags' = {IF data = "(" THEN "PARENTHESES" ELSE "SEMICOLON"}
        /\ UNCHANGED line
     \/ /\ lineFlags = {} /\ data \in {"letter", ")"} /\ Len(line) >= LineSize - 1
        /\ lineFlags' = {"OVERFLOW"}
        /\ UNCHANGED line
     \/ /\ lineFlags = {} /\ data \in {"letter", ")"} /\ Len(line) < LineSize - 1
        /\ line' = Append(line, data)
        /\ UNCHANGED lineFlags
  /\ Goto("peek")
  /\ UNCHANGED <<rxVars, txVars, reset, data, out, copy, hostVars, todo>>

(* The end of a line: poll, leave for the initialization on a reset.       *)
EndOfLine ==
  /\ pc = "filter" /\ data = "eol"
  /\ Goto(IF reset THEN "boot" ELSE "execute")
  /\ UNCHANGED <<rxVars, txVars, reset, data, out, copy, line, lineFlags, hostVars, todo>>

(* Execute the line, whatever it does, and answer it.                      *)
Overflowed == "OVERFLOW" \in lineFlags
Execute ==
  /\ pc = "execute"
  /\ \E answer \in IF Overflowed THEN {"error"} ELSE IF line = <<>> THEN {"ok"} ELSE Answers :
       out' = <<"text", answer>>
  /\ todo' = IF todo = <<>> THEN <<>> ELSE Tail(todo)
  /\ line' = <<>> /\ lineFlags' = {}
  /\ Goto("write")
  /\ UNCHANGED <<rxVars, txVars, reset, data, copy, hostVars>>

NoData ==
  /\ pc = "noData"
  /\ Goto(IF reset THEN "boot" ELSE "peek")
  /\ UNCHANGED <<rxVars, txVars, reset, data, out, copy, line, lineFlags, hostVars, todo>>

-------------------------------------------------------------------------------
(* serial_write, for each byte of the answer                               *)

(* Wait for a free slot; a reset ends the wait and drops the byte.         *)
GivesUpAtOnce == TRUE                           \* mutant: does not wait
GivesUp == reset
Write ==
  /\ pc = "write" /\ out # <<>>
  /\ \/ ~TxFull
        /\ txBuffer' = [txBuffer EXCEPT ![txHead] = Head(out)]
        /\ Goto("stored") /\ UNCHANGED out
     \/ TxFull /\ GivesUp /\ out' = Tail(out) /\ UNCHANGED <<txBuffer, pc>>
     \/ TxFull /\ ~GivesUp /\ UNCHANGED <<out, txBuffer, pc>>
  /\ UNCHANGED <<rxVars, txHead, txTail, udrie, reset, data, copy, line, lineFlags,
                 hostVars, todo>>

Written ==
  /\ pc = "write" /\ out = <<>>
  /\ Goto("peek")
  /\ UNCHANGED <<rxVars, txVars, reset, data, out, copy, line, lineFlags, hostVars, todo>>

AdvanceHead ==
  /\ pc = "stored"
  /\ txHead' = NextIndex(txHead, TxSize)
  /\ out' = Tail(out)
  /\ Goto("enable")
  /\ UNCHANGED <<rxVars, txTail, txBuffer, udrie, reset, data, copy, line, lineFlags,
                 hostVars, todo>>

(* Make sure that the transmit interrupt is running.                       *)
TurnedOnIfIdle == udrie' = (txHead = txTail)    \* mutant: turns it off
TurnedOn == udrie' = TRUE
Enable ==
  /\ pc = "enable"
  /\ TurnedOn
  /\ Goto("write")
  /\ UNCHANGED <<rxVars, txHead, txTail, txBuffer, reset, data, out, copy, line, lineFlags,
                 hostVars, todo>>

-------------------------------------------------------------------------------
(* The initialization: flags cleared, receive ring flushed, greeting.      *)

Boot ==
  /\ pc = "boot"
  /\ reset' = FALSE
  /\ Goto("flush")
  /\ UNCHANGED <<rxVars, txVars, data, out, copy, line, lineFlags, hostVars, todo>>

LoadHead ==
  /\ pc = "flush"
  /\ copy' = rxHead
  /\ Goto("greet")
  /\ UNCHANGED <<rxVars, txVars, reset, data, out, line, lineFlags, hostVars, todo>>

Flush ==
  /\ pc = "greet"
  /\ rxTail' = copy
  /\ line' = <<>> /\ lineFlags' = {}
  /\ out' = <<"text", "hello">>
  /\ Goto("write")
  /\ UNCHANGED <<rxHead, rxBuffer, txVars, reset, data, copy, hostVars, todo>>

-------------------------------------------------------------------------------
(* Interrupts and the host                                                 *)

(* What the host has sent and seen no answer for.                          *)
Unanswered == sent - acked

(* The host may send this character: it fits the receive buffer, and a     *)
(* line within it.                                                         *)
MaySend(c) ==
  /\ c # "eol" => Len(partial) + 1 < RxSize
  /\ host.counts => ~waiting /\ Unanswered < RxSize

Receive(c) ==
  /\ MaySend(c) /\ sent < host.send
  /\ sent' = sent + 1
  /\ IF RxFull THEN UNCHANGED <<rxHead, rxBuffer>>
     ELSE /\ rxBuffer' = [rxBuffer EXCEPT ![rxHead] = c]
          /\ rxHead' = NextIndex(rxHead, RxSize)
  /\ IF c = "eol"
     THEN /\ unanswered' = Append(unanswered, sent + 1)
          /\ todo' = Append(todo, partial)
          /\ partial' = <<>>
     ELSE partial' = Append(partial, c) /\ UNCHANGED <<unanswered, todo>>
  /\ UNCHANGED <<rxTail, txVars, reset, mainVars, heard, waiting, acked, host>>

ReceiveReset ==
  /\ ~waiting /\ host.resets > 0
  /\ host' = [host EXCEPT !.resets = @ - 1]
  /\ reset' = TRUE
  /\ waiting' = TRUE
  /\ UNCHANGED <<rxVars, txVars, mainVars, heard, sent, acked, unanswered, partial, todo>>

(* The data register is empty: send a byte, which the host takes at once.  *)
Udre ==
  /\ udrie
  /\ Stalls \/ pc # "enable" \/ NextIndex(txTail, TxSize) # txHead
  /\ heard' = txBuffer[txTail]
  /\ txTail' = NextIndex(txTail, TxSize)
  /\ udrie' = (txTail' # txHead)
  /\ \/ /\ heard' = "hello"
        /\ waiting' = FALSE
        /\ unanswered' = <<>> /\ partial' = <<>> /\ todo' = <<>> /\ acked' = sent
     \/ /\ heard' \in Answers
        /\ IF unanswered = <<>> THEN UNCHANGED <<unanswered, acked>>
           ELSE unanswered' = Tail(unanswered) /\ acked' = Head(unanswered)
        /\ UNCHANGED <<waiting, partial, todo>>
     \/ heard' = "text" /\ UNCHANGED <<waiting, acked, unanswered, partial, todo>>
  /\ UNCHANGED <<rxVars, txHead, txBuffer, reset, mainVars, sent, host>>

-------------------------------------------------------------------------------
Init ==
  /\ rxHead = 0 /\ rxTail = 0 /\ rxBuffer = [i \in 0..RxSize |-> "eol"]
  /\ txHead = 0 /\ txTail = 0 /\ txBuffer = [i \in 0..TxSize |-> "text"]
  /\ udrie = FALSE /\ reset = FALSE
  /\ pc = "boot" /\ data = "eol" /\ out = <<>> /\ copy = 0
  /\ line = <<>> /\ lineFlags = {}
  /\ heard = "text" /\ waiting = TRUE /\ sent = 0 /\ acked = 0
  /\ unanswered = <<>> /\ partial = <<>> /\ todo = <<>>
  /\ host \in Hosts

MainLoop == Peek \/ Fetch \/ Advance \/ Filter \/ EndOfLine \/ Execute \/ NoData
SerialWrite == Write \/ Written \/ AdvanceHead \/ Enable
Initialize == Boot \/ LoadHead \/ Flush
Main == MainLoop \/ SerialWrite \/ Initialize
Host == (\E c \in host.chars \cup {"eol"} : Receive(c)) \/ ReceiveReset
Next == Main \/ Udre \/ Host

Spec == Init /\ [][Next]_vars

(* The main program runs and an enabled interrupt is taken; the host need  *)
(* not send anything.                                                      *)
FairSpec == Spec /\ WF_vars(Main) /\ WF_vars(Udre)

-------------------------------------------------------------------------------
(* Properties                                                              *)

IsHost(x) == \E h \in Hosts : \E r \in 0..h.resets : x = [h EXCEPT !.resets = r]
TypeOK ==
  /\ rxHead \in 0..RxSize /\ rxTail \in 0..RxSize
  /\ rxBuffer \in [0..RxSize -> Chars]
  /\ txHead \in 0..TxSize /\ txTail \in 0..TxSize
  /\ txBuffer \in [0..TxSize -> Bytes]
  /\ udrie \in BOOLEAN /\ reset \in BOOLEAN
  /\ pc \in Points /\ data \in Chars /\ out \in Seq(Bytes)
  /\ copy \in 0..RxSize
  /\ line \in Seq({"letter", ")"}) /\ Len(line) < LineSize /\ lineFlags \subseteq Flags
  /\ heard \in Bytes /\ waiting \in BOOLEAN
  /\ sent \in 0..host.send /\ acked \in 0..sent /\ unanswered \in Seq(1..sent)
  /\ partial \in Seq(CharKinds) /\ todo \in Seq(Seq(CharKinds))
  /\ IsHost(host)

(* The main program and the interrupts share two rings and no lock: what   *)
(* each side sees is a first-in first-out buffer of one byte less than the *)
(* array. The character read leaves the ring as it is fetched, although    *)
(* its slot is given back only when the tail moves on.                     *)
Unread == IF pc = "advance" THEN Tail(RxContent) ELSE RxContent
Rx == INSTANCE Fifo WITH Item <- Chars, Capacity <- RxSize,
                         content <- Unread, taken <- data
RxIsFifo == Rx!Spec

Tx == INSTANCE Fifo WITH Item <- Bytes, Capacity <- TxSize,
                         content <- TxContent, taken <- heard
TxIsFifo == Tx!Steady

(* The receive interrupt drops a character when the ring is full. A host   *)
(* that counts characters never makes it, whatever resets come in between. *)
NothingDropped ==
  host.counts /\ (\E c \in host.chars \cup {"eol"} : MaySend(c)) => ~RxFull

(* Comments and blanks do not change a line, and a line that is too long   *)
(* is refused, not truncated. A character is in a comment if a parenthesis *)
(* was opened and not closed before it, or if it follows a semicolon that  *)
(* is not in a parenthesis.                                                *)
InParentheses(s, i) == \E j \in 1..(i - 1) : s[j] = "(" /\ \A k \in j..(i - 1) : s[k] # ")"
AfterSemicolon(s, i) == \E j \in 1..(i - 1) : s[j] = ";" /\ ~InParentheses(s, j)
Kept(s) == {i \in 1..Len(s) : /\ s[i] \in {"letter", ")"}
                              /\ ~InParentheses(s, i) /\ ~AfterSemicolon(s, i)}
IsLine(l, s) == /\ Len(l) = Cardinality(Kept(s))
                /\ \A i \in Kept(s) : l[Cardinality({j \in Kept(s) : j <= i})] = s[i]

(* The line that is executed is the oldest one the host has sent: no reset *)
(* or flush leaves half a line behind that is joined to the next.          *)
LineIsWhole ==
  host.counts /\ pc = "execute" =>
    /\ todo # <<>>
    /\ IF Overflowed THEN Cardinality(Kept(Head(todo))) >= LineSize ELSE IsLine(line, Head(todo))

(* Every line is answered once: the lines the host waits for are those     *)
(* still to be executed and those whose answer is on its way.              *)
Pending(s) == Cardinality({i \in 1..Len(s) : s[i] \in Answers})
EveryLineAnswered ==
  host.counts /\ ~waiting => Len(unanswered) = Len(todo) + Pending(TxContent) + Pending(out)

(* Bytes in the transmit ring are never left there: the interrupt is       *)
(* enabled or the main program is about to enable it.                      *)
TxKeepsSending == txHead # txTail => udrie \/ pc = "enable"

(* A reset is always answered by a greeting, however full the rings are.   *)
Greeted == waiting ~> ~waiting
===============================================================================
