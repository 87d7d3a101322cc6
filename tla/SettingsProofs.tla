---------------------------- MODULE SettingsProofs ----------------------------
(***************************************************************************)
(* Theorems about the EEPROM: a store stays within its record, what the    *)
(* controller works with is what it has stored, and soft limits are never  *)
(* on without homing, after any commands and losses of power, but for what *)
(* a startup line with a number that is not there is written over. What    *)
(* the checksum of a record is plays no part.                              *)
(***************************************************************************)
EXTENDS Settings, Integers, TLAPS, SequenceTheorems

-------------------------------------------------------------------------------
(* The records do not overlap.                                             *)

LEMMA Blocks ==
  ASSUME NEW n \in Nat, NEW m \in Nat, NEW k \in Nat
  PROVE  /\ n * k \in Nat
         /\ n < m => n * k + k <= m * k
<1>1. n * k \in Nat OBVIOUS
<1>2. ASSUME n < m PROVE n * k + k <= m * k
  <2>1. m - n - 1 \in Nat BY <1>2
  <2>2. (m - n - 1) * k >= 0 BY <2>1
  <2>3. (m - n - 1) * k = m * k - n * k - k OBVIOUS
  <2> QED BY <1>1, <2>2, <2>3
<1> QED BY <1>1, <1>2

(* A record that is there.                                                 *)
IsRecord(r) ==
  \/ r \in {Global, Info}
  \/ \E n \in Coords : r = Coord(n)
  \/ \E n \in StartupLines : r = StartupLine(n)
First(r) == Address(r)
Last(r) == Address(r) + Length(r)
LinesEnd == StartupBlock + N_STARTUP_LINE * (LineLength + 1)

LEMMA Sizes ==
  /\ GlobalLength = 4 /\ VectorLength \in Nat \ {0, 1} /\ LineLength \in Nat \ {0, 1}
  /\ LastCoord \in Nat /\ N_STARTUP_LINE \in 1..2 /\ Size \in Nat
  /\ 6 <= Parameters /\ Parameters \in Nat /\ StartupBlock \in Nat /\ BuildInfo \in Nat
  /\ Parameters + (LastCoord + 1) * (VectorLength + 1) <= StartupBlock
  /\ LinesEnd <= BuildInfo /\ LinesEnd \in Nat /\ LinesEnd > StartupBlock
  /\ BuildInfo + LineLength + 1 <= Size
  /\ LineNumbers \subseteq Nat
<1>0. /\ GlobalLength = 4 /\ VectorLength \in Nat \ {0, 1} /\ LineLength \in Nat \ {0, 1}
      /\ LastCoord \in Nat /\ N_STARTUP_LINE \in 1..2 /\ Size \in Nat
      /\ Parameters \in Nat /\ StartupBlock \in Nat /\ BuildInfo \in Nat
      /\ EepromAddrGlobal + GlobalLength + 1 <= Parameters
      /\ Parameters + (LastCoord + 1) * (VectorLength + 1) <= StartupBlock
      /\ LinesEnd <= BuildInfo /\ BuildInfo + LineLength + 1 <= Size
      /\ LineNumbers \subseteq Nat
  BY SettingsAssumption, Zenon DEF SettingsAssumption, LinesEnd
<1>1. N_STARTUP_LINE \in Nat /\ N_STARTUP_LINE >= 1 /\ LineLength + 1 \in Nat /\ LineLength + 1 > 0
      /\ StartupBlock \in Nat
  BY <1>0
<1>2. N_STARTUP_LINE * (LineLength + 1) \in Nat /\ N_STARTUP_LINE * (LineLength + 1) > 0
  <2>1. 0 * (LineLength + 1) + (LineLength + 1) <= N_STARTUP_LINE * (LineLength + 1)
        /\ N_STARTUP_LINE * (LineLength + 1) \in Nat
    BY <1>1, 0 < N_STARTUP_LINE, Blocks
  <2> QED BY <1>1, <2>1
<1>3. 6 <= Parameters BY <1>0 DEF EepromAddrGlobal
<1>4. LinesEnd \in Nat /\ LinesEnd > StartupBlock BY <1>1, <1>2 DEF LinesEnd
<1> QED BY <1>0, <1>3, <1>4

LEMMA Addresses ==
  /\ First(Global) = 1 /\ Length(Global) = 4
  /\ First(Info) = BuildInfo /\ Length(Info) = LineLength
  /\ \A n \in Nat : /\ First(Coord(n)) = Parameters + n * (VectorLength + 1)
                    /\ Length(Coord(n)) = VectorLength
                    /\ First(StartupLine(n)) = StartupBlock + n * (LineLength + 1)
                    /\ Length(StartupLine(n)) = LineLength
BY Sizes DEF First, Address, Length, Global, Info, Coord, StartupLine, Record, EepromAddrGlobal

LEMMA Limits ==
  /\ \A n \in Coords : /\ n \in Nat /\ First(Coord(n)) \in Nat /\ First(Coord(n)) >= Parameters
                       /\ First(Coord(n)) + VectorLength < StartupBlock
  /\ \A n \in StartupLines :
       /\ n \in Nat /\ First(StartupLine(n)) \in Nat /\ First(StartupLine(n)) >= StartupBlock
       /\ First(StartupLine(n)) + LineLength < LinesEnd
<1>1. ASSUME NEW n \in Coords
      PROVE  /\ n \in Nat /\ First(Coord(n)) \in Nat /\ First(Coord(n)) >= Parameters
             /\ First(Coord(n)) + VectorLength < StartupBlock
  <2>1. n \in Nat /\ n < LastCoord + 1 /\ LastCoord + 1 \in Nat BY Sizes DEF Coords
  <2>2. VectorLength + 1 \in Nat BY Sizes
  <2>3. /\ n * (VectorLength + 1) \in Nat
        /\ n * (VectorLength + 1) + (VectorLength + 1) <= (LastCoord + 1) * (VectorLength + 1)
        /\ (LastCoord + 1) * (VectorLength + 1) \in Nat
    BY <2>1, <2>2, Blocks
  <2>4. First(Coord(n)) = Parameters + n * (VectorLength + 1) BY <2>1, Addresses
  <2>5. Parameters + (LastCoord + 1) * (VectorLength + 1) <= StartupBlock
        /\ Parameters \in Nat /\ StartupBlock \in Nat /\ VectorLength \in Nat
    BY Sizes
  <2> QED BY <2>1, <2>3, <2>4, <2>5
<1>2. ASSUME NEW n \in StartupLines
      PROVE  /\ n \in Nat /\ First(StartupLine(n)) \in Nat /\ First(StartupLine(n)) >= StartupBlock
             /\ First(StartupLine(n)) + LineLength < LinesEnd
  <2>1. /\ n \in Nat /\ LineLength + 1 \in Nat /\ StartupBlock \in Nat /\ LineLength \in Nat
        /\ n < N_STARTUP_LINE /\ N_STARTUP_LINE \in Nat
    BY Sizes DEF StartupLines
  <2>2. First(StartupLine(n)) = StartupBlock + n * (LineLength + 1) BY <2>1, Addresses
  <2>3. /\ n * (LineLength + 1) \in Nat
        /\ n * (LineLength + 1) + (LineLength + 1) <= N_STARTUP_LINE * (LineLength + 1)
        /\ N_STARTUP_LINE * (LineLength + 1) \in Nat
    BY <2>1, Blocks
  <2> QED BY <2>1, <2>2, <2>3 DEF LinesEnd
<1> QED BY <1>1, <1>2

LEMMA Places ==
  ASSUME NEW r, IsRecord(r)
  PROVE  /\ First(r) \in Nat /\ Length(r) \in Nat \ {0, 1} /\ First(r) >= 1
         /\ Last(r) = First(r) + Length(r) /\ Last(r) < Size
         /\ r # Global => First(r) >= 6
         /\ r # Info => Last(r) < LinesEnd
<1>1. Last(r) = First(r) + Length(r) BY DEF Last, First
<1>2. LinesEnd < Size /\ LinesEnd > StartupBlock /\ StartupBlock >= 6 /\ LinesEnd \in Nat
      /\ VectorLength \in Nat \ {0, 1} /\ LineLength \in Nat \ {0, 1} /\ Size \in Nat
      /\ StartupBlock \in Nat
  <2>1. (LastCoord + 1) * (VectorLength + 1) \in Nat
    <3>1. LastCoord + 1 \in Nat /\ VectorLength + 1 \in Nat BY Sizes
    <3> QED BY <3>1, Blocks
  <2>2. /\ Parameters + (LastCoord + 1) * (VectorLength + 1) <= StartupBlock
        /\ Parameters \in Nat /\ Parameters >= 6 /\ StartupBlock \in Nat
    BY Sizes
  <2>3. StartupBlock >= 6 BY <2>1, <2>2
  <2>4. /\ LinesEnd <= BuildInfo /\ LinesEnd \in Nat /\ LinesEnd > StartupBlock /\ BuildInfo \in Nat
        /\ BuildInfo + LineLength + 1 <= Size /\ Size \in Nat
        /\ VectorLength \in Nat \ {0, 1} /\ LineLength \in Nat \ {0, 1}
    BY Sizes
  <2>5. LinesEnd < Size BY <2>4
  <2> QED BY <2>2, <2>3, <2>4, <2>5
<1>3. CASE r = Global
  <2>1. First(r) = 1 /\ Length(r) = 4 /\ Last(r) = 5 BY <1>1, <1>3, Addresses
  <2>2. 5 < LinesEnd /\ 5 < Size BY <1>2
  <2> QED BY <1>2, <1>3, <2>1, <2>2
<1>4. CASE r = Info
  <2>1. Info # Global BY DEF Info, Global, Record
  <2> QED BY <1>1, <1>2, <1>4, <2>1, Addresses, Sizes
<1>5. ASSUME NEW n \in Coords, r = Coord(n)
      PROVE  First(r) \in Nat /\ First(r) >= 6 /\ Length(r) = VectorLength /\ First(r) + VectorLength < LinesEnd
  <2>1. /\ n \in Nat /\ First(r) \in Nat /\ First(r) >= Parameters /\ First(r) + VectorLength < StartupBlock
    BY <1>5, Limits
  <2>2. Length(r) = VectorLength BY <1>5, <2>1, Addresses
  <2> QED BY <1>2, <2>1, <2>2, Sizes
<1>6. ASSUME NEW n \in StartupLines, r = StartupLine(n)
      PROVE  First(r) \in Nat /\ First(r) >= 6 /\ Length(r) = LineLength /\ First(r) + LineLength < LinesEnd
  <2>1. /\ n \in Nat /\ First(r) \in Nat /\ First(r) >= StartupBlock /\ First(r) + LineLength < LinesEnd
    BY <1>6, Limits
  <2>2. Length(r) = LineLength BY <1>6, <2>1, Addresses
  <2> QED BY <1>2, <2>1, <2>2, Sizes
<1> QED BY <1>1, <1>2, <1>3, <1>4, <1>5, <1>6 DEF IsRecord

(* Two records have no byte in common.                                     *)
LEMMA Apart ==
  ASSUME NEW r, IsRecord(r), NEW q, IsRecord(q), r # q
  PROVE  Last(r) < First(q) \/ Last(q) < First(r)
<1>1. /\ First(r) \in Nat /\ Length(r) \in Nat /\ Last(r) = First(r) + Length(r)
      /\ First(q) \in Nat /\ Length(q) \in Nat /\ Last(q) = First(q) + Length(q)
      /\ r # Global => First(r) >= 6
      /\ q # Global => First(q) >= 6
      /\ r # Info => Last(r) < LinesEnd
      /\ q # Info => Last(q) < LinesEnd
      /\ LinesEnd <= BuildInfo /\ LinesEnd \in Nat /\ BuildInfo \in Nat /\ StartupBlock \in Nat
  BY Places, Sizes
<1>2. CASE r = Global \/ q = Global
  <2>1. First(Global) + Length(Global) < 6 BY Addresses
  <2> QED BY <1>1, <1>2, <2>1
<1>3. CASE r = Info \/ q = Info
  <2>1. First(Info) = BuildInfo BY Addresses
  <2> QED BY <1>1, <1>3, <2>1
<1>4. ASSUME NEW n \in Coords, NEW m \in Coords, r = Coord(n), q = Coord(m)
      PROVE  Last(r) < First(q) \/ Last(q) < First(r)
  <2>1. m \in Nat /\ n \in Nat /\ VectorLength + 1 \in Nat /\ VectorLength \in Nat /\ Parameters \in Nat
    BY Limits, Sizes
  <2>2. n < m \/ m < n BY <1>4, <2>1
  <2>3. /\ First(r) = Parameters + n * (VectorLength + 1) /\ First(q) = Parameters + m * (VectorLength + 1)
        /\ Length(r) = VectorLength /\ Length(q) = VectorLength
    BY <1>4, <2>1, Addresses
  <2>4. /\ n * (VectorLength + 1) \in Nat /\ m * (VectorLength + 1) \in Nat
        /\ n < m => n * (VectorLength + 1) + (VectorLength + 1) <= m * (VectorLength + 1)
        /\ m < n => m * (VectorLength + 1) + (VectorLength + 1) <= n * (VectorLength + 1)
    BY <2>1, Blocks
  <2> QED BY <1>1, <2>1, <2>2, <2>3, <2>4
<1>5. ASSUME NEW n \in StartupLines, NEW m \in StartupLines, r = StartupLine(n), q = StartupLine(m)
      PROVE  Last(r) < First(q) \/ Last(q) < First(r)
  <2>1. m \in Nat /\ n \in Nat /\ LineLength + 1 \in Nat /\ LineLength \in Nat /\ StartupBlock \in Nat
    BY Limits, Sizes
  <2>2. n < m \/ m < n BY <1>5, <2>1
  <2>3. /\ First(r) = StartupBlock + n * (LineLength + 1) /\ First(q) = StartupBlock + m * (LineLength + 1)
        /\ Length(r) = LineLength /\ Length(q) = LineLength
    BY <1>5, <2>1, Addresses
  <2>4. /\ n * (LineLength + 1) \in Nat /\ m * (LineLength + 1) \in Nat
        /\ n < m => n * (LineLength + 1) + (LineLength + 1) <= m * (LineLength + 1)
        /\ m < n => m * (LineLength + 1) + (LineLength + 1) <= n * (LineLength + 1)
    BY <2>1, Blocks
  <2> QED BY <1>1, <2>1, <2>2, <2>3, <2>4
<1>6. ASSUME NEW n \in Coords, NEW m \in StartupLines, NEW x \in {r, q}, NEW y \in {r, q},
             x = Coord(n), y = StartupLine(m)
      PROVE  Last(x) < First(y)
  <2>1. n \in Nat /\ First(x) + VectorLength < StartupBlock /\ Length(x) = VectorLength
        /\ First(y) >= StartupBlock
    BY <1>6, Limits, Addresses
  <2> QED BY <1>1, <1>6, <2>1
<1> QED BY <1>2, <1>3, <1>4, <1>5, <1>6 DEF IsRecord

(* A line with a number that is not there is none of the records, and      *)
(* begins past the lines that are.                                         *)
LEMMA Strays ==
  /\ \A r : IsRecord(r) => ~Stray(r)
  /\ \A n \in Nat : n \in StartupLines \/ Stray(StartupLine(n))
  /\ \A r : Stray(r) /\ r.n \in Nat => Address(r) \in Nat /\ Address(r) >= LinesEnd
             /\ Length(r) = LineLength
<1>1. N_STARTUP_LINE \in Nat BY Sizes
<1>2. \A r : IsRecord(r) => ~Stray(r)
  BY <1>1 DEF IsRecord, Stray, Global, Info, Coord, StartupLine, StartupLines, Record
<1>3. \A n \in Nat : n \in StartupLines \/ Stray(StartupLine(n))
  BY <1>1 DEF Stray, StartupLine, StartupLines, Record
<1>4. ASSUME NEW r, Stray(r), r.n \in Nat
      PROVE  Address(r) \in Nat /\ Address(r) >= LinesEnd /\ Length(r) = LineLength
  <2>1. Address(r) = StartupBlock + r.n * (LineLength + 1) /\ Length(r) = LineLength
    BY <1>4 DEF Stray, Address, Length
  <2>2. LineLength + 1 \in Nat /\ StartupBlock \in Nat BY Sizes
  <2>3. r.n = N_STARTUP_LINE \/ N_STARTUP_LINE < r.n BY <1>1, <1>4 DEF Stray
  <2>4. /\ r.n * (LineLength + 1) \in Nat /\ N_STARTUP_LINE * (LineLength + 1) \in Nat
        /\ N_STARTUP_LINE < r.n
             => N_STARTUP_LINE * (LineLength + 1) + (LineLength + 1) <= r.n * (LineLength + 1)
    BY <1>1, <1>4, <2>2, Blocks
  <2> QED BY <2>1, <2>2, <2>3, <2>4 DEF LinesEnd
<1> QED BY <1>2, <1>3, <1>4

(* The remainder that the address register keeps.                          *)
LEMMA Remainder ==
  ASSUME NEW x \in Nat, NEW s \in Nat, s > 0
  PROVE  x % s \in 0..(s - 1) /\ (x < s => x % s = x)
OBVIOUS

LEMMA InPlace ==
  /\ \A r : IsRecord(r) => \A i \in 1..(Length(r) + 1) : Place(r, i) = First(r) + i - 1
  /\ \A r : Stray(r) /\ r.n \in Nat => \A i \in 1..(LineLength + 1) :
       /\ Place(r, i) \in 0..(Size - 1)
       /\ Address(r) + LineLength < Size => Place(r, i) >= LinesEnd
<1>1. Size \in Nat /\ Size > 0 /\ LineLength \in Nat /\ LinesEnd \in Nat BY Sizes, Blocks
<1>2. ASSUME NEW r, IsRecord(r), NEW i \in 1..(Length(r) + 1) PROVE Place(r, i) = First(r) + i - 1
  <2>1. First(r) + i - 1 \in Nat /\ First(r) + i - 1 < Size BY <1>1, <1>2, Places
  <2> QED BY <1>1, <2>1, Remainder DEF Place, First
<1>3. ASSUME NEW r, Stray(r), r.n \in Nat, NEW i \in 1..(LineLength + 1)
      PROVE  /\ Place(r, i) \in 0..(Size - 1)
             /\ Address(r) + LineLength < Size => Place(r, i) >= LinesEnd
  <2>1. Address(r) \in Nat /\ Address(r) >= LinesEnd BY <1>3, Strays
  <2>2. Address(r) + i - 1 \in Nat BY <1>1, <2>1
  <2>3. Place(r, i) \in 0..(Size - 1) BY <1>1, <2>2, Remainder DEF Place
  <2>4. ASSUME Address(r) + LineLength < Size PROVE Place(r, i) >= LinesEnd
    <3>1. Address(r) + i - 1 < Size /\ Address(r) + i - 1 >= LinesEnd BY <1>1, <2>1, <2>4
    <3> QED BY <1>1, <2>2, <3>1, Remainder DEF Place
  <2> QED BY <2>3, <2>4
<1> QED BY <1>2, <1>3

-------------------------------------------------------------------------------
(* What is to be written.                                                  *)

(* A sequence of whatever it holds: its bytes may be checksums.            *)
IsSeq(s) == s \in Seq({s[i] : i \in DOMAIN s})

LEMMA AnySeq ==
  ASSUME NEW S, NEW s \in Seq(S)
  PROVE  IsSeq(s)
<1> DEFINE R == {s[i] : i \in DOMAIN s}
<1>1. Len(s) \in Nat /\ DOMAIN s = 1..Len(s) /\ s = [i \in 1..Len(s) |-> s[i]] OBVIOUS
<1>2. s \in [1..Len(s) -> R] BY <1>1
<1> HIDE DEF R
<1>3. s \in Seq(R) BY <1>1, <1>2
<1> QED BY <1>3 DEF IsSeq, R

LEMMA FunctionSeq ==
  ASSUME NEW n \in Nat, NEW s, DOMAIN s = 1..n, s = [i \in 1..n |-> s[i]]
  PROVE  IsSeq(s) /\ Len(s) = n
<1> DEFINE R == {s[i] : i \in DOMAIN s}
<1>1. s \in [1..n -> R] OBVIOUS
<1> HIDE DEF R
<1>2. s \in Seq(R) /\ Len(s) = n BY <1>1
<1> QED BY <1>2 DEF IsSeq, R

LEMMA NoneSeq == IsSeq(<<>>) /\ Len(<<>>) = 0
<1>1. \A S : <<>> \in Seq(S) OBVIOUS
<1>2. Len(<<>>) = 0 OBVIOUS
<1> QED BY <1>1, <1>2 DEF IsSeq

LEMMA SeqTail ==
  ASSUME NEW s, IsSeq(s), s # <<>>
  PROVE  /\ IsSeq(Tail(s)) /\ Len(s) \in Nat \ {0} /\ Len(Tail(s)) = Len(s) - 1
         /\ Head(s) = s[1]
         /\ \A i \in 1..Len(Tail(s)) : i + 1 \in 1..Len(s) /\ Tail(s)[i] = s[i + 1]
<1> DEFINE R == {s[i] : i \in DOMAIN s}
<1>1. s \in Seq(R) BY DEF IsSeq
<1> HIDE DEF R
<1>2. Tail(s) \in Seq(R) BY <1>1
<1>3. IsSeq(Tail(s)) BY <1>2, AnySeq
<1> QED BY <1>1, <1>3

LEMMA SeqConcat ==
  ASSUME NEW s, IsSeq(s), NEW t, IsSeq(t)
  PROVE  /\ IsSeq(s \o t) /\ Len(s) \in Nat /\ Len(t) \in Nat /\ Len(s \o t) = Len(s) + Len(t)
         /\ \A i \in 1..Len(s) : (s \o t)[i] = s[i]
         /\ \A i \in (Len(s) + 1)..(Len(s) + Len(t)) : (s \o t)[i] = t[i - Len(s)]
<1> DEFINE R == {s[i] : i \in DOMAIN s} \cup {t[i] : i \in DOMAIN t}
<1>0. s \in Seq({s[i] : i \in DOMAIN s}) /\ t \in Seq({t[i] : i \in DOMAIN t}) BY DEF IsSeq
<1>1. s \in Seq(R) /\ t \in Seq(R) BY <1>0
<1> HIDE DEF R
<1>2. s \o t \in Seq(R) BY <1>1
<1>3. IsSeq(s \o t) BY <1>2, AnySeq
<1> QED BY <1>1, <1>3

(* A byte to be written lies in its record, or where one of a line with a  *)
(* number that is not there falls.                                         *)
Within(w) == w.address \in First(w.record)..Last(w.record) \/ (w.record = Global /\ w.address = 0)
Lies(w) ==
  \/ IsRecord(w.record) /\ Within(w)
  \/ /\ Stray(w.record) /\ w.record.n \in Nat
     /\ \E i \in 1..(LineLength + 1) : w.address = Place(w.record, i)

StoresOf(s, r) == IsSeq(s) /\ \A i \in 1..Len(s) : s[i].record = r /\ Lies(s[i])
Stores(s) == IsSeq(s) /\ \A i \in 1..Len(s) : Lies(s[i])

LEMMA WriteStores ==
  ASSUME NEW r, IsRecord(r), NEW data
  PROVE  /\ StoresOf(Write(r, data), r) /\ Len(Write(r, data)) = Length(r) + 1
         /\ \A i \in 1..(Length(r) + 1) :
              /\ Write(r, data)[i].address = First(r) + i - 1
              /\ Write(r, data)[i].byte = IF i > Length(r) THEN Checksum(data) ELSE data[i]
<1>1. Length(r) \in Nat /\ First(r) \in Nat /\ Last(r) = First(r) + Length(r) BY Places
<1>2. IsSeq(Write(r, data)) /\ Len(Write(r, data)) = Length(r) + 1
  BY <1>1, FunctionSeq DEF Write
<1>3. ASSUME NEW i \in 1..(Length(r) + 1)
      PROVE  /\ Write(r, data)[i].address = First(r) + i - 1 /\ Write(r, data)[i].record = r
             /\ Write(r, data)[i].byte = IF i > Length(r) THEN Checksum(data) ELSE data[i]
  <2>1. Place(r, i) = First(r) + i - 1 BY <1>3, InPlace
  <2> QED BY <1>3, <2>1 DEF Write
<1>4. ASSUME NEW i \in 1..(Length(r) + 1) PROVE Lies(Write(r, data)[i])
  BY <1>1, <1>3 DEF Lies, Within
<1> QED BY <1>2, <1>3, <1>4 DEF StoresOf

(* A startup line with any number.                                         *)
LEMMA LineStores ==
  ASSUME NEW n \in Nat, NEW data
  PROVE  /\ Stores(Write(StartupLine(n), data))
         /\ \A i \in 1..Len(Write(StartupLine(n), data)) :
              Write(StartupLine(n), data)[i].record.kind = "line"
<1> DEFINE r == StartupLine(n)
           w == Write(r, data)
<1>1. r.kind = "line" /\ r.n = n BY DEF StartupLine, Record
<1>2. CASE n \in StartupLines
  <2>1. IsRecord(r) BY <1>2 DEF IsRecord
  <2>2. StoresOf(w, r) BY <2>1, WriteStores
  <2> QED BY <1>1, <2>2 DEF StoresOf, Stores
<1>3. CASE n \notin StartupLines
  <2>1. Stray(r) /\ Length(r) = LineLength /\ LineLength + 1 \in Nat BY <1>1, <1>3, Strays, Sizes
  <2>2. IsSeq(w) /\ Len(w) = LineLength + 1 BY <2>1, FunctionSeq DEF Write
  <2>3. ASSUME NEW i \in 1..(LineLength + 1) PROVE w[i].record = r /\ w[i].address = Place(r, i)
    BY <2>1, <2>3 DEF Write
  <2> HIDE DEF w, r
  <2>4. \A i \in 1..(LineLength + 1) : Lies(w[i]) /\ w[i].record.kind = "line"
    BY <1>1, <2>1, <2>3 DEF Lies
  <2>5. Stores(w) /\ \A i \in 1..Len(w) : w[i].record.kind = "line" BY <2>2, <2>4 DEF Stores
  <2> QED BY <2>5 DEF w, r
<1> QED BY <1>2, <1>3

LEMMA ClearStores ==
  ASSUME NEW r, IsRecord(r)
  PROVE  StoresOf(Clear(r), r)
<1>1. Length(r) \in Nat \ {0, 1} /\ First(r) \in Nat /\ Last(r) = First(r) + Length(r) BY Places
<1>2. IsSeq(Clear(r)) /\ Len(Clear(r)) = 2 BY FunctionSeq DEF Clear
<1>3. ASSUME NEW i \in 1..2 PROVE Clear(r)[i].record = r /\ Clear(r)[i].address = First(r) + i - 1
  BY <1>3 DEF Clear, First
<1>4. ASSUME NEW i \in 1..2 PROVE Lies(Clear(r)[i])
  BY <1>1, <1>3 DEF Lies, Within
<1> QED BY <1>2, <1>3, <1>4 DEF StoresOf

LEMMA GlobalStores ==
  ASSUME NEW data
  PROVE  /\ StoresOf(WriteGlobal(data), Global) /\ Len(WriteGlobal(data)) = 6
         /\ \A i \in 1..6 : WriteGlobal(data)[i].address = i - 1
         /\ WriteGlobal(data)[1].byte = Version
         /\ \A i \in 2..6 : WriteGlobal(data)[i].byte = IF i = 6 THEN Checksum(data) ELSE data[i - 1]
<1>1. IsRecord(Global) /\ First(Global) = 1 /\ Length(Global) = 4 BY Addresses DEF IsRecord
<1>2. IsSeq(WriteVersion) /\ Len(WriteVersion) = 1 /\ WriteVersion[1].address = 0
      /\ WriteVersion[1].record = Global /\ WriteVersion[1].byte = Version
  <2>1. WriteVersion \in Seq({WriteVersion[1]}) /\ Len(WriteVersion) = 1 BY DEF WriteVersion
  <2> QED BY <2>1, AnySeq DEF WriteVersion
<1>3. /\ IsSeq(Write(Global, data)) /\ Len(Write(Global, data)) = 5
      /\ \A i \in 1..5 : /\ Write(Global, data)[i].record = Global /\ Lies(Write(Global, data)[i])
                         /\ Write(Global, data)[i].address = i
                         /\ Write(Global, data)[i].byte = IF i > 4 THEN Checksum(data) ELSE data[i]
  <2>1. StoresOf(Write(Global, data), Global) /\ Len(Write(Global, data)) = Length(Global) + 1 BY <1>1, WriteStores
  <2>2. \A i \in 1..(Length(Global) + 1) :
          /\ Write(Global, data)[i].address = First(Global) + i - 1
          /\ Write(Global, data)[i].byte = IF i > Length(Global) THEN Checksum(data) ELSE data[i]
    BY <1>1, WriteStores
  <2>3. Length(Global) + 1 = 5 /\ \A i \in 1..5 : First(Global) + i - 1 = i BY <1>1
  <2> HIDE DEF StoresOf
  <2>4. \A i \in 1..5 : /\ Write(Global, data)[i].address = i
                        /\ Write(Global, data)[i].byte = IF i > 4 THEN Checksum(data) ELSE data[i]
    BY <1>1, <2>2, <2>3
  <2> QED BY <2>1, <2>3, <2>4 DEF StoresOf
<1>4. /\ IsSeq(WriteGlobal(data)) /\ Len(WriteGlobal(data)) = 6
      /\ WriteGlobal(data)[1] = WriteVersion[1]
      /\ \A i \in 2..6 : WriteGlobal(data)[i] = Write(Global, data)[i - 1]
  <2> DEFINE w == Write(Global, data)
  <2>1. IsSeq(w) /\ Len(w) = 5 BY <1>3
  <2>2. WriteGlobal(data) = WriteVersion \o w BY DEF WriteGlobal
  <2> HIDE DEF w
  <2>3. /\ IsSeq(WriteVersion \o w) /\ Len(WriteVersion \o w) = Len(WriteVersion) + Len(w)
        /\ \A i \in 1..Len(WriteVersion) : (WriteVersion \o w)[i] = WriteVersion[i]
        /\ \A i \in (Len(WriteVersion) + 1)..(Len(WriteVersion) + Len(w)) :
             (WriteVersion \o w)[i] = w[i - Len(WriteVersion)]
    BY <1>2, <2>1, SeqConcat
  <2>4. /\ IsSeq(WriteVersion \o w) /\ Len(WriteVersion \o w) = 6
        /\ (WriteVersion \o w)[1] = WriteVersion[1]
        /\ \A i \in 2..6 : (WriteVersion \o w)[i] = w[i - 1]
    BY <1>2, <2>1, <2>3
  <2> QED BY <2>2, <2>4 DEF w
<1>5. Lies(WriteVersion[1]) BY <1>1, <1>2 DEF Lies, Within
<1>6. ASSUME NEW i \in 2..6
      PROVE  /\ WriteGlobal(data)[i].record = Global /\ Lies(WriteGlobal(data)[i])
             /\ WriteGlobal(data)[i].address = i - 1
             /\ WriteGlobal(data)[i].byte = IF i = 6 THEN Checksum(data) ELSE data[i - 1]
  <2>1. i - 1 \in 1..5 /\ (i = 6 <=> i - 1 > 4) BY <1>6
  <2> QED BY <1>3, <1>4, <2>1
<1>7. \A i \in 1..6 : /\ WriteGlobal(data)[i].record = Global /\ Lies(WriteGlobal(data)[i])
                      /\ WriteGlobal(data)[i].address = i - 1
  <2> SUFFICES ASSUME NEW i \in 1..6
               PROVE  /\ WriteGlobal(data)[i].record = Global /\ Lies(WriteGlobal(data)[i])
                      /\ WriteGlobal(data)[i].address = i - 1
    OBVIOUS
  <2>1. CASE i = 1 BY <1>2, <1>4, <1>5, <2>1
  <2>2. CASE i \in 2..6 BY <1>6, <2>2
  <2> QED BY <2>1, <2>2
<1> QED BY <1>2, <1>4, <1>6, <1>7 DEF StoresOf

(* What is written for one record is not written into another, but for     *)
(* the lines with a number that is not there.                              *)
Avoids(s, r) == \A i \in 1..Len(s) : s[i].address \notin Extent(r)

LEMMA Extents ==
  /\ Extent(Global) = 0..5 /\ First(Global) = 1 /\ Last(Global) = 5
  /\ \A r : r # Global => Extent(r) = First(r)..Last(r)
  /\ \A r : IsRecord(r) => First(r)..Last(r) \subseteq Extent(r)
BY Addresses DEF Extent, First, Last

LEMMA Elsewhere ==
  ASSUME NEW w, Lies(w), ~Stray(w.record), NEW r, IsRecord(r), w.record # r
  PROVE  w.address \notin Extent(r)
<1> DEFINE q == w.record
<1>1. IsRecord(q) /\ Within(w) BY DEF Lies
<1>2. /\ First(q) \in Nat /\ Last(q) \in Nat /\ First(q) >= 1 /\ (q # Global => First(q) >= 6)
      /\ First(r) \in Nat /\ Last(r) \in Nat /\ First(r) >= 1 /\ (r # Global => First(r) >= 6)
  BY <1>1, Places
<1>3. Last(q) < First(r) \/ Last(r) < First(q) BY <1>1, Apart
<1> HIDE DEF q
<1>4. CASE r = Global
  <2>1. q # Global /\ w.address \in First(q)..Last(q) BY <1>1, <1>4 DEF Within, q
  <2> QED BY <1>2, <1>4, <2>1, Extents
<1>5. CASE r # Global
  <2>1. Extent(r) = First(r)..Last(r) BY <1>5, Extents
  <2>2. w.address \in First(q)..Last(q) \/ w.address = 0 BY <1>1 DEF Within, q
  <2> QED BY <1>2, <1>3, <2>1, <2>2
<1> QED BY <1>4, <1>5

LEMMA OthersAvoid ==
  ASSUME NEW q, IsRecord(q), NEW r, IsRecord(r), r # q, NEW s, StoresOf(s, q)
  PROVE  Avoids(s, r)
BY Strays, Elsewhere DEF StoresOf, Avoids

-------------------------------------------------------------------------------
(* What memory will hold once all bytes are written.                       *)

Holds(mem, s, a, v) ==
  /\ \A i \in 1..Len(s) : s[i].address = a => s[i].byte = v
  /\ (\A i \in 1..Len(s) : s[i].address # a) => mem[a] = v

Kept(mem, s, r, data) ==
  /\ \A i \in 1..Length(r) : Holds(mem, s, First(r) + i - 1, data[i])
  /\ Holds(mem, s, Last(r), Checksum(data))

LEMMA HoldsPut ==
  ASSUME NEW mem, NEW s, IsSeq(s), s # <<>>, NEW a \in DOMAIN mem, NEW v, Holds(mem, s, a, v)
  PROVE  Holds([mem EXCEPT ![Head(s).address] = Head(s).byte], Tail(s), a, v)
<1> DEFINE t == Tail(s)
           new == [mem EXCEPT ![Head(s).address] = Head(s).byte]
<1>1. /\ Len(s) \in Nat \ {0} /\ Len(t) = Len(s) - 1 /\ Head(s) = s[1]
      /\ \A i \in 1..Len(t) : i + 1 \in 1..Len(s) /\ t[i] = s[i + 1]
  BY SeqTail
<1>2. \A i \in 1..Len(t) : t[i].address = a => t[i].byte = v BY <1>1 DEF Holds
<1>3. ASSUME \A i \in 1..Len(t) : t[i].address # a PROVE new[a] = v
  <2>1. CASE s[1].address = a
    <3>1. 1 \in 1..Len(s) BY <1>1
    <3>2. s[1].byte = v BY <2>1, <3>1 DEF Holds
    <3> QED BY <1>1, <2>1, <3>2
  <2>2. CASE s[1].address # a
    <3>1. ASSUME NEW i \in 1..Len(s) PROVE s[i].address # a
      <4>1. CASE i = 1 BY <2>2, <4>1
      <4>2. CASE i # 1
        <5>1. i - 1 \in 1..Len(t) /\ (i - 1) + 1 = i BY <1>1, <4>2
        <5> QED BY <1>1, <1>3, <5>1
      <4> QED BY <4>1, <4>2
    <3>2. mem[a] = v BY <3>1 DEF Holds
    <3> QED BY <1>1, <2>2, <3>2
  <2> QED BY <2>1, <2>2
<1> QED BY <1>2, <1>3 DEF Holds

LEMMA KeptPut ==
  ASSUME NEW mem, DOMAIN mem = 0..(Size - 1), NEW s, IsSeq(s), s # <<>>,
         NEW r, IsRecord(r), NEW data, Kept(mem, s, r, data)
  PROVE  Kept([mem EXCEPT ![Head(s).address] = Head(s).byte], Tail(s), r, data)
<1> DEFINE new == [mem EXCEPT ![Head(s).address] = Head(s).byte]
<1>1. /\ First(r) \in Nat /\ Length(r) \in Nat /\ Last(r) = First(r) + Length(r) /\ Last(r) < Size
      /\ Size \in Nat
  BY Places, Sizes
<1>2. ASSUME NEW i \in 1..Length(r) PROVE Holds(new, Tail(s), First(r) + i - 1, data[i])
  <2>1. First(r) + i - 1 \in DOMAIN mem BY <1>1
  <2>2. Holds(mem, s, First(r) + i - 1, data[i]) BY DEF Kept
  <2> QED BY <2>1, <2>2, HoldsPut
<1>3. Holds(new, Tail(s), Last(r), Checksum(data))
  <2>1. Last(r) \in DOMAIN mem BY <1>1
  <2>2. Holds(mem, s, Last(r), Checksum(data)) BY DEF Kept
  <2> QED BY <2>1, <2>2, HoldsPut
<1> QED BY <1>2, <1>3 DEF Kept

LEMMA WriteKept ==
  ASSUME NEW r, IsRecord(r), NEW mem, NEW data
  PROVE  Kept(mem, Write(r, data), r, data)
<1> DEFINE w == Write(r, data)
<1>1. First(r) \in Nat /\ Length(r) \in Nat /\ Last(r) = First(r) + Length(r) BY Places
<1>2. /\ Len(w) = Length(r) + 1
      /\ \A i \in 1..(Length(r) + 1) :
           /\ w[i].address = First(r) + i - 1
           /\ w[i].byte = IF i > Length(r) THEN Checksum(data) ELSE data[i]
  BY WriteStores
<1> HIDE DEF w
<1>3. ASSUME NEW i \in 1..(Length(r) + 1), NEW v, v = w[i].byte PROVE Holds(mem, w, First(r) + i - 1, v)
  <2>1. i \in 1..Len(w) /\ w[i].address = First(r) + i - 1 BY <1>2
  <2>2. ASSUME NEW j \in 1..Len(w), w[j].address = First(r) + i - 1 PROVE j = i BY <1>1, <1>2, <2>2
  <2> QED BY <1>3, <2>1, <2>2 DEF Holds
<1>4. ASSUME NEW i \in 1..Length(r) PROVE Holds(mem, w, First(r) + i - 1, data[i])
  <2>1. i \in 1..(Length(r) + 1) /\ w[i].byte = data[i] BY <1>1, <1>2
  <2> QED BY <1>3, <2>1
<1>5. Holds(mem, w, Last(r), Checksum(data))
  <2>1. /\ Length(r) + 1 \in 1..(Length(r) + 1) /\ w[Length(r) + 1].byte = Checksum(data)
        /\ First(r) + (Length(r) + 1) - 1 = Last(r)
    BY <1>1, <1>2
  <2> QED BY <1>3, <2>1
<1> QED BY <1>4, <1>5 DEF Kept, w

LEMMA GlobalKept ==
  ASSUME NEW mem, NEW data
  PROVE  Holds(mem, WriteGlobal(data), 0, Version) /\ Kept(mem, WriteGlobal(data), Global, data)
<1> DEFINE w == WriteGlobal(data)
<1>1. IsRecord(Global) /\ First(Global) = 1 /\ Length(Global) = 4 /\ Last(Global) = 5
  BY Addresses DEF IsRecord, Last, First
<1>2. /\ Len(w) = 6 /\ \A i \in 1..6 : w[i].address = i - 1
      /\ w[1].byte = Version
      /\ \A i \in 2..6 : w[i].byte = IF i = 6 THEN Checksum(data) ELSE data[i - 1]
  BY GlobalStores
<1> HIDE DEF w
<1>3. ASSUME NEW i \in 1..6, NEW v, v = w[i].byte PROVE Holds(mem, w, i - 1, v)
  <2>1. ASSUME NEW j \in 1..Len(w), w[j].address = i - 1 PROVE j = i BY <1>2, <2>1
  <2> QED BY <1>2, <1>3, <2>1 DEF Holds
<1>4. Holds(mem, w, 0, Version) BY <1>2, <1>3, 1 \in 1..6, 1 - 1 = 0
<1>5. ASSUME NEW i \in 1..Length(Global) PROVE Holds(mem, w, First(Global) + i - 1, data[i])
  <2>1. i + 1 \in 2..6 /\ i + 1 # 6 /\ (i + 1) - 1 = i /\ First(Global) + i - 1 = (i + 1) - 1 BY <1>1
  <2>2. w[i + 1].byte = data[i] BY <1>2, <2>1
  <2>3. Holds(mem, w, (i + 1) - 1, data[i]) BY <1>3, <2>1, <2>2
  <2> QED BY <2>1, <2>3
<1>6. Holds(mem, w, Last(Global), Checksum(data))
  <2>1. w[6].byte = Checksum(data) BY <1>2
  <2>2. Holds(mem, w, 6 - 1, Checksum(data)) BY <1>3, <2>1
  <2> QED BY <1>1, <2>2
<1> QED BY <1>4, <1>5, <1>6 DEF Kept, w

LEMMA KeptElsewhere ==
  ASSUME NEW mem, NEW r, IsRecord(r), NEW s, Avoids(s, r), NEW data
  PROVE  /\ Kept(mem, <<>>, r, data) => Kept(mem, s, r, data)
         /\ r = Global /\ Holds(mem, <<>>, 0, Version) => Holds(mem, s, 0, Version)
<1>1. /\ \A i \in 1..Len(s) : s[i].address \notin First(r)..Last(r)
      /\ r = Global => \A i \in 1..Len(s) : s[i].address # 0
  BY Extents DEF Avoids
<1>2. First(r) \in Nat /\ Length(r) \in Nat /\ Last(r) = First(r) + Length(r) BY Places
<1>3. ASSUME NEW a, NEW v, \A i \in 1..Len(s) : s[i].address # a, Holds(mem, <<>>, a, v)
      PROVE  Holds(mem, s, a, v)
  <2>1. mem[a] = v BY <1>3, NoneSeq DEF Holds
  <2> QED BY <1>3, <2>1 DEF Holds
<1>4. ASSUME Kept(mem, <<>>, r, data) PROVE Kept(mem, s, r, data)
  <2>1. ASSUME NEW i \in 1..Length(r) PROVE Holds(mem, s, First(r) + i - 1, data[i])
    <3>1. First(r) + i - 1 \in First(r)..Last(r) BY <1>2
    <3>2. Holds(mem, <<>>, First(r) + i - 1, data[i]) BY <1>4 DEF Kept
    <3> QED BY <1>1, <1>3, <3>1, <3>2
  <2>2. Holds(mem, s, Last(r), Checksum(data))
    <3>1. Last(r) \in First(r)..Last(r) BY <1>2
    <3>2. Holds(mem, <<>>, Last(r), Checksum(data)) BY <1>4 DEF Kept
    <3> QED BY <1>1, <1>3, <3>1, <3>2
  <2> QED BY <2>1, <2>2 DEF Kept
<1>5. ASSUME r = Global, Holds(mem, <<>>, 0, Version) PROVE Holds(mem, s, 0, Version)
  BY <1>1, <1>3, <1>5
<1> QED BY <1>4, <1>5

(* What follows a record and is written elsewhere leaves it as it is.      *)
LEMMA KeptConcat ==
  ASSUME NEW mem, NEW r, IsRecord(r), NEW s, IsSeq(s), NEW t, IsSeq(t), Avoids(t, r), NEW data,
         Kept(mem, s, r, data)
  PROVE  Kept(mem, s \o t, r, data)
<1> DEFINE u == s \o t
<1>1. /\ Len(s) \in Nat /\ Len(t) \in Nat /\ Len(u) = Len(s) + Len(t)
      /\ \A i \in 1..Len(s) : u[i] = s[i]
      /\ \A i \in (Len(s) + 1)..(Len(s) + Len(t)) : u[i] = t[i - Len(s)]
  BY SeqConcat
<1> HIDE DEF u
<1>2. \A i \in 1..Len(t) : t[i].address \notin First(r)..Last(r) BY Extents DEF Avoids
<1>3. First(r) \in Nat /\ Length(r) \in Nat /\ Last(r) = First(r) + Length(r) BY Places
<1>4. ASSUME NEW a \in First(r)..Last(r), NEW v, Holds(mem, s, a, v) PROVE Holds(mem, u, a, v)
  <2>1. \A i \in 1..Len(u) : \/ i \in 1..Len(s) /\ u[i] = s[i]
                             \/ i - Len(s) \in 1..Len(t) /\ u[i] = t[i - Len(s)]
    BY <1>1
  <2>2. \A i \in 1..Len(u) : u[i].address = a => u[i].byte = v BY <1>2, <1>4, <2>1 DEF Holds
  <2>3. \A i \in 1..Len(s) : i \in 1..Len(u) BY <1>1
  <2>4. (\A i \in 1..Len(u) : u[i].address # a) => mem[a] = v BY <1>1, <1>4, <2>3 DEF Holds
  <2> QED BY <2>2, <2>4 DEF Holds
<1>5. ASSUME NEW i \in 1..Length(r) PROVE Holds(mem, u, First(r) + i - 1, data[i])
  <2>1. First(r) + i - 1 \in First(r)..Last(r) BY <1>3
  <2> QED BY <1>4, <2>1 DEF Kept
<1>6. Holds(mem, u, Last(r), Checksum(data))
  <2>1. Last(r) \in First(r)..Last(r) BY <1>3
  <2> QED BY <1>4, <2>1 DEF Kept
<1> QED BY <1>5, <1>6 DEF Kept, u

LEMMA AvoidsConcat ==
  ASSUME NEW r, NEW s, IsSeq(s), NEW t, IsSeq(t)
  PROVE  /\ Avoids(s, r) /\ Avoids(t, r) => Avoids(s \o t, r)
         /\ Stores(s) /\ Stores(t) => Stores(s \o t)
<1> DEFINE u == s \o t
<1>1. /\ IsSeq(u) /\ Len(s) \in Nat /\ Len(t) \in Nat /\ Len(u) = Len(s) + Len(t)
      /\ \A i \in 1..Len(s) : u[i] = s[i]
      /\ \A i \in (Len(s) + 1)..(Len(s) + Len(t)) : u[i] = t[i - Len(s)]
  BY SeqConcat
<1> HIDE DEF u
<1>2. \A i \in 1..Len(u) : \/ i \in 1..Len(s) /\ u[i] = s[i]
                           \/ i - Len(s) \in 1..Len(t) /\ u[i] = t[i - Len(s)]
  BY <1>1
<1>3. Avoids(s, r) /\ Avoids(t, r) => Avoids(u, r) BY <1>2 DEF Avoids
<1>4. Stores(s) /\ Stores(t) => Stores(u) BY <1>1, <1>2 DEF Stores
<1> QED BY <1>3, <1>4 DEF u

(* A record is readable when memory holds it.                              *)
LEMMA KeptReadable ==
  ASSUME NEW r, IsRecord(r)
  PROVE  /\ Readable(r) => Kept(eeprom, <<>>, r, Data(r))
         /\ \A data : data = [i \in 1..Length(r) |-> data[i]] /\ Kept(eeprom, <<>>, r, data)
                      => Readable(r) /\ Data(r) = data
<1>1. First(r) \in Nat /\ Length(r) \in Nat /\ Last(r) = First(r) + Length(r) BY Places
<1>2. /\ Data(r) = [i \in 1..Length(r) |-> eeprom[First(r) + i - 1]]
      /\ Image(r)[Length(r) + 1] = eeprom[Last(r)]
  <2>1. \A i \in 1..(Length(r) + 1) : Image(r)[i] = eeprom[First(r) + i - 1] BY DEF Image, First
  <2>2. Length(r) + 1 \in 1..(Length(r) + 1) /\ First(r) + (Length(r) + 1) - 1 = Last(r) BY <1>1
  <2>3. \A i \in 1..Length(r) : i \in 1..(Length(r) + 1) BY <1>1
  <2> QED BY <2>1, <2>2, <2>3 DEF Data
<1>3. \A a, v : Holds(eeprom, <<>>, a, v) <=> eeprom[a] = v BY NoneSeq DEF Holds
<1>4. ASSUME Readable(r) PROVE Kept(eeprom, <<>>, r, Data(r))
  <2>1. eeprom[Last(r)] = Checksum(Data(r)) BY <1>2, <1>4 DEF Readable
  <2>2. \A i \in 1..Length(r) : Data(r)[i] = eeprom[First(r) + i - 1] BY <1>2
  <2> QED BY <1>3, <2>1, <2>2 DEF Kept
<1>5. ASSUME NEW data, data = [i \in 1..Length(r) |-> data[i]], Kept(eeprom, <<>>, r, data)
      PROVE  Readable(r) /\ Data(r) = data
  <2>1. \A i \in 1..Length(r) : eeprom[First(r) + i - 1] = data[i] BY <1>3, <1>5 DEF Kept
  <2>2. Data(r) = data BY <1>2, <1>5, <2>1
  <2>3. eeprom[Last(r)] = Checksum(data) BY <1>3, <1>5 DEF Kept
  <2> QED BY <1>2, <2>2, <2>3 DEF Readable
<1> QED BY <1>4, <1>5

-------------------------------------------------------------------------------
(* The invariant.                                                          *)

Ops ==
  {Op(name, 0) : name \in {"settings_init", "report", "main", "gc_init", "main_loop", "info", "clear_info"}}
    \cup {Op(name, n) : name \in {"zero", "coord"}, n \in Coords}
    \cup {Op(name, n) : name \in {"clear", "execute", "line"}, n \in StartupLines}

Asks(s, name) == \E i \in 1..Len(s) : s[i].name = name

(* What loads or resets the coordinates is followed by the initialization  *)
(* that reads them; the list of parameters, which ends where it cannot     *)
(* read one, has nothing else after it.                                    *)
Rereads(s) ==
  \A i \in 1..Len(s) : s[i].name \in {"settings_init", "zero"}
                       => \E j \in (i + 1)..Len(s) : s[j].name = "gc_init"
Lists(s) == Asks(s, "coord") => \A i \in 1..Len(s) : s[i].name = "coord"
Program(s) == s \in Seq(Ops) /\ Rereads(s) /\ Lists(s)

Shapes ==
  /\ DOMAIN eeprom = 0..(Size - 1)
  /\ settings = [i \in 1..GlobalLength |-> settings[i]]
  /\ coordSystem = [i \in 1..VectorLength |-> coordSystem[i]]

Ram ==
  /\ ~Asks(todo, "settings_init") /\ Global \notin stale
       => Holds(eeprom, job, 0, Version) /\ Kept(eeprom, job, Global, settings)
  /\ ~Asks(todo, "gc_init") /\ Coord(0) \notin stale => Kept(eeprom, job, Coord(0), coordSystem)

Consistent(flags) == flags \in Nat /\ (Has(flags, SoftLimits) => Has(flags, Homing))
Flags ==
  Global \notin strayed =>
    /\ Consistent(settings[3]) /\ Consistent(eeprom[3])
    /\ \A i \in 1..Len(job) : job[i].address = 3 => Consistent(job[i].byte)

SettingsInv == Shapes /\ Program(todo) /\ Stores(job) /\ Ram /\ Flags

-------------------------------------------------------------------------------
(* Programs.                                                               *)

LEMMA SeqOps ==
  ASSUME NEW s \in Seq(Ops)
  PROVE  Len(s) \in Nat /\ \A i \in 1..Len(s) : s[i] \in Ops
OBVIOUS

LEMMA ProgramTail ==
  ASSUME NEW s, Program(s), s # <<>>
  PROVE  /\ Program(Tail(s)) /\ Head(s) \in Ops
         /\ \A x : Asks(s, x) <=> Head(s).name = x \/ Asks(Tail(s), x)
         /\ Head(s).name \in {"settings_init", "zero"} => Asks(Tail(s), "gc_init")
         /\ Head(s).name = "coord" => \A x : Asks(Tail(s), x) => x = "coord"
         /\ Head(s).name # "coord" => ~Asks(Tail(s), "coord")
<1> DEFINE t == Tail(s)
<1>1. s \in Seq(Ops) BY DEF Program
<1>2. /\ t \in Seq(Ops) /\ Len(s) \in Nat \ {0} /\ Len(t) = Len(s) - 1 /\ Head(s) = s[1]
      /\ \A i \in 1..Len(t) : i + 1 \in 1..Len(s) /\ t[i] = s[i + 1]
  BY <1>1
<1>3. \A i \in 1..Len(s) : i = 1 \/ (i - 1 \in 1..Len(t) /\ s[i] = t[i - 1] /\ (i - 1) + 1 = i)
  BY <1>2
<1>4. 1 \in 1..Len(s) /\ Head(s) \in Ops BY <1>1, <1>2
<1> HIDE DEF t
<1>5. ASSUME NEW x PROVE Asks(s, x) <=> Head(s).name = x \/ Asks(t, x)
  <2>1. ASSUME Asks(s, x) PROVE Head(s).name = x \/ Asks(t, x) BY <1>2, <1>3, <2>1 DEF Asks
  <2>2. ASSUME Head(s).name = x \/ Asks(t, x) PROVE Asks(s, x) BY <1>2, <1>4, <2>2 DEF Asks
  <2> QED BY <2>1, <2>2
<1>6. ASSUME NEW i \in 1..Len(s), s[i].name \in {"settings_init", "zero"}
      PROVE  \E j \in i..Len(t) : t[j].name = "gc_init"
  <2>1. PICK j \in (i + 1)..Len(s) : s[j].name = "gc_init" BY <1>6 DEF Program, Rereads
  <2>2. j \in 1..Len(s) /\ j # 1 /\ j - 1 \in i..Len(t) BY <1>2, <2>1
  <2> QED BY <1>3, <2>1, <2>2
<1>7. Rereads(t)
  <2> SUFFICES ASSUME NEW i \in 1..Len(t), t[i].name \in {"settings_init", "zero"}
               PROVE  \E j \in (i + 1)..Len(t) : t[j].name = "gc_init"
    BY DEF Rereads
  <2>1. i + 1 \in 1..Len(s) /\ s[i + 1].name \in {"settings_init", "zero"} BY <1>2
  <2> QED BY <1>6, <2>1
<1>8. \A i \in 1..Len(s), j \in 1..Len(s) : s[i].name = "coord" => s[j].name = "coord"
  BY DEF Program, Lists, Asks
<1>9. Lists(t)
  <2> SUFFICES ASSUME NEW i \in 1..Len(t), t[i].name = "coord", NEW j \in 1..Len(t)
               PROVE  t[j].name = "coord"
    BY DEF Lists, Asks
  <2> QED BY <1>2, <1>8
<1>10. ASSUME Head(s).name \in {"settings_init", "zero"} PROVE Asks(t, "gc_init")
  <2>1. \E j \in 1..Len(t) : t[j].name = "gc_init" BY <1>2, <1>4, <1>6, <1>10
  <2> QED BY <2>1 DEF Asks
<1>11. ASSUME Head(s).name = "coord", NEW x, Asks(t, x) PROVE x = "coord"
  BY <1>2, <1>4, <1>8, <1>11 DEF Asks
<1>12. ASSUME Head(s).name # "coord" PROVE ~Asks(t, "coord")
  BY <1>2, <1>4, <1>8, <1>12 DEF Asks
<1>13. Program(t) BY <1>2, <1>7, <1>9 DEF Program
<1> QED BY <1>4, <1>5, <1>10, <1>11, <1>12, <1>13 DEF t

LEMMA ProgramConcat ==
  ASSUME NEW s \in Seq(Ops), NEW t, Program(t), ~Asks(s, "coord"), ~Asks(t, "coord"),
         Rereads(s) \/ Asks(t, "gc_init")
  PROVE  /\ Program(s \o t)
         /\ \A x : Asks(s \o t, x) <=> Asks(s, x) \/ Asks(t, x)
<1> DEFINE u == s \o t
<1>1. t \in Seq(Ops) BY DEF Program
<1>2. /\ u \in Seq(Ops) /\ Len(s) \in Nat /\ Len(t) \in Nat /\ Len(u) = Len(s) + Len(t)
      /\ \A i \in 1..Len(s) : u[i] = s[i]
      /\ \A i \in (Len(s) + 1)..(Len(s) + Len(t)) : u[i] = t[i - Len(s)]
  BY <1>1
<1> HIDE DEF u
<1>3. \A i \in 1..Len(u) : \/ i \in 1..Len(s) /\ u[i] = s[i]
                           \/ i - Len(s) \in 1..Len(t) /\ u[i] = t[i - Len(s)]
  BY <1>2
<1>4. /\ \A i \in 1..Len(s) : i \in 1..Len(u) /\ u[i] = s[i]
      /\ \A i \in 1..Len(t) : Len(s) + i \in 1..Len(u) /\ u[Len(s) + i] = t[i]
  <2>1. ASSUME NEW i \in 1..Len(t) PROVE Len(s) + i \in 1..Len(u) /\ u[Len(s) + i] = t[i]
    <3>1. \A k : k = Len(s) + i => k \in (Len(s) + 1)..(Len(s) + Len(t)) /\ k - Len(s) = i BY <1>2
    <3>2. \A k : k = Len(s) + i => u[k] = t[i] BY <1>2, <3>1
    <3>3. Len(s) + i \in 1..Len(u) BY <1>2
    <3> QED BY <3>2, <3>3
  <2> QED BY <1>2, <2>1
<1>5. ASSUME NEW x PROVE Asks(u, x) <=> Asks(s, x) \/ Asks(t, x)
  <2>1. ASSUME Asks(u, x) PROVE Asks(s, x) \/ Asks(t, x) BY <1>3, <2>1 DEF Asks
  <2>2. ASSUME Asks(s, x) \/ Asks(t, x) PROVE Asks(u, x) BY <1>4, <2>2 DEF Asks
  <2> QED BY <2>1, <2>2
<1>6. Lists(u) BY <1>5 DEF Lists
<1>7. ASSUME NEW i \in 1..Len(u), u[i].name \in {"settings_init", "zero"}
      PROVE  \E j \in (i + 1)..Len(u) : u[j].name = "gc_init"
  <2>1. CASE i \in 1..Len(s) /\ Rereads(s)
    <3>1. PICK j \in (i + 1)..Len(s) : s[j].name = "gc_init" BY <1>4, <1>7, <2>1 DEF Rereads
    <3>2. j \in 1..Len(s) BY <1>2, <2>1, <3>1
    <3>3. j \in (i + 1)..Len(u) /\ u[j].name = "gc_init" BY <1>2, <1>4, <3>1, <3>2
    <3> QED BY <3>3
  <2>2. CASE i \in 1..Len(s) /\ Asks(t, "gc_init")
    <3>1. PICK j \in 1..Len(t) : t[j].name = "gc_init" BY <2>2 DEF Asks
    <3>2. Len(s) + j \in (i + 1)..Len(u) BY <1>2, <2>2, <3>1
    <3>3. u[Len(s) + j].name = "gc_init" BY <1>4, <3>1
    <3> QED BY <3>2, <3>3
  <2>3. CASE i \notin 1..Len(s)
    <3>1. i - Len(s) \in 1..Len(t) /\ t[i - Len(s)].name \in {"settings_init", "zero"} BY <1>3, <1>7, <2>3
    <3>2. PICK j \in (i - Len(s) + 1)..Len(t) : t[j].name = "gc_init" BY <3>1 DEF Program, Rereads
    <3>3. j \in 1..Len(t) /\ Len(s) + j \in (i + 1)..Len(u) BY <1>2, <2>3, <3>1, <3>2
    <3>4. u[Len(s) + j].name = "gc_init" BY <1>4, <3>2, <3>3
    <3> QED BY <3>3, <3>4
  <2> QED BY <2>1, <2>2, <2>3
<1>8. Program(u) BY <1>2, <1>6, <1>7 DEF Program, Rereads
<1> QED BY <1>5, <1>8 DEF u

LEMMA EachOp ==
  ASSUME NEW name, NEW n \in Nat
  PROVE  /\ Each(name, n) \in Seq({Op(name, k) : k \in 0..(n - 1)})
         /\ \A x : Asks(Each(name, n), x) => x = name
         /\ name \notin {"settings_init", "zero"} => Rereads(Each(name, n))
<1>1. Each(name, n) = [i \in 1..n |-> Op(name, i - 1)] BY DEF Each
<1>2. \A i \in 1..n : Op(name, i - 1) \in {Op(name, k) : k \in 0..(n - 1)}
  <2> SUFFICES ASSUME NEW i \in 1..n PROVE Op(name, i - 1) \in {Op(name, k) : k \in 0..(n - 1)}
    OBVIOUS
  <2>1. i - 1 \in 0..(n - 1) BY DEF Op
  <2> QED BY <2>1
<1>3. Each(name, n) \in [1..n -> {Op(name, k) : k \in 0..(n - 1)}] BY <1>1, <1>2
<1>4. Each(name, n) \in Seq({Op(name, k) : k \in 0..(n - 1)}) /\ Len(Each(name, n)) = n
  <2> DEFINE S == {Op(name, k) : k \in 0..(n - 1)}
             e == Each(name, n)
  <2>1. e \in [1..n -> S] BY <1>3
  <2> HIDE DEF S, e
  <2>2. e \in Seq(S) /\ Len(e) = n BY <2>1
  <2> QED BY <2>2 DEF S, e
<1>5. \A i \in 1..n : Each(name, n)[i].name = name BY <1>1 DEF Op
<1> QED BY <1>4, <1>5 DEF Asks, Rereads

LEMMA Programs ==
  /\ Program(<<>>) /\ Program(Startup) /\ Program(StartupList) /\ Program(NgcParameters) /\ Program(<<Op("info", 0)>>)
  /\ Program(Initialization) /\ Program(PowerUp)
  /\ \A x : Asks(Startup, x) => x = "execute"
  /\ \A x : Asks(Initialization, x) <=> x \in {"gc_init", "main_loop"}
  /\ \A x \in {"settings_init", "gc_init"} : Asks(PowerUp, x)
<1>1. \A x : ~Asks(<<>>, x) BY NoneSeq DEF Asks
<1>2. Program(<<>>) BY <1>1, NoneSeq DEF Program, Rereads, Lists
<1>3. /\ Program(Startup) /\ \A x : Asks(Startup, x) => x = "execute"
      /\ Program(StartupList)
  <2>1. N_STARTUP_LINE \in Nat BY Sizes
  <2>2. /\ Startup \in Seq({Op("execute", k) : k \in StartupLines}) /\ Rereads(Startup)
        /\ \A x : Asks(Startup, x) => x = "execute"
    BY <2>1, EachOp DEF Startup, StartupLines
  <2>3. /\ StartupList \in Seq({Op("line", k) : k \in StartupLines}) /\ Rereads(StartupList)
        /\ \A x : Asks(StartupList, x) => x = "line"
    BY <2>1, EachOp DEF StartupList, StartupLines
  <2>4. {Op("execute", k) : k \in StartupLines} \subseteq Ops /\ {Op("line", k) : k \in StartupLines} \subseteq Ops
    BY DEF Ops
  <2>5. Startup \in Seq(Ops) /\ StartupList \in Seq(Ops) BY <2>2, <2>3, <2>4, SeqMonotonic
  <2> QED BY <2>2, <2>3, <2>5 DEF Program, Lists
<1>4. Program(NgcParameters)
  <2>1. LastCoord + 1 \in Nat /\ (LastCoord + 1) - 1 = LastCoord BY Sizes
  <2>2. /\ NgcParameters \in Seq({Op("coord", k) : k \in Coords}) /\ Rereads(NgcParameters)
        /\ \A x : Asks(NgcParameters, x) => x = "coord"
    BY <2>1, EachOp DEF NgcParameters, Coords
  <2>3. {Op("coord", k) : k \in Coords} \subseteq Ops BY DEF Ops
  <2>4. NgcParameters \in Seq(Ops) BY <2>2, <2>3, SeqMonotonic
  <2> QED BY <2>2, <2>4 DEF Program, Lists, Asks
<1>5. {Op(x, 0) : x \in {"settings_init", "main", "gc_init", "main_loop", "info"}} \subseteq Ops BY DEF Ops
<1>6. Program(<<Op("info", 0)>>)
  <2>1. <<Op("info", 0)>> \in Seq(Ops) /\ Len(<<Op("info", 0)>>) = 1 BY <1>5
  <2> QED BY <2>1 DEF Program, Rereads, Lists, Asks, Op
<1>7. Program(Initialization) /\ \A x : Asks(Initialization, x) <=> x \in {"gc_init", "main_loop"}
  <2>1. Initialization \in Seq(Ops) /\ Len(Initialization) = 2 BY <1>5 DEF Initialization
  <2>2. Initialization[1].name = "gc_init" /\ Initialization[2].name = "main_loop" BY DEF Initialization, Op
  <2> QED BY <2>1, <2>2 DEF Program, Rereads, Lists, Asks
<1>8. Program(PowerUp) /\ \A x \in {"settings_init", "gc_init"} : Asks(PowerUp, x)
  <2> DEFINE s == <<Op("settings_init", 0), Op("main", 0)>>
  <2>1. s \in Seq(Ops) /\ Len(s) = 2 /\ s[1].name = "settings_init" /\ s[2].name = "main" BY <1>5 DEF Op
  <2>2. PowerUp = s \o Initialization BY DEF PowerUp
  <2> HIDE DEF s
  <2>3. ~Asks(s, "coord") /\ Asks(s, "settings_init") BY <2>1 DEF Asks
  <2>4. ~Asks(Initialization, "coord") /\ Asks(Initialization, "gc_init") BY <1>7
  <2>5. Program(PowerUp) /\ \A x : Asks(PowerUp, x) <=> Asks(s, x) \/ Asks(Initialization, x)
    BY <1>7, <2>1, <2>2, <2>3, <2>4, ProgramConcat
  <2> QED BY <2>3, <2>4, <2>5
<1> QED BY <1>2, <1>3, <1>4, <1>6, <1>7, <1>8

LEMMA AsksConcat ==
  ASSUME NEW s \in Seq(Ops), NEW t \in Seq(Ops), NEW x, Asks(s \o t, x)
  PROVE  Asks(s, x) \/ Asks(t, x)
<1>1. PICK i \in 1..Len(s \o t) : (s \o t)[i].name = x BY DEF Asks
<1>2. \/ i \in 1..Len(s) /\ (s \o t)[i] = s[i]
      \/ i - Len(s) \in 1..Len(t) /\ (s \o t)[i] = t[i - Len(s)]
  OBVIOUS
<1> QED BY <1>1, <1>2 DEF Asks

LEMMA Restores ==
  /\ RestoreParameters \in Seq(Ops) /\ ~Asks(RestoreParameters, "coord")
  /\ RestoreRest \in Seq(Ops) /\ ~Asks(RestoreRest, "coord")
  /\ \A x : Asks(RestoreRest, x) => x \in {"zero", "clear", "clear_info"}
<1>1. LastCoord + 1 \in Nat /\ (LastCoord + 1) - 1 = LastCoord /\ N_STARTUP_LINE \in Nat BY Sizes
<1>2. /\ RestoreParameters \in Seq({Op("zero", k) : k \in Coords})
      /\ \A x : Asks(RestoreParameters, x) => x = "zero"
  BY <1>1, EachOp DEF RestoreParameters, Coords
<1> DEFINE c == Each("clear", N_STARTUP_LINE)
<1>3. /\ c \in Seq({Op("clear", k) : k \in StartupLines})
      /\ \A x : Asks(c, x) => x = "clear"
      /\ Rereads(c)
  BY <1>1, EachOp DEF StartupLines
<1>4. {Op("zero", k) : k \in Coords} \subseteq Ops /\ {Op("clear", k) : k \in StartupLines} \subseteq Ops
  BY DEF Ops
<1> HIDE DEF c
<1>5. RestoreParameters \in Seq(Ops) /\ c \in Seq(Ops) BY <1>2, <1>3, <1>4, SeqMonotonic
<1> DEFINE d == <<Op("clear_info", 0)>>
<1>6. d \in Seq(Ops) /\ Len(d) = 1 /\ d[1].name = "clear_info" BY DEF Ops, Op
<1>7. RestoreRest = (RestoreParameters \o c) \o d BY DEF RestoreRest, c
<1> HIDE DEF d
<1>8. RestoreRest \in Seq(Ops) BY <1>5, <1>6, <1>7
<1>9. ASSUME NEW x, Asks(RestoreRest, x) PROVE x \in {"zero", "clear", "clear_info"}
  <2>1. Asks(RestoreParameters \o c, x) \/ Asks(d, x)
    <3>1. RestoreParameters \o c \in Seq(Ops) BY <1>5
    <3> QED BY <1>6, <1>7, <1>9, <3>1, AsksConcat
  <2>2. Asks(RestoreParameters, x) \/ Asks(c, x) \/ Asks(d, x) BY <1>5, <2>1, AsksConcat
  <2>3. Asks(d, x) => x = "clear_info" BY <1>6 DEF Asks
  <2> QED BY <1>2, <1>3, <2>2, <2>3
<1> QED BY <1>2, <1>5, <1>8, <1>9

-------------------------------------------------------------------------------
(* Flags.                                                                  *)

LEMMA HasFlag ==
  ASSUME NEW f \in Nat
  PROVE  /\ Has(f, Homing) <=> f % 2 = 1
         /\ Has(f, SoftLimits) <=> f % 4 \in {2, 3}
<1>1. f \div 1 = f /\ ((f \div 2) % 2 = 1 <=> f % 4 \in {2, 3}) OBVIOUS
<1> QED BY <1>1 DEF Has, Homing, SoftLimits

LEMMA Switches ==
  ASSUME NEW f, Consistent(f), NEW value \in Nat
  PROVE  /\ Has(f, Homing) \/ IntValue(value) = 0 => Consistent(SoftLimitsSet(f, value))
         /\ Consistent(HomingSet(f, value))
<1>1. f \in Nat /\ (f % 4 \in {2, 3} => f % 2 = 1) BY HasFlag DEF Consistent
<1>2. /\ With(f, SoftLimits) = IF f % 4 \in {2, 3} THEN f ELSE f + 2
      /\ With(f, Homing) = IF f % 2 = 1 THEN f ELSE f + 1
      /\ Without(f, SoftLimits) = IF f % 4 \in {2, 3} THEN f - 2 ELSE f
      /\ Without(f, Homing) = IF f % 2 = 1 THEN f - 1 ELSE f
  BY <1>1, HasFlag DEF With, Without, Homing, SoftLimits
<1>3. ASSUME NEW g \in Nat, g % 4 \in {2, 3} => g % 2 = 1 PROVE Consistent(g)
  BY <1>3, HasFlag DEF Consistent
<1>4. Consistent(Without(f, SoftLimits))
  <2>1. f % 4 \in {2, 3} => f - 2 \in Nat /\ (f - 2) % 4 \notin {2, 3} BY <1>1
  <2> QED BY <1>1, <1>2, <1>3, <2>1
<1>5. Has(f, Homing) => Consistent(With(f, SoftLimits))
  <2>1. f % 2 = 1 => f + 2 \in Nat /\ (f + 2) % 2 = 1 BY <1>1
  <2> QED BY <1>1, <1>2, <1>3, <2>1, HasFlag
<1>6. Consistent(With(f, Homing))
  <2>1. f % 2 # 1 => f + 1 \in Nat /\ (f + 1) % 2 = 1 BY <1>1
  <2> QED BY <1>1, <1>2, <1>3, <2>1
<1>7. Consistent(Without(Without(f, Homing), SoftLimits))
  <2> DEFINE g == Without(f, Homing)
  <2>1. g \in Nat
    <3>1. f % 2 = 1 => f - 1 \in Nat BY <1>1
    <3> QED BY <1>1, <1>2, <3>1
  <2> HIDE DEF g
  <2>2. Without(g, SoftLimits) = IF g % 4 \in {2, 3} THEN g - 2 ELSE g
    BY <2>1, HasFlag DEF Without, SoftLimits
  <2>3. g % 4 \in {2, 3} => g - 2 \in Nat /\ (g - 2) % 4 \notin {2, 3} BY <2>1
  <2>4. Without(g, SoftLimits) \in Nat /\ Without(g, SoftLimits) % 4 \notin {2, 3} BY <2>1, <2>2, <2>3
  <2>5. Consistent(Without(g, SoftLimits)) BY <1>3, <2>4
  <2> QED BY <2>5 DEF g
<1> QED BY <1>4, <1>5, <1>6, <1>7 DEF SoftLimitsSet, HomingSet

LEMMA KnownFlags ==
  Consistent(Lost[3]) /\ Consistent(Defaults[3]) /\ Consistent(Erased)
<1>1. 0 \in Nat /\ 0 % 4 = 0 /\ 0 % 2 = 0 /\ 3 \in Nat /\ 3 % 2 = 1 OBVIOUS
<1>2. Lost[3] = 0 /\ Defaults[3] = 3 BY DEF Lost, Defaults, Homing, SoftLimits
<1>3. Erased \in Nat /\ Erased % 2 = 1
  <2>1. ByteValues \in Nat /\ ByteValues >= 4 /\ ByteValues % 4 = 0 BY ByteAssumption
  <2>2. ASSUME NEW b \in Nat, b >= 4, b % 4 = 0 PROVE b - 1 \in Nat /\ (b - 1) % 2 = 1 BY <2>2
  <2> QED BY <2>1, <2>2 DEF Erased
<1>4. ASSUME NEW f \in Nat, f % 4 = 0 \/ f % 2 = 1 PROVE Consistent(f) BY <1>4, HasFlag DEF Consistent
<1> QED BY <1>1, <1>2, <1>3, <1>4

-------------------------------------------------------------------------------
(* The invariant holds.                                                    *)

LEMMA TwoRecords ==
  /\ Global \in Records /\ Coord(0) \in Records /\ Global # Info /\ Coord(0) # Info /\ Coord(0) # Global
  /\ IsRecord(Global) /\ IsRecord(Coord(0)) /\ IsRecord(Info)
  /\ Length(Global) = GlobalLength /\ Length(Coord(0)) = VectorLength
<1>1. 0 \in Coords BY Sizes DEF Coords
<1>2. Length(Global) = GlobalLength /\ Length(Coord(0)) = VectorLength BY Addresses, Sizes
<1> QED BY <1>1, <1>2 DEF Records, IsRecord, Global, Info, Coord, Record

LEMMA NoStores == Stores(<<>>) /\ \A r : StoresOf(<<>>, r)
BY NoneSeq DEF StoresOf, Stores

LEMMA GlobalFlag ==
  ASSUME NEW data, Consistent(data[3])
  PROVE  \A i \in 1..Len(WriteGlobal(data)) :
           WriteGlobal(data)[i].address = 3 => Consistent(WriteGlobal(data)[i].byte)
<1> DEFINE w == WriteGlobal(data)
<1>1. /\ Len(w) = 6 /\ \A i \in 1..6 : w[i].address = i - 1
      /\ \A i \in 2..6 : w[i].byte = IF i = 6 THEN Checksum(data) ELSE data[i - 1]
  BY GlobalStores
<1> HIDE DEF w
<1>2. ASSUME NEW i \in 1..Len(w), w[i].address = 3 PROVE Consistent(w[i].byte)
  <2>1. i = 4 BY <1>1, <1>2
  <2>2. w[4].byte = data[3] BY <1>1
  <2> QED BY <2>1, <2>2
<1> QED BY <1>2 DEF w

(* A step that begins to write and leaves the settings in memory alone.    *)
LEMMA StepWritten ==
  ASSUME SettingsInv, job = <<>>, eeprom' = eeprom, settings' = settings,
         Stores(job'), Program(todo'),
         coordSystem' = [i \in 1..VectorLength |-> coordSystem'[i]],
         Asks(todo, "settings_init") => Asks(todo', "settings_init"),
         Global \in stale' \/ (Global \notin stale /\ Avoids(job', Global)),
         Global \in strayed' \/ (Global \notin strayed /\ Avoids(job', Global)),
         \/ Asks(todo', "gc_init") \/ Coord(0) \in stale'
         \/ Kept(eeprom, job', Coord(0), coordSystem')
         \/ /\ Avoids(job', Coord(0)) /\ coordSystem' = coordSystem
            /\ ~Asks(todo, "gc_init") /\ Coord(0) \notin stale
  PROVE  SettingsInv'
<1> USE TwoRecords
<1>1. Shapes' BY DEF SettingsInv, Shapes
<1>2. Stores(job)' OBVIOUS
<1>3. ASSUME Global \notin strayed'
      PROVE  /\ Consistent(settings'[3]) /\ Consistent(eeprom'[3])
             /\ \A i \in 1..Len(job') : job'[i].address = 3 => Consistent(job'[i].byte)
  <2>1. Global \notin strayed /\ Avoids(job', Global) BY <1>3
  <2>2. Consistent(settings[3]) /\ Consistent(eeprom[3]) BY <2>1 DEF SettingsInv, Flags
  <2>3. 3 \in Extent(Global) BY Extents
  <2>4. \A i \in 1..Len(job') : job'[i].address # 3 BY <2>1, <2>3 DEF Avoids
  <2> QED BY <2>2, <2>4
<1>4. ASSUME ~Asks(todo', "settings_init"), Global \notin stale'
      PROVE  Holds(eeprom, job', 0, Version) /\ Kept(eeprom, job', Global, settings)
  <2>1. Holds(eeprom, <<>>, 0, Version) /\ Kept(eeprom, <<>>, Global, settings)
    BY <1>4 DEF SettingsInv, Ram
  <2> QED BY <1>4, <2>1, KeptElsewhere
<1>5. ASSUME ~Asks(todo', "gc_init"), Coord(0) \notin stale'
      PROVE  Kept(eeprom, job', Coord(0), coordSystem')
  <2>1. CASE /\ Avoids(job', Coord(0)) /\ coordSystem' = coordSystem
             /\ ~Asks(todo, "gc_init") /\ Coord(0) \notin stale
    <3>1. Kept(eeprom, <<>>, Coord(0), coordSystem) BY <2>1 DEF SettingsInv, Ram
    <3> QED BY <2>1, <3>1, KeptElsewhere
  <2> QED BY <1>5, <2>1
<1>6. Ram' BY <1>4, <1>5 DEF Ram
<1>7. Flags' BY <1>3 DEF Flags
<1> QED BY <1>1, <1>2, <1>6, <1>7 DEF SettingsInv

(* A step that begins to write one record, which is not the settings.      *)
LEMMA OtherWritten ==
  ASSUME SettingsInv, job = <<>>, eeprom' = eeprom, settings' = settings,
         NEW q, IsRecord(q), q # Global, StoresOf(job', q), Program(todo'),
         coordSystem' = [i \in 1..VectorLength |-> coordSystem'[i]],
         Asks(todo, "settings_init") => Asks(todo', "settings_init"),
         stale' \in {stale, stale \ {Coord(0)}}, strayed' = strayed,
         \/ Asks(todo', "gc_init") \/ Coord(0) \in stale'
         \/ Kept(eeprom, job', Coord(0), coordSystem')
         \/ /\ q # Coord(0) /\ coordSystem' = coordSystem
            /\ ~Asks(todo, "gc_init") /\ stale' = stale
  PROVE  SettingsInv'
<1> USE TwoRecords
<1>1. Stores(job') BY DEF StoresOf, Stores
<1>2. Avoids(job', Global) /\ (q # Coord(0) => Avoids(job', Coord(0))) BY OthersAvoid
<1>3. Global \in stale' \/ Global \notin stale OBVIOUS
<1> QED BY <1>1, <1>2, <1>3, StepWritten

(* A step that begins to write the settings.                               *)
LEMMA GlobalWritten ==
  ASSUME SettingsInv, job = <<>>, eeprom' = eeprom,
         settings' = [i \in 1..GlobalLength |-> settings'[i]],
         Global \notin strayed => Consistent(settings'[3]),
         job' = WriteGlobal(settings'), Program(todo'), coordSystem' = coordSystem,
         Asks(todo, "gc_init") => Asks(todo', "gc_init"),
         stale' = stale \ {Global}, strayed' = strayed
  PROVE  SettingsInv'
<1> USE TwoRecords
<1>1. Shapes' BY DEF SettingsInv, Shapes
<1>2. StoresOf(job', Global) BY GlobalStores
<1>3. Stores(job)' BY <1>2 DEF StoresOf, Stores
<1>4. Flags' BY GlobalFlag DEF SettingsInv, Flags
<1>5. Holds(eeprom, job', 0, Version) /\ Kept(eeprom, job', Global, settings') BY GlobalKept
<1>6. ASSUME ~Asks(todo', "gc_init"), Coord(0) \notin stale'
      PROVE  Kept(eeprom, job', Coord(0), coordSystem')
  <2>1. Kept(eeprom, <<>>, Coord(0), coordSystem) BY <1>6 DEF SettingsInv, Ram
  <2>2. Avoids(job', Coord(0)) BY <1>2, OthersAvoid
  <2> QED BY <2>1, <2>2, KeptElsewhere
<1>7. Ram' BY <1>5, <1>6 DEF Ram
<1> QED BY <1>1, <1>3, <1>4, <1>7 DEF SettingsInv

(* What is written for lines misses a record it does not hit.              *)
LEMMA Missed ==
  ASSUME NEW rest, Stores(rest), \A i \in 1..Len(rest) : rest[i].record.kind = "line",
         NEW r \in {Global, Coord(0)}, r \notin Hit(rest)
  PROVE  Avoids(rest, r)
<1> SUFFICES ASSUME NEW i \in 1..Len(rest), rest[i].address \in Extent(r)
             PROVE  FALSE
  BY DEF Avoids
<1>1. ~Stray(rest[i].record) BY DEF Hit
<1>2. rest[i].record # r BY DEF Global, Coord, Record
<1>3. Lies(rest[i]) /\ IsRecord(r) BY TwoRecords DEF Stores
<1> QED BY <1>1, <1>2, <1>3, Elsewhere

LEMMA Commands ==
  /\ \A n \in Coords : /\ IsRecord(Coord(n)) /\ Coord(n) # Global
                       /\ Coord(n) = Coord(0) <=> n = 0
  /\ \A v \in Vectors : v = [i \in 1..VectorLength |-> v[i]]
  /\ Numbers \subseteq Nat /\ Values \subseteq Nat
<1>1. Vectors \subseteq [1..VectorLength -> Byte] /\ Numbers \subseteq 0..255 /\ Values \subseteq Nat
  BY SettingsAssumption DEF SettingsAssumption
<1>2. Numbers \subseteq Nat BY <1>1
<1> QED BY <1>1, <1>2 DEF IsRecord, Coord, Global, Record

LEMMA NoBytes == Stores(<<>>) /\ Hit(<<>>) = {} /\ \A i \in 1..Len(<<>>) : <<>>[i].record.kind = "line"
BY NoneSeq, NoStores DEF Hit

(* A line that is executed, and may write coordinates, before bytes for    *)
(* startup lines are written.                                              *)
LEMMA LineExecuted ==
  ASSUME SettingsInv, job = <<>>, eeprom' = eeprom, settings' = settings,
         NEW rest, Stores(rest), \A i \in 1..Len(rest) : rest[i].record.kind = "line",
         ExecuteLine(rest), strayed' = strayed \cup Hit(rest), Program(todo'),
         Asks(todo, "settings_init") => Asks(todo', "settings_init"),
         Asks(todo, "gc_init") => Asks(todo', "gc_init")
  PROVE  SettingsInv'
<1> USE TwoRecords
<1>1. /\ Global \in Hit(rest) \/ Avoids(rest, Global)
      /\ Coord(0) \in Hit(rest) \/ Avoids(rest, Coord(0))
  BY Missed
<1>2. coordSystem = [i \in 1..VectorLength |-> coordSystem[i]] BY DEF SettingsInv, Shapes
<1>3. CASE job' = rest /\ stale' = stale \cup Hit(rest) /\ coordSystem' = coordSystem
  <2>1. /\ Global \in stale' \/ (Global \notin stale /\ Avoids(job', Global))
        /\ Global \in strayed' \/ (Global \notin strayed /\ Avoids(job', Global))
        /\ Coord(0) \in stale' \/ (Coord(0) \notin stale /\ Avoids(job', Coord(0)))
    BY <1>1, <1>3
  <2> QED BY <1>2, <1>3, <2>1, StepWritten
<1>4. ASSUME NEW n \in Coords, NEW v \in Vectors, SetCoord(n, v, rest) PROVE SettingsInv'
  <2> DEFINE w == Write(Coord(n), v)
  <2>1. /\ job' = w \o rest /\ coordSystem' = IF n = 0 THEN v ELSE coordSystem
        /\ stale' = (stale \ {Coord(n)}) \cup Hit(rest)
    BY <1>4 DEF SetCoord
  <2>2. IsRecord(Coord(n)) /\ Coord(n) # Global /\ (Coord(n) = Coord(0) <=> n = 0) BY Commands
  <2>3. StoresOf(w, Coord(n)) BY <2>2, WriteStores
  <2> HIDE DEF w
  <2>4. IsSeq(w) /\ Stores(w) /\ IsSeq(rest) BY <2>3 DEF StoresOf, Stores
  <2>5. Avoids(w, Global) /\ (n # 0 => Avoids(w, Coord(0))) BY <2>2, <2>3, OthersAvoid
  <2>6. /\ Stores(job')
        /\ Avoids(rest, Global) => Avoids(job', Global)
        /\ n # 0 /\ Avoids(rest, Coord(0)) => Avoids(job', Coord(0))
    BY <2>1, <2>4, <2>5, AvoidsConcat
  <2>7. /\ Global \in stale' \/ (Global \notin stale /\ Avoids(job', Global))
        /\ Global \in strayed' \/ (Global \notin strayed /\ Avoids(job', Global))
    BY <1>1, <2>1, <2>2, <2>6
  <2>8. CASE n = 0
    <3>1. coordSystem' = v /\ v = [i \in 1..VectorLength |-> v[i]] BY <2>1, <2>8, Commands
    <3>2. ASSUME Coord(0) \notin Hit(rest) PROVE Kept(eeprom, job', Coord(0), coordSystem')
      <4>1. Kept(eeprom, w, Coord(0), v) BY <2>8, WriteKept DEF w
      <4> QED BY <1>1, <2>1, <2>4, <3>1, <3>2, <4>1, KeptConcat
    <3>3. Coord(0) \in stale' \/ Kept(eeprom, job', Coord(0), coordSystem') BY <2>1, <3>2
    <3> QED BY <2>6, <2>7, <3>1, <3>3, StepWritten
  <2>9. CASE n # 0
    <3>1. coordSystem' = coordSystem BY <2>1, <2>9
    <3>2. Coord(0) \in stale' \/ (Coord(0) \notin stale /\ Avoids(job', Coord(0)))
      BY <1>1, <2>1, <2>2, <2>6, <2>9
    <3> QED BY <1>2, <2>6, <2>7, <3>1, <3>2, StepWritten
  <2> QED BY <2>8, <2>9
<1> QED BY <1>3, <1>4 DEF ExecuteLine

LEMMA SettingsStarts == Init => SettingsInv
<1> SUFFICES ASSUME Init PROVE SettingsInv OBVIOUS
<1> USE DEF Init
<1>1. Lost = [i \in 1..GlobalLength |-> Lost[i]] BY Sizes DEF Lost
<1>2. Shapes BY <1>1 DEF Shapes, Zero
<1>3. Flags
  <2>1. eeprom[3] = Erased
    <3>1. 3 \in 0..(Size - 1) BY Sizes, TwoRecords, Places
    <3> QED BY <3>1
  <2> QED BY <2>1, NoneSeq, KnownFlags DEF Flags
<1> QED BY <1>2, <1>3, NoStores, Programs DEF SettingsInv, Ram

LEMMA JobHead ==
  ASSUME SettingsInv, job # <<>>
  PROVE  /\ Lies(Head(job)) /\ Head(job).address \in DOMAIN eeprom
         /\ Global \notin strayed /\ Head(job).address = 3 => Consistent(Head(job).byte)
<1>1. IsSeq(job) /\ (\A i \in 1..Len(job) : Lies(job[i])) BY DEF SettingsInv, Stores
<1>2. Head(job) = job[1] /\ 1 \in 1..Len(job) BY <1>1, SeqTail
<1>3. Lies(Head(job)) BY <1>1, <1>2
<1>4. Head(job).address \in 0..(Size - 1)
  <2> DEFINE w == Head(job)
             r == w.record
  <2>1. CASE IsRecord(r) /\ Within(w)
    <3>1. First(r) \in Nat /\ Last(r) \in Nat /\ Last(r) < Size /\ Size \in Nat BY <2>1, Places, Sizes
    <3> QED BY <2>1, <3>1 DEF Within
  <2>2. CASE Stray(r) /\ r.n \in Nat /\ \E i \in 1..(LineLength + 1) : w.address = Place(r, i)
    BY <2>2, InPlace
  <2> QED BY <1>3, <2>1, <2>2 DEF Lies
<1> QED BY <1>2, <1>3, <1>4 DEF SettingsInv, Shapes, Flags

LEMMA PutKeeps == SettingsInv /\ PutChar => SettingsInv'
<1> SUFFICES ASSUME SettingsInv, PutChar PROVE SettingsInv' OBVIOUS
<1>1. /\ IsSeq(job) /\ job # <<>> /\ \A i \in 1..Len(job) : Lies(job[i])
      /\ eeprom' = [eeprom EXCEPT ![Head(job).address] = Head(job).byte] /\ job' = Tail(job)
      /\ settings' = settings /\ coordSystem' = coordSystem /\ todo' = todo
      /\ stale' = stale /\ strayed' = strayed
      /\ DOMAIN eeprom = 0..(Size - 1)
  BY DEF PutChar, SettingsInv, Stores, Shapes, Astray
<1>2. /\ IsSeq(Tail(job)) /\ \A i \in 1..Len(Tail(job)) : i + 1 \in 1..Len(job) /\ Tail(job)[i] = job[i + 1]
  BY <1>1, SeqTail
<1>3. Shapes' BY <1>1 DEF SettingsInv, Shapes
<1>4. Stores(job)' BY <1>1, <1>2 DEF Stores
<1>5. Flags'
  <2> SUFFICES ASSUME Global \notin strayed
               PROVE  /\ Consistent(settings[3]) /\ Consistent(eeprom'[3])
                      /\ \A i \in 1..Len(job') : job'[i].address = 3 => Consistent(job'[i].byte)
    BY <1>1 DEF Flags
  <2>1. Consistent(eeprom'[3]) /\ Consistent(settings[3]) BY <1>1, JobHead DEF SettingsInv, Flags
  <2>2. ASSUME NEW i \in 1..Len(job'), job'[i].address = 3 PROVE Consistent(job'[i].byte)
    BY <1>1, <1>2, <2>2 DEF SettingsInv, Flags
  <2> QED BY <2>1, <2>2
<1>6. ASSUME ~Asks(todo, "settings_init"), Global \notin stale
      PROVE  Holds(eeprom', job', 0, Version) /\ Kept(eeprom', job', Global, settings)
  <2>1. Holds(eeprom, job, 0, Version) /\ Kept(eeprom, job, Global, settings)
    BY <1>6 DEF SettingsInv, Ram
  <2>2. 0 \in DOMAIN eeprom BY <1>1, Places, Sizes
  <2>3. Holds(eeprom', job', 0, Version) BY <1>1, <2>1, <2>2, HoldsPut
  <2>4. Kept(eeprom', job', Global, settings) BY <1>1, <2>1, KeptPut, TwoRecords
  <2> QED BY <2>3, <2>4
<1>7. ASSUME ~Asks(todo, "gc_init"), Coord(0) \notin stale
      PROVE  Kept(eeprom', job', Coord(0), coordSystem)
  <2>1. Kept(eeprom, job, Coord(0), coordSystem) BY <1>7 DEF SettingsInv, Ram
  <2> QED BY <1>1, <2>1, KeptPut, TwoRecords
<1>8. Ram' BY <1>1, <1>6, <1>7 DEF Ram
<1> QED BY <1>1, <1>3, <1>4, <1>5, <1>8 DEF SettingsInv

LEMMA LossKeeps == SettingsInv /\ PowerLoss => SettingsInv'
<1> SUFFICES ASSUME SettingsInv, PowerLoss PROVE SettingsInv' OBVIOUS
<1>1. /\ settings' = Lost /\ coordSystem' = Zero /\ todo' = PowerUp /\ job' = <<>>
      /\ stale' = stale /\ strayed' = strayed
  BY DEF PowerLoss, Astray
<1>2. DOMAIN eeprom' = DOMAIN eeprom /\ (Global \notin strayed => Consistent(eeprom'[3]))
  <2>1. CASE job = <<>> BY <2>1 DEF PowerLoss, SettingsInv, Flags
  <2>2. CASE job # <<>>
    <3>1. PICK b \in Torn(eeprom[Head(job).address], Head(job).byte) :
            eeprom' = [eeprom EXCEPT ![Head(job).address] = b]
      BY <2>2 DEF PowerLoss
    <3>2. b \in {eeprom[Head(job).address], Head(job).byte, Erased} BY <3>1 DEF Torn
    <3>3. Global \notin strayed /\ Head(job).address = 3 => Consistent(b)
      BY <2>2, <3>2, JobHead, KnownFlags DEF SettingsInv, Flags
    <3> QED BY <3>1, <3>3 DEF SettingsInv, Flags
  <2> QED BY <2>1, <2>2
<1>3. Lost = [i \in 1..GlobalLength |-> Lost[i]] BY Sizes DEF Lost
<1>4. Shapes' BY <1>1, <1>2, <1>3 DEF SettingsInv, Shapes, Zero
<1>5. Flags' BY <1>1, <1>2, NoneSeq, KnownFlags DEF Flags
<1> QED BY <1>1, <1>4, <1>5, NoStores, Programs DEF SettingsInv, Ram

LEMMA OpRecords ==
  ASSUME NEW op \in Ops
  PROVE  /\ op.name \in {"zero", "coord"} => op.n \in Coords /\ IsRecord(Coord(op.n)) /\ Coord(op.n) # Global
         /\ op.name \in {"clear", "execute", "line"} =>
              /\ IsRecord(StartupLine(op.n)) /\ StartupLine(op.n) # Global /\ StartupLine(op.n) # Coord(0)
<1>1. op.name \in {"zero", "coord"} => op.n \in Coords BY DEF Ops, Op
<1>2. op.name \in {"clear", "execute", "line"} => op.n \in StartupLines BY DEF Ops, Op
<1> QED BY <1>1, <1>2 DEF IsRecord, Coord, StartupLine, Global, Record

LEMMA RepairStores ==
  ASSUME NEW r, IsRecord(r), NEW data
  PROVE  StoresOf(Repair(r, data), r)
BY WriteStores, NoStores DEF Repair

(* An operation that takes itself off the program.                         *)
LEMMA TailStep ==
  ASSUME SettingsInv, job = <<>>, todo # <<>>,
         Head(todo).name \notin {"settings_init", "gc_init", "coord"},
         todo' = Tail(todo), eeprom' = eeprom, settings' = settings, coordSystem' = coordSystem,
         stale' = stale, strayed' = strayed,
         NEW q, IsRecord(q), q # Global, StoresOf(job', q), q = Coord(0) => Head(todo).name = "zero"
  PROVE  SettingsInv'
<1>1. Program(todo) /\ coordSystem = [i \in 1..VectorLength |-> coordSystem[i]]
  BY DEF SettingsInv, Shapes
<1>2. /\ Program(Tail(todo))
      /\ Asks(todo, "settings_init") => Asks(Tail(todo), "settings_init")
      /\ Asks(todo, "gc_init") => Asks(Tail(todo), "gc_init")
      /\ Head(todo).name = "zero" => Asks(Tail(todo), "gc_init")
  BY <1>1, ProgramTail
<1> QED BY <1>1, <1>2, OtherWritten

LEMMA InitKeeps ==
  ASSUME SettingsInv, job = <<>>, todo # <<>>, Head(todo).name = "settings_init",
         SettingsInit, UNCHANGED <<eeprom, coordSystem, strayed>>
  PROVE  SettingsInv'
<1>1. /\ Program(Tail(todo)) /\ Asks(Tail(todo), "gc_init") /\ ~Asks(Tail(todo), "coord")
  BY ProgramTail DEF SettingsInv
<1> stale' = stale \ {Global} BY DEF SettingsInit
<1>2. CASE eeprom[0] = Version /\ Readable(Global)
  <2>1. settings' = Data(Global) /\ todo' = Tail(todo) /\ job' = <<>> BY <1>2 DEF SettingsInit
  <2>2. /\ Data(Global) = [i \in 1..GlobalLength |-> Data(Global)[i]]
        /\ Data(Global)[3] = eeprom[3]
    BY Addresses, Sizes DEF Data, Image, First
  <2>3. Shapes' BY <2>1, <2>2 DEF SettingsInv, Shapes
  <2>4. Flags' BY <2>1, <2>2, NoneSeq DEF SettingsInv, Flags
  <2>5. Kept(eeprom, <<>>, Global, Data(Global)) BY <1>2, KeptReadable, TwoRecords
  <2>6. Holds(eeprom, <<>>, 0, Version) BY <1>2, NoneSeq DEF Holds
  <2>7. Ram' BY <1>1, <2>1, <2>5, <2>6 DEF Ram
  <2> QED BY <1>1, <2>1, <2>3, <2>4, <2>7, NoStores DEF SettingsInv
<1>3. CASE ~(eeprom[0] = Version /\ Readable(Global))
  <2> DEFINE report == <<Op("report", 0)>>
             before == RestoreRest \o report
  <2>1. /\ settings' = Defaults /\ todo' = before \o Tail(todo) /\ job' = WriteGlobal(Defaults)
    BY <1>3 DEF SettingsInit
  <2>2. report \in Seq(Ops) /\ Len(report) = 1 /\ report[1].name = "report" BY DEF Ops, Op
  <2> HIDE DEF report
  <2>3. ~Asks(report, "coord") BY <2>2 DEF Asks
  <2>4. before \in Seq(Ops) /\ ~Asks(before, "coord") BY <2>2, <2>3, Restores, AsksConcat
  <2> HIDE DEF before
  <2>5. Program(todo') /\ Asks(todo', "gc_init") BY <1>1, <2>1, <2>4, ProgramConcat
  <2>6. Defaults = [i \in 1..GlobalLength |-> Defaults[i]] BY Sizes DEF Defaults
  <2> QED BY <2>1, <2>5, <2>6, KnownFlags, GlobalWritten
<1> QED BY <1>2, <1>3

LEMMA GcInitKeeps ==
  ASSUME SettingsInv, job = <<>>, todo # <<>>, Head(todo).name = "gc_init", GcInit, eeprom' = eeprom, strayed' = strayed
  PROVE  SettingsInv'
<1> USE TwoRecords
<1>1. /\ Program(Tail(todo))
      /\ Asks(todo, "settings_init") => Asks(Tail(todo), "settings_init")
  BY ProgramTail DEF SettingsInv
<1>2. /\ coordSystem' = IF Readable(Coord(0)) THEN Data(Coord(0)) ELSE Zero
      /\ job' = Repair(Coord(0), Zero) /\ todo' = Tail(todo) /\ settings' = settings
      /\ stale' = stale \ {Coord(0)}
  BY DEF GcInit
<1>3. StoresOf(job', Coord(0)) BY <1>2, RepairStores
<1>4. /\ Data(Coord(0)) = [i \in 1..VectorLength |-> Data(Coord(0))[i]]
      /\ Zero = [i \in 1..VectorLength |-> Zero[i]]
  BY DEF Data, Zero
<1>5. coordSystem' = [i \in 1..VectorLength |-> coordSystem'[i]]
  <2>1. CASE Readable(Coord(0)) BY <1>2, <1>4, <2>1
  <2>2. CASE ~Readable(Coord(0)) BY <1>2, <1>4, <2>2
  <2> QED BY <2>1, <2>2
<1>6. Kept(eeprom, job', Coord(0), coordSystem')
  <2>1. CASE Readable(Coord(0)) BY <1>2, <2>1, KeptReadable DEF Repair
  <2>2. CASE ~Readable(Coord(0)) BY <1>2, <2>2, WriteKept DEF Repair
  <2> QED BY <2>1, <2>2
<1> QED BY <1>1, <1>2, <1>3, <1>5, <1>6, OtherWritten

LEMMA ReadCoordKeeps ==
  ASSUME SettingsInv, job = <<>>, todo # <<>>, Head(todo).name = "coord",
         ReadCoord(Head(todo).n), eeprom' = eeprom, strayed' = strayed
  PROVE  SettingsInv'
<1> DEFINE q == Coord(Head(todo).n)
<1> USE TwoRecords
<1>1. /\ Program(Tail(todo)) /\ ~Asks(todo, "settings_init") /\ ~Asks(todo, "gc_init") /\ Head(todo) \in Ops
  BY ProgramTail DEF SettingsInv
<1>2. IsRecord(q) /\ q # Global BY <1>1, OpRecords
<1>3. /\ job' = Repair(q, Zero) /\ todo' = IF Readable(q) THEN Tail(todo) ELSE <<>>
      /\ settings' = settings /\ coordSystem' = coordSystem /\ stale' = stale
  BY DEF ReadCoord
<1>4. StoresOf(job', q) BY <1>2, <1>3, RepairStores
<1>5. coordSystem = [i \in 1..VectorLength |-> coordSystem[i]] BY DEF SettingsInv, Shapes
<1>6. Program(todo') BY <1>1, <1>3, Programs
<1>7. q # Coord(0) \/ Coord(0) \in stale' \/ Kept(eeprom, job', Coord(0), coordSystem)
  <2>1. ASSUME q = Coord(0), Coord(0) \notin stale PROVE Kept(eeprom, job', Coord(0), coordSystem)
    <3>1. Kept(eeprom, <<>>, Coord(0), coordSystem) BY <1>1, <2>1 DEF SettingsInv, Ram
    <3>2. Readable(Coord(0)) BY <1>5, <3>1, KeptReadable
    <3>3. job' = <<>> BY <1>3, <2>1, <3>2 DEF Repair
    <3> QED BY <3>1, <3>3
  <2> QED BY <1>3, <2>1
<1> HIDE DEF q
<1> QED BY <1>1, <1>2, <1>3, <1>4, <1>5, <1>6, <1>7, OtherWritten

LEMMA OperationKeeps == SettingsInv /\ Operation => SettingsInv'
<1> SUFFICES ASSUME SettingsInv, Operation PROVE SettingsInv' OBVIOUS
<1> DEFINE op == Head(todo)
<1>1. job = <<>> /\ todo # <<>> /\ eeprom' = eeprom /\ strayed' = strayed BY DEF Operation
<1>2. op \in Ops /\ Program(Tail(todo)) BY <1>1, ProgramTail DEF SettingsInv
<1>3. CASE op.name = "settings_init" /\ SettingsInit /\ UNCHANGED <<coordSystem, state, interrupts>>
  BY <1>1, <1>3, InitKeeps
<1>4. CASE op.name = "zero" /\ RestoreRecord(Write(Coord(op.n), Zero))
  BY <1>1, <1>2, <1>4, OpRecords, WriteStores, TailStep DEF RestoreRecord
<1>5. CASE op.name = "clear" /\ RestoreRecord(Clear(StartupLine(op.n)))
  BY <1>1, <1>2, <1>5, OpRecords, ClearStores, TailStep DEF RestoreRecord
<1>6. CASE op.name = "clear_info" /\ RestoreRecord(Clear(Info))
  BY <1>1, <1>2, <1>6, TwoRecords, ClearStores, TailStep DEF RestoreRecord
<1>7. CASE op.name = "report" /\ Report
  BY <1>1, <1>2, <1>7, TwoRecords, NoStores, TailStep DEF Report
<1>8. CASE op.name = "main" /\ Main
  BY <1>1, <1>2, <1>8, TwoRecords, NoStores, TailStep DEF Main
<1>9. CASE op.name = "gc_init" /\ GcInit
  BY <1>1, <1>9, GcInitKeeps
<1>10. CASE op.name = "main_loop" /\ MainLoop
  <2>1. /\ todo' = Tail(todo) \o (IF state = "ALARM" THEN <<>> ELSE Startup)
        /\ settings' = settings /\ coordSystem' = coordSystem /\ job' = <<>> /\ stale' = stale
    BY <1>1, <1>10 DEF MainLoop
  <2> DEFINE more == IF state = "ALARM" THEN <<>> ELSE Startup
  <2>2. Program(more) /\ ~Asks(more, "coord") BY Programs, NoneSeq DEF Asks
  <2> HIDE DEF more
  <2>3. /\ Tail(todo) \in Seq(Ops) /\ Rereads(Tail(todo)) /\ ~Asks(Tail(todo), "coord")
        /\ \A x : Asks(todo, x) <=> op.name = x \/ Asks(Tail(todo), x)
    BY <1>1, <1>10, ProgramTail DEF SettingsInv, Program
  <2>4. /\ Program(Tail(todo) \o more)
        /\ \A x : Asks(Tail(todo) \o more, x) <=> Asks(Tail(todo), x) \/ Asks(more, x)
    BY <2>2, <2>3, ProgramConcat
  <2>5. /\ Program(todo')
        /\ Asks(todo, "settings_init") => Asks(todo', "settings_init")
        /\ Asks(todo, "gc_init") => Asks(todo', "gc_init")
    BY <1>10, <2>1, <2>3, <2>4 DEF more
  <2>6. coordSystem = [i \in 1..VectorLength |-> coordSystem[i]] BY DEF SettingsInv, Shapes
  <2>7. /\ Asks(todo', "gc_init") \/ ~Asks(todo, "gc_init")
        /\ Info # Coord(0) /\ StoresOf(job', Info)
    BY <2>1, <2>5, TwoRecords, NoStores
  <2> QED BY <1>1, <2>1, <2>5, <2>6, <2>7, TwoRecords, OtherWritten
<1>11. CASE op.name = "coord" /\ ReadCoord(op.n)
  BY <1>1, <1>11, ReadCoordKeeps
<1>12. CASE op.name = "line" /\ ReadLine(StartupLine(op.n))
  BY <1>1, <1>2, <1>12, OpRecords, RepairStores, TailStep DEF ReadLine
<1>13. CASE op.name = "info" /\ ReadLine(Info)
  BY <1>1, <1>2, <1>13, TwoRecords, RepairStores, TailStep DEF ReadLine
<1>14. CASE op.name = "execute" /\ Execute(StartupLine(op.n))
  <2> DEFINE r == StartupLine(op.n)
  <2>1. CASE Readable(r) /\ Data(r)[1] # 0
    <3>1. /\ ExecuteLine(<<>>) /\ todo' = Tail(todo) /\ settings' = settings
          /\ strayed' = strayed \cup Hit(<<>>)
      BY <1>1, <1>14, <2>1, NoBytes DEF Execute
    <3>2. /\ Asks(todo, "settings_init") => Asks(todo', "settings_init")
          /\ Asks(todo, "gc_init") => Asks(todo', "gc_init")
      BY <1>1, <1>14, <3>1, ProgramTail DEF SettingsInv
    <3> QED BY <1>1, <1>2, <3>1, <3>2, NoBytes, LineExecuted
  <2>2. CASE ~(Readable(r) /\ Data(r)[1] # 0)
    <3>1. ReadLine(r) BY <1>14, <2>2 DEF Execute
    <3>2. IsRecord(r) /\ r # Global /\ r # Coord(0) BY <1>2, <1>14, OpRecords
    <3>3. /\ todo' = Tail(todo) /\ settings' = settings /\ coordSystem' = coordSystem
          /\ stale' = stale /\ StoresOf(job', r)
      BY <3>1, <3>2, RepairStores DEF ReadLine
    <3> HIDE DEF r
    <3> QED BY <1>1, <1>14, <3>2, <3>3, TailStep
  <2> QED BY <2>1, <2>2
<1> QED BY <1>3, <1>4, <1>5, <1>6, <1>7, <1>8, <1>9, <1>10, <1>11, <1>12, <1>13, <1>14 DEF Operation

LEMMA StoreGlobalKeeps ==
  ASSUME SettingsInv, job = <<>>, todo = <<>>, eeprom' = eeprom,
         NEW parameter \in Numbers, NEW value \in Values, StoreGlobalSetting(parameter, value)
  PROVE  SettingsInv'
<1>1. /\ ~Refused(parameter, value) /\ settings' = Changed(parameter, value)
      /\ job' = WriteGlobal(settings') /\ todo' = todo /\ coordSystem' = coordSystem
      /\ stale' = stale \ {Global} /\ strayed' = strayed
  BY DEF StoreGlobalSetting
<1>2. parameter \in Nat /\ value \in Nat BY Commands
<1>3. /\ settings = [i \in 1..4 |-> settings[i]] /\ GlobalLength = 4
      /\ Global \notin strayed => Consistent(settings[3])
  BY Sizes DEF SettingsInv, Shapes, Flags
<1>4. OfAnAxis(parameter) \/ parameter \in {0, 20, 22, 27} BY <1>1 DEF Refused
<1>5. OfAnAxis(parameter) => parameter \notin {0, 20, 22, 27} BY <1>2 DEF OfAnAxis, AxisStart
<1>6. DOMAIN settings = 1..4 /\ 3 \in 1..4 BY <1>3
<1>7. /\ settings' = [i \in 1..GlobalLength |-> settings'[i]]
      /\ Global \notin strayed => Consistent(settings'[3])
  <2>1. CASE OfAnAxis(parameter)
    <3>1. settings' = [settings EXCEPT ![1] = IntValue(value)] BY <1>1, <1>5, <2>1 DEF Changed
    <3>2. settings'[3] = settings[3] BY <1>6, <3>1
    <3>3. settings' = [i \in 1..4 |-> settings'[i]] BY <1>3, <3>1
    <3> QED BY <1>3, <3>2, <3>3
  <2>2. CASE parameter = 0
    <3>1. settings' = [settings EXCEPT ![2] = IntValue(value)] BY <1>1, <1>5, <2>2 DEF Changed
    <3>2. settings'[3] = settings[3] BY <1>6, <3>1
    <3>3. settings' = [i \in 1..4 |-> settings'[i]] BY <1>3, <3>1
    <3> QED BY <1>3, <3>2, <3>3
  <2>3. CASE parameter = 20
    <3>1. settings' = [settings EXCEPT ![3] = SoftLimitsSet(settings[3], value)]
      BY <1>1, <1>5, <2>3 DEF Changed
    <3>2. Has(settings[3], Homing) \/ IntValue(value) = 0 BY <1>1, <2>3 DEF Refused
    <3>3. Global \notin strayed => Consistent(SoftLimitsSet(settings[3], value)) BY <1>2, <1>3, <3>2, Switches
    <3> QED BY <1>3, <3>1, <3>3
  <2>4. CASE parameter = 22
    <3>1. settings' = [settings EXCEPT ![3] = HomingSet(settings[3], value)]
      BY <1>1, <1>5, <2>4 DEF Changed
    <3>2. Global \notin strayed => Consistent(HomingSet(settings[3], value)) BY <1>2, <1>3, Switches
    <3> QED BY <1>3, <3>1, <3>2
  <2>5. CASE parameter = 27
    <3>1. settings' = [settings EXCEPT ![4] = IntValue(value)] BY <1>1, <1>5, <2>5 DEF Changed
    <3>2. settings'[3] = settings[3] BY <1>6, <3>1
    <3>3. settings' = [i \in 1..4 |-> settings'[i]] BY <1>3, <3>1
    <3> QED BY <1>3, <3>2, <3>3
  <2> QED BY <1>4, <2>1, <2>2, <2>3, <2>4, <2>5
<1> QED BY <1>1, <1>7, Programs, GlobalWritten

LEMMA RestoreKeeps ==
  ASSUME SettingsInv, job = <<>>, todo = <<>>, eeprom' = eeprom,
         NEW what \in {"defaults", "parameters", "all"}, Restore(what)
  PROVE  SettingsInv'
<1>1. /\ settings' = IF what = "parameters" THEN settings ELSE Defaults
      /\ job' = IF what = "parameters" THEN <<>> ELSE WriteGlobal(Defaults)
      /\ coordSystem' = coordSystem /\ strayed' = strayed
      /\ stale' = IF what = "parameters" THEN stale ELSE stale \ {Global}
  BY DEF Restore
<1>2. Program(todo') /\ Asks(todo', "gc_init") /\ ~Asks(todo, "settings_init")
  <2>1. PICK s \in {<<>>, RestoreParameters, RestoreRest} : todo' = s \o Initialization
    BY DEF Restore, AfterRestore
  <2>2. s \in Seq(Ops) /\ ~Asks(s, "coord")
    <3>1. <<>> \in Seq(Ops) /\ ~Asks(<<>>, "coord") BY NoneSeq DEF Asks
    <3> QED BY <3>1, Restores
  <2>3. /\ Program(Initialization) /\ ~Asks(Initialization, "coord")
        /\ Asks(Initialization, "gc_init")
    BY Programs
  <2>4. Program(todo') /\ Asks(todo', "gc_init") BY <2>1, <2>2, <2>3, ProgramConcat
  <2> QED BY <2>4, NoneSeq DEF Asks
<1>3. coordSystem = [i \in 1..VectorLength |-> coordSystem[i]] BY DEF SettingsInv, Shapes
<1>4. CASE what = "parameters"
  BY <1>1, <1>2, <1>3, <1>4, TwoRecords, NoStores, OtherWritten
<1>5. CASE what # "parameters"
  <2>1. Defaults = [i \in 1..GlobalLength |-> Defaults[i]] BY Sizes DEF Defaults
  <2> QED BY <1>1, <1>2, <1>5, <2>1, KnownFlags, GlobalWritten
<1> QED BY <1>4, <1>5

(* A command that stores nothing, or another record than the settings.     *)
LEMMA CommandStep ==
  ASSUME SettingsInv, job = <<>>, todo = <<>>, eeprom' = eeprom, settings' = settings,
         coordSystem' = coordSystem, Program(todo'), stale' = stale, strayed' = strayed,
         NEW q, IsRecord(q), q # Global, q # Coord(0), StoresOf(job', q)
  PROVE  SettingsInv'
<1>1. ~Asks(todo, "settings_init") /\ ~Asks(todo, "gc_init") BY NoneSeq DEF Asks
<1>2. coordSystem = [i \in 1..VectorLength |-> coordSystem[i]] BY DEF SettingsInv, Shapes
<1> QED BY <1>1, <1>2, OtherWritten

LEMMA CommandKeeps == SettingsInv /\ Command => SettingsInv'
<1> SUFFICES ASSUME SettingsInv, Command PROVE SettingsInv' OBVIOUS
<1> USE TwoRecords
<1>1. job = <<>> /\ todo = <<>> /\ eeprom' = eeprom BY DEF Command
<1>2. ~Asks(todo, "settings_init") /\ ~Asks(todo, "gc_init") BY <1>1, NoneSeq DEF Asks
<1>3. ASSUME NEW p \in Numbers, NEW v \in Values, StoreGlobalSetting(p, v) PROVE SettingsInv'
  BY <1>1, <1>3, StoreGlobalKeeps
<1>4. ASSUME NEW n \in LineNumbers, NEW l \in Lines, StoreStartupLine(n, l) PROVE SettingsInv'
  <2> DEFINE bytes == Write(StartupLine(IntValue(n)), l)
  <2>1. IntValue(n) \in Nat
    <3>1. n \in Nat /\ ByteValues \in Nat /\ ByteValues > 0 BY Sizes, ByteAssumption
    <3> QED BY <3>1, Remainder DEF IntValue
  <2>2. Stores(bytes) /\ \A i \in 1..Len(bytes) : bytes[i].record.kind = "line" BY <2>1, LineStores
  <2>3. /\ ExecuteLine(bytes) /\ strayed' = strayed \cup Hit(bytes)
        /\ todo' = todo /\ settings' = settings
    BY <1>4 DEF StoreStartupLine
  <2> HIDE DEF bytes
  <2> QED BY <1>1, <2>2, <2>3, Programs, LineExecuted
<1>5. ASSUME NEW l \in Lines, StoreBuildInfo(l) PROVE SettingsInv'
  <2>1. Info # Coord(0) OBVIOUS
  <2> QED BY <1>1, <1>5, <2>1, Programs, WriteStores, CommandStep DEF StoreBuildInfo, Astray
<1>6. ASSUME NEW n \in Coords, NEW v \in Vectors, StoreCoord(n, v) PROVE SettingsInv'
  <2>1. /\ ExecuteLine(<<>>) /\ strayed' = strayed \cup Hit(<<>>)
        /\ todo' = todo /\ settings' = settings
    BY <1>6, NoBytes DEF StoreCoord, ExecuteLine
  <2> QED BY <1>1, <2>1, NoBytes, Programs, LineExecuted
<1>7. ASSUME NEW what \in {"defaults", "parameters", "all"}, Restore(what) PROVE SettingsInv'
  BY <1>1, <1>7, RestoreKeeps
<1>8. ASSUME NEW ops \in {StartupList, NgcParameters, <<Op("info", 0)>>}, ReadOut(ops) PROVE SettingsInv'
  <2>1. Program(ops) BY Programs
  <2> QED BY <1>1, <1>8, <2>1, NoStores, CommandStep DEF ReadOut, Astray
<1>9. CASE Reset BY <1>1, <1>9, Programs, NoStores, CommandStep DEF Reset, Astray
<1>10. CASE Unlock BY <1>1, <1>10, Programs, NoStores, CommandStep DEF Unlock, Astray
<1>11. CASE Home BY <1>1, <1>11, Programs, NoStores, CommandStep DEF Home, Astray
<1> QED BY <1>3, <1>4, <1>5, <1>6, <1>7, <1>8, <1>9, <1>10, <1>11 DEF Command

LEMMA SettingsStep == SettingsInv /\ [Next]_vars => SettingsInv'
<1> SUFFICES ASSUME SettingsInv, [Next]_vars PROVE SettingsInv' OBVIOUS
<1>1. CASE Operation BY <1>1, OperationKeeps
<1>2. CASE PutChar BY <1>2, PutKeeps
<1>3. CASE Command BY <1>3, CommandKeeps
<1>4. CASE PowerLoss BY <1>4, LossKeeps
<1>5. CASE UNCHANGED vars
  BY <1>5 DEF vars, Astray, SettingsInv, Shapes, Stores, Ram, Flags
<1> QED BY <1>1, <1>2, <1>3, <1>4, <1>5 DEF Next

LEMMA SettingsHold == Spec => []SettingsInv
<1> QED BY SettingsStarts, SettingsStep, PTL DEF Spec

-------------------------------------------------------------------------------
(* The theorems.                                                           *)

(* Between two commands the settings and the selected coordinate system    *)
(* are the ones a power-up would load: after any stores and restores, and  *)
(* any losses of power in the middle of a byte of them. Only a record that *)
(* a startup line with a number that is not there was written over since   *)
(* it was last loaded or stored is excepted.                               *)
THEOREM RamMatchesStore == Spec => []RamIsStored
<1>1. ASSUME SettingsInv, todo = <<>>, job = <<>>
      PROVE  /\ Global \notin stale => eeprom[0] = Version /\ Readable(Global) /\ settings = Data(Global)
             /\ Coord(0) \notin stale => Readable(Coord(0)) /\ coordSystem = Data(Coord(0))
  <2>1. ~Asks(todo, "settings_init") /\ ~Asks(todo, "gc_init") BY <1>1, NoneSeq DEF Asks
  <2>2. /\ Global \notin stale => Holds(eeprom, <<>>, 0, Version) /\ Kept(eeprom, <<>>, Global, settings)
        /\ Coord(0) \notin stale => Kept(eeprom, <<>>, Coord(0), coordSystem)
    BY <1>1, <2>1 DEF SettingsInv, Ram
  <2>3. Global \notin stale => eeprom[0] = Version BY <2>2, NoneSeq DEF Holds
  <2>4. /\ settings = [i \in 1..Length(Global) |-> settings[i]]
        /\ coordSystem = [i \in 1..Length(Coord(0)) |-> coordSystem[i]]
    BY <1>1, TwoRecords DEF SettingsInv, Shapes
  <2> QED BY <2>2, <2>3, <2>4, TwoRecords, KeptReadable
<1>2. SettingsInv => RamIsStored BY <1>1 DEF RamIsStored, Busy
<1> QED BY <1>2, SettingsHold, PTL

(* Soft limits are never on in a machine that is not homed, whatever the   *)
(* user sets and wherever the power fails: the two flags share a byte, and *)
(* a byte that was being programmed is old, new or erased. It holds until  *)
(* a startup line with a number that is not there reaches the settings.    *)
THEOREM SoftLimitsAreHomed == Spec => []SoftLimitsNeedHoming
<1>1. SettingsInv => SoftLimitsNeedHoming
  BY DEF SettingsInv, Flags, Consistent, SoftLimitsNeedHoming
<1> QED BY <1>1, SettingsHold, PTL

(* A store changes its own record and no other, for every number that a    *)
(* startup line may be given: one that is not there is written over the    *)
(* build info, and over another record only where its last byte is past    *)
(* the end of the memory.                                                  *)
THEOREM RecordsStayApart == Spec => StoresStayApart
<1>1. ASSUME SettingsInv, [Next]_vars, NEW r \in Records, Image(r)' # Image(r)
      PROVE  job # <<>> /\ LET q == Head(job).record
                           IN  \/ q = r
                               \/ Stray(q) /\ (r = Info \/ Address(q) + LineLength >= Size)
  <2>1. eeprom' # eeprom BY <1>1 DEF Image
  <2>2. job # <<>> /\ \E b : eeprom' = [eeprom EXCEPT ![Head(job).address] = b]
    BY <1>1, <2>1 DEF Next, Operation, Command, PutChar, PowerLoss, vars
  <2>3. PICK b : eeprom' = [eeprom EXCEPT ![Head(job).address] = b] BY <2>2
  <2> DEFINE q == Head(job).record
             a == Head(job).address
  <2>4. Lies(Head(job)) BY <1>1, <2>2, JobHead
  <2>5. IsRecord(r) BY DEF IsRecord, Records
  <2>6. /\ First(r) \in Nat /\ Length(r) \in Nat /\ Last(r) = First(r) + Length(r) /\ First(r) >= 1
        /\ r # Info => Last(r) < LinesEnd
    BY <2>5, Places
  <2>7. a \in First(r)..Last(r)
    <3> SUFFICES ASSUME a \notin First(r)..Last(r) PROVE FALSE OBVIOUS
    <3>1. ASSUME NEW i \in 1..(Length(r) + 1) PROVE eeprom'[First(r) + i - 1] = eeprom[First(r) + i - 1]
      <4>1. First(r) + i - 1 \in First(r)..Last(r) BY <2>6
      <4> QED BY <2>3, <4>1
    <3>2. Image(r)' = Image(r) BY <3>1 DEF Image, First
    <3> QED BY <1>1, <3>2
  <2>8. ASSUME IsRecord(q), Within(Head(job)) PROVE q = r
    <3> SUFFICES ASSUME q # r PROVE FALSE OBVIOUS
    <3>1. Last(q) < First(r) \/ Last(r) < First(q) BY <2>5, <2>8, Apart
    <3>2. First(q) \in Nat /\ Last(q) \in Nat BY <2>8, Places
    <3>3. a \in First(q)..Last(q) \/ a = 0 BY <2>8 DEF Within
    <3> QED BY <2>6, <2>7, <3>1, <3>2, <3>3
  <2>9. ASSUME Stray(q), q.n \in Nat, NEW i \in 1..(LineLength + 1), a = Place(q, i), r # Info
        PROVE  Address(q) + LineLength >= Size
    <3>1. Address(q) + LineLength < Size => a >= LinesEnd BY <2>9, InPlace
    <3>2. Address(q) + LineLength \in Nat /\ Size \in Nat /\ LinesEnd \in Nat BY <2>9, Strays, Sizes
    <3> QED BY <2>6, <2>7, <2>9, <3>1, <3>2
  <2> QED BY <2>2, <2>4, <2>8, <2>9 DEF Lies
<1>2. SettingsInv /\ [Next]_vars
        => [\A r \in Records : Image(r)' # Image(r)
              => job # <<>> /\ LET q == Head(job).record
                               IN  \/ q = r
                                   \/ Stray(q) /\ (r = Info \/ Address(q) + LineLength >= Size)]_vars
  BY <1>1
<1> QED BY <1>2, SettingsHold, PTL DEF Spec, StoresStayApart

===============================================================================
