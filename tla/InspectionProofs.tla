--------------------------- MODULE InspectionProofs ---------------------------
(***************************************************************************)
(* For every input file, whatever its bytes and whatever lies behind a      *)
(* packet in memory, and every MAX_EXT_HEADERS: the parser never reads      *)
(* beyond a frame, nor does createPacketJob but for IPv6, the output file   *)
(* is read back as the packets that were forwarded, what is computed from   *)
(* the bytes of a packet keeps its type, and a name's application is that   *)
(* of the longest domain.                                                   *)
(***************************************************************************)
EXTENDS Inspection, DomainRulesProofs, SequenceTheorems, WellFoundedInduction, TLAPS

\* What the parser's steps need: bytes, so that no length is negative, and an
\* offset within the frame, from which the next header's check counts.
FrameInv == /\ raw \in Seq(Byte) /\ memory \in Memories
            /\ offset \in Nat /\ offset <= Len(raw)
            /\ reach \in Nat

\* The files are sequences of bytes, so the frames read from them are.
FileTyped == input \in Seq(Byte) /\ position \in Nat

IInv == FileTyped /\ FrameInv

\* What is read is a byte, wherever it is read.
LEMMA ByteRead ==
  ASSUME memory \in Memories, NEW p \in Seq(Byte), NEW i \in Nat
  PROVE  ByteAt(p, i) \in Byte
  <1>1. CASE i < Len(p)
    <2>1. i + 1 \in 1..Len(p)
      BY <1>1
    <2> HIDE DEF Byte
    <2>2. p[i + 1] \in Byte
      BY <2>1
    <2> QED
      BY <1>1, <2>2 DEF ByteAt
  <1>2. CASE ~(i < Len(p))
    <2> DEFINE n == Len(memory)
               k == (i - Len(p)) % n
    <2>1. memory \in Seq(Byte) /\ memory # <<>>
      BY MemoryAssumption
    <2> HIDE DEF Byte
    <2>2. n \in Nat /\ n > 0
      BY <2>1
    <2>3. i - Len(p) \in Nat
      BY <1>2
    <2>4. k \in 0..(n - 1)
      <3> DEFINE x == i - Len(p)
      <3>1. x \in Nat
        BY <2>3
      <3> HIDE DEF x, n
      <3> QED
        BY <2>2, <3>1 DEF x
    <2> HIDE DEF k
    <2>5. k + 1 \in 1..n
      <3> HIDE DEF n
      <3> QED
        BY <2>2, <2>4
    <2>6. memory[k + 1] \in Byte
      BY <2>1, <2>5
    <2> QED
      BY <1>2, <2>6 DEF ByteAt, k
  <1> QED
    BY <1>1, <1>2

\* A byte of the frame, and what the code computes from it.
LEMMA ByteTyped ==
  ASSUME FrameInv, NEW i \in Nat
  PROVE  /\ At(i) \in 0..255
         /\ HighNibble(i) \in 0..15
         /\ LowNibble(i) \in 0..15
  <1>1. At(i) \in 0..255
    <2>1. memory \in Memories /\ raw \in Seq(Byte)
      BY DEF FrameInv
    <2>2. ByteAt(raw, i) \in Byte
      BY <2>1, ByteRead, Zenon
    <2> QED
      BY <2>2 DEF At, Byte
  <1> QED
    BY <1>1 DEF HighNibble, LowNibble

\* Every header: what is read, and where the next one begins, is checked first.
LEMMA ParseKeepsFrame ==
  ASSUME FrameInv, UNCHANGED memory, parse
  PROVE  FrameInv' /\ (reach <= Len(raw) => reach' <= Len(raw'))
  <1> DEFINE n == Len(raw)
  <1>n. n \in Nat
    BY DEF FrameInv
  <1>r. ASSUME NEW k \in Nat, offset + k <= n, Reject(k)
        PROVE  FrameInv' /\ reach' <= Len(raw')
    BY <1>r, <1>n DEF Reject, FrameInv
  <1>1. CASE parseEthernet
    BY <1>1, <1>n, <1>r DEF parseEthernet, Fits, Reject, FrameInv
  <1>2. CASE parseIPv4
    <2> DEFINE length == 4 * LowNibble(offset)
    <2>1. LowNibble(offset) \in 0..15
      BY ByteTyped DEF FrameInv
    <2>l. length \in Nat
      BY <2>1
    <2>i. \/ ~Fits(20) /\ Reject(0)
          \/ Fits(20) /\ Reject(1)
          \/ /\ Fits(20) /\ Fits(length)
             /\ reach' = offset + 20 /\ offset' = offset + length
             /\ raw' = raw
      BY <1>2 DEF parseIPv4, ipHeaderFits
    <2> HIDE DEF length
    <2>2. CASE ~Fits(20) /\ Reject(0)
      BY <2>2, <1>n DEF Reject, FrameInv
    <2>3. CASE Fits(20) /\ Reject(1)
      BY <2>3, <1>n DEF Fits, Reject, FrameInv
    <2>4. CASE /\ Fits(20) /\ Fits(length)
               /\ reach' = offset + 20 /\ offset' = offset + length
               /\ raw' = raw
      BY <2>4, <2>l, <1>n DEF Fits, FrameInv
    <2> QED
      BY <2>i, <2>2, <2>3, <2>4
  <1>3. CASE parseIPv6
    BY <1>3, <1>n DEF parseIPv6, Fits, Reject, FrameInv
  <1>4. CASE walkFragment
    BY <1>4, <1>n DEF walkFragment, Fits, Unsupported, NextHeader, FrameInv
  <1>5. CASE walkVariable
    <2>1. At(offset + 1) \in 0..255
      BY ByteTyped DEF FrameInv
    <2>2. extLength \in Nat /\ extLength >= 8
      BY <2>1 DEF extLength
    <2> QED
      BY <1>5, <1>n, <2>2 DEF walkVariable, Fits, Unsupported, NextHeader, FrameInv
  <1>6. CASE walkEnd
    BY <1>6 DEF walkEnd, FrameInv
  <1>7. CASE parseTCP
    <2> DEFINE length == 4 * HighNibble(offset + 12)
    <2>1. HighNibble(offset + 12) \in 0..15
      BY ByteTyped DEF FrameInv
    <2>l. length \in Nat
      BY <2>1
    <2>i. \/ ~Fits(20) /\ Reject(0)
          \/ Fits(20) /\ Reject(13)
          \/ /\ Fits(20) /\ Fits(length)
             /\ reach' = offset + 14 /\ offset' = offset + length
             /\ raw' = raw
      BY <1>7 DEF parseTCP
    <2> HIDE DEF length
    <2>2. CASE ~Fits(20) /\ Reject(0)
      BY <2>2, <1>n DEF Reject, FrameInv
    <2>3. CASE Fits(20) /\ Reject(13)
      BY <2>3, <1>n DEF Fits, Reject, FrameInv
    <2>4. CASE /\ Fits(20) /\ Fits(length)
               /\ reach' = offset + 14 /\ offset' = offset + length
               /\ raw' = raw
      BY <2>4, <2>l, <1>n DEF Fits, FrameInv
    <2> QED
      BY <2>i, <2>2, <2>3, <2>4
  <1>8. CASE parseUDP
    BY <1>8, <1>n DEF parseUDP, Fits, Reject, FrameInv
  <1>9. CASE parseICMP
    BY <1>9, <1>n DEF parseICMP, Fits, Reject, FrameInv
  <1>10. CASE setPayload
    BY <1>10 DEF setPayload, FrameInv
  <1> QED
    BY <1>1, <1>2, <1>3, <1>4, <1>5, <1>6, <1>7, <1>8, <1>9, <1>10 DEF parse

\* A part of a sequence of bytes.
LEMMA PartOfBytes ==
  ASSUME NEW file \in Seq(Byte), NEW i \in Nat, NEW n \in Nat, i + n <= Len(file)
  PROVE  /\ SubSeq(file, i + 1, i + n) \in Seq(Byte)
         /\ Len(SubSeq(file, i + 1, i + n)) = n
  <1>1. \A k \in (i + 1)..(i + n) : file[k] \in Byte
    <2> SUFFICES ASSUME NEW k \in (i + 1)..(i + n) PROVE file[k] \in Byte
      OBVIOUS
    <2>1. Len(file) \in Nat
      OBVIOUS
    <2>2. k \in 1..Len(file)
      BY <2>1
    <2> QED
      BY <2>2, ElementOfSeq
  <1> DEFINE a == i + 1
             b == i + n
  <1>2. a \in Int /\ b \in Int /\ n = IF a <= b THEN b - a + 1 ELSE 0
    OBVIOUS
  <1>3. \A k \in a..b : file[k] \in Byte
    BY <1>1
  <1> HIDE DEF a, b
  <1>4. /\ SubSeq(file, a, b) \in Seq(Byte)
        /\ Len(SubSeq(file, a, b)) = IF a <= b THEN b - a + 1 ELSE 0
    BY <1>2, <1>3, SubSeqProperties
  <1> QED
    BY <1>2, <1>4 DEF a, b

\* Bytes turned round, and round again.
LEMMA ReverseTyped ==
  ASSUME NEW t \in Seq(Byte)
  PROVE  /\ Reverse(t) \in Seq(Byte)
         /\ Len(Reverse(t)) = Len(t)
         /\ \A k \in 1..Len(t) : Reverse(t)[k] = t[(Len(t) - k) + 1]
  <1> DEFINE n == Len(t)
  <1>1. n \in Nat /\ \A k \in 1..n : t[k] \in Byte
    BY ElementOfSeq, LenProperties
  <1>2. Reverse(t) = [k \in 1..n |-> t[(n - k) + 1]]
    BY DEF Reverse
  <1> HIDE DEF n
  <1>3. \A k \in 1..n : t[(n - k) + 1] \in Byte
    <2> SUFFICES ASSUME NEW k \in 1..n PROVE t[(n - k) + 1] \in Byte
      OBVIOUS
    <2>1. (n - k) + 1 \in 1..n
      BY <1>1
    <2> QED
      BY <1>1, <2>1
  <1>4. Reverse(t) \in [1..n -> Byte]
    BY <1>2, <1>3, Zenon
  <1>5. Reverse(t) \in Seq(Byte)
    <2>2. [1..n -> Byte] \in {[1..m -> Byte] : m \in Nat}
      BY <1>1
    <2>3. Seq(Byte) = UNION {[1..m -> Byte] : m \in Nat}
      BY SeqDef
    <2> HIDE DEF Byte, Reverse
    <2> QED
      BY <1>4, <2>2, <2>3, Zenon
  <1>6. DOMAIN Reverse(t) = 1..n
    BY <1>4, Zenon
  <1>7. DOMAIN Reverse(t) = 1..Len(Reverse(t)) /\ Len(Reverse(t)) \in Nat
    BY <1>5, LenProperties, Zenon
  <1> HIDE DEF Reverse
  <1>8. Len(Reverse(t)) = n
    BY <1>1, <1>6, <1>7
  <1> QED
    BY <1>2, <1>5, <1>8, Zenon DEF n

\* A length in a file is a natural number, in either byte order.
LEMMA LengthTyped ==
  ASSUME NEW file \in Seq(Byte), NEW i \in Nat, i + 4 <= Len(file),
         NEW swap \in BOOLEAN
  PROVE  Length(maybeSwap(swap, Load(file, i, 4))) \in Nat
  <1> DEFINE s == SubSeq(file, i + 1, i + 4)
             w == Load(file, i, 4)
             number == maybeSwap(swap, w)
  <1>1. s \in Seq(Byte) /\ Len(s) = 4
    BY PartOfBytes
  <1>2. w \in Seq(Byte) /\ Len(w) = 4
    BY <1>1, ReverseTyped DEF Load
  <1>3. number \in Seq(Byte) /\ Len(number) = 4
    BY <1>2, ReverseTyped DEF maybeSwap
  <1> HIDE DEF number
  <1>4. number[3] \in Byte /\ number[4] \in Byte
    <2>1. 3 \in 1..Len(number) /\ 4 \in 1..Len(number)
      BY <1>3
    <2> QED
      BY <1>3, <2>1, ElementOfSeq
  <1>5. Length(number) \in Nat
    <2>1. \A x, y \in 0..255 : 256 * x + y \in Nat
      OBVIOUS
    <2> QED
      BY <1>4, <2>1, Zenon DEF Length, Byte
  <1> QED
    BY <1>5 DEF number

\* A packet that is read from a file of bytes lies within it.
LEMMA ReadTyped ==
  ASSUME NEW file \in Seq(Byte), NEW header, NEW i \in Nat,
         NEW r \in packetAt(file, header, i)
  PROVE  /\ i + 16 <= Len(file)
         /\ r.data \in Seq(Byte) /\ Len(r.data) \in Nat
  <1> DEFINE k == Length(maybeSwap(needsByteSwap(header), Load(file, i + 8, 4)))
  <1>1. /\ i + 16 <= Len(file)
        /\ i + 16 + k <= Len(file)
        /\ r.data = SubSeq(file, i + 17, i + 16 + k)
    BY SMT DEF packetAt
  <1>2. k \in Nat
    <2>1. i + 8 \in Nat /\ (i + 8) + 4 <= Len(file)
      BY <1>1
    <2>2. needsByteSwap(header) \in BOOLEAN
      BY DEF needsByteSwap
    <2> QED
      BY <2>1, <2>2, LengthTyped
  <1> HIDE DEF k
  <1>3. i + 16 \in Nat /\ i + 17 = (i + 16) + 1
    OBVIOUS
  <1> QED
    BY <1>1, <1>2, <1>3, PartOfBytes

\* The reader gives the parser bytes of the file, and an offset of zero.
LEMMA ReadKeepsTypes ==
  ASSUME IInv, Read
  PROVE  IInv'
  <1> USE DEF IInv, FileTyped
  <1>1. CASE readNextPacket /\ beginParse(record'.data) /\ memory' \in Memories
    <2>1. PICK r \in packetAt(input, global_header_, position) :
             record' = r /\ position' = position + 16 + Len(r.data) /\ input' = input
      BY <1>1 DEF readNextPacket
    <2>4. r.data \in Seq(Byte) /\ Len(r.data) \in Nat
      BY ReadTyped
    <2>5. raw' = r.data /\ offset' = 0 /\ reach' = 0 /\ memory' \in Memories
      BY <1>1, <2>1 DEF beginParse
    <2>6. FileTyped'
      <3>1. input' \in Seq(Byte)
        BY <2>1
      <3>2. position' \in Nat
        <4>1. \A n \in Nat : position + 16 + n \in Nat
          OBVIOUS
        <4>2. position' = position + 16 + Len(r.data)
          BY <2>1
        <4> QED
          BY <2>4, <4>1, <4>2, Zenon
      <3> QED
        BY <3>1, <3>2
    <2>7. FrameInv'
      BY <2>4, <2>5 DEF FrameInv
    <2> QED
      BY <2>6, <2>7
  <1>2. CASE UNCHANGED <<readerVars, frameVars>>
    BY <1>2 DEF FrameInv, readerVars, fileVars, frameVars
  <1> QED
    BY <1>1, <1>2 DEF Read

\* Every step of the specification.
LEMMA StepKeepsTypes ==
  ASSUME IInv, [Next]_vars
  PROVE  IInv'
  <1>1. CASE Parse
    <2>1. FileTyped'
      BY <1>1 DEF Parse, readerVars, fileVars, IInv, FileTyped
    <2> QED
      BY <1>1, <2>1, ParseKeepsFrame DEF Parse, IInv, readerVars
  <1>2. CASE Read
    BY <1>2, ReadKeepsTypes
  <1>3. CASE Open
    BY <1>3 DEF Open, openFile, fileVars, frameVars, IInv, FileTyped, FrameInv
  <1>4. CASE Output
    BY <1>4 DEF Output, writeOutputPacket, fileVars, frameVars, IInv, FileTyped,
                FrameInv
  <1>5. CASE UNCHANGED <<readerVars, frameVars>>
    BY <1>5 DEF readerVars, fileVars, frameVars, IInv, FileTyped, FrameInv
  <1>6. CASE createPacketJob
    <2>1. UNCHANGED <<readerVars, raw, offset>> /\ reach' = jobReach
      BY <1>6 DEF createPacketJob
    <2>2. jobReach \in Nat
      <3>1. LowNibble(14) \in 0..15
        BY ByteTyped DEF IInv
      <3>2. transport_offset + 13 \in Nat
        BY <3>1 DEF transport_offset
      <3> QED
        BY <3>2 DEF jobReach
    <2> QED
      BY <2>1, <2>2 DEF readerVars, fileVars, IInv, FileTyped, FrameInv
  <1>7. Inspect => UNCHANGED <<readerVars, frameVars>>
    BY DEF Inspect, inspectNothing, inspectDNS, inspectQUIC, inspectHTTP,
           inspectTLS, classifyByName, ByName, Found, Classify
  <1>8. extractHost \/ readDomainName => UNCHANGED <<readerVars, frameVars>>
    BY DEF extractHost, findHostLine, readHost, Found, Classify,
           readDomainName, endOfName, followPointer, readLabel
  <1>9. UNCHANGED vars => UNCHANGED <<readerVars, frameVars>>
    BY DEF vars
  <1> QED
    BY <1>1, <1>2, <1>3, <1>4, <1>5, <1>6, <1>7, <1>8, <1>9 DEF Next, Step, Finished

-----------------------------------------------------------------------------
(* Bytes in a file                                                           *)

\* Bytes that are turned round twice are as they were.
LEMMA ReverseTwice ==
  ASSUME NEW t \in Seq(Byte)
  PROVE  Reverse(Reverse(t)) = t
  <1> DEFINE u == Reverse(t)
             v == Reverse(u)
  <1>1. /\ u \in Seq(Byte) /\ Len(u) = Len(t)
        /\ \A k \in 1..Len(t) : u[k] = t[(Len(t) - k) + 1]
    BY ReverseTyped, Zenon
  <1> HIDE DEF u
  <1>2. /\ v \in Seq(Byte) /\ Len(v) = Len(u)
        /\ \A k \in 1..Len(u) : v[k] = u[(Len(u) - k) + 1]
    BY <1>1, ReverseTyped, Zenon
  <1> HIDE DEF v
  <1>3. Len(t) \in Nat
    BY LenProperties
  <1>4. ASSUME NEW k \in 1..Len(v) PROVE v[k] = t[k]
    <2>1. /\ k \in 1..Len(u) /\ (Len(u) - k) + 1 \in 1..Len(t)
          /\ (Len(t) - ((Len(u) - k) + 1)) + 1 = k
      BY <1>1, <1>2, <1>3
    <2> QED
      BY <1>1, <1>2, <2>1
  <1>5. v = t
    BY <1>1, <1>2, <1>4, SeqEqual
  <1> QED
    BY <1>5 DEF u, v

\* The bytes behind the first ones of a file.
LEMMA PartBehind ==
  ASSUME NEW s \in Seq(Byte), NEW t \in Seq(Byte), NEW i \in Nat, NEW n \in Nat,
         i + n <= Len(t)
  PROVE  SubSeq(s \o t, Len(s) + i + 1, Len(s) + i + n) = SubSeq(t, i + 1, i + n)
  <1>1. Len(s) \in Nat /\ Len(t) \in Nat
    BY LenProperties
  <1>2. CASE n = 0
    BY <1>1, <1>2, SubSeqEmpty
  <1>3. CASE n > 0
    <2> DEFINE a == Len(s) + i + 1
               b == Len(s) + i + n
    <2>1. /\ a \in (Len(s) + 1)..(Len(s) + Len(t))
          /\ b \in (Len(s) + 1)..(Len(s) + Len(t))
          /\ a - Len(s) = i + 1 /\ b - Len(s) = i + n
      BY <1>1, <1>3
    <2> HIDE DEF a, b
    <2>2. SubSeq(s \o t, a, b) = SubSeq(t, a - Len(s), b - Len(s))
      BY <2>1, SubSeqOfConcat2
    <2> QED
      BY <2>1, <2>2 DEF a, b
  <1> QED
    BY <1>1, <1>2, <1>3

\* Bytes that are appended change none of those before them.
LEMMA PartBefore ==
  ASSUME NEW s \in Seq(Byte), NEW t \in Seq(Byte), NEW i \in Nat, NEW n \in Nat,
         i + n <= Len(s)
  PROVE  SubSeq(s \o t, i + 1, i + n) = SubSeq(s, i + 1, i + n)
  <1>1. Len(s) \in Nat /\ Len(t) \in Nat
    BY LenProperties
  <1>2. CASE n = 0
    BY <1>1, <1>2, SubSeqEmpty
  <1>3. CASE n > 0
    <2>1. i + 1 \in 1..Len(s) /\ i + n \in 1..Len(s)
      BY <1>1, <1>3
    <2> QED
      BY <2>1, SubSeqOfConcat1
  <1> QED
    BY <1>1, <1>2, <1>3

\* A sequence of bytes that stands in a file between two others.
LEMMA PartAmong ==
  ASSUME NEW s \in Seq(Byte), NEW t \in Seq(Byte), NEW u \in Seq(Byte)
  PROVE  SubSeq((s \o t) \o u, Len(s) + 1, Len(s) + Len(t)) = t
  <1> DEFINE i == Len(s)
             n == Len(t)
  <1>1. i \in Nat /\ n \in Nat /\ s \o t \in Seq(Byte) /\ i + n = Len(s \o t)
    BY LenProperties, ConcatProperties
  <1>2. SubSeq((s \o t) \o u, i + 1, i + n) = SubSeq(s \o t, i + 1, i + n)
    BY <1>1, PartBefore
  <1>3. SubSeq(s \o t, Len(s) + 0 + 1, Len(s) + 0 + n) = SubSeq(t, 0 + 1, 0 + n)
    BY <1>1, PartBehind
  <1>4. SubSeq(t, 1, Len(t)) = t
    BY SubSeqFull
  <1>5. /\ Len(s) + 0 + 1 = i + 1 /\ Len(s) + 0 + n = i + n
        /\ 0 + 1 = 1 /\ 0 + n = Len(t)
    BY <1>1
  <1> QED
    BY <1>2, <1>3, <1>4, <1>5, Zenon

-----------------------------------------------------------------------------
(* A record is read back as it was written                                   *)

\* A number of four bytes, and a packet with its time.
Word == {w \in Seq(Byte) : Len(w) = 4}

Records == [ts : Word \X Word, data : Seq(Byte)]

\* Two sequences of bytes that were written one after the other.
LEMMA Joined ==
  ASSUME NEW s \in Seq(Byte), NEW t \in Seq(Byte)
  PROVE  s \o t \in Seq(Byte) /\ Len(s \o t) = Len(s) + Len(t)
  BY ConcatProperties

\* A number in the bytes that were appended, and one in those before.
LEMMA LoadBehind ==
  ASSUME NEW s \in Seq(Byte), NEW t \in Seq(Byte), NEW i \in Nat, i + 4 <= Len(t)
  PROVE  Load(s \o t, Len(s) + i, 4) = Load(t, i, 4)
  <1>1. SubSeq(s \o t, Len(s) + i + 1, Len(s) + i + 4) = SubSeq(t, i + 1, i + 4)
    BY PartBehind
  <1> QED
    BY <1>1, Zenon DEF Load

LEMMA LoadBefore ==
  ASSUME NEW s \in Seq(Byte), NEW t \in Seq(Byte), NEW i \in Nat,
         i + 4 <= Len(s)
  PROVE  Load(s \o t, i, 4) = Load(s, i, 4)
  <1>1. SubSeq(s \o t, i + 1, i + 4) = SubSeq(s, i + 1, i + 4)
    BY PartBefore
  <1> QED
    BY <1>1, Zenon DEF Load

\* A number that stands between other bytes, and one that stands first.
LEMMA LoadAmong ==
  ASSUME NEW s \in Seq(Byte), NEW w \in Word, NEW u \in Seq(Byte)
  PROVE  Load((s \o Store(w)) \o u, Len(s), 4) = w
  <1> DEFINE t == Store(w)
  <1>1. t \in Seq(Byte) /\ Len(t) = 4 /\ Reverse(t) = w
    BY ReverseTyped, ReverseTwice DEF Store, Word
  <1> HIDE DEF t
  <1>2. SubSeq((s \o t) \o u, Len(s) + 1, Len(s) + Len(t)) = t
    BY <1>1, PartAmong, Zenon
  <1> QED
    BY <1>1, <1>2, Zenon DEF Load, t

LEMMA LoadFirst ==
  ASSUME NEW w \in Word, NEW u \in Seq(Byte)
  PROVE  Load(Store(w) \o u, 0, 4) = w
  <1>1. <<>> \in Seq(Byte) /\ Len(<<>>) = 0 /\ 0 \in Nat
    BY EmptySeq
  <1>2. Store(w) \in Seq(Byte)
    BY ReverseTyped DEF Store, Word
  <1>3. <<>> \o Store(w) = Store(w)
    BY <1>2, ConcatEmptySeq, Zenon
  <1>4. Load((<<>> \o Store(w)) \o u, 0, 4) = w
    <2>1. Load((<<>> \o Store(w)) \o u, Len(<<>>), 4) = w
      BY <1>1, LoadAmong, Zenon
    <2> QED
      BY <1>1, <2>1, Zenon
  <1> QED
    BY <1>3, <1>4, Zenon

\* A number as it is written has four bytes again.
LEMMA StoreTyped ==
  ASSUME NEW w \in Word
  PROVE  Store(w) \in Seq(Byte) /\ Len(Store(w)) = 4
  BY ReverseTyped DEF Store, Word

\* Four numbers that were written one after the other.
FourStored(a, b, c, d) == Store(a) \o Store(b) \o Store(c) \o Store(d)

LEMMA FourWords ==
  ASSUME NEW a \in Word, NEW b \in Word, NEW c \in Word, NEW d \in Word
  PROVE  /\ FourStored(a, b, c, d) \in Seq(Byte)
         /\ Len(FourStored(a, b, c, d)) = 16
         /\ Load(FourStored(a, b, c, d), 0, 4) = a
         /\ Load(FourStored(a, b, c, d), 4, 4) = b
         /\ Load(FourStored(a, b, c, d), 8, 4) = c
  <1> DEFINE A == Store(a)
             AB == A \o Store(b)
             ABC == AB \o Store(c)
             H == ABC \o Store(d)
  <1>0. /\ 4 \in Nat /\ 8 \in Nat /\ 12 \in Nat /\ 0 \in Nat
        /\ 4 + 4 = 8 /\ 8 + 4 = 12 /\ 12 + 4 = 16
        /\ 4 + 4 <= 12 /\ 0 + 4 <= 8 /\ 0 + 4 <= 12
    OBVIOUS
  <1>1. /\ A \in Seq(Byte) /\ Len(A) = 4
        /\ Store(b) \in Seq(Byte) /\ Len(Store(b)) = 4
        /\ Store(c) \in Seq(Byte) /\ Len(Store(c)) = 4
        /\ Store(d) \in Seq(Byte) /\ Len(Store(d)) = 4
    BY StoreTyped, Zenon
  <1>2. AB \in Seq(Byte) /\ Len(AB) = 8
    <2>1. AB \in Seq(Byte) /\ Len(AB) = Len(A) + Len(Store(b))
      BY <1>1, Joined, Zenon
    <2> QED
      BY <1>0, <1>1, <2>1, Zenon
  <1>3. ABC \in Seq(Byte) /\ Len(ABC) = 12
    <2>1. ABC \in Seq(Byte) /\ Len(ABC) = Len(AB) + Len(Store(c))
      BY <1>1, <1>2, Joined, Zenon
    <2> QED
      BY <1>0, <1>1, <1>2, <2>1, Zenon
  <1>4. H \in Seq(Byte) /\ Len(H) = 16
    <2>1. H \in Seq(Byte) /\ Len(H) = Len(ABC) + Len(Store(d))
      BY <1>1, <1>3, Joined, Zenon
    <2> QED
      BY <1>0, <1>1, <1>3, <2>1, Zenon
  <1>5. Load(H, 8, 4) = c
    <2>1. Load(H, Len(AB), 4) = c
      BY <1>1, <1>2, LoadAmong, Zenon
    <2> QED
      BY <1>2, <2>1, Zenon
  <1>6. Load(H, 4, 4) = b
    <2>1. Load(ABC, Len(A), 4) = b
      BY <1>1, LoadAmong, Zenon
    <2>2. Load(H, 4, 4) = Load(ABC, 4, 4)
      BY <1>0, <1>1, <1>3, LoadBefore, Zenon
    <2> QED
      BY <1>1, <2>1, <2>2, Zenon
  <1>7. Load(H, 0, 4) = a
    <2>1. Load(AB, 0, 4) = a
      BY <1>1, LoadFirst, Zenon
    <2>2. Load(ABC, 0, 4) = Load(AB, 0, 4)
      BY <1>0, <1>1, <1>2, LoadBefore, Zenon
    <2>3. Load(H, 0, 4) = Load(ABC, 0, 4)
      BY <1>0, <1>1, <1>3, LoadBefore, Zenon
    <2> QED
      BY <2>1, <2>2, <2>3, Zenon
  <1>8. FourStored(a, b, c, d) = H
    BY Zenon DEF FourStored
  <1> QED
    BY <1>0, <1>4, <1>5, <1>6, <1>7, <1>8, Zenon

\* A length of two bytes and its number, to and fro.
Lengths == {n \in Nat : n <= 65535}

LEMMA MaxLengthIs ==
  /\ MaxLength[1] = 0 /\ MaxLength[2] = 0
  /\ MaxLength = <<0, 0, 255, 255>>
  BY SMT DEF OfLength, MaxLength

LEMMA LengthIsNat ==
  ASSUME NEW n \in Lengths
  PROVE  n \in Nat
  BY SMT DEF Lengths

\* Quotient and remainder, the two bytes of a length.
LEMMA TwoBytes ==
  /\ \A n \in Lengths : /\ n \div 256 \in Byte /\ n % 256 \in Byte
                       /\ 256 * (n \div 256) + (n % 256) = n
  /\ \A x, y \in Byte : /\ 256 * x + y \in Lengths
                       /\ (256 * x + y) \div 256 = x
                       /\ (256 * x + y) % 256 = y
  <1>1. ASSUME NEW n \in Lengths
        PROVE  /\ n \div 256 \in Byte /\ n % 256 \in Byte
               /\ 256 * (n \div 256) + (n % 256) = n
    BY SMT DEF Lengths, Byte
  <1>2. ASSUME NEW x \in Byte, NEW y \in Byte
        PROVE  /\ 256 * x + y \in Lengths
               /\ (256 * x + y) \div 256 = x
               /\ (256 * x + y) % 256 = y
    <2>1. x \in 0..255 /\ y \in 0..255
      BY DEF Byte
    <2>2. 256 * x + y \in Lengths
      <3> DEFINE n == 256 * x + y
      <3>1. n \in Nat /\ n <= 65535
        BY <2>1, SMT
      <3> HIDE DEF n
      <3>2. n \in Lengths
        BY <3>1, SMT DEF Lengths
      <3> QED
        BY <3>2 DEF n
    <2>3. (256 * x + y) \div 256 = x
      BY <2>1, SMT
    <2>4. (256 * x + y) % 256 = y
      BY <2>1, SMT
    <2> QED
      BY <2>2, <2>3, <2>4, Zenon
  <1> QED
    BY <1>1, <1>2

LEMMA LengthOfNumber ==
  ASSUME NEW n \in Lengths
  PROVE  /\ OfLength(n) \in Word
         /\ Length(OfLength(n)) = n
         /\ AtMost(OfLength(n), MaxLength)
  <1> DEFINE a == n \div 256
             b == n % 256
             v == <<0, 0, a, b>>
             w == MaxLength
  <1>1. a \in Byte /\ b \in Byte /\ 256 * a + b = n
    BY TwoBytes, Zenon
  <1>2. OfLength(n) = v
    BY Zenon DEF OfLength
  <1> HIDE DEF a, b
  <1>3. v \in Word
    BY <1>1, SMT DEF Word, Byte
  <1>4. Length(v) = n
    BY <1>1, SMT DEF Length
  <1>5. /\ DOMAIN v = 1..4 /\ v[1] = 0 /\ v[2] = 0 /\ v[3] = a /\ v[4] = b
        /\ w[1] = 0 /\ w[2] = 0 /\ w[3] = 255 /\ w[4] = 255
    BY MaxLengthIs, SMT
  <1>6. AtMost(v, w)
    <2>1. CASE a = 255 /\ b = 255
      BY <2>1, MaxLengthIs, Zenon DEF AtMost
    <2>2. CASE a < 255
      <3> HIDE DEF v
      <3>1. \A j \in 1..(3 - 1) : v[j] = w[j]
        BY <1>5
      <3>2. 3 \in DOMAIN v /\ v[3] < w[3]
        BY <1>5, <2>2
      <3> QED
        BY <3>1, <3>2, Zenon DEF AtMost
    <2>3. CASE a = 255 /\ b < 255
      <3> HIDE DEF v
      <3>1. \A j \in 1..(4 - 1) : v[j] = w[j]
        BY <1>5, <2>3
      <3>2. 4 \in DOMAIN v /\ v[4] < w[4]
        BY <1>5, <2>3
      <3> QED
        BY <3>1, <3>2, Zenon DEF AtMost
    <2>4. (a = 255 /\ b = 255) \/ a < 255 \/ (a = 255 /\ b < 255)
      BY <1>1, SMT DEF Byte
    <2> QED
      BY <2>1, <2>2, <2>3, <2>4, Zenon
  <1> QED
    BY <1>2, <1>3, <1>4, <1>6, Zenon

LEMMA NumberOfLength ==
  ASSUME NEW v \in Word, AtMost(v, MaxLength)
  PROVE  Length(v) \in Lengths /\ OfLength(Length(v)) = v
  <1> DEFINE w == MaxLength
             n == Length(v)
  <1>1. /\ v \in Seq(Byte) /\ Len(v) = 4 /\ DOMAIN v = 1..Len(v)
        /\ \A k \in 1..Len(v) : v[k] \in Byte
    BY ElementOfSeq, LenProperties DEF Word
  <1>2. /\ DOMAIN v = 1..4 /\ v[1] \in Byte /\ v[2] \in Byte
        /\ v[3] \in Byte /\ v[4] \in Byte
    <2>1. 1 \in 1..4 /\ 2 \in 1..4 /\ 3 \in 1..4 /\ 4 \in 1..4
      OBVIOUS
    <2> QED
      BY <1>1, <2>1, Zenon
  <1>3. v[1] = 0 /\ v[2] = 0
    <2>1. CASE v = w
      BY <2>1, MaxLengthIs, SMT
    <2>2. CASE v # w
      <3>1. PICK i \in DOMAIN v : v[i] < w[i] /\ \A j \in 1..(i - 1) : v[j] = w[j]
        BY <2>2, Zenon DEF AtMost
      <3>2. w[1] = 0 /\ w[2] = 0
        BY MaxLengthIs, SMT
      <3>3. i \in 1..4 /\ i # 1 /\ i # 2
        BY <1>2, <3>1, <3>2, SMT DEF Byte
      <3>4. 1 \in 1..(i - 1) /\ 2 \in 1..(i - 1)
        BY <3>3
      <3> QED
        BY <3>1, <3>2, <3>4, Zenon
    <2> QED
      BY <2>1, <2>2
  <1>4. n = 256 * v[3] + v[4]
    BY Zenon DEF Length
  <1>5. n \in Lengths /\ n \div 256 = v[3] /\ n % 256 = v[4]
    <2> HIDE DEF n
    <2>1. ASSUME NEW x \in Byte, NEW y \in Byte, n = 256 * x + y
          PROVE  n \in Lengths /\ n \div 256 = x /\ n % 256 = y
      BY <2>1, TwoBytes
    <2> QED
      BY <1>2, <1>4, <2>1
  <1>6. OfLength(n) = <<0, 0, v[3], v[4]>>
    BY <1>5, Zenon DEF OfLength
  <1>7. <<0, 0, v[3], v[4]>> = v
    <2> DEFINE u == <<0, 0, v[3], v[4]>>
    <2>1. u \in Seq(Byte) /\ Len(u) = Len(v)
      <3>1. 0 \in Byte
        BY DEF Byte
      <3>2. u \in Seq(Byte)
        BY <1>2, <3>1
      <3>3. Len(u) = 4
        OBVIOUS
      <3> QED
        BY <1>1, <3>2, <3>3, Zenon
    <2>2. u[1] = v[1] /\ u[2] = v[2] /\ u[3] = v[3] /\ u[4] = v[4]
      BY <1>3
    <2> HIDE DEF u
    <2>3. \A k \in 1..Len(u) : u[k] = v[k]
      <3>1. \A k \in 1..4 : k = 1 \/ k = 2 \/ k = 3 \/ k = 4
        OBVIOUS
      <3> QED
        BY <1>1, <2>1, <2>2, <3>1, Zenon
    <2>4. u = v
      BY <1>1, <2>1, <2>3, SeqEqual, Zenon
    <2> QED
      BY <2>4 DEF u
  <1> QED
    BY <1>5, <1>6, <1>7, Zenon

\* A packet whose length and bytes a reader accepts.
Writable(r, snaplen) == /\ r \in Records
                        /\ Len(r.data) \in Lengths
                        /\ AtMost(OfLength(Len(r.data)), snaplen)

\* The record of a packet stands at a position of a file.
StoredAt(r, file, i) == /\ i + 16 <= Len(file)
                        /\ i + 16 + Len(r.data) <= Len(file)
                        /\ Load(file, i + 0, 4) = r.ts[1]
                        /\ Load(file, i + 4, 4) = r.ts[2]
                        /\ Load(file, i + 8, 4) = OfLength(Len(r.data))
                        /\ SubSeq(file, i + 17, i + 16 + Len(r.data)) = r.data

\* The parts of a packet, and its record without the bytes.
LEMMA PartsOfPacket ==
  ASSUME NEW r \in Records
  PROVE  /\ r.ts[1] \in Word /\ r.ts[2] \in Word
         /\ r.data \in Seq(Byte) /\ Len(r.data) \in Nat
         /\ r = [ts |-> <<r.ts[1], r.ts[2]>>, data |-> r.data]
  <1>1. r.ts \in Word \X Word /\ r.data \in Seq(Byte) /\ r = [ts |-> r.ts, data |-> r.data]
    BY DEF Records
  <1>2. Len(r.data) \in Nat
    BY <1>1, LenProperties, Zenon
  <1>3. r.ts[1] \in Word /\ r.ts[2] \in Word /\ r.ts = <<r.ts[1], r.ts[2]>>
    BY <1>1
  <1> QED
    BY <1>1, <1>2, <1>3, Zenon

\* Where there is no record, or one that is not whole, nothing is read.
LEMMA StoredIsRead ==
  ASSUME NEW header, ~needsByteSwap(header), NEW file, NEW i,
         NEW r, Writable(r, header.snaplen), StoredAt(r, file, i)
  PROVE  packetAt(file, header, i) = {r}
  <1>1. /\ r \in Records /\ Len(r.data) \in Lengths
        /\ AtMost(OfLength(Len(r.data)), header.snaplen)
    BY Zenon DEF Writable
  <1>2. /\ Length(OfLength(Len(r.data))) = Len(r.data)
        /\ AtMost(OfLength(Len(r.data)), MaxLength)
    BY <1>1, LengthOfNumber, Zenon
  <1>3. r = [ts |-> <<r.ts[1], r.ts[2]>>, data |-> r.data]
    BY <1>1, PartsOfPacket, Zenon
  <1>4. \A number : maybeSwap(needsByteSwap(header), number) = number
    BY Zenon DEF maybeSwap
  <1> DEFINE n == Len(r.data)
  <1>5. Load(file, i + 8, 4) = OfLength(n)
    BY Zenon DEF StoredAt
  <1>6. /\ i + 16 <= Len(file)
        /\ AtMost(Load(file, i + 8, 4), header.snaplen)
        /\ AtMost(Load(file, i + 8, 4), MaxLength)
        /\ i + 16 + Length(Load(file, i + 8, 4)) <= Len(file)
        /\ r = [ts |-> <<Load(file, i + 0, 4), Load(file, i + 4, 4)>>,
                data |-> SubSeq(file, i + 17, i + 16 + Length(Load(file, i + 8, 4)))]
    BY <1>1, <1>2, <1>3, <1>5, Zenon DEF StoredAt
  <1>7. r \in packetAt(file, header, i)
    BY <1>4, <1>6, SMT DEF packetAt
  <1>8. \A q \in packetAt(file, header, i) :
           q = [ts |-> <<Load(file, i + 0, 4), Load(file, i + 4, 4)>>,
                data |-> SubSeq(file, i + 17, i + 16 + Length(Load(file, i + 8, 4)))]
    BY <1>4, SMT DEF packetAt
  <1>9. \A q \in packetAt(file, header, i) : q = r
    BY <1>6, <1>8, Zenon
  <1> QED
    BY <1>7, <1>9, Zenon

\* What the reader reads can be written.
LEMMA ReadIsWritable ==
  ASSUME NEW header, NEW file \in Seq(Byte), NEW i \in Nat,
         NEW r \in packetAt(file, header, i)
  PROVE  Writable(r, header.snaplen)
  <1> DEFINE swap == needsByteSwap(header)
             v == maybeSwap(swap, Load(file, i + 8, 4))
             x == maybeSwap(swap, Load(file, i + 0, 4))
             y == maybeSwap(swap, Load(file, i + 4, 4))
             n == Length(v)
  <1>1. \A number \in Word : maybeSwap(swap, number) \in Word
    BY ReverseTyped, Zenon DEF maybeSwap, Word
  <1>2. /\ i + 16 <= Len(file)
        /\ AtMost(v, header.snaplen)
        /\ AtMost(v, MaxLength)
        /\ i + 16 + n <= Len(file)
        /\ r = [ts |-> <<x, y>>, data |-> SubSeq(file, i + 17, i + 16 + n)]
    BY SMT DEF packetAt
  <1>4. \A k \in Nat : k + 4 <= Len(file) => Load(file, k, 4) \in Word
    <2> SUFFICES ASSUME NEW k \in Nat, k + 4 <= Len(file)
                 PROVE  Load(file, k, 4) \in Word
      OBVIOUS
    <2>1. SubSeq(file, k + 1, k + 4) \in Seq(Byte) /\ Len(SubSeq(file, k + 1, k + 4)) = 4
      BY PartOfBytes
    <2> QED
      BY <2>1, ReverseTyped, Zenon DEF Load, Word
  <1>5. v \in Word /\ x \in Word /\ y \in Word
    <2>1. /\ i + 8 \in Nat /\ (i + 8) + 4 <= Len(file)
          /\ i + 0 \in Nat /\ (i + 0) + 4 <= Len(file)
          /\ i + 4 \in Nat /\ (i + 4) + 4 <= Len(file)
      <3>1. Len(file) \in Nat
        BY LenProperties
      <3> QED
        BY <1>2, <3>1
    <2> QED
      BY <1>1, <1>4, <2>1, Zenon
  <1> HIDE DEF v, x, y
  <1>6. n \in Lengths /\ OfLength(n) = v
    BY <1>2, <1>5, NumberOfLength, Zenon
  <1>7. n \in Nat
    BY <1>6, LengthIsNat
  <1> HIDE DEF n
  <1>8. /\ SubSeq(file, i + 17, i + 16 + n) \in Seq(Byte)
        /\ Len(SubSeq(file, i + 17, i + 16 + n)) = n
    <2>1. i + 16 \in Nat /\ i + 17 = (i + 16) + 1 /\ (i + 16) + n <= Len(file)
      BY <1>2
    <2>2. /\ SubSeq(file, (i + 16) + 1, (i + 16) + n) \in Seq(Byte)
          /\ Len(SubSeq(file, (i + 16) + 1, (i + 16) + n)) = n
      BY <1>7, <2>1, PartOfBytes
    <2> QED
      BY <2>1, <2>2, Zenon
  <1>9. r.data = SubSeq(file, i + 17, i + 16 + n) /\ r \in Records
    BY <1>2, <1>5, <1>8 DEF Records
  <1>10. Len(r.data) = n
    BY <1>8, <1>9, Zenon
  <1> QED
    BY <1>2, <1>6, <1>9, <1>10, Zenon DEF Writable

\* The record of a packet, when it is written.
LEMMA RecordWritten ==
  ASSUME NEW r \in Records, Len(r.data) \in Lengths
  PROVE  /\ packetBytes(r) \in Seq(Byte)
         /\ Len(packetBytes(r)) = 16 + Len(r.data)
         /\ StoredAt(r, packetBytes(r), 0)
  <1> DEFINE v == OfLength(Len(r.data))
             n == Len(r.data)
             h == FourStored(r.ts[1], r.ts[2], v, v)
             b == h \o r.data
  <1>1. r.ts[1] \in Word /\ r.ts[2] \in Word /\ r.data \in Seq(Byte) /\ n \in Nat
    BY PartsOfPacket, Zenon
  <1>2. v \in Word
    BY LengthOfNumber, Zenon
  <1> HIDE DEF v
  <1>3. /\ h \in Seq(Byte) /\ Len(h) = 16
        /\ Load(h, 0, 4) = r.ts[1] /\ Load(h, 4, 4) = r.ts[2] /\ Load(h, 8, 4) = v
    <2>1. ASSUME NEW p \in Word, NEW q \in Word
          PROVE  /\ FourStored(p, q, v, v) \in Seq(Byte)
                 /\ Len(FourStored(p, q, v, v)) = 16
                 /\ Load(FourStored(p, q, v, v), 0, 4) = p
                 /\ Load(FourStored(p, q, v, v), 4, 4) = q
                 /\ Load(FourStored(p, q, v, v), 8, 4) = v
      BY <1>2, FourWords
    <2> QED
      BY <1>1, <2>1
  <1>4. packetBytes(r) = b
    BY Zenon DEF packetBytes, FourStored, v
  <1> HIDE DEF h
  <1>5. b \in Seq(Byte) /\ Len(b) = 16 + n
    <2>1. b \in Seq(Byte) /\ Len(b) = Len(h) + n
      BY <1>1, <1>3, Joined, Zenon
    <2> QED
      BY <1>3, <2>1, Zenon
  <1>6. /\ Load(b, 0 + 0, 4) = r.ts[1]
        /\ Load(b, 0 + 4, 4) = r.ts[2]
        /\ Load(b, 0 + 8, 4) = v
    <2>1. /\ 0 \in Nat /\ 4 \in Nat /\ 8 \in Nat
          /\ 0 + 4 <= 16 /\ 4 + 4 <= 16 /\ 8 + 4 <= 16
          /\ 0 + 0 = 0 /\ 0 + 4 = 4 /\ 0 + 8 = 8
      OBVIOUS
    <2>2. /\ 0 + 4 <= Len(h) /\ 4 + 4 <= Len(h) /\ 8 + 4 <= Len(h)
      BY <1>3, <2>1, Zenon
    <2>3. Load(b, 0, 4) = Load(h, 0, 4)
      BY <1>1, <1>3, <2>1, <2>2, LoadBefore, Zenon
    <2>4. Load(b, 4, 4) = Load(h, 4, 4)
      BY <1>1, <1>3, <2>1, <2>2, LoadBefore, Zenon
    <2>5. Load(b, 8, 4) = Load(h, 8, 4)
      BY <1>1, <1>3, <2>1, <2>2, LoadBefore, Zenon
    <2> QED
      BY <1>3, <2>1, <2>3, <2>4, <2>5, Zenon
  <1>7. SubSeq(b, 0 + 17, 0 + 16 + n) = r.data
    <2>1. /\ SubSeq(b, Len(h) + 0 + 1, Len(h) + 0 + n) = SubSeq(r.data, 0 + 1, 0 + n)
      <3>1. 0 \in Nat /\ 0 + n <= Len(r.data)
        BY <1>1
      <3> HIDE DEF n
      <3> QED
        BY <1>1, <1>3, <3>1, PartBehind, Zenon
    <2>2. SubSeq(r.data, 1, n) = r.data
      BY <1>1, SubSeqFull, Zenon
    <2>3. /\ 16 + 0 + 1 = 0 + 17 /\ 16 + 0 + n = 0 + 16 + n
          /\ 0 + 1 = 1 /\ 0 + n = n
      <3> HIDE DEF n
      <3> QED
        BY <1>1
    <2> QED
      BY <1>3, <2>1, <2>2, <2>3, Zenon
  <1>8. 0 + 16 <= Len(b) /\ 0 + 16 + n <= Len(b)
    <2> HIDE DEF n
    <2>1. 0 + 16 <= 16 + n /\ 0 + 16 + n <= 16 + n
      BY <1>1
    <2> QED
      BY <1>5, <2>1, Zenon
  <1>9. StoredAt(r, b, 0)
    BY <1>6, <1>7, <1>8, Zenon DEF StoredAt, v
  <1> QED
    BY <1>4, <1>5, <1>9, Zenon

\* What is written behind a record leaves it as it is.
LEMMA StoredBefore ==
  ASSUME NEW file \in Seq(Byte), NEW t \in Seq(Byte), NEW i \in Nat,
         NEW r \in Records, StoredAt(r, file, i)
  PROVE  StoredAt(r, file \o t, i)
  <1> DEFINE n == Len(r.data)
             f == file \o t
  <1>1. n \in Nat
    BY PartsOfPacket, Zenon
  <1>2. Len(file) \in Nat /\ Len(f) \in Nat /\ Len(file) <= Len(f)
    <2>1. Len(f) = Len(file) + Len(t)
      BY Joined, Zenon
    <2>2. Len(file) \in Nat /\ Len(t) \in Nat
      BY LenProperties
    <2> HIDE DEF f
    <2> QED
      BY <2>1, <2>2
  <1>3. i + 16 <= Len(file) /\ i + 16 + n <= Len(file)
    BY Zenon DEF StoredAt
  <1> HIDE DEF n
  <1>4. i + 16 <= Len(f) /\ i + 16 + n <= Len(f)
    <2> HIDE DEF f
    <2> QED
      BY <1>1, <1>2, <1>3
  <1>5. \A k \in {0, 4, 8} : Load(f, i + k, 4) = Load(file, i + k, 4)
    <2> SUFFICES ASSUME NEW k \in {0, 4, 8}
                 PROVE  Load(f, i + k, 4) = Load(file, i + k, 4)
      BY Zenon
    <2>1. i + k \in Nat /\ (i + k) + 4 <= Len(file)
      BY <1>2, <1>3
    <2> QED
      BY <2>1, LoadBefore, Zenon
  <1>6. SubSeq(f, i + 17, i + 16 + n) = SubSeq(file, i + 17, i + 16 + n)
    <2>1. i + 16 \in Nat /\ (i + 16) + n <= Len(file) /\ i + 17 = (i + 16) + 1
      BY <1>1, <1>3
    <2>2. SubSeq(f, (i + 16) + 1, (i + 16) + n) = SubSeq(file, (i + 16) + 1, (i + 16) + n)
      BY <1>1, <2>1, PartBefore, Zenon
    <2> QED
      BY <2>1, <2>2, Zenon
  <1>7. /\ Load(file, i + 0, 4) = r.ts[1]
        /\ Load(file, i + 4, 4) = r.ts[2]
        /\ Load(file, i + 8, 4) = OfLength(n)
        /\ SubSeq(file, i + 17, i + 16 + n) = r.data
    BY Zenon DEF StoredAt, n
  <1>8. /\ Load(f, i + 0, 4) = r.ts[1]
        /\ Load(f, i + 4, 4) = r.ts[2]
        /\ Load(f, i + 8, 4) = OfLength(n)
    BY <1>5, <1>7, Zenon
  <1>9. SubSeq(f, i + 17, i + 16 + n) = r.data
    BY <1>6, <1>7, Zenon
  <1> QED
    BY <1>4, <1>8, <1>9, Zenon DEF StoredAt, n

\* A record that is appended to a file stands at its end.
LEMMA StoredBehind ==
  ASSUME NEW s \in Seq(Byte), NEW t \in Seq(Byte), NEW r \in Records, StoredAt(r, t, 0)
  PROVE  StoredAt(r, s \o t, Len(s))
  <1> DEFINE n == Len(r.data)
             f == s \o t
             i == Len(s)
  <1>1. n \in Nat
    BY PartsOfPacket, Zenon
  <1>2. i \in Nat /\ Len(t) \in Nat /\ Len(f) = i + Len(t)
    <2>1. Len(f) = i + Len(t)
      BY Joined, Zenon
    <2>2. i \in Nat /\ Len(t) \in Nat
      BY LenProperties
    <2> QED
      BY <2>1, <2>2, Zenon
  <1>3. 0 + 16 <= Len(t) /\ 0 + 16 + n <= Len(t)
    BY Zenon DEF StoredAt
  <1> HIDE DEF n
  <1>4. i + 16 <= Len(f) /\ i + 16 + n <= Len(f)
    <2> HIDE DEF f, i
    <2> QED
      BY <1>1, <1>2, <1>3
  <1>5. \A k \in {0, 4, 8} : Load(f, i + k, 4) = Load(t, 0 + k, 4)
    <2> SUFFICES ASSUME NEW k \in {0, 4, 8}
                 PROVE  Load(f, i + k, 4) = Load(t, 0 + k, 4)
      BY Zenon
    <2>1. k \in Nat /\ k + 4 <= Len(t) /\ 0 + k = k
      BY <1>2, <1>3
    <2>2. Load(f, Len(s) + k, 4) = Load(t, k, 4)
      BY <2>1, LoadBehind, Zenon
    <2> QED
      BY <2>1, <2>2, Zenon
  <1>6. SubSeq(f, i + 17, i + 16 + n) = SubSeq(t, 0 + 17, 0 + 16 + n)
    <2> DEFINE j == 16
    <2>0. j = 16
      OBVIOUS
    <2> HIDE DEF j
    <2>1. j \in Nat /\ j + n <= Len(t)
      BY <1>1, <1>2, <1>3, <2>0
    <2>2. SubSeq(f, i + j + 1, i + j + n) = SubSeq(t, j + 1, j + n)
      BY <1>1, <2>1, PartBehind, Zenon
    <2>3. /\ i + j + 1 = i + 17 /\ i + j + n = i + 16 + n
          /\ j + 1 = 0 + 17 /\ j + n = 0 + 16 + n
      <3> HIDE DEF i
      <3> QED
        BY <1>1, <1>2, <2>0
    <2> QED
      BY <2>2, <2>3, Zenon
  <1>7. /\ Load(t, 0 + 0, 4) = r.ts[1]
        /\ Load(t, 0 + 4, 4) = r.ts[2]
        /\ Load(t, 0 + 8, 4) = OfLength(n)
        /\ SubSeq(t, 0 + 17, 0 + 16 + n) = r.data
    BY Zenon DEF StoredAt, n
  <1>8. /\ Load(f, i + 0, 4) = r.ts[1]
        /\ Load(f, i + 4, 4) = r.ts[2]
        /\ Load(f, i + 8, 4) = OfLength(n)
    BY <1>5, <1>7, Zenon
  <1>9. SubSeq(f, i + 17, i + 16 + n) = r.data
    BY <1>6, <1>7, Zenon
  <1> QED
    BY <1>4, <1>8, <1>9, Zenon DEF StoredAt, n

-----------------------------------------------------------------------------
(* A file of records                                                         *)

\* The packets ps stand in a file one behind the other up to its end.
Written(file, ps, snaplen) ==
    /\ ps \in Seq(Records)
    /\ \E at \in [1..(Len(ps) + 1) -> Nat] :
          /\ at[1] = 24 /\ at[Len(ps) + 1] = Len(file)
          /\ \A k \in 1..Len(ps) : /\ Writable(ps[k], snaplen)
                                   /\ StoredAt(ps[k], file, at[k])
                                   /\ at[k + 1] = at[k] + 16 + Len(ps[k].data)

\* One more packet.
LEMMA WriteOneMore ==
  ASSUME NEW file \in Seq(Byte), NEW ps, NEW snaplen, Written(file, ps, snaplen),
         NEW r, Writable(r, snaplen)
  PROVE  Written(file \o packetBytes(r), Append(ps, r), snaplen)
  <1> DEFINE n == Len(ps)
             qs == Append(ps, r)
             b == packetBytes(r)
             f == file \o b
  <1>1. r \in Records /\ Len(r.data) \in Lengths
    BY Zenon DEF Writable
  <1>2. b \in Seq(Byte) /\ Len(b) = 16 + Len(r.data) /\ StoredAt(r, b, 0)
    BY <1>1, RecordWritten
  <1> HIDE DEF b
  <1>3. PICK at \in [1..(n + 1) -> Nat] :
          /\ at[1] = 24 /\ at[n + 1] = Len(file)
          /\ \A k \in 1..n : /\ Writable(ps[k], snaplen)
                             /\ StoredAt(ps[k], file, at[k])
                             /\ at[k + 1] = at[k] + 16 + Len(ps[k].data)
    BY Zenon DEF Written
  <1>4. ps \in Seq(Records) /\ n \in Nat
    <2>1. ps \in Seq(Records)
      BY Zenon DEF Written
    <2> QED
      BY <2>1, LenProperties, Zenon
  <1>5. /\ qs \in Seq(Records) /\ Len(qs) = n + 1
        /\ \A k \in 1..n : qs[k] = ps[k]
        /\ qs[n + 1] = r
    BY <1>1, <1>4, AppendProperties
  <1>6. /\ Len(file) \in Nat /\ Len(r.data) \in Nat
        /\ f \in Seq(Byte) /\ Len(f) = Len(file) + 16 + Len(r.data)
        /\ Len(f) \in Nat
    <2>1. Len(file) \in Nat /\ Len(r.data) \in Nat
      BY <1>1, LenProperties, PartsOfPacket
    <2>2. f \in Seq(Byte) /\ Len(f) = Len(file) + Len(b)
      BY <1>2, Joined, Zenon
    <2>3. \A x, y \in Nat : x + (16 + y) = x + 16 + y
      OBVIOUS
    <2>4. Len(f) \in Nat
      BY <2>2, LenProperties, Zenon
    <2> QED
      BY <1>2, <2>1, <2>2, <2>3, <2>4, Zenon
  <1>7. StoredAt(r, f, Len(file))
    BY <1>1, <1>2, StoredBehind, Zenon
  <1>8. \A k \in 1..n : StoredAt(ps[k], f, at[k])
    <2> SUFFICES ASSUME NEW k \in 1..n PROVE StoredAt(ps[k], f, at[k])
      BY Zenon
    <2>1. k \in 1..(n + 1) /\ ps[k] \in Records
      BY <1>4, ElementOfSeq
    <2>2. at[k] \in Nat /\ StoredAt(ps[k], file, at[k])
      BY <1>3, <2>1, Zenon
    <2> QED
      BY <1>2, <2>1, <2>2, StoredBefore, Zenon
  <1> HIDE DEF f, qs, n
  <1> DEFINE up == [k \in 1..((n + 1) + 1) |-> IF k = n + 2 THEN Len(f) ELSE at[k]]
  <1>9. /\ up \in [1..((n + 1) + 1) -> Nat]
        /\ up[(n + 1) + 1] = Len(f)
        /\ \A k \in 1..(n + 1) : up[k] = at[k]
    <2>1. /\ (n + 1) + 1 = n + 2 /\ n + 2 \in 1..((n + 1) + 1)
          /\ \A k \in 1..(n + 1) : k \in 1..((n + 1) + 1) /\ k # n + 2
          /\ \A k \in 1..((n + 1) + 1) : k # n + 2 => k \in 1..(n + 1)
      BY <1>4
    <2>2. Len(f) \in Nat
      BY <1>6, Zenon
    <2>3. \A k \in 1..((n + 1) + 1) : (IF k = n + 2 THEN Len(f) ELSE at[k]) \in Nat
      BY <2>1, <2>2, Zenon
    <2>4. up \in [1..((n + 1) + 1) -> Nat]
      BY <2>3, Zenon
    <2> QED
      BY <2>1, <2>4, Zenon
  <1> HIDE DEF up
  <1>10. up[1] = 24
    <2>1. 1 \in 1..(n + 1)
      BY <1>4
    <2> QED
      BY <1>3, <1>9, <2>1, Zenon
  <1>11. ASSUME NEW k \in 1..(n + 1)
         PROVE  /\ Writable(qs[k], snaplen)
                /\ StoredAt(qs[k], f, up[k])
                /\ up[k + 1] = up[k] + 16 + Len(qs[k].data)
    <2>1. CASE k = n + 1
      BY <1>3, <1>5, <1>6, <1>7, <1>9, <2>1, Zenon
    <2>2. CASE k # n + 1
      <3>1. k \in 1..n /\ k + 1 \in 1..(n + 1)
        BY <1>4, <2>2
      <3> QED
        BY <1>3, <1>5, <1>8, <1>9, <3>1, Zenon
    <2> QED
      BY <2>1, <2>2
  <1>12. /\ up \in [1..(Len(qs) + 1) -> Nat]
         /\ up[1] = 24 /\ up[Len(qs) + 1] = Len(f)
    BY <1>5, <1>9, <1>10, Zenon
  <1>13. \A k \in 1..Len(qs) : /\ Writable(qs[k], snaplen)
                               /\ StoredAt(qs[k], f, up[k])
                               /\ up[k + 1] = up[k] + 16 + Len(qs[k].data)
    BY <1>5, <1>11, Zenon
  <1>14. Written(f, qs, snaplen)
    BY <1>5, <1>12, <1>13, Zenon DEF Written
  <1> QED
    BY <1>14, Zenon DEF f, qs, b

-----------------------------------------------------------------------------
(* The recursion of packetsIn                                                *)

\* A set of naturals has a least element.
LEMMA LeastNat ==
  ASSUME NEW T, T \subseteq Nat, T # {}
  PROVE  \E m \in T : \A k \in T : m <= k
  <1>1. PICK m \in T : \A k \in T : ~(<<k, m>> \in OpToRel(<, Nat))
    BY WFMin, NatLessThanWellFounded
  <1>2. \A k \in T : ~(k < m)
    BY <1>1 DEF OpToRel
  <1> QED
    BY <1>2

\* Induction up to n, with the property as the set of the numbers that have it.
LEMMA UpTo ==
  ASSUME NEW n \in Nat, NEW G, 0 \in G, \A i \in 1..n : i - 1 \in G => i \in G
  PROVE  n \in G
  <1> DEFINE T == {i \in 0..n : i \notin G}
  <1> SUFFICES ASSUME T # {} PROVE FALSE
    OBVIOUS
  <1>1. T \subseteq Nat
    OBVIOUS
  <1>2. PICK m \in T : \A k \in T : m <= k
    <2> HIDE DEF T
    <2> QED
      BY <1>1, LeastNat
  <1>3. m \in 1..n /\ m - 1 \in 0..n /\ ~(m <= m - 1)
    BY <1>2
  <1>4. m - 1 \in G
    BY <1>2, <1>3
  <1> QED
    BY <1>2, <1>3, <1>4

\* What is read from position i on, when f[j] is what is read from j on.
ReadOn(f, file, i) ==
    IF packetAt(file, globalHeader(file), i) = {} THEN <<>>
    ELSE LET r == CHOOSE r \in packetAt(file, globalHeader(file), i) : TRUE
         IN  <<r>> \o f[i + 16 + Len(r.data)]

\* Every packet brings the reader on, so that the recursion has a solution: from
\* the end of the file, position by position, towards its beginning.
LEMMA ReaderExists ==
  ASSUME NEW file \in Seq(Byte)
  PROVE  \E f : f = [i \in Nat |-> ReadOn(f, file, i)]
  <1> DEFINE n == Len(file)
             Solves(f, k) == /\ f = [i \in Nat |-> f[i]]
                             /\ \A i \in Nat : i + k >= n => f[i] = ReadOn(f, file, i)
             G == {k \in Nat : \E f : Solves(f, k)}
  <1>n. n \in Nat
    BY LenProperties
  <1>1. 0 \in G
    <2> DEFINE f == [i \in Nat |-> <<>>]
    <2>1. ASSUME NEW i \in Nat, i + 0 >= n PROVE f[i] = ReadOn(f, file, i)
      <3>1. packetAt(file, globalHeader(file), i) = {}
        <4>1. ASSUME NEW r \in packetAt(file, globalHeader(file), i) PROVE FALSE
          <5>1. i + 16 <= n
            BY ReadTyped
          <5> QED
            BY <1>n, <2>1, <5>1
        <4> QED
          BY <4>1
      <3> QED
        BY <3>1, Zenon DEF ReadOn
    <2>2. Solves(f, 0)
      BY <2>1, Zenon
    <2> QED
      BY <2>2
  <1>2. ASSUME NEW k \in 1..n, k - 1 \in G PROVE k \in G
    <2>1. PICK g : Solves(g, k - 1)
      BY <1>2
    <2> DEFINE f == [i \in Nat |-> IF i + (k - 1) >= n THEN g[i] ELSE ReadOn(g, file, i)]
    <2>2. \A i \in Nat : i + k >= n => f[i] = ReadOn(g, file, i)
      <3>1. \A i \in Nat : i + (k - 1) >= n => g[i] = ReadOn(g, file, i)
        BY <2>1, Zenon
      <3> QED
        BY <3>1, Zenon
    <2>3. \A i \in Nat : i + (k - 1) >= n => f[i] = g[i]
      BY Zenon
    <2>4. ASSUME NEW i \in Nat, i + k >= n PROVE ReadOn(f, file, i) = ReadOn(g, file, i)
      <3> DEFINE P == packetAt(file, globalHeader(file), i)
                 r == CHOOSE r \in P : TRUE
                 j == i + 16 + Len(r.data)
      <3>1. CASE P = {}
        BY <3>1, Zenon DEF ReadOn
      <3>2. CASE P # {}
        <4>1. r \in P
          BY <3>2
        <4>2. Len(r.data) \in Nat
          BY <4>1, ReadTyped, Zenon
        <4>3. j \in Nat /\ j + (k - 1) >= n
          <5>1. \A m \in Nat : i + 16 + m \in Nat /\ i + 16 + m + (k - 1) >= n
            <6>1. k \in Nat /\ i + k >= n
              BY <1>n, <2>4
            <6> HIDE DEF n
            <6> QED
              BY <1>n, <6>1
          <5> QED
            BY <4>2, <5>1, Zenon
        <4>4. f[j] = g[j]
          <5> HIDE DEF f, j
          <5> QED
            BY <2>3, <4>3, Zenon
        <4>5. ReadOn(f, file, i) = <<r>> \o f[j] /\ ReadOn(g, file, i) = <<r>> \o g[j]
          <5> HIDE DEF f
          <5> QED
            BY <3>2, Zenon DEF ReadOn
        <4> HIDE DEF f, j, r
        <4> QED
          BY <4>4, <4>5, Zenon
      <3> QED
        BY <3>1, <3>2, Zenon
    <2>5. f = [i \in Nat |-> f[i]]
      BY Zenon
    <2>6. Solves(f, k)
      <3> HIDE DEF f
      <3> QED
        BY <2>2, <2>4, <2>5, Zenon
    <2>7. k \in Nat
      BY <1>n
    <2> HIDE DEF f
    <2> QED
      BY <2>6, <2>7
  <1>3. n \in G
    <2> HIDE DEF G, n
    <2> QED
      BY <1>n, <1>1, <1>2, UpTo
  <1>4. PICK f : Solves(f, n)
    BY <1>3
  <1>5. \A i \in Nat : i + n >= n
    <2> HIDE DEF n
    <2> QED
      BY <1>n
  <1>6. \A i \in Nat : f[i] = ReadOn(f, file, i)
    BY <1>4, <1>5, Zenon
  <1>7. f = [i \in Nat |-> ReadOn(f, file, i)]
    BY <1>4, <1>6, Zenon
  <1> QED
    BY <1>7

\* packetsIn obeys its recursion.
LEMMA PacketsInReads ==
  ASSUME NEW file \in Seq(Byte), hasGlobalHeader(file)
  PROVE  \E f : /\ f = [i \in Nat |-> ReadOn(f, file, i)]
                /\ packetsIn(file) = f[24]
  <1> DEFINE from == CHOOSE f : f = [i \in Nat |-> ReadOn(f, file, i)]
  <1>1. from = [i \in Nat |-> ReadOn(from, file, i)]
    BY ReaderExists, Zenon
  <1>2. packetsIn(file) = from[24]
    BY Zenon DEF packetsIn, ReadOn
  <1> QED
    BY <1>1, <1>2

-----------------------------------------------------------------------------
(* The header of the output file                                             *)

\* A file begins with a header of this machine's byte order.
HeaderStored(file, snaplen) == /\ 24 <= Len(file)
                               /\ Load(file, 0, 4) = PCAP_MAGIC_NATIVE
                               /\ Load(file, 16, 4) = snaplen

LEMMA MagicsDiffer ==
  PCAP_MAGIC_NATIVE \in Word /\ PCAP_MAGIC_NATIVE # PCAP_MAGIC_SWAPPED
  <1>1. PCAP_MAGIC_NATIVE \in Seq(Byte) /\ Len(PCAP_MAGIC_NATIVE) = 4
    BY DEF PCAP_MAGIC_NATIVE, Byte
  <1>2. PCAP_MAGIC_NATIVE[1] = 161 /\ PCAP_MAGIC_NATIVE[4] = 212
    BY DEF PCAP_MAGIC_NATIVE
  <1>3. Reverse(PCAP_MAGIC_NATIVE)[1] = PCAP_MAGIC_NATIVE[(4 - 1) + 1]
    <2>1. 1 \in 1..4
      OBVIOUS
    <2> QED
      BY <1>1, <2>1, ReverseTyped, ZenonT(60)
  <1>4. PCAP_MAGIC_SWAPPED[1] = 212
    BY <1>2, <1>3 DEF PCAP_MAGIC_SWAPPED
  <1>5. PCAP_MAGIC_NATIVE # PCAP_MAGIC_SWAPPED
    BY <1>2, <1>4
  <1> QED
    BY <1>1, <1>5, Zenon DEF Word

LEMMA HeaderRead ==
  ASSUME NEW file \in Seq(Byte), NEW snaplen, HeaderStored(file, snaplen)
  PROVE  /\ hasGlobalHeader(file)
         /\ ~needsByteSwap(globalHeader(file))
         /\ globalHeader(file).snaplen = snaplen
  <1>1. hasGlobalHeader(file)
    <2>1. Len(file) >= 24
      BY LenProperties DEF HeaderStored
    <2> QED
      BY <2>1, Zenon DEF HeaderStored, hasGlobalHeader
  <1>2. globalHeader(file).magic_number = PCAP_MAGIC_NATIVE
    BY DEF HeaderStored, globalHeader
  <1>3. ~needsByteSwap(globalHeader(file))
    BY <1>2, MagicsDiffer, Zenon DEF needsByteSwap
  <1>4. globalHeader(file).snaplen = snaplen
    BY MagicsDiffer DEF HeaderStored, globalHeader, maybeSwap
  <1> QED
    BY <1>1, <1>3, <1>4

LEMMA HeaderBefore ==
  ASSUME NEW file \in Seq(Byte), NEW t \in Seq(Byte), NEW snaplen,
         HeaderStored(file, snaplen)
  PROVE  HeaderStored(file \o t, snaplen)
  <1> DEFINE n == Len(file)
             m == Len(file \o t)
  <1>1. n \in Nat /\ 24 <= n
    BY LenProperties, Zenon DEF HeaderStored
  <1>2. 24 <= m
    <2>1. m = n + Len(t) /\ Len(t) \in Nat
      BY Joined, LenProperties, Zenon
    <2> HIDE DEF n, m
    <2> QED
      BY <1>1, <2>1
  <1>3. 0 \in Nat /\ 16 \in Nat /\ 0 + 4 <= n /\ 16 + 4 <= n
    <2> HIDE DEF n
    <2> QED
      BY <1>1
  <1>4. /\ Load(file \o t, 0, 4) = Load(file, 0, 4)
        /\ Load(file \o t, 16, 4) = Load(file, 16, 4)
    BY <1>3, LoadBefore, Zenon
  <1> QED
    BY <1>2, <1>4, Zenon DEF HeaderStored

\* A part of a file, turned round or not.
LEMMA LoadTyped ==
  ASSUME NEW file \in Seq(Byte), NEW i \in Nat, NEW n \in Nat, i + n <= Len(file)
  PROVE  Load(file, i, n) \in Seq(Byte) /\ Len(Load(file, i, n)) = n
  <1>1. /\ SubSeq(file, i + 1, i + n) \in Seq(Byte)
        /\ Len(SubSeq(file, i + 1, i + n)) = n
    BY PartOfBytes
  <1> QED
    BY <1>1, ReverseTyped, Zenon DEF Load

\* A part of a file, turned round when the byte order is the other one.
LEMMA SwapTyped ==
  ASSUME NEW file \in Seq(Byte), NEW i \in Nat, NEW n \in Nat, i + n <= Len(file),
         NEW swap
  PROVE  /\ maybeSwap(swap, Load(file, i, n)) \in Seq(Byte)
         /\ Len(maybeSwap(swap, Load(file, i, n))) = n
  BY LoadTyped, ReverseTyped, Zenon DEF maybeSwap

\* What writeOutputHeader writes: the magic number as it was read, and the limit
\* on lengths in this machine's byte order.
LEMMA HeaderWritten ==
  ASSUME NEW file \in Seq(Byte), hasGlobalHeader(file)
  PROVE  LET b == headerBytes(globalHeader(file))
         IN  /\ b \in Seq(Byte) /\ Len(b) = 24
             /\ Load(b, 0, 4) = globalHeader(file).magic_number
             /\ Load(b, 16, 4) = globalHeader(file).snaplen
  <1> DEFINE g == globalHeader(file)
             m == Load(file, 0, 4)
             swap == m = PCAP_MAGIC_SWAPPED
             v1 == maybeSwap(swap, Load(file, 4, 2))
             v2 == maybeSwap(swap, Load(file, 6, 2))
             z1 == Load(file, 8, 4)
             z2 == Load(file, 12, 4)
             s == maybeSwap(swap, Load(file, 16, 4))
             k == maybeSwap(swap, Load(file, 20, 4))
             B1 == Store(m) \o Store(v1)
             B2 == B1 \o Store(v2)
             B3 == B2 \o Store(z1)
             B4 == B3 \o Store(z2)
             B5 == B4 \o Store(s)
             B6 == B5 \o Store(k)
  <1>1. 24 <= Len(file)
    <2>1. Len(file) \in Nat
      BY LenProperties
    <2>2. Len(file) >= 24
      BY Zenon DEF hasGlobalHeader
    <2> QED
      BY <2>1, <2>2
  <1>2. headerBytes(g) = B6 /\ g.magic_number = m /\ g.snaplen = s
    <2>1. g = [magic_number |-> m, version |-> <<v1, v2>>, zone |-> <<z1, z2>>,
               snaplen |-> s, network |-> k]
      BY Zenon DEF globalHeader
    <2> HIDE DEF g, m, v1, v2, z1, z2, s, k
    <2>2. /\ g.magic_number = m /\ g.version[1] = v1 /\ g.version[2] = v2
          /\ g.zone[1] = z1 /\ g.zone[2] = z2 /\ g.snaplen = s /\ g.network = k
      BY <2>1
    <2> QED
      BY <2>2, Zenon DEF headerBytes
  <1>3. /\ v1 \in Seq(Byte) /\ Len(v1) = 2 /\ v2 \in Seq(Byte) /\ Len(v2) = 2
        /\ z1 \in Word /\ z2 \in Word /\ s \in Word /\ k \in Word /\ m \in Word
    <2> DEFINE n == Len(file)
    <2>1. /\ 0 + 4 <= n /\ 4 + 2 <= n /\ 6 + 2 <= n /\ 8 + 4 <= n /\ 12 + 4 <= n
          /\ 16 + 4 <= n /\ 20 + 4 <= n
      <3>1. n \in Nat
        BY LenProperties
      <3> QED
        BY <1>1, <3>1
    <2>2. /\ 0 \in Nat /\ 2 \in Nat /\ 4 \in Nat /\ 6 \in Nat /\ 8 \in Nat
          /\ 12 \in Nat /\ 16 \in Nat /\ 20 \in Nat
      OBVIOUS
    <2> HIDE DEF swap
    <2>3. v1 \in Seq(Byte) /\ Len(v1) = 2
      BY <2>1, <2>2, SwapTyped, Zenon
    <2>4. v2 \in Seq(Byte) /\ Len(v2) = 2
      BY <2>1, <2>2, SwapTyped, Zenon
    <2>5. z1 \in Word
      BY <2>1, <2>2, LoadTyped, Zenon DEF Word
    <2>6. z2 \in Word
      BY <2>1, <2>2, LoadTyped, Zenon DEF Word
    <2>6a. \A w \in Word : maybeSwap(swap, w) \in Word
      BY ReverseTyped, Zenon DEF maybeSwap, Word
    <2>6b. Load(file, 16, 4) \in Word /\ Load(file, 20, 4) \in Word
      BY <2>1, <2>2, LoadTyped, Zenon DEF Word
    <2>7. s \in Word
      BY <2>6a, <2>6b, Zenon
    <2>8. k \in Word
      BY <2>6a, <2>6b, Zenon
    <2>9. m \in Word
      BY <2>1, <2>2, LoadTyped, Zenon DEF Word
    <2> QED
      BY <2>3, <2>4, <2>5, <2>6, <2>7, <2>8, <2>9, Zenon
  <1> HIDE DEF g, m, swap, v1, v2, z1, z2, s, k
  <1>4. /\ Store(v1) \in Seq(Byte) /\ Len(Store(v1)) = 2
        /\ Store(v2) \in Seq(Byte) /\ Len(Store(v2)) = 2
    BY <1>3, ReverseTyped, Zenon DEF Store
  <1>5. /\ Store(m) \in Seq(Byte) /\ Len(Store(m)) = 4
        /\ Store(z1) \in Seq(Byte) /\ Len(Store(z1)) = 4
        /\ Store(z2) \in Seq(Byte) /\ Len(Store(z2)) = 4
        /\ Store(s) \in Seq(Byte) /\ Len(Store(s)) = 4
        /\ Store(k) \in Seq(Byte) /\ Len(Store(k)) = 4
    BY <1>3, StoreTyped, Zenon
  <1>6. /\ 4 + 2 = 6 /\ 6 + 2 = 8 /\ 8 + 4 = 12 /\ 12 + 4 = 16
        /\ 16 + 4 = 20 /\ 20 + 4 = 24 /\ 0 \in Nat /\ 16 \in Nat
        /\ 0 + 4 <= 6 /\ 0 + 4 <= 8 /\ 0 + 4 <= 12 /\ 0 + 4 <= 16 /\ 0 + 4 <= 20
        /\ 16 + 4 <= 20
    OBVIOUS
  <1>a. B1 \in Seq(Byte) /\ Len(B1) = 6
    <2>1. B1 \in Seq(Byte) /\ Len(B1) = Len(Store(m)) + Len(Store(v1))
      BY <1>4, <1>5, Joined, Zenon
    <2> QED
      BY <1>4, <1>5, <1>6, <2>1, Zenon
  <1>b. B2 \in Seq(Byte) /\ Len(B2) = 8
    <2>1. B2 \in Seq(Byte) /\ Len(B2) = Len(B1) + Len(Store(v2))
      BY <1>4, <1>a, Joined, Zenon
    <2> QED
      BY <1>4, <1>6, <1>a, <2>1, Zenon
  <1>c. B3 \in Seq(Byte) /\ Len(B3) = 12
    <2>1. B3 \in Seq(Byte) /\ Len(B3) = Len(B2) + Len(Store(z1))
      BY <1>5, <1>b, Joined, Zenon
    <2> QED
      BY <1>5, <1>6, <1>b, <2>1, Zenon
  <1>d. B4 \in Seq(Byte) /\ Len(B4) = 16
    <2>1. B4 \in Seq(Byte) /\ Len(B4) = Len(B3) + Len(Store(z2))
      BY <1>5, <1>c, Joined, Zenon
    <2> QED
      BY <1>5, <1>6, <1>c, <2>1, Zenon
  <1>e. B5 \in Seq(Byte) /\ Len(B5) = 20
    <2>1. B5 \in Seq(Byte) /\ Len(B5) = Len(B4) + Len(Store(s))
      BY <1>5, <1>d, Joined, Zenon
    <2> QED
      BY <1>5, <1>6, <1>d, <2>1, Zenon
  <1>f. B6 \in Seq(Byte) /\ Len(B6) = 24
    <2>1. B6 \in Seq(Byte) /\ Len(B6) = Len(B5) + Len(Store(k))
      BY <1>5, <1>e, Joined, Zenon
    <2> QED
      BY <1>5, <1>6, <1>e, <2>1, Zenon
  <1>7. Load(B6, 16, 4) = s
    <2>1. Load(B6, Len(B4), 4) = s
      BY <1>3, <1>5, <1>d, LoadAmong, Zenon
    <2> QED
      BY <1>d, <2>1, Zenon
  <1>8. Load(B6, 0, 4) = m
    <2>1. Load(B1, 0, 4) = m
      BY <1>3, <1>4, LoadFirst, Zenon
    <2>2. Load(B2, 0, 4) = Load(B1, 0, 4)
      BY <1>4, <1>6, <1>a, LoadBefore, Zenon
    <2>3. Load(B3, 0, 4) = Load(B2, 0, 4)
      BY <1>5, <1>6, <1>b, LoadBefore, Zenon
    <2>4. Load(B4, 0, 4) = Load(B3, 0, 4)
      BY <1>5, <1>6, <1>c, LoadBefore, Zenon
    <2>5. Load(B5, 0, 4) = Load(B4, 0, 4)
      BY <1>5, <1>6, <1>d, LoadBefore, Zenon
    <2>6. Load(B6, 0, 4) = Load(B5, 0, 4)
      BY <1>5, <1>6, <1>e, LoadBefore, Zenon
    <2> HIDE DEF B1, B2, B3, B4, B5, B6
    <2> QED
      BY <2>1, <2>2, <2>3, <2>4, <2>5, <2>6, Zenon
  <1> HIDE DEF B6
  <1> QED
    BY <1>2, <1>7, <1>8, <1>f, Zenon DEF g

-----------------------------------------------------------------------------
(* The output file is read back                                              *)

LEMMA WrittenIsRead ==
  ASSUME NEW file \in Seq(Byte), NEW ps, NEW snaplen,
         HeaderStored(file, snaplen), Written(file, ps, snaplen)
  PROVE  packetsIn(file) = ps
  <1> DEFINE n == Len(ps)
             header == globalHeader(file)
  <1>1. /\ hasGlobalHeader(file) /\ ~needsByteSwap(header)
        /\ header.snaplen = snaplen
    BY HeaderRead, Zenon
  <1>2. PICK f : /\ f = [i \in Nat |-> ReadOn(f, file, i)]
                 /\ packetsIn(file) = f[24]
    BY <1>1, PacketsInReads, Zenon
  <1>3. \A i \in Nat : f[i] = ReadOn(f, file, i)
    BY <1>2, Zenon
  <1>4. ps \in Seq(Records) /\ n \in Nat /\ Len(file) \in Nat
    <2>1. ps \in Seq(Records)
      BY Zenon DEF Written
    <2> QED
      BY <2>1, LenProperties, Zenon
  <1>5. PICK at \in [1..(n + 1) -> Nat] :
          /\ at[1] = 24 /\ at[n + 1] = Len(file)
          /\ \A k \in 1..n : /\ Writable(ps[k], snaplen)
                             /\ StoredAt(ps[k], file, at[k])
                             /\ at[k + 1] = at[k] + 16 + Len(ps[k].data)
    BY Zenon DEF Written
  <1>6. packetAt(file, header, Len(file)) = {}
    <2>1. ASSUME NEW r \in packetAt(file, header, Len(file)) PROVE FALSE
      <3>1. Len(file) + 16 <= Len(file)
        BY <1>4, ReadTyped, Zenon
      <3> QED
        BY <1>4, <3>1
    <2> QED
      BY <2>1
  <1>7. \A k \in 1..n : packetAt(file, header, at[k]) = {ps[k]}
    <2> SUFFICES ASSUME NEW k \in 1..n
                 PROVE  packetAt(file, header, at[k]) = {ps[k]}
      BY Zenon
    <2>1. Writable(ps[k], header.snaplen) /\ StoredAt(ps[k], file, at[k])
      BY <1>1, <1>5, Zenon
    <2> HIDE DEF header
    <2> QED
      BY <1>1, <2>1, StoredIsRead, Zenon
  <1> HIDE DEF n, header
  <1> DEFINE G == {j \in Nat : f[at[(n + 1) - j]] = SubSeq(ps, (n + 1) - j, n)}
  <1>8. 0 \in G
    <2>1. f[at[n + 1]] = <<>>
      <3>1. f[Len(file)] = <<>>
        BY <1>3, <1>4, <1>6, Zenon DEF ReadOn, header
      <3> QED
        BY <1>5, <3>1, Zenon
    <2>2. SubSeq(ps, n + 1, n) = <<>>
      <3>1. n + 1 \in Int /\ n \in Int /\ n < n + 1
        BY <1>4
      <3> QED
        BY <3>1, SubSeqEmpty, Zenon
    <2>3. (n + 1) - 0 = n + 1 /\ 0 \in Nat
      BY <1>4
    <2> QED
      BY <2>1, <2>2, <2>3, Zenon
  <1>9. ASSUME NEW j \in 1..n, j - 1 \in G PROVE j \in G
    <2> DEFINE k == (n + 1) - j
    <2>1. /\ k \in 1..n /\ (n + 1) - (j - 1) = k + 1 /\ j \in Nat
          /\ k \in 1..(n + 1) /\ n \in k..n
      BY <1>4
    <2> HIDE DEF k
    <2>2. f[at[k + 1]] = SubSeq(ps, k + 1, n)
      BY <1>9, <2>1, Zenon
    <2>3. at[k] \in Nat /\ at[k + 1] = at[k] + 16 + Len(ps[k].data)
      BY <1>5, <2>1, Zenon
    <2>4. packetAt(file, header, at[k]) = {ps[k]}
      BY <1>7, <2>1, Zenon
    <2>5. (CHOOSE r \in packetAt(file, header, at[k]) : TRUE) = ps[k]
      BY <2>4
    <2>6. f[at[k]] = <<ps[k]>> \o f[at[k + 1]]
      <3>1. f[at[k]] = ReadOn(f, file, at[k])
        BY <1>3, <2>3, Zenon
      <3>2. packetAt(file, header, at[k]) # {}
        BY <2>4
      <3>3. ReadOn(f, file, at[k]) = <<ps[k]>> \o f[at[k] + 16 + Len(ps[k].data)]
        BY <2>5, <3>2, Zenon DEF ReadOn, header
      <3> QED
        BY <2>3, <3>1, <3>3, Zenon
    <2>7. SubSeq(ps, k, n) = <<ps[k]>> \o SubSeq(ps, k + 1, n)
      BY <1>4, <2>1, SubSeqRecursiveFirst, Zenon DEF n
    <2>8. f[at[k]] = SubSeq(ps, k, n)
      BY <2>2, <2>6, <2>7, Zenon
    <2> QED
      BY <2>1, <2>8, Zenon DEF k
  <1>10. n \in G
    <2> HIDE DEF G
    <2> QED
      BY <1>4, <1>8, <1>9, UpTo
  <1>11. (n + 1) - n = 1
    BY <1>4
  <1>12. f[24] = SubSeq(ps, 1, n)
    BY <1>5, <1>10, <1>11, Zenon
  <1>13. SubSeq(ps, 1, n) = ps
    BY <1>4, SubSeqFull, Zenon DEF n
  <1> QED
    BY <1>2, <1>12, <1>13, Zenon

\* Before the header is written the output is empty, and stays so when the input
\* has none; afterwards it holds the header and the packets that were forwarded.
\* The packet in hand was read, so it can be written.
OutputInv ==
    /\ output \in Seq(Byte)
    /\ \/ pc \in {"open", "end"} /\ output = <<>> /\ forwarded = <<>>
       \/ /\ pc # "open"
          /\ pc \in {"read", "end"} \/ Writable(record, global_header_.snaplen)
          /\ \/ needsByteSwap(global_header_)
             \/ /\ HeaderStored(output, global_header_.snaplen)
                /\ Written(output, forwarded, global_header_.snaplen)

\* The file holds its header and no packet.
LEMMA OpenStepsOutput ==
  ASSUME IInv, OutputInv, Open
  PROVE  OutputInv'
  <1>1. CASE openFile /\ pc' = "read"
    <2> DEFINE g == globalHeader(input)
               b == headerBytes(g)
    <2>1. hasGlobalHeader(input) /\ input \in Seq(Byte)
      BY <1>1 DEF openFile, IInv, FileTyped
    <2>2. /\ b \in Seq(Byte) /\ Len(b) = 24
          /\ Load(b, 0, 4) = g.magic_number /\ Load(b, 16, 4) = g.snaplen
      BY <2>1, HeaderWritten, Zenon
    <2>3. forwarded = <<>>
      BY DEF Open, OutputInv
    <2>4. /\ output' = b /\ global_header_' = g /\ forwarded' = <<>>
          /\ pc' = "read"
      BY <1>1, <2>3 DEF openFile
    <2> HIDE DEF b
    <2>5. ASSUME ~needsByteSwap(g)
          PROVE  HeaderStored(b, g.snaplen) /\ Written(b, <<>>, g.snaplen)
      <3>1. g.magic_number = PCAP_MAGIC_NATIVE
        <4>1. g.magic_number = Load(input, 0, 4)
          BY DEF globalHeader
        <4> QED
          BY <2>1, <2>5, <4>1 DEF hasGlobalHeader, needsByteSwap
      <3>2. HeaderStored(b, g.snaplen)
        <4>1. 24 <= Len(b)
          BY <2>2
        <4> QED
          BY <2>2, <3>1, <4>1, Zenon DEF HeaderStored
      <3>3. Written(b, <<>>, g.snaplen)
        <4> DEFINE ps == <<>>
                   at == [k \in 1..(Len(ps) + 1) |-> 24]
        <4>1. ps \in Seq(Records) /\ Len(ps) = 0
          BY EmptySeq, Zenon
        <4>2. 1..(Len(ps) + 1) = {1} /\ 1..Len(ps) = {} /\ Len(ps) + 1 = 1
          BY <4>1
        <4>3. at \in [1..(Len(ps) + 1) -> Nat] /\ at[1] = 24
          BY <4>2
        <4> HIDE DEF ps, at
        <4>4. Written(b, ps, g.snaplen)
          BY <2>2, <4>1, <4>2, <4>3, Zenon DEF Written
        <4> QED
          BY <4>4 DEF ps
      <3> QED
        BY <3>2, <3>3
    <2> HIDE DEF g
    <2> QED
      BY <2>2, <2>4, <2>5 DEF OutputInv
  <1>2. CASE pc' = "end" /\ UNCHANGED fileVars
    <2>1. pc = "open"
      BY DEF Open
    <2> QED
      BY <1>2, <2>1 DEF OutputInv, fileVars
  <1> QED
    BY <1>1, <1>2 DEF Open

\* A packet that was read can be written.
LEMMA ReadStepsOutput ==
  ASSUME IInv, OutputInv, Read
  PROVE  OutputInv'
  <1>0. pc \in {"read", "rejected"}
    BY DEF Read
  <1>1. CASE readNextPacket /\ beginParse(record'.data)
    <2>1. PICK r \in packetAt(input, global_header_, position) :
             /\ record' = r
             /\ UNCHANGED <<input, global_header_, output, forwarded>>
      BY <1>1 DEF readNextPacket
    <2>2. Writable(r, global_header_.snaplen)
      BY ReadIsWritable DEF IInv, FileTyped
    <2>3. pc' = "ethernet"
      BY <1>1 DEF beginParse
    <2> QED
      BY <1>0, <2>1, <2>2, <2>3 DEF OutputInv
  <1>2. CASE pc' = "end" /\ UNCHANGED readerVars
    BY <1>0, <1>2 DEF OutputInv, readerVars, fileVars
  <1> QED
    BY <1>1, <1>2 DEF Read

\* A packet that is written is the next one that is read.
LEMMA OutputStepsOutput ==
  ASSUME OutputInv, Output
  PROVE  OutputInv'
  <1>0. pc = "done" /\ pc' = "read"
    BY DEF Output
  <1>1. CASE writeOutputPacket
    <2> DEFINE max == global_header_.snaplen
               b == packetBytes(record)
    <2>1. /\ output' = output \o b /\ forwarded' = Append(forwarded, record)
          /\ global_header_' = global_header_
      BY <1>1 DEF writeOutputPacket
    <2>2. output \in Seq(Byte) /\ Writable(record, max)
      BY <1>0 DEF OutputInv
    <2>3. b \in Seq(Byte)
      BY <2>2, RecordWritten, Zenon DEF Writable
    <2>4. output' \in Seq(Byte)
      BY <2>1, <2>2, <2>3, Joined, Zenon
    <2>5. ASSUME HeaderStored(output, max), Written(output, forwarded, max)
          PROVE  HeaderStored(output', max) /\ Written(output', forwarded', max)
      BY <2>1, <2>2, <2>3, <2>5, HeaderBefore, WriteOneMore
    <2>6. \/ needsByteSwap(global_header_)
          \/ HeaderStored(output, max) /\ Written(output, forwarded, max)
      BY <1>0 DEF OutputInv
    <2> HIDE DEF b
    <2> QED
      BY <1>0, <2>1, <2>4, <2>5, <2>6 DEF OutputInv
  <1>2. CASE UNCHANGED fileVars
    BY <1>0, <1>2 DEF OutputInv, fileVars
  <1> QED
    BY <1>1, <1>2 DEF Output

\* Every other step leaves the files alone, and begins where there is a packet.
LEMMA OtherStepsOutput ==
  ASSUME OutputInv, UNCHANGED readerVars, pc \notin {"open", "read", "end"},
         pc' # "open"
  PROVE  OutputInv'
  BY DEF OutputInv, readerVars, fileVars

\* Where the parser is, before and after a step of it.
Headers == {"ethernet", "ipv4", "ipv6", "walk", "tcp", "udp", "icmp", "icmpv6",
            "payload"}

LEMMA ParsePlaces ==
  ASSUME parse
  PROVE  pc \in Headers /\ pc' \in Headers \cup {"parsed", "rejected"}
  <1>0. \A version, protocol : transportOf(version, protocol) \in Headers
    BY DEF transportOf, Headers
  <1>1. CASE parseEthernet
    BY <1>1 DEF parseEthernet, Reject, Headers
  <1>2. CASE parseIPv4
    <2>1. pc = "ipv4" /\ (pc' = "rejected" \/ pc' = transportOf(4, At(offset + 9)))
      BY <1>2 DEF parseIPv4, Reject
    <2> QED
      BY <1>0, <2>1 DEF Headers
  <1>3. CASE parseIPv6
    BY <1>3 DEF parseIPv6, Reject, Headers
  <1>4. CASE walkFragment
    BY <1>4 DEF walkFragment, Unsupported, NextHeader, Headers
  <1>5. CASE walkVariable
    BY <1>5 DEF walkVariable, Unsupported, NextHeader, Headers
  <1>6. CASE walkEnd
    <2>1. pc = "walk" /\ pc' = transportOf(6, next_hdr)
      BY <1>6 DEF walkEnd
    <2> QED
      BY <1>0, <2>1 DEF Headers
  <1>7. CASE parseTCP
    <2>1. pc = "tcp" /\ pc' \in {"rejected", "payload"}
      BY <1>7 DEF parseTCP, Reject
    <2> QED
      BY <2>1 DEF Headers
  <1>8. CASE parseUDP
    <2>1. pc = "udp" /\ pc' \in {"rejected", "payload"}
      BY <1>8 DEF parseUDP, Reject
    <2> QED
      BY <2>1 DEF Headers
  <1>9. CASE parseICMP
    BY <1>9 DEF parseICMP, Reject, Headers
  <1>10. CASE setPayload
    BY <1>10 DEF setPayload, Headers
  <1> QED
    BY <1>1, <1>2, <1>3, <1>4, <1>5, <1>6, <1>7, <1>8, <1>9, <1>10 DEF parse

LEMMA StepKeepsOutput ==
  ASSUME IInv, OutputInv, [Next]_vars
  PROVE  OutputInv'
  <1>1. CASE Open
    BY <1>1, OpenStepsOutput
  <1>2. CASE Read
    BY <1>2, ReadStepsOutput
  <1>3. CASE Output
    BY <1>3, OutputStepsOutput
  <1>4. CASE Parse
    <2>1. UNCHANGED readerVars
      BY <1>4 DEF Parse
    <2>2. parse
      BY <1>4 DEF Parse
    <2>3. pc \notin {"open", "read", "end"} /\ pc' # "open"
      BY <2>2, ParsePlaces DEF Headers
    <2> QED
      BY <2>1, <2>3, OtherStepsOutput
  <1>5. CASE createPacketJob
    BY <1>5, OtherStepsOutput DEF createPacketJob
  <1>6. CASE Inspect
    <2>1. pc \in {"inspect", "classify"}
      BY <1>6 DEF Inspect, inspectNothing, inspectDNS, inspectQUIC, inspectHTTP,
           inspectTLS, classifyByName, IsTLSPayload
    <2>2. UNCHANGED readerVars /\ pc' \in {"done", "classify", "dns", "host"}
      BY <1>6 DEF Inspect, inspectNothing, inspectDNS, inspectQUIC, inspectHTTP,
           inspectTLS, classifyByName, ByName, Found, Classify
    <2> QED
      BY <2>1, <2>2, OtherStepsOutput
  <1>7. CASE extractHost
    BY <1>7, OtherStepsOutput DEF extractHost, findHostLine, readHost, Found, Classify
  <1>8. CASE readDomainName
    BY <1>8, OtherStepsOutput DEF readDomainName, endOfName, followPointer,
         readLabel, Classify
  <1>9. CASE UNCHANGED vars
    BY <1>9 DEF vars, readerVars, fileVars, OutputInv
  <1> QED
    BY <1>1, <1>2, <1>3, <1>4, <1>5, <1>6, <1>7, <1>8, <1>9 DEF Next, Step, Finished

\* The output file can be read back at any time between two writes and gives the
\* packets that were forwarded, for every input file of this machine's byte order,
\* damaged ones included.
THEOREM OutputIsReadable ==
  Spec => []WrittenIsReadable
  <1>1. Init => IInv /\ OutputInv
    <2> SUFFICES ASSUME Init PROVE IInv /\ OutputInv
      OBVIOUS
    <2>1. IInv
      BY InspectionAssumption DEF Init, FileInit, ParserInit, IInv, FileTyped, FrameInv
    <2>2. pc = "open" /\ output = <<>> /\ forwarded = <<>>
      BY DEF Init, FileInit
    <2>3. output \in Seq(Byte)
      BY <2>2
    <2> QED
      BY <2>1, <2>2, <2>3 DEF OutputInv
  <1>2. IInv /\ OutputInv /\ [Next]_vars => (IInv /\ OutputInv)'
    BY StepKeepsTypes, StepKeepsOutput
  <1>3. OutputInv => WrittenIsReadable
    <2> SUFFICES ASSUME OutputInv, ~needsByteSwap(global_header_)
                 PROVE  packetsIn(output) = forwarded
      BY DEF WrittenIsReadable
    <2>1. CASE output = <<>> /\ forwarded = <<>>
      <3>1. ~hasGlobalHeader(output)
        BY <2>1 DEF hasGlobalHeader
      <3> QED
        BY <2>1, <3>1, Zenon DEF packetsIn
    <2>2. CASE /\ HeaderStored(output, global_header_.snaplen)
               /\ Written(output, forwarded, global_header_.snaplen)
      <3>1. output \in Seq(Byte)
        BY DEF OutputInv
      <3> QED
        BY <2>2, <3>1, WrittenIsRead, Zenon
    <2> QED
      BY <2>1, <2>2 DEF OutputInv
  <1> QED
    BY <1>1, <1>2, <1>3, PTL DEF Spec

-----------------------------------------------------------------------------
(* What the extractors find is text                                          *)

\* What the code computes from the bytes of a payload.
LEMMA PayloadNumbers ==
  ASSUME memory \in Memories, NEW p \in Seq(Byte), NEW i \in Nat
  PROVE  /\ ByteAt(p, i) \in 0..255 /\ ByteAt(p, i) \in Nat
         /\ readUint16BE(p, i) \in Nat
  <1>1. ASSUME NEW j \in Nat PROVE ByteAt(p, j) \in 0..255
    BY ByteRead, Zenon DEF Byte
  <1>2. ByteAt(p, i) \in 0..255 /\ ByteAt(p, i + 1) \in 0..255
    BY <1>1
  <1>3. \A x, y \in 0..255 : 256 * x + y \in Nat
    OBVIOUS
  <1>4. \A x \in 0..255 : x \in Nat
    OBVIOUS
  <1> QED
    BY <1>2, <1>3, <1>4, Zenon DEF readUint16BE

LEMMA StretchTyped ==
  ASSUME memory \in Memories, NEW p \in Seq(Byte), NEW from \in Nat, NEW n \in Nat
  PROVE  Stretch(p, from, n) \in Seq(Char)
  <1>1. ASSUME NEW k \in 1..n PROVE Chr(ByteAt(p, from + k - 1)) \in Char
    <2>1. from + k - 1 \in Nat
      OBVIOUS
    <2>2. ByteAt(p, from + k - 1) \in Byte
      BY <2>1, PayloadNumbers DEF Byte
    <2> QED
      BY <2>2, InspectionAssumption
  <1> DEFINE s == [k \in 1..n |-> Chr(ByteAt(p, from + k - 1))]
  <1>2. s \in [1..n -> Char]
    BY <1>1
  <1> HIDE DEF s
  <1>3. s \in Seq(Char)
    BY <1>2, SeqDef
  <1> QED
    BY <1>3 DEF s, Stretch

LEMMA ServerNameTyped ==
  ASSUME memory \in Memories, NEW p \in Seq(Byte), NEW i \in Nat, NEW n \in Nat
  PROVE  serverName(p, i, n) \in SUBSET Seq(Char)
  <1> DEFINE length == readUint16BE(p, i + 3)
  <1>1. length \in Nat /\ i + 5 \in Nat
    <2>1. i + 3 \in Nat /\ i + 5 \in Nat
      OBVIOUS
    <2>2. length \in Nat
      BY <2>1, PayloadNumbers, Zenon
    <2> QED
      BY <2>1, <2>2
  <1>2. Stretch(p, i + 5, length) \in Seq(Char)
    BY <1>1, StretchTyped
  <1>3. serverName(p, i, n) \in {{}, {Stretch(p, i + 5, length)}}
    BY Zenon DEF serverName
  <1> QED
    BY <1>2, <1>3

\* A loop over places: it stops in S with the result V, or goes on at N.
Scan(f, S, V, N) == [i \in Nat |-> IF i \in S THEN V[i] ELSE f[N[i]]]

\* It goes forward and stops from e on, so that its recursion has a solution.
LEMMA ScanExists ==
  ASSUME NEW S, NEW V, NEW N, NEW e \in Nat,
         \A i \in Nat : i >= e => i \in S,
         \A i \in Nat : i \notin S => N[i] \in Nat /\ N[i] > i
  PROVE  \E f : f = Scan(f, S, V, N)
  <1> DEFINE Solves(f, k) == /\ f = [i \in Nat |-> f[i]]
                             /\ \A i \in Nat : i + k >= e => f[i] = Scan(f, S, V, N)[i]
             G == {k \in Nat : \E f : Solves(f, k)}
  <1>1. 0 \in G
    <2> DEFINE f == [i \in Nat |-> V[i]]
    <2>1. ASSUME NEW i \in Nat, i + 0 >= e PROVE f[i] = Scan(f, S, V, N)[i]
      <3>1. i >= e
        BY <2>1
      <3> QED
        BY <3>1, Zenon DEF Scan
    <2>2. Solves(f, 0)
      BY <2>1, Zenon
    <2> QED
      BY <2>2
  <1>2. ASSUME NEW k \in 1..e, k - 1 \in G PROVE k \in G
    <2>1. PICK g : Solves(g, k - 1)
      BY <1>2
    <2> DEFINE f == [i \in Nat |-> IF i + (k - 1) >= e THEN g[i] ELSE Scan(g, S, V, N)[i]]
    <2>2. \A i \in Nat : f[i] = Scan(g, S, V, N)[i]
      <3>1. \A i \in Nat : i + (k - 1) >= e => g[i] = Scan(g, S, V, N)[i]
        BY <2>1, Zenon
      <3> QED
        BY <3>1, Zenon
    <2>3. \A i \in Nat : i + (k - 1) >= e => f[i] = g[i]
      BY Zenon
    <2>4. f = [i \in Nat |-> f[i]]
      BY Zenon
    <2>5. ASSUME NEW i \in Nat, i + k >= e
          PROVE  Scan(g, S, V, N)[i] = Scan(f, S, V, N)[i]
      <3> HIDE DEF f
      <3>1. CASE i \in S
        BY <3>1, Zenon DEF Scan
      <3>2. CASE i \notin S
        <4>1. N[i] \in Nat /\ N[i] > i
          BY <3>2
        <4>2. N[i] + (k - 1) >= e
          BY <2>5, <4>1
        <4>3. f[N[i]] = g[N[i]]
          BY <2>3, <4>1, <4>2, Zenon
        <4> QED
          BY <3>2, <4>3, Zenon DEF Scan
      <3> QED
        BY <3>1, <3>2
    <2>6. Solves(f, k)
      <3> HIDE DEF f
      <3> QED
        BY <2>2, <2>4, <2>5, Zenon
    <2>7. k \in Nat
      OBVIOUS
    <2> HIDE DEF f
    <2> QED
      BY <2>6, <2>7
  <1>3. e \in G
    <2> HIDE DEF G
    <2> QED
      BY <1>1, <1>2, UpTo
  <1>4. PICK f : Solves(f, e)
    BY <1>3
  <1>5. \A i \in Nat : i + e >= e
    OBVIOUS
  <1>6. \A i \in Nat : f[i] = Scan(f, S, V, N)[i]
    BY <1>4, <1>5, Zenon
  <1>7. f = [i \in Nat |-> f[i]]
    BY <1>4, Zenon
  <1>8. Scan(f, S, V, N) = [i \in Nat |-> Scan(f, S, V, N)[i]]
    BY Zenon DEF Scan
  <1>9. f = Scan(f, S, V, N)
    BY <1>6, <1>7, <1>8, Zenon
  <1> QED
    BY <1>9

\* Its result is one of those it may stop with.
LEMMA ScanTyped ==
  ASSUME NEW S, NEW V, NEW N, NEW e \in Nat,
         \A i \in Nat : i >= e => i \in S,
         \A i \in Nat : i \notin S => N[i] \in Nat /\ N[i] > i,
         NEW f, f = Scan(f, S, V, N),
         NEW T, \A i \in Nat : i \in S => V[i] \in T
  PROVE  \A i \in Nat : f[i] \in T
  <1> DEFINE G == {k \in Nat : \A i \in Nat : i + k >= e => f[i] \in T}
  <1>0. \A i \in Nat : f[i] = IF i \in S THEN V[i] ELSE f[N[i]]
    BY Zenon DEF Scan
  <1>1. 0 \in G
    <2>1. ASSUME NEW i \in Nat, i + 0 >= e PROVE f[i] \in T
      <3>1. i \in S
        BY <2>1
      <3> QED
        BY <1>0, <3>1
    <2> QED
      BY <2>1
  <1>2. ASSUME NEW k \in 1..e, k - 1 \in G PROVE k \in G
    <2>1. ASSUME NEW i \in Nat, i + k >= e PROVE f[i] \in T
      <3>1. CASE i \in S
        BY <1>0, <3>1
      <3>2. CASE i \notin S
        <4>1. N[i] \in Nat /\ N[i] > i
          BY <3>2
        <4>2. N[i] + (k - 1) >= e
          BY <2>1, <4>1
        <4>3. f[N[i]] \in T
          BY <1>2, <4>1, <4>2
        <4> QED
          BY <1>0, <3>2, <4>3
      <3> QED
        BY <3>1, <3>2
    <2> QED
      BY <2>1
  <1>3. e \in G
    <2> HIDE DEF G
    <2> QED
      BY <1>1, <1>2, UpTo
  <1> QED
    BY <1>3

\* The turns of the two loops over extensions.
ScanExtension(f, p, end, i) ==
    LET n == readUint16BE(p, i + 2)
    IN  IF i + 4 > end \/ i + 4 + n > end THEN {}
        ELSE IF readUint16BE(p, i) = 0 THEN serverName(p, i + 4, n)
        ELSE f[i + 4 + n]

ScanBuffered(f, p, end, i) ==
    LET n == readUint16BE(p, i + 2)
        found == IF readUint16BE(p, i) = 0 /\ i + 4 + n <= end
                 THEN serverName(p, i + 4, n) ELSE {}
    IN  IF i + 4 > end THEN {}
        ELSE IF found # {} THEN found
        ELSE f[i + 4 + n]

\* Where the next extension begins.
LEMMA NextExtension ==
  ASSUME memory \in Memories, NEW p \in Seq(Byte), NEW i \in Nat
  PROVE  /\ i + 4 + readUint16BE(p, i + 2) \in Nat
         /\ i + 4 + readUint16BE(p, i + 2) > i
         /\ serverName(p, i + 4, readUint16BE(p, i + 2)) \in SUBSET Seq(Char)
  <1> DEFINE n == readUint16BE(p, i + 2)
  <1>1. n \in Nat
    <2>1. i + 2 \in Nat
      OBVIOUS
    <2> QED
      BY <2>1, PayloadNumbers
  <1>2. i + 4 \in Nat
    OBVIOUS
  <1> HIDE DEF n
  <1>3. serverName(p, i + 4, n) \in SUBSET Seq(Char)
    BY <1>1, <1>2, ServerNameTyped
  <1>4. i + 4 + n \in Nat /\ i + 4 + n > i
    BY <1>1
  <1> QED
    BY <1>3, <1>4 DEF n

LEMMA ExtensionsTyped ==
  ASSUME memory \in Memories, NEW p \in Seq(Byte), NEW from \in Nat, NEW end \in Nat
  PROVE  scanExtensions(p, from, end) \in SUBSET Seq(Char)
  <1> DEFINE n(i) == readUint16BE(p, i + 2)
             over(i) == i + 4 > end \/ i + 4 + n(i) > end
             S == {i \in Nat : over(i) \/ readUint16BE(p, i) = 0}
             V == [i \in Nat |-> IF over(i) THEN {} ELSE serverName(p, i + 4, n(i))]
             N == [i \in Nat |-> i + 4 + n(i)]
             f == CHOOSE g : g = [i \in Nat |-> ScanExtension(g, p, end, i)]
  <1>1. \A i \in Nat : i >= end => i \in S
    <2> SUFFICES ASSUME NEW i \in Nat, i >= end PROVE i \in S
      OBVIOUS
    <2>1. i + 4 > end
      OBVIOUS
    <2> QED
      BY <2>1
  <1>2. \A i \in Nat : N[i] \in Nat /\ N[i] > i
    BY NextExtension
  <1>3. \A i \in Nat : V[i] \in SUBSET Seq(Char)
    BY NextExtension
  <1>4. ASSUME NEW g
        PROVE  [i \in Nat |-> ScanExtension(g, p, end, i)] = Scan(g, S, V, N)
    <2>1. ASSUME NEW i \in Nat
          PROVE  ScanExtension(g, p, end, i) = IF i \in S THEN V[i] ELSE g[N[i]]
      <3>1. /\ V[i] = IF over(i) THEN {} ELSE serverName(p, i + 4, n(i))
            /\ N[i] = i + 4 + n(i)
            /\ i \in S <=> over(i) \/ readUint16BE(p, i) = 0
        OBVIOUS
      <3> HIDE DEF S, V, N
      <3> QED
        BY <3>1, Zenon DEF ScanExtension
    <2> HIDE DEF S, V, N
    <2> QED
      BY <2>1, Zenon DEF Scan
  <1> HIDE DEF S, V, N
  <1>5. \E g : g = Scan(g, S, V, N)
    BY <1>1, <1>2, ScanExists
  <1>6. f = Scan(f, S, V, N)
    BY <1>4, <1>5, Zenon
  <1>7. scanExtensions(p, from, end) = f[from]
    BY Zenon DEF scanExtensions, ScanExtension
  <1> HIDE DEF f
  <1>8. f[from] \in SUBSET Seq(Char)
    BY <1>1, <1>2, <1>3, <1>6, ScanTyped
  <1> QED
    BY <1>7, <1>8

LEMMA BufferTyped ==
  ASSUME memory \in Memories, NEW p \in Seq(Byte), NEW from \in Nat, NEW end \in Nat
  PROVE  scanBuffer(p, from, end) \in SUBSET Seq(Char)
  <1> DEFINE n(i) == readUint16BE(p, i + 2)
             found(i) == IF readUint16BE(p, i) = 0 /\ i + 4 + n(i) <= end
                         THEN serverName(p, i + 4, n(i)) ELSE {}
             S == {i \in Nat : i + 4 > end \/ found(i) # {}}
             V == [i \in Nat |-> IF i + 4 > end THEN {} ELSE found(i)]
             N == [i \in Nat |-> i + 4 + n(i)]
             f == CHOOSE g : g = [i \in Nat |-> ScanBuffered(g, p, end, i)]
  <1>1. \A i \in Nat : i >= end => i \in S
    <2> SUFFICES ASSUME NEW i \in Nat, i >= end PROVE i \in S
      OBVIOUS
    <2>1. i + 4 > end
      OBVIOUS
    <2> QED
      BY <2>1
  <1>2. \A i \in Nat : N[i] \in Nat /\ N[i] > i
    BY NextExtension
  <1>3. \A i \in Nat : V[i] \in SUBSET Seq(Char)
    BY NextExtension
  <1>4. ASSUME NEW g
        PROVE  [i \in Nat |-> ScanBuffered(g, p, end, i)] = Scan(g, S, V, N)
    <2>1. ASSUME NEW i \in Nat
          PROVE  ScanBuffered(g, p, end, i) = IF i \in S THEN V[i] ELSE g[N[i]]
      <3>1. /\ V[i] = IF i + 4 > end THEN {} ELSE found(i)
            /\ N[i] = i + 4 + n(i)
            /\ i \in S <=> i + 4 > end \/ found(i) # {}
        OBVIOUS
      <3> HIDE DEF S, V, N
      <3> QED
        BY <3>1, Zenon DEF ScanBuffered
    <2> HIDE DEF S, V, N
    <2> QED
      BY <2>1, Zenon DEF Scan
  <1> HIDE DEF S, V, N
  <1>5. \E g : g = Scan(g, S, V, N)
    BY <1>1, <1>2, ScanExists
  <1>6. f = Scan(f, S, V, N)
    BY <1>4, <1>5, Zenon
  <1>7. scanBuffer(p, from, end) = f[from]
    BY Zenon DEF scanBuffer, ScanBuffered
  <1> HIDE DEF f
  <1>8. f[from] \in SUBSET Seq(Char)
    BY <1>1, <1>2, <1>3, <1>6, ScanTyped
  <1> QED
    BY <1>7, <1>8

\* Where the extensions of a ClientHello begin.
LEMMA ExtensionsPlace ==
  ASSUME memory \in Memories, NEW p \in Seq(Byte), NEW b \in Nat
  PROVE  Extensions(p, b) \in Nat
  <1>0. \A x, y \in Nat : x + 1 + y \in Nat /\ x + 2 + y \in Nat
    OBVIOUS
  <1>1. Session(b) \in Nat
    BY DEF Session
  <1>2. Ciphers(p, b) \in Nat
    <2>1. ByteAt(p, Session(b)) \in Nat
      BY <1>1, PayloadNumbers
    <2> QED
      BY <1>0, <1>1, <2>1, Zenon DEF Ciphers
  <1>3. Methods(p, b) \in Nat
    <2>1. readUint16BE(p, Ciphers(p, b)) \in Nat
      BY <1>2, PayloadNumbers
    <2> QED
      BY <1>0, <1>2, <2>1, Zenon DEF Methods
  <1>4. ByteAt(p, Methods(p, b)) \in Nat
    BY <1>3, PayloadNumbers
  <1> QED
    BY <1>0, <1>3, <1>4, Zenon DEF Extensions

LEMMA SNITyped ==
  ASSUME memory \in Memories, NEW p \in Seq(Byte), NEW b \in Nat
  PROVE  extractSNI(p, b) \in SUBSET Seq(Char)
  <1> DEFINE exts == Extensions(p, b)
             end == exts + 2 + readUint16BE(p, exts)
  <1>1. exts \in Nat
    BY ExtensionsPlace
  <1>2. readUint16BE(p, exts) \in Nat
    BY <1>1, PayloadNumbers
  <1>3. exts + 2 \in Nat /\ end \in Nat
    BY <1>1, <1>2
  <1> HIDE DEF end
  <1>4. scanExtensions(p, exts + 2, end) \in SUBSET Seq(Char)
    BY <1>3, ExtensionsTyped
  <1>5. extractSNI(p, b) \in {{}, scanExtensions(p, exts + 2, end)}
    BY Zenon DEF extractSNI, end
  <1> QED
    BY <1>4, <1>5

LEMMA HelloTyped ==
  ASSUME memory \in Memories, NEW p \in Seq(Byte)
  PROVE  extractFromBuffer(p) \in SUBSET Seq(Char)
  <1> DEFINE exts == Extensions(p, 0)
             left == Len(p) - exts - 2
             announced == readUint16BE(p, exts)
             end == exts + 2 + (IF MoreThan(left, announced) THEN announced ELSE left)
  <1>1. exts \in Nat
    BY ExtensionsPlace
  <1>2. announced \in Nat
    BY <1>1, PayloadNumbers
  <1>3. exts + 2 \in Nat /\ end \in Nat
    <2>1. Len(p) \in Nat
      OBVIOUS
    <2>2. CASE MoreThan(left, announced)
      <3>1. end = exts + 2 + announced
        BY <2>2
      <3> HIDE DEF announced, exts, end
      <3> QED
        BY <1>1, <1>2, <3>1
    <2>3. CASE ~MoreThan(left, announced)
      <3>1. end = exts + 2 + left
        BY <2>3
      <3>2. left >= 0 /\ left \in Int
        <4> HIDE DEF announced, exts
        <4> QED
          BY <1>1, <1>2, <2>1, <2>3 DEF MoreThan
      <3> HIDE DEF left, exts, end
      <3> QED
        BY <1>1, <3>1, <3>2
    <2> QED
      BY <2>2, <2>3
  <1> HIDE DEF end
  <1>4. scanBuffer(p, exts + 2, end) \in SUBSET Seq(Char)
    BY <1>3, BufferTyped
  <1>5. extractFromBuffer(p) \in {{}, scanBuffer(p, exts + 2, end)}
    BY Zenon DEF extractFromBuffer, end
  <1> QED
    BY <1>4, <1>5

LEMMA QUICTyped ==
  ASSUME memory \in Memories, NEW p \in Seq(Byte)
  PROVE  extractQUIC(p) \in SUBSET Seq(Char)
  <1> DEFINE hellos == {i \in 5..(Len(p) - LOOKAHEAD) :
                           ByteAt(p, i) = 1 /\ extractSNI(p, i - 5) # {}}
             first == {i \in hellos : \A j \in hellos : i <= j}
  <1>1. \A i \in 5..(Len(p) - LOOKAHEAD) : i - 5 \in Nat
    BY DEF LOOKAHEAD
  <1>2. \A i \in first : extractSNI(p, i - 5) \in SUBSET Seq(Char)
    BY <1>1, SNITyped
  <1> HIDE DEF first
  <1>3. UNION {extractSNI(p, i - 5) : i \in first} \in SUBSET Seq(Char)
    BY <1>2
  <1>4. extractQUIC(p) \in {{}, UNION {extractSNI(p, i - 5) : i \in first}}
    BY Zenon DEF extractQUIC, first
  <1> QED
    BY <1>3, <1>4

\* A search in a payload ends at a byte of the payload or at its end.
LEMMA FirstOfTyped ==
  ASSUME NEW p \in Seq(Byte), NEW i \in Nat, i <= Len(p), NEW kind
  PROVE  FirstOf(p, i, kind) \in i..Len(p)
  <1> DEFINE n == Len(p)
             T == {k \in i..n : k = n \/ ByteAt(p, k) \in kind}
  <1>1. n \in Nat
    BY LenProperties
  <1>2. T \subseteq Nat /\ n \in T
    BY <1>1
  <1>3. PICK m \in T : \A k \in T : m <= k
    <2> HIDE DEF T
    <2> QED
      BY <1>2, LeastNat
  <1>4. m \in i..n /\ (m = n \/ ByteAt(p, m) \in kind)
    OBVIOUS
  <1>5. ASSUME NEW j \in i..(m - 1) PROVE ByteAt(p, j) \notin kind
    <2>1. j \in i..n /\ ~(m <= j)
      BY <1>1, <1>4
    <2> QED
      BY <1>3, <2>1
  <1>6. \E k \in i..n : /\ k = n \/ ByteAt(p, k) \in kind
                        /\ \A j \in i..(k - 1) : ByteAt(p, j) \notin kind
    BY <1>4, <1>5
  <1> QED
    BY <1>6, Zenon DEF FirstOf

-----------------------------------------------------------------------------
(* The types of the parser's variables                                       *)

\* What parse() stores are bytes and numbers of two bytes.
LEMMA FieldsTyped ==
  ASSUME FrameInv, NEW i \in Nat
  PROVE  /\ At(i) \in Byte
         /\ NetToHost16(i) \in PortNumber
         /\ HighNibble(i) \in Nat /\ LowNibble(i) \in Nat
         /\ \A n \in Nat : Bytes(i, n) \in Seq(Byte)
  <1>1. ASSUME NEW j \in Nat PROVE At(j) \in Byte
    BY <1>1, ByteTyped, Zenon DEF Byte
  <1>2. NetToHost16(i) \in PortNumber
    <2>1. i + 1 \in Nat
      OBVIOUS
    <2>2. At(i) \in Byte /\ At(i + 1) \in Byte
      BY <1>1, <2>1, Zenon
    <2>3. 256 * At(i) + At(i + 1) \in Lengths
      BY <2>2, TwoBytes, Zenon
    <2> DEFINE n == 256 * At(i) + At(i + 1)
    <2> HIDE DEF n
    <2>4. n \in PortNumber
      <3>1. n \in Lengths
        BY <2>3, Zenon DEF n
      <3>2. n \in Nat /\ n <= 65535
        BY <3>1 DEF Lengths
      <3>3. MaxPort \in Nat /\ n <= MaxPort
        BY <3>2 DEF MaxPort
      <3> QED
        BY <3>2, <3>3 DEF PortNumber
    <2> QED
      BY <2>4, Zenon DEF n, NetToHost16
  <1>3. HighNibble(i) \in Nat /\ LowNibble(i) \in Nat
    <2>1. HighNibble(i) \in 0..15 /\ LowNibble(i) \in 0..15
      BY ByteTyped, Zenon
    <2> QED
      BY <2>1
  <1>4. ASSUME NEW n \in Nat PROVE Bytes(i, n) \in Seq(Byte)
    <2>1. ASSUME NEW k \in 1..n PROVE At(i + k - 1) \in Byte
      <3>1. i + k - 1 \in Nat
        OBVIOUS
      <3> QED
        BY <1>1, <3>1, Zenon
    <2> DEFINE s == [k \in 1..n |-> At(i + k - 1)]
    <2>2. s \in [1..n -> Byte]
      BY <2>1, Zenon
    <2> HIDE DEF s
    <2>3. s \in Seq(Byte)
      BY <2>2, SeqDef
    <2> QED
      BY <2>3, Zenon DEF s, Bytes
  <1> QED
    BY <1>1, <1>2, <1>3, <1>4, Zenon

LEMMA ParseKeepsTypes ==
  ASSUME ParserTypeOK, FrameInv, UNCHANGED memory, parse
  PROVE  ParserTypeOK'
  <1>r. /\ raw \in Seq(Byte) /\ offset \in Nat /\ next_hdr \in Byte
        /\ count \in 0..MAX_EXT_HEADERS /\ parsed \in ParsedPacket
        /\ MAX_EXT_HEADERS \in Nat
    BY ParserAssumption DEF ParserTypeOK
  <1>n. reach' \in Nat /\ offset' \in Nat /\ raw' \in Seq(Byte)
    BY ParseKeepsFrame DEF FrameInv
  <1>b. /\ IPV6_NO_NEXT_HDR \in Byte /\ {4, 6} \subseteq IPVersion
        /\ {"tcp", "udp", "icmp", "icmpv6"} \subseteq Transport
    BY DEF Byte, IPV6_NO_NEXT_HDR, IPVersion, Transport
  <1>e. \A X \in SUBSET ExtHeader, h \in ExtHeader : X \cup {h} \in SUBSET ExtHeader
    OBVIOUS
  <1>0. ASSUME UNCHANGED <<next_hdr, count, parsed>>
        PROVE  ParserTypeOK'
    BY <1>0, <1>r, <1>n DEF ParserTypeOK
  <1>00. ASSUME NEW k \in Nat, Reject(k) PROVE ParserTypeOK'
    BY <1>00, <1>0 DEF Reject
  <1>1. CASE parseEthernet
    BY <1>0, <1>1 DEF parseEthernet, Reject
  <1>2. CASE parseIPv4
    <2>1. /\ At(offset + 9) \in Byte
          /\ Bytes(offset + 12, 4) \in Seq(Byte) /\ Bytes(offset + 16, 4) \in Seq(Byte)
      <3>1. offset + 9 \in Nat /\ offset + 12 \in Nat /\ offset + 16 \in Nat
        BY <1>r
      <3> QED
        BY <1>r, <3>1, FieldsTyped, Zenon
    <2>2. \/ UNCHANGED <<next_hdr, count, parsed>>
          \/ /\ parsed' = [parsed EXCEPT !.ip_version = 4,
                                         !.protocol = At(offset + 9),
                                         !.src = Bytes(offset + 12, 4),
                                         !.dst = Bytes(offset + 16, 4)]
             /\ UNCHANGED <<next_hdr, count>>
      BY <1>2 DEF parseIPv4, Reject
    <2>3. CASE /\ parsed' = [parsed EXCEPT !.ip_version = 4,
                                           !.protocol = At(offset + 9),
                                           !.src = Bytes(offset + 12, 4),
                                           !.dst = Bytes(offset + 16, 4)]
               /\ UNCHANGED <<next_hdr, count>>
      <3>1. parsed' \in ParsedPacket
        BY <1>r, <1>b, <2>1, <2>3, Zenon DEF ParsedPacket
      <3> QED
        BY <1>r, <1>n, <2>3, <3>1 DEF ParserTypeOK
    <2> QED
      BY <1>0, <2>2, <2>3
  <1>3. CASE parseIPv6
    <2>1. /\ At(offset + 6) \in Byte
          /\ Bytes(offset + 8, 16) \in Seq(Byte) /\ Bytes(offset + 24, 16) \in Seq(Byte)
      <3>1. offset + 6 \in Nat /\ offset + 8 \in Nat /\ offset + 24 \in Nat
        BY <1>r
      <3> QED
        BY <1>r, <3>1, FieldsTyped, Zenon
    <2>2. \/ UNCHANGED <<next_hdr, count, parsed>>
          \/ /\ parsed' = [parsed EXCEPT !.ip_version = 6,
                                         !.src = Bytes(offset + 8, 16),
                                         !.dst = Bytes(offset + 24, 16)]
             /\ next_hdr' = At(offset + 6) /\ count' = 0
      BY <1>3 DEF parseIPv6, Reject
    <2>3. CASE /\ parsed' = [parsed EXCEPT !.ip_version = 6,
                                           !.src = Bytes(offset + 8, 16),
                                           !.dst = Bytes(offset + 24, 16)]
               /\ next_hdr' = At(offset + 6) /\ count' = 0
      <3>1. parsed' \in ParsedPacket
        BY <1>r, <1>b, <2>1, <2>3, Zenon DEF ParsedPacket
      <3>2. 0 \in 0..MAX_EXT_HEADERS
        BY <1>r
      <3> QED
        BY <1>n, <2>1, <2>3, <3>1, <3>2 DEF ParserTypeOK
    <2> QED
      BY <1>0, <2>2, <2>3
  <1>f. ASSUME next_hdr \in ExtHeader PROVE Flagged \in ParsedPacket
    BY <1>f, <1>r, <1>e, Zenon DEF Flagged, ParsedPacket
  <1>u. ASSUME NEW read, NEW skipped, next_hdr \in ExtHeader, Unsupported(read, skipped)
        PROVE  ParserTypeOK'
    <2>1. Flagged \in ParsedPacket
      BY <1>u, <1>f
    <2>2. /\ parsed' = [Flagged EXCEPT !.ext_unsupported = TRUE,
                                       !.protocol = IPV6_NO_NEXT_HDR]
          /\ UNCHANGED <<next_hdr, count>>
      BY <1>u DEF Unsupported
    <2>3. parsed' \in ParsedPacket
      BY <1>b, <2>1, <2>2, Zenon DEF ParsedPacket
    <2> QED
      BY <1>r, <1>n, <2>2, <2>3 DEF ParserTypeOK
  <1>x. ASSUME NEW read, NEW length, Walking, NextHeader(read, length)
        PROVE  ParserTypeOK'
    <2>1. parsed' = Flagged /\ next_hdr' = At(offset) /\ count' = count + 1
      BY <1>x DEF NextHeader
    <2>2. next_hdr \in ExtHeader /\ count < MAX_EXT_HEADERS
      BY <1>x DEF Walking
    <2>3. count' \in 0..MAX_EXT_HEADERS
      BY <1>r, <2>1, <2>2
    <2>4. next_hdr' \in Byte
      BY <1>r, <2>1, FieldsTyped
    <2> QED
      BY <1>n, <1>f, <2>1, <2>2, <2>3, <2>4 DEF ParserTypeOK
  <1>4. CASE walkFragment
    BY <1>4, <1>u, <1>x DEF walkFragment, Walking
  <1>5. CASE walkVariable
    BY <1>5, <1>u, <1>x DEF walkVariable, Walking
  <1>6. CASE walkEnd
    <2>1. parsed' = [parsed EXCEPT !.protocol = next_hdr] /\ UNCHANGED <<next_hdr, count>>
      BY <1>6 DEF walkEnd
    <2>2. parsed' \in ParsedPacket
      BY <1>r, <1>b, <2>1, Zenon DEF ParsedPacket
    <2> QED
      BY <1>r, <1>n, <2>1, <2>2 DEF ParserTypeOK
  <1>7. CASE parseTCP
    <2> DEFINE next == [parsed EXCEPT !.transport = "tcp",
                                      !.src_port = NetToHost16(offset),
                                      !.dest_port = NetToHost16(offset + 2),
                                      !.seq_number = Bytes(offset + 4, 4),
                                      !.tcp_flags = At(offset + 13)]
    <2>1. /\ NetToHost16(offset) \in PortNumber /\ NetToHost16(offset + 2) \in PortNumber
          /\ Bytes(offset + 4, 4) \in Seq(Byte) /\ At(offset + 13) \in Byte
      <3>1. offset + 2 \in Nat /\ offset + 4 \in Nat /\ offset + 13 \in Nat
        BY <1>r
      <3> QED
        BY <1>r, <3>1, FieldsTyped, Zenon
    <2>2. \/ UNCHANGED <<next_hdr, count, parsed>>
          \/ parsed' = next /\ UNCHANGED <<next_hdr, count>>
      BY <1>7 DEF parseTCP, Reject
    <2>3. next \in ParsedPacket
      BY <1>r, <1>b, <2>1, Zenon DEF ParsedPacket
    <2> HIDE DEF next
    <2> QED
      BY <1>0, <1>r, <1>n, <2>2, <2>3 DEF ParserTypeOK
  <1>8. CASE parseUDP
    <2> DEFINE next == [parsed EXCEPT !.transport = "udp",
                                      !.src_port = NetToHost16(offset),
                                      !.dest_port = NetToHost16(offset + 2)]
    <2>1. NetToHost16(offset) \in PortNumber /\ NetToHost16(offset + 2) \in PortNumber
      <3>1. offset + 2 \in Nat
        BY <1>r
      <3> QED
        BY <1>r, <3>1, FieldsTyped, Zenon
    <2>2. \/ UNCHANGED <<next_hdr, count, parsed>>
          \/ parsed' = next /\ UNCHANGED <<next_hdr, count>>
      BY <1>8 DEF parseUDP, Reject
    <2>3. next \in ParsedPacket
      BY <1>r, <1>b, <2>1, Zenon DEF ParsedPacket
    <2> HIDE DEF next
    <2> QED
      BY <1>0, <1>r, <1>n, <2>2, <2>3 DEF ParserTypeOK
  <1>9. CASE parseICMP
    <2>1. \/ UNCHANGED <<next_hdr, count, parsed>>
          \/ /\ parsed' = [parsed EXCEPT !.transport = pc] /\ pc \in {"icmp", "icmpv6"}
             /\ UNCHANGED <<next_hdr, count>>
      BY <1>9 DEF parseICMP, Reject
    <2>2. CASE /\ parsed' = [parsed EXCEPT !.transport = pc] /\ pc \in {"icmp", "icmpv6"}
               /\ UNCHANGED <<next_hdr, count>>
      <3>1. parsed' \in ParsedPacket
        BY <1>r, <1>b, <2>2, Zenon DEF ParsedPacket
      <3> QED
        BY <1>r, <1>n, <2>2, <3>1 DEF ParserTypeOK
    <2> QED
      BY <1>0, <2>1, <2>2
  <1>10. CASE setPayload
    <2> DEFINE length == IF offset < Len(raw) THEN Len(raw) - offset ELSE 0
    <2>1. parsed' = [parsed EXCEPT !.payload_length = length]
          /\ UNCHANGED <<next_hdr, count>>
      BY <1>10 DEF setPayload
    <2>2. length \in Nat
      <3>1. Len(raw) \in Nat
        BY <1>r
      <3> QED
        BY <1>r, <3>1
    <2> HIDE DEF length
    <2>3. parsed' \in ParsedPacket
      BY <1>r, <2>1, <2>2, Zenon DEF ParsedPacket
    <2> QED
      BY <1>r, <1>n, <2>1, <2>3 DEF ParserTypeOK
  <1> QED
    BY <1>1, <1>2, <1>3, <1>4, <1>5, <1>6, <1>7, <1>8, <1>9, <1>10 DEF parse

-----------------------------------------------------------------------------
(* The types of what inspectPayload works with                               *)

InspectTyped == /\ job \in [payload_offset : Nat, payload_length : Nat]
                /\ payload \in Seq(Byte)
                /\ cursor \in Nat
                /\ jumps \in 0..MAX_JUMPS
                /\ domain \in Seq(Char)
                /\ class.names \subseteq Seq(Char)

\* createPacketJob computes a place in the frame, and the bytes behind it.
LEMMA JobTyped ==
  ASSUME InspectTyped, FrameInv, createPacketJob
  PROVE  InspectTyped'
  <1> DEFINE o == payload_offset
             length == IF Len(raw) > 14 /\ o < Len(raw) THEN Len(raw) - o ELSE 0
  <1>1. raw \in Seq(Byte) /\ Len(raw) \in Nat
    BY DEF FrameInv
  <1>2. o \in Nat
    <2>1. transport_offset \in Nat /\ transport_offset + 12 \in Nat
      <3>1. LowNibble(14) \in Nat
        BY FieldsTyped, 14 \in Nat, Zenon
      <3> QED
        BY <3>1 DEF transport_offset
    <2>2. HighNibble(transport_offset + 12) \in Nat
      BY <2>1, FieldsTyped, Zenon
    <2>3. /\ transport_offset + 4 * HighNibble(transport_offset + 12) \in Nat
          /\ transport_offset + 8 \in Nat
      BY <2>1, <2>2
    <2> QED
      BY <2>3, Zenon DEF payload_offset, readsDataOffset
  <1> HIDE DEF o
  <1>3. length \in Nat /\ (length = 0 \/ o + length <= Len(raw))
    BY <1>1, <1>2
  <1>4. /\ job' = [payload_offset |-> o, payload_length |-> length]
        /\ payload' = SubSeq(raw, o + 1, o + length)
        /\ UNCHANGED <<cursor, jumps, domain, class>>
    BY DEF createPacketJob, o
  <1> HIDE DEF length
  <1>5. payload' \in Seq(Byte)
    <2>1. CASE length = 0
      <3>1. /\ o + 1 \in Int /\ o + length \in Int
            /\ \A k \in (o + 1)..(o + length) : raw[k] \in Byte
        BY <1>2, <2>1
      <3>2. SubSeq(raw, o + 1, o + length) \in Seq(Byte)
        BY <3>1, SubSeqProperties, Zenon
      <3> QED
        BY <1>4, <3>2
    <2>2. CASE o + length <= Len(raw)
      BY <1>1, <1>2, <1>3, <1>4, <2>2, PartOfBytes
    <2> QED
      BY <1>3, <2>1, <2>2
  <1> QED
    BY <1>2, <1>3, <1>4, <1>5 DEF InspectTyped

\* The ways out of inspectPayload.
LEMMA ClassifyTyped ==
  ASSUME InspectTyped, NEW c, c.names \subseteq Seq(Char), Classify(c)
  PROVE  InspectTyped'
  BY DEF Classify, InspectTyped

LEMMA NamesOfClasses ==
  /\ NotClassified.names = {}
  /\ \A app : Nameless(app).names = {}
  /\ \A app, name : Named(app, name).names = {name}
  BY DEF NotClassified, Nameless, Named

LEMMA FoundTyped ==
  ASSUME InspectTyped, NEW name \in Seq(Char), Found(name)
  PROVE  InspectTyped'
  <1>1. class'.names = {name}
    BY NamesOfClasses DEF Found
  <1> QED
    BY <1>1 DEF Found, InspectTyped

LEMMA ByNameTyped ==
  ASSUME InspectTyped, NEW names \in SUBSET Seq(Char),
         NEW c, c.names = {}, ByName(names, c)
  PROVE  InspectTyped'
  <1>1. c.names \subseteq Seq(Char)
    OBVIOUS
  <1> QED
    BY <1>1, ClassifyTyped, FoundTyped DEF ByName

LEMMA InspectKeepsTypes ==
  ASSUME InspectTyped, memory \in Memories, Inspect
  PROVE  InspectTyped'
  <1>0. /\ NotClassified.names \subseteq Seq(Char)
        /\ \A app : Nameless(app).names \subseteq Seq(Char)
    BY NamesOfClasses
  <1>p. payload \in Seq(Byte) /\ 0 \in Nat /\ 12 \in Nat
    BY DEF InspectTyped
  <1>1. CASE inspectNothing
    BY <1>0, <1>1, ClassifyTyped DEF inspectNothing
  <1>2. CASE inspectDNS
    <2>1. CASE Classify(NotClassified)
      BY <1>0, <2>1, ClassifyTyped
    <2>2. CASE /\ cursor' = 12 /\ jumps' = 0 /\ domain' = <<>>
               /\ UNCHANGED <<job, payload, class>>
      <3>1. 0 \in 0..MAX_JUMPS
        BY InspectionAssumption
      <3> QED
        BY <2>2, <3>1 DEF InspectTyped
    <2> QED
      BY <1>2, <2>1, <2>2 DEF inspectDNS
  <1>3. CASE inspectQUIC
    BY <1>0, <1>3, <1>p, QUICTyped, ByNameTyped, ClassifyTyped, NamesOfClasses
       DEF inspectQUIC
  <1>4. CASE inspectHTTP
    <2>1. CASE Classify(Nameless("HTTP"))
      BY <1>0, <2>1, ClassifyTyped
    <2>2. CASE cursor' = 0 /\ UNCHANGED <<job, payload, jumps, domain, class>>
      BY <2>2 DEF InspectTyped
    <2> QED
      BY <1>4, <2>1, <2>2 DEF inspectHTTP
  <1>5. CASE inspectTLS
    BY <1>5, <1>p, HelloTyped, ByNameTyped, NamesOfClasses DEF inspectTLS
  <1>6. CASE classifyByName
    <2>1. PICK name \in class.names : Classify(Named(sniToAppType(name), name))
      BY <1>6 DEF classifyByName
    <2>2. Named(sniToAppType(name), name).names \subseteq Seq(Char)
      <3>1. name \in Seq(Char)
        BY DEF InspectTyped
      <3>2. Named(sniToAppType(name), name).names = {name}
        BY NamesOfClasses, Zenon
      <3> QED
        BY <3>1, <3>2
    <2> QED
      BY <2>1, <2>2, ClassifyTyped
  <1> QED
    BY <1>1, <1>2, <1>3, <1>4, <1>5, <1>6 DEF Inspect

\* What extractHost finds lies in the payload, and so does the place behind it.
LEMMA HostKeepsTypes ==
  ASSUME InspectTyped, memory \in Memories, extractHost
  PROVE  InspectTyped'
  <1>p. payload \in Seq(Byte) /\ Len(payload) \in Nat /\ cursor \in Nat
    BY DEF InspectTyped
  <1>1. CASE findHostLine
    <2>1. CASE Classify(Nameless("HTTP"))
      <3>1. Nameless("HTTP").names \subseteq Seq(Char)
        BY NamesOfClasses
      <3> QED
        BY <2>1, <3>1, ClassifyTyped
    <2>2. CASE /\ hostLines # {}
               /\ cursor' = FirstOf(payload, Min(hostLines) + 6, Byte \ Blank)
               /\ UNCHANGED <<job, payload, jumps, domain, class>>
      <3>1. hostLines \subseteq Nat
        BY <1>p DEF hostLines
      <3>2. Min(hostLines) \in hostLines
        BY <2>2, <3>1, LeastNumber
      <3>3. Min(hostLines) \in Nat /\ Min(hostLines) + 6 < Len(payload)
        BY <3>1, <3>2 DEF hostLines, isHostLine
      <3>4. Min(hostLines) + 6 \in Nat /\ Min(hostLines) + 6 <= Len(payload)
        BY <1>p, <3>3
      <3>5. FirstOf(payload, Min(hostLines) + 6, Byte \ Blank)
               \in (Min(hostLines) + 6)..Len(payload)
        BY <1>p, <3>4, FirstOfTyped
      <3>6. cursor' \in Nat
        BY <2>2, <3>4, <3>5
      <3> QED
        BY <2>2, <3>6 DEF InspectTyped
    <2> QED
      BY <1>1, <2>1, <2>2 DEF findHostLine
  <1>2. CASE readHost
    <2>1. PICK end \in cursor..Len(payload) :
             \/ UNCHANGED <<cursor, job, payload, jumps, domain, class>>
             \/ /\ end > cursor
                /\ LET n == Min({FirstOf(payload, cursor, {Colon}), end})
                   IN  Found(Stretch(payload, cursor, n - cursor))
      BY <1>2 DEF readHost
    <2>2. CASE UNCHANGED <<cursor, job, payload, jumps, domain, class>>
      BY <2>2 DEF InspectTyped
    <2>3. CASE /\ end > cursor
               /\ LET n == Min({FirstOf(payload, cursor, {Colon}), end})
                  IN  Found(Stretch(payload, cursor, n - cursor))
      <3> DEFINE f == FirstOf(payload, cursor, {Colon})
                 n == Min({f, end})
      <3>1. cursor <= Len(payload)
        BY <1>p
      <3>2. f \in cursor..Len(payload)
        BY <1>p, <3>1, FirstOfTyped
      <3> HIDE DEF f
      <3>3. {f, end} \subseteq Nat /\ {f, end} # {}
        BY <1>p, <3>2
      <3>4. n \in {f, end}
        BY <3>3, LeastNumber
      <3>5. Found(Stretch(payload, cursor, n - cursor))
        BY <2>3 DEF f
      <3> HIDE DEF n
      <3>6. n - cursor \in Nat
        BY <1>p, <3>2, <3>4
      <3>7. Stretch(payload, cursor, n - cursor) \in Seq(Char)
        BY <1>p, <3>6, StretchTyped
      <3> QED
        BY <3>5, <3>7, FoundTyped
    <2> QED
      BY <2>1, <2>2, <2>3
  <1> QED
    BY <1>1, <1>2 DEF extractHost

\* readDomainName goes on in the payload, and adds characters to the name.
LEMMA DomainKeepsTypes ==
  ASSUME InspectTyped, memory \in Memories, readDomainName
  PROVE  InspectTyped'
  <1>p. payload \in Seq(Byte) /\ Len(payload) \in Nat /\ cursor \in Nat
    BY DEF InspectTyped
  <1>h. Here \in Nat /\ cursor + 1 \in Nat
    <2>1. ByteAt(payload, cursor) \in Nat
      BY <1>p, PayloadNumbers, Zenon
    <2>2. cursor + 1 \in Nat
      BY <1>p
    <2> QED
      BY <2>1, <2>2, Zenon DEF Here
  <1>0. /\ NotClassified.names \subseteq Seq(Char)
        /\ Named("DNS", domain).names \subseteq Seq(Char)
    <2>1. domain \in Seq(Char)
      BY DEF InspectTyped
    <2> QED
      BY <2>1, NamesOfClasses
  <1>1. CASE endOfName
    <2> DEFINE c == IF domain = <<>> THEN NotClassified ELSE Named("DNS", domain)
    <2>1. Classify(c)
      BY <1>1 DEF endOfName
    <2>2. c.names \subseteq Seq(Char)
      BY <1>0
    <2> HIDE DEF c
    <2> QED
      BY <2>1, <2>2, ClassifyTyped
  <1>2. CASE followPointer
    <2> DEFINE ptr == 256 * (Here - 192) + ByteAt(payload, cursor + 1)
    <2>1. \/ Classify(NotClassified)
          \/ /\ ptr \in 12..(Len(payload) - 1) /\ jumps < MAX_JUMPS
             /\ cursor' = ptr /\ jumps' = jumps + 1
             /\ UNCHANGED <<job, payload, domain, class>>
      BY <1>2 DEF followPointer
    <2> HIDE DEF ptr
    <2>2. CASE /\ ptr \in 12..(Len(payload) - 1) /\ jumps < MAX_JUMPS
               /\ cursor' = ptr /\ jumps' = jumps + 1
               /\ UNCHANGED <<job, payload, domain, class>>
      <3>1. jumps' \in 0..MAX_JUMPS /\ cursor' \in Nat
        BY <1>p, <2>2, InspectionAssumption DEF InspectTyped
      <3> QED
        BY <2>2, <3>1 DEF InspectTyped
    <2> QED
      BY <1>0, <2>1, <2>2, ClassifyTyped
  <1>3. CASE readLabel
    <2> DEFINE label == Stretch(payload, cursor + 1, Here)
    <2>1. label \in Seq(Char)
      BY <1>p, <1>h, StretchTyped
    <2>2. \/ Classify(NotClassified)
          \/ /\ domain' = IF domain = <<>> THEN label ELSE domain \o <<Dot>> \o label
             /\ cursor' = cursor + 1 + Here
             /\ UNCHANGED <<job, payload, jumps, class>>
      BY <1>3 DEF readLabel
    <2> HIDE DEF label
    <2>3. CASE /\ domain' = IF domain = <<>> THEN label ELSE domain \o <<Dot>> \o label
               /\ cursor' = cursor + 1 + Here
               /\ UNCHANGED <<job, payload, jumps, class>>
      <3>1. domain' \in Seq(Char)
        <4>1. domain \in Seq(Char) /\ <<Dot>> \in Seq(Char)
          BY CharAssumption DEF InspectTyped
        <4>2. domain \o <<Dot>> \in Seq(Char)
          BY <4>1, ConcatProperties
        <4>3. domain \o <<Dot>> \o label \in Seq(Char)
          BY <2>1, <4>2, ConcatProperties
        <4> QED
          BY <2>1, <2>3, <4>3
      <3>2. cursor' \in Nat
        BY <1>p, <1>h, <2>3
      <3> QED
        BY <2>3, <3>1, <3>2 DEF InspectTyped
    <2> QED
      BY <1>0, <2>2, <2>3, ClassifyTyped
  <1> QED
    BY <1>1, <1>2, <1>3 DEF readDomainName

LEMMA StepKeepsInspect ==
  ASSUME InspectTyped, FrameInv, [Next]_vars
  PROVE  InspectTyped'
  <1>0. ASSUME UNCHANGED inspectVars PROVE InspectTyped'
    BY <1>0 DEF inspectVars, InspectTyped
  <1>1. CASE Read
    <2>1. CASE /\ job' = NoJob /\ payload' = <<>>
               /\ cursor' = 0 /\ jumps' = 0 /\ domain' = <<>>
               /\ class' = NotClassified
      BY <2>1, InspectionAssumption, NamesOfClasses DEF InspectTyped, NoJob
    <2> QED
      BY <1>0, <1>1, <2>1 DEF Read
  <1>2. CASE Open \/ Parse \/ Output \/ UNCHANGED vars
    BY <1>0, <1>2 DEF Open, Parse, Output, vars
  <1>3. memory \in Memories
    BY DEF FrameInv
  <1> QED
    BY <1>1, <1>2, <1>3, JobTyped, InspectKeepsTypes, HostKeepsTypes, DomainKeepsTypes
       DEF Next, Step, Finished

\* Where a packet can be on its way.
Places == {"open", "read", "parsed", "inspect", "host", "value", "dns", "classify",
           "done", "rejected", "end", "not_ipv4"} \cup Headers

LEMMA StepKeepsPlace ==
  ASSUME pc \in Places, [Next]_vars
  PROVE  pc' \in Places
  <1>0. ASSUME NEW c, Classify(c) PROVE pc' \in Places
    BY <1>0 DEF Classify, Places
  <1>00. ASSUME NEW name, Found(name) PROVE pc' \in Places
    BY <1>00 DEF Found, Places
  <1>1. CASE Open
    BY <1>1 DEF Open, Places
  <1>2. CASE Read
    BY <1>2 DEF Read, beginParse, Places, Headers
  <1>3. CASE Parse
    BY <1>3, ParsePlaces DEF Parse, Places
  <1>4. CASE createPacketJob
    BY <1>4 DEF createPacketJob, Places
  <1>5. CASE Inspect
    BY <1>0, <1>00, <1>5 DEF Inspect, inspectNothing, inspectDNS, inspectQUIC,
       inspectHTTP, inspectTLS, classifyByName, ByName, Places
  <1>6. CASE extractHost
    BY <1>0, <1>00, <1>6 DEF extractHost, findHostLine, readHost, Places
  <1>7. CASE readDomainName
    BY <1>0, <1>7 DEF readDomainName, endOfName, followPointer, readLabel, Places
  <1>8. CASE Output
    BY <1>8 DEF Output, Places
  <1>9. CASE UNCHANGED vars
    BY <1>9 DEF vars
  <1> QED
    BY <1>1, <1>2, <1>3, <1>4, <1>5, <1>6, <1>7, <1>8, <1>9 DEF Next, Step, Finished

LEMMA EmptyTyped ==
  EmptyPacket \in ParsedPacket
  <1>1. 0 \in IPVersion /\ "none" \in Transport
    BY DEF IPVersion, Transport
  <1>2. 0 \in Byte /\ <<>> \in Seq(Byte) /\ 0 \in Nat
    BY DEF Byte
  <1>3. 0 \in PortNumber
    <2>1. MaxPort \in Nat
      BY DEF MaxPort
    <2> QED
      BY <2>1 DEF PortNumber
  <1>4. {} \in SUBSET ExtHeader /\ FALSE \in BOOLEAN
    OBVIOUS
  <1> QED
    BY <1>1, <1>2, <1>3, <1>4, Zenon DEF EmptyPacket, ParsedPacket

LEMMA StepKeepsParser ==
  ASSUME ParserTypeOK, IInv, [Next]_vars
  PROVE  ParserTypeOK'
  <1>0. ASSUME UNCHANGED frameVars PROVE ParserTypeOK'
    BY <1>0 DEF frameVars, ParserTypeOK
  <1>1. CASE Parse
    BY <1>1, ParseKeepsTypes DEF Parse, IInv, readerVars
  <1>2. CASE Read
    <2>1. CASE beginParse(record'.data)
      <3>1. IInv'
        BY <1>2, ReadKeepsTypes
      <3>2. EmptyPacket \in ParsedPacket
        BY EmptyTyped
      <3>3. 0 \in Byte /\ 0 \in 0..MAX_EXT_HEADERS
        BY ParserAssumption DEF Byte
      <3> QED
        BY <2>1, <3>1, <3>2, <3>3 DEF beginParse, ParserTypeOK, IInv, FrameInv
    <2> QED
      BY <1>0, <1>2, <2>1 DEF Read
  <1>3. CASE UNCHANGED frameVars
    BY <1>0, <1>3
  <1>j. CASE createPacketJob
    <2>1. IInv'
      BY StepKeepsTypes
    <2>2. UNCHANGED <<raw, offset, next_hdr, count, parsed>>
      BY <1>j DEF createPacketJob
    <2> QED
      BY <2>1, <2>2 DEF ParserTypeOK, IInv, FrameInv
  <1>4. \/ Open \/ Output \/ Inspect \/ extractHost
        \/ readDomainName \/ UNCHANGED vars
        => UNCHANGED frameVars
    BY DEF Open, Output, Inspect, inspectNothing, inspectDNS,
           inspectQUIC, inspectHTTP, inspectTLS, classifyByName, ByName, Found,
           Classify, extractHost, findHostLine, readHost, readDomainName,
           endOfName, followPointer, readLabel, vars
  <1> QED
    BY <1>1, <1>2, <1>3, <1>j, <1>4 DEF Next, Step, Finished

\* Everything the steps keep, whatever the input file.
TypeInv == /\ IInv /\ OutputInv
           /\ ParserTypeOK /\ InspectTyped
           /\ id \in Nat
           /\ pc \in Places

LEMMA TypesAtFirst ==
  ASSUME Init
  PROVE  TypeInv
  <1>1. IInv
    BY InspectionAssumption DEF Init, FileInit, ParserInit, IInv, FileTyped, FrameInv
  <1>2. pc = "open" /\ output = <<>> /\ forwarded = <<>>
    BY DEF Init, FileInit
  <1>3. output \in Seq(Byte)
    BY <1>2
  <1>4. OutputInv
    BY <1>2, <1>3 DEF OutputInv
  <1>5. ParserTypeOK
    <2>1. 0 \in Byte /\ 0 \in 0..MAX_EXT_HEADERS
      BY ParserAssumption DEF Byte
    <2> QED
      BY <1>1, <2>1, EmptyTyped DEF Init, ParserInit, ParserTypeOK, IInv, FrameInv
  <1>6. InspectTyped
    BY InspectionAssumption, NamesOfClasses DEF Init, InspectTyped, NoJob
  <1> QED
    BY <1>1, <1>2, <1>4, <1>5, <1>6 DEF Init, TypeInv, Places

LEMMA StepKeepsTypeInv ==
  ASSUME TypeInv, [Next]_vars
  PROVE  TypeInv'
  <1>1. IInv' /\ OutputInv' /\ ParserTypeOK'
    BY StepKeepsTypes, StepKeepsOutput, StepKeepsParser DEF TypeInv
  <1>2. InspectTyped' /\ pc' \in Places
    BY StepKeepsInspect, StepKeepsPlace DEF TypeInv, IInv
  <1>3. id' \in Nat
    <2>1. id \in Nat
      BY DEF TypeInv
    <2>2. id' = id + 1 \/ id' = id
      BY DEF Next, Step, Finished, Open, Read, Parse, Output, createPacketJob,
             Inspect, inspectNothing, inspectDNS, inspectQUIC, inspectHTTP,
             inspectTLS, classifyByName, ByName, Found, Classify, extractHost,
             findHostLine, readHost, readDomainName, endOfName, followPointer,
             readLabel, readerVars, vars
    <2> QED
      BY <2>1, <2>2
  <1> QED
    BY <1>1, <1>2, <1>3 DEF TypeInv

\* Whatever the bytes of the input file, and whatever bytes lie behind a packet
\* where createPacketJob or the walk over a hello reads behind its end, every
\* variable keeps its type: the lengths and places that are computed are natural
\* numbers, and what is found is text.
THEOREM InspectionTypeCorrect ==
  Spec => []TypeOK
  <1>1. Init => TypeInv
    BY TypesAtFirst
  <1>2. TypeInv /\ [Next]_vars => TypeInv'
    BY StepKeepsTypeInv
  <1>3. TypeInv => TypeOK
    <2> SUFFICES ASSUME TypeInv PROVE TypeOK
      OBVIOUS
    <2>1. /\ position \in Nat /\ id \in Nat /\ output \in Seq(Byte) /\ ParserTypeOK
          /\ memory \in Memories
      BY DEF TypeInv, IInv, FileTyped, FrameInv, OutputInv
    <2>2. InspectTyped /\ pc \in Places
      BY DEF TypeInv
    <2>3. pc \in {"open", "read", "ethernet", "ipv4", "ipv6", "walk", "tcp",
                  "udp", "icmp", "icmpv6", "payload", "parsed", "rejected",
                  "inspect", "host", "value", "dns", "classify", "done"}
                 \cup Ended
      BY <2>2 DEF Places, Headers, Ended
    <2> QED
      BY <2>1, <2>2, <2>3 DEF TypeOK, InspectTyped
  <1> QED
    BY <1>1, <1>2, <1>3, PTL DEF Spec

-----------------------------------------------------------------------------
(* What createPacketJob relies on the parser for                             *)

InBounds == reach <= Len(raw) \/ ReadsBehindIPv6

\* A TCP header is within the frame, and behind an IPv6 header or where
\* createPacketJob looks for it.
JobPlace ==
  /\ pc \in {"ipv4", "ipv6"} => offset = 14
  /\ pc = "walk" => parsed.ip_version = 6 /\ offset >= 54
  /\ pc \in Headers \ {"payload"} => parsed.transport = "none"
  /\ pc = "tcp" => \/ parsed.ip_version = 6 /\ offset >= 54
                   \/ parsed.ip_version = 4 /\ offset = transport_offset
  /\ pc \in {"payload", "parsed"} /\ parsed.transport = "tcp" =>
        \/ parsed.ip_version = 6 /\ Len(raw) >= 74
        \/ parsed.ip_version = 4 /\ transport_offset + 20 <= Len(raw)

LEMMA SameTransportOffset ==
  ASSUME UNCHANGED <<memory, raw>>
  PROVE  /\ transport_offset' = transport_offset /\ Len(raw') = Len(raw)
         /\ LowNibble(14)' = LowNibble(14)
  BY DEF transport_offset, LowNibble, At, ByteAt

\* Wherever the parser is.
LEMMA ParseKeepsPlace ==
  ASSUME ParserTypeOK, FrameInv, JobPlace, UNCHANGED memory, parse
  PROVE  JobPlace'
  <1>n. Len(raw) \in Nat /\ offset \in Nat /\ parsed \in ParsedPacket
    BY DEF FrameInv, ParserTypeOK
  <1>t. \A version, protocol :
           /\ transportOf(version, protocol) \in {"tcp", "udp", "icmp", "icmpv6", "payload"}
    BY DEF transportOf
  <1>r. ASSUME NEW n, Reject(n) PROVE JobPlace'
    BY <1>r DEF Reject, JobPlace, Headers
  <1>1. CASE parseEthernet
    <2>1. \/ Reject(0)
          \/ offset' = 14 /\ pc' \in {"ipv4", "ipv6", "payload"} /\ parsed' = parsed
      BY <1>1 DEF parseEthernet
    <2>2. parsed.transport = "none"
      BY <1>1 DEF parseEthernet, JobPlace, Headers
    <2> QED
      BY <1>r, <2>1, <2>2 DEF JobPlace
  <1>2. CASE parseIPv4
    <2> DEFINE next == [parsed EXCEPT !.ip_version = 4,
                                      !.protocol = At(offset + 9),
                                      !.src = Bytes(offset + 12, 4),
                                      !.dst = Bytes(offset + 16, 4)]
    <2>1. \/ Reject(0) \/ Reject(1)
          \/ /\ parsed' = next /\ offset' = offset + 4 * LowNibble(offset) /\ raw' = raw
             /\ pc' \in {"tcp", "udp", "icmp", "icmpv6", "payload"}
      BY <1>2, <1>t DEF parseIPv4
    <2>2. offset = 14 /\ parsed.transport = "none"
      BY <1>2 DEF parseIPv4, JobPlace, Headers
    <2>3. next.ip_version = 4 /\ next.transport = "none"
      BY <1>n, <2>2, Zenon DEF ParsedPacket
    <2> HIDE DEF next
    <2>4. CASE /\ parsed' = next /\ offset' = offset + 4 * LowNibble(offset) /\ raw' = raw
               /\ pc' \in {"tcp", "udp", "icmp", "icmpv6", "payload"}
      <3>1. offset' = transport_offset
        BY <2>2, <2>4 DEF transport_offset
      <3>2. transport_offset' = transport_offset
        BY <2>4, SameTransportOffset
      <3> QED
        BY <2>3, <2>4, <3>1, <3>2 DEF JobPlace
    <2> QED
      BY <1>r, <2>1, <2>4
  <1>3. CASE parseIPv6
    <2> DEFINE next == [parsed EXCEPT !.ip_version = 6,
                                      !.src = Bytes(offset + 8, 16),
                                      !.dst = Bytes(offset + 24, 16)]
    <2>1. \/ Reject(0) \/ Reject(1)
          \/ parsed' = next /\ offset' = offset + 40 /\ pc' = "walk"
      BY <1>3 DEF parseIPv6
    <2>2. parsed.transport = "none" /\ offset = 14
      BY <1>3 DEF parseIPv6, JobPlace, Headers
    <2>3. next.ip_version = 6 /\ next.transport = "none"
      BY <1>n, <2>2, Zenon DEF ParsedPacket
    <2> HIDE DEF next
    <2> QED
      BY <1>r, <2>1, <2>2, <2>3 DEF JobPlace
  <1>f. ASSUME pc = "walk"
        PROVE  /\ Flagged.ip_version = 6 /\ Flagged.transport = "none"
               /\ Flagged = [Flagged EXCEPT !.ip_version = 6]
    <2>1. parsed.ip_version = 6 /\ parsed.transport = "none"
      BY <1>f DEF JobPlace, Headers
    <2> QED
      BY <1>n, <2>1 DEF ParsedPacket, Flagged
  <1>u. ASSUME NEW read, NEW skipped, pc = "walk", Unsupported(read, skipped)
        PROVE  JobPlace'
    <2>1. parsed' = [Flagged EXCEPT !.ext_unsupported = TRUE, !.protocol = IPV6_NO_NEXT_HDR]
          /\ pc' = "payload"
      BY <1>u DEF Unsupported
    <2>2. parsed'.ip_version = 6 /\ parsed'.transport = "none"
      BY <1>n, <1>u, <1>f, <2>1 DEF Flagged, ParsedPacket
    <2> QED
      BY <2>1, <2>2 DEF JobPlace
  <1>x. ASSUME NEW read, NEW length \in Nat, pc = "walk", NextHeader(read, length)
        PROVE  JobPlace'
    <2>1. offset >= 54 /\ offset' = offset + length
      BY <1>x DEF NextHeader, JobPlace
    <2>2. parsed' = Flagged /\ pc' = "walk"
      BY <1>x DEF NextHeader
    <2>3. parsed'.ip_version = 6 /\ parsed'.transport = "none"
      BY <1>x, <1>f, <2>2
    <2>4. offset' >= 54
      BY <1>n, <2>1
    <2> QED
      BY <2>2, <2>3, <2>4 DEF JobPlace
  <1>4. CASE walkFragment
    BY <1>4, <1>u, <1>x DEF walkFragment
  <1>5. CASE walkVariable
    <2>1. offset + 1 \in Nat
      BY <1>n
    <2>2. At(offset + 1) \in 0..255
      BY <2>1, ByteTyped, Zenon
    <2>3. extLength \in Nat
      BY <2>2 DEF extLength
    <2> QED
      BY <1>5, <1>u, <1>x, <2>3 DEF walkVariable
  <1>6. CASE walkEnd
    <2> DEFINE next == [parsed EXCEPT !.protocol = next_hdr]
    <2>1. /\ parsed' = next /\ offset' = offset
          /\ pc' \in {"tcp", "udp", "icmp", "icmpv6", "payload"}
      BY <1>6, <1>t DEF walkEnd
    <2>2. parsed.ip_version = 6 /\ parsed.transport = "none" /\ offset >= 54
      BY <1>6 DEF walkEnd, JobPlace, Headers
    <2>3. next.ip_version = 6 /\ next.transport = "none"
      BY <1>n, <2>2, Zenon DEF ParsedPacket
    <2> HIDE DEF next
    <2> QED
      BY <2>1, <2>2, <2>3 DEF JobPlace
  <1>7. CASE parseTCP
    <2> DEFINE next == [parsed EXCEPT !.transport = "tcp",
                                      !.src_port = NetToHost16(offset),
                                      !.dest_port = NetToHost16(offset + 2),
                                      !.seq_number = Bytes(offset + 4, 4),
                                      !.tcp_flags = At(offset + 13)]
    <2>1. \/ Reject(0) \/ Reject(13)
          \/ Fits(20) /\ parsed' = next /\ pc' = "payload" /\ raw' = raw
      BY <1>7 DEF parseTCP
    <2>2. \/ parsed.ip_version = 6 /\ offset >= 54
          \/ parsed.ip_version = 4 /\ offset = transport_offset
      BY <1>7 DEF parseTCP, JobPlace
    <2>3. next.ip_version = parsed.ip_version
      BY <1>n, Zenon DEF ParsedPacket
    <2> HIDE DEF next
    <2>4. CASE Fits(20) /\ parsed' = next /\ pc' = "payload" /\ raw' = raw
      <3>1. offset + 20 <= Len(raw)
        BY <2>4 DEF Fits
      <3>2. transport_offset' = transport_offset /\ Len(raw') = Len(raw)
        BY <2>4, SameTransportOffset
      <3> QED
        BY <1>n, <2>2, <2>3, <2>4, <3>1, <3>2 DEF JobPlace
    <2> QED
      BY <1>r, <2>1, <2>4
  <1>8. CASE parseUDP
    <2> DEFINE next == [parsed EXCEPT !.transport = "udp",
                                      !.src_port = NetToHost16(offset),
                                      !.dest_port = NetToHost16(offset + 2)]
    <2>1. Reject(0) \/ Reject(6) \/ (parsed' = next /\ pc' = "payload")
      BY <1>8 DEF parseUDP
    <2>2. next.transport = "udp"
      BY <1>n, Zenon DEF ParsedPacket
    <2> HIDE DEF next
    <2> QED
      BY <1>r, <2>1, <2>2 DEF JobPlace
  <1>9. CASE parseICMP
    <2> DEFINE next == [parsed EXCEPT !.transport = pc]
    <2>1. pc \in {"icmp", "icmpv6"} /\ (Reject(0) \/ (parsed' = next /\ pc' = "payload"))
      BY <1>9 DEF parseICMP
    <2>2. next.transport = pc
      BY <1>n, Zenon DEF ParsedPacket
    <2> HIDE DEF next
    <2> QED
      BY <1>r, <2>1, <2>2 DEF JobPlace
  <1>10. CASE setPayload
    <2> DEFINE next == [parsed EXCEPT !.payload_length =
                           IF offset < Len(raw) THEN Len(raw) - offset ELSE 0]
    <2>1. pc = "payload" /\ parsed' = next /\ pc' = "parsed" /\ raw' = raw /\ offset' = offset
      BY <1>10 DEF setPayload
    <2>2. next.ip_version = parsed.ip_version /\ next.transport = parsed.transport
      BY <1>n, Zenon DEF ParsedPacket
    <2> HIDE DEF next
    <2>3. transport_offset' = transport_offset /\ Len(raw') = Len(raw)
      BY <2>1, SameTransportOffset
    <2> QED
      BY <2>1, <2>2, <2>3 DEF JobPlace, Headers
  <1> QED
    BY <1>1, <1>2, <1>3, <1>4, <1>5, <1>6, <1>7, <1>8, <1>9, <1>10 DEF parse

\* createPacketJob tests only the byte at transport_offset and reads one 12 bytes
\* further on.  Behind IPv4, the parser has seen a whole header there; behind IPv6,
\* there are 60 bytes of headers behind Ethernet's.
LEMMA JobReads ==
  ASSUME FrameInv, JobPlace, createPacketJob
  PROVE  InBounds'
  <1>1. /\ pc = "parsed" /\ raw' = raw /\ parsed' = parsed /\ reach' = jobReach
        /\ pc' = IF parsed.ip_version = 4 THEN "inspect" ELSE "not_ipv4"
        /\ memory' = memory
    BY DEF createPacketJob, readerVars
  <1>n. LowNibble(14) \in 0..15
    BY ByteTyped
  <1>2. Len(raw) \in Nat /\ transport_offset \in Nat
    BY <1>n DEF FrameInv, transport_offset
  <1>3. CASE readsDataOffset /\ parsed.ip_version = 6
    <2>1. CASE LowNibble(14) >= 12
      <3>1. transport_offset' = transport_offset /\ LowNibble(14)' = LowNibble(14)
        BY <1>1, SameTransportOffset
      <3>2. ReadsBehindIPv6'
        BY <1>1, <1>3, <2>1, <3>1 DEF ReadsBehindIPv6, IPv6Job, readsDataOffset
      <3> QED
        BY <3>2 DEF InBounds
    <2>2. CASE ~(LowNibble(14) >= 12)
      <3>1. Len(raw) >= 74
        BY <1>1, <1>3 DEF JobPlace, readsDataOffset
      <3>2. jobReach = transport_offset + 13
        BY <1>2, <1>3, <3>1 DEF jobReach
      <3>3. transport_offset + 13 <= 71
        BY <1>n, <2>2 DEF transport_offset
      <3> QED
        BY <1>1, <1>2, <3>1, <3>2, <3>3 DEF InBounds
    <2> QED
      BY <2>1, <2>2
  <1>4. CASE readsDataOffset /\ parsed.ip_version # 6
    <2>1. transport_offset + 20 <= Len(raw)
      BY <1>1, <1>4 DEF JobPlace, readsDataOffset
    <2>2. jobReach = transport_offset + 13
      BY <1>2, <1>4, <2>1 DEF jobReach, transport_offset
    <2>3. jobReach <= Len(raw)
      BY <1>2, <2>1, <2>2
    <2> QED
      BY <1>1, <2>3 DEF InBounds
  <1>5. CASE ~readsDataOffset
    <2>1. jobReach <= Len(raw)
      BY <1>2, <1>5 DEF jobReach
    <2> QED
      BY <1>1, <2>1 DEF InBounds
  <1> QED
    BY <1>3, <1>4, <1>5

LEMMA StepKeepsBounds ==
  ASSUME TypeInv, InBounds, JobPlace, [Next]_vars
  PROVE  InBounds' /\ JobPlace'
  <1>0. FrameInv /\ ParserTypeOK
    BY DEF TypeInv, IInv
  <1>p. ASSUME pc' \notin Headers \cup {"parsed"} PROVE JobPlace'
    BY <1>p DEF JobPlace, Headers
  <1>b. ASSUME UNCHANGED frameVars, pc # "not_ipv4" PROVE InBounds'
    BY <1>b DEF InBounds, ReadsBehindIPv6, IPv6Job, frameVars
  <1>1. CASE Parse
    <2>1. parse /\ UNCHANGED memory
      BY <1>1 DEF Parse, readerVars
    <2>2. pc \in Headers
      BY <2>1, ParsePlaces
    <2>3. reach <= Len(raw)
      BY <2>2 DEF InBounds, ReadsBehindIPv6, IPv6Job, Headers
    <2> QED
      BY <1>0, <2>1, <2>3, ParseKeepsFrame, ParseKeepsPlace DEF InBounds
  <1>2. CASE Read
    <2>1. CASE beginParse(record'.data)
      <3>1. /\ raw' = record'.data /\ offset' = 0 /\ reach' = 0 /\ pc' = "ethernet"
            /\ parsed'.transport = "none"
        BY <2>1 DEF beginParse, EmptyPacket
      <3>2. raw' \in Seq(Byte)
        BY StepKeepsTypes DEF TypeInv, IInv, FrameInv
      <3>3. Len(raw') \in Nat
        BY <3>2
      <3> QED
        BY <3>1, <3>3 DEF InBounds, JobPlace
    <2>2. CASE pc' = "end" /\ UNCHANGED frameVars
      <3>1. pc # "not_ipv4"
        BY <1>2 DEF Read
      <3> QED
        BY <1>p, <1>b, <2>2, <3>1 DEF Headers
    <2> QED
      BY <1>2, <2>1, <2>2 DEF Read
  <1>3. CASE createPacketJob
    <2>1. pc' \in {"inspect", "not_ipv4"}
      BY <1>3 DEF createPacketJob
    <2> QED
      BY <1>0, <1>3, <1>p, <2>1, JobReads DEF Headers
  <1>4. CASE Open \/ Output \/ Inspect \/ extractHost \/ readDomainName
    <2>1. UNCHANGED frameVars /\ pc # "not_ipv4"
      BY <1>4 DEF Open, Output, Inspect, inspectNothing, inspectDNS, inspectQUIC,
             inspectHTTP, inspectTLS, IsTLSPayload, classifyByName, ByName, Found,
             Classify, extractHost, findHostLine, readHost, readDomainName,
             endOfName, followPointer, readLabel
    <2>2. pc' \notin Headers \cup {"parsed"}
      BY <1>4 DEF Open, Output, Inspect, inspectNothing, inspectDNS, inspectQUIC,
             inspectHTTP, inspectTLS, IsTLSPayload, classifyByName, ByName, Found,
             Classify, extractHost, findHostLine, readHost, readDomainName,
             endOfName, followPointer, readLabel, Headers
    <2> QED
      BY <1>p, <1>b, <2>1, <2>2
  <1>5. CASE UNCHANGED vars
    <2>1. UNCHANGED <<frameVars, memory, pc>>
      BY <1>5 DEF vars, readerVars
    <2>2. /\ transport_offset' = transport_offset /\ Len(raw') = Len(raw)
          /\ LowNibble(14)' = LowNibble(14)
      BY <2>1, SameTransportOffset DEF frameVars
    <2>3. InBounds'
      BY <2>1, <2>2 DEF InBounds, ReadsBehindIPv6, IPv6Job, readsDataOffset, frameVars
    <2> QED
      BY <2>1, <2>2, <2>3 DEF JobPlace, frameVars
  <1> QED
    BY <1>1, <1>2, <1>3, <1>4, <1>5 DEF Next, Step, Finished

\* For every input file, whatever its bytes, and every limit on the extension
\* headers: PacketParser::parse reads no byte behind the end of a frame and leaves
\* its offset within it, and createPacketJob reads none behind it either, unless
\* the packet is one of IPv6 with a traffic class of 0xC0 (CS6) or more.
THEOREM ParserReadsInBounds ==
  Spec => []ReadsInBounds
  <1>1. Init => TypeInv /\ InBounds /\ JobPlace
    <2> SUFFICES ASSUME Init PROVE TypeInv /\ InBounds /\ JobPlace
      OBVIOUS
    <2>1. pc = "open" /\ raw = <<>> /\ reach = 0
      BY DEF Init, ParserInit
    <2>2. InBounds /\ JobPlace
      BY <2>1 DEF InBounds, JobPlace, Headers
    <2> QED
      BY <2>2, TypesAtFirst
  <1>2. TypeInv /\ InBounds /\ JobPlace /\ [Next]_vars
           => (TypeInv /\ InBounds /\ JobPlace)'
    BY StepKeepsTypeInv, StepKeepsBounds
  <1>3. TypeInv /\ InBounds => ReadsInBounds
    BY DEF TypeInv, IInv, FrameInv, InBounds, ReadsInBounds
  <1> QED
    BY <1>1, <1>2, <1>3, PTL DEF Spec

-----------------------------------------------------------------------------
(* The application of a name                                                 *)

\* Of two ends of a sequence the shorter is an end of the longer.
LEMMA SuffixOfSuffix ==
  ASSUME NEW S, NEW s \in Seq(S), NEW t \in Seq(S), NEW u \in Seq(S),
         IsSuffix(s, u), IsSuffix(t, u), Len(s) <= Len(t)
  PROVE  IsSuffix(s, t)
  <1> DEFINE l == Len(s)
             m == Len(t)
             n == Len(u)
  <1>1. l \in Nat /\ m \in Nat /\ n \in Nat /\ l <= m
    OBVIOUS
  <1>2. /\ n - l \in Nat /\ Behind(u, n - l, s)
        /\ n - m \in Nat /\ Behind(u, n - m, t)
    BY SuffixFromEnd
  <1>3. /\ \A i \in 1..l : u[(n - l) + i] = s[i]
        /\ \A i \in 1..m : u[(n - m) + i] = t[i]
    BY <1>2, Zenon DEF Behind
  <1>4. m - l \in Nat /\ m = (m - l) + l
    BY <1>1
  <1>5. ASSUME NEW i \in 1..l PROVE t[(m - l) + i] = s[i]
    <2>1. (m - l) + i \in 1..m /\ (n - m) + ((m - l) + i) = (n - l) + i
      BY <1>1
    <2> QED
      BY <1>3, <2>1, Zenon
  <1>6. Behind(t, m - l, s)
    BY <1>4, <1>5, Zenon DEF Behind
  <1> QED
    BY <1>4, <1>6, SuffixFromEnd

\* A domain of the table fits a name when its labels are the name's last ones.
LEMMA FitsByLabels ==
  ASSUME NEW host \in Seq(Char), NEW apex \in Seq(Char)
  PROVE  isDomainOrSubdomain(host, apex) <=> IsSuffix(Labels(apex), Labels(host))
  <1>1. Len(host) \in Nat /\ Len(apex) \in Nat
    OBVIOUS
  <1>2. host = apex <=> Behind(host, 0, apex)
    BY WholeText
  <1>3. EndsWith(host, apex) <=> \E d \in Nat : Behind(host, d, apex)
    BY EndsWithBehind
  <1>4. \A d \in Nat : Behind(host, d, apex) => d = Len(host) - Len(apex)
    BY <1>1 DEF Behind
  <1>5. (\E d \in Nat \ {0} : Behind(host, d, apex) /\ host[d] = Dot) <=>
           /\ Len(host) > Len(apex)
           /\ host[Len(host) - Len(apex)] = Dot
           /\ EndsWith(host, apex)
    <2>1. ASSUME NEW d \in Nat \ {0}, Behind(host, d, apex), host[d] = Dot
          PROVE  /\ Len(host) > Len(apex)
                 /\ host[Len(host) - Len(apex)] = Dot
                 /\ EndsWith(host, apex)
      <3>1. d = Len(host) - Len(apex)
        BY <1>4, <2>1
      <3>2. Len(host) > Len(apex)
        BY <1>1, <3>1
      <3> QED
        BY <1>3, <2>1, <3>1, <3>2
    <2>2. ASSUME Len(host) > Len(apex), host[Len(host) - Len(apex)] = Dot,
                 EndsWith(host, apex)
          PROVE  \E d \in Nat \ {0} : Behind(host, d, apex) /\ host[d] = Dot
      <3>1. PICK d \in Nat : Behind(host, d, apex)
        BY <1>3, <2>2
      <3>2. d = Len(host) - Len(apex)
        BY <1>4, <3>1
      <3>3. d # 0
        BY <1>1, <2>2, <3>2
      <3> QED
        BY <2>2, <3>1, <3>2, <3>3
    <2> QED
      BY <2>1, <2>2
  <1>6. isDomainOrSubdomain(host, apex) <=>
           \E d \in Ends(host) : Behind(host, d, apex)
    BY <1>2, <1>5, BehindAnEnd, Zenon DEF isDomainOrSubdomain
  <1> QED
    BY <1>6, SuffixOfLabels, Zenon

\* A rule without a * covers the names that end with its labels.
LEMMA CoversWithoutStar ==
  ASSUME NEW text \in Seq(Char), ~isWildcard(text), NEW labels
  PROVE  Covers(Labels(text), labels) <=> IsSuffix(Labels(text), labels)
  <1>1. \A k \in DOMAIN Labels(text) : Star \notin Range(Labels(text)[k])
    BY StarInLabel DEF isWildcard
  <1>2. ~(Len(Labels(text)) > 1 /\ Labels(text)[1] = <<Star>>)
    <2> SUFFICES ASSUME Len(Labels(text)) > 1, Labels(text)[1] = <<Star>> PROVE FALSE
      OBVIOUS
    <2>1. 1 \in DOMAIN Labels(text)
      BY LabelsOfText
    <2>2. Star \in Range(<<Star>>)
      <3>1. 1 \in DOMAIN <<Star>> /\ <<Star>>[1] = Star
        OBVIOUS
      <3> QED
        BY <3>1 DEF Range
    <2> QED
      BY <2>1, <2>2, <1>1
  <1> QED
    BY <1>1, <1>2 DEF Covers

\* The table as the proofs use it.
Apexes(i) == {Chars(a) : a \in Applications[i][2]}

LEMMA TableOfDomains ==
  /\ DOMAIN Applications \subseteq Nat
  /\ \A i \in DOMAIN Applications : \A x \in Apexes(i) :
        x \in Seq(Char) /\ x # <<>> /\ ~isWildcard(x)
  /\ \A i, j \in DOMAIN Applications : \A x \in Apexes(i), y \in Apexes(j) :
        IsSuffix(Labels(x), Labels(y)) => j <= i
  <1>1. DOMAIN Applications \subseteq Nat
    BY DEF Applications
  <1> QED
    BY <1>1, TableAssumption, Zenon DEF Apexes

\* The applications that cover a name, with the lengths of their domains.
LEMMA CoveringIs ==
  ASSUME NEW name \in Seq(Char), NEW c
  PROVE  c \in Covering(name) <=>
            \E i \in DOMAIN Applications : \E x \in Apexes(i) :
               /\ isDomainOrSubdomain(normalize(name), x)
               /\ c = <<Len(Labels(x)), Applications[i][1]>>
  <1> DEFINE L == LabelsOfName(name)
             host == normalize(name)
  <1>1. c \in Covering(name) <=>
           \E i \in DOMAIN Applications : \E a \in Applications[i][2] :
              /\ Covers(Labels(Chars(a)), L)
              /\ c = <<Len(Labels(Chars(a))), Applications[i][1]>>
    <2> DEFINE T == Applications
               K(a) == Covers(Labels(Chars(a)), L)
               P(a, app) == <<Len(Labels(Chars(a))), app[1]>>
    <2>1. Covering(name) =
             UNION {{P(a, app) : a \in {b \in app[2] : K(b)}} : app \in Range(T)}
      BY Zenon DEF Covering
    <2>2. /\ \A i \in DOMAIN T : T[i] \in Range(T)
          /\ \A app \in Range(T) : \E i \in DOMAIN T : app = T[i]
      BY Zenon DEF Range
    <2> HIDE DEF T, K, P
    <2>4. c \in Covering(name) <=>
             \E app \in Range(T) : c \in {P(a, app) : a \in {b \in app[2] : K(b)}}
      BY <2>1, Zenon
    <2>5. \A app : c \in {P(a, app) : a \in {b \in app[2] : K(b)}} <=>
             \E a \in app[2] : K(a) /\ c = P(a, app)
      BY Zenon
    <2>3. c \in Covering(name) <=>
             \E i \in DOMAIN T : \E a \in T[i][2] : K(a) /\ c = P(a, T[i])
      BY <2>2, <2>4, <2>5, Zenon
    <2> QED
      BY <2>3, Zenon DEF T, K, P
  <1>2. host \in Seq(Char) /\ L = Labels(host)
    BY NormalType, LabelsOfNormal
  <1>3. ASSUME NEW i \in DOMAIN Applications, NEW a \in Applications[i][2]
        PROVE  Covers(Labels(Chars(a)), L) <=> isDomainOrSubdomain(host, Chars(a))
    <2>1. Chars(a) \in Seq(Char) /\ ~isWildcard(Chars(a))
      BY TableOfDomains, Zenon DEF Apexes
    <2> QED
      BY <1>2, <2>1, FitsByLabels, CoversWithoutStar, Zenon
  <1> HIDE DEF L, host
  <1>4. \A i \in DOMAIN Applications : \A a \in Applications[i][2] : Chars(a) \in Apexes(i)
    BY Zenon DEF Apexes
  <1>5. \A i \in DOMAIN Applications : \A x \in Apexes(i) :
           \E a \in Applications[i][2] : x = Chars(a)
    BY Zenon DEF Apexes
  <1> QED
    BY <1>1, <1>3, <1>4, <1>5, Zenon DEF host

\* The first application with a fitting domain is the one with the longest.
LEMMA LongestDomain ==
  ASSUME NEW name \in Seq(Char)
  PROVE  IF MostSpecificApps(name) = {}
         THEN sniToAppType(name) \in {"HTTPS", "UNKNOWN"}
         ELSE MostSpecificApps(name) = {sniToAppType(name)}
  <1> DEFINE D == DOMAIN Applications
             host == normalize(name)
             fits(i, x) == x \in Apexes(i) /\ isDomainOrSubdomain(host, x)
             I == {i \in D : \E x \in Apexes(i) : isDomainOrSubdomain(host, x)}
             C == Covering(name)
  <1>1. host \in Seq(Char)
    BY NormalType
  <1>2. sniToAppType(name) = IF host = <<>> THEN "UNKNOWN"
                             ELSE IF I = {} THEN "HTTPS" ELSE Applications[Min(I)][1]
    <2>1. I = {i \in D : \E a \in Applications[i][2] : isDomainOrSubdomain(host, Chars(a))}
      BY Zenon DEF Apexes
    <2> QED
      BY <2>1, Zenon DEF sniToAppType, normalizeDomain
  <1>3. MostSpecificApps(name) = {c[2] : c \in {d \in C : \A e \in C : d[1] >= e[1]}}
    BY Zenon DEF MostSpecificApps
  <1>4. \A c : c \in C <=> \E i \in D : \E x \in Apexes(i) :
             isDomainOrSubdomain(host, x) /\ c = <<Len(Labels(x)), Applications[i][1]>>
    BY CoveringIs, Zenon
  <1>5. ASSUME I = {} PROVE MostSpecificApps(name) = {}
    <2>1. C = {}
      BY <1>4, <1>5, Zenon
    <2> QED
      BY <1>3, <2>1, Zenon
  <1>6. ASSUME host = <<>> PROVE I = {}
    <2> SUFFICES ASSUME NEW i \in D, NEW x \in Apexes(i), isDomainOrSubdomain(host, x)
                 PROVE  FALSE
      BY Zenon
    <2>1. x \in Seq(Char) /\ x # <<>>
      BY TableOfDomains, Zenon
    <2>2. Len(x) > 0 /\ Len(host) = 0
      BY <1>6, <2>1
    <2> QED
      BY <1>6, <2>1, <2>2 DEF isDomainOrSubdomain
  <1>7. ASSUME I # {} PROVE MostSpecificApps(name) = {Applications[Min(I)][1]}
    <2> DEFINE k == Min(I)
               labels(x) == Len(Labels(x))
    <2>1. I \subseteq Nat
      BY TableOfDomains, Zenon
    <2>2. k \in I /\ \A i \in I : k <= i
      <3> HIDE DEF I
      <3>1. PICK m \in I : \A i \in I : m <= i
        BY <1>7, <2>1, LeastNat
      <3> QED
        BY <3>1, Zenon DEF Min
    <2>3. PICK a \in Apexes(k) : isDomainOrSubdomain(host, a)
      BY <2>2
    <2>4. ASSUME NEW i \in D, NEW x \in Apexes(i), isDomainOrSubdomain(host, x)
          PROVE  /\ i \in I /\ k <= i
                 /\ labels(x) \in Nat /\ labels(x) <= Len(Labels(host))
                 /\ Labels(x) \in Seq(Seq(Char)) /\ IsSuffix(Labels(x), Labels(host))
      <3>1. i \in I /\ k <= i
        BY <2>2, <2>4, Zenon
      <3>2. x \in Seq(Char)
        BY TableOfDomains, Zenon
      <3>3. Labels(x) \in Seq(Seq(Char)) /\ Labels(host) \in Seq(Seq(Char))
        BY <1>1, <3>2, LabelsOfText, Zenon
      <3>4. IsSuffix(Labels(x), Labels(host))
        BY <1>1, <2>4, <3>2, FitsByLabels, Zenon
      <3>5. Len(Labels(host)) - Len(Labels(x)) \in Nat
        BY <3>3, <3>4, SuffixFromEnd, Zenon
      <3>6. labels(x) \in Nat /\ labels(x) <= Len(Labels(host))
        BY <3>3, <3>5
      <3> QED
        BY <3>1, <3>3, <3>4, <3>6, Zenon
    \* A longest fitting domain belongs to the first application.
    <2>5. ASSUME NEW i \in D, NEW x \in Apexes(i), isDomainOrSubdomain(host, x),
                 labels(a) <= labels(x)
          PROVE  i = k
      <3>1. /\ Labels(x) \in Seq(Seq(Char)) /\ IsSuffix(Labels(x), Labels(host))
            /\ Labels(a) \in Seq(Seq(Char)) /\ IsSuffix(Labels(a), Labels(host))
            /\ k <= i
        BY <2>2, <2>3, <2>4, <2>5, Zenon
      <3>2. Labels(host) \in Seq(Seq(Char))
        BY <1>1, LabelsOfText, Zenon
      <3>3. IsSuffix(Labels(a), Labels(x))
        BY <2>5, <3>1, <3>2, SuffixOfSuffix, Zenon
      <3>4. k \in D
        BY <2>2, Zenon
      <3>5. i <= k
        BY <2>3, <3>3, <3>4, TableOfDomains, Zenon
      <3>6. i \in Nat /\ k \in Nat
        BY <3>4, TableOfDomains, Zenon
      <3> HIDE DEF k
      <3> QED
        BY <3>1, <3>5, <3>6
    <2>6. PICK i \in D : \E x \in Apexes(i) :
             /\ isDomainOrSubdomain(host, x)
             /\ \A j \in D : \A y \in Apexes(j) :
                   isDomainOrSubdomain(host, y) => labels(y) <= labels(x)
      <3> DEFINE N == Len(Labels(host))
                 G == {n \in Nat : \E j \in D : \E y \in Apexes(j) :
                         isDomainOrSubdomain(host, y) /\ n = N - labels(y)}
      <3>1. N \in Nat
        BY <1>1, LabelsOfText
      <3>2. \A j \in D : \A y \in Apexes(j) : isDomainOrSubdomain(host, y) =>
               labels(y) \in Nat /\ labels(y) <= N
        BY <2>4, Zenon
      <3> HIDE DEF N, D, labels, host, I, k
      <3>3. \A j \in D : \A y \in Apexes(j) : isDomainOrSubdomain(host, y) =>
               N - labels(y) \in G
        BY <3>1, <3>2
      <3>4. k \in D
        BY <2>2, Zenon DEF I
      <3>5. G # {} /\ G \subseteq Nat
        BY <2>3, <3>3, <3>4, Zenon
      <3>6. PICK m \in G : \A n \in G : m <= n
        BY <3>5, LeastNat
      <3>j. PICK j \in D : \E y \in Apexes(j) :
               isDomainOrSubdomain(host, y) /\ m = N - labels(y)
        BY <3>6, Zenon
      <3>7. PICK y \in Apexes(j) : isDomainOrSubdomain(host, y) /\ m = N - labels(y)
        BY <3>j, Zenon
      <3>8. ASSUME NEW h \in D, NEW z \in Apexes(h), isDomainOrSubdomain(host, z)
            PROVE  labels(z) <= labels(y)
        <4>1. m <= N - labels(z)
          BY <3>3, <3>6, <3>8, Zenon
        <4>2. labels(z) \in Nat /\ labels(y) \in Nat
          BY <3>2, <3>7, <3>8, Zenon
        <4> QED
          BY <3>1, <3>7, <4>1, <4>2
      <3> QED
        BY <3>7, <3>8, Zenon
    <2>7. PICK x \in Apexes(i) :
             /\ isDomainOrSubdomain(host, x)
             /\ \A j \in D : \A y \in Apexes(j) :
                   isDomainOrSubdomain(host, y) => labels(y) <= labels(x)
      BY <2>6, Zenon
    <2>8. k \in D /\ i = k
      BY <2>2, <2>3, <2>5, <2>7, Zenon
    <2> DEFINE c == <<labels(x), Applications[i][1]>>
               M == {d \in C : \A e \in C : d[1] >= e[1]}
    <2>9. \A d \in C : \E j \in D : \E y \in Apexes(j) :
             /\ isDomainOrSubdomain(host, y)
             /\ d[1] = labels(y) /\ d[2] = Applications[j][1]
      <3> SUFFICES ASSUME NEW d \in C
                   PROVE  \E j \in D : \E y \in Apexes(j) :
                             /\ isDomainOrSubdomain(host, y)
                             /\ d[1] = labels(y) /\ d[2] = Applications[j][1]
        BY Zenon
      <3>1. PICK j \in D : \E y \in Apexes(j) :
               isDomainOrSubdomain(host, y) /\ d = <<labels(y), Applications[j][1]>>
        BY <1>4, Zenon
      <3>2. PICK y \in Apexes(j) :
               isDomainOrSubdomain(host, y) /\ d = <<labels(y), Applications[j][1]>>
        BY <3>1, Zenon
      <3>3. d[1] = labels(y) /\ d[2] = Applications[j][1]
        BY <3>2
      <3> QED
        BY <3>2, <3>3, Zenon
    <2>10. c \in C /\ c[1] = labels(x) /\ c[2] = Applications[i][1]
      <3>1. c \in C
        BY <1>4, <2>7, Zenon
      <3> QED
        BY <3>1
    <2>n. \A j \in D : \A y \in Apexes(j) : isDomainOrSubdomain(host, y) =>
             labels(y) \in Nat
      BY <2>4, Zenon
    <2> HIDE DEF c, C, D, labels, host, I, k
    <2>11. c \in M
      <3> SUFFICES ASSUME NEW e \in C PROVE c[1] >= e[1]
        BY <2>10, Zenon
      <3>1. PICK j \in D : \E y \in Apexes(j) :
               isDomainOrSubdomain(host, y) /\ e[1] = labels(y)
        BY <2>9, Zenon
      <3>2. PICK y \in Apexes(j) : isDomainOrSubdomain(host, y) /\ e[1] = labels(y)
        BY <3>1, Zenon
      <3>3. labels(y) <= labels(x) /\ labels(y) \in Nat /\ labels(x) \in Nat
        BY <2>7, <2>n, <3>2, Zenon
      <3> QED
        BY <2>10, <3>2, <3>3
    <2>12. ASSUME NEW d \in M PROVE d[2] = Applications[k][1]
      <3>1. PICK j \in D : \E y \in Apexes(j) :
               /\ isDomainOrSubdomain(host, y)
               /\ d[1] = labels(y) /\ d[2] = Applications[j][1]
        BY <2>9, Zenon
      <3>2. PICK y \in Apexes(j) : /\ isDomainOrSubdomain(host, y)
                                  /\ d[1] = labels(y) /\ d[2] = Applications[j][1]
        BY <3>1, Zenon
      <3>3. d[1] >= c[1]
        BY <2>10, <2>12, Zenon
      <3>4. labels(a) <= labels(x)
        BY <2>3, <2>7, <2>8, Zenon
      <3>5. labels(a) \in Nat /\ labels(x) \in Nat /\ labels(y) \in Nat
        BY <2>3, <2>7, <2>8, <2>n, <3>2, Zenon
      <3>6. labels(a) <= labels(y)
        BY <2>10, <3>2, <3>3, <3>4, <3>5
      <3>7. j = k
        BY <2>5, <3>2, <3>6, Zenon
      <3> QED
        BY <3>2, <3>7, Zenon
    <2>13. MostSpecificApps(name) = {d[2] : d \in M}
      BY <1>3, Zenon
    <2>14. c[2] = Applications[k][1]
      BY <2>8, <2>10, Zenon
    <2> HIDE DEF M
    <2> QED
      BY <2>11, <2>12, <2>13, <2>14, Zenon DEF k, I
  <1> QED
    BY <1>2, <1>5, <1>6, <1>7, Zenon

\* What a packet was classified with: no name, or one and its application.
ClassInv ==
    pc = "done" /\ class.app # "DNS" =>
        \/ class.names = {}
        \/ \E name \in Seq(Char) : class = Named(sniToAppType(name), name)

LEMMA StepKeepsClass ==
  ASSUME TypeInv, ClassInv, [Next]_vars
  PROVE  ClassInv'
  <1>0. ASSUME NEW c, c.names = {}, Classify(c) PROVE ClassInv'
    BY <1>0 DEF Classify, ClassInv
  <1>1. /\ Open \/ Read \/ createPacketJob \/ Output => pc' # "done"
        /\ \A name : Found(name) => pc' # "done"
        /\ Parse => pc' # "done"
    <2>1. Parse => pc' # "done"
      BY ParsePlaces DEF Parse, Headers
    <2> QED
      BY <2>1 DEF Open, Read, beginParse, createPacketJob, Output, Found
  <1>2. ASSUME pc' # "done" PROVE ClassInv'
    BY <1>2 DEF ClassInv
  <1>3. NotClassified.names = {} /\ \A app : Nameless(app).names = {}
    BY NamesOfClasses
  <1>4. CASE Inspect
    <2>1. CASE classifyByName
      <3>1. PICK name \in class.names : Classify(Named(sniToAppType(name), name))
        BY <2>1 DEF classifyByName
      <3>2. name \in Seq(Char)
        BY DEF TypeInv, InspectTyped
      <3>3. class' = Named(sniToAppType(name), name)
        BY <3>1 DEF Classify
      <3> QED
        BY <3>2, <3>3, Zenon DEF ClassInv
    <2>2. CASE inspectNothing \/ inspectDNS
      BY <1>0, <1>2, <1>3, <2>2 DEF inspectNothing, inspectDNS
    <2>3. CASE inspectQUIC
      BY <1>0, <1>1, <1>2, <1>3, <2>3 DEF inspectQUIC, ByName
    <2>4. CASE inspectHTTP
      BY <1>0, <1>2, <1>3, <2>4 DEF inspectHTTP
    <2>5. CASE inspectTLS
      BY <1>0, <1>1, <1>2, <1>3, <2>5 DEF inspectTLS, ByName
    <2> QED
      BY <1>4, <2>1, <2>2, <2>3, <2>4, <2>5 DEF Inspect
  <1>5. CASE extractHost
    <2>1. CASE findHostLine
      BY <1>0, <1>2, <1>3, <2>1 DEF findHostLine
    <2>2. CASE readHost
      BY <1>1, <1>2, <2>2 DEF readHost
    <2> QED
      BY <1>5, <2>1, <2>2 DEF extractHost
  <1>6. CASE readDomainName
    <2>1. CASE endOfName
      <3> DEFINE c == IF domain = <<>> THEN NotClassified ELSE Named("DNS", domain)
      <3>1. Classify(c)
        BY <2>1 DEF endOfName
      <3>2. c.names = {} \/ c.app = "DNS"
        BY <1>3 DEF Named
      <3> HIDE DEF c
      <3>3. CASE c.app = "DNS"
        BY <3>1, <3>3 DEF Classify, ClassInv
      <3> QED
        BY <1>0, <3>1, <3>2, <3>3
    <2>2. CASE followPointer
      BY <1>0, <1>2, <1>3, <2>2 DEF followPointer
    <2>3. CASE readLabel
      BY <1>0, <1>2, <1>3, <2>3 DEF readLabel
    <2> QED
      BY <1>6, <2>1, <2>2, <2>3 DEF readDomainName
  <1>7. CASE UNCHANGED vars
    BY <1>7 DEF vars, inspectVars, ClassInv
  <1> QED
    BY <1>1, <1>2, <1>4, <1>5, <1>6, <1>7 DEF Next, Step, Finished

\* sniToAppType gives a name the application of the longest domain in the table
\* that covers it by whole labels, for every table in which a domain below
\* another stands no later (TableAssumption), and whatever the input file.
THEOREM LongestDomainDecides ==
  Spec => []MostSpecificApexWins
  <1>1. Init => TypeInv /\ ClassInv
    BY TypesAtFirst DEF Init, ClassInv
  <1>2. TypeInv /\ ClassInv /\ [Next]_vars => (TypeInv /\ ClassInv)'
    BY StepKeepsTypeInv, StepKeepsClass
  <1>3. TypeInv /\ ClassInv => MostSpecificApexWins
    <2> SUFFICES ASSUME ClassInv, pc = "done", class.app # "DNS",
                        NEW n \in class.names
                 PROVE  LET apps == MostSpecificApps(n)
                        IN  IF apps = {} THEN class.app \in {"HTTPS", "UNKNOWN"}
                                         ELSE apps = {class.app}
      BY Zenon DEF MostSpecificApexWins
    <2>1. PICK name \in Seq(Char) : class = Named(sniToAppType(name), name)
      BY Zenon DEF ClassInv
    <2>2. n = name /\ class.app = sniToAppType(name)
      BY <2>1 DEF Named
    <2> QED
      BY <2>2, LongestDomain, Zenon
  <1> QED
    BY <1>1, <1>2, <1>3, PTL DEF Spec
=============================================================================
