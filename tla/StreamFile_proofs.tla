---------------------------- MODULE StreamFile_proofs ----------------------------
(***************************************************************************)
(* Proofs about StreamFile, for any number and length of writes, flushes,  *)
(* reads and crashes.                                                      *)
(***************************************************************************)
EXTENDS StreamFile, SequenceTheorems, TLAPS

\* The bytes of a write are a sequence of bytes.
LEMMA BytesOfWrite ==
  ASSUME NEW w \in 0 .. MaxWrites, NEW n \in Nat
  PROVE  /\ Bytes(w, n) \in Seq(Byte) /\ Len(Bytes(w, n)) = n
         /\ \A i \in 1 .. n : Bytes(w, n)[i] = [write |-> w, index |-> i]
<1>1. \A i \in 1 .. n : [write |-> w, index |-> i] \in Byte
  BY DEF Byte
<1>2. Bytes(w, n) \in [1 .. n -> Byte]
  BY <1>1 DEF Bytes
<1> QED
  BY <1>2 DEF Bytes

\* A sequence is its first n bytes and what comes after them.
LEMMA FirstAndAfter ==
  ASSUME NEW s \in Seq(Byte), NEW n \in 0 .. Len(s)
  PROVE  /\ First(s, n) \in Seq(Byte) /\ After(s, n) \in Seq(Byte)
         /\ First(s, n) \o After(s, n) = s
<1>1. Len(s) \in Nat
  OBVIOUS
<1>2. 1 \in 1 .. Len(s) + 1 /\ n \in 1 - 1 .. Len(s) /\ Len(s) \in n .. Len(s)
  BY <1>1
<1>3. SubSeq(s, 1, n) \o SubSeq(s, n + 1, Len(s)) = SubSeq(s, 1, Len(s))
  BY <1>2, ConcatAdjacentSubSeq
<1>4. \A i \in 1 .. n : s[i] \in Byte
  BY <1>1
<1>5. \A i \in n + 1 .. Len(s) : s[i] \in Byte
  BY <1>1
<1>6. SubSeq(s, 1, n) \in Seq(Byte)
  BY <1>1, <1>4, SubSeqProperties
<1>7. SubSeq(s, n + 1, Len(s)) \in Seq(Byte)
  BY <1>1, <1>5, SubSeqProperties
<1> QED
  BY <1>3, <1>6, <1>7, SubSeqFull DEF First, After

\* Any part of a sequence is one.
LEMMA PartOf ==
  ASSUME NEW s \in Seq(Byte), NEW k \in 0 .. Len(s), NEW j \in 0 .. Len(s)
  PROVE  SubSeq(s, k + 1, j) \in Seq(Byte)
<1>1. Len(s) \in Nat
  OBVIOUS
<1>2. \A i \in k + 1 .. j : s[i] \in Byte
  BY <1>1
<1> QED
  BY <1>1, <1>2, SubSeqProperties

\* What is on the disk and in the buffer together.
LEMMA WholeFile ==
  ASSUME TypeOK
  PROVE  /\ Whole \in Seq(Byte) /\ Len(Whole) = Len(disk) + Len(buffer)
         /\ Len(disk) \in Nat /\ Len(buffer) \in Nat
         /\ \A i \in 1 .. Len(disk) : Whole[i] = disk[i]
<1>1. disk \in Seq(Byte) /\ buffer \in Seq(Byte)
  BY DEF TypeOK
<1>2. /\ disk \o buffer \in Seq(Byte) /\ Len(disk \o buffer) = Len(disk) + Len(buffer)
      /\ \A i \in 1 .. Len(disk) + Len(buffer) :
           (disk \o buffer)[i] = IF i <= Len(disk) THEN disk[i] ELSE buffer[i - Len(disk)]
  BY <1>1, ConcatProperties
<1>3. Len(disk) \in Nat /\ Len(buffer) \in Nat
  BY <1>1
<1>4. \A i \in 1 .. Len(disk) : i \in 1 .. Len(disk) + Len(buffer) /\ i <= Len(disk)
  BY <1>3
<1> QED
  BY <1>2, <1>3, <1>4 DEF Whole

\* Bytes that come to the end of a file leave those that are there.
LEMMA AddedAtEnd ==
  ASSUME NEW s \in Seq(Byte), NEW b \in Seq(Byte)
  PROVE  /\ s \o b \in Seq(Byte) /\ Len(s \o b) = Len(s) + Len(b) /\ Len(s) <= Len(s \o b)
         /\ \A i \in 1 .. Len(s) : (s \o b)[i] = s[i]
         /\ \A i \in 1 .. Len(b) : (s \o b)[Len(s) + i] = b[i]
<1>1. Len(s) \in Nat /\ Len(b) \in Nat
  OBVIOUS
<1>2. /\ s \o b \in Seq(Byte) /\ Len(s \o b) = Len(s) + Len(b)
      /\ \A i \in 1 .. Len(s) + Len(b) :
           (s \o b)[i] = IF i <= Len(s) THEN s[i] ELSE b[i - Len(s)]
  BY ConcatProperties
<1>3. \A i \in 1 .. Len(s) : i \in 1 .. Len(s) + Len(b) /\ i <= Len(s)
  BY <1>1
<1>4. \A i \in 1 .. Len(b) : /\ Len(s) + i \in 1 .. Len(s) + Len(b)
                             /\ ~(Len(s) + i <= Len(s)) /\ Len(s) + i - Len(s) = i
  BY <1>1
<1> QED
  BY <1>1, <1>2, <1>3, <1>4
\* Three parts in a row.
LEMMA Regroup ==
  ASSUME NEW s \in Seq(Byte), NEW t \in Seq(Byte), NEW u \in Seq(Byte)
  PROVE  (s \o t) \o u = s \o (t \o u)
BY ConcatAssociative
-----------------------------------------------------------------------------
(* What the actions do to the disk and the buffer.                         *)

\* The disk and the buffer after a step: sequences, and the disk has only got longer.
Grown == /\ disk' \in Seq(Byte) /\ buffer' \in Seq(Byte)
         /\ \E b \in Seq(Byte) : disk' = disk \o b

\* A step that leaves the disk.
LEMMA SameDisk ==
  ASSUME TypeOK, UNCHANGED disk, buffer' = buffer \/ buffer' = <<>>
  PROVE  Grown
<1>1. disk \o <<>> = disk /\ <<>> \in Seq(Byte)
  BY ConcatEmptySeq DEF TypeOK
<1> QED
  BY <1>1 DEF Grown, TypeOK

\* A buffer that reaches the disk is where it was in the whole.
LEMMA PushedWhole ==
  ASSUME TypeOK, Pushed
  PROVE  Grown /\ Whole' = Whole /\ Len(disk') = Len(Whole) /\ Len(buffer') = 0
<1>1. disk' = disk \o buffer /\ buffer' = <<>>
  BY DEF Pushed, Whole
<1>2. disk \o buffer \in Seq(Byte) /\ buffer \in Seq(Byte)
  BY WholeFile DEF TypeOK, Whole
<1>3. disk' \o buffer' = disk \o buffer
  BY <1>1, <1>2, ConcatEmptySeq
<1>4. buffer' \in Seq(Byte) /\ Len(buffer') = 0
  BY <1>1, EmptySeq
<1>5. Grown
  BY <1>1, <1>2, <1>4, Zenon DEF Grown
<1> QED
  BY <1>1, <1>3, <1>4, <1>5, Zenon DEF Whole

\* Part of the buffer reaches the disk.
LEMMA PartlyPushed ==
  ASSUME TypeOK, NEW n \in 0 .. Len(buffer) - 1, disk' = disk \o First(buffer, n),
         buffer' \in {<<>>, After(buffer, n)}
  PROVE  Grown
<1>1. disk \in Seq(Byte) /\ buffer \in Seq(Byte) /\ n \in 0 .. Len(buffer)
  BY DEF TypeOK
<1>2. First(buffer, n) \in Seq(Byte) /\ After(buffer, n) \in Seq(Byte)
  BY <1>1, FirstAndAfter
<1>3. disk' \in Seq(Byte)
  BY <1>1, <1>2, AddedAtEnd
<1>4. buffer' \in Seq(Byte)
  BY <1>2, EmptySeq
<1> QED
  BY <1>2, <1>3, <1>4, Zenon DEF Grown

\* A write adds its bytes to the whole, however much of it reaches the disk.
LEMMA WriteAdds ==
  ASSUME TypeOK, NEW w \in 0 .. MaxWrites, NEW n \in Nat,
         NEW k \in 0 .. Len(buffer \o Bytes(w, n)),
         disk' = disk \o First(buffer \o Bytes(w, n), k),
         buffer' = After(buffer \o Bytes(w, n), k)
  PROVE  Grown /\ Whole' = Whole \o Bytes(w, n)
<1> DEFINE all == buffer \o Bytes(w, n)
<1>1. disk \in Seq(Byte) /\ buffer \in Seq(Byte) /\ Bytes(w, n) \in Seq(Byte)
  BY BytesOfWrite DEF TypeOK
<1>2. all \in Seq(Byte)
  BY <1>1, AddedAtEnd
<1> HIDE DEF all
<1>3. /\ First(all, k) \in Seq(Byte) /\ After(all, k) \in Seq(Byte)
      /\ First(all, k) \o After(all, k) = all
  BY <1>2, FirstAndAfter DEF all
<1>4. disk' = disk \o First(all, k) /\ buffer' = After(all, k)
  BY DEF all
<1>5. disk' \in Seq(Byte) /\ buffer' \in Seq(Byte)
  BY <1>1, <1>3, <1>4, AddedAtEnd
<1>6. disk' \o buffer' = disk \o all
  <2>1. (disk \o First(all, k)) \o After(all, k) = disk \o (First(all, k) \o After(all, k))
    BY <1>1, <1>3, Regroup, Zenon
  <2> QED
    BY <1>3, <1>4, <2>1, Zenon
<1>7. disk \o all = (disk \o buffer) \o Bytes(w, n)
  BY <1>1, Regroup, Zenon DEF all
<1> QED
  BY <1>3, <1>4, <1>5, <1>6, <1>7 DEF Grown, Whole

\* A write that fails puts some of the buffer and of its bytes on the disk.
LEMMA FailedAdds ==
  ASSUME TypeOK, NEW n \in 1 .. MaxLength, WriteFails(n)
  PROVE  Grown
<1> DEFINE all == buffer \o Bytes(writes + 1, n)
<1>1. writes + 1 \in 0 .. MaxWrites /\ n \in Nat
  BY BoundAssumption DEF WriteFails, TypeOK
<1>2. disk \in Seq(Byte) /\ all \in Seq(Byte)
  BY <1>1, BytesOfWrite, AddedAtEnd DEF TypeOK
<1>3. PICK k \in 0 .. Len(all) - 1, j \in 0 .. Len(all) - 1 :
        disk' = disk \o First(all, k) /\ buffer' = SubSeq(all, k + 1, j)
  BY DEF WriteFails
<1> HIDE DEF all
<1>4. k \in 0 .. Len(all) /\ j \in 0 .. Len(all)
  BY <1>2
<1>5. First(all, k) \in Seq(Byte) /\ SubSeq(all, k + 1, j) \in Seq(Byte)
  BY <1>2, <1>4, FirstAndAfter, PartOf
<1> QED
  BY <1>2, <1>3, <1>5, AddedAtEnd DEF Grown

\* Every step leaves what is on the disk where it is.
LEMMA StepGrows ==
  ASSUME TypeOK, [Next]_vars
  PROVE  Grown
<1>1. CASE UNCHANGED vars \/ Open \/ Crash
  BY <1>1, SameDisk DEF vars, Open, Crash
<1>2. CASE Flush
  <2>1. CASE PushSucceeds
    BY <2>1, PushedWhole DEF PushSucceeds
  <2>2. CASE PushFails
    BY <2>2, PartlyPushed DEF PushFails
  <2> QED
    BY <1>2, <2>1, <2>2 DEF Flush
<1>3. CASE Close
  <2>1. CASE PushSucceeds
    BY <2>1, PushedWhole DEF PushSucceeds
  <2>2. CASE ~PushSucceeds
    BY <1>3, <2>2, PartlyPushed DEF Close
  <2> QED
    BY <2>1, <2>2
<1>4. CASE GetPosition
  BY <1>4, SameDisk, PushedWhole DEF GetPosition
<1>5. ASSUME NEW n \in 1 .. MaxLength, Read(n) PROVE Grown
  BY <1>5, SameDisk DEF Read
<1>8. ASSUME NEW n \in 1 .. MaxLength, ReadFails(n) PROVE Grown
  BY <1>8, SameDisk DEF ReadFails
<1>6. ASSUME NEW n \in 1 .. MaxLength, Write(n) PROVE Grown
  <2>1. CASE DirectionAtWrite = "in"
    BY <1>6, <2>1, SameDisk DEF Write
  <2>2. CASE DirectionAtWrite # "in"
    <3>1. writes + 1 \in 0 .. MaxWrites /\ n \in Nat
      BY <1>6, BoundAssumption DEF Write, TypeOK
    <3> QED
      BY <1>6, <2>2, <3>1, WriteAdds DEF Write
  <2> QED
    BY <2>1, <2>2
<1>7. ASSUME NEW n \in 1 .. MaxLength, WriteFails(n) PROVE Grown
  BY <1>7, FailedAdds
<1> QED
  BY <1>1, <1>2, <1>3, <1>4, <1>5, <1>6, <1>7, <1>8 DEF Next
-----------------------------------------------------------------------------
\* The first state is well typed.
LEMMA InitTypeOK == Init => TypeOK
<1> SUFFICES ASSUME Init PROVE TypeOK
  OBVIOUS
<1>1. PICK n \in 0 .. MaxInitial : disk = Bytes(0, n)
  BY DEF Init
<1>2. disk \in Seq(Byte) /\ buffer \in Seq(Byte) /\ Len(disk) \in Nat
  BY <1>1, BytesOfWrite, BoundAssumption, EmptySeq DEF Init
<1>3. /\ isOpen \in BOOLEAN /\ m_lastOperation \in Operation /\ fault \in BOOLEAN
      /\ direction \in {"any", "in", "out"} /\ failed \in BOOLEAN /\ erred \in BOOLEAN
      /\ lost \in BOOLEAN
  BY DEF Init, Operation
<1>4. /\ m_fileSize \in Nat /\ position \in Nat /\ located \in Nat \cup {NoPosition}
      /\ writes \in 0 .. MaxWrites /\ claims \subseteq Claim /\ acked \in Nat
  BY <1>2, BoundAssumption DEF Init
<1> QED
  BY <1>2, <1>3, <1>4 DEF TypeOK

\* Every step keeps the state well typed.
LEMMA NextTypeOK == TypeOK /\ [Next]_vars => TypeOK'
<1> SUFFICES ASSUME TypeOK, [Next]_vars PROVE TypeOK'
  OBVIOUS
<1>1. disk' \in Seq(Byte) /\ buffer' \in Seq(Byte)
  BY StepGrows DEF Grown
<1>2. Len(disk') \in Nat /\ Len(buffer') \in Nat /\ Len(disk) \in Nat /\ Len(Whole) \in Nat
  BY <1>1, WholeFile DEF TypeOK
<1>3. CASE UNCHANGED vars
  BY <1>3 DEF vars, stream, TypeOK
<1>4. CASE Open
  BY <1>1, <1>2, <1>4 DEF Open, SizeAtOpen, TypeOK, Operation
<1>5. CASE Flush
  <2>1. acked' \in Nat /\ lost' \in BOOLEAN /\ failed' \in BOOLEAN
    BY <1>2, <1>5 DEF Flush, PushSucceeds, PushFails, TypeOK
  <2>2. position' \in Nat /\ located' = NoPosition
    BY <1>2, <1>5 DEF Flush
  <2> QED
    BY <1>1, <1>5, <2>1, <2>2 DEF Flush, TypeOK
<1>6. CASE Close
  <2>1. acked' \in Nat /\ lost' \in BOOLEAN /\ failed' \in BOOLEAN
    BY <1>2, <1>6 DEF Close, PushSucceeds, TypeOK
  <2> QED
    BY <1>1, <1>6, <2>1 DEF Close, stream, TypeOK, Operation
<1>7. CASE GetPosition
  BY <1>1, <1>2, <1>7 DEF GetPosition, TypeOK
<1>8. CASE Crash
  BY <1>1, <1>8 DEF Crash, stream, Kept, TypeOK, Operation
<1>9. ASSUME NEW n \in 1 .. MaxLength, Read(n) PROVE TypeOK'
  <2>1. n \in Nat
    BY BoundAssumption
  <2>2. position' \in Nat
    BY <1>2, <1>9, <2>1 DEF Read, TypeOK
  <2>3. direction' \in {"any", "in", "out"} /\ m_lastOperation' \in Operation
    BY <1>9 DEF Read, TypeOK, Operation
  <2>4. fault' \in BOOLEAN
    BY <1>9 DEF Read, TypeOK
  <2> QED
    BY <1>1, <1>9, <2>2, <2>3, <2>4 DEF Read, TypeOK
<1>12. ASSUME NEW n \in 1 .. MaxLength, ReadFails(n) PROVE TypeOK'
  <2>1. position' \in Nat
    BY <1>12, BoundAssumption DEF ReadFails, TypeOK
  <2>2. direction' = "in" /\ erred' = TRUE /\ located' = NoPosition
    BY <1>12 DEF ReadFails
  <2> QED
    BY <1>1, <1>12, <2>1, <2>2 DEF ReadFails, TypeOK
<1>10. ASSUME NEW n \in 1 .. MaxLength, Write(n) PROVE TypeOK'
  <2>1. CASE DirectionAtWrite = "in"
    BY <1>1, <1>10, <2>1 DEF Write, TypeOK
  <2>2. CASE DirectionAtWrite # "in"
    <3>1. writes + 1 \in 1 .. MaxWrites /\ n \in Nat
      BY <1>10, BoundAssumption DEF Write, TypeOK
    <3>2. m_fileSize' \in Nat /\ position' \in Nat /\ writes' \in 0 .. MaxWrites
      BY <1>2, <1>10, <2>2, <3>1 DEF Write, TypeOK
    <3>3. claims' \subseteq Claim
      <4>1. claims' = Claimed(writes + 1, n)
        BY <1>10, <2>2 DEF Write
      <4>2. located # NoPosition =>
              [at |-> located, write |-> writes + 1, length |-> n,
               used |-> m_lastOperation # "None" \/ Whole = <<>>] \in Claim
        BY <3>1 DEF TypeOK, Claim
      <4> QED
        BY <4>1, <4>2 DEF Claimed, TypeOK
    <3> QED
      BY <1>1, <1>10, <2>2, <3>2, <3>3 DEF Write, TypeOK, Operation
  <2> QED
    BY <2>1, <2>2
<1>11. ASSUME NEW n \in 1 .. MaxLength, WriteFails(n) PROVE TypeOK'
  <2>1. position' \in Nat /\ writes' \in 0 .. MaxWrites
    BY <1>2, <1>11, BoundAssumption DEF WriteFails, TypeOK
  <2>2. claims' \subseteq Claim
    BY <1>11 DEF WriteFails, Kept, TypeOK
  <2>3. /\ isOpen' = isOpen /\ m_fileSize' = m_fileSize
        /\ m_lastOperation' = m_lastOperation /\ fault' = fault /\ acked' = acked
        /\ lost' = lost /\ failed' = TRUE /\ erred' = erred /\ located' = NoPosition
        /\ direction' = "out"
    BY <1>11 DEF WriteFails
  <2> QED
    BY <1>1, <2>1, <2>2, <2>3 DEF TypeOK
<1> QED
  BY <1>3, <1>4, <1>5, <1>6, <1>7, <1>8, <1>9, <1>10, <1>11, <1>12 DEF Next

\* For any number of writes and crashes the state of the stream keeps its types.
THEOREM StreamTypes == Spec => []TypeOK
BY InitTypeOK, NextTypeOK, PTL DEF Spec
-----------------------------------------------------------------------------
(* A read after a write and a write after a read.  The FILE is turned to   *)
(* one direction only by the operation that m_lastOperation names, unless  *)
(* that operation has failed; a fault stops the system.                    *)

Directed ==
  /\ DirectionKept
  /\ isOpen => /\ direction = "in" => m_lastOperation = "Read" \/ erred
               /\ direction = "out" => m_lastOperation = "Write" \/ failed

\* Every step keeps the direction.
LEMMA NextDirected == TypeOK /\ Directed /\ [Next]_vars => Directed'
<1> SUFFICES ASSUME TypeOK, Directed, [Next]_vars PROVE Directed'
  OBVIOUS
<1>1. CASE UNCHANGED vars
  BY <1>1 DEF vars, stream, Directed, DirectionKept
<1> SUFFICES ASSUME Next PROVE Directed'
  BY <1>1
<1>2. ~fault
  BY DEF Next
<1>3. CASE Open
  BY <1>2, <1>3 DEF Open, Directed, DirectionKept
<1>4. CASE Flush
  BY <1>2, <1>4 DEF Flush, PushSucceeds, PushFails, Directed, DirectionKept
<1>5. CASE Close \/ Crash
  BY <1>2, <1>5 DEF Close, Crash, stream, Directed, DirectionKept
<1>6. CASE GetPosition
  BY <1>2, <1>6 DEF GetPosition, Directed, DirectionKept
<1>7. ASSUME NEW n \in 1 .. MaxLength, Read(n) PROVE Directed'
  BY <1>2, <1>7 DEF Read, MayRead, Directed, DirectionKept
<1>8. ASSUME NEW n \in 1 .. MaxLength, ReadFails(n) PROVE Directed'
  BY <1>2, <1>8 DEF ReadFails, Directed, DirectionKept
<1>9. ASSUME NEW n \in 1 .. MaxLength, Write(n) PROVE Directed'
  BY <1>2, <1>9 DEF Write, DirectionAtWrite, Directed, DirectionKept
<1>10. ASSUME NEW n \in 1 .. MaxLength, WriteFails(n) PROVE Directed'
  BY <1>2, <1>10 DEF WriteFails, Directed, DirectionKept
<1> QED
  BY <1>3, <1>4, <1>5, <1>6, <1>7, <1>8, <1>9, <1>10 DEF Next

\* However reads, writes and flushes follow one another, C's rule that a seek separates
\* a read and a write is kept until a write or a read fails.
THEOREM DirectionAlwaysKept == Spec => []DirectionKept
<1>1. Init => Directed
  BY DEF Init, Directed, DirectionKept
<1>2. Directed => DirectionKept
  BY DEF Directed
<1> QED
  BY <1>1, <1>2, InitTypeOK, NextTypeOK, NextDirected, PTL DEF Spec
-----------------------------------------------------------------------------
(* Where the bytes are.  SizeIsReal, AckedStays and PositionsHold rest on  *)
(* what the state says of the whole of disk and buffer: a stream that is   *)
(* not open buffers nothing; the FILE stands at the end after a write, and *)
(* so does a position that was just located and may be used; and every     *)
(* write that was located is in the whole where it was claimed to be.      *)

WholeLength == Len(disk) + Len(buffer)

Placed(c) == /\ c.at + c.length <= WholeLength
             /\ \A i \in 1 .. c.length : Whole[c.at + i] = [write |-> c.write, index |-> i]

Positioned ==
  /\ isOpen /\ m_lastOperation = "Write" => position = WholeLength
  /\ isOpen /\ WholeLength = 0 => position = 0
  /\ isOpen /\ located # NoPosition /\ (m_lastOperation # "None" \/ WholeLength = 0) =>
       located = WholeLength

ByteInv == /\ ~isOpen => buffer = <<>>
           /\ acked <= Len(disk)
           /\ SizeIsReal
           /\ Positioned
           /\ lost \/ \A c \in claims : c.used => Placed(c)

\* The whole is empty when its length is 0.
LEMMA WholeEmpty ==
  ASSUME TypeOK
  PROVE  /\ Len(Whole) = WholeLength /\ WholeLength \in Nat
         /\ Whole = <<>> <=> WholeLength = 0
BY WholeFile, EmptySeq DEF WholeLength

\* So much is in the whole after a step.
LEMMA NextWhole ==
  ASSUME TypeOK'
  PROVE  /\ Len(Whole') = WholeLength' /\ WholeLength' \in Nat
         /\ Len(disk') \in Nat /\ Len(buffer') \in Nat
<1>1. disk' \in Seq(Byte) /\ buffer' \in Seq(Byte)
  BY DEF TypeOK
<1>2. Len(disk' \o buffer') = Len(disk') + Len(buffer')
  BY <1>1, ConcatProperties
<1>3. Len(disk') \in Nat /\ Len(buffer') \in Nat
  BY <1>1
<1> QED
  BY <1>2, <1>3 DEF Whole, WholeLength

\* What was on the disk is still there after a step.
LEMMA DiskGrows ==
  ASSUME TypeOK, TypeOK', Grown
  PROVE  /\ Len(disk) \in Nat /\ Len(disk) <= Len(disk')
         /\ \A i \in 1 .. Len(disk) : disk'[i] = disk[i]
<1>1. PICK b \in Seq(Byte) : disk' = disk \o b
  BY DEF Grown
<1>2. disk \in Seq(Byte)
  BY DEF TypeOK
<1>3. Len(disk) <= Len(disk \o b) /\ \A i \in 1 .. Len(disk) : (disk \o b)[i] = disk[i]
  BY <1>2, AddedAtEnd
<1> QED
  BY <1>1, <1>2, <1>3

\* The first state satisfies the invariant.
LEMMA InitByteInv == Init => ByteInv
<1> SUFFICES ASSUME Init PROVE ByteInv
  OBVIOUS
<1>1. TypeOK
  BY InitTypeOK
<1> QED
  BY <1>1 DEF Init, ByteInv, Positioned, SizeIsReal, TypeOK

\* What is placed stays placed when the whole stays or grows at its end.
LEMMA StaysPlaced ==
  ASSUME TypeOK, TypeOK', NEW b \in Seq(Byte), Whole' = Whole \o b,
         NEW c \in Claim, Placed(c)
  PROVE  Placed(c)'
<1>1. /\ Len(Whole) = WholeLength /\ Len(Whole) \in Nat /\ Whole \in Seq(Byte)
      /\ Len(Whole') = WholeLength'
  BY WholeFile, NextWhole DEF WholeLength
<1>2. Len(Whole) <= Len(Whole') /\ \A i \in 1 .. Len(Whole) : Whole'[i] = Whole[i]
  BY <1>1, AddedAtEnd
<1>3. c.at \in Nat /\ c.length \in Nat /\ c.at + c.length <= Len(Whole)
  BY <1>1 DEF Claim, Placed
<1>4. \A i \in 1 .. c.length : c.at + i \in 1 .. Len(Whole)
  BY <1>1, <1>3
<1>5. \A i \in 1 .. c.length : Whole'[c.at + i] = [write |-> c.write, index |-> i]
  BY <1>2, <1>4 DEF Placed
<1>6. c.at + c.length <= WholeLength'
  BY <1>1, <1>2, <1>3, AddedAtEnd
<1> QED
  BY <1>5, <1>6 DEF Placed

\* A step that leaves the whole, or that loses bytes, and forgets what was located.
LEMMA SameWhole ==
  ASSUME TypeOK, TypeOK', ByteInv, claims' = claims,
         lost' \/ (Whole' = Whole /\ lost' = lost)
  PROVE  lost' \/ \A c \in claims' : c.used => Placed(c)'
<1>1. CASE lost \/ lost'
  BY <1>1 DEF TypeOK
<1>2. CASE ~lost /\ ~lost' /\ Whole' = Whole
  <2>1. Whole' = Whole \o <<>> /\ <<>> \in Seq(Byte)
    BY <1>2, WholeFile, ConcatEmptySeq
  <2> QED
    BY <1>2, <2>1, StaysPlaced DEF ByteInv, TypeOK
<1> QED
  BY <1>1, <1>2 DEF TypeOK

\* What is kept when some bytes may be gone is on the disk, and stays there.
LEMMA KeptPlaced ==
  ASSUME TypeOK, TypeOK', ByteInv, ~lost, NEW c \in Kept, c.used, Grown
  PROVE  Placed(c)'
<1>1. PICK b \in Seq(Byte) : disk' = disk \o b
  BY DEF Grown
<1>2. /\ disk \in Seq(Byte) /\ disk' \in Seq(Byte) /\ buffer' \in Seq(Byte)
      /\ Len(disk) \in Nat /\ Len(disk') \in Nat /\ Len(buffer') \in Nat
  BY DEF TypeOK
<1>3. Len(disk) <= Len(disk') /\ \A i \in 1 .. Len(disk) : disk'[i] = disk[i]
  BY <1>1, <1>2, AddedAtEnd
<1>4. \A i \in 1 .. Len(disk') : Whole'[i] = disk'[i]
  BY <1>2, AddedAtEnd DEF Whole
<1>5. c \in Claim /\ c \in claims /\ c.at \in Nat /\ c.length \in Nat /\ c.at + c.length <= Len(disk)
  BY SMTT(20), <1>2 DEF Kept, TypeOK, Claim, ByteInv
<1>6. \A i \in 1 .. c.length : c.at + i \in 1 .. Len(disk) /\ c.at + i \in 1 .. Len(disk')
  BY <1>2, <1>3, <1>5
<1>7. \A i \in 1 .. c.length : Whole'[c.at + i] = Whole[c.at + i]
  BY <1>3, <1>4, <1>6, WholeFile
<1>8. \A i \in 1 .. c.length : Whole'[c.at + i] = [write |-> c.write, index |-> i]
  BY <1>5, <1>7 DEF ByteInv, Placed
<1>9. c.at + c.length <= WholeLength'
  BY <1>2, <1>3, <1>5 DEF WholeLength
<1> QED
  BY <1>8, <1>9 DEF Placed

\* A write puts its bytes where it was located to put them.
LEMMA WriteByteInv ==
  ASSUME TypeOK, TypeOK', ByteInv, NEW n \in 1 .. MaxLength, Write(n)
  PROVE  ByteInv'
<1>1. CASE DirectionAtWrite = "in"
  <2>1. Whole' = Whole
    BY <1>1 DEF Write, Whole
  <2>2. lost' \/ \A c \in claims' : c.used => Placed(c)'
    BY <1>1, <2>1, SameWhole DEF Write
  <2> QED
    BY <1>1, <2>1, <2>2 DEF Write, ByteInv, SizeIsReal, Positioned, WholeLength
<1>2. CASE DirectionAtWrite # "in"
  <2> DEFINE w == writes + 1
             add == Bytes(w, n)
  <2>1. w \in 1 .. MaxWrites /\ w \in 0 .. MaxWrites /\ n \in Nat /\ n > 0
    BY BoundAssumption DEF Write, TypeOK
  <2>2. /\ add \in Seq(Byte) /\ Len(add) = n
        /\ \A i \in 1 .. n : add[i] = [write |-> w, index |-> i]
    BY <2>1, BytesOfWrite
  <2>3. Grown /\ Whole' = Whole \o add
    BY <1>2, <2>1, WriteAdds DEF Write
  <2> HIDE DEF add
  <2>4. /\ Whole \in Seq(Byte) /\ Len(Whole) = WholeLength /\ WholeLength \in Nat
        /\ Len(disk) \in Nat
    BY WholeFile DEF WholeLength
  <2>5. Len(Whole') = WholeLength + n /\ WholeLength' = WholeLength + n
    <3>1. Len(Whole \o add) = Len(Whole) + Len(add)
      BY <2>2, <2>4, AddedAtEnd
    <3> QED
      BY <2>2, <2>3, <2>4, <3>1, NextWhole
  <2>6. /\ m_fileSize' = m_fileSize + n /\ m_lastOperation' = "Write"
        /\ position' = Len(Whole) + n /\ claims' = Claimed(w, n)
        /\ isOpen /\ isOpen' /\ acked' = acked /\ failed' = failed /\ lost' = lost
        /\ located' = NoPosition
    BY <1>2 DEF Write
  <2>7. acked' <= Len(disk')
    <3>1. PICK b \in Seq(Byte) : disk' = disk \o b
      BY <2>3 DEF Grown
    <3>2. Len(disk) <= Len(disk') /\ Len(disk') \in Nat
      BY <3>1, AddedAtEnd DEF TypeOK
    <3> QED
      BY <2>4, <2>6, <3>2 DEF ByteInv, TypeOK
  <2>8. SizeIsReal' /\ Positioned'
    BY <2>1, <2>4, <2>5, <2>6 DEF ByteInv, SizeIsReal, Positioned, TypeOK
  <2>9. ASSUME ~lost, NEW c \in claims', c.used PROVE Placed(c)'
    <3>1. CASE c \in claims
      BY <2>2, <2>3, <2>9, <3>1, StaysPlaced DEF ByteInv, TypeOK
    <3>2. CASE c \notin claims
      <4>1. /\ located # NoPosition
            /\ c = [at |-> located, write |-> w, length |-> n,
                    used |-> m_lastOperation # "None" \/ Whole = <<>>]
        BY <2>6, <3>2 DEF Claimed
      <4>2. c.at = WholeLength /\ c.length = n /\ c.write = w
        BY <2>6, <2>9, <4>1, WholeEmpty DEF ByteInv, Positioned
      <4>3. \A i \in 1 .. n : Whole'[WholeLength + i] = [write |-> w, index |-> i]
        BY <2>2, <2>3, <2>4, AddedAtEnd
      <4>4. c.at + c.length <= WholeLength'
        BY <2>1, <2>4, <2>5, <4>2
      <4> QED
        BY <4>2, <4>3, <4>4 DEF Placed
    <3> QED
      BY <3>1, <3>2
  <2> QED
    BY <2>6, <2>7, <2>8, <2>9 DEF ByteInv, TypeOK
<1> QED
  BY <1>1, <1>2

\* Every step preserves the invariant.
LEMMA NextByteInv == TypeOK /\ ByteInv /\ [Next]_vars => ByteInv'
<1> SUFFICES ASSUME TypeOK, ByteInv, [Next]_vars PROVE ByteInv'
  OBVIOUS
<1>1. TypeOK'
  BY NextTypeOK
<1>2. /\ Len(disk) \in Nat /\ Len(disk') \in Nat /\ Len(disk) <= Len(disk')
      /\ Len(buffer) \in Nat /\ Len(buffer') \in Nat
  BY <1>1, StepGrows, DiskGrows, WholeFile, NextWhole
<1>3. acked' = acked \/ acked' = Len(disk') => acked' <= Len(disk')
  BY <1>2 DEF ByteInv, TypeOK
<1>4. Len(Whole) = WholeLength /\ Len(Whole') = WholeLength' /\ Whole \in Seq(Byte)
  BY <1>1, WholeFile, NextWhole DEF WholeLength
<1>5. CASE UNCHANGED vars
  <2>1. Whole' = Whole /\ WholeLength' = WholeLength /\ claims' = claims /\ lost' = lost
    BY <1>5 DEF vars, Whole, WholeLength
  <2>2. lost' \/ \A c \in claims' : c.used => Placed(c)'
    BY <1>1, <2>1, SameWhole
  <2> QED
    BY <1>5, <2>1, <2>2 DEF vars, stream, ByteInv, SizeIsReal, Positioned
<1>6. CASE Open
  <2>1. Whole' = Whole /\ WholeLength' = WholeLength /\ claims' = claims /\ lost' = lost
    BY <1>6 DEF Open, Whole, WholeLength
  <2>2. lost' \/ \A c \in claims' : c.used => Placed(c)'
    BY <1>1, <2>1, SameWhole
  <2>3. buffer = <<>> /\ Len(Whole) = Len(disk)
    BY <1>2, <1>4, <1>6 DEF Open, ByteInv, WholeLength
  <2> QED
    BY <1>6, <2>1, <2>2, <2>3 DEF Open, SizeAtOpen, ByteInv, SizeIsReal, Positioned
<1>7. CASE Flush
  <2>1. lost' \/ (Whole' = Whole /\ lost' = lost)
    BY <1>7, PushedWhole DEF Flush, PushSucceeds, PushFails
  <2>2. lost' \/ \A c \in claims' : c.used => Placed(c)'
    BY <1>1, <1>7, <2>1, SameWhole DEF Flush
  <2>3. acked' <= Len(disk')
    BY <1>3, <1>7 DEF Flush, PushSucceeds, PushFails
  <2>4. SizeIsReal'
    BY <1>7, PushedWhole DEF Flush, PushSucceeds, PushFails, ByteInv, SizeIsReal
  <2>5. Positioned'
    BY <1>2, <1>7 DEF Flush, Positioned, WholeLength
  <2> QED
    BY <1>7, <2>2, <2>3, <2>4, <2>5 DEF Flush, ByteInv
<1>8. CASE Close
  <2>1. lost' \/ (Whole' = Whole /\ lost' = lost)
    BY <1>8, PushedWhole DEF Close, PushSucceeds
  <2>2. lost' \/ \A c \in claims' : c.used => Placed(c)'
    BY <1>1, <1>8, <2>1, SameWhole DEF Close
  <2>3. acked' <= Len(disk') /\ buffer' = <<>>
    BY <1>3, <1>8 DEF Close, PushSucceeds, Pushed
  <2> QED
    BY <1>8, <2>2, <2>3 DEF Close, ByteInv, SizeIsReal, Positioned
<1>9. CASE Crash
  <2>1. lost' \/ \A c \in claims' : c.used => Placed(c)'
    BY <1>1, <1>9, StepGrows, KeptPlaced DEF Crash
  <2>2. acked' <= Len(disk') /\ buffer' = <<>>
    BY <1>3, <1>9 DEF Crash
  <2> QED
    BY <1>9, <2>1, <2>2 DEF Crash, ByteInv, SizeIsReal, Positioned
<1>10. CASE GetPosition
  <2>1. Whole' = Whole
    BY <1>10, PushedWhole DEF GetPosition, Whole
  <2>2. lost' \/ \A c \in claims' : c.used => Placed(c)'
    BY <1>1, <1>10, <2>1, SameWhole DEF GetPosition
  <2>3. acked' <= Len(disk')
    BY <1>3, <1>10 DEF GetPosition
  <2>4. SizeIsReal'
    BY <1>10, <2>1 DEF GetPosition, ByteInv, SizeIsReal
  <2>5. Positioned'
    <3>1. WholeLength' = WholeLength
      BY <1>4, <2>1
    <3>2. CASE SeeksEnd
      BY <1>4, <1>10, <3>1, <3>2 DEF GetPosition, Positioned
    <3>3. CASE ~SeeksEnd
      BY <1>10, <3>1, <3>3 DEF GetPosition, SeeksEnd, Positioned, ByteInv, TypeOK, Operation
    <3> QED
      BY <3>2, <3>3
  <2> QED
    BY <1>10, <2>2, <2>3, <2>4, <2>5 DEF GetPosition, ByteInv
<1>11. ASSUME NEW n \in 1 .. MaxLength, Read(n) PROVE ByteInv'
  <2>1. Whole' = Whole /\ WholeLength' = WholeLength
    BY <1>11 DEF Read, Whole, WholeLength
  <2>2. lost' \/ \A c \in claims' : c.used => Placed(c)'
    BY <1>1, <1>11, <2>1, SameWhole DEF Read
  <2>3. Positioned'
    <3>1. located' = NoPosition /\ isOpen' = isOpen
      BY <1>11 DEF Read
    <3>2. m_lastOperation' # "Write"
      BY <1>11 DEF Read, MayRead
    <3>3. WholeLength = 0 => position' = 0
      <4>1. n \in Nat /\ n > 0 /\ (WholeLength = 0 => Len(disk) = 0)
        BY <1>2, BoundAssumption DEF WholeLength
      <4> QED
        BY <1>11, <4>1 DEF Read, ByteInv, Positioned
    <3> QED
      BY <2>1, <3>1, <3>2, <3>3 DEF Positioned
  <2> QED
    BY <1>11, <2>1, <2>2, <2>3 DEF Read, ByteInv, SizeIsReal
<1>12. ASSUME NEW n \in 1 .. MaxLength, Write(n) PROVE ByteInv'
  BY <1>1, <1>12, WriteByteInv
<1>13. ASSUME NEW n \in 1 .. MaxLength, WriteFails(n) PROVE ByteInv'
  <2>1. lost' \/ \A c \in claims' : c.used => Placed(c)'
    BY <1>1, <1>13, StepGrows, KeptPlaced DEF WriteFails
  <2>2. acked' <= Len(disk') /\ isOpen' /\ failed' /\ located' = NoPosition
    BY <1>3, <1>13 DEF WriteFails
  <2>3. position' = WholeLength'
    BY <1>13 DEF WriteFails, WholeLength
  <2> QED
    BY <2>1, <2>2, <2>3 DEF ByteInv, SizeIsReal, Positioned
<1>14. ASSUME NEW n \in 1 .. MaxLength, ReadFails(n) PROVE ByteInv'
  <2>1. Whole' = Whole /\ WholeLength' = WholeLength
    BY <1>14 DEF ReadFails, Whole, WholeLength
  <2>2. lost' \/ \A c \in claims' : c.used => Placed(c)'
    BY <1>1, <1>14, <2>1, SameWhole DEF ReadFails
  <2>3. Positioned'
    <3>1. located' = NoPosition /\ isOpen' = isOpen
      BY <1>14 DEF ReadFails
    <3>2. m_lastOperation' # "Write"
      BY <1>14 DEF ReadFails, MayRead
    <3>3. WholeLength = 0 => position' = 0
      <4>1. n \in Nat /\ (WholeLength = 0 => Len(disk) = 0)
        BY <1>2, BoundAssumption DEF WholeLength
      <4>2. position' \in Nat /\ position' <= Len(disk)
        BY <1>14, <4>1 DEF ReadFails, TypeOK
      <4> QED
        BY <4>1, <4>2
    <3> QED
      BY <2>1, <3>1, <3>2, <3>3 DEF Positioned
  <2> QED
    BY <1>14, <2>1, <2>2, <2>3 DEF ReadFails, ByteInv, SizeIsReal
<1> QED
  BY <1>5, <1>6, <1>7, <1>8, <1>9, <1>10, <1>11, <1>12, <1>13, <1>14 DEF Next

\* The invariant holds for any number and length of writes, and of crashes.
THEOREM ByteInvAlways == Spec => []ByteInv
BY InitTypeOK, NextTypeOK, InitByteInv, NextByteInv, PTL DEF Spec

\* The size that the stream counts is the size the file has once it is flushed.
THEOREM SizeAlwaysReal == Spec => []SizeIsReal
<1>1. ByteInv => SizeIsReal
  BY DEF ByteInv
<1> QED
  BY <1>1, ByteInvAlways, PTL

\* No step, a crash among them, moves or takes away a byte that was acknowledged.
THEOREM AckedAlwaysStays == Spec => AckedStays
<1>1. ASSUME TypeOK, ByteInv, TypeOK', ByteInv', [Next]_vars
      PROVE  [lost' \/ /\ acked <= acked' /\ acked' <= Len(disk')
                       /\ \A i \in 1 .. acked : disk'[i] = disk[i]]_vars
  <2>1. Grown
    BY <1>1, StepGrows
  <2>2. /\ Len(disk) \in Nat /\ Len(disk') \in Nat /\ Len(disk) <= Len(disk')
        /\ \A i \in 1 .. Len(disk) : disk'[i] = disk[i]
    BY <1>1, <2>1, DiskGrows, NextWhole
  <2>3. acked \in Nat /\ acked <= Len(disk) /\ acked' <= Len(disk')
    BY <1>1 DEF TypeOK, ByteInv
  <2>4. acked' = acked \/ acked' = Len(disk')
    BY <1>1 DEF Next, vars, Open, Flush, Close, PushSucceeds, PushFails, GetPosition, Crash,
                Read, ReadFails, Write, WriteFails
  <2> QED
    BY <2>2, <2>3, <2>4
<1> QED
  BY <1>1, InitTypeOK, NextTypeOK, InitByteInv, NextByteInv, PTL DEF Spec, AckedStays

\* Bytes read back one after the other are the bytes of the write.
LEMMA ReadBack ==
  ASSUME NEW d \in Seq(Byte), NEW at \in Nat, NEW n \in Nat, at + n <= Len(d),
         NEW w \in 0 .. MaxWrites,
         \A i \in 1 .. n : d[at + i] = [write |-> w, index |-> i]
  PROVE  SubSeq(d, at + 1, at + n) = Bytes(w, n)
<1> DEFINE first == at + 1
           last == at + n
           got == SubSeq(d, first, last)
<1>1. first \in Int /\ last \in Int /\ Len(d) \in Nat
  OBVIOUS
<1>2. \A i \in first .. last : d[i] \in Byte
  OBVIOUS
<1>3. /\ last - first + 1 = n /\ (~(first <= last) => n = 0)
      /\ \A i \in 1 .. n : first + i - 1 = at + i
  OBVIOUS
<1> HIDE DEF first, last
<1>4. /\ got \in Seq(Byte)
      /\ Len(got) = IF first <= last THEN last - first + 1 ELSE 0
      /\ \A i \in 1 .. last - first + 1 : got[i] = d[first + i - 1]
  BY SMTT(20), <1>1, <1>2, SubSeqProperties
<1> HIDE DEF got
<1>5. Len(got) = n /\ \A i \in 1 .. n : got[i] = [write |-> w, index |-> i]
  BY <1>3, <1>4
<1>6. /\ Bytes(w, n) \in Seq(Byte) /\ Len(Bytes(w, n)) = n
      /\ \A i \in 1 .. n : Bytes(w, n)[i] = [write |-> w, index |-> i]
  BY BytesOfWrite
<1>7. \A i \in 1 .. Len(got) : got[i] = Bytes(w, n)[i]
  BY <1>5, <1>6
<1>8. got = Bytes(w, n)
  BY <1>4, <1>5, <1>6, <1>7, SeqEqual
<1> QED
  BY <1>8 DEF got, first, last

\* A write is found where it was located to go, whatever was written, lost in a crash or
\* refused by the disk in between.
THEOREM PositionsAlwaysHold == Spec => []PositionsHold
<1>1. TypeOK /\ ByteInv => PositionsHold
  <2> SUFFICES ASSUME TypeOK, ByteInv, ~lost, NEW c \in claims, c.used,
                      c.at + c.length <= acked
               PROVE  PointRead(c.at, c.length) = Bytes(c.write, c.length)
    BY DEF PositionsHold
  <2>1. /\ c.at \in Nat /\ c.length \in Nat /\ c.write \in 0 .. MaxWrites
        /\ c.at + c.length <= Len(disk) /\ Len(disk) \in Nat /\ disk \in Seq(Byte)
    BY BoundAssumption DEF TypeOK, Claim, ByteInv
  <2>2. \A i \in 1 .. c.length : disk[c.at + i] = [write |-> c.write, index |-> i]
    <3> TAKE i \in 1 .. c.length
    <3>1. c.at + i \in 1 .. Len(disk)
      BY <2>1
    <3>2. Whole[c.at + i] = [write |-> c.write, index |-> i]
      BY DEF ByteInv, Placed
    <3> QED
      BY <3>1, <3>2, WholeFile
  <2>3. SubSeq(disk, c.at + 1, c.at + c.length) = Bytes(c.write, c.length)
    BY ZenonT(20), <2>1, <2>2, ReadBack
  <2> QED
    BY <2>1, <2>3 DEF PointRead
<1> QED
  BY <1>1, StreamTypes, ByteInvAlways, PTL
=============================================================================
