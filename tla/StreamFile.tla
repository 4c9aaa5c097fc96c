------------------------------- MODULE StreamFile -------------------------------
(***************************************************************************)
(* storage/StreamFile.cxx: one append-only file, read and written as a     *)
(* stream and read at positions.  The stream is a C library FILE opened    *)
(* "a+b": writes go through a buffer to the end of the file, point reads   *)
(* go past the buffer.  The process may crash, which loses the buffer, and *)
(* the disk may be full.                                                   *)
(***************************************************************************)
EXTENDS Integers, Sequences

CONSTANTS MaxLength,   \* bound: bytes of a write
          MaxWrites,   \* bound: writes
          MaxInitial   \* bound: bytes in the file at the beginning

ASSUME BoundAssumption == MaxLength \in Nat /\ MaxWrites \in Nat /\ MaxInitial \in Nat

Operation == {"None", "Read", "Write"}

VARIABLES disk,             \* the bytes of the file: [write, index]
          buffer,           \* bytes written and still in the FILE
          isOpen,           \* m_file # nullptr
          m_fileSize, m_lastOperation,
          position,         \* of the FILE, where the next read is
          direction,        \* of the FILE: "in", "out", or "any" after a seek
          fault,            \* a read and a write of the FILE met without a seek
          located,          \* what getPosition returned, if it was the last call
          writes,           \* history: number of writes
          claims,           \* history: the positions at which writes were located
          acked,            \* history: bytes a flush or close has acknowledged
          failed,           \* history: a write has failed since the file was opened
          erred,            \* history: a read has met an error since then
          lost              \* history: flush or close lost bytes and did not tell

stream == <<position, direction, fault>>
vars == <<disk, buffer, isOpen, m_fileSize, m_lastOperation, stream, located,
          writes, claims, acked, failed, erred, lost>>

NoPosition == -1

Whole == disk \o buffer

Bytes(w, n) == [i \in 1 .. n |-> [write |-> w, index |-> i]]

First(s, n) == SubSeq(s, 1, n)
After(s, n) == SubSeq(s, n + 1, Len(s))

Init ==
  /\ \E n \in 0 .. MaxInitial : disk = Bytes(0, n)
  /\ buffer = <<>> /\ isOpen = FALSE /\ m_fileSize = 0 /\ m_lastOperation = "None"
  /\ position = 0 /\ direction = "any" /\ fault = FALSE
  /\ located = NoPosition /\ writes = 0 /\ claims = {}
  /\ acked = Len(disk) /\ failed = FALSE /\ erred = FALSE /\ lost = FALSE
-----------------------------------------------------------------------------
\* The size counts from 0, whatever the file holds.
UnknownSize == 0

\* The file_size that does not throw returns -1 when it fails.
UncheckedSize == -1

SizeAtOpen == Len(disk)

\* The stream is opened "w+b", which makes the file empty.
OpenEmptied ==
  /\ ~isOpen
  /\ isOpen' = TRUE
  /\ disk' = <<>> /\ m_fileSize' = 0
  /\ m_lastOperation' = "None"
  /\ position' = 0 /\ direction' = "any"
  /\ located' = NoPosition /\ failed' = FALSE /\ erred' = FALSE
  /\ UNCHANGED <<buffer, fault, writes, claims, acked, lost>>

\* A stream opened "a+b" stands at the beginning until it is written to.
Open ==
  /\ ~isOpen
  /\ isOpen' = TRUE
  /\ m_fileSize' = SizeAtOpen
  /\ m_lastOperation' = "None"
  /\ position' = 0 /\ direction' = "any"
  /\ located' = NoPosition /\ failed' = FALSE /\ erred' = FALSE
  /\ UNCHANGED <<disk, buffer, fault, writes, claims, acked, lost>>

\* fflush: the buffer goes to the file.
Pushed == disk' = Whole /\ buffer' = <<>>

\* The disk is full: some of the buffer reaches the file; the C library keeps the
\* rest or drops it.
PushFails ==
  /\ \E n \in 0 .. Len(buffer) - 1 :
       /\ disk' = disk \o First(buffer, n)
       /\ buffer' \in {<<>>, After(buffer, n)}
  /\ lost' = TRUE /\ failed' = TRUE /\ UNCHANGED acked

PushSucceeds == Pushed /\ acked' = Len(disk') /\ UNCHANGED <<lost, failed>>

\* flush and close do not look at what fflush and fclose return.
Flush ==
  /\ isOpen /\ m_lastOperation = "Write"
  /\ PushSucceeds \/ PushFails
  /\ direction' = "any" /\ located' = NoPosition
  /\ position' = Len(disk') + Len(buffer')
  /\ UNCHANGED <<isOpen, m_fileSize, m_lastOperation, fault, writes, claims, erred>>

\* close, or ~StreamFile.
Close ==
  /\ isOpen
  /\ isOpen' = FALSE /\ m_lastOperation' = "None"
  /\ \/ PushSucceeds
     \/ \E n \in 0 .. Len(buffer) - 1 : disk' = disk \o First(buffer, n)
        /\ buffer' = <<>> /\ lost' = TRUE /\ UNCHANGED <<acked, failed>>
  /\ located' = NoPosition
  /\ UNCHANGED <<m_fileSize, stream, writes, claims, erred>>

\* No seek between a read and a write.
NoSeek == direction

\* The direction of the FILE when write comes to fwrite: fseek(0, SEEK_CUR) after
\* a read.
DirectionAtWrite == IF m_lastOperation = "Read" THEN "any" ELSE direction

MayRead == m_lastOperation # "Write"

\* read: a short read throws and leaves m_lastOperation; it has met the end of the
\* file, after which the FILE may be written.
Read(n) ==
  /\ isOpen /\ MayRead
  /\ IF direction = "out"
       THEN fault' = TRUE /\ UNCHANGED <<position, direction, m_lastOperation>>
       ELSE /\ UNCHANGED fault
            /\ IF position + n <= Len(disk)
                 THEN /\ position' = position + n /\ direction' = "in"
                      /\ m_lastOperation' = "Read"
                 ELSE /\ position' = Len(disk) /\ direction' = "any"
                      /\ UNCHANGED m_lastOperation
  /\ located' = NoPosition
  /\ UNCHANGED <<disk, buffer, isOpen, m_fileSize, writes, claims, acked, failed, erred, lost>>

\* fread comes short in front of the end because reading fails: read throws and leaves
\* m_lastOperation, and the FILE has not met its end.
ReadFails(n) ==
  /\ isOpen /\ MayRead /\ direction # "out"
  /\ \E j \in 0 .. n - 1 : position + j <= Len(disk) /\ position' = position + j
  /\ direction' = "in" /\ erred' = TRUE /\ located' = NoPosition
  /\ UNCHANGED <<disk, buffer, isOpen, m_fileSize, m_lastOperation, fault, writes, claims,
                 acked, failed, lost>>

\* A position is good for a later point read if the stream had been read or written
\* when it was asked for, or was empty.
Claimed(w, n) ==
  IF located = NoPosition THEN claims
  ELSE claims \cup {[at |-> located, write |-> w, length |-> n,
                     used |-> m_lastOperation # "None" \/ Whole = <<>>]}

\* write: any part of the buffer may reach the file.
Write(n) ==
  /\ isOpen /\ writes < MaxWrites
  /\ IF DirectionAtWrite = "in"
       THEN /\ fault' = TRUE
            /\ UNCHANGED <<disk, buffer, m_fileSize, m_lastOperation, position,
                           direction, writes, claims>>
       ELSE LET w == writes + 1
                all == buffer \o Bytes(w, n)
            IN  /\ \E k \in 0 .. Len(all) :
                     disk' = disk \o First(all, k) /\ buffer' = After(all, k)
                /\ m_fileSize' = m_fileSize + n
                /\ m_lastOperation' = "Write"
                /\ position' = Len(Whole) + n /\ direction' = "out"
                /\ writes' = w /\ claims' = Claimed(w, n)
                /\ UNCHANGED fault
  /\ located' = NoPosition
  /\ UNCHANGED <<isOpen, acked, failed, erred, lost>>

\* The claims that survive when what is not acknowledged may be gone.
Kept == {c \in claims : c.at + c.length <= acked}

\* fwrite comes short: write throws and leaves m_fileSize and m_lastOperation.
WriteFails(n) ==
  /\ isOpen /\ writes < MaxWrites /\ DirectionAtWrite # "in"
  /\ LET all == buffer \o Bytes(writes + 1, n)
     IN  \E k \in 0 .. Len(all) - 1, j \in 0 .. Len(all) - 1 :
           disk' = disk \o First(all, k) /\ buffer' = SubSeq(all, k + 1, j)
  /\ position' = Len(disk') + Len(buffer') /\ direction' = "out"
  /\ writes' = writes + 1 /\ claims' = Kept
  /\ located' = NoPosition /\ failed' = TRUE
  /\ UNCHANGED <<isOpen, m_fileSize, m_lastOperation, fault, acked, erred, lost>>

\* The position is where the last read ended.
StaysPut == FALSE

SeeksEnd == m_lastOperation = "Read"

\* getPosition: after a read it goes to the end, where the log is replayed.
GetPosition ==
  /\ isOpen
  /\ IF SeeksEnd
       THEN Pushed /\ position' = Len(Whole) /\ direction' = "any"
       ELSE UNCHANGED <<disk, buffer, position, direction>>
  /\ located' = position'
  /\ UNCHANGED <<isOpen, m_fileSize, m_lastOperation, fault, writes, claims, acked,
                 failed, erred, lost>>

\* pointRead: pread does not see the buffer.  A short read throws.
Throws == <<"throws">>

PointRead(offset, n) ==
  IF offset + n <= Len(disk) THEN SubSeq(disk, offset + 1, offset + n) ELSE Throws

\* The process ends without close.
Crash ==
  /\ isOpen
  /\ isOpen' = FALSE /\ buffer' = <<>> /\ m_lastOperation' = "None"
  /\ claims' = Kept /\ located' = NoPosition
  /\ UNCHANGED <<disk, m_fileSize, stream, writes, acked, failed, erred, lost>>

Next == /\ ~fault
        /\ \/ Open \/ Flush \/ Close \/ GetPosition \/ Crash
           \/ \E n \in 1 .. MaxLength :
                Read(n) \/ ReadFails(n) \/ Write(n) \/ WriteFails(n)

Spec == Init /\ [][Next]_vars
-----------------------------------------------------------------------------
Byte == [write : 0 .. MaxWrites, index : Nat]
Claim == [at : Nat, write : 1 .. MaxWrites, length : Nat, used : BOOLEAN]

TypeOK ==
  /\ disk \in Seq(Byte) /\ buffer \in Seq(Byte)
  /\ isOpen \in BOOLEAN /\ m_fileSize \in Nat /\ m_lastOperation \in Operation
  /\ position \in Nat /\ direction \in {"any", "in", "out"} /\ fault \in BOOLEAN
  /\ located \in Nat \cup {NoPosition} /\ writes \in 0 .. MaxWrites
  /\ claims \subseteq Claim /\ acked \in Nat
  /\ failed \in BOOLEAN /\ erred \in BOOLEAN /\ lost \in BOOLEAN

\* m_fileSize is the size the file has once it is flushed, also right after a crash
\* that lost the buffer, as long as no write or flush of this stream has failed.
SizeIsReal == isOpen /\ ~failed => m_fileSize = Len(Whole)

\* m_lastOperation keeps the stream from being read after a write and written after
\* a read without a seek in between, which C leaves undefined; only a write or a read
\* that failed, after which m_lastOperation is as before, gets around it: a failed write
\* in front of a read, a failed read in front of a write.
DirectionKept ==
  fault => \/ direction = "out" /\ failed
           \/ direction = "in" /\ erred

\* What write put at a position returned by getPosition is read from there by
\* pointRead once it is flushed: in this stream, after a close, after a crash, and
\* after a write that failed and threw.
PositionsHold ==
  lost \/ \A c \in claims :
            c.used /\ c.at + c.length <= acked =>
              PointRead(c.at, c.length) = Bytes(c.write, c.length)

\* A byte that flush or close has acknowledged stays where it is in the file.
AckedStays ==
  [][lost' \/ /\ acked <= acked' /\ acked' <= Len(disk')
              /\ \A i \in 1 .. acked : disk'[i] = disk[i]]_vars
=============================================================================
