----------------------------- MODULE RingBuffer -----------------------------
(***************************************************************************)
(* various/ringbuffer.h: the lock-free ring between one writer thread and  *)
(* one reader thread through which all samples of the receiver flow        *)
(* (device -> GUI thread, GUI thread -> sound card, socket -> protocol     *)
(* handler).                                                               *)
(*                                                                         *)
(* The writer only writes writeIndex, the reader only writes readIndex,    *)
(* and each reads the other's index once per call, in GetRingBuffer*Regions*)
(* The elements are copied one by one (the memcpy's), so that every        *)
(* interleaving of the two copies is a behaviour; the memory barriers are  *)
(* the program order of the steps.                                         *)
(*                                                                         *)
(* Both indices run over 0 .. 2 * bufferSize - 1, so that an empty and a   *)
(* full ring differ.  The masks bigMask and smallMask are % (2*bufferSize) *)
(* and % bufferSize, which is what they compute because the constructor    *)
(* only lets powers of two through.                                        *)
(***************************************************************************)
EXTENDS Integers, Sequences

CONSTANTS ElementCount,  \* what the constructor is asked for
          DefaultSize,   \* what it takes when that is no power of two (32768)
          Data,          \* the element values
          Requests       \* the element counts that callers ask for

IsPowerOfTwo(n) == \E k \in 0..31 : n = 2^k

bufferSize == IF IsPowerOfTwo(ElementCount) THEN ElementCount ELSE DefaultSize

ASSUME RingAssumption == /\ ElementCount \in Nat \ {0}
                         /\ DefaultSize \in Nat \ {0}
                         /\ Requests \subseteq Int
                         /\ Data # {}

VARIABLES buffer,      \* the slots
          writeIndex,  \* written by the writer only
          readIndex,   \* written by the reader only
          wpc,         \* where the writer is: outside, or copying
          numWritten,  \* what GetRingBufferWriteRegions granted it
          wDone,       \* how many elements it has copied in
          rpc,         \* where the reader is
          numRead,     \* what GetRingBufferReadRegions granted it
          out          \* what it has copied out

writerVars == <<wpc, numWritten, wDone>>
readerVars == <<rpc, numRead, out>>
vars == <<buffer, writeIndex, readIndex, writerVars, readerVars>>

Indices == 0 .. 2 * bufferSize - 1
Slots   == 0 .. bufferSize - 1

TypeOK ==
    /\ buffer \in [Slots -> Data]
    /\ writeIndex \in Indices
    /\ readIndex \in Indices
    /\ wpc \in {"idle", "copy"}
    /\ numWritten \in 0..bufferSize
    /\ wDone \in 0..numWritten
    /\ rpc \in {"idle", "get", "peek", "skip", "skipped"}
    /\ numRead \in 0..bufferSize
    /\ out \in Seq(Data)
    /\ Len(out) <= numRead

-----------------------------------------------------------------------------
\* (writeIndex - readIndex) & bigMask
ReadAvailable == (writeIndex - readIndex) % (2 * bufferSize)

\* Plausible errors, for the mutants: one slot too many, and
\* a second region that starts after the first slot.
WriteAvailableOneTooMany == bufferSize - ReadAvailable + 1
SlotSecondRegionLate(ix, j) == (IF (ix % bufferSize) + j < bufferSize
                                THEN ix + j ELSE ix + j + 1) % bufferSize

WriteAvailable == bufferSize - ReadAvailable

\* elementCount is unsigned where it is compared: a negative count is huge.
Clamped(elementCount, available) ==
    IF elementCount < 0 \/ elementCount > available
    THEN available ELSE elementCount

\* The slot of the j-th element of the one or two regions that start at the
\* index ix: the first region ends with the buffer, the second starts at 0.
Slot(ix, j) ==
    LET index     == ix % bufferSize
        firstHalf == bufferSize - index
    IN  IF j < firstHalf THEN index + j ELSE j - firstHalf

Advanced(ix, elementCount) == (ix + elementCount) % (2 * bufferSize)

Init ==
    /\ buffer \in [Slots -> Data]      \* new char [] leaves it as it is
    /\ writeIndex = 0
    /\ readIndex = 0
    /\ wpc = "idle" /\ numWritten = 0 /\ wDone = 0
    /\ rpc = "idle" /\ numRead = 0 /\ out = <<>>

-----------------------------------------------------------------------------
(* putDataIntoBuffer, called by the writer thread *)

PutBegin(elementCount) ==
    /\ wpc = "idle"
    /\ wpc' = "copy"
    /\ numWritten' = Clamped(elementCount, WriteAvailable)
    /\ wDone' = 0
    /\ UNCHANGED <<buffer, writeIndex, readIndex, readerVars>>

PutElement ==
    /\ wpc = "copy"
    /\ wDone < numWritten
    /\ \E d \in Data : buffer' = [buffer EXCEPT ![Slot(writeIndex, wDone)] = d]
    /\ wDone' = wDone + 1
    /\ UNCHANGED <<writeIndex, readIndex, wpc, numWritten, readerVars>>

PutEnd ==
    /\ wpc = "copy"
    /\ wDone = numWritten
    /\ writeIndex' = Advanced(writeIndex, numWritten)
    /\ wpc' = "idle" /\ numWritten' = 0 /\ wDone' = 0
    /\ UNCHANGED <<buffer, readIndex, readerVars>>

-----------------------------------------------------------------------------
(* getDataFromBuffer, peekBuffer and skipDataInBuffer, called by the reader *)

ReadBegin(call, elementCount) ==
    /\ rpc = "idle"
    /\ rpc' = call
    /\ numRead' = Clamped(elementCount, ReadAvailable)
    /\ out' = <<>>
    /\ UNCHANGED <<buffer, writeIndex, readIndex, writerVars>>

ReadElement ==
    /\ rpc \in {"get", "peek"}
    /\ Len(out) < numRead
    /\ out' = Append(out, buffer[Slot(readIndex, Len(out))])
    /\ UNCHANGED <<buffer, writeIndex, readIndex, rpc, numRead, writerVars>>

ReaderReturns == rpc' = "idle" /\ numRead' = 0 /\ out' = <<>>

GetEnd ==
    /\ rpc = "get"
    /\ Len(out) = numRead
    /\ readIndex' = Advanced(readIndex, numRead)
    /\ ReaderReturns
    /\ UNCHANGED <<buffer, writeIndex, writerVars>>

PeekEnd ==
    /\ rpc = "peek"
    /\ Len(out) = numRead
    /\ ReaderReturns
    /\ UNCHANGED <<buffer, writeIndex, readIndex, writerVars>>

\* The comparison reads writeIndex; if it clamps, the assignment reads it
\* again, and the writer may have advanced it in between.
SkipBegin(n_values) ==
    /\ rpc = "idle"
    /\ IF n_values < 0 \/ n_values > ReadAvailable
       THEN rpc' = "skip" /\ numRead' = 0
       ELSE rpc' = "skipped" /\ numRead' = n_values
    /\ UNCHANGED <<buffer, writeIndex, readIndex, out, writerVars>>

SkipClamp ==
    /\ rpc = "skip"
    /\ rpc' = "skipped"
    /\ numRead' = ReadAvailable
    /\ UNCHANGED <<buffer, writeIndex, readIndex, out, writerVars>>

SkipEnd ==
    /\ rpc = "skipped"
    /\ readIndex' = Advanced(readIndex, numRead)
    /\ ReaderReturns
    /\ UNCHANGED <<buffer, writeIndex, writerVars>>

\* FlushRingBuffer writes both indices.  Only the resetBuffer functions of the
\* devices call it, to empty the ring of a device that has stopped.
FlushRingBuffer ==
    /\ wpc = "idle"
    /\ rpc = "idle"
    /\ writeIndex' = 0
    /\ readIndex' = 0
    /\ UNCHANGED <<buffer, writerVars, readerVars>>

-----------------------------------------------------------------------------
Writer == (\E n \in Requests : PutBegin(n)) \/ PutElement \/ PutEnd

Reader ==
    \/ \E n \in Requests : \/ \E call \in {"get", "peek"} : ReadBegin(call, n)
                           \/ SkipBegin(n)
    \/ ReadElement \/ GetEnd \/ PeekEnd \/ SkipClamp \/ SkipEnd

Next == Writer \/ Reader \/ FlushRingBuffer

Spec == Init /\ [][Next]_vars

-----------------------------------------------------------------------------
\* The slots the call under way may touch.
WriterSlots == {Slot(writeIndex, j) : j \in 0 .. numWritten - 1}
ReaderSlots == {Slot(readIndex, j)  : j \in 0 .. numRead - 1}

(* Data-race freedom: while putDataIntoBuffer and getDataFromBuffer (or     *)
(* peekBuffer) are both copying, no slot is in the regions of both, however *)
(* stale the index is that each computed its regions from.                  *)
NoSharedSlot == WriterSlots \cap ReaderSlots = {}

(* What the two calls were granted stays within the ring: the elements in   *)
(* the ring and those being put never exceed bufferSize, and the elements   *)
(* being taken are all in it.  With the 2N index range this is what keeps   *)
(* "full" from being read as "empty".                                       *)
GrantsHold ==
    /\ ReadAvailable <= bufferSize
    /\ ReadAvailable + numWritten <= bufferSize
    /\ numRead <= ReadAvailable

(* The ring is a bounded first-in first-out queue: what is between the two  *)
(* indices, in index order, is the queue.                                   *)
Contents == [i \in 1..ReadAvailable |-> buffer[Slot(readIndex, i - 1)]]

Fifo == INSTANCE BoundedFifo WITH
    Capacity <- bufferSize,
    queue    <- Contents,
    toPut    <- IF wpc = "copy" THEN numWritten ELSE -1,
    toGet    <- IF rpc \in {"get", "peek"} THEN numRead ELSE -1,
    result   <- out

FifoSpec == Fifo!Spec
=============================================================================
