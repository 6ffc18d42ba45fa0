-------------------------- MODULE RingBufferProofs --------------------------
(***************************************************************************)
(* What RingBuffer promises for every capacity, every set of elements and  *)
(* every set of requests: the types hold, what the calls are granted stays *)
(* in the ring, and the two copies never touch a common slot.              *)
(*                                                                         *)
(* The argument is that each thread computes its grant from an index of    *)
(* the other that can only have moved in its favour since: the reader only *)
(* makes room, the writer only adds elements.  So the grants add up to at  *)
(* most bufferSize at every moment (Inv), and two runs of consecutive      *)
(* indices that together are no longer than the ring share no slot.        *)
(*                                                                         *)
(* ImplementsFifo: the ring is a bounded queue.  Each step of a thread is  *)
(* one of BoundedFifo's under the mapping of RingBuffer, or none: the step *)
(* that stores the writer's index appends, that of the reader removes, and *)
(* a copy, or the reading of an index, changes nothing that is queued.     *)
(***************************************************************************)
EXTENDS RingBuffer, SequenceTheorems, TLAPS

\* Outside a call nothing is granted.
IdleGrants ==
    /\ wpc = "idle" => numWritten = 0
    /\ rpc \in {"idle", "skip"} => numRead = 0

Inv == TypeOK /\ GrantsHold /\ IdleGrants

-----------------------------------------------------------------------------
(* The ring has at least one slot, whatever its constructor is asked for.  *)
LEMMA SizePositive == bufferSize \in Nat /\ bufferSize >= 1
BY RingAssumption DEF bufferSize

(* The masks on the index range of a ring of size n.                        *)
LEMMA SmallMask ==
    ASSUME NEW n \in Nat, n >= 1, NEW x \in 0 .. 2 * n - 1
    PROVE  x % n = IF x < n THEN x ELSE x - n
BY SMTT(30)

\* An index that advances wraps at most once.
LEMMA BigMaskAdvance ==
    ASSUME NEW n \in Nat, n >= 1, NEW x \in 0 .. 2 * n - 1, NEW k \in 0..n
    PROVE  (x + k) % (2 * n) = IF x + k < 2 * n THEN x + k ELSE x + k - 2 * n
BY SMTT(30)

LEMMA BigMaskDifference ==
    ASSUME NEW n \in Nat, n >= 1,
           NEW x \in 0 .. 2 * n - 1, NEW y \in 0 .. 2 * n - 1
    PROVE  (x - y) % (2 * n) = IF y <= x THEN x - y ELSE x - y + 2 * n
BY SMTT(30)

-----------------------------------------------------------------------------
(* Where the elements lie: the j-th element of a region that starts at ix   *)
(* is in slot (ix + j) mod bufferSize, one of the two regions' slots.       *)
LEMMA SlotValue ==
    ASSUME NEW ix \in Indices, NEW j \in 0 .. bufferSize - 1
    PROVE  /\ Slot(ix, j) \in Slots
           /\ Slot(ix, j) = LET x == IF ix < bufferSize
                                     THEN ix ELSE ix - bufferSize
                            IN  IF x + j < bufferSize
                                THEN x + j ELSE x + j - bufferSize
<1> DEFINE n == bufferSize
<1>1. n \in Nat /\ n >= 1
  BY SizePositive
<1>2. ix \in 0 .. 2 * n - 1 /\ j \in 0 .. n - 1
  BY DEF Indices
<1>3. Slot(ix, j) = LET index == ix % n
                        firstHalf == n - index
                    IN  IF j < firstHalf THEN index + j ELSE j - firstHalf
  BY DEF Slot
<1>4. Slots = 0 .. n - 1
  BY DEF Slots
<1> HIDE DEF n
<1>5. ix % n = IF ix < n THEN ix ELSE ix - n
  BY <1>1, <1>2, SmallMask
<1>6. /\ Slot(ix, j) \in 0 .. n - 1
      /\ Slot(ix, j) = LET x == IF ix < n THEN ix ELSE ix - n
                       IN  IF x + j < n THEN x + j ELSE x + j - n
  BY <1>1, <1>2, <1>3, <1>5
<1> QED
  BY <1>4, <1>6 DEF n

(* How many elements lie between two indices: the body of ReadAvailable.    *)
LEMMA DistanceValue ==
    ASSUME NEW w \in Indices, NEW r \in Indices
    PROVE  /\ (w - r) % (2 * bufferSize) \in 0 .. 2 * bufferSize - 1
           /\ (w - r) % (2 * bufferSize) =
                 IF r <= w THEN w - r ELSE w - r + 2 * bufferSize
<1> DEFINE n == bufferSize
<1>1. n \in Nat /\ n >= 1
  BY SizePositive
<1>2. w \in 0 .. 2 * n - 1 /\ r \in 0 .. 2 * n - 1
  BY DEF Indices
<1> HIDE DEF n
<1>3. (w - r) % (2 * n) = IF r <= w THEN w - r ELSE w - r + 2 * n
  BY <1>1, <1>2, BigMaskDifference
<1>4. (w - r) % (2 * n) \in 0 .. 2 * n - 1
  BY <1>1, <1>2, <1>3
<1> QED
  BY <1>3, <1>4 DEF n

(* Advancing an index keeps it in range and moves it along the circle.      *)
LEMMA AdvancedValue ==
    ASSUME NEW ix \in Indices, NEW k \in 0..bufferSize
    PROVE  /\ Advanced(ix, k) \in Indices
           /\ Advanced(ix, k) = IF ix + k < 2 * bufferSize
                                THEN ix + k ELSE ix + k - 2 * bufferSize
<1> DEFINE n == bufferSize
<1>1. n \in Nat /\ n >= 1
  BY SizePositive
<1>2. ix \in 0 .. 2 * n - 1 /\ k \in 0..n
  BY DEF Indices
<1>3. Advanced(ix, k) = (ix + k) % (2 * n) /\ Indices = 0 .. 2 * n - 1
  BY DEF Advanced, Indices
<1> HIDE DEF n
<1>4. Advanced(ix, k) = IF ix + k < 2 * n THEN ix + k ELSE ix + k - 2 * n
  BY <1>1, <1>2, <1>3, BigMaskAdvance
<1>5. Advanced(ix, k) \in Indices
  BY <1>1, <1>2, <1>3, <1>4
<1> QED
  BY <1>4, <1>5 DEF n

(* A clamped request lies between nothing and what is available.            *)
LEMMA ClampedRange ==
    ASSUME NEW c \in Int, NEW a \in Nat
    PROVE  Clamped(c, a) \in 0..a
BY DEF Clamped

(* Putting k more elements, when there is room, makes them available.       *)
LEMMA PutDistance ==
    ASSUME NEW w \in Indices, NEW r \in Indices, NEW k \in 0..bufferSize,
           ((w - r) % (2 * bufferSize)) + k <= bufferSize
    PROVE  (Advanced(w, k) - r) % (2 * bufferSize) =
              ((w - r) % (2 * bufferSize)) + k
<1> DEFINE n == bufferSize
           v == Advanced(w, k)
           d == (w - r) % (2 * n)
           e == (v - r) % (2 * n)
<1>1. /\ n \in Nat /\ n >= 1 /\ k \in 0..n /\ d + k <= n
      /\ w \in 0 .. 2 * n - 1 /\ r \in 0 .. 2 * n - 1
  BY SizePositive DEF Indices
<1>2. v \in 0 .. 2 * n - 1
      /\ v = IF w + k < 2 * n THEN w + k ELSE w + k - 2 * n
  BY AdvancedValue DEF Indices
<1>3. d = IF r <= w THEN w - r ELSE w - r + 2 * n
  BY DistanceValue
<1>4. e = IF r <= v THEN v - r ELSE v - r + 2 * n
  BY <1>2, DistanceValue DEF Indices
<1>5. e = d + k
  <2> HIDE DEF n, v, d, e
  <2> QED BY <1>1, <1>2, <1>3, <1>4
<1> QED
  BY <1>5

(* Taking k elements that are available leaves the others.                  *)
LEMMA GetDistance ==
    ASSUME NEW w \in Indices, NEW r \in Indices, NEW k \in 0..bufferSize,
           k <= (w - r) % (2 * bufferSize)
    PROVE  (w - Advanced(r, k)) % (2 * bufferSize) =
              ((w - r) % (2 * bufferSize)) - k
<1> DEFINE n == bufferSize
           s == Advanced(r, k)
           d == (w - r) % (2 * n)
           e == (w - s) % (2 * n)
<1>1. /\ n \in Nat /\ n >= 1 /\ k \in 0..n /\ k <= d
      /\ w \in 0 .. 2 * n - 1 /\ r \in 0 .. 2 * n - 1
  BY SizePositive DEF Indices
<1>2. s \in 0 .. 2 * n - 1
      /\ s = IF r + k < 2 * n THEN r + k ELSE r + k - 2 * n
  BY AdvancedValue DEF Indices
<1>3. d = IF r <= w THEN w - r ELSE w - r + 2 * n
  BY DistanceValue
<1>4. e = IF s <= w THEN w - s ELSE w - s + 2 * n
  BY <1>2, DistanceValue DEF Indices
<1>5. e = d - k
  <2> HIDE DEF n, s, d, e
  <2> QED BY <1>1, <1>2, <1>3, <1>4
<1> QED
  BY <1>5

(* Two runs of consecutive indices, the second starting where the contents  *)
(* end, have no slot in common if together they fit into the ring.          *)
LEMMA DisjointRuns ==
    ASSUME NEW w \in Indices, NEW r \in Indices,
           NEW j \in 0 .. bufferSize - 1, NEW i \in 0 .. bufferSize - 1,
           ((w - r) % (2 * bufferSize)) + j < bufferSize,
           i < (w - r) % (2 * bufferSize)
    PROVE  Slot(w, j) # Slot(r, i)
<1> DEFINE n == bufferSize
           d == (w - r) % (2 * n)
           p == Slot(w, j)
           q == Slot(r, i)
<1>1. /\ n \in Nat /\ n >= 1 /\ j \in 0 .. n - 1 /\ i \in 0 .. n - 1
      /\ w \in 0 .. 2 * n - 1 /\ r \in 0 .. 2 * n - 1
      /\ d + j < n /\ i < d
  BY SizePositive DEF Indices
<1>2. d = IF r <= w THEN w - r ELSE w - r + 2 * n
  BY DistanceValue
<1>3. p = LET x == IF w < n THEN w ELSE w - n
          IN  IF x + j < n THEN x + j ELSE x + j - n
  BY SlotValue
<1>4. q = LET x == IF r < n THEN r ELSE r - n
          IN  IF x + i < n THEN x + i ELSE x + i - n
  BY SlotValue
<1>5. p # q
  <2> HIDE DEF n, d, p, q
  <2> QED BY <1>1, <1>2, <1>3, <1>4
<1> QED
  BY <1>5

-----------------------------------------------------------------------------
(* Every state of the ring starts and stays inside the invariant.           *)
LEMMA InitInv == Init => Inv
<1> SUFFICES ASSUME Init PROVE Inv
  OBVIOUS
<1>1. bufferSize \in Nat /\ bufferSize >= 1
  BY SizePositive
<1>2. ReadAvailable = 0
  BY <1>1, DistanceValue DEF Init, ReadAvailable, Indices
<1>3. TypeOK
  BY <1>1 DEF Init, TypeOK, Indices
<1> QED
  BY <1>1, <1>2, <1>3 DEF Inv, GrantsHold, IdleGrants, Init

\* Every step of the writer and of the reader keeps the invariant.
LEMMA StepInv == Inv /\ [Next]_vars => Inv'
<1> SUFFICES ASSUME Inv, [Next]_vars PROVE Inv'
  OBVIOUS
<1>n. bufferSize \in Nat /\ bufferSize >= 1
  BY SizePositive
<1>r. Requests \subseteq Int
  BY RingAssumption
<1>t. TypeOK /\ GrantsHold /\ IdleGrants
  BY DEF Inv
<1>a. /\ writeIndex \in Indices /\ readIndex \in Indices
      /\ ReadAvailable \in 0..bufferSize
      /\ WriteAvailable \in 0..bufferSize
  BY <1>n, <1>t, DistanceValue
  DEF TypeOK, GrantsHold, ReadAvailable, WriteAvailable
<1>1. ASSUME NEW c \in Requests, PutBegin(c) PROVE Inv'
  <2>1. numWritten' \in 0..WriteAvailable
    BY <1>1, <1>r, <1>a, <1>n, ClampedRange DEF PutBegin
  <2>2. ReadAvailable' = ReadAvailable
    BY <1>1 DEF PutBegin, ReadAvailable
  <2>3. TypeOK'
    BY <1>1, <1>t, <1>a, <1>n, <2>1 DEF PutBegin, TypeOK, readerVars
  <2>4. GrantsHold'
    BY <1>1, <1>t, <1>a, <1>n, <2>1, <2>2
    DEF PutBegin, GrantsHold, readerVars, WriteAvailable
  <2> QED
    BY <1>1, <1>t, <2>3, <2>4 DEF Inv, IdleGrants, PutBegin, readerVars
<1>2. CASE PutElement
  <2>1. Slot(writeIndex, wDone) \in Slots
    BY <1>2, <1>t, <1>n, SlotValue DEF PutElement, TypeOK
  <2>2. TypeOK'
    BY <1>2, <1>t, <1>n, <2>1 DEF PutElement, TypeOK, readerVars
  <2>3. ReadAvailable' = ReadAvailable
    BY <1>2 DEF PutElement, ReadAvailable
  <2> QED
    BY <1>2, <1>t, <2>2, <2>3
    DEF Inv, IdleGrants, GrantsHold, PutElement, readerVars
<1>3. CASE PutEnd
  <2>1. writeIndex' \in Indices
    BY <1>3, <1>t, AdvancedValue DEF PutEnd, TypeOK
  <2>2. ReadAvailable' = ReadAvailable + numWritten
    BY <1>3, <1>t, PutDistance DEF PutEnd, TypeOK, GrantsHold, ReadAvailable
  <2>3. TypeOK'
    BY <1>3, <1>t, <1>n, <2>1 DEF PutEnd, TypeOK, readerVars
  <2>4. GrantsHold'
    BY <1>3, <1>t, <1>n, <1>a, <2>2 DEF PutEnd, TypeOK, GrantsHold, readerVars
  <2> QED
    BY <1>3, <1>t, <2>3, <2>4 DEF Inv, IdleGrants, PutEnd, readerVars
<1>4. ASSUME NEW c \in Requests, NEW call \in {"get", "peek"},
             ReadBegin(call, c)
      PROVE  Inv'
  <2>1. numRead' \in 0..ReadAvailable
    BY <1>4, <1>r, <1>a, <1>n, ClampedRange DEF ReadBegin
  <2>2. ReadAvailable' = ReadAvailable
    BY <1>4 DEF ReadBegin, ReadAvailable
  <2>3. TypeOK'
    BY <1>4, <1>t, <1>a, <1>n, <2>1 DEF ReadBegin, TypeOK, writerVars
  <2>4. GrantsHold'
    BY <1>4, <1>t, <1>a, <1>n, <2>1, <2>2 DEF ReadBegin, GrantsHold, writerVars
  <2> QED
    BY <1>4, <1>t, <2>3, <2>4 DEF Inv, IdleGrants, ReadBegin, writerVars
<1>5. CASE ReadElement
  <2>1. Slot(readIndex, Len(out)) \in Slots
    BY <1>5, <1>t, <1>n, SlotValue DEF ReadElement, TypeOK
  <2>2. buffer[Slot(readIndex, Len(out))] \in Data
    BY <1>t, <2>1 DEF TypeOK
  <2>3. TypeOK'
    BY <1>5, <1>t, <1>n, <2>2 DEF ReadElement, TypeOK, writerVars
  <2>4. ReadAvailable' = ReadAvailable
    BY <1>5 DEF ReadElement, ReadAvailable
  <2> QED
    BY <1>5, <1>t, <2>3, <2>4
    DEF Inv, IdleGrants, GrantsHold, ReadElement, writerVars
<1>6. ASSUME NEW c \in Requests, SkipBegin(c) PROVE Inv'
  <2>1. numRead' \in 0..ReadAvailable
    BY <1>6, <1>r, <1>a, <1>n DEF SkipBegin
  <2>2. ReadAvailable' = ReadAvailable
    BY <1>6 DEF SkipBegin, ReadAvailable
  <2>3. TypeOK'
    BY <1>6, <1>t, <1>a, <1>n, <2>1 DEF SkipBegin, TypeOK, IdleGrants, writerVars
  <2>4. GrantsHold'
    BY <1>6, <1>t, <1>a, <1>n, <2>1, <2>2 DEF SkipBegin, GrantsHold, writerVars
  <2> QED
    BY <1>6, <1>t, <2>3, <2>4 DEF Inv, IdleGrants, SkipBegin, writerVars
<1>7. CASE SkipClamp
  <2>1. ReadAvailable' = ReadAvailable
    BY <1>7 DEF SkipClamp, ReadAvailable
  <2>2. TypeOK'
    BY <1>7, <1>t, <1>a, <1>n DEF SkipClamp, TypeOK, IdleGrants, writerVars
  <2> QED
    BY <1>7, <1>t, <1>a, <1>n, <2>1, <2>2
    DEF Inv, IdleGrants, GrantsHold, SkipClamp, writerVars
<1>8. CASE GetEnd \/ SkipEnd
  <2>1. readIndex' = Advanced(readIndex, numRead) /\ readIndex' \in Indices
    BY <1>8, <1>t, AdvancedValue DEF GetEnd, SkipEnd, TypeOK
  <2>2. ReadAvailable' = ReadAvailable - numRead
    BY <1>8, <1>t, <2>1, GetDistance
    DEF GetEnd, SkipEnd, TypeOK, GrantsHold, ReadAvailable
  <2>3. /\ ReaderReturns
        /\ UNCHANGED <<buffer, writeIndex, wpc, numWritten, wDone>>
    BY <1>8 DEF GetEnd, SkipEnd, writerVars
  <2>4. TypeOK'
    BY <1>t, <1>n, <2>1, <2>3 DEF ReaderReturns, TypeOK
  <2>5. GrantsHold'
    BY <1>t, <1>n, <1>a, <2>2, <2>3 DEF ReaderReturns, TypeOK, GrantsHold
  <2> QED
    BY <1>t, <2>3, <2>4, <2>5 DEF Inv, IdleGrants, ReaderReturns
<1>9. CASE PeekEnd
  <2>1. ReadAvailable' = ReadAvailable
    BY <1>9 DEF PeekEnd, ReadAvailable
  <2>2. TypeOK'
    BY <1>9, <1>t, <1>n DEF PeekEnd, ReaderReturns, TypeOK, writerVars
  <2> QED
    BY <1>9, <1>t, <1>a, <1>n, <2>1, <2>2
    DEF Inv, IdleGrants, GrantsHold, PeekEnd, ReaderReturns, writerVars
<1>10. CASE FlushRingBuffer
  <2>1. ReadAvailable' = 0
    BY <1>10, <1>n, DistanceValue DEF FlushRingBuffer, ReadAvailable, Indices
  <2>2. TypeOK'
    BY <1>10, <1>t, <1>n
    DEF FlushRingBuffer, TypeOK, Indices, writerVars, readerVars
  <2> QED
    BY <1>10, <1>t, <1>n, <2>1, <2>2
    DEF Inv, IdleGrants, GrantsHold, FlushRingBuffer, writerVars, readerVars
<1>11. CASE UNCHANGED vars
  BY <1>11
  DEF Inv, TypeOK, GrantsHold, IdleGrants, ReadAvailable, vars, writerVars,
      readerVars
<1> QED
  BY <1>1, <1>2, <1>3, <1>4, <1>5, <1>6, <1>7, <1>8, <1>9, <1>10, <1>11
  DEF Next, Writer, Reader

(* The regions of two calls under way share no slot.                        *)
LEMMA InvNoSharedSlot == Inv => NoSharedSlot
<1> SUFFICES ASSUME Inv,
                    NEW j \in 0 .. numWritten - 1, NEW i \in 0 .. numRead - 1
             PROVE  Slot(writeIndex, j) # Slot(readIndex, i)
  BY DEF NoSharedSlot, WriterSlots, ReaderSlots
<1>1. bufferSize \in Nat /\ bufferSize >= 1
  BY SizePositive
<1>2. /\ writeIndex \in Indices /\ readIndex \in Indices
      /\ numWritten \in 0..bufferSize /\ numRead \in 0..bufferSize
  BY DEF Inv, TypeOK
<1>3. /\ ReadAvailable \in 0 .. 2 * bufferSize - 1
      /\ ReadAvailable + numWritten <= bufferSize
      /\ numRead <= ReadAvailable
  BY <1>2, DistanceValue DEF Inv, GrantsHold, ReadAvailable
<1>4. /\ j \in 0 .. bufferSize - 1 /\ i \in 0 .. bufferSize - 1
      /\ ReadAvailable + j < bufferSize
      /\ i < ReadAvailable
  BY <1>1, <1>2, <1>3
<1> QED
  BY <1>2, <1>4, DisjointRuns DEF ReadAvailable

(* The ring's indices, counts and program counters keep their types, for    *)
(* every capacity and every sequence of put, get, peek, skip and flush.     *)
THEOREM TypeCorrect == Spec => []TypeOK
<1>1. Inv => TypeOK
  BY DEF Inv
<1> QED
  BY InitInv, StepInv, <1>1, PTL DEF Spec

(* Full is never taken for empty, and no call is granted more than there is. *)
THEOREM GrantsAlwaysHold == Spec => []GrantsHold
<1>1. Inv => GrantsHold
  BY DEF Inv
<1> QED
  BY InitInv, StepInv, <1>1, PTL DEF Spec

(* putDataIntoBuffer and getDataFromBuffer never copy from and to the same   *)
(* slot at the same time: the lock-free ring has no data race.              *)
THEOREM DataRaceFree == Spec => []NoSharedSlot
BY InitInv, StepInv, InvNoSharedSlot, PTL DEF Spec

-----------------------------------------------------------------------------
(* The queue that the ring implements.  One more fact is needed: outside of *)
(* a get or a peek nothing has been copied out.                             *)
OutEmpty == rpc \notin {"get", "peek"} => out = <<>>
FifoInv == Inv /\ OutEmpty

(* The elements of a region, in order, are a sequence.                      *)
LEMMA RegionSeq ==
    ASSUME NEW b \in [Slots -> Data], NEW r \in Indices,
           NEW d \in 0..bufferSize
    PROVE  LET c == [i \in 1..d |-> b[Slot(r, i - 1)]]
           IN  /\ c \in [1..d -> Data] /\ c \in Seq(Data) /\ Len(c) = d
               /\ \A i \in 1..d : c[i] = b[Slot(r, i - 1)]
<1> DEFINE c == [i \in 1..d |-> b[Slot(r, i - 1)]]
<1>1. bufferSize \in Nat /\ bufferSize >= 1 /\ d \in Nat
  BY SizePositive
<1>2. ASSUME NEW i \in 1..d PROVE b[Slot(r, i - 1)] \in Data
  <2>1. i - 1 \in 0 .. bufferSize - 1
    BY <1>1
  <2> QED
    BY <2>1, SlotValue
<1>3. c \in [1..d -> Data] /\ \A i \in 1..d : c[i] = b[Slot(r, i - 1)]
  BY <1>2
<1> HIDE DEF c
<1>4. c \in Seq(Data) /\ Len(c) = d
  BY <1>1, <1>3
<1> QED
  BY <1>3, <1>4 DEF c

(* So is what is between the indices, before and after a step.              *)
LEMMA ContentsSeq ==
    ASSUME Inv
    PROVE  /\ ReadAvailable \in 0..bufferSize
           /\ Contents \in Seq(Data)
           /\ Len(Contents) = ReadAvailable
           /\ \A i \in 1..ReadAvailable :
                 Contents[i] = buffer[Slot(readIndex, i - 1)]
<1>1. /\ writeIndex \in Indices /\ readIndex \in Indices
      /\ buffer \in [Slots -> Data]
  BY DEF Inv, TypeOK
<1>2. ReadAvailable \in 0..bufferSize
  BY <1>1, SizePositive, DistanceValue DEF Inv, GrantsHold, ReadAvailable
<1> QED
  BY <1>1, <1>2, RegionSeq DEF Contents

LEMMA ContentsSeqNext ==
    ASSUME Inv'
    PROVE  /\ ReadAvailable' \in 0..bufferSize
           /\ Contents' \in Seq(Data)
           /\ Len(Contents') = ReadAvailable'
           /\ \A i \in 1..ReadAvailable' :
                 Contents'[i] = buffer'[Slot(readIndex', i - 1)]
<1>1. /\ writeIndex' \in Indices /\ readIndex' \in Indices
      /\ buffer' \in [Slots -> Data]
  BY DEF Inv, TypeOK
<1>2. ReadAvailable' \in 0..bufferSize
  BY <1>1, SizePositive, DistanceValue DEF Inv, GrantsHold, ReadAvailable
<1> QED
  BY <1>1, <1>2, RegionSeq DEF Contents

(* The region of an index that has advanced by k starts at the k-th element. *)
LEMMA SlotShift ==
    ASSUME NEW r \in Indices, NEW k \in 0..bufferSize, NEW j \in Nat,
           k + j < bufferSize
    PROVE  Slot(Advanced(r, k), j) = Slot(r, k + j)
<1> DEFINE n == bufferSize
           s == Advanced(r, k)
           p == Slot(s, j)
           q == Slot(r, k + j)
<1>1. /\ n \in Nat /\ n >= 1 /\ k \in 0..n /\ r \in 0 .. 2 * n - 1
      /\ j \in 0 .. n - 1 /\ k + j \in 0 .. n - 1
  BY SizePositive DEF Indices
<1>2. /\ s \in Indices /\ s \in 0 .. 2 * n - 1
      /\ s = IF r + k < 2 * n THEN r + k ELSE r + k - 2 * n
  BY AdvancedValue DEF Indices
<1>3. p = LET x == IF s < n THEN s ELSE s - n
          IN  IF x + j < n THEN x + j ELSE x + j - n
  BY <1>1, <1>2, SlotValue
<1>4. q = LET x == IF r < n THEN r ELSE r - n
          IN  IF x + (k + j) < n THEN x + (k + j) ELSE x + (k + j) - n
  BY <1>1, SlotValue
<1>5. p = q
  <2> HIDE DEF n, s, p, q
  <2> QED BY <1>1, <1>2, <1>3, <1>4
<1> QED
  BY <1>5

(* The writer's index is the reader's, advanced by what is in between.      *)
LEMMA WriteIsAhead ==
    ASSUME NEW w \in Indices, NEW r \in Indices,
           (w - r) % (2 * bufferSize) <= bufferSize
    PROVE  Advanced(r, (w - r) % (2 * bufferSize)) = w
<1> DEFINE n == bufferSize
           d == (w - r) % (2 * n)
           a == Advanced(r, d)
<1>1. /\ n \in Nat /\ n >= 1 /\ w \in 0 .. 2 * n - 1 /\ r \in 0 .. 2 * n - 1
  BY SizePositive DEF Indices
<1>2. d \in 0 .. n /\ d = IF r <= w THEN w - r ELSE w - r + 2 * n
  BY <1>1, DistanceValue
<1>3. a = IF r + d < 2 * n THEN r + d ELSE r + d - 2 * n
  BY <1>2, AdvancedValue
<1>4. a = w
  <2> HIDE DEF n, d, a
  <2> QED BY <1>1, <1>2, <1>3
<1> QED
  BY <1>4

-----------------------------------------------------------------------------
(* What each call does to the queue.                                        *)

\* Nothing happens to the queue while the buffer is not written in between the
\* indices and the indices stay.
LEMMA ContentsKept ==
    ASSUME Inv, UNCHANGED <<writeIndex, readIndex>>,
           \A i \in 1..ReadAvailable : buffer'[Slot(readIndex, i - 1)]
                                         = buffer[Slot(readIndex, i - 1)]
    PROVE  Contents' = Contents
<1>1. ReadAvailable' = ReadAvailable
  BY DEF ReadAvailable
<1>2. Contents' = [i \in 1..ReadAvailable |-> buffer'[Slot(readIndex, i - 1)]]
  BY <1>1 DEF Contents
<1> QED
  BY <1>2 DEF Contents

\* putDataIntoBuffer writes outside of what is between the indices.
LEMMA PutOutside == ASSUME Inv, PutElement PROVE Contents' = Contents
<1>1. /\ writeIndex \in Indices /\ readIndex \in Indices
      /\ buffer \in [Slots -> Data]
      /\ bufferSize \in Nat /\ bufferSize >= 1
      /\ wDone \in Nat /\ wDone < numWritten /\ numWritten \in 0..bufferSize
  BY SizePositive DEF Inv, TypeOK, PutElement
<1>2. ReadAvailable \in 0..bufferSize /\ ReadAvailable + wDone < bufferSize
  BY <1>1, ContentsSeq DEF Inv, GrantsHold
<1>3. ASSUME NEW i \in 1..ReadAvailable
      PROVE  /\ Slot(readIndex, i - 1) # Slot(writeIndex, wDone)
             /\ Slot(readIndex, i - 1) \in Slots
  <2>1. /\ i - 1 \in 0 .. bufferSize - 1 /\ i - 1 < ReadAvailable
        /\ wDone \in 0 .. bufferSize - 1
    BY <1>1, <1>2
  <2> QED
    BY <1>1, <1>2, <2>1, SlotValue, DisjointRuns DEF ReadAvailable
<1>4. /\ UNCHANGED <<writeIndex, readIndex>>
      /\ \E d \in Data :
            buffer' = [buffer EXCEPT ![Slot(writeIndex, wDone)] = d]
  BY DEF PutElement
<1>5. \A i \in 1..ReadAvailable : buffer'[Slot(readIndex, i - 1)]
                                    = buffer[Slot(readIndex, i - 1)]
  BY <1>1, <1>3, <1>4
<1> QED
  BY <1>4, <1>5, ContentsKept

\* When it returns, what it wrote comes after what was there.
LEMMA PutAppends ==
    ASSUME Inv, Inv', PutEnd
    PROVE  \E s \in [1..numWritten -> Data] : Contents' = Contents \o s
<1> DEFINE s == [j \in 1..numWritten |-> buffer[Slot(writeIndex, j - 1)]]
           d == ReadAvailable
<1>1. /\ writeIndex \in Indices /\ readIndex \in Indices
      /\ buffer \in [Slots -> Data]
      /\ bufferSize \in Nat /\ bufferSize >= 1
      /\ numWritten \in 0..bufferSize /\ d \in 0..bufferSize
      /\ d + numWritten <= bufferSize
  BY SizePositive, ContentsSeq DEF Inv, TypeOK, GrantsHold
<1>2. ASSUME NEW j \in 1..numWritten
      PROVE  /\ s[j] \in Data
             /\ s[j] = buffer[Slot(readIndex, d + (j - 1))]
  <2>1. j - 1 \in 0 .. bufferSize - 1 /\ j - 1 \in Nat /\ d + (j - 1) < bufferSize
    BY <1>1
  <2>2. Slot(writeIndex, j - 1) \in Slots
    BY <1>1, <2>1, SlotValue
  <2>3. Advanced(readIndex, d) = writeIndex
    BY <1>1, WriteIsAhead DEF ReadAvailable
  <2>4. Slot(writeIndex, j - 1) = Slot(readIndex, d + (j - 1))
    BY <1>1, <2>1, <2>3, SlotShift
  <2> QED
    BY <1>1, <2>2, <2>4
<1>3. s \in [1..numWritten -> Data] /\ s \in Seq(Data) /\ Len(s) = numWritten
  BY <1>1, <1>2
<1>4. buffer' = buffer /\ readIndex' = readIndex
  BY DEF PutEnd
<1>5. ReadAvailable' = d + numWritten
  BY <1>1, PutDistance DEF PutEnd, ReadAvailable
<1>6. /\ Contents' \in Seq(Data) /\ Len(Contents') = d + numWritten
      /\ \A i \in 1..(d + numWritten) :
            Contents'[i] = buffer[Slot(readIndex, i - 1)]
  BY <1>4, <1>5, ContentsSeqNext
<1>7. /\ Contents \in Seq(Data) /\ Len(Contents) = d
      /\ \A i \in 1..d : Contents[i] = buffer[Slot(readIndex, i - 1)]
  BY ContentsSeq
<1> HIDE DEF s, d
<1>8. PICK q \in Seq(Data) : q = Contents
  BY <1>7
<1>9. PICK u \in Seq(Data) : u = s
  BY <1>3
<1>10. /\ q \o u \in Seq(Data) /\ Len(q \o u) = d + numWritten
       /\ \A i \in 1..(d + numWritten) :
            (q \o u)[i] = IF i <= d THEN q[i] ELSE u[i - d]
  <2>1. Len(q) = d /\ Len(u) = numWritten
    BY <1>3, <1>7, <1>8, <1>9
  <2>2. /\ q \o u \in Seq(Data) /\ Len(q \o u) = Len(q) + Len(u)
        /\ \A i \in 1..(Len(q) + Len(u)) :
              (q \o u)[i] = IF i <= Len(q) THEN q[i] ELSE u[i - Len(q)]
    BY ConcatProperties
  <2> QED
    BY <2>1, <2>2
<1>11. ASSUME NEW i \in 1..(d + numWritten)
       PROVE  (q \o u)[i] = buffer[Slot(readIndex, i - 1)]
  <2>1. CASE i <= d
    <3>1. i \in 1..d
      BY <1>1, <2>1
    <3> QED
      BY <1>7, <1>8, <1>10, <2>1, <3>1
  <2>2. CASE ~(i <= d)
    <3>1. i - d \in 1..numWritten /\ d + ((i - d) - 1) = i - 1
      BY <1>1, <2>2
    <3>2. s[i - d] = buffer[Slot(readIndex, i - 1)]
      BY <1>2, <3>1
    <3> QED
      BY <1>9, <1>10, <2>2, <3>2
  <2> QED
    BY <2>1, <2>2
<1>12. Contents' = q \o u
  BY <1>1, <1>6, <1>10, <1>11, SeqEqual
<1> QED
  BY <1>3, <1>8, <1>9, <1>12

\* A reader that has advanced leaves the rest.
LEMMA TakeRemoves ==
    ASSUME Inv, Inv', readIndex' = Advanced(readIndex, numRead),
           UNCHANGED <<buffer, writeIndex>>
    PROVE  Contents' = SubSeq(Contents, numRead + 1, Len(Contents))
<1> DEFINE d == ReadAvailable
           k == numRead
           t == SubSeq(Contents, k + 1, Len(Contents))
<1>1. /\ writeIndex \in Indices /\ readIndex \in Indices
      /\ bufferSize \in Nat /\ bufferSize >= 1
      /\ k \in 0..bufferSize /\ d \in 0..bufferSize /\ k <= d
  BY SizePositive, ContentsSeq DEF Inv, TypeOK, GrantsHold
<1>2. ReadAvailable' = d - k
  BY <1>1, GetDistance DEF ReadAvailable
<1>3. /\ Contents \in Seq(Data) /\ Len(Contents) = d
      /\ \A i \in 1..d : Contents[i] = buffer[Slot(readIndex, i - 1)]
  BY ContentsSeq
<1>4. /\ Contents' \in Seq(Data) /\ Len(Contents') = d - k
  BY <1>2, ContentsSeqNext
<1>5. ASSUME NEW i \in 1..(d - k)
      PROVE  Contents'[i] = Contents[i + k]
  <2>1. i - 1 \in Nat /\ k + (i - 1) < bufferSize /\ i + k \in 1..d
    BY <1>1
  <2>2. Contents'[i] = buffer[Slot(Advanced(readIndex, k), i - 1)]
    BY <1>2 DEF Contents
  <2>3. Slot(Advanced(readIndex, k), i - 1) = Slot(readIndex, k + (i - 1))
    BY <1>1, <2>1, SlotShift
  <2>4. k + (i - 1) = (i + k) - 1
    BY <1>1
  <2> QED
    BY <1>3, <2>1, <2>2, <2>3, <2>4
<1>6. /\ t \in Seq(Data) /\ Len(t) = d - k
      /\ \A i \in 1..(d - k) : t[i] = Contents[i + k]
  <2> HIDE DEF d, k
  <2> QED BY <1>1, <1>3
<1> HIDE DEF t, d, k
<1>7. Contents' = t
  BY <1>1, <1>4, <1>5, <1>6, SeqEqual
<1> QED
  BY <1>7 DEF t, k

-----------------------------------------------------------------------------
(* The ring implements the queue, step by step.                             *)
LEMMA FifoInit == Init => FifoInv /\ Fifo!Init
<1> SUFFICES ASSUME Init PROVE OutEmpty /\ Fifo!Init
  BY InitInv DEF FifoInv
<1>1. /\ wpc = "idle" /\ rpc = "idle" /\ out = <<>>
      /\ writeIndex = 0 /\ readIndex = 0
  BY DEF Init
<1>2. ReadAvailable = 0
  BY <1>1, SizePositive, DistanceValue DEF ReadAvailable, Indices
<1>3. Inv
  BY InitInv
<1>4. Contents = <<>>
  BY <1>2, <1>3, ContentsSeq, EmptySeq
<1> QED
  BY <1>1, <1>4 DEF OutEmpty, Fifo!Init, Fifo!NoCall

LEMMA FifoInvStep == FifoInv /\ [Next]_vars => FifoInv'
<1> SUFFICES ASSUME FifoInv, [Next]_vars PROVE OutEmpty'
  BY StepInv DEF FifoInv
<1> QED
  BY DEF FifoInv, OutEmpty, Next, Writer, Reader, PutBegin, PutElement,
     PutEnd, ReadBegin, ReadElement, GetEnd, PeekEnd, SkipBegin, SkipClamp,
     SkipEnd, FlushRingBuffer, ReaderReturns, vars, writerVars, readerVars

LEMMA FifoStep == FifoInv /\ FifoInv' /\ [Next]_vars => [Fifo!Next]_(Fifo!vars)
<1> SUFFICES ASSUME FifoInv, FifoInv', [Next]_vars
             PROVE  Fifo!Next \/ UNCHANGED Fifo!vars
  OBVIOUS
<1>n. bufferSize \in Nat /\ bufferSize >= 1 /\ Requests \subseteq Int
  BY SizePositive, RingAssumption
<1>t. /\ Inv /\ Inv' /\ TypeOK /\ OutEmpty /\ OutEmpty'
      /\ ReadAvailable \in 0..bufferSize /\ Len(Contents) = ReadAvailable
      /\ WriteAvailable = bufferSize - Len(Contents)
      /\ numWritten \in Nat /\ numRead \in Nat
  BY ContentsSeq DEF FifoInv, Inv, TypeOK, WriteAvailable
<1>1. ASSUME NEW c \in Requests, PutBegin(c) PROVE Fifo!Next
  <2>1. /\ wpc = "idle" /\ wpc' = "copy"
        /\ numWritten' = Clamped(c, WriteAvailable)
        /\ UNCHANGED <<buffer, writeIndex, readIndex, rpc, numRead, out>>
    BY <1>1 DEF PutBegin, readerVars
  <2>2. Contents' = Contents
    BY <1>t, <2>1, ContentsKept
  <2>3. numWritten' = Fifo!Granted(c, bufferSize - Len(Contents))
    BY <1>t, <2>1 DEF Clamped, Fifo!Granted
  <2>4. Fifo!PutBegin(c)
    BY <2>1, <2>2, <2>3 DEF Fifo!PutBegin, Fifo!NoCall
  <2> QED
    BY <2>4 DEF Fifo!Next
<1>2. CASE PutElement
  <2>1. UNCHANGED <<wpc, numWritten, rpc, numRead, out>>
    BY <1>2 DEF PutElement, readerVars
  <2>2. Contents' = Contents
    BY <1>2, <1>t, PutOutside
  <2> QED
    BY <2>1, <2>2 DEF Fifo!vars
<1>3. CASE PutEnd
  <2>1. /\ wpc = "copy" /\ wpc' = "idle"
        /\ UNCHANGED <<rpc, numRead, out>>
    BY <1>3 DEF PutEnd, readerVars
  <2>2. \E s \in [1..numWritten -> Data] : Contents' = Contents \o s
    BY <1>3, <1>t, PutAppends
  <2>3. numWritten # -1
    BY <1>t
  <2>4. Fifo!PutEnd
    BY <2>1, <2>2, <2>3 DEF Fifo!PutEnd, Fifo!NoCall
  <2> QED
    BY <2>4 DEF Fifo!Next
<1>4. ASSUME NEW c \in Requests, NEW call \in {"get", "peek"},
             ReadBegin(call, c)
      PROVE  Fifo!Next
  <2>1. /\ rpc = "idle" /\ rpc' \in {"get", "peek"}
        /\ numRead' = Clamped(c, ReadAvailable)
        /\ UNCHANGED <<buffer, writeIndex, readIndex, wpc, numWritten>>
        /\ out' = <<>> /\ out = <<>>
    BY <1>4, <1>t DEF ReadBegin, writerVars, OutEmpty
  <2>2. Contents' = Contents
    BY <1>t, <2>1, ContentsKept
  <2>3. numRead' = Fifo!Granted(c, Len(Contents))
    BY <1>t, <2>1 DEF Clamped, Fifo!Granted
  <2>4. Fifo!GetBegin(c)
    BY <2>1, <2>2, <2>3 DEF Fifo!GetBegin, Fifo!NoCall
  <2> QED
    BY <2>4 DEF Fifo!Next
<1>5. CASE ReadElement
  <2>1. /\ rpc \in {"get", "peek"} /\ Len(out) < numRead
        /\ out' = Append(out, buffer[Slot(readIndex, Len(out))])
        /\ UNCHANGED <<buffer, writeIndex, readIndex, rpc, numRead, wpc,
                       numWritten>>
    BY <1>5 DEF ReadElement, writerVars
  <2>2. Contents' = Contents
    BY <1>t, <2>1, ContentsKept
  <2>3. Contents[Len(out) + 1] = buffer[Slot(readIndex, Len(out))]
    <3>1. PICK i \in Nat : i = Len(out)
      BY <1>t DEF TypeOK
    <3>2. i + 1 \in 1..ReadAvailable /\ (i + 1) - 1 = i
      BY <1>n, <1>t, <2>1, <3>1 DEF FifoInv, Inv, GrantsHold
    <3>3. Contents[i + 1] = buffer[Slot(readIndex, i)]
      BY <1>t, <3>2, ContentsSeq
    <3> QED
      BY <3>1, <3>3
  <2>4. numRead # -1
    BY <1>t
  <2>5. Fifo!GetElement
    BY <2>1, <2>2, <2>3, <2>4 DEF Fifo!GetElement, Fifo!NoCall
  <2> QED
    BY <2>5 DEF Fifo!Next
<1>6. ASSUME NEW c \in Requests, SkipBegin(c) PROVE UNCHANGED Fifo!vars
  <2>1. /\ rpc = "idle" /\ rpc' \in {"skip", "skipped"}
        /\ UNCHANGED <<buffer, writeIndex, readIndex, out, wpc, numWritten>>
    BY <1>6 DEF SkipBegin, writerVars
  <2>2. Contents' = Contents
    BY <1>t, <2>1, ContentsKept
  <2> QED
    BY <2>1, <2>2 DEF Fifo!vars
<1>7. CASE SkipClamp
  <2>1. /\ rpc = "skip" /\ rpc' = "skipped"
        /\ UNCHANGED <<buffer, writeIndex, readIndex, out, wpc, numWritten>>
    BY <1>7 DEF SkipClamp, writerVars
  <2>2. Contents' = Contents
    BY <1>t, <2>1, ContentsKept
  <2> QED
    BY <2>1, <2>2 DEF Fifo!vars
<1>8. CASE SkipEnd
  <2>1. /\ rpc = "skipped" /\ rpc' = "idle"
        /\ readIndex' = Advanced(readIndex, numRead)
        /\ UNCHANGED <<buffer, writeIndex, wpc, numWritten>>
        /\ out = <<>> /\ out' = <<>>
    BY <1>8, <1>t DEF SkipEnd, ReaderReturns, writerVars, OutEmpty
  <2>2. Contents' = SubSeq(Contents, numRead + 1, Len(Contents))
    BY <1>t, <2>1, TakeRemoves
  <2>3. numRead \in 0..Len(Contents)
    BY <1>n, <1>t DEF FifoInv, Inv, GrantsHold
  <2>4. Fifo!Skip(numRead)
    BY <2>1, <2>2 DEF Fifo!Skip, Fifo!NoCall
  <2> QED
    BY <2>3, <2>4 DEF Fifo!Next
<1>9. CASE GetEnd
  <2>1. /\ rpc = "get" /\ rpc' = "idle" /\ Len(out) = numRead /\ out' = <<>>
        /\ readIndex' = Advanced(readIndex, numRead)
        /\ UNCHANGED <<buffer, writeIndex, wpc, numWritten>>
    BY <1>9 DEF GetEnd, ReaderReturns, writerVars
  <2>2. Contents' = SubSeq(Contents, numRead + 1, Len(Contents))
    BY <1>t, <2>1, TakeRemoves
  <2>3. numRead # -1
    BY <1>t
  <2>4. Fifo!GetEnd(TRUE)
    BY <2>1, <2>2, <2>3 DEF Fifo!GetEnd, Fifo!NoCall
  <2> QED
    BY <2>4 DEF Fifo!Next
<1>10. CASE PeekEnd
  <2>1. /\ rpc = "peek" /\ rpc' = "idle" /\ Len(out) = numRead /\ out' = <<>>
        /\ UNCHANGED <<buffer, writeIndex, readIndex, wpc, numWritten>>
    BY <1>10 DEF PeekEnd, ReaderReturns, writerVars
  <2>2. Contents' = Contents
    BY <1>t, <2>1, ContentsKept
  <2>3. numRead # -1
    BY <1>t
  <2>4. Fifo!GetEnd(FALSE)
    BY <2>1, <2>2, <2>3 DEF Fifo!GetEnd, Fifo!NoCall
  <2> QED
    BY <2>4 DEF Fifo!Next
<1>11. CASE FlushRingBuffer
  <2>1. /\ wpc = "idle" /\ rpc = "idle" /\ writeIndex' = 0 /\ readIndex' = 0
        /\ UNCHANGED <<wpc, numWritten, rpc, numRead, out>>
    BY <1>11 DEF FlushRingBuffer, writerVars, readerVars
  <2>2. ReadAvailable' = 0
    BY <1>n, <2>1, DistanceValue DEF ReadAvailable, Indices
  <2>3. Contents' = <<>>
    BY <1>t, <2>2, ContentsSeqNext, EmptySeq
  <2>4. Fifo!Flush
    BY <2>1, <2>3 DEF Fifo!Flush, Fifo!NoCall
  <2> QED
    BY <2>4 DEF Fifo!Next
<1>12. CASE UNCHANGED vars
  <2>1. UNCHANGED <<buffer, writeIndex, readIndex, wpc, numWritten, rpc,
                    numRead, out>>
    BY <1>12 DEF vars, writerVars, readerVars
  <2>2. Contents' = Contents
    BY <1>t, <2>1, ContentsKept
  <2> QED
    BY <2>1, <2>2 DEF Fifo!vars
<1> QED
  BY <1>1, <1>2, <1>3, <1>4, <1>5, <1>6, <1>7, <1>8, <1>9, <1>10, <1>11,
     <1>12 DEF Next, Writer, Reader

(* putDataIntoBuffer, getDataFromBuffer, peekBuffer, skipDataInBuffer and   *)
(* FlushRingBuffer, copying element by element from two threads without a   *)
(* lock, behave as calls on a bounded first-in first-out queue.             *)
THEOREM ImplementsFifo == Spec => FifoSpec
BY FifoInit, FifoInvStep, FifoStep, PTL DEF Spec, FifoSpec, Fifo!Spec
=============================================================================
