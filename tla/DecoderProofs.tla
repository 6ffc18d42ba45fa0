--------------------------- MODULE DecoderProofs ---------------------------
(***************************************************************************)
(* What the decoders promise; they share no state.                         *)
(*                                                                         *)
(* Ft8Decoder, for every number of blocks, every limit on blocks_in, every *)
(* size of the cache, every set of messages and every bound: a block that  *)
(* is decoded is not written, no thread outlives its decoder, the          *)
(* unprotected blocks_in is wrong only when an update of it was lost, and  *)
(* the lines are decoded whole and in order, none shown twice in a row.    *)
(* The argument is the one for semaphores: what is free, what is used and  *)
(* what the two threads hold add up to the ring (SlotsAddUp), and the      *)
(* block to be written is as far in front of the block to be read as there *)
(* are blocks in between, modulo the size of the ring (IndicesApart).      *)
(* blocks_in plays no part in it: it only drops lines.  So what is in the  *)
(* blocks between the two indices stays as it was written (OrderInv).      *)
(*                                                                         *)
(* FaxDecoder, after it, for every length of a line, every number of       *)
(* lines and every limit: the types hold, and every sample has its place   *)
(* in faxLineBuffer and checkBuffer.  InBounds is nearly inductive: what   *)
(* it lacks is that a state with a counter is left when the counter is at  *)
(* its limit (Counters).                                                   *)
(*                                                                         *)
(* Decoders, at the end: in amtor, rtty, acars, cw and psk every register, *)
(* buffer and index keeps its range; the metrics of psk never overflow     *)
(* between two normalisations, because no two states are ever far apart    *)
(* (Spread) and the lowest one never falls; and the printer of acars is a  *)
(* queue, by the argument for semaphores again, this time as a refinement  *)
(* of MessageQueue.  That the text itself is the one that was sent is a    *)
(* matter of the messages and tables, and is left to the runs.             *)
(***************************************************************************)
EXTENDS Ft8Decoder, FaxDecoder, Decoders, SequenceTheorems, TLAPS

\* The blocks that the threads hold: taken from a semaphore and not given back.
HeldByGui == IF gpc \in {"load", "store", "label", "tones", "release"}
             THEN 1 ELSE 0
HeldByRun == IF ppc \in {"decode", "release"} THEN 1 ELSE 0

\* The indices move at other moments: before the release, and after it.
WrittenNotUsed == IF gpc = "release" THEN 1 ELSE 0

RingTypes ==
    /\ blocks_in \in Int /\ loaded \in Int /\ ploaded \in Int
    /\ gpc \in {"idle", "acquire", "load", "store", "label", "tones",
                "release", "join", "deleted", "terminated"}
    /\ ppc \in {"sleep", "test", "wait", "decode", "release", "load", "store",
                "advance", "show", "ended"}
    /\ freeSlots \in Nat /\ usedSlots \in Nat
    /\ blockToWrite \in Blocks /\ blockToRead \in Blocks
    /\ spoiled \in BOOLEAN

SlotsAddUp == freeSlots + usedSlots + HeldByGui + HeldByRun = nrBlocks

IndicesApart ==
    LET ahead == blockToRead + usedSlots + Taken + WrittenNotUsed - blockToWrite
    IN  ahead = 0 \/ ahead = nrBlocks \/ ahead = 2 * nrBlocks

NobodyLeft == gpc = "deleted" => ppc = "ended"

RingInv == RingTypes /\ SlotsAddUp /\ IndicesApart /\ NobodyLeft

-----------------------------------------------------------------------------
(* The index of the next block.                                            *)
LEMMA NextBlockValue ==
    ASSUME NEW b \in Blocks
    PROVE  /\ NextBlock(b) \in Blocks
           /\ NextBlock(b) = IF b + 1 < nrBlocks THEN b + 1 ELSE 0
<1>1. nrBlocks \in Nat /\ nrBlocks >= 1 /\ b \in 0 .. nrBlocks - 1
  BY Ft8Assumption DEF Blocks
<1>2. (b + 1) % nrBlocks = IF b + 1 < nrBlocks THEN b + 1 ELSE 0
  BY <1>1, SMTT(30)
<1> QED
  BY <1>1, <1>2 DEF NextBlock, Blocks

(* The ring is empty when the processor has been constructed.              *)
LEMMA RingInit == Ft8Init => RingInv
<1> SUFFICES ASSUME Ft8Init PROVE RingInv
  OBVIOUS
<1>1. RingTypes
  <2>1. 0 \in Blocks /\ nrBlocks \in Nat
    BY Ft8Assumption DEF Blocks
  <2>2. /\ freeSlots = nrBlocks /\ usedSlots = 0
        /\ blockToWrite = 0 /\ blockToRead = 0
        /\ blocks_in = 0 /\ loaded = 0 /\ ploaded = 0
    BY DEF Ft8Init
  <2>3. gpc = "idle" /\ ppc = "sleep" /\ spoiled \in BOOLEAN
    BY DEF Ft8Init
  <2> QED
    BY <2>1, <2>2, <2>3 DEF RingTypes
<1>2. SlotsAddUp /\ IndicesApart
  <2>1. HeldByGui = 0 /\ HeldByRun = 0 /\ Taken = 0 /\ WrittenNotUsed = 0
    BY DEF Ft8Init, HeldByGui, HeldByRun, Taken, WrittenNotUsed
  <2>2. /\ freeSlots = nrBlocks /\ usedSlots = 0
        /\ blockToWrite = 0 /\ blockToRead = 0
    BY DEF Ft8Init
  <2> QED
    BY <2>1, <2>2, Ft8Assumption DEF SlotsAddUp, IndicesApart
<1>3. NobodyLeft
  BY DEF Ft8Init, NobodyLeft
<1> QED
  BY <1>1, <1>2, <1>3 DEF RingInv

(* Each step of the two threads moves a block from one hand to the next.   *)
LEMMA RingStep == RingInv /\ [Ft8Next]_ft8Vars => RingInv'
<1> SUFFICES ASSUME RingInv, [Ft8Next]_ft8Vars
             PROVE  RingInv'
  OBVIOUS
<1> USE Ft8Assumption DEF RingInv, RingTypes, SlotsAddUp, IndicesApart,
        NobodyLeft, HeldByGui, HeldByRun, WrittenNotUsed, Taken
<1> DEFINE n == nrBlocks
<1>0. 0 \in Blocks /\ \A b \in Blocks : b \in Int
  BY DEF Blocks
<1>1. CASE PassOn
  BY <1>1 DEF PassOn, guiOnly, runVars, ringVars
<1>2. CASE Destructor
  BY <1>2 DEF Destructor, runVars, ringVars
<1>3. CASE Constructor
  BY <1>0, <1>3 DEF Constructor
<1>4. CASE TakesFree
  BY <1>4 DEF TakesFree, guiOnly, runVars
<1>5. CASE GivesUp
  BY <1>5 DEF GivesUp, guiOnly, runVars, ringVars
<1>6. CASE LoadsCount
  BY <1>6 DEF LoadsCount, guiOnly, runVars, ringVars
<1>7. CASE StoresCount
  BY <1>7 DEF StoresCount, guiOnly, runVars, ringVars
<1>8. CASE Labels
  BY <1>8 DEF Labels, guiOnly, runVars
<1>9. CASE FillsTones
  <2>1. /\ blockToWrite' \in Blocks
        /\ blockToWrite' = IF blockToWrite + 1 < n THEN blockToWrite + 1 ELSE 0
    BY <1>9, NextBlockValue DEF FillsTones
  <2>2. blockToWrite + 1 <= n /\ n \in Nat
    BY DEF Blocks
  <2>3. /\ gpc = "tones" /\ gpc' = "release" /\ ppc' = ppc
        /\ freeSlots' = freeSlots /\ usedSlots' = usedSlots
        /\ blockToRead' = blockToRead /\ blocks_in' = blocks_in
        /\ loaded' = loaded /\ ploaded' = ploaded /\ spoiled' = spoiled
    BY <1>9 DEF FillsTones, guiOnly, runVars
  <2>4. RingTypes' /\ SlotsAddUp' /\ NobodyLeft'
    BY <2>1, <2>3
  <2>5. IndicesApart'
    <3>1. Taken' = Taken /\ WrittenNotUsed = 0 /\ WrittenNotUsed' = 1
      BY <2>3
    <3>2. /\ Taken \in {0, 1} /\ usedSlots \in Nat /\ blockToRead \in Int
          /\ blockToWrite \in Int
      BY <1>0
    <3>3. blockToRead <= n - 1 /\ usedSlots <= n - 1
      BY <2>3 DEF Blocks
    <3> QED
      BY <2>1, <2>2, <2>3, <3>1, <3>2, <3>3
  <2> QED
    BY <2>4, <2>5
<1>10. CASE ReleasesUsed
  BY <1>0, <1>10 DEF ReleasesUsed, guiOnly, runVars
<1>11. CASE Joined
  BY <1>11 DEF Joined, runVars, ringVars
<1>12. CASE StartsRunning
  BY <1>12 DEF StartsRunning, runOnly, guiVars
<1>13. CASE TestsRunning
  BY <1>13 DEF TestsRunning, runOnly, guiVars
<1>14. CASE TakesUsed
  BY <1>0, <1>14 DEF TakesUsed, runOnly, guiVars
<1>15. CASE Ends
  BY <1>15 DEF Ends, runOnly, guiVars
<1>16. CASE Decodes
  BY <1>16 DEF Decodes, runOnly, guiVars
<1>17. CASE ReleasesFree
  BY <1>17 DEF ReleasesFree, runOnly, guiVars
<1>18. CASE RunLoadsCount
  BY <1>18 DEF RunLoadsCount, runOnly, guiVars
<1>19. CASE RunStoresCount
  BY <1>19 DEF RunStoresCount, runOnly, guiVars
<1>20. CASE Advances
  <2>1. /\ blockToRead' \in Blocks
        /\ blockToRead' = IF blockToRead + 1 < n THEN blockToRead + 1 ELSE 0
    BY <1>20, NextBlockValue DEF Advances
  <2>2. blockToRead + 1 <= n /\ n \in Nat
    BY DEF Blocks
  <2>3. /\ ppc = "advance" /\ ppc' \in {"test", "show"} /\ gpc' = gpc
        /\ freeSlots' = freeSlots /\ usedSlots' = usedSlots
        /\ blockToWrite' = blockToWrite /\ blocks_in' = blocks_in
        /\ loaded' = loaded /\ ploaded' = ploaded /\ spoiled' = spoiled
    BY <1>20 DEF Advances, runOnly, guiVars
  <2>4. RingTypes' /\ SlotsAddUp' /\ NobodyLeft'
    BY <2>1, <2>3
  <2>5. IndicesApart'
    <3>1. Taken = 1 /\ Taken' = 0 /\ WrittenNotUsed' = WrittenNotUsed
      BY <2>3
    <3>2. /\ WrittenNotUsed \in {0, 1} /\ usedSlots \in Nat
          /\ blockToRead \in Int /\ blockToWrite \in Int
      BY <1>0
    <3>3. blockToWrite <= n - 1 /\ usedSlots <= n
      BY <1>0 DEF Blocks
    <3> QED
      BY <2>1, <2>2, <2>3, <3>1, <3>2, <3>3
  <2> QED
    BY <2>4, <2>5
<1>21. CASE Shows
  BY <1>21 DEF Shows, runOnly, guiVars
<1>22. CASE UNCHANGED ft8Vars
  BY <1>22 DEF ft8Vars, guiVars, ringVars, runVars
<1> QED
  BY <1>1, <1>2, <1>3, <1>4, <1>5, <1>6, <1>7, <1>8, <1>9, <1>10, <1>11,
     <1>12, <1>13, <1>14, <1>15, <1>16, <1>17, <1>18, <1>19, <1>20, <1>21,
     <1>22 DEF Ft8Next, Gui, Run

\* The invariant of the ring holds always.
LEMMA RingAlways == Ft8Spec => []RingInv
BY RingInit, RingStep, PTL DEF Ft8Spec

-----------------------------------------------------------------------------
(* PassOn never writes the block that is being decoded, however wrong      *)
(* blocks_in is, and when a decoder has been deleted its thread has ended. *)
THEOREM Undisturbed == Ft8Spec => []DecodesUndisturbed
<1>1. RingInv => DecodesUndisturbed
  <2> SUFFICES ASSUME RingInv, ppc \in {"decode", "release"},
                      gpc \in {"label", "tones"}
               PROVE  blockToRead # blockToWrite
    BY DEF RingInv, NobodyLeft, DecodesUndisturbed
  <2>1. /\ Taken = 1 /\ WrittenNotUsed = 0 /\ HeldByGui = 1 /\ HeldByRun = 1
    BY DEF Taken, WrittenNotUsed, HeldByGui, HeldByRun
  <2>2. /\ blockToRead \in Int /\ blockToWrite \in Int
        /\ usedSlots \in Nat /\ freeSlots \in Nat
    BY DEF RingInv, RingTypes, Blocks
  <2>3. usedSlots <= nrBlocks - 2 /\ nrBlocks \in Nat
    BY <2>1, <2>2, Ft8Assumption DEF RingInv, SlotsAddUp
  <2>4. \/ blockToRead + usedSlots + 1 - blockToWrite = 0
        \/ blockToRead + usedSlots + 1 - blockToWrite = nrBlocks
        \/ blockToRead + usedSlots + 1 - blockToWrite = 2 * nrBlocks
    BY <2>1, <2>2, <2>3 DEF RingInv, IndicesApart
  <2> QED
    BY <2>2, <2>3, <2>4
<1> QED
  BY <1>1, RingAlways, PTL

-----------------------------------------------------------------------------
(* The count.  It needs that a decoder without a lost update is deleted     *)
(* with no blocks in, since blocks_in outlives it.                          *)
DeletedEmpty == gpc = "deleted" /\ ~spoiled => blocks_in = 0
CountInv == RingInv /\ CountIsExact /\ DeletedEmpty

\* Initially nothing is in the ring, and blocks_in is zero.
LEMMA CountInit == Ft8Init => CountInv
<1> SUFFICES ASSUME Ft8Init PROVE CountInv
  OBVIOUS
<1>1. CountIsExact /\ DeletedEmpty
  BY DEF Ft8Init, CountIsExact, DeletedEmpty
<1> QED
  BY <1>1, RingInit DEF CountInv

\* Every step keeps the invariant of blocks_in.
LEMMA CountStep == CountInv /\ [Ft8Next]_ft8Vars => CountInv'
<1> SUFFICES ASSUME CountInv, [Ft8Next]_ft8Vars
             PROVE  (CountIsExact /\ DeletedEmpty)'
  BY RingStep DEF CountInv
<1> USE DEF CountInv, RingInv, RingTypes, NobodyLeft, CountIsExact, DeletedEmpty
<1>1. CASE PassOn
  BY <1>1 DEF PassOn, guiOnly, runVars, ringVars
<1>2. CASE Destructor
  BY <1>2 DEF Destructor, runVars, ringVars
<1>3. CASE Constructor
  BY <1>3 DEF Constructor
<1>4. CASE TakesFree
  BY <1>4 DEF TakesFree, guiOnly, runVars
<1>5. CASE GivesUp
  BY <1>5 DEF GivesUp, guiOnly, runVars, ringVars
<1>6. CASE LoadsCount
  BY <1>6 DEF LoadsCount, guiOnly, runVars, ringVars
<1>7. CASE StoresCount
  <2>1. /\ gpc = "store" /\ gpc' = "label" /\ ppc' = ppc
        /\ blocks_in' = loaded + 1 /\ usedSlots' = usedSlots
        /\ spoiled' = (spoiled \/ blocks_in # loaded)
    BY <1>7 DEF StoresCount, guiOnly, runVars, ringVars
  <2>2. CASE spoiled \/ blocks_in # loaded
    BY <2>1, <2>2
  <2>3. CASE ~spoiled /\ blocks_in = loaded
    BY <2>1, <2>3
  <2> QED
    BY <2>2, <2>3
<1>8. CASE Labels
  BY <1>8 DEF Labels, guiOnly, runVars
<1>9. CASE FillsTones
  BY <1>9 DEF FillsTones, guiOnly, runVars
<1>10. CASE ReleasesUsed
  BY <1>10 DEF ReleasesUsed, guiOnly, runVars
<1>11. CASE Joined
  BY <1>11 DEF Joined, runVars, ringVars
<1>12. CASE StartsRunning
  BY <1>12 DEF StartsRunning, runOnly, guiVars
<1>13. CASE TestsRunning
  BY <1>13 DEF TestsRunning, runOnly, guiVars
<1>14. CASE TakesUsed
  BY <1>14 DEF TakesUsed, runOnly, guiVars
<1>15. CASE Ends
  BY <1>15 DEF Ends, runOnly, guiVars
<1>16. CASE Decodes
  BY <1>16 DEF Decodes, runOnly, guiVars
<1>17. CASE ReleasesFree
  BY <1>17 DEF ReleasesFree, runOnly, guiVars
<1>18. CASE RunLoadsCount
  BY <1>18 DEF RunLoadsCount, runOnly, guiVars
<1>19. CASE RunStoresCount
  <2>1. /\ ppc = "store" /\ ppc' = "advance" /\ gpc' = gpc
        /\ blocks_in' = ploaded - 1 /\ usedSlots' = usedSlots
        /\ spoiled' = (spoiled \/ blocks_in # ploaded)
    BY <1>19 DEF RunStoresCount, runOnly, guiVars
  <2>2. CASE spoiled \/ blocks_in # ploaded
    BY <2>1, <2>2
  <2>3. CASE ~spoiled /\ blocks_in = ploaded
    BY <2>1, <2>3
  <2> QED
    BY <2>2, <2>3
<1>20. CASE Advances
  BY <1>20 DEF Advances, runOnly, guiVars
<1>21. CASE Shows
  BY <1>21 DEF Shows, runOnly, guiVars
<1>22. CASE UNCHANGED ft8Vars
  BY <1>22 DEF ft8Vars, guiVars, ringVars, runVars
<1> QED
  BY <1>1, <1>2, <1>3, <1>4, <1>5, <1>6, <1>7, <1>8, <1>9, <1>10, <1>11,
     <1>12, <1>13, <1>14, <1>15, <1>16, <1>17, <1>18, <1>19, <1>20, <1>21,
     <1>22 DEF Ft8Next, Gui, Run

(* blocks_in is what it should be as long as no update of it was lost and  *)
(* no decoder was deleted with blocks in.                                  *)
THEOREM CountExact == Ft8Spec => []CountIsExact
<1>1. CountInv => CountIsExact
  BY DEF CountInv
<1> QED
  BY <1>1, CountInit, CountStep, PTL DEF Ft8Spec

-----------------------------------------------------------------------------
(* The order.  From the block after one that has been given back on, up to *)
(* the one that is about to be passed on, the blocks hold what was written *)
(* in them: both halves of a block from one line, each line newer than the *)
(* one before and than the one decoded last, and none newer than the line  *)
(* counted last, which itself is in a block only when its tones are.       *)
FirstWhole == IF ppc \in {"load", "store", "advance"} THEN 1 ELSE 0
Whole == FirstWhole .. (usedSlots + Taken + WrittenNotUsed - 1)
Undecoded == IF ppc = "decode" THEN Whole ELSE Whole \ {Taken - 1}

\* The line that is being passed on, and not yet in a block.
OnItsWay == gpc \in {"acquire", "load", "store", "label", "tones"}
Passed == IF OnItsWay THEN lineCounter - 1 ELSE lineCounter

OrderTypes ==
    /\ theBuffer \in [Blocks -> [label : Nat, tones : Nat]]
    /\ lineCounter \in 0..MaxLines
    /\ line \in 0..Passed
    /\ OnItsWay => lineCounter > 0

BlocksWhole ==
    \A k \in Whole : /\ InUse(k).label = InUse(k).tones
                     /\ InUse(k).tones \in 1..Passed
BlocksIncrease ==
    \A j, k \in Whole : j < k => InUse(j).tones < InUse(k).tones
NewerThanDecoded == \A k \in Undecoded : InUse(k).tones > line
LabelWritten ==
    gpc = "tones" => theBuffer[blockToWrite].label = lineCounter

\* The cache knows the message shown last, so the next one is another.
LastShown == shown[Len(shown)].message
Received ==
    /\ theCache \in Seq(Messages \cup {NoMessage})
    /\ Len(theCache) = CacheSize
    /\ shown \in Seq([message : Messages, line : Nat, label : Nat])
    /\ message \in Messages \cup {NoMessage}
    /\ ppc = "show" => message \in Messages
LastIsKnown == shown # <<>> => Known(LastShown)
NoneTwice ==
    \A k \in 1..(Len(shown) - 1) : shown[k].message # shown[k + 1].message

OrderInv == /\ OrderTypes /\ BlocksWhole /\ BlocksIncrease
            /\ NewerThanDecoded /\ LabelWritten
CacheInv == Received /\ LastIsKnown /\ NoneTwice

-----------------------------------------------------------------------------
(* Where the blocks lie.                                                    *)
LEMMA PositionValue ==
    ASSUME NEW b \in Blocks, NEW k \in 0..nrBlocks
    PROVE  /\ (b + k) % nrBlocks \in Blocks
           /\ (b + k) % nrBlocks =
                 IF b + k < nrBlocks THEN b + k ELSE b + k - nrBlocks
<1>1. nrBlocks \in Nat /\ nrBlocks >= 1 /\ b \in 0 .. nrBlocks - 1
  BY Ft8Assumption DEF Blocks
<1>2. ASSUME NEW n \in Nat, n >= 1, NEW x \in 0 .. 2 * n - 1
      PROVE  x % n = IF x < n THEN x ELSE x - n
  BY <1>2, SMTT(30)
<1> DEFINE x == b + k
<1>3. x \in 0 .. 2 * nrBlocks - 1
  BY <1>1
<1>4. x % nrBlocks = IF x < nrBlocks THEN x ELSE x - nrBlocks
  <2> HIDE DEF x
  <2> QED BY <1>1, <1>2, <1>3
<1> QED
  BY <1>1, <1>3, <1>4 DEF Blocks

(* The blocks that are whole fit in the ring.                               *)
LEMMA WholeInRing ==
    ASSUME RingInv
    PROVE  /\ Taken \in {0, 1} /\ WrittenNotUsed \in {0, 1}
           /\ usedSlots \in Nat /\ FirstWhole \in {0, 1} /\ FirstWhole <= Taken
           /\ Whole \subseteq 0..nrBlocks
           /\ \A k \in Whole : (blockToRead + k) % nrBlocks \in Blocks
<1>1. /\ Taken \in {0, 1} /\ WrittenNotUsed \in {0, 1}
      /\ FirstWhole \in {0, 1} /\ FirstWhole <= Taken
  BY DEF Taken, WrittenNotUsed, FirstWhole
<1>2. /\ usedSlots \in Nat /\ freeSlots \in Nat /\ nrBlocks \in Nat
      /\ blockToRead \in Blocks
  BY Ft8Assumption DEF RingInv, RingTypes
<1>3. usedSlots + Taken + WrittenNotUsed - 1 <= nrBlocks
  BY <1>2 DEF RingInv, SlotsAddUp, Taken, WrittenNotUsed, HeldByGui, HeldByRun
<1>4. Whole \subseteq 0..nrBlocks
  BY <1>1, <1>2, <1>3 DEF Whole
<1> QED
  BY <1>1, <1>2, <1>4, PositionValue

(* The block that PassOn writes is the next one after those that are whole. *)
LEMMA WrittenIsNext ==
    ASSUME RingInv, gpc \in {"label", "tones"}
    PROVE  /\ blockToWrite = (blockToRead + (usedSlots + Taken)) % nrBlocks
           /\ usedSlots + Taken \in 0..nrBlocks
           /\ \A k \in Whole : (blockToRead + k) % nrBlocks # blockToWrite
<1> DEFINE n == nrBlocks
           b == blockToRead
           d == usedSlots + Taken
<1>1. /\ n \in Nat /\ n >= 1 /\ b \in 0 .. n - 1 /\ blockToWrite \in 0 .. n - 1
      /\ b \in Blocks
  BY Ft8Assumption DEF RingInv, RingTypes, Blocks
<1>2. /\ WrittenNotUsed = 0 /\ HeldByGui = 1
      /\ Taken = FirstWhole + HeldByRun /\ HeldByRun \in {0, 1}
      /\ FirstWhole \in {0, 1}
  BY DEF WrittenNotUsed, HeldByGui, Taken, FirstWhole, HeldByRun
<1>3. usedSlots \in Nat /\ usedSlots + HeldByRun <= n - 1
  BY <1>1, <1>2 DEF RingInv, RingTypes, SlotsAddUp
<1>4. d \in 0..n /\ d - FirstWhole <= n - 1
  BY <1>1, <1>2, <1>3
<1>5. \/ b + d - blockToWrite = 0
      \/ b + d - blockToWrite = n
      \/ b + d - blockToWrite = 2 * n
  BY <1>1, <1>2, <1>3 DEF RingInv, IndicesApart
<1>6. (b + d) % n = IF b + d < n THEN b + d ELSE b + d - n
  BY <1>1, <1>4, PositionValue
<1>7. blockToWrite = (b + d) % n
  <2> HIDE DEF b, d, n
  <2> QED BY <1>1, <1>4, <1>5, <1>6
<1>8. ASSUME NEW k \in Whole PROVE (b + k) % n # blockToWrite
  <2>1. k \in FirstWhole .. d - 1 /\ k \in 0..n
    BY <1>1, <1>2, <1>3, <1>4 DEF Whole
  <2>2. (b + k) % n = IF b + k < n THEN b + k ELSE b + k - n
    BY <1>1, <2>1, PositionValue
  <2> HIDE DEF b, d, n
  <2> QED BY <1>1, <1>2, <1>4, <1>6, <1>7, <2>1, <2>2
<1> QED
  BY <1>4, <1>7, <1>8

(* A step that leaves the blocks that stay whole as they are, decodes none  *)
(* and takes no count back keeps them in order.                             *)
LEMMA OrderKept ==
    ASSUME OrderInv, Passed \in Nat, Passed' \in Nat, Passed <= Passed',
           Whole' \subseteq Whole, Undecoded' \subseteq Undecoded, line' = line,
           \A k \in Whole' : theBuffer'[(blockToRead' + k) % nrBlocks]
                               = theBuffer[(blockToRead + k) % nrBlocks]
    PROVE  (BlocksWhole /\ BlocksIncrease /\ NewerThanDecoded)'
<1>1. \A k \in Whole' : InUse(k)' = InUse(k)
  BY DEF InUse
<1>2. BlocksWhole'
  <2> SUFFICES ASSUME NEW k \in Whole'
               PROVE  /\ InUse(k)'.label = InUse(k)'.tones
                      /\ InUse(k)'.tones \in 1..Passed'
    BY DEF BlocksWhole
  <2>1. InUse(k).label = InUse(k).tones /\ InUse(k).tones \in 1..Passed
    BY DEF OrderInv, BlocksWhole
  <2> QED
    BY <1>1, <2>1
<1>3. BlocksIncrease'
  <2> SUFFICES ASSUME NEW j \in Whole', NEW k \in Whole', j < k
               PROVE  InUse(j)'.tones < InUse(k)'.tones
    BY DEF BlocksIncrease
  <2>1. InUse(j).tones < InUse(k).tones
    BY DEF OrderInv, BlocksIncrease
  <2> QED
    BY <1>1, <2>1
<1>4. NewerThanDecoded'
  <2> SUFFICES ASSUME NEW k \in Undecoded'
               PROVE  InUse(k)'.tones > line'
    BY DEF NewerThanDecoded
  <2>1. k \in Whole' /\ InUse(k).tones > line
    BY DEF OrderInv, NewerThanDecoded, Undecoded
  <2> QED
    BY <1>1, <2>1
<1> QED
  BY <1>2, <1>3, <1>4

(* An empty ring has nothing out of order.                                  *)
LEMMA OrderInit == Ft8Init => OrderInv
<1> SUFFICES ASSUME Ft8Init PROVE OrderInv
  OBVIOUS
<1>1. /\ Taken = 0 /\ WrittenNotUsed = 0 /\ FirstWhole = 0 /\ usedSlots = 0
      /\ ~OnItsWay /\ gpc = "idle" /\ lineCounter = 0 /\ line = 0
      /\ theBuffer = EmptyRing /\ ppc = "sleep"
  BY DEF Ft8Init, Taken, WrittenNotUsed, FirstWhole, OnItsWay, NoLine
<1>2. Whole = {} /\ Undecoded = {} /\ Passed = 0
  BY <1>1 DEF Whole, Undecoded, Passed
<1>3. OrderTypes
  BY <1>1, <1>2, Ft8Assumption DEF OrderTypes, EmptyRing, NoLine
<1> QED
  BY <1>1, <1>2, <1>3
  DEF OrderInv, BlocksWhole, BlocksIncrease, NewerThanDecoded, LabelWritten

(* The GUI thread writes the block after those that are whole, label first, *)
(* and the processor takes the oldest.                                      *)
LEMMA OrderStep == RingInv /\ OrderInv /\ [Ft8Next]_ft8Vars => OrderInv'
<1> SUFFICES ASSUME RingInv, OrderInv, [Ft8Next]_ft8Vars
             PROVE  OrderInv'
  OBVIOUS
<1>a. /\ MaxLines \in Nat /\ lineCounter \in 0..MaxLines
      /\ line \in 0..Passed /\ Passed \in Nat
      /\ theBuffer \in [Blocks -> [label : Nat, tones : Nat]]
      /\ OnItsWay => lineCounter > 0
  BY Ft8Assumption DEF OrderInv, OrderTypes, Passed, OnItsWay
<1>b. usedSlots \in Nat
  BY DEF RingInv, RingTypes
\* Steps that change none of the blocks.
<1>1. CASE PassOn
  <2>1. /\ UNCHANGED <<theBuffer, blockToRead, usedSlots, ppc, line>>
        /\ gpc = "idle" /\ gpc' \in {"idle", "acquire"}
        /\ lineCounter' = lineCounter + 1 /\ lineCounter < MaxLines
    BY <1>1 DEF PassOn, guiOnly, runVars, ringVars
  <2>2. Whole' = Whole /\ Undecoded' = Undecoded
    BY <2>1 DEF Whole, Undecoded, FirstWhole, Taken, WrittenNotUsed
  <2>3. Passed' \in Nat /\ Passed <= Passed' /\ OrderTypes'
    BY <1>a, <2>1 DEF OrderTypes, Passed, OnItsWay
  <2>4. (BlocksWhole /\ BlocksIncrease /\ NewerThanDecoded)'
    BY <1>a, <2>1, <2>2, <2>3, OrderKept
  <2> QED
    BY <2>1, <2>3, <2>4 DEF OrderInv, LabelWritten
<1>2. CASE \/ TakesFree \/ LoadsCount \/ StoresCount \/ GivesUp
           \/ ReleasesUsed \/ Joined \/ Destructor
  <2>1. UNCHANGED <<theBuffer, blockToRead, ppc, line, lineCounter>>
    BY <1>2 DEF TakesFree, LoadsCount, StoresCount, GivesUp, ReleasesUsed,
        Joined, Destructor, guiOnly, runVars, ringVars
  <2>2. /\ OnItsWay' => OnItsWay
        /\ gpc # "tones" /\ gpc' # "tones"
    BY <1>2 DEF TakesFree, LoadsCount, StoresCount, GivesUp,
        ReleasesUsed, Joined, Destructor, OnItsWay
  <2>6. \/ usedSlots' = usedSlots /\ WrittenNotUsed' = WrittenNotUsed
        \/ /\ usedSlots' = usedSlots + 1
           /\ WrittenNotUsed = 1 /\ WrittenNotUsed' = 0
    BY <1>2, <1>b DEF TakesFree, LoadsCount, StoresCount, GivesUp,
        ReleasesUsed, Joined, Destructor, guiOnly, ringVars, WrittenNotUsed
  <2>3. Whole' = Whole /\ Undecoded' = Undecoded
    <3>1. Taken' = Taken /\ FirstWhole' = FirstWhole /\ Taken \in {0, 1}
      BY <2>1 DEF Taken, FirstWhole
    <3>3. usedSlots' + Taken' + WrittenNotUsed' - 1
            = usedSlots + Taken + WrittenNotUsed - 1
      BY <1>b, <2>6, <3>1
    <3>4. Whole' = Whole
      BY <3>1, <3>3 DEF Whole
    <3> QED
      BY <2>1, <3>1, <3>4 DEF Undecoded
  <2>4. Passed' \in Nat /\ Passed <= Passed' /\ OrderTypes'
    BY <1>a, <2>1, <2>2 DEF OrderTypes, Passed
  <2>5. (BlocksWhole /\ BlocksIncrease /\ NewerThanDecoded)'
    BY <1>a, <2>1, <2>3, <2>4, OrderKept
  <2> QED
    BY <2>2, <2>4, <2>5 DEF OrderInv, LabelWritten
<1>3. CASE \/ StartsRunning \/ TestsRunning \/ Ends \/ RunLoadsCount
           \/ RunStoresCount \/ Shows \/ TakesUsed
  <2>1. /\ UNCHANGED <<theBuffer, blockToRead, blockToWrite, gpc, line,
                       lineCounter>>
        /\ \/ usedSlots' = usedSlots /\ Taken' = Taken
           \/ usedSlots' = usedSlots - 1 /\ Taken = 0 /\ Taken' = 1
        /\ FirstWhole' = FirstWhole
    BY <1>3, <1>b DEF StartsRunning, TestsRunning, Ends, RunLoadsCount,
        RunStoresCount, Shows, TakesUsed, runOnly, guiVars, Taken, FirstWhole
  <2>2. Whole' = Whole
    <3>3. usedSlots' + Taken' + WrittenNotUsed' - 1
            = usedSlots + Taken + WrittenNotUsed - 1
      BY <1>b, <2>1 DEF WrittenNotUsed
    <3> QED
      BY <2>1, <3>3 DEF Whole
  <2>3. Undecoded' = Undecoded
    <3>1. \/ ppc' = "decode" /\ Taken = 0 /\ ppc # "decode"
          \/ ppc' # "decode" /\ ppc # "decode" /\ Taken' = Taken
      BY <1>3 DEF StartsRunning, TestsRunning, Ends, RunLoadsCount,
         RunStoresCount, Shows, TakesUsed, Taken
    <3>2. -1 \notin Whole
      BY <1>b DEF Whole, FirstWhole, Taken, WrittenNotUsed
    <3>3. CASE ppc' = "decode" /\ Taken = 0 /\ ppc # "decode"
      <4>1. Undecoded' = Whole'
        BY <3>3 DEF Undecoded
      <4>2. Undecoded = Whole \ {-1}
        BY <3>3 DEF Undecoded
      <4>3. Whole \ {-1} = Whole
        BY <3>2
      <4> QED
        BY <2>2, <4>1, <4>2, <4>3
    <3>4. CASE ppc' # "decode" /\ ppc # "decode" /\ Taken' = Taken
      <4>1. Undecoded' = Whole' \ {Taken' - 1}
        BY <3>4 DEF Undecoded
      <4>2. Undecoded = Whole \ {Taken - 1}
        BY <3>4 DEF Undecoded
      <4> QED
        BY <2>2, <3>4, <4>1, <4>2
    <3> QED
      BY <3>1, <3>3, <3>4
  <2>4. Passed' = Passed /\ OrderTypes'
    BY <1>a, <2>1 DEF OrderTypes, Passed, OnItsWay
  <2>5. (BlocksWhole /\ BlocksIncrease /\ NewerThanDecoded)'
    BY <1>a, <2>1, <2>2, <2>3, <2>4, OrderKept
  <2> QED
    BY <2>1, <2>4, <2>5 DEF OrderInv, LabelWritten
<1>4. CASE ReleasesFree
  <2>1. /\ UNCHANGED <<theBuffer, blockToRead, blockToWrite, gpc, line,
                       lineCounter, usedSlots>>
        /\ ppc = "release" /\ ppc' = "load"
    BY <1>4 DEF ReleasesFree, runOnly, guiVars
  <2>2. Whole' \subseteq Whole /\ Undecoded' \subseteq Undecoded
    BY <1>b, <2>1 DEF Whole, Undecoded, FirstWhole, Taken, WrittenNotUsed
  <2>3. Passed' = Passed /\ OrderTypes'
    BY <1>a, <2>1 DEF OrderTypes, Passed, OnItsWay
  <2>4. (BlocksWhole /\ BlocksIncrease /\ NewerThanDecoded)'
    BY <1>a, <2>1, <2>2, <2>3, OrderKept
  <2> QED
    BY <2>1, <2>3, <2>4 DEF OrderInv, LabelWritten
<1>5. CASE UNCHANGED ft8Vars
  <2>1. /\ UNCHANGED <<theBuffer, blockToRead, blockToWrite, gpc, line,
                       lineCounter, usedSlots, ppc>>
    BY <1>5 DEF ft8Vars, guiVars, ringVars, runVars
  <2>2. Whole' = Whole /\ Undecoded' = Undecoded
    BY <2>1 DEF Whole, Undecoded, FirstWhole, Taken, WrittenNotUsed
  <2>3. Passed' = Passed /\ OrderTypes'
    BY <1>a, <2>1 DEF OrderTypes, Passed, OnItsWay
  <2>4. (BlocksWhole /\ BlocksIncrease /\ NewerThanDecoded)'
    BY <1>a, <2>1, <2>2, <2>3, OrderKept
  <2> QED
    BY <2>1, <2>3, <2>4 DEF OrderInv, LabelWritten
\* A new decoder has a new ring.
<1>6. CASE Constructor
  <2>1. /\ gpc' = "idle" /\ lineCounter' = 0 /\ line' = 0 /\ usedSlots' = 0
        /\ theBuffer' = EmptyRing /\ ppc' = "sleep"
    BY <1>6 DEF Constructor, NoLine
  <2>2. Whole' = {} /\ Undecoded' = {} /\ Passed' = 0
    BY <2>1 DEF Whole, Undecoded, FirstWhole, Taken, WrittenNotUsed, Passed,
        OnItsWay
  <2>3. OrderTypes'
    BY <1>a, <2>1, <2>2 DEF OrderTypes, EmptyRing, NoLine, OnItsWay
  <2> QED
    BY <2>1, <2>2, <2>3
    DEF OrderInv, BlocksWhole, BlocksIncrease, NewerThanDecoded, LabelWritten
\* The label of the next block.
<1>7. CASE Labels
  <2>1. /\ UNCHANGED <<blockToRead, blockToWrite, ppc, line, lineCounter,
                       usedSlots>>
        /\ gpc = "label" /\ gpc' = "tones"
        /\ theBuffer' = [theBuffer EXCEPT ![blockToWrite].label = lineCounter]
    BY <1>7 DEF Labels, guiOnly, runVars
  <2>2. Whole' = Whole /\ Undecoded' = Undecoded
    BY <2>1 DEF Whole, Undecoded, FirstWhole, Taken, WrittenNotUsed
  <2>3. blockToWrite \in Blocks
    BY DEF RingInv, RingTypes
  <2>4. Passed' = Passed /\ OrderTypes' /\ LabelWritten'
    BY <1>a, <2>1, <2>3 DEF OrderTypes, Passed, OnItsWay, LabelWritten
  <2>5. \A k \in Whole : theBuffer'[(blockToRead + k) % nrBlocks]
                           = theBuffer[(blockToRead + k) % nrBlocks]
    BY <1>a, <2>1, WholeInRing, WrittenIsNext
  <2>6. (BlocksWhole /\ BlocksIncrease /\ NewerThanDecoded)'
    BY <1>a, <2>1, <2>2, <2>4, <2>5, OrderKept
  <2> QED
    BY <2>4, <2>6 DEF OrderInv
\* Its tones, with which it becomes the newest block.
<1>8. CASE FillsTones
  <2>1. /\ UNCHANGED <<blockToRead, ppc, line, lineCounter, usedSlots>>
        /\ gpc = "tones" /\ gpc' = "release"
        /\ theBuffer' = [theBuffer EXCEPT ![blockToWrite].tones = lineCounter]
    BY <1>8 DEF FillsTones, guiOnly, runVars
  <2>n. PICK new \in 0..nrBlocks : new = usedSlots + Taken
    BY <2>1, WrittenIsNext
  <2>2. blockToWrite \in Blocks /\ theBuffer[blockToWrite].label = lineCounter
    BY <2>1 DEF RingInv, RingTypes, OrderInv, LabelWritten
  <2>3. /\ Whole' = Whole \cup {new} /\ new \notin Whole
        /\ \A k \in Whole : k < new
        /\ Undecoded' \subseteq Undecoded \cup {new}
    BY <1>b, <2>1, <2>n DEF Whole, Undecoded, FirstWhole, Taken, WrittenNotUsed
  <2>4. Passed = lineCounter - 1 /\ Passed' = lineCounter /\ lineCounter \in Nat
    BY <1>a, <2>1 DEF Passed, OnItsWay
  <2>5. OrderTypes' /\ LabelWritten'
    BY <1>a, <2>1, <2>2, <2>4 DEF OrderTypes, OnItsWay, LabelWritten
  <2>6. \A k \in Whole : InUse(k)' = InUse(k)
    BY <1>a, <2>1, WholeInRing, WrittenIsNext DEF InUse
  <2>7. InUse(new)'.label = lineCounter /\ InUse(new)'.tones = lineCounter
    <3>1. (blockToRead + new) % nrBlocks = blockToWrite
      BY <2>1, <2>n, WrittenIsNext
    <3>2. InUse(new)' = theBuffer'[blockToWrite]
      BY <2>1, <3>1 DEF InUse
    <3> QED
      BY <1>a, <2>1, <2>2, <3>2
  <2>8. BlocksWhole'
    <3> SUFFICES ASSUME NEW k \in Whole'
                 PROVE  /\ InUse(k)'.label = InUse(k)'.tones
                        /\ InUse(k)'.tones \in 1..lineCounter
      BY <2>4 DEF BlocksWhole
    <3>1. CASE k = new
      BY <2>1, <2>4, <2>7, <3>1, <1>a DEF OnItsWay
    <3>2. CASE k \in Whole
      <4>1. InUse(k).label = InUse(k).tones /\ InUse(k).tones \in 1..Passed
        BY <3>2 DEF OrderInv, BlocksWhole
      <4> QED
        BY <2>4, <2>6, <3>2, <4>1
    <3> QED
      BY <2>3, <3>1, <3>2
  <2>9. BlocksIncrease'
    <3> SUFFICES ASSUME NEW j \in Whole', NEW k \in Whole', j < k
                 PROVE  InUse(j)'.tones < InUse(k)'.tones
      BY DEF BlocksIncrease
    <3>1. j \in Whole
      BY <1>b, <2>3 DEF Whole, Taken, FirstWhole, WrittenNotUsed
    <3>2. InUse(j).tones \in 1..Passed
      BY <3>1 DEF OrderInv, BlocksWhole
    <3>3. CASE k = new
      BY <2>4, <2>6, <2>7, <3>1, <3>2, <3>3
    <3>4. CASE k \in Whole
      <4>1. InUse(j).tones < InUse(k).tones
        BY <3>1, <3>4 DEF OrderInv, BlocksIncrease
      <4> QED
        BY <2>6, <3>1, <3>4, <4>1
    <3> QED
      BY <2>3, <3>3, <3>4
  <2>10. NewerThanDecoded'
    <3> SUFFICES ASSUME NEW k \in Undecoded'
                 PROVE  InUse(k)'.tones > line
      BY <2>1 DEF NewerThanDecoded
    <3>1. CASE k = new
      BY <1>a, <2>4, <2>7, <3>1
    <3>2. CASE k \in Undecoded
      <4>1. k \in Whole /\ InUse(k).tones > line
        BY <3>2 DEF OrderInv, NewerThanDecoded, Undecoded
      <4> QED
        BY <2>6, <4>1
    <3> QED
      BY <2>3, <3>1, <3>2
  <2> QED
    BY <2>5, <2>8, <2>9, <2>10 DEF OrderInv
\* The oldest block is decoded: the others are newer.
<1>9. CASE Decodes
  <2>1. /\ UNCHANGED <<theBuffer, blockToRead, blockToWrite, gpc, lineCounter,
                       usedSlots>>
        /\ ppc = "decode" /\ ppc' = "release"
        /\ line' = theBuffer[blockToRead].tones
    BY <1>9 DEF Decodes, runOnly, guiVars
  <2>2. Whole' = Whole /\ Undecoded' = Whole \ {0} /\ 0 \in Whole
    BY <1>b, <2>1 DEF Whole, Undecoded, FirstWhole, Taken, WrittenNotUsed
  <2>3. line' = InUse(0).tones
    <3>1. blockToRead \in Blocks /\ nrBlocks \in Nat
      BY Ft8Assumption DEF RingInv, RingTypes
    <3>2. PICK k \in 0..nrBlocks : k = 0
      BY <3>1
    <3>3. (blockToRead + k) % nrBlocks = blockToRead
      <4> DEFINE p == (blockToRead + k) % nrBlocks
      <4>1. p = IF blockToRead + k < nrBlocks THEN blockToRead + k
                ELSE blockToRead + k - nrBlocks
        BY <3>1, PositionValue
      <4> HIDE DEF p
      <4>2. p = blockToRead
        BY <3>1, <3>2, <4>1 DEF Blocks
      <4> QED
        BY <4>2 DEF p
    <3>4. InUse(k) = theBuffer[blockToRead]
      BY <3>3 DEF InUse
    <3> QED
      BY <2>1, <3>2, <3>4
  <2>4. Passed' = Passed /\ OrderTypes'
    <3>1. InUse(0).tones \in 1..Passed
      BY <2>2 DEF OrderInv, BlocksWhole
    <3> QED
      BY <1>a, <2>1, <2>3, <3>1 DEF OrderTypes, Passed, OnItsWay
  <2>5. \A k : InUse(k)' = InUse(k)
    BY <2>1 DEF InUse
  <2>6. BlocksWhole' /\ BlocksIncrease'
    BY <2>2, <2>4, <2>5 DEF OrderInv, BlocksWhole, BlocksIncrease
  <2>7. NewerThanDecoded'
    <3> SUFFICES ASSUME NEW k \in Whole, k # 0
                 PROVE  InUse(k).tones > InUse(0).tones
      BY <2>2, <2>3, <2>5 DEF NewerThanDecoded
    <3>1. 0 < k
      BY <1>b DEF Whole, FirstWhole, Taken, WrittenNotUsed
    <3>2. /\ InUse(0).tones \in 1..Passed /\ InUse(k).tones \in 1..Passed
          /\ InUse(0).tones < InUse(k).tones
      BY <2>2, <3>1 DEF OrderInv, BlocksWhole, BlocksIncrease
    <3> QED
      BY <1>a, <3>2
  <2> QED
    BY <2>1, <2>4, <2>6, <2>7 DEF OrderInv, LabelWritten
\* The block that was given back is left behind: the others come a place
\* nearer.
<1>10. CASE Advances
  <2>1. /\ UNCHANGED <<theBuffer, blockToWrite, gpc, lineCounter, usedSlots,
                       line>>
        /\ ppc = "advance" /\ ppc' \in {"test", "show"}
        /\ blockToRead' = NextBlock(blockToRead)
    BY <1>10 DEF Advances, runOnly, guiVars
  <2>2. /\ \A k \in Whole' : k + 1 \in Whole
        /\ Whole' \subseteq Nat
        /\ Undecoded' = Whole' /\ Undecoded = Whole
    <3>1. WrittenNotUsed \in Int /\ WrittenNotUsed' = WrittenNotUsed
      BY <2>1 DEF WrittenNotUsed
    <3>2. Whole = 1 .. usedSlots + 1 + WrittenNotUsed - 1
      BY <2>1 DEF Whole, FirstWhole, Taken
    <3>3. Whole' = 0 .. usedSlots + 0 + WrittenNotUsed - 1
      BY <2>1, <3>1 DEF Whole, FirstWhole, Taken
    <3>4. Undecoded = Whole \ {0} /\ Undecoded' = Whole' \ {-1}
      BY <2>1 DEF Undecoded, Taken
    <3> QED
      BY <1>b, <3>1, <3>2, <3>3, <3>4
  <2>3. Passed' = Passed /\ OrderTypes'
    BY <1>a, <2>1 DEF OrderTypes, Passed, OnItsWay
  <2>4. ASSUME NEW k \in Whole' PROVE InUse(k)' = InUse(k + 1)
    <3> DEFINE b == blockToRead
               n == nrBlocks
    <3>1. /\ b \in Blocks /\ n \in Nat /\ n >= 1 /\ b \in 0 .. n - 1
          /\ NextBlock(b) \in Blocks
          /\ NextBlock(b) = IF b + 1 < n THEN b + 1 ELSE 0
      BY Ft8Assumption, NextBlockValue DEF RingInv, RingTypes, Blocks
    <3>2. k \in 0..n /\ k + 1 \in 0..n
      BY <2>2, <3>1, WholeInRing
    <3>3. (b + (k + 1)) % n = IF b + (k + 1) < n THEN b + (k + 1)
                              ELSE b + (k + 1) - n
      BY <3>1, <3>2, PositionValue
    <3>4. (NextBlock(b) + k) % n = IF NextBlock(b) + k < n THEN NextBlock(b) + k
                                   ELSE NextBlock(b) + k - n
      BY <3>1, <3>2, PositionValue
    <3>5. (NextBlock(b) + k) % n = (b + (k + 1)) % n
      <4> DEFINE c == NextBlock(b)
                 p == (c + k) % n
                 q == (b + (k + 1)) % n
      <4> HIDE DEF b, c, n, p, q
      <4>1. p = q
        BY <3>1, <3>2, <3>3, <3>4 DEF c, p, q
      <4> QED
        BY <4>1 DEF c, p, q
    <3> QED
      BY <2>1, <3>5 DEF InUse
  <2>5. BlocksWhole'
    <3> SUFFICES ASSUME NEW k \in Whole'
                 PROVE  /\ InUse(k)'.label = InUse(k)'.tones
                        /\ InUse(k)'.tones \in 1..Passed
      BY <2>3 DEF BlocksWhole
    <3>1. /\ InUse(k + 1).label = InUse(k + 1).tones
          /\ InUse(k + 1).tones \in 1..Passed
      BY <2>2 DEF OrderInv, BlocksWhole
    <3> QED
      BY <2>4, <3>1
  <2>6. BlocksIncrease'
    <3> SUFFICES ASSUME NEW j \in Whole', NEW k \in Whole', j < k
                 PROVE  InUse(j)'.tones < InUse(k)'.tones
      BY DEF BlocksIncrease
    <3>1. j + 1 \in Whole /\ k + 1 \in Whole /\ j + 1 < k + 1
      BY <2>2
    <3>2. InUse(j + 1).tones < InUse(k + 1).tones
      BY <3>1 DEF OrderInv, BlocksIncrease
    <3> QED
      BY <2>4, <3>2
  <2>7. NewerThanDecoded'
    <3> SUFFICES ASSUME NEW k \in Whole'
                 PROVE  InUse(k)'.tones > line
      BY <2>1, <2>2 DEF NewerThanDecoded
    <3>1. InUse(k + 1).tones > line
      BY <2>2 DEF OrderInv, NewerThanDecoded
    <3> QED
      BY <2>4, <3>1
  <2> QED
    BY <2>1, <2>3, <2>5, <2>6, <2>7 DEF OrderInv, LabelWritten
<1> QED
  BY <1>1, <1>2, <1>3, <1>4, <1>5, <1>6, <1>7, <1>8, <1>9, <1>10
  DEF Ft8Next, Gui, Run

-----------------------------------------------------------------------------
(* The cache.  A new one holds no message, and nothing has been shown.      *)
LEMMA CacheNew ==
    ASSUME theCache = EmptyCache, shown = <<>>, message = NoMessage,
           ppc = "sleep"
    PROVE  CacheInv
<1>1. theCache = [k \in 1..CacheSize |-> NoMessage] /\ CacheSize \in Nat
  BY Ft8Assumption DEF EmptyCache
<1>2. theCache \in Seq(Messages \cup {NoMessage}) /\ Len(theCache) = CacheSize
  BY <1>1
<1> QED
  BY <1>2 DEF CacheInv, Received, LastIsKnown, NoneTwice

(* Moving a message up to the newest loses none of the messages.            *)
LEMMA NoneLost ==
    ASSUME NEW S, NEW c \in Seq(S), NEW k \in 1..Len(c), NEW j \in 1..Len(c)
    PROVE  LET up == [i \in 1..(Len(c) - 1) |-> c[IF i < k THEN i ELSE i + 1]]
               d  == Append(up, c[k])
           IN  /\ d \in Seq(S)
               /\ Len(d) = Len(c)
               /\ \E i \in 1..Len(d) : d[i] = c[j]
<1> DEFINE up == [i \in 1..(Len(c) - 1) |-> c[IF i < k THEN i ELSE i + 1]]
           d  == Append(up, c[k])
<1>1. Len(c) \in Nat /\ Len(c) >= 1 /\ c \in [1..Len(c) -> S]
  OBVIOUS
<1>2. \A i \in 1..(Len(c) - 1) : up[i] = c[IF i < k THEN i ELSE i + 1]
                                 /\ up[i] \in S
  BY <1>1
<1>3. up \in [1..(Len(c) - 1) -> S] /\ Len(c) - 1 \in Nat
  BY <1>1, <1>2
<1>4. up \in Seq(S) /\ Len(up) = Len(c) - 1 /\ c[k] \in S
  BY <1>1, <1>3
<1> HIDE DEF up
<1>5. /\ d \in Seq(S) /\ Len(d) = Len(c) /\ d[Len(c)] = c[k]
      /\ \A i \in 1..(Len(c) - 1) : d[i] = up[i]
  <2>1. ASSUME NEW s \in Seq(S), NEW e \in S
        PROVE  /\ Append(s, e) \in Seq(S)
               /\ Len(Append(s, e)) = Len(s) + 1
               /\ Append(s, e)[Len(s) + 1] = e
               /\ \A i \in 1..Len(s) : Append(s, e)[i] = s[i]
    OBVIOUS
  <2>2. /\ d \in Seq(S) /\ Len(d) = Len(up) + 1 /\ d[Len(up) + 1] = c[k]
        /\ \A i \in 1..Len(up) : d[i] = up[i]
    BY <1>4, <2>1
  <2> QED
    BY <1>1, <1>4, <2>2
<1> HIDE DEF d
<1>6. \E i \in 1..Len(d) : d[i] = c[j]
  <2>1. CASE j = k
    BY <1>1, <1>5, <2>1
  <2>2. CASE j < k
    <3>1. j \in 1..(Len(c) - 1) /\ d[j] = c[j]
      BY <1>1, <1>2, <1>5, <2>2
    <3> QED
      BY <1>1, <1>5, <3>1
  <2>3. CASE j > k
    <3>1. /\ j - 1 \in 1..(Len(c) - 1) /\ ~(j - 1 < k) /\ (j - 1) + 1 = j
      BY <1>1, <2>3
    <3>2. d[j - 1] = c[j]
      BY <1>2, <1>5, <3>1
    <3> QED
      BY <1>1, <1>5, <3>1, <3>2
  <2> QED
    BY <1>1, <2>1, <2>2, <2>3
<1> QED
  BY <1>5, <1>6 DEF d, up

(* A message is shown only when the cache does not know it, and the cache   *)
(* knows what was shown last.                                               *)
LEMMA CacheStep == RingInv /\ OrderInv /\ CacheInv /\ [Ft8Next]_ft8Vars => CacheInv'
<1> SUFFICES ASSUME RingInv, OrderInv, CacheInv, [Ft8Next]_ft8Vars
             PROVE  CacheInv'
  OBVIOUS
<1>1. CASE Constructor
  <2>1. /\ theCache' = EmptyCache /\ shown' = <<>> /\ message' = NoMessage
        /\ ppc' = "sleep"
    BY <1>1 DEF Constructor
  <2>2. theCache' = [k \in 1..CacheSize |-> NoMessage] /\ CacheSize \in Nat
    BY <2>1, Ft8Assumption DEF EmptyCache
  <2>3. theCache' \in Seq(Messages \cup {NoMessage})
        /\ Len(theCache') = CacheSize
    BY <2>2
  <2> QED
    BY <2>1, <2>3 DEF CacheInv, Received, LastIsKnown, NoneTwice
<1>2. CASE Shows
  <2> DEFINE all == Messages \cup {NoMessage}
             text == [message |-> message, line |-> line,
                      label |-> theBuffer[blockToRead].label]
  <2>1. /\ ppc = "show" /\ ppc' = "test" /\ message' = message
        /\ Updates(message)
        /\ shown' = IF Known(message) THEN shown ELSE Append(shown, text)
    BY <1>2 DEF Shows
  <2>2. /\ theCache \in Seq(all) /\ Len(theCache) = CacheSize
        /\ CacheSize \in Nat /\ CacheSize >= 1
        /\ message \in Messages /\ LastIsKnown /\ NoneTwice
    BY <2>1, Ft8Assumption DEF CacheInv, Received
  <2>3. text \in [message : Messages, line : Nat, label : Nat]
    <3>1. blockToRead \in Blocks /\ line \in Nat
      BY DEF RingInv, RingTypes, OrderInv, OrderTypes, Passed
    <3> QED
      BY <2>2, <3>1 DEF OrderInv, OrderTypes
  <2>4. CASE ~Known(message)
    <3>1. theCache' = Append(Tail(theCache), message)
          /\ shown' = Append(shown, text)
      BY <2>1, <2>4 DEF Updates
    <3>2. /\ theCache' \in Seq(all) /\ Len(theCache') = CacheSize
          /\ theCache'[CacheSize] = message
      BY <2>2, <3>1
    <3>3. shown \in Seq([message : Messages, line : Nat, label : Nat])
      BY DEF CacheInv, Received
    <3> HIDE DEF text
    <3>4. /\ shown' \in Seq([message : Messages, line : Nat, label : Nat])
          /\ Len(shown') = Len(shown) + 1
          /\ shown'[Len(shown) + 1] = text
          /\ \A k \in 1..Len(shown) : shown'[k] = shown[k]
      BY <2>3, <3>1, <3>3
    <3>5. LastIsKnown'
      <4>1. shown'[Len(shown')].message = message
        BY <3>4 DEF text
      <4>2. CacheSize \in DOMAIN theCache'
        BY <2>2, <3>2
      <4> QED
        BY <3>2, <4>1, <4>2 DEF LastIsKnown, LastShown, Known
    <3>6. NoneTwice'
      <4>0. Len(shown) \in Nat /\ Len(shown') - 1 = Len(shown)
        BY <3>3, <3>4
      <4> SUFFICES ASSUME NEW k \in 1..Len(shown)
                   PROVE  shown'[k].message # shown'[k + 1].message
        BY <4>0 DEF NoneTwice
      <4>1. CASE k < Len(shown)
        <5>1. k \in 1..(Len(shown) - 1) /\ k + 1 \in 1..Len(shown)
          BY <3>3, <4>1
        <5>2. shown[k].message # shown[k + 1].message
          BY <2>2, <5>1 DEF NoneTwice
        <5> QED
          BY <3>4, <5>1, <5>2
      <4>2. CASE k = Len(shown)
        <5>1. Known(shown[k].message)
          BY <2>2, <3>3, <4>2 DEF LastIsKnown, LastShown
        <5>2. shown'[k + 1].message = message /\ shown'[k] = shown[k]
          BY <3>4, <4>2 DEF text
        <5> QED
          BY <2>4, <5>1, <5>2
      <4> QED
        BY <3>3, <4>1, <4>2
    <3> QED
      BY <2>1, <2>2, <3>2, <3>4, <3>5, <3>6 DEF CacheInv, Received
  <2>5. CASE Known(message)
    <3>1. shown' = shown
      BY <2>1, <2>5
    <3>2. CASE theCache' = theCache
      BY <2>1, <2>2, <3>1, <3>2
      DEF CacheInv, Received, LastIsKnown, LastShown, Known, NoneTwice
    <3>3. CASE \E k \in DOMAIN theCache :
                  /\ FoundAt(k, message)
                  /\ theCache' = Append(MovedUp(k), message)
      <4>0. DOMAIN theCache = 1..Len(theCache)
        BY <2>2
      <4>1. PICK k \in 1..Len(theCache) :
                  /\ theCache[k] = message
                  /\ theCache' = Append(MovedUp(k), theCache[k])
        <5>1. PICK i \in DOMAIN theCache :
                    /\ FoundAt(i, message)
                    /\ theCache' = Append(MovedUp(i), message)
          BY <3>3
        <5>2. theCache[i] = message
          BY <5>1 DEF FoundAt
        <5> QED
          BY <4>0, <5>1, <5>2
      <4>2. ASSUME NEW j \in 1..Len(theCache)
            PROVE  /\ theCache' \in Seq(all)
                   /\ Len(theCache') = Len(theCache)
                   /\ \E i \in 1..Len(theCache') : theCache'[i] = theCache[j]
        BY <2>2, <4>1, NoneLost DEF MovedUp
      <4>3. theCache' \in Seq(all) /\ Len(theCache') = CacheSize
        BY <2>2, <4>2
      <4>4. LastIsKnown'
        <5> SUFFICES ASSUME shown # <<>>
                     PROVE  \E i \in DOMAIN theCache' : theCache'[i] = LastShown
          BY <3>1 DEF LastIsKnown, LastShown, Known
        <5>1. PICK j \in 1..Len(theCache) : theCache[j] = LastShown
          BY <2>2 DEF LastIsKnown, Known
        <5>2. PICK i \in 1..Len(theCache') : theCache'[i] = theCache[j]
          BY <4>2
        <5> QED
          BY <4>3, <5>1, <5>2
      <4> QED
        BY <2>1, <2>2, <3>1, <4>3, <4>4 DEF CacheInv, Received, NoneTwice
    <3> QED
      BY <2>1, <2>5, <3>2, <3>3 DEF Updates
  <2> QED
    BY <2>4, <2>5
<1>3. CASE ~Constructor /\ ~Shows
  <2>1. UNCHANGED <<theCache, shown>>
    BY <1>3 DEF Ft8Next, Gui, Run, PassOn, Destructor, TakesFree, GivesUp,
       LoadsCount, StoresCount, Labels, FillsTones, ReleasesUsed, Joined,
       StartsRunning, TestsRunning, TakesUsed, Ends, Decodes, ReleasesFree,
       RunLoadsCount, RunStoresCount, Advances, guiOnly, runOnly, guiVars,
       runVars, ringVars, ft8Vars
  <2>2. /\ message' \in Messages \cup {NoMessage}
        /\ ppc' = "show" => message' \in Messages
    BY <1>3 DEF CacheInv, Received, Ft8Next, Gui, Run, PassOn, Destructor,
       TakesFree, GivesUp,
       LoadsCount, StoresCount, Labels, FillsTones, ReleasesUsed, Joined,
       StartsRunning, TestsRunning, TakesUsed, Ends, Decodes, ReleasesFree,
       RunLoadsCount, RunStoresCount, Advances, guiOnly, runOnly, guiVars,
       runVars, ringVars, ft8Vars
  <2> QED
    BY <2>1, <2>2
    DEF CacheInv, Received, LastIsKnown, LastShown, Known, NoneTwice
<1> QED
  BY <1>1, <1>2, <1>3

-----------------------------------------------------------------------------
(* The blocks passed on are decoded whole and in the order of their lines,  *)
(* though blocks_in may be wrong and the ring wrap in the middle of a       *)
(* decoding, and dl-cache.h never lets the same message through twice       *)
(* in a row.                                                                *)
THEOREM AlwaysInOrder == Ft8Spec => []InOrder
<1>1. Ft8Init => RingInv /\ OrderInv /\ CacheInv
  <2> SUFFICES ASSUME Ft8Init PROVE CacheInv
    BY RingInit, OrderInit
  <2> QED
    BY CacheNew DEF Ft8Init
<1>2. RingInv /\ OrderInv /\ CacheInv /\ [Ft8Next]_ft8Vars
         => (RingInv /\ OrderInv /\ CacheInv)'
  BY RingStep, OrderStep, CacheStep
<1>3. RingInv /\ OrderInv /\ CacheInv => InOrder
  <2> SUFFICES ASSUME RingInv, OrderInv, CacheInv,
                      NEW k \in Taken..(usedSlots + Taken - 1)
               PROVE  /\ InUse(k).label = InUse(k).tones
                      /\ InUse(k).tones >
                           (IF ppc = "decode" \/ k > Taken
                            THEN (IF k > 0 THEN InUse(k - 1).tones ELSE 0)
                            ELSE line)
    BY DEF InOrder, CacheInv, NoneTwice
  <2>1. usedSlots \in Nat
    BY DEF RingInv, RingTypes
  <2>2. k \in Whole /\ k \in Undecoded
    BY <2>1 DEF Whole, Undecoded, FirstWhole, Taken, WrittenNotUsed
  <2>3. InUse(k).label = InUse(k).tones /\ InUse(k).tones > line
    BY <2>2 DEF OrderInv, BlocksWhole, NewerThanDecoded
  <2>4. ASSUME ppc = "decode" \/ k > Taken
        PROVE  k > 0 /\ InUse(k).tones > InUse(k - 1).tones
    <3>1. k - 1 \in Whole /\ k - 1 < k /\ k > 0
      BY <2>1, <2>4 DEF Whole, FirstWhole, Taken, WrittenNotUsed
    <3>2. InUse(k - 1).tones < InUse(k).tones
      BY <2>2, <3>1 DEF OrderInv, BlocksIncrease
    <3> QED
      BY <3>1, <3>2
  <2> QED
    BY <2>3, <2>4
<1> QED
  BY <1>1, <1>2, <1>3, PTL DEF Ft8Spec

-----------------------------------------------------------------------------
(* The fax decoder.                                                        *)

Counters ==
    /\ faxState \in {"WAITING_FOR_PHASE", "READ_PHASE"} => alarmCount < MaxAlarms
    /\ faxState = "SYNCED" => stoppers < 4
    /\ faxState = "SYNCED" => linesRecognized <= nrLines + LimitAfter
    /\ faxState = "START_RECOGNIZED" => toRead > 0

FaxInv == FaxTypeOK /\ InBounds /\ Counters

-----------------------------------------------------------------------------
(* Positions within a line.                                                *)
LEMMA NextPRange ==
    ASSUME bufferP \in Int
    PROVE  NextP \in 0..(samplesperLine - 1)
<1>1. bufferP + 1 \in Int /\ samplesperLine \in Nat /\ samplesperLine > 0
  BY FaxAssumption
<1> QED
  BY <1>1 DEF NextP

(* What the shift of a tenth, or a step back of a quarter, leaves.         *)
LEMMA LineShifted ==
    /\ samplesperLine - samplesperLine \div 10 \in 0..(samplesperLine - 1)
    /\ samplesperLine - samplesperLine \div 4 \in 0..(samplesperLine - 1)
<1>1. ASSUME NEW n \in Nat, n >= 10
      PROVE  n - n \div 10 \in 0..(n - 1) /\ n - n \div 4 \in 0..(n - 1)
  BY <1>1
<1> QED
  BY <1>1, FaxAssumption

\* What is to be skipped is some lines of at least one sample each.
LEMMA LinesToSkip ==
    StartSamples \in Nat /\ StartSamples > 0 /\ WaitSamples \in Nat
<1>1. ASSUME NEW n \in Nat, n >= 10, NEW k \in Nat
      PROVE  k * n \in Nat /\ (k > 0 => k * n > 0)
  BY <1>1
<1> QED
  BY <1>1, FaxAssumption DEF StartSamples, WaitSamples

\* A check leaves room in checkBuffer, and what is older than the tone is in the
\* part of it that is kept.
LEMMA CheckKeeps ==
    ASSUME NEW heard \in BOOLEAN, StopHeard(heard), picture \in 0..checkP,
           checkP \in 0..(samplesperLine - 1), checkP + 1 = samplesperLine
    PROVE  checkP' \in 0..(samplesperLine - 1) /\ picture' \in 0..checkP'
<1>1. Older \in 0..samplesperLine
  BY FaxAssumption DEF Older
<1>2. ASSUME NEW n \in Nat, n >= 10, NEW o \in 0..n
      PROVE  /\ (IF o > n \div 10 THEN o - n \div 10 ELSE 0) \in 0..(n - n \div 10)
             /\ (IF o < n - n \div 4 THEN o ELSE n - n \div 4) \in 0..(n - n \div 4)
  BY <1>2
<1>3. /\ (IF Older > samplesperLine \div 10 THEN Older - samplesperLine \div 10 ELSE 0)
            \in 0..(samplesperLine - samplesperLine \div 10)
      /\ (IF Older < samplesperLine - samplesperLine \div 4 THEN Older
          ELSE samplesperLine - samplesperLine \div 4)
            \in 0..(samplesperLine - samplesperLine \div 4)
  BY <1>1, <1>2, FaxAssumption
<1>4. CASE heard
  BY <1>3, <1>4, LineShifted DEF StopHeard
<1>5. CASE ~heard
  BY <1>3, <1>5, LineShifted DEF StopHeard
<1> QED
  BY <1>4, <1>5

(* The decoder starts with empty buffers.                                  *)
LEMMA FaxStarts == FaxInit => FaxInv
<1> SUFFICES ASSUME FaxInit PROVE FaxInv
  OBVIOUS
<1>1. /\ faxState = "APTSTART" /\ bufferP = 0 /\ toRead = 0 /\ checkP = 0
      /\ alarmCount = 0 /\ stoppers = 0 /\ linesRecognized = 0 /\ cheats = 0
      /\ picture = 0
  BY DEF FaxInit
<1>2. /\ saveContinuous \in BOOLEAN /\ saveSingle \in BOOLEAN
      /\ setCorrection \in BOOLEAN /\ stopTone \in BOOLEAN
  BY DEF FaxInit
<1>3. FaxTypeOK
  BY <1>1, <1>2, FaxAssumption, LinesToSkip DEF FaxTypeOK, States, BufferSize
<1>4. InBounds /\ Counters
  BY <1>1 DEF InBounds, Counters
<1> QED
  BY <1>3, <1>4 DEF FaxInv

\* Every sample and every button keeps the invariant.
LEMMA FaxStep == FaxInv /\ [FaxNext]_faxVars => FaxInv'
<1> SUFFICES ASSUME FaxInv, [FaxNext]_faxVars
             PROVE  FaxInv'
  OBVIOUS
<1> USE FaxAssumption, LinesToSkip
        DEF FaxInv, FaxTypeOK, InBounds, Counters, States, BufferSize, keepsBuffer,
            sender
<1>1. CASE AptStart
  BY <1>1 DEF AptStart, processOnly, buttons
<1>2. CASE WaitForStart
  <2>1. bufferP \in 0..(samplesperLine - 1) /\ faxState = "WAITING_FOR_START"
    BY <1>2 DEF WaitForStart
  <2>2. CASE bufferP + 1 < samplesperLine
    BY <1>2, <2>1, <2>2 DEF WaitForStart, processOnly, buttons
  <2>3. CASE ~(bufferP + 1 < samplesperLine)
    <3>1. bufferP + 1 = samplesperLine
      BY <2>1, <2>3
    <3>2. CASE faxState' = "START_RECOGNIZED" /\ bufferP' = 0
               /\ toRead' = StartSamples
      BY <1>2, <3>2 DEF WaitForStart, processOnly, buttons
    <3>3. CASE bufferP' = bufferP + 1 - samplesperLine \div 10
               /\ UNCHANGED <<faxState, toRead>>
      BY <1>2, <2>1, <3>1, <3>3, LineShifted DEF WaitForStart, processOnly, buttons
    <3> QED
      BY <1>2, <2>3, <3>2, <3>3 DEF WaitForStart
  <2> QED
    BY <2>2, <2>3
<1>3. CASE SkipStart
  BY <1>3 DEF SkipStart, processOnly, buttons, BufferSize
<1>4. CASE WaitForPhase
  BY <1>4 DEF WaitForPhase, processOnly, buttons, BufferSize
<1>5. CASE ReadPhase
  <2>1. CASE OutOfPhase
    BY <1>5, <2>1 DEF ReadPhase, OutOfPhase, processOnly, buttons, BufferSize
  <2>2. ASSUME NEW baseP \in {0, 1, samplesperLine - 1}, InPhase(baseP)
        PROVE  FaxInv'
    BY <1>5, <2>2 DEF ReadPhase, InPhase, processOnly, buttons
  <2> QED
    BY <1>5, <2>1, <2>2 DEF ReadPhase
<1>6. CASE SyncedNoCheck
  <2>1. NextP \in 0..(samplesperLine - 1)
    BY NextPRange
  <2>2. checkP' \in 0..(samplesperLine - 1) /\ picture' \in 0..checkP'
    BY <1>6 DEF SyncedNoCheck, CheckFull, Older
  <2>3. bufferP' = NextP /\ UNCHANGED <<toRead, alarmCount, stoppers, processOnly>>
    BY <1>6 DEF SyncedNoCheck
  <2>4. /\ faxState = "SYNCED"
        /\ faxState' \in {"SYNCED", "FAX_DONE"}
        /\ linesRecognized' \in 0..(nrLines + LimitAfter + 1)
        /\ faxState' = "SYNCED" => linesRecognized' <= nrLines + LimitAfter
    <3>1. Kept \/ UNCHANGED <<linesRecognized, faxState>>
      BY <1>6 DEF SyncedNoCheck
    <3>2. faxState = "SYNCED" /\ linesRecognized \in 0..(nrLines + LimitAfter)
      BY <1>6 DEF SyncedNoCheck
    <3>3. CASE Kept
      BY <3>2, <3>3 DEF Kept
    <3> QED
      BY <3>1, <3>2, <3>3
  <2>5. FaxTypeOK'
    BY <2>1, <2>2, <2>3, <2>4 DEF processOnly, buttons
  <2> QED
    BY <2>1, <2>2, <2>3, <2>4, <2>5
<1>7. CASE SyncedCheck
  <2>1. NextP \in 0..(samplesperLine - 1)
    BY NextPRange
  <2>2. checkP + 1 = samplesperLine /\ faxState = "SYNCED"
    BY <1>7 DEF SyncedCheck, CheckFull
  <2>3. PICK heard \in BOOLEAN : StopHeard(heard)
    BY <1>7 DEF SyncedCheck
  <2>4. checkP' \in 0..(samplesperLine - 1) /\ picture' \in 0..checkP'
    BY <2>2, <2>3, CheckKeeps
  <2>5. stoppers' \in {0, stoppers + 1}
    BY <2>3 DEF StopHeard
  <2> QED
    BY <1>7, <2>1, <2>2, <2>4, <2>5 DEF SyncedCheck, processOnly, buttons
<1>8. CASE FaxDone
  BY <1>8 DEF FaxDone, processOnly, buttons
<1>9. CASE Waiter
  BY <1>9 DEF Waiter
<1>10. CASE Reset
  BY <1>10 DEF Reset
<1>11. CASE Fax_setsaveContinuous
  <2>1. saveContinuous' \in BOOLEAN /\ saveSingle' \in BOOLEAN
    BY <1>11, Zenon DEF Fax_setsaveContinuous
  <2>2. UNCHANGED <<position, setCorrection, sender, cheats>>
    BY <1>11 DEF Fax_setsaveContinuous
  <2> QED
    BY <2>1, <2>2 DEF position
<1>12. CASE Fax_setsaveSingle
  <2>1. saveContinuous' \in BOOLEAN /\ saveSingle' \in BOOLEAN
    BY <1>12, Zenon DEF Fax_setsaveSingle
  <2>2. UNCHANGED <<position, setCorrection, sender, cheats>>
    BY <1>12 DEF Fax_setsaveSingle
  <2> QED
    BY <2>1, <2>2 DEF position
<1>13. CASE Fax_setCorrection
  <2>1. saveContinuous' \in BOOLEAN /\ setCorrection' \in BOOLEAN
    BY <1>13, Zenon DEF Fax_setCorrection
  <2>2. UNCHANGED <<position, saveSingle, sender, cheats>>
    BY <1>13 DEF Fax_setCorrection
  <2> QED
    BY <2>1, <2>2 DEF position
<1>14. CASE Fax_setIOC
  BY <1>14 DEF Fax_setIOC, buttons
<1>15. CASE Fax_setCheat
  BY <1>15 DEF Fax_setCheat, buttons
<1>16. CASE ToneBegins
  BY <1>16 DEF ToneBegins, position, buttons
<1>17. CASE UNCHANGED faxVars
  BY <1>17 DEF faxVars, position, buttons
<1> HIDE DEF FaxInv
<1>18. Process \/ Slots \/ ToneBegins \/ UNCHANGED faxVars
  BY DEF FaxNext
<1>19. CASE Process
  BY <1>1, <1>2, <1>3, <1>4, <1>5, <1>6, <1>7, <1>8, <1>9, <1>19 DEF Process
<1>20. CASE Slots
  BY <1>10, <1>11, <1>12, <1>13, <1>14, <1>15, <1>20 DEF Slots
<1> QED
  BY <1>16, <1>17, <1>18, <1>19, <1>20

\* The invariant holds always.
LEMMA FaxAlways == FaxSpec => []FaxInv
BY FaxStarts, FaxStep, PTL DEF FaxSpec

-----------------------------------------------------------------------------
(* Every sample of every line, of the phase search and of the stop check   *)
(* has its place in the buffers, whatever is reset, selected or cheated    *)
(* and whatever the tones say.                                             *)
THEOREM SamplesInBounds == FaxSpec => []InBounds
<1>1. FaxInv => InBounds
  BY DEF FaxInv
<1> QED
  BY <1>1, FaxAlways, PTL

(* The types hold, which are ranges: no position leaves its buffer in any  *)
(* state, the samples to be skipped never number less than none, the alarms*)
(* and the lines stay below their limits, four stop tones in a row end the *)
(* picture, and what is older than the tone is in front of checkP.         *)
THEOREM TypeCorrect == FaxSpec => []FaxTypeOK
<1>1. FaxInv => FaxTypeOK
  BY DEF FaxInv
<1> QED
  BY <1>1, FaxAlways, PTL

-----------------------------------------------------------------------------
(* Text decoders: their buffers hold.  What is in a register does not      *)
(* matter here, so all that is said of it is that it is a sequence.        *)

IsSeq(s) == \E S : s \in Seq(S)

\* A sequence with an element more is one that is longer by one, ...
LEMMA IsSeqAppend ==
    ASSUME NEW s, IsSeq(s), NEW x
    PROVE  IsSeq(Append(s, x)) /\ Len(Append(s, x)) = Len(s) + 1 /\ Len(s) \in Nat
<1>1. PICK S : s \in Seq(S)
  BY DEF IsSeq
<1>2. s \in Seq(S \cup {x}) /\ x \in S \cup {x}
  BY <1>1
<1>3. Append(s, x) \in Seq(S \cup {x}) /\ Len(Append(s, x)) = Len(s) + 1 /\ Len(s) \in Nat
  BY <1>2
<1> QED BY <1>3 DEF IsSeq

\* ... without its first one it is shorter by one, ...
LEMMA IsSeqTail ==
    ASSUME NEW s, IsSeq(s), Len(s) > 0
    PROVE  IsSeq(Tail(s)) /\ Len(Tail(s)) = Len(s) - 1 /\ Len(s) \in Nat
<1>1. PICK S : s \in Seq(S)
  BY DEF IsSeq
<1>2. s # <<>> /\ Len(s) \in Nat
  BY <1>1
<1>3. Tail(s) \in Seq(S) /\ Len(Tail(s)) = Len(s) - 1
  BY <1>1, <1>2
<1> QED BY <1>2, <1>3 DEF IsSeq

\* ... cut off at n it has n elements, ...
LEMMA IsSeqSub ==
    ASSUME NEW s, IsSeq(s), NEW n \in 0..Len(s)
    PROVE  IsSeq(SubSeq(s, 1, n)) /\ Len(SubSeq(s, 1, n)) = n
<1>1. PICK S : s \in Seq(S)
  BY DEF IsSeq
<1>2. Len(s) \in Nat
  BY <1>1
<1>3. SubSeq(s, 1, n) \in Seq(S) /\ Len(SubSeq(s, 1, n)) = n
  BY <1>1, <1>2
<1> QED BY <1>3 DEF IsSeq

\* ... and so for an element put in front of it, ...
LEMMA IsSeqCons ==
    ASSUME NEW s, IsSeq(s), NEW x
    PROVE  IsSeq(<<x>> \o s) /\ Len(<<x>> \o s) = Len(s) + 1 /\ Len(s) \in Nat
<1>1. PICK S : s \in Seq(S)
  BY DEF IsSeq
<1>2. s \in Seq(S \cup {x}) /\ <<x>> \in Seq(S \cup {x}) /\ Len(<<x>>) = 1
  BY <1>1
<1>3. <<x>> \o s \in Seq(S \cup {x}) /\ Len(<<x>> \o s) = Len(<<x>>) + Len(s) /\ Len(s) \in Nat
  BY <1>2, ConcatProperties
<1> QED BY <1>2, <1>3 DEF IsSeq

\* ... and one put after it.
LEMMA IsSeqSnoc ==
    ASSUME NEW s, IsSeq(s), NEW x
    PROVE  IsSeq(s \o <<x>>) /\ Len(s \o <<x>>) = Len(s) + 1
<1>1. PICK S : s \in Seq(S)
  BY DEF IsSeq
<1>2. s \in Seq(S \cup {x}) /\ <<x>> \in Seq(S \cup {x}) /\ Len(<<x>>) = 1
  BY <1>1
<1>3. s \o <<x>> \in Seq(S \cup {x}) /\ Len(s \o <<x>>) = Len(s) + Len(<<x>>)
  BY <1>2, ConcatProperties
<1> QED BY <1>2, <1>3 DEF IsSeq

-----------------------------------------------------------------------------
(* amtor                                                                   *)

AmtorInv == AmtorTypeOK /\ IsSeq(amtorShiftReg)

IsCharState(s) ==
    /\ {"text", "state", "shift"} \subseteq DOMAIN s
    /\ s.state \in 0..8 /\ s.shift \in BOOLEAN

\* Neither a character nor a shift takes the state of a message out of its range.
LEMMA TextKeepsState ==
    ASSUME NEW s, IsCharState(s), NEW c
    PROVE  IsCharState(AmtorText(s, c))
<1>1. CASE showAlways
  BY <1>1 DEF AmtorText, IsCharState
<1>2. CASE ~showAlways /\ s.state < 4
  <2> DEFINE next == IF c = ZCZC[s.state + 1] THEN s.state + 1 ELSE 0
             text == IF next = 4 THEN s.text \o ZCZC ELSE s.text
  <2>1. next \in 0..8
    BY <1>2 DEF IsCharState
  <2>2. AmtorText(s, c) = [s EXCEPT !.state = next, !.text = text]
    BY <1>2 DEF AmtorText
  <2> HIDE DEF next, text
  <2> QED BY <2>1, <2>2 DEF IsCharState
<1>3. CASE ~showAlways /\ ~(s.state < 4)
  <2> DEFINE next == IF s.state = 8 THEN 0 ELSE IF c = "N" THEN s.state + 1 ELSE 4
             text == Append(s.text, c)
  <2>1. next \in 0..8
    BY <1>3 DEF IsCharState
  <2>2. AmtorText(s, c) = [s EXCEPT !.text = text, !.state = next]
    BY <1>3 DEF AmtorText
  <2> HIDE DEF next, text
  <2> QED BY <2>1, <2>2 DEF IsCharState
<1> QED BY <1>1, <1>2, <1>3

\* A code in the register is a character or a shift, or neither.
LEMMA CharKeepsState ==
    ASSUME NEW s, IsCharState(s), NEW c
    PROVE  IsCharState(HandleChar(s, c))
<1>1. CASE c = letter \/ c = digit
  <2>1. PICK b \in BOOLEAN : HandleChar(s, c) = [s EXCEPT !.shift = b]
    BY <1>1 DEF HandleChar
  <2> QED BY <2>1 DEF IsCharState
<1>2. CASE ~(c = letter \/ c = digit)
  BY <1>2, TextKeepsState DEF HandleChar
<1> QED BY <1>1, <1>2

\* A word in a message: it goes into the queue, and perhaps one is shown.
LEMMA WordKeeps ==
    ASSUME NEW q, NEW p \in 0..(Queue - 1), NEW s, IsCharState(s), NEW val,
           AddBytetoMessage(q, p, s, val)
    PROVE  amtorQP' \in 0..(Queue - 1) /\ messageState' \in 0..8
           /\ amtorLettershift' \in BOOLEAN
<1>1. amtorQP' \in 0..(Queue - 1)
  BY DEF AddBytetoMessage, Queue
<1>2. PICK t : IsCharState(t) /\ AmtorShown(t)
  BY CharKeepsState DEF AddBytetoMessage, Compared
<1> QED BY <1>1, <1>2 DEF IsCharState, AmtorShown

\* No step of amtor takes a register or counter out of its range.
LEMMA AmtorKeeps == AmtorInv /\ AmtorNext => AmtorInv'
<1> SUFFICES ASSUME AmtorInv, AmtorNext PROVE AmtorInv'
  OBVIOUS
<1> DEFINE cases == {"X0", "X1", "X2", "X3", "X4", "X5", "X6"}
           WordsTyped == /\ amtorState \in cases /\ amtorQP \in 0..(Queue - 1)
                         /\ amtorLettershift \in BOOLEAN /\ messageState \in 0..8
           RegTyped == IsSeq(amtorShiftReg) /\ Len(amtorShiftReg) <= 6
           CountTyped == fragmentCount \in 0..(PerBit - 1)
<1>a. WordsTyped /\ RegTyped /\ CountTyped
  BY DEF AmtorInv, AmtorTypeOK
<1>b. FragmentChanges \/ FragmentStays \/ FullBit
  BY DEF AmtorNext, Addbitfragment
<1>c. IsCharState(AmtorState) /\ IsCharState([AmtorState EXCEPT !.state = 0])
  BY <1>a DEF AmtorState, IsCharState
<1>1. ASSUME NEW val, Decoder(val) PROVE WordsTyped'
  <2>1. CASE Phases(val)
    BY <2>1, <1>a DEF Phases, amtorChars
  <2>2. CASE InitMessage(val)
    <3>1. amtorState' \in cases
      BY <2>2 DEF InitMessage
    <3> QED BY <2>2, <3>1, <1>c, WordKeeps DEF InitMessage, Queue
  <2>3. CASE InMessage(val)
    <3>1. amtorState' \in cases
      BY <2>3 DEF InMessage
    <3> QED BY <2>3, <3>1, <1>a, <1>c, WordKeeps DEF InMessage
  <2>4. CASE FlushBuffer(val)
    <3>1. IsCharState(FourSpaces(AmtorState))
      BY <1>c, TextKeepsState DEF FourSpaces
    <3> QED BY <2>4, <3>1, <1>a DEF FlushBuffer, AmtorShown, IsCharState
  <2> QED BY <1>1, <2>1, <2>2, <2>3, <2>4 DEF Decoder
<1>2. ASSUME NEW b, AddfullBit(b) PROVE WordsTyped' /\ RegTyped'
  <2> DEFINE reg == Append(amtorShiftReg, b)
  <2>1. IsSeq(reg) /\ Len(reg) = Len(amtorShiftReg) + 1 /\ Len(amtorShiftReg) \in Nat
    BY <1>a, IsSeqAppend
  <2>2. CASE IsWord(reg)
    <3>1. WordsTyped'
      BY <2>2, <1>1, <1>2 DEF AddfullBit
    <3>2. amtorShiftReg' = <<>>
      BY <2>2, <1>2 DEF AddfullBit
    <3>3. IsSeq(<<>>) /\ Len(<<>>) = 0
      BY DEF IsSeq
    <3> QED BY <3>1, <3>2, <3>3
  <2>3. CASE ~IsWord(reg)
    <3>1. amtorShiftReg' = IF Len(reg) = 7 THEN Tail(reg) ELSE reg
      BY <2>3, <1>2 DEF AddfullBit
    <3>2. WordsTyped'
      BY <2>3, <1>2, <1>a DEF AddfullBit, amtorWords, amtorChars
    <3> HIDE DEF reg
    <3>3. CASE Len(reg) = 7
      <4>1. IsSeq(Tail(reg)) /\ Len(Tail(reg)) = 6
        BY <3>3, <2>1, IsSeqTail
      <4>2. amtorShiftReg' = Tail(reg)
        BY <3>1, <3>3
      <4>3. RegTyped'
        BY <4>1, <4>2
      <4> QED BY <3>2, <4>3
    <3>4. CASE Len(reg) # 7
      BY <3>1, <3>2, <3>4, <2>1, <1>a
    <3> QED BY <3>3, <3>4
  <2> QED BY <2>2, <2>3
<1>3. CountTyped'
  BY <1>a, <1>b, AmtorAssumption DEF FragmentChanges, FragmentStays, FullBit
<1>4. WordsTyped' /\ RegTyped'
  <2>1. CASE FragmentChanges \/ FragmentStays
    BY <2>1, <1>a DEF FragmentChanges, FragmentStays, amtorWords, amtorChars
  <2>2. CASE FullBit
    BY <2>2, <1>2 DEF FullBit
  <2> QED BY <1>b, <2>1, <2>2
<1> QED BY <1>3, <1>4 DEF AmtorInv, AmtorTypeOK

LEMMA AmtorStarts == AmtorInit => AmtorInv
<1>1. IsSeq(<<>>) /\ Len(<<>>) = 0
  BY DEF IsSeq
<1> QED BY <1>1, AmtorAssumption DEF AmtorInit, AmtorInv, AmtorTypeOK, Queue

LEMMA AmtorStays == AmtorInv /\ UNCHANGED amtorVars => AmtorInv'
  BY DEF AmtorInv, AmtorTypeOK, amtorVars, amtorBits, amtorWords, amtorChars
-----------------------------------------------------------------------------
(* rtty.  A character is complete when its last bit is received.           *)

RttyInv ==
    /\ RttyTypeOK /\ IsSeq(rttyRxdata) /\ rttyFormat \in RttyFormats
    /\ rttyState = "DATA" => Len(rttyRxdata) < NBits
    /\ rttyState = "PARITY" => Len(rttyRxdata) <= NBits

LEMMA RttyStarts == RttyInit => RttyInv
<1>1. IsSeq(<<>>) /\ Len(<<>>) = 0
  BY DEF IsSeq
<1> QED BY <1>1, RttyAssumption DEF RttyInit, RttyInv, RttyTypeOK, NBits

LEMMA RttyStays == RttyInv /\ UNCHANGED rttyVars => RttyInv'
  BY DEF RttyInv, RttyTypeOK, rttyVars, rttySender, NBits

\* The stop bits last for two bits at most.
LEMMA StoplenInRange ==
    ASSUME rttyFormat \in RttyFormats PROVE rttyStoplen \in 0..(2 * rttySymbolLength)
<1>1. rttySymbolLength \in Nat /\ rttyFormat.rttyStopbits \in 1..3
  BY RttyAssumption
<1>2. CASE rttyFormat.rttyStopbits = 1
  BY <1>1, <1>2 DEF rttyStoplen, Stoplen
<1>3. CASE rttyFormat.rttyStopbits = 2
  BY <1>1, <1>3 DEF rttyStoplen, Stoplen
<1>4. CASE rttyFormat.rttyStopbits = 3
  BY <1>1, <1>4 DEF rttyStoplen, Stoplen
<1> QED BY <1>1, <1>2, <1>3, <1>4

\* A bit is put into the character only while it lacks one.
LEMMA RttyKeeps == RttyInv /\ RttyNext => RttyInv'
<1> SUFFICES ASSUME RttyInv, RttyNext PROVE RttyInv'
  OBVIOUS
<1>1. /\ rttyFormat' = rttyFormat /\ rttyFormat \in RttyFormats
      /\ rttySymbolLength \in Nat /\ NBits \in Nat \ {0} /\ NBits' = NBits
  BY RttyAssumption DEF RttyInv, RttyNext, RttySends, NBits
<1>2. IsSeq(rttyRxdata) /\ Len(rttyRxdata) \in Nat
  <2>1. IsSeq(rttyRxdata)
    BY DEF RttyInv
  <2> QED BY <2>1, IsSeqAppend
<1>3. IsSeq(<<>>) /\ Len(<<>>) = 0
  BY DEF IsSeq
<1>4. CASE RttyWaits
  BY <1>1, <1>4 DEF RttyWaits, RttyCounts, rttyChars, RttyInv, RttyTypeOK
<1>5. CASE RttyIdle
  BY <1>1, <1>5 DEF RttyIdle, rttyChars, RttyInv, RttyTypeOK
<1>6. CASE StartBit
  <2>1. CASE rttyBitFragment = 0
    <3>1. /\ rttyState' = "DATA" /\ rttyCounter' = rttySymbolLength
          /\ rttyRxdata' = <<>> /\ rttyRxmode' = rttyRxmode
      BY <1>6, <2>1 DEF StartBit, rttyChars
    <3> QED BY <1>1, <1>3, <3>1 DEF RttyInv, RttyTypeOK
  <2>2. CASE rttyBitFragment # 0
    BY <1>1, <1>6, <2>2 DEF StartBit, rttyChars, RttyInv, RttyTypeOK
  <2> QED BY <2>1, <2>2
<1>7. CASE DataBit
  <2>1. /\ IsSeq(Append(rttyRxdata, rttyBitFragment))
        /\ Len(Append(rttyRxdata, rttyBitFragment)) = Len(rttyRxdata) + 1
    BY <1>2, IsSeqAppend
  <2>2. /\ rttyRxdata' = Append(rttyRxdata, rttyBitFragment)
        /\ rttyState = "DATA" /\ rttyCounter' = rttySymbolLength
        /\ rttyRxmode' = rttyRxmode
        /\ rttyState' \in {"DATA", "PARITY", "STOP"}
        /\ rttyState' = "DATA" => Len(rttyRxdata) + 1 < NBits
    BY <1>7 DEF DataBit, rttyChars
  <2> QED BY <1>1, <1>2, <2>1, <2>2 DEF RttyInv, RttyTypeOK
<1>8. CASE ParityBit
  <2>1. /\ IsSeq(Append(rttyRxdata, rttyBitFragment))
        /\ Len(Append(rttyRxdata, rttyBitFragment)) = Len(rttyRxdata) + 1
    BY <1>2, IsSeqAppend
  <2>2. /\ rttyRxdata' = Append(rttyRxdata, rttyBitFragment)
        /\ rttyState = "PARITY" /\ rttyCounter' = rttyStoplen
        /\ rttyRxmode' = rttyRxmode /\ rttyState' = "STOP"
    BY <1>8 DEF ParityBit, rttyChars
  <2> QED BY <1>1, <1>2, <2>1, <2>2, StoplenInRange DEF RttyInv, RttyTypeOK
<1>9. CASE StopBit
  <2>1. rttyRxmode' \in {"LETS", "FIGS"}
    <3>1. rttyRxmode \in {"LETS", "FIGS"}
      BY DEF RttyInv, RttyTypeOK
    <3>2. rttyRxmode' \in {rttyRxmode, "LETS", "FIGS"}
      BY <1>9 DEF StopBit, Pickup_char, BaudottoASCII, RttyAddText, rttyChars
    <3> QED BY <3>1, <3>2
  <2>2. /\ rttyState' = "STOP2" /\ rttyRxdata' = rttyRxdata
        /\ rttyCounter' = rttySymbolLength \div 2
    BY <1>9 DEF StopBit
  <2> QED BY <1>1, <2>1, <2>2 DEF RttyInv, RttyTypeOK
<1>10. CASE Stop2
  BY <1>1, <1>10 DEF Stop2, rttyChars, RttyInv, RttyTypeOK
<1> QED BY <1>4, <1>5, <1>6, <1>7, <1>8, <1>9, <1>10 DEF RttyNext, AddrttyBitFragment

-----------------------------------------------------------------------------
(* cw                                                                      *)

CwInv == CwTypeOK /\ IsSeq(dataBuffer) /\ IsSeq(thresholds) /\ IsSeq(spaces)

\* A filter keeps its length.
LEMMA FilterKeeps ==
    ASSUME NEW s, IsSeq(s), Len(s) > 0, NEW x
    PROVE  IsSeq(Filtered(s, x)) /\ Len(Filtered(s, x)) = Len(s)
<1>1. IsSeq(Tail(s)) /\ Len(Tail(s)) = Len(s) - 1 /\ Len(s) \in Nat
  BY IsSeqTail
<1>2. IsSeq(Tail(s) \o <<x>>) /\ Len(Tail(s) \o <<x>>) = Len(Tail(s)) + 1
  BY <1>1, IsSeqSnoc
<1> QED BY <1>1, <1>2 DEF Filtered

\* What a filter is filled with when the decoder is made.
LEMMA FullIsSeq ==
    ASSUME NEW n \in Nat, NEW x PROVE IsSeq(Full(n, x)) /\ Len(Full(n, x)) = n
<1>1. Full(n, x) \in Seq({x}) /\ Len(Full(n, x)) = n
  BY DEF Full
<1> QED BY <1>1 DEF IsSeq

LEMMA CwStarts == CwInit => CwInv
<1>1. IsSeq(<<>>) /\ Len(<<>>) = 0
  BY DEF IsSeq
<1> SUFFICES ASSUME CwInit PROVE CwInv
  OBVIOUS
<1>3. IsSeq(thresholds) /\ Len(thresholds) = 8
  <2>1. thresholds = Full(8, 2 * CwDefault)
    BY DEF CwInit
  <2> QED BY <2>1, FullIsSeq
<1>4. IsSeq(spaces) /\ Len(spaces) = 16
  <2>1. spaces = Full(16, CwDefault)
    BY DEF CwInit
  <2> QED BY <2>1, FullIsSeq
<1> QED BY <1>1, <1>3, <1>4, CwAssumption DEF CwInit, CwInv, CwTypeOK

LEMMA CwStays == CwInv /\ UNCHANGED cwVars => CwInv'
  BY DEF CwInv, CwTypeOK, cwVars, cwSpeedVars, cwStateVars

\* A code that fills dataBuffer is dropped before the next dot or dash.
LEMMA CwKeeps == CwInv /\ CwNext => CwInv'
<1> SUFFICES ASSUME CwInv, CwNext PROVE CwInv'
  OBVIOUS
<1> DEFINE cases == {"IDLE", "IN_TONE", "AFTER_TONE", "END_OF_LETTER"}
<1>1. /\ IsSeq(dataBuffer) /\ IsSeq(thresholds) /\ IsSeq(spaces)
      /\ Len(dataBuffer) < CW_RECEIVE_CAPACITY /\ Len(thresholds) = 8 /\ Len(spaces) = 16
      /\ cwState \in cases /\ cwPreviousState \in cases
  BY DEF CwInv, CwTypeOK
<1>2. /\ IsSeq(<<>>) /\ Len(<<>>) < CW_RECEIVE_CAPACITY
      /\ Len(dataBuffer) \in Nat /\ CW_RECEIVE_CAPACITY \in Nat
  BY <1>1, IsSeqAppend, CwAssumption DEF IsSeq
<1>3. CASE SpeedAdjust
  <2>1. /\ dataBuffer' = <<>> /\ spaces' = spaces /\ cwState' = "IDLE"
        /\ cwPreviousState' = cwPreviousState /\ thresholds' = Full(8, 2 * cwSender.set)
    BY <1>3 DEF SpeedAdjust
  <2> QED BY <1>1, <1>2, <2>1, FullIsSeq DEF CwInv, CwTypeOK
<1>4. CASE CwIdle \/ InTone \/ EndOfLetter
  <2>1. /\ thresholds' = thresholds /\ spaces' = spaces
        /\ dataBuffer' = dataBuffer \/ dataBuffer' = <<>>
        /\ cwState' \in cases /\ cwPreviousState' \in cases
    BY <1>1, <1>4 DEF CwIdle, InTone, EndOfLetter, StartsTone, SameTone, SameSpaces, cwSpeedVars
  <2> QED BY <1>1, <1>2, <2>1 DEF CwInv, CwTypeOK
<1>5. CASE ToneEnds
  <2>1. /\ spaces' = spaces /\ cwPreviousState' = cwPreviousState
        /\ cwState' \in cases
    BY <1>1, <1>5 DEF ToneEnds, SameSpaces
  <2>2. thresholds' = thresholds \/ \E x : thresholds' = Filtered(thresholds, x)
    BY <1>5 DEF ToneEnds, SameTone, Tracks, cwSpeedVars
  <2>3. IsSeq(thresholds') /\ Len(thresholds') = 8
    <3>1. CASE thresholds' = thresholds
      BY <1>1, <3>1
    <3>2. ASSUME NEW x, thresholds' = Filtered(thresholds, x)
          PROVE  IsSeq(thresholds') /\ Len(thresholds') = 8
      <4>1. IsSeq(Filtered(thresholds, x)) /\ Len(Filtered(thresholds, x)) = 8
        BY <1>1, FilterKeeps
      <4> QED BY <3>2, <4>1
    <3> QED BY <2>2, <3>1, <3>2
  <2>4. IsSeq(dataBuffer') /\ Len(dataBuffer') < CW_RECEIVE_CAPACITY
    <3>1. PICK x : \/ dataBuffer' = dataBuffer \/ dataBuffer' = <<>>
                   \/ /\ ~(Len(dataBuffer) + 1 >= CW_RECEIVE_CAPACITY)
                      /\ dataBuffer' = Append(dataBuffer, x)
      BY <1>5 DEF ToneEnds
    <3>2. /\ IsSeq(Append(dataBuffer, x))
          /\ Len(Append(dataBuffer, x)) = Len(dataBuffer) + 1
      BY <1>1, IsSeqAppend
    <3>3. CASE dataBuffer' = dataBuffer
      BY <1>1, <3>3
    <3>4. CASE dataBuffer' = <<>>
      BY <1>2, <3>4
    <3>5. CASE /\ ~(Len(dataBuffer) + 1 >= CW_RECEIVE_CAPACITY)
               /\ dataBuffer' = Append(dataBuffer, x)
      BY <1>2, <3>2, <3>5
    <3> QED BY <3>1, <3>3, <3>4, <3>5
  <2> QED BY <1>1, <2>1, <2>3, <2>4 DEF CwInv, CwTypeOK
<1>6. CASE AfterTone
  <2>1. /\ thresholds' = thresholds /\ cwState' \in cases /\ cwPreviousState' \in cases
        /\ dataBuffer' = dataBuffer \/ dataBuffer' = <<>>
    BY <1>1, <1>6 DEF AfterTone, StartsTone, SameTone, cwSpeedVars
  <2>2. spaces' = spaces \/ \E x : spaces' = Filtered(spaces, x)
    BY <1>6 DEF AfterTone, SameSpaces
  <2>3. IsSeq(spaces') /\ Len(spaces') = 16
    <3>1. CASE spaces' = spaces
      BY <1>1, <3>1
    <3>2. ASSUME NEW x, spaces' = Filtered(spaces, x)
          PROVE  IsSeq(spaces') /\ Len(spaces') = 16
      <4>0. IsSeq(spaces) /\ Len(spaces) > 0
        BY <1>1
      <4>1. IsSeq(Filtered(spaces, x)) /\ Len(Filtered(spaces, x)) = Len(spaces)
        BY <4>0, FilterKeeps
      <4> QED BY <1>1, <3>2, <4>1
    <3> QED BY <2>2, <3>1, <3>2
  <2> QED BY <1>1, <1>2, <2>1, <2>3 DEF CwInv, CwTypeOK
<1> QED BY <1>3, <1>4, <1>5, <1>6 DEF CwNext, ProcessSample
-----------------------------------------------------------------------------
(* acars: the text of a block and the semaphores of the printer.           *)

AcarsInv ==
    /\ AcarsTypeOK /\ IsSeq(blk_txt)
    /\ Acarsstate = "TXT" => Len(blk_txt) <= TooLong
    /\ printerFree + Filled = theSlots

\* Only the first byte of the longest block is beyond the rows of syndrom.
LEMMA RowsFollow ==
    ASSUME NEW txt, IsSeq(txt), Len(txt) <= TooLong + 1
    PROVE  RowsHold(txt)
<1>1. Len(txt) \in Nat /\ DOMAIN txt = 1..Len(txt) /\ TooLong \in Nat
  <2>1. PICK S : txt \in Seq(S)
    BY DEF IsSeq
  <2> QED BY <2>1, AcarsAssumption
<1>2. ASSUME NEW n \in Nat, NEW k \in 1..n, n <= TooLong + 1
      PROVE  n - k + 2 \in 0..(TooLong + 1) \/ (k = 1 /\ n = TooLong + 1)
  BY <1>1, <1>2
<1>3. ASSUME NEW k \in DOMAIN txt
      PROVE  Len(txt) - k + 2 \in 0..(TooLong + 1) \/ (k = 1 /\ Len(txt) = TooLong + 1)
  BY <1>1, <1>2, <1>3
<1> QED BY <1>3 DEF RowsHold, RowOf

LEMMA AcarsStarts == AcarsInit => AcarsInv
<1>1. IsSeq(<<>>) /\ Len(<<>>) = 0
  BY DEF IsSeq
<1>2. RowsHold(<<>>)
  BY <1>1, RowsFollow, AcarsAssumption
<1> QED BY <1>1, <1>2, AcarsAssumption DEF AcarsInit, AcarsInv, AcarsTypeOK, Filled

LEMMA AcarsStays == AcarsInv /\ UNCHANGED acarsVars => AcarsInv'
  BY DEF AcarsInv, AcarsTypeOK, Filled, acarsVars, acarsBlock, acarsSlots, printerVars

\* What a byte does to the text, and that the states and counts stay in range.
ByteTyped ==
    /\ acarsGpc \in {"runs", "waits", "join", "deleted"}
    /\ Acarsstate \in {"WSYN", "SYN2", "SOH1", "TXT", "CRC1", "CRC2", "END"}
    /\ nbits \in 0..8
    /\ IsSeq(blk_txt) /\ Len(blk_txt) <= TooLong + 1
    /\ Acarsstate = "TXT" => Len(blk_txt) <= TooLong

\* A block leads to the call of output_msg or to nothing.
LEMMA ProcessKeepsState ==
    ASSUME NEW txt, NEW crc, ProcessBlock(txt, crc),
           acarsGpc \in {"runs", "waits", "join", "deleted"}
    PROVE  acarsGpc' \in {"runs", "waits", "join", "deleted"}
  BY DEF ProcessBlock

\* A byte is put into blk_txt only while the block is not too long.
LEMMA ByteKeeps ==
    ASSUME ByteTyped, NEW theByte, DecodeAcars(theByte) PROVE ByteTyped'
<1>a. IsSeq(blk_txt) /\ Len(blk_txt) \in Nat /\ Len(blk_txt) <= TooLong + 1 /\ TooLong \in Nat
  <2>1. IsSeq(blk_txt) /\ Len(blk_txt) <= TooLong + 1
    BY DEF ByteTyped
  <2> QED BY <2>1, IsSeqAppend, AcarsAssumption
<1>b. IsSeq(<<>>) /\ Len(<<>>) = 0
  BY DEF IsSeq
<1>1. CASE Sync(theByte)
  BY <1>1 DEF Sync, Expects, Searches, Goes, SameBlock, ByteTyped
<1>2. CASE Soh1(theByte)
  <2>1. CASE theByte = SOH
    <3>1. /\ Acarsstate' = "TXT" /\ nbits' = 8 /\ blk_txt' = <<>> /\ acarsGpc' = acarsGpc
      BY <1>2, <2>1 DEF Soh1, Expects, Goes
    <3> QED BY <1>a, <1>b, <3>1 DEF ByteTyped
  <2>2. CASE theByte # SOH
    BY <1>2, <2>2 DEF Soh1, Searches, Goes, ByteTyped
  <2> QED BY <2>1, <2>2
<1>3. CASE Txt(theByte)
  <2> DEFINE txt == Append(blk_txt, theByte)
             err == blk_err + (IF OddParity(theByte) THEN 0 ELSE 1)
             Missed == Len(txt) > Recovers /\ theByte = DLE
  <2>1. IsSeq(txt) /\ Len(txt) = Len(blk_txt) + 1 /\ Len(txt) \in Nat /\ Len(txt) <= TooLong + 1
    <3>1. IsSeq(txt) /\ Len(txt) = Len(blk_txt) + 1
      BY <1>a, IsSeqAppend
    <3>2. Len(blk_txt) <= TooLong
      BY <1>3 DEF Txt, ByteTyped
    <3> HIDE DEF txt
    <3> QED BY <1>a, <3>1, <3>2
  <2>2. \/ /\ blk_txt' = txt /\ UNCHANGED acarsGpc
           /\ \/ Searches \/ Expects("CRC1")
              \/ ~(Len(txt) > TooLong) /\ Expects("TXT")
        \/ Missed /\ MissedEnd(txt)
    BY <1>3 DEF Txt
  <2> HIDE DEF txt
  <2>3. CASE /\ blk_txt' = txt /\ UNCHANGED acarsGpc
             /\ \/ Searches \/ Expects("CRC1")
                \/ ~(Len(txt) > TooLong) /\ Expects("TXT")
    <3>1. IsSeq(blk_txt') /\ Len(blk_txt') = Len(txt)
      BY <2>1, <2>3
    <3> QED BY <1>a, <2>1, <2>3, <3>1 DEF Searches, Expects, Goes, ByteTyped
  <2>4. CASE Missed /\ MissedEnd(txt)
    <3>1. Recovers \in Nat /\ Recovers >= 3
      BY AcarsAssumption
    <3> DEFINE n == Len(txt) - 3
    <3>2. n \in 0..Len(txt)
      BY <2>1, <2>4, <3>1
    <3>3. /\ Acarsstate' = "END" /\ nbits' = 8 /\ blk_txt' = SubSeq(txt, 1, n)
          /\ \E t, c : ProcessBlock(t, c)
      BY <2>4 DEF MissedEnd, Expects, Goes
    <3>4. IsSeq(SubSeq(txt, 1, n)) /\ Len(SubSeq(txt, 1, n)) = n
      BY <2>1, <3>2, IsSeqSub
    <3>5. acarsGpc' \in {"runs", "waits", "join", "deleted"}
      BY <3>3, ProcessKeepsState DEF ByteTyped
    <3>6. IsSeq(blk_txt') /\ Len(blk_txt') <= TooLong + 1
      BY <1>a, <2>1, <3>2, <3>3, <3>4
    <3> QED BY <3>3, <3>5, <3>6 DEF ByteTyped
  <2> QED BY <2>2, <2>3, <2>4
<1>4. CASE Crc1(theByte)
  BY <1>4 DEF Crc1, Expects, Goes, ByteTyped
<1>5. CASE Crc2(theByte)
  <2>1. /\ Acarsstate' = "END" /\ nbits' = 8 /\ blk_txt' = blk_txt
        /\ \E t, c : ProcessBlock(t, c)
    BY <1>5 DEF Crc2, Expects, Goes
  <2>2. acarsGpc' \in {"runs", "waits", "join", "deleted"}
    BY <2>1, ProcessKeepsState DEF ByteTyped
  <2> QED BY <2>1, <2>2 DEF ByteTyped
<1>6. CASE End
  BY <1>6 DEF End, Expects, Goes, SameBlock, ByteTyped
<1> QED BY <1>1, <1>2, <1>3, <1>4, <1>5, <1>6 DEF DecodeAcars

\* The slot that is k after slot a, around the ring.
LEMMA NextSlot ==
    ASSUME NEW a \in 0..(theSlots - 1), NEW k \in 0..theSlots
    PROVE  /\ (a + k) % theSlots = IF a + k < theSlots THEN a + k ELSE a + k - theSlots
           /\ (a + k) % theSlots \in 0..(theSlots - 1)
<1>1. theSlots \in Nat /\ theSlots >= 1
  BY AcarsAssumption
<1>2. (a + k) % theSlots = IF a + k < theSlots THEN a + k ELSE a + k - theSlots
  BY <1>1, SMTT(30)
<1> QED BY <1>1, <1>2

\* The text fits in blk_txt, and what is free and what is filled add up to
\* the slots.
LEMMA AcarsKeeps == AcarsInv /\ AcarsNext => AcarsInv'
<1> SUFFICES ASSUME AcarsInv, AcarsNext PROVE AcarsInv'
  OBVIOUS
<1>1. /\ theSlots \in Nat /\ theSlots >= 1 /\ 1 \in 0..theSlots
      /\ ByteTyped /\ outbits \subseteq 0..7
      /\ printerFree \in 0..theSlots /\ printerUsed \in 0..theSlots
      /\ nextIn \in 0..(theSlots - 1) /\ nextOut \in 0..(theSlots - 1)
      /\ printerPc \in {"begins", "loop", "acquire", "process", "ended"}
      /\ printerFree + printerUsed + (IF printerPc = "process" THEN 1 ELSE 0) = theSlots
  BY AcarsAssumption DEF AcarsInv, AcarsTypeOK, Filled, ByteTyped
<1>r. ByteTyped' => RowsHold(blk_txt)'
  BY RowsFollow DEF ByteTyped
<1>2. CASE Putbit
  <2>1. outbits' \subseteq 0..7
    <3> DEFINE shifted == {b - 1 : b \in outbits \ {0}}
               last == IF AcarsComes # inverted THEN {7} ELSE {}
    <3>1. shifted \subseteq 0..7
      BY <1>1
    <3>2. last \subseteq 0..7
      OBVIOUS
    <3>3. outbits' = shifted \cup last
      BY <1>2, Zenon DEF Putbit
    <3> HIDE DEF shifted, last
    <3> QED BY <3>1, <3>2, <3>3
  <2>2. UNCHANGED <<acarsSlots, printerVars>>
    BY <1>2 DEF Putbit
  <2>3. ByteTyped'
    <3>1. CASE nbits > 1
      BY <1>1, <1>2, <3>1 DEF Putbit, SameBlock, ByteTyped
    <3>2. CASE ~(nbits > 1)
      <4>1. DecodeAcars(outbits')
        BY <1>2, <3>2 DEF Putbit
      <4> QED BY <1>1, <4>1, ByteKeeps
    <3> QED BY <3>1, <3>2
  <2> QED BY <1>1, <1>r, <2>1, <2>2, <2>3
          DEF AcarsInv, AcarsTypeOK, ByteTyped, Filled, acarsSlots, printerVars
<1>3. CASE OutputMsg
  <2>1. (nextIn + 1) % theSlots \in 0..(theSlots - 1)
    BY <1>1, NextSlot
  <2>2. /\ printerFree > 0 /\ printerFree' = printerFree - 1
        /\ printerUsed' = printerUsed + 1 /\ nextIn' = (nextIn + 1) % theSlots
        /\ nextOut' = nextOut /\ printerPc' = printerPc /\ acarsGpc' = "runs"
        /\ UNCHANGED <<nbits, outbits, blk_txt, Acarsstate>>
    BY <1>3 DEF OutputMsg, acarsBlock, printerVars
  <2>3. ByteTyped'
    BY <1>1, <2>2 DEF ByteTyped
  <2> QED BY <1>1, <1>r, <2>1, <2>2, <2>3 DEF AcarsInv, AcarsTypeOK, ByteTyped, Filled
<1>4. CASE DeletePrinter \/ PrinterJoined
  <2>1. /\ acarsGpc' \in {"join", "deleted"}
        /\ UNCHANGED <<acarsSlots, nbits, outbits, blk_txt, Acarsstate, printerPc>>
    BY <1>4 DEF DeletePrinter, PrinterJoined, acarsBlock, printerVars
  <2>2. ByteTyped'
    BY <1>1, <2>1 DEF ByteTyped
  <2> QED BY <1>1, <1>r, <2>1, <2>2 DEF AcarsInv, AcarsTypeOK, ByteTyped, Filled, acarsSlots
<1>5. CASE Printer
  <2>1. ByteTyped' /\ outbits' = outbits
    BY <1>1, <1>5 DEF Printer, ByteTyped, acarsBlock
  <2>2. (nextOut + 1) % theSlots \in 0..(theSlots - 1)
    BY <1>1, NextSlot
  <2>3. CASE Begins \/ Loops \/ TimesOut
    BY <1>1, <1>r, <2>1, <2>3 DEF Begins, Loops, TimesOut, Moves, acarsSlots, AcarsInv,
       AcarsTypeOK, ByteTyped, Filled
  <2>4. CASE Acquires
    BY <1>1, <1>r, <2>1, <2>4 DEF Acquires, Moves, AcarsInv, AcarsTypeOK, ByteTyped, Filled
  <2>5. CASE ProcessMsg
    BY <1>1, <1>r, <2>1, <2>2, <2>5 DEF ProcessMsg, Moves, AcarsInv, AcarsTypeOK, ByteTyped, Filled
  <2> QED BY <1>5, <2>3, <2>4, <2>5 DEF Printer
<1> QED BY <1>2, <1>3, <1>4, <1>5 DEF AcarsNext, AcarsGui
-----------------------------------------------------------------------------
(* acars: the ring of the printer is a queue.                              *)

PrinterInv ==
    /\ toPrint # <<>> <=> acarsGpc = "waits"
    /\ DOMAIN theData = 0..(theSlots - 1)
    /\ nextIn = (nextOut + Filled) % theSlots

\* A block that is printable has a byte.
LEMMA BlockHasBytes ==
    ASSUME NEW txt, IsSeq(txt), NEW crc, NEW blocks \in Printable(txt, crc),
           NEW block \in blocks
    PROVE  block # <<>>
<1> DEFINE t == ForceSTX(txt)
           pr == ParityErrors(t)
           sum == Crc(t \o crc)
<1>1. ~(Len(txt) < Header)
  BY DEF Printable
<1>2. 1 \in DOMAIN t
  <2>1. PICK S : txt \in Seq(S)
    BY DEF IsSeq
  <2>2. Header \in Nat \ {0} /\ Len(txt) \in Nat /\ DOMAIN txt = 1..Len(txt)
    BY <2>1, AcarsAssumption
  <2>3. 1 \in DOMAIN txt
    BY <1>1, <2>2
  <2> QED BY <2>3 DEF ForceSTX
<1>3. \/ block = NoParity(t)
      \/ \E f : block = NoParity(Fixprerr(t, pr, f))
  <2>1. \/ blocks = {}
        \/ blocks = {NoParity(t)}
        \/ \E fs : blocks = {NoParity(Fixprerr(t, pr, f)) : f \in fs}
    <3> DEFINE many == {{NoParity(Fixprerr(t, pr, f)) : f \in fs} :
                            fs \in Mends(t, sum, pr)}
    <3>1. Printable(txt, crc) \in {{{}}, {{NoParity(t)}}, many}
      BY DEF Printable
    <3>2. CASE blocks \in many
      BY <3>2
    <3> QED BY <3>1, <3>2
  <2> HIDE DEF t, pr
  <2> QED BY <2>1
<1>4. ASSUME NEW f PROVE DOMAIN Fixprerr(t, pr, f) = DOMAIN t
  BY DEF Fixprerr
<1> HIDE DEF t, pr
<1>5. DOMAIN block = DOMAIN t
  BY <1>3, <1>4 DEF NoParity
<1>6. DOMAIN <<>> = {}
  OBVIOUS
<1> QED BY <1>2, <1>5, <1>6

\* What follows from it for the semaphores and indices.
LEMMA FilledIs ==
    ASSUME AcarsInv
    PROVE  /\ theSlots \in Nat /\ theSlots >= 1
           /\ printerFree \in Nat /\ printerUsed \in Nat /\ Filled \in 0..theSlots
           /\ Filled = printerUsed + (IF printerPc = "process" THEN 1 ELSE 0)
           /\ printerFree + Filled = theSlots
           /\ nextIn \in 0..(theSlots - 1) /\ nextOut \in 0..(theSlots - 1)
  BY AcarsAssumption DEF AcarsInv, AcarsTypeOK, Filled

\* The messages in n slots from a on.
LEMMA WindowSeq ==
    ASSUME NEW d, NEW a \in 0..(theSlots - 1), NEW n \in 0..theSlots,
           NEW S, \A k \in 0..(theSlots - 1) : d[k] \in S,
           NEW w, w = [i \in 1..n |-> d[(a + i - 1) % theSlots]]
    PROVE  /\ w \in Seq(S) /\ Len(w) = n
           /\ \A i \in 1..n : w[i] = d[(a + (i - 1)) % theSlots]
<1>1. theSlots \in Nat /\ n \in Nat
  BY AcarsAssumption
<1>2. ASSUME NEW i \in 1..n
      PROVE  d[(a + i - 1) % theSlots] \in S /\ a + i - 1 = a + (i - 1)
  <2>1. i - 1 \in 0..theSlots /\ a + i - 1 = a + (i - 1)
    BY <1>1
  <2>2. (a + (i - 1)) % theSlots \in 0..(theSlots - 1)
    BY <1>1, <2>1, NextSlot
  <2> QED BY <2>1, <2>2
<1>3. w \in Seq(S) /\ Len(w) = n /\ \A i \in 1..n : w[i] = d[(a + i - 1) % theSlots]
  BY <1>1, <1>2
<1> QED BY <1>2, <1>3

\* output_msg appends to the messages that wait.
LEMMA PutAppends ==
    ASSUME AcarsInv, PrinterInv, OutputMsg
    PROVE  Waiting' = Append(Waiting, toPrint) /\ Len(Waiting) < theSlots
<1> DEFINE S == {theData[k] : k \in 0..(theSlots - 1)} \cup {toPrint}
           n == Filled
           a == nextOut
           d == theData
           e == [d EXCEPT ![nextIn] = toPrint]
           slot(i) == (a + (i - 1)) % theSlots
<1>1. /\ theSlots \in Nat /\ n \in 0..(theSlots - 1) /\ n + 1 \in 0..theSlots
      /\ a \in 0..(theSlots - 1) /\ Filled' = n + 1
  <2>1. printerFree > 0 /\ printerUsed' = printerUsed + 1 /\ printerPc' = printerPc
    BY DEF OutputMsg, printerVars
  <2>2. Filled' = Filled + 1
    BY <2>1, FilledIs DEF Filled
  <2> QED BY <2>1, <2>2, FilledIs
<1>2. /\ theData' = e /\ nextOut' = a /\ DOMAIN d = 0..(theSlots - 1)
      /\ nextIn \in 0..(theSlots - 1) /\ nextIn = (a + n) % theSlots
  BY FilledIs DEF OutputMsg, PrinterInv
<1>3. /\ \A k \in 0..(theSlots - 1) : d[k] \in S /\ e[k] \in S
      /\ toPrint \in S
      /\ \A k \in 0..(theSlots - 1) : e[k] = IF k = nextIn THEN toPrint ELSE d[k]
  BY <1>2
<1>4. /\ Waiting = [i \in 1..n |-> d[(a + i - 1) % theSlots]]
      /\ Waiting' = [i \in 1..(n + 1) |-> e[(a + i - 1) % theSlots]]
  BY <1>1, <1>2 DEF Waiting
<1> HIDE DEF S, n, a, d, e
<1>5. /\ Waiting \in Seq(S) /\ Len(Waiting) = n
      /\ \A i \in 1..n : Waiting[i] = d[slot(i)]
  BY <1>1, <1>3, <1>4, WindowSeq
<1>6. /\ Waiting' \in Seq(S) /\ Len(Waiting') = n + 1
      /\ \A i \in 1..(n + 1) : Waiting'[i] = e[slot(i)]
  BY <1>1, <1>3, <1>4, WindowSeq
<1> DEFINE q == Append(Waiting, toPrint)
<1>7. /\ q \in Seq(S) /\ Len(q) = n + 1
      /\ \A i \in 1..(n + 1) : q[i] = IF i = n + 1 THEN toPrint ELSE Waiting[i]
  BY <1>1, <1>3, <1>5
<1> HIDE DEF q
<1>8. ASSUME NEW i \in 1..(n + 1) PROVE Waiting'[i] = q[i]
  <2>0. i - 1 \in 0..theSlots
    BY <1>1
  <2>1. slot(i) = IF a + (i - 1) < theSlots THEN a + (i - 1) ELSE a + (i - 1) - theSlots
    BY <1>1, <2>0, NextSlot
  <2>2. nextIn = IF a + n < theSlots THEN a + n ELSE a + n - theSlots
    BY <1>1, <1>2, NextSlot
  <2>3. CASE i = n + 1
    <3>1. slot(i) = nextIn
      BY <1>1, <2>1, <2>2, <2>3
    <3> QED BY <1>2, <1>3, <1>6, <1>7, <2>3, <3>1
  <2>4. CASE i # n + 1
    <3>1. i \in 1..n /\ slot(i) # nextIn /\ slot(i) \in 0..(theSlots - 1)
      BY <1>1, <2>1, <2>2, <2>4
    <3>2. e[slot(i)] = d[slot(i)]
      BY <1>3, <3>1
    <3> QED BY <1>5, <1>6, <1>7, <2>4, <3>1, <3>2
  <2> QED BY <2>3, <2>4
<1>9. Waiting' = q
  BY <1>1, <1>6, <1>7, <1>8, SeqEqual
<1> QED BY <1>1, <1>5, <1>9 DEF q

\* process_msg takes the oldest message.
LEMMA TakeIsHead ==
    ASSUME AcarsInv, PrinterInv, ProcessMsg
    PROVE  /\ Waiting # <<>> /\ Head(Waiting) = theData[nextOut]
           /\ Waiting' = Tail(Waiting)
<1> DEFINE S == {theData[k] : k \in 0..(theSlots - 1)}
           n == Filled
           a == nextOut
           b == (a + 1) % theSlots
           d == theData
<1>1. /\ theSlots \in Nat /\ n \in 1..theSlots /\ n - 1 \in 0..theSlots
      /\ n \in 0..theSlots /\ a \in 0..(theSlots - 1) /\ Filled' = n - 1
  <2>1. printerPc = "process" /\ printerPc' = "loop" /\ printerUsed' = printerUsed
    BY DEF ProcessMsg, Moves
  <2>2. Filled = printerUsed + 1 /\ Filled' = printerUsed
    BY <2>1, FilledIs DEF Filled
  <2> QED BY <2>2, FilledIs
<1>2. b = (IF a + 1 < theSlots THEN a + 1 ELSE a + 1 - theSlots) /\ b \in 0..(theSlots - 1)
  <2>1. 1 \in 0..theSlots
    BY <1>1
  <2> QED BY <1>1, <2>1, NextSlot
<1>3. theData' = d /\ nextOut' = b
  BY DEF ProcessMsg
<1>4. \A k \in 0..(theSlots - 1) : d[k] \in S
  OBVIOUS
<1>5. /\ Waiting = [i \in 1..n |-> d[(a + i - 1) % theSlots]]
      /\ Waiting' = [i \in 1..(n - 1) |-> d[(b + i - 1) % theSlots]]
  BY <1>1, <1>3 DEF Waiting
<1> HIDE DEF S, n, a, b, d
<1>6. /\ Waiting \in Seq(S) /\ Len(Waiting) = n
      /\ \A i \in 1..n : Waiting[i] = d[(a + (i - 1)) % theSlots]
  BY <1>1, <1>4, <1>5, WindowSeq
<1>7. /\ Waiting' \in Seq(S) /\ Len(Waiting') = n - 1
      /\ \A i \in 1..(n - 1) : Waiting'[i] = d[(b + (i - 1)) % theSlots]
  BY <1>1, <1>2, <1>4, <1>5, WindowSeq
<1>8. Waiting # <<>> /\ Head(Waiting) = d[a]
  <2>1. (a + (1 - 1)) % theSlots = a
    <3>1. a + (1 - 1) = a
      BY <1>1
    <3>2. a % theSlots = a
      BY <1>1, SMTT(30)
    <3> QED BY <3>1, <3>2
  <2>2. Waiting[1] = d[a] /\ Len(Waiting) > 0
    BY <1>1, <1>6, <2>1
  <2> QED BY <1>6, <2>2
<1> DEFINE q == Tail(Waiting)
<1>9. /\ q \in Seq(S) /\ Len(q) = n - 1 /\ \A i \in 1..(n - 1) : q[i] = Waiting[i + 1]
  BY <1>1, <1>6, <1>8
<1> HIDE DEF q
<1>10. ASSUME NEW i \in 1..(n - 1) PROVE Waiting'[i] = q[i]
  <2>1. /\ i - 1 \in 0..theSlots /\ i \in 0..theSlots /\ i + 1 \in 1..n /\ (i + 1) - 1 = i
    BY <1>1
  <2>2. (a + i) % theSlots = IF a + i < theSlots THEN a + i ELSE a + i - theSlots
    BY <1>1, <2>1, NextSlot
  <2>3. (b + (i - 1)) % theSlots
            = IF b + (i - 1) < theSlots THEN b + (i - 1) ELSE b + (i - 1) - theSlots
    BY <1>2, <2>1, NextSlot
  <2>4. (b + (i - 1)) % theSlots = (a + i) % theSlots
    BY <1>1, <1>2, <2>1, <2>2, <2>3
  <2>5. Waiting[i + 1] = d[(a + i) % theSlots]
    BY <1>6, <2>1
  <2> QED BY <1>7, <1>9, <2>4, <2>5
<1>11. Waiting' = q
  <2>1. n - 1 \in Nat
    BY <1>1
  <2> QED BY <1>7, <1>9, <1>10, <2>1, SeqEqual
<1> QED BY <1>8, <1>11 DEF q, d, a

\* The queue is what the slots and indices make of it.
LEMMA WaitingKept ==
    ASSUME Filled' = Filled, UNCHANGED <<theData, nextOut>> PROVE Waiting' = Waiting
BY DEF Waiting

\* An empty ring is an empty queue.
LEMMA PrinterStarts == AcarsInit => PrinterInv /\ PrinterQueue!Init
<1> SUFFICES ASSUME AcarsInit PROVE PrinterInv /\ PrinterQueue!Init
  OBVIOUS
<1>1. theSlots \in Nat /\ theSlots >= 1
  BY AcarsAssumption
<1>2. Filled = 0
  BY DEF AcarsInit, Filled
<1>3. 0 % theSlots = 0 /\ 0 + 0 = 0
  BY <1>1, SMTT(30)
<1>4. PrinterInv
  BY <1>2, <1>3 DEF AcarsInit, PrinterInv
<1>5. Waiting = <<>>
  BY <1>2 DEF Waiting
<1> QED BY <1>4, <1>5 DEF AcarsInit, PrinterQueue!Init, PrinterQueue!NoMessage

\* Nothing but the slots, indices and semaphores counts.
LEMMA PrinterSame ==
    ASSUME AcarsInv, PrinterInv, UNCHANGED <<acarsGpc, toPrint, acarsSlots, printerPc>>
    PROVE  PrinterInv' /\ Waiting' = Waiting
<1>1. Filled' = Filled /\ UNCHANGED <<theData, nextIn, nextOut>>
  BY DEF Filled, acarsSlots
<1> QED BY <1>1, WaitingKept DEF PrinterInv

\* The bits bring a message that is to be printed, or nothing that matters here.
LEMMA BitsOffer ==
    ASSUME AcarsInv, PrinterInv, Putbit
    PROVE  /\ PrinterInv' /\ UNCHANGED <<Waiting, printed>>
           /\ toPrint' = toPrint \/ (toPrint = <<>> /\ toPrint' # <<>>)
<1>1. /\ acarsGpc = "runs" /\ toPrint = <<>>
      /\ UNCHANGED <<acarsSlots, printerVars>>
  BY DEF Putbit, PrinterInv
<1>2. \/ UNCHANGED <<acarsGpc, toPrint>>
      \/ \E txt, crc : IsSeq(txt) /\ ProcessBlock(txt, crc)
  <2>1. CASE nbits > 1
    BY <2>1 DEF Putbit, SameBlock
  <2>2. CASE ~(nbits > 1)
    <3>1. PICK theByte : DecodeAcars(theByte)
      BY <2>2 DEF Putbit
    <3>2. CASE Sync(theByte) \/ Soh1(theByte) \/ Crc1(theByte) \/ End
      BY <3>2 DEF Sync, Soh1, Crc1, End, SameBlock
    <3>3. CASE Crc2(theByte)
      BY <3>3 DEF Crc2, AcarsInv
    <3>4. CASE Txt(theByte)
      <4> DEFINE txt == Append(blk_txt, theByte)
      <4>1. \/ UNCHANGED <<acarsGpc, toPrint>>
            \/ Len(txt) > Recovers /\ MissedEnd(txt)
        BY <3>4 DEF Txt
      <4>2. CASE Len(txt) > Recovers /\ MissedEnd(txt)
        <5>1. IsSeq(txt) /\ Len(txt) \in Nat
          <6>1. IsSeq(blk_txt)
            BY DEF AcarsInv
          <6>2. IsSeq(txt) /\ Len(txt) = Len(blk_txt) + 1 /\ Len(blk_txt) \in Nat
            BY <6>1, IsSeqAppend
          <6> HIDE DEF txt
          <6> QED BY <6>2
        <5> DEFINE n == Len(txt) - 3
        <5>2. n \in 0..Len(txt)
          <6> HIDE DEF txt
          <6> QED BY <4>2, <5>1, AcarsAssumption
        <5>3. /\ blk_txt' = SubSeq(txt, 1, n)
              /\ ProcessBlock(blk_txt', blk_crc')
          BY <4>2 DEF MissedEnd
        <5> HIDE DEF txt, n
        <5>4. IsSeq(SubSeq(txt, 1, n))
          BY <5>1, <5>2, IsSeqSub
        <5>5. PICK t, c : t = SubSeq(txt, 1, n) /\ ProcessBlock(t, c)
          BY <5>3
        <5> QED BY <5>4, <5>5
      <4> QED BY <4>1, <4>2
    <3> QED BY <3>1, <3>2, <3>3, <3>4 DEF DecodeAcars
  <2> QED BY <2>1, <2>2
<1>3. CASE UNCHANGED <<acarsGpc, toPrint>>
  BY <1>1, <1>3, PrinterSame DEF printerVars
<1>4. ASSUME NEW txt, NEW crc, IsSeq(txt), ProcessBlock(txt, crc)
      PROVE  \/ UNCHANGED <<acarsGpc, toPrint>>
             \/ acarsGpc' = "waits" /\ toPrint' # <<>>
  BY <1>4, BlockHasBytes DEF ProcessBlock
<1>5. CASE acarsGpc' = "waits" /\ toPrint' # <<>>
  <2>1. Filled' = Filled /\ UNCHANGED <<theData, nextIn, nextOut, printed>>
    BY <1>1 DEF Filled, acarsSlots, printerVars
  <2> QED BY <1>1, <1>5, <2>1, WaitingKept DEF PrinterInv
<1> QED BY <1>2, <1>3, <1>4, <1>5

\* After each step, the indices are again as far apart as there are messages,
\* and the queue has made the step, or none.
LEMMA PrinterSteps ==
    AcarsInv /\ PrinterInv /\ AcarsNext
        => PrinterInv' /\ [PrinterQueue!Next]_PrinterQueue!vars
<1> SUFFICES ASSUME AcarsInv, PrinterInv, AcarsNext
             PROVE  PrinterInv' /\ [PrinterQueue!Next]_PrinterQueue!vars
  OBVIOUS
<1>1. CASE Putbit
  <2>1. CASE toPrint' = toPrint
    BY <1>1, <2>1, BitsOffer DEF PrinterQueue!vars
  <2>2. CASE toPrint = <<>> /\ toPrint' # <<>>
    <3>1. PrinterQueue!Offers
      BY <1>1, <2>2, BitsOffer DEF PrinterQueue!Offers, PrinterQueue!NoMessage
    <3> QED BY <1>1, <3>1, BitsOffer DEF PrinterQueue!Next
  <2> QED BY <1>1, <2>1, <2>2, BitsOffer
<1>2. CASE OutputMsg
  <2>1. Waiting' = Append(Waiting, toPrint) /\ Len(Waiting) < theSlots
    BY <1>2, PutAppends
  <2>2. /\ acarsGpc = "waits" /\ acarsGpc' = "runs" /\ toPrint # <<>> /\ toPrint' = <<>>
        /\ printed' = printed /\ DOMAIN theData' = DOMAIN theData
        /\ printerFree > 0 /\ printerUsed' = printerUsed + 1
        /\ nextIn' = (nextIn + 1) % theSlots /\ nextOut' = nextOut
        /\ printerPc' = printerPc
    BY <1>2 DEF OutputMsg, PrinterInv, printerVars
  <2>3. PrinterQueue!Puts
    BY <2>1, <2>2 DEF PrinterQueue!Puts, PrinterQueue!NoMessage
  <2>4. nextIn' = (nextOut' + Filled') % theSlots
    <3> DEFINE n == Filled
    <3>2. Filled' = n + 1
      BY <2>2, FilledIs DEF Filled
    <3>7. nextIn = (nextOut + n) % theSlots
      BY DEF PrinterInv
    <3>8. /\ theSlots \in Nat /\ theSlots >= 1 /\ printerFree \in Nat
          /\ n \in 0..theSlots /\ printerFree + n = theSlots
      BY FilledIs
    <3>9. nextOut \in 0..(theSlots - 1) /\ nextIn \in 0..(theSlots - 1)
      BY FilledIs
    <3> HIDE DEF n
    <3>10. printerFree > 0
      BY <2>2
    <3>11. /\ n \in 0..(theSlots - 1) /\ n + 1 \in 0..theSlots /\ 1 \in 0..theSlots
      BY <3>8, <3>10
    <3>1. /\ n \in 0..(theSlots - 1) /\ n + 1 \in 0..theSlots /\ n \in 0..theSlots
          /\ 1 \in 0..theSlots /\ theSlots \in Nat
          /\ nextOut \in 0..(theSlots - 1) /\ nextIn \in 0..(theSlots - 1)
          /\ nextIn = (nextOut + n) % theSlots
      BY <3>7, <3>8, <3>9, <3>11
    <3>3. nextIn = IF nextOut + n < theSlots THEN nextOut + n ELSE nextOut + n - theSlots
      BY <3>1, NextSlot
    <3>4. (nextIn + 1) % theSlots = IF nextIn + 1 < theSlots THEN nextIn + 1
                                    ELSE nextIn + 1 - theSlots
      BY <3>1, NextSlot
    <3>5. (nextOut + (n + 1)) % theSlots
              = IF nextOut + (n + 1) < theSlots THEN nextOut + (n + 1)
                ELSE nextOut + (n + 1) - theSlots
      BY <3>1, NextSlot
    <3>6. (nextIn + 1) % theSlots = (nextOut + (n + 1)) % theSlots
      BY <3>1, <3>3, <3>4, <3>5
    <3> QED BY <2>2, <3>2, <3>6
  <2>5. PrinterInv'
    BY <2>2, <2>4 DEF PrinterInv
  <2> QED BY <2>3, <2>5 DEF PrinterQueue!Next
<1>3. CASE DeletePrinter \/ PrinterJoined
  <2>1. /\ acarsGpc # "waits" /\ acarsGpc' # "waits"
        /\ UNCHANGED <<toPrint, acarsSlots, printerPc, printed>>
    BY <1>3 DEF DeletePrinter, PrinterJoined, printerVars
  <2>2. Filled' = Filled /\ UNCHANGED <<theData, nextIn, nextOut>>
    BY <2>1 DEF Filled, acarsSlots
  <2>3. PrinterInv'
    BY <2>1, <2>2 DEF PrinterInv
  <2> QED BY <2>1, <2>2, <2>3, WaitingKept DEF PrinterQueue!vars
<1>4. CASE Printer
  <2>0. UNCHANGED <<acarsGpc, toPrint>>
    BY <1>4 DEF Printer
  <2>1. CASE Begins \/ Loops \/ TimesOut \/ Acquires
    <3>1. Filled' = Filled /\ UNCHANGED <<theData, nextIn, nextOut, printed>>
      <4>1. printerUsed \in Nat
        BY FilledIs
      <4> QED BY <2>1, <4>1 DEF Begins, Loops, TimesOut, Acquires, Moves, Filled, acarsSlots
    <3>2. PrinterInv'
      BY <2>0, <3>1 DEF PrinterInv
    <3> QED BY <2>0, <3>1, <3>2, WaitingKept DEF PrinterQueue!vars
  <2>2. CASE ProcessMsg
    <3>1. /\ Waiting # <<>> /\ Head(Waiting) = theData[nextOut] /\ Waiting' = Tail(Waiting)
      BY <2>2, TakeIsHead
    <3>2. /\ printed' = Append(printed, theData[nextOut]) /\ nextIn' = nextIn
          /\ theData' = theData /\ nextOut' = (nextOut + 1) % theSlots
          /\ printerPc = "process" /\ printerPc' = "loop" /\ printerUsed' = printerUsed
      BY <2>2 DEF ProcessMsg, Moves
    <3>3. PrinterQueue!Takes
      BY <2>0, <3>1, <3>2 DEF PrinterQueue!Takes
    <3>4. nextIn' = (nextOut' + Filled') % theSlots
      <4> DEFINE n == Filled
                 b == (nextOut + 1) % theSlots
      <4>1. /\ n \in 1..theSlots /\ n - 1 \in 0..theSlots /\ n \in 0..theSlots
            /\ 1 \in 0..theSlots /\ theSlots \in Nat /\ Filled' = n - 1
            /\ nextOut \in 0..(theSlots - 1) /\ nextIn \in 0..(theSlots - 1)
            /\ nextIn = (nextOut + n) % theSlots
        <5>1. n = printerUsed + 1 /\ Filled' = printerUsed
          BY <3>2, FilledIs DEF Filled
        <5>2. nextIn = (nextOut + n) % theSlots
          BY DEF PrinterInv
        <5>3. theSlots \in Nat /\ theSlots >= 1 /\ printerUsed \in Nat /\ n \in 0..theSlots
          BY FilledIs
        <5>4. nextOut \in 0..(theSlots - 1) /\ nextIn \in 0..(theSlots - 1)
          BY FilledIs
        <5> HIDE DEF n
        <5>5. n \in 1..theSlots /\ n - 1 \in 0..theSlots /\ 1 \in 0..theSlots /\ Filled' = n - 1
          BY <5>1, <5>3
        <5> QED BY <5>2, <5>3, <5>4, <5>5
      <4> HIDE DEF n
      <4>2. nextIn = IF nextOut + n < theSlots THEN nextOut + n ELSE nextOut + n - theSlots
        BY <4>1, NextSlot
      <4>3. /\ b = IF nextOut + 1 < theSlots THEN nextOut + 1 ELSE nextOut + 1 - theSlots
            /\ b \in 0..(theSlots - 1)
        BY <4>1, NextSlot
      <4> HIDE DEF b
      <4>4. (b + (n - 1)) % theSlots = IF b + (n - 1) < theSlots THEN b + (n - 1)
                                       ELSE b + (n - 1) - theSlots
        BY <4>1, <4>3, NextSlot
      <4>5. nextIn = (b + (n - 1)) % theSlots
        BY <4>1, <4>2, <4>3, <4>4
      <4> QED BY <3>2, <4>1, <4>5 DEF b
    <3>5. PrinterInv'
      BY <2>0, <3>2, <3>4 DEF PrinterInv
    <3> QED BY <3>3, <3>5 DEF PrinterQueue!Next
  <2> QED BY <1>4, <2>1, <2>2 DEF Printer
<1> QED BY <1>1, <1>2, <1>3, <1>4 DEF AcarsNext, AcarsGui

\* A step of another decoder is none of the queue.
LEMMA PrinterRests ==
    AcarsInv /\ PrinterInv /\ UNCHANGED acarsVars
        => PrinterInv' /\ UNCHANGED PrinterQueue!vars
<1> SUFFICES ASSUME AcarsInv, PrinterInv, UNCHANGED acarsVars
             PROVE  PrinterInv' /\ UNCHANGED PrinterQueue!vars
  OBVIOUS
<1>1. UNCHANGED <<acarsGpc, toPrint, acarsSlots, printerPc, printed>>
  BY DEF acarsVars, printerVars
<1> QED BY <1>1, PrinterSame DEF PrinterQueue!vars
-----------------------------------------------------------------------------
(* psk: what traceback reads.                                              *)

PskInv ==
    /\ PskTypeOK /\ IsSeq(pskDecodeShifter)
    /\ history \in [0..(PATHMEM - 1) -> [ViterbiStates -> ViterbiStates]]

\* The shift register, when the decoder is made.
LEMMA ZerosIsSeq == ASSUME NEW n \in Nat PROVE IsSeq(Zeros(n)) /\ Len(Zeros(n)) = n
<1>1. Zeros(n) \in Seq({0}) /\ Len(Zeros(n)) = n
  BY DEF Zeros
<1> QED BY <1>1 DEF IsSeq

LEMMA PskStarts == PskInit => PskInv
<1> SUFFICES ASSUME PskInit PROVE PskInv
  OBVIOUS
<1>1. IsSeq(pskDecodeShifter) /\ Len(pskDecodeShifter) = 16
  BY ZerosIsSeq DEF PskInit
<1>2. /\ history = [p \in 0..(PATHMEM - 1) |-> [s \in ViterbiStates |-> 0]]
      /\ ptr = 0 /\ pskQuality = 0
  BY DEF PskInit
<1>3. PATHMEM \in Nat \ {0} /\ PskOpens \in Nat
  BY PskAssumption
<1> QED BY <1>1, <1>2, <1>3 DEF PskInv, PskTypeOK, ViterbiStates

LEMMA PskStays == PskInv /\ UNCHANGED pskVars => PskInv'
  BY DEF PskInv, PskTypeOK, pskVars, viterbiVars

\* The path that is kept comes from one of the two states before.
LEMMA BestIsPredecessor ==
    ASSUME NEW sym, NEW s \in ViterbiStates
    PROVE  /\ BestPredecessor(sym, s) \in Predecessors(s)
           /\ BestPredecessor(sym, s) \in ViterbiStates
  BY DEF BestPredecessor, Predecessors, ViterbiStates

\* A symbol moves ptr on by one place, modulo PATHMEM, or not at all.
LEMMA PskSteps ==
    ASSUME DoDecode
    PROVE  \/ UNCHANGED viterbiVars
           \/ \E x, y \in {0, 255} : ViterbiDecode(<<x, y>>)
  BY DEF DoDecode, QpskBit

\* ptr goes around, and begins a chunk after the last symbol of another.
LEMMA NextPtr ==
    ASSUME ptr \in 0..(PATHMEM - 1)
    PROVE  /\ (ptr + 1) % PATHMEM \in 0..(PATHMEM - 1)
           /\ ((ptr + 1) % PATHMEM) % 8 = 0 => ptr % 8 = 7
<1>1. PATHMEM \in Nat \ {0} /\ PATHMEM % 8 = 0
  BY PskAssumption
<1>2. CASE ptr + 1 < PATHMEM
  <2>1. (ptr + 1) % PATHMEM = ptr + 1
    BY <1>1, <1>2, SMTT(30)
  <2>2. (ptr + 1) % 8 = 0 => ptr % 8 = 7
    BY <1>1
  <2> QED BY <1>1, <1>2, <2>1, <2>2
<1>3. CASE ptr + 1 = PATHMEM
  <2>1. (ptr + 1) % PATHMEM = 0
    BY <1>1, <1>3, SMTT(30)
  <2>2. ptr % 8 = 7
    BY <1>1, <1>3
  <2> QED BY <1>1, <2>1, <2>2
<1> QED BY <1>1, <1>2, <1>3

\* ptr and the states in history stay in the range that chainBack indexes with.
LEMMA PskKeeps == PskInv /\ PskNext => PskInv'
<1> SUFFICES ASSUME PskInv, DoDecode PROVE PskInv'
  BY DEF PskNext
<1>1. IsSeq(pskDecodeShifter') /\ Len(pskDecodeShifter') = 16
  <2>1. PICK bits : pskDecodeShifter' = <<bits>> \o SubSeq(pskDecodeShifter, 1, 15)
    BY DEF DoDecode, PskShifter
  <2>2. IsSeq(pskDecodeShifter) /\ 15 \in 0..Len(pskDecodeShifter)
    BY DEF PskInv, PskTypeOK
  <2> DEFINE sub == SubSeq(pskDecodeShifter, 1, 15)
  <2>3. IsSeq(sub) /\ Len(sub) = 15
    BY <2>2, IsSeqSub
  <2> HIDE DEF sub
  <2>4. IsSeq(<<bits>> \o sub) /\ Len(<<bits>> \o sub) = Len(sub) + 1
    BY <2>3, IsSeqCons
  <2> QED BY <2>1, <2>3, <2>4 DEF sub
<1>2. pskQuality' \in 0..PskOpens
  BY PskAssumption DEF DoDecode, PskQuality, PskInv, PskTypeOK
<1>3. /\ ptr \in 0..(PATHMEM - 1)
      /\ history \in [0..(PATHMEM - 1) -> [ViterbiStates -> ViterbiStates]]
      /\ \A p \in 0..(PATHMEM - 1), s \in ViterbiStates :
             history[p][s] \in Predecessors(s) \cup {0}
  BY DEF PskInv, PskTypeOK
<1>4. CASE UNCHANGED viterbiVars
  BY <1>1, <1>2, <1>3, <1>4 DEF PskInv, PskTypeOK, viterbiVars
<1>5. ASSUME NEW x, NEW y, ViterbiDecode(<<x, y>>) PROVE PskInv'
  <2> DEFINE best == [s \in ViterbiStates |-> BestPredecessor(<<x, y>>, s)]
  <2>1. /\ history' = [history EXCEPT ![ptr] = best]
        /\ ptr' = (ptr + 1) % PATHMEM
    BY <1>5 DEF ViterbiDecode
  <2>2. /\ best \in [ViterbiStates -> ViterbiStates]
        /\ \A s \in ViterbiStates : best[s] \in Predecessors(s)
    BY BestIsPredecessor
  <2> HIDE DEF best
  <2>3. ptr' \in 0..(PATHMEM - 1)
    BY <1>3, <2>1, NextPtr
  <2>4. history' \in [0..(PATHMEM - 1) -> [ViterbiStates -> ViterbiStates]]
    BY <1>3, <2>1, <2>2
  <2>5. \A p \in 0..(PATHMEM - 1), s \in ViterbiStates :
            history'[p][s] \in Predecessors(s) \cup {0}
    BY <1>3, <2>1, <2>2
  <2> QED BY <1>1, <1>2, <2>3, <2>4, <2>5 DEF PskInv, PskTypeOK, Predecessors
<1> QED BY <1>4, <1>5, PskSteps

-----------------------------------------------------------------------------
(* psk: the metrics.  What keeps them from overflowing is that they are    *)
(* never far apart (Spread): after four symbols each state has been        *)
(* reached from all others.  And the lowest one never falls: to each state *)
(* one of the two branches adds as much as the other one takes away.       *)

Spread(row) ==
    \A s, t \in ViterbiStates :
        /\ s \div 2 = t \div 2 => row[s] - row[t] <= 512
        /\ s \div 4 = t \div 4 => row[s] - row[t] <= 1024
        /\ s \div 8 = t \div 8 => row[s] - row[t] <= 1536
        /\ row[s] - row[t] <= 2048

\* State 0 is made smaller after the symbols that end no chunk.
MetricsInv ==
    /\ metrics \in [ViterbiStates -> Int] /\ ptr \in 0..(PATHMEM - 1)
    /\ Spread(metrics) /\ \A s \in ViterbiStates : metrics[s] >= -2048
    /\ metrics[0] <= IntMax \div 2 + (IF ptr % 8 = 0 THEN 2304 ELSE 0)

\* The bit that falls out of the shift register turns both dibits over.
LEMMA DibitsTurned ==
    ASSUME NEW p \in 0..7, NEW b \in 0..1
    PROVE  Dibitsfor(p, b) \in 0..3 /\ Dibitsfor(p + 8, b) = 3 - Dibitsfor(p, b)
<1> DEFINE reg == 2 * p + b
           upper(x) == (((x \div 1) % 2) + ((x \div 8) % 2) + ((x \div 16) % 2)) % 2
           lower(x) == (((x \div 1) % 2) + ((x \div 2) % 2) + ((x \div 4) % 2)
                        + ((x \div 16) % 2)) % 2
<1>1. Dibitsfor(p, b) = 2 * upper(reg) + lower(reg)
  BY DEF Dibitsfor, ViterbiStates
<1>2. Dibitsfor(p + 8, b) = 2 * upper(reg + 16) + lower(reg + 16)
  BY DEF Dibitsfor, ViterbiStates
<1>3. reg \in 0..15
  OBVIOUS
<1>4. \A x \in 0..15 : /\ upper(x) \in 0..1 /\ upper(x + 16) = 1 - upper(x)
                       /\ lower(x) \in 0..1 /\ lower(x + 16) = 1 - lower(x)
  OBVIOUS
<1> HIDE DEF reg, upper, lower
<1> QED BY <1>1, <1>2, <1>3, <1>4

\* What a symbol adds to one branch into a state, and takes from the other one.
Gain(x, y, s) ==
    LET d == Dibitsfor(s \div 2, s % 2) IN Mettab(d \div 2, y) + Mettab(d % 2, x)

\* So of the two branches into a state one adds what the other one takes.
LEMMA Opposite ==
    ASSUME metrics \in [ViterbiStates -> Int],
           NEW x \in {0, 255}, NEW y \in {0, 255}, NEW s \in ViterbiStates
    PROVE  /\ Gain(x, y, s) \in (-256)..256
           /\ Metric(<<x, y>>, s, s \div 2) = metrics[s \div 2] + Gain(x, y, s)
           /\ Metric(<<x, y>>, s, s \div 2 + 8) = metrics[s \div 2 + 8] - Gain(x, y, s)
<1> DEFINE p == s \div 2
           b == s % 2
           d == Dibitsfor(p, b)
           a == Gain(x, y, s)
<1>1. p \in 0..7 /\ b \in 0..1
  BY DEF ViterbiStates
<1>2. d \in 0..3 /\ Dibitsfor(p + 8, b) = 3 - d
  BY <1>1, DibitsTurned
<1>3. Metric(<<x, y>>, s, p) = metrics[p] + a
  BY <1>1 DEF Metric, Gain, Mettab, ViterbiStates
<1> DEFINE e == Dibitsfor(p + 8, b)
<1>4. Metric(<<x, y>>, s, p + 8)
          = metrics[p + 8] + Mettab(e \div 2, y) + Mettab(e % 2, x)
  BY DEF Metric
<1>5. metrics[p] \in Int /\ metrics[p + 8] \in Int
  BY <1>1 DEF ViterbiStates
<1> DEFINE up == Mettab(d \div 2, y)
           low == Mettab(d % 2, x)
<1>6. a = up + low
  BY DEF Gain
<1> HIDE DEF p, b, d, e, a
<1>7. /\ d \div 2 \in 0..1 /\ e \div 2 = 1 - d \div 2
      /\ d % 2 \in 0..1 /\ e % 2 = 1 - (d % 2)
  <2>1. d \in {0, 1, 2, 3} /\ e = 3 - d
    BY <1>2 DEF e
  <2> QED BY <2>1
<1>8. \A bit \in 0..1, v \in {0, 255} :
          Mettab(bit, v) \in (-128)..128 /\ Mettab(1 - bit, v) = -Mettab(bit, v)
  BY DEF Mettab
<1>9. /\ up \in (-128)..128 /\ Mettab(e \div 2, y) = -up
      /\ low \in (-128)..128 /\ Mettab(e % 2, x) = -low
  BY <1>7, <1>8
<1> HIDE DEF up, low
<1>10. a \in (-256)..256
  BY <1>6, <1>9
<1>11. Metric(<<x, y>>, s, p + 8) = metrics[p + 8] - a
  <2>1. Metric(<<x, y>>, s, p + 8) = metrics[p + 8] + (-up) + (-low)
    BY <1>4, <1>9
  <2> QED BY <2>1, <1>5, <1>6, <1>9
<1> QED BY <1>3, <1>10, <1>11 DEF p, a

\* What PATHMEM and IntMax are assumed to be is enough for one chunk.
LEMMA HalfIntMax == IntMax \div 2 \in Nat /\ 2 * (IntMax \div 2) <= IntMax /\ IntMax \div 2 >= 4608
  BY PskAssumption

\* The row of the next symbol, from that of the last one.
NextRow(sym) == [s \in ViterbiStates |-> Metric(sym, s, BestPredecessor(sym, s))]

\* A symbol changes no metric by more than 256, and the lowest one never falls.
LEMMA RowBounds ==
    ASSUME metrics \in [ViterbiStates -> Int],
           NEW x \in {0, 255}, NEW y \in {0, 255}, NEW s \in ViterbiStates
    PROVE  LET p == s \div 2  n == NextRow(<<x, y>>)[s]
           IN  /\ n \in Int /\ p \in 0..7
               /\ n <= metrics[p] + 256 \/ n <= metrics[p + 8] + 256
               /\ n >= metrics[p] - 256 /\ n >= metrics[p + 8] - 256
               /\ n >= metrics[p] \/ n >= metrics[p + 8]
<1> DEFINE p == s \div 2
           n == NextRow(<<x, y>>)[s]
<1>1. p \in 0..7 /\ metrics[p] \in Int /\ metrics[p + 8] \in Int
  BY DEF ViterbiStates
<1> DEFINE a == Gain(x, y, s)
           m == Metric(<<x, y>>, s, p)
           o == Metric(<<x, y>>, s, p + 8)
<1>2. a \in (-256)..256 /\ m = metrics[p] + a /\ o = metrics[p + 8] - a
  BY Opposite
<1>3. n = IF m > o THEN m ELSE o
  BY DEF NextRow, BestPredecessor
<1> HIDE DEF p, m, o, n, a
<1>4. /\ n \in Int
      /\ n <= metrics[p] + 256 \/ n <= metrics[p + 8] + 256
      /\ n >= metrics[p] - 256 /\ n >= metrics[p + 8] - 256
      /\ n >= metrics[p] \/ n >= metrics[p + 8]
  BY <1>1, <1>2, <1>3
<1> QED BY <1>1, <1>4 DEF p, n

\* Two states that share a predecessor are close, and those whose predecessors
\* share one a little less.
LEMMA SpreadStays ==
    ASSUME metrics \in [ViterbiStates -> Int], Spread(metrics),
           NEW x \in {0, 255}, NEW y \in {0, 255}
    PROVE  Spread(NextRow(<<x, y>>))
<1> DEFINE row == NextRow(<<x, y>>)
<1> SUFFICES ASSUME NEW s \in ViterbiStates, NEW t \in ViterbiStates
             PROVE  /\ s \div 2 = t \div 2 => row[s] - row[t] <= 512
                    /\ s \div 4 = t \div 4 => row[s] - row[t] <= 1024
                    /\ s \div 8 = t \div 8 => row[s] - row[t] <= 1536
                    /\ row[s] - row[t] <= 2048
  BY DEF Spread
<1> DEFINE p == s \div 2
           q == t \div 2
<1>1. /\ row[s] \in Int /\ p \in 0..7
      /\ row[s] <= metrics[p] + 256 \/ row[s] <= metrics[p + 8] + 256
  BY RowBounds
<1>2. /\ row[t] \in Int /\ q \in 0..7
      /\ row[t] >= metrics[q] - 256 /\ row[t] >= metrics[q + 8] - 256
  BY RowBounds
<1>3. /\ s \div 4 = p \div 2 /\ s \div 8 = p \div 4 /\ p \div 8 = 0
      /\ t \div 4 = q \div 2 /\ t \div 8 = q \div 4 /\ q \div 8 = 0
  BY DEF ViterbiStates
<1> HIDE DEF row
<1>4. PICK d \in {0, 8} : row[s] <= metrics[p + d] + 256
  <2>1. CASE row[s] <= metrics[p] + 256
    <3>1. p + 0 = p
      BY <1>1
    <3> QED BY <2>1, <3>1
  <2> QED BY <1>1, <2>1
<1>5. row[t] >= metrics[q + d] - 256
  <2>1. q + 0 = q
    BY <1>2
  <2> QED BY <1>2, <2>1
<1> DEFINE u == p + d
           v == q + d
<1>6. /\ u \in ViterbiStates /\ v \in ViterbiStates
      /\ p \div 2 = q \div 2 => u \div 2 = v \div 2
      /\ p \div 4 = q \div 4 => u \div 4 = v \div 4
      /\ u \div 8 = v \div 8
  BY <1>1, <1>2 DEF ViterbiStates
<1>7. metrics[u] \in Int /\ metrics[v] \in Int
  BY <1>6
<1>8. p = q => u = v
  OBVIOUS
<1> HIDE DEF p, q, u, v
<1>9. /\ p = q => metrics[u] - metrics[v] = 0
      /\ p \div 2 = q \div 2 => metrics[u] - metrics[v] <= 512
      /\ p \div 4 = q \div 4 => metrics[u] - metrics[v] <= 1024
      /\ metrics[u] - metrics[v] <= 1536
  BY <1>6, <1>7, <1>8 DEF Spread
<1>10. row[s] - row[t] <= metrics[u] - metrics[v] + 512
  BY <1>1, <1>2, <1>4, <1>5, <1>7 DEF u, v
<1>11. /\ p = q => row[s] - row[t] <= 512
       /\ p \div 2 = q \div 2 => row[s] - row[t] <= 1024
       /\ p \div 4 = q \div 4 => row[s] - row[t] <= 1536
       /\ row[s] - row[t] <= 2048
  BY <1>1, <1>2, <1>7, <1>9, <1>10
<1> QED BY <1>3, <1>11 DEF p, q

LEMMA MetricsStart == PskInit => MetricsInv
<1>1. PATHMEM \in Nat \ {0} /\ IntMax \div 2 \in Nat
  BY PskAssumption, HalfIntMax
<1> QED BY <1>1 DEF PskInit, MetricsInv, Spread, ViterbiStates

LEMMA MetricsStay == MetricsInv /\ UNCHANGED viterbiVars => MetricsInv'
  BY DEF MetricsInv, viterbiVars

\* Within a chunk state 0 gains at most 256 for each symbol.
LEMMA MetricsKept == MetricsInv /\ PskNext => MetricsInv'
<1> SUFFICES ASSUME MetricsInv, DoDecode PROVE MetricsInv'
  BY DEF PskNext
<1>1. CASE UNCHANGED viterbiVars
  BY <1>1, MetricsStay
<1>2. ASSUME NEW x \in {0, 255}, NEW y \in {0, 255}, ViterbiDecode(<<x, y>>)
      PROVE  MetricsInv'
  <2> DEFINE row == NextRow(<<x, y>>)
             next == (ptr + 1) % PATHMEM
             half == IntMax \div 2
  <2>1. /\ ptr' = next
        /\ \/ next % 8 = 0 /\ metrics' = row
           \/ next % 8 # 0 /\ metrics' = Normalised(row)
    BY <1>2 DEF ViterbiDecode, NextRow
  <2>2. /\ metrics \in [ViterbiStates -> Int] /\ ptr \in 0..(PATHMEM - 1)
        /\ Spread(metrics) /\ \A s \in ViterbiStates : metrics[s] >= -2048
        /\ metrics[0] <= half + (IF ptr % 8 = 0 THEN 2304 ELSE 0)
    BY DEF MetricsInv
  <2>3. next \in 0..(PATHMEM - 1) /\ (next % 8 = 0 => ptr % 8 = 7)
    BY <2>2, NextPtr
  <2>4. Spread(row)
    BY <2>2, SpreadStays
  <2>5. row \in [ViterbiStates -> Int]
    <3>1. \A s \in ViterbiStates : row[s] \in Int
      BY <2>2, RowBounds
    <3> QED BY <3>1 DEF NextRow
  <2>6. \A s \in ViterbiStates : row[s] >= -2048
    <3> SUFFICES ASSUME NEW s \in ViterbiStates PROVE row[s] >= -2048
      OBVIOUS
    <3> DEFINE p == s \div 2
    <3>1. row[s] \in Int /\ p \in 0..7 /\ (row[s] >= metrics[p] \/ row[s] >= metrics[p + 8])
      BY <2>2, RowBounds
    <3>2. p \in ViterbiStates /\ p + 8 \in ViterbiStates
      BY <3>1 DEF ViterbiStates
    <3> HIDE DEF p, row
    <3>3. metrics[p] \in Int /\ metrics[p + 8] \in Int /\ metrics[p] >= -2048 /\ metrics[p + 8] >= -2048
      BY <2>2, <3>2
    <3> QED BY <3>1, <3>3
  <2>7. row[0] \in Int /\ row[0] <= metrics[0] + 2304
    <3>1. 0 \in ViterbiStates /\ 8 \in ViterbiStates /\ 0 \div 2 = 0 /\ 0 + 8 = 8
      BY DEF ViterbiStates
    <3>2. row[0] \in Int /\ (row[0] <= metrics[0] + 256 \/ row[0] <= metrics[8] + 256)
      BY <2>2, <3>1, RowBounds
    <3>3. metrics[0] \in Int /\ metrics[8] \in Int /\ metrics[8] - metrics[0] <= 2048
      BY <2>2, <3>1 DEF Spread
    <3> HIDE DEF row
    <3> QED BY <3>2, <3>3
  <2>8. half \in Nat /\ half >= 4608 /\ metrics[0] \in Int /\ 0 \in ViterbiStates
    BY HalfIntMax, <2>2 DEF ViterbiStates
  <2> HIDE DEF row, next, half
  <2>9. CASE next % 8 = 0
    <3>1. metrics' = row /\ ptr' % 8 = 0 /\ ptr % 8 = 7
      BY <2>1, <2>3, <2>9
    <3>2. row[0] <= half + 2304
      BY <2>2, <2>7, <2>8, <3>1
    <3> QED BY <2>1, <2>3, <2>4, <2>5, <2>6, <3>1, <3>2 DEF MetricsInv, half
  <2>10. CASE next % 8 # 0 /\ row[0] > half
    <3>1. metrics' = [s \in ViterbiStates |-> row[s] - half]
      BY <2>1, <2>10 DEF Normalised, half
    <3>2. \A s \in ViterbiStates : metrics'[s] = row[s] - half /\ row[s] \in Int
      BY <2>5, <3>1
    <3>3. metrics' \in [ViterbiStates -> Int]
      BY <2>5, <2>8, <3>1
    <3>4. Spread(metrics')
      BY <2>4, <2>8, <3>2 DEF Spread
    <3>5. \A s \in ViterbiStates : metrics'[s] >= -2048
      <4> SUFFICES ASSUME NEW s \in ViterbiStates PROVE metrics'[s] >= -2048
        OBVIOUS
      <4>1. row[0] - row[s] <= 2048
        BY <2>4, <2>8 DEF Spread
      <4> QED BY <2>7, <2>8, <2>10, <3>2, <4>1
    <3>6. metrics'[0] <= half
      BY <2>2, <2>7, <2>8, <3>2
    <3> QED BY <2>1, <2>3, <2>8, <2>10, <3>3, <3>4, <3>5, <3>6 DEF MetricsInv, half
  <2>11. CASE next % 8 # 0 /\ ~(row[0] > half)
    <3>1. ~(row[0] < -half)
      BY <2>6, <2>7, <2>8
    <3>2. metrics' = row
      BY <2>1, <2>11, <3>1 DEF Normalised, half
    <3> QED BY <2>1, <2>3, <2>4, <2>5, <2>6, <2>7, <2>8, <2>11, <3>2 DEF MetricsInv, half
  <2> QED BY <2>1, <2>9, <2>10, <2>11
<1> QED BY <1>1, <1>2, PskSteps

\* So nothing overflows before it is made smaller.
LEMMA MetricsInvFits == MetricsInv => MetricsFit
<1> SUFFICES ASSUME MetricsInv, NEW s \in ViterbiStates
             PROVE  metrics[s] \in (-(IntMax \div 2))..(IntMax - 256)
  BY DEF MetricsFit
<1> DEFINE half == IntMax \div 2
<1>2. half \in Nat /\ half >= 4608 /\ 2 * half <= IntMax /\ IntMax \in Nat
  BY HalfIntMax, PskAssumption
<1> HIDE DEF half
<1>1. /\ metrics[s] \in Int /\ metrics[0] \in Int /\ metrics[s] >= -2048
      /\ metrics[s] - metrics[0] <= 2048 /\ metrics[0] <= half + 2304
  <2>1. 0 \in ViterbiStates
    BY DEF ViterbiStates
  <2> QED BY <1>2, <2>1 DEF MetricsInv, Spread, half
<1>3. metrics[s] \in (-half)..(IntMax - 256)
  BY <1>1, <1>2
<1> QED BY <1>3 DEF half
-----------------------------------------------------------------------------
(* The list of decoders: a step is one of the decoder that is selected,    *)
(* and those that are not made stay as they are.                           *)

TextInv ==
    /\ selected \in {"amtor", "rtty", "acars", "cw", "psk"}
    /\ AmtorInv /\ RttyInv /\ AcarsInv /\ CwInv /\ PskInv

\* Every decoder begins in its range.
LEMMA TextStarts == Init => TextInv
  BY AmtorStarts, RttyStarts, AcarsStarts, CwStarts, PskStarts DEF Init, TextInv

\* The decoder that is selected keeps it, and the others rest.
LEMMA TextKeeps == TextInv /\ [Next]_decoderVars => TextInv'
<1> SUFFICES ASSUME TextInv, [Next]_decoderVars PROVE TextInv'
  OBVIOUS
<1>1. /\ selected \in {"amtor", "rtty", "acars", "cw", "psk"}
      /\ AmtorInv /\ RttyInv /\ AcarsInv /\ CwInv /\ PskInv
  BY DEF TextInv
<1>2. selected' = selected
  BY DEF Next, Of, OfAcars, decoderVars
<1>3. AmtorNext \/ UNCHANGED amtorVars
  BY DEF Next, Of, OfAcars, decoderVars
<1>4. RttyNext \/ UNCHANGED rttyVars
  BY DEF Next, Of, OfAcars, decoderVars
<1>5. AcarsNext \/ UNCHANGED acarsVars
  BY DEF Next, Of, OfAcars, decoderVars
<1>6. CwNext \/ UNCHANGED cwVars
  BY DEF Next, Of, OfAcars, decoderVars
<1>7. PskNext \/ UNCHANGED pskVars
  BY DEF Next, Of, OfAcars, decoderVars
<1>8. AmtorInv' /\ RttyInv'
  BY <1>1, <1>3, <1>4, AmtorKeeps, AmtorStays, RttyKeeps, RttyStays
<1>9. AcarsInv' /\ CwInv'
  BY <1>1, <1>5, <1>6, AcarsKeeps, AcarsStays, CwKeeps, CwStays
<1>10. PskInv'
  BY <1>1, <1>7, PskKeeps, PskStays
<1> QED BY <1>1, <1>2, <1>8, <1>9, <1>10 DEF TextInv

\* So it holds always.
LEMMA TextInvHolds == Spec => []TextInv
  BY TextStarts, TextKeeps, PTL DEF Spec

\* For every speed, message, error and bound: no register, counter, queue or
\* buffer of amtor, rtty, acars, cw and psk leaves the range of the array it
\* is in or indexes, whatever comes in, though shiftRegister, blk_txt,
\* dataBuffer and the slots of the printer are written without a check.
THEOREM TextBuffersHold == Spec => []BuffersHold
<1>1. TextInv => BuffersHold
  BY DEF TextInv, BuffersHold, AmtorInv, RttyInv, AcarsInv, CwInv, PskInv
<1> QED BY <1>1, TextInvHolds, PTL

\* For every length of the paths and every width of an int that is enough for
\* one normalisation: no sum of a metric and a branch of Viterbi::decode
\* overflows, though the metrics are looked at every eighth symbol only, and
\* only that of state 0.
THEOREM ViterbiFits == Spec => []MetricsFit
<1>1. Init => MetricsInv
  BY MetricsStart DEF Init
<1>2. MetricsInv /\ [Next]_decoderVars => MetricsInv'
  <2> SUFFICES ASSUME MetricsInv, [Next]_decoderVars PROVE MetricsInv'
    OBVIOUS
  <2>1. PskNext \/ UNCHANGED pskVars
    BY DEF Next, Of, OfAcars, decoderVars
  <2>2. CASE UNCHANGED pskVars
    <3>1. UNCHANGED viterbiVars
      BY <2>2 DEF pskVars
    <3> QED BY <3>1, MetricsStay
  <2> QED BY <2>1, <2>2, MetricsKept
<1> QED BY <1>1, <1>2, MetricsInvFits, PTL DEF Spec

\* For every number of slots: the acars decoder and its printer are a queue of
\* messages.  output_msg writes a slot that process_msg is not to read yet, in
\* all orders of the two threads, with no lock but the two semaphores.
THEOREM PrinterIsAQueue == Spec => PrinterIsFifo
<1>1. Init => PrinterInv /\ PrinterQueue!Init
  BY PrinterStarts DEF Init
<1>2. TextInv /\ PrinterInv /\ [Next]_decoderVars
        => PrinterInv' /\ [PrinterQueue!Next]_(PrinterQueue!vars)
  <2> SUFFICES ASSUME TextInv, PrinterInv, [Next]_decoderVars
               PROVE  PrinterInv' /\ [PrinterQueue!Next]_(PrinterQueue!vars)
    OBVIOUS
  <2>1. AcarsNext \/ UNCHANGED acarsVars
    BY DEF Next, Of, OfAcars, decoderVars
  <2>2. AcarsInv
    BY DEF TextInv
  <2>3. CASE AcarsNext
    BY <2>2, <2>3, PrinterSteps
  <2>4. CASE UNCHANGED acarsVars
    BY <2>2, <2>4, PrinterRests
  <2> QED BY <2>1, <2>3, <2>4
<1> QED BY <1>1, <1>2, TextInvHolds, PTL DEF Spec, PrinterIsFifo, PrinterQueue!Spec
=============================================================================
