----------------------------- MODULE Ft8Decoder -----------------------------
(***************************************************************************)
(* The FT8 decoder and its processor (decoders/ft8-decoder):               *)
(*   - on the GUI thread processLine passes the tones of a line that looks *)
(*     like a message on (ft8_processor::PassOn), and selectDecoder        *)
(*     deletes the decoder and may make a new one;                         *)
(*   - the processor's thread (ft8_processor::run) decodes the blocks one  *)
(*     by one and shows the messages in them.                              *)
(* They share a ring of nrBlocks blocks under two semaphores, and the      *)
(* plain static int blocks_in, which is read and written by both threads   *)
(* without a lock: each update is a load and a store.  It is a static, so  *)
(* it is not initialised by a constructor.                                 *)
(*                                                                         *)
(* Tones and label (lineno, value, frequency, strength) of a block are     *)
(* those of the line they were taken from, and a line is a number.         *)
(***************************************************************************)
EXTENDS Integers, Sequences

CONSTANTS nrBlocks,     \* blocks in the ring: 100
          MaxBlocksIn,  \* PassOn drops the line when there are so many: 4
          CacheSize,    \* messages in the dlCache: 32
          Messages,     \* what a line can say
          MaxLines,     \* bound: lines that look like a message, per decoder
          MaxDecoders   \* bound: decoders made

ASSUME Ft8Assumption ==
    /\ nrBlocks \in Nat \ {0}
    /\ CacheSize \in Nat \ {0}
    /\ MaxLines \in Nat

NoLine == 0
NoMessage == "none"
Lines == 1..MaxLines

VARIABLES
    blocks_in,     \* the static of ft8-processor.cpp
    decoders,      \* ghost: decoders made so far
    gpc,           \* the GUI thread
    loaded,        \* the value of blocks_in that PassOn is about to increment
    lineCounter,
    theBuffer, freeSlots, usedSlots, blockToWrite, blockToRead,
    running,
    ppc,           \* the processor's thread
    ploaded,       \* the value of blocks_in that run is about to decrement
    line,          \* the line whose tones were decoded last
    message,       \* and what they say
    theCache,      \* oldest first
    shown,         \* the lines of text emitted: message, its line, its label
    spoiled        \* ghost: an update of blocks_in was lost, or blocks were
                   \* in when a decoder was deleted

ringVars == <<theBuffer, freeSlots, usedSlots, blockToWrite, blockToRead>>
guiVars  == <<decoders, gpc, loaded, lineCounter>>
runVars  == <<ppc, ploaded, line, message, theCache, shown>>
ft8Vars == <<blocks_in, guiVars, ringVars, running, runVars, spoiled>>

Blocks == 0..(nrBlocks - 1)
Block == [label : 0..MaxLines, tones : 0..MaxLines]
Text == [message : Messages, line : Lines, label : 0..MaxLines]

TypeOK ==
    /\ blocks_in \in Int /\ loaded \in Int /\ ploaded \in Int
    /\ decoders \in 1..MaxDecoders
    /\ gpc \in {"idle", "acquire", "load", "store", "label", "tones",
                "release", "join", "deleted", "terminated"}
    /\ ppc \in {"sleep", "test", "wait", "decode", "release", "load", "store",
                "advance", "show", "ended"}
    /\ lineCounter \in 0..MaxLines
    /\ theBuffer \in [Blocks -> Block]
    /\ freeSlots \in 0..nrBlocks /\ usedSlots \in 0..nrBlocks
    /\ blockToWrite \in Blocks /\ blockToRead \in Blocks
    /\ running \in BOOLEAN /\ spoiled \in BOOLEAN
    /\ line \in 0..MaxLines
    /\ message \in Messages \cup {NoMessage}
    /\ theCache \in Seq(Messages \cup {NoMessage})
    /\ shown \in Seq(Text)

-----------------------------------------------------------------------------
(* Constructor and destructor                                              *)

EmptyRing == [b \in Blocks |-> [label |-> NoLine, tones |-> NoLine]]
EmptyCache == [k \in 1..CacheSize |-> NoMessage]

Ft8Init ==
    /\ theBuffer = EmptyRing /\ freeSlots = nrBlocks /\ usedSlots = 0
    /\ blockToWrite = 0 /\ blockToRead = 0
    /\ running = FALSE
    /\ ppc = "sleep" /\ theCache = EmptyCache /\ shown = <<>>
    /\ lineCounter = 0
    /\ blocks_in = 0 /\ decoders = 1
    /\ gpc = "idle" /\ loaded = 0
    /\ ploaded = 0 /\ line = NoLine /\ message = NoMessage
    /\ spoiled = FALSE

\* selectDecoder, with the FT8 decoder selected again: everything is made anew
\* but blocks_in.
Constructor ==
    /\ gpc = "deleted"
    /\ decoders < MaxDecoders
    /\ decoders' = decoders + 1
    /\ gpc' = "idle"
    /\ theBuffer' = EmptyRing /\ freeSlots' = nrBlocks /\ usedSlots' = 0
    /\ blockToWrite' = 0 /\ blockToRead' = 0
    /\ running' = FALSE
    /\ ppc' = "sleep" /\ theCache' = EmptyCache /\ shown' = <<>>
    /\ lineCounter' = 0
    /\ line' = NoLine /\ message' = NoMessage
    /\ UNCHANGED <<blocks_in, loaded, ploaded, spoiled>>

\* When the thread is not yet running it is not joined, and the destructor of
\* a std::thread that can be joined ends the program.
Destructor ==
    /\ gpc = "idle"
    /\ IF running
       THEN running' = FALSE /\ gpc' = "join"
       ELSE gpc' = "terminated" /\ UNCHANGED running
    /\ UNCHANGED <<blocks_in, decoders, loaded, lineCounter, ringVars, runVars,
                   spoiled>>

Joined ==
    /\ gpc = "join"
    /\ ppc = "ended"
    /\ gpc' = "deleted"
    /\ spoiled' = (spoiled \/ blocks_in # 0)
    /\ UNCHANGED <<blocks_in, decoders, loaded, lineCounter, ringVars, running,
                   runVars>>

-----------------------------------------------------------------------------
(* PassOn                                                                  *)

NextBlock(b) == (b + 1) % nrBlocks

guiOnly == <<decoders, running, runVars>>

\* A line is found: it is dropped when there are too many blocks in.
PassOn ==
    /\ gpc = "idle"
    /\ lineCounter < MaxLines
    /\ lineCounter' = lineCounter + 1
    /\ gpc' = IF blocks_in >= MaxBlocksIn THEN "idle" ELSE "acquire"
    /\ UNCHANGED <<guiOnly, blocks_in, loaded, ringVars, spoiled>>

\* Planted error: a wait in vain is taken for a free block.
TakesFreeUnasked ==
    /\ gpc = "acquire"
    /\ freeSlots >= 0
    /\ freeSlots' = IF freeSlots > 0 THEN freeSlots - 1 ELSE 0
    /\ gpc' = "load"
    /\ UNCHANGED <<guiOnly, blocks_in, loaded, lineCounter, theBuffer,
                   usedSlots, blockToWrite, blockToRead, spoiled>>

TakesFree ==
    /\ gpc = "acquire"
    /\ freeSlots > 0
    /\ freeSlots' = freeSlots - 1
    /\ gpc' = "load"
    /\ UNCHANGED <<guiOnly, blocks_in, loaded, lineCounter, theBuffer,
                   usedSlots, blockToWrite, blockToRead, spoiled>>

\* A wait of 200 msec in vain, for a processor that does not run.
GivesUp ==
    /\ gpc = "acquire"
    /\ freeSlots = 0 /\ ~running
    /\ gpc' = "idle"
    /\ UNCHANGED <<guiOnly, blocks_in, loaded, lineCounter, ringVars, spoiled>>

LoadsCount ==
    /\ gpc = "load"
    /\ loaded' = blocks_in
    /\ gpc' = "store"
    /\ UNCHANGED <<guiOnly, blocks_in, lineCounter, ringVars, spoiled>>

StoresCount ==
    /\ gpc = "store"
    /\ blocks_in' = loaded + 1
    /\ spoiled' = (spoiled \/ blocks_in # loaded)
    /\ gpc' = "label"
    /\ UNCHANGED <<guiOnly, loaded, lineCounter, ringVars>>

Labels ==
    /\ gpc = "label"
    /\ theBuffer' = [theBuffer EXCEPT ![blockToWrite].label = lineCounter]
    /\ gpc' = "tones"
    /\ UNCHANGED <<guiOnly, blocks_in, loaded, lineCounter, freeSlots,
                   usedSlots, blockToWrite, blockToRead, spoiled>>

FillsTones ==
    /\ gpc = "tones"
    /\ theBuffer' = [theBuffer EXCEPT ![blockToWrite].tones = lineCounter]
    /\ blockToWrite' = NextBlock(blockToWrite)
    /\ gpc' = "release"
    /\ UNCHANGED <<guiOnly, blocks_in, loaded, lineCounter, freeSlots,
                   usedSlots, blockToRead, spoiled>>

ReleasesUsed ==
    /\ gpc = "release"
    /\ usedSlots' = usedSlots + 1
    /\ gpc' = "idle"
    /\ UNCHANGED <<guiOnly, blocks_in, loaded, lineCounter, theBuffer,
                   freeSlots, blockToWrite, blockToRead, spoiled>>

Gui == \/ TakesFree \/ GivesUp \/ LoadsCount \/ StoresCount \/ Labels
       \/ FillsTones \/ ReleasesUsed \/ Joined

-----------------------------------------------------------------------------
(* run                                                                     *)

runOnly == <<guiVars, theBuffer, blockToWrite>>

\* After a second of sleep, whatever the destructor has done meanwhile.
StartsRunning ==
    /\ ppc = "sleep"
    /\ running' = TRUE
    /\ ppc' = "test"
    /\ UNCHANGED <<runOnly, blocks_in, freeSlots, usedSlots, blockToRead,
                   ploaded, line, message, theCache, shown, spoiled>>

TestsRunning ==
    /\ ppc = "test"
    /\ ppc' = IF running THEN "wait" ELSE "ended"
    /\ UNCHANGED <<runOnly, blocks_in, freeSlots, usedSlots, blockToRead,
                   running, ploaded, line, message, theCache, shown, spoiled>>

TakesUsed ==
    /\ ppc = "wait"
    /\ usedSlots > 0
    /\ usedSlots' = usedSlots - 1
    /\ ppc' = "decode"
    /\ UNCHANGED <<runOnly, blocks_in, freeSlots, blockToRead, running,
                   ploaded, line, message, theCache, shown, spoiled>>

\* Planted error: a wait in vain does not look at running.
EndsNever ==
    /\ ppc = "wait"
    /\ FALSE
    /\ ppc' = "ended"
    /\ UNCHANGED <<runOnly, blocks_in, freeSlots, usedSlots, blockToRead,
                   running, ploaded, line, message, theCache, shown, spoiled>>

\* A wait of 200 msec in vain.
Ends ==
    /\ ppc = "wait"
    /\ usedSlots = 0 /\ ~running
    /\ ppc' = "ended"
    /\ UNCHANGED <<runOnly, blocks_in, freeSlots, usedSlots, blockToRead,
                   running, ploaded, line, message, theCache, shown, spoiled>>

\* ldpc_decode, the CRC and unpackMessage: a message, or none.
Decodes ==
    /\ ppc = "decode"
    /\ line' = theBuffer[blockToRead].tones
    /\ message' \in Messages \cup {NoMessage}
    /\ ppc' = "release"
    /\ UNCHANGED <<runOnly, blocks_in, freeSlots, usedSlots, blockToRead,
                   running, ploaded, theCache, shown, spoiled>>

ReleasesFree ==
    /\ ppc = "release"
    /\ freeSlots' = freeSlots + 1
    /\ ppc' = "load"
    /\ UNCHANGED <<runOnly, blocks_in, usedSlots, blockToRead, running,
                   ploaded, line, message, theCache, shown, spoiled>>

RunLoadsCount ==
    /\ ppc = "load"
    /\ ploaded' = blocks_in
    /\ ppc' = "store"
    /\ UNCHANGED <<runOnly, blocks_in, freeSlots, usedSlots, blockToRead,
                   running, line, message, theCache, shown, spoiled>>

\* Planted error: counted only when the tones are those of a message.
RunStoresCountIfGood ==
    /\ ppc = "store"
    /\ blocks_in' = IF message = NoMessage THEN ploaded ELSE ploaded - 1
    /\ spoiled' = (spoiled \/ blocks_in # ploaded)
    /\ ppc' = "advance"
    /\ UNCHANGED <<runOnly, freeSlots, usedSlots, blockToRead, running,
                   ploaded, line, message, theCache, shown>>

RunStoresCount ==
    /\ ppc = "store"
    /\ blocks_in' = ploaded - 1
    /\ spoiled' = (spoiled \/ blocks_in # ploaded)
    /\ ppc' = "advance"
    /\ UNCHANGED <<runOnly, freeSlots, usedSlots, blockToRead, running,
                   ploaded, line, message, theCache, shown>>

\* Planted error: a block without a message is read again.
AdvancesIfGood ==
    /\ ppc = "advance"
    /\ blockToRead' = IF message = NoMessage THEN blockToRead
                       ELSE NextBlock(blockToRead)
    /\ ppc' = IF message = NoMessage THEN "test" ELSE "show"
    /\ UNCHANGED <<runOnly, blocks_in, freeSlots, usedSlots, running,
                   ploaded, line, message, theCache, shown, spoiled>>

Advances ==
    /\ ppc = "advance"
    /\ blockToRead' = NextBlock(blockToRead)
    /\ ppc' = IF message = NoMessage THEN "test" ELSE "show"
    /\ UNCHANGED <<runOnly, blocks_in, freeSlots, usedSlots, running,
                   ploaded, line, message, theCache, shown, spoiled>>

\* dlCache::update: a message that is there is kept where it is, or, when it
\* is received stronger now, those after it are moved up and it is made the
\* newest; the oldest makes room for a new one.
Known(m) == \E k \in DOMAIN theCache : theCache[k] = m
FoundAt(k, m) == theCache[k] = m /\ \A j \in 1..(k - 1) : theCache[j] # m
MovedUp(k) ==
    [j \in 1..(Len(theCache) - 1) |-> theCache[IF j < k THEN j ELSE j + 1]]
Updates(m) ==
    IF Known(m)
    THEN \/ UNCHANGED theCache
         \/ \E k \in DOMAIN theCache :
               FoundAt(k, m) /\ theCache' = Append(MovedUp(k), m)
    ELSE theCache' = Append(Tail(theCache), m)

\* showLine, with the label of the block that blockToRead has moved on to.
Shows ==
    /\ ppc = "show"
    /\ Updates(message)
    /\ shown' = IF Known(message) THEN shown
                ELSE Append(shown, [message |-> message, line |-> line,
                                    label |-> theBuffer[blockToRead].label])
    /\ ppc' = "test"
    /\ UNCHANGED <<runOnly, blocks_in, freeSlots, usedSlots, blockToRead,
                   running, ploaded, line, message, spoiled>>

Run == \/ StartsRunning \/ TestsRunning \/ TakesUsed \/ Ends \/ Decodes
       \/ ReleasesFree \/ RunLoadsCount \/ RunStoresCount \/ Advances \/ Shows

Alive == gpc # "terminated"
Ft8Next ==
    \/ PassOn \/ Destructor \/ Constructor \/ Gui
    \/ Alive /\ Run

\* The GUI thread leaves PassOn and the destructor when it can, and the
\* processor's thread goes on; nobody has to find another line.
Ft8Spec == Ft8Init /\ [][Ft8Next]_ft8Vars /\ WF_ft8Vars(Gui) /\ WF_ft8Vars(Alive /\ Run)

-----------------------------------------------------------------------------
(* Properties                                                              *)

\* PassOn never writes the block that is being decoded, though blocks_in may
\* count too few blocks (ft8-processor.cpp, lines 72 and 76-81), and no thread
\* is left that uses a processor that has been deleted.
DecodesUndisturbed ==
    /\ ppc \in {"decode", "release"} /\ gpc \in {"label", "tones"}
          => blockToRead # blockToWrite
    /\ gpc = "deleted" => ppc = "ended"

\* The blocks in use, from the one that is read next on, are whole and in the
\* order in which their lines were passed on, and newer than what was decoded;
\* and the same message is not shown twice in a row (dl-cache.h).
InUse(k) == theBuffer[(blockToRead + k) % nrBlocks]
Taken == IF ppc \in {"decode", "release", "load", "store", "advance"} THEN 1 ELSE 0
InOrder ==
    /\ \A k \in Taken..(usedSlots + Taken - 1) :
          /\ InUse(k).label = InUse(k).tones
          /\ InUse(k).tones > (IF ppc = "decode" \/ k > Taken
                               THEN (IF k > 0 THEN InUse(k - 1).tones ELSE 0)
                               ELSE line)
    /\ \A k \in 1..(Len(shown) - 1) : shown[k].message # shown[k + 1].message

\* While no update of blocks_in was lost, and no decoder was deleted with
\* blocks in, it counts the blocks passed on and not decoded: nothing else can
\* make PassOn drop lines for ever.
CountIsExact ==
    ~spoiled => blocks_in = usedSlots
                  + (IF gpc \in {"label", "tones", "release"} THEN 1 ELSE 0)
                  + (IF ppc \in {"decode", "release", "load", "store"} THEN 1 ELSE 0)

\* PassOn and the destructor return, the wait for a free block and the join
\* of the thread included; and a block that is passed on is decoded, unless the
\* decoder is deleted.
BothGoOn ==
    /\ gpc \in {"acquire", "join"} ~> gpc \in {"idle", "deleted"}
    /\ usedSlots > 0 ~> (usedSlots = 0 \/ gpc = "deleted" \/ ~Alive)

\* "Release the buffer now" (line 155): after it nothing of the block is used,
\* so what is shown with a message is read while the block is still there.
LabelOfItsLine == \A k \in 1..Len(shown) : shown[k].label = shown[k].line
=============================================================================
