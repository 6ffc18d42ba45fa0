----------------------------- MODULE FileReader -----------------------------
(***************************************************************************)
(* The wav file as a device (devices/filereader): on the GUI thread        *)
(* fileReader and fileHulp's restartReader, stopReader, setFileat, reset   *)
(* and destructor; on a QThread fileHulp::run, which reads the file block  *)
(* by block, from the start again at its end, and puts it into the ring.   *)
(* They share running (atomic), resetRequest (a plain bool), the handle of *)
(* the file and, with sampleHandler, the ring.                             *)
(*                                                                         *)
(* A frame of the file is its number, and a block that is read at the very *)
(* end of the file is silence.  With converts, the file has another rate   *)
(* than the radio and goes through libsamplerate, which may fail.          *)
(***************************************************************************)
EXTENDS Integers, Sequences, FiniteSetsExt

CONSTANTS samplesinFile,  \* frames in the file
          Block,          \* frames read at a time: a tenth of a second
          Spare,          \* what is asked for on top of the block: 10
          RingSize,       \* elements the ring _I_Buffer holds
          ReportLimit,    \* more than these are reported: theRate / 10
          Chunk           \* sampleHandler takes them from more than so many

Silence == -1
Frames == 0..(samplesinFile - 1)
Percents == {0, 60}        \* positions of the slider

VARIABLES
    readerOK,      \* the file is a sound file
    converts,      \* theRate # sampleRate
    gpc,           \* the GUI thread
    tpc,           \* the thread
    running, resetRequest,
    pos,           \* of the file
    bi,            \* the block
    ring,          \* _I_Buffer
    reported,      \* a dataAvailable is in the event queue
    closed,        \* sf_close has been called and the ring deleted
    outrun         \* ghost: stopReader found a started thread not yet running

file == <<readerOK, converts>>
vars == <<file, gpc, tpc, running, resetRequest, pos, bi, ring, reported,
          closed, outrun>>

TypeOK ==
    /\ readerOK \in BOOLEAN /\ converts \in BOOLEAN
    /\ gpc \in {"start", "loop", "stop", "delete", "stopAgain", "close",
                "destroy", "gone", "aborted"}
    /\ tpc \in {"none", "started", "loop", "room", "read", "more", "put",
                "report", "ended"}
    /\ running \in BOOLEAN /\ resetRequest \in BOOLEAN
    /\ pos \in 0..samplesinFile
    /\ bi \in Seq(Frames \cup {Silence}) /\ Len(bi) <= Block
    /\ ring \in Seq(Frames \cup {Silence}) /\ Len(ring) <= RingSize
    /\ reported \in BOOLEAN /\ closed \in BOOLEAN /\ outrun \in BOOLEAN

Init ==
    /\ readerOK \in BOOLEAN /\ converts \in BOOLEAN
    /\ gpc = "start" /\ tpc = "none"
    /\ running = FALSE /\ resetRequest = FALSE
    /\ pos = 0 /\ bi = <<>> /\ ring = <<>>
    /\ reported = FALSE /\ closed = FALSE /\ outrun = FALSE

Room == RingSize - Len(ring)

-----------------------------------------------------------------------------
(* The GUI thread                                                          *)

\* restartReader, at the end of RadioInterface's constructor.
RestartReader ==
    /\ gpc = "start"
    /\ gpc' = "loop"
    /\ tpc' = IF readerOK THEN "started" ELSE tpc
    /\ UNCHANGED <<file, running, resetRequest, pos, bi, ring, reported,
                   closed, outrun>>

\* setFileat seeks in the file while the thread may be reading it.
SetFileat(f) ==
    /\ gpc = "loop"
    /\ readerOK
    /\ pos' = (f * samplesinFile) \div 100
    /\ UNCHANGED <<file, gpc, tpc, running, resetRequest, bi, ring, reported,
                   closed, outrun>>

Reset ==
    /\ gpc = "loop"
    /\ resetRequest' = TRUE
    /\ UNCHANGED <<file, gpc, tpc, running, pos, bi, ring, reported, closed,
                   outrun>>

\* sampleHandler takes chunks as long as there is more than one.
SampleHandler ==
    /\ gpc = "loop"
    /\ reported
    /\ reported' = FALSE
    /\ LET chunks == IF Len(ring) > Chunk THEN (Len(ring) - 1) \div Chunk ELSE 0
       IN  ring' = SubSeq(ring, chunks * Chunk + 1, Len(ring))
    /\ UNCHANGED <<file, gpc, tpc, running, resetRequest, pos, bi, closed, outrun>>

\* stopReader: from the GUI thread's place `here', waiting at `wait'.
StopReader(here, wait, done) ==
    /\ gpc = here
    /\ running' = FALSE
    /\ gpc' = IF running THEN wait ELSE done
    /\ outrun' = (outrun \/ (~running /\ tpc = "started"))
    /\ UNCHANGED <<file, tpc, resetRequest, pos, bi, ring, reported, closed>>

Stopped(wait, done) ==
    /\ gpc = wait
    /\ tpc = "ended"
    /\ gpc' = done
    /\ UNCHANGED <<file, tpc, running, resetRequest, pos, bi, ring, reported,
                   closed, outrun>>

\* ~fileHulp closes the file and deletes the ring, after another stopReader.
Close ==
    /\ gpc = "close"
    /\ closed' = readerOK
    /\ gpc' = "destroy"
    /\ UNCHANGED <<file, tpc, running, resetRequest, pos, bi, ring, reported,
                   outrun>>

\* ~QThread ends the program when the thread has been started and not ended.
Destroy ==
    /\ gpc = "destroy"
    /\ gpc' = IF tpc \in {"none", "ended"} THEN "gone" ELSE "aborted"
    /\ UNCHANGED <<file, tpc, running, resetRequest, pos, bi, ring, reported,
                   closed, outrun>>

\* handle_quitButton: stopReader and delete.
Quit == StopReader("loop", "stop", "delete")
Delete == StopReader("delete", "stopAgain", "close")

Gui == \/ RestartReader \/ SampleHandler \/ Delete \/ Close \/ Destroy
       \/ Stopped("stop", "delete") \/ Stopped("stopAgain", "close")

-----------------------------------------------------------------------------
(* run                                                                     *)

runOnly == <<file, gpc, closed, outrun>>

Begins ==
    /\ tpc = "started"
    /\ running' = TRUE
    /\ \/ tpc' = "loop"
       \/ converts /\ tpc' = "ended"     \* no converter: running stays set
    /\ UNCHANGED <<runOnly, resetRequest, pos, bi, ring, reported>>

Ends ==
    /\ tpc = "loop"
    /\ ~running
    /\ tpc' = "ended"
    /\ UNCHANGED <<runOnly, running, resetRequest, pos, bi, ring, reported>>

Loops ==
    /\ tpc = "loop"
    /\ running
    /\ tpc' = "room"
    /\ pos' = IF resetRequest THEN 0 ELSE pos
    /\ resetRequest' = FALSE
    /\ UNCHANGED <<runOnly, running, bi, ring, reported>>

\* Planted error: room for the block is waited for and not for the rest of it.
HasRoomForOne ==
    /\ tpc = "room"
    /\ Room >= 1 \/ ~running
    /\ tpc' = "read"
    /\ bi' = <<>>
    /\ UNCHANGED <<runOnly, running, resetRequest, pos, ring, reported>>

\* There is room, or the reader is being stopped.
HasRoom ==
    /\ tpc = "room"
    /\ Room >= Block + Spare \/ ~running
    /\ tpc' = "read"
    /\ bi' = <<>>
    /\ UNCHANGED <<runOnly, running, resetRequest, pos, ring, reported>>

\* sf_readf_float: n frames from the position on, or what there is.
FramesAt(n) == [k \in 1..Min({n, samplesinFile - pos}) |-> pos + k - 1]

\* A read of the library is not atomic: setFileat can come in between.
Reads ==
    /\ tpc = "read"
    /\ LET half == FramesAt(Block \div 2)
       IN  bi' = half /\ pos' = pos + Len(half)
    /\ tpc' = "more"
    /\ UNCHANGED <<runOnly, running, resetRequest, ring, reported>>

\* Planted error: at the end of the file the position stays where it is.
ReadsMoreOnce ==
    /\ tpc = "more"
    /\ LET all == bi \o FramesAt(Block - Len(bi))
       IN  /\ bi' = IF all = <<>> THEN [k \in 1..Block |-> Silence] ELSE all
           /\ pos' = pos + Len(all) - Len(bi)
    /\ tpc' = "put"
    /\ UNCHANGED <<runOnly, running, resetRequest, ring, reported>>

\* At the end of the file the next read is from its start; silence instead of
\* an empty block.
ReadsMore ==
    /\ tpc = "more"
    /\ LET all == bi \o FramesAt(Block - Len(bi))
       IN  /\ bi' = IF all = <<>> THEN [k \in 1..Block |-> Silence] ELSE all
           /\ pos' = IF Len(all) < Block THEN 0 ELSE pos + Len(all) - Len(bi)
    /\ tpc' = "put"
    /\ UNCHANGED <<runOnly, running, resetRequest, ring, reported>>

\* putDataIntoBuffer; a conversion that failed puts nothing.
Puts ==
    /\ tpc = "put"
    /\ \/ ring' = ring \o SubSeq(bi, 1, Min({Len(bi), Room}))
       \/ converts /\ ring' = ring
    /\ bi' = <<>>
    /\ tpc' = "report"
    /\ UNCHANGED <<runOnly, running, resetRequest, pos, reported>>

Reports ==
    /\ tpc = "report"
    /\ reported' = (reported \/ Len(ring) > ReportLimit)
    /\ tpc' = "loop"
    /\ UNCHANGED <<runOnly, running, resetRequest, pos, bi, ring>>

Run == \/ Begins \/ Ends \/ Loops \/ HasRoom \/ Reads \/ ReadsMore \/ Puts
       \/ Reports

Runs == gpc # "aborted" /\ Run

Next == \/ \E f \in Percents : SetFileat(f)
        \/ Reset \/ Quit \/ Gui
        \/ Runs

Spec == Init /\ [][Next]_vars /\ WF_vars(Gui) /\ WF_vars(Runs)

-----------------------------------------------------------------------------
(* Properties                                                              *)

\* The thread uses neither the file nor the ring after they have been closed
\* and deleted, unless stopReader came between start () and running = true
\* (filehulp.cpp, lines 94 and 193).
UsedWhileOpen == closed => tpc \in {"none", "ended"} \/ outrun

\* While the reader is not being stopped the ring has room for every block:
\* the file is played without a gap (lines 204-217).
NothingDropped == tpc = "put" /\ running => Len(bi) <= Room

\* What is played is the file: after each frame comes the next one, or the
\* place the slider was moved to, or the start.
Follows(a, b) ==
    \/ a = Silence \/ b = Silence
    \/ b = a + 1
    \/ b \in {(f * samplesinFile) \div 100 : f \in Percents \cup {0}}
Continuous ==
    ~converts => \A k \in 1..(Len(ring) - 1) : Follows(ring[k], ring[k + 1])

\* At its end the file starts again, after at most one block of silence
\* (lines 146-150 and 212-216).
StartsAgain ==
    ~converts => \A k \in 1..(Len(ring) - Block) : \E j \in k..(k + Block) : ring[j] # Silence

\* stopReader's loop on isRunning ends, also when the thread waits for room.
StopReturns == gpc \in {"stop", "stopAgain"} ~> gpc \in {"delete", "close"}

\* As long as it is not stopped the reader goes on: it never waits for room
\* that sampleHandler makes only when told (line 219).
KeepsPlaying == tpc = "loop" /\ running ~> tpc = "put" \/ ~running \/ gpc = "aborted"
=============================================================================
