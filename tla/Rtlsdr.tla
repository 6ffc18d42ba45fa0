------------------------------- MODULE Rtlsdr -------------------------------
(***************************************************************************)
(* The rtlsdr stick (devices/rtlsdr-handler).  The constructor loads the   *)
(* library, opens the device and sets it up, and gives back what it took   *)
(* when one of these fails (err:).  restartReader makes a dll_driver, a    *)
(* QThread that calls rtlsdr_read_async, which calls RTLSDRCallBack for    *)
(* every block; stopReader cancels the call and waits for the thread.      *)
(*                                                                         *)
(* The library is external: rtlsdr_cancel_async has an effect only on a    *)
(* rtlsdr_read_async that has begun.                                       *)
(***************************************************************************)
EXTENDS Integers

CONSTANTS RingSize,       \* elements the ring _I_Buffer holds
          Cnt,            \* elements a callback makes
          Chunk,          \* sampleHandler takes them from more than so many
          outputRates     \* values that outputRate / 10 can have: the member
                          \* is read in the callback and assigned nowhere

VARIABLES
    gpc,            \* the GUI thread: a step of the constructor, or after it
    Handle,         \* the library is loaded
    device,         \* the device is open in the library
    open,           \* the handler's own flag
    d_filter,       \* the filter exists
    workerHandle,   \* the dll_driver exists
    tpc,            \* its thread
    async,          \* the library's state of the read
    tenth,          \* outputRate / 10
    inRing,         \* elements in _I_Buffer
    reported,       \* a dataAvailable is in the event queue
    early           \* ghost: the cancel came before the read had begun

held == <<Handle, device, open, d_filter>>
vars == <<gpc, held, workerHandle, tpc, async, tenth, inRing, reported, early>>

TypeOK ==
    /\ gpc \in {"dlopen", "functions", "open", "rate", "restart", "loop",
                "cancel", "join", "close", "thrown", "gone"}
    /\ Handle \in BOOLEAN /\ device \in BOOLEAN /\ open \in BOOLEAN
    /\ d_filter \in BOOLEAN /\ workerHandle \in BOOLEAN
    /\ tpc \in {"none", "started", "reading", "callback", "finished"}
    /\ async \in {"inactive", "running", "canceling"}
    /\ tenth \in outputRates
    /\ inRing \in 0..RingSize
    /\ reported \in BOOLEAN /\ early \in BOOLEAN

Init ==
    /\ gpc = "dlopen"
    /\ Handle = FALSE /\ device = FALSE /\ open = FALSE /\ d_filter = FALSE
    /\ workerHandle = FALSE /\ tpc = "none" /\ async = "inactive"
    /\ tenth \in outputRates
    /\ inRing = 0 /\ reported = FALSE /\ early = FALSE

-----------------------------------------------------------------------------
(* Constructor                                                             *)

threadVars == <<workerHandle, tpc, async, tenth, inRing, reported, early>>

LoadsLibrary ==
    /\ gpc = "dlopen"
    /\ \/ Handle' = TRUE /\ gpc' = "functions"
       \/ Handle' = FALSE /\ gpc' = "thrown"
    /\ UNCHANGED <<device, open, d_filter, threadVars>>

\* err: gives back what has been taken, and throws.
Errors ==
    /\ device' = (device /\ ~open)
    /\ Handle' = FALSE /\ open' = FALSE /\ d_filter' = FALSE
    /\ gpc' = "thrown"

\* The functions, and a device.
FindsDevice ==
    /\ gpc = "functions"
    /\ \/ gpc' = "open" /\ UNCHANGED held
       \/ Errors
    /\ UNCHANGED threadVars

OpensDevice ==
    /\ gpc = "open"
    /\ \/ device' = TRUE /\ open' = TRUE /\ gpc' = "rate"
          /\ UNCHANGED <<Handle, d_filter>>
       \/ Errors
    /\ UNCHANGED threadVars

SetsUp ==
    /\ gpc = "rate"
    /\ \/ d_filter' = TRUE /\ gpc' = "restart"
          /\ UNCHANGED <<Handle, device, open>>
       \/ Errors
    /\ UNCHANGED threadVars

\* The exception is caught in setDevice, and the stick selected again.
Again ==
    /\ gpc = "thrown"
    /\ gpc' = "dlopen"
    /\ UNCHANGED <<held, threadVars>>

-----------------------------------------------------------------------------
(* restartReader, stopReader and the destructor                            *)

\* rtlsdr_reset_buffer may fail, and then there is no thread.
RestartReader ==
    /\ gpc = "restart"
    /\ gpc' = "loop"
    /\ \/ workerHandle' = TRUE /\ tpc' = "started"
       \/ UNCHANGED <<workerHandle, tpc>>
    /\ UNCHANGED <<held, async, tenth, inRing, reported, early>>

SampleHandler ==
    /\ gpc = "loop"
    /\ reported
    /\ reported' = FALSE
    /\ inRing' = IF inRing > Chunk THEN inRing - ((inRing - 1) \div Chunk) * Chunk
                                   ELSE inRing
    /\ UNCHANGED <<gpc, held, workerHandle, tpc, async, tenth, early>>

\* handle_quitButton, and again in the destructor, when nothing is left to do.
StopReader ==
    /\ gpc = "loop"
    /\ gpc' = IF workerHandle THEN "cancel" ELSE "close"
    /\ UNCHANGED <<held, threadVars>>

Cancels ==
    /\ gpc = "cancel"
    /\ async' = IF async = "running" THEN "canceling" ELSE async
    /\ early' = (tpc = "started")
    /\ gpc' = "join"
    /\ UNCHANGED <<held, workerHandle, tpc, tenth, inRing, reported>>

\* Planted error: the thread is deleted without a look at isFinished.
JoinsAtOnce ==
    /\ gpc = "join"
    /\ workerHandle' = FALSE
    /\ gpc' = "close"
    /\ UNCHANGED <<held, tpc, async, tenth, inRing, reported, early>>

\* The loop on isFinished.
Joins ==
    /\ gpc = "join"
    /\ tpc = "finished"
    /\ workerHandle' = FALSE
    /\ gpc' = "close"
    /\ UNCHANGED <<held, tpc, async, tenth, inRing, reported, early>>

Destructor ==
    /\ gpc = "close"
    /\ device' = (device /\ ~open)
    /\ Handle' = FALSE /\ d_filter' = FALSE
    /\ gpc' = "gone"
    /\ UNCHANGED <<open, threadVars>>

Gui == \/ LoadsLibrary \/ FindsDevice \/ OpensDevice \/ SetsUp
       \/ RestartReader \/ SampleHandler \/ Cancels \/ Joins \/ Destructor

-----------------------------------------------------------------------------
(* The thread, within the library and in the callback                      *)

ReadBegins ==
    /\ tpc = "started"
    /\ async' = "running"
    /\ tpc' = "reading"
    /\ UNCHANGED <<gpc, held, workerHandle, tenth, inRing, reported, early>>

\* Planted error: a read that is cancelled waits for one more block.
ReadEndsFull ==
    /\ tpc = "reading"
    /\ async = "canceling" /\ inRing + Cnt < RingSize
    /\ async' = "inactive"
    /\ tpc' = "finished"
    /\ UNCHANGED <<gpc, held, workerHandle, tenth, inRing, reported, early>>

ReadEnds ==
    /\ tpc = "reading"
    /\ async = "canceling"
    /\ async' = "inactive"
    /\ tpc' = "finished"
    /\ UNCHANGED <<gpc, held, workerHandle, tenth, inRing, reported, early>>

BlockArrives ==
    /\ tpc = "reading"
    /\ async = "running"
    /\ tpc' = "callback"
    /\ UNCHANGED <<gpc, held, workerHandle, async, tenth, inRing, reported, early>>

\* RTLSDRCallBack: what does not fit is dropped.
CallBack ==
    /\ tpc = "callback"
    /\ inRing' = IF inRing + Cnt > RingSize THEN RingSize ELSE inRing + Cnt
    /\ reported' = (reported \/ inRing' > tenth)
    /\ tpc' = "reading"
    /\ UNCHANGED <<gpc, held, workerHandle, async, tenth, early>>

Thread == ReadBegins \/ ReadEnds \/ CallBack

Next == Gui \/ Again \/ StopReader \/ Thread \/ BlockArrives

\* The stick delivers, the library and both threads go on; nobody has to quit.
Spec == Init /\ [][Next]_vars /\ WF_vars(Gui) /\ WF_vars(Thread)
        /\ WF_vars(BlockArrives)

-----------------------------------------------------------------------------
(* Properties                                                              *)

\* The callback uses filter, device and library only while they are there
\* (lines 81 and 270-292).
UsedWhileThere == tpc \in {"reading", "callback"} => d_filter /\ device /\ Handle

\* A constructor that throws, wherever it failed, leaves nothing behind: the
\* selection can be made again (err:, line 254).
NothingHeld == gpc \in {"thrown", "gone"} => ~Handle /\ ~device /\ ~d_filter

\* stopReader returns, unless the cancel was too early for the read: then the
\* program hangs in the loop on isFinished (line 350).
StopReturns == gpc = "join" /\ ~early ~> gpc = "gone"

\* With an outputRate / 10 that the ring can hold, what is in the ring is
\* reported and taken, or the reader stopped.
Heard == tenth + Cnt < RingSize /\ inRing > tenth
             ~> inRing <= tenth \/ inRing <= Chunk \/ gpc # "loop"

\* The samples of a stick that delivers come to the decoder: more than a
\* tenth of a second of them is reported (line 85).
AlwaysHeard == gpc = "loop" /\ workerHandle ~> reported \/ gpc # "loop"
=============================================================================
