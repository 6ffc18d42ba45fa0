------------------------------- MODULE Hackrf -------------------------------
(***************************************************************************)
(* The hackrf (devices/hackrf-handler).  The constructor loads the         *)
(* library, initialises it, opens the device and sets it up; when a call   *)
(* fails it throws, and closes no more than the library it could not use.  *)
(* restartReader starts the stream, whose transfers call callback on a     *)
(* thread of the library, and clears sampleCnt after the start;            *)
(* stopReader stops it, and the destructor closes the device.              *)
(*                                                                         *)
(* The library is external: hackrf_stop_rx and hackrf_close end the        *)
(* callbacks, and a device that is open cannot be opened again.            *)
(* sampleCnt += cnt is a load and a store.                                 *)
(***************************************************************************)
EXTENDS Integers

CONSTANTS Cnt,          \* elements a callback makes
          ReportLimit,  \* more than these are reported: outputRate / 8
          RingSize,     \* elements the ring _I_Buffer holds
          Chunk,        \* sampleHandler takes them from more than so many
          Garbage       \* values that a new sampleCnt can have: the
                        \* constructor does not initialise it

VARIABLES
    gpc,           \* the GUI thread: a step of the constructor, or after it
    Handle,        \* the library is loaded
    initialised,   \* hackrf_init without hackrf_exit
    theDevice,     \* the device is open
    leaked,        \* a device was left open by a constructor that threw
    running,
    streaming,     \* the library's state
    tpc,           \* the thread of the transfers
    garbage,       \* what sampleCnt was at first
    sampleCnt, loaded,
    unreported,    \* ghost: elements put into the ring since the last report
    inRing,        \* elements in _I_Buffer
    reported       \* a dataAvailable is in the event queue

held == <<Handle, initialised, theDevice, leaked>>
countVars == <<garbage, sampleCnt, loaded, unreported, inRing, reported>>
vars == <<gpc, held, running, streaming, tpc, countVars>>

TypeOK ==
    /\ gpc \in {"dlopen", "functions", "init", "open", "setup", "restart",
                "store", "clear", "loop", "close", "thrown", "gone"}
    /\ Handle \in BOOLEAN /\ initialised \in BOOLEAN /\ theDevice \in BOOLEAN
    /\ leaked \in BOOLEAN /\ running \in BOOLEAN /\ streaming \in BOOLEAN
    /\ tpc \in {"idle", "put", "store", "test"}
    /\ garbage \in Garbage
    /\ sampleCnt \in Int /\ loaded \in Int /\ unreported \in Nat
    /\ inRing \in 0..RingSize
    /\ reported \in BOOLEAN

Init ==
    /\ gpc = "dlopen"
    /\ Handle = FALSE /\ initialised = FALSE /\ theDevice = FALSE
    /\ leaked = FALSE
    /\ running = FALSE /\ streaming = FALSE /\ tpc = "idle"
    /\ garbage \in Garbage /\ sampleCnt = garbage
    /\ loaded = 0 /\ unreported = 0 /\ inRing = 0 /\ reported = FALSE

-----------------------------------------------------------------------------
(* Constructor                                                             *)

\* The step of the constructor that ends at `next', or throws.
Step(here, next) == gpc = here /\ gpc' \in {next, "thrown"}

LoadsLibrary ==
    /\ Step("dlopen", "functions")
    /\ Handle' = (gpc' = "functions")
    /\ UNCHANGED <<initialised, theDevice, leaked, running, streaming, tpc,
                   countVars>>

\* dlclose, and throw (21), when a function is missing.
LoadsFunctions ==
    /\ Step("functions", "init")
    /\ Handle' = (gpc' = "init")
    /\ UNCHANGED <<initialised, theDevice, leaked, running, streaming, tpc,
                   countVars>>

InitsLibrary ==
    /\ Step("init", "open")
    /\ initialised' = (gpc' = "open")
    /\ UNCHANGED <<Handle, theDevice, leaked, running, streaming, tpc, countVars>>

OpensDevice ==
    /\ Step("open", "setup")
    /\ theDevice' = (gpc' = "setup")
    /\ leaked => ~theDevice'
    /\ UNCHANGED <<Handle, initialised, leaked, running, streaming, tpc,
                   countVars>>

\* Sample rate, bandwidth and frequency.
SetsUp ==
    /\ Step("setup", "restart")
    /\ UNCHANGED <<held, running, streaming, tpc, countVars>>

\* The exception is caught in setDevice, and the hackrf selected again: what
\* the old handler had open nobody can close any more.
Again ==
    /\ gpc = "thrown"
    /\ gpc' = "dlopen"
    /\ Handle' = FALSE /\ initialised' = FALSE /\ theDevice' = FALSE
    /\ leaked' = (leaked \/ theDevice)
    /\ UNCHANGED <<running, streaming, tpc, countVars>>

-----------------------------------------------------------------------------
(* restartReader, sampleHandler, stopReader and the destructor             *)

\* hackrf_start_rx, which may fail.
StartsStream ==
    /\ gpc = "restart"
    /\ \/ streaming' = TRUE /\ gpc' = "store"
       \/ gpc' = "loop" /\ UNCHANGED streaming
    /\ UNCHANGED <<held, running, tpc, countVars>>

StoresRunning ==
    /\ gpc = "store"
    /\ running' = streaming
    /\ gpc' = "clear"
    /\ UNCHANGED <<held, streaming, tpc, countVars>>

\* Callbacks have counted already.
ClearsCount ==
    /\ gpc = "clear"
    /\ sampleCnt' = 0
    /\ gpc' = "loop"
    /\ UNCHANGED <<held, running, streaming, tpc, garbage, loaded, unreported,
                   inRing, reported>>

SampleHandler ==
    /\ gpc = "loop"
    /\ reported
    /\ reported' = FALSE
    /\ inRing' = IF inRing > Chunk THEN inRing - ((inRing - 1) \div Chunk) * Chunk
                                   ELSE inRing
    /\ UNCHANGED <<gpc, held, running, streaming, tpc, garbage, sampleCnt,
                   loaded, unreported>>

\* handle_quitButton; when hackrf_stop_rx fails, running stays set and the
\* destructor's call tries it again.
StopReader ==
    /\ gpc = "loop"
    /\ gpc' = "close"
    /\ \/ running /\ tpc = "idle" /\ running' = FALSE /\ streaming' = FALSE
       \/ UNCHANGED <<running, streaming>>
    /\ UNCHANGED <<held, tpc, countVars>>

\* stopReader, hackrf_close, which waits for a callback, and hackrf_exit.
Destructor ==
    /\ gpc = "close"
    /\ tpc = "idle"
    /\ running' = FALSE /\ streaming' = FALSE
    /\ theDevice' = FALSE /\ initialised' = FALSE
    /\ gpc' = "gone"
    /\ UNCHANGED <<Handle, leaked, tpc, countVars>>

Gui == \/ LoadsLibrary \/ LoadsFunctions \/ InitsLibrary \/ OpensDevice
       \/ SetsUp \/ StartsStream \/ StoresRunning \/ ClearsCount
       \/ SampleHandler \/ Destructor

-----------------------------------------------------------------------------
(* callback                                                                *)

threadOnly == <<gpc, held, running, streaming>>

TransferArrives ==
    /\ tpc = "idle"
    /\ streaming
    /\ tpc' = "put"
    /\ UNCHANGED <<threadOnly, countVars>>

\* What does not fit into the ring is dropped; sampleCnt is loaded.
Puts ==
    /\ tpc = "put"
    /\ inRing' = IF inRing + Cnt > RingSize THEN RingSize ELSE inRing + Cnt
    /\ unreported' = unreported + inRing' - inRing
    /\ loaded' = sampleCnt
    /\ tpc' = "store"
    /\ UNCHANGED <<threadOnly, garbage, sampleCnt, reported>>

StoresCount ==
    /\ tpc = "store"
    /\ sampleCnt' = loaded + Cnt
    /\ tpc' = "test"
    /\ UNCHANGED <<threadOnly, garbage, loaded, unreported, inRing, reported>>

\* Planted error: the count starts again below what has been counted.
ReportsTwice ==
    /\ tpc = "test"
    /\ IF sampleCnt > ReportLimit + Cnt + Cnt
       THEN reported' = TRUE /\ sampleCnt' = 0 /\ unreported' = 0
       ELSE UNCHANGED <<reported, sampleCnt, unreported>>
    /\ tpc' = "idle"
    /\ UNCHANGED <<threadOnly, garbage, loaded, inRing>>

Reports ==
    /\ tpc = "test"
    /\ IF sampleCnt > ReportLimit
       THEN reported' = TRUE /\ sampleCnt' = 0 /\ unreported' = 0
       ELSE UNCHANGED <<reported, sampleCnt, unreported>>
    /\ tpc' = "idle"
    /\ UNCHANGED <<threadOnly, garbage, loaded, inRing>>

CallBack == Puts \/ StoresCount \/ Reports

Next == Gui \/ Again \/ StopReader \/ TransferArrives \/ CallBack

\* Both threads go on and the hackrf delivers; nobody has to quit.
Spec == Init /\ [][Next]_vars /\ WF_vars(Gui) /\ WF_vars(CallBack)
        /\ WF_vars(TransferArrives)

-----------------------------------------------------------------------------
(* Properties                                                              *)

\* The callback runs only with a device that is open and a handler that is
\* there, also after a hackrf_stop_rx that failed (lines 171-182 and 282-296).
UsedWhileThere == tpc # "idle" => theDevice /\ gpc # "gone"

\* The destructor leaves neither device nor library in use (lines 171-182).  A
\* constructor that throws may: then the hackrf cannot be opened any more.
NothingHeld == gpc = "gone" => ~theDevice /\ ~initialised

\* restartReader clears sampleCnt while callbacks count, and within a += : at
\* most one count is lost by it, so that what is in the ring and not reported
\* stays within twice the limit, unless sampleCnt is negative at first, which
\* the race can preserve (lines 248-254 and 275).
ReportsInTime == garbage >= 0 => unreported <= 2 * (ReportLimit + Cnt)
=============================================================================
