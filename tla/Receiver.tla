------------------------------ MODULE Receiver ------------------------------
(***************************************************************************)
(* radio.cpp: the spine of the receiver.  The thread of a device puts      *)
(* samples into the ring inputData and now and then emits dataAvailable,   *)
(* which becomes an event in the queue of the GUI thread.  Everything else *)
(* is done there, one event after the other: sampleHandler empties the     *)
(* ring by blocks and takes each sample through the decimator to the       *)
(* decoder; other slots select a decoder, dump the samples to a file, or   *)
(* end it all.                                                             *)
(*                                                                         *)
(* A dialog runs an event loop of its own: while it is open it keeps the   *)
(* user from the other widgets, but the events of the device are handled,  *)
(* inside of the slot that opened it.  The fax decoder opens one in        *)
(* process, to ask where the picture is to go; so "calls" is a stack.      *)
(*                                                                         *)
(* Samples are numbered; what is computed of them is left out.  The device *)
(* is an SDRplay, whose callback counts the samples between its reports    *)
(* and emits them to the GUI itself, or the file reader, whose thread waits*)
(* for room and reports what is in the ring, through the object fileReader.*)
(***************************************************************************)
EXTENDS Naturals, Sequences

CONSTANTS
    Block,        \* samples taken from inputData at a time: 512
    inputLimit,   \* samples the decimator collects: inputRate / 10
    outSize,      \* samples it makes of them
    Capacity,     \* of inputData: 1024 * 1024
    ReportLimit,  \* samples that are reported: outputRate / 8, theRate / 10
    Decoders,     \* the entries of decoderTable
    Devices,      \* those setDevice can make here
    MaxSamples,   \* bound: samples the device makes
    MaxEvents,    \* bound: other events
    MaxNesting    \* bound: dialogs within dialogs

ASSUME ReceiverAssumption ==
    /\ {Block, inputLimit, outSize} \subseteq Nat \ {0}
    /\ {Capacity, ReportLimit, MaxSamples} \subseteq Nat
    /\ "deleted" \notin Decoders
    /\ Devices \subseteq {"sdrplay-v3", "filereader"}

VARIABLES
    theDevice,
    inputData,
    sampleCnt,      \* samples put since the last report
    made,           \* the number of samples the device has made
    lost,           \* ghost: inputData was too full for some of them
    dpc,            \* the device's thread: idle, put, or about to report
    deviceRuns,
    events,         \* dataAvailable's in the event queue
    calls,          \* the calls of sampleHandler under way, outermost first
    collected,      \* the samples in the decimator
    theDecoder,     \* its name, or "deleted"
    saveSingle,     \* of the fax decoder, which waits with a finished picture
    dumpFile,       \* the samples in the dump file, if one is open
    dumping,        \* dumpfilePointer # NULL
    slot,           \* the slot with an open dialog, or idle; closed at the end
    nested,         \* ghost: sampleHandler was called within process
    others          \* events of the user so far

deviceVars  == <<theDevice, sampleCnt, made, lost, dpc>>
handlerVars == <<calls, collected>>
userVars    == <<dumping, slot, others>>
vars == <<deviceVars, handlerVars, userVars, inputData, deviceRuns, events,
          theDecoder, saveSingle, dumpFile, nested>>

Samples == 1..MaxSamples

\* A call of sampleHandler: the rest of its block, how many of the decimator's
\* samples it has yet to process, and whether process has opened a dialog.
Calls == [block : Seq(Samples), out : 0..outSize, dialog : BOOLEAN]

TypeOK ==
    /\ theDevice \in Devices
    /\ inputData \in Seq(Samples) /\ Len(inputData) <= Capacity
    /\ sampleCnt \in 0 .. ReportLimit + MaxSamples /\ made \in 0..MaxSamples
    /\ dpc \in {"idle", "report"} /\ {deviceRuns, lost} \subseteq BOOLEAN
    /\ events \in Nat
    /\ calls \in Seq(Calls) /\ Len(calls) <= MaxNesting + 1
    /\ collected \in Seq(Samples) /\ Len(collected) < inputLimit
    /\ theDecoder \in Decoders \cup {"deleted"}
    /\ {saveSingle, dumping, nested} \subseteq BOOLEAN
    /\ dumpFile \in Seq(Samples)
    /\ slot \in {"idle", "set_dumpButton", "closeEvent", "closed"}
    /\ others \in 0..MaxEvents

\* The end of the constructor: a device is selected, and restartReader called.
Init ==
    /\ theDevice \in Devices
    /\ inputData = <<>> /\ sampleCnt = 0 /\ made = 0 /\ dpc = "idle" /\ lost = FALSE
    /\ deviceRuns = TRUE /\ events = 0
    /\ calls = <<>> /\ collected = <<>>
    /\ theDecoder \in Decoders /\ saveSingle = FALSE
    /\ dumpFile = <<>> /\ dumping = FALSE
    /\ slot = "idle" /\ others = 0 /\ nested = FALSE

-----------------------------------------------------------------------------
(* The device's thread: its callback *)

\* putDataIntoBuffer, which drops what does not fit; only the file reader
\* waits until all of it does.
CallbackPuts(n) ==
    LET room == Capacity - Len(inputData)
        put  == IF n < room THEN n ELSE room
    IN  /\ deviceRuns /\ dpc = "idle"
        /\ made + n <= MaxSamples
        /\ theDevice = "filereader" => n <= room
        /\ made' = made + n
        /\ inputData' = inputData \o [k \in 1..put |-> made + k]
        /\ lost' = (lost \/ n > room)
        /\ sampleCnt' = sampleCnt + n
        /\ dpc' = "report"
        /\ UNCHANGED <<theDevice, handlerVars, userVars, deviceRuns, events,
                       theDecoder, saveSingle, dumpFile, nested>>

\* What is compared with the limit: the count, or all there is in the ring.
Reportable == IF theDevice = "filereader" THEN Len(inputData) ELSE sampleCnt

\* A planted error: the count is reset whether or not it is reported.
CallbackReportsRarely ==
    /\ dpc = "report"
    /\ events' = IF Reportable > ReportLimit THEN events + 1 ELSE events
    /\ sampleCnt' = 0
    /\ dpc' = "idle"
    /\ UNCHANGED <<theDevice, made, lost, handlerVars, userVars, inputData,
                   deviceRuns, theDecoder, saveSingle, dumpFile, nested>>

CallbackReports ==
    /\ dpc = "report"
    /\ IF Reportable > ReportLimit
       THEN sampleCnt' = 0 /\ events' = events + 1
       ELSE UNCHANGED <<sampleCnt, events>>
    /\ dpc' = "idle"
    /\ UNCHANGED <<theDevice, made, lost, handlerVars, userVars, inputData,
                   deviceRuns, theDecoder, saveSingle, dumpFile, nested>>

-----------------------------------------------------------------------------
(* The GUI thread: sampleHandler *)

Top       == calls[Len(calls)]
Outer     == SubSeq(calls, 1, Len(calls) - 1)
InHandler == calls # <<>> /\ ~Top.dialog

eventUnchanged == <<deviceVars, userVars, deviceRuns>>
handlerUnchanged == <<eventUnchanged, nested>>

\* An event loop, the main one or that of a dialog, takes a dataAvailable.
\* The bound on nesting is here: a loop that is MaxNesting deep takes none.
SampleHandler ==
    /\ ~InHandler
    /\ events > 0
    /\ Len(calls) <= MaxNesting
    /\ events' = events - 1
    /\ calls' = Append(calls, [block |-> <<>>, out |-> 0, dialog |-> FALSE])
    /\ nested' = (nested \/ calls # <<>>)
    /\ UNCHANGED <<eventUnchanged, inputData, collected, theDecoder,
                   saveSingle, dumpFile>>

Taken == SubSeq(inputData, 1, Block)

\* A planted error: one sample too many is taken.
TakesBlockAndOne ==
    /\ InHandler
    /\ Top.block = <<>> /\ Top.out = 0
    /\ Len(inputData) > Block
    /\ inputData' = SubSeq(inputData, Block + 2, Len(inputData))
    /\ calls' = Append(Outer, [Top EXCEPT !.block = Taken])
    /\ dumpFile' = IF dumping THEN dumpFile \o Taken ELSE dumpFile
    /\ UNCHANGED <<handlerUnchanged, events, collected, theDecoder, saveSingle>>

\* while (there are more than 512), 512 of them, to the dump file as well.
TakesBlock ==
    /\ InHandler
    /\ Top.block = <<>> /\ Top.out = 0
    /\ Len(inputData) > Block
    /\ inputData' = SubSeq(inputData, Block + 1, Len(inputData))
    /\ calls' = Append(Outer, [Top EXCEPT !.block = Taken])
    /\ dumpFile' = IF dumping THEN dumpFile \o Taken ELSE dumpFile
    /\ UNCHANGED <<handlerUnchanged, events, collected, theDecoder, saveSingle>>

\* theDecimator. add: with inputLimit samples there is something to decode.
AddsSample ==
    LET all == Append(collected, Head(Top.block))
    IN  /\ InHandler
        /\ Top.block # <<>> /\ Top.out = 0
        /\ IF Len(all) < inputLimit
           THEN /\ collected' = all
                /\ calls' = Append(Outer, [Top EXCEPT !.block = Tail(@)])
           ELSE /\ collected' = <<>>
                /\ calls' = Append(Outer, [Top EXCEPT !.block = Tail(@),
                                                      !.out = outSize])
        /\ UNCHANGED <<handlerUnchanged, inputData, events, theDecoder,
                       saveSingle, dumpFile>>

\* theDecoder -> process; the fax decoder may have to ask for a file name.
Processes ==
    /\ InHandler
    /\ Top.out > 0
    /\ calls' = Append(Outer,
          IF theDecoder = "wfax decoder" /\ saveSingle
          THEN [Top EXCEPT !.dialog = TRUE]
          ELSE [Top EXCEPT !.out = @ - 1])
    /\ UNCHANGED <<handlerUnchanged, inputData, events, collected, theDecoder,
                   saveSingle, dumpFile>>

\* The dialog of the innermost call ends: the picture is written.
DialogEnds ==
    /\ calls # <<>> /\ Top.dialog
    /\ saveSingle' = FALSE
    /\ calls' = Append(Outer, [Top EXCEPT !.dialog = FALSE, !.out = @ - 1])
    /\ UNCHANGED <<handlerUnchanged, inputData, events, collected, theDecoder,
                   dumpFile>>

\* A planted error: sampleHandler takes one block and returns.
HandlerReturnsEarly ==
    /\ InHandler
    /\ Top.block = <<>> /\ Top.out = 0
    /\ calls' = Outer
    /\ UNCHANGED <<handlerUnchanged, inputData, events, collected, theDecoder,
                   saveSingle, dumpFile>>

HandlerReturns ==
    /\ InHandler
    /\ Top.block = <<>> /\ Top.out = 0
    /\ Len(inputData) <= Block
    /\ calls' = Outer
    /\ UNCHANGED <<handlerUnchanged, inputData, events, collected, theDecoder,
                   saveSingle, dumpFile>>

-----------------------------------------------------------------------------
(* The GUI thread: the user's events, in the main event loop *)

UserEvent ==
    /\ slot = "idle" /\ calls = <<>>
    /\ others < MaxEvents
    /\ others' = others + 1

userUnchanged == <<deviceVars, handlerVars, inputData, nested>>

\* selectDecoder: the old one is disconnected and deleted, a new one made.
SelectDecoder(s) ==
    /\ UserEvent
    /\ theDecoder' = s /\ saveSingle' = FALSE
    /\ UNCHANGED <<userUnchanged, deviceRuns, events, dumping, dumpFile, slot>>

\* The button of the fax decoder's widget.
SetSaveSingle ==
    /\ theDecoder = "wfax decoder"
    /\ UserEvent
    /\ saveSingle' = ~saveSingle
    /\ UNCHANGED <<userUnchanged, deviceRuns, events, theDecoder, dumping,
                   dumpFile, slot>>

\* set_dumpButton: a dump is ended, or a file is asked for ...
SetDumpButton ==
    /\ UserEvent
    /\ IF dumping THEN dumping' = FALSE /\ UNCHANGED slot
                  ELSE slot' = "set_dumpButton" /\ UNCHANGED dumping
    /\ UNCHANGED <<userUnchanged, deviceRuns, events, theDecoder, saveSingle,
                   dumpFile>>

\* A planted error: a second dump goes to the file of the first.
DumpDialogAppends ==
    /\ slot = "set_dumpButton" /\ calls = <<>>
    /\ slot' = "idle"
    /\ dumping' \in {TRUE, dumping}
    /\ UNCHANGED <<userUnchanged, deviceRuns, events, theDecoder, saveSingle,
                   dumpFile, others>>

\* ... and opened, unless there is none or it cannot be.
DumpDialogEnds ==
    /\ slot = "set_dumpButton" /\ calls = <<>>
    /\ slot' = "idle"
    /\ \/ dumping' = TRUE /\ dumpFile' = <<>>
       \/ UNCHANGED <<dumping, dumpFile>>
    /\ UNCHANGED <<userUnchanged, deviceRuns, events, theDecoder, saveSingle,
                   others>>

CloseEvent ==
    /\ UserEvent
    /\ slot' = "closeEvent"
    /\ UNCHANGED <<userUnchanged, deviceRuns, events, theDecoder, saveSingle,
                   dumping, dumpFile>>

\* "Are you sure?"
Ignores ==
    /\ slot = "closeEvent" /\ calls = <<>>
    /\ slot' = "idle"
    /\ UNCHANGED <<userUnchanged, deviceRuns, events, theDecoder, saveSingle,
                   dumping, dumpFile, others>>

\* A planted error: the device is not deleted, so its events are not either.
QuitsKeepingDevice ==
    /\ slot = "closeEvent" /\ calls = <<>> /\ dpc = "idle"
    /\ slot' = "closed"
    /\ deviceRuns' = FALSE
    /\ theDecoder' = "deleted"
    /\ UNCHANGED <<userUnchanged, events, saveSingle, dumping, dumpFile, others>>

\* handle_quitButton: stopReader, which waits for a callback under way, then
\* the device is deleted, with the events on their way through fileReader but
\* not those an SDRplay has sent, and a second later the decoder.  The dump
\* file is not closed.
Quits ==
    /\ slot = "closeEvent" /\ calls = <<>> /\ dpc = "idle"
    /\ slot' = "closed"
    /\ deviceRuns' = FALSE
    /\ events' = IF theDevice = "filereader" THEN 0 ELSE events
    /\ theDecoder' = "deleted"
    /\ UNCHANGED <<userUnchanged, saveSingle, dumping, dumpFile, others>>

-----------------------------------------------------------------------------
Device == CallbackReports \/ \E n \in 1..MaxSamples : CallbackPuts(n)

Handling == SampleHandler \/ TakesBlock \/ AddsSample \/ Processes
            \/ HandlerReturns

User ==
    \/ \E s \in Decoders : SelectDecoder(s)
    \/ SetSaveSingle \/ SetDumpButton \/ CloseEvent
    \/ DialogEnds \/ DumpDialogEnds \/ Ignores \/ Quits

Next == Device \/ Handling \/ User

\* The GUI thread takes its events and its slots return, and so do the
\* device's callbacks; a user may leave a dialog open for ever, and click at
\* nothing.
Fairness == WF_vars(Handling) /\ WF_vars(CallbackReports)

Spec == Init /\ [][Next]_vars /\ Fairness

-----------------------------------------------------------------------------
IsConsecutive(s) == \A k \in 1 .. Len(s) - 1 : s[k + 1] = s[k] + 1

\* What has been taken from inputData and is not yet in the decimator.
Pending == IF calls = <<>> THEN <<>> ELSE Top.block

(* The samples reach the decoder in the order in which the device made them *)
(* and without a gap, across blocks that straddle the decimator's, changes  *)
(* of decoder and dialogs: unless inputData has overflowed, what is in the  *)
(* decimator, in the block under way and in the ring is one uninterrupted   *)
(* run of samples.  A dialog within process breaks it: samples that come    *)
(* later are then handled before the rest of the block.                     *)
NoSampleSkipped ==
    ~lost /\ ~nested => IsConsecutive(collected \o Pending \o inputData)

(* Nothing stays behind: when the event queue is empty and the GUI thread   *)
(* idle, there is at most a block in the ring besides the samples the       *)
(* device has not reported yet.  No report is ever missed, though           *)
(* sampleHandler tests the ring while the device fills it.                  *)
NothingStaysBehind ==
    slot # "closed" /\ calls = <<>> /\ events = 0
        => Len(inputData) <= Block + sampleCnt

(* The dump file holds an uninterrupted run of samples, though it is opened *)
(* and closed between blocks and samples are handled while its name is      *)
(* being asked for; unless inputData has overflowed.                        *)
DumpIsConsecutive == ~lost => IsConsecutive(dumpFile)

(* process is only called on a decoder that is there: not on one that       *)
(* selectDecoder or handle_quitButton has deleted.  So it is with the file  *)
(* reader; an SDRplay leaves dataAvailable's behind in the event queue.     *)
DecoderAlive ==
    theDevice = "filereader" /\ calls # <<>> => theDecoder # "deleted"

(* Every report is answered: the ring is emptied down to a block, unless a  *)
(* dialog within process stays open.                                        *)
ReportsAnswered ==
    events > 0 ~> \/ Len(inputData) <= Block \/ slot = "closed"
                  \/ \E k \in DOMAIN calls : calls[k].dialog

(* "as always, we "process" one sample at the time"                         *)
(* (fax-decoder.cpp:227): process is not called while another call of it    *)
(* has not returned, so no two calls of it have their dialog open.          *)
OneAtATime ==
    \A j, k \in DOMAIN calls : calls[j].dialog /\ calls[k].dialog => j = k
=============================================================================
