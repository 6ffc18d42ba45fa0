------------------------------ MODULE AudioOut ------------------------------
(***************************************************************************)
(* The way of the audio from the decoder to the sound card:                *)
(*   - on the GUI thread processAudio (radio.cpp) takes chunks out of      *)
(*     audioData and gives them to the upConverter or straight to the      *)
(*     audioSink, which puts them into the ring _O_Buffer; the slot        *)
(*     setStreamOutSelector stops, closes, opens and starts the stream;    *)
(*   - on PortAudio's thread paCallback_o takes them out of _O_Buffer.     *)
(*                                                                         *)
(* Frames are numbered in the order in which they are made, and a float in *)
(* _O_Buffer is <<frame, channel>>.  The rings are queues (BoundedFifo): a *)
(* get is granted what is there when it starts and removes it at its end.  *)
(***************************************************************************)
EXTENDS Integers, Sequences

CONSTANTS decoderRate,     \* 12000
          CardRate,        \* 48000
          Capacity,        \* floats in _O_Buffer: 4 * 32768
          framesPerBuffer, \* what a callback asks for
          MaxFrames,       \* bound: frames the decoder makes
          MaxSelections    \* bound: selections in streamOutSelector

\* The card is as fast as the decoders, or faster, and its ring holds frames.
ASSUME AudioAssumption ==
    /\ decoderRate \in Nat \ {0} /\ CardRate \in Nat /\ decoderRate <= CardRate
    /\ Capacity \in Nat /\ Capacity % 2 = 0
    /\ {framesPerBuffer, MaxFrames, MaxSelections} \subseteq Nat

Least(a, b) == IF a < b THEN a ELSE b

VARIABLES
    gpc,          \* the GUI thread
    waiting,      \* frames in audioData
    taken,        \* frames taken out of it so far: the last one's number
    rate,         \* of the decoder that emitted audioAvailable
    i,            \* the loop variable of upConverter::handle
    framesOut,    \* the frames src_process made
    inBuffer,     \* numbers of the frames in the upConverter
    passed,       \* ghost: the last frame converted, or put as it is
    made,         \* frames made for the sink: the last one's number
    n,            \* frames putSamples has found room for
    _O_Buffer,
    cpc,          \* PortAudio's thread: idle, or in the callback
    granted,      \* the floats the callback under way takes
    heard,        \* ghost: the last frame played
    stream,       \* ostream
    paCallbackReturn, writerRunning,
    starting,     \* calls of selectDefaultDevice the constructor still makes
    selections    \* selections made by the user so far

audioVars  == <<waiting, taken, rate, passed>>
upVars     == <<i, framesOut, inBuffer>>
sinkVars   == <<made, n>>
streamVars == <<stream, paCallbackReturn, writerRunning, starting, selections>>
callVars   == <<cpc, granted, heard>>
vars == <<gpc, audioVars, upVars, sinkVars, streamVars, callVars, _O_Buffer>>

Rates == {decoderRate, CardRate}

TypeOK ==
    /\ gpc \in {"select", "abort", "open", "idle", "process", "convert",
                "ask", "store", "stop", "restart"}
    /\ waiting \in 0..MaxFrames /\ taken \in 0..MaxFrames
    /\ rate \in Rates
    /\ i \in Nat /\ framesOut \in Nat /\ inBuffer \in Seq(1..MaxFrames)
    /\ passed \in 0..MaxFrames
    /\ made \in Nat /\ n \in Nat /\ heard \in 0..made
    /\ {_O_Buffer, granted} \subseteq Seq((1..made) \X {"left", "right"})
    /\ Len(_O_Buffer) <= Capacity
    /\ cpc \in {"idle", "copy", "return"}
    /\ stream \in {"none", "stopped", "active", "finished", "closed"}
    /\ paCallbackReturn \in {"paContinue", "paAbort"}
    /\ writerRunning \in BOOLEAN
    /\ starting \in 0..2 /\ selections \in 0..MaxSelections

\* The constructor of RadioInterface has made the sink and is selecting the
\* default device, which it does twice; paCallbackReturn is not initialized.
Init ==
    /\ gpc = "select"
    /\ waiting = 0 /\ taken = 0 /\ rate \in Rates /\ passed = 0
    /\ i = 0 /\ framesOut = 0 /\ inBuffer = <<>>
    /\ made = 0 /\ n = 0 /\ _O_Buffer = <<>>
    /\ cpc = "idle" /\ granted = <<>> /\ heard = 0
    /\ stream = "none" /\ writerRunning = FALSE
    /\ starting = 2 /\ selections = 0
    /\ paCallbackReturn \in {"paContinue", "paAbort"}

-----------------------------------------------------------------------------
(* The GUI thread: processAudio and the upConverter *)

\* rate / 10: what processAudio takes at a time.
Chunk == rate \div 10

\* A planted error: the upConverter collects half a chunk.
inputLimitHalved == decoderRate \div 20

inputLimit == decoderRate \div 10

\* The decoder has put frames into audioData and emitted audioAvailable; it
\* lives on the GUI thread, so processAudio is called there and then.
AudioAvailable(frames, r) ==
    /\ gpc = "idle"
    /\ taken + waiting + frames <= MaxFrames
    /\ waiting' = waiting + frames
    /\ rate' = r
    /\ gpc' = "process"
    /\ UNCHANGED <<taken, passed, upVars, sinkVars, streamVars, callVars,
                   _O_Buffer>>

\* while (there is more than a chunk) getDataFromBuffer, and then either
\* theUpConverter -> handle or audioHandler -> putSamples.
TakesChunk ==
    /\ gpc = "process"
    /\ waiting > Chunk
    /\ waiting' = waiting - Chunk
    /\ taken' = taken + Chunk
    /\ IF rate # CardRate
       THEN /\ gpc' = "convert" /\ i' = 0
            /\ UNCHANGED <<passed, sinkVars>>
       ELSE /\ gpc' = "ask" /\ n' = Chunk
            /\ made' = made + Chunk
            /\ passed' = (IF passed = taken THEN taken' ELSE passed)
            /\ UNCHANGED i
    /\ UNCHANGED <<rate, framesOut, inBuffer, streamVars, callVars, _O_Buffer>>

ProcessReturns ==
    /\ gpc = "process"
    /\ waiting <= Chunk
    /\ gpc' = "idle"
    /\ UNCHANGED <<audioVars, upVars, sinkVars, streamVars, callVars, _O_Buffer>>

\* One turn of the loop in handle.  With inputLimit frames src_process makes
\* CardRate / decoderRate as many, or one less, and the loop that puts them
\* runs with the same i.
Converts ==
    /\ gpc = "convert"
    /\ i < Chunk
    /\ LET frame == taken - Chunk + i + 1
           all   == Append(inBuffer, frame)
           full  == Len(all) * (CardRate \div decoderRate)
       IN  IF Len(all) < inputLimit
           THEN /\ inBuffer' = all /\ i' = i + 1
                /\ UNCHANGED <<gpc, framesOut, passed, sinkVars>>
           ELSE /\ inBuffer' = <<>>
                /\ passed' = (IF all[1] = passed + 1 THEN frame ELSE passed)
                /\ framesOut' \in {full - 1, full}
                /\ i' = 0 /\ made' = made + 1 /\ n' = 1
                /\ gpc' = "ask"
    /\ UNCHANGED <<waiting, taken, rate, streamVars, callVars, _O_Buffer>>

\* A planted error: the loop ends at i == amount only.
HandleReturnsWhenEqual ==
    /\ gpc = "convert"
    /\ i = Chunk
    /\ gpc' = "process"
    /\ UNCHANGED <<audioVars, upVars, sinkVars, streamVars, callVars, _O_Buffer>>

HandleReturns ==
    /\ gpc = "convert"
    /\ i >= Chunk
    /\ gpc' = "process"
    /\ UNCHANGED <<audioVars, upVars, sinkVars, streamVars, callVars, _O_Buffer>>

-----------------------------------------------------------------------------
(* The GUI thread: the audioSink *)

\* GetRingBufferWriteAvailable, and what putSamples makes of it.
RoomFor(frames) ==
    LET available == Capacity - Len(_O_Buffer)
    IN  IF 2 * frames <= available THEN frames
        ELSE 2 * (available \div 4)          \* (available / 2) & ~01

AsksForRoom ==
    /\ gpc = "ask"
    /\ gpc' = "store"
    /\ n' = RoomFor(n)
    /\ UNCHANGED <<audioVars, upVars, made, streamVars, callVars, _O_Buffer>>

\* The interleaved floats of the first n of the frames first, first + 1, ...
Floats(first) ==
    [k \in 1 .. 2 * n |-> <<first + (k - 1) \div 2,
                            IF k % 2 = 1 THEN "left" ELSE "right">>]

\* A planted error: n floats instead of 2 * n.
PutsHalf(floats) == _O_Buffer' = _O_Buffer \o SubSeq(floats, 1, n)

\* putDataIntoBuffer, which drops what does not fit.
Puts(floats) ==
    _O_Buffer' = _O_Buffer \o
        SubSeq(floats, 1, Least(2 * n, Capacity - Len(_O_Buffer)))

\* One frame of the upConverter; the next one, or back to the outer loop,
\* whose i ++ follows on the inner loop's.
StoresFrame ==
    /\ rate # CardRate
    /\ Puts(Floats(made))
    /\ i' = IF i + 1 < framesOut THEN i + 1 ELSE i + 2
    /\ IF i + 1 < framesOut
       THEN gpc' = "ask" /\ made' = made + 1 /\ n' = 1
       ELSE gpc' = "convert" /\ UNCHANGED <<made, n>>

\* A whole chunk at CardRate.
StoresChunk ==
    /\ rate = CardRate
    /\ Puts(Floats(made - Chunk + 1))
    /\ gpc' = "process"
    /\ UNCHANGED <<i, made, n>>

PutSamples ==
    /\ gpc = "store"
    /\ StoresFrame \/ StoresChunk
    /\ UNCHANGED <<audioVars, framesOut, inBuffer, streamVars, callVars>>

-----------------------------------------------------------------------------
(* The GUI thread: the stream *)

streamUnchanged == <<audioVars, upVars, sinkVars, callVars, _O_Buffer>>

\* setStreamOutSelector calls stop: Pa_IsStreamStopped is true of a stopped
\* stream, and an error, so also true, when there is none.
Stops ==
    /\ gpc = "idle"
    /\ selections < MaxSelections
    /\ selections' = selections + 1
    /\ IF stream = "active"
       THEN gpc' = "stop" /\ paCallbackReturn' = "paAbort"
       ELSE gpc' = "select" /\ UNCHANGED paCallbackReturn
    /\ UNCHANGED <<stream, writerRunning, starting, streamUnchanged>>

\* A planted error: neither Pa_StopStream nor Pa_AbortStream is waited for.
StoppedAtOnce ==
    /\ gpc \in {"stop", "abort"}
    /\ gpc' = IF gpc = "stop" THEN "select" ELSE "open"
    /\ stream' = "stopped" /\ writerRunning' = FALSE
    /\ UNCHANGED <<paCallbackReturn, starting, selections, streamUnchanged>>

\* Pa_StopStream and Pa_AbortStream return when no callback is under way.
Stopped ==
    /\ gpc \in {"stop", "abort"}
    /\ cpc = "idle"
    /\ gpc' = IF gpc = "stop" THEN "select" ELSE "open"
    /\ stream' = "stopped" /\ writerRunning' = FALSE
    /\ UNCHANGED <<paCallbackReturn, starting, selections, streamUnchanged>>

\* selectDevice: a stream that runs is aborted.
SelectDevice ==
    /\ gpc = "select"
    /\ IF stream = "active"
       THEN gpc' = "abort" /\ paCallbackReturn' = "paAbort"
       ELSE gpc' = "open" /\ UNCHANGED paCallbackReturn
    /\ UNCHANGED <<stream, writerRunning, starting, selections,
                   streamUnchanged>>

\* selectDevice returns, to the constructor or to setStreamOutSelector.
Selected(next) ==
    /\ starting' = IF starting > 0 THEN starting - 1 ELSE 0
    /\ gpc' = CASE starting = 2 -> "select" [] starting = 1 -> "idle"
                [] OTHER -> next

\* A planted error: the callback is not told to go on.
OpensAborting ==
    /\ gpc = "open"
    /\ stream' \in {"active", "stopped"} /\ writerRunning' = TRUE
    /\ Selected("idle")
    /\ UNCHANGED <<paCallbackReturn, selections, streamUnchanged>>

\* Pa_CloseStream and Pa_OpenStream, with paContinue and Pa_StartStream, whose
\* failure nobody looks at.
Opens ==
    /\ gpc = "open"
    /\ stream' \in {"active", "stopped"}
    /\ paCallbackReturn' = "paContinue" /\ writerRunning' = TRUE
    /\ Selected("restart")
    /\ UNCHANGED <<selections, streamUnchanged>>

\* Pa_OpenStream fails: ostream still is the stream that has been closed, and
\* the next stop and selectDevice hand it to PortAudio, which takes it for an
\* invalid stream.
OpenFails ==
    /\ gpc = "open"
    /\ stream' = IF stream = "none" THEN "none" ELSE "closed"
    /\ Selected("idle")
    /\ UNCHANGED <<paCallbackReturn, writerRunning, selections, streamUnchanged>>

\* restart: Pa_StartStream once more, an error when the stream is active.
Restarts ==
    /\ gpc = "restart"
    /\ gpc' = "idle"
    /\ paCallbackReturn' = "paContinue"
    /\ stream' \in {"active", stream}
    /\ UNCHANGED <<writerRunning, starting, selections, streamUnchanged>>

-----------------------------------------------------------------------------
(* PortAudio's thread: paCallback_o *)

callUnchanged == <<gpc, audioVars, upVars, sinkVars, paCallbackReturn,
                   writerRunning, starting, selections>>

\* When it is told to abort it leaves the card's buffer alone.
CallbackBegins ==
    /\ stream = "active" /\ cpc = "idle"
    /\ IF paCallbackReturn = "paContinue"
       THEN /\ cpc' = "copy"
            /\ granted' = SubSeq(_O_Buffer, 1,
                             Least(2 * framesPerBuffer, Len(_O_Buffer)))
       ELSE cpc' = "return" /\ UNCHANGED granted
    /\ UNCHANGED <<callUnchanged, stream, heard, _O_Buffer>>

\* The copy is complete, and the rest of the card's buffer is set to 0.
CallbackCopies ==
    /\ cpc = "copy"
    /\ cpc' = "return"
    /\ _O_Buffer' = SubSeq(_O_Buffer, Len(granted) + 1, Len(_O_Buffer))
    /\ heard' = IF granted = <<>> THEN heard ELSE granted[Len(granted)][1]
    /\ granted' = <<>>
    /\ UNCHANGED <<callUnchanged, stream>>

\* After paAbort PortAudio makes no callback until the stream is started again.
CallbackReturns ==
    /\ cpc = "return"
    /\ cpc' = "idle"
    /\ stream' = IF paCallbackReturn = "paAbort" THEN "finished" ELSE stream
    /\ UNCHANGED <<callUnchanged, granted, heard, _O_Buffer>>

-----------------------------------------------------------------------------
ProcessAudio == TakesChunk \/ ProcessReturns \/ Converts \/ HandleReturns
                \/ AsksForRoom \/ PutSamples

Selecting == Stopped \/ SelectDevice \/ Opens \/ OpenFails \/ Restarts

Callback == CallbackBegins \/ CallbackCopies \/ CallbackReturns

Next ==
    \/ \E frames \in 1..MaxFrames, r \in Rates : AudioAvailable(frames, r)
    \/ ProcessAudio
    \/ Stops \/ Selecting
    \/ Callback

\* The GUI thread is scheduled, and so is the sound card's; the decoder and
\* the user may do nothing for ever.
Fairness == WF_vars(ProcessAudio) /\ WF_vars(Selecting) /\ WF_vars(Callback)

Spec == Init /\ [][Next]_vars /\ Fairness

-----------------------------------------------------------------------------
(* Nothing is lost on the way through the upConverter, although its two     *)
(* loops share i: when handle is done with a chunk, every frame of it has   *)
(* been converted, in order.                                                *)
ChunksConverted == gpc \in {"idle", "process"} => passed = taken

(* A callback plays whole stereo frames, left before right, in the order in *)
(* which they were made and never one twice; the silence comes after them.  *)
StereoKept ==
    /\ Len(granted) % 2 = 0
    /\ \A k \in 1 .. Len(granted) \div 2 :
          LET left == granted[2 * k - 1]  right == granted[2 * k]
          IN  /\ left[2] = "left" /\ right = <<left[1], "right">>
              /\ left[1] > IF k = 1 THEN heard ELSE granted[2 * k - 3][1]

(* The room putSamples has asked for is still there when it puts its        *)
(* samples, though callbacks come in between: what it returns, and has      *)
(* written to the dump file, is what the card will play.                    *)
RoomIsThere == gpc = "store" => 2 * n <= Capacity - Len(_O_Buffer)

(* A stream is closed only when its callback is not under way.              *)
ClosedWhenQuiet == gpc = "open" => cpc = "idle"

(* A device that was selected is heard: a stream that runs between two      *)
(* slots is not one whose callback refuses to play.                         *)
ActivePlays == gpc = "idle" /\ stream = "active" => paCallbackReturn = "paContinue"

(* processAudio and setStreamOutSelector return: their loops end.           *)
GuiReturns == gpc # "idle" ~> gpc = "idle"
=============================================================================
