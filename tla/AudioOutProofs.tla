--------------------------- MODULE AudioOutProofs ---------------------------
(***************************************************************************)
(* Invariants of AudioOut, for every pair of rates, every ring and any     *)
(* number of frames and selections.                                        *)
(*                                                                         *)
(* The stream: a callback is under way only on a stream that is active,    *)
(* and no stream is active when one is opened (Quiet); a stream that is    *)
(* active is told to abort only by a slot that then waits for it (Plays).  *)
(*                                                                         *)
(* The upConverter: its buffer is as long as the chunks it is given, so it *)
(* is filled by the last frame of each of them; the inner loop then leaves *)
(* i far enough for the outer one, which uses it too, to end (Converting). *)
(*                                                                         *)
(* The frames: the ring holds the two numbers of each frame next to each   *)
(* other, frames in the order in which they were made (StereoInv); what is *)
(* put is cut off at an even room, and what the callback takes is even.    *)
(***************************************************************************)
EXTENDS AudioOut, SequenceTheorems, TLAPS

Quiet ==
    /\ cpc # "idle" => stream = "active"
    /\ gpc = "open" => stream # "active"

Plays ==
    stream = "active" /\ gpc \notin {"stop", "abort"} =>
        paCallbackReturn = "paContinue"

-----------------------------------------------------------------------------
(* The stream.                                                             *)

\* What the audio does leaves the stream alone, and the GUI thread is neither
\* before nor after it in a slot that has to do with streams.
LEMMA AudioLeavesStream ==
    ASSUME ProcessAudio \/ \E frames \in 1..MaxFrames, r \in Rates :
                               AudioAvailable(frames, r)
    PROVE  /\ UNCHANGED <<stream, paCallbackReturn, cpc>>
           /\ gpc \notin {"stop", "abort", "open"}
           /\ gpc' \notin {"stop", "abort", "open"}
<1> USE DEF streamVars, callVars
<1>1. CASE TakesChunk
  BY <1>1 DEF TakesChunk
<1>2. CASE ProcessReturns
  BY <1>2 DEF ProcessReturns
<1>3. CASE Converts
  BY <1>3 DEF Converts
<1>4. CASE HandleReturns
  BY <1>4 DEF HandleReturns
<1>5. CASE AsksForRoom
  BY <1>5 DEF AsksForRoom
<1>6. CASE PutSamples
  BY <1>6 DEF PutSamples, StoresFrame, StoresChunk
<1>7. ASSUME NEW frames \in 1..MaxFrames, NEW r \in Rates,
             AudioAvailable(frames, r)
      PROVE  /\ UNCHANGED <<stream, paCallbackReturn, cpc>>
             /\ gpc = "idle" /\ gpc' = "process"
  BY <1>7 DEF AudioAvailable
<1> QED
  BY <1>1, <1>2, <1>3, <1>4, <1>5, <1>6, <1>7 DEF ProcessAudio

\* Selecting a device.
LEMMA SelectingKeepsQuiet ==
    ASSUME Quiet, Plays, Stops \/ Selecting PROVE Quiet' /\ Plays'
<1> USE DEF Quiet, Plays, streamUnchanged, callVars
<1>1. CASE Stops
  BY <1>1 DEF Stops
<1>2. CASE Stopped
  BY <1>2 DEF Stopped
<1>3. CASE SelectDevice
  BY <1>3 DEF SelectDevice
<1>4. gpc = "open" /\ Selected("restart") => gpc' \in {"select", "idle", "restart"}
  BY DEF Selected
<1>5. gpc = "open" /\ Selected("idle") => gpc' \in {"select", "idle"}
  BY DEF Selected
<1>6. CASE Opens
  BY <1>4, <1>6 DEF Opens
<1>7. CASE OpenFails
  BY <1>5, <1>7 DEF OpenFails
<1>8. CASE Restarts
  BY <1>8 DEF Restarts
<1> QED
  BY <1>1, <1>2, <1>3, <1>6, <1>7, <1>8 DEF Selecting

\* PortAudio's callback.
LEMMA CallbackKeepsQuiet ==
    ASSUME Quiet, Plays, Callback PROVE Quiet' /\ Plays'
<1> USE DEF Quiet, Plays, callUnchanged
<1>1. CASE CallbackBegins
  BY <1>1 DEF CallbackBegins
<1>2. CASE CallbackCopies
  BY <1>2 DEF CallbackCopies
<1>3. CASE CallbackReturns
  BY <1>3 DEF CallbackReturns
<1> QED
  BY <1>1, <1>2, <1>3 DEF Callback

\* Both hold always.
LEMMA StreamInvariant == Spec => [](Quiet /\ Plays)
<1>1. Init => Quiet /\ Plays
  BY DEF Init, Quiet, Plays
<1>2. Quiet /\ Plays /\ [Next]_vars => (Quiet /\ Plays)'
  <2> SUFFICES ASSUME Quiet, Plays, [Next]_vars PROVE Quiet' /\ Plays'
    OBVIOUS
  <2>1. CASE ProcessAudio \/ \E frames \in 1..MaxFrames, r \in Rates :
                                 AudioAvailable(frames, r)
    BY <2>1, AudioLeavesStream DEF Quiet, Plays
  <2>2. CASE Stops \/ Selecting
    BY <2>2, SelectingKeepsQuiet
  <2>3. CASE Callback
    BY <2>3, CallbackKeepsQuiet
  <2>4. CASE UNCHANGED vars
    BY <2>4 DEF vars, streamVars, callVars, Quiet, Plays
  <2> QED
    BY <2>1, <2>2, <2>3, <2>4 DEF Next
<1> QED
  BY <1>1, <1>2, PTL DEF Spec

\* A stream is closed only when its callback is not under way (audiosink.cpp,
\* selectDevice).
THEOREM QuietWhenClosed == Spec => []ClosedWhenQuiet
<1>1. Quiet => ClosedWhenQuiet
  BY DEF Quiet, ClosedWhenQuiet
<1> QED
  BY <1>1, StreamInvariant, PTL

\* A stream that runs between two slots is not one whose callback refuses to
\* play (audiosink.cpp, stop, restart and paCallback_o).
THEOREM ActiveIsHeard == Spec => []ActivePlays
<1>1. Plays => ActivePlays
  BY DEF Plays, ActivePlays
<1> QED
  BY <1>1, StreamInvariant, PTL

-----------------------------------------------------------------------------
(* The upConverter.                                                        *)

UpTypes ==
    /\ i \in Nat /\ framesOut \in Int /\ inBuffer \in Seq(Int)
    /\ taken \in Int /\ passed \in Int /\ rate \in Rates

\* The first i frames of the chunk are in the buffer, or all are converted.
Converting ==
    gpc = "convert" =>
        /\ rate # CardRate
        /\ \/ i >= Chunk /\ passed = taken /\ inBuffer = <<>>
           \/ /\ i < Chunk /\ passed = taken - Chunk /\ Len(inBuffer) = i
              /\ \A k \in 1..i : inBuffer[k] = taken - Chunk + k

\* Outside of the outer loop all are; and the inner loop, which makes at least
\* a chunk less one, takes i with it.
Converted ==
    gpc # "convert" => passed = taken /\ inBuffer = <<>>

InnerLoop ==
    gpc \in {"ask", "store"} /\ rate # CardRate => framesOut + 1 >= Chunk

UpInv == UpTypes /\ Converting /\ Converted /\ InnerLoop

\* A decoder that is not as fast as the card makes chunks of inputLimit.
LEMMA ChunkIsLimit ==
    /\ rate \in Rates /\ rate # CardRate => Chunk = inputLimit
    /\ inputLimit \in Nat
    /\ CardRate \div decoderRate \in Nat /\ CardRate \div decoderRate >= 1
    /\ rate \in Rates => Chunk \in Nat
<1>1. decoderRate \in Nat \ {0} /\ CardRate \in Nat /\ decoderRate <= CardRate
  BY AudioAssumption
<1>2. CardRate \div decoderRate \in Nat /\ CardRate \div decoderRate >= 1
  BY <1>1, SMTT(30)
<1>3. decoderRate \div 10 \in Nat /\ CardRate \div 10 \in Nat
  BY <1>1, SMTT(30)
<1>4. rate \in Rates => Chunk \in Nat
  BY <1>3 DEF Rates, Chunk
<1>5. rate \in Rates /\ rate # CardRate => Chunk = inputLimit
  BY DEF Rates, Chunk, inputLimit
<1>6. inputLimit \in Nat
  BY <1>3 DEF inputLimit
<1> QED
  BY <1>2, <1>4, <1>5, <1>6

\* One turn of the outer loop.
LEMMA ConvertsKeeps == ASSUME UpInv, Converts PROVE UpInv'
<1> DEFINE frame == taken - Chunk + i + 1
           all == Append(inBuffer, frame)
           ratio == CardRate \div decoderRate
           full == Len(all) * ratio
<1>1. /\ gpc = "convert" /\ i < Chunk /\ taken' = taken /\ rate' = rate
      /\ i \in Nat /\ framesOut \in Int /\ inBuffer \in Seq(Int)
      /\ taken \in Int /\ passed \in Int /\ rate \in Rates /\ rate # CardRate
  BY DEF Converts, UpInv, UpTypes, Converting
<1>2. /\ passed = taken - Chunk /\ Len(inBuffer) = i
      /\ \A k \in 1..i : inBuffer[k] = taken - Chunk + k
      /\ Chunk \in Nat /\ Chunk = inputLimit
      /\ ratio \in Nat /\ ratio >= 1
  BY <1>1, ChunkIsLimit DEF UpInv, Converting
<1>3. \/ /\ Len(all) < inputLimit
         /\ inBuffer' = all /\ i' = i + 1 /\ gpc' = gpc
         /\ framesOut' = framesOut /\ passed' = passed
      \/ /\ ~(Len(all) < inputLimit)
         /\ inBuffer' = <<>>
         /\ passed' = (IF all[1] = passed + 1 THEN frame ELSE passed)
         /\ framesOut' \in {full - 1, full}
         /\ i' = 0 /\ gpc' = "ask"
  BY DEF Converts
<1>4. Chunk' = Chunk
  BY <1>1 DEF Chunk
<1>5. frame \in Int
  BY <1>1, <1>2
<1> HIDE DEF ratio
<1>6. /\ all \in Seq(Int) /\ Len(all) = i + 1
      /\ \A k \in 1..i : all[k] = inBuffer[k]
      /\ all[i + 1] = frame
  BY <1>1, <1>2, <1>5, AppendProperties
<1>7. full \in Int /\ full >= Len(all)
  <2>1. Len(all) \in Nat
    BY <1>1, <1>6
  <2> HIDE DEF all
  <2> QED
    BY <1>2, <2>1
<1>8. \A k \in 1 .. i + 1 : all[k] = taken - Chunk + k
  <2> SUFFICES ASSUME NEW k \in 1 .. i + 1 PROVE all[k] = taken - Chunk + k
    OBVIOUS
  <2>1. CASE k = i + 1
    BY <1>1, <1>2, <1>6, <2>1
  <2>2. CASE k # i + 1
    <3>1. k \in 1..i
      BY <1>1, <2>2
    <3> QED
      BY <1>2, <1>6, <3>1
  <2> QED
    BY <2>1, <2>2
<1> HIDE DEF all, full
<1>9. CASE Len(all) < inputLimit
  <2>1. /\ inBuffer' = all /\ i' = i + 1 /\ gpc' = "convert"
        /\ framesOut' = framesOut /\ passed' = passed
    BY <1>1, <1>3, <1>9
  <2>2. UpTypes'
    BY <1>1, <1>6, <2>1 DEF UpTypes
  <2>3. Converting'
    BY <1>1, <1>2, <1>4, <1>6, <1>8, <1>9, <2>1 DEF Converting
  <2>4. Converted' /\ InnerLoop'
    BY <2>1 DEF Converted, InnerLoop
  <2> QED
    BY <2>2, <2>3, <2>4 DEF UpInv
<1>10. CASE ~(Len(all) < inputLimit)
  <2>1. /\ inBuffer' = <<>>
        /\ passed' = (IF all[1] = passed + 1 THEN frame ELSE passed)
        /\ framesOut' \in {full - 1, full}
        /\ i' = 0 /\ gpc' = "ask"
    BY <1>3, <1>10
  <2>2. Len(all) = Chunk
    BY <1>1, <1>2, <1>6, <1>10
  <2>3. all[1] = passed + 1
    <3>1. 1 \in 1 .. i + 1
      BY <1>1
    <3>2. all[1] = taken - Chunk + 1
      BY <1>8, <3>1
    <3> QED
      BY <1>2, <3>2
  <2>4. frame = taken
    BY <1>1, <1>2, <1>6, <2>2
  <2>5. passed' = taken
    BY <2>1, <2>3, <2>4
  <2>6. framesOut' \in Int /\ framesOut' + 1 >= Chunk
    <3>1. full \in Int /\ full >= Chunk /\ Chunk \in Int
      BY <1>2, <1>7, <2>2
    <3>2. framesOut' = full - 1 \/ framesOut' = full
      BY <2>1
    <3> QED
      BY <3>1, <3>2
  <2>7. UpTypes'
    BY <1>1, <2>1, <2>5, <2>6, EmptySeq DEF UpTypes
  <2> QED
    BY <1>1, <1>4, <2>1, <2>5, <2>6, <2>7
       DEF UpInv, Converting, Converted, InnerLoop
<1> QED
  BY <1>9, <1>10

\* A chunk is taken: its frames are to be converted, or are put as they are.
LEMMA TakesKeeps == ASSUME UpInv, TakesChunk PROVE UpInv'
<1>1. /\ gpc = "process" /\ taken' = taken + Chunk /\ rate' = rate
      /\ framesOut' = framesOut /\ inBuffer' = inBuffer
      /\ \/ /\ rate # CardRate /\ gpc' = "convert" /\ i' = 0
            /\ passed' = passed
         \/ /\ rate = CardRate /\ gpc' = "ask" /\ i' = i
            /\ passed' = IF passed = taken THEN taken' ELSE passed
  BY DEF TakesChunk
<1>2. /\ i \in Nat /\ framesOut \in Int /\ inBuffer \in Seq(Int)
      /\ taken \in Int /\ rate \in Rates
      /\ passed = taken /\ inBuffer = <<>> /\ Chunk \in Nat
  BY <1>1, ChunkIsLimit DEF UpInv, UpTypes, Converted
<1>3. Chunk' = Chunk
  BY <1>1 DEF Chunk
<1>4. CASE rate # CardRate
  <2>1. gpc' = "convert" /\ i' = 0 /\ passed' = taken' - Chunk'
        /\ taken' \in Int /\ passed' \in Int
    BY <1>1, <1>2, <1>3, <1>4
  <2>2. Len(inBuffer') = 0
    BY <1>1, <1>2, EmptySeq
  <2>3. UpTypes'
    BY <1>1, <1>2, <2>1 DEF UpTypes
  <2>4. Converting'
    BY <1>1, <1>2, <1>3, <1>4, <2>1, <2>2 DEF Converting
  <2> QED
    BY <2>1, <2>3, <2>4 DEF UpInv, Converted, InnerLoop
<1>5. CASE rate = CardRate
  BY <1>1, <1>2, <1>3, <1>5
     DEF UpInv, UpTypes, Converting, Converted, InnerLoop
<1> QED
  BY <1>4, <1>5

\* The inner loop takes i to the end of the outer one.
LEMMA StoresKeeps == ASSUME UpInv, PutSamples PROVE UpInv'
<1>1. /\ gpc = "store" /\ taken' = taken /\ rate' = rate /\ passed' = passed
      /\ framesOut' = framesOut /\ inBuffer' = inBuffer
      /\ \/ rate # CardRate /\ i + 1 < framesOut /\ i' = i + 1 /\ gpc' = "ask"
         \/ /\ rate # CardRate /\ ~(i + 1 < framesOut) /\ i' = i + 2
            /\ gpc' = "convert"
         \/ rate = CardRate /\ i' = i /\ gpc' = "process"
  BY DEF PutSamples, StoresFrame, StoresChunk, audioVars
<1>2. /\ i \in Nat /\ framesOut \in Int /\ rate \in Rates
      /\ passed = taken /\ inBuffer = <<>>
      /\ Chunk \in Nat /\ Chunk' = Chunk
      /\ rate # CardRate => framesOut + 1 >= Chunk
  BY <1>1, ChunkIsLimit DEF UpInv, UpTypes, Converted, InnerLoop, Chunk
<1>3. UpTypes'
  BY <1>1, <1>2 DEF UpInv, UpTypes
<1>4. Converting'
  BY <1>1, <1>2 DEF Converting
<1> QED
  BY <1>1, <1>2, <1>3, <1>4 DEF UpInv, Converted, InnerLoop

\* The other steps touch nothing of it.
LEMMA OthersKeep ==
    ASSUME UpInv, UNCHANGED <<i, framesOut, inBuffer, taken, passed>>,
           rate' \in Rates, gpc # "convert", gpc' # "convert",
           gpc' \in {"ask", "store"} =>
               gpc \in {"ask", "store"} /\ rate' = rate
    PROVE  UpInv'
BY DEF UpInv, UpTypes, Converting, Converted, InnerLoop, Chunk

\* The invariant holds always.
LEMMA UpInvariant == Spec => []UpInv
<1>1. Init => UpInv
  <2> SUFFICES ASSUME Init PROVE UpInv
    OBVIOUS
  <2>1. /\ i = 0 /\ framesOut = 0 /\ inBuffer = <<>> /\ taken = 0
        /\ passed = 0 /\ rate \in Rates /\ gpc = "select"
    BY DEF Init
  <2> QED
    BY <2>1, EmptySeq DEF UpInv, UpTypes, Converting, Converted, InnerLoop
<1>2. UpInv /\ [Next]_vars => UpInv'
  <2> SUFFICES ASSUME UpInv, [Next]_vars PROVE UpInv'
    OBVIOUS
  <2>0. rate \in Rates
    BY DEF UpInv, UpTypes
  <2>1. CASE \E frames \in 1..MaxFrames, r \in Rates : AudioAvailable(frames, r)
    BY <2>1, OthersKeep DEF AudioAvailable, upVars
  <2>2. CASE TakesChunk
    BY <2>2, TakesKeeps
  <2>3. CASE ProcessReturns
    BY <2>0, <2>3, OthersKeep DEF ProcessReturns, audioVars, upVars
  <2>4. CASE Converts
    BY <2>4, ConvertsKeeps
  <2>5. CASE HandleReturns
    <3>1. /\ gpc = "convert" /\ gpc' = "process" /\ i >= Chunk
          /\ UNCHANGED <<i, framesOut, inBuffer, taken, passed, rate>>
      BY <2>5 DEF HandleReturns, audioVars, upVars
    <3>2. i \in Nat /\ Chunk \in Nat
      BY ChunkIsLimit DEF UpInv, UpTypes
    <3>3. passed = taken /\ inBuffer = <<>>
      BY <3>1, <3>2 DEF UpInv, Converting
    <3> QED
      BY <3>1, <3>3 DEF UpInv, UpTypes, Converting, Converted, InnerLoop
  <2>6. CASE AsksForRoom
    BY <2>0, <2>6, OthersKeep DEF AsksForRoom, audioVars, upVars
  <2>7. CASE PutSamples
    BY <2>7, StoresKeeps
  <2>8. CASE Stops \/ Selecting
    <3>1. /\ UNCHANGED <<i, framesOut, inBuffer, taken, passed, rate>>
          /\ gpc \notin {"convert", "ask", "store"}
          /\ gpc' \notin {"convert", "ask", "store"}
      <4> USE DEF streamUnchanged, audioVars, upVars
      <4>1. CASE Stops
        BY <4>1 DEF Stops
      <4>2. CASE Stopped
        BY <4>2 DEF Stopped
      <4>3. CASE SelectDevice
        BY <4>3 DEF SelectDevice
      <4>4. CASE Opens
        BY <4>4 DEF Opens, Selected
      <4>5. CASE OpenFails
        BY <4>5 DEF OpenFails, Selected
      <4>6. CASE Restarts
        BY <4>6 DEF Restarts
      <4> QED
        BY <2>8, <4>1, <4>2, <4>3, <4>4, <4>5, <4>6 DEF Selecting
    <3> QED
      BY <2>0, <3>1, OthersKeep
  <2>9. CASE Callback
    <3>1. UNCHANGED <<i, framesOut, inBuffer, taken, passed, rate, gpc>>
      BY <2>9 DEF Callback, CallbackBegins, CallbackCopies, CallbackReturns,
                  callUnchanged, audioVars, upVars
    <3> QED
      BY <3>1 DEF UpInv, UpTypes, Converting, Converted, InnerLoop, Chunk
  <2>10. CASE UNCHANGED vars
    BY <2>10 DEF vars, audioVars, upVars, UpInv, UpTypes, Converting,
                 Converted, InnerLoop, Chunk
  <2> QED
    BY <2>1, <2>2, <2>3, <2>4, <2>5, <2>6, <2>7, <2>8, <2>9, <2>10
       DEF Next, ProcessAudio
<1> QED
  BY <1>1, <1>2, PTL DEF Spec

\* Nothing is lost on the way through the upConverter, although its two loops
\* share i (upconverter.cpp, handle).
THEOREM NothingLost == Spec => []ChunksConverted
<1>1. UpInv => ChunksConverted
  BY DEF UpInv, Converted, ChunksConverted
<1> QED
  BY <1>1, UpInvariant, PTL

-----------------------------------------------------------------------------
(* Whole frames.                                                           *)

Floating == Int \X {"left", "right"}

\* The j-th frame of s.
Left(s, j) == s[2 * j - 1]
Right(s, j) == s[2 * j]

IsFrame(s, j, lo, hi) ==
    /\ Left(s, j)[2] = "left" /\ Right(s, j)[2] = "right"
    /\ Right(s, j)[1] = Left(s, j)[1]
    /\ lo < Left(s, j)[1] /\ Left(s, j)[1] <= hi

\* s is b whole frames, after lo and up to hi, in ascending order.
Stereo(s, b, lo, hi) ==
    /\ s \in Seq(Floating) /\ Len(s) = 2 * b
    /\ \A j \in 1..b : IsFrame(s, j, lo, hi)
    /\ \A h, j \in 1..b : h < j => Left(s, h)[1] < Left(s, j)[1]

\* Frames have integers for numbers.
LEMMA FrameNumber ==
    ASSUME NEW b \in Nat, NEW s \in Seq(Floating), Len(s) = 2 * b,
           NEW j \in 1..b
    PROVE  /\ Left(s, j) \in Floating /\ Right(s, j) \in Floating
           /\ Left(s, j)[1] \in Int
<1>1. 2 * j - 1 \in 1..Len(s) /\ 2 * j \in 1..Len(s)
  OBVIOUS
<1>2. Left(s, j) \in Floating /\ Right(s, j) \in Floating
  BY <1>1, ElementOfSeq DEF Left, Right
<1> QED
  BY <1>2 DEF Floating

\* Wider limits will do, too.
LEMMA StereoWider ==
    ASSUME NEW b \in Nat, NEW s, NEW lo \in Int, NEW hi \in Int,
           NEW low \in Int, NEW high \in Int, low <= lo, hi <= high,
           Stereo(s, b, lo, hi)
    PROVE  Stereo(s, b, low, high)
<1>1. s \in Seq(Floating) /\ Len(s) = 2 * b
  BY DEF Stereo
<1>2. ASSUME NEW j \in 1..b PROVE IsFrame(s, j, low, high)
  <2>1. Left(s, j)[1] \in Int
    BY <1>1, FrameNumber
  <2> QED
    BY <2>1 DEF Stereo, IsFrame
<1> QED
  BY <1>2 DEF Stereo

\* No frame is in no sequence.
LEMMA StereoEmpty ==
    ASSUME NEW lo \in Int, NEW hi \in Int PROVE Stereo(<<>>, 0, lo, hi)
BY EmptySeq DEF Stereo

\* Frames after frames.
LEMMA StereoConcat ==
    ASSUME NEW a \in Nat, NEW b \in Nat, NEW s, NEW t,
           NEW lo \in Int, NEW mid \in Int, NEW hi \in Int,
           lo <= mid, mid <= hi,
           Stereo(s, a, lo, mid), Stereo(t, b, mid, hi)
    PROVE  Stereo(s \o t, a + b, lo, hi)
<1> DEFINE u == s \o t
<1>1. /\ s \in Seq(Floating) /\ Len(s) = 2 * a
      /\ t \in Seq(Floating) /\ Len(t) = 2 * b
  BY DEF Stereo
<1>2. /\ u \in Seq(Floating) /\ Len(u) = 2 * (a + b)
      /\ \A k \in 1 .. 2 * a + 2 * b :
             u[k] = IF k <= 2 * a THEN s[k] ELSE t[k - 2 * a]
  <2>1. /\ u \in Seq(Floating) /\ Len(u) = Len(s) + Len(t)
        /\ \A k \in 1 .. Len(s) + Len(t) :
               u[k] = IF k <= Len(s) THEN s[k] ELSE t[k - Len(s)]
    BY <1>1, ConcatProperties
  <2> HIDE DEF u
  <2>2. Len(s) + Len(t) = 2 * (a + b) /\ Len(s) + Len(t) = 2 * a + 2 * b
    BY <1>1
  <2> QED
    BY <1>1, <2>1, <2>2
<1> HIDE DEF u
<1>3. \A j \in 1..a : Left(u, j) = Left(s, j) /\ Right(u, j) = Right(s, j)
  BY <1>2 DEF Left, Right
<1>4. ASSUME NEW j \in 1 .. a + b, ~(j <= a)
      PROVE  /\ j - a \in 1..b
             /\ Left(u, j) = Left(t, j - a) /\ Right(u, j) = Right(t, j - a)
  <2>1. j - a \in 1..b
    BY <1>4
  <2>2. 2 * j - 1 - 2 * a = 2 * (j - a) - 1 /\ 2 * j - 2 * a = 2 * (j - a)
    OBVIOUS
  <2>3. 2 * j - 1 \in 1 .. 2 * a + 2 * b /\ ~(2 * j - 1 <= 2 * a)
        /\ 2 * j \in 1 .. 2 * a + 2 * b /\ ~(2 * j <= 2 * a)
    BY <1>4
  <2>4. u[2 * j - 1] = t[2 * (j - a) - 1] /\ u[2 * j] = t[2 * (j - a)]
    BY <1>2, <2>2, <2>3
  <2> QED
    BY <2>1, <2>4 DEF Left, Right
<1>5. ASSUME NEW j \in 1 .. a + b PROVE IsFrame(u, j, lo, hi)
  <2>1. CASE j <= a
    <3>1. j \in 1..a
      BY <2>1
    <3>2. Left(s, j)[1] \in Int
      BY <1>1, <3>1, FrameNumber
    <3> QED
      BY <1>3, <3>1, <3>2 DEF Stereo, IsFrame
  <2>2. CASE ~(j <= a)
    <3>1. j - a \in 1..b /\ Left(u, j) = Left(t, j - a)
          /\ Right(u, j) = Right(t, j - a)
      BY <1>4, <2>2
    <3>2. Left(t, j - a)[1] \in Int
      BY <1>1, <3>1, FrameNumber
    <3>3. IsFrame(t, j - a, mid, hi)
      BY <3>1 DEF Stereo
    <3> QED
      BY <3>1, <3>2, <3>3 DEF IsFrame
  <2> QED
    BY <2>1, <2>2
<1>6. ASSUME NEW h \in 1 .. a + b, NEW j \in 1 .. a + b, h < j
      PROVE  Left(u, h)[1] < Left(u, j)[1]
  <2>1. CASE j <= a
    <3>1. h \in 1..a /\ j \in 1..a
      BY <1>6, <2>1
    <3> QED
      BY <1>3, <1>6, <3>1 DEF Stereo
  <2>2. CASE ~(h <= a)
    <3>1. ~(j <= a)
      BY <1>6, <2>2
    <3>2. h - a \in 1..b /\ j - a \in 1..b /\ h - a < j - a
          /\ Left(u, h) = Left(t, h - a) /\ Left(u, j) = Left(t, j - a)
      BY <1>4, <1>6, <2>2, <3>1
    <3>3. Left(t, h - a)[1] < Left(t, j - a)[1]
      BY <3>2 DEF Stereo
    <3> QED
      BY <3>2, <3>3
  <2>3. CASE h <= a /\ ~(j <= a)
    <3>1. h \in 1..a
      BY <2>3
    <3>2. j - a \in 1..b /\ Left(u, j) = Left(t, j - a)
      BY <1>4, <2>3
    <3>3. Left(s, h)[1] \in Int /\ Left(t, j - a)[1] \in Int
      BY <1>1, <3>1, <3>2, FrameNumber
    <3>4. IsFrame(s, h, lo, mid) /\ IsFrame(t, j - a, mid, hi)
      BY <3>1, <3>2 DEF Stereo
    <3> QED
      BY <1>3, <3>1, <3>2, <3>3, <3>4 DEF IsFrame
  <2> QED
    BY <2>1, <2>2, <2>3
<1>7. a + b \in Nat
  OBVIOUS
<1>8. Stereo(u, a + b, lo, hi)
  BY <1>2, <1>5, <1>6 DEF Stereo
<1> QED
  BY <1>8 DEF u

\* The first c frames.
LEMMA StereoPrefix ==
    ASSUME NEW b \in Nat, NEW c \in 0..b, NEW s, NEW lo \in Int, NEW hi \in Int,
           Stereo(s, b, lo, hi)
    PROVE  /\ Stereo(SubSeq(s, 1, 2 * c), c, lo, hi)
           /\ \A j \in 1..c : Left(SubSeq(s, 1, 2 * c), j) = Left(s, j)
                              /\ Right(SubSeq(s, 1, 2 * c), j) = Right(s, j)
<1> DEFINE u == SubSeq(s, 1, 2 * c)
<1>1. s \in Seq(Floating) /\ Len(s) = 2 * b
  BY DEF Stereo
<1>2. \A k \in 1 .. 2 * c : s[k] \in Floating
  BY <1>1, ElementOfSeq
<1>3. 1 \in Int /\ 2 * c \in Int
  OBVIOUS
<1>4. /\ u \in Seq(Floating)
      /\ Len(u) = IF 1 <= 2 * c THEN 2 * c - 1 + 1 ELSE 0
      /\ \A k \in 1 .. 2 * c - 1 + 1 : u[k] = s[1 + k - 1]
  BY <1>2, <1>3, SubSeqProperties
<1> HIDE DEF u
<1>5. /\ Len(u) = 2 * c
      /\ \A k \in 1 .. 2 * c : u[k] = s[k]
  BY <1>4
<1>6. \A j \in 1..c : Left(u, j) = Left(s, j) /\ Right(u, j) = Right(s, j)
                      /\ j \in 1..b
  BY <1>5 DEF Left, Right
<1>7. Stereo(u, c, lo, hi)
  BY <1>4, <1>5, <1>6 DEF Stereo, IsFrame
<1> QED
  BY <1>6, <1>7 DEF u

\* The frames after the first c: they come after the last one of those.
LEMMA StereoSuffix ==
    ASSUME NEW b \in Nat, NEW c \in 0..b, NEW s, NEW lo \in Int, NEW hi \in Int,
           Stereo(s, b, lo, hi), NEW mid \in Int,
           IF c = 0 THEN mid = lo ELSE mid = Left(s, c)[1]
    PROVE  Stereo(SubSeq(s, 2 * c + 1, Len(s)), b - c, mid, hi)
<1> DEFINE u == SubSeq(s, 2 * c + 1, Len(s))
<1>1. s \in Seq(Floating) /\ Len(s) = 2 * b
  BY DEF Stereo
<1>2. \A k \in 2 * c + 1 .. Len(s) : s[k] \in Floating
  BY <1>1, ElementOfSeq
<1>3. 2 * c + 1 \in Int /\ Len(s) \in Int
  BY <1>1
<1>4. /\ u \in Seq(Floating)
      /\ Len(u) = IF 2 * c + 1 <= Len(s) THEN Len(s) - (2 * c + 1) + 1 ELSE 0
      /\ \A k \in 1 .. Len(s) - (2 * c + 1) + 1 : u[k] = s[2 * c + 1 + k - 1]
  <2> DEFINE m == 2 * c + 1
             l == Len(s)
  <2>1. m \in Int /\ l \in Int /\ \A k \in m..l : s[k] \in Floating
    BY <1>2, <1>3
  <2> HIDE DEF m, l
  <2>2. /\ SubSeq(s, m, l) \in Seq(Floating)
        /\ Len(SubSeq(s, m, l)) = IF m <= l THEN l - m + 1 ELSE 0
        /\ \A k \in 1 .. l - m + 1 : SubSeq(s, m, l)[k] = s[m + k - 1]
    BY <2>1, SubSeqProperties
  <2> QED
    BY <2>2 DEF m, l
<1> HIDE DEF u
<1>5. /\ Len(u) = 2 * (b - c)
      /\ \A k \in 1 .. 2 * (b - c) : u[k] = s[2 * c + k]
  BY <1>1, <1>4
<1>6. ASSUME NEW j \in 1 .. b - c
      PROVE  /\ j + c \in 1..b
             /\ Left(u, j) = Left(s, j + c) /\ Right(u, j) = Right(s, j + c)
  <2>1. 2 * j - 1 \in 1 .. 2 * (b - c) /\ 2 * j \in 1 .. 2 * (b - c)
    OBVIOUS
  <2>2. 2 * c + (2 * j - 1) = 2 * (j + c) - 1 /\ 2 * c + 2 * j = 2 * (j + c)
    OBVIOUS
  <2>3. u[2 * j - 1] = s[2 * (j + c) - 1] /\ u[2 * j] = s[2 * (j + c)]
    BY <1>5, <2>1, <2>2
  <2>4. j + c \in 1..b
    OBVIOUS
  <2> QED
    BY <2>3, <2>4 DEF Left, Right
<1>7. ASSUME NEW j \in 1 .. b - c PROVE IsFrame(u, j, mid, hi)
  <2>1. j + c \in 1..b /\ c < j + c
    BY <1>6
  <2>2. IsFrame(s, j + c, lo, hi) /\ Left(s, j + c)[1] \in Int
    BY <1>1, <2>1, FrameNumber DEF Stereo
  <2>3. mid < Left(s, j + c)[1]
    <3>1. CASE c = 0
      BY <2>2, <3>1 DEF IsFrame
    <3>2. CASE c # 0
      <4>1. c \in 1..b
        BY <3>2
      <4> QED
        BY <2>1, <3>2, <4>1 DEF Stereo
    <3> QED
      BY <3>1, <3>2
  <2> QED
    BY <1>6, <2>2, <2>3 DEF IsFrame
<1>8. ASSUME NEW h \in 1 .. b - c, NEW j \in 1 .. b - c, h < j
      PROVE  Left(u, h)[1] < Left(u, j)[1]
  <2>1. h + c \in 1..b /\ j + c \in 1..b /\ h + c < j + c
        /\ Left(u, h) = Left(s, h + c) /\ Left(u, j) = Left(s, j + c)
    BY <1>6, <1>8
  <2>2. Left(s, h + c)[1] < Left(s, j + c)[1]
    BY <2>1 DEF Stereo
  <2> QED
    BY <2>1, <2>2
<1>9. Stereo(u, b - c, mid, hi)
  BY <1>4, <1>5, <1>7, <1>8 DEF Stereo
<1> QED
  BY <1>9 DEF u

\* The interleaved floats of n frames.
LEMMA FloatsAreStereo ==
    ASSUME n \in Nat, NEW first \in Int
    PROVE  Stereo(Floats(first), n, first - 1, first + n - 1)
<1> DEFINE u == Floats(first)
<1>1. ASSUME NEW k \in 1 .. 2 * n
      PROVE  <<first + (k - 1) \div 2, IF k % 2 = 1 THEN "left" ELSE "right">>
                 \in Floating
  <2>1. (k - 1) \div 2 \in Int
    BY SMTT(30)
  <2>2. first + (k - 1) \div 2 \in Int
    BY <2>1
  <2> QED
    BY <2>2 DEF Floating
<1>2. u \in Seq(Floating) /\ Len(u) = 2 * n
  <2>1. 2 * n \in Nat
    OBVIOUS
  <2>2. u \in [1 .. 2 * n -> Floating]
    BY <1>1 DEF Floats
  <2> QED
    BY <2>1, <2>2
<1>3. ASSUME NEW j \in 1..n
      PROVE  /\ Left(u, j) = <<first + j - 1, "left">>
             /\ Right(u, j) = <<first + j - 1, "right">>
  <2>1. 2 * j - 1 \in 1 .. 2 * n /\ 2 * j \in 1 .. 2 * n
    OBVIOUS
  <2>2. /\ ((2 * j - 1) - 1) \div 2 = j - 1 /\ ((2 * j - 1) % 2) = 1
        /\ (2 * j - 1) \div 2 = j - 1 /\ ((2 * j) % 2) = 0
    BY SMTT(30)
  <2>3. u[2 * j - 1] = <<first + (j - 1), "left">>
    BY <2>1, <2>2 DEF Floats
  <2>4. u[2 * j] = <<first + (j - 1), "right">>
    BY <2>1, <2>2 DEF Floats
  <2>5. first + (j - 1) = first + j - 1
    OBVIOUS
  <2> QED
    BY <2>3, <2>4, <2>5 DEF Left, Right
<1> HIDE DEF u
<1>4. ASSUME NEW j \in 1..n PROVE IsFrame(u, j, first - 1, first + n - 1)
  BY <1>3 DEF IsFrame
<1>5. ASSUME NEW h \in 1..n, NEW j \in 1..n, h < j
      PROVE  Left(u, h)[1] < Left(u, j)[1]
  BY <1>3, <1>5
<1>6. Stereo(u, n, first - 1, first + n - 1)
  BY <1>2, <1>4, <1>5 DEF Stereo
<1> QED
  BY <1>6 DEF u

-----------------------------------------------------------------------------
(* The ring to the sound card.                                             *)

\* The last frame that is in the ring or has been: those putSamples is asked
\* to put are not, yet.
Asked == IF rate = CardRate THEN Chunk ELSE 1
Stored == IF gpc \in {"ask", "store"} THEN made - Asked ELSE made

StereoInv ==
    /\ made \in Int /\ heard \in Int /\ rate \in Rates /\ n \in Nat
    /\ gpc \in {"ask", "store"} => n <= Asked
    /\ heard <= Stored
    /\ \E b \in Nat :
          /\ 2 * b <= Capacity /\ Stereo(_O_Buffer, b, heard, Stored)
          /\ cpc = "copy" => \E c \in 0..b : granted = SubSeq(_O_Buffer, 1, 2 * c)
    /\ cpc # "copy" => granted = <<>>

\* What the ring holds may become the older the more frames are made.
LEMMA StereoStays ==
    ASSUME StereoInv, UNCHANGED <<_O_Buffer, granted, heard>>,
           cpc' = "copy" <=> cpc = "copy",
           made' \in Int, rate' \in Rates, n' \in Nat,
           gpc' \in {"ask", "store"} => n' <= Asked',
           Stored \in Int, Stored' \in Int, Stored <= Stored'
    PROVE  StereoInv'
<1>1. PICK b \in Nat :
          /\ 2 * b <= Capacity /\ Stereo(_O_Buffer, b, heard, Stored)
          /\ cpc = "copy" => \E c \in 0..b : granted = SubSeq(_O_Buffer, 1, 2 * c)
  BY DEF StereoInv
<1>2. heard \in Int /\ heard <= Stored
  BY DEF StereoInv
<1>3. Stereo(_O_Buffer, b, heard, Stored')
  BY <1>1, <1>2, StereoWider
<1>4. heard' \in Int /\ heard' <= Stored'
  BY <1>2
<1>5. Stereo(_O_Buffer', b, heard', Stored')
  BY <1>3
<1> QED
  BY <1>1, <1>4, <1>5 DEF StereoInv

\* Its numbers are integers.
LEMMA StoredInt == ASSUME StereoInv PROVE Stored \in Int /\ Asked \in Nat
BY ChunkIsLimit DEF StereoInv, Stored, Asked

\* What the upConverter and processAudio do.
LEMMA AudioKeepsStereo ==
    ASSUME UpInv, StereoInv,
           \/ TakesChunk \/ ProcessReturns \/ Converts \/ HandleReturns
           \/ \E frames \in 1..MaxFrames, r \in Rates : AudioAvailable(frames, r)
    PROVE  StereoInv'
<1> USE DEF audioVars, upVars, sinkVars, callVars
<1>0. Stored \in Int /\ Asked \in Nat /\ Chunk \in Nat
      /\ made \in Int /\ rate \in Rates /\ n \in Nat
  BY StoredInt, ChunkIsLimit DEF StereoInv
<1>1. CASE TakesChunk
  <2>1. /\ UNCHANGED <<_O_Buffer, granted, heard, cpc, rate>>
        /\ gpc = "process"
        /\ \/ rate # CardRate /\ gpc' = "convert" /\ n' = n /\ made' = made
           \/ rate = CardRate /\ gpc' = "ask" /\ n' = Chunk
              /\ made' = made + Chunk
    BY <1>1 DEF TakesChunk
  <2>2. Asked' = Asked /\ Chunk' = Chunk
    BY <2>1 DEF Asked, Chunk
  <2>3. Stored = made /\ Stored' = made
    BY <1>0, <2>1, <2>2 DEF Stored, Asked
  <2>4. made' \in Int /\ n' \in Nat /\ (gpc' \in {"ask", "store"} => n' <= Asked')
    BY <1>0, <2>1, <2>2 DEF Asked
  <2> QED
    BY <1>0, <2>1, <2>3, <2>4, StereoStays
<1>2. CASE Converts
  <2>1. /\ UNCHANGED <<_O_Buffer, granted, heard, cpc, rate>>
        /\ gpc = "convert"
        /\ \/ gpc' = gpc /\ n' = n /\ made' = made
           \/ gpc' = "ask" /\ n' = 1 /\ made' = made + 1
    BY <1>2 DEF Converts
  <2>2. rate # CardRate
    BY <2>1 DEF UpInv, Converting
  <2>3. Asked' = 1
    BY <2>1, <2>2 DEF Asked
  <2>4. Stored = made /\ Stored' = made
    BY <1>0, <2>1, <2>3 DEF Stored
  <2>5. made' \in Int /\ n' \in Nat /\ (gpc' \in {"ask", "store"} => n' <= Asked')
    BY <1>0, <2>1, <2>3
  <2> QED
    BY <1>0, <2>1, <2>4, <2>5, StereoStays
<1>3. CASE ProcessReturns \/ HandleReturns
  <2>1. /\ UNCHANGED <<_O_Buffer, granted, heard, cpc, rate, made, n>>
        /\ gpc \notin {"ask", "store"} /\ gpc' \notin {"ask", "store"}
    BY <1>3 DEF ProcessReturns, HandleReturns
  <2>2. Stored = made /\ Stored' = made
    BY <2>1 DEF Stored
  <2> QED
    BY <1>0, <2>1, <2>2, StereoStays
<1>4. CASE \E frames \in 1..MaxFrames, r \in Rates : AudioAvailable(frames, r)
  <2>1. /\ UNCHANGED <<_O_Buffer, granted, heard, cpc, made, n>>
        /\ rate' \in Rates
        /\ gpc \notin {"ask", "store"} /\ gpc' \notin {"ask", "store"}
    BY <1>4 DEF AudioAvailable
  <2>2. Stored = made /\ Stored' = made
    BY <2>1 DEF Stored
  <2> QED
    BY <1>0, <2>1, <2>2, StereoStays
<1> QED
  BY <1>1, <1>2, <1>3, <1>4

\* The room for a number of frames is not more than that.
LEMMA RoomIsLess ==
    ASSUME NEW frames \in Nat, Len(_O_Buffer) \in Nat,
           Len(_O_Buffer) <= Capacity
    PROVE  RoomFor(frames) \in Nat /\ RoomFor(frames) <= frames
<1> DEFINE available == Capacity - Len(_O_Buffer)
<1>1. available \in Nat
  BY AudioAssumption
<1> HIDE DEF available
<1>2. available \div 4 \in Nat /\ 4 * (available \div 4) <= available
  BY <1>1, SMTT(30)
<1>3. RoomFor(frames) = IF 2 * frames <= available THEN frames
                        ELSE 2 * (available \div 4)
  BY DEF RoomFor, available
<1> QED
  BY <1>1, <1>2, <1>3

\* putSamples asks for room ...
LEMMA AskKeepsStereo == ASSUME StereoInv, AsksForRoom PROVE StereoInv'
<1>1. /\ UNCHANGED <<_O_Buffer, granted, heard, cpc, rate, made>>
      /\ gpc = "ask" /\ gpc' = "store" /\ n' = RoomFor(n)
  BY DEF AsksForRoom, audioVars, upVars, callVars
<1>2. Stored \in Int /\ Asked \in Nat /\ n \in Nat /\ n <= Asked
      /\ made \in Int /\ rate \in Rates
  BY <1>1, StoredInt DEF StereoInv
<1>3. Asked' = Asked
  BY <1>1 DEF Asked, Chunk
<1>4. Stored' = Stored
  BY <1>1, <1>3 DEF Stored
<1>5. PICK b \in Nat : 2 * b <= Capacity /\ Len(_O_Buffer) = 2 * b
  BY DEF StereoInv, Stereo
<1>6. n' \in Nat /\ n' <= n
  <2>1. Len(_O_Buffer) \in Nat /\ Len(_O_Buffer) <= Capacity
    BY <1>5
  <2> QED
    BY <1>1, <1>2, <2>1, RoomIsLess
<1>7. n' <= Asked'
  BY <1>2, <1>3, <1>6
<1> QED
  BY <1>1, <1>2, <1>4, <1>6, <1>7, StereoStays

\* ... and puts whole frames, as many as fit, after the others.
LEMMA PutsStereo ==
    ASSUME StereoInv, gpc = "store", NEW first \in Int,
           first - 1 = Stored, Puts(Floats(first)),
           granted' = granted, heard' = heard, cpc' = cpc
    PROVE  /\ \E b \in Nat :
                 /\ 2 * b <= Capacity /\ Stereo(_O_Buffer', b, heard', made)
                 /\ cpc' = "copy" =>
                        \E c \in 0..b : granted' = SubSeq(_O_Buffer', 1, 2 * c)
           /\ heard' <= made
<1>1. PICK b \in Nat :
          /\ 2 * b <= Capacity /\ Stereo(_O_Buffer, b, heard, Stored)
          /\ cpc = "copy" => \E c \in 0..b : granted = SubSeq(_O_Buffer, 1, 2 * c)
  BY DEF StereoInv
<1>2. /\ heard \in Int /\ heard <= Stored /\ Stored \in Int /\ made \in Int
      /\ n \in Nat /\ n <= Asked /\ Asked \in Nat /\ Stored = made - Asked
      /\ Capacity \in Nat
  BY StoredInt, AudioAssumption DEF StereoInv, Stored
<1>3. PICK h \in Nat : Capacity = 2 * h
  <2>1. Capacity \in Nat /\ Capacity % 2 = 0
    BY AudioAssumption
  <2>2. Capacity \div 2 \in Nat /\ Capacity = 2 * (Capacity \div 2)
    BY <2>1, SMTT(30)
  <2> QED
    BY <2>2
<1> DEFINE m == Least(n, h - b)
           new == SubSeq(Floats(first), 1, 2 * m)
<1>4. _O_Buffer \in Seq(Floating) /\ Len(_O_Buffer) = 2 * b
  BY <1>1 DEF Stereo
<1>5. m \in 0..n /\ m <= h - b /\ h - b \in Nat
  BY <1>1, <1>2, <1>3 DEF Least
<1>6. Least(2 * n, Capacity - Len(_O_Buffer)) = 2 * m
  BY <1>1, <1>2, <1>3, <1>4 DEF Least
<1>7. _O_Buffer' = _O_Buffer \o new
  BY <1>6 DEF Puts
<1> HIDE DEF m
<1>8. Stereo(new, m, first - 1, first + n - 1)
  <2> DEFINE lo == first - 1
             hi == first + n - 1
  <2>1. lo \in Int /\ hi \in Int
    BY <1>2
  <2>2. Stereo(Floats(first), n, lo, hi)
    BY <1>2, FloatsAreStereo
  <2> HIDE DEF lo, hi
  <2>3. Stereo(new, m, lo, hi)
    BY <1>2, <1>5, <2>1, <2>2, StereoPrefix
  <2> QED
    BY <2>3 DEF lo, hi
<1> HIDE DEF new
<1>9. Stereo(new, m, Stored, made)
  <2>1. first + n - 1 <= made /\ first + n - 1 \in Int /\ first - 1 \in Int
    BY <1>2
  <2>2. Stored <= first - 1
    BY <1>2
  <2> QED
    BY <1>2, <1>5, <1>8, <2>1, <2>2, StereoWider
<1>10. Stored <= made /\ m \in Nat
  BY <1>2, <1>5
<1>11. Stereo(_O_Buffer', b + m, heard, made)
  BY <1>1, <1>2, <1>7, <1>9, <1>10, StereoConcat
<1>12. 2 * (b + m) <= Capacity /\ b + m \in Nat
  BY <1>3, <1>5
<1>13. ASSUME cpc = "copy"
       PROVE  \E c \in 0 .. b + m : granted = SubSeq(_O_Buffer', 1, 2 * c)
  <2>1. PICK c \in 0..b : granted = SubSeq(_O_Buffer, 1, 2 * c)
    BY <1>1, <1>13
  <2>2. new \in Seq(Floating)
    BY <1>9 DEF Stereo
  <2>3. SubSeq(_O_Buffer', 1, 2 * c) = SubSeq(_O_Buffer, 1, 2 * c)
    <3>1. CASE c = 0
      BY <3>1, SubSeqEmpty
    <3>2. CASE c # 0
      <4>1. 1 \in 1..Len(_O_Buffer) /\ 2 * c \in 1..Len(_O_Buffer)
        BY <1>4, <3>2
      <4> QED
        BY <1>4, <1>7, <2>2, <4>1, SubSeqOfConcat1
    <3> QED
      BY <3>1, <3>2
  <2>4. c \in 0 .. b + m
    BY <1>5
  <2> QED
    BY <2>1, <2>3, <2>4
<1>14. heard <= made
  BY <1>2
<1> QED
  BY <1>11, <1>12, <1>13, <1>14

\* The frame of the upConverter, or the chunk.
LEMMA StoreKeepsStereo ==
    ASSUME UpInv, StereoInv, PutSamples PROVE StereoInv'
<1>1. /\ gpc = "store"
      /\ UNCHANGED <<granted, heard, cpc, rate>>
      /\ cpc' # "copy" => granted' = granted
      /\ \/ /\ rate # CardRate /\ Puts(Floats(made))
            /\ \/ gpc' = "ask" /\ made' = made + 1 /\ n' = 1
               \/ gpc' = "convert" /\ made' = made /\ n' = n
         \/ /\ rate = CardRate /\ Puts(Floats(made - Chunk + 1))
            /\ gpc' = "process" /\ made' = made /\ n' = n
  BY DEF PutSamples, StoresFrame, StoresChunk, audioVars, callVars
<1>2. /\ made \in Int /\ Asked \in Nat /\ n \in Nat /\ heard \in Int
      /\ rate \in Rates /\ Chunk \in Nat /\ Stored = made - Asked
  BY <1>1, StoredInt, ChunkIsLimit DEF StereoInv, Stored
<1>3. Asked' = Asked
  BY <1>1 DEF Asked, Chunk
<1>4. Stored' = made /\ made' \in Int /\ n' \in Nat
      /\ (gpc' \in {"ask", "store"} => n' <= Asked')
  BY <1>1, <1>2, <1>3 DEF Stored, Asked
<1>5. /\ \E b \in Nat :
             /\ 2 * b <= Capacity /\ Stereo(_O_Buffer', b, heard', made)
             /\ cpc' = "copy" =>
                    \E c \in 0..b : granted' = SubSeq(_O_Buffer', 1, 2 * c)
      /\ heard' <= made
  <2>1. CASE rate # CardRate
    <3>1. Puts(Floats(made)) /\ made - 1 = Stored
      BY <1>1, <1>2, <2>1 DEF Asked
    <3> QED
      BY <1>1, <1>2, <3>1, PutsStereo
  <2>2. CASE rate = CardRate
    <3> DEFINE first == made - Chunk + 1
    <3>1. Puts(Floats(first)) /\ first \in Int /\ first - 1 = Stored
      BY <1>1, <1>2, <2>2 DEF Asked
    <3> HIDE DEF first
    <3> QED
      BY <1>1, <3>1, PutsStereo
  <2> QED
    BY <2>1, <2>2
<1>6. cpc' # "copy" => granted' = <<>>
  BY <1>1 DEF StereoInv
<1> QED
  BY <1>1, <1>2, <1>4, <1>5, <1>6 DEF StereoInv

\* The slots that select a device touch neither the ring nor the frames.
LEMMA SelectingKeepsStereo ==
    ASSUME StereoInv, Stops \/ Selecting PROVE StereoInv'
<1>1. /\ UNCHANGED <<_O_Buffer, granted, heard, cpc, rate, made, n>>
      /\ gpc \notin {"ask", "store"} /\ gpc' \notin {"ask", "store"}
  <2> USE DEF streamUnchanged, audioVars, upVars, sinkVars, callVars
  <2>1. CASE Stops
    BY <2>1 DEF Stops
  <2>2. CASE Stopped
    BY <2>2 DEF Stopped
  <2>3. CASE SelectDevice
    BY <2>3 DEF SelectDevice
  <2>4. CASE Opens
    BY <2>4 DEF Opens, Selected
  <2>5. CASE OpenFails
    BY <2>5 DEF OpenFails, Selected
  <2>6. CASE Restarts
    BY <2>6 DEF Restarts
  <2> QED
    BY <2>1, <2>2, <2>3, <2>4, <2>5, <2>6 DEF Selecting
<1>2. Stored = made /\ Stored' = made
  BY <1>1 DEF Stored
<1>3. made \in Int /\ n \in Nat /\ rate \in Rates
  BY DEF StereoInv
<1> QED
  BY <1>1, <1>2, <1>3, StereoStays

\* The callback takes whole frames from the beginning of the ring.
LEMMA CallbackKeepsStereo == ASSUME StereoInv, Callback PROVE StereoInv'
<1>1. PICK b \in Nat :
          /\ 2 * b <= Capacity /\ Stereo(_O_Buffer, b, heard, Stored)
          /\ cpc = "copy" => \E c \in 0..b : granted = SubSeq(_O_Buffer, 1, 2 * c)
  BY DEF StereoInv
<1>2. /\ made \in Int /\ heard \in Int /\ rate \in Rates /\ n \in Nat
      /\ gpc \in {"ask", "store"} => n <= Asked
      /\ heard <= Stored /\ Stored \in Int
  BY StoredInt DEF StereoInv
<1>3. UNCHANGED <<gpc, made, n, rate>>
  BY DEF Callback, CallbackBegins, CallbackCopies, CallbackReturns,
         callUnchanged, audioVars, sinkVars
<1>4. Asked' = Asked /\ Stored' = Stored
  BY <1>3 DEF Asked, Stored, Chunk
<1>5. _O_Buffer \in Seq(Floating) /\ Len(_O_Buffer) = 2 * b
  BY <1>1 DEF Stereo
<1>6. CASE CallbackBegins
  <2>1. /\ UNCHANGED <<_O_Buffer, heard>> /\ cpc = "idle"
        /\ \/ /\ cpc' = "copy"
              /\ granted' = SubSeq(_O_Buffer, 1,
                               Least(2 * framesPerBuffer, Len(_O_Buffer)))
           \/ cpc' = "return" /\ granted' = granted
    BY <1>6 DEF CallbackBegins
  <2>2. framesPerBuffer \in Nat
    BY AudioAssumption
  <2>3. PICK c \in 0..b : Least(2 * framesPerBuffer, Len(_O_Buffer)) = 2 * c
    <3>1. CASE framesPerBuffer < b
      <4>1. 2 * framesPerBuffer < Len(_O_Buffer)
        BY <1>5, <2>2, <3>1
      <4> QED
        BY <2>2, <3>1, <4>1 DEF Least
    <3>2. CASE ~(framesPerBuffer < b)
      <4>1. ~(2 * framesPerBuffer < Len(_O_Buffer)) /\ b \in 0..b
        BY <1>5, <2>2, <3>2
      <4> QED
        BY <1>5, <4>1 DEF Least
    <3> QED
      BY <3>1, <3>2
  <2>4. cpc' = "copy" => \E d \in 0..b : granted' = SubSeq(_O_Buffer', 1, 2 * d)
    BY <2>1, <2>3
  <2>5. cpc' # "copy" => granted' = <<>>
    BY <2>1 DEF StereoInv
  <2>6. Stereo(_O_Buffer', b, heard', Stored')
    BY <1>1, <1>4, <2>1
  <2> QED
    BY <1>1, <1>2, <1>3, <1>4, <2>1, <2>4, <2>5, <2>6 DEF StereoInv
<1>7. CASE CallbackCopies
  <2>1. /\ cpc = "copy" /\ cpc' = "return" /\ granted' = <<>>
        /\ _O_Buffer' = SubSeq(_O_Buffer, Len(granted) + 1, Len(_O_Buffer))
        /\ heard' = IF granted = <<>> THEN heard ELSE granted[Len(granted)][1]
    BY <1>7 DEF CallbackCopies
  <2>2. PICK c \in 0..b : granted = SubSeq(_O_Buffer, 1, 2 * c)
    BY <1>1, <2>1
  <2>3. /\ Stereo(granted, c, heard, Stored)
        /\ \A j \in 1..c : Left(granted, j) = Left(_O_Buffer, j)
    BY <1>1, <1>2, <2>2, StereoPrefix
  <2>4. granted \in Seq(Floating) /\ Len(granted) = 2 * c
    BY <2>3 DEF Stereo
  <2>5. /\ IF c = 0 THEN heard' = heard ELSE heard' = Left(_O_Buffer, c)[1]
        /\ heard' \in Int /\ heard' <= Stored
    <3>1. CASE c = 0
      <4>1. granted = <<>>
        BY <2>4, <3>1, EmptySeq
      <4> QED
        BY <1>2, <2>1, <3>1, <4>1
    <3>2. CASE c # 0
      <4>1. c \in 1..c /\ c \in 1..b
        BY <3>2
      <4>2. granted # <<>>
        BY <2>4, <3>2, EmptySeq
      <4>3. IsFrame(granted, c, heard, Stored)
        BY <2>3, <4>1 DEF Stereo
      <4>4. heard' = Right(granted, c)[1]
        BY <2>1, <2>4, <4>2 DEF Right
      <4>5. heard' = Left(_O_Buffer, c)[1] /\ heard' <= Stored
        BY <2>3, <4>1, <4>3, <4>4 DEF IsFrame
      <4>6. Left(_O_Buffer, c)[1] \in Int
        BY <1>5, <4>1, FrameNumber
      <4> QED
        BY <3>2, <4>5, <4>6
    <3> QED
      BY <3>1, <3>2
  <2>6. Stereo(SubSeq(_O_Buffer, 2 * c + 1, Len(_O_Buffer)), b - c, heard', Stored)
    BY <1>1, <1>2, <2>5, StereoSuffix
  <2>7. Stereo(_O_Buffer', b - c, heard', Stored')
    BY <1>4, <2>1, <2>4, <2>6
  <2>8. b - c \in Nat /\ 2 * (b - c) <= Capacity
    BY <1>1, AudioAssumption
  <2> QED
    BY <1>2, <1>3, <1>4, <2>1, <2>5, <2>7, <2>8 DEF StereoInv
<1>8. CASE CallbackReturns
  <2>1. UNCHANGED <<_O_Buffer, heard, granted>> /\ cpc = "return" /\ cpc' = "idle"
    BY <1>8 DEF CallbackReturns
  <2> QED
    BY <1>2, <1>3, <1>4, <2>1, StereoStays
<1> QED
  BY <1>6, <1>7, <1>8 DEF Callback

\* Initially the ring is empty.
LEMMA InitStereo == Init => StereoInv
<1> SUFFICES ASSUME Init PROVE StereoInv
  OBVIOUS
<1>1. /\ gpc = "select" /\ made = 0 /\ heard = 0 /\ n = 0 /\ rate \in Rates
      /\ _O_Buffer = <<>> /\ granted = <<>> /\ cpc = "idle"
  BY DEF Init
<1>2. Stored = 0
  BY <1>1 DEF Stored
<1>3. Stereo(_O_Buffer, 0, heard, Stored)
  BY <1>1, <1>2, StereoEmpty
<1>4. 0 \in Nat /\ 2 * 0 <= Capacity
  BY AudioAssumption
<1> QED
  BY <1>1, <1>2, <1>3, <1>4 DEF StereoInv

\* The invariant holds always.
LEMMA StereoInvariant == Spec => []StereoInv
<1>1. UpInv /\ StereoInv /\ [Next]_vars => StereoInv'
  <2> SUFFICES ASSUME UpInv, StereoInv, [Next]_vars PROVE StereoInv'
    OBVIOUS
  <2>1. CASE \/ ProcessAudio
             \/ \E frames \in 1..MaxFrames, r \in Rates : AudioAvailable(frames, r)
    BY <2>1, AudioKeepsStereo, AskKeepsStereo, StoreKeepsStereo DEF ProcessAudio
  <2>2. CASE Stops \/ Selecting
    BY <2>2, SelectingKeepsStereo
  <2>3. CASE Callback
    BY <2>3, CallbackKeepsStereo
  <2>4. CASE UNCHANGED vars
    BY <2>4 DEF vars, audioVars, sinkVars, callVars, StereoInv, Stored, Asked,
                Chunk
  <2> QED
    BY <2>1, <2>2, <2>3, <2>4 DEF Next
<1> QED
  BY <1>1, InitStereo, UpInvariant, PTL DEF Spec

\* A callback plays whole stereo frames, left before right, in the order in
\* which they were made and never one twice (audiosink.cpp, paCallback_o and
\* putSamples).
THEOREM FramesStayWhole == Spec => []StereoKept
<1>1. StereoInv => StereoKept
  <2> SUFFICES ASSUME StereoInv PROVE StereoKept
    OBVIOUS
  <2>1. PICK c \in Nat : Stereo(granted, c, heard, Stored)
    <3>1. heard \in Int /\ Stored \in Int
      BY StoredInt DEF StereoInv
    <3>2. CASE cpc = "copy"
      <4>1. PICK b \in Nat :
                /\ Stereo(_O_Buffer, b, heard, Stored)
                /\ \E c \in 0..b : granted = SubSeq(_O_Buffer, 1, 2 * c)
        BY <3>2 DEF StereoInv
      <4>2. PICK c \in 0..b : granted = SubSeq(_O_Buffer, 1, 2 * c)
        BY <4>1
      <4>3. Stereo(granted, c, heard, Stored)
        BY <3>1, <4>1, <4>2, StereoPrefix
      <4>4. c \in Nat
        OBVIOUS
      <4> QED
        BY <4>3, <4>4
    <3>3. CASE cpc # "copy"
      <4>1. granted = <<>>
        BY <3>3 DEF StereoInv
      <4>2. Stereo(granted, 0, heard, Stored)
        BY <3>1, <4>1, StereoEmpty
      <4> QED
        BY <4>2
    <3> QED
      BY <3>2, <3>3
  <2>2. granted \in Seq(Floating) /\ Len(granted) = 2 * c
    BY <2>1 DEF Stereo
  <2>3. (Len(granted) % 2) = 0 /\ Len(granted) \div 2 = c
    <3>1. ((2 * c) % 2) = 0 /\ (2 * c) \div 2 = c
      BY SMTT(30)
    <3> QED
      BY <2>2, <3>1
  <2>4. ASSUME NEW k \in 1..c
        PROVE  /\ granted[2 * k - 1][2] = "left"
               /\ granted[2 * k] = <<granted[2 * k - 1][1], "right">>
               /\ granted[2 * k - 1][1]
                      > IF k = 1 THEN heard ELSE granted[2 * k - 3][1]
    <3>1. IsFrame(granted, k, heard, Stored)
      BY <2>1 DEF Stereo
    <3>2. Right(granted, k) \in Floating /\ Left(granted, k)[1] \in Int
      BY <2>2, FrameNumber
    <3>3. Right(granted, k) = <<Left(granted, k)[1], "right">>
      BY <3>1, <3>2 DEF IsFrame, Floating
    <3>4. k # 1 => Left(granted, k - 1)[1] < Left(granted, k)[1]
      <4>1. k # 1 => k - 1 \in 1..c /\ k - 1 < k
        OBVIOUS
      <4> QED
        BY <2>1, <4>1 DEF Stereo
    <3>5. 2 * (k - 1) - 1 = 2 * k - 3
      OBVIOUS
    <3>6. k # 1 => granted[2 * k - 3][1] < granted[2 * k - 1][1]
      BY <3>4, <3>5 DEF Left
    <3>7. heard < granted[2 * k - 1][1]
      BY <3>1 DEF IsFrame, Left
    <3>8. heard \in Int
      BY DEF StereoInv
    <3>9. k # 1 => granted[2 * k - 3][1] \in Int
      <4>1. k # 1 => k - 1 \in 1..c
        OBVIOUS
      <4>2. k # 1 => Left(granted, k - 1)[1] \in Int
        BY <2>2, <4>1, FrameNumber
      <4> QED
        BY <3>5, <4>2 DEF Left
    <3>10. granted[2 * k - 1][1] \in Int
      BY <3>2 DEF Left
    <3>11. granted[2 * k - 1][1] > IF k = 1 THEN heard ELSE granted[2 * k - 3][1]
      BY <3>6, <3>7, <3>8, <3>9, <3>10
    <3>12. granted[2 * k - 1][2] = "left"
      BY <3>1 DEF IsFrame, Left
    <3>13. granted[2 * k] = <<granted[2 * k - 1][1], "right">>
      BY <3>3 DEF Left, Right
    <3> QED
      BY <3>11, <3>12, <3>13
  <2> QED
    BY <2>3, <2>4 DEF StereoKept
<1> QED
  BY <1>1, StereoInvariant, PTL
=============================================================================
