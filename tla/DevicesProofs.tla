--------------------------- MODULE DevicesProofs ---------------------------
(***************************************************************************)
(* Proofs about the devices.                                               *)
(*                                                                         *)
(* NothingIsLeft: no thread of the wav file, the stick or the hackrf, and  *)
(* no callback of a library, uses what is not there, and nothing is held   *)
(* by a device that has been deleted or whose constructor has thrown.  The *)
(* inductive invariant Held ties where the GUI thread is to what the       *)
(* thread may do and to what is held.                                      *)
(*                                                                         *)
(* SamplesAreTrue: the samples are those of the signal.  Its inductive     *)
(* invariant SamplesInv has a part for each device that can get them       *)
(* wrong:                                                                  *)
(*   - FileTrue: what is in the ring and in the block that is being read   *)
(*     is a part of the file played in a circle, going on where the file   *)
(*     stands; that a block is put whole is due to the room it waited for; *)
(*   - HackrfTrue: what is not reported is what sampleCnt tells, but for   *)
(*     what restartReader's clearing it may have lost, once;               *)
(*   - TcpTrue: one connection to readData when connected, and the last    *)
(*     command on its way, or the server when there is none, has the value *)
(*     that the client believes in;                                        *)
(*   - SpyTrue: as long as nothing was dropped, each message lies, whole,  *)
(*     behind the one before it in what the ring and the wire hold, and    *)
(*     the spyHandler stands at a header when it reads a header.           *)
(***************************************************************************)
EXTENDS Devices, SequenceTheorems, TLAPS

-----------------------------------------------------------------------------
(* What a step is for each of the devices: one of its own, or none.        *)
LEMMA StepOfOne ==
    ASSUME [Next]_vars
    PROVE  /\ F!Next \/ UNCHANGED fileVars
           /\ R!Next \/ UNCHANGED stickVars
           /\ H!Next \/ UNCHANGED hackrfVars
           /\ T!Next \/ UNCHANGED tcpVars
           /\ S!Next \/ UNCHANGED spyVars
<1>1. CASE OfFile(F!Next)
  BY <1>1 DEF OfFile, Of
<1>2. CASE OfStick(R!Next)
  BY <1>2 DEF OfStick, Of
<1>3. CASE OfHackrf(H!Next)
  BY <1>3 DEF OfHackrf, Of
<1>4. CASE OfTcp(T!Next)
  BY <1>4 DEF OfTcp, Of
<1>5. CASE OfSpy(S!Next)
  BY <1>5 DEF OfSpy, Of
<1>6. CASE UNCHANGED vars
  BY <1>6 DEF vars
<1> QED
  BY <1>1, <1>2, <1>3, <1>4, <1>5, <1>6 DEF Next

-----------------------------------------------------------------------------
(* The wav file: where the GUI thread is tells what the thread may do.  It *)
(* has begun, or its start has been outrun; when it has begun running is   *)
(* set until stopReader, which waits for it, clears it.                    *)
FileHeld ==
    /\ F_gpc = "start" => F_tpc = "none"
    /\ F_gpc = "loop" /\ F_tpc \notin {"none", "started", "ended"} => F_running
    /\ F_gpc \in {"delete", "close", "destroy", "gone", "aborted"} =>
          F_tpc \in {"none", "ended"} \/ F_outrun
    /\ F_closed => F_gpc \in {"destroy", "gone", "aborted"}

LEMMA FileHeldStep ==
    ASSUME FileHeld, F!Next
    PROVE  FileHeld'
<1> USE DEF FileHeld, F!file
<1>1. CASE F!RestartReader
  BY <1>1 DEF F!RestartReader
<1>2. ASSUME NEW f \in F!Percents, F!SetFileat(f)
      PROVE  FileHeld'
  BY <1>2 DEF F!SetFileat
<1>3. CASE F!Reset
  BY <1>3 DEF F!Reset
<1>4. CASE F!SampleHandler
  BY <1>4 DEF F!SampleHandler
<1>5. CASE F!Quit
  <2>1. CASE F_running
    BY <1>5, <2>1 DEF F!Quit, F!StopReader
  <2>2. CASE ~F_running
    BY <1>5, <2>2 DEF F!Quit, F!StopReader
  <2> QED
    BY <2>1, <2>2
<1>6. CASE F!Delete
  <2>1. CASE F_running
    BY <1>6, <2>1 DEF F!Delete, F!StopReader
  <2>2. CASE ~F_running
    BY <1>6, <2>2 DEF F!Delete, F!StopReader
  <2> QED
    BY <2>1, <2>2
<1>7. CASE F!Stopped("stop", "delete") \/ F!Stopped("stopAgain", "close")
  BY <1>7 DEF F!Stopped
<1>8. CASE F!Close
  BY <1>8 DEF F!Close
<1>9. CASE F!Destroy
  BY <1>9 DEF F!Destroy
<1>10. CASE F!Runs
  <2>1. F_tpc \notin {"none", "ended"} /\ UNCHANGED <<F_gpc, F_closed, F_outrun>>
    BY <1>10 DEF F!Runs, F!Run, F!runOnly, F!Begins, F!Ends, F!Loops, F!HasRoom,
                F!Reads, F!ReadsMore, F!Puts, F!Reports
  <2>2. CASE F!Begins
    BY <2>1, <2>2 DEF F!Begins
  <2>3. CASE F!Run /\ ~F!Begins
    <3>1. F_running' = F_running
      BY <2>3 DEF F!Run, F!Ends, F!Loops, F!HasRoom, F!Reads, F!ReadsMore,
                  F!Puts, F!Reports
    <3>2. F_tpc # "started"
      BY <2>3 DEF F!Run, F!Ends, F!Loops, F!HasRoom, F!Reads, F!ReadsMore,
                  F!Puts, F!Reports
    <3> QED
      BY <2>1, <3>1, <3>2
  <2> QED
    BY <1>10, <2>2, <2>3 DEF F!Runs
<1> QED
  BY <1>1, <1>2, <1>3, <1>4, <1>5, <1>6, <1>7, <1>8, <1>9, <1>10
     DEF F!Next, F!Gui

-----------------------------------------------------------------------------
(* The stick: each step of the constructor has what the steps before it    *)
(* took, what is in the library is known to the handler (open), and the    *)
(* thread runs only between restartReader and the end of stopReader.       *)
StickHeld ==
    /\ R_device => R_open
    /\ R_gpc \in {"dlopen", "thrown", "gone"} =>
          ~R_Handle /\ ~R_device /\ ~R_d_filter
    /\ R_gpc \in {"functions", "open", "rate", "restart", "loop", "cancel",
                  "join"} => R_Handle
    /\ R_gpc \in {"rate", "restart", "loop", "cancel", "join"} => R_device
    /\ R_gpc \in {"restart", "loop", "cancel", "join"} => R_d_filter
    /\ R_gpc \in {"dlopen", "functions", "open", "rate", "restart", "thrown"} =>
          R_tpc = "none"
    /\ R_gpc = "loop" /\ R_tpc # "none" => R_workerHandle
    /\ R_tpc \notin {"none", "finished"} => R_gpc \in {"loop", "cancel", "join"}

LEMMA StickHeldStep ==
    ASSUME StickHeld, R!Next
    PROVE  StickHeld'
<1> USE DEF StickHeld, R!held, R!threadVars
<1>1. CASE R!LoadsLibrary
  BY <1>1 DEF R!LoadsLibrary
<1>2. CASE R!FindsDevice
  <2>1. CASE R_gpc' = "open" /\ UNCHANGED R!held
    BY <1>2, <2>1 DEF R!FindsDevice
  <2>2. CASE R!Errors
    BY <1>2, <2>2 DEF R!FindsDevice, R!Errors
  <2> QED
    BY <1>2, <2>1, <2>2 DEF R!FindsDevice
<1>3. CASE R!OpensDevice
  BY <1>3 DEF R!OpensDevice, R!Errors
<1>4. CASE R!SetsUp
  BY <1>4 DEF R!SetsUp, R!Errors
<1>5. CASE R!Again
  BY <1>5 DEF R!Again
<1>6. CASE R!RestartReader
  BY <1>6 DEF R!RestartReader
<1>7. CASE R!SampleHandler
  BY <1>7 DEF R!SampleHandler
<1>8. CASE R!StopReader
  BY <1>8 DEF R!StopReader
<1>9. CASE R!Cancels \/ R!Joins
  BY <1>9 DEF R!Cancels, R!Joins
<1>10. CASE R!Destructor
  BY <1>10 DEF R!Destructor
<1>11. CASE R!Thread \/ R!BlockArrives
  BY <1>11 DEF R!Thread, R!BlockArrives, R!ReadBegins, R!ReadEnds, R!CallBack
<1> QED
  BY <1>1, <1>2, <1>3, <1>4, <1>5, <1>6, <1>7, <1>8, <1>9, <1>10, <1>11
     DEF R!Next, R!Gui

-----------------------------------------------------------------------------
(* The hackrf: from the set-up to the destructor the device is open, and   *)
(* the stream, and a callback, are only between restartReader and the end  *)
(* of the destructor.                                                      *)
HackrfHeld ==
    /\ H_gpc \in {"setup", "restart", "store", "clear", "loop", "close"} =>
          H_theDevice
    /\ H_streaming \/ H_tpc # "idle" =>
          H_gpc \in {"store", "clear", "loop", "close"}
    /\ H_gpc = "gone" => ~H_theDevice /\ ~H_initialised

LEMMA HackrfHeldStep ==
    ASSUME HackrfHeld, H!Next
    PROVE  HackrfHeld'
<1> USE DEF HackrfHeld, H!held, H!countVars, H!threadOnly, H!Step
<1>1. CASE H!LoadsLibrary \/ H!LoadsFunctions \/ H!InitsLibrary
  BY <1>1 DEF H!LoadsLibrary, H!LoadsFunctions, H!InitsLibrary
<1>2. CASE H!OpensDevice
  BY <1>2 DEF H!OpensDevice
<1>3. CASE H!SetsUp
  BY <1>3 DEF H!SetsUp
<1>4. CASE H!Again
  BY <1>4 DEF H!Again
<1>5. CASE H!StartsStream
  BY <1>5 DEF H!StartsStream
<1>6. CASE H!StoresRunning \/ H!ClearsCount
  BY <1>6 DEF H!StoresRunning, H!ClearsCount
<1>7. CASE H!SampleHandler
  BY <1>7 DEF H!SampleHandler
<1>8. CASE H!StopReader
  BY <1>8 DEF H!StopReader
<1>9. CASE H!Destructor
  BY <1>9 DEF H!Destructor
<1>10. CASE H!TransferArrives
  BY <1>10 DEF H!TransferArrives
<1>11. CASE H!CallBack
  BY <1>11 DEF H!CallBack, H!Puts, H!StoresCount, H!Reports
<1> QED
  BY <1>1, <1>2, <1>3, <1>4, <1>5, <1>6, <1>7, <1>8, <1>9, <1>10, <1>11
     DEF H!Next, H!Gui

-----------------------------------------------------------------------------
(* All of what is held.                                                    *)
Held == FileHeld /\ StickHeld /\ HackrfHeld

\* At first nothing is held, and no thread is there.
LEMMA HeldInit == Init => Held
BY DEF Init, F!Init, R!Init, H!Init, Held, FileHeld, StickHeld, HackrfHeld

\* A step is one of the device that is selected.
LEMMA HeldStep == Held /\ [Next]_vars => Held'
<1> SUFFICES ASSUME Held, [Next]_vars PROVE Held'
  OBVIOUS
<1>1. FileHeld'
  BY StepOfOne, FileHeldStep DEF Held, FileHeld, fileVars
<1>2. StickHeld'
  BY StepOfOne, StickHeldStep DEF Held, StickHeld, stickVars
<1>3. HackrfHeld'
  BY StepOfOne, HackrfHeldStep DEF Held, HackrfHeld, hackrfVars
<1> QED
  BY <1>1, <1>2, <1>3 DEF Held

\* What the threads use is there, and a stick or a hackrf that is deleted leaves
\* nothing in use: the file reader's run and destructor (filehulp.cpp), but for
\* a thread that was stopped before it was running; rtlsdrHandler's stopReader
\* and constructor, wherever that throws; hackrfHandler's callback and
\* destructor, but not a constructor of it that throws.
THEOREM NothingIsLeft == Spec => []HeldWhileUsed
<1>1. Held => HeldWhileUsed
  <2> SUFFICES ASSUME Held PROVE HeldWhileUsed
    OBVIOUS
  <2>1. F!UsedWhileOpen
    BY DEF Held, FileHeld, F!UsedWhileOpen
  <2>2. R!UsedWhileThere /\ R!NothingHeld
    BY DEF Held, StickHeld, R!UsedWhileThere, R!NothingHeld
  <2>3. H!UsedWhileThere /\ H!NothingHeld
    BY DEF Held, HackrfHeld, H!UsedWhileThere, H!NothingHeld
  <2> QED
    BY <2>1, <2>2, <2>3 DEF HeldWhileUsed
<1>2. Spec => []Held
  BY HeldInit, HeldStep, PTL DEF Spec
<1> QED
  BY <1>1, <1>2, PTL

-----------------------------------------------------------------------------
(* The wav file: what is played.                                           *)

(* sampleHandler takes whole chunks, and fewer than there are elements.    *)
LEMMA WholeChunks ==
    ASSUME NEW n \in Nat
    PROVE  LET chunks == IF n > Chunk THEN (n - 1) \div Chunk ELSE 0
           IN  chunks * Chunk \in 0..n
<1>1. ASSUME NEW c \in Nat \ {0}, NEW x \in Nat
      PROVE  (x \div c) * c \in 0..x
  BY <1>1, SMTT(30)
<1> QED
  BY <1>1, DevicesAssumption

\* The places that the slider can move to, and the start.
Places == {(f * samplesinFile) \div 100 : f \in F!Percents \cup {0}}

IsChain(q) == \A k \in 1..(Len(q) - 1) : F!Follows(q[k], q[k + 1])
IsHeard(q) ==
    \A k \in 1..(Len(q) - Block) : \E j \in k..(k + Block) : q[j] # F!Silence
EndsSilent(q) == Len(q) > 0 /\ q[Len(q)] = F!Silence

\* What has been played is the file, and goes on at position p.
Played(q, p) ==
    /\ IsChain(q) /\ IsHeard(q)
    /\ Len(q) > 0 => F!Follows(q[Len(q)], p)
    /\ EndsSilent(q) => p < samplesinFile

-----------------------------------------------------------------------------
(* The places are in the file, and every frame may be followed by them.    *)
LEMMA PlacesInFile == Places \subseteq 0..(samplesinFile - 1) /\ 0 \in Places
<1>1. ASSUME NEW n \in Nat \ {0}
      PROVE  (0 * n) \div 100 = 0 /\ (60 * n) \div 100 \in 0..(n - 1)
  BY <1>1
<1> QED
  BY <1>1, DevicesAssumption DEF Places, F!Percents

LEMMA PlacesFollow ==
    ASSUME NEW a, NEW p \in Places
    PROVE  F!Follows(a, p)
BY DEF F!Follows, Places

LEMMA NextFollows == \A p \in Int : F!Follows(p, p + 1)
BY DEF F!Follows

(* A part of what was played.                                              *)
LEMMA PartPlayed ==
    ASSUME NEW q \in Seq(Int), NEW r \in Seq(Int), NEW d \in Nat,
           d + Len(r) <= Len(q), \A k \in 1..Len(r) : r[k] = q[k + d],
           IsChain(q), IsHeard(q)
    PROVE  IsChain(r) /\ IsHeard(r)
<1> DEFINE n == Len(q)
           m == Len(r)
<1>0. n \in Nat /\ m \in Nat /\ d + m <= n /\ Block \in Nat
  BY DevicesAssumption
<1>1. ASSUME NEW k \in 1..(m - 1)
      PROVE  F!Follows(r[k], r[k + 1])
  <2> DEFINE i == k + d
  <2>1. i \in 1..(n - 1) /\ k \in 1..m /\ k + 1 \in 1..m
    BY <1>0
  <2>2. r[k] = q[i] /\ r[k + 1] = q[i + 1]
    BY <2>1, <1>0
  <2> HIDE DEF i
  <2>3. F!Follows(q[i], q[i + 1])
    BY <2>1 DEF IsChain
  <2> QED
    BY <2>2, <2>3
<1>2. ASSUME NEW k \in 1..(m - Block)
      PROVE  \E j \in k..(k + Block) : r[j] # F!Silence
  <2>1. k + d \in 1..(n - Block)
    BY <1>0
  <2>2. PICK j \in (k + d)..((k + d) + Block) : q[j] # F!Silence
    BY <2>1 DEF IsHeard
  <2>3. j - d \in k..(k + Block) /\ j - d \in 1..m /\ (j - d) + d = j
    BY <1>0
  <2>4. r[j - d] = q[j]
    BY <2>3
  <2> QED
    BY <2>2, <2>3, <2>4
<1> QED
  BY <1>1, <1>2 DEF IsChain, IsHeard

(* Two parts, of which one follows the other.                              *)
LEMMA JoinChain ==
    ASSUME NEW q \in Seq(Int), NEW r \in Seq(Int), IsChain(q), IsChain(r),
           Len(q) > 0 /\ Len(r) > 0 => F!Follows(q[Len(q)], r[1])
    PROVE  IsChain(q \o r)
<1> DEFINE n == Len(q)
           m == Len(r)
           w == q \o r
<1>0. /\ n \in Nat /\ m \in Nat /\ Len(w) = n + m
      /\ \A i \in 1..(n + m) : w[i] = IF i <= n THEN q[i] ELSE r[i - n]
  BY ConcatProperties
<1>n. n \in Nat /\ m \in Nat
  OBVIOUS
<1> HIDE DEF n, m, w
<1>1. ASSUME NEW k \in 1..(n + m - 1)
      PROVE  F!Follows(w[k], w[k + 1])
  <2>0. k \in 1..(n + m) /\ k + 1 \in 1..(n + m)
    BY <1>n
  <2>1. CASE k + 1 <= n
    <3>1. k <= n /\ k \in 1..(n - 1)
      BY <1>n, <2>1
    <3>2. w[k] = q[k] /\ w[k + 1] = q[k + 1]
      BY <1>0, <2>0, <2>1, <3>1
    <3> QED
      BY <3>1, <3>2 DEF IsChain, n
  <2>2. CASE k = n
    <3>1. k <= n /\ ~(k + 1 <= n) /\ (k + 1) - n = 1 /\ n > 0 /\ m > 0
      BY <1>n, <2>2
    <3>2. w[k] = q[n] /\ w[k + 1] = r[1]
      BY <1>0, <2>0, <2>2, <3>1
    <3> QED
      BY <3>1, <3>2 DEF n, m
  <2>3. CASE k > n
    <3>1. /\ ~(k <= n) /\ ~(k + 1 <= n) /\ (k + 1) - n = (k - n) + 1
          /\ k - n \in 1..(m - 1)
      BY <1>n, <2>3
    <3>2. w[k] = r[k - n] /\ w[k + 1] = r[(k - n) + 1]
      BY <1>0, <2>0, <3>1
    <3> QED
      BY <3>1, <3>2 DEF IsChain, m
  <2> QED
    BY <1>n, <2>1, <2>2, <2>3
<1>2. IsChain(w)
  BY <1>0, <1>1 DEF IsChain
<1> QED
  BY <1>2 DEF w

(* What is not silent may follow, and a block of silence after a frame.    *)
LEMMA JoinHeard ==
    ASSUME NEW q \in Seq(Int), NEW r \in Seq(Int), IsHeard(q),
           \/ \A k \in 1..Len(r) : r[k] # F!Silence
           \/ Len(r) <= Block /\ ~EndsSilent(q)
    PROVE  IsHeard(q \o r)
<1> DEFINE n == Len(q)
           m == Len(r)
           w == q \o r
<1>0. /\ n \in Nat /\ m \in Nat /\ Len(w) = n + m /\ Block \in Nat
      /\ \A i \in 1..(n + m) : w[i] = IF i <= n THEN q[i] ELSE r[i - n]
  BY ConcatProperties, DevicesAssumption
<1>1. ASSUME NEW k \in 1..(n + m - Block)
      PROVE  \E j \in k..(k + Block) : w[j] # F!Silence
  <2>1. CASE k + Block <= n
    <3>1. k \in 1..(n - Block)
      BY <1>0, <2>1
    <3>2. PICK j \in k..(k + Block) : q[j] # F!Silence
      BY <3>1 DEF IsHeard
    <3>3. w[j] = q[j]
      BY <1>0, <2>1
    <3> QED
      BY <3>2, <3>3
  <2>2. CASE k + Block > n /\ \A i \in 1..m : r[i] # F!Silence
    <3>1. /\ k + Block \in 1..(n + m) /\ (k + Block) - n \in 1..m
          /\ k + Block \in k..(k + Block)
      BY <1>0, <2>2
    <3>2. w[k + Block] = r[(k + Block) - n]
      BY <1>0, <2>2, <3>1
    <3> QED
      BY <2>2, <3>1, <3>2
  <2>3. CASE k + Block > n /\ m <= Block /\ ~EndsSilent(q)
    <3>1. n \in k..(k + Block) /\ n \in 1..(n + m) /\ n > 0
      BY <1>0, <2>3
    <3>2. w[n] = q[n]
      BY <1>0, <3>1
    <3>3. q[n] # F!Silence
      BY <2>3, <3>1 DEF EndsSilent
    <3> QED
      BY <3>1, <3>2, <3>3
  <2> QED
    BY <1>0, <2>1, <2>2, <2>3
<1>2. Len(w) - Block = n + m - Block
  BY <1>0
<1> HIDE DEF n, m, w
<1>3. IsHeard(w)
  BY <1>1, <1>2 DEF IsHeard
<1> QED
  BY <1>3 DEF w

-----------------------------------------------------------------------------
(* What a read returns: the frames from the position on.                   *)
LEMMA MinOfTwo ==
    ASSUME NEW a \in Int, NEW b \in Int
    PROVE  F!Min({a, b}) = IF a <= b THEN a ELSE b
<1> DEFINE m == IF a <= b THEN a ELSE b
<1>1. m \in {a, b} /\ \A y \in {a, b} : m <= y
  OBVIOUS
<1>2. \A x \in {a, b} : (\A y \in {a, b} : x <= y) => x = m
  OBVIOUS
<1> QED
  BY <1>1, <1>2 DEF F!Min

LEMMA FramesRead ==
    ASSUME F_pos \in 0..samplesinFile, NEW n \in Nat
    PROVE  LET r == F!FramesAt(n)
               left == samplesinFile - F_pos
           IN  /\ r \in Seq(Int)
               /\ Len(r) = IF n <= left THEN n ELSE left
               /\ \A k \in 1..Len(r) : r[k] = F_pos + k - 1
<1> DEFINE left == samplesinFile - F_pos
           m == IF n <= left THEN n ELSE left
           r == F!FramesAt(n)
<1>1. left \in Nat /\ m \in Nat /\ F_pos \in Int
  BY DevicesAssumption
<1>2. r = [k \in 1..m |-> F_pos + k - 1]
  <2>1. F!Min({n, left}) = m
    BY <1>1, MinOfTwo
  <2> QED
    BY <2>1 DEF F!FramesAt
<1> HIDE DEF r, m
<1>3. r \in [1..m -> Int] /\ \A k \in 1..m : r[k] = F_pos + k - 1
  <2>1. \A k \in 1..m : F_pos + k - 1 \in Int
    BY <1>1
  <2> QED
    BY <1>2, <2>1
<1>4. r \in Seq(Int) /\ Len(r) = m
  BY <1>1, <1>3
<1> QED
  BY <1>3, <1>4 DEF r, m

(* What is read follows what was played.                                   *)
LEMMA FramesPlayed ==
    ASSUME F_pos \in 0..samplesinFile, NEW n \in Nat, NEW q \in Seq(Int),
           Played(q, F_pos)
    PROVE  LET r == F!FramesAt(n)
           IN  /\ q \o r \in Seq(Int)
               /\ F_pos + Len(r) \in 0..samplesinFile
               /\ Played(q \o r, F_pos + Len(r))
<1> DEFINE r == F!FramesAt(n)
           w == q \o r
           m == Len(r)
           next == F_pos + Len(r)
<1>1. /\ r \in Seq(Int) /\ m \in Nat /\ F_pos \in Nat
      /\ m <= samplesinFile - F_pos /\ samplesinFile \in Nat
      /\ \A k \in 1..m : r[k] = F_pos + k - 1
  <2>1. /\ r \in Seq(Int) /\ \A k \in 1..m : r[k] = F_pos + k - 1
        /\ m = IF n <= samplesinFile - F_pos THEN n ELSE samplesinFile - F_pos
    BY FramesRead
  <2>2. F_pos \in Nat /\ samplesinFile \in Nat /\ F_pos <= samplesinFile
    BY DevicesAssumption
  <2> HIDE DEF m
  <2>3. m \in Nat /\ m <= samplesinFile - F_pos
    BY <2>1, <2>2
  <2> QED
    BY <2>1, <2>2, <2>3
<1> HIDE DEF r
<1>2. /\ w \in Seq(Int) /\ Len(w) = Len(q) + m /\ Len(q) \in Nat
      /\ \A i \in 1..(Len(q) + m) :
            w[i] = IF i <= Len(q) THEN q[i] ELSE r[i - Len(q)]
  BY <1>1, ConcatProperties
<1>3. next \in 0..samplesinFile
  BY <1>1
<1>4. IsChain(r)
  <2>1. ASSUME NEW k \in 1..(m - 1) PROVE F!Follows(r[k], r[k + 1])
    <3>1. r[k] = F_pos + k - 1 /\ r[k + 1] = (F_pos + k - 1) + 1
      BY <1>1
    <3>2. F_pos + k - 1 \in Int
      BY <1>1
    <3> QED
      BY <3>1, <3>2, NextFollows
  <2> QED
    BY <2>1 DEF IsChain
<1>5. IsChain(w)
  <2>1. Len(q) > 0 /\ m > 0 => F!Follows(q[Len(q)], r[1])
    <3>1. m > 0 => r[1] = F_pos
      BY <1>1
    <3> QED
      BY <3>1 DEF Played
  <2> QED
    BY <1>1, <1>4, <2>1, JoinChain DEF Played
<1>6. IsHeard(w)
  <2>1. \A k \in 1..m : r[k] # F!Silence
    BY <1>1 DEF F!Silence
  <2> QED
    BY <1>1, <2>1, JoinHeard DEF Played
<1>7. CASE m = 0
  <2>1. w = q
    <3>1. \A i \in 1..Len(q) : w[i] = q[i]
      BY <1>2, <1>7
    <3> QED
      BY <1>2, <1>7, <3>1, SeqEqual
  <2>2. next = F_pos
    BY <1>1, <1>7
  <2> QED
    BY <1>2, <1>3, <2>1, <2>2 DEF r
<1>8. CASE m > 0
  <2>1. Len(w) > 0 /\ w[Len(w)] = F_pos + m - 1
    BY <1>1, <1>2, <1>8
  <2>2. F!Follows(w[Len(w)], next)
    <3>1. F_pos + m - 1 \in Int /\ (F_pos + m - 1) + 1 = next
      BY <1>1
    <3> QED
      BY <2>1, <3>1, NextFollows
  <2>3. ~EndsSilent(w)
    BY <1>1, <2>1, <1>8 DEF EndsSilent, F!Silence
  <2> QED
    BY <1>2, <1>3, <1>5, <1>6, <2>2, <2>3 DEF Played, r
<1> QED
  BY <1>1, <1>7, <1>8

LEMMA MovedPlayed ==
    ASSUME NEW q, NEW p \in 0..samplesinFile, NEW x \in Places, Played(q, p)
    PROVE  Played(q, x)
BY PlacesFollow, PlacesInFile, DevicesAssumption DEF Played

(* At the end of the file a block of silence, and then the start.          *)
LEMMA SilencePlayed ==
    ASSUME NEW q \in Seq(Int), Played(q, samplesinFile)
    PROVE  LET r == [k \in 1..Block |-> F!Silence]
           IN  r \in Seq(Int) /\ Len(r) = Block /\ Played(q \o r, 0)
<1> DEFINE r == [k \in 1..Block |-> F!Silence]
           w == q \o r
<1>0. Block \in Nat /\ samplesinFile \in Nat \ {0} /\ F!Silence \in Int
  BY DevicesAssumption DEF F!Silence
<1>1. r \in [1..Block -> Int] /\ \A k \in 1..Block : r[k] = F!Silence
  BY <1>0
<1> HIDE DEF r
<1>2. r \in Seq(Int) /\ Len(r) = Block
  BY <1>0, <1>1
<1>3. ~EndsSilent(q)
  BY <1>0 DEF Played
<1>4. IsHeard(w)
  BY <1>0, <1>2, <1>3, JoinHeard DEF Played
<1>5. \A a, b : a = F!Silence \/ b = F!Silence => F!Follows(a, b)
  BY DEF F!Follows
<1>6. IsChain(r)
  <2>1. \A k \in 1..(Block - 1) : k \in 1..Block
    BY <1>0
  <2> QED
    BY <1>1, <1>2, <1>5, <2>1 DEF IsChain
<1>7. IsChain(w)
  <2>1. Len(r) > 0 => r[1] = F!Silence
    BY <1>0, <1>1, <1>2
  <2> QED
    BY <1>2, <1>5, <1>6, <2>1, JoinChain DEF Played
<1>8. \A a : F!Follows(a, 0)
  BY PlacesInFile, PlacesFollow
<1> QED
  BY <1>0, <1>2, <1>4, <1>7, <1>8 DEF Played, r

-----------------------------------------------------------------------------
(* The thread is reading on: what it has read it will put.                 *)
Reading ==
    \/ F_tpc \in {"room", "read", "more", "put"}
    \/ F_running /\ F_tpc \in {"loop", "report"}

FileTypes ==
    /\ F_pos \in 0..samplesinFile
    /\ F_bi \in Seq(Int) /\ Len(F_bi) <= Block
    /\ F_ring \in Seq(Int) /\ Len(F_ring) <= FileRing
    /\ F_tpc \notin {"more", "put"} => F_bi = <<>>
    /\ F_tpc \in {"none", "started"} => F_ring = <<>>

RoomKept ==
    F_tpc \in {"read", "more", "put"} /\ F_running => Block + Spare <= F!Room

FilePlayed ==
    ~F_converts =>
        /\ IsChain(F_ring) /\ IsHeard(F_ring)
        /\ Reading => Played(F_ring \o F_bi, F_pos)

FileTrue == FileTypes /\ RoomKept /\ FilePlayed

LEMMA SampleHandlerTrue ==
    ASSUME FileTrue, F!SampleHandler
    PROVE  FileTrue'
<1> DEFINE n == Len(F_ring)
           d == (IF n > Chunk THEN (n - 1) \div Chunk ELSE 0) * Chunk
           r == SubSeq(F_ring, d + 1, n)
<1>1. /\ F_ring' = r
      /\ UNCHANGED <<F_converts, F_tpc, F_running, F_pos, F_bi>>
  BY DEF F!SampleHandler, F!file
<1>2. n \in Nat /\ n <= FileRing /\ F_ring \in Seq(Int) /\ F_bi \in Seq(Int)
      /\ FileRing \in Nat /\ Block \in Nat /\ Spare \in Nat
  BY DevicesAssumption DEF FileTrue, FileTypes
<1>3. d \in 0..n
  BY <1>2, WholeChunks
<1> HIDE DEF d
<1>4. r \in Seq(Int) /\ Len(r) = n - d /\ \A k \in 1..Len(r) : r[k] = F_ring[k + d]
  <2>1. /\ r \in Seq(Int) /\ Len(r) = IF d + 1 <= n THEN n - (d + 1) + 1 ELSE 0
        /\ \A i \in 1..(n - (d + 1) + 1) : r[i] = F_ring[(d + 1) + i - 1]
    <3>1. \A i \in (d + 1)..n : F_ring[i] \in Int
      BY <1>2, <1>3
    <3> QED
      BY <1>2, <1>3, <3>1, SubSeqProperties
  <2>2. Len(r) = n - d
    BY <1>2, <1>3, <2>1
  <2>3. \A k \in 1..(n - d) : (d + 1) + k - 1 = k + d /\ k \in 1..(n - (d + 1) + 1)
    BY <1>2, <1>3
  <2> QED
    BY <2>1, <2>2, <2>3
<1> HIDE DEF r
<1>5. FileTypes'
  <2>1. F_tpc \in {"none", "started"} => r = <<>>
    <3>1. SUFFICES ASSUME F_tpc \in {"none", "started"} PROVE r = <<>>
      OBVIOUS
    <3>2. n = 0
      BY <3>1 DEF FileTrue, FileTypes
    <3> QED
      BY <1>3, <1>4, <3>2
  <2> QED
    BY <1>1, <1>2, <1>3, <1>4, <2>1 DEF FileTrue, FileTypes
<1>6. RoomKept'
  BY <1>1, <1>2, <1>3, <1>4 DEF FileTrue, RoomKept, F!Room
<1>7. FilePlayed'
  <2> SUFFICES ASSUME ~F_converts
               PROVE  /\ IsChain(r) /\ IsHeard(r)
                      /\ Reading => Played(r \o F_bi, F_pos)
    BY <1>1 DEF FilePlayed, Reading
  <2>1. IsChain(r) /\ IsHeard(r)
    BY <1>2, <1>3, <1>4, PartPlayed DEF FileTrue, FilePlayed
  <2>2. ASSUME Reading PROVE Played(r \o F_bi, F_pos)
    <3> DEFINE q == F_ring \o F_bi
               w == r \o F_bi
               m == Len(F_bi)
    <3>1. m \in Nat /\ Played(q, F_pos)
      BY <1>2, <2>2 DEF FileTrue, FilePlayed
    <3>2. /\ q \in Seq(Int) /\ Len(q) = n + m
          /\ \A i \in 1..(n + m) :
                q[i] = IF i <= n THEN F_ring[i] ELSE F_bi[i - n]
      BY <1>2, ConcatProperties
    <3>3. /\ w \in Seq(Int) /\ Len(w) = (n - d) + m
          /\ \A i \in 1..((n - d) + m) :
                w[i] = IF i <= n - d THEN r[i] ELSE F_bi[i - (n - d)]
      <4>1. /\ w \in Seq(Int) /\ Len(w) = Len(r) + m
            /\ \A i \in 1..(Len(r) + m) :
                  w[i] = IF i <= Len(r) THEN r[i] ELSE F_bi[i - Len(r)]
        BY <1>2, <1>4, ConcatProperties
      <4>2. Len(r) = n - d
        BY <1>4
      <4> HIDE DEF w, m
      <4> QED
        BY <4>1, <4>2
    <3> HIDE DEF q, w, m
    <3>4. ASSUME NEW i \in 1..((n - d) + m) PROVE w[i] = q[i + d]
      <4>1. i + d \in 1..(n + m) /\ i \in Nat
        BY <1>2, <1>3, <3>1
      <4>2. CASE i <= n - d
        <5>0. n \in Nat /\ d \in Nat /\ i \in 1..(n - d)
          BY <1>2, <1>3, <4>1, <4>2
        <5>1. w[i] = r[i] /\ r[i] = F_ring[i + d]
          BY <1>4, <3>3, <4>2, <5>0
        <5>2. i + d <= n
          BY <4>1, <4>2, <5>0
        <5> QED
          BY <3>2, <4>1, <5>1, <5>2
      <4>3. CASE ~(i <= n - d)
        <5>1. w[i] = F_bi[i - (n - d)] /\ ~(i + d <= n) /\ i - (n - d) = (i + d) - n
          BY <1>2, <1>3, <3>3, <4>1, <4>3
        <5> QED
          BY <3>2, <4>1, <5>1
      <4> QED
        BY <4>2, <4>3
    <3>5. IsChain(w) /\ IsHeard(w)
      <4>1. d + Len(w) <= Len(q) /\ d \in Nat
        BY <1>2, <1>3, <3>1, <3>2, <3>3
      <4>2. \A k \in 1..Len(w) : w[k] = q[k + d]
        BY <3>3, <3>4
      <4>3. IsChain(q) /\ IsHeard(q)
        BY <3>1 DEF Played
      <4> QED
        BY <3>2, <3>3, <4>1, <4>2, <4>3, PartPlayed
    <3>6. Len(w) > 0 => Len(q) > 0 /\ w[Len(w)] = q[Len(q)]
      <4> SUFFICES ASSUME Len(w) > 0 PROVE Len(q) > 0 /\ w[Len(w)] = q[Len(q)]
        OBVIOUS
      <4>1. Len(w) \in 1..((n - d) + m) /\ Len(w) + d = Len(q) /\ Len(q) > 0
        BY <1>2, <1>3, <3>1, <3>2, <3>3
      <4> QED
        BY <4>1, <3>4
    <3>7. Played(w, F_pos)
      BY <3>1, <3>5, <3>6 DEF Played, EndsSilent
    <3> QED
      BY <3>7 DEF w
  <2> QED
    BY <2>1, <2>2
<1> QED
  BY <1>5, <1>6, <1>7 DEF FileTrue

(* The first half of a block.                                              *)
LEMMA ReadsTrue ==
    ASSUME FileTrue, F!Reads
    PROVE  FileTrue'
<1> DEFINE r == F!FramesAt(Block \div 2)
<1>1. /\ F_tpc = "read" /\ F_tpc' = "more"
      /\ F_bi' = r /\ F_pos' = F_pos + Len(r)
      /\ UNCHANGED <<F_converts, F_running, F_ring>>
  BY DEF F!Reads, F!runOnly, F!file
<1>2. Block \div 2 \in Nat /\ Block \div 2 <= Block /\ Block \in Nat
      /\ samplesinFile \in Nat
  BY DevicesAssumption
<1>3. F_bi = <<>> /\ F_ring \in Seq(Int) /\ F_pos \in 0..samplesinFile
  BY <1>1 DEF FileTrue, FileTypes
<1>4. r \in Seq(Int) /\ Len(r) \in Nat /\ Len(r) <= Block \div 2
      /\ Len(r) <= samplesinFile - F_pos
  <2> DEFINE left == samplesinFile - F_pos
  <2>1. r \in Seq(Int) /\ Len(r) = IF Block \div 2 <= left THEN Block \div 2
                                   ELSE left
    BY <1>2, <1>3, FramesRead
  <2>2. left \in Nat
    BY <1>2, <1>3
  <2> HIDE DEF r, left
  <2>3. Len(r) \in Nat /\ Len(r) <= Block \div 2 /\ Len(r) <= left
    BY <1>2, <2>1, <2>2
  <2> QED
    BY <2>1, <2>3 DEF left
<1> HIDE DEF r
<1>5. FileTypes'
  <2>1. F_pos + Len(r) \in 0..samplesinFile
    BY <1>2, <1>3, <1>4
  <2>2. Len(r) <= Block
    BY <1>2, <1>4
  <2> QED
    BY <1>1, <1>4, <2>1, <2>2 DEF FileTrue, FileTypes
<1>6. RoomKept'
  BY <1>1 DEF FileTrue, RoomKept, F!Room
<1>7. FilePlayed'
  <2> SUFFICES ASSUME ~F_converts PROVE Played(F_ring \o r, F_pos + Len(r))
    BY <1>1 DEF FileTrue, FilePlayed
  <2>1. F_ring \o F_bi = F_ring
    BY <1>3, ConcatEmptySeq
  <2>2. Played(F_ring, F_pos)
    BY <1>1, <2>1 DEF FileTrue, FilePlayed, Reading
  <2> QED
    BY <1>2, <1>3, <2>2, FramesPlayed DEF r
<1> QED
  BY <1>5, <1>6, <1>7 DEF FileTrue

(* The rest of it, and the start again, or silence, at the end of the file. *)
LEMMA ReadsMoreTrue ==
    ASSUME FileTrue, F!ReadsMore
    PROVE  FileTrue'
<1> DEFINE n == Block - Len(F_bi)
           r == F!FramesAt(n)
           all == F_bi \o r
           silence == [k \in 1..Block |-> F!Silence]
<1>1. /\ F_tpc = "more" /\ F_tpc' = "put"
      /\ F_bi' = IF all = <<>> THEN silence ELSE all
      /\ F_pos' = IF Len(all) < Block THEN 0 ELSE F_pos + Len(all) - Len(F_bi)
      /\ UNCHANGED <<F_converts, F_running, F_ring>>
  BY DEF F!ReadsMore, F!runOnly, F!file
<1>2. /\ Block \in Nat /\ Block > 0 /\ samplesinFile \in Nat
      /\ F_bi \in Seq(Int) /\ Len(F_bi) \in Nat /\ Len(F_bi) <= Block
      /\ F_ring \in Seq(Int) /\ F_pos \in 0..samplesinFile
  BY DevicesAssumption DEF FileTrue, FileTypes
<1>3. n \in Nat
  BY <1>2
<1>4. /\ r \in Seq(Int) /\ Len(r) \in Nat /\ Len(r) <= n
      /\ Len(r) = IF n <= samplesinFile - F_pos THEN n ELSE samplesinFile - F_pos
  <2> HIDE DEF n
  <2>1. /\ r \in Seq(Int)
        /\ Len(r) = IF n <= samplesinFile - F_pos THEN n ELSE samplesinFile - F_pos
    BY <1>2, <1>3, FramesRead
  <2> HIDE DEF r
  <2> QED
    BY <1>2, <1>3, <2>1
<1>5. /\ F_pos + Len(r) \in 0..samplesinFile
      /\ ~F_converts => Played((F_ring \o F_bi) \o r, F_pos + Len(r))
  <2>1. F_pos + Len(r) \in 0..samplesinFile
    <3> HIDE DEF r, n
    <3> QED
      BY <1>2, <1>3, <1>4
  <2>2. ASSUME ~F_converts PROVE Played((F_ring \o F_bi) \o r, F_pos + Len(r))
    <3>1. Played(F_ring \o F_bi, F_pos)
      BY <1>1, <2>2 DEF FileTrue, FilePlayed, Reading
    <3>2. F_ring \o F_bi \in Seq(Int)
      BY <1>2, ConcatProperties
    <3> QED
      BY <1>2, <1>3, <3>1, <3>2, FramesPlayed
  <2> QED
    BY <2>1, <2>2
<1> HIDE DEF r
<1>6. all \in Seq(Int) /\ Len(all) = Len(F_bi) + Len(r) /\ Len(all) <= Block
  <2>1. r \in Seq(Int) /\ F_bi \in Seq(Int)
    BY <1>2, <1>4
  <2>2. all \in Seq(Int) /\ Len(all) = Len(F_bi) + Len(r)
    BY <2>1, ConcatProperties
  <2>3. Len(F_bi) + Len(r) <= Block
    BY <1>2, <1>4
  <2> QED
    BY <2>2, <2>3
<1>7. (F_ring \o F_bi) \o r = F_ring \o all
  <2>1. r \in Seq(Int) /\ F_bi \in Seq(Int) /\ F_ring \in Seq(Int)
    BY <1>2, <1>4
  <2> QED
    BY <2>1, ConcatAssociative
<1>8. silence \in Seq(Int) /\ Len(silence) = Block
  <2>1. F!Silence \in Int
    BY DEF F!Silence
  <2>2. silence \in [1..Block -> Int]
    BY <2>1
  <2> HIDE DEF silence
  <2> QED
    BY <1>2, <2>2
<1>9. F_pos' = IF Len(all) < Block THEN 0 ELSE F_pos + Len(r)
  BY <1>1, <1>2, <1>4, <1>6
<1> HIDE DEF all, n
<1>10. FileTypes'
  <2>1. F_pos' \in 0..samplesinFile
    BY <1>2, <1>5, <1>9
  <2>2. F_bi' \in Seq(Int) /\ Len(F_bi') <= Block
    BY <1>1, <1>2, <1>6, <1>8
  <2> QED
    BY <1>1, <2>1, <2>2 DEF FileTrue, FileTypes
<1>11. RoomKept'
  BY <1>1 DEF FileTrue, RoomKept, F!Room
<1>12. FilePlayed'
  <2> SUFFICES ASSUME ~F_converts PROVE Played(F_ring \o F_bi', F_pos')
    BY <1>1 DEF FileTrue, FilePlayed
  <2>1. Played(F_ring \o all, F_pos + Len(r))
    BY <1>5, <1>7
  <2>2. CASE all = <<>>
    <3>1. Len(F_bi) = 0 /\ Len(r) = 0 /\ F_bi = <<>>
      BY <1>2, <1>4, <1>6, <2>2
    <3>2. F_pos + Len(r) = samplesinFile /\ F_pos' = 0
      <4>1. n = Block
        BY <1>2, <3>1 DEF n
      <4> QED
        BY <1>2, <1>4, <1>6, <1>9, <3>1, <4>1
    <3>3. F_ring \o all = F_ring
      BY <1>2, <2>2, ConcatEmptySeq
    <3>4. Played(F_ring, samplesinFile)
      BY <2>1, <3>2, <3>3
    <3> QED
      BY <1>1, <1>2, <2>2, <3>2, <3>4, SilencePlayed
  <2>3. CASE all # <<>> /\ Len(all) < Block
    <3>1. Played(F_ring \o all, 0)
      BY <1>5, <2>1, PlacesInFile, MovedPlayed
    <3> QED
      BY <1>1, <1>9, <2>3, <3>1
  <2>4. CASE all # <<>> /\ ~(Len(all) < Block)
    BY <1>1, <1>9, <2>1, <2>4
  <2> QED
    BY <2>2, <2>3, <2>4
<1> QED
  BY <1>10, <1>11, <1>12 DEF FileTrue

(* The block goes into the ring whole, but when the reader is stopped.     *)
LEMMA PutsTrue ==
    ASSUME FileTrue, F!Puts
    PROVE  FileTrue'
<1>1. /\ F_bi \in Seq(Int) /\ Len(F_bi) \in Nat /\ Len(F_bi) <= Block
      /\ F_ring \in Seq(Int) /\ Len(F_ring) \in Nat /\ Len(F_ring) <= FileRing
      /\ FileRing \in Nat /\ Block \in Nat /\ Spare \in Nat
  BY DevicesAssumption DEF FileTrue, FileTypes
<1>2. PICK m \in Nat :
         /\ m = F!Min({Len(F_bi), F!Room})
         /\ m <= Len(F_bi) /\ Len(F_ring) + m <= FileRing
         /\ (Len(F_bi) + Len(F_ring) <= FileRing => m = Len(F_bi))
  <2>1. F!Room = FileRing - Len(F_ring) /\ FileRing - Len(F_ring) \in Int
    BY <1>1 DEF F!Room
  <2>2. PICK a \in Int, b \in Int : a = Len(F_bi) /\ b = FileRing - Len(F_ring)
    <3>1. Len(F_bi) \in Int /\ FileRing - Len(F_ring) \in Int
      BY <1>1
    <3> QED
      BY <3>1
  <2>3. F!Min({a, b}) = IF a <= b THEN a ELSE b
    BY MinOfTwo
  <2>4. F!Min({Len(F_bi), F!Room}) = IF a <= b THEN a ELSE b
    BY <2>1, <2>2, <2>3
  <2>5. PICK c \in Nat : c = IF a <= b THEN a ELSE b
    <3>1. (IF a <= b THEN a ELSE b) \in Nat
      BY <1>1, <2>2
    <3> QED
      BY <3>1
  <2>6. /\ c <= Len(F_bi) /\ Len(F_ring) + c <= FileRing
        /\ (Len(F_bi) + Len(F_ring) <= FileRing => c = Len(F_bi))
    BY <1>1, <2>2, <2>5
  <2>7. c = F!Min({Len(F_bi), F!Room})
    BY <2>4, <2>5
  <2> QED
    BY <2>6, <2>7
<1> DEFINE r == SubSeq(F_bi, 1, m)
           q == F_ring \o F_bi
           w == F_ring \o r
<1>3. /\ F_tpc = "put" /\ F_tpc' = "report" /\ F_bi' = <<>>
      /\ F_ring' = w \/ (F_converts /\ F_ring' = F_ring)
      /\ UNCHANGED <<F_converts, F_running, F_pos>>
  <2>1. r = SubSeq(F_bi, 1, F!Min({Len(F_bi), F!Room}))
    BY <1>2
  <2> HIDE DEF r
  <2> QED
    BY <2>1 DEF F!Puts, F!runOnly, F!file
<1>4. r \in Seq(Int) /\ Len(r) = m /\ \A k \in 1..m : r[k] = F_bi[k]
  <2>1. \A i \in 1..m : F_bi[i] \in Int
    BY <1>1, <1>2
  <2>2. /\ r \in Seq(Int) /\ Len(r) = IF 1 <= m THEN m - 1 + 1 ELSE 0
        /\ \A i \in 1..(m - 1 + 1) : r[i] = F_bi[1 + i - 1]
    <3>1. 1 \in Int /\ m \in Int
      OBVIOUS
    <3> HIDE DEF r
    <3>2. r = SubSeq(F_bi, 1, m)
      BY DEF r
    <3> QED
      BY <2>1, <3>1, <3>2, SubSeqProperties
  <2> HIDE DEF r
  <2>3. m - 1 + 1 = m /\ \A k \in 1..m : 1 + k - 1 = k
    OBVIOUS
  <2>4. Len(r) = m
    BY <2>2
  <2>5. ASSUME NEW k \in 1..m PROVE r[k] = F_bi[k]
    BY <2>2, <2>3
  <2> QED
    BY <2>2, <2>4, <2>5
<1> HIDE DEF r
<1>5. /\ w \in Seq(Int) /\ Len(w) = Len(F_ring) + m
      /\ \A i \in 1..(Len(F_ring) + m) :
            w[i] = IF i <= Len(F_ring) THEN F_ring[i] ELSE r[i - Len(F_ring)]
  <2>1. /\ w \in Seq(Int) /\ Len(w) = Len(F_ring) + Len(r)
        /\ \A i \in 1..(Len(F_ring) + Len(r)) :
            w[i] = IF i <= Len(F_ring) THEN F_ring[i] ELSE r[i - Len(F_ring)]
    BY <1>1, <1>4, ConcatProperties
  <2> HIDE DEF w
  <2> QED
    BY <1>4, <2>1
<1>6. /\ q \in Seq(Int) /\ Len(q) = Len(F_ring) + Len(F_bi)
      /\ \A i \in 1..(Len(F_ring) + Len(F_bi)) :
            q[i] = IF i <= Len(F_ring) THEN F_ring[i] ELSE F_bi[i - Len(F_ring)]
  BY <1>1, ConcatProperties
<1> HIDE DEF q, w
<1>7. \A i \in 1..Len(w) : w[i] = q[i + 0]
  <2> SUFFICES ASSUME NEW i \in 1..Len(w) PROVE w[i] = q[i]
    OBVIOUS
  <2>1. i \in 1..(Len(F_ring) + m) /\ i \in 1..(Len(F_ring) + Len(F_bi))
    BY <1>1, <1>2, <1>5
  <2>2. CASE i <= Len(F_ring)
    BY <1>5, <1>6, <2>1, <2>2
  <2>3. CASE ~(i <= Len(F_ring))
    <3>1. i - Len(F_ring) \in 1..m
      BY <1>1, <1>2, <2>1, <2>3
    <3> QED
      BY <1>4, <1>5, <1>6, <2>1, <2>3, <3>1
  <2> QED
    BY <2>2, <2>3
<1>8. FileTypes'
  <2>1. Len(w) <= FileRing
    BY <1>1, <1>2, <1>5
  <2>2. <<>> \in Seq(Int) /\ Len(<<>>) = 0
    OBVIOUS
  <2>3. F_ring' \in Seq(Int) /\ Len(F_ring') <= FileRing
    BY <1>3, <1>1, <1>5, <2>1
  <2> QED
    BY <1>3, <1>1, <2>2, <2>3 DEF FileTrue, FileTypes
<1>9. RoomKept'
  BY <1>3 DEF RoomKept
<1>10. FilePlayed'
  <2> SUFFICES ASSUME ~F_converts
               PROVE  /\ IsChain(w) /\ IsHeard(w)
                      /\ F_running => Played(w \o <<>>, F_pos)
    BY <1>3 DEF FilePlayed, Reading
  <2>1. Played(q, F_pos)
    BY <1>3 DEF FileTrue, FilePlayed, Reading, q
  <2>2. IsChain(w) /\ IsHeard(w)
    <3>1. 0 + Len(w) <= Len(q) /\ 0 \in Nat
      BY <1>1, <1>2, <1>5, <1>6
    <3> QED
      BY <1>5, <1>6, <1>7, <2>1, <3>1, PartPlayed DEF Played
  <2>3. ASSUME F_running PROVE Played(w \o <<>>, F_pos)
    <3>1. Len(F_bi) + Len(F_ring) <= FileRing
      BY <1>3, <1>1, <2>3 DEF FileTrue, RoomKept, F!Room
    <3>2. Len(w) = Len(q)
      BY <1>2, <1>5, <1>6, <3>1
    <3>3. \A i \in 1..Len(w) : w[i] = q[i]
      <4>1. \A i \in 1..Len(w) : i + 0 = i
        OBVIOUS
      <4> QED
        BY <1>7, <4>1
    <3>4. w = q
      BY <1>5, <1>6, <3>2, <3>3, SeqEqual
    <3>5. w \o <<>> = w
      BY <1>5, ConcatEmptySeq
    <3> QED
      BY <2>1, <3>4, <3>5
  <2> QED
    BY <2>2, <2>3
<1> QED
  BY <1>8, <1>9, <1>10 DEF FileTrue

LEMMA FileTrueInit == F!Init => FileTrue
<1> SUFFICES ASSUME F!Init PROVE FileTrue
  OBVIOUS
<1>1. /\ F_tpc = "none" /\ F_running = FALSE /\ F_pos = 0
      /\ F_bi = <<>> /\ F_ring = <<>>
  BY DEF F!Init
<1>2. <<>> \in Seq(Int) /\ Len(<<>>) = 0
  OBVIOUS
<1>3. FileTypes
  BY <1>1, <1>2, DevicesAssumption DEF FileTypes
<1>4. IsChain(<<>>) /\ IsHeard(<<>>)
  BY <1>2, DevicesAssumption DEF IsChain, IsHeard
<1> QED
  BY <1>1, <1>3, <1>4 DEF FileTrue, RoomKept, FilePlayed, Reading

\* Steps that neither read nor put.
FileStands ==
    /\ F_converts' = F_converts /\ F_pos' = F_pos
    /\ F_bi' = F_bi /\ F_ring' = F_ring
    /\ F_tpc' = F_tpc \/ (F_tpc = "none" /\ F_tpc' = "started")
    /\ F_running' => F_running

LEMMA FileStandsTrue ==
    ASSUME FileTrue, FileStands
    PROVE  FileTrue'
BY DEF FileStands, FileTrue, FileTypes, RoomKept, FilePlayed, Reading, F!Room

LEMMA FileTrueStep ==
    ASSUME FileHeld, FileTrue, F!Next
    PROVE  FileTrue'
<1> USE DEF F!file, F!runOnly
<1>1. CASE F!RestartReader
  BY <1>1, FileStandsTrue DEF F!RestartReader, FileHeld, FileStands
<1>2. ASSUME NEW f \in F!Percents, F!SetFileat(f)
      PROVE  FileTrue'
  <2>1. /\ F_pos' \in Places
        /\ UNCHANGED <<F_converts, F_bi, F_ring, F_tpc, F_running>>
    BY <1>2 DEF F!SetFileat, Places
  <2>2. F_pos' \in 0..samplesinFile /\ F_pos \in 0..samplesinFile
    BY <2>1, PlacesInFile, DevicesAssumption DEF FileTrue, FileTypes
  <2>3. FileTypes' /\ RoomKept'
    BY <2>1, <2>2 DEF FileTrue, FileTypes, RoomKept, F!Room
  <2>4. FilePlayed'
    BY <2>1, <2>2, MovedPlayed DEF FileTrue, FilePlayed, Reading
  <2> QED
    BY <2>3, <2>4 DEF FileTrue
<1>3. CASE F!Reset
  BY <1>3, FileStandsTrue DEF F!Reset, FileStands
<1>4. CASE F!SampleHandler
  BY <1>4, SampleHandlerTrue
<1>5. CASE F!Quit \/ F!Delete
  BY <1>5, FileStandsTrue DEF F!Quit, F!Delete, F!StopReader, FileStands
<1>6. CASE F!Stopped("stop", "delete") \/ F!Stopped("stopAgain", "close")
  BY <1>6, FileStandsTrue DEF F!Stopped, FileStands
<1>7. CASE F!Close \/ F!Destroy
  BY <1>7, FileStandsTrue DEF F!Close, F!Destroy, FileStands
<1>8. CASE F!Begins
  <2>1. /\ F_tpc = "started" /\ F_tpc' \in {"loop", "ended"}
        /\ F_bi = <<>> /\ F_ring = <<>>
        /\ UNCHANGED <<F_converts, F_pos, F_bi, F_ring>>
    BY <1>8 DEF F!Begins, FileTrue, FileTypes
  <2>2. FileTypes' /\ RoomKept'
    BY <2>1 DEF FileTrue, FileTypes, RoomKept
  <2>3. <<>> \in Seq(Int) /\ Len(<<>>) = 0 /\ <<>> \o <<>> = <<>>
    BY ConcatEmptySeq
  <2>4. IsChain(<<>>) /\ IsHeard(<<>>)
    BY <2>3, DevicesAssumption DEF IsChain, IsHeard
  <2>5. Played(F_ring' \o F_bi', F_pos')
    BY <2>1, <2>3, <2>4 DEF Played, EndsSilent
  <2> QED
    BY <2>1, <2>2, <2>4, <2>5 DEF FileTrue, FilePlayed
<1>9. CASE F!Ends
  BY <1>9 DEF F!Ends, FileTrue, FileTypes, RoomKept, FilePlayed, Reading
<1>10. CASE F!Loops
  <2>1. /\ F_tpc = "loop" /\ F_running /\ F_tpc' = "room"
        /\ F_pos' = F_pos \/ F_pos' = 0
        /\ UNCHANGED <<F_converts, F_running, F_bi, F_ring>>
    BY <1>10 DEF F!Loops
  <2>2. F_pos' \in 0..samplesinFile /\ F_pos \in 0..samplesinFile
    BY <2>1, DevicesAssumption DEF FileTrue, FileTypes
  <2>3. FileTypes' /\ RoomKept'
    BY <2>1, <2>2 DEF FileTrue, FileTypes, RoomKept
  <2>4. FilePlayed'
    BY <2>1, <2>2, MovedPlayed, PlacesInFile
       DEF FileTrue, FilePlayed, Reading
  <2> QED
    BY <2>3, <2>4 DEF FileTrue
<1>11. CASE F!HasRoom
  <2>1. /\ F_tpc = "room" /\ F_tpc' = "read" /\ F_bi' = <<>> /\ F_bi = <<>>
        /\ F_running => Block + Spare <= F!Room
        /\ UNCHANGED <<F_converts, F_running, F_pos, F_ring>>
    BY <1>11 DEF F!HasRoom, F!Room, FileTrue, FileTypes, DevicesAssumption
  <2> QED
    BY <2>1 DEF FileTrue, FileTypes, RoomKept, FilePlayed, Reading, F!Room
<1>12. CASE F!Reads
  BY <1>12, ReadsTrue
<1>13. CASE F!ReadsMore
  BY <1>13, ReadsMoreTrue
<1>14. CASE F!Puts
  BY <1>14, PutsTrue
<1>15. CASE F!Reports
  BY <1>15 DEF F!Reports, FileTrue, FileTypes, RoomKept, FilePlayed, Reading
<1> QED
  BY <1>1, <1>2, <1>3, <1>4, <1>5, <1>6, <1>7, <1>8, <1>9, <1>10, <1>11,
     <1>12, <1>13, <1>14, <1>15 DEF F!Next, F!Gui, F!Runs, F!Run

(* What SamplesTrue says of the file.                                      *)
LEMMA FileSamples ==
    ASSUME FileTrue
    PROVE  F!NothingDropped /\ F!Continuous /\ F!StartsAgain
<1>1. F!NothingDropped
  BY DevicesAssumption
     DEF FileTrue, FileTypes, RoomKept, F!NothingDropped, F!Room
<1>2. F!Continuous
  BY DEF FileTrue, FilePlayed, IsChain, F!Continuous
<1>3. F!StartsAgain
  BY DEF FileTrue, FilePlayed, IsHeard, F!StartsAgain
<1> QED
  BY <1>1, <1>2, <1>3

-----------------------------------------------------------------------------
(* The hackrf's count of what it has not reported.  What ClearsCount can   *)
(* take from it, once, is what was counted since the last report: no more  *)
(* than the limit and one callback.                                        *)
Lost == IF H_gpc \in {"loop", "close", "gone"} THEN HackrfLimit + Cnt ELSE 0
Counting == IF H_tpc \in {"store", "test"} THEN Cnt ELSE 0

HackrfTypes ==
    /\ H_garbage \in Int /\ H_sampleCnt \in Int /\ H_loaded \in Int
    /\ H_unreported \in Int /\ H_inRing \in 0..HackrfRing

HackrfCounts ==
    H_garbage >= 0 =>
        /\ H_tpc # "store" => H_unreported <= H_sampleCnt + Lost
        /\ H_tpc = "store" => H_unreported <= H_loaded + Cnt + Lost
        /\ H_unreported <= HackrfLimit + Lost + Counting

HackrfTrue == HackrfTypes /\ HackrfCounts

LEMMA HackrfTrueInit == H!Init => HackrfTrue
BY DevicesAssumption
   DEF H!Init, HackrfTrue, HackrfTypes, HackrfCounts, Lost, Counting

LEMMA HackrfTrueStep ==
    ASSUME HackrfTrue, H!Next
    PROVE  HackrfTrue'
<1> USE DevicesAssumption DEF HackrfTrue, HackrfTypes, HackrfCounts, Lost,
        Counting, H!held, H!countVars, H!threadOnly, H!Step
<1>1. CASE H!LoadsLibrary
  BY <1>1 DEF H!LoadsLibrary
<1>2. CASE H!LoadsFunctions
  BY <1>2 DEF H!LoadsFunctions
<1>3. CASE H!InitsLibrary
  BY <1>3 DEF H!InitsLibrary
<1>4. CASE H!OpensDevice
  BY <1>4 DEF H!OpensDevice
<1>5. CASE H!SetsUp
  BY <1>5 DEF H!SetsUp
<1>6. CASE H!Again
  BY <1>6 DEF H!Again
<1>7. CASE H!StartsStream
  BY <1>7 DEF H!StartsStream
<1>8. CASE H!StoresRunning
  BY <1>8 DEF H!StoresRunning
<1>9. CASE H!ClearsCount
  BY <1>9 DEF H!ClearsCount
<1>10. CASE H!SampleHandler
  <2> DEFINE d == (IF H_inRing > Chunk THEN (H_inRing - 1) \div Chunk ELSE 0)
                  * Chunk
  <2>1. H_inRing' = H_inRing - d
    BY <1>10 DEF H!SampleHandler
  <2>2. d \in 0..H_inRing
    BY WholeChunks
  <2>3. H_inRing' \in 0..HackrfRing
    <3> HIDE DEF d
    <3> QED
      BY <2>1, <2>2
  <2> HIDE DEF d
  <2> QED
    BY <1>10, <2>3 DEF H!SampleHandler
<1>11. CASE H!StopReader
  BY <1>11 DEF H!StopReader
<1>12. CASE H!Destructor
  BY <1>12 DEF H!Destructor
<1>13. CASE H!TransferArrives
  BY <1>13 DEF H!TransferArrives
<1>14. CASE H!Puts
  <2>1. H_inRing' \in 0..HackrfRing /\ H_inRing' <= H_inRing + Cnt
    BY <1>14 DEF H!Puts
  <2>2. H_unreported' \in Int /\ H_unreported' <= H_unreported + Cnt
    BY <1>14, <2>1 DEF H!Puts
  <2> QED
    BY <1>14, <2>1, <2>2 DEF H!Puts
<1>15. CASE H!StoresCount
  BY <1>15 DEF H!StoresCount
<1>16. CASE H!Reports
  BY <1>16 DEF H!Reports
<1> QED
  BY <1>1, <1>2, <1>3, <1>4, <1>5, <1>6, <1>7, <1>8, <1>9, <1>10, <1>11,
     <1>12, <1>13, <1>14, <1>15, <1>16 DEF H!Next, H!Gui, H!CallBack

LEMMA HackrfSamples == HackrfTrue => H!ReportsInTime
BY DevicesAssumption DEF HackrfTrue, HackrfTypes, HackrfCounts, Lost,
   Counting, H!ReportsInTime

-----------------------------------------------------------------------------
(* The rtl_tcp client.  What the server s will be when it has applied the  *)
(* commands q.                                                             *)
Has(q, s, c, value) ==
    LET set == {k \in DOMAIN q : q[k].cmd = c}
    IN  \/ set = {} /\ s[c] = value
        \/ \E last \in set : /\ q[last].param = value
                            /\ \A k \in set : k <= last

LEMMA CommandSent ==
    ASSUME NEW q \in Seq(T!Commands), NEW e \in T!Commands, NEW s
    PROVE  /\ q \o <<e>> \in Seq(T!Commands)
           /\ Has(q \o <<e>>, s, e.cmd, e.param)
           /\ \A c, v : Has(q, s, c, v) /\ c # e.cmd => Has(q \o <<e>>, s, c, v)
<1> DEFINE w == q \o <<e>>
           n == Len(q)
<1>1. /\ w \in Seq(T!Commands) /\ n \in Nat /\ Len(w) = n + 1
      /\ w[n + 1] = e /\ \A k \in 1..n : w[k] = q[k]
  <2>1. <<e>> \in Seq(T!Commands) /\ Len(<<e>>) = 1 /\ <<e>>[1] = e
    OBVIOUS
  <2>2. /\ w \in Seq(T!Commands) /\ Len(w) = n + 1
        /\ \A i \in 1..(n + 1) : w[i] = IF i <= n THEN q[i] ELSE <<e>>[i - n]
    BY <2>1, ConcatProperties
  <2>3. n \in Nat /\ n + 1 \in 1..(n + 1) /\ (n + 1) - n = 1 /\ ~(n + 1 <= n)
    OBVIOUS
  <2> HIDE DEF w, n
  <2> QED
    BY <2>1, <2>2, <2>3
<1> HIDE DEF w
<1>2. DOMAIN q = 1..n /\ DOMAIN w = 1..(n + 1)
  BY <1>1
<1> HIDE DEF n
<1>3. Has(w, s, e.cmd, e.param)
  BY <1>1, <1>2 DEF Has
<1>4. ASSUME NEW c, NEW v, Has(q, s, c, v), c # e.cmd
      PROVE  Has(w, s, c, v)
  <2>1. {k \in DOMAIN w : w[k].cmd = c} = {k \in DOMAIN q : q[k].cmd = c}
    BY <1>1, <1>2, <1>4
  <2>2. CASE {k \in DOMAIN q : q[k].cmd = c} = {} /\ s[c] = v
    BY <2>1, <2>2 DEF Has
  <2>3. ASSUME NEW last \in {k \in DOMAIN q : q[k].cmd = c},
               q[last].param = v,
               \A k \in {k \in DOMAIN q : q[k].cmd = c} : k <= last
        PROVE  Has(w, s, c, v)
    <3>1. w[last].param = v
      BY <1>1, <1>2, <2>3
    <3> QED
      BY <2>1, <2>3, <3>1 DEF Has
  <2> QED
    BY <1>4, <2>2, <2>3 DEF Has
<1> QED
  BY <1>1, <1>3, <1>4 DEF w

LEMMA CommandApplied ==
    ASSUME NEW q \in Seq(T!Commands), q # <<>>, NEW s, NEW c \in DOMAIN s, NEW v,
           Has(q, s, c, v)
    PROVE  Has(Tail(q), [s EXCEPT ![Head(q).cmd] = Head(q).param], c, v)
<1> DEFINE t == Tail(q)
           n == Len(q)
           r == [s EXCEPT ![Head(q).cmd] = Head(q).param]
<1>1. /\ n \in Nat /\ n > 0 /\ t \in Seq(T!Commands) /\ Len(t) = n - 1
      /\ \A k \in 1..(n - 1) : t[k] = q[k + 1]
      /\ Head(q) = q[1]
  BY HeadTailProperties
<1>2. r[c] = IF c = q[1].cmd THEN q[1].param ELSE s[c]
  BY <1>1
<1> HIDE DEF t, r
<1>3. DOMAIN q = 1..n /\ DOMAIN t = 1..(n - 1)
  BY <1>1
<1> HIDE DEF n
<1>4. SUFFICES Has(t, r, c, v)
  BY DEF t, r
<1>5. CASE {k \in DOMAIN t : t[k].cmd = c} = {}
  <2>1. \A k \in 1..n : q[k].cmd = c => k = 1
    <3> SUFFICES ASSUME NEW k \in 1..n, q[k].cmd = c, k # 1 PROVE FALSE
      OBVIOUS
    <3> DEFINE j == k - 1
    <3>1. j \in 1..(n - 1) /\ j + 1 = k
      BY <1>1
    <3> HIDE DEF j
    <3> QED
      BY <1>1, <1>3, <1>5, <3>1
  <2>2. r[c] = v
    BY <1>1, <1>2, <1>3, <2>1 DEF Has
  <2> QED
    BY <1>5, <2>2 DEF Has
<1>6. CASE {k \in DOMAIN t : t[k].cmd = c} # {}
  <2>1. PICK j \in 1..(n - 1) : t[j].cmd = c
    BY <1>3, <1>6
  <2>2. j + 1 \in 1..n /\ q[j + 1].cmd = c /\ j + 1 > 1
    BY <1>1, <2>1
  <2>3. PICK last \in 1..n : /\ q[last].cmd = c /\ q[last].param = v
                             /\ \A k \in 1..n : q[k].cmd = c => k <= last
    BY <1>3, <2>2 DEF Has
  <2>4. PICK l \in 1..(n - 1) : l = last - 1
    BY <1>1, <2>2, <2>3
  <2>5. l + 1 = last
    BY <2>4
  <2>6. t[l].cmd = c /\ t[l].param = v
    BY <1>1, <2>3, <2>5
  <2>7. ASSUME NEW k \in 1..(n - 1), t[k].cmd = c PROVE k <= l
    <3>1. k + 1 \in 1..n /\ q[k + 1].cmd = c
      BY <1>1, <2>7
    <3>2. k + 1 <= last
      BY <2>3, <3>1
    <3> QED
      BY <2>5, <3>2
  <2> QED
    BY <1>3, <2>6, <2>7 DEF Has
<1> QED
  BY <1>5, <1>6

LEMMA ThreeSent ==
    ASSUME NEW g, NEW f, NEW v, NEW s
    PROVE  LET q == <<T!Command("gain", g), T!Command("frequency", f),
                      T!Command("frequency", v)>>
           IN  Has(q, s, "gain", g) /\ Has(q, s, "frequency", v)
<1> DEFINE q == <<T!Command("gain", g), T!Command("frequency", f),
                  T!Command("frequency", v)>>
<1>1. /\ DOMAIN q = 1..3
      /\ q[1].cmd = "gain" /\ q[1].param = g /\ q[2].cmd = "frequency"
      /\ q[3].cmd = "frequency" /\ q[3].param = v
  BY DEF T!Command
<1> HIDE DEF q
<1>2. {k \in DOMAIN q : q[k].cmd = "gain"} = {1}
  BY <1>1
<1>3. {k \in DOMAIN q : q[k].cmd = "frequency"} = {2, 3}
  BY <1>1
<1> QED
  BY <1>1, <1>2, <1>3 DEF Has, q

-----------------------------------------------------------------------------
(* readData is connected when the client is, and then there is a filter;   *)
(* connections to setConnection are made only when it is not.              *)
TcpReads ==
    /\ T_wants > 0 => ~T_connected /\ T_downFilter
    /\ T_gone => T_wants = 0
    /\ T_connected /\ ~T_gone => T_downFilter
    /\ T!ReadOnce

TcpTypes ==
    /\ T_wants \in Nat
    /\ T_vfoFrequency \in Frequencies \cup {DefaultFrequency}
    /\ T_theGain \in Gains
    /\ T_toServer \in Seq(T!Commands)
    /\ DOMAIN T_server = {"frequency", "gain"}

TcpFollows ==
    T_connected /\ T_open =>
        /\ Has(T_toServer, T_server, "frequency", T_vfoFrequency)
        /\ Has(T_toServer, T_server, "gain", T_theGain)

TcpTrue == TcpReads /\ TcpTypes /\ TcpFollows

LEMMA TcpTrueInit == T!Init => TcpTrue
BY DEF T!Init, T!Unset, TcpTrue, TcpReads, TcpTypes, TcpFollows, T!ReadOnce

LEMMA TcpReadsStep ==
    ASSUME TcpReads, TcpTypes, T!Next
    PROVE  TcpReads'
<1> USE DEF TcpReads, TcpTypes, T!ReadOnce, T!ui, T!values, T!samples
<1>1. CASE T!WantConnect
  BY <1>1 DEF T!WantConnect
<1>2. CASE T!SetConnection
  BY <1>2 DEF T!SetConnection, T!ConnectSucceeds
<1>3. CASE T!SetDisconnect
  BY <1>3 DEF T!SetDisconnect, T!StopReader
<1>4. CASE T!HandleRateSelector
  BY <1>4 DEF T!HandleRateSelector
<1>5. CASE T!Quit
  BY <1>5 DEF T!Quit, T!StopReader
<1>6. CASE T!ReadData
  <2>1. /\ T_readers > 0 /\ T_crashed' = (T_crashed \/ ~T_downFilter)
        /\ UNCHANGED T!ui
    BY <1>6 DEF T!ReadData
  <2>2. T_connected /\ ~T_gone
    BY <2>1
  <2>3. ~T_crashed /\ T_downFilter
    BY <2>2
  <2>4. ~T_crashed'
    BY <2>1, <2>3
  <2> QED
    BY <2>1, <2>4
<1>7. CASE T!ServerSends
  BY <1>7 DEF T!ServerSends
<1>8. CASE T!ServerApplies
  BY <1>8 DEF T!ServerApplies
<1>9. CASE T!ServerCloses
  BY <1>9 DEF T!ServerCloses
<1>10. ASSUME NEW f \in Frequencies, T!SetVFOFrequency(f) PROVE TcpReads'
  BY <1>10 DEF T!SetVFOFrequency
<1>11. ASSUME NEW g \in Gains, T!SendGain(g) PROVE TcpReads'
  BY <1>11 DEF T!SendGain
<1> QED
  BY <1>1, <1>2, <1>3, <1>4, <1>5, <1>6, <1>7, <1>8, <1>9, <1>10, <1>11
     DEF T!Next

\* Steps that leave the commands and the server alone, or lose the connection.
TcpStands ==
    /\ T_wants' \in Nat
    /\ T_vfoFrequency' = T_vfoFrequency /\ T_theGain' = T_theGain
    /\ T_server' = T_server
    /\ \/ /\ T_toServer' = T_toServer
          /\ T_connected' = T_connected /\ T_open' = T_open
       \/ /\ (T_toServer' = T_toServer) \/ (T_toServer' = <<>>)
          /\ (~T_open') \/ (~T_connected')

LEMMA TcpStandsTrue ==
    ASSUME TcpTypes, TcpFollows, TcpStands
    PROVE  (TcpTypes /\ TcpFollows)'
<1>1. <<>> \in Seq(T!Commands)
  OBVIOUS
<1>2. TcpTypes'
  BY <1>1 DEF TcpTypes, TcpStands
<1>3. CASE (~T_open') \/ (~T_connected')
  BY <1>2, <1>3 DEF TcpFollows
<1>4. CASE /\ T_toServer' = T_toServer
           /\ T_connected' = T_connected /\ T_open' = T_open
  <2>1. T_server' = T_server /\ T_vfoFrequency' = T_vfoFrequency
        /\ T_theGain' = T_theGain
    BY DEF TcpStands
  <2>2. TcpFollows'
    BY <1>4, <2>1 DEF TcpFollows
  <2> QED
    BY <1>2, <2>2
<1> QED
  BY <1>3, <1>4 DEF TcpStands

LEMMA TcpFollowsStep ==
    ASSUME TcpTypes, TcpFollows, T!Next
    PROVE  (TcpTypes /\ TcpFollows)'
<1> USE DEF TcpTypes, T!ui, T!values, T!samples
<1>1. CASE T!WantConnect
  BY <1>1, TcpStandsTrue DEF T!WantConnect, TcpStands
<1>2. CASE T!SetConnection
  <2>1. CASE T!ConnectSucceeds
    <3> DEFINE q == <<T!Command("gain", T_theGain),
                      T!Command("frequency", StartFrequency),
                      T!Command("frequency", T_vfoFrequency)>>
    <3>1. /\ T_toServer' = q /\ T_server' = T!Unset /\ T_wants' = 0
          /\ T_vfoFrequency' = T_vfoFrequency /\ T_theGain' = T_theGain
      BY <1>2, <2>1 DEF T!SetConnection, T!ConnectSucceeds
    <3>2. q \in Seq(T!Commands)
      BY DEF T!Commands, T!Command, T!AllFrequencies
    <3>3. DOMAIN T_server' = {"frequency", "gain"}
      BY <3>1 DEF T!Unset
    <3>4. /\ Has(q, T_server', "gain", T_theGain)
          /\ Has(q, T_server', "frequency", T_vfoFrequency)
      BY ThreeSent
    <3> HIDE DEF q
    <3> QED
      BY <3>1, <3>2, <3>3, <3>4 DEF TcpFollows
  <2>2. CASE UNCHANGED <<T_open, T_connected, T_toServer, T_readers, T_server,
                         T_blocks>>
    BY <1>2, <2>2, TcpStandsTrue DEF T!SetConnection, TcpStands
  <2> QED
    BY <1>2, <2>1, <2>2 DEF T!SetConnection
<1>3. CASE T!SetDisconnect
  BY <1>3, TcpStandsTrue DEF T!SetDisconnect, TcpStands
<1>4. CASE T!HandleRateSelector
  BY <1>4, TcpStandsTrue DEF T!HandleRateSelector, TcpStands
<1>5. CASE T!Quit
  BY <1>5, TcpStandsTrue DEF T!Quit, TcpStands
<1>6. CASE T!ReadData
  BY <1>6, TcpStandsTrue DEF T!ReadData, TcpStands
<1>7. CASE T!ServerSends
  BY <1>7, TcpStandsTrue DEF T!ServerSends, TcpStands
<1>8. CASE T!ServerApplies
  <2> DEFINE c == Head(T_toServer)
  <2>1. /\ T_toServer # <<>> /\ T_toServer' = Tail(T_toServer)
        /\ T_server' = [T_server EXCEPT ![c.cmd] = c.param]
        /\ UNCHANGED <<T_wants, T_connected, T_open, T_vfoFrequency, T_theGain>>
    BY <1>8 DEF T!ServerApplies
  <2>2. Tail(T_toServer) \in Seq(T!Commands)
    BY <2>1, HeadTailProperties
  <2>3. DOMAIN T_server' = {"frequency", "gain"}
    BY <2>1
  <2>4. \A d \in {"frequency", "gain"} : \A v :
           Has(T_toServer, T_server, d, v) => Has(T_toServer', T_server', d, v)
    BY <2>1, CommandApplied
  <2> QED
    BY <2>1, <2>2, <2>3, <2>4 DEF TcpFollows
<1>9. CASE T!ServerCloses
  BY <1>9, TcpStandsTrue DEF T!ServerCloses, TcpStands
<1>10. ASSUME NEW f \in Frequencies, T!SetVFOFrequency(f)
       PROVE  (TcpTypes /\ TcpFollows)'
  <2> DEFINE e == T!Command("frequency", f)
  <2>1. /\ T_toServer' = IF T_open THEN T_toServer \o <<e>> ELSE T_toServer
        /\ T_vfoFrequency' = f
        /\ UNCHANGED <<T_wants, T_connected, T_open, T_server, T_theGain>>
    BY <1>10 DEF T!SetVFOFrequency, T!Sends
  <2>2. e \in T!Commands /\ e.cmd = "frequency" /\ e.param = f
    BY DEF T!Command, T!Commands, T!AllFrequencies
  <2> HIDE DEF e
  <2>3. /\ T_toServer \o <<e>> \in Seq(T!Commands)
        /\ Has(T_toServer \o <<e>>, T_server, "frequency", f)
        /\ \A v : Has(T_toServer, T_server, "gain", v)
                     => Has(T_toServer \o <<e>>, T_server, "gain", v)
    BY <2>2, CommandSent
  <2> QED
    BY <2>1, <2>3 DEF TcpFollows
<1>11. ASSUME NEW g \in Gains, T!SendGain(g)
       PROVE  (TcpTypes /\ TcpFollows)'
  <2> DEFINE e == T!Command("gain", g)
  <2>1. /\ T_toServer' = IF T_open THEN T_toServer \o <<e>> ELSE T_toServer
        /\ T_theGain' = g
        /\ UNCHANGED <<T_wants, T_connected, T_open, T_server, T_vfoFrequency>>
    BY <1>11 DEF T!SendGain, T!Sends
  <2>2. e \in T!Commands /\ e.cmd = "gain" /\ e.param = g
    BY DEF T!Command, T!Commands
  <2> HIDE DEF e
  <2>3. /\ T_toServer \o <<e>> \in Seq(T!Commands)
        /\ Has(T_toServer \o <<e>>, T_server, "gain", g)
        /\ \A v : Has(T_toServer, T_server, "frequency", v)
                     => Has(T_toServer \o <<e>>, T_server, "frequency", v)
    BY <2>2, CommandSent
  <2> QED
    BY <2>1, <2>3 DEF TcpFollows
<1> QED
  BY <1>1, <1>2, <1>3, <1>4, <1>5, <1>6, <1>7, <1>8, <1>9, <1>10, <1>11
     DEF T!Next

LEMMA TcpSamples == TcpTrue => T!ReadOnce /\ T!ServerFollows
<1>1. TcpReads => T!ReadOnce
  BY DEF TcpReads
<1>2. TcpFollows => T!ServerFollows
  BY DEF TcpFollows, Has, T!ServerFollows, T!WillBe
<1> QED
  BY <1>1, <1>2 DEF TcpTrue

-----------------------------------------------------------------------------
(* The SpyServer's stream: what the ring b holds, then what the wire w has. *)
(* Message k of sizes z begins behind place at[k] of it; the messages after *)
(* the p-th are there, but for the first taken bytes of message p + 1.      *)
Bytes == Int \X Int

Byte(b, w, i) == IF i <= Len(b) THEN b[i] ELSE w[i - Len(b)]

Laid(at, z, p, taken, b, w) ==
    /\ \A k \in 1..Len(z) : at[k + 1] = at[k] + HeaderSize + z[k]
    /\ \A k \in 1..(Len(z) + 1) : at[k] <= Len(b) + Len(w)
    /\ at[p + 1] = 0 - taken
    /\ at[Len(z) + 1] = Len(b) + Len(w)
    /\ \A k \in (p + 1)..Len(z) : \A i \in 1..(HeaderSize + z[k]) :
          at[k] + i >= 1 => Byte(b, w, at[k] + i) = <<k, i>>

LEMMA SizesNat ==
    ASSUME NEW z \in Seq(BodySizes)
    PROVE  /\ HeaderSize \in Nat
           /\ \A k \in 1..Len(z) : z[k] \in BodySizes /\ z[k] \in Nat
<1>1. HeaderSize \in Nat /\ BodySizes \subseteq Nat
  BY DevicesAssumption DEF DevicesAssumption
<1>2. \A k \in 1..Len(z) : z[k] \in BodySizes
  OBVIOUS
<1> QED
  BY <1>1, <1>2

LEMMA LaidRead ==
    ASSUME NEW z \in Seq(BodySizes), NEW at \in [1..(Len(z) + 1) -> Int],
           NEW p \in 0..Len(z), NEW taken \in Int,
           NEW b \in Seq(Bytes), NEW w \in Seq(Bytes), NEW n \in 0..Len(b),
           Laid(at, z, p, taken, b, w)
    PROVE  LET c == SubSeq(b, n + 1, Len(b))
           IN  /\ c \in Seq(Bytes)
               /\ \E to \in [1..(Len(z) + 1) -> Int] :
                     Laid(to, z, p, taken + n, c, w)
<1> DEFINE c == SubSeq(b, n + 1, Len(b))
           to == [k \in 1..(Len(z) + 1) |-> at[k] - n]
<1>1. /\ c \in Seq(Bytes) /\ Len(c) = Len(b) - n
      /\ \A i \in 1..(Len(b) - n) : c[i] = b[n + i]
  <2>1. Len(b) \in Nat /\ n + 1 \in 1..(Len(b) + 1) /\ Len(b) \in n..Len(b)
        /\ (n + 1) - 1 = n
    OBVIOUS
  <2>2. /\ c \in Seq(Bytes) /\ Len(c) = Len(b) - (n + 1) + 1
        /\ \A i \in 1..(Len(b) - (n + 1) + 1) : c[i] = b[(n + 1) + i - 1]
    BY <2>1, SubSeqProperties
  <2> HIDE DEF c
  <2>3. PICK l \in Nat : l = Len(b)
    BY <2>1
  <2>4. l - (n + 1) + 1 = l - n /\ \A i \in 1..(l - n) : (n + 1) + i - 1 = n + i
    BY <2>3
  <2> QED
    BY <2>2, <2>3, <2>4
<1> HIDE DEF c
<1>2. Len(b) \in Nat /\ Len(w) \in Nat /\ Len(z) \in Nat /\ n \in Int
  OBVIOUS
<1>3. \A i \in Int : i >= 1 => Byte(c, w, i) = Byte(b, w, i + n)
  <2> SUFFICES ASSUME NEW i \in Int, i >= 1
               PROVE  Byte(c, w, i) = Byte(b, w, i + n)
    OBVIOUS
  <2>1. CASE i <= Len(c)
    BY <1>1, <1>2, <2>1 DEF Byte
  <2>2. CASE ~(i <= Len(c))
    BY <1>1, <1>2, <2>2 DEF Byte
  <2> QED
    BY <2>1, <2>2
<1>4. /\ to \in [1..(Len(z) + 1) -> Int]
      /\ \A k \in 1..(Len(z) + 1) : to[k] = at[k] - n /\ at[k] \in Int
  BY <1>2
<1> HIDE DEF to
<1>5. HeaderSize \in Nat /\ \A k \in 1..Len(z) : z[k] \in Nat
  BY SizesNat
<1>6. \A k \in 1..Len(z) : to[k + 1] = to[k] + HeaderSize + z[k]
  <2> SUFFICES ASSUME NEW k \in 1..Len(z)
               PROVE  to[k + 1] = to[k] + HeaderSize + z[k]
    OBVIOUS
  <2>1. k \in 1..(Len(z) + 1) /\ k + 1 \in 1..(Len(z) + 1)
    BY <1>2
  <2>2. at[k + 1] = at[k] + HeaderSize + z[k]
    BY DEF Laid
  <2>3. to[k + 1] = at[k + 1] - n /\ to[k] = at[k] - n /\ at[k] \in Int
        /\ HeaderSize \in Int /\ z[k] \in Int
    BY <1>4, <1>5, <2>1
  <2>4. PICK a \in Int, h \in Int, s \in Int :
           a = at[k] /\ h = HeaderSize /\ s = z[k]
    BY <2>3
  <2>5. (a + h + s) - n = (a - n) + h + s
    BY <1>2
  <2> QED
    BY <2>2, <2>3, <2>4, <2>5
<1>7. \A k \in 1..(Len(z) + 1) : to[k] <= Len(c) + Len(w)
  <2>1. \A k \in 1..(Len(z) + 1) : at[k] <= Len(b) + Len(w)
    BY DEF Laid
  <2> QED
    BY <1>1, <1>2, <1>4, <2>1
<1>8. to[p + 1] = 0 - (taken + n) /\ to[Len(z) + 1] = Len(c) + Len(w)
  <2>1. p + 1 \in 1..(Len(z) + 1) /\ Len(z) + 1 \in 1..(Len(z) + 1)
    BY <1>2
  <2>2. at[p + 1] = 0 - taken /\ at[Len(z) + 1] = Len(b) + Len(w)
    BY DEF Laid
  <2> QED
    <3>1. to[p + 1] = at[p + 1] - n /\ to[Len(z) + 1] = at[Len(z) + 1] - n
      BY <1>4, <2>1
    <3>2. to[p + 1] = 0 - (taken + n)
      BY <1>2, <2>2, <3>1
    <3> QED
      BY <1>1, <1>2, <2>2, <3>1, <3>2
<1>9. ASSUME NEW k \in (p + 1)..Len(z), NEW i \in 1..(HeaderSize + z[k]),
             to[k] + i >= 1
      PROVE  Byte(c, w, to[k] + i) = <<k, i>>
  <2>1. k \in 1..Len(z) /\ k \in 1..(Len(z) + 1) /\ i \in Int
    BY <1>2, <1>5
  <2>2. /\ at[k] \in Int /\ to[k] + i \in Int /\ at[k] + i >= 1
        /\ (to[k] + i) + n = at[k] + i
    BY <1>2, <1>4, <1>9, <2>1
  <2>3. Byte(b, w, at[k] + i) = <<k, i>>
    BY <2>2 DEF Laid
  <2>4. Byte(c, w, to[k] + i) = Byte(b, w, (to[k] + i) + n)
    BY <1>3, <1>9, <2>2
  <2> QED
    BY <2>2, <2>3, <2>4
<1>10. Laid(to, z, p, taken + n, c, w)
  BY <1>6, <1>7, <1>8, <1>9 DEF Laid
<1> QED
  BY <1>1, <1>4, <1>10 DEF c

LEMMA LaidReceived ==
    ASSUME NEW z \in Seq(BodySizes), NEW at \in [1..(Len(z) + 1) -> Int],
           NEW p \in 0..Len(z), NEW taken \in Int,
           NEW b \in Seq(Bytes), NEW w \in Seq(Bytes), NEW n \in 1..Len(w),
           Laid(at, z, p, taken, b, w)
    PROVE  LET c == b \o SubSeq(SubSeq(w, 1, n), 1, n)
               v == SubSeq(w, n + 1, Len(w))
           IN  c \in Seq(Bytes) /\ v \in Seq(Bytes)
               /\ Laid(at, z, p, taken, c, v)
<1> DEFINE f == SubSeq(w, 1, n)
           g == SubSeq(f, 1, n)
           c == b \o g
           v == SubSeq(w, n + 1, Len(w))
<1>1. Len(b) \in Nat /\ Len(w) \in Nat /\ Len(z) \in Nat
  OBVIOUS
<1>2. /\ f \in Seq(Bytes) /\ Len(f) = n
      /\ \A i \in 1..n : f[i] = w[i]
  <2>1. 1 \in 1..(Len(w) + 1) /\ n \in (1 - 1)..Len(w)
    BY <1>1
  <2>2. /\ f \in Seq(Bytes) /\ Len(f) = n - 1 + 1
        /\ \A i \in 1..(n - 1 + 1) : f[i] = w[1 + i - 1]
    BY <2>1, SubSeqProperties
  <2> HIDE DEF f
  <2> QED
    BY <2>1, <2>2
<1> HIDE DEF f
<1>3. /\ g \in Seq(Bytes) /\ Len(g) = n
      /\ \A i \in 1..n : g[i] = w[i]
  <2>1. 1 \in 1..(Len(f) + 1) /\ n \in (1 - 1)..Len(f)
    BY <1>2
  <2>2. /\ g \in Seq(Bytes) /\ Len(g) = n - 1 + 1
        /\ \A i \in 1..(n - 1 + 1) : g[i] = f[1 + i - 1]
    BY <1>2, <2>1, SubSeqProperties
  <2> HIDE DEF g
  <2> QED
    BY <1>2, <2>1, <2>2
<1>4. /\ v \in Seq(Bytes) /\ Len(v) = Len(w) - n
      /\ \A i \in 1..(Len(w) - n) : v[i] = w[n + i]
  <2>1. n + 1 \in 1..(Len(w) + 1) /\ Len(w) \in (n + 1 - 1)..Len(w)
    BY <1>1
  <2>2. /\ v \in Seq(Bytes) /\ Len(v) = Len(w) - (n + 1) + 1
        /\ \A i \in 1..(Len(w) - (n + 1) + 1) : v[i] = w[(n + 1) + i - 1]
    BY <2>1, SubSeqProperties
  <2> HIDE DEF v
  <2>3. PICK l \in Nat : l = Len(w)
    BY <1>1
  <2>4. l - (n + 1) + 1 = l - n /\ \A i \in 1..(l - n) : (n + 1) + i - 1 = n + i
    BY <2>3
  <2> QED
    BY <2>2, <2>3, <2>4
<1> HIDE DEF g, v
<1>5. /\ c \in Seq(Bytes) /\ Len(c) = Len(b) + n
      /\ \A i \in 1..(Len(b) + n) :
            c[i] = IF i <= Len(b) THEN b[i] ELSE g[i - Len(b)]
  <2>1. /\ c \in Seq(Bytes) /\ Len(c) = Len(b) + Len(g)
        /\ \A i \in 1..(Len(b) + Len(g)) :
              c[i] = IF i <= Len(b) THEN b[i] ELSE g[i - Len(b)]
    BY <1>3, ConcatProperties
  <2> HIDE DEF c
  <2> QED
    BY <1>3, <2>1
<1> HIDE DEF c
<1>6. Len(c) + Len(v) = Len(b) + Len(w)
  BY <1>1, <1>4, <1>5
<1>7. \A i \in Int : i >= 1 => Byte(c, v, i) = Byte(b, w, i)
             \/ i > Len(b) + Len(w)
  <2> SUFFICES ASSUME NEW i \in Int, i >= 1, ~(i > Len(b) + Len(w))
               PROVE  Byte(c, v, i) = Byte(b, w, i)
    OBVIOUS
  <2>1. CASE i <= Len(b)
    <3>1. i \in 1..(Len(b) + n) /\ i <= Len(c)
      BY <1>1, <1>5, <2>1
    <3> QED
      BY <1>1, <1>5, <2>1, <3>1 DEF Byte
  <2>2. CASE i > Len(b) /\ i <= Len(b) + n
    <3>1. i \in 1..(Len(b) + n) /\ i <= Len(c) /\ i - Len(b) \in 1..n
          /\ ~(i <= Len(b))
      BY <1>1, <1>5, <2>2
    <3>2. g[i - Len(b)] = w[i - Len(b)]
      BY <1>3, <3>1
    <3> QED
      BY <1>5, <3>1, <3>2 DEF Byte
  <2>3. CASE i > Len(b) + n
    <3>1. ~(i <= Len(c)) /\ ~(i <= Len(b)) /\ i - Len(c) \in 1..(Len(w) - n)
          /\ n + (i - Len(c)) = i - Len(b)
      BY <1>1, <1>5, <2>3
    <3>2. v[i - Len(c)] = w[n + (i - Len(c))]
      BY <1>4, <3>1
    <3> QED
      BY <3>1, <3>2 DEF Byte
  <2> QED
    BY <1>1, <2>1, <2>2, <2>3
<1>8. HeaderSize \in Nat /\ \A k \in 1..Len(z) : z[k] \in Nat
  BY SizesNat
<1>9. ASSUME NEW k \in (p + 1)..Len(z), NEW i \in 1..(HeaderSize + z[k]),
             at[k] + i >= 1
      PROVE  Byte(c, v, at[k] + i) = <<k, i>>
  <2>1. k \in 1..Len(z) /\ k \in 1..(Len(z) + 1) /\ k + 1 \in 1..(Len(z) + 1)
    BY <1>1
  <2>2. z[k] \in Nat /\ at[k] \in Int /\ i \in Int /\ i <= HeaderSize + z[k]
    <3>1. z[k] \in Nat /\ at[k] \in Int
      BY <1>8, <2>1
    <3>2. HeaderSize + z[k] \in Nat
      BY <1>8, <3>1
    <3> QED
      BY <3>1, <3>2
  <2>3. at[k + 1] = at[k] + HeaderSize + z[k] /\ at[k + 1] <= Len(b) + Len(w)
    BY <2>1 DEF Laid
  <2>4. at[k] + i \in Int /\ ~(at[k] + i > Len(b) + Len(w))
    <3>1. PICK a \in Int, h \in Int, s \in Int, l \in Int :
             a = at[k] /\ h = HeaderSize /\ s = z[k] /\ l = Len(b) + Len(w)
      BY <1>1, <1>8, <2>2
    <3>2. i \in Int /\ i <= h + s /\ a + h + s <= l
      BY <2>2, <2>3, <3>1
    <3>3. a + i \in Int /\ ~(a + i > l)
      BY <3>2
    <3> QED
      BY <3>1, <3>3
  <2>5. Byte(b, w, at[k] + i) = <<k, i>>
    BY <1>9 DEF Laid
  <2> QED
    BY <1>7, <1>9, <2>4, <2>5
<1>10. Laid(at, z, p, taken, c, v)
  BY <1>6, <1>9 DEF Laid
<1> QED
  BY <1>4, <1>5, <1>10 DEF c, v, g, f

LEMMA LaidSent ==
    ASSUME NEW z \in Seq(BodySizes), NEW at \in [1..(Len(z) + 1) -> Int],
           NEW p \in 0..Len(z), NEW taken \in Int,
           NEW b \in Seq(Bytes), NEW w \in Seq(Bytes), NEW size \in BodySizes,
           Laid(at, z, p, taken, b, w)
    PROVE  LET y == Append(z, size)
               v == w \o S!MessageBytes(Len(z) + 1, 1, size)
           IN  /\ y \in Seq(BodySizes) /\ v \in Seq(Bytes)
               /\ p \in 0..Len(y)
               /\ \A k \in 1..Len(z) : y[k] = z[k]
               /\ \E to \in [1..(Len(y) + 1) -> Int] :
                     Laid(to, y, p, taken, b, v)
<1> DEFINE y == Append(z, size)
           m == S!MessageBytes(Len(z) + 1, 1, size)
           v == w \o m
           n == HeaderSize + size
           all == Len(b) + Len(w)
           to == [k \in 1..(Len(z) + 2) |->
                     IF k = Len(z) + 2 THEN all + n ELSE at[k]]
<1>1. Len(b) \in Nat /\ Len(w) \in Nat /\ Len(z) \in Nat /\ n \in Nat
      /\ HeaderSize \in Nat /\ size \in Nat
  BY DevicesAssumption DEF DevicesAssumption
<1>2. /\ y \in Seq(BodySizes) /\ Len(y) = Len(z) + 1
      /\ y[Len(z) + 1] = size /\ \A k \in 1..Len(z) : y[k] = z[k]
  BY AppendProperties
<1>3. /\ m \in Seq(Bytes) /\ Len(m) = n
      /\ \A i \in 1..n : m[i] = <<Len(z) + 1, i>>
  <2>1. m = [i \in 1..n |-> <<Len(z) + 1, i>>]
    <3>1. HeaderSize + size - 1 + 1 = n /\ \A i \in 1..n : 1 + i - 1 = i
      BY <1>1
    <3> HIDE DEF n
    <3> QED
      BY <3>1 DEF S!MessageBytes
  <2> HIDE DEF m, n
  <2> QED
    BY <1>1, <2>1 DEF Bytes
<1> HIDE DEF m
<1>4. /\ v \in Seq(Bytes) /\ Len(v) = Len(w) + n
      /\ \A i \in 1..(Len(w) + n) :
            v[i] = IF i <= Len(w) THEN w[i] ELSE m[i - Len(w)]
  <2>1. /\ v \in Seq(Bytes) /\ Len(v) = Len(w) + Len(m)
        /\ \A i \in 1..(Len(w) + Len(m)) :
              v[i] = IF i <= Len(w) THEN w[i] ELSE m[i - Len(w)]
    BY <1>3, ConcatProperties
  <2> HIDE DEF v, n
  <2> QED
    BY <1>3, <2>1
<1>5. n = HeaderSize + size /\ all = Len(b) + Len(w) /\ all \in Nat
  BY <1>1
<1> HIDE DEF v, y, n, all
<1>6. /\ to \in [1..(Len(y) + 1) -> Int]
      /\ \A k \in 1..(Len(z) + 1) : to[k] = at[k]
      /\ to[Len(z) + 2] = all + n
  BY <1>1, <1>2, <1>5
<1> HIDE DEF to
<1>7. \A i \in Int : i >= 1 /\ i <= all => Byte(b, v, i) = Byte(b, w, i)
  <2> SUFFICES ASSUME NEW i \in Int, i >= 1, i <= all
               PROVE  Byte(b, v, i) = Byte(b, w, i)
    OBVIOUS
  <2>1. CASE i <= Len(b)
    BY <2>1 DEF Byte
  <2>2. CASE ~(i <= Len(b))
    <3>1. i - Len(b) \in 1..Len(w) /\ i - Len(b) \in 1..(Len(w) + n)
      BY <1>1, <1>5, <2>2
    <3>2. v[i - Len(b)] = w[i - Len(b)]
      BY <1>1, <1>4, <3>1
    <3> QED
      BY <2>2, <3>2 DEF Byte
  <2> QED
    BY <2>1, <2>2
<1>8. \A i \in 1..n : Byte(b, v, all + i) = <<Len(z) + 1, i>>
  <2> SUFFICES ASSUME NEW i \in 1..n
               PROVE  Byte(b, v, all + i) = <<Len(z) + 1, i>>
    OBVIOUS
  <2>1. /\ ~(all + i <= Len(b)) /\ (all + i) - Len(b) = Len(w) + i
        /\ Len(w) + i \in 1..(Len(w) + n) /\ ~(Len(w) + i <= Len(w))
        /\ (Len(w) + i) - Len(w) = i
    BY <1>1, <1>5
  <2>2. v[Len(w) + i] = m[i]
    BY <1>4, <2>1
  <2> QED
    BY <1>3, <2>1, <2>2 DEF Byte
<1>9. HeaderSize \in Nat /\ \A k \in 1..Len(z) : z[k] \in Nat
  BY SizesNat
<1>10. at[Len(z) + 1] = all /\ at[p + 1] = 0 - taken
  BY <1>5 DEF Laid
<1>11. \A k \in 1..Len(y) : to[k + 1] = to[k] + HeaderSize + y[k]
  <2> SUFFICES ASSUME NEW k \in 1..Len(y)
               PROVE  to[k + 1] = to[k] + HeaderSize + y[k]
    OBVIOUS
  <2>1. CASE k = Len(z) + 1
    <3>1. k \in 1..(Len(z) + 1) /\ k + 1 = Len(z) + 2
      BY <1>1, <2>1
    <3>2. to[k] = all /\ to[k + 1] = all + n /\ y[k] = size
      BY <1>2, <1>6, <1>10, <2>1, <3>1
    <3> QED
      BY <1>1, <1>5, <3>2
  <2>2. CASE k # Len(z) + 1
    <3>1. k \in 1..Len(z) /\ k \in 1..(Len(z) + 1) /\ k + 1 \in 1..(Len(z) + 1)
      BY <1>1, <1>2, <2>2
    <3>2. to[k] = at[k] /\ to[k + 1] = at[k + 1] /\ y[k] = z[k]
      BY <1>2, <1>6, <3>1
    <3>3. at[k + 1] = at[k] + HeaderSize + z[k]
      BY <3>1 DEF Laid
    <3> QED
      BY <3>2, <3>3
  <2> QED
    BY <2>1, <2>2
<1>12. Len(b) + Len(v) = all + n
  BY <1>1, <1>4, <1>5
<1>13. \A k \in 1..(Len(y) + 1) : to[k] <= Len(b) + Len(v)
  <2> SUFFICES ASSUME NEW k \in 1..(Len(y) + 1) PROVE to[k] <= all + n
    BY <1>12
  <2>1. CASE k = Len(z) + 2
    BY <1>1, <1>5, <1>6, <2>1
  <2>2. CASE k # Len(z) + 2
    <3>1. k \in 1..(Len(z) + 1)
      BY <1>1, <1>2, <2>2
    <3>2. at[k] \in Int
      BY <3>1
    <3>3. to[k] = at[k] /\ at[k] <= all
      BY <1>5, <1>6, <3>1 DEF Laid
    <3> QED
      BY <1>1, <1>5, <3>2, <3>3
  <2> QED
    BY <2>1, <2>2
<1>14. to[p + 1] = 0 - taken /\ to[Len(y) + 1] = Len(b) + Len(v)
  <2>1. p + 1 \in 1..(Len(z) + 1) /\ Len(y) + 1 = Len(z) + 2
    BY <1>1, <1>2
  <2> QED
    BY <1>6, <1>10, <1>12, <2>1
<1>15. ASSUME NEW k \in (p + 1)..Len(y), NEW i \in 1..(HeaderSize + y[k]),
              to[k] + i >= 1
       PROVE  Byte(b, v, to[k] + i) = <<k, i>>
  <2>1. CASE k = Len(z) + 1
    <3>1. to[k] = all /\ y[k] = size
      BY <1>1, <1>2, <1>6, <1>10, <2>1
    <3>2. i \in 1..n
      BY <1>5, <3>1
    <3> QED
      BY <1>8, <2>1, <3>1, <3>2
  <2>2. CASE k # Len(z) + 1
    <3>1. k \in (p + 1)..Len(z) /\ k \in 1..Len(z) /\ k \in 1..(Len(z) + 1)
          /\ k + 1 \in 1..(Len(z) + 1)
      BY <1>1, <1>2, <2>2
    <3>2. to[k] = at[k] /\ y[k] = z[k] /\ z[k] \in Nat /\ at[k] \in Int
      BY <1>2, <1>6, <1>9, <3>1
    <3>3. i \in 1..(HeaderSize + z[k]) /\ HeaderSize + z[k] \in Nat
      BY <1>9, <3>2
    <3>4. /\ at[k + 1] = at[k] + HeaderSize + z[k]
          /\ at[k + 1] <= Len(b) + Len(w)
      BY <3>1 DEF Laid
    <3>5. at[k] + i \in Int /\ at[k] + i <= all /\ at[k] + i >= 1
      <4>1. i \in Int /\ i <= HeaderSize + z[k]
        BY <3>3
      <4>2. at[k] + i >= 1
        BY <1>15, <3>2
      <4>3. at[k] + i \in Int /\ at[k] + i <= at[k] + HeaderSize + z[k]
        BY <1>9, <3>2, <4>1
      <4>4. at[k] + i <= Len(b) + Len(w)
        <5>1. PICK a \in Int, h \in Int, s \in Int, l \in Int :
                 a = at[k] /\ h = HeaderSize /\ s = z[k] /\ l = Len(b) + Len(w)
          BY <1>1, <1>9, <3>2
        <5>2. i \in Int /\ i <= h + s /\ a + h + s <= l
          BY <3>4, <4>1, <5>1
        <5>3. a + i <= l
          BY <5>2
        <5> QED
          BY <5>1, <5>3
      <4> QED
        BY <1>5, <4>2, <4>3, <4>4
    <3>6. Byte(b, w, at[k] + i) = <<k, i>>
      BY <3>1, <3>3, <3>5 DEF Laid
    <3> QED
      BY <1>7, <3>2, <3>5, <3>6
  <2> QED
    BY <2>1, <2>2
<1>16. Laid(to, y, p, taken, b, v)
  BY <1>11, <1>13, <1>14, <1>15 DEF Laid
<1>17. p \in 0..Len(y)
  BY <1>1, <1>2
<1> QED
  BY <1>2, <1>4, <1>6, <1>16, <1>17 DEF y, v, m

LEMMA LaidProcessed ==
    ASSUME NEW z \in Seq(BodySizes), NEW at \in [1..(Len(z) + 1) -> Int],
           NEW p \in 0..Len(z), p < Len(z),
           NEW b \in Seq(Bytes), NEW w \in Seq(Bytes),
           Laid(at, z, p, HeaderSize + z[p + 1], b, w)
    PROVE  Laid(at, z, p + 1, 0, b, w)
<1>1. Len(z) \in Nat /\ p + 1 \in 1..Len(z) /\ p + 1 \in 1..(Len(z) + 1)
  OBVIOUS
<1>2. HeaderSize \in Nat /\ z[p + 1] \in Nat
  BY <1>1, SizesNat
<1>3. /\ at[p + 1] = 0 - (HeaderSize + z[p + 1])
      /\ at[(p + 1) + 1] = at[p + 1] + HeaderSize + z[p + 1]
  BY <1>1 DEF Laid
<1>4. at[(p + 1) + 1] = 0 - 0
  BY <1>2, <1>3
<1>5. \A k \in ((p + 1) + 1)..Len(z) : k \in (p + 1)..Len(z)
  BY <1>1
<1> QED
  BY <1>4, <1>5 DEF Laid

\* What the spyHandler has read of message S_processed + 1.
Taken == IF S_hpc = "header" THEN 0 ELSE HeaderSize + S_filler

Framed ==
    /\ S_sizes \in Seq(BodySizes) /\ S_processed \in 0..Len(S_sizes)
    /\ S_inBuffer \in Seq(Bytes) /\ S_wire \in Seq(Bytes)
    /\ S_hpc \in {"header", "body", "process"}
    /\ S_hpc # "header" =>
          /\ S_processed < Len(S_sizes)
          /\ S_theHeader = S!Header(S_processed + 1)
          /\ S_bodySize = S_sizes[S_processed + 1]
          /\ S_filler \in 0..S_bodySize
    /\ S_hpc = "process" => S_filler = S_bodySize
    /\ \E at \in [1..(Len(S_sizes) + 1) -> Int] :
          Laid(at, S_sizes, S_processed, Taken, S_inBuffer, S_wire)

SpyTrue == S_damaged \in BOOLEAN /\ (~S_damaged => Framed)

LEMMA SpyTrueInit == S!Init => SpyTrue
<1> SUFFICES ASSUME S!Init PROVE SpyTrue
  OBVIOUS
<1>1. /\ S_sizes = <<>> /\ S_wire = <<>> /\ S_inBuffer = <<>>
      /\ S_hpc = "header" /\ S_processed = 0 /\ S_damaged = FALSE
  BY DEF S!Init
<1>2. <<>> \in Seq(BodySizes) /\ <<>> \in Seq(Bytes) /\ Len(<<>>) = 0
  OBVIOUS
<1> DEFINE at == [k \in 1..1 |-> 0]
<1>3. at \in [1..1 -> Int] /\ at[1] = 0
  OBVIOUS
<1> HIDE DEF at
<1>4. Laid(at, <<>>, 0, 0, <<>>, <<>>)
  <2>1. 0 + 1 = 1 /\ 0 = 0 - 0 /\ 0 + 0 = 0 /\ \A k \in 1..0 : FALSE
    OBVIOUS
  <2>2. \A k \in 1..1 : at[k] <= 0
    BY <1>3
  <2> QED
    BY <1>2, <1>3, <2>1, <2>2 DEF Laid
<1>5. /\ S_inBuffer \in Seq(Bytes) /\ S_wire \in Seq(Bytes)
      /\ S_sizes \in Seq(BodySizes) /\ Len(S_sizes) = 0 /\ Taken = 0
      /\ S_processed \in 0..Len(S_sizes)
  BY <1>1, <1>2 DEF Taken
<1>6. at \in [1..(Len(S_sizes) + 1) -> Int]
      /\ Laid(at, S_sizes, S_processed, Taken, S_inBuffer, S_wire)
  BY <1>1, <1>3, <1>4, <1>5
<1>7. Framed
  BY <1>1, <1>5, <1>6 DEF Framed
<1> QED
  BY <1>1, <1>7 DEF SpyTrue

\* The types of Framed, where facts of Framed are needed one by one.
LEMMA FramedTypes ==
    ASSUME Framed
    PROVE  /\ Len(S_sizes) \in Nat /\ S_processed \in Nat
           /\ HeaderSize \in Nat /\ HeaderSize >= 1
           /\ Taken \in Int
           /\ S_hpc # "header" =>
                 /\ S_processed + 1 \in 1..Len(S_sizes)
                 /\ S_bodySize \in Nat /\ S_filler \in Nat
<1>1. HeaderSize \in Nat /\ HeaderSize >= 1
  BY DevicesAssumption DEF DevicesAssumption
<1>2. Len(S_sizes) \in Nat /\ S_processed \in Nat
  BY DEF Framed
<1>3. ASSUME S_hpc # "header"
      PROVE  /\ S_processed + 1 \in 1..Len(S_sizes)
             /\ S_bodySize \in Nat /\ S_filler \in Nat
  <2>1. S_processed + 1 \in 1..Len(S_sizes)
    BY <1>2, <1>3 DEF Framed
  <2>2. S_bodySize \in Nat
    BY <1>3, <2>1, SizesNat DEF Framed
  <2>3. S_filler \in Nat
    BY <1>3, <2>2 DEF Framed
  <2> QED
    BY <2>1, <2>2, <2>3
<1> QED
  BY <1>1, <1>2, <1>3 DEF Taken

LEMMA SendsFramed ==
    ASSUME Framed, NEW size \in BodySizes, S!ServerSends(size)
    PROVE  Framed'
<1>1. PICK at \in [1..(Len(S_sizes) + 1) -> Int] :
           Laid(at, S_sizes, S_processed, Taken, S_inBuffer, S_wire)
  BY DEF Framed
<1>2. /\ S_sizes' = Append(S_sizes, size)
      /\ S_wire' = S_wire \o S!MessageBytes(Len(S_sizes) + 1, 1, size)
      /\ UNCHANGED <<S_inBuffer, S_hpc, S_theHeader, S_bodySize, S_filler,
                     S_processed>>
  BY DEF S!ServerSends
<1>3. S_sizes \in Seq(BodySizes) /\ S_inBuffer \in Seq(Bytes)
      /\ S_wire \in Seq(Bytes) /\ S_processed \in 0..Len(S_sizes)
  BY DEF Framed
<1>4. /\ S_sizes' \in Seq(BodySizes) /\ S_wire' \in Seq(Bytes)
      /\ S_processed \in 0..Len(S_sizes')
      /\ \A k \in 1..Len(S_sizes) : S_sizes'[k] = S_sizes[k]
      /\ \E to \in [1..(Len(S_sizes') + 1) -> Int] :
            Laid(to, S_sizes', S_processed, Taken, S_inBuffer, S_wire')
  <2>1. LET y == Append(S_sizes, size)
            v == S_wire \o S!MessageBytes(Len(S_sizes) + 1, 1, size)
        IN  /\ y \in Seq(BodySizes) /\ v \in Seq(Bytes)
            /\ S_processed \in 0..Len(y)
            /\ \A k \in 1..Len(S_sizes) : y[k] = S_sizes[k]
            /\ \E to \in [1..(Len(y) + 1) -> Int] :
                  Laid(to, y, S_processed, Taken, S_inBuffer, v)
    <3>1. Taken \in Int
      BY FramedTypes
    <3> HIDE DEF Taken, Laid
    <3> QED
      BY <1>1, <1>3, <3>1, LaidSent
  <2> QED
    BY <1>2, <2>1
<1>5. Taken' = Taken
  BY <1>2 DEF Taken
<1>6. Len(S_sizes') = Len(S_sizes) + 1
  BY <1>2, <1>3
<1>7. ASSUME S_hpc # "header"
      PROVE  /\ S_processed < Len(S_sizes')
             /\ S_bodySize = S_sizes'[S_processed + 1]
  BY <1>4, <1>6, <1>7, FramedTypes DEF Framed
<1>8. S!Header(S_processed + 1)' = S!Header(S_processed + 1)
  BY <1>2 DEF S!Header, S!MessageBytes
<1> QED
  BY <1>2, <1>3, <1>4, <1>5, <1>7, <1>8 DEF Framed

LEMMA ReceivesFramed ==
    ASSUME Framed, ~S_damaged', NEW n \in 1..Len(S_wire), S!Receives(n)
    PROVE  Framed'
<1>1. PICK at \in [1..(Len(S_sizes) + 1) -> Int] :
           Laid(at, S_sizes, S_processed, Taken, S_inBuffer, S_wire)
  BY DEF Framed
<1>2. S_sizes \in Seq(BodySizes) /\ S_inBuffer \in Seq(Bytes)
      /\ S_wire \in Seq(Bytes) /\ S_processed \in 0..Len(S_sizes)
  BY DEF Framed
<1>3. /\ S!Put(SubSeq(S_wire, 1, n))
      /\ S_wire' = SubSeq(S_wire, n + 1, Len(S_wire))
      /\ ~(n > SpyRing - Len(S_inBuffer))
      /\ UNCHANGED <<S_sizes, S_hpc, S_theHeader, S_bodySize, S_filler,
                     S_processed>>
  BY DEF S!Receives
<1>4. SpyRing \in Nat /\ Len(S_inBuffer) \in Nat /\ n \in Nat
      /\ Len(S_wire) \in Nat
  BY <1>2, DevicesAssumption DEF DevicesAssumption
<1>5. Len(SubSeq(S_wire, 1, n)) = n
  <2>1. 1 \in 1..(Len(S_wire) + 1) /\ n \in (1 - 1)..Len(S_wire)
    BY <1>4
  <2>2. Len(SubSeq(S_wire, 1, n)) = n - 1 + 1
    BY <1>2, <2>1, SubSeqProperties
  <2> QED
    BY <1>4, <2>2
<1>6. S!Least(n, SpyRing - Len(S_inBuffer)) = n
  BY <1>3, <1>4 DEF S!Least
<1>7. S_inBuffer' = S_inBuffer \o SubSeq(SubSeq(S_wire, 1, n), 1, n)
  BY <1>3, <1>5, <1>6 DEF S!Put
<1>8. /\ S_inBuffer' \in Seq(Bytes) /\ S_wire' \in Seq(Bytes)
      /\ Laid(at, S_sizes, S_processed, Taken, S_inBuffer', S_wire')
  BY <1>1, <1>2, <1>3, <1>7, FramedTypes, LaidReceived
<1>9. Taken' = Taken
  BY <1>3 DEF Taken
<1>10. S!Header(S_processed + 1)' = S!Header(S_processed + 1)
  BY <1>3 DEF S!Header, S!MessageBytes
<1> QED
  BY <1>2, <1>3, <1>8, <1>9, <1>10 DEF Framed

LEMMA HeaderFramed ==
    ASSUME Framed, S!ReadsHeader
    PROVE  Framed'
<1>1. PICK at \in [1..(Len(S_sizes) + 1) -> Int] :
           Laid(at, S_sizes, S_processed, Taken, S_inBuffer, S_wire)
  BY DEF Framed
<1>2. S_sizes \in Seq(BodySizes) /\ S_inBuffer \in Seq(Bytes)
      /\ S_wire \in Seq(Bytes) /\ S_processed \in 0..Len(S_sizes)
  BY DEF Framed
<1>3. /\ S_hpc = "header" /\ Len(S_inBuffer) >= HeaderSize
      /\ S_theHeader' = SubSeq(S_inBuffer, 1, HeaderSize)
      /\ S_inBuffer' = SubSeq(S_inBuffer, HeaderSize + 1, Len(S_inBuffer))
      /\ \A k \in DOMAIN S_sizes :
            S_theHeader' = S!Header(k) => S_bodySize' = S_sizes[k]
      /\ S_filler' = 0 /\ S_hpc' = "body"
      /\ UNCHANGED <<S_sizes, S_wire, S_processed>>
  BY DEF S!ReadsHeader
<1> DEFINE p == S_processed
<1>4. /\ Len(S_sizes) \in Nat /\ p \in Nat /\ Len(S_inBuffer) \in Nat
      /\ HeaderSize \in Nat /\ HeaderSize >= 1 /\ Len(S_wire) \in Nat
      /\ HeaderSize \in 0..Len(S_inBuffer)
  BY <1>2, <1>3, FramedTypes
<1>5. Taken = 0
  BY <1>3 DEF Taken
<1>6. /\ at[p + 1] = 0 - 0
      /\ at[Len(S_sizes) + 1] = Len(S_inBuffer) + Len(S_wire)
  BY <1>1, <1>5 DEF Laid
<1>7. p < Len(S_sizes)
  <2>1. p # Len(S_sizes)
    BY <1>3, <1>4, <1>6
  <2> QED
    BY <1>2, <1>4, <2>1
<1>8. p + 1 \in 1..Len(S_sizes) /\ p + 1 \in (p + 1)..Len(S_sizes)
  BY <1>4, <1>7
<1>9. S_sizes[p + 1] \in Nat
  BY <1>2, <1>8, SizesNat
<1>10. \A i \in 1..HeaderSize : S_inBuffer[i] = <<p + 1, i>>
  <2> SUFFICES ASSUME NEW i \in 1..HeaderSize
               PROVE  S_inBuffer[i] = <<p + 1, i>>
    OBVIOUS
  <2>1. i \in 1..(HeaderSize + S_sizes[p + 1]) /\ at[p + 1] + i = i /\ i >= 1
        /\ i <= Len(S_inBuffer)
    BY <1>4, <1>6, <1>9
  <2>2. Byte(S_inBuffer, S_wire, i) = <<p + 1, i>>
    BY <1>1, <1>8, <2>1 DEF Laid
  <2> QED
    BY <2>1, <2>2 DEF Byte
<1>11. S_theHeader' = S!Header(p + 1)
  <2>1. 1 \in 1..(Len(S_inBuffer) + 1) /\ HeaderSize \in (1 - 1)..Len(S_inBuffer)
    BY <1>4
  <2>2. /\ S_theHeader' \in Seq(Bytes) /\ Len(S_theHeader') = HeaderSize - 1 + 1
        /\ \A i \in 1..(HeaderSize - 1 + 1) :
              S_theHeader'[i] = S_inBuffer[1 + i - 1]
    BY <1>2, <1>3, <2>1, SubSeqProperties
  <2>3. HeaderSize - 1 + 1 = HeaderSize /\ HeaderSize + 0 - 1 + 1 = HeaderSize
        /\ \A i \in 1..HeaderSize : 1 + i - 1 = i
    BY <1>4
  <2>4. S_theHeader' = [i \in 1..HeaderSize |-> S_theHeader'[i]]
    BY <2>2, <2>3
  <2>5. \A i \in 1..HeaderSize : S_theHeader'[i] = <<p + 1, i>>
    BY <1>10, <2>2, <2>3
  <2>6. S_theHeader' = [i \in 1..HeaderSize |-> <<p + 1, i>>]
    BY <2>4, <2>5
  <2>7. S!Header(p + 1) = [i \in 1..HeaderSize |-> <<p + 1, i>>]
    BY <2>3 DEF S!Header, S!MessageBytes
  <2> QED
    BY <2>6, <2>7
<1>12. S_bodySize' = S_sizes[p + 1]
  <2>1. DOMAIN S_sizes = 1..Len(S_sizes)
    BY <1>2
  <2> QED
    BY <1>3, <1>8, <1>11, <2>1
<1>13. /\ S_inBuffer' \in Seq(Bytes)
       /\ \E to \in [1..(Len(S_sizes) + 1) -> Int] :
             Laid(to, S_sizes, S_processed, Taken + HeaderSize, S_inBuffer', S_wire)
  BY <1>1, <1>2, <1>3, <1>4, FramedTypes, LaidRead
<1>14. Taken' = Taken + HeaderSize
  BY <1>3, <1>4, <1>5 DEF Taken
<1>15. S!Header(S_processed + 1)' = S!Header(p + 1)
  BY <1>3 DEF S!Header, S!MessageBytes
<1>16. S_filler' \in 0..S_bodySize'
  BY <1>3, <1>9, <1>12
<1> QED
  BY <1>2, <1>3, <1>7, <1>11, <1>12, <1>13, <1>14, <1>15, <1>16 DEF Framed

LEMMA BodyFramed ==
    ASSUME Framed, S!ReadsBody
    PROVE  Framed'
<1>1. PICK at \in [1..(Len(S_sizes) + 1) -> Int] :
           Laid(at, S_sizes, S_processed, Taken, S_inBuffer, S_wire)
  BY DEF Framed
<1>2. S_sizes \in Seq(BodySizes) /\ S_inBuffer \in Seq(Bytes)
      /\ S_wire \in Seq(Bytes) /\ S_processed \in 0..Len(S_sizes)
  BY DEF Framed
<1> DEFINE n == S!Least(S_bodySize - S_filler, Len(S_inBuffer))
<1>3. /\ S_hpc = "body" /\ S_filler' = S_filler + n
      /\ S_inBuffer' = SubSeq(S_inBuffer, n + 1, Len(S_inBuffer))
      /\ S_hpc' = IF S_filler + n >= S_bodySize THEN "process" ELSE "body"
      /\ UNCHANGED <<S_sizes, S_wire, S_theHeader, S_bodySize, S_processed>>
  BY DEF S!ReadsBody
<1>4. /\ S_bodySize \in Nat /\ S_filler \in Nat /\ S_filler <= S_bodySize
      /\ Len(S_inBuffer) \in Nat /\ HeaderSize \in Nat
  BY <1>2, <1>3, FramedTypes DEF Framed
<1>5. /\ n \in 0..Len(S_inBuffer) /\ S_filler + n \in 0..S_bodySize
  BY <1>4 DEF S!Least
<1> HIDE DEF n
<1>6. /\ S_inBuffer' \in Seq(Bytes)
      /\ \E to \in [1..(Len(S_sizes) + 1) -> Int] :
            Laid(to, S_sizes, S_processed, Taken + n, S_inBuffer', S_wire)
  BY <1>1, <1>2, <1>3, <1>5, FramedTypes, LaidRead
<1>7. Taken' = Taken + n
  <2>1. Taken = HeaderSize + S_filler /\ Taken' = HeaderSize + (S_filler + n)
    BY <1>3 DEF Taken
  <2> QED
    BY <1>4, <1>5, <2>1
<1>8. S!Header(S_processed + 1)' = S!Header(S_processed + 1)
  BY <1>3 DEF S!Header, S!MessageBytes
<1>9. S_hpc' \in {"body", "process"}
      /\ (S_hpc' = "process" => S_filler' = S_bodySize)
  BY <1>3, <1>4, <1>5
<1>10. /\ S_processed < Len(S_sizes)
       /\ S_theHeader = S!Header(S_processed + 1)
       /\ S_bodySize = S_sizes[S_processed + 1]
  BY <1>3 DEF Framed
<1> QED
  BY <1>2, <1>3, <1>5, <1>6, <1>7, <1>8, <1>9, <1>10 DEF Framed

LEMMA ProcessFramed ==
    ASSUME Framed, S!Processes
    PROVE  Framed'
<1>1. PICK at \in [1..(Len(S_sizes) + 1) -> Int] :
           Laid(at, S_sizes, S_processed, Taken, S_inBuffer, S_wire)
  BY DEF Framed
<1>2. S_sizes \in Seq(BodySizes) /\ S_inBuffer \in Seq(Bytes)
      /\ S_wire \in Seq(Bytes) /\ S_processed \in 0..Len(S_sizes)
  BY DEF Framed
<1>3. /\ S_hpc = "process" /\ S_hpc' = "header"
      /\ S_processed' = S_processed + 1
      /\ UNCHANGED <<S_sizes, S_wire, S_inBuffer>>
  BY DEF S!Processes
<1>4. /\ S_processed < Len(S_sizes) /\ S_filler = S_sizes[S_processed + 1]
  BY <1>3 DEF Framed
<1>5. Taken = HeaderSize + S_sizes[S_processed + 1]
  BY <1>3, <1>4 DEF Taken
<1>6. Laid(at, S_sizes, S_processed + 1, 0, S_inBuffer, S_wire)
  BY <1>1, <1>2, <1>4, <1>5, LaidProcessed
<1>7. S_processed + 1 \in 0..Len(S_sizes)
  BY <1>2, <1>4
<1>8. Taken' = 0
  BY <1>3 DEF Taken
<1> QED
  BY <1>2, <1>3, <1>6, <1>7, <1>8 DEF Framed

LEMMA SpyTrueStep ==
    ASSUME SpyTrue, S!Next
    PROVE  SpyTrue'
<1>1. ASSUME NEW size \in BodySizes, S!ServerSends(size) PROVE SpyTrue'
  <2>1. S_damaged' = S_damaged
    BY <1>1 DEF S!ServerSends
  <2> QED
    BY <1>1, <2>1, SendsFramed DEF SpyTrue
<1>2. ASSUME NEW n \in 1..Len(S_wire), S!Receives(n) PROVE SpyTrue'
  <2>1. S_damaged' = (S_damaged \/ n > SpyRing - Len(S_inBuffer))
    BY <1>2 DEF S!Receives
  <2>2. S_damaged' \in BOOLEAN /\ (~S_damaged' => ~S_damaged)
    BY <2>1 DEF SpyTrue
  <2> QED
    BY <1>2, <2>2, ReceivesFramed DEF SpyTrue
<1>3. CASE S!ReceiveFails
  BY <1>3 DEF S!ReceiveFails, SpyTrue
<1>4. CASE S!ReadsHeader
  <2>1. S_damaged' = S_damaged
    BY <1>4 DEF S!ReadsHeader
  <2> QED
    BY <1>4, <2>1, HeaderFramed DEF SpyTrue
<1>5. CASE S!ReadsBody
  <2>1. S_damaged' = S_damaged
    BY <1>5 DEF S!ReadsBody
  <2> QED
    BY <1>5, <2>1, BodyFramed DEF SpyTrue
<1>6. CASE S!Processes
  <2>1. S_damaged' = S_damaged
    BY <1>6 DEF S!Processes
  <2> QED
    BY <1>6, <2>1, ProcessFramed DEF SpyTrue
<1> QED
  BY <1>1, <1>2, <1>3, <1>4, <1>5, <1>6 DEF S!Next

LEMMA SpySamples == SpyTrue => S!InStep
BY DEF SpyTrue, Framed, S!InStep

-----------------------------------------------------------------------------
(* All of the samples.                                                     *)
SamplesInv == FileTrue /\ HackrfTrue /\ TcpTrue /\ SpyTrue

LEMMA SamplesInvInit == Init => SamplesInv
BY FileTrueInit, HackrfTrueInit, TcpTrueInit, SpyTrueInit DEF Init, SamplesInv

\* When the device is not the selected one, its part stands.
LEMMA OthersTrue ==
    /\ FileTrue /\ UNCHANGED fileVars => FileTrue'
    /\ HackrfTrue /\ UNCHANGED hackrfVars => HackrfTrue'
    /\ TcpTrue /\ UNCHANGED tcpVars => TcpTrue'
    /\ SpyTrue /\ UNCHANGED spyVars => SpyTrue'
<1>1. FileTrue /\ UNCHANGED fileVars => FileTrue'
  BY DEF fileVars, FileTrue, FileTypes, RoomKept, FilePlayed, Reading, F!Room
<1>2. HackrfTrue /\ UNCHANGED hackrfVars => HackrfTrue'
  BY DEF hackrfVars, HackrfTrue, HackrfTypes, HackrfCounts, Lost, Counting
<1>3. TcpTrue /\ UNCHANGED tcpVars => TcpTrue'
  BY DEF tcpVars, TcpTrue, TcpReads, TcpTypes, TcpFollows, T!ReadOnce
<1>4. SpyTrue /\ UNCHANGED spyVars => SpyTrue'
  <2> SUFFICES ASSUME SpyTrue, UNCHANGED spyVars PROVE SpyTrue'
    OBVIOUS
  <2>1. S!Header(S_processed + 1)' = S!Header(S_processed + 1)
    BY DEF spyVars, S!Header, S!MessageBytes
  <2>2. Taken' = Taken
    BY DEF spyVars, Taken
  <2> QED
    BY <2>1, <2>2 DEF spyVars, SpyTrue, Framed
<1> QED
  BY <1>1, <1>2, <1>3, <1>4

\* A step is one of the device that is selected; that of the file needs what
\* is held, for there is one thread only.
LEMMA SamplesInvStep == Held /\ SamplesInv /\ [Next]_vars => SamplesInv'
<1> SUFFICES ASSUME Held, SamplesInv, [Next]_vars PROVE SamplesInv'
  OBVIOUS
<1>1. FileTrue'
  BY StepOfOne, FileTrueStep, OthersTrue DEF Held, SamplesInv
<1>2. HackrfTrue'
  BY StepOfOne, HackrfTrueStep, OthersTrue DEF SamplesInv
<1>3. TcpTrue'
  <2>1. CASE T!Next
    BY <2>1, TcpReadsStep, TcpFollowsStep DEF SamplesInv, TcpTrue
  <2>2. CASE UNCHANGED tcpVars
    BY <2>2, OthersTrue DEF SamplesInv
  <2> QED
    BY <2>1, <2>2, StepOfOne
<1>4. SpyTrue'
  BY StepOfOne, SpyTrueStep, OthersTrue DEF SamplesInv
<1> QED
  BY <1>1, <1>2, <1>3, <1>4 DEF SamplesInv

\* The samples are those of the signal: fileReader's run and its ring, the
\* count of the hackrf's callback, rtl_tcp's readData and its commands after
\* every reconnection, the spyHandler's readHeader and readBody.
THEOREM SamplesAreTrue == Spec => []SamplesTrue
<1>1. Init => Held /\ SamplesInv
  BY HeldInit, SamplesInvInit
<1>2. Held /\ SamplesInv /\ [Next]_vars => (Held /\ SamplesInv)'
  BY HeldStep, SamplesInvStep
<1>3. SamplesInv => SamplesTrue
  <2> SUFFICES ASSUME SamplesInv PROVE SamplesTrue
    OBVIOUS
  <2>1. F!NothingDropped /\ F!Continuous /\ F!StartsAgain
    BY FileSamples DEF SamplesInv
  <2>2. H!ReportsInTime
    BY HackrfSamples DEF SamplesInv
  <2>3. T!ReadOnce /\ T!ServerFollows
    BY TcpSamples DEF SamplesInv
  <2>4. S!InStep
    BY SpySamples DEF SamplesInv
  <2> QED
    BY <2>1, <2>2, <2>3, <2>4 DEF SamplesTrue
<1> QED
  BY <1>1, <1>2, <1>3, PTL DEF Spec
=============================================================================
