--------------------------- MODULE ReceiverProofs ---------------------------
(***************************************************************************)
(* The invariants of Receiver, for every block, decimator and ring size,   *)
(* any number of samples and events, and any depth of dialogs.             *)
(*                                                                         *)
(* Samples are consecutive because each place they pass holds a run of     *)
(* them that ends where the next one's begins (Upto): the ring ends at the *)
(* last sample made, the block at the sample before the ring's first, the  *)
(* decimator at the one before the block's, and so does the dump file as   *)
(* long as it is open.  Nothing stays behind because sampleHandler returns *)
(* only when a block or less is left, and samples put afterwards are in    *)
(* sampleCnt until they are reported.                                      *)
(***************************************************************************)
EXTENDS Receiver, Integers, SequenceTheorems, TLAPS

\* The run of samples that ends with e.
Upto(s, e) == \A k \in 1..Len(s) : s[k] = e - Len(s) + k

Frames == [block : Seq(Int), out : Int, dialog : BOOLEAN]

TypeInv ==
    /\ inputData \in Seq(Int) /\ Len(inputData) <= Capacity
    /\ collected \in Seq(Int) /\ dumpFile \in Seq(Int)
    /\ calls \in Seq(Frames)
    /\ made \in Nat /\ sampleCnt \in Nat /\ events \in Nat

RunsMeet ==
    ~lost /\ ~nested =>
        /\ Len(calls) <= 1
        /\ Upto(inputData, made)
        /\ Upto(Pending, made - Len(inputData))
        /\ Upto(collected, made - Len(inputData) - Len(Pending))

DumpMeets ==
    ~lost =>
        /\ Upto(inputData, made)
        /\ IsConsecutive(dumpFile)
        /\ dumping => Upto(dumpFile, made - Len(inputData))

Closed ==
    /\ theDecoder = "deleted" => slot = "closed"
    /\ slot = "closed" /\ theDevice = "filereader" =>
          calls = <<>> /\ events = 0 /\ ~deviceRuns /\ dpc = "idle"

IInv == TypeInv /\ RunsMeet /\ DumpMeets /\ NothingStaysBehind /\ Closed

-----------------------------------------------------------------------------
(* Runs of samples.                                                        *)

\* A run followed by the next one.
LEMMA UptoConcat ==
    ASSUME NEW s \in Seq(Int), NEW t \in Seq(Int), NEW e \in Int,
           Upto(s, e - Len(t)), Upto(t, e)
    PROVE  /\ s \o t \in Seq(Int) /\ Len(s \o t) = Len(s) + Len(t)
           /\ Upto(s \o t, e)
<1>1. s \o t \in Seq(Int) /\ Len(s \o t) = Len(s) + Len(t)
      /\ \A i \in 1 .. Len(s) + Len(t) :
             (s \o t)[i] = IF i <= Len(s) THEN s[i] ELSE t[i - Len(s)]
  BY ConcatProperties
<1>2. Len(s) \in Nat /\ Len(t) \in Nat
  BY LenProperties
<1>3. ASSUME NEW k \in 1 .. Len(s) + Len(t)
      PROVE  (s \o t)[k] = e - (Len(s) + Len(t)) + k
  <2>1. CASE k <= Len(s)
    <3>1. k \in 1..Len(s)
      BY <1>2, <2>1
    <3> QED
      BY <1>1, <1>2, <2>1, <3>1 DEF Upto
  <2>2. CASE ~(k <= Len(s))
    <3>1. k - Len(s) \in 1..Len(t)
      BY <1>2, <2>2
    <3>2. (s \o t)[k] = t[k - Len(s)]
      BY <1>1, <2>2
    <3> QED
      BY <1>2, <3>1, <3>2 DEF Upto
  <2> QED
    BY <2>1, <2>2
<1> QED
  BY <1>1, <1>3 DEF Upto

\* A run is cut in two.
LEMMA UptoSplit ==
    ASSUME NEW s \in Seq(Int), NEW e \in Int, NEW b \in 0..Len(s)
    PROVE  /\ SubSeq(s, 1, b) \in Seq(Int) /\ Len(SubSeq(s, 1, b)) = b
           /\ SubSeq(s, b + 1, Len(s)) \in Seq(Int)
           /\ Len(SubSeq(s, b + 1, Len(s))) = Len(s) - b
           /\ Upto(s, e) =>
                 /\ Upto(SubSeq(s, 1, b), e - (Len(s) - b))
                 /\ Upto(SubSeq(s, b + 1, Len(s)), e)
<1>1. Len(s) \in Nat /\ b \in Int /\ \A i \in 1..Len(s) : s[i] \in Int
  BY LenProperties, ElementOfSeq
<1>2. /\ SubSeq(s, 1, b) \in Seq(Int) /\ Len(SubSeq(s, 1, b)) = b
      /\ \A i \in 1..b : SubSeq(s, 1, b)[i] = s[i]
  <2>1. \A i \in 1..b : s[i] \in Int
    BY <1>1
  <2>2. /\ SubSeq(s, 1, b) \in Seq(Int)
        /\ Len(SubSeq(s, 1, b)) = IF 1 <= b THEN b - 1 + 1 ELSE 0
        /\ \A i \in 1 .. b - 1 + 1 : SubSeq(s, 1, b)[i] = s[1 + i - 1]
    BY <1>1, <2>1, SubSeqProperties
  <2> QED
    BY <1>1, <2>2
<1>3. /\ SubSeq(s, b + 1, Len(s)) \in Seq(Int)
      /\ Len(SubSeq(s, b + 1, Len(s))) = Len(s) - b
      /\ \A i \in 1 .. Len(s) - b : SubSeq(s, b + 1, Len(s))[i] = s[b + i]
  <2>1. \A i \in b + 1 .. Len(s) : s[i] \in Int
    BY <1>1
  <2>2. b + 1 \in Int /\ Len(s) \in Int
    BY <1>1
  <2>3. /\ SubSeq(s, b + 1, Len(s)) \in Seq(Int)
        /\ Len(SubSeq(s, b + 1, Len(s)))
               = IF b + 1 <= Len(s) THEN Len(s) - (b + 1) + 1 ELSE 0
        /\ \A i \in 1 .. Len(s) - (b + 1) + 1 :
               SubSeq(s, b + 1, Len(s))[i] = s[b + 1 + i - 1]
    BY <2>1, <2>2, SubSeqProperties
  <2> QED
    BY <1>1, <2>3
<1>4. ASSUME Upto(s, e)
      PROVE  /\ Upto(SubSeq(s, 1, b), e - (Len(s) - b))
             /\ Upto(SubSeq(s, b + 1, Len(s)), e)
  <2> DEFINE t == SubSeq(s, 1, b)
             u == SubSeq(s, b + 1, Len(s))
  <2>1. Len(t) = b /\ \A i \in 1..b : t[i] = s[i]
    BY <1>2
  <2>2. Len(u) = Len(s) - b /\ \A i \in 1 .. Len(s) - b : u[i] = s[b + i]
    BY <1>3
  <2> HIDE DEF t, u
  <2>3. b <= Len(s) /\ b >= 0
    BY <1>1
  <2>4. Upto(t, e - (Len(s) - b))
    <3>1. ASSUME NEW k \in 1..b PROVE t[k] = e - (Len(s) - b) - b + k
      <4>1. k \in 1..Len(s) /\ e - (Len(s) - b) - b = e - Len(s)
        BY <1>1, <2>3
      <4>2. t[k] = s[k]
        BY <2>1
      <4>3. s[k] = e - Len(s) + k
        BY <1>4, <4>1 DEF Upto
      <4> QED
        BY <4>1, <4>2, <4>3
    <3>2. \A k \in 1..Len(t) : t[k] = e - (Len(s) - b) - Len(t) + k
      BY <2>1, <3>1
    <3> QED
      BY <3>2 DEF Upto
  <2>5. ASSUME NEW k \in 1 .. Len(s) - b PROVE u[k] = e - (Len(s) - b) + k
    <3>1. b + k \in 1..Len(s)
      BY <1>1, <2>3
    <3> QED
      BY <1>1, <1>4, <2>2, <3>1 DEF Upto
  <2>6. Upto(u, e)
    <3>1. \A k \in 1..Len(u) : u[k] = e - Len(u) + k
      BY <2>2, <2>5
    <3> QED
      BY <3>1 DEF Upto
  <2> QED
    BY <2>4, <2>6 DEF t, u
<1> QED
  BY <1>2, <1>3, <1>4

\* The first sample of a run, and the rest.
LEMMA UptoHead ==
    ASSUME NEW s \in Seq(Int), s # <<>>, NEW e \in Int
    PROVE  /\ Head(s) \in Int /\ Tail(s) \in Seq(Int)
           /\ Len(Tail(s)) = Len(s) - 1 /\ Len(s) \in Nat
           /\ Upto(s, e) => Head(s) = e - Len(s) + 1 /\ Upto(Tail(s), e)
<1>1. Len(s) \in Nat \ {0}
  BY EmptySeq
<1>2. /\ Head(s) \in Int /\ Tail(s) \in Seq(Int)
      /\ Len(Tail(s)) = Len(s) - 1
      /\ \A i \in 1 .. Len(Tail(s)) : Tail(s)[i] = s[i + 1]
  BY HeadTailProperties
<1>3. Head(s) = s[1]
  OBVIOUS
<1> QED
  BY <1>1, <1>2, <1>3 DEF Upto

\* A run with the sample after it.
LEMMA UptoAppend ==
    ASSUME NEW s \in Seq(Int), NEW x \in Int
    PROVE  /\ Append(s, x) \in Seq(Int) /\ Len(Append(s, x)) = Len(s) + 1
           /\ Len(s) \in Nat
           /\ Upto(s, x - 1) => Upto(Append(s, x), x)
<1>1. /\ Append(s, x) \in Seq(Int) /\ Len(Append(s, x)) = Len(s) + 1
      /\ \A i \in 1..Len(s) : Append(s, x)[i] = s[i]
      /\ Append(s, x)[Len(s) + 1] = x
  BY AppendProperties
<1>2. Len(s) \in Nat
  BY LenProperties
<1> QED
  BY <1>1, <1>2 DEF Upto

\* A run is consecutive.
LEMMA UptoConsecutive ==
    ASSUME NEW s \in Seq(Int), NEW e \in Int, Upto(s, e)
    PROVE  IsConsecutive(s)
<1>1. Len(s) \in Nat
  BY LenProperties
<1> QED
  BY <1>1 DEF Upto, IsConsecutive

\* Nothing is a run, and ends anywhere.
LEMMA UptoEmpty ==
    /\ <<>> \in Seq(Int) /\ Len(<<>>) = 0
    /\ \A e \in Int : Upto(<<>>, e)
BY EmptySeq DEF Upto

\* New samples are one.
LEMMA UptoNew ==
    ASSUME NEW m \in Int, NEW n \in Nat
    PROVE  /\ [k \in 1..n |-> m + k] \in Seq(Int)
           /\ Len([k \in 1..n |-> m + k]) = n
           /\ Upto([k \in 1..n |-> m + k], m + n)
BY DEF Upto

-----------------------------------------------------------------------------
(* The calls of sampleHandler.                                             *)

\* The innermost call, and those outside of it.
LEMMA TopIsFrame ==
    ASSUME calls \in Seq(Frames), calls # <<>>
    PROVE  /\ Top \in Frames /\ Outer \in Seq(Frames)
           /\ Len(calls) \in Nat \ {0} /\ Len(Outer) = Len(calls) - 1
           /\ Pending = Top.block
<1>1. Len(calls) \in Nat \ {0}
  BY EmptySeq
<1>2. Top \in Frames
  BY <1>1, ElementOfSeq DEF Top
<1>3. \A i \in 1 .. Len(calls) - 1 : calls[i] \in Frames
  BY <1>1, ElementOfSeq
<1>4. /\ Outer \in Seq(Frames)
      /\ Len(Outer) = IF 1 <= Len(calls) - 1 THEN Len(calls) - 1 - 1 + 1 ELSE 0
  <2>1. 1 \in Int /\ Len(calls) - 1 \in Int
    BY <1>1
  <2> QED
    BY <1>3, <2>1, SubSeqProperties DEF Outer
<1>5. Pending = Top.block
  BY DEF Pending
<1>6. Len(Outer) = Len(calls) - 1
  <2>1. PICK n \in Nat \ {0} : n = Len(calls)
    BY <1>1
  <2>2. (IF 1 <= n - 1 THEN n - 1 - 1 + 1 ELSE 0) = n - 1
    BY <2>1
  <2> QED
    BY <1>4, <2>1, <2>2
<1> QED
  BY <1>1, <1>2, <1>4, <1>5, <1>6

\* The innermost call goes on: the others are as they were.
LEMMA TopChanges ==
    ASSUME calls \in Seq(Frames), calls # <<>>, NEW f \in Frames,
           calls' = Append(Outer, f)
    PROVE  /\ calls' \in Seq(Frames) /\ calls' # <<>>
           /\ Len(calls') = Len(calls)
           /\ Pending' = f.block
<1>1. Outer \in Seq(Frames) /\ Len(calls) \in Nat \ {0}
      /\ Len(Outer) = Len(calls) - 1
  BY TopIsFrame
<1>2. /\ calls' \in Seq(Frames) /\ calls' # <<>>
      /\ Len(calls') = Len(Outer) + 1
      /\ calls'[Len(Outer) + 1] = f
  BY <1>1, AppendProperties
<1>3. Top' = f
  BY <1>2 DEF Top
<1>4. Pending' = f.block
  BY <1>2, <1>3 DEF Pending
<1> QED
  BY <1>1, <1>2, <1>4

\* A call with one or two of its fields changed is still one.
LEMMA FrameExcept ==
    ASSUME NEW S, NEW t \in [block : S, out : Int, dialog : BOOLEAN],
           NEW b \in S, NEW o \in Int, NEW d \in BOOLEAN
    PROVE  /\ [t EXCEPT !.block = b] \in [block : S, out : Int, dialog : BOOLEAN]
           /\ [t EXCEPT !.block = b].block = b
           /\ [t EXCEPT !.block = b, !.out = o]
                  \in [block : S, out : Int, dialog : BOOLEAN]
           /\ [t EXCEPT !.block = b, !.out = o].block = b
           /\ [t EXCEPT !.dialog = d] \in [block : S, out : Int, dialog : BOOLEAN]
           /\ [t EXCEPT !.dialog = d].block = t.block
           /\ [t EXCEPT !.out = o] \in [block : S, out : Int, dialog : BOOLEAN]
           /\ [t EXCEPT !.out = o].block = t.block
           /\ [t EXCEPT !.dialog = d, !.out = o]
                  \in [block : S, out : Int, dialog : BOOLEAN]
           /\ [t EXCEPT !.dialog = d, !.out = o].block = t.block
OBVIOUS

\* What is pending is a sequence of samples.
LEMMA PendingSeq ==
    ASSUME calls \in Seq(Frames) PROVE Pending \in Seq(Int)
<1>1. CASE calls = <<>>
  BY <1>1, EmptySeq DEF Pending
<1>2. CASE calls # <<>>
  BY <1>2, TopIsFrame DEF Frames
<1> QED
  BY <1>1, <1>2

-----------------------------------------------------------------------------
(* The steps.  Most of them leave the samples where they are.              *)

\* The samples and the calls stay, or a call changes that holds none.
LEMMA SamplesStay ==
    ASSUME RunsMeet, DumpMeets,
           Len(calls') <= 1 \/ nested',
           lost' = lost, nested => nested', made' = made,
           inputData' = inputData, collected' = collected, Pending' = Pending,
           \/ dumpFile' = dumpFile /\ dumping' = dumping
           \/ ~dumping' /\ dumpFile' = dumpFile
           \/ dumpFile' = <<>>,
           inputData \in Seq(Int), made \in Nat, dumpFile \in Seq(Int)
    PROVE  RunsMeet' /\ DumpMeets'
<1>1. RunsMeet'
  BY DEF RunsMeet, Upto
<1>2. Len(inputData) \in Nat
  BY LenProperties
<1>3. CASE dumpFile' = <<>>
  <2>1. made - Len(inputData) \in Int
    BY <1>2
  <2>2. Upto(<<>>, made - Len(inputData)) /\ IsConsecutive(<<>>)
    BY <2>1, UptoEmpty, UptoConsecutive
  <2>3. Upto(dumpFile', made' - Len(inputData')) /\ IsConsecutive(dumpFile')
    BY <1>3, <2>2
  <2>4. ~lost => Upto(inputData', made')
    BY DEF DumpMeets
  <2> QED
    BY <1>1, <2>3, <2>4 DEF DumpMeets
<1>4. CASE dumpFile' = dumpFile /\ (dumping' => dumping)
  BY <1>1, <1>4 DEF DumpMeets
<1> QED
  BY <1>3, <1>4

\* The callback puts samples: a run that follows the others, if they fit.
LEMMA PutKeeps ==
    ASSUME IInv, NEW n \in 1..MaxSamples, CallbackPuts(n) PROVE IInv'
<1> DEFINE room == Capacity - Len(inputData)
           put == IF n < room THEN n ELSE room
           new == [k \in 1..put |-> made + k]
<1>0. Capacity \in Nat /\ MaxSamples \in Nat
  BY ReceiverAssumption
<1>1. /\ inputData \in Seq(Int) /\ Len(inputData) \in Nat
      /\ Len(inputData) <= Capacity
      /\ made \in Nat /\ sampleCnt \in Nat /\ n \in Nat \ {0}
  BY <1>0, LenProperties DEF IInv, TypeInv
<1>2. put \in Nat /\ put <= n /\ put <= room /\ room \in Nat
  BY <1>0, <1>1
<1>3. /\ inputData' = inputData \o new
      /\ made' = made + n
      /\ lost' = (lost \/ n > room)
      /\ sampleCnt' = sampleCnt + n
      /\ deviceRuns /\ dpc' = "report"
      /\ theDevice' = theDevice /\ calls' = calls /\ collected' = collected
      /\ dumping' = dumping /\ slot' = slot /\ events' = events
      /\ deviceRuns' = deviceRuns /\ nested' = nested
      /\ theDecoder' = theDecoder /\ dumpFile' = dumpFile
  BY DEF CallbackPuts, handlerVars, userVars
<1> HIDE DEF put
<1>4. new \in Seq(Int) /\ Len(new) = put /\ Upto(new, made + put)
  <2>1. made \in Int
    BY <1>1
  <2>2. \A m \in Int, k \in Nat :
            /\ [j \in 1..k |-> m + j] \in Seq(Int)
            /\ Len([j \in 1..k |-> m + j]) = k
            /\ Upto([j \in 1..k |-> m + j], m + k)
    BY UptoNew
  <2> QED
    BY <1>2, <2>1, <2>2
<1> HIDE DEF new
<1>5. inputData' \in Seq(Int) /\ Len(inputData') = Len(inputData) + put
  BY <1>1, <1>3, <1>4, ConcatProperties
<1>6. TypeInv'
  BY <1>0, <1>1, <1>2, <1>3, <1>5 DEF IInv, TypeInv
<1>7. ASSUME ~lost'
      PROVE  /\ ~lost /\ made' - Len(inputData') = made - Len(inputData)
             /\ Upto(inputData, made) => Upto(inputData', made')
  <2>1. CASE lost
    BY <1>3, <1>7, <2>1
  <2>2. CASE ~lost
    <3>1. ~(n > room)
      BY <1>3, <1>7, <2>2
    <3>2. put = n
      BY <1>0, <1>1, <1>2, <3>1 DEF put
    <3>3. made + put \in Int /\ (made + put) - Len(new) = made
      BY <1>1, <1>2, <1>4
    <3>4. Upto(inputData, made) => Upto(inputData', made')
      <4>1. made + put = made' /\ made + put \in Int
        BY <1>3, <3>2, <3>3
      <4>2. Upto(new, made + put)
        BY <1>4
      <4>3. ASSUME Upto(inputData, made)
            PROVE  Upto(inputData \o new, made + put)
        <5> DEFINE e == made + put
        <5>1. Upto(inputData, e - Len(new)) /\ Upto(new, e) /\ e \in Int
          BY <3>3, <4>2, <4>3
        <5>2. inputData \in Seq(Int) /\ new \in Seq(Int)
          BY <1>1, <1>4
        <5> HIDE DEF e
        <5>3. Upto(inputData \o new, e)
          BY <5>1, <5>2, UptoConcat
        <5> QED
          BY <5>3 DEF e
      <4> QED
        BY <1>3, <4>1, <4>3
    <3> QED
      BY <1>1, <1>3, <1>5, <2>2, <3>2, <3>4
  <2> QED
    BY <2>1, <2>2
<1>8. Pending' = Pending
  BY <1>3 DEF Pending, Top
<1>9. RunsMeet'
  BY <1>3, <1>7, <1>8 DEF IInv, RunsMeet
<1>10. DumpMeets'
  BY <1>3, <1>7 DEF IInv, DumpMeets
<1>11. NothingStaysBehind'
  <2>1. Block \in Nat
    BY ReceiverAssumption
  <2> QED
    BY <1>1, <1>2, <1>3, <1>5, <2>1 DEF IInv, NothingStaysBehind
<1>12. Closed'
  BY <1>3 DEF IInv, Closed
<1> QED
  BY <1>6, <1>9, <1>10, <1>11, <1>12 DEF IInv

\* The callback reports: what was counted is in the ring, and now an event is
\* on its way.
LEMMA ReportKeeps == ASSUME IInv, CallbackReports PROVE IInv'
<1>1. /\ inputData' = inputData /\ made' = made /\ lost' = lost
      /\ theDevice' = theDevice /\ calls' = calls /\ collected' = collected
      /\ dumping' = dumping /\ slot' = slot /\ nested' = nested
      /\ theDecoder' = theDecoder /\ dumpFile' = dumpFile
      /\ dpc = "report" /\ dpc' = "idle" /\ deviceRuns' = deviceRuns
      /\ \/ sampleCnt' = 0 /\ events' = events + 1
         \/ sampleCnt' = sampleCnt /\ events' = events
  BY DEF CallbackReports, handlerVars, userVars
<1>2. TypeInv'
  BY <1>1 DEF IInv, TypeInv
<1>3. Pending' = Pending
  BY <1>1 DEF Pending, Top
<1>4. RunsMeet' /\ DumpMeets'
  BY <1>1, <1>3 DEF IInv, RunsMeet, DumpMeets
<1>5. NothingStaysBehind'
  <2>1. events \in Nat
    BY DEF IInv, TypeInv
  <2> QED
    BY <1>1, <2>1 DEF IInv, NothingStaysBehind
<1>6. Closed'
  BY <1>1 DEF IInv, Closed
<1> QED
  BY <1>2, <1>4, <1>5, <1>6 DEF IInv

\* sampleHandler is called: for the first time, or within process.
LEMMA SampleHandlerKeeps == ASSUME IInv, SampleHandler PROVE IInv'
<1> DEFINE new == [block |-> <<>>, out |-> 0, dialog |-> FALSE]
<1>1. /\ inputData' = inputData /\ made' = made /\ lost' = lost
      /\ theDevice' = theDevice /\ collected' = collected
      /\ dumping' = dumping /\ slot' = slot
      /\ theDecoder' = theDecoder /\ dumpFile' = dumpFile
      /\ sampleCnt' = sampleCnt /\ dpc' = dpc /\ deviceRuns' = deviceRuns
      /\ events > 0 /\ events' = events - 1
      /\ calls' = Append(calls, new)
      /\ nested' = (nested \/ calls # <<>>)
  BY DEF SampleHandler, eventUnchanged, deviceVars, userVars
<1>2. calls \in Seq(Frames) /\ new \in Frames /\ events \in Nat
      /\ inputData \in Seq(Int) /\ made \in Nat /\ dumpFile \in Seq(Int)
  BY EmptySeq DEF IInv, TypeInv, Frames
<1>3. /\ calls' \in Seq(Frames) /\ calls' # <<>>
      /\ Len(calls') = Len(calls) + 1
      /\ calls'[Len(calls) + 1] = new /\ Len(calls) \in Nat
  BY <1>1, <1>2, AppendProperties, LenProperties
<1>4. TypeInv'
  BY <1>1, <1>2, <1>3 DEF IInv, TypeInv
<1>5. RunsMeet' /\ DumpMeets'
  <2>1. CASE nested'
    BY <1>1, <2>1 DEF IInv, RunsMeet, DumpMeets
  <2>2. CASE ~nested'
    <3>1. ~nested /\ calls = <<>>
      BY <1>1, <2>2
    <3>2. Pending = <<>> /\ Pending' = <<>>
      BY <1>3, <3>1 DEF Pending, Top
    <3>3. Len(calls') <= 1
      BY <1>3, <3>1, EmptySeq
    <3> QED
      BY <1>1, <1>2, <3>1, <3>2, <3>3, SamplesStay DEF IInv
  <2> QED
    BY <2>1, <2>2
<1>6. NothingStaysBehind'
  BY <1>3 DEF NothingStaysBehind
<1>7. Closed'
  <2>1. ~(slot = "closed" /\ theDevice = "filereader")
    BY <1>1, <1>2 DEF IInv, Closed
  <2> QED
    BY <1>1, <2>1 DEF IInv, Closed
<1> QED
  BY <1>4, <1>5, <1>6, <1>7 DEF IInv

\* What the steps within sampleHandler have in common.
LEMMA InCall ==
    ASSUME IInv, calls # <<>>, calls' \in Seq(Frames), calls' # <<>>,
           inputData' \in Seq(Int), Len(inputData') <= Capacity,
           collected' \in Seq(Int), dumpFile' \in Seq(Int),
           events' = events, eventUnchanged' = eventUnchanged,
           theDecoder' = theDecoder, RunsMeet', DumpMeets'
    PROVE  IInv'
<1>1. TypeInv'
  BY DEF IInv, TypeInv, eventUnchanged, deviceVars
<1>2. NothingStaysBehind'
  BY DEF NothingStaysBehind
<1>3. Closed'
  BY DEF IInv, Closed, eventUnchanged, deviceVars, userVars
<1> QED
  BY <1>1, <1>2, <1>3 DEF IInv

\* A block moves from the ring into the call, and to the dump file.
LEMMA TakesKeeps == ASSUME IInv, TakesBlock PROVE IInv'
<1> DEFINE f == [Top EXCEPT !.block = Taken]
           rest == SubSeq(inputData, Block + 1, Len(inputData))
<1>1. /\ calls # <<>> /\ Top.block = <<>> /\ Len(inputData) > Block
      /\ inputData' = rest
      /\ calls' = Append(Outer, f)
      /\ dumpFile' = IF dumping THEN dumpFile \o Taken ELSE dumpFile
      /\ eventUnchanged' = eventUnchanged
      /\ made' = made /\ lost' = lost /\ dumping' = dumping
      /\ nested' = nested /\ events' = events /\ collected' = collected
      /\ theDecoder' = theDecoder
  BY DEF TakesBlock, InHandler, handlerUnchanged, eventUnchanged, deviceVars,
         userVars
<1>2. /\ inputData \in Seq(Int) /\ Len(inputData) \in Nat
      /\ Len(inputData) <= Capacity /\ collected \in Seq(Int)
      /\ dumpFile \in Seq(Int) /\ calls \in Seq(Frames)
      /\ made \in Nat /\ Block \in Nat
  BY LenProperties, ReceiverAssumption DEF IInv, TypeInv
<1>3. Block \in 0..Len(inputData)
  BY <1>1, <1>2
<1>4. /\ Taken \in Seq(Int) /\ Len(Taken) = Block
      /\ rest \in Seq(Int) /\ Len(rest) = Len(inputData) - Block
      /\ Upto(inputData, made) =>
            /\ Upto(Taken, made - (Len(inputData) - Block))
            /\ Upto(rest, made)
  BY <1>2, <1>3, UptoSplit DEF Taken
<1> HIDE DEF rest
<1>5. Top \in Frames /\ Pending = Top.block
  BY <1>1, <1>2, TopIsFrame
<1>6. f \in Frames /\ f.block = Taken
  BY <1>4, <1>5 DEF Frames
<1> HIDE DEF f
<1>7. /\ calls' \in Seq(Frames) /\ calls' # <<>>
      /\ Len(calls') = Len(calls) /\ Pending' = Taken
  BY <1>1, <1>2, <1>6, TopChanges
<1>8. made' - Len(inputData') = made - (Len(inputData) - Block)
      /\ Len(Pending) = 0
      /\ made - Len(inputData) = made - (Len(inputData) - Block) - Block
      /\ made - Len(inputData) \in Int
  BY <1>1, <1>2, <1>4, <1>5, EmptySeq
<1>9. RunsMeet'
  <2> SUFFICES ASSUME ~lost, ~nested
               PROVE  /\ Len(calls') <= 1
                      /\ Upto(inputData', made')
                      /\ Upto(Pending', made' - Len(inputData'))
                      /\ Upto(collected',
                              made' - Len(inputData') - Len(Pending'))
    BY <1>1 DEF RunsMeet
  <2>1. /\ Len(calls) <= 1 /\ Upto(inputData, made)
        /\ Upto(collected, made - Len(inputData) - Len(Pending))
    BY DEF IInv, RunsMeet
  <2>2. made - Len(inputData) - Len(Pending)
            = made' - Len(inputData') - Len(Pending')
    <3>1. Len(Pending') = Block /\ Len(inputData') = Len(inputData) - Block
      BY <1>1, <1>4, <1>7
    <3> QED
      BY <1>1, <1>2, <1>8, <3>1
  <2>3. Upto(collected', made' - Len(inputData') - Len(Pending'))
    BY <1>1, <2>1, <2>2
  <2>4. Upto(inputData', made')
    BY <1>1, <1>4, <2>1
  <2>5. Upto(Pending', made' - Len(inputData'))
    BY <1>4, <1>7, <1>8, <2>1
  <2> QED
    BY <1>7, <2>1, <2>3, <2>4, <2>5
<1>10. dumpFile' \in Seq(Int) /\ DumpMeets'
  <2>1. CASE ~dumping
    <3>1. dumpFile' = dumpFile
      BY <1>1, <2>1
    <3> QED
      BY <1>1, <1>2, <1>4, <2>1, <3>1 DEF IInv, DumpMeets
  <2>2. CASE dumping
    <3>1. dumpFile' = dumpFile \o Taken
      BY <1>1, <2>2
    <3>2. dumpFile' \in Seq(Int)
      BY <1>2, <1>4, <3>1, ConcatProperties
    <3>3. ASSUME ~lost
          PROVE  Upto(dumpFile', made' - Len(inputData'))
      <4> DEFINE e == made - (Len(inputData) - Block)
      <4>1. Upto(inputData, made) /\ Upto(dumpFile, made - Len(inputData))
        BY <2>2, <3>3 DEF IInv, DumpMeets
      <4>2. Upto(Taken, e) /\ e \in Int
        BY <1>2, <1>4, <4>1
      <4>3. e - Len(Taken) = made - Len(inputData)
        BY <1>2, <1>4
      <4> HIDE DEF e
      <4>4. Upto(dumpFile, e - Len(Taken))
        BY <4>1, <4>3
      <4>5. Upto(dumpFile \o Taken, e)
        BY <1>2, <1>4, <4>2, <4>4, UptoConcat
      <4>6. made' - Len(inputData') = e
        BY <1>8 DEF e
      <4> QED
        BY <3>1, <4>5, <4>6
    <3>4. ~lost => IsConsecutive(dumpFile')
      <4>1. made' - Len(inputData') \in Int
        BY <1>1, <1>2, <1>4
      <4> QED
        BY <3>2, <3>3, <4>1, UptoConsecutive
    <3>5. ~lost => Upto(inputData', made')
      BY <1>1, <1>4 DEF IInv, DumpMeets
    <3> QED
      BY <1>1, <3>2, <3>3, <3>4, <3>5 DEF DumpMeets
  <2> QED
    BY <2>1, <2>2
<1>11. Len(inputData') <= Capacity
  BY <1>1, <1>2, <1>4, ReceiverAssumption
<1> QED
  BY <1>1, <1>2, <1>4, <1>7, <1>9, <1>10, <1>11, InCall

\* A sample moves from the call into the decimator, or fills it.
LEMMA AddsKeeps == ASSUME IInv, AddsSample PROVE IInv'
<1> DEFINE x == Head(Top.block)
           all == Append(collected, x)
           f == [Top EXCEPT !.block = Tail(Top.block)]
           g == [Top EXCEPT !.block = Tail(Top.block), !.out = outSize]
<1>1. /\ calls # <<>> /\ Top.block # <<>>
      /\ inputData' = inputData /\ dumpFile' = dumpFile
      /\ eventUnchanged' = eventUnchanged
      /\ made' = made /\ lost' = lost /\ dumping' = dumping
      /\ nested' = nested /\ events' = events
      /\ theDecoder' = theDecoder
      /\ \/ collected' = all /\ calls' = Append(Outer, f)
         \/ collected' = <<>> /\ calls' = Append(Outer, g)
  BY DEF AddsSample, InHandler, handlerUnchanged, eventUnchanged, deviceVars,
         userVars
<1>2. /\ inputData \in Seq(Int) /\ Len(inputData) \in Nat
      /\ Len(inputData) <= Capacity /\ collected \in Seq(Int)
      /\ dumpFile \in Seq(Int) /\ calls \in Seq(Frames)
      /\ made \in Nat /\ outSize \in Nat
  BY LenProperties, ReceiverAssumption DEF IInv, TypeInv
<1>3. Top \in Frames /\ Pending = Top.block
  BY <1>1, <1>2, TopIsFrame
<1>4. Top.block \in Seq(Int)
  BY <1>3 DEF Frames
<1>5. /\ x \in Int /\ Tail(Top.block) \in Seq(Int)
      /\ Len(Top.block) \in Nat
      /\ Len(Tail(Top.block)) = Len(Top.block) - 1
      /\ \A e \in Int : Upto(Top.block, e) =>
             x = e - Len(Top.block) + 1 /\ Upto(Tail(Top.block), e)
  BY <1>1, <1>4, UptoHead
<1>6. f \in Frames /\ g \in Frames
      /\ f.block = Tail(Top.block) /\ g.block = Tail(Top.block)
  <2>1. outSize \in Int
    BY <1>2
  <2> HIDE DEF x
  <2> QED
    BY <1>3, <1>5, <2>1, FrameExcept DEF Frames
<1> HIDE DEF f, g, x
<1>7. /\ calls' \in Seq(Frames) /\ calls' # <<>>
      /\ Len(calls') = Len(calls) /\ Pending' = Tail(Top.block)
  BY <1>1, <1>2, <1>6, TopChanges
<1>8. /\ all \in Seq(Int) /\ Len(all) = Len(collected) + 1
      /\ Upto(collected, x - 1) => Upto(all, x)
  BY <1>2, <1>5, UptoAppend
<1> HIDE DEF all
<1>9. collected' \in Seq(Int)
  BY <1>1, <1>8, EmptySeq
<1>10. RunsMeet'
  <2> SUFFICES ASSUME ~lost, ~nested
               PROVE  /\ Len(calls') <= 1
                      /\ Upto(inputData', made')
                      /\ Upto(Pending', made' - Len(inputData'))
                      /\ Upto(collected',
                              made' - Len(inputData') - Len(Pending'))
    BY <1>1 DEF RunsMeet
  <2>1. /\ Len(calls) <= 1 /\ Upto(inputData, made)
        /\ Upto(Pending, made - Len(inputData))
        /\ Upto(collected, made - Len(inputData) - Len(Pending))
    BY DEF IInv, RunsMeet
  <2>2. made - Len(inputData) \in Int /\ made' - Len(inputData') = made - Len(inputData)
    BY <1>1, <1>2
  <2>3. x = made - Len(inputData) - Len(Top.block) + 1
        /\ Upto(Tail(Top.block), made - Len(inputData))
    BY <1>3, <1>5, <2>1, <2>2
  <2>4. x = made' - Len(inputData') - Len(Pending')
        /\ x - 1 = made - Len(inputData) - Len(Pending)
    <3>1. Len(Pending') = Len(Top.block) - 1 /\ Len(Pending) = Len(Top.block)
      BY <1>3, <1>5, <1>7
    <3> QED
      BY <1>5, <2>2, <2>3, <3>1
  <2>5. Upto(all, x)
    BY <1>8, <2>1, <2>4
  <2>6. Upto(<<>>, x)
    BY <1>5, UptoEmpty
  <2>7. Upto(collected', made' - Len(inputData') - Len(Pending'))
    BY <1>1, <2>4, <2>5, <2>6
  <2>8. Upto(Pending', made' - Len(inputData'))
    BY <1>7, <2>2, <2>3
  <2> QED
    BY <1>1, <1>7, <2>1, <2>7, <2>8
<1>11. DumpMeets'
  BY <1>1 DEF IInv, DumpMeets
<1> QED
  BY <1>1, <1>2, <1>7, <1>9, <1>10, <1>11, InCall

\* process is called, or has asked for a file name and goes on: no sample
\* moves.
LEMMA ProcessKeeps == ASSUME IInv, Processes \/ DialogEnds PROVE IInv'
<1>1. /\ calls # <<>>
      /\ inputData' = inputData /\ dumpFile' = dumpFile
      /\ collected' = collected /\ eventUnchanged' = eventUnchanged
      /\ made' = made /\ lost' = lost /\ dumping' = dumping
      /\ nested' = nested /\ events' = events
      /\ theDecoder' = theDecoder
  BY DEF Processes, DialogEnds, InHandler, handlerUnchanged, eventUnchanged,
         deviceVars, userVars
<1>2. /\ inputData \in Seq(Int) /\ Len(inputData) <= Capacity
      /\ collected \in Seq(Int) /\ dumpFile \in Seq(Int)
      /\ calls \in Seq(Frames) /\ made \in Nat
  BY DEF IInv, TypeInv
<1>3. Top \in Frames /\ Pending = Top.block
  BY <1>1, <1>2, TopIsFrame
<1>4. PICK f \in Frames : calls' = Append(Outer, f) /\ f.block = Top.block
  <2> DEFINE f1 == [Top EXCEPT !.dialog = TRUE]
             f2 == [Top EXCEPT !.out = @ - 1]
             f3 == [Top EXCEPT !.dialog = FALSE, !.out = @ - 1]
  <2>0. Top.out \in Int /\ Top.out - 1 \in Int /\ Top.block \in Seq(Int)
    BY <1>3 DEF Frames
  <2>1. f1 \in Frames /\ f2 \in Frames /\ f3 \in Frames
    BY <1>3, <2>0, FrameExcept DEF Frames
  <2>2. f1.block = Top.block /\ f2.block = Top.block /\ f3.block = Top.block
    BY <1>3, <2>0, FrameExcept DEF Frames
  <2>3. \/ calls' = Append(Outer, f1)
        \/ calls' = Append(Outer, f2)
        \/ calls' = Append(Outer, f3)
    BY DEF Processes, DialogEnds
  <2> QED
    BY <2>1, <2>2, <2>3
<1>5. /\ calls' \in Seq(Frames) /\ calls' # <<>>
      /\ Len(calls') = Len(calls) /\ Pending' = Pending
  BY <1>1, <1>2, <1>3, <1>4, TopChanges
<1>6. RunsMeet' /\ DumpMeets'
  BY <1>1, <1>5 DEF IInv, RunsMeet, DumpMeets
<1> QED
  BY <1>1, <1>2, <1>5, <1>6, InCall

\* sampleHandler returns when there is a block or less.
LEMMA ReturnKeeps == ASSUME IInv, HandlerReturns PROVE IInv'
<1>1. /\ calls # <<>> /\ Top.block = <<>> /\ calls' = Outer
      /\ Len(inputData) <= Block
      /\ inputData' = inputData /\ dumpFile' = dumpFile
      /\ collected' = collected /\ theDevice' = theDevice
      /\ made' = made /\ lost' = lost /\ dumping' = dumping
      /\ nested' = nested /\ events' = events /\ slot' = slot
      /\ sampleCnt' = sampleCnt /\ dpc' = dpc
      /\ deviceRuns' = deviceRuns /\ theDecoder' = theDecoder
  BY DEF HandlerReturns, InHandler, handlerUnchanged, eventUnchanged,
         deviceVars, userVars
<1>2. calls \in Seq(Frames)
  BY DEF IInv, TypeInv
<1>3. /\ Outer \in Seq(Frames) /\ Len(calls) \in Nat \ {0}
      /\ Len(Outer) = Len(calls) - 1 /\ Pending = <<>>
  BY <1>1, <1>2, TopIsFrame
<1>4. TypeInv'
  BY <1>1, <1>3 DEF IInv, TypeInv
<1>5. RunsMeet'
  <2> SUFFICES ASSUME ~lost, ~nested PROVE RunsMeet'
    BY <1>1 DEF RunsMeet
  <2>1. Len(Outer) = 0
    BY <1>3 DEF IInv, RunsMeet
  <2>2. calls' = <<>>
    BY <1>1, <1>3, <2>1, EmptySeq
  <2>3. Len(calls') <= 1
    BY <1>1, <2>1
  <2>4. Pending' = Pending
    <3>1. Pending' = <<>>
      BY <2>2 DEF Pending
    <3> QED
      BY <1>3, <3>1
  <2> QED
    BY <1>1, <2>3, <2>4 DEF IInv, RunsMeet
<1>6. DumpMeets'
  BY <1>1 DEF IInv, DumpMeets
<1>7. NothingStaysBehind'
  <2>1. sampleCnt \in Nat /\ Len(inputData) \in Nat /\ Block \in Nat
    BY LenProperties, ReceiverAssumption DEF IInv, TypeInv
  <2> QED
    BY <1>1, <2>1 DEF NothingStaysBehind
<1>8. Closed'
  BY <1>1 DEF IInv, Closed
<1> QED
  BY <1>4, <1>5, <1>6, <1>7, <1>8 DEF IInv

-----------------------------------------------------------------------------
(* The user's events.                                                      *)

\* What the slots do: they leave the samples where they are, and a dump begins
\* with an empty file.
UserSteps ==
    \/ \E s \in Decoders : SelectDecoder(s)
    \/ SetSaveSingle \/ SetDumpButton \/ CloseEvent
    \/ DumpDialogEnds \/ Ignores \/ Quits

\* What is not the user's stays.
LEMMA UserUnchanged ==
    ASSUME UserSteps
    PROVE  /\ calls = <<>> /\ UNCHANGED userUnchanged
           /\ dumpFile' = dumpFile \/ dumpFile' = <<>>
           /\ \/ dumpFile' = dumpFile /\ dumping' = dumping
              \/ ~dumping' /\ dumpFile' = dumpFile
              \/ dumpFile' = <<>>
<1>1. ASSUME NEW s \in Decoders, SelectDecoder(s)
      PROVE  /\ calls = <<>> /\ UNCHANGED userUnchanged
             /\ dumpFile' = dumpFile /\ dumping' = dumping
  BY <1>1 DEF SelectDecoder, UserEvent
<1>2. CASE SetSaveSingle
  BY <1>2 DEF SetSaveSingle, UserEvent
<1>3. CASE SetDumpButton
  <2>1. CASE dumping
    BY <1>3, <2>1 DEF SetDumpButton, UserEvent
  <2>2. CASE ~dumping
    BY <1>3, <2>2 DEF SetDumpButton, UserEvent
  <2> QED
    BY <2>1, <2>2
<1>4. CASE CloseEvent
  BY <1>4 DEF CloseEvent, UserEvent
<1>5. CASE DumpDialogEnds
  BY <1>5 DEF DumpDialogEnds
<1>6. CASE Ignores
  BY <1>6 DEF Ignores
<1>7. CASE Quits
  BY <1>7 DEF Quits
<1> QED
  BY <1>1, <1>2, <1>3, <1>4, <1>5, <1>6, <1>7 DEF UserSteps

\* The decoder is deleted, and the events of a file reader with it, at the end.
LEMMA UserCloses ==
    ASSUME UserSteps
    PROVE  /\ theDecoder' = "deleted" => theDecoder = "deleted" \/ slot' = "closed"
           /\ slot # "closed"
           /\ \/ slot' # "closed" /\ events' = events
              \/ /\ slot' = "closed" /\ ~deviceRuns' /\ dpc = "idle"
                 /\ theDevice = "filereader" => events' = 0
                 /\ events' = 0 \/ events' = events
<1>1. ASSUME NEW s \in Decoders, SelectDecoder(s)
      PROVE  theDecoder' # "deleted" /\ slot = "idle" /\ slot' = "idle"
             /\ events' = events
  BY <1>1, ReceiverAssumption DEF SelectDecoder, UserEvent
<1>2. CASE SetSaveSingle
  BY <1>2 DEF SetSaveSingle, UserEvent
<1>3. CASE SetDumpButton
  BY <1>3 DEF SetDumpButton, UserEvent
<1>4. CASE CloseEvent
  BY <1>4 DEF CloseEvent, UserEvent
<1>5. CASE DumpDialogEnds
  BY <1>5 DEF DumpDialogEnds
<1>6. CASE Ignores
  BY <1>6 DEF Ignores
<1>7. CASE Quits
  BY <1>7 DEF Quits
<1> QED
  BY <1>1, <1>2, <1>3, <1>4, <1>5, <1>6, <1>7 DEF UserSteps

\* So they keep the invariant.
LEMMA UserKeeps == ASSUME IInv, UserSteps PROVE IInv'
<1>1. /\ inputData' = inputData /\ made' = made /\ lost' = lost
      /\ theDevice' = theDevice /\ collected' = collected /\ calls' = calls
      /\ nested' = nested /\ sampleCnt' = sampleCnt /\ dpc' = dpc
      /\ calls = <<>>
  BY UserUnchanged DEF userUnchanged, deviceVars, handlerVars
<1>2. Pending' = Pending
  BY <1>1 DEF Pending
<1>3. /\ inputData \in Seq(Int) /\ made \in Nat /\ dumpFile \in Seq(Int)
      /\ events \in Nat
  BY DEF IInv, TypeInv
<1>4. dumpFile' \in Seq(Int) /\ events' \in Nat
  <2>1. dumpFile' = dumpFile \/ dumpFile' = <<>>
    BY UserUnchanged
  <2>2. events' = 0 \/ events' = events
    BY UserCloses
  <2>3. <<>> \in Seq(Int)
    BY EmptySeq
  <2>4. dumpFile' \in Seq(Int)
    BY <1>3, <2>1, <2>3, Zenon
  <2>5. events' \in Nat
    BY <1>3, <2>2
  <2> QED
    BY <2>4, <2>5
<1>5. TypeInv'
  BY <1>1, <1>4 DEF IInv, TypeInv
<1>6. RunsMeet' /\ DumpMeets'
  <2>1. Len(calls') <= 1
    BY <1>1, EmptySeq
  <2>2. RunsMeet /\ DumpMeets
    BY DEF IInv
  <2> QED
    BY <1>1, <1>2, <1>3, <2>1, <2>2, UserUnchanged, SamplesStay
<1>7. NothingStaysBehind'
  BY <1>1, UserCloses DEF IInv, NothingStaysBehind
<1>8. Closed'
  BY <1>1, UserCloses DEF IInv, Closed
<1> QED
  BY <1>5, <1>6, <1>7, <1>8 DEF IInv

-----------------------------------------------------------------------------
\* Initially all places are empty.
LEMMA InitRuns == Init => IInv
<1> SUFFICES ASSUME Init PROVE IInv
  OBVIOUS
<1>1. /\ inputData = <<>> /\ sampleCnt = 0 /\ made = 0 /\ events = 0
      /\ calls = <<>> /\ collected = <<>> /\ dumpFile = <<>> /\ slot = "idle"
      /\ theDecoder \in Decoders
  BY DEF Init
<1>2. Pending = <<>>
  BY <1>1 DEF Pending
<1>3. TypeInv
  BY <1>1, EmptySeq, ReceiverAssumption DEF TypeInv
<1>4. Upto(<<>>, 0) /\ 0 - 0 = 0 /\ 0 - 0 - 0 = 0 /\ IsConsecutive(<<>>)
  <2>1. Upto(<<>>, 0) /\ <<>> \in Seq(Int)
    BY UptoEmpty
  <2>2. IsConsecutive(<<>>)
    BY EmptySeq DEF IsConsecutive
  <2> QED
    BY <2>1, <2>2
<1>5. RunsMeet /\ DumpMeets
  BY <1>1, <1>2, <1>4, EmptySeq DEF RunsMeet, DumpMeets
<1>6. NothingStaysBehind
  BY <1>1, EmptySeq, ReceiverAssumption DEF NothingStaysBehind
<1>7. Closed
  BY <1>1, ReceiverAssumption DEF Closed
<1> QED
  BY <1>3, <1>5, <1>6, <1>7 DEF IInv

\* Every step keeps the invariant.
LEMMA NextRuns == IInv /\ [Next]_vars => IInv'
<1> SUFFICES ASSUME IInv, [Next]_vars PROVE IInv'
  OBVIOUS
<1>1. CASE Device
  BY <1>1, PutKeeps, ReportKeeps DEF Device
<1>2. CASE Handling
  BY <1>2, SampleHandlerKeeps, TakesKeeps, AddsKeeps, ProcessKeeps,
     ReturnKeeps DEF Handling
<1>3. CASE User
  BY <1>3, UserKeeps, ProcessKeeps DEF User, UserSteps
<1>4. CASE UNCHANGED vars
  <2> USE <1>4 DEF vars, deviceVars, handlerVars, userVars
  <2>1. TypeInv'
    BY DEF IInv, TypeInv
  <2>2. Pending' = Pending
    BY DEF Pending, Top
  <2>3. RunsMeet' /\ DumpMeets'
    BY <2>2 DEF IInv, RunsMeet, DumpMeets
  <2>4. NothingStaysBehind' /\ Closed'
    BY DEF IInv, NothingStaysBehind, Closed
  <2> QED
    BY <2>1, <2>3, <2>4 DEF IInv
<1> QED
  BY <1>1, <1>2, <1>3, <1>4 DEF Next

\* The invariant holds always.
LEMMA AlwaysRuns == Spec => []IInv
<1> QED
  BY InitRuns, NextRuns, PTL DEF Spec

\* The samples reach the decoder in the order in which the device made them
\* and without a gap, unless the ring overflowed or a dialog was open within
\* process (radio.cpp, sampleHandler).
THEOREM SamplesInOrder == Spec => []NoSampleSkipped
<1>1. IInv => NoSampleSkipped
  <2> SUFFICES ASSUME IInv, ~lost, ~nested
               PROVE  IsConsecutive(collected \o Pending \o inputData)
    BY DEF NoSampleSkipped
  <2> DEFINE p == Pending
             q == inputData
             c == collected
  <2>1. q \in Seq(Int) /\ c \in Seq(Int) /\ made \in Int /\ p \in Seq(Int)
        /\ Len(q) \in Nat /\ Len(p) \in Nat
    BY PendingSeq, LenProperties DEF IInv, TypeInv
  <2>2. Upto(q, made) /\ Upto(p, made - Len(q)) /\ Upto(c, made - Len(q) - Len(p))
    BY DEF IInv, RunsMeet
  <2> HIDE DEF p, q, c
  <2>3. made - Len(q) \in Int
    BY <2>1
  <2>4. c \o p \in Seq(Int) /\ Upto(c \o p, made - Len(q))
    BY <2>1, <2>2, <2>3, UptoConcat
  <2>5. (c \o p) \o q \in Seq(Int) /\ Upto((c \o p) \o q, made)
    BY <2>1, <2>2, <2>4, UptoConcat
  <2>6. IsConsecutive((c \o p) \o q)
    BY <2>1, <2>5, UptoConsecutive
  <2> QED
    BY <2>6 DEF c, p, q
<1> QED
  BY <1>1, AlwaysRuns, PTL

\* When the event queue is empty and the GUI thread idle, there is at most a
\* block in the ring besides what the device has not reported yet (radio.cpp,
\* sampleHandler, and the devices' callbacks).
THEOREM NothingBehind == Spec => []NothingStaysBehind
<1>1. IInv => NothingStaysBehind
  BY DEF IInv
<1> QED
  BY <1>1, AlwaysRuns, PTL

\* The dump file holds an uninterrupted run of samples, unless the ring
\* overflowed (radio.cpp, sampleHandler and set_dumpButton).
THEOREM DumpUninterrupted == Spec => []DumpIsConsecutive
<1>1. IInv => DumpIsConsecutive
  BY DEF IInv, DumpMeets, DumpIsConsecutive
<1> QED
  BY <1>1, AlwaysRuns, PTL

\* With the file reader, process is only called on a decoder that is there
\* (radio.cpp, selectDecoder and handle_quitButton).
THEOREM DecoderThere == Spec => []DecoderAlive
<1>1. IInv => DecoderAlive
  BY DEF IInv, Closed, DecoderAlive
<1> QED
  BY <1>1, AlwaysRuns, PTL
=============================================================================
