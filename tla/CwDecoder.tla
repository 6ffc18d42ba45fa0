----------------------------- MODULE CwDecoder ------------------------------
(***************************************************************************)
(* The morse decoder (decoders/cw-decoder), processSample by processSample: *)
(* dots and dashes are told by a threshold that follows the sender, letters *)
(* and words by the length of the silence.                                 *)
(*                                                                         *)
(* The sender is external.  Its dots are longer or shorter than those that *)
(* the decoder has been set to, and in a silence there may be a noise too   *)
(* short for a tone.  Whether there is a tone is all that is modelled of    *)
(* the signal, and a unit of time is that of a sample.                     *)
(***************************************************************************)
EXTENDS Integers, Sequences, SequencesExt

CONSTANTS CwDefault,     \* length of a dot, as the decoder is set up
          CwSpeeds,      \* that of the user, and the sender's: [set, dot]
          CwTexts,       \* sequences of words, which are sequences of letters
          CwSpikes,      \* noises: in each silence of so many dots, so many
                         \* samples before its end: [silence, before]
          CW_RECEIVE_CAPACITY,
          CwMemory       \* what lengthofPreviousTone, not initialised, may be

ASSUME CwAssumption == CW_RECEIVE_CAPACITY \in Nat \ {0}

VARIABLES
    \* the sender
    cwSender, cwMessage, cwSpike, cwRun, cwSample,
    cwDisturbed,           \* ghost: a noise came when no silence was waited for
    \* the decoder
    cwDefaultDotLength, cwTracking,
    cwState, cwPreviousState, currentTime, cwStartTimestamp, cwEndTimestamp,
    dataBuffer,            \* with cwCurrent, its length
    lengthofPreviousTone,
    thresholds, spaces,    \* what thresholdFilter and spaceFilter average
    cw_adaptive_threshold, cwDotLength, cwSpaceLength, cwNoiseSpike,
    cwText

cwSenderVars == <<cwSender, cwMessage, cwSpike, cwRun, cwSample, cwDisturbed>>
cwSpeedVars == <<cwDefaultDotLength, thresholds, cw_adaptive_threshold,
               cwDotLength, cwNoiseSpike>>
cwStateVars == <<cwState, cwPreviousState, currentTime, cwStartTimestamp,
               cwEndTimestamp, dataBuffer>>
cwVars == <<cwSenderVars, cwTracking, cwSpeedVars, cwStateVars, lengthofPreviousTone,
          spaces, cwSpaceLength, cwText>>

\* codetable, and lookupToken in it
codetable == [A |-> <<".", "_">>, E |-> <<".">>, K |-> <<"_", ".", "_">>,
              N |-> <<"_", ".">>, T |-> <<"_">>]
LookupToken(token) ==
    IF \E c \in DOMAIN codetable : codetable[c] = token
    THEN CHOOSE c \in DOMAIN codetable : codetable[c] = token ELSE "*"

-----------------------------------------------------------------------------
(* The sender: silence and tones in turn, their lengths in dots.           *)

Gap(last, between, after) == IF last THEN after ELSE between
CwRunsOf(words) ==
    <<7>> \o FlattenSeq([w \in DOMAIN words |->
        FlattenSeq([l \in DOMAIN words[w] |->
            LET code == codetable[words[w][l]]
                gap == Gap(l = Len(words[w]), 3, 7)
            IN  FlattenSeq([e \in DOMAIN code |->
                    <<IF code[e] = "." THEN 1 ELSE 3, Gap(e = Len(code), 1, gap)>>])])])
CwRuns == [words \in CwTexts |-> CwRunsOf(words)]

CwOver == cwRun > Len(CwRuns[cwMessage])
CwLength == CwRuns[cwMessage][cwRun] * cwSender.dot
CwNoise == /\ cwRun % 2 = 1 /\ CwRuns[cwMessage][cwRun] = cwSpike.silence
           /\ cwSample = CwLength - cwSpike.before
CwTone == cwRun % 2 = 0 \/ CwNoise
CwSends ==
    /\ cwSample' = IF cwSample < CwLength THEN cwSample + 1 ELSE 1
    /\ cwRun' = IF cwSample < CwLength THEN cwRun ELSE cwRun + 1
    /\ cwDisturbed' = (cwDisturbed \/ (CwNoise /\ cwState # "IDLE"))
    /\ UNCHANGED <<cwSender, cwMessage, cwSpike>>

-----------------------------------------------------------------------------
(* speedAdjust.  The filter of the spaces and cwPreviousState are not set.  *)

Average(seq) == FoldLeft(LAMBDA a, b : a + b, 0, seq) \div Len(seq)
Filtered(seq, x) == Tail(seq) \o <<x>>
Full(n, x) == [i \in 1..n |-> x]

CwInit ==
    /\ cwSender \in CwSpeeds /\ cwMessage \in CwTexts /\ cwSpike \in CwSpikes
    /\ cwRun = 1 /\ cwSample = 1 /\ cwDisturbed = FALSE
    /\ cwTracking \in BOOLEAN /\ lengthofPreviousTone \in CwMemory
    /\ cwDefaultDotLength = CwDefault /\ cwDotLength = CwDefault
    /\ cwSpaceLength = CwDefault /\ cw_adaptive_threshold = 2 * CwDefault
    /\ thresholds = Full(8, 2 * CwDefault) /\ spaces = Full(16, CwDefault)
    /\ cwNoiseSpike = CwDefault \div 3
    /\ cwState = "IDLE" /\ cwPreviousState = "IDLE" /\ currentTime = 0
    /\ cwStartTimestamp = 0 /\ cwEndTimestamp = 0
    /\ dataBuffer = <<>> /\ cwText = <<>>

\* cw_setWordsperMinute, in the first pause
SpeedAdjust ==
    /\ cwRun = 1 /\ cwSample = 1 /\ cwDefaultDotLength # cwSender.set
    /\ cwDefaultDotLength' = cwSender.set /\ cwDotLength' = cwSender.set
    /\ cw_adaptive_threshold' = 2 * cwSender.set
    /\ thresholds' = Full(8, 2 * cwSender.set)
    /\ cwNoiseSpike' = cwSender.set \div 3
    /\ cwStartTimestamp' = 0 /\ cwEndTimestamp' = 0
    /\ cwState' = "IDLE" /\ dataBuffer' = <<>> /\ cwText' = <<>>
    /\ UNCHANGED <<cwSenderVars, cwTracking, cwPreviousState, currentTime,
                   lengthofPreviousTone, spaces, cwSpaceLength>>

-----------------------------------------------------------------------------
(* newThreshold and getMeanofDotDash                                       *)

\* The bounds come from half the speed that is set and one and a half of it.
DotLengthMax == 2 * cwDefaultDotLength
DotLengthMin == (2 * cwDefaultDotLength) \div 3
MeanofDotDash(idot, idash) ==
    LET dot == IF DotLengthMin < idot /\ idot < DotLengthMax THEN idot ELSE cwDotLength
        dash == IF 3 * DotLengthMin < idash /\ idash < 3 * DotLengthMax
                THEN idash ELSE 3 * cwDotLength
    IN  (dash + dot) \div 2
IsDotDash(a, b) == 2 * a < b /\ b < 4 * a

\* After a tone t: a dot and a dash, in either order, set the threshold.
Tracks(t) ==
    LET prev == lengthofPreviousTone
        Follows(mean) ==
            /\ thresholds' = Filtered(thresholds, mean)
            /\ cw_adaptive_threshold' = Average(thresholds')
            /\ cwDotLength' = cw_adaptive_threshold' \div 2
            /\ cwNoiseSpike' = cwDotLength' \div 3
            /\ UNCHANGED cwDefaultDotLength
    IN  /\ lengthofPreviousTone' = t
        /\ IF cwTracking /\ prev > 0 /\ IsDotDash(prev, t)
           THEN Follows(MeanofDotDash(prev, t))
           ELSE IF cwTracking /\ prev > 0 /\ IsDotDash(t, prev)
           THEN Follows(MeanofDotDash(t, prev))
           ELSE UNCHANGED cwSpeedVars

-----------------------------------------------------------------------------
(* processSample: the time is counted first, and may be set to 0.          *)

cwNow == currentTime + 1
SameTone == UNCHANGED <<cwSpeedVars, lengthofPreviousTone>>
SameSpaces == UNCHANGED <<spaces, cwSpaceLength>>

CwIdle ==
    /\ cwState = "IDLE"
    /\ IF CwTone
       THEN /\ cwPreviousState' = cwState /\ cwState' = "IN_TONE"
            /\ currentTime' = 0 /\ cwStartTimestamp' = 0 /\ dataBuffer' = <<>>
       ELSE /\ currentTime' = cwNow
            /\ UNCHANGED <<cwState, cwPreviousState, cwStartTimestamp, dataBuffer>>
    /\ UNCHANGED <<cwEndTimestamp, cwText>>
    /\ SameTone /\ SameSpaces

\* Unlike in IDLE the state is set first, and cwPreviousState is IN_TONE.
StartsTone ==
    /\ cwState' = "IN_TONE" /\ cwPreviousState' = "IN_TONE"
    /\ cwStartTimestamp' = cwNow /\ currentTime' = cwNow
    /\ UNCHANGED <<cwEndTimestamp, dataBuffer, cwText>>

InTone ==
    /\ cwState = "IN_TONE" /\ CwTone
    /\ currentTime' = cwNow
    /\ UNCHANGED <<cwState, cwPreviousState, cwStartTimestamp, cwEndTimestamp,
                   dataBuffer, cwText>>
    /\ SameTone /\ SameSpaces

lengthOfTone == cwNow - cwStartTimestamp
ToneEnds ==
    /\ cwState = "IN_TONE" /\ ~CwTone
    /\ currentTime' = cwNow /\ cwEndTimestamp' = cwNow
    /\ IF lengthOfTone < cwNoiseSpike
       THEN cwState' = cwPreviousState /\ UNCHANGED dataBuffer /\ SameTone
       ELSE IF Len(dataBuffer) + 1 >= CW_RECEIVE_CAPACITY
       THEN cwState' = "IDLE" /\ dataBuffer' = <<>> /\ SameTone
       ELSE /\ dataBuffer' = Append(dataBuffer,
                   IF lengthOfTone <= cw_adaptive_threshold THEN "." ELSE "_")
            /\ cwState' = "AFTER_TONE"
            /\ Tracks(lengthOfTone)
    /\ UNCHANGED <<cwPreviousState, cwStartTimestamp, cwText>>
    /\ SameSpaces

lengthOfSilence == cwNow - cwEndTimestamp
AfterTone ==
    /\ cwState = "AFTER_TONE"
    /\ \/ /\ CwTone /\ StartsTone
          /\ spaces' = Filtered(spaces, lengthOfSilence)
          /\ cwSpaceLength' = Average(spaces')
       \/ /\ ~CwTone /\ currentTime' = cwNow
          /\ IF lengthOfSilence >= cwDotLength + cwSpaceLength
             THEN /\ cwState' = "END_OF_LETTER" /\ dataBuffer' = <<>>
                  /\ cwText' = Append(cwText, LookupToken(dataBuffer))
             ELSE UNCHANGED <<cwState, dataBuffer, cwText>>
          /\ UNCHANGED <<cwPreviousState, cwStartTimestamp, cwEndTimestamp>>
          /\ SameSpaces
    /\ SameTone

EndOfLetter ==
    /\ cwState = "END_OF_LETTER"
    /\ \/ CwTone /\ StartsTone
       \/ /\ ~CwTone /\ currentTime' = cwNow
          /\ IF lengthOfSilence > 2 * (cwSpaceLength + cwDotLength)
             THEN cwState' = "IDLE" /\ cwText' = Append(cwText, " ")
             ELSE UNCHANGED <<cwState, cwText>>
          /\ UNCHANGED <<cwPreviousState, cwStartTimestamp, cwEndTimestamp, dataBuffer>>
    /\ SameTone /\ SameSpaces

ProcessSample ==
    /\ ~CwOver /\ cwDefaultDotLength = cwSender.set
    /\ CwSends
    /\ CwIdle \/ InTone \/ ToneEnds \/ AfterTone \/ EndOfLetter
    /\ UNCHANGED cwTracking

CwNext == SpeedAdjust \/ ProcessSample

-----------------------------------------------------------------------------
(* Properties                                                              *)

\* Dots and dashes have their places in dataBuffer.
CwTypeOK ==
    /\ {cwState, cwPreviousState}
           \subseteq {"IDLE", "IN_TONE", "AFTER_TONE", "END_OF_LETTER"}
    /\ Len(dataBuffer) < CW_RECEIVE_CAPACITY /\ Len(thresholds) = 8 /\ Len(spaces) = 16

CwAll == FlattenSeq([w \in DOMAIN cwMessage |-> cwMessage[w] \o <<" ">>])

\* With the threshold of the speed that the user has set, and the length of a
\* space that the decoder was set up with, which no setting changes, the sender's
\* dots, dashes, letters and words can be told.
CwFollows ==
    LET dot == cwSender.dot  space == cwSender.set + CwDefault
    IN  /\ dot >= cwSender.set \div 3 /\ dot <= 2 * cwSender.set
        /\ 3 * dot > 2 * cwSender.set
        /\ dot < space /\ 3 * dot > space
        /\ 3 * dot <= 2 * space /\ 7 * dot > 2 * space

\* Each letter and each end of a word is shown once, though the sender is
\* slower or faster than the decoder is set to and thresholds and spaces follow
\* it or not, and there are noises; unless one comes before the end of the word
\* has been seen, whose end the decoder takes for that of a tone.
CwTrue == CwFollows /\ ~cwDisturbed =>
              IsPrefix(cwText, CwAll) /\ (CwOver => cwText = CwAll)
=============================================================================
