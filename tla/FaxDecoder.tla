----------------------------- MODULE FaxDecoder -----------------------------
(***************************************************************************)
(* The weather fax decoder (decoders/fax-decoder): process, which takes    *)
(* one sample at a time through the states from APTSTART to WAITER, and    *)
(* the slots of its buttons, all of them on the GUI thread.                *)
(*                                                                         *)
(* What a line of samples says is left open: checkStart, checkPhase and    *)
(* checkStop may find what they look for or not, but for a checkBuffer     *)
(* that is stop tone from end to end, which checkStop hears.  The dialog   *)
(* that saving a picture opens is in Receiver.  FaxInit, FaxNext and       *)
(* FaxSpec are named so that a module can extend this one and another      *)
(* decoder's.                                                              *)
(***************************************************************************)
EXTENDS Integers

CONSTANTS samplesperLine,   \* 6000 for both entries of the IOC selector
          nrLines,          \* of a picture: 600 or 1200
          CheckAfter,       \* checkStop is called from so many lines later: 20
          LimitAfter,       \* so many lines later the picture is done: 50
          MaxAlarms,        \* 20
          StartLines,       \* of a start tone that are skipped: 6
          WaitLines,        \* before the next picture: 10
          MaxCheats         \* bound: clicks on cheat

\* A tenth of a line is at least one sample.
ASSUME FaxAssumption ==
    /\ samplesperLine \in Nat /\ samplesperLine >= 10
    /\ nrLines \in Nat /\ CheckAfter \in Nat /\ LimitAfter \in Nat
    /\ StartLines \in Nat \ {0} /\ WaitLines \in Nat
    /\ MaxAlarms \in Nat \ {0} /\ MaxCheats \in Nat

BufferSize == 5 * samplesperLine
StartSamples == StartLines * samplesperLine
WaitSamples == WaitLines * samplesperLine

VARIABLES
    faxState, bufferP, toRead, alarmCount, checkP, stoppers, linesRecognized,
    saveContinuous, saveSingle, setCorrection,
    stopTone,       \* the sender is at the end of the picture
    picture,        \* so many samples at the head of checkBuffer are older
    cheats          \* bound

position == <<faxState, bufferP, toRead, alarmCount, checkP, stoppers,
              linesRecognized>>
buttons == <<saveContinuous, saveSingle, setCorrection>>
sender == <<stopTone, picture>>
faxVars == <<position, buttons, sender, cheats>>

States == {"APTSTART", "WAITING_FOR_START", "START_RECOGNIZED",
           "WAITING_FOR_PHASE", "READ_PHASE", "SYNCED", "FAX_DONE", "WAITER"}

FaxTypeOK ==
    /\ faxState \in States
    /\ bufferP \in 0..(BufferSize - 2)
    /\ toRead \in (0..StartSamples) \cup (0..WaitSamples)
    /\ checkP \in 0..(samplesperLine - 1)
    /\ picture \in 0..checkP
    /\ alarmCount \in 0..MaxAlarms
    /\ stoppers \in 0..4
    /\ linesRecognized \in 0..(nrLines + LimitAfter + 1)
    /\ saveContinuous \in BOOLEAN /\ saveSingle \in BOOLEAN
    /\ setCorrection \in BOOLEAN
    /\ stopTone \in BOOLEAN
    /\ cheats \in 0..MaxCheats

FaxInit ==
    /\ faxState = "APTSTART" /\ bufferP = 0 /\ toRead = 0 /\ alarmCount = 0
    /\ checkP = 0 /\ stoppers = 0 /\ linesRecognized = 0
    /\ saveContinuous = FALSE /\ saveSingle = FALSE
    /\ setCorrection \in BOOLEAN        \* not initialised
    /\ stopTone = FALSE /\ picture = 0 /\ cheats = 0

-----------------------------------------------------------------------------
(* process: what it does with one sample                                   *)

processOnly == <<buttons, stopTone, cheats>>
keepsBuffer == <<processOnly, picture>>

AptStart ==
    /\ faxState = "APTSTART"
    /\ bufferP' = 1
    /\ faxState' = "WAITING_FOR_START"
    \* What is left in these is not read again before they are set.
    /\ toRead' = 0 /\ alarmCount' = 0 /\ checkP' = 0 /\ stoppers' = 0
    /\ linesRecognized' = 0 /\ picture' = 0
    /\ UNCHANGED processOnly

\* A line that is no start tone is shifted by a tenth.
WaitForStart ==
    /\ faxState = "WAITING_FOR_START"
    /\ IF bufferP + 1 < samplesperLine
       THEN bufferP' = bufferP + 1 /\ UNCHANGED <<faxState, toRead>>
       ELSE \/ /\ faxState' = "START_RECOGNIZED"
               /\ toRead' = StartSamples
               /\ bufferP' = 0
            \/ /\ bufferP' = bufferP + 1 - samplesperLine \div 10
               /\ UNCHANGED <<faxState, toRead>>
    /\ UNCHANGED <<alarmCount, checkP, stoppers, linesRecognized, keepsBuffer>>

SkipStart ==
    /\ faxState = "START_RECOGNIZED"
    /\ toRead' = toRead - 1
    /\ IF toRead' <= 0
       THEN faxState' = "WAITING_FOR_PHASE" /\ alarmCount' = 0 /\ bufferP' = 0
       ELSE UNCHANGED <<faxState, alarmCount, bufferP>>
    /\ UNCHANGED <<checkP, stoppers, linesRecognized, keepsBuffer>>

WaitForPhase ==
    /\ faxState = "WAITING_FOR_PHASE"
    /\ bufferP' = bufferP + 1
    /\ faxState' = IF bufferP' = BufferSize - 2 THEN "READ_PHASE" ELSE faxState
    /\ UNCHANGED <<toRead, alarmCount, checkP, stoppers, linesRecognized,
                   keepsBuffer>>

\* checkPhase: the picture begins at baseP, or five lines were no phasing.
InPhase(baseP) ==
    /\ bufferP' = samplesperLine - baseP
    /\ checkP' = 0 /\ stoppers' = 0 /\ linesRecognized' = 0
    /\ picture' = 0
    /\ faxState' = "SYNCED"
    /\ UNCHANGED alarmCount

\* Planted error: one line more is kept than there is room to read.
OutOfPhaseByTwo ==
    /\ bufferP' = BufferSize - 2
    /\ alarmCount' = alarmCount + 1
    /\ faxState' = IF alarmCount' >= MaxAlarms THEN "APTSTART"
                                               ELSE "WAITING_FOR_PHASE"
    /\ UNCHANGED <<checkP, stoppers, linesRecognized, picture>>

OutOfPhase ==
    /\ bufferP' = BufferSize - samplesperLine - 1
    /\ alarmCount' = alarmCount + 1
    /\ faxState' = IF alarmCount' >= MaxAlarms THEN "APTSTART"
                                               ELSE "WAITING_FOR_PHASE"
    /\ UNCHANGED <<checkP, stoppers, linesRecognized, picture>>

\* findPhaseLine's search from 0 to the end of a line.
ReadPhase ==
    /\ faxState = "READ_PHASE"
    /\ \/ \E baseP \in {0, 1, samplesperLine - 1} : InPhase(baseP)
       \/ OutOfPhase
    /\ UNCHANGED <<toRead, processOnly>>

\* A line is kept and counted.
Kept ==
    /\ linesRecognized' = linesRecognized + 1
    /\ faxState' = IF linesRecognized' > nrLines + LimitAfter THEN "FAX_DONE"
                                                              ELSE faxState

NextP == (bufferP + 1) % samplesperLine
Checks == linesRecognized > nrLines + CheckAfter
CheckFull == Checks /\ checkP + 1 >= samplesperLine

\* The samples of checkBuffer that are older than the stop tone come first: so
\* many are they with one more sample in it.
Older == IF stopTone THEN picture ELSE checkP + 1

\* The sample is one of a line only.
SyncedNoCheck ==
    /\ faxState = "SYNCED"
    /\ bufferP' = NextP
    /\ ~CheckFull
    /\ IF Checks THEN checkP' = checkP + 1 /\ picture' = Older
                 ELSE UNCHANGED <<checkP, picture>>
    /\ IF NextP = 0 THEN Kept
                    ELSE UNCHANGED <<linesRecognized, faxState>>
    /\ UNCHANGED <<toRead, alarmCount, stoppers, processOnly>>

\* Planted error: the tone has to be heard in one check alone.
StopHeardOnce(heard) ==
    IF heard
    THEN /\ stoppers' = 1
         /\ checkP' = checkP + 1 - samplesperLine \div 10
         /\ picture' = IF Older > samplesperLine \div 10
                     THEN Older - samplesperLine \div 10 ELSE 0
    ELSE /\ stoppers' = 0
         /\ checkP' = checkP + 1 - samplesperLine \div 4
         /\ picture' = IF Older < checkP' THEN Older ELSE checkP'

\* checkStop.  When it has heard the tone, all of checkBuffer moves down by a
\* tenth; when it has not, only its last quarter is to be filled again, and what
\* is in front of it stays.
StopHeard(heard) ==
    IF heard
    THEN /\ stoppers' = stoppers + 1
         /\ checkP' = checkP + 1 - samplesperLine \div 10
         /\ picture' = IF Older > samplesperLine \div 10
                     THEN Older - samplesperLine \div 10 ELSE 0
    ELSE /\ stoppers' = 0
         /\ checkP' = checkP + 1 - samplesperLine \div 4
         /\ picture' = IF Older < checkP' THEN Older ELSE checkP'

\* The sample is the last one of a checkBuffer: the break after the check skips
\* the end of a line, when it is one.  A checkBuffer with older samples in it may
\* pass for the tone or not.
SyncedCheck ==
    /\ faxState = "SYNCED"
    /\ CheckFull
    /\ bufferP' = NextP
    /\ \E heard \in IF Older = 0 THEN {TRUE} ELSE BOOLEAN : StopHeard(heard)
    /\ faxState' = IF stoppers' >= 4 THEN "FAX_DONE" ELSE faxState
    /\ UNCHANGED <<toRead, alarmCount, linesRecognized, processOnly>>

FaxDone ==
    /\ faxState = "FAX_DONE"
    /\ faxState' = "WAITER"
    /\ toRead' = WaitSamples
    /\ UNCHANGED <<bufferP, alarmCount, checkP, stoppers, linesRecognized,
                   keepsBuffer>>

\* toRead goes on below zero in the code; here it stays there.
Waiter ==
    /\ faxState = "WAITER"
    /\ toRead' = IF toRead > 0 THEN toRead - 1 ELSE 0
    /\ faxState' = IF saveContinuous /\ toRead' <= 0 THEN "APTSTART" ELSE faxState
    /\ setCorrection' = (setCorrection /\ saveContinuous)
    /\ saveSingle' = (saveSingle /\ saveContinuous)
    /\ UNCHANGED <<bufferP, alarmCount, checkP, stoppers, linesRecognized,
                   saveContinuous, sender, cheats>>

Process == \/ AptStart \/ WaitForStart \/ SkipStart \/ WaitForPhase \/ ReadPhase
           \/ SyncedNoCheck \/ SyncedCheck \/ FaxDone \/ Waiter

-----------------------------------------------------------------------------
(* The slots                                                               *)

Reset ==
    /\ faxState' = "APTSTART"
    /\ saveContinuous' = FALSE /\ saveSingle' = FALSE /\ setCorrection' = FALSE
    /\ UNCHANGED <<bufferP, toRead, alarmCount, checkP, stoppers,
                   linesRecognized, sender, cheats>>

\* The two save buttons: each toggles its flag, and calls the other one's slot
\* when saveContinuous is set and saveSingleButton, a pointer, is not null.
\* From saveContinuous = FALSE: set; fax_setsaveSingle toggles saveSingle and
\* calls back, which clears it again.
Fax_setsaveContinuous ==
    /\ IF saveContinuous
       THEN saveContinuous' = FALSE /\ saveSingle' = saveSingle
       ELSE saveContinuous' = FALSE /\ saveSingle' = ~saveSingle
    /\ UNCHANGED <<position, setCorrection, sender, cheats>>

Fax_setsaveSingle ==
    /\ saveSingle' = ~saveSingle
    /\ saveContinuous' = FALSE
    /\ UNCHANGED <<position, setCorrection, sender, cheats>>

Fax_setCorrection ==
    /\ setCorrection' = ~setCorrection
    /\ saveContinuous' = (saveContinuous /\ ~setCorrection')
    /\ UNCHANGED <<position, saveSingle, sender, cheats>>

\* The selector leaves samplesperLine, and nrLines, as they are.
Fax_setIOC ==
    /\ faxState' = "APTSTART"
    /\ UNCHANGED <<bufferP, toRead, alarmCount, checkP, stoppers,
                   linesRecognized, buttons, sender, cheats>>

Fax_setCheat ==
    /\ faxState # "FAX_DONE"
    /\ cheats < MaxCheats
    /\ cheats' = cheats + 1
    /\ bufferP' = 0 /\ linesRecognized' = 0 /\ checkP' = 0 /\ stoppers' = 0
    /\ picture' = 0
    /\ faxState' = "SYNCED"
    /\ UNCHANGED <<toRead, alarmCount, buttons, stopTone>>

Slots == \/ Reset \/ Fax_setsaveContinuous \/ Fax_setsaveSingle
         \/ Fax_setCorrection \/ Fax_setIOC \/ Fax_setCheat

ToneBegins ==
    /\ ~stopTone
    /\ stopTone' = TRUE
    /\ UNCHANGED <<position, buttons, picture, cheats>>

FaxNext == Process \/ Slots \/ ToneBegins

\* Samples keep coming.
FaxSpec == FaxInit /\ [][FaxNext]_faxVars /\ WF_faxVars(Process)

-----------------------------------------------------------------------------
(* Properties                                                              *)

\* Every sample has its place in faxLineBuffer and checkBuffer, also after a
\* reset or a cheat in any state, and the test for the end of the five lines,
\* which is one for equality, is not missed (lines 272-335 and 345-349).
InBounds ==
    /\ faxState = "WAITING_FOR_START" => bufferP \in 0..(samplesperLine - 1)
    /\ faxState = "SYNCED" => bufferP \in 0..samplesperLine
    /\ faxState = "WAITING_FOR_PHASE" => bufferP \in 0..(BufferSize - 3)
    /\ faxState = "READ_PHASE" => bufferP = BufferSize - 2
    /\ faxState = "SYNCED" => checkP \in 0..(samplesperLine - 1)

\* A picture that never comes to its end has lost its stop tone and its line
\* count for one reason: checkBuffer keeps samples from before the tone, and every
\* end of a line falls on a check and is skipped.  Whenever all of the samples
\* checked are tone, or an end of a line is between two checks again and again,
\* the picture ends (lines 347-388).
PictureEnds ==
    <>[](faxState = "SYNCED") => <>[](picture > 0 /\ (NextP = 0 => CheckFull))
=============================================================================
