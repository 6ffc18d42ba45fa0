---------------------------- MODULE RttyDecoder -----------------------------
(***************************************************************************)
(* The rtty decoder (decoders/rtty-decoder): addrttyBitFragment, which     *)
(* finds start bit, data, parity and stop bits in the samples, and         *)
(* pickup_char with its parity check, order of bits and shifts.            *)
(*                                                                         *)
(* The sender is external.  It is in the middle of a character when the    *)
(* decoder is set up, as at any change of a selector (rtty_setup); then it *)
(* pauses, and then it sends a message without a pause.  One bit of each   *)
(* character may be a sample longer or shorter than it should be, and one  *)
(* bit of one character may be wrong.  Reversal is left out with the       *)
(* demodulator, and so is the guess of the baud rate, which is shown only. *)
(***************************************************************************)
EXTENDS Integers, Sequences, FiniteSets, SequencesExt

CONSTANTS rttySymbolLength,   \* samples of a bit: theRate / rttyBaudrate
          RttyFormats,        \* what sender and decoder are set to:
                              \* [rttyNbits, rttyParity, rttyStopbits, rttyMsb],
                              \* and the sender's parity, sends
          RttyMessages,           \* for each rttyNbits, sequences of characters
          RttySkews               \* samples a bit may have more

ASSUME RttyAssumption ==
    /\ rttySymbolLength \in Nat
    /\ \A f \in RttyFormats : f.rttyNbits \in Nat \ {0} /\ f.rttyStopbits \in 1..3

\* Characters are sequences of bits, the first one the least significant.
LTRS == <<1, 1, 1, 1, 1>>
FIGS == <<1, 1, 0, 1, 1>>
SPACE == <<0, 0, 1, 0, 0>>
charE == <<1, 0, 0, 0, 0>>
charA == <<1, 1, 0, 0, 0>>
letters == (charE :> "E") @@ (charA :> "A")
figures == (charE :> "3") @@ (charA :> "-")
ascii == (<<1, 0, 0, 0, 0, 0, 1, 0>> :> "A") @@ (<<1, 0, 1, 0, 0, 0, 1, 0>> :> "E")
NameIn(table, c) == IF c \in DOMAIN table THEN table[c] ELSE "?"

VARIABLES
    \* the sender
    rttyFormat, rttyMessage,
    rttySkew,                \* the bit that is longer or shorter, and by what
    rttyHit,                 \* the character and its bit that are wrong
    rttyAt, rttyBit, rttySample,     \* what is on the air: 0 the character
                         \* before, 1 the pause, then those of the message
    \* the decoder
    rttyState, rttyCounter,
    rttyRxdata,          \* with rttyBitcntr, its length
    rttyRxmode,          \* nothing initialises it
    rttyText,
    rttyBefore               \* ghost: what was shown before the message

rttySender == <<rttyFormat, rttyMessage, rttySkew, rttyHit, rttyAt, rttyBit,
                rttySample>>
rttyVars == <<rttySender, rttyState, rttyCounter, rttyRxdata, rttyRxmode,
              rttyText, rttyBefore>>

NBits == rttyFormat.rttyNbits
HasParity == rttyFormat.rttyParity # "NONE"
Tells == rttyFormat.rttyParity \in {"ODD", "EVEN"}    \* one bit that is wrong

\* rtty_setup
Stoplen(stopbits) == CASE stopbits = 1 -> rttySymbolLength
                       [] stopbits = 2 -> (3 * rttySymbolLength) \div 2
                       [] stopbits = 3 -> 2 * rttySymbolLength
rttyStoplen == Stoplen(rttyFormat.rttyStopbits)

\* odd
OddBit(c) == Cardinality({b \in DOMAIN c : c[b] = 1}) % 2
\* check_parity: the bit it expects, from the data.
ParityBitOf(c) == CASE rttyFormat.rttyParity = "ODD" -> OddBit(c)
               [] rttyFormat.rttyParity = "EVEN" -> 1 - OddBit(c)
               [] rttyFormat.rttyParity = "ZERO" -> 0
               [] rttyFormat.rttyParity = "ONE" -> 1

-----------------------------------------------------------------------------
(* The sender                                                              *)

\* The parity bit makes the number of ones in data and parity even, or odd; or it
\* is always the same.
SentParity(c) ==
    LET ones(p) == Cardinality({b \in DOMAIN c : c[b] = 1}) + p
    IN  CASE rttyFormat.sends = "EVEN" -> CHOOSE p \in {0, 1} : ones(p) % 2 = 0
          [] rttyFormat.sends = "ODD" -> CHOOSE p \in {0, 1} : ones(p) % 2 = 1
          [] rttyFormat.sends = "ZERO" -> 0
          [] rttyFormat.sends = "ONE" -> 1

\* Start bit, data, parity and the stop, as far as it is a bit long.
BitsOnAir(c) == <<0>> \o (IF rttyFormat.rttyMsb THEN Reverse(c) ELSE c)
           \o (IF HasParity THEN <<SentParity(c)>> ELSE <<>>) \o <<1>>
LastBit == NBits + 2 + (IF HasParity THEN 1 ELSE 0)

RttyCharAt(k) == IF k = 0 THEN rttyMessage[1] ELSE rttyMessage[k - 1]
rttyBitFragment ==
    IF rttyAt = 1 THEN 1
    ELSE LET b == BitsOnAir(RttyCharAt(rttyAt))[rttyBit]
         IN  IF rttyHit = <<rttyAt, rttyBit>> THEN 1 - b ELSE b
RttyLength == IF rttyBit = LastBit THEN rttyStoplen
              ELSE IF rttyAt = 3 /\ rttyBit = rttySkew.bit
              THEN rttySymbolLength + rttySkew.by ELSE rttySymbolLength

RttyNoHit == <<-1, 0>>
RttyNoSkew == [bit |-> 1, by |-> 0]
RttyInit ==
    /\ rttyFormat \in RttyFormats
    /\ rttyMessage \in RttyMessages[rttyFormat.rttyNbits]
    /\ rttySkew \in [bit : {1, 3, NBits + 1}, by : RttySkews]
    /\ rttySkew.by = 0 => rttySkew = RttyNoSkew
    /\ \/ rttyHit = RttyNoHit
       \/ Tells /\ rttyHit \in {3} \X (2..(NBits + 1))
    /\ rttyAt = 0 /\ rttyBit \in 1..LastBit /\ rttySample = 1
    /\ rttyHit # RttyNoHit => rttySkew.by = 0
    /\ rttyHit # RttyNoHit \/ rttySkew.by # 0 => rttyBit = 1
    /\ rttyState = "IDLE" /\ rttyCounter = 0 /\ rttyRxdata = <<>>
    /\ rttyRxmode \in {"LETS", "FIGS"}
    /\ rttyText = <<>> /\ rttyBefore = <<>>

RttySends ==
    /\ rttySample' = IF rttySample < RttyLength THEN rttySample + 1 ELSE 1
    /\ rttyBit' = IF rttySample' > 1 THEN rttyBit
                  ELSE IF rttyBit < LastBit THEN rttyBit + 1 ELSE 1
    /\ rttyAt' = IF rttySample' = 1 /\ rttyBit' = 1 THEN rttyAt + 1 ELSE rttyAt
    /\ rttyBefore' = IF rttyAt < 2 THEN rttyText' ELSE rttyBefore
    /\ UNCHANGED <<rttyFormat, rttyMessage, rttySkew, rttyHit>>

-----------------------------------------------------------------------------
(* pickup_char.  A character below blank is shown as a blank.              *)

RttyAddText(name, mode) == rttyText' = Append(rttyText, name) /\ rttyRxmode' = mode

BaudottoASCII(c) ==
    CASE c = LTRS -> RttyAddText(" ", "LETS")
      [] c = FIGS -> RttyAddText(" ", "FIGS")
      [] c = SPACE -> RttyAddText(" ", "LETS")
      [] OTHER ->
            RttyAddText(NameIn(IF rttyRxmode = "LETS" THEN letters ELSE figures, c),
                        rttyRxmode)

Pickup_char ==
    LET c == SubSeq(rttyRxdata, 1, NBits)
        data == IF rttyFormat.rttyMsb THEN Reverse(c) ELSE c
    IN  IF HasParity /\ rttyRxdata[NBits + 1] # ParityBitOf(c)
        THEN RttyAddText(" ", rttyRxmode)
        ELSE IF NBits = 5 THEN BaudottoASCII(data)
        ELSE RttyAddText(NameIn(ascii, data), rttyRxmode)

-----------------------------------------------------------------------------
(* addrttyBitFragment                                                      *)

rttyChars == <<rttyRxmode, rttyText>>
RttyCounts == rttyCounter' = rttyCounter - 1
RttyWaits == /\ rttyCounter > 1 /\ RttyCounts
         /\ UNCHANGED <<rttyState, rttyRxdata, rttyChars>>

RttyIdle ==
    /\ rttyState = "IDLE"
    /\ IF rttyBitFragment = 0
       THEN rttyState' = "START" /\ rttyCounter' = rttySymbolLength \div 2
       ELSE UNCHANGED <<rttyState, rttyCounter>>
    /\ UNCHANGED <<rttyRxdata, rttyChars>>

StartBit ==
    /\ rttyState = "START" /\ rttyCounter = 1
    /\ IF rttyBitFragment = 0
       THEN rttyState' = "DATA" /\ rttyCounter' = rttySymbolLength /\ rttyRxdata' = <<>>
       ELSE rttyState' = "IDLE" /\ rttyCounter' = 0 /\ UNCHANGED rttyRxdata
    /\ UNCHANGED rttyChars

DataBit ==
    /\ rttyState = "DATA" /\ rttyCounter = 1
    /\ rttyRxdata' = Append(rttyRxdata, rttyBitFragment)
    /\ rttyCounter' = rttySymbolLength
    /\ rttyState' = IF Len(rttyRxdata) + 1 < NBits THEN "DATA"
                    ELSE IF HasParity THEN "PARITY" ELSE "STOP"
    /\ UNCHANGED rttyChars

ParityBit ==
    /\ rttyState = "PARITY" /\ rttyCounter = 1
    /\ rttyRxdata' = Append(rttyRxdata, rttyBitFragment)
    /\ rttyCounter' = rttyStoplen
    /\ rttyState' = "STOP"
    /\ UNCHANGED rttyChars

StopBit ==
    /\ rttyState = "STOP" /\ rttyCounter = 1
    /\ IF rttyBitFragment = 1 THEN Pickup_char ELSE UNCHANGED rttyChars
    /\ rttyState' = "STOP2"
    /\ rttyCounter' = rttySymbolLength \div 2
    /\ UNCHANGED rttyRxdata

Stop2 ==
    /\ rttyState = "STOP2" /\ rttyCounter = 1
    /\ rttyState' = "IDLE" /\ rttyCounter' = 0
    /\ UNCHANGED <<rttyRxdata, rttyChars>>

AddrttyBitFragment ==
    RttyWaits \/ RttyIdle \/ StartBit \/ DataBit \/ ParityBit \/ StopBit \/ Stop2

RttyOver == rttyAt > Len(rttyMessage) + 1
RttyNext == ~RttyOver /\ AddrttyBitFragment /\ RttySends

RttySpec == RttyInit /\ [][RttyNext]_rttyVars

-----------------------------------------------------------------------------
(* What should be shown.                                                   *)

\* The bits of a character have their places in rttyRxdata.
RttyTypeOK ==
    /\ rttyState \in {"IDLE", "START", "DATA", "PARITY", "STOP", "STOP2"}
    /\ rttyCounter \in 0..(2 * rttySymbolLength) /\ Len(rttyRxdata) <= NBits + 1
    /\ rttyRxmode \in {"LETS", "FIGS"}

\* The message begins with a shift or does not depend on it.
ModeAt(k) ==
    LET shifts == SelectSeq(SubSeq(rttyMessage, 1, k),
                            LAMBDA c : c \in {LTRS, FIGS, SPACE})
    IN  IF Last(shifts) = FIGS THEN figures ELSE letters
RttyName(k) == IF NBits = 8 THEN NameIn(ascii, rttyMessage[k])
           ELSE IF rttyMessage[k] \in {LTRS, FIGS, SPACE} THEN " "
           ELSE NameIn(ModeAt(k), rttyMessage[k])
RttyAll == [k \in DOMAIN rttyMessage |->
           IF rttyHit[1] = k + 1 THEN " " ELSE RttyName(k)]

\* A message that came through is shown, each character of it once and in order.
RttyShown ==
    /\ IsPrefix(rttyBefore, rttyText)
    /\ rttyAt >= 2 => IsPrefix(rttyText, rttyBefore \o RttyAll)
    /\ RttyOver => rttyText = rttyBefore \o RttyAll

\* What the selector calls odd is what a sender calls even, and the reverse.
ParityAgrees ==
    rttyFormat.sends = CASE rttyFormat.rttyParity = "ODD" -> "EVEN"
                         [] rttyFormat.rttyParity = "EVEN" -> "ODD"
                         [] OTHER -> rttyFormat.rttyParity

\* Without a parity and with a stop of more than one bit the decoder waits for the
\* next start bit; else it looks for it a sample later with each character, and is
\* late by half a bit in the end.
RttyKeepsUp ==
    \/ ~HasParity /\ rttyFormat.rttyStopbits > 1
    \/ Len(rttyMessage) - rttySkew.by <= rttySymbolLength \div 2

\* Wherever in a character the decoder is set up, after a pause it shows each
\* character of a message; one that came with a wrong bit is shown as a blank
\* when there is a parity to tell it.
RttyTrue == ParityAgrees /\ RttyKeepsUp => RttyShown

\* "par even", "par odd" (rtty-decoder.ui, lines 222 and 217): a sender whose
\* parity is the one that is selected is understood.
ParityIsTheNamedOne ==
    rttyFormat.sends = rttyFormat.rttyParity /\ RttyKeepsUp => RttyShown
=============================================================================
