---------------------------- MODULE AmtorDecoder ----------------------------
(***************************************************************************)
(* The amtor decoder (decoders/amtor-decoder): fragments of bits become    *)
(* bits (addbitfragment), bits become words of four ones (addfullBit), the *)
(* words are phasing signals or a message (decoder), and each word of a    *)
(* message comes twice, five words apart (addBytetoMessage).               *)
(*                                                                         *)
(* The sender is external: it sends messages one after the other, each     *)
(* after phasing signals, and its clock may go a little wrong.  On the way *)
(* a word may be changed into another one.  That a bit of a word is lost,  *)
(* after which the decoder looks for the words anew, is left out, and so   *)
(* are the demodulator and buttons pressed during a message.               *)
(***************************************************************************)
EXTENDS Integers, Sequences, FiniteSets, SequencesExt

CONSTANTS PerBit,           \* fragments of a bit: 10; half of them after a change
          AmtorMessages,    \* what may be sent: sequences of messages
          Phasing,          \* pairs of phasing signals before a message
          AmtorTrailer,     \* pairs of alphas after it
          AmtorSkews,       \* fragments that one bit of each word may have more
          AmtorHits         \* words that a word may be changed into

ASSUME AmtorAssumption == PerBit \in Nat \ {0}

alpha == <<1, 1, 1, 1, 0, 0, 0>>
beta == <<0, 1, 1, 0, 0, 1, 1>>
letter == <<0, 1, 0, 1, 1, 0, 1>>
digit == <<0, 1, 1, 0, 1, 1, 0>>
codeA == <<1, 1, 1, 0, 0, 0, 1>>
codeC == <<1, 0, 1, 1, 1, 0, 0>>
codeN == <<1, 0, 0, 1, 1, 0, 1>>
codeZ == <<1, 1, 0, 0, 0, 1, 1>>
Codes == {codeA, codeC, codeN, codeZ}
scrapped == <<>>      \* 0xFF, which is no word
Queue == 10           \* AMTOR_DECODERQUEUE

VARIABLES
    \* the sender
    amtorMsgs,       \* what it sends
    amtorHit,        \* a word that is changed on the way
    amtorSkew,       \* a bit of each word that is longer or shorter
    amtorAt, amtorBit, amtorFragment,    \* where it is: word, bit, fragment
    \* the decoder
    amtorFecError, showAlways,
    fragmentCount, amtorOldFragment,
    amtorShiftReg,        \* with amtorBitCount, its length
    amtorState, amtorQueue, amtorQP, amtorLettershift,
    messageState,         \* of ZCZC, and then of NNNN, so much has been seen
    amtorText

amtorSender == <<amtorMsgs, amtorHit, amtorSkew, amtorAt, amtorBit, amtorFragment>>
amtorBits == <<fragmentCount, amtorOldFragment, amtorShiftReg>>
amtorChars == <<amtorLettershift, messageState, amtorText>>
amtorWords == <<amtorState, amtorQueue, amtorQP, amtorChars>>
amtorVars == <<amtorSender, amtorFecError, showAlways, amtorBits, amtorWords>>

-----------------------------------------------------------------------------
(* What the sender sends.                                                  *)

\* The words of a message m come in pairs, of which the second repeats the
\* first of two pairs before.
PairsOf(m) == Phasing + Len(m) + AmtorTrailer
Word(m, k) ==
    LET i == (k + 1) \div 2 - Phasing
    IN  IF k % 2 = 0 THEN IF i - 2 \in DOMAIN m THEN m[i - 2] ELSE alpha
        ELSE IF i < 1 THEN beta
        ELSE IF i \in DOMAIN m THEN m[i] ELSE alpha

WordsOf == [ms \in AmtorMessages |->
               FlattenSeq([j \in DOMAIN ms |->
                   [k \in 1..(2 * PairsOf(ms[j])) |-> Word(ms[j], k)]])]
Words == WordsOf[amtorMsgs]

\* The codes of the messages are the words at these places, and five later.
PlaceOf(j, i) ==
    (IF j = 1 THEN 0 ELSE 2 * PairsOf(amtorMsgs[1])) + 2 * (Phasing + i) - 1

AmtorSent(k) == IF k \in DOMAIN amtorHit THEN amtorHit[k] ELSE Words[k]
AmtorLength(b) == IF b = amtorSkew.bit THEN PerBit + amtorSkew.by ELSE PerBit

AmtorNoHit == [k \in {} |-> codeA]
AmtorNoSkew == [bit |-> 1, by |-> 0]

\* The decoder is switched on at any bit of the first word.
AmtorInit ==
    /\ amtorMsgs \in AmtorMessages
    /\ \/ amtorHit = AmtorNoHit /\ amtorSkew = AmtorNoSkew /\ amtorBit \in 1..7
       \/ /\ amtorHit = AmtorNoHit /\ amtorBit = 1
          /\ amtorSkew \in [bit : 1..7, by : AmtorSkews]
       \/ /\ amtorSkew = AmtorNoSkew /\ amtorBit = 1
          /\ \E j \in DOMAIN amtorMsgs : \E i \in DOMAIN amtorMsgs[j] :
             \E c \in AmtorHits, copy \in {0, 5} :
                /\ amtorMsgs[j][i] \in Codes
                /\ amtorHit = [k \in {PlaceOf(j, i) + copy} |-> c]
    /\ amtorAt = 1 /\ amtorFragment = 1
    /\ amtorFecError \in BOOLEAN /\ (amtorFecError => amtorHit # AmtorNoHit)
    /\ showAlways \in BOOLEAN
    /\ fragmentCount = 0 /\ amtorOldFragment = 0 /\ amtorShiftReg = <<>>
    /\ amtorState = "X0" /\ amtorQueue = [q \in 0..(Queue - 1) |-> scrapped]
    /\ amtorQP = 0 /\ amtorLettershift = TRUE /\ messageState = 0
    /\ amtorText = <<>>

\* The next fragment is on the air.
Fragment == AmtorSent(amtorAt)[amtorBit]
AmtorSends ==
    /\ amtorFragment' =
           IF amtorFragment < AmtorLength(amtorBit) THEN amtorFragment + 1 ELSE 1
    /\ amtorBit' = IF amtorFragment' # 1 THEN amtorBit ELSE (amtorBit % 7) + 1
    /\ amtorAt' = IF amtorFragment' = 1 /\ amtorBit' = 1 THEN amtorAt + 1 ELSE amtorAt
    /\ UNCHANGED <<amtorMsgs, amtorHit, amtorSkew>>

-----------------------------------------------------------------------------
(* Characters.  What they do to s, the text that is shown and its states.  *)

AmtorState == [text |-> amtorText, state |-> messageState, shift |-> amtorLettershift]
AmtorShown(s) ==
    amtorText' = s.text /\ messageState' = s.state /\ amtorLettershift' = s.shift

\* amtorText: when only messages are shown it waits for ZCZC, and for NNNN.
ZCZC == <<"Z", "C", "Z", "C">>
NNNN == <<"N", "N", "N", "N">>
AmtorText(s, c) ==
    IF showAlways THEN [s EXCEPT !.text = Append(@, c)]
    ELSE IF s.state < 4
    THEN LET next == IF c = ZCZC[s.state + 1] THEN s.state + 1 ELSE 0
         IN  [s EXCEPT !.state = next, !.text = IF next = 4 THEN @ \o ZCZC ELSE @]
    ELSE [s EXCEPT !.text = Append(@, c),
                   !.state = IF @ = 8 THEN 0 ELSE IF c = "N" THEN @ + 1 ELSE 4]

\* The two characters of a code: CCIR_476_ITA4.
Letters == (codeA :> "A") @@ (codeC :> "C") @@ (codeN :> "N") @@ (codeZ :> "Z")
Digits == (codeA :> "-") @@ (codeC :> ":") @@ (codeN :> ",") @@ (codeZ :> "+")
Symbol(c, shift) ==
    IF c \in {alpha, beta} THEN " " ELSE IF shift THEN Letters[c] ELSE Digits[c]

HandleChar(s, c) ==
    IF c = letter THEN [s EXCEPT !.shift = TRUE]
    ELSE IF c = digit THEN [s EXCEPT !.shift = FALSE]
    ELSE AmtorText(s, Symbol(c, s.shift))

\* A code and what came five later.  HandleChar ('x') is the code 0x78, alpha.
Compared(s, c, again) ==
    HandleChar(s, IF c # again /\ amtorFecError THEN alpha ELSE c)

-----------------------------------------------------------------------------
(* Words                                                                   *)

\* Planted error: the code five later is not scrapped.
AddBytetoMessageTwice(q, p, s, val) ==
    LET next == (p + 1) % Queue
        skips == q[p] \in {alpha, beta, scrapped}
    IN  /\ amtorQP' = next
        /\ amtorQueue' = [q EXCEPT ![(next + 5) % Queue] = val]
        /\ AmtorShown(IF skips THEN s ELSE Compared(s, q[p], q[(p + 5) % Queue]))

\* addBytetoMessage on the queue q at p: the oldest code, if it is none that
\* has been shown, is compared with the one five later.
AddBytetoMessage(q, p, s, val) ==
    LET later == (p + 5) % Queue
        next == (p + 1) % Queue
        skips == q[p] \in {alpha, beta, scrapped}
        kept == IF skips THEN q ELSE [q EXCEPT ![later] = scrapped]
    IN  /\ amtorQP' = next
        /\ amtorQueue' = [kept EXCEPT ![(next + 5) % Queue] = val]
        /\ AmtorShown(IF skips THEN s ELSE Compared(s, q[p], q[later]))

Phases(val) ==
    /\ \/ /\ amtorState = "X0"
          /\ amtorState' = IF val = alpha THEN "X1"
                           ELSE IF val = beta THEN "X2" ELSE "X0"
       \/ amtorState = "X1" /\ val = beta /\ amtorState' = "X2"
       \/ /\ amtorState = "X2"
          /\ amtorState' = IF val = alpha THEN "X1" ELSE "X2"
    /\ UNCHANGED <<amtorQueue, amtorQP, amtorChars>>

\* initMessage
InitMessage(val) ==
    /\ amtorState = "X1" /\ val # beta
    /\ amtorState' = "X3"
    /\ AddBytetoMessage([q \in 0..(Queue - 1) |-> beta], 0,
                        [AmtorState EXCEPT !.state = 0], val)

InMessage(val) ==
    /\ amtorState \in {"X3", "X4", "X5"}
    /\ amtorState' = CASE amtorState = "X3" /\ val = alpha -> "X4"
                       [] amtorState = "X3" /\ val = beta -> "X5"
                       [] amtorState = "X4" /\ val = beta -> "X6"
                       [] amtorState = "X5" /\ val = alpha -> "X6"
                       [] OTHER -> "X3"
    /\ AddBytetoMessage(amtorQueue, amtorQP, AmtorState, val)

\* flushBuffer shows four spaces; the word is lost.
Spaces == <<" ", " ", " ", " ">>
FourSpaces(s) == AmtorText(AmtorText(AmtorText(AmtorText(s, " "), " "), " "), " ")
FlushBuffer(val) ==
    /\ amtorState = "X6"
    /\ amtorState' = "X0"
    /\ AmtorShown(FourSpaces(AmtorState))
    /\ UNCHANGED <<amtorQueue, amtorQP>>

Decoder(val) == Phases(val) \/ InitMessage(val) \/ InMessage(val) \/ FlushBuffer(val)

-----------------------------------------------------------------------------
(* Bits                                                                    *)

\* Seven bits, of which four are ones, are a word.
IsWord(reg) == Len(reg) = 7 /\ Cardinality({b \in 1..7 : reg[b] = 1}) = 4
AddfullBit(b) ==
    LET reg == Append(amtorShiftReg, b)
    IN  \/ /\ IsWord(reg)
           /\ amtorShiftReg' = <<>>
           /\ Decoder(reg)
        \/ /\ ~IsWord(reg)
           /\ amtorShiftReg' = IF Len(reg) = 7 THEN Tail(reg) ELSE reg
           /\ UNCHANGED amtorWords

FragmentChanges ==
    /\ Fragment # amtorOldFragment
    /\ fragmentCount' = PerBit \div 2
    /\ amtorOldFragment' = Fragment
    /\ UNCHANGED <<amtorShiftReg, amtorWords>>
FragmentStays ==
    /\ Fragment = amtorOldFragment /\ fragmentCount + 1 < PerBit
    /\ fragmentCount' = fragmentCount + 1
    /\ UNCHANGED <<amtorOldFragment, amtorShiftReg, amtorWords>>
FullBit ==
    /\ Fragment = amtorOldFragment /\ fragmentCount + 1 >= PerBit
    /\ fragmentCount' = 0
    /\ AddfullBit(Fragment)
    /\ UNCHANGED amtorOldFragment

Addbitfragment ==
    /\ amtorAt <= Len(Words)
    /\ AmtorSends
    /\ FragmentChanges \/ FragmentStays \/ FullBit
    /\ UNCHANGED <<amtorFecError, showAlways>>

AmtorNext == Addbitfragment

-----------------------------------------------------------------------------
(* What should be shown, from the messages and the word that was changed.  *)

\* The registers stay in their ranges.
AmtorTypeOK ==
    /\ fragmentCount \in 0..(PerBit - 1) /\ Len(amtorShiftReg) <= 6
    /\ amtorState \in {"X0", "X1", "X2", "X3", "X4", "X5", "X6"}
    /\ amtorQP \in 0..(Queue - 1) /\ amtorLettershift \in BOOLEAN
    /\ messageState \in 0..8

\* A code is shown as it came first, or as a blank if it should have come
\* twice and did not.
AmtorReceived(j, i) ==
    LET once == AmtorSent(PlaceOf(j, i))  again == AmtorSent(PlaceOf(j, i) + 5)
    IN  IF amtorFecError /\ once # again THEN alpha ELSE once

\* The shift goes on from one message to the next.
CodesUpto(j, i) == IF j = 1 THEN SubSeq(amtorMsgs[1], 1, i)
                   ELSE amtorMsgs[1] \o SubSeq(amtorMsgs[2], 1, i)
ShiftAt(j, i) ==
    LET shifts == SelectSeq(CodesUpto(j, i), LAMBDA c : c \in {letter, digit})
    IN  shifts = <<>> \/ Last(shifts) = letter
Plain(j) ==
    FlattenSeq([i \in DOMAIN amtorMsgs[j] |->
        IF amtorMsgs[j][i] \in {letter, digit} THEN <<>>
        ELSE <<Symbol(AmtorReceived(j, i), ShiftAt(j, i))>>])
    \o (IF j < Len(amtorMsgs) THEN Spaces ELSE <<>>)

\* Of a message, what comes from ZCZC on, and until after NNNN.
Official(t) ==
    LET starts == {k \in 1..(Len(t) - 3) : SubSeq(t, k, k + 3) = ZCZC}
        first == CHOOSE k \in starts : \A m \in starts : k <= m
        body == IF starts = {} THEN <<>> ELSE SubSeq(t, first, Len(t))
        ends == {k \in 5..(Len(body) - 3) : SubSeq(body, k, k + 3) = NNNN}
        end == CHOOSE k \in ends : \A m \in ends : k <= m
    IN  IF ends = {} THEN body
        ELSE SubSeq(body, 1, IF end + 4 < Len(body) THEN end + 4 ELSE Len(body))
AmtorAll == FlattenSeq([j \in DOMAIN amtorMsgs |->
                      IF showAlways THEN Plain(j) ELSE Official(Plain(j))])

\* A Z that is not the next letter of ZCZC sends messageState back to 0, and is not
\* the first letter of another ZCZC: of ZZCZC only a C, a Z and a C are seen.
Overlooked(t) ==
    \E k \in 2..(Len(t) - 3) :
        /\ SubSeq(t, k, k + 3) = ZCZC /\ t[k - 1] = "Z"
        /\ \A m \in 1..(k - 1) : SubSeq(t, m, m + 3) # ZCZC
ZczcSeen == \A j \in DOMAIN amtorMsgs : ~Overlooked(Plain(j))

\* Everything that was sent is shown once and in its order, from whatever bit
\* on the decoder listens and with a clock that goes a little wrong; and one
\* word that is changed changes one character at most.  When only messages are
\* shown, their ZCZC has to be one that is seen.
AmtorTrue ==
    showAlways \/ ZczcSeen =>
        /\ IsPrefix(amtorText, AmtorAll)
        /\ amtorAt > Len(Words) => amtorText = AmtorAll
=============================================================================
