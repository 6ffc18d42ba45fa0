---------------------------- MODULE AcarsDecoder ----------------------------
(***************************************************************************)
(* The acars decoder (decoders/acars-decoder): bits become bytes           *)
(* (putbit), bytes a block (decodeAcars), which is checked, mended           *)
(* (processBlock, fixprerr) and handed, through a ring of slots under two  *)
(* semaphores, to the thread of the printer (output_msg, run).             *)
(*                                                                         *)
(* The sender is external: it sends messages, each after its key of ones,  *)
(* and some bits come wrong.  The receiver may be locked to its carrier    *)
(* upside down.  The demodulator is left out but for that, and so is how a *)
(* message is printed.  The lengths 13, 20 and 240 are constants.          *)
(***************************************************************************)
EXTENDS Integers, Sequences, FiniteSets, SequencesExt

CONSTANTS Header,      \* bytes of the least block, of which STX is the last
          Recovers,    \* a block is so long before its end can be missed
          TooLong,
          MAXPERR,
          Prekey,      \* bytes of ones before a message
          theSlots,
          AcarsMessages,    \* sequences of blocks, of TooLong + 1 bytes at most
          AcarsHits         \* sets of bits that come wrong: [msg, byte, bit]

ASSUME AcarsAssumption ==
    /\ Header \in Nat \ {0} /\ theSlots \in Nat \ {0}
    /\ Recovers \in Nat /\ Recovers >= 3 /\ TooLong \in Nat

\* Bytes and checksums are the sets of their bits that are set.
SYN == {1, 2, 4}
SOH == {0}
STX == {1}
ETX == {0, 1, 7}
ETB == {0, 1, 2, 4, 7}
DLE == 0..6
Complement(byte) == (0..7) \ byte
OddParity(byte) == Cardinality(byte) % 2 = 1
Xor(a, b) == (a \ b) \cup (b \ a)

VARIABLES
    acarsMsgs, acarsHit,     \* what the sender sends, and what comes wrong
    inverted,                \* MskS is off by two
    acarsMsg, acarsAt, acarsBit,   \* the message, byte and bit that come next
    \* the decoder, on the gui thread
    acarsGpc,                \* "runs", "waits" for a slot, "join", "deleted"
    outbits, nbits, Acarsstate,
    blk_err, blk_txt,        \* with blk_len, its length
    blk_crc,
    toPrint,                 \* the block output_msg has been called with
    \* the printer
    printerRunning, printerFree, printerUsed, nextIn, nextOut, theData,
    printerPc,               \* of its thread
    printed,
    printerLate              \* ghost: it began after the destructor stopped it

acarsAir == <<acarsMsgs, acarsHit, acarsMsg, acarsAt, acarsBit>>
acarsBlock == <<outbits, nbits, Acarsstate, blk_err, blk_txt, blk_crc, inverted>>
acarsSlots == <<printerFree, printerUsed, nextIn, nextOut, theData>>
printerVars == <<printerRunning, printerPc, printed, printerLate>>
acarsVars == <<acarsAir, acarsGpc, acarsBlock, toPrint, acarsSlots, printerVars>>

-----------------------------------------------------------------------------
(* The checksum: update_crc, and the entries of crc_ccitt_table and        *)
(* syndrom, of which each is the sum of those of its bits.                 *)

Table == <<{0, 3, 7, 8, 12}, {1, 4, 8, 9, 13}, {2, 5, 9, 10, 14}, {3, 6, 10, 11, 15},
           {0, 7, 12}, {1, 8, 13}, {2, 9, 14}, {3, 10, 15}>>
CrcTable == [byte \in SUBSET (0..7) |->
                FoldSet(LAMBDA i, sum : Xor(Table[i + 1], sum), {}, byte)]
Update(crc, byte) ==
    Xor({b - 8 : b \in crc \cap 8..15}, CrcTable[Xor(crc \cap 0..7, byte)])
Crc(bytes) == FoldLeft(Update, {}, bytes)
\* Of bit i of a byte that n bytes follow: as many rows as syndrom.h has.
Syndrom == [i \in 0..7, n \in 0..(TooLong + 1) |->
               Crc(<<{i}>> \o [k \in 1..n |-> {}])]

-----------------------------------------------------------------------------
(* What comes.                                                             *)

WithCrc(block) ==
    LET crc == Crc(block)
    IN  block \o <<crc \cap 0..7, {b - 8 : b \in crc \cap 8..15}>>
Key == [k \in 1..Prekey |-> 0..7] \o <<SYN, SYN, SOH>>
AirOf == [block \in UNION {ToSet(ms) : ms \in AcarsMessages} |->
             Key \o WithCrc(block) \o <<DLE>>]
Air == AirOf[acarsMsgs[acarsMsg]]
Here == [msg |-> acarsMsg, byte |-> acarsAt - Len(Key), bit |-> acarsBit]
AcarsComes == (acarsBit \in Air[acarsAt]) # (Here \in acarsHit)
AcarsOver == acarsMsg > Len(acarsMsgs)

AcarsInit ==
    /\ acarsMsgs \in AcarsMessages /\ acarsHit \in AcarsHits /\ inverted \in BOOLEAN
    /\ acarsMsg = 1 /\ acarsAt = 1 /\ acarsBit \in 0..7 /\ (acarsHit # {} => acarsBit = 0)
    /\ acarsGpc = "runs" /\ toPrint = <<>>
    /\ outbits = {} /\ nbits = 0 /\ Acarsstate = "WSYN"
    /\ blk_err = 0 /\ blk_txt = <<>> /\ blk_crc = <<{}, {}>>
    /\ printerRunning = TRUE /\ printerFree = theSlots /\ printerUsed = 0
    /\ nextIn = 0 /\ nextOut = 0 /\ theData = [s \in 0..(theSlots - 1) |-> <<>>]
    /\ printerPc = "begins" /\ printed = <<>> /\ printerLate = FALSE

-----------------------------------------------------------------------------
(* What is done with a block: processBlock                                 *)

\* Byte Header is STX, or ETX when there is no text.
ForceSTX(txt) == [txt EXCEPT ![Header] = (@ \cap (ETX \cup STX)) \cup (ETX \cap STX)]
ParityErrors(txt) == SelectSeq([k \in DOMAIN txt |-> k],
                               LAMBDA k : ~OddParity(txt[k]))

\* fixprerr: a bit for each byte of pr, the first that leaves no error but
\* one bit of the checksum.
Tolerated == {{}} \cup {Syndrom[i, n] : i \in 0..7, n \in 0..1}
RowOf(txt, k) == Len(txt) - k + 2
Leaves(txt, crc, pr, bits) ==
    FoldLeft(LAMBDA sum, j : Xor(sum, Syndrom[bits[j], RowOf(txt, pr[j])]),
             crc, [j \in DOMAIN pr |-> j])
FirstOf(a, b) == \E j \in DOMAIN a : /\ a[j] < b[j]
                                   /\ \A i \in 1..(j - 1) : a[i] = b[i]
Fixes(txt, crc, pr) ==
    {bits \in [DOMAIN pr -> 0..7] : Leaves(txt, crc, pr, bits) \in Tolerated}
Fixprerr(txt, pr, bits) ==
    [k \in DOMAIN txt |->
        Xor(txt[k], {bits[j] : j \in {i \in DOMAIN pr : pr[i] = k}})]

\* The row after the last one is read for the first byte of the longest block, and
\* with what is found there any bits may seem to leave no error, or none.
ReadsPast(txt, pr) == \E j \in DOMAIN pr : RowOf(txt, pr[j]) > TooLong + 1
Mends(txt, crc, pr) ==
    IF ReadsPast(txt, pr) THEN {{}} \cup {{f} : f \in [DOMAIN pr -> 0..7]}
    ELSE LET fixes == Fixes(txt, crc, pr)
         IN  {{f \in fixes : \A g \in fixes : f = g \/ FirstOf(f, g)}}

NoParity(block) == [k \in DOMAIN block |-> block[k] \ {7}]

\* The block that is printed, without its parity, if any is.  With parity
\* right it is printed whatever its checksum: fixdberr comes only after a
\* parity that was wrong, and only without verbose, which radio.cpp sets.
Printable(received, crc) ==
    LET txt == ForceSTX(received)
        pr == ParityErrors(txt)
    IN  IF Len(received) < Header \/ Len(pr) > MAXPERR THEN {{}}
        ELSE IF pr = <<>> THEN {{NoParity(txt)}}
        ELSE {{NoParity(Fixprerr(txt, pr, f)) : f \in fs} :
                  fs \in Mends(txt, Crc(txt \o crc), pr)}

\* output_msg is called with a block that is printable.
ProcessBlock(txt, crc) ==
    \E blocks \in Printable(txt, crc) :
        \/ blocks = {} /\ UNCHANGED <<acarsGpc, toPrint>>
        \/ acarsGpc' = "waits" /\ toPrint' \in blocks

-----------------------------------------------------------------------------
(* decodeAcars: what a byte does in each of the states.                    *)

Goes(state, n) == Acarsstate' = state /\ nbits' = n
Expects(state) == Goes(state, 8)
Searches == Goes("WSYN", 1)
SameBlock == UNCHANGED <<blk_err, blk_txt, blk_crc, acarsGpc, toPrint>>

\* A SYN that is upside down turns the decoder round: MskS ^= 2.
Sync(theByte) ==
    /\ Acarsstate \in {"WSYN", "SYN2"}
    /\ IF theByte = SYN THEN /\ Expects(IF Acarsstate = "WSYN" THEN "SYN2" ELSE "SOH1")
                             /\ UNCHANGED inverted
       ELSE IF theByte = Complement(SYN) THEN Expects("SYN2") /\ inverted' = ~inverted
       ELSE Searches /\ UNCHANGED inverted
    /\ SameBlock

Soh1(theByte) ==
    /\ Acarsstate = "SOH1"
    /\ IF theByte = SOH
       THEN Expects("TXT") /\ blk_txt' = <<>> /\ blk_err' = 0
       ELSE Searches /\ UNCHANGED <<blk_txt, blk_err>>
    /\ UNCHANGED <<inverted, blk_crc, acarsGpc, toPrint>>

\* Three bytes back from a DLE that should not be in the text.
MissedEnd(txt) ==
    LET n == Len(txt) - 3
    IN  /\ Expects("END")
        /\ blk_txt' = SubSeq(txt, 1, n)
        /\ blk_crc' = <<txt[n + 1], txt[n + 2]>>
        /\ ProcessBlock(blk_txt', blk_crc')

Txt(theByte) ==
    LET txt == Append(blk_txt, theByte)
        err == blk_err + (IF OddParity(theByte) THEN 0 ELSE 1)
    IN  /\ Acarsstate = "TXT"
        /\ blk_err' = err
        /\ IF ~OddParity(theByte) /\ err > MAXPERR + 1
           THEN Searches /\ blk_txt' = txt /\ UNCHANGED <<blk_crc, acarsGpc, toPrint>>
           ELSE IF Len(txt) > Recovers /\ theByte = DLE
           THEN MissedEnd(txt)
           ELSE /\ blk_txt' = txt
                /\ IF theByte \in {ETX, ETB} THEN Expects("CRC1")
                   ELSE IF Len(txt) > TooLong THEN Searches ELSE Expects("TXT")
                /\ UNCHANGED <<blk_crc, acarsGpc, toPrint>>
        /\ UNCHANGED inverted

Crc1(theByte) ==
    /\ Acarsstate = "CRC1" /\ Expects("CRC2")
    /\ blk_crc' = [blk_crc EXCEPT ![1] = theByte]
    /\ UNCHANGED <<inverted, blk_err, blk_txt, acarsGpc, toPrint>>

Crc2(theByte) ==
    /\ Acarsstate = "CRC2" /\ Expects("END")
    /\ blk_crc' = [blk_crc EXCEPT ![2] = theByte]
    /\ ProcessBlock(blk_txt, blk_crc')
    /\ UNCHANGED <<inverted, blk_err, blk_txt>>

End == Acarsstate = "END" /\ Expects("WSYN") /\ UNCHANGED inverted /\ SameBlock

DecodeAcars(theByte) ==
    \/ Sync(theByte) \/ Soh1(theByte) \/ Txt(theByte)
    \/ Crc1(theByte) \/ Crc2(theByte) \/ End

\* putbit
Putbit ==
    /\ acarsGpc = "runs" /\ ~AcarsOver
    /\ outbits' = {b - 1 : b \in outbits \ {0}}
                  \cup (IF AcarsComes # inverted THEN {7} ELSE {})
    /\ IF nbits > 1
       THEN nbits' = nbits - 1 /\ UNCHANGED <<inverted, Acarsstate>> /\ SameBlock
       ELSE DecodeAcars(outbits')
    /\ acarsBit' = (acarsBit + 1) % 8
    /\ acarsAt' = IF acarsBit' > 0 THEN acarsAt ELSE (acarsAt % Len(Air)) + 1
    /\ acarsMsg' = IF acarsBit' = 0 /\ acarsAt' = 1 THEN acarsMsg + 1 ELSE acarsMsg
    /\ UNCHANGED <<acarsMsgs, acarsHit, acarsSlots, printerVars>>

-----------------------------------------------------------------------------
(* The printer                                                             *)

\* Planted error: after 200 ms it is taken for granted that a slot is free.
OutputMsgImpatient ==
    /\ acarsGpc = "waits"
    /\ printerFree' = IF printerFree > 0 THEN printerFree - 1 ELSE 0
    /\ theData' = [theData EXCEPT ![nextIn] = toPrint]
    /\ nextIn' = (nextIn + 1) % theSlots
    /\ printerUsed' = printerUsed + 1
    /\ acarsGpc' = "runs" /\ toPrint' = <<>>
    /\ UNCHANGED <<acarsAir, acarsBlock, nextOut, printerVars>>

\* The rest of output_msg, when tryAcquire has got a slot.
OutputMsg ==
    /\ acarsGpc = "waits" /\ printerFree > 0
    /\ printerFree' = printerFree - 1
    /\ theData' = [theData EXCEPT ![nextIn] = toPrint]
    /\ nextIn' = (nextIn + 1) % theSlots
    /\ printerUsed' = printerUsed + 1
    /\ acarsGpc' = "runs" /\ toPrint' = <<>>
    /\ UNCHANGED <<acarsAir, acarsBlock, nextOut, printerVars>>

\* ~printer, when another decoder is selected; it joins the thread.
DeletePrinter ==
    /\ acarsGpc = "runs"
    /\ IF printerRunning THEN printerRunning' = FALSE /\ acarsGpc' = "join"
       ELSE acarsGpc' = "deleted" /\ UNCHANGED printerRunning
    /\ UNCHANGED <<acarsAir, acarsBlock, toPrint, acarsSlots, printerPc,
                   printed, printerLate>>
PrinterJoined ==
    /\ acarsGpc = "join" /\ printerPc = "ended"
    /\ acarsGpc' = "deleted"
    /\ UNCHANGED <<acarsAir, acarsBlock, toPrint, acarsSlots, printerVars>>

Moves(from, to) == printerPc = from /\ printerPc' = to
\* It stores running, as start did before.
Begins ==
    /\ Moves("begins", "loop")
    /\ printerRunning' = TRUE
    /\ printerLate' = ~printerRunning
    /\ UNCHANGED <<acarsSlots, printed>>
Loops ==
    /\ Moves("loop", IF printerRunning THEN "acquire" ELSE "ended")
    /\ UNCHANGED <<acarsSlots, printerRunning, printed, printerLate>>
Acquires ==
    /\ Moves("acquire", "process") /\ printerUsed > 0
    /\ printerUsed' = printerUsed - 1
    /\ UNCHANGED <<printerFree, nextIn, nextOut, theData, printerRunning,
                   printed, printerLate>>
TimesOut ==
    /\ printerPc = "acquire" /\ printerUsed = 0 /\ ~printerRunning
    /\ printerPc' = "ended"
    /\ UNCHANGED <<acarsSlots, printerRunning, printed, printerLate>>
\* Planted error: the slot is not given back.
ProcessMsgKeeping ==
    /\ Moves("process", "loop")
    /\ printed' = Append(printed, theData[nextOut])
    /\ nextOut' = (nextOut + 1) % theSlots
    /\ UNCHANGED <<printerFree, printerUsed, nextIn, theData, printerRunning,
                   printerLate>>

\* process_msg, which ends with the slot being free.
ProcessMsg ==
    /\ Moves("process", "loop")
    /\ printed' = Append(printed, theData[nextOut])
    /\ nextOut' = (nextOut + 1) % theSlots
    /\ printerFree' = printerFree + 1
    /\ UNCHANGED <<printerUsed, nextIn, theData, printerRunning, printerLate>>

Printer == /\ Begins \/ Loops \/ Acquires \/ TimesOut \/ ProcessMsg
           /\ UNCHANGED <<acarsAir, acarsGpc, acarsBlock, toPrint>>
AcarsGui == OutputMsg \/ DeletePrinter \/ PrinterJoined

AcarsNext == Putbit \/ AcarsGui \/ Printer

-----------------------------------------------------------------------------
(* Properties                                                              *)

RowsHold(txt) ==
    \A k \in DOMAIN txt :
        RowOf(txt, k) \in 0..(TooLong + 1) \/ (k = 1 /\ Len(txt) = TooLong + 1)

\* The bytes of a block have their places in blk_txt, the messages theirs in
\* theData, and the errors their rows in syndrom, but for the first byte of a block
\* of TooLong + 1.
AcarsTypeOK ==
    /\ acarsGpc \in {"runs", "waits", "join", "deleted"}
    /\ Acarsstate \in {"WSYN", "SYN2", "SOH1", "TXT", "CRC1", "CRC2", "END"}
    /\ nbits \in 0..8 /\ outbits \subseteq 0..7 /\ Len(blk_txt) <= TooLong + 1
    /\ RowsHold(blk_txt)
    /\ printerFree \in 0..theSlots /\ printerUsed \in 0..theSlots
    /\ nextIn \in 0..(theSlots - 1) /\ nextOut \in 0..(theSlots - 1)
    /\ printerPc \in {"begins", "loop", "acquire", "process", "ended"}

\* The messages between the decoder and the printer: those that have been put
\* into theData and that process_msg has not done with.
Filled == printerUsed + (IF printerPc = "process" THEN 1 ELSE 0)
Waiting == [i \in 1..Filled |-> theData[(nextOut + i - 1) % theSlots]]
PrinterQueue == INSTANCE MessageQueue WITH
    Capacity <- theSlots, offered <- toPrint, queue <- Waiting, taken <- printed

\* Decoder and printer, with their semaphores, slots and indices, are a queue
\* of theSlots messages: each that output_msg is called with is printed as it
\* was, once and in order, though its slot is written and read by two threads
\* without a lock, and the printer begins, ends and is deleted at any time.
PrinterIsFifo == PrinterQueue!Spec

\* What should be printed of message m: it as it was sent, or nothing when too
\* many of its bytes came wrong, or its end is missed and it is short.
WrongBytes(m) == {h.byte : h \in {w \in acarsHit : w.msg = m}} \cap DOMAIN acarsMsgs[m]
AcarsLost(m) ==
    \/ Cardinality(WrongBytes(m)) > MAXPERR
    \/ Len(acarsMsgs[m]) \in WrongBytes(m) /\ Len(acarsMsgs[m]) + 3 <= Recovers
AcarsSent(m) == [k \in DOMAIN acarsMsgs[m] |-> acarsMsgs[m][k] \ {7}]
AcarsAll == FlattenSeq([m \in DOMAIN acarsMsgs |->
                           IF AcarsLost(m) THEN <<>> ELSE <<AcarsSent(m)>>])

\* What the code can tell: one wrong bit in a byte, by its parity, and one in the
\* checksum, none in front of the block; a block whose parities are right is printed
\* whatever its checksum says.
AcarsTold ==
    \A h \in acarsHit :
        /\ h.byte >= 1
        /\ \A g \in acarsHit \ {h} : g.msg = h.msg =>
               g.byte # h.byte /\ (g.byte <= Len(acarsMsgs[h.msg])
                                  \/ h.byte <= Len(acarsMsgs[h.msg]))
\* syndrom has a row for each wrong byte.
SyndromHolds == \A m \in DOMAIN acarsMsgs :
                    1 \in WrongBytes(m) => Len(acarsMsgs[m]) <= TooLong

\* Every block is printed once, in order, as it was sent, though it comes
\* upside down, bits of its bytes are wrong or its end is missed; one that is
\* beyond repair is dropped, and the next one is printed all the same.
AcarsTrue ==
    AcarsTold /\ SyndromHolds =>
        /\ IsPrefix(printed, AcarsAll)
        /\ AcarsOver /\ acarsGpc = "runs" /\ printerUsed = 0 /\ printerPc = "acquire"
              => printed = AcarsAll
=============================================================================
