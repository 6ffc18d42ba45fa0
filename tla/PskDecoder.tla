----------------------------- MODULE PskDecoder -----------------------------
(***************************************************************************)
(* The psk decoder (decoders/psk-decoder) from the phase of a symbol on:    *)
(* the squelch (decodingIsOn), for qpsk the convolutional code (viterbi),  *)
(* and the varicode (bpsk_bit).                                            *)
(*                                                                         *)
(* The sender is external.  It sends messages one after the other: zeros,  *)
(* the text, zeros again, and then a carrier that does not change.  One     *)
(* symbol may come wrong.  Filters and the clock of the symbols, which are  *)
(* arithmetic, are left out.                                               *)
(***************************************************************************)
EXTENDS Integers, Sequences, FiniteSets, SequencesExt

CONSTANTS PskMessages,     \* sequences of texts
          PskPreamble, PskPostamble,    \* symbols
          PskTrailer,      \* symbols after a message's last character
          PskOpens,        \* good symbols after which the squelch is open
          PATHMEM,
          IntMax        \* of the metrics

ASSUME PskAssumption ==
    /\ PskOpens \in Nat /\ PATHMEM \in Nat \ {0} /\ PATHMEM % 8 = 0
    /\ IntMax \in Nat /\ IntMax >= 9216

\* Some of varicodetab2; of any other code it is left open whether it is there.
varicode == [e |-> <<1, 1>>, t |-> <<1, 0, 1>>, o |-> <<1, 1, 1>>, a |-> <<1, 0, 1, 1>>]
LongestCode == 12

VARIABLES
    \* the sender
    isQuadpskMode,
    pskReverse, pskMsgs, pskHit, pskAt,
    \* the decoder
    pskDecodeShifter,  \* the last symbols, the last one first
    pskQuality,        \* good symbols, up to PskOpens
    metrics,           \* the row of ptr - 1: older ones are not read
    history, ptr,
    pskShiftReg,
    pskText

pskSender == <<isQuadpskMode, pskReverse, pskMsgs, pskHit, pskAt>>
viterbiVars == <<metrics, history, ptr>>
pskChars == <<pskShiftReg, pskText>>
pskVars == <<pskSender, pskDecodeShifter, pskQuality, viterbiVars, pskChars>>

-----------------------------------------------------------------------------
(* The code, with K = 5.  A state is the last four bits.                   *)

ViterbiStates == 0..15
\* The taps of Poly1 are 1, 8 and 16, those of Poly2 are 1, 2, 4 and 16.
Dibitsfor(state, bit) ==
    LET tap(w) == ((2 * state + bit) \div w) % 2
    IN  2 * ((tap(1) + tap(8) + tap(16)) % 2)
        + ((tap(1) + tap(2) + tap(4) + tap(16)) % 2)
Shifted(state, bit) == (2 * state + bit) % 16

-----------------------------------------------------------------------------
(* The sender's symbols: changes of phase, of which 2 is a reversal.       *)

BitsOf(string) == FlattenSeq([i \in DOMAIN string |-> varicode[string[i]] \o <<0, 0>>])
Zeros(n) == [i \in 1..n |-> 0]
PskStream(string, n) == Zeros(PskPreamble) \o BitsOf(string) \o Zeros(n)
StateBefore(bits, i) ==
    FoldLeft(Shifted, 0, SubSeq(bits, IF i > 4 THEN i - 4 ELSE 1, i - 1))
\* The upper one of two bits is sent turned over.
Coded(bits) == [i \in DOMAIN bits |->
    LET d == Dibitsfor(StateBefore(bits, i), bits[i])
    IN  (d % 2) + 2 * (1 - d \div 2)]
SymbolsOf ==
    [ms \in PskMessages, q \in BOOLEAN |->
        FlattenSeq([j \in DOMAIN ms |->
            LET stream == PskStream(ms[j], PskTrailer[ms])
            IN  (IF q THEN Coded(stream)
                 ELSE [i \in DOMAIN stream |-> 2 * (1 - stream[i])])
                \o Zeros(PskPostamble)])]
PskSymbols == SymbolsOf[pskMsgs, isQuadpskMode]
PskOver == pskAt > Len(PskSymbols)

\* A symbol that is hit comes turned by a quarter or by a half.
Turned(bits) == IF pskReverse THEN (4 - bits) % 4 ELSE bits
PskComes ==
    (Turned(PskSymbols[pskAt]) + (IF pskAt = pskHit.at THEN pskHit.by ELSE 0)) % 4

InText(i) == i \in (PskPreamble + 1)..(PskPreamble + Len(BitsOf(pskMsgs[1])))
PskNoHit == [at |-> 0, by |-> 0]
PskInit ==
    /\ isQuadpskMode \in BOOLEAN /\ pskMsgs \in PskMessages /\ pskAt = 1
    /\ pskReverse \in BOOLEAN /\ (~isQuadpskMode => ~pskReverse)
    /\ \/ pskHit = PskNoHit
       \/ \E i \in DOMAIN PskSymbols, by \in 1..3 :
             /\ InText(i) /\ (~isQuadpskMode => by = 2) /\ ~pskReverse
             /\ pskHit = [at |-> i, by |-> by]
    /\ pskDecodeShifter = Zeros(16) /\ pskQuality = 0
    /\ metrics = [s \in ViterbiStates |-> 0] /\ ptr = 0
    /\ history = [p \in 0..(PATHMEM - 1) |-> [s \in ViterbiStates |-> 0]]
    /\ pskShiftReg = <<>> /\ pskText = <<>>

-----------------------------------------------------------------------------
(* bpsk_bit.  What follows two zeros is a character, if it is in the table. *)

\* What bits add to a register and a text, with c shown for a code that is
\* not one of those in varicode.
TextOf(reg, c) ==
    LET code == SubSeq(reg, 1, Len(reg) - 2)
    IN  IF \E l \in DOMAIN varicode : varicode[l] = code
        THEN <<CHOOSE l \in DOMAIN varicode : varicode[l] = code>>
        ELSE IF code = <<>> \/ Len(code) > LongestCode THEN <<>> ELSE c
\* Zeros before the first one are not part of a number.
Pushed(reg, bit) == IF reg = <<>> /\ bit = 0 THEN reg ELSE Append(reg, bit)
VaricodeBit(s, bit, c) ==
    LET reg == Pushed(s.reg, bit)
        ends == Len(reg) > 2 /\ reg[Len(reg)] = 0 /\ reg[Len(reg) - 1] = 0
    IN  [reg |-> IF ends THEN <<>> ELSE reg,
         text |-> IF ends THEN s.text \o TextOf(reg, c) ELSE s.text]
BpskBits(bits) ==
    \E c \in {<<>>, <<"?">>} :
        LET s == FoldLeft(LAMBDA r, b : VaricodeBit(r, b, c),
                          [reg |-> pskShiftReg, text |-> pskText], bits)
        IN  pskShiftReg' = s.reg /\ pskText' = s.text

-----------------------------------------------------------------------------
(* viterbi_decode                                                          *)

Mettab(bit, sym) == IF bit = 0 THEN 128 - sym ELSE sym - 128
Predecessors(state) == {state \div 2, state \div 2 + 8}
Metric(sym, state, p) ==
    LET d == Dibitsfor(p, state % 2)
    IN  metrics[p] + Mettab(d \div 2, sym[2]) + Mettab(d % 2, sym[1])
\* Of two that are equal the second one is taken.
BestPredecessor(sym, state) ==
    LET p == state \div 2
    IN  IF Metric(sym, state, p) > Metric(sym, state, p + 8) THEN p ELSE p + 8

\* Planted error: only the row of an earlier symbol is made smaller.
NormalisedLate(row) == row

Normalised(row) ==
    IF row[0] > IntMax \div 2 \/ row[0] < -(IntMax \div 2)
    THEN [s \in ViterbiStates |-> row[s] - IntMax \div 2]
    ELSE row

\* traceback from the best state of row p: the states, the oldest one first.
BestState(row) == CHOOSE s \in ViterbiStates : \A t \in ViterbiStates :
                      row[s] > row[t] \/ (row[s] = row[t] /\ s <= t)
Path(hist, p, row) ==
    FoldLeft(LAMBDA path, i : <<hist[(p - i) % PATHMEM][Head(path)]>> \o path,
             <<BestState(row)>>, [i \in 1..(PATHMEM - 1) |-> i - 1])
Chunk(path) == [i \in 1..8 |-> path[i] % 2]

ViterbiDecode(sym) ==
    LET best == [s \in ViterbiStates |-> BestPredecessor(sym, s)]
        row == [s \in ViterbiStates |-> Metric(sym, s, best[s])]
        next == (ptr + 1) % PATHMEM
    IN  /\ history' = [history EXCEPT ![ptr] = best]
        /\ ptr' = next
        /\ \/ /\ next % 8 = 0
              /\ metrics' = row
              /\ BpskBits(Chunk(Path(history', ptr, row)))
           \/ /\ next % 8 # 0
              /\ metrics' = Normalised(row)
              /\ UNCHANGED pskChars

QpskBit(bits) ==
    LET b == Turned(bits)
    IN  ViterbiDecode(<<IF b % 2 = 1 THEN 255 ELSE 0, IF b \div 2 = 1 THEN 0 ELSE 255>>)

-----------------------------------------------------------------------------
(* doDecode, once a symbol is complete                                     *)

\* decodingIsOn
PskShifter(bits) == <<bits>> \o SubSeq(pskDecodeShifter, 1, 15)
PskQuality(shifter) ==
    IF shifter = [i \in 1..16 |-> 2] THEN PskOpens
    ELSE IF shifter = Zeros(16) THEN 0
    ELSE IF pskQuality < PskOpens THEN pskQuality + 1 ELSE PskOpens

DoDecode ==
    LET bits == PskComes
    IN  /\ ~PskOver
        /\ pskAt' = pskAt + 1
        /\ pskDecodeShifter' = PskShifter(bits)
        /\ pskQuality' = PskQuality(pskDecodeShifter')
        /\ \/ pskQuality' < PskOpens /\ UNCHANGED <<viterbiVars, pskChars>>
           \/ pskQuality' = PskOpens /\ isQuadpskMode /\ QpskBit(bits)
           \/ /\ pskQuality' = PskOpens /\ ~isQuadpskMode
              /\ BpskBits(<<IF bits = 2 THEN 0 ELSE 1>>)
              /\ UNCHANGED viterbiVars
        /\ UNCHANGED <<isQuadpskMode, pskReverse, pskMsgs, pskHit>>

PskNext == DoDecode

-----------------------------------------------------------------------------
(* Properties                                                              *)

\* What traceback follows is a state, at each of its places.
PskTypeOK ==
    /\ pskQuality \in 0..PskOpens /\ Len(pskDecodeShifter) = 16
    /\ \A p \in 0..(PATHMEM - 1), s \in ViterbiStates :
           history[p][s] \in Predecessors(s) \cup {0}
    /\ ptr \in 0..(PATHMEM - 1)

\* A metric grows with each symbol, by 256 at most, and nothing but the
\* subtraction when that of state 0 is large keeps it from overflowing; that
\* one is left out every eighth time, for the traceback.  Still there is always
\* room for the next symbol, and the metrics never get so small that the second
\* test of viterbi_decode, which adds a negative number to them, is true.
MetricsFit ==
    \A s \in ViterbiStates : metrics[s] \in (-(IntMax \div 2))..(IntMax - 256)

PskAll == FlattenSeq(pskMsgs)
\* Some of t is not in the text, or is another, before the last n characters.
Agrees(n, lost) ==
    /\ IsPrefix(SubSeq(PskAll, 1, n), pskText)
    /\ IsSuffix(SubSeq(PskAll, n + lost + 1, Len(PskAll)), pskText)

\* The decoder of qpsk is behind by as many symbols as its paths remember, and
\* nothing but more symbols brings it forward.
PskFlushed == isQuadpskMode => PskTrailer[pskMsgs] >= PATHMEM

\* Every character is shown once.  A symbol that comes wrong spoils nothing
\* in qpsk, and in psk two characters at most; between two messages of qpsk
\* some characters may appear that nobody sent, as the squelch closes late.
PskSpoils == pskHit # PskNoHit /\ ~isQuadpskMode
PskExtra == IF isQuadpskMode /\ Len(pskMsgs) > 1 THEN 3 ELSE IF PskSpoils THEN 1 ELSE 0
PskTrue ==
    PskFlushed /\ PskOver =>
        /\ Len(pskText) <= Len(PskAll) + PskExtra
        /\ Len(pskText) >= Len(PskAll) - (IF PskSpoils THEN 2 ELSE 0)
        /\ \E n \in 0..Len(PskAll) : Agrees(n, IF PskSpoils THEN 2 ELSE 0)
=============================================================================
