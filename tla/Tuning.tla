------------------------------- MODULE Tuning -------------------------------
(***************************************************************************)
(* How the receiver is tuned (radio.cpp, lines 629-807): the device is set *)
(* to a VFO frequency, and the signal is found currentOffset above it in   *)
(* the device's bandwidth, where hfFilter lets a band pass.  setFrequency  *)
(* puts the signal at a quarter of the bandwidth; adjustFrequency_hz, for  *)
(* a click in a scope or a decoder that corrects itself, moves the offset  *)
(* as long as the band stays inside, and tunes the device otherwise;       *)
(* setBand chooses another band; a program can be saved and selected.      *)
(*                                                                         *)
(* A device may refuse a frequency: one that is not connected, or not open *)
(* or cannot go there.  Frequencies are quint64 in most places, but int32  *)
(* where the program keeps or saves them.  All of it is on the GUI thread. *)
(***************************************************************************)
EXTENDS Integers

CONSTANTS scopeWidth,      \* the bandwidth: 96000
          kHz,             \* 1000
          decoderRate,     \* 12000
          Band,            \* of the names in the selector: [low, high]
          Frequencies,     \* that the keypad gives
          Steps,           \* of the scopes and the decoders
          Word32, Word64,  \* 2^32 and 2^64
          MaxOps           \* bound: operations

VARIABLES
    vfo,             \* what the device's getVFOFrequency returns
    currentOffset,
    theBand,         \* [low, high] around the offset
    hfFilter,        \* [low, high] that passes
    theFrequency,    \* int32, for the FT8 reports
    display,         \* quint64
    programs,        \* saved: the number of kHz, int32, and
                     \* ghost: where the receiver was
    chosen,          \* ghost: the band was chosen after the last tuning
    refused,         \* ghost: the device did not take the last frequency
    ops              \* bound

vars == <<vfo, currentOffset, theBand, hfFilter, theFrequency, display,
          programs, chosen, refused, ops>>

Bands == {Band[s] : s \in DOMAIN Band}
FirstBand == [low |-> -(decoderRate \div 2), high |-> decoderRate \div 2]

Wide(b) == b.high - b.low > scopeWidth \div 10

\* The bands of the selector lie around the signal and fit where setFrequency
\* puts it, and so does the first band; those that are not wide reach at most
\* a twentieth of the bandwidth to either side.
ASSUME TuningAssumption ==
    /\ scopeWidth \in Nat /\ kHz \in Nat \ {0}
    /\ decoderRate \in Nat /\ decoderRate \div 2 <= scopeWidth \div 4
    /\ Frequencies \subseteq Int /\ Steps \subseteq Int
    /\ Word32 \in Nat \ {0} /\ Word64 \in Nat \ {0} /\ MaxOps \in Nat
    /\ Word32 % 2 = 0 /\ Word64 % Word32 = 0
    /\ \A b \in Bands :
          /\ b \in [low : Int, high : Int] /\ b.low <= 0 /\ b.high >= 0
          /\ b.high <= scopeWidth \div 4 /\ -b.low <= scopeWidth \div 4
          /\ ~Wide(b) => b.high <= scopeWidth \div 20 /\ -b.low <= scopeWidth \div 20

\* Integers of the two widths, and what a conversion does.
Unsigned64(x) == x % Word64
Signed32(x) == LET u == x % Word32
               IN  IF u >= Word32 \div 2 THEN u - Word32 ELSE u
Is32(x) == -(Word32 \div 2) <= x /\ x < Word32 \div 2
Is64(x) == 0 <= x /\ x < Word64

TypeOK ==
    /\ Is64(vfo) /\ Is64(display)
    /\ currentOffset \in Int
    /\ theBand \in Bands \cup {FirstBand}
    /\ hfFilter \in [low : Int, high : Int]
    /\ Is32(theFrequency)
    /\ \A p \in programs : Is32(p.khz) /\ Is64(p.at)
    /\ {chosen, refused} \subseteq BOOLEAN
    /\ ops \in 0..MaxOps

Around(offset, b) == [low |-> offset + b.low, high |-> offset + b.high]

\* The device has a frequency of its own, which theFrequency does not know.
Init ==
    /\ vfo \in {Unsigned64(f) : f \in Frequencies}
    /\ currentOffset = scopeWidth \div 4
    /\ theBand = FirstBand
    /\ hfFilter = Around(currentOffset, theBand)
    /\ theFrequency \in {Signed32(f) : f \in Frequencies}
    /\ display = Unsigned64(theFrequency)
    /\ programs = {}
    /\ chosen = FALSE /\ refused = TRUE
    /\ ops = 0

Counted == ops < MaxOps /\ ops' = ops + 1

-----------------------------------------------------------------------------
(* Operations                                                              *)

\* setFrequency; whatever the device says, the offset and what is shown are
\* those of the new frequency.
Tuned(f) ==
    /\ \/ vfo' = Unsigned64(f - scopeWidth \div 4) /\ refused' = FALSE
       \/ vfo' = vfo /\ refused' = TRUE
    /\ currentOffset' = scopeWidth \div 4
    /\ hfFilter' = Around(currentOffset', theBand)
    /\ theFrequency' = Signed32(f)
    /\ display' = Unsigned64(f)
    /\ chosen' = FALSE
    /\ UNCHANGED <<theBand, programs>>

\* The keypad.
SetFrequency(f) == Counted /\ Tuned(f)

\* Planted error: the low edge is not looked at.
TooFarHigh(n) ==
    currentOffset + theBand.high + n >= scopeWidth \div 2 - scopeWidth \div 20

\* The band would come nearer than a twentieth to an edge of the bandwidth.
TooFar(n) ==
    \/ currentOffset + theBand.high + n >= scopeWidth \div 2 - scopeWidth \div 20
    \/ currentOffset + theBand.low + n <= -(scopeWidth \div 2) + scopeWidth \div 20

\* Planted error: the frequency that is shown is that of before.
MovesOffsetShowingOld(n) ==
    /\ currentOffset' = currentOffset + n
    /\ hfFilter' = Around(currentOffset', theBand)
    /\ theFrequency' = Signed32(vfo + currentOffset)
    /\ display' = Unsigned64(theFrequency')
    /\ chosen' = FALSE /\ refused' = FALSE
    /\ UNCHANGED <<vfo, theBand, programs>>

\* What is shown passes through an int.
MovesOffset(n) ==
    /\ currentOffset' = currentOffset + n
    /\ hfFilter' = Around(currentOffset', theBand)
    /\ theFrequency' = Signed32(vfo + currentOffset')
    /\ display' = Unsigned64(theFrequency')
    /\ chosen' = FALSE /\ refused' = FALSE
    /\ UNCHANGED <<vfo, theBand, programs>>

AdjustFrequency_hz(n) ==
    /\ Counted
    /\ IF TooFar(n) THEN Tuned(Unsigned64(vfo + currentOffset + n))
                    ELSE MovesOffset(n)

Set_inMiddle == Counted /\ Tuned(Unsigned64(vfo + currentOffset))

SetBand(s) ==
    /\ Counted
    /\ theBand' = Band[s]
    /\ hfFilter' = Around(currentOffset, theBand')
    /\ chosen' = TRUE
    /\ UNCHANGED <<vfo, currentOffset, theFrequency, display, programs, refused>>

\* handle_myLine: an int32 in Hz is divided by 1000, towards zero.
Here == Unsigned64(vfo + currentOffset)
\* Planted error: the last digits are rounded up.
ToKhzUp(f) == IF f < 0 THEN -((-f) \div kHz) ELSE (f + kHz - 1) \div kHz
ToKhz(f) == IF f < 0 THEN -((-f) \div kHz) ELSE f \div kHz
Save ==
    /\ Counted
    /\ programs' = programs \cup {[khz |-> ToKhz(Signed32(Here)), at |-> Here]}
    /\ UNCHANGED <<vfo, currentOffset, theBand, hfFilter, theFrequency,
                   display, chosen, refused>>

\* tableSelect: the int32 product becomes a quint64.
TableSelect(p) ==
    /\ Counted
    /\ Tuned(Unsigned64(Signed32(p.khz * kHz)))

Next ==
    \/ \E f \in Frequencies : SetFrequency(f)
    \/ \E n \in Steps : AdjustFrequency_hz(n)
    \/ \E s \in DOMAIN Band : SetBand(s)
    \/ Set_inMiddle \/ Save
    \/ \E p \in programs : TableSelect(p)

Spec == Init /\ [][Next]_vars

-----------------------------------------------------------------------------
(* Properties                                                              *)

\* What passes the filter is inside of the device's bandwidth, whatever bands
\* are chosen and whatever clicked in between.  Excused is a wide band from
\* when it is chosen to the next tuning: setBand does not look at the edge that
\* adjustFrequency_hz keeps away from, and which is only as far away as the
\* other bands need (lines 655-656 and 749-806).
InBandwidth ==
    ~(Wide(theBand) /\ chosen) =>
        /\ -(scopeWidth \div 2) <= hfFilter.low
        /\ hfFilter.high <= scopeWidth \div 2

\* What the receiver believes, and reports to others, is where it is, unless
\* the device refused and nothing was adjusted since; modulo 2^32, as it is
\* kept in 32 bits; what is displayed is exact up to 31 bits (lines 632-640 and
\* 669-675: from 2^31 Hz on an int is displayed as a very large number).
FrequencyTrue ==
    ~refused =>
        /\ (theFrequency - vfo - currentOffset) % Word32 = 0
        /\ Here < Word32 \div 2 => display = Here

\* A program that is selected tunes to within a kHz of where it was saved, as
\* long as that frequency has 31 bits (line 741, and program-list.cpp, 94).
ComesBack ==
    [][\A p \in programs :
          TableSelect(p) /\ p.at < Word32 \div 2 =>
              theFrequency' <= p.at /\ p.at < theFrequency' + kHz]_vars
=============================================================================
