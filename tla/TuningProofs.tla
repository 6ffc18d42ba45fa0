---------------------------- MODULE TuningProofs ----------------------------
(***************************************************************************)
(* The three properties of Tuning, for every bandwidth, every set of       *)
(* bands, frequencies and steps, and every number of operations.           *)
(*                                                                         *)
(* InBandwidth alone is not inductive: setBand does not look at the offset *)
(* at all.  What makes it safe is that adjustFrequency_hz keeps the offset *)
(* itself a twentieth of the bandwidth away from both ends, whatever the   *)
(* band was then (OffsetInside), and that no band reaches further than     *)
(* that but the wide ones.  Those are inside once they have been tuned     *)
(* (TunedInside), and it is the one case that is excused until then.       *)
(*                                                                         *)
(* The other two rest on one invariant, FInv: what the receiver believes   *)
(* and where it is differ by a multiple of 2^32, because every conversion  *)
(* to 64 or 32 bits changes a number by such a multiple (To64, To32) and   *)
(* the longer word is a multiple of the shorter one.                       *)
(***************************************************************************)
EXTENDS Tuning, TLAPS

Half == scopeWidth \div 2
Quarter == scopeWidth \div 4
Margin == scopeWidth \div 20

OffsetInside ==
    /\ currentOffset \in Int
    /\ -Half + Margin <= currentOffset /\ currentOffset <= Half - Margin

TunedInside ==
    ~chosen =>
        /\ -Half <= currentOffset + theBand.low
        /\ currentOffset + theBand.high <= Half

IInv ==
    /\ theBand \in Bands \cup {FirstBand}
    /\ hfFilter = Around(currentOffset, theBand)
    /\ OffsetInside
    /\ TunedInside
    /\ chosen => theBand \in Bands

-----------------------------------------------------------------------------
\* A quarter of the bandwidth, where setFrequency puts the signal, is inside.
LEMMA Thirds ==
    /\ Half \in Nat /\ Quarter \in Nat /\ Margin \in Nat
    /\ Quarter <= Half - Margin /\ Quarter + Quarter <= Half
    /\ -Half + Margin <= Quarter
<1>1. scopeWidth \in Nat
  BY TuningAssumption
<1> QED
  BY <1>1, SMTT(30) DEF Half, Quarter, Margin

\* Every band lies around the signal, the first one too.
LEMMA BandAround ==
    ASSUME NEW b \in Bands \cup {FirstBand}
    PROVE  b.low \in Int /\ b.high \in Int /\ b.low <= 0 /\ 0 <= b.high
<1>1. CASE b \in Bands
  <2>1. b \in [low : Int, high : Int] /\ b.low <= 0 /\ b.high >= 0
    BY <1>1, TuningAssumption
  <2> QED
    BY <2>1
<1>2. CASE b = FirstBand
  <2>1. decoderRate \in Nat
    BY TuningAssumption
  <2>2. decoderRate \div 2 \in Nat
    BY <2>1, SMTT(30)
  <2>3. b.low = -(decoderRate \div 2) /\ b.high = decoderRate \div 2
    BY <1>2 DEF FirstBand
  <2> QED
    BY <2>2, <2>3
<1> QED
  BY <1>1, <1>2

\* Every band is inside around the place where setFrequency puts it.
LEMMA QuarterFits ==
    ASSUME NEW b \in Bands \cup {FirstBand}
    PROVE  -Half <= Quarter + b.low /\ Quarter + b.high <= Half
<1>1. CASE b \in Bands
  <2>1. b.high <= Quarter /\ -b.low <= Quarter
    BY <1>1, TuningAssumption DEF Quarter
  <2>2. b.low \in Int /\ b.high \in Int
    BY BandAround
  <2> QED
    BY <2>1, <2>2, Thirds
<1>2. CASE b = FirstBand
  <2>1. decoderRate \in Nat /\ decoderRate \div 2 <= Quarter
    BY TuningAssumption DEF Quarter
  <2>2. decoderRate \div 2 \in Nat
    BY <2>1, SMTT(30)
  <2>3. b.low = -(decoderRate \div 2) /\ b.high = decoderRate \div 2
    BY <1>2 DEF FirstBand
  <2> QED
    BY <2>1, <2>2, <2>3, Thirds
<1> QED
  BY <1>1, <1>2

-----------------------------------------------------------------------------
\* The offset is a quarter, and the band any one of them.
LEMMA AtQuarter ==
    ASSUME theBand' \in Bands \cup {FirstBand},
           currentOffset' = Quarter,
           hfFilter' = Around(currentOffset', theBand'),
           chosen' = FALSE
    PROVE  IInv'
<1>1. OffsetInside'
  BY Thirds DEF OffsetInside
<1>2. TunedInside'
  <2>1. -Half <= Quarter + theBand'.low /\ Quarter + theBand'.high <= Half
    BY QuarterFits
  <2> QED
    BY <2>1 DEF TunedInside
<1> QED
  BY <1>1, <1>2 DEF IInv

\* setFrequency and everything that ends in it.
LEMMA TunedKeeps == ASSUME IInv, NEW f, Tuned(f) PROVE IInv'
<1>1. theBand' = theBand /\ currentOffset' = Quarter
      /\ hfFilter' = Around(currentOffset', theBand) /\ chosen' = FALSE
  BY DEF Tuned, Quarter
<1>2. theBand' \in Bands \cup {FirstBand}
  BY <1>1 DEF IInv
<1> QED
  BY <1>1, <1>2, AtQuarter

\* adjustFrequency_hz when the band stays away from the edges.
LEMMA MoveKeeps ==
    ASSUME IInv, NEW n \in Int, ~TooFar(n), MovesOffset(n) PROVE IInv'
<1>1. theBand' = theBand /\ currentOffset' = currentOffset + n
      /\ hfFilter' = Around(currentOffset', theBand) /\ chosen' = FALSE
  BY DEF MovesOffset
<1>2. theBand \in Bands \cup {FirstBand} /\ currentOffset \in Int
  BY DEF IInv, OffsetInside
<1>3. theBand.low \in Int /\ theBand.high \in Int
      /\ theBand.low <= 0 /\ 0 <= theBand.high
  BY <1>2, BandAround
<1>4. /\ ~(currentOffset + theBand.high + n >= Half - Margin)
      /\ ~(currentOffset + theBand.low + n <= -Half + Margin)
  BY DEF TooFar, Half, Margin
<1>5. OffsetInside'
  BY <1>1, <1>2, <1>3, <1>4, Thirds DEF OffsetInside
<1>6. TunedInside'
  <2>1. /\ -Half <= currentOffset' + theBand'.low
        /\ currentOffset' + theBand'.high <= Half
    BY <1>1, <1>2, <1>3, <1>4, Thirds
  <2> QED
    BY <2>1 DEF TunedInside
<1> QED
  BY <1>1, <1>2, <1>5, <1>6 DEF IInv

\* setBand: the band may be anywhere, and the offset stays where it was.
LEMMA BandKeeps ==
    ASSUME IInv, NEW s \in DOMAIN Band, SetBand(s) PROVE IInv'
<1>1. theBand' = Band[s] /\ currentOffset' = currentOffset
      /\ hfFilter' = Around(currentOffset, theBand') /\ chosen' = TRUE
  BY DEF SetBand
<1>2. theBand' \in Bands
  BY <1>1 DEF Bands
<1> QED
  BY <1>1, <1>2 DEF IInv, OffsetInside, TunedInside

\* The initial state: the first band at a quarter.
LEMMA InitInside == Init => IInv
<1> SUFFICES ASSUME Init PROVE IInv
  OBVIOUS
<1>1. theBand = FirstBand /\ currentOffset = Quarter /\ chosen = FALSE
      /\ hfFilter = Around(currentOffset, theBand)
  BY DEF Init, Quarter
<1>2. OffsetInside
  BY <1>1, Thirds DEF OffsetInside
<1>3. TunedInside
  <2>1. -Half <= Quarter + theBand.low /\ Quarter + theBand.high <= Half
    BY <1>1, QuarterFits
  <2> QED
    BY <1>1, <2>1 DEF TunedInside
<1> QED
  BY <1>1, <1>2, <1>3 DEF IInv

\* Every operation keeps the invariant.
LEMMA NextInside == IInv /\ [Next]_vars => IInv'
<1> SUFFICES ASSUME IInv, [Next]_vars PROVE IInv'
  OBVIOUS
<1>1. CASE \E f \in Frequencies : SetFrequency(f)
  BY <1>1, TunedKeeps DEF SetFrequency
<1>2. CASE \E n \in Steps : AdjustFrequency_hz(n)
  <2> PICK n \in Steps : AdjustFrequency_hz(n)
    BY <1>2
  <2>0. n \in Int
    BY TuningAssumption
  <2>1. CASE TooFar(n)
    BY <2>1, TunedKeeps DEF AdjustFrequency_hz
  <2>2. CASE ~TooFar(n)
    BY <2>0, <2>2, MoveKeeps DEF AdjustFrequency_hz
  <2> QED
    BY <2>1, <2>2
<1>3. CASE \E s \in DOMAIN Band : SetBand(s)
  BY <1>3, BandKeeps
<1>4. CASE Set_inMiddle
  BY <1>4, TunedKeeps DEF Set_inMiddle
<1>5. CASE Save
  BY <1>5 DEF Save, IInv, OffsetInside, TunedInside, Around
<1>6. CASE \E p \in programs : TableSelect(p)
  BY <1>6, TunedKeeps DEF TableSelect
<1>7. CASE UNCHANGED vars
  BY <1>7 DEF vars, IInv, OffsetInside, TunedInside, Around
<1> QED
  BY <1>1, <1>2, <1>3, <1>4, <1>5, <1>6, <1>7 DEF Next

\* The invariant gives the bound: a band that is not wide reaches no further
\* than the margin that the offset keeps.
LEMMA InsideIsIn == IInv => InBandwidth
<1> SUFFICES ASSUME IInv, ~(Wide(theBand) /\ chosen)
             PROVE  -Half <= hfFilter.low /\ hfFilter.high <= Half
  BY DEF InBandwidth, Half
<1>1. hfFilter.low = currentOffset + theBand.low
      /\ hfFilter.high = currentOffset + theBand.high
  BY DEF IInv, Around
<1>2. CASE ~chosen
  BY <1>1, <1>2 DEF IInv, TunedInside
<1>3. CASE chosen
  <2>1. theBand \in Bands /\ ~Wide(theBand)
    BY <1>3 DEF IInv
  <2>2. theBand.high <= Margin /\ -theBand.low <= Margin
        /\ theBand.low \in Int /\ theBand.high \in Int
    BY <2>1, TuningAssumption, BandAround DEF Margin
  <2> QED
    BY <1>1, <2>2, Thirds DEF IInv, OffsetInside
<1> QED
  BY <1>2, <1>3

\* What passes the filter is inside of the device's bandwidth, whatever bands
\* are chosen and whatever clicked in between, but for a wide band between its
\* choice and the next tuning (radio.cpp, setBand and adjustFrequency_hz).
THEOREM FilterInBandwidth == Spec => []InBandwidth
<1>1. Init => IInv
  BY InitInside
<1>2. IInv /\ [Next]_vars => IInv'
  BY NextInside
<1>3. IInv => InBandwidth
  BY InsideIsIn
<1> QED
  BY <1>1, <1>2, <1>3, PTL DEF Spec

-----------------------------------------------------------------------------
(* Remainders, and the two conversions.                                    *)

\* Division with remainder.
LEMMA DivMod ==
    ASSUME NEW n \in Nat \ {0}, NEW x \in Int
    PROVE  /\ x \div n \in Int /\ (x % n) \in 0..(n - 1)
           /\ x = n * (x \div n) + (x % n)
BY SMTT(30)

\* The remainder is the only one.
LEMMA ModUnique ==
    ASSUME NEW n \in Nat \ {0}, NEW k \in Int, NEW r \in 0..(n - 1)
    PROVE  ((k * n + r) % n) = r
<1> DEFINE x == k * n + r
           q == x \div n
           m == x % n
<1>1. x \in Int /\ q \in Int /\ m \in 0..(n - 1) /\ x = n * q + m
  <2>1. k * n \in Int /\ r \in Int
    OBVIOUS
  <2>2. x \in Int
    BY <2>1
  <2> QED
    BY <2>2, DivMod
<1>2. (k - q) * n = m - r
  <2>1. n * q = q * n
    BY <1>1
  <2>2. (k - q) * n = k * n - q * n
    BY <1>1
  <2>3. x = k * n + r
    OBVIOUS
  <2> HIDE DEF q, m, x
  <2> QED
    BY <1>1, <2>1, <2>2, <2>3
<1>3. x % n = m
  OBVIOUS
<1> HIDE DEF q, m
<1>4. CASE k - q >= 1
  <2>1. (k - q) * n >= n
    BY <1>1, <1>4
  <2> QED
    BY <1>1, <1>2, <2>1
<1>5. CASE k - q <= -1
  <2>1. (k - q) * n <= -n
    BY <1>1, <1>5
  <2> QED
    BY <1>1, <1>2, <2>1
<1>6. CASE k - q = 0
  BY <1>1, <1>2, <1>3, <1>6
<1> QED
  BY <1>1, <1>4, <1>5, <1>6

\* Numbers that differ by a multiple have the same remainder.
LEMMA ModSame ==
    ASSUME NEW n \in Nat \ {0}, NEW x \in Int, NEW k \in Int
    PROVE  ((x + k * n) % n) = (x % n)
<1>1. PICK q \in Int, r \in 0..(n - 1) : x = n * q + r /\ r = (x % n)
  BY DivMod
<1>2. x + k * n = (q + k) * n + r
  BY <1>1
<1>3. q + k \in Int
  BY <1>1
<1> QED
  BY <1>1, <1>2, <1>3, ModUnique

\* A small number is its own remainder.
LEMMA ModSmall ==
    ASSUME NEW n \in Nat \ {0}, NEW r \in 0..(n - 1)
    PROVE  (r % n) = r
<1>1. 0 * n + r = r
  OBVIOUS
<1> QED
  BY <1>1, ModUnique

\* The shorter word is even, and the longer one a multiple of it.
LEMMA Words ==
    /\ Word32 \in Nat \ {0} /\ Word64 \in Nat \ {0}
    /\ Word32 \div 2 \in Nat /\ Word32 = 2 * (Word32 \div 2)
    /\ \E m \in Nat \ {0} : Word64 = m * Word32
    /\ Word32 <= Word64
<1>1. Word32 \in Nat \ {0} /\ Word64 \in Nat \ {0}
      /\ Word32 % 2 = 0 /\ Word64 % Word32 = 0
  BY TuningAssumption
<1>2. Word32 \div 2 \in Nat /\ Word32 = 2 * (Word32 \div 2)
  BY <1>1, SMTT(30)
<1>3. PICK m \in Int : Word64 = Word32 * m
  <2>1. Word64 = Word32 * (Word64 \div Word32) + (Word64 % Word32)
        /\ Word64 \div Word32 \in Int
    BY <1>1, DivMod
  <2> QED
    BY <1>1, <2>1
<1>4. m >= 1
  <2>1. CASE m <= 0
    <3>1. Word32 * m <= 0
      BY <1>1, <2>1
    <3> QED
      BY <1>1, <1>3, <3>1
  <2> QED
    BY <2>1
<1>5. Word64 = m * Word32 /\ Word64 >= Word32
  BY <1>1, <1>3, <1>4
<1> QED
  BY <1>1, <1>2, <1>4, <1>5

\* A conversion to 64 bits changes a number by a multiple of 2^32.
LEMMA To64 ==
    ASSUME NEW x \in Int
    PROVE  /\ Unsigned64(x) \in 0..(Word64 - 1)
           /\ \E k \in Int : Unsigned64(x) = x + k * Word32
<1>1. PICK m \in Nat \ {0} : Word64 = m * Word32
  BY Words
<1>2. Unsigned64(x) = (x % Word64)
  BY DEF Unsigned64
<1>3. PICK q \in Int, r \in 0..(Word64 - 1) : x = Word64 * q + r /\ r = (x % Word64)
  BY Words, DivMod
<1>4. r = x + (-(m * q)) * Word32
  <2>1. (m * Word32) * q = (m * q) * Word32
    BY Words, <1>1, <1>3
  <2>2. m * q \in Int
    BY <1>1, <1>3
  <2>3. (-(m * q)) * Word32 = -((m * q) * Word32)
    BY Words, <2>2
  <2>4. (m * q) * Word32 \in Int /\ x = (m * q) * Word32 + r /\ r \in Int
    BY Words, <1>1, <1>3, <2>1, <2>2
  <2> QED
    BY <2>3, <2>4
<1>5. -(m * q) \in Int
  BY <1>1, <1>3
<1> QED
  BY <1>2, <1>3, <1>4, <1>5

\* So does one to 32 bits, with a sign.
LEMMA To32 ==
    ASSUME NEW x \in Int
    PROVE  /\ Signed32(x) \in Int
           /\ \E k \in Int : Signed32(x) = x + k * Word32
<1>1. PICK q \in Int, r \in 0..(Word32 - 1) : x = Word32 * q + r /\ r = (x % Word32)
  BY Words, DivMod
<1>2. r = x + (-q) * Word32 /\ r - Word32 = x + (-q - 1) * Word32
  BY Words, <1>1
<1>3. Signed32(x) = r \/ Signed32(x) = r - Word32
  BY <1>1 DEF Signed32
<1>4. -q \in Int /\ -q - 1 \in Int /\ r \in Int /\ r - Word32 \in Int
  BY Words, <1>1
<1> QED
  BY <1>2, <1>3, <1>4

\* A number of 31 bits is left alone by all of them.
LEMMA Small ==
    ASSUME NEW x \in Nat, x < Word32 \div 2
    PROVE  Signed32(x) = x /\ Unsigned64(x) = x
<1>1. x \in 0..(Word32 - 1) /\ x \in 0..(Word64 - 1)
  BY Words
<1>2. (x % Word32) = x /\ (x % Word64) = x
  BY <1>1, Words, ModSmall
<1>3. ~(x >= Word32 \div 2)
  BY Words
<1> QED
  BY <1>2, <1>3 DEF Signed32, Unsigned64

\* The conversion to 32 bits does not see multiples of 2^32.
LEMMA Same32 ==
    ASSUME NEW x \in Int, NEW k \in Int
    PROVE  Signed32(x + k * Word32) = Signed32(x)
BY ModSame, Words DEF Signed32

-----------------------------------------------------------------------------
(* What is shown, and what is saved.                                       *)

\* The number the receiver keeps differs from where it is by a multiple of
\* 2^32, and what it displays is exact up to 31 bits, unless refused.
Agrees ==
    ~refused =>
        /\ \E k \in Int : theFrequency - vfo - currentOffset = k * Word32
        /\ Here < Word32 \div 2 => display = Here

\* A saved program is the number of kHz of where the receiver was.
SavedTrue ==
    \A p \in programs :
        p.at \in 0..(Word64 - 1) /\ p.khz = ToKhz(Signed32(p.at))

FInv ==
    /\ vfo \in Int /\ currentOffset \in Int /\ theFrequency \in Int
    /\ Agrees
    /\ SavedTrue

\* Whole kHz are integers.
LEMMA KhzInt == ASSUME NEW f \in Int PROVE ToKhz(f) \in Int
<1>1. kHz \in Nat \ {0}
  BY TuningAssumption
<1>2. f \div kHz \in Int /\ (-f) \div kHz \in Int
  BY <1>1, DivMod
<1> QED
  BY <1>2 DEF ToKhz

\* setFrequency: both the device's and the kept frequency are those asked for.
LEMMA TunedAgrees == ASSUME FInv, NEW f \in Int, Tuned(f) PROVE FInv'
<1>1. Quarter \in Nat
  BY Thirds
<1>2. currentOffset' = Quarter /\ theFrequency' = Signed32(f)
      /\ display' = Unsigned64(f) /\ programs' = programs
  BY DEF Tuned, Quarter
<1>3. theFrequency' \in Int /\ currentOffset' \in Int
  BY <1>1, <1>2, To32
<1>4. SavedTrue'
  BY <1>2 DEF FInv, SavedTrue
<1>5. CASE vfo' = Unsigned64(f - Quarter) /\ refused' = FALSE
  <2>1. f - Quarter \in Int
    BY <1>1
  <2>2. PICK i \in Int : vfo' = f - Quarter + i * Word32
    BY <1>5, <2>1, To64
  <2>3. PICK j \in Int : theFrequency' = f + j * Word32
    BY <1>2, To32
  <2>4. vfo' \in Int
    BY <1>5, <2>1, To64, Words
  <2>5. theFrequency' - vfo' - currentOffset' = (j - i) * Word32
    <3>1. (j - i) * Word32 = j * Word32 - i * Word32
          /\ j * Word32 \in Int /\ i * Word32 \in Int
      BY Words, <2>2, <2>3
    <3> QED
      BY <1>1, <1>2, <2>2, <2>3, <3>1
  <2>6. Here' = display'
    <3>1. PICK q \in Int, r \in 0..(Word64 - 1) :
              f - Quarter = Word64 * q + r /\ r = ((f - Quarter) % Word64)
      BY <2>1, Words, DivMod
    <3>2. vfo' = r
      BY <1>5, <3>1 DEF Unsigned64
    <3>3. vfo' + currentOffset' = f + (-q) * Word64
      BY <1>1, <1>2, <3>1, <3>2, Words
    <3>4. ((f + (-q) * Word64) % Word64) = (f % Word64)
      <4>1. -q \in Int /\ Word64 \in Nat \ {0}
        BY <3>1, Words
      <4> QED
        BY <4>1, ModSame
    <3> QED
      BY <1>2, <3>3, <3>4 DEF Here, Unsigned64
  <2>7. j - i \in Int
    OBVIOUS
  <2>8. Agrees'
    BY <2>5, <2>6, <2>7 DEF Agrees
  <2> QED
    BY <1>3, <1>4, <2>4, <2>8 DEF FInv
<1>6. CASE vfo' = vfo /\ refused' = TRUE
  BY <1>3, <1>4, <1>6 DEF FInv, Agrees
<1> QED
  BY <1>5, <1>6 DEF Tuned, Quarter

\* adjustFrequency_hz when the band stays away from the edges.
LEMMA MoveAgrees ==
    ASSUME FInv, NEW n \in Int, MovesOffset(n) PROVE FInv'
<1>1. currentOffset' = currentOffset + n /\ vfo' = vfo
      /\ theFrequency' = Signed32(vfo + currentOffset')
      /\ display' = Unsigned64(theFrequency') /\ programs' = programs
  BY DEF MovesOffset
<1>2. currentOffset' \in Int /\ vfo' \in Int /\ vfo + currentOffset' \in Int
  BY <1>1 DEF FInv
<1>3. PICK k \in Int : theFrequency' = vfo + currentOffset' + k * Word32
  BY <1>1, <1>2, To32
<1>4. theFrequency' \in Int
  BY <1>1, <1>2, To32
<1>5. theFrequency' - vfo' - currentOffset' = k * Word32
  <2>1. k * Word32 \in Int
    BY Words
  <2> QED
    BY <1>1, <1>2, <1>3, <1>4, <2>1
<1>6. ASSUME Here' < Word32 \div 2 PROVE display' = Here'
  <2>1. Here' = Unsigned64(vfo + currentOffset')
    BY <1>1 DEF Here
  <2>2. Here' \in Nat
    BY <1>2, <2>1, To64, Words
  <2>3. PICK j \in Int : Here' = vfo + currentOffset' + j * Word32
    BY <1>2, <2>1, To64
  <2>4. Signed32(vfo + currentOffset') = Signed32(Here')
    BY <1>2, <2>3, Same32
  <2> QED
    BY <1>1, <1>6, <2>2, <2>4, Small
<1>7. Agrees'
  BY <1>5, <1>6 DEF Agrees
<1>8. SavedTrue'
  BY <1>1 DEF FInv, SavedTrue
<1> QED
  BY <1>2, <1>4, <1>7, <1>8 DEF FInv

\* The initial state is one the device has not confirmed.
LEMMA InitAgrees == Init => FInv
<1> SUFFICES ASSUME Init PROVE FInv
  OBVIOUS
<1>1. PICK f \in Frequencies : vfo = Unsigned64(f)
  BY DEF Init
<1>2. PICK g \in Frequencies : theFrequency = Signed32(g)
  BY DEF Init
<1>3. f \in Int /\ g \in Int
  BY TuningAssumption
<1>4. vfo \in Int
  BY <1>1, <1>3, To64, Words
<1>5. theFrequency \in Int
  BY <1>2, <1>3, To32
<1>6. currentOffset \in Int
  BY Thirds DEF Init, Quarter
<1>7. Agrees
  BY DEF Init, Agrees
<1>8. SavedTrue
  BY DEF Init, SavedTrue
<1> QED
  BY <1>4, <1>5, <1>6, <1>7, <1>8 DEF FInv

\* Every operation keeps it.
LEMMA NextAgrees == FInv /\ [Next]_vars => FInv'
<1> SUFFICES ASSUME FInv, [Next]_vars PROVE FInv'
  OBVIOUS
<1>0. vfo \in Int /\ currentOffset \in Int
  BY DEF FInv
<1>1. CASE \E f \in Frequencies : SetFrequency(f)
  BY <1>1, TunedAgrees, TuningAssumption DEF SetFrequency
<1>2. CASE \E n \in Steps : AdjustFrequency_hz(n)
  <2> PICK n \in Steps : AdjustFrequency_hz(n)
    BY <1>2
  <2>0. n \in Int
    BY TuningAssumption
  <2>1. CASE TooFar(n)
    <3>1. vfo + currentOffset + n \in Int
      BY <1>0, <2>0
    <3>2. Unsigned64(vfo + currentOffset + n) \in Int
      BY <3>1, To64, Words
    <3> QED
      BY <2>1, <3>2, TunedAgrees DEF AdjustFrequency_hz
  <2>2. CASE ~TooFar(n)
    BY <2>0, <2>2, MoveAgrees DEF AdjustFrequency_hz
  <2> QED
    BY <2>1, <2>2
<1>3. CASE \E s \in DOMAIN Band : SetBand(s)
  BY <1>3 DEF SetBand, FInv, Agrees, SavedTrue, Here
<1>4. CASE Set_inMiddle
  <2>1. vfo + currentOffset \in Int
    BY <1>0
  <2>2. Unsigned64(vfo + currentOffset) \in Int
    BY <2>1, To64, Words
  <2> QED
    BY <1>4, <2>2, TunedAgrees DEF Set_inMiddle
<1>5. CASE Save
  <2>1. vfo' = vfo /\ currentOffset' = currentOffset
        /\ theFrequency' = theFrequency /\ display' = display
        /\ refused' = refused
        /\ programs' = programs \cup {[khz |-> ToKhz(Signed32(Here)), at |-> Here]}
    BY <1>5 DEF Save
  <2>2. Agrees'
    BY <2>1 DEF FInv, Agrees, Here
  <2>3. Here \in 0..(Word64 - 1)
    <3>1. vfo + currentOffset \in Int
      BY <1>0
    <3> QED
      BY <3>1, To64 DEF Here
  <2>4. SavedTrue'
    BY <2>1, <2>3 DEF FInv, SavedTrue
  <2> QED
    BY <2>1, <2>2, <2>4 DEF FInv
<1>6. CASE \E p \in programs : TableSelect(p)
  <2> PICK p \in programs : TableSelect(p)
    BY <1>6
  <2>1. p.at \in 0..(Word64 - 1) /\ p.khz = ToKhz(Signed32(p.at))
    BY DEF FInv, SavedTrue
  <2>2. p.at \in Int
    BY <2>1, Words
  <2>3. p.khz \in Int
    BY <2>1, <2>2, To32, KhzInt
  <2>4. p.khz * kHz \in Int
    BY <2>3, TuningAssumption
  <2>5. Unsigned64(Signed32(p.khz * kHz)) \in Int
    BY <2>4, To32, To64, Words
  <2> QED
    BY <2>5, TunedAgrees DEF TableSelect
<1>7. CASE UNCHANGED vars
  BY <1>7 DEF vars, FInv, Agrees, SavedTrue, Here
<1> QED
  BY <1>1, <1>2, <1>3, <1>4, <1>5, <1>6, <1>7 DEF Next

\* What the receiver believes, and reports to others, is where it is, modulo
\* 2^32, unless the device refused (radio.cpp, setFrequency and
\* adjustFrequency_hz).
THEOREM BelievedIsTrue == Spec => []FrequencyTrue
<1>1. Init => FInv
  BY InitAgrees
<1>2. FInv /\ [Next]_vars => FInv'
  BY NextAgrees
<1>3. FInv => FrequencyTrue
  <2> SUFFICES ASSUME FInv, ~refused
               PROVE  /\ ((theFrequency - vfo - currentOffset) % Word32) = 0
                      /\ Here < Word32 \div 2 => display = Here
    BY DEF FrequencyTrue
  <2>1. PICK k \in Int : theFrequency - vfo - currentOffset = k * Word32
    BY DEF FInv, Agrees
  <2>2. 0 \in 0..(Word32 - 1) /\ k * Word32 + 0 = k * Word32
    BY Words
  <2>3. ((k * Word32 + 0) % Word32) = 0
    BY <2>2, Words, ModUnique
  <2> QED
    BY <2>1, <2>2, <2>3 DEF FInv, Agrees
<1> QED
  BY <1>1, <1>2, <1>3, PTL DEF Spec

\* The number of kHz of a frequency of 31 bits, times 1000, is at most that
\* frequency, and less than 1000 below it.
LEMMA KhzNear ==
    ASSUME NEW p, p.at \in Nat, p.at < Word32 \div 2,
           p.khz = ToKhz(Signed32(p.at))
    PROVE  /\ p.khz * kHz \in Nat
           /\ p.khz * kHz <= p.at /\ p.at < p.khz * kHz + kHz
<1>1. kHz \in Nat \ {0}
  BY TuningAssumption
<1>2. Signed32(p.at) = p.at
  BY Small
<1>3. p.khz = p.at \div kHz
  BY <1>2 DEF ToKhz
<1>4. PICK q \in Int, r \in 0..(kHz - 1) :
          p.at = kHz * q + r /\ q = p.at \div kHz
  <2> DEFINE x == p.at
  <2>1. x \in Int
    OBVIOUS
  <2> HIDE DEF x
  <2>2. x \div kHz \in Int /\ (x % kHz) \in 0..(kHz - 1)
        /\ x = kHz * (x \div kHz) + (x % kHz)
    BY <1>1, <2>1, DivMod
  <2>3. \E q \in Int, r \in 0..(kHz - 1) : x = kHz * q + r /\ q = x \div kHz
    BY <2>2
  <2> QED
    BY <2>3 DEF x
<1>5. q >= 0
  <2>1. CASE q <= -1
    <3>1. kHz * q <= -kHz
      BY <1>1, <2>1
    <3> QED
      BY <1>1, <1>4, <3>1
  <2> QED
    BY <2>1
<1>6. p.khz * kHz = kHz * q
  BY <1>1, <1>3, <1>4
<1>7. kHz * q \in Nat
  BY <1>1, <1>4, <1>5
<1> QED
  BY <1>1, <1>4, <1>6, <1>7

\* A program that is selected tunes to within a kHz of where it was saved, as
\* long as that frequency has 31 bits (radio.cpp, handle_myLine, and
\* program-list.cpp, tableSelect).
THEOREM ProgramsComeBack == Spec => ComesBack
<1>1. Init => FInv
  BY InitAgrees
<1>2. FInv /\ [Next]_vars => FInv'
  BY NextAgrees
<1>3. FInv /\ [Next]_vars =>
          [\A p \in programs :
              TableSelect(p) /\ p.at < Word32 \div 2 =>
                  theFrequency' <= p.at /\ p.at < theFrequency' + kHz]_vars
  <2> SUFFICES ASSUME FInv, NEW p \in programs, TableSelect(p),
                      p.at < Word32 \div 2
               PROVE  theFrequency' <= p.at /\ p.at < theFrequency' + kHz
    OBVIOUS
  <2>1. p.at \in Nat /\ p.khz = ToKhz(Signed32(p.at))
    BY DEF FInv, SavedTrue
  <2>2. p.khz * kHz \in Nat /\ p.khz * kHz < Word32 \div 2
        /\ p.khz * kHz <= p.at /\ p.at < p.khz * kHz + kHz
    BY <2>1, KhzNear, Words
  <2>3. Signed32(p.khz * kHz) = p.khz * kHz
        /\ Unsigned64(p.khz * kHz) = p.khz * kHz
    BY <2>2, Small
  <2>4. theFrequency' = Signed32(Unsigned64(Signed32(p.khz * kHz)))
    BY DEF TableSelect, Tuned
  <2> QED
    BY <2>2, <2>3, <2>4
<1> QED
  BY <1>1, <1>2, <1>3, PTL DEF Spec, ComesBack
=============================================================================
