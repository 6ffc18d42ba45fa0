----------------------------- MODULE MCDecoders -----------------------------
(* One transmission of each kind at a time, every decoder in turn.         *)
EXTENDS Decoders

\* amtor: short messages, and one between ZCZC and NNNN, which is ZZCZC when its
\* first word is changed into a Z.
AmtorMessagesMC ==
    {<<<<codeA, codeC>>, <<digit, codeA, codeN>>>>,
     <<<<codeA, codeZ, codeC, codeZ, codeC, codeN, codeN, codeN, codeN>>, <<digit, codeC>>>>}
AmtorSkewsMC == {-1, 1}
AmtorHitsMC == {codeZ}

\* rtty: each kind of parity and of stop, a sender of another parity, and a message
\* that is longer than half a bit has samples.
FormatFrom(q, n, p, s, m) ==
    [rttyNbits |-> n, rttyParity |-> p, rttyStopbits |-> s, rttyMsb |-> m,
     sends |-> q]
Format(n, p, s, m) ==
    FormatFrom(CASE p = "EVEN" -> "ODD" [] p = "ODD" -> "EVEN" [] OTHER -> p,
               n, p, s, m)
RttyFormatsMC ==
    {Format(5, "NONE", 1, FALSE), Format(5, "NONE", 2, TRUE),
     Format(8, "EVEN", 1, FALSE), Format(8, "ODD", 3, TRUE),
     Format(8, "ZERO", 1, FALSE),
     Format(5, "ONE", 2, FALSE), FormatFrom("EVEN", 8, "EVEN", 1, FALSE)}
capA == <<1, 0, 0, 0, 0, 0, 1, 0>>
capE == <<1, 0, 1, 0, 0, 0, 1, 0>>
RttySkewsMC == {-1, 0, 1}
RttyMessagesMC ==
    [n \in {5, 8} |->
        IF n = 5 THEN {<<LTRS, charA, FIGS, charE>>, <<FIGS, charA, SPACE, charE>>,
                          <<LTRS, charE, charA, FIGS, charA, charE, LTRS>>}
        ELSE {<<capA, capE, capA>>}]

\* acars: blocks of the least length, longer ones and the longest; one, two and
\* three bytes that come wrong, the end of a block among them, or two bits of one,
\* or the one in front of the block.
byteA == {0, 6, 7}
byteB == {0, 4, 5}
AcarsMessagesMC ==
    {<<<<byteA, byteB, STX, byteB, ETX>>, <<byteB, byteA, ETX>>,
       <<byteA, byteA, STX, ETB>>>>,
     <<<<byteB, STX, ETX>>, <<byteA, byteA, STX, byteA, ETX>>>>,
     <<<<byteA, byteB, STX, byteB, byteA, byteA, byteB, byteA, byteB, ETX>>>>}
Wrong(k, b) == [msg |-> 1, byte |-> k, bit |-> b]
AcarsHitsMC ==
    {{}, {Wrong(0, 1)}, {Wrong(2, 7)}, {Wrong(2, 0), Wrong(2, 3)},
     {Wrong(1, 0), Wrong(2, 1), Wrong(5, 5)}}
    \cup {{Wrong(k, 0)} : k \in {1, 2, 4, 5, 6}}
    \cup {{Wrong(j, 0), Wrong(4, 1)} : j \in {1, 3}}

\* cw: senders that are slower or faster than what is set, also too slow or too
\* fast, and two speeds that the user may set.  A noise at the end of a pause or at
\* its beginning, between the dots and between letters.
CwSpeedsMC == [set : {12}, dot : {8, 9, 12, 16, 17}]
              \cup [set : {9}, dot : {7, 8, 14}]
              \cup [set : {15}, dot : {10, 11, 18}]
Spike(silence, before) == [silence |-> silence, before |-> before]
CwSpikesMC == {Spike(0, 0), Spike(7, 3), Spike(7, 40), Spike(1, 3), Spike(3, 5)}
CwTextsMC == {<<<<"K", "A">>, <<"N", "E">>>>, <<<<"E">>, <<"T", "A", "K">>>>}

\* psk: two texts with symbols to follow, and one that ends at once.
PskShort == <<<<"t", "e">>>>
PskMessagesMC ==
    {<<<<"t", "e", "a">>, <<"o", "t">>>>, <<<<"e", "o", "e">>, <<"a">>>>, PskShort}
PskTrailerMC == [ms \in PskMessagesMC |-> IF ms = PskShort THEN 4 ELSE 40]
=============================================================================
