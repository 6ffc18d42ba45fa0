------------------------------- MODULE MCRtty -------------------------------
(* Sender and decoder are both set to eight bits and even, or odd, parity.  *)
EXTENDS RttyDecoder

Format(p) == [rttyNbits |-> 8, rttyParity |-> p, rttyStopbits |-> 1,
              rttyMsb |-> FALSE, sends |-> p]
RttyFormatsMC == {Format("EVEN"), Format("ODD")}
RttyMessagesMC == [n \in {8} |-> {<<<<1, 0, 0, 0, 0, 0, 1, 0>>>>}]
=============================================================================
