------------------------------ MODULE Decoders ------------------------------
(***************************************************************************)
(* The decoders that turn samples into text, as selectDecoder makes one of *)
(* them: amtor, rtty, acars, cw and psk.  Each is behind the interface      *)
(* virtualDecoder and promises the user the same: that the text that is    *)
(* shown is the text that was sent, from whatever moment on it listens and *)
(* as far as the code of the transmission can tell what came wrong.        *)
(***************************************************************************)
EXTENDS AmtorDecoder, RttyDecoder, AcarsDecoder, CwDecoder, PskDecoder

VARIABLE selected      \* in the list of decoders

decoderVars == <<selected, amtorVars, rttyVars, acarsVars, cwVars, pskVars>>

\* What is not selected is not made: its state is one of its initial states.
Selects(d, notMade) == selected = d \/ notMade
First(S) == CHOOSE x \in S : TRUE
Init ==
    /\ selected \in {"amtor", "rtty", "acars", "cw", "psk"}
    /\ AmtorInit
    /\ Selects("amtor", /\ amtorHit = AmtorNoHit /\ amtorSkew = AmtorNoSkew
                        /\ amtorBit = 1 /\ ~showAlways
                        /\ amtorMsgs = First(AmtorMessages))
    /\ RttyInit
    /\ Selects("rtty", /\ rttyHit = RttyNoHit /\ rttySkew = RttyNoSkew
                       /\ rttyBit = 1 /\ rttyRxmode = "LETS"
                       /\ rttyFormat = First(RttyFormats)
                       /\ rttyMessage = First(RttyMessages[NBits]))
    /\ AcarsInit
    /\ Selects("acars", /\ acarsHit = {} /\ ~inverted /\ acarsBit = 0
                        /\ acarsMsgs = First(AcarsMessages))
    /\ CwInit
    /\ Selects("cw", /\ cwSender = First(CwSpeeds) /\ cwMessage = First(CwTexts)
                     /\ cwSpike = First(CwSpikes) /\ ~cwTracking
                     /\ lengthofPreviousTone = First(CwMemory))
    /\ PskInit
    /\ Selects("psk", /\ pskHit = PskNoHit /\ ~isQuadpskMode
                      /\ pskMsgs = First(PskMessages))

\* A step of the decoder that is selected.
Of(d, others) == selected = d /\ UNCHANGED <<selected, others>>
OfAcars == Of("acars", <<amtorVars, rttyVars, cwVars, pskVars>>)

Next ==
    \/ AmtorNext /\ Of("amtor", <<rttyVars, acarsVars, cwVars, pskVars>>)
    \/ RttyNext /\ Of("rtty", <<amtorVars, acarsVars, cwVars, pskVars>>)
    \/ AcarsNext /\ OfAcars
    \/ CwNext /\ Of("cw", <<amtorVars, rttyVars, acarsVars, pskVars>>)
    \/ PskNext /\ Of("psk", <<amtorVars, rttyVars, acarsVars, cwVars>>)

\* The printer of the acars decoder is scheduled, and the gui thread goes on
\* when what it waits for is there.
Spec == /\ Init /\ [][Next]_decoderVars
        /\ WF_decoderVars(Printer /\ OfAcars)
        /\ WF_decoderVars((OutputMsg \/ PrinterJoined) /\ OfAcars)

-----------------------------------------------------------------------------
(* Properties                                                              *)

\* Everything that was sent is shown, once and in its order: whenever the
\* decoder begins to listen, with a sender whose clock or speed is a little
\* off, with a word, bit or symbol that comes wrong, and, in acars, with a
\* printer that takes the messages later.  Each decoder does so on a condition
\* of its own, which its module states: showAlways \/ ZczcSeen, ParityAgrees and
\* RttyKeepsUp, AcarsTold and SyndromHolds, CwFollows and not cwDisturbed, and
\* PskFlushed.
TextTrue == CASE selected = "amtor" -> AmtorTrue
              [] selected = "rtty" -> RttyTrue
              [] selected = "acars" -> AcarsTrue
              [] selected = "cw" -> CwTrue
              [] selected = "psk" -> PskTrue

\* No register, counter, queue or buffer of a decoder leaves its range: the
\* code indexes arrays of fixed length with them and checks few of them.
BuffersHold == CASE selected = "amtor" -> AmtorTypeOK
                 [] selected = "rtty" -> RttyTypeOK
                 [] selected = "acars" -> AcarsTypeOK
                 [] selected = "cw" -> CwTypeOK
                 [] selected = "psk" -> PskTypeOK

\* A message gets its place in the ring of the printer, and the decoder is
\* deleted once its thread has ended, unless that thread began after the
\* destructor had stopped it.
PrinterReturns ==
    acarsGpc \in {"waits", "join"} ~> (acarsGpc \in {"runs", "deleted"} \/ printerLate)
=============================================================================
