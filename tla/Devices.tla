------------------------------ MODULE Devices ------------------------------
(***************************************************************************)
(* The devices that the receiver is built upon, as setDevice makes one of  *)
(* them: the user selects a device, its constructor may throw, and then it *)
(* can be selected again.  The wav file, the rtlsdr stick, the hackrf,     *)
(* the rtl_tcp client and the messages of the spyServer client are here;   *)
(* each is behind the interface deviceHandler and promises the receiver    *)
(* the same: that its samples come, that they are those of the signal,     *)
(* that stopReader returns, and that nothing runs and nothing is held when *)
(* it has been deleted.                                                    *)
(***************************************************************************)
EXTENDS Integers, Sequences

CONSTANTS samplesinFile, Block, Spare, FileRing, FileLimit,
          outputRates, StickRing,
          HackrfRing, HackrfLimit, Garbage,
          Frequencies, Gains, DefaultFrequency, StartFrequency, TcpRing, TcpLimit,
          BlockElems, MaxBlocks, MaxCommands, MaxClicks,
          HeaderSize, BodySizes, SpyRing, MaxMessages,
          Cnt, Chunk

\* A file has a frame at least, and a header a byte.
ASSUME DevicesAssumption ==
    /\ samplesinFile \in Nat \ {0} /\ Block \in Nat \ {0}
    /\ Spare \in Nat /\ FileRing \in Nat
    /\ HackrfRing \in Nat /\ HackrfLimit \in Nat /\ Garbage \subseteq Int
    /\ HeaderSize \in Nat \ {0} /\ BodySizes \subseteq Nat /\ SpyRing \in Nat
    /\ Cnt \in Nat /\ Chunk \in Nat \ {0}

VARIABLES
    selected,      \* of the list of devices
    \* the wav file
    F_readerOK, F_converts, F_gpc, F_tpc, F_running, F_resetRequest,
    F_pos, F_bi, F_ring, F_reported, F_closed, F_outrun,
    \* the rtlsdr stick
    R_gpc, R_Handle, R_device, R_open, R_d_filter, R_workerHandle, R_tpc,
    R_async, R_tenth, R_inRing, R_reported, R_early,
    \* the hackrf
    H_gpc, H_Handle, H_initialised, H_theDevice, H_leaked, H_running,
    H_streaming, H_tpc, H_garbage, H_sampleCnt, H_loaded, H_unreported,
    H_inRing, H_reported,
    \* the rtl_tcp client
    T_gone, T_wants, T_readers, T_connected, T_open, T_downFilter,
    T_vfoFrequency, T_theGain, T_toServer, T_server, T_blocks, T_inRing,
    T_crashed,
    \* the spyServer client
    S_sizes, S_wire, S_inBuffer, S_hpc, S_theHeader, S_bodySize, S_filler,
    S_buffer, S_processed, S_damaged

fileVars == <<F_readerOK, F_converts, F_gpc, F_tpc, F_running,
              F_resetRequest, F_pos, F_bi, F_ring, F_reported, F_closed,
              F_outrun>>
stickVars == <<R_gpc, R_Handle, R_device, R_open, R_d_filter,
               R_workerHandle, R_tpc, R_async, R_tenth, R_inRing,
               R_reported, R_early>>
hackrfVars == <<H_gpc, H_Handle, H_initialised, H_theDevice, H_leaked,
                H_running, H_streaming, H_tpc, H_garbage, H_sampleCnt,
                H_loaded, H_unreported, H_inRing, H_reported>>
tcpVars == <<T_gone, T_wants, T_readers, T_connected, T_open, T_downFilter,
             T_vfoFrequency, T_theGain, T_toServer, T_server, T_blocks,
             T_inRing, T_crashed>>
spyVars == <<S_sizes, S_wire, S_inBuffer, S_hpc, S_theHeader, S_bodySize,
             S_filler, S_buffer, S_processed, S_damaged>>
vars == <<selected, fileVars, stickVars, hackrfVars, tcpVars, spyVars>>

F == INSTANCE FileReader WITH RingSize <- FileRing,
     ReportLimit <- FileLimit, readerOK <- F_readerOK,
     converts <- F_converts, gpc <- F_gpc, tpc <- F_tpc,
     running <- F_running, resetRequest <- F_resetRequest, pos <- F_pos,
     bi <- F_bi, ring <- F_ring, reported <- F_reported,
     closed <- F_closed, outrun <- F_outrun
R == INSTANCE Rtlsdr WITH RingSize <- StickRing, gpc <- R_gpc,
     Handle <- R_Handle, device <- R_device, open <- R_open,
     d_filter <- R_d_filter, workerHandle <- R_workerHandle, tpc <- R_tpc,
     async <- R_async, tenth <- R_tenth, inRing <- R_inRing,
     reported <- R_reported, early <- R_early
H == INSTANCE Hackrf WITH ReportLimit <- HackrfLimit,
     RingSize <- HackrfRing, gpc <- H_gpc, Handle <- H_Handle,
     initialised <- H_initialised, theDevice <- H_theDevice,
     leaked <- H_leaked, running <- H_running, streaming <- H_streaming,
     tpc <- H_tpc, garbage <- H_garbage, sampleCnt <- H_sampleCnt,
     loaded <- H_loaded, unreported <- H_unreported, inRing <- H_inRing,
     reported <- H_reported
T == INSTANCE RtlTcp WITH RingSize <- TcpRing, ReportLimit <- TcpLimit,
     gone <- T_gone, wants <- T_wants, readers <- T_readers,
     connected <- T_connected, open <- T_open, downFilter <- T_downFilter,
     vfoFrequency <- T_vfoFrequency, theGain <- T_theGain,
     toServer <- T_toServer, server <- T_server, blocks <- T_blocks,
     inRing <- T_inRing, crashed <- T_crashed
S == INSTANCE SpyFraming WITH Capacity <- SpyRing, sizes <- S_sizes,
     wire <- S_wire, inBuffer <- S_inBuffer, hpc <- S_hpc,
     theHeader <- S_theHeader, bodySize <- S_bodySize, filler <- S_filler,
     buffer <- S_buffer, processed <- S_processed, damaged <- S_damaged

\* What is not selected is not made: its state is one of its initial states.
Selects(d, notMade) == selected = d \/ notMade
Init ==
    /\ selected \in {"wav file", "rtlsdr", "hackrf", "rtl_tcp", "spyServer"}
    /\ F!Init /\ Selects("wav file", ~F_readerOK /\ ~F_converts)
    /\ R!Init /\ Selects("rtlsdr", R_tenth = CHOOSE r \in outputRates : TRUE)
    /\ H!Init /\ Selects("hackrf", H_garbage = CHOOSE g \in Garbage : TRUE)
    /\ T!Init /\ Selects("rtl_tcp", T_theGain = CHOOSE g \in Gains : TRUE)
    /\ S!Init /\ Selects("spyServer", S_bodySize = S!MaxBody)

\* A step A of the device that is selected.
Of(d, A, others) == selected = d /\ A /\ UNCHANGED <<selected, others>>

OfFile(A) == Of("wav file", A, <<stickVars, hackrfVars, tcpVars, spyVars>>)
OfStick(A) == Of("rtlsdr", A, <<fileVars, hackrfVars, tcpVars, spyVars>>)
OfHackrf(A) == Of("hackrf", A, <<fileVars, stickVars, tcpVars, spyVars>>)
OfTcp(A) == Of("rtl_tcp", A, <<fileVars, stickVars, hackrfVars, spyVars>>)
OfSpy(A) == Of("spyServer", A, <<fileVars, stickVars, hackrfVars, tcpVars>>)

Next == OfFile(F!Next) \/ OfStick(R!Next) \/ OfHackrf(H!Next) \/ OfTcp(T!Next)
        \/ OfSpy(S!Next)

\* The fairness that each of the devices assumes.
Fairness ==
    /\ WF_vars(OfFile(F!Gui)) /\ WF_vars(OfFile(F!Runs))
    /\ WF_vars(OfStick(R!Gui)) /\ WF_vars(OfStick(R!Thread))
    /\ WF_vars(OfStick(R!BlockArrives))

Spec == Init /\ [][Next]_vars /\ Fairness

-----------------------------------------------------------------------------
(* Properties                                                              *)

TypeOK == F!TypeOK /\ R!TypeOK /\ H!TypeOK /\ T!TypeOK /\ S!TypeOK

\* A thread of a device, or of its library, uses the file, the ring, the
\* filter and the handle only while they are there, whenever the receiver
\* stops and deletes the device; and a stick or a hackrf that is deleted, and a
\* stick whose constructor throws wherever it fails, leaves nothing in use.
\* Excused are the file's thread that was stopped before it was running, and
\* a hackrf whose constructor throws: it leaves the library, and perhaps the
\* device, in use (hackrf-handler.cpp, 91-135).
HeldWhileUsed ==
    /\ F!UsedWhileOpen /\ R!UsedWhileThere /\ H!UsedWhileThere
    /\ R!NothingHeld /\ H!NothingHeld

\* The samples are those of the signal, each of them once and in time: what is
\* played is the file, and after its end the file again, without a gap; those
\* of a hackrf are reported before too many are there, though sampleCnt is
\* cleared and counted by two threads; those of a server are read once,
\* and are the ones asked for, as a server that is connected follows however often
\* the user connects, disconnects and tunes; those of a SpyServer are found behind
\* their headers, however TCP cuts up the stream.
SamplesTrue ==
    /\ F!NothingDropped /\ F!Continuous /\ F!StartsAgain
    /\ H!ReportsInTime
    /\ T!ReadOnce /\ T!ServerFollows
    /\ S!InStep

\* stopReader returns from its wait for the thread, and until it is called
\* samples keep coming: the file is read on, and those of the stick heard.
GoesOn == F!StopReturns /\ R!StopReturns /\ F!KeepsPlaying /\ R!Heard
=============================================================================
