------------------------------- MODULE RtlTcp -------------------------------
(***************************************************************************)
(* The rtl_tcp client (devices/rtl_tcp).  All of it runs on the GUI        *)
(* thread: the buttons connect (wantConnect), which connects returnPressed *)
(* of a line edit to setConnection, and disconnect (setDisconnect); the    *)
(* spin boxes; the tuning of the receiver (setVFOFrequency); and readData, *)
(* a slot of the socket's readyRead, which reads blocks as long as there   *)
(* is more than one, puts them into the ring and calls sampleHandler.      *)
(*                                                                         *)
(* A command is five bytes, and TCP brings them in order.  The server is   *)
(* external: it applies what comes, sends samples, and closes when it      *)
(* likes, which the client does not notice.                                *)
(***************************************************************************)
EXTENDS Integers, Sequences

CONSTANTS Frequencies, Gains,   \* values
          DefaultFrequency,     \* of the client
          StartFrequency,       \* the first one sent: it less theRate / 4
          BlockElems,           \* elements a block of 8192 bytes makes
          RingSize, ReportLimit, Chunk,
          MaxBlocks,            \* bound: blocks in the socket
          MaxCommands,          \* bound: commands on their way
          MaxClicks             \* bound: clicks on connect before a return

VARIABLES
    gone,           \* the client has been deleted
    wants,          \* connections of returnPressed to setConnection
    readers,        \* connections of readyRead to readData
    connected,
    open,           \* the socket is
    downFilter,     \* it exists
    vfoFrequency, theGain,
    toServer,       \* commands on their way
    server,         \* what the server has applied
    blocks,         \* blocks of samples in the socket
    inRing,         \* elements in _I_Buffer
    crashed         \* ghost: readData has used a filter that is not there

ui == <<gone, wants, readers, connected, open, downFilter>>
values == <<vfoFrequency, theGain, toServer, server>>
samples == <<blocks, inRing, crashed>>
vars == <<ui, values, samples>>

AllFrequencies == Frequencies \cup {DefaultFrequency, StartFrequency}
Commands == [cmd : {"frequency"}, param : AllFrequencies]
            \cup [cmd : {"gain"}, param : Gains]
Unset == [frequency |-> DefaultFrequency, gain |-> CHOOSE g \in Gains : TRUE]

TypeOK ==
    /\ gone \in BOOLEAN /\ connected \in BOOLEAN /\ open \in BOOLEAN
    /\ downFilter \in BOOLEAN /\ crashed \in BOOLEAN
    /\ wants \in 0..MaxClicks /\ readers \in Nat
    /\ vfoFrequency \in Frequencies \cup {DefaultFrequency}
    /\ theGain \in Gains
    /\ toServer \in Seq(Commands)
    /\ server \in [frequency : AllFrequencies, gain : Gains]
    /\ blocks \in 0..MaxBlocks /\ inRing \in 0..RingSize

Init ==
    /\ gone = FALSE /\ wants = 0 /\ readers = 0
    /\ connected = FALSE /\ open = FALSE /\ downFilter = FALSE
    /\ vfoFrequency = DefaultFrequency /\ theGain \in Gains
    /\ toServer = <<>> /\ server = Unset
    /\ blocks = 0 /\ inRing = 0 /\ crashed = FALSE

\* A write to a socket that is not open is lost.
Sends(isOpen, commands) ==
    /\ Len(toServer \o commands) <= MaxCommands
    /\ toServer' = IF isOpen THEN toServer \o commands ELSE toServer
Command(c, p) == [cmd |-> c, param |-> p]

-----------------------------------------------------------------------------
(* Buttons, spin boxes and tuning                                          *)

WantConnect ==
    /\ ~gone
    /\ downFilter' = TRUE
    /\ wants' = IF connected THEN wants ELSE wants + 1
    /\ wants' <= MaxClicks
    /\ UNCHANGED <<gone, readers, connected, open, values, samples>>

\* Planted error: the frequency is sent before the default.
ConnectSucceedsSwapped ==
    /\ open' = TRUE
    /\ connected' = TRUE
    /\ toServer' = <<Command("gain", theGain), Command("frequency", vfoFrequency),
                     Command("frequency", StartFrequency)>>
    /\ readers' = readers + 1
    /\ server' = Unset /\ blocks' = 0

\* The gain, the frequency every connection starts with, and in restartReader
\* the one the client is tuned to.
ConnectSucceeds ==
    /\ open' = TRUE
    /\ connected' = TRUE
    /\ toServer' = <<Command("gain", theGain), Command("frequency", StartFrequency),
                     Command("frequency", vfoFrequency)>>
    /\ readers' = readers + 1
    /\ server' = Unset /\ blocks' = 0

\* Return is pressed: the first of the calls takes back all connections.
SetConnection ==
    /\ ~gone
    /\ wants > 0
    /\ wants' = 0
    /\ \/ ConnectSucceeds
       \/ UNCHANGED <<open, connected, toServer, readers, server, blocks>>
    /\ UNCHANGED <<gone, downFilter, vfoFrequency, theGain, inRing, crashed>>

SetVFOFrequency(f) ==
    /\ ~gone
    /\ connected
    /\ vfoFrequency' = f
    /\ Sends(open, <<Command("frequency", f)>>)
    /\ UNCHANGED <<ui, theGain, server, samples>>

SendGain(g) ==
    /\ ~gone
    /\ theGain' = g
    /\ Sends(open, <<Command("gain", g)>>)
    /\ UNCHANGED <<ui, vfoFrequency, server, samples>>

\* The selector is hidden by the first click on connect.
HandleRateSelector ==
    /\ ~gone
    /\ ~downFilter
    /\ downFilter' = TRUE
    /\ UNCHANGED <<gone, wants, readers, connected, open, values, samples>>

\* stopReader takes back all connections of readyRead.
StopReader == readers' = IF connected THEN 0 ELSE readers

SetDisconnect ==
    /\ ~gone
    /\ StopReader
    /\ open' = (open /\ ~connected)
    /\ connected' = FALSE
    /\ blocks' = IF connected THEN 0 ELSE blocks
    /\ toServer' = IF connected THEN <<>> ELSE toServer
    /\ UNCHANGED <<gone, wants, downFilter, vfoFrequency, theGain, server,
                   inRing, crashed>>

\* handle_quitButton, with the destructor.
Quit ==
    /\ ~gone
    /\ gone' = TRUE
    /\ downFilter' = FALSE
    /\ StopReader
    /\ open' = FALSE /\ wants' = 0 /\ blocks' = 0 /\ toServer' = <<>>
    /\ UNCHANGED <<connected, vfoFrequency, theGain, server, inRing, crashed>>

-----------------------------------------------------------------------------
(* Data and server                                                         *)

\* The loop leaves a last block, and what has come of the next, in the socket.
BlocksRead == IF blocks = 0 THEN 0 ELSE blocks - 1

\* readData, with the sampleHandler that it calls: what does not fit into the
\* ring is dropped.
ReadData ==
    /\ readers > 0
    /\ BlocksRead > 0
    /\ blocks' = blocks - BlocksRead
    /\ crashed' = (crashed \/ ~downFilter)
    /\ LET put == inRing + BlocksRead * BlockElems
           all == IF put > RingSize THEN RingSize ELSE put
       IN  inRing' = IF all > ReportLimit /\ all > Chunk
                     THEN all - ((all - 1) \div Chunk) * Chunk ELSE all
    /\ UNCHANGED <<ui, values>>

ServerSends ==
    /\ open
    /\ blocks < MaxBlocks
    /\ blocks' = blocks + 1
    /\ UNCHANGED <<ui, values, inRing, crashed>>

ServerApplies ==
    /\ open
    /\ toServer # <<>>
    /\ LET c == Head(toServer)
       IN  server' = [server EXCEPT ![c.cmd] = c.param]
    /\ toServer' = Tail(toServer)
    /\ UNCHANGED <<ui, vfoFrequency, theGain, samples>>

ServerCloses ==
    /\ open
    /\ open' = FALSE
    /\ toServer' = <<>>
    /\ UNCHANGED <<gone, wants, readers, connected, downFilter, vfoFrequency,
                   theGain, server, samples>>

Next ==
    \/ WantConnect \/ SetConnection \/ SetDisconnect \/ HandleRateSelector
    \/ Quit \/ ReadData \/ ServerSends \/ ServerApplies \/ ServerCloses
    \/ \E f \in Frequencies : SetVFOFrequency(f)
    \/ \E g \in Gains : SendGain(g)

Spec == Init /\ [][Next]_vars

-----------------------------------------------------------------------------
(* Properties                                                              *)

\* However often connect was clicked and return pressed, and whatever the
\* server did, the socket is read by one readData, and only while the client
\* is connected, with a filter that is there (lines 145-173, 197 and 242).
ReadOnce == readers = (IF connected /\ ~gone THEN 1 ELSE 0) /\ ~crashed

\* The server is, or will be by the commands on their way, where the client
\* believes it is: also when it was tuned or its gain set before it connected
\* again (lines 167-172 and 196).
WillBe(c, value) ==
    LET set == {k \in DOMAIN toServer : toServer[k].cmd = c}
    IN  \/ set = {} /\ server[c] = value
        \/ \E last \in set : /\ toServer[last].param = value
                            /\ \A k \in set : k <= last
ServerFollows ==
    connected /\ open =>
        WillBe("frequency", vfoFrequency) /\ WillBe("gain", theGain)
=============================================================================
