----------------------------- MODULE SpySession -----------------------------
(***************************************************************************)
(* devices/spy-server: how a connection with a SpyServer is made, used and *)
(* ended.  Two threads of the program take part:                           *)
(*   - the GUI thread, in the slots of spyServer_client.  It is also the   *)
(*     thread on which both QTimers fire, and it runs one slot at a time:  *)
(*     setConnection polls onConnect in a loop of usleep's, and while it   *)
(*     does no timer slot runs;                                            *)
(*   - the thread of the spyHandler (run), which takes one message after   *)
(*     the other from the server.                                          *)
(* The server, with the tcp_client between, answers CMD_HELLO with a       *)
(* device info and a client sync if it answers at all.  Messages are whole *)
(* here; how they are put together from bytes is the module SpyFraming.    *)
(***************************************************************************)
EXTENDS Naturals, Sequences

CONSTANTS MaxClicks,     \* bound: clicks on the connect button
          MaxReturns,    \* bound: returns pressed in the address line
          MaxMessages    \* bound: messages a server sends on a connection

VARIABLES
    gpc,          \* the GUI thread: idle is its event loop
    clicks,       \* clicks: setConnection is connected once for each
    returns,      \* returns pressed so far
    calls,        \* calls of setConnection still to come for this return
    timers,       \* the active timers: checkTimer, testTimer
    onConnect, timedOut, connected, running,   \* of spyServer_client
    server,       \* theServer # nullptr
    hpc,          \* the spyHandler thread
    handlerRuns,  \* its flag running
    gotInfo,      \* got_device_info
    late,         \* ghost: a thread began while its handler was deleted
    streaming,    \* its flag streaming, and the server's answer to it
    header,       \* type of the message in theHeader (and in buffer)
    fresh,        \* ghost: that message is read and not yet processed
    synced,       \* ghost: this handler processed a client sync it received
    oldSync,      \* ghost: the handler before it called connect_on while it
                  \* was deleted, after onConnect had been cleared
    stillConnected, \* ghost: connected was set before the last setConnection
                  \* began, which has not set it again
    inbox,        \* messages received and not yet read
    sent          \* messages the server has sent

ghostVars   == <<oldSync, stillConnected>>
guiVars     == <<gpc, clicks, returns, calls, connected, running, server,
                 ghostVars>>
timerVars   == <<timers, timedOut>>
threadVars  == <<hpc, header, fresh, synced>>
serverVars  == <<inbox, sent>>
vars == <<guiVars, timerVars, threadVars, serverVars, onConnect, handlerRuns,
          gotInfo, late, streaming>>

Messages == {"DEVICE_INFO", "CLIENT_SYNC", "UINT8_IQ"}

TypeOK ==
    /\ gpc \in {"idle", "connect", "delete", "create", "await", "setup",
                "discard", "destroy", "gone"}
    /\ clicks \in 0..MaxClicks /\ returns \in 0..MaxReturns
    /\ calls \in 0..MaxClicks
    /\ timers \subseteq {"checkTimer", "testTimer"}
    /\ {onConnect, timedOut, connected, running, server, handlerRuns, gotInfo,
        late, streaming, fresh, synced, oldSync, stillConnected}
            \subseteq BOOLEAN
    /\ hpc \in {"none", "start", "header", "body", "process", "finished"}
    /\ header \in Messages
    /\ inbox \in Seq(Messages) /\ sent \in 0..MaxMessages

Init ==
    /\ gpc = "idle" /\ clicks = 0 /\ returns = 0 /\ calls = 0
    /\ timers = {} /\ timedOut = FALSE
    /\ onConnect = FALSE /\ connected = FALSE /\ running \in BOOLEAN
    /\ server = FALSE /\ hpc = "none" /\ handlerRuns = FALSE
    /\ gotInfo = FALSE /\ late = FALSE /\ streaming = FALSE
    /\ header \in Messages /\ fresh = FALSE /\ synced = FALSE
    /\ inbox = <<>> /\ sent = 0
    /\ oldSync = FALSE /\ stillConnected = FALSE

-----------------------------------------------------------------------------
(* The GUI thread, in its event loop *)

\* Every click connects returnPressed once more; the button itself is
\* disconnected when a connection is established.
wantConnect ==
    /\ gpc = "idle"
    /\ ~connected
    /\ clicks < MaxClicks
    /\ clicks' = clicks + 1
    /\ UNCHANGED <<gpc, returns, calls, connected, running, server, ghostVars,
                   timerVars, threadVars, serverVars, onConnect, handlerRuns,
                   gotInfo, late, streaming>>

ReturnPressed ==
    /\ gpc = "idle"
    /\ clicks > 0 /\ returns < MaxReturns
    /\ returns' = returns + 1
    /\ calls' = clicks
    /\ gpc' = "connect"
    /\ UNCHANGED <<clicks, connected, running, server, ghostVars, timerVars,
                   threadVars, serverVars, onConnect, handlerRuns, gotInfo, late,
                   streaming>>

\* handle_checkTimer and no_deviceInfo: the slots of the two timers.
TimerFires(t) ==
    /\ gpc = "idle"
    /\ t \in timers
    /\ timedOut' = (timedOut \/ t = "checkTimer")
    /\ handlerRuns' = (handlerRuns /\ (t = "testTimer" => gotInfo))
    /\ UNCHANGED <<guiVars, timers, threadVars, serverVars, onConnect, gotInfo, late,
                   streaming>>

-----------------------------------------------------------------------------
(* The GUI thread, in setConnection *)

\* The next call for the same return, or back to the event loop.
Returns == /\ calls' = calls - 1
           /\ gpc' = IF calls > 1 THEN "connect" ELSE "idle"

\* A planted error: the destructor of the spyHandler only waits.
DeletingOnlyWaits == handlerRuns' = handlerRuns
                     /\ timers' = timers \ {"testTimer"}

\* delete theServer: the timer dies with it, running is cleared, and the
\* destructor waits for the thread.
Deleting == handlerRuns' = FALSE /\ timers' = timers \ {"testTimer"}

ConnectBegins ==
    /\ gpc = "connect"
    /\ onConnect' = FALSE /\ oldSync' = FALSE
    /\ stillConnected' = connected
    /\ IF server THEN Deleting /\ gpc' = "delete"
                 ELSE gpc' = "create" /\ UNCHANGED <<handlerRuns, timers>>
    /\ UNCHANGED <<clicks, returns, calls, connected, running, server,
                   timedOut, threadVars, serverVars, gotInfo, late, streaming>>

\* The thread has finished; the object and what it held are gone.
HandlerGone ==
    /\ hpc = "finished"
    /\ server' = FALSE /\ hpc' = "none"
    /\ inbox' = <<>> /\ sent' = 0 /\ streaming' = FALSE

ConnectDeleted ==
    /\ gpc = "delete"
    /\ HandlerGone
    /\ gpc' = "create" /\ oldSync' = onConnect
    /\ UNCHANGED <<clicks, returns, calls, connected, running, stillConnected,
                   timerVars, header, fresh, synced, onConnect, handlerRuns,
                   gotInfo, late>>

\* The constructor of the spyHandler throws: "Connection failed".
ConnectFails ==
    /\ gpc = "create"
    /\ Returns
    /\ UNCHANGED <<clicks, returns, connected, running, server, ghostVars,
                   timerVars, threadVars, serverVars, onConnect, handlerRuns,
                   gotInfo, late, streaming>>

\* A planted error: connected is set as soon as there is a server.
ConnectSucceedsConnected ==
    /\ gpc = "create"
    /\ gpc' = "await"
    /\ server' = TRUE /\ hpc' = "start" /\ connected' = TRUE
    /\ handlerRuns' = FALSE /\ streaming' = FALSE
    /\ gotInfo' \in BOOLEAN /\ late' = late
    /\ header' \in Messages /\ fresh' = FALSE /\ synced' = FALSE
    /\ timedOut' = FALSE /\ timers' = {"checkTimer", "testTimer"}
    /\ UNCHANGED <<clicks, returns, calls, running, ghostVars, serverVars,
                   onConnect>>

\* Or the server is there: CMD_HELLO is sent, the thread and both timers are
\* started.  got_device_info and theHeader are not initialized.
ConnectSucceeds ==
    /\ gpc = "create"
    /\ gpc' = "await"
    /\ server' = TRUE /\ hpc' = "start"
    /\ handlerRuns' = FALSE /\ streaming' = FALSE
    /\ gotInfo' \in BOOLEAN /\ late' = late
    /\ header' \in Messages /\ fresh' = FALSE /\ synced' = FALSE
    /\ timedOut' = FALSE /\ timers' = {"checkTimer", "testTimer"}
    /\ UNCHANGED <<clicks, returns, calls, connected, running, ghostVars,
                   serverVars, onConnect>>

\* while (!onConnect. load () && !timedOut) usleep (1000);
\* then either "no answers, fatal", or the set-up goes on.
AwaitEnds ==
    /\ gpc = "await"
    /\ onConnect \/ timedOut
    /\ IF timedOut
       THEN /\ Deleting /\ gpc' = "discard"
            /\ connected' = FALSE /\ stillConnected' = FALSE
       ELSE /\ gpc' = "setup"
            /\ timers' = timers \ {"checkTimer"}
            /\ UNCHANGED <<handlerRuns, connected, stillConnected>>
    /\ UNCHANGED <<clicks, returns, calls, running, server, oldSync, timedOut,
                   threadVars, serverVars, onConnect, gotInfo, late, streaming>>

\* Without a device info theDevice is not initialized, so every outcome is
\* possible: a device that is not supported (the handler stays), a rate that
\* is zero or too low (it is deleted), or one that will do.
SetupRefused ==
    /\ gpc = "setup"
    /\ Returns
    /\ UNCHANGED <<clicks, returns, connected, running, server, ghostVars,
                   timerVars, threadVars, serverVars, onConnect, handlerRuns,
                   gotInfo, late, streaming>>

SetupDiscards ==
    /\ gpc = "setup"
    /\ gpc' = "discard"
    /\ Deleting
    /\ UNCHANGED <<clicks, returns, calls, connected, running, server,
                   ghostVars, timedOut, threadVars, serverVars, onConnect,
                   gotInfo, late, streaming>>

Discarded ==
    /\ gpc = "discard"
    /\ HandlerGone
    /\ Returns
    /\ UNCHANGED <<clicks, returns, connected, running, ghostVars, timerVars,
                   header, fresh, synced, onConnect, handlerRuns, gotInfo, late>>

\* connected, start_running, running.
SetupSucceeds ==
    /\ gpc = "setup"
    /\ connected' = TRUE /\ running' = TRUE /\ streaming' = TRUE
    /\ Returns /\ stillConnected' = FALSE
    /\ UNCHANGED <<clicks, returns, server, oldSync, timerVars, threadVars,
                   serverVars, onConnect, handlerRuns, gotInfo, late>>

-----------------------------------------------------------------------------
(* The GUI thread, deleting the device *)

\* A planted error: the destructor as it is when the program never connected.
DestructorWithoutDelete ==
    /\ gpc = "idle"
    /\ gpc' = "gone"
    /\ UNCHANGED <<clicks, returns, calls, connected, server, ghostVars,
                   streaming, running, handlerRuns, timers, timedOut, threadVars,
                   serverVars, onConnect, gotInfo, late>>

Destructor ==
    LET leaves == connected /\ (~server \/ ~running \/ ~streaming)
    IN  /\ gpc = "idle"
        /\ gpc' = IF leaves \/ ~server THEN "gone" ELSE "destroy"
        /\ running' = (running /\ (leaves \/ ~connected))
        /\ streaming' = (streaming /\ (leaves \/ ~connected))
        /\ IF leaves \/ ~server THEN UNCHANGED <<handlerRuns, timers>>
                                ELSE Deleting
        /\ UNCHANGED <<clicks, returns, calls, connected, server, ghostVars,
                       timedOut, threadVars, serverVars, onConnect, gotInfo, late>>

Destroyed ==
    /\ gpc = "destroy"
    /\ HandlerGone
    /\ gpc' = "gone"
    /\ UNCHANGED <<clicks, returns, calls, connected, running, ghostVars, timerVars,
                   header, fresh, synced, onConnect, handlerRuns, gotInfo, late>>

-----------------------------------------------------------------------------
(* The thread of the spyHandler *)

handlerUnchanged == <<guiVars, timerVars, sent, streaming>>

RunBegins ==
    /\ hpc = "start" /\ hpc' = "header"
    /\ handlerRuns' = TRUE
    /\ late' = (late \/ gpc \in {"delete", "discard", "destroy"})
    /\ UNCHANGED <<handlerUnchanged, header, fresh, synced, inbox, onConnect,
                   gotInfo>>

\* readHeader, or its early return with theHeader as it was.
ReadsHeader ==
    /\ hpc = "header"
    /\ \/ /\ handlerRuns /\ inbox # <<>>
          /\ hpc' = "body"
          /\ header' = Head(inbox) /\ inbox' = Tail(inbox)
          /\ fresh' = TRUE
       \/ /\ ~handlerRuns
          /\ hpc' = "process"
          /\ UNCHANGED <<header, inbox, fresh>>
    /\ UNCHANGED <<handlerUnchanged, synced, onConnect, handlerRuns, gotInfo, late>>

\* readBody: the whole body, or as much as there was when running was cleared.
ReadsBody ==
    /\ hpc = "body" /\ hpc' = "process"
    /\ UNCHANGED <<handlerUnchanged, header, fresh, synced, inbox, onConnect,
                   handlerRuns, gotInfo, late>>

\* A planted error: a client sync that does not reach the parent.
ProcessesWithoutParent ==
    /\ hpc = "process"
    /\ gotInfo' = (gotInfo \/ header = "DEVICE_INFO") /\ late' = late
    /\ synced' = (synced \/ (header = "CLIENT_SYNC" /\ fresh))
    /\ fresh' = FALSE
    /\ hpc' = IF handlerRuns THEN "header" ELSE "finished"
    /\ UNCHANGED <<handlerUnchanged, header, inbox, handlerRuns, onConnect>>

\* A planted error: a device info calls connect_on, too.
ProcessesConnectingEarly ==
    /\ hpc = "process"
    /\ gotInfo' = (gotInfo \/ header = "DEVICE_INFO") /\ late' = late
    /\ onConnect' = (onConnect \/ header \in {"CLIENT_SYNC", "DEVICE_INFO"})
    /\ synced' = (synced \/ (header = "CLIENT_SYNC" /\ fresh))
    /\ fresh' = FALSE
    /\ hpc' = IF handlerRuns THEN "header" ELSE "finished"
    /\ UNCHANGED <<handlerUnchanged, header, inbox, handlerRuns>>

\* The switch on MessageType, whatever readHeader and readBody returned; then
\* the test of running.  process_client_sync calls parent -> connect_on ().
Processes ==
    /\ hpc = "process"
    /\ gotInfo' = (gotInfo \/ header = "DEVICE_INFO") /\ late' = late
    /\ onConnect' = (onConnect \/ header = "CLIENT_SYNC")
    /\ synced' = (synced \/ (header = "CLIENT_SYNC" /\ fresh))
    /\ fresh' = FALSE
    /\ hpc' = IF handlerRuns THEN "header" ELSE "finished"
    /\ UNCHANGED <<handlerUnchanged, header, inbox, handlerRuns>>

\* The server, through the tcp_client: samples only when asked to stream.
ServerSends(m) ==
    /\ hpc \notin {"none", "finished"}
    /\ m = "UINT8_IQ" => streaming
    /\ sent < MaxMessages
    /\ sent' = sent + 1
    /\ inbox' = Append(inbox, m)
    /\ UNCHANGED <<guiVars, timerVars, threadVars, onConnect, handlerRuns,
                   gotInfo, late, streaming>>

-----------------------------------------------------------------------------
SetConnection ==
    \/ ConnectBegins \/ ConnectDeleted \/ ConnectFails \/ ConnectSucceeds
    \/ AwaitEnds \/ SetupRefused \/ SetupDiscards \/ Discarded \/ SetupSucceeds

Timer == \E t \in timers : TimerFires(t)

Handler == RunBegins \/ ReadsHeader \/ ReadsBody \/ Processes

Next ==
    \/ wantConnect \/ ReturnPressed \/ Timer \/ SetConnection
    \/ Destructor \/ Destroyed
    \/ Handler
    \/ \E m \in Messages : ServerSends(m)

\* Both threads are scheduled, and a timer that is active fires whenever the
\* event loop gets to run; users and servers may do nothing for ever.
Fairness == /\ WF_vars(SetConnection) /\ WF_vars(Destroyed)
            /\ WF_vars(Timer) /\ WF_vars(Handler)

Spec == Init /\ [][Next]_vars /\ Fairness

-----------------------------------------------------------------------------
(* The handler's thread calls parent -> connect_on () and emits signals of  *)
(* an object with a parent pointer: when the client is gone that thread has *)
(* ended.  Excused is a connection made over an earlier one that failed:    *)
(* connected is set from the earlier one, and the destructor then returns   *)
(* without a delete (lines 93-101).                                         *)
ParentAlive == gpc = "gone" => hpc = "none" \/ stillConnected

(* Whoever tests connected may use theServer: setVFOFrequency and           *)
(* handle_autogain dereference it on connected alone.  Excused, again, is   *)
(* a connected that a failing setConnection has left set (lines 148-163).   *)
ConnectedHasServer ==
    gpc = "idle" /\ connected => server \/ stillConnected

(* setConnection goes on to the set-up, where it reads the device info,     *)
(* only after the server it has just connected to has sent a client sync:   *)
(* that is what connect_on is called for.  Excused is the sync of the       *)
(* handler before, processed after line 148 has cleared onConnect and       *)
(* before line 152 has deleted that handler.                                *)
SetupAfterSync == gpc = "setup" => synced \/ oldSync

(* A client sync that has arrived ends the wait of setConnection.           *)
SyncEndsAwait ==
    gpc = "await" /\ (\E i \in DOMAIN inbox : inbox[i] = "CLIENT_SYNC")
        ~> gpc # "await"

(* setConnection never waits for ever: after two seconds without an answer  *)
(* checkTimer ends the wait with "no answers, fatal".                       *)
AwaitAlwaysEnds == gpc = "await" ~> gpc # "await"

(* Deleting a handler ends, in setConnection and in the destructor, however *)
(* often the client has connected; unless a thread sets running only after  *)
(* the destructor has cleared it (spy-handler.cpp, 74): that one goes on.   *)
DeleteEnds ==
    gpc \in {"delete", "discard", "destroy"}
        ~> gpc \notin {"delete", "discard", "destroy"} \/ late
=============================================================================
