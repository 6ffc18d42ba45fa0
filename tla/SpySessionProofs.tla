-------------------------- MODULE SpySessionProofs --------------------------
(***************************************************************************)
(* The three invariants of SpySession, for any number of clicks, returns   *)
(* and messages: connections are made one over the other as long as the    *)
(* user likes.  The phase in which setConnection is tells                  *)
(*   - whether there is a handler (HandlerPhase): none while one is being  *)
(*     created, one from then on; and in the event loop a client that is   *)
(*     connected has one that streams, unless the last setConnection       *)
(*     failed and left connected set;                                      *)
(*   - what the handler's thread may be doing (AwaitPhase): during the     *)
(*     wait nobody has cleared its flag, so each message it processes is   *)
(*     one it has read, and connect_on comes from a sync that arrived, or  *)
(*     was called by the handler before while it was deleted.              *)
(***************************************************************************)
EXTENDS SpySession, TLAPS

HandlerPhase ==
    /\ server <=> hpc # "none"
    /\ gpc = "create" => hpc = "none"
    /\ gpc \in {"await", "setup"} => hpc # "none"
    /\ gpc \in {"delete", "create", "await", "setup", "discard"} =>
          (connected => stillConnected)
    /\ gpc = "idle" /\ connected =>
          stillConnected \/ (server /\ running /\ streaming)
    /\ gpc = "gone" => hpc = "none" \/ stillConnected

AwaitPhase ==
    /\ gpc = "create" => (onConnect => oldSync)
    /\ gpc = "await" =>
          /\ hpc \in {"start", "header", "body", "process"}
          /\ hpc # "start" => handlerRuns
          /\ hpc \in {"body", "process"} => fresh
          /\ onConnect => synced \/ oldSync
    /\ gpc = "setup" => synced \/ oldSync

IInv == HandlerPhase /\ AwaitPhase

-----------------------------------------------------------------------------
\* The GUI thread in its event loop.
LEMMA EventLoopKeeps ==
    ASSUME HandlerPhase, AwaitPhase, wantConnect \/ ReturnPressed \/ Timer
    PROVE  (HandlerPhase /\ AwaitPhase)'
<1> USE DEF HandlerPhase, AwaitPhase, ghostVars
<1>1. CASE wantConnect
  BY <1>1 DEF wantConnect, timerVars, threadVars, serverVars
<1>2. CASE ReturnPressed
  BY <1>2 DEF ReturnPressed, timerVars, threadVars, serverVars
<1>3. CASE Timer
  BY <1>3 DEF Timer, TimerFires, guiVars, threadVars, serverVars
<1> QED
  BY <1>1, <1>2, <1>3

\* The GUI thread in setConnection.
LEMMA SetConnectionKeeps ==
    ASSUME HandlerPhase, AwaitPhase, SetConnection
    PROVE  (HandlerPhase /\ AwaitPhase)'
<1> USE DEF HandlerPhase, AwaitPhase, ghostVars
<1>1. CASE ConnectBegins
  BY <1>1 DEF ConnectBegins, threadVars
<1>2. CASE ConnectDeleted
  <2>1. onConnect' => oldSync'
    BY <1>2, Zenon DEF ConnectDeleted
  <2>2. gpc' = "create" /\ server' = FALSE /\ hpc' = "none"
    BY <1>2 DEF ConnectDeleted, HandlerGone
  <2>3. connected => stillConnected
    BY <1>2, Zenon DEF ConnectDeleted
  <2>4. connected' = connected /\ stillConnected' = stillConnected
    BY <1>2 DEF ConnectDeleted
  <2>5. connected' => stillConnected'
    BY <2>3, <2>4, Zenon
  <2> QED
    BY <2>1, <2>2, <2>5
<1>3. CASE ConnectFails
  BY <1>3 DEF ConnectFails, Returns, threadVars
<1>4. CASE ConnectSucceeds
  BY <1>4 DEF ConnectSucceeds
<1>5. CASE AwaitEnds
  <2>1. CASE timedOut
    BY <1>5, <2>1 DEF AwaitEnds, threadVars
  <2>2. CASE ~timedOut
    BY <1>5, <2>2 DEF AwaitEnds, threadVars
  <2> QED
    BY <2>1, <2>2
<1>6. CASE SetupRefused
  BY <1>6 DEF SetupRefused, Returns, threadVars
<1>7. CASE SetupDiscards
  BY <1>7 DEF SetupDiscards, threadVars
<1>8. CASE Discarded
  BY <1>8 DEF Discarded, HandlerGone, Returns
<1>9. CASE SetupSucceeds
  BY <1>9 DEF SetupSucceeds, Returns, threadVars
<1> QED
  BY <1>1, <1>2, <1>3, <1>4, <1>5, <1>6, <1>7, <1>8, <1>9 DEF SetConnection

\* The GUI thread deleting the device: it deletes the handler if there is one,
\* or leaves it when connected is set and that handler is not streaming.
LEMMA DestructionKeeps ==
    ASSUME HandlerPhase, AwaitPhase, Destructor \/ Destroyed
    PROVE  (HandlerPhase /\ AwaitPhase)'
<1> USE DEF HandlerPhase, AwaitPhase, ghostVars
<1>1. CASE Destructor
  <2>1. stillConnected' = stillConnected /\ hpc' = hpc /\ server' = server
    BY <1>1 DEF Destructor, threadVars
  <2>2. CASE ~server
    <3>1. gpc' = "gone" /\ hpc = "none"
      BY <1>1, <2>2 DEF Destructor
    <3> QED
      BY <2>1, <2>2, <3>1
  <2>3. CASE server /\ connected /\ (~running \/ ~streaming)
    <3>1. gpc' = "gone" /\ stillConnected
      BY <1>1, <2>3 DEF Destructor
    <3> QED
      BY <2>1, <2>3, <3>1
  <2>4. CASE server /\ ~(connected /\ (~running \/ ~streaming))
    <3>1. gpc' = "destroy"
      BY <1>1, <2>4 DEF Destructor
    <3> QED
      BY <2>1, <3>1
  <2> QED
    BY <2>2, <2>3, <2>4
<1>2. CASE Destroyed
  BY <1>2 DEF Destroyed, HandlerGone
<1> QED
  BY <1>1, <1>2

\* The handler's thread, and the server.
LEMMA HandlerKeeps ==
    ASSUME HandlerPhase, AwaitPhase,
           Handler \/ \E m \in Messages : ServerSends(m)
    PROVE  (HandlerPhase /\ AwaitPhase)'
<1> USE DEF HandlerPhase, AwaitPhase, ghostVars, handlerUnchanged, guiVars
<1>1. CASE RunBegins
  BY <1>1 DEF RunBegins
<1>2. CASE ReadsHeader
  BY <1>2 DEF ReadsHeader
<1>3. CASE ReadsBody
  BY <1>3 DEF ReadsBody
<1>4. CASE Processes
  BY <1>4 DEF Processes
<1>5. CASE \E m \in Messages : ServerSends(m)
  BY <1>5 DEF ServerSends, threadVars
<1> QED
  BY <1>1, <1>2, <1>3, <1>4, <1>5 DEF Handler

\* Initially there is neither a handler nor a connection.
LEMMA InitPhases == Init => IInv
BY DEF Init, IInv, HandlerPhase, AwaitPhase

\* Every step keeps the invariant.
LEMMA NextPhases == IInv /\ [Next]_vars => IInv'
<1> SUFFICES ASSUME IInv, [Next]_vars PROVE (HandlerPhase /\ AwaitPhase)'
  BY DEF IInv
<1>1. HandlerPhase /\ AwaitPhase
  BY DEF IInv
<1>2. CASE UNCHANGED vars
  BY <1>1, <1>2 DEF vars, guiVars, ghostVars, threadVars, HandlerPhase,
                    AwaitPhase
<1> QED
  BY <1>1, <1>2, EventLoopKeeps, SetConnectionKeeps, DestructionKeeps,
     HandlerKeeps DEF Next

\* The invariant holds always.
LEMMA AlwaysPhases == Spec => []IInv
<1> QED
  BY InitPhases, NextPhases, PTL DEF Spec

\* When the client is gone the handler's thread, which calls it through its
\* parent pointer, has ended (spyserver-client.cpp, the destructor): after any
\* number of connections, unless the last one failed over an earlier one and
\* left connected set.
THEOREM ParentLives == Spec => []ParentAlive
<1>1. IInv => ParentAlive
  BY DEF IInv, HandlerPhase, ParentAlive
<1> QED
  BY <1>1, AlwaysPhases, PTL

\* Whoever tests connected may use theServer (setVFOFrequency and
\* handle_autogain of spyserver-client.cpp): after any number of connections,
\* unless the last one failed and left connected set.
THEOREM ServerIsThere == Spec => []ConnectedHasServer
<1>1. IInv => ConnectedHasServer
  BY DEF IInv, HandlerPhase, ConnectedHasServer
<1> QED
  BY <1>1, AlwaysPhases, PTL

\* setConnection goes on to the set-up only after this server's client sync
\* (spyserver-client.cpp, connect_on, and spy-handler.cpp,
\* process_client_sync), on every connection, unless the handler before called
\* connect_on while it was being deleted.
THEOREM SyncComesFirst == Spec => []SetupAfterSync
<1>1. IInv => SetupAfterSync
  BY DEF IInv, AwaitPhase, SetupAfterSync
<1> QED
  BY <1>1, AlwaysPhases, PTL
=============================================================================
