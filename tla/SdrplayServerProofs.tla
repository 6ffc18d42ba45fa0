------------------------ MODULE SdrplayServerProofs ------------------------
(***************************************************************************)
(* What SdrplayServer promises however many requests are made: its types   *)
(* and all its safety properties.                                          *)
(*                                                                         *)
(* The argument is that the two semaphores pass one token around: a request*)
(* is in the queue, in the server's hands or answered, and never in two of *)
(* these places (OneRequest).  That the GUI thread can wait for it at all  *)
(* rests on the flags: from the moment the constructor returns until the   *)
(* destructor begins, threadRuns is true and the thread serves (Phases).   *)
(***************************************************************************)
EXTENDS SdrplayServer, TLAPS

Setup   == {"new", "library", "open", "version", "lock", "select", "unlock",
            "device", "announce", "unlock_exit", "close_exit"}
Busy    == {"front", "pop", "execute", "answer"}
Waiting == {"loop", "acquire"}

\* What the status the constructor waits for says of the two threads.
Phases ==
    \/ /\ status = "WAITING" /\ gpc = "constructor"
       /\ wpc \in Setup \cup {"report_failure"}
    \/ /\ status = "FAILED" /\ gpc \in {"constructor", "thrown"}
       /\ wpc \in {"report_failure", "finished"}
    \/ /\ status = "SUCCESS"
       /\ gpc \in {"constructor", "ready", "push", "release", "wait"}
       /\ threadRuns /\ wpc \in Waiting \cup Busy
    \/ /\ status = "SUCCESS" /\ gpc = "destructor"
       /\ ~threadRuns /\ wpc \in Waiting \cup {"exit", "finished"}
    \/ status = "SUCCESS" /\ gpc = "deleted" /\ wpc = "finished"

Empty     == server_queue = <<>> /\ serverjobs = 0
Queued(k) == server_queue = <<request.id>> /\ serverjobs = k

\* Where the one request is, if there is one.
OneRequest ==
    /\ gpc \in {"push", "release", "wait"} => request.id \in 1..MaxCalls
    /\ gpc \in {"push", "release"} => request.waiter = 0
    /\ gpc \notin {"release", "wait"} =>
          Empty /\ served = 0 /\ wpc \notin Busy
    /\ gpc = "release" => Queued(0) /\ served = 0 /\ wpc \notin Busy
    /\ gpc = "wait" =>
          \/ /\ wpc \notin Busy /\ served = 0
             /\ \/ Queued(1) /\ request.waiter = 0
                \/ Empty /\ request.waiter > 0
          \/ wpc = "front" /\ Queued(0) /\ served = 0 /\ request.waiter = 0
          \/ wpc = "pop" /\ Queued(0) /\ served = request.id
                         /\ request.waiter = 0
          \/ /\ wpc \in {"execute", "answer"} /\ Empty
             /\ served = request.id /\ request.waiter = 0

\* The effect of a request that has been executed.
EffectKept ==
    gpc = "wait" /\ (wpc = "answer" \/ request.waiter > 0) =>
          /\ request.cmd = "RESTART" => receiverRuns
          /\ request.cmd = "STOP"    => ~receiverRuns

\* What the thread holds, at each place in run.
HeldAt ==
    /\ wpc \in {"new", "library", "report_failure", "finished"} => held = {}
    /\ wpc = "open" => held = {"library"}
    /\ wpc \in {"version", "lock"} => held = {"library", "api"}
    /\ wpc \in {"select", "unlock_exit"} => held = {"library", "api", "lock"}
    /\ wpc = "unlock" => held = {"library", "api", "lock", "device"}
    /\ wpc = "device" => held = {"library", "api", "device"}
    /\ wpc = "close_exit" => held \subseteq {"library", "api", "device"}
    /\ wpc \in {"announce", "exit"} \cup Waiting \cup Busy =>
          held = {"library", "api", "device", "stream"}

CallbacksEnd == cpc = "deliver" => "stream" \in held

Inv == TypeOK /\ Phases /\ OneRequest /\ EffectKept /\ HeldAt /\ CallbacksEnd

-----------------------------------------------------------------------------
(* The constructor leaves the object in a state of the invariant.           *)
LEMMA InitInv == Init => Inv
BY ServerAssumption
   DEF Init, Inv, TypeOK, Phases, OneRequest, EffectKept, HeldAt, CallbacksEnd,
       NoRequest, Commands, Setup, Busy, Waiting, Empty, Queued

(* The GUI thread's steps keep it.                                          *)
LEMMA GuiInv == Inv /\ Gui => Inv'
<1> USE ServerAssumption
    DEF Inv, Phases, OneRequest, EffectKept, HeldAt, CallbacksEnd, Setup, Busy,
        Waiting, Empty, Queued, guiVars, serverVars, queueVars, flags
<1> SUFFICES ASSUME Inv, Gui PROVE Inv'
  OBVIOUS
<1>1. CASE Constructed
  BY <1>1 DEF Constructed, TypeOK
<1>2. ASSUME NEW cmd \in Commands, Call(cmd) PROVE Inv'
  BY <1>2 DEF Call, TypeOK
<1>3. CASE Push
  BY <1>3 DEF Push, TypeOK
<1>4. CASE Release
  BY <1>4 DEF Release, TypeOK
<1>5. CASE MessageHandlerReturns
  BY <1>5 DEF MessageHandlerReturns, TypeOK, NoRequest, Commands
<1>6. CASE Destructor
  BY <1>6 DEF Destructor, TypeOK
<1>7. CASE Destroyed
  BY <1>7 DEF Destroyed, TypeOK
<1> QED
  BY <1>1, <1>2, <1>3, <1>4, <1>5, <1>6, <1>7 DEF Gui

(* The server thread's steps keep it while it sets up ...                   *)
LEMMA SettingUpInv == Inv /\ SettingUp => Inv'
<1> USE DEF Inv, Phases, OneRequest, EffectKept, HeldAt, CallbacksEnd, Setup,
        Busy, Waiting, Empty, Queued, guiVars, serverVars, queueVars, flags,
        ServerStep, Holds, Drops, Resources
<1> SUFFICES ASSUME Inv, SettingUp PROVE Inv'
  OBVIOUS
<1>1. CASE RunStarts
  BY <1>1 DEF RunStarts, TypeOK
<1>2. CASE FailsEarly
  BY <1>2 DEF FailsEarly, TypeOK
<1>3. CASE LoadsLibrary
  BY <1>3 DEF LoadsLibrary, TypeOK
<1>4. CASE OpensApi
  BY <1>4 DEF OpensApi, TypeOK
<1>5. CASE ChecksVersion
  BY <1>5 DEF ChecksVersion, TypeOK
<1>6. CASE LocksApi
  BY <1>6 DEF LocksApi, TypeOK
<1>7. CASE SelectsDevice
  BY <1>7 DEF SelectsDevice, TypeOK
<1>8. CASE UnlocksApi
  BY <1>8 DEF UnlocksApi, TypeOK
<1>9. CASE MakesRsp
  BY <1>9 DEF MakesRsp, TypeOK
<1>10. CASE Announces
  BY <1>10 DEF Announces, TypeOK
<1> QED
  BY <1>1, <1>2, <1>3, <1>4, <1>5, <1>6, <1>7, <1>8, <1>9, <1>10
     DEF SettingUp

(* ... while it serves ...                                                  *)
LEMMA ServingInv == Inv /\ Serving => Inv'
<1> USE DEF Inv, Phases, OneRequest, EffectKept, HeldAt, CallbacksEnd, Setup,
        Busy, Waiting, Empty, Queued, guiVars, serverVars, queueVars, flags,
        ServerStep
<1> SUFFICES ASSUME Inv, Serving PROVE Inv'
  OBVIOUS
<1>1. CASE ServerTests
  BY <1>1 DEF ServerTests, TypeOK
<1>2. CASE Acquires
  BY <1>2 DEF Acquires, TypeOK
<1>3. CASE AcquireTimesOut
  BY <1>3 DEF AcquireTimesOut, TypeOK
<1>4. CASE TakesFront
  BY <1>4 DEF TakesFront, TypeOK
<1>5. CASE Pops
  BY <1>5 DEF Pops, TypeOK
<1>6. CASE Executes
  BY <1>6 DEF Executes, TypeOK, Commands
<1>7. CASE Answers
  <2>1. /\ gpc = "wait" /\ Empty /\ request.waiter = 0
        /\ request \in [id : 0..MaxCalls, cmd : Commands, waiter : Nat]
    BY <1>7 DEF Answers, TypeOK
  <2>2. /\ request'.id = request.id /\ request'.cmd = request.cmd
        /\ request'.waiter = 1
        /\ request' \in [id : 0..MaxCalls, cmd : Commands, waiter : Nat]
    BY <1>7, <2>1 DEF Answers
  <2>3. /\ wpc = "answer" /\ wpc' = "loop" /\ served' = 0
        /\ UNCHANGED <<gpc, cpc, made, server_queue, serverjobs, held, status,
                      threadRuns, receiverRuns>>
    BY <1>7 DEF Answers
  <2> HIDE DEF Inv
  <2>4. TypeOK'
    BY <2>2, <2>3, ServerAssumption DEF TypeOK, Inv
  <2>5. (Phases /\ HeldAt /\ CallbacksEnd)'
    BY <2>3 DEF Inv
  <2>6. OneRequest'
    BY <2>1, <2>2, <2>3 DEF Inv
  <2>7. EffectKept'
    BY <2>1, <2>2, <2>3 DEF Inv
  <2> QED
    BY <2>4, <2>5, <2>6, <2>7 DEF Inv
<1> QED
  BY <1>1, <1>2, <1>3, <1>4, <1>5, <1>6, <1>7 DEF Serving

(* ... and while it leaves; and so do the callback's.                       *)
LEMMA LeavingInv == Inv /\ (Leaving \/ StreamACallback \/ Delivers) => Inv'
<1> USE DEF Inv, Phases, OneRequest, EffectKept, HeldAt, CallbacksEnd, Setup,
        Busy, Waiting, Empty, Queued, guiVars, serverVars, queueVars, flags,
        ServerStep, Drops, Resources
<1> SUFFICES ASSUME Inv, Leaving \/ StreamACallback \/ Delivers PROVE Inv'
  OBVIOUS
<1>1. CASE Leaves
  BY <1>1 DEF Leaves, TypeOK
<1>2. CASE UnlocksAndLeaves
  BY <1>2 DEF UnlocksAndLeaves, TypeOK
<1>3. CASE ClosesAndLeaves
  BY <1>3 DEF ClosesAndLeaves, TypeOK
<1>4. CASE ReportsFailure
  BY <1>4 DEF ReportsFailure, TypeOK
<1>5. CASE StreamACallback
  BY <1>5 DEF StreamACallback, TypeOK
<1>6. CASE Delivers
  BY <1>6 DEF Delivers, TypeOK
<1> QED
  BY <1>1, <1>2, <1>3, <1>4, <1>5, <1>6 DEF Leaving

(* A step of none of the threads keeps it.                                  *)
LEMMA StutterInv == Inv /\ UNCHANGED vars => Inv'
BY DEF Inv, TypeOK, Phases, OneRequest, EffectKept, HeldAt, CallbacksEnd, Empty,
       Queued, vars, guiVars, serverVars, queueVars, flags

-----------------------------------------------------------------------------
(* The invariant holds in every state of every behaviour.                   *)
THEOREM Invariance == Spec => []Inv
<1>1. Inv /\ [Next]_vars => Inv'
  BY GuiInv, SettingUpInv, ServingInv, LeavingInv, StutterInv DEF Next, Server
<1> QED
  BY InitInv, <1>1, PTL DEF Spec

(* The state and the flags keep their types.                                *)
THEOREM TypeCorrect == Spec => []TypeOK
<1>1. Inv => TypeOK
  BY DEF Inv
<1> QED
  BY Invariance, <1>1, PTL

(* The unguarded std::queue is never used by both threads at once: the GUI  *)
(* thread pushes only when the server thread has popped the last request.   *)
THEOREM QueueNeverShared == Spec => []QueueUnshared
<1>1. Inv => QueueUnshared
  BY DEF Inv, OneRequest, Busy, QueueUnshared
<1> QED
  BY Invariance, <1>1, PTL

(* No address of a request outlives the call whose stack frame it points    *)
(* into.                                                                    *)
THEOREM NoDanglingRequest == Spec => []RequestsAlive
<1>1. Inv => RequestsAlive
  <2> SUFFICES ASSUME Inv PROVE RequestsAlive
    OBVIOUS
  <2>1. gpc \notin {"release", "wait"} => server_queue = <<>> /\ served = 0
    BY DEF Inv, OneRequest, Empty
  <2>2. gpc \in {"release", "wait"} =>
           /\ server_queue \in {<<>>, <<request.id>>}
           /\ served \in {0, request.id}
    BY DEF Inv, OneRequest, Empty, Queued
  <2> QED
    BY <2>1, <2>2 DEF Inv, TypeOK, RequestsAlive
<1> QED
  BY Invariance, <1>1, PTL

(* server_queue. front () is never called on an empty queue.                *)
THEOREM FrontExists == Spec => []JobsAreQueued
<1>1. Inv => JobsAreQueued
  <2> SUFFICES ASSUME Inv PROVE JobsAreQueued
    OBVIOUS
  <2>1. /\ Empty => Len(server_queue) = 0 /\ serverjobs = 0
        /\ Queued(0) => Len(server_queue) = 1 /\ serverjobs = 0
        /\ Queued(1) => Len(server_queue) = 1 /\ serverjobs = 1
    BY DEF Empty, Queued
  <2>2. CASE gpc = "release"
    <3>1. Queued(0) /\ wpc \notin {"front", "pop"}
      BY <2>2 DEF Inv, OneRequest, Busy
    <3> QED
      BY <2>1, <2>2, <3>1 DEF JobsAreQueued
  <2>3. CASE wpc \in {"front", "pop"}
    <3>1. Queued(0) /\ gpc # "release"
      BY <2>3 DEF Inv, OneRequest, Busy
    <3> QED
      BY <2>1, <2>3, <3>1 DEF JobsAreQueued
  <2>4. CASE gpc # "release" /\ wpc \notin {"front", "pop"}
    <3>1. Empty \/ Queued(1)
      BY <2>4 DEF Inv, OneRequest, Busy
    <3>2. CASE Empty
      BY <2>1, <2>4, <3>2 DEF JobsAreQueued
    <3>3. CASE Queued(1)
      BY <2>1, <2>4, <3>3 DEF JobsAreQueued
    <3> QED
      BY <3>1, <3>2, <3>3
  <2> QED
    BY <2>2, <2>3, <2>4
<1> QED
  BY Invariance, <1>1, PTL

(* messageHandler never returns false.                                      *)
THEOREM CallsAreServed == Spec => []NobodyGivesUp
<1>1. Inv => NobodyGivesUp
  BY DEF Inv, Phases, NobodyGivesUp
<1> QED
  BY Invariance, <1>1, PTL

(* The object is deleted when nobody uses it any more.                      *)
THEOREM DeletedSafely == Spec => []DeletedAlone
<1>1. Inv => DeletedAlone
  BY DEF Inv, TypeOK, Phases, HeldAt, CallbacksEnd, DeletedAlone
<1> QED
  BY Invariance, <1>1, PTL

(* Every way out of run gives the API, its lock and the device back.        *)
THEOREM NoLeak == Spec => []NothingLeftBehind
<1>1. Inv => NothingLeftBehind
  BY DEF Inv, HeldAt, NothingLeftBehind
<1> QED
  BY Invariance, <1>1, PTL

(* When messageHandler returns, its request has had its effect on the flag  *)
(* the callback tests.                                                      *)
THEOREM EffectPromised == Spec => EffectIsThere
<1> DEFINE Promise == gpc = "wait" /\ gpc' = "ready" =>
                         /\ request.cmd = "RESTART" => receiverRuns
                         /\ request.cmd = "STOP"    => ~receiverRuns
<1>1. Inv /\ [Next]_vars => [Promise]_vars
  <2> SUFFICES ASSUME Inv, Next, gpc = "wait", gpc' = "ready"
               PROVE  request.waiter > 0
    BY DEF Inv, EffectKept
  <2>1. MessageHandlerReturns
    BY DEF Next, Gui, Constructed, Call, Push, Release, Destructor, Destroyed,
           Server, SettingUp, Serving, Leaving, ServerStep, guiVars, RunStarts,
           FailsEarly, LoadsLibrary, OpensApi, ChecksVersion, LocksApi,
           SelectsDevice, UnlocksApi, MakesRsp, Announces, ServerTests,
           Acquires, AcquireTimesOut, TakesFront, Pops, Executes, Answers,
           Leaves, UnlocksAndLeaves, ClosesAndLeaves, ReportsFailure,
           StreamACallback, Delivers
  <2>2. threadRuns
    BY DEF Inv, Phases
  <2> QED
    BY <2>1, <2>2 DEF MessageHandlerReturns
<1> QED
  BY Invariance, <1>1, PTL DEF Spec, EffectIsThere
=============================================================================
