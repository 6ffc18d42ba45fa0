---------------------------- MODULE SdrplayServer ----------------------------
(***************************************************************************)
(* devices/sdrplay-handler-v3: the SDRplay API may only be used from one   *)
(* thread, so the handler runs a server thread (run) and turns every       *)
(* operation of the GUI thread into a request: messageHandler pushes the   *)
(* address of a request that lives on the GUI thread's stack on the        *)
(* std::queue server_queue, releases the semaphore serverjobs and waits on *)
(* the request's own semaphore waiter.  A third thread, of the API, calls  *)
(* StreamACallback while the device streams.                               *)
(*                                                                         *)
(* server_queue is not thread safe and the request dies when               *)
(* messageHandler returns: the two semaphores and the flags threadRuns,    *)
(* receiverRuns and status are all that keeps this correct.                *)
(***************************************************************************)
EXTENDS Naturals, Sequences

CONSTANT MaxCalls      \* bound: how many requests the GUI thread makes

ASSUME ServerAssumption == MaxCalls \in Nat

VARIABLES
    gpc,           \* the GUI thread: in the constructor, in a call, ...
    wpc,           \* the server thread
    cpc,           \* the API's callback thread
    status,        \* what the constructor waits for
    threadRuns, receiverRuns,
    server_queue,  \* addresses of requests, oldest first
    serverjobs,    \* semaphore: the number of requests announced
    request,       \* the request object of the GUI thread's current call
    served,        \* the address the server thread works on, 0 if none
    held,          \* what the thread holds of the API and the library
    made           \* the number of request objects made so far

guiVars    == <<gpc, request, made>>
serverVars == <<wpc, served, held>>
queueVars  == <<server_queue, serverjobs>>
flags      == <<status, threadRuns, receiverRuns>>
vars == <<guiVars, serverVars, queueVars, flags, cpc>>

\* RESTART (a new frequency, or start), STOP, and SET for all requests that
\* only set a parameter of the tuner (AGC, GRDB, PPM, LNA, ANTENNASELECT,
\* AMPORT, BIAST).
Commands == {"RESTART", "STOP", "SET"}

\* Object made-th on the stack; alive until messageHandler returns.
NoRequest == [id |-> 0, cmd |-> "SET", waiter |-> 0]

Resources == {"library", "api", "lock", "device", "stream"}

TypeOK ==
    /\ gpc \in {"constructor", "ready", "push", "release", "wait",
                "destructor", "deleted", "thrown"}
    /\ wpc \in {"new", "library", "open", "version", "lock", "select",
                "unlock", "device", "announce", "loop", "acquire", "front",
                "pop", "execute", "answer", "exit", "unlock_exit",
                "close_exit", "report_failure", "finished"}
    /\ cpc \in {"idle", "deliver"}
    /\ status \in {"WAITING", "FAILED", "SUCCESS"}
    /\ threadRuns \in BOOLEAN /\ receiverRuns \in BOOLEAN
    /\ server_queue \in Seq(1..MaxCalls)
    /\ serverjobs \in Nat
    /\ request \in [id : 0..MaxCalls, cmd : Commands, waiter : Nat]
    /\ served \in 0..MaxCalls
    /\ held \subseteq Resources
    /\ made \in 0..MaxCalls

\* The flags are members of an object made with new: any value until they are
\* stored (receiverRuns and threadRuns are not initialized).
Init ==
    /\ gpc = "constructor" /\ wpc = "new" /\ cpc = "idle"
    /\ status = "WAITING"
    /\ threadRuns \in BOOLEAN /\ receiverRuns \in BOOLEAN
    /\ server_queue = <<>> /\ serverjobs = 0
    /\ request = NoRequest /\ served = 0 /\ held = {} /\ made = 0

-----------------------------------------------------------------------------
(* The GUI thread *)

\* The constructor polls status after start ().
Constructed ==
    /\ gpc = "constructor"
    /\ status # "WAITING"
    /\ gpc' = IF status = "FAILED" THEN "thrown" ELSE "ready"
    /\ UNCHANGED <<request, made, serverVars, queueVars, flags, cpc>>

\* stopReader returns at once when the receiver does not run.  The gain sliders
\* and restartReader have such a test too, but the other SETs and
\* setVFOFrequency, which also is a RESTART, are made in any case.
Call(cmd) ==
    /\ gpc = "ready"
    /\ cmd = "STOP" => receiverRuns
    /\ made < MaxCalls
    /\ made' = made + 1
    /\ request' = [id |-> made + 1, cmd |-> cmd, waiter |-> 0]
    /\ gpc' = "push"
    /\ UNCHANGED <<serverVars, queueVars, flags, cpc>>

Push ==
    /\ gpc = "push"
    /\ server_queue' = Append(server_queue, request.id)
    /\ gpc' = "release"
    /\ UNCHANGED <<request, made, serverVars, serverjobs, flags, cpc>>

Release ==
    /\ gpc = "release"
    /\ serverjobs' = serverjobs + 1
    /\ gpc' = "wait"
    /\ UNCHANGED <<request, made, serverVars, server_queue, flags, cpc>>

\* A planted error: messageHandler does not wait.
ReturnsAtOnce ==
    /\ gpc = "wait"
    /\ gpc' = "ready"
    /\ request' = NoRequest
    /\ UNCHANGED <<made, serverVars, queueVars, flags, cpc>>

\* waiter. tryAcquire succeeds, or it times out and the server thread has
\* stopped; either way the request object is gone.
MessageHandlerReturns ==
    /\ gpc = "wait"
    /\ request.waiter > 0 \/ ~threadRuns
    /\ gpc' = "ready"
    /\ request' = NoRequest
    /\ UNCHANGED <<made, serverVars, queueVars, flags, cpc>>

Destructor ==
    /\ gpc = "ready"
    /\ threadRuns' = FALSE
    /\ gpc' = "destructor"
    /\ UNCHANGED <<request, made, serverVars, queueVars, status, receiverRuns,
                   cpc>>

\* A planted error: the destructor does not wait for its thread.
DestroyedAtOnce ==
    /\ gpc = "destructor"
    /\ gpc' = "deleted"
    /\ UNCHANGED <<request, made, serverVars, queueVars, flags, cpc>>

Destroyed ==
    /\ gpc = "destructor"
    /\ wpc = "finished"                  \* while (isRunning ()) usleep
    /\ gpc' = "deleted"
    /\ UNCHANGED <<request, made, serverVars, queueVars, flags, cpc>>

-----------------------------------------------------------------------------
(* The server thread: setting up *)

\* A step of run that touches neither the queue nor the request.
ServerStep(from, to) ==
    /\ wpc = from /\ wpc' = to
    /\ UNCHANGED <<guiVars, queueVars, served, cpc>>

Holds(resources) == held' = held \cup resources
Drops(resources) == held' = held \ resources

RunStarts ==
    /\ ServerStep("new", "library")
    /\ threadRuns' = FALSE /\ receiverRuns' = FALSE
    /\ UNCHANGED <<held, status>>

\* A planted error: the early exits forget to report.
FailsSilently ==
    /\ wpc \in {"library", "open"}
    /\ ServerStep(wpc, "finished")
    /\ Drops({"library"})
    /\ UNCHANGED flags

\* fetchLibrary or loadFunctions fails, or sdrplay_api_Open does: the library
\* is released, if it was loaded, and the thread returns.
FailsEarly ==
    /\ wpc \in {"library", "open"}
    /\ ServerStep(wpc, "finished")
    /\ status' = "FAILED"
    /\ Drops({"library"})
    /\ UNCHANGED <<threadRuns, receiverRuns>>

LoadsLibrary ==
    /\ ServerStep("library", "open") /\ Holds({"library"}) /\ UNCHANGED flags

OpensApi ==
    /\ ServerStep("open", "version") /\ Holds({"api"}) /\ UNCHANGED flags

ChecksVersion ==
    /\ \/ ServerStep("version", "lock")
       \/ ServerStep("version", "close_exit")
    /\ UNCHANGED <<held, flags>>

LocksApi ==
    /\ ServerStep("lock", "select") /\ Holds({"lock"}) /\ UNCHANGED flags

\* A planted error: goto closeAPI where the API is locked.
SelectsDeviceKeepingLock ==
    /\ \/ ServerStep("select", "unlock") /\ Holds({"device"})
       \/ ServerStep("select", "close_exit") /\ UNCHANGED held
    /\ UNCHANGED flags

\* No devices, or selecting the first one fails; or it is selected.
SelectsDevice ==
    /\ \/ ServerStep("select", "unlock") /\ Holds({"device"})
       \/ ServerStep("select", "unlock_exit") /\ UNCHANGED held
    /\ UNCHANGED flags

UnlocksApi ==
    /\ ServerStep("unlock", "device") /\ Drops({"lock"}) /\ UNCHANGED flags

\* The constructor of the Rsp_device starts the stream, or throws.
MakesRsp ==
    /\ \/ ServerStep("device", "announce") /\ Holds({"stream"})
       \/ ServerStep("device", "close_exit") /\ UNCHANGED held
    /\ UNCHANGED flags

Announces ==
    /\ wpc = "announce"
    /\ IF threadRuns
       THEN ServerStep("announce", "loop") /\ status' = "SUCCESS"
                                           /\ UNCHANGED threadRuns
       ELSE ServerStep("announce", "announce") /\ threadRuns' = TRUE
                                               /\ UNCHANGED status
    /\ UNCHANGED <<held, receiverRuns>>

-----------------------------------------------------------------------------
(* The server thread: serving *)

ServerTests ==
    /\ ServerStep("loop", IF threadRuns THEN "acquire" ELSE "exit")
    /\ UNCHANGED <<held, flags>>

Acquires ==
    /\ serverjobs > 0
    /\ wpc = "acquire" /\ wpc' = "front"
    /\ serverjobs' = serverjobs - 1
    /\ UNCHANGED <<guiVars, server_queue, served, held, flags, cpc>>

AcquireTimesOut ==
    /\ serverjobs = 0 /\ ~threadRuns
    /\ ServerStep("acquire", "exit")
    /\ UNCHANGED <<held, flags>>

\* server_queue. front () -> cmd, and then pop ().
TakesFront ==
    /\ wpc = "front" /\ wpc' = "pop"
    /\ served' = Head(server_queue)
    /\ UNCHANGED <<guiVars, queueVars, held, flags, cpc>>

\* A planted error: a case without its pop.
PopsNothing ==
    /\ wpc = "pop" /\ wpc' = "execute"
    /\ UNCHANGED <<guiVars, queueVars, served, held, flags, cpc>>

Pops ==
    /\ wpc = "pop" /\ wpc' = "execute"
    /\ server_queue' = Tail(server_queue)
    /\ UNCHANGED <<guiVars, serverjobs, served, held, flags, cpc>>

\* A planted error: STOP_REQUEST does not clear the flag.
ExecutesWithoutStop ==
    /\ wpc = "execute" /\ wpc' = "answer"
    /\ receiverRuns' = (receiverRuns \/ request.cmd = "RESTART")
    /\ UNCHANGED <<guiVars, queueVars, served, held, status, threadRuns, cpc>>

\* The call of theRsp, whose result nobody looks at, and the flag.
Executes ==
    /\ wpc = "execute" /\ wpc' = "answer"
    /\ receiverRuns' = CASE request.cmd = "RESTART" -> TRUE
                         [] request.cmd = "STOP"    -> FALSE
                         [] OTHER                   -> receiverRuns
    /\ UNCHANGED <<guiVars, queueVars, served, held, status, threadRuns, cpc>>

Answers ==
    /\ wpc = "answer" /\ wpc' = "loop"
    /\ request' = [request EXCEPT !.waiter = @ + 1]
    /\ served' = 0
    /\ UNCHANGED <<gpc, made, queueVars, held, flags, cpc>>

-----------------------------------------------------------------------------
(* The server thread: leaving *)

\* normal_exit: Uninit starts no callbacks any more, and returns after the one
\* that is under way.
Leaves ==
    /\ cpc = "idle"
    /\ ServerStep("exit", "finished")
    /\ Drops(Resources \ {"lock"})
    /\ UNCHANGED flags

UnlocksAndLeaves ==
    /\ ServerStep("unlock_exit", "close_exit") /\ Drops({"lock"})
    /\ UNCHANGED flags

ClosesAndLeaves ==
    /\ ServerStep("close_exit", "report_failure")
    /\ Drops({"device", "api", "library"})
    /\ UNCHANGED flags

ReportsFailure ==
    \/ /\ ServerStep("report_failure", "report_failure")
       /\ status # "FAILED" /\ status' = "FAILED"
       /\ UNCHANGED <<held, threadRuns, receiverRuns>>
    \/ /\ ServerStep("report_failure", "finished")
       /\ status = "FAILED"
       /\ UNCHANGED <<held, flags>>

-----------------------------------------------------------------------------
(* The API's thread: StreamACallback *)

\* A buffer with reset set, or while the receiver is stopped, is dropped.
StreamACallback ==
    /\ "stream" \in held /\ wpc # "exit"
    /\ cpc = "idle" /\ receiverRuns
    /\ cpc' = "deliver"
    /\ UNCHANGED <<guiVars, serverVars, queueVars, flags>>

\* putDataIntoBuffer and, once there is enough, dataAvailable.
Delivers ==
    /\ cpc = "deliver" /\ cpc' = "idle"
    /\ UNCHANGED <<guiVars, serverVars, queueVars, flags>>

-----------------------------------------------------------------------------
Gui ==
    \/ Constructed
    \/ \E cmd \in Commands : Call(cmd)
    \/ Push \/ Release \/ MessageHandlerReturns
    \/ Destructor \/ Destroyed

SettingUp ==
    \/ RunStarts \/ FailsEarly \/ LoadsLibrary \/ OpensApi \/ ChecksVersion
    \/ LocksApi \/ SelectsDevice \/ UnlocksApi \/ MakesRsp \/ Announces

Serving == ServerTests \/ Acquires \/ AcquireTimesOut \/ TakesFront \/ Pops
           \/ Executes \/ Answers

Leaving == Leaves \/ UnlocksAndLeaves \/ ClosesAndLeaves \/ ReportsFailure

Server == SettingUp \/ Serving \/ Leaving

Next == Gui \/ Server \/ StreamACallback \/ Delivers

\* The GUI thread is inside a call, a constructor or a destructor of the
\* handler; outside it may do nothing for ever.
GuiInside == Gui /\ gpc # "ready"

\* Both threads are scheduled, and a callback under way returns.
Fairness == WF_vars(GuiInside) /\ WF_vars(Server) /\ WF_vars(Delivers)

Spec == Init /\ [][Next]_vars /\ Fairness

-----------------------------------------------------------------------------
(* server_queue, a std::queue, is never changed by one thread while the     *)
(* other uses it, though no lock guards it.  This is what RequestsAlive and *)
(* JobsAreQueued, which the run checks, come to.                            *)
QueueUnshared == ~(gpc = "push" /\ wpc \in {"front", "pop"})

(* Every request the server thread can reach, in the queue or in its hands, *)
(* is the one object the GUI thread is waiting on in messageHandler: no     *)
(* pointer to a dead stack frame is ever followed.                          *)
RequestsAlive ==
    LET reachable == {server_queue[i] : i \in DOMAIN server_queue}
                     \cup (IF served = 0 THEN {} ELSE {served})
    IN  \A id \in reachable : id = request.id /\ gpc \in {"release", "wait"}

(* "here we could assert that the server_queue is not empty"                *)
(* (sdrplay-handler-v3.cpp:600), and nothing announced is ever missing.     *)
JobsAreQueued ==
    Len(server_queue) = serverjobs + (IF wpc \in {"front", "pop"} THEN 1 ELSE 0)
                                   + (IF gpc = "release" THEN 1 ELSE 0)

(* While a call waits, the thread it waits for serves: messageHandler never *)
(* takes its "return false".                                                *)
NobodyGivesUp == gpc = "wait" => threadRuns

(* When the object is deleted, its thread has ended and no callback of the  *)
(* API is under way or can come.                                            *)
DeletedAlone ==
    gpc = "deleted" => wpc = "finished" /\ cpc = "idle" /\ "stream" \notin held

(* However the set-up fails, and whenever it is told to stop, the thread    *)
(* leaves nothing behind: no API lock, no open API, no selected device.     *)
NothingLeftBehind == wpc = "finished" => held = {}

(* The effect of a request is there when messageHandler returns: after      *)
(* stopReader the callback drops its samples, after restartReader it does   *)
(* not.                                                                     *)
EffectIsThere ==
    [][gpc = "wait" /\ gpc' = "ready" =>
          /\ request.cmd = "RESTART" => receiverRuns
          /\ request.cmd = "STOP"    => ~receiverRuns]_vars

(* The constructor returns or throws, every call is answered, and the       *)
(* destructor ends: the GUI thread never hangs in the handler.              *)
GuiNeverHangs ==
    /\ gpc = "constructor" ~> gpc \in {"ready", "thrown"}
    /\ gpc = "push" ~> gpc = "ready"
    /\ gpc = "destructor" ~> gpc = "deleted"
=============================================================================
