-------------------------------- MODULE Farm --------------------------------
(***************************************************************************)
(* dev::eth::Farm (libethcore/Farm.h): the set of miners, the work they    *)
(* are given, and the io_service thread that collects the hash rate once a *)
(* second.  The callers are the pool client's thread, through the handlers *)
(* PoolManager installs, and the API server's thread, through restart().   *)
(*                                                                         *)
(* A miner is the package it was last given: what it does with it is       *)
(* module CudaMiner, and how its thread starts and ends is module Worker.  *)
(* Hash counts, times and the solution counters are left out.              *)
(***************************************************************************)
EXTENDS Integers, Sequences

CONSTANTS
    Works,          \* work packages, told apart by header and start nonce
    NoWork,         \* WorkPackage(): what a miner is created with
    MinerTypes,     \* the kinds of farm looked at: "CL", "CUDA", "Mixed"
    Sealers,        \* the sealers compiled in: a subset of {"opencl", "cuda"}
    Instances,      \* how many miners a sealer creates
    ApiEnabled,     \* the API server is there, and may call restart()
    PromptService,  \* the io_service thread has seen a stop before a reconnect
    MaxQueued       \* bound on expired waits of the timer not yet handled

ASSUME WorksAssumption == NoWork \notin Works
ASSUME SealersAssumption ==
    /\ MinerTypes \subseteq {"CL", "CUDA", "Mixed"}
    /\ Sealers \subseteq {"opencl", "cuda"}
    /\ Instances \in [Sealers -> Nat]
    /\ ApiEnabled \in BOOLEAN /\ PromptService \in BOOLEAN
    /\ MaxQueued \in Nat

VARIABLES
    m_minerType,    \* PoolManager's member: fixed by the command line
    m_miners,       \* the package each miner holds
    m_work, m_isMining, m_lastSealer,
    x_minerWork,    \* who holds the mutex across steps
    connected,      \* the pool client's view of its connection
    calls,          \* what each caller's handler has still to call
    pc,             \* where each caller is inside the call at the head
    service,        \* m_serviceThread
    stopped,        \* the stop flag of m_io_service
    armed,          \* m_hashrateTimer has a wait pending
    queued          \* expired waits whose handler has not run yet

minerVars == <<m_minerType, m_miners, m_work, m_isMining, m_lastSealer>>
serviceVars == <<service, stopped, armed, queued>>
vars == <<minerVars, x_minerWork, connected, calls, pc, serviceVars>>

Threads == {"pool", "api"}

StopCall == [op |-> "stop"]
StartCall(s, mixed) == [op |-> "start", sealer |-> s, mixed |-> mixed]
CollectCall == [op |-> "collect"]
SetWorkCall(p) == [op |-> "setWork", work |-> p]

Call == {StopCall, CollectCall}
    \cup [op : {"start"}, sealer : {"opencl", "cuda"}, mixed : BOOLEAN]
    \cup [op : {"setWork"}, work : Works]

\* Where a caller may be: before a call, or inside stop ("cleared" to "clear"), start
\* ("created" to "join") or collectHashRate.
CallerPC == {"call", "cleared", "timer", "io", "clear", "created", "reset", "join",
             "collecting"}

TypeOK ==
    /\ m_minerType \in MinerTypes
    /\ m_miners \in Seq(Works \cup {NoWork})
    /\ m_work \in Works \cup {NoWork}
    /\ m_isMining \in BOOLEAN
    /\ m_lastSealer \in Sealers \cup {""}
    /\ x_minerWork \in Threads \cup {"service", "free"}
    /\ connected \in BOOLEAN
    /\ calls \in [Threads -> Seq(Call)]
    /\ pc \in [Threads -> CallerPC]
    /\ service \in {"none", "run", "collect", "collecting", "rearm", "exited"}
    /\ stopped \in BOOLEAN /\ armed \in BOOLEAN
    /\ queued \in 0 .. MaxQueued

Init ==
    /\ m_minerType \in MinerTypes
    /\ m_miners = <<>> /\ m_work = NoWork
    /\ m_isMining = FALSE /\ m_lastSealer = ""
    /\ x_minerWork = "free"
    /\ connected = FALSE
    /\ calls = [t \in Threads |-> <<>>]
    /\ pc = [t \in Threads |-> "call"]
    /\ service = "none" /\ stopped = FALSE /\ armed = FALSE /\ queued = 0

Free == x_minerWork = "free"

\* t is about to make a call of this kind.
Calling(t, op) == pc[t] = "call" /\ calls[t] # <<>> /\ Head(calls[t]).op = op

Goto(t, l) == pc' = [pc EXCEPT ![t] = l] /\ UNCHANGED calls

\* The call at the head of t's handler returns.
Return(t) == /\ pc' = [pc EXCEPT ![t] = "call"]
             /\ calls' = [calls EXCEPT ![t] = Tail(@)]

-----------------------------------------------------------------------------
(* The handlers of PoolManager.                                            *)

\* What a handler calls to spin up the miners.
StartCalls ==
    IF m_minerType = "Mixed" THEN <<StartCall("cuda", FALSE), StartCall("opencl", TRUE)>>
    ELSE <<StartCall(IF m_minerType = "CL" THEN "opencl" ELSE "cuda", FALSE)>>

Handle(t, todo) ==
    /\ calls[t] = <<>>
    /\ calls' = [calls EXCEPT ![t] = todo]
    /\ UNCHANGED <<minerVars, x_minerWork, pc, serviceVars>>

\* onConnected.  tryReconnect has slept three seconds since the disconnection.
OnConnected ==
    /\ ~connected /\ (PromptService /\ stopped => service = "exited")
    /\ connected' = TRUE
    /\ Handle("pool", IF m_isMining THEN <<>> ELSE StartCalls)

\* onDisconnected, up to tryReconnect.
OnDisconnected ==
    /\ connected
    /\ connected' = FALSE
    /\ Handle("pool", IF m_isMining THEN <<StopCall>> ELSE <<>>)

\* onWorkReceived: setWork collects the hash rate first, in a lock of its own.
OnWorkReceived(p) ==
    /\ connected
    /\ Handle("pool", <<CollectCall, SetWorkCall(p)>>)
    /\ UNCHANGED connected

\* ApiServer::doMinerRestart, Farm::restart and onMinerRestart.
Restart ==
    /\ ApiEnabled
    /\ Handle("api", (IF m_isMining THEN <<StopCall>> ELSE <<>>) \o StartCalls)
    /\ UNCHANGED connected

-----------------------------------------------------------------------------
(* Farm's operations.                                                      *)

\* stop(): destroy the miners, under the mutex.
StopMiners(t) ==
    /\ Calling(t, "stop") /\ Free
    /\ m_miners' = <<>>
    /\ x_minerWork' = t
    /\ Goto(t, "cleared")
    /\ UNCHANGED <<m_minerType, m_work, m_isMining, m_lastSealer, connected, serviceVars>>

\* stop(): m_isMining, which isMining() reads without the mutex, follows.
StopMining(t) ==
    /\ pc[t] = "cleared"
    /\ m_isMining' = FALSE
    /\ x_minerWork' = "free"
    /\ Goto(t, "timer")
    /\ UNCHANGED <<m_minerType, m_miners, m_work, m_lastSealer, connected, serviceVars>>

\* stop(): m_hashrateTimer.cancel(); an expired wait cannot be cancelled.
StopTimer(t) ==
    /\ pc[t] = "timer"
    /\ armed' = FALSE
    /\ Goto(t, "io")
    /\ UNCHANGED <<minerVars, x_minerWork, connected, service, stopped, queued>>

\* Mutant: stop() leaves the io_service running.
StopService_Never(t) ==
    /\ pc[t] = "io"
    /\ Goto(t, "clear")
    /\ UNCHANGED <<minerVars, x_minerWork, connected, serviceVars>>

\* stop(): m_io_service.stop()
StopService(t) ==
    /\ pc[t] = "io"
    /\ stopped' = TRUE
    /\ Goto(t, "clear")
    /\ UNCHANGED <<minerVars, x_minerWork, connected, service, armed, queued>>

\* stop(): m_lastProgresses.clear(), outside the mutex.
ClearProgresses(t) ==
    /\ pc[t] = "clear"
    /\ Return(t)
    /\ UNCHANGED <<minerVars, x_minerWork, connected, serviceVars>>

\* start() finds these miners running already, or does not know the sealer.
StartRefused(t) ==
    /\ Calling(t, "start") /\ Free
    /\ LET s == Head(calls[t]).sealer
       IN  (m_miners # <<>> /\ m_lastSealer = s) \/ s \notin Sealers
    /\ Return(t)
    /\ UNCHANGED <<minerVars, x_minerWork, connected, serviceVars>>

\* The miners after start(s, mixed): a mixed start adds to the ones there are.
Started(s, mixed) ==
    (IF mixed THEN m_miners ELSE <<>>) \o [i \in 1 .. Instances[s] |-> NoWork]

\* start(): take the mutex and create the miners.
StartMiners(t) ==
    /\ Calling(t, "start") /\ Free
    /\ LET call == Head(calls[t])
       IN  /\ call.sealer \in Sealers
           /\ m_miners = <<>> \/ m_lastSealer # call.sealer
           /\ m_miners' = Started(call.sealer, call.mixed)
    /\ x_minerWork' = t
    /\ Goto(t, "created")
    /\ UNCHANGED <<m_minerType, m_work, m_isMining, m_lastSealer, connected, serviceVars>>

\* start(): m_isMining and m_lastSealer follow, then the timer is armed again.  Without
\* a service thread one is created; with one, the mutex is kept until it is joined.
StartMining(t) ==
    /\ pc[t] = "created"
    /\ m_isMining' = TRUE
    /\ m_lastSealer' = Head(calls[t]).sealer
    /\ armed' = TRUE
    /\ \/ service = "none" /\ service' = "run" /\ x_minerWork' = "free" /\ Return(t)
       \/ service # "none" /\ Goto(t, "reset") /\ UNCHANGED <<service, x_minerWork>>
    /\ UNCHANGED <<m_minerType, m_miners, m_work, connected, stopped, queued>>

\* start(): m_io_service.reset()
ResetService(t) ==
    /\ pc[t] = "reset"
    /\ stopped' = FALSE
    /\ Goto(t, "join")
    /\ UNCHANGED <<minerVars, x_minerWork, connected, service, armed, queued>>

\* start(): m_serviceThread.join() returns, a new thread runs the io_service.
JoinService(t) ==
    /\ pc[t] = "join" /\ service = "exited"
    /\ service' = "run"
    /\ x_minerWork' = "free"
    /\ Return(t)
    /\ UNCHANGED <<minerVars, connected, stopped, armed, queued>>

\* collectHashRate() takes the mutex and reads the miners and m_lastProgresses.
BeginCollect(t) ==
    /\ Calling(t, "collect") /\ Free
    /\ x_minerWork' = t
    /\ Goto(t, "collecting")
    /\ UNCHANGED <<minerVars, connected, serviceVars>>

EndCollect(t) ==
    /\ pc[t] = "collecting"
    /\ x_minerWork' = "free"
    /\ Return(t)
    /\ UNCHANGED <<minerVars, connected, serviceVars>>

\* Mutant: setWork reaches only the miners that wait for work.
SetWork_OnlyIdle(t) ==
    /\ Calling(t, "setWork") /\ Free
    /\ LET p == Head(calls[t]).work
       IN  /\ m_work' = p
           /\ m_miners' = IF p = m_work THEN m_miners
                          ELSE [i \in DOMAIN m_miners |->
                                   IF m_miners[i] = NoWork THEN p ELSE m_miners[i]]
    /\ Return(t)
    /\ UNCHANGED <<m_minerType, m_isMining, m_lastSealer, x_minerWork, connected>>
    /\ UNCHANGED serviceVars

\* setWork() gives a new package to every miner, under the mutex.
SetWork(t) ==
    /\ Calling(t, "setWork") /\ Free
    /\ LET p == Head(calls[t]).work
       IN  /\ m_work' = p
           /\ m_miners' = IF p = m_work THEN m_miners
                          ELSE [i \in DOMAIN m_miners |-> p]
    /\ Return(t)
    /\ UNCHANGED <<m_minerType, m_isMining, m_lastSealer, x_minerWork, connected>>
    /\ UNCHANGED serviceVars

-----------------------------------------------------------------------------
(* The service thread, inside m_io_service.run().                          *)

\* The second is over: the wait moves to the queue of ready handlers.
TimerExpires ==
    /\ service = "run" /\ ~stopped /\ armed /\ queued < MaxQueued
    /\ armed' = FALSE /\ queued' = queued + 1
    /\ UNCHANGED <<minerVars, x_minerWork, connected, calls, pc, service, stopped>>

\* run() calls processHashRate without an error.
RunHandler ==
    /\ service = "run" /\ ~stopped /\ queued > 0
    /\ queued' = queued - 1
    /\ service' = "collect"
    /\ UNCHANGED <<minerVars, x_minerWork, connected, calls, pc, stopped, armed>>

\* processHashRate: collectHashRate() takes the mutex ...
ServiceCollects ==
    /\ service = "collect" /\ Free
    /\ x_minerWork' = "service"
    /\ service' = "collecting"
    /\ UNCHANGED <<minerVars, connected, calls, pc, stopped, armed, queued>>

\* ... and releases it ...
ServiceCollected ==
    /\ service = "collecting"
    /\ x_minerWork' = "free"
    /\ service' = "rearm"
    /\ UNCHANGED <<minerVars, connected, calls, pc, stopped, armed, queued>>

\* Mutant: processHashRate does not wait again.
ServiceRearms_Never ==
    /\ service = "rearm"
    /\ service' = "run"
    /\ UNCHANGED <<minerVars, x_minerWork, connected, calls, pc, stopped, armed, queued>>

\* ... then the timer is armed again.
ServiceRearms ==
    /\ service = "rearm"
    /\ armed' = TRUE
    /\ service' = "run"
    /\ UNCHANGED <<minerVars, x_minerWork, connected, calls, pc, stopped, queued>>

\* run() returns: it was stopped, or has nothing left to wait for, which stops
\* the io_service too.
RunReturns ==
    /\ service = "run" /\ (stopped \/ (~armed /\ queued = 0))
    /\ service' = "exited"
    /\ stopped' = TRUE
    /\ UNCHANGED <<minerVars, x_minerWork, connected, calls, pc, armed, queued>>

-----------------------------------------------------------------------------
Handler ==
    \/ OnConnected \/ OnDisconnected \/ Restart
    \/ \E p \in Works : OnWorkReceived(p)

\* Steps of t that wait for the mutex, and the others.
Locking(t) == \/ StopMiners(t) \/ StartRefused(t) \/ StartMiners(t)
              \/ BeginCollect(t) \/ SetWork(t)
Working(t) == \/ StopMining(t) \/ StopTimer(t) \/ StopService(t) \/ ClearProgresses(t)
              \/ StartMining(t) \/ ResetService(t) \/ JoinService(t) \/ EndCollect(t)

Running == \/ TimerExpires \/ RunHandler \/ ServiceCollected \/ ServiceRearms
           \/ RunReturns

Next == \/ Handler
        \/ \E t \in Threads : Locking(t) \/ Working(t)
        \/ Running \/ ServiceCollects

\* Every thread is scheduled, and the mutex, held for moments at a time, is not
\* taken past the same waiting thread for ever.  Nothing is asked of the pool.
Fairness ==
    /\ \A t \in Threads : SF_vars(Locking(t)) /\ WF_vars(Working(t))
    /\ WF_vars(Running) /\ SF_vars(ServiceCollects)

Spec == Init /\ [][Next]_vars /\ Fairness

-----------------------------------------------------------------------------
(* Properties.                                                             *)

\* A miner works on the farm's package or waits for one: no interleaving of
\* start, stop, restart and setWork leaves a miner on an older package.
NoStaleMiner == \A i \in 1 .. Len(m_miners) : m_miners[i] \in {NoWork, m_work}

\* onDisconnected and onMinerRestart stop the farm only if isMining(), which they
\* read without the mutex.  It denies miners that exist only while the start() that
\* creates them is still between push_back and m_isMining, with the mutex held.
MinersMeanMining ==
    m_miners # <<>> =>
        m_isMining \/ \E t \in Threads : pc[t] = "created" /\ x_minerWork = t

\* A restart through the API may block for ever: see RestartCompletes.
NoRestart == [](calls["api"] = <<>>)

\* A farm of both kinds is started by two calls of start().
OneKind == [](m_minerType # "Mixed")

\* In a farm of one kind, unless somebody restarts the miners through the API and if
\* the io_service thread sees a stop within the 3 s tryReconnect sleeps, every handler
\* of the pool's thread comes to its end, the join in start() included.
HandlersComplete ==
    OneKind /\ NoRestart /\ PromptService => (calls["pool"] # <<>> ~> calls["pool"] = <<>>)

\* Refuted for the default "Mixed": start("opencl", true) joins the service thread
\* start("cuda", false) has just created, which in turn waits for the mutex.
MixedHandlersComplete ==
    NoRestart /\ PromptService => (calls["pool"] # <<>> ~> calls["pool"] = <<>>)

\* Under the same conditions the hash rate keeps being collected while the farm mines:
\* the chain of timer waits survives every stop and start of processHashRate's
\* io_service.
HashRateIsCollected ==
    OneKind /\ NoRestart /\ PromptService => (m_isMining ~> (service = "collecting" \/ ~m_isMining))

\* "Stop all mining activities and Starts them again" (Farm.h:232): a restart
\* requested through the API comes to its end.
RestartCompletes == calls["api"] # <<>> ~> calls["api"] = <<>>
=============================================================================
