----------------------------- MODULE Statistics -----------------------------
(***************************************************************************)
(* The numbers the miner reports, and the simulation client that drives a  *)
(* benchmark of the whole program: the hash counts of the miners, their    *)
(* collection by Farm::collectHashRate, the progress Farm::miningProgress  *)
(* hands out, the solution counters, PoolManager's reporting loop and the  *)
(* display loop of doMiner, and SimulateClient, which gives out a new job  *)
(* whenever a solution has come in.                                        *)
(*                                                                         *)
(* The threads: "timer" (the farm's io service), "client" (the simulation  *)
(* client's workLoop), "loop" (PoolManager's workLoop), "main" (connect,   *)
(* display, stop) and one for each miner.  Difficulties and sensor values  *)
(* are left out; ms is a signed integer, a negative one standing for the   *)
(* uint64_t it wraps to.                                                   *)
(***************************************************************************)
EXTENDS Integers, Sequences, FiniteSets, SequencesExt

CONSTANTS N,                   \* miners
          m_hashrateSmoothInterval,
          Readers,             \* who reports: "main", "loop"
          MaxBatches,          \* bound: batches of the miners and reports of loop and
                               \* main together
          MaxSolutions,        \* bound: solutions and failures together
          MaxTime              \* bound on the clock

ASSUME StatisticsAssumption ==
    /\ N \in Nat \ {0} /\ m_hashrateSmoothInterval \in Nat
    /\ Readers \subseteq {"main", "loop"}
    /\ {MaxBatches, MaxSolutions, MaxTime} \subseteq Nat

VARIABLES
    now,                       \* steady_clock, in units of the timer
    miners,                    \* the indices of the miners in m_miners
    hasWork,                   \* the miners that were given the work
    m_hashCount,
    m_lastStart, m_lastProgresses, m_progress,
    x_minerWork,               \* the thread that holds it, or "free"
    pc, local,                 \* of a thread: its step, its local progress
    armed,                     \* m_hashrateTimer is running
    m_connected, m_uppDifficulty, m_running,
    jobs,                      \* jobs the client has given out
    solutionStats,             \* the counters of m_solutionStats
    reg,                       \* of a miner: the counter it is incrementing
    computed, credited,        \* of a miner: hashes made, hashes collected
    events,                    \* how often each counter was to be incremented
    answer,                    \* jobs that were out when a solution came in
    reads
farmVars   == <<miners, hasWork, m_lastStart, m_lastProgresses, m_progress, armed>>
clientVars == <<m_connected, m_uppDifficulty, m_running, jobs, answer>>
statVars   == <<solutionStats, reg, events>>
hashVars   == <<m_hashCount, computed, credited>>
vars == <<now, farmVars, hashVars, x_minerWork, pc, local, clientVars, statVars,
          reads>>

Threads == {"timer", "client", "loop", "main"}
Miners == 1..N
Counters == {"accepts", "rejects", "failures"}
Zeros == [m \in Miners |-> 0]
Total(s) == FoldLeft(LAMBDA a, b : a + b, 0, s)
Empty == [ms |-> 0, hashes |-> 0, minersHashes |-> <<>>]

Init ==
    /\ now = 0 /\ miners = {} /\ hasWork = {}
    /\ m_hashCount = Zeros /\ computed = Zeros /\ credited = Zeros
    /\ m_lastStart = 0 /\ m_lastProgresses = <<>> /\ m_progress = Empty
    /\ x_minerWork = "free" /\ armed = FALSE
    /\ pc = [t \in Threads |-> IF t = "main" THEN "start" ELSE "idle"]
    /\ local = [t \in Threads |-> Empty]
    /\ m_connected = FALSE /\ m_uppDifficulty = FALSE /\ m_running = FALSE
    /\ jobs = 0 /\ answer = -1
    /\ solutionStats = [c \in Counters |-> 0]
    /\ events = [c \in Counters |-> 0]
    /\ reg = [m \in Miners |-> [counter |-> "none", value |-> 0]]
    /\ reads = 0

WithinBounds == reads + Total([m \in Miners |-> computed[m]]) < MaxBatches

Goto(t, step) == pc' = [pc EXCEPT ![t] = step]
Keep(t, p) == local' = [local EXCEPT ![t] = p]

-----------------------------------------------------------------------------
(* Farm::collectHashRate, by the timer and by the client (in setWork).      *)

\* The call: the time, some of which has passed, is taken before the mutex.
CallCollect(t) == /\ now' \in now..MaxTime
                  /\ Keep(t, [Empty EXCEPT !.ms = now'])
                  /\ Goto(t, "collect")

\* collectHashRate without the mutex
Collect_Unlocked(t) ==
    /\ pc[t] = "collect"
    /\ Keep(t, [local[t] EXCEPT !.ms = @ - m_lastStart])
    /\ m_lastStart' = local[t].ms
    /\ Goto(t, "read")
    /\ UNCHANGED <<now, miners, hasWork, m_lastProgresses, m_progress, armed, x_minerWork,
                   hashVars, clientVars, statVars, reads>>

Collect(t) ==
    /\ pc[t] = "collect" /\ x_minerWork = "free"
    /\ x_minerWork' = t
    /\ Keep(t, [local[t] EXCEPT !.ms = @ - m_lastStart])
    /\ m_lastStart' = local[t].ms
    /\ Goto(t, "read")
    /\ UNCHANGED <<now, miners, hasWork, m_lastProgresses, m_progress, armed,
                   hashVars, clientVars, statVars, reads>>

\* hashCount() of the next miner
ReadCount(t) ==
    LET m == Len(local[t].minersHashes) + 1 IN
    /\ pc[t] = "read" /\ m <= Cardinality(miners)
    /\ Keep(t, [local[t] EXCEPT !.hashes = @ + m_hashCount[m],
                                !.minersHashes = Append(@, m_hashCount[m])])
    /\ credited' = [credited EXCEPT ![m] = @ + m_hashCount[m]]
    /\ UNCHANGED <<now, farmVars, m_hashCount, computed, x_minerWork, pc,
                   clientVars, statVars, reads>>

\* collectHashRate that forgets to reset
ResetCounts_None(t) ==
    /\ pc[t] = "read" /\ Len(local[t].minersHashes) = Cardinality(miners)
    /\ Goto(t, "push")
    /\ UNCHANGED <<now, farmVars, hashVars, x_minerWork, local, clientVars,
                   statVars, reads>>

\* resetHashCount(), after all of them have been read
ResetCounts(t) ==
    /\ pc[t] = "read" /\ Len(local[t].minersHashes) = Cardinality(miners)
    /\ m_hashCount' = [m \in Miners |-> IF m \in miners THEN 0 ELSE m_hashCount[m]]
    /\ Goto(t, "push")
    /\ UNCHANGED <<now, farmVars, computed, credited, x_minerWork, local,
                   clientVars, statVars, reads>>

PushProgress(t) ==
    /\ pc[t] = "push"
    /\ m_lastProgresses' = IF local[t].hashes > 0 THEN Append(m_lastProgresses, local[t])
                           ELSE m_lastProgresses
    /\ Goto(t, "sum")
    /\ UNCHANGED <<now, miners, hasWork, m_lastStart, m_progress, armed, hashVars,
                   x_minerWork, local, clientVars, statVars, reads>>

\* The mutex is given back at the end of collectHashRate.
Return(t) == /\ x_minerWork' = "free"
             /\ Goto(t, IF t = "client" THEN "setWork" ELSE "idle")
             /\ Keep(t, Empty)

\* A sum that wraps below 0 is larger than the interval too.
Exceeds(allMs) == allMs > m_hashrateSmoothInterval \/ allMs < 0

\* The sum of the times: a clear() of stop() in its midst comes to one after it.
Sum(t) ==
    /\ pc[t] = "sum"
    /\ IF Exceeds(Total([k \in DOMAIN m_lastProgresses |-> m_lastProgresses[k].ms]))
       THEN Goto(t, "erase") /\ UNCHANGED <<x_minerWork, local>>
       ELSE Return(t)
    /\ UNCHANGED <<now, farmVars, hashVars, clientVars, statVars, reads>>

\* erase(begin()) of the oldest one ...
Erase(t) ==
    /\ pc[t] = "erase" /\ m_lastProgresses # <<>>
    /\ m_lastProgresses' = Tail(m_lastProgresses)
    /\ Return(t)
    /\ UNCHANGED <<now, miners, hasWork, m_lastStart, m_progress, armed, hashVars,
                   clientVars, statVars, reads>>

\* ... which is undefined if stop() has cleared the vector since the sum was taken:
\* nothing is said of the thread any more.
EraseNothing(t) ==
    /\ pc[t] = "erase" /\ m_lastProgresses = <<>>
    /\ Goto(t, "undefined")
    /\ UNCHANGED <<now, farmVars, hashVars, x_minerWork, local, clientVars, statVars,
                   reads>>

\* processHashRate: the timer is armed again after the collection, or stays
\* off once it was cancelled
Timer ==
    /\ pc["timer"] = "idle" /\ armed
    /\ CallCollect("timer")
    /\ UNCHANGED <<farmVars, hashVars, x_minerWork, clientVars, statVars,
                   reads>>

-----------------------------------------------------------------------------
(* Farm::miningProgress, which returns a reference to m_progress; the       *)
(* callers copy it, member by member, without the mutex.                    *)

MiningProgress(t) ==
    /\ pc[t] = "idle" /\ m_running /\ x_minerWork = "free"
    /\ t = "main" => m_connected
    /\ WithinBounds /\ reads' = reads + 1
    /\ m_progress' =
          [ms     |-> Total([k \in DOMAIN m_lastProgresses |-> m_lastProgresses[k].ms]),
           hashes |-> Total([k \in DOMAIN m_lastProgresses |->
                                m_lastProgresses[k].hashes]),
           minersHashes |->
              [m \in 1..Cardinality(miners) |->
                 Total([k \in DOMAIN m_lastProgresses |->
                          IF m <= Len(m_lastProgresses[k].minersHashes)
                          THEN m_lastProgresses[k].minersHashes[m] ELSE 0])]]
    /\ Goto(t, "copy")
    /\ UNCHANGED <<now, miners, hasWork, m_lastStart, m_lastProgresses, armed,
                   hashVars, x_minerWork, local, clientVars, statVars>>

CopyTotals(t) ==
    /\ pc[t] = "copy"
    /\ Keep(t, [m_progress EXCEPT !.minersHashes = <<>>])
    /\ Goto(t, "copyMiners")
    /\ UNCHANGED <<now, farmVars, hashVars, x_minerWork, clientVars, statVars,
                   reads>>

CopyMiners(t) ==
    /\ pc[t] = "copyMiners"
    /\ Keep(t, [local[t] EXCEPT !.minersHashes = m_progress.minersHashes])
    /\ Goto(t, "report")
    /\ UNCHANGED <<now, farmVars, hashVars, x_minerWork, clientVars, statVars,
                   reads>>

\* The copy is shown, or sent to the pool.
Report(t) ==
    /\ pc[t] = "report"
    /\ Keep(t, Empty)
    /\ Goto(t, "idle")
    /\ UNCHANGED <<now, farmVars, hashVars, x_minerWork, clientVars, statVars,
                   reads>>

-----------------------------------------------------------------------------
(* main: PoolManager::start with SimulateClient::connect, and stop.         *)

Connect ==
    /\ pc["main"] = "start"
    /\ m_running' = TRUE /\ m_connected' = TRUE /\ m_uppDifficulty' = TRUE
    /\ Goto("main", "connect")
    /\ UNCHANGED <<now, farmVars, hashVars, x_minerWork, local, jobs, answer,
                   statVars, reads>>

\* onConnected: Farm::start.  The new miners have no work until setWork.
StartFarm ==
    /\ pc["main"] = "connect" /\ x_minerWork = "free"
    /\ miners' = Miners /\ armed' = TRUE
    /\ Goto("main", "idle")
    /\ UNCHANGED <<now, hasWork, m_lastStart, m_lastProgresses, m_progress,
                   hashVars, x_minerWork, local, clientVars, statVars, reads>>

\* PoolManager::stop: disconnect, then Farm::stop, whose mutex section joins
\* the miners' threads
Stop ==
    /\ pc["main"] = "idle" /\ m_running
    /\ m_running' = FALSE /\ m_connected' = FALSE
    /\ Goto("main", "stop")
    /\ UNCHANGED <<now, farmVars, hashVars, x_minerWork, local, m_uppDifficulty,
                   jobs, answer, statVars, reads>>

ClearMiners ==
    /\ pc["main"] = "stop" /\ x_minerWork = "free"
    /\ \A m \in Miners : reg[m].counter = "none"
    /\ miners' = {} /\ hasWork' = {}
    /\ Goto("main", "clear")
    /\ UNCHANGED <<now, m_lastStart, m_lastProgresses, m_progress, armed, hashVars,
                   x_minerWork, local, clientVars, statVars, reads>>

\* m_hashrateTimer.cancel() and m_lastProgresses.clear(), without the mutex
ClearProgresses ==
    /\ pc["main"] = "clear"
    /\ armed' = FALSE /\ m_lastProgresses' = <<>>
    /\ Goto("main", "done")
    /\ UNCHANGED <<now, miners, hasWork, m_lastStart, m_progress, hashVars,
                   x_minerWork, local, clientVars, statVars, reads>>

-----------------------------------------------------------------------------
(* SimulateClient::workLoop, and PoolManager's onWorkReceived.              *)

TakeJob ==
    /\ pc["client"] = "idle" /\ m_connected /\ m_uppDifficulty
    /\ m_uppDifficulty' = FALSE
    /\ CallCollect("client")
    /\ UNCHANGED <<farmVars, hashVars, x_minerWork, m_connected, m_running,
                   jobs, answer, statVars, reads>>

\* Farm::setWork: every job of the simulation has a header of its own
SetWork ==
    /\ pc["client"] = "setWork" /\ x_minerWork = "free"
    /\ hasWork' = miners
    /\ jobs' = jobs + 1
    /\ Goto("client", "idle")
    /\ UNCHANGED <<now, miners, m_lastStart, m_lastProgresses, m_progress, armed,
                   hashVars, x_minerWork, local, m_connected, m_uppDifficulty,
                   m_running, answer, statVars, reads>>

-----------------------------------------------------------------------------
(* The miners' threads.                                                     *)

\* addHashCount after a batch
AddHashCount(m) ==
    /\ m \in hasWork /\ reg[m].counter = "none" /\ WithinBounds
    /\ m_hashCount' = [m_hashCount EXCEPT ![m] = @ + 1]
    /\ computed' = [computed EXCEPT ![m] = @ + 1]
    /\ UNCHANGED <<now, farmVars, credited, x_minerWork, pc, local, clientVars,
                   statVars, reads>>

Begin(m, c) == /\ m \in hasWork /\ reg[m].counter = "none"
               /\ Total([k \in 1..3 |-> events[<<"accepts", "rejects", "failures">>[k]]])
                     < MaxSolutions
               /\ events' = [events EXCEPT ![c] = @ + 1]
               /\ reg' = [reg EXCEPT ![m] = [counter |-> c, value |-> solutionStats[c]]]

\* submitSolution that asks for more only when the solution was good
Submit_OnlyAccepted(m) ==
    /\ \E c \in {"accepts", "rejects"} :
          Begin(m, c) /\ m_uppDifficulty' = (m_uppDifficulty \/ c = "accepts")
    /\ answer' = jobs
    /\ UNCHANGED <<now, farmVars, hashVars, x_minerWork, pc, local, m_connected,
                   m_running, jobs, solutionStats, reads>>

\* SimulateClient::submitSolution, on the miner's thread: the request for
\* more difficulty, the evaluation, and the farm's counter read
Submit(m) ==
    /\ \E c \in {"accepts", "rejects"} : Begin(m, c)
    /\ m_uppDifficulty' = TRUE
    /\ answer' = jobs
    /\ UNCHANGED <<now, farmVars, hashVars, x_minerWork, pc, local, m_connected,
                   m_running, jobs, solutionStats, reads>>

\* A result of the GPU that the CPU does not confirm: failedSolution
Fail(m) == /\ Begin(m, "failures")
           /\ UNCHANGED <<now, farmVars, hashVars, x_minerWork, pc, local,
                          clientVars, solutionStats, reads>>

\* ... and the counter written back: ++ of an unsigned without a lock
Increment(m) ==
    /\ reg[m].counter # "none"
    /\ solutionStats' = [solutionStats EXCEPT ![reg[m].counter] = reg[m].value + 1]
    /\ reg' = [reg EXCEPT ![m] = [counter |-> "none", value |-> 0]]
    /\ UNCHANGED <<now, farmVars, hashVars, x_minerWork, pc, local, clientVars,
                   events, reads>>

-----------------------------------------------------------------------------
ClientStep == TakeJob \/ SetWork
Collector(t) == Collect(t) \/ ReadCount(t) \/ ResetCounts(t) \/ PushProgress(t)
                \/ Sum(t) \/ Erase(t) \/ EraseNothing(t)
Reader(t) == MiningProgress(t) \/ CopyTotals(t) \/ CopyMiners(t) \/ Report(t)

Next == \/ Timer \/ Connect \/ StartFarm \/ Stop \/ ClearMiners
        \/ ClearProgresses \/ ClientStep
        \/ \E t \in {"timer", "client"} : Collector(t)
        \/ \E t \in Readers : Reader(t)
        \/ \E m \in Miners : AddHashCount(m) \/ Submit(m) \/ Fail(m) \/ Increment(m)

\* The client's loop and the threads inside a call go on; a miner need not
\* find anything and nobody need ask or stop.
Fairness == /\ WF_vars(ClientStep) /\ WF_vars(Connect) /\ WF_vars(StartFarm)
            /\ \A t \in {"timer", "client"} : SF_vars(Collector(t))
            /\ SF_vars(SetWork)
            /\ \A m \in Miners : WF_vars(Increment(m))

Spec == Init /\ [][Next]_vars /\ Fairness

-----------------------------------------------------------------------------
\* No hash is counted twice: what collectHashRate credited a miner with and
\* what its counter still holds is never more than it computed, although
\* the timer and the pool client collect concurrently and the miners count
\* on between the reading and the resetting of their counters.
HashesCountedOnce ==
    \A m \in Miners : credited[m] + m_hashCount[m] <= computed[m]
                      \/ \E t \in Threads : pc[t] = "read"

\* The smoothing of collectHashRate has a progress to erase, although two threads
\* collect and times may wrap: it does so after it has found that there is one, unless
\* stop() has cleared the vector in the meantime (Farm.h:182).
EraseFindsProgress ==
    \A t \in Threads : pc[t] = "erase" => m_lastProgresses # <<>> \/ pc["main"] = "done"

\* Refuted: stop() clears m_lastProgresses without the mutex, between the sum and the
\* erase of a collection under way, whose erase(begin()) is then undefined.
EraseIsDefined == \A t \in Threads : pc[t] = "erase" => m_lastProgresses # <<>>

\* Every solution submitted to the simulation client, right or wrong, is
\* answered with a job that was not out yet when it came in, unless the
\* program is stopped: a request made while the client is giving out a job is
\* not forgotten, and no collector keeps the client from the mutex.
SolutionBringsJob == [](answer = jobs => <>(jobs > answer \/ ~m_connected))

\* Refuted: connect() sets m_connected before it starts the farm, and the client's loop
\* runs since the constructor.  It may give out the first job to no miners, and no
\* solution will ask for another one (SimulateClient.cpp:24-28).
MinersGetWork == [](m_connected => <>(hasWork = Miners \/ ~m_connected))

\* Farm is documented as thread-safe: what miningProgress returns is one
\* state of the farm, with a time that has passed, and every solution is
\* counted.
FarmIsThreadSafe ==
    /\ \A t \in Readers : pc[t] = "report" =>
          /\ local[t].ms \in 0..now
          /\ local[t].hashes = Total(local[t].minersHashes)
    /\ (\A m \in Miners : reg[m].counter = "none") => solutionStats = events
=============================================================================
