---------------------------- MODULE StratumPool -----------------------------
(***************************************************************************)
(* EthStratumClient (libpoolprotocols/stratum) driven by PoolManager       *)
(* (libpoolprotocols/PoolManager.cpp): one io_service thread runs the      *)
(* completion handlers one after the other.  The miners' threads run       *)
(* submitSolution at any time; a handler may run between any two of its    *)
(* assignments.  A handler is one step: what a thread does inside it comes *)
(* to the same as done before or after it.                                 *)
(*                                                                         *)
(* boost::asio queues the handler of an operation when it completes, and   *)
(* cancelling or closing afterwards does not take it back: an expired wait *)
(* or a failed connect is counted until its handler runs.                  *)
(***************************************************************************)
EXTENDS Integers, Sequences, PoolFailover

CONSTANTS
    Jobs,               \* header hashes the pool notifies
    NoJob,              \* h256(), m_current before the first notification
    Submitters,         \* the miners' threads that hand in solutions
    m_worktimeout,      \* what the work timer counts down from, in ticks
    Version,            \* StratumProtocol of every connection
    MaxFlight,          \* bound: solutions the pool has not answered
    MaxWrites,          \* bound: writes whose handler has not run
    MaxAttempts,        \* bound: connects begun and not finished
    MaxDue              \* bound: expired waits of one timer, handlers not run

ASSUME JobsAssumption == NoJob \notin Jobs
ASSUME PoolAssumption ==
    /\ MaxFlight \in Nat /\ MaxWrites \in Nat
    /\ MaxAttempts \in Nat \ {0} /\ MaxDue \in Nat /\ m_worktimeout \in Nat \ {0}
    /\ Version \in {"STRATUM", "ETHPROXY", "ETHEREUMSTRATUM"}

VARIABLES
    m_connected, m_pending, m_response_pending, m_stale, m_current,
    m_running, m_reconnectTry, m_activeConnectionIdx,
    mining,             \* the farm has no miners, miners without work or with it
    io,                 \* the io_service thread: in run() or in disconnect()
    session,            \* how far the login has got on the current socket
    resolving,          \* resolves begun
    connecting,         \* TRUE iff a connect is under way on the current socket
    aborted,            \* connects that were aborted, handler not run yet
    reading,            \* TRUE iff a read is under way on the current socket
    abortedReads,       \* reads that failed, handler not run yet
    writes,             \* writes whose handler has not run yet
    worktimer,          \* ticks left to wait; 0 when no wait is pending
    responsetimer,      \* TRUE iff a wait is pending
    workDue, responseDue,   \* expired waits, handler not run yet
    flight,             \* what each unanswered solution is to be counted as
    submit              \* where each miner's thread is in submitSolution

poolVars == <<m_running, m_reconnectTry, m_activeConnectionIdx>>
linkVars == <<session, resolving, connecting, aborted>>
readVars == <<m_pending, reading, abortedReads>>
timerVars == <<worktimer, responsetimer, workDue, responseDue>>
solutionVars == <<m_response_pending, m_stale, flight, submit>>
vars == <<m_connected, m_current, mining, io, writes, poolVars, linkVars,
          readVars, timerVars, solutionVars>>

\* What the verdict on a solution is to be counted as.  "lost": nothing is said of it,
\* because new work came before the client noted that it waits for the verdict, or
\* because another solution has taken m_stale since.
Share == {"fresh", "stale", "lost"}

\* Behind line 640, behind 663 (a Share), behind 665 and behind 667.
SubmitPC == {"idle", "cancelled", "written", "waiting"} \cup Share

\* No miner is inside submitSolution.
Quiet == \A t \in Submitters : submit[t] = "idle"

Count(b) == IF b THEN 1 ELSE 0

TypeOK ==
    /\ m_connected \in BOOLEAN /\ m_response_pending \in BOOLEAN
    /\ m_stale \in BOOLEAN /\ m_running \in BOOLEAN /\ mining \in {"no", "idle", "working"}
    /\ m_pending \in Nat
    /\ m_current \in Jobs \cup {NoJob}
    /\ m_reconnectTry \in 0 .. Tries
    /\ m_activeConnectionIdx \in 1 .. NumConnections
    /\ io \in {"run", "closing", "waiting", "ended"}
    /\ session \in {"none", "open", "subscribed", "authorized"}
    /\ resolving \in Nat /\ connecting \in BOOLEAN /\ aborted \in Nat
    /\ reading \in BOOLEAN /\ abortedReads \in Nat /\ writes \in Nat
    /\ worktimer \in 0 .. m_worktimeout /\ responsetimer \in BOOLEAN
    /\ workDue \in Nat /\ responseDue \in Nat
    /\ flight \in Seq(Share) /\ submit \in [Submitters -> SubmitPC]

\* After PoolManager::start: the first connect() has begun to resolve.
Init ==
    /\ m_connected = FALSE /\ m_response_pending = FALSE /\ m_stale = FALSE
    /\ m_running = TRUE /\ mining = "no"
    /\ m_pending = 0 /\ m_current = NoJob
    /\ m_reconnectTry = 0 /\ m_activeConnectionIdx = 1
    /\ io = "run" /\ session = "none"
    /\ resolving = 1 /\ connecting = FALSE /\ aborted = 0
    /\ reading = FALSE /\ abortedReads = 0 /\ writes = 0
    /\ worktimer = 0 /\ responsetimer = FALSE /\ workDue = 0 /\ responseDue = 0
    /\ flight = <<>> /\ submit = [t \in Submitters |-> "idle"]

-----------------------------------------------------------------------------
(* disconnect() and what PoolManager does in onDisconnected.               *)

\* m_pending once readResponse has counted its read down.
pendingAfterRead == IF m_pending > 0 THEN m_pending - 1 ELSE 0

\* The connection attempts that are under way.
Attempts == resolving + Count(connecting) + aborted

\* disconnect(), up to its call of m_onDisconnected, in the handler of event ev.
\* Whatever else is under way on the socket fails when it is closed.
Disconnect(ev) ==
    /\ io = "run"
    /\ Attempts - Count(ev \in {"resolve", "connect", "abort"}) < MaxAttempts
    /\ resolving' = resolving - Count(ev = "resolve")
    /\ connecting' = FALSE
    /\ aborted' = aborted - Count(ev = "abort") + Count(connecting /\ ev # "connect")
    /\ reading' = FALSE
    /\ abortedReads' = abortedReads - Count(ev = "abortedRead") + Count(reading /\ ev # "read")
    /\ m_pending' = IF ev \in {"read", "abortedRead"} THEN pendingAfterRead ELSE m_pending
    /\ worktimer' = 0 /\ workDue' = workDue - Count(ev = "work")
    /\ responsetimer' = FALSE /\ responseDue' = responseDue - Count(ev = "response")
    /\ m_response_pending' = FALSE
    /\ session' = "none" /\ flight' = <<>>
    /\ m_connected' = FALSE
    /\ io' = "closing"
    /\ UNCHANGED <<m_stale, submit, m_current, writes, poolVars>>

\* onDisconnected: Farm::stop() waits for the miners, then tryReconnect sleeps.
StopFarm ==
    /\ io = "closing" /\ Quiet
    /\ mining' = "no"
    /\ io' = IF m_running THEN "waiting" ELSE "ended"
    /\ UNCHANGED <<m_connected, m_current, writes, poolVars, linkVars, readVars,
                   timerVars, solutionVars>>

\* connect(): a new socket and a name to resolve; io_service::reset takes back the
\* stop of disconnect(), so that the io thread stays in run().
connect ==
    /\ m_connected' = FALSE
    /\ resolving' = resolving + 1
    /\ io' = "run"

\* tryReconnect after its three seconds, longer than the two of the response
\* timer: the same connection, the next one, or stop() for the host "exit".  It does
\* not look at m_running again.
TryReconnect ==
    /\ io = "waiting"
    /\ m_reconnectTry' = NextTry(m_reconnectTry)
    /\ m_activeConnectionIdx' = NextConnection(m_activeConnectionIdx, m_reconnectTry)
    /\ IF Exits(m_activeConnectionIdx, m_reconnectTry)
       THEN m_running' = FALSE /\ io' = "ended" /\ UNCHANGED <<m_connected, resolving>>
       ELSE connect /\ UNCHANGED m_running
    /\ responsetimer' = FALSE
    /\ responseDue' = responseDue + Count(responsetimer)
    /\ UNCHANGED <<m_current, mining, writes, session, connecting, aborted, readVars,
                   worktimer, workDue, solutionVars>>

-----------------------------------------------------------------------------
(* Connecting.                                                             *)

\* resolve_handler: async_connect closes the socket before it tries, so what
\* another attempt has under way there is aborted.
Resolved ==
    /\ io = "run" /\ resolving > 0
    /\ resolving' = resolving - 1
    /\ connecting' = TRUE /\ aborted' = aborted + Count(connecting)
    /\ reading' = FALSE /\ abortedReads' = abortedReads + Count(reading)
    /\ session' = "none" /\ flight' = <<>>
    /\ UNCHANGED <<m_connected, m_current, mining, io, writes, poolVars, m_pending,
                   timerVars, m_response_pending, m_stale, submit>>

\* resolve_handler with an error.
ResolveFails ==
    /\ resolving > 0
    /\ Disconnect("resolve")
    /\ UNCHANGED mining

\* onConnected: Farm::start() unless isMining(); new miners wait for work.
SpinUp == mining' = IF mining = "no" THEN "idle" ELSE mining

\* Mutant: the work timer does not run until the first job.
Connected_NoTimer ==
    /\ io = "run" /\ connecting /\ writes < MaxWrites /\ workDue < MaxDue
    /\ connecting' = FALSE
    /\ m_connected' = TRUE
    /\ SpinUp
    /\ session' = "open"
    /\ writes' = writes + 1
    /\ UNCHANGED <<m_current, io, poolVars, resolving, aborted, readVars,
                   timerVars, solutionVars>>

\* connect_handler: onConnected spins up the miners, the work timer starts and
\* the subscription or login is written.
Connected ==
    /\ io = "run" /\ connecting /\ writes < MaxWrites /\ workDue < MaxDue
    /\ connecting' = FALSE
    /\ m_connected' = TRUE
    /\ SpinUp
    /\ worktimer' = m_worktimeout
    /\ session' = "open"
    /\ writes' = writes + 1
    /\ UNCHANGED <<m_current, io, poolVars, resolving, aborted, readVars,
                   workDue, responsetimer, responseDue, solutionVars>>

\* connect_handler: the connection is made but the TLS handshake fails.
HandshakeFails ==
    /\ connecting
    /\ SpinUp
    /\ Disconnect("connect")

\* connect_handler with an error.
ConnectFails ==
    /\ \/ connecting /\ Disconnect("connect")
       \/ aborted > 0 /\ Disconnect("abort")
    /\ UNCHANGED mining

-----------------------------------------------------------------------------
(* Writing and reading.                                                    *)

\* Mutant: readline() does not look at m_pending.
readline_Unchecked(pendingNow) ==
    /\ m_pending' = pendingNow + 1
    /\ reading' = (session # "none")
    /\ abortedReads' = abortedReads + Count(session = "none")

\* readline(): at most one read at a time; a read of a socket that is not
\* connected fails at once.
readline(pendingNow) ==
    IF pendingNow = 0
    THEN /\ m_pending' = 1
         /\ reading' = (session # "none")
         /\ abortedReads' = abortedReads + Count(session = "none")
    ELSE m_pending' = pendingNow /\ UNCHANGED <<reading, abortedReads>>

\* handleResponse: a write has ended, well or with an error.
HandleResponse ==
    /\ io = "run" /\ writes > 0
    /\ writes' = writes - 1
    /\ readline(m_pending) \/ UNCHANGED readVars
    /\ UNCHANGED <<m_connected, m_current, mining, io, poolVars, linkVars,
                   timerVars, solutionVars>>

\* readResponse with a line: m_pending goes down, processReponse does the rest
\* and, being connected, the client reads on.
ReadLine ==
    /\ io = "run" /\ reading
    /\ readline(pendingAfterRead)
    /\ UNCHANGED <<m_connected, io, m_running, m_activeConnectionIdx,
                   resolving, connecting, aborted>>

\* readResponse with an error on the current socket.
ReadFails ==
    /\ reading /\ m_connected
    /\ Disconnect("read")
    /\ UNCHANGED mining

\* readResponse for a read that was aborted: while the client is connected
\* again, the old read takes the new connection down.
ReadAborted ==
    /\ io = "run" /\ abortedReads > 0
    /\ \/ m_connected /\ Disconnect("abortedRead")
       \/ /\ ~m_connected
          /\ abortedReads' = abortedReads - 1
          /\ m_pending' = pendingAfterRead
          /\ UNCHANGED <<m_connected, m_current, io, writes, poolVars, linkVars,
                         reading, timerVars, solutionVars>>
    /\ UNCHANGED mining

\* processReponse, id 1: the subscription is answered with the authorization,
\* the login of eth-proxy with a request for work.
Subscribed ==
    /\ ReadLine
    /\ session = "open" /\ writes < MaxWrites
    /\ session' = IF Version = "ETHPROXY" THEN "authorized" ELSE "subscribed"
    /\ writes' = writes + 1
    /\ UNCHANGED <<m_current, mining, m_reconnectTry, timerVars, solutionVars>>

\* processReponse, id 3 with a true result.
Authorized ==
    /\ ReadLine
    /\ session = "subscribed"
    /\ session' = "authorized"
    /\ UNCHANGED <<m_current, mining, m_reconnectTry, timerVars, solutionVars, writes>>

\* processReponse, id 3 with a false result: disconnect() runs inside the read's
\* handler, and the client, connected no more, does not read on.
Denied ==
    /\ reading /\ session = "subscribed"
    /\ Disconnect("read")
    /\ UNCHANGED mining

\* Mutant: a notification leaves the verdict on the pending solution alone.
Stales_Never == UNCHANGED m_stale

\* Any notification makes the pending solution stale.
Stales == m_stale' = (m_stale \/ m_response_pending)

\* Mutant: the header is not compared with the current one.
IsWork_Always(job) == TRUE

\* A header the client already has is work under EthereumStratum only.
IsWork(job) == Version = "ETHEREUMSTRATUM" \/ job # m_current

\* A solution that is out when the header changes is stale, and noticed to be if the
\* client waits for a verdict.
Outdated(share) == IF share # "fresh" THEN share
                   ELSE IF m_response_pending THEN "stale" ELSE "lost"

\* processReponse, mining.notify, with onWorkReceived.  One that a miner is about to
\* write is stale without notice.
Notify(job) ==
    LET new == IsWork(job)
    IN  /\ ReadLine
        /\ session \in {"subscribed", "authorized"}
        /\ new => workDue < MaxDue
        /\ Stales
        /\ flight' = [i \in DOMAIN flight |->
                         IF job = m_current THEN flight[i] ELSE Outdated(flight[i])]
        /\ submit' = [t \in Submitters |->
                         IF job # m_current /\ submit[t] = "fresh" THEN "lost" ELSE submit[t]]
        /\ mining' = IF new /\ mining # "no" THEN "working" ELSE mining
        /\ m_current' = job
        /\ m_reconnectTry' = IF new THEN 0 ELSE m_reconnectTry
        /\ worktimer' = IF new THEN m_worktimeout ELSE worktimer
        /\ UNCHANGED <<session, workDue, responsetimer, responseDue, m_response_pending,
                       writes>>

\* processReponse, id 4: accepted or rejected, as m_stale says.
SolutionAnswered ==
    /\ ReadLine
    /\ flight # <<>>
    /\ responsetimer' = FALSE
    /\ m_response_pending' = FALSE
    /\ flight' = Tail(flight)
    /\ UNCHANGED <<m_current, mining, m_reconnectTry, session, worktimer, workDue,
                   responseDue, m_stale, submit, writes>>

\* processReponse, client.get_version.
GetVersion ==
    /\ ReadLine
    /\ writes < MaxWrites
    /\ writes' = writes + 1
    /\ UNCHANGED <<m_current, mining, m_reconnectTry, session, timerVars, solutionVars>>

\* A line that changes none of this state: another id or method, or no JSON.
OtherLine ==
    /\ ReadLine
    /\ UNCHANGED <<m_current, mining, m_reconnectTry, session, timerVars, solutionVars,
                   writes>>

-----------------------------------------------------------------------------
(* Timers, solutions and the end.                                          *)

\* Time passes; when a wait ends its handler is queued.
WorkTimerTicks ==
    /\ worktimer > 0
    /\ worktimer' = worktimer - 1
    /\ workDue' = workDue + Count(worktimer = 1)
    /\ UNCHANGED <<m_connected, m_current, mining, io, writes, poolVars, linkVars,
                   readVars, responsetimer, responseDue, solutionVars>>
ResponseTimerExpires ==
    /\ responsetimer
    /\ responsetimer' = FALSE /\ responseDue' = responseDue + 1
    /\ UNCHANGED <<m_connected, m_current, mining, io, writes, poolVars, linkVars,
                   readVars, worktimer, workDue, solutionVars>>

\* work_timeout_handler
WorkTimeout ==
    /\ workDue > 0
    /\ Disconnect("work")
    /\ UNCHANGED mining

\* response_timeout_handler
ResponseTimeout ==
    /\ responseDue > 0
    /\ Disconnect("response")
    /\ UNCHANGED mining

At(t, l) == submit' = [submit EXCEPT ![t] = l]

\* submitSolution, in a miner's thread: the response timer is cancelled ...
SubmitSolution(t) ==
    /\ submit[t] = "idle" /\ mining = "working"
    /\ writes < MaxWrites /\ responseDue < MaxDue /\ Len(flight) < MaxFlight
    /\ responsetimer' = FALSE
    /\ At(t, "cancelled")
    /\ UNCHANGED <<m_connected, m_current, mining, io, writes, poolVars, linkVars, readVars,
                   worktimer, workDue, responseDue, m_response_pending, m_stale, flight>>

\* ... m_stale is taken, from the solutions that are out too ...
TakeStale(t, stale) ==
    /\ submit[t] = "cancelled"
    /\ m_stale' = stale
    /\ submit' = [u \in Submitters |-> IF u = t THEN (IF stale THEN "stale" ELSE "fresh")
                                      ELSE IF submit[u] \in Share THEN "lost" ELSE submit[u]]
    /\ flight' = [i \in DOMAIN flight |-> "lost"]
    /\ UNCHANGED <<m_connected, m_current, mining, io, writes, poolVars, linkVars, readVars,
                   timerVars, m_response_pending>>

\* ... the solution is written; on a closed socket the write fails ...
WriteSolution(t) ==
    /\ submit[t] \in Share
    /\ writes' = writes + 1
    /\ flight' = IF session = "none" THEN flight ELSE Append(flight, submit[t])
    /\ At(t, "written")
    /\ UNCHANGED <<m_connected, m_current, mining, io, poolVars, linkVars, readVars,
                   timerVars, m_response_pending, m_stale>>

\* ... the client notes that it waits for a verdict ...
AwaitVerdict(t) ==
    /\ submit[t] = "written"
    /\ m_response_pending' = TRUE
    /\ At(t, "waiting")
    /\ UNCHANGED <<m_connected, m_current, mining, io, writes, poolVars, linkVars, readVars,
                   timerVars, m_stale, flight>>

\* Mutant: the response timer is cancelled after the new wait, not before it.
ArmTimer_CancelsLast(t) ==
    /\ submit[t] = "waiting"
    /\ responsetimer' = FALSE
    /\ At(t, "idle")
    /\ UNCHANGED <<m_connected, m_current, mining, io, writes, poolVars, linkVars, readVars,
                   worktimer, workDue, responseDue, m_response_pending, m_stale, flight>>

\* ... and the timer is armed.
ArmTimer(t) ==
    /\ submit[t] = "waiting"
    /\ responsetimer' = TRUE
    /\ At(t, "idle")
    /\ UNCHANGED <<m_connected, m_current, mining, io, writes, poolVars, linkVars, readVars,
                   worktimer, workDue, responseDue, m_response_pending, m_stale, flight>>

\* onMinerRestart, in the API's thread and whatever the connection is: stop() waits
\* for the miners, start() makes new ones.
MinerRestart ==
    /\ io # "ended" /\ Quiet
    /\ mining' = "idle"
    /\ UNCHANGED <<m_connected, m_current, io, writes, poolVars, linkVars, readVars,
                   timerVars, solutionVars>>

\* PoolManager::stop in the main thread, wherever the io thread is ...
Stop ==
    /\ m_running
    /\ m_running' = FALSE
    /\ UNCHANGED <<m_connected, m_current, mining, io, writes, m_reconnectTry,
                   m_activeConnectionIdx, linkVars, readVars, timerVars, solutionVars>>

\* ... disconnects, stops the farm and exits the process.
Shutdown ==
    /\ ~m_running /\ io # "ended" /\ Quiet
    /\ m_connected' = FALSE /\ mining' = "no"
    /\ io' = "ended"
    /\ UNCHANGED <<m_current, writes, poolVars, linkVars, readVars, timerVars,
                   solutionVars>>

\* Once stopped, nothing happens any more.
Ended == io = "ended" /\ UNCHANGED vars

Connecting == Resolved \/ ResolveFails \/ Connected \/ HandshakeFails \/ ConnectFails
Reading == \/ Subscribed \/ Authorized \/ Denied \/ SolutionAnswered \/ GetVersion
           \/ OtherLine \/ ReadFails \/ \E job \in Jobs : Notify(job)
Timing == WorkTimerTicks \/ ResponseTimerExpires
Submitting(t) == \/ SubmitSolution(t) \/ WriteSolution(t) \/ AwaitVerdict(t) \/ ArmTimer(t)
                 \/ \E stale \in BOOLEAN : TakeStale(t, stale)

Next == \/ StopFarm \/ TryReconnect \/ Connecting \/ HandleResponse \/ Reading
        \/ ReadAborted \/ (io # "ended" /\ Timing) \/ WorkTimeout \/ ResponseTimeout
        \/ (\E t \in Submitters : Submitting(t)) \/ MinerRestart
        \/ Stop \/ Shutdown \/ Ended

\* The io thread runs what is queued, and a connect attempt ends; a work timer
\* nothing re-arms expires. The pool need not answer, no solution need be found.
Fairness ==
    /\ WF_vars(StopFarm) /\ WF_vars(TryReconnect) /\ WF_vars(Connecting)
    /\ WF_vars(HandleResponse) /\ WF_vars(ReadAborted)
    /\ WF_vars(WorkTimeout) /\ WF_vars(ResponseTimeout)
    /\ WF_vars(m_current = NoJob /\ WorkTimerTicks)

Spec == Init /\ [][Next]_vars /\ Fairness

-----------------------------------------------------------------------------
(* Properties.                                                             *)

\* At most one read is under way, on whichever socket, and m_pending counts it,
\* so m_responseBuffer has one reader (readline, readResponse).
OneReadPending == m_pending = Count(reading) + abortedReads

\* Miners have work only while the client is connected, or until the disconnect under
\* way has stopped them; those the API restarts meanwhile wait for some (PoolManager's
\* onConnected, onDisconnected and onMinerRestart).
MiningMeansConnected == mining = "working" => m_connected \/ io = "closing"

\* While the client runs, a connection attempt or the work timer is under way: it
\* never waits for a silent pool for ever (connect, disconnect, reset_work_timeout).
NeverIdle == io = "run" => Attempts > 0 \/ worktimer > 0 \/ workDue > 0

\* The verdict on a share is not counted as fresh if the miner said it is stale or if
\* work arrived while the client waited for the verdict, as long as no other share is
\* handed in before the verdict (m_stale, processReponse).
StaleIsNotFresh == \A i \in 1 .. Len(flight) : flight[i] = "stale" => m_stale

\* Refuted: work that arrives between lines 663 and 667 of submitSolution, before
\* m_response_pending is set, or another share leaves m_stale false.
OutdatedIsNotFresh == \A i \in 1 .. Len(flight) : flight[i] # "fresh" => m_stale

\* A solution the client waits for is timed: the response timer runs or has expired,
\* although submitSolution and every answer cancel it.  Inside submitSolution, between
\* the cancellation and the new wait, it is not (m_response_pending).
SolutionIsTimed == m_response_pending /\ Quiet => responsetimer \/ responseDue > 0

\* While a session stays up and works on the same job, nothing puts the work timer
\* back (--work-timeout; reset_work_timeout in processReponse).  Under EthereumStratum
\* every notification does.
SameJobTimesOut ==
    [][Version # "ETHEREUMSTRATUM" /\ m_connected /\ m_connected' /\ session # "none"
       /\ m_current' = m_current => worktimer' <= worktimer]_vars

\* A first pool that gives no work is left for the next one after the retries,
\* whether it cannot be reached, denies the login or says nothing.
Failover == m_current = NoJob /\ m_activeConnectionIdx = 1
               ~> m_current # NoJob \/ m_activeConnectionIdx # 1 \/ ~m_running
=============================================================================
