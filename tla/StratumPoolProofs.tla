------------------------- MODULE StratumPoolProofs --------------------------
(***************************************************************************)
(* Safety of the stratum client under the pool manager, for any number of  *)
(* jobs, connections, retries and outstanding events.                      *)
(***************************************************************************)
EXTENDS StratumPool, TLAPS

(* The counters and flags the invariants are about, with their types.      *)
CountersOK ==
    /\ m_pending \in Nat /\ abortedReads \in Nat /\ reading \in BOOLEAN
    /\ resolving \in Nat /\ aborted \in Nat /\ connecting \in BOOLEAN
    /\ workDue \in Nat /\ worktimer \in Nat
    /\ m_connected \in BOOLEAN /\ mining \in {"no", "idle", "working"}

\* A socket on which a read is under way has been connected, and an attempt or a
\* timer is pending even before the io thread is back in run().
ClientInv ==
    /\ CountersOK
    /\ OneReadPending /\ m_pending <= 1
    /\ MiningMeansConnected
    /\ NeverIdle
    /\ reading => session # "none"
    /\ session # "none" => m_connected \/ io = "ended"
    /\ io # "run" => ~m_connected

\* The client's initial state satisfies the invariant.
LEMMA InitClient == Init => ClientInv
<1> SUFFICES ASSUME Init PROVE ClientInv
  OBVIOUS
<1>1. CountersOK
  BY DEF Init, CountersOK
<1>2. OneReadPending /\ m_pending <= 1 /\ NeverIdle
  BY DEF Init, OneReadPending, NeverIdle, Attempts, Count
<1>3. MiningMeansConnected
  BY DEF Init, MiningMeansConnected
<1>4. /\ reading => session # "none"
      /\ session # "none" => m_connected \/ io = "ended"
      /\ io # "run" => ~m_connected
  BY DEF Init
<1> QED
  BY <1>1, <1>2, <1>3, <1>4 DEF ClientInv

\* disconnect() preserves it, whichever handler it runs in.
LEMMA DisconnectClient ==
  ASSUME NEW ev, ClientInv, Disconnect(ev), mining' \in {"no", "idle", "working"},
         ev = "resolve" => resolving > 0, ev = "abort" => aborted > 0,
         ev = "read" => reading, ev = "abortedRead" => abortedReads > 0,
         ev = "connect" => connecting, ev = "work" => workDue > 0
  PROVE  ClientInv'
<1>1. CountersOK'
  <2>1. m_pending' \in Nat
    BY DEF ClientInv, CountersOK, Disconnect, pendingAfterRead
  <2>2. resolving' \in Nat /\ aborted' \in Nat
    BY DEF ClientInv, CountersOK, Disconnect, Count
  <2>3. abortedReads' \in Nat
    BY DEF ClientInv, CountersOK, Disconnect, Count
  <2>4. workDue' \in Nat /\ worktimer' \in Nat
    BY DEF ClientInv, CountersOK, Disconnect, Count
  <2> QED
    BY <2>1, <2>2, <2>3, <2>4 DEF CountersOK, Disconnect
<1>2. OneReadPending' /\ m_pending' <= 1
  BY DEF ClientInv, CountersOK, Disconnect, OneReadPending, Count, pendingAfterRead
<1>3. MiningMeansConnected' /\ NeverIdle'
  BY DEF Disconnect, MiningMeansConnected, NeverIdle
<1>4. /\ reading' => session' # "none"
      /\ session' # "none" => m_connected' \/ io' = "ended"
      /\ io' # "run" => ~m_connected'
  BY DEF Disconnect
<1> QED
  BY <1>1, <1>2, <1>3, <1>4 DEF ClientInv

\* The handlers of a line that was read preserve it.
LEMMA ReadLineClient ==
  ASSUME ClientInv, ReadLine,
         mining' = mining \/ (mining' = "working" /\ session # "none"),
         session # "none", session' # "none",
         worktimer' \in Nat, workDue' \in Nat,
         worktimer > 0 \/ workDue > 0 => worktimer' > 0 \/ workDue' > 0
  PROVE  ClientInv'
<1>1. reading /\ m_pending = 1 /\ abortedReads = 0
  BY DEF ClientInv, CountersOK, ReadLine, OneReadPending, Count
<1>2. m_pending' = 1 /\ reading' = (session # "none") /\ abortedReads' = 0 + Count(session = "none")
  BY <1>1 DEF ReadLine, readline, pendingAfterRead
<1>3. Count(session = "none") = 0
  BY DEF Count
<1>4. abortedReads' = 0
  BY <1>2, <1>3
<1>5. reading' = TRUE
  BY <1>2, Zenon
<1>6. m_pending' = 1 /\ reading' = TRUE /\ abortedReads' = 0
  BY <1>2, <1>4, <1>5
<1>7. CountersOK' /\ OneReadPending' /\ m_pending' <= 1
  BY <1>6 DEF ClientInv, CountersOK, ReadLine, OneReadPending, Count
<1>8. MiningMeansConnected' /\ NeverIdle'
  BY DEF ClientInv, CountersOK, ReadLine, MiningMeansConnected, NeverIdle, Attempts, Count
<1>9. /\ session' # "none" => m_connected' \/ io' = "ended"
      /\ io' # "run" => ~m_connected'
  BY DEF ClientInv, ReadLine
<1> QED
  BY <1>7, <1>8, <1>9 DEF ClientInv

\* Every step of the client, the pool and the miners preserves it.
LEMMA NextClient == ClientInv /\ [Next]_vars => ClientInv'
<1> SUFFICES ASSUME ClientInv, [Next]_vars PROVE ClientInv'
  OBVIOUS
<1>1. CASE StopFarm
  BY <1>1 DEF StopFarm, ClientInv, CountersOK, Count, OneReadPending, MiningMeansConnected,
     NeverIdle, Attempts,
     poolVars, linkVars, readVars, timerVars, solutionVars
<1>2. CASE TryReconnect
  <2> USE <1>2 DEF TryReconnect, connect, ClientInv, readVars
  <2>1. UNCHANGED <<mining, session, connecting, aborted, m_pending, reading,
                    abortedReads, worktimer, workDue>>
    OBVIOUS
  <2>2. mining # "working" /\ m_connected' = FALSE
    BY DEF CountersOK, MiningMeansConnected
  <2>3. io' = "run" => resolving' = resolving + 1
    OBVIOUS
  <2>4. session = "none"
    OBVIOUS
  <2>5. CountersOK' /\ OneReadPending' /\ m_pending' <= 1
    <3>1. resolving' \in Nat
      BY DEF CountersOK
    <3>2. CountersOK'
      BY <2>1, <2>2, <3>1 DEF CountersOK
    <3>3. QED
      BY <2>1, <3>2 DEF OneReadPending, Count
  <2>6. NeverIdle'
    BY <2>1, <2>3 DEF CountersOK, NeverIdle, Attempts, Count
  <2>7. QED
    BY <2>1, <2>2, <2>4, <2>5, <2>6 DEF MiningMeansConnected
<1>3. CASE Resolved
  <2>1. CountersOK'
    <3>1. aborted' \in Nat /\ abortedReads' \in Nat /\ resolving' \in Nat
      BY <1>3 DEF ClientInv, CountersOK, Count, Resolved
    <3> QED
      BY <1>3, <3>1 DEF ClientInv, CountersOK, Resolved, timerVars
  <2>2. OneReadPending' /\ m_pending' <= 1
    BY <1>3 DEF ClientInv, CountersOK, Count, OneReadPending, Resolved, poolVars, timerVars
  <2>3. MiningMeansConnected'
    BY <1>3 DEF ClientInv, MiningMeansConnected, Resolved, poolVars, timerVars
  <2>4. NeverIdle'
    BY <1>3 DEF ClientInv, CountersOK, Count, NeverIdle, Attempts, Resolved, poolVars,
       timerVars
  <2>5. /\ reading' => session' # "none"
        /\ session' # "none" => m_connected' \/ io' = "ended"
        /\ io' # "run" => ~m_connected'
    BY <1>3 DEF ClientInv, CountersOK, Resolved, poolVars, timerVars
  <2> QED
    BY <2>1, <2>2, <2>3, <2>4, <2>5 DEF ClientInv
<1>4. CASE ResolveFails
  BY <1>4, DisconnectClient DEF ResolveFails, ClientInv, CountersOK
<1>5. CASE Connected
  <2>1. CountersOK'
    BY <1>5, PoolAssumption DEF ClientInv, CountersOK, Count, Connected, SpinUp, readVars
  <2>2. OneReadPending' /\ m_pending' <= 1
    BY <1>5, PoolAssumption DEF ClientInv, CountersOK, Count, OneReadPending, Connected,
       readVars
  <2>3. MiningMeansConnected'
    BY <1>5, PoolAssumption DEF ClientInv, MiningMeansConnected, Connected, readVars
  <2>4. NeverIdle'
    BY <1>5, PoolAssumption DEF ClientInv, CountersOK, Count, NeverIdle, Attempts,
       Connected,
       readVars
  <2>5. /\ reading' => session' # "none"
        /\ session' # "none" => m_connected' \/ io' = "ended"
        /\ io' # "run" => ~m_connected'
    BY <1>5, PoolAssumption DEF ClientInv, CountersOK, Connected, readVars
  <2> QED
    BY <2>1, <2>2, <2>3, <2>4, <2>5 DEF ClientInv
<1>6. CASE HandshakeFails
  BY <1>6, DisconnectClient DEF HandshakeFails, SpinUp, ClientInv, CountersOK
<1>7. CASE ConnectFails
  BY <1>7, DisconnectClient DEF ConnectFails, ClientInv, CountersOK
<1>8. CASE HandleResponse
  BY <1>8 DEF HandleResponse, readline, ClientInv, CountersOK, Count, OneReadPending,
     MiningMeansConnected,
     NeverIdle, Attempts, poolVars, linkVars, readVars, timerVars
<1>9. CASE Subscribed
  BY <1>9, ReadLineClient DEF Subscribed, ClientInv, CountersOK, timerVars
<1>10. CASE Authorized
  BY <1>10, ReadLineClient DEF Authorized, ClientInv, CountersOK, timerVars
<1>11. CASE Denied
  BY <1>11, DisconnectClient DEF Denied, ClientInv, CountersOK
<1>12. CASE SolutionAnswered
  BY <1>12, ReadLineClient DEF SolutionAnswered, ReadLine, ClientInv, CountersOK
<1>13. CASE GetVersion
  BY <1>13, ReadLineClient DEF GetVersion, ReadLine, ClientInv, CountersOK, timerVars
<1>14. CASE OtherLine
  BY <1>14, ReadLineClient DEF OtherLine, ReadLine, ClientInv, CountersOK, timerVars
<1>15. CASE ReadFails
  BY <1>15, DisconnectClient DEF ReadFails, ClientInv, CountersOK
<1>16. ASSUME NEW job \in Jobs, Notify(job) PROVE ClientInv'
  BY <1>16, ReadLineClient, PoolAssumption DEF Notify, ClientInv, CountersOK
<1>17. CASE ReadAborted
  <2>1. CASE m_connected /\ Disconnect("abortedRead")
    BY <1>17, <2>1, DisconnectClient DEF ReadAborted, ClientInv, CountersOK
  <2>2. CASE ~m_connected
    <3>1. CountersOK'
      BY <1>17, <2>2 DEF ClientInv, CountersOK, Count, ReadAborted, Disconnect,
         pendingAfterRead, poolVars, linkVars, timerVars
    <3>2. OneReadPending' /\ m_pending' <= 1
      BY <1>17, <2>2 DEF ClientInv, CountersOK, Count, OneReadPending, ReadAborted,
         Disconnect, pendingAfterRead, poolVars, linkVars, timerVars
    <3>3. MiningMeansConnected'
      BY <1>17, <2>2 DEF ClientInv, MiningMeansConnected, ReadAborted, Disconnect,
         pendingAfterRead, poolVars, linkVars, timerVars
    <3>4. NeverIdle'
      BY <1>17, <2>2 DEF ClientInv, CountersOK, Count, NeverIdle, Attempts, ReadAborted,
         Disconnect, pendingAfterRead, poolVars, linkVars, timerVars
    <3>5. /\ reading' => session' # "none"
          /\ session' # "none" => m_connected' \/ io' = "ended"
          /\ io' # "run" => ~m_connected'
      BY <1>17, <2>2 DEF ClientInv, CountersOK, ReadAborted, Disconnect, pendingAfterRead,
         poolVars, linkVars, timerVars
    <3> QED
      BY <3>1, <3>2, <3>3, <3>4, <3>5 DEF ClientInv
  <2> QED
    BY <1>17, <2>1, <2>2 DEF ReadAborted
<1>18. CASE io # "ended" /\ Timing
  BY <1>18 DEF Timing, WorkTimerTicks, ResponseTimerExpires, ClientInv, CountersOK, Count,
     OneReadPending,
     MiningMeansConnected, NeverIdle, Attempts, poolVars, linkVars, readVars
<1>19. CASE WorkTimeout
  BY <1>19, DisconnectClient DEF WorkTimeout, ClientInv, CountersOK
<1>20. CASE ResponseTimeout
  BY <1>20, DisconnectClient DEF ResponseTimeout, ClientInv, CountersOK
<1>21. CASE MinerRestart \/ \E t \in Submitters : Submitting(t)
  <2>1. /\ UNCHANGED <<m_connected, io, m_pending, reading, abortedReads, linkVars,
                       worktimer, workDue>>
        /\ mining' = mining \/ mining' = "idle"
    BY <1>21 DEF MinerRestart, Submitting, SubmitSolution, TakeStale, WriteSolution,
       AwaitVerdict,
       ArmTimer, readVars, timerVars
  <2>2. QED
    BY <2>1 DEF ClientInv, CountersOK, Count, OneReadPending, MiningMeansConnected,
       NeverIdle,
       Attempts, linkVars
<1>22. CASE Stop
  BY <1>22 DEF Stop, ClientInv, CountersOK, Count, OneReadPending, MiningMeansConnected,
     NeverIdle, Attempts, linkVars, readVars, timerVars
<1>23. CASE Shutdown
  <2>1. CountersOK'
    BY <1>23 DEF ClientInv, CountersOK, Count, Shutdown, linkVars, readVars, timerVars
  <2>2. OneReadPending' /\ m_pending' <= 1
    BY <1>23 DEF ClientInv, CountersOK, Count, OneReadPending, Shutdown, linkVars, readVars,
       timerVars
  <2>3. MiningMeansConnected'
    BY <1>23 DEF ClientInv, MiningMeansConnected, Shutdown, linkVars, readVars, timerVars
  <2>4. NeverIdle'
    BY <1>23 DEF ClientInv, CountersOK, Count, NeverIdle, Attempts, Shutdown, linkVars,
       readVars,
       timerVars
  <2>5. /\ reading' => session' # "none"
        /\ session' # "none" => m_connected' \/ io' = "ended"
        /\ io' # "run" => ~m_connected'
    BY <1>23 DEF ClientInv, CountersOK, Shutdown, linkVars, readVars, timerVars
  <2> QED
    BY <2>1, <2>2, <2>3, <2>4, <2>5 DEF ClientInv
<1>24. CASE UNCHANGED vars
  BY <1>24 DEF vars, ClientInv, CountersOK, Count, OneReadPending, MiningMeansConnected,
     NeverIdle, Attempts,
     poolVars, linkVars, readVars, timerVars
<1> QED
  BY <1>1, <1>2, <1>3, <1>4, <1>5, <1>6, <1>7, <1>8, <1>9, <1>10, <1>11, <1>12, <1>13,
     <1>14,
     <1>15, <1>16, <1>17, <1>18, <1>19, <1>20, <1>21, <1>22, <1>23, <1>24
     DEF Next, Connecting, Reading, Ended

\* The client never has two reads on m_responseBuffer (readline, readResponse).
THEOREM ReadsAreExclusive == Spec => []OneReadPending
<1>1. ClientInv => OneReadPending
  BY DEF ClientInv
<1> QED
  BY InitClient, NextClient, <1>1, PTL DEF Spec

\* However the pool manager and the API start and stop the miners, they have work only
\* while the client is connected or is just disconnecting.
THEOREM MinersNeedThePool == Spec => []MiningMeansConnected
<1>1. ClientInv => MiningMeansConnected
  BY DEF ClientInv
<1> QED
  BY InitClient, NextClient, <1>1, PTL DEF Spec

\* A running client always has an attempt or the work timer pending, so a silent
\* pool is always left in the end.
THEOREM ClientNeverIdle == Spec => []NeverIdle
<1>1. ClientInv => NeverIdle
  BY DEF ClientInv
<1> QED
  BY InitClient, NextClient, <1>1, PTL DEF Spec

-----------------------------------------------------------------------------
(* Solutions that are out.                                                 *)

\* The response timer's state, the solutions of a socket that is not up and those
\* about to be written.
SolutionInv ==
    /\ responsetimer \in BOOLEAN /\ responseDue \in Nat /\ m_response_pending \in BOOLEAN
    /\ m_stale \in BOOLEAN /\ flight \in Seq(Share) /\ submit \in [Submitters -> SubmitPC]
    /\ \A t \in Submitters : submit[t] = "stale" => m_stale
    /\ session = "none" => flight = <<>>
    /\ SolutionIsTimed
    /\ StaleIsNotFresh

\* No solution is out at first.
LEMMA InitSolution == Init => SolutionInv
<1>1. Init => /\ flight \in Seq(Share) /\ submit \in [Submitters -> SubmitPC]
              /\ \A t \in Submitters : submit[t] # "stale"
  BY DEF Init, SubmitPC
<1>2. Init => SolutionIsTimed /\ StaleIsNotFresh
  BY DEF Init, SolutionIsTimed, StaleIsNotFresh
<1>3. Init => responseDue \in Nat
  BY DEF Init
<1>4. QED
  BY <1>1, <1>2, <1>3, Zenon DEF Init, SolutionInv

\* disconnect() gives up the solutions that are out.
LEMMA DisconnectSolution ==
  ASSUME NEW ev, SolutionInv, Disconnect(ev), ev = "response" => responseDue > 0
  PROVE  SolutionInv'
<1>1. responseDue' \in Nat
  BY DEF SolutionInv, Disconnect, Count
<1>2. /\ responsetimer' = FALSE /\ m_response_pending' = FALSE /\ m_stale' = m_stale
      /\ flight' = <<>> /\ submit' = submit
  BY DEF Disconnect
<1>3. flight' \in Seq(Share) /\ SolutionIsTimed' /\ StaleIsNotFresh'
  BY <1>2 DEF SolutionIsTimed, StaleIsNotFresh
<1>4. QED
  BY <1>1, <1>2, <1>3 DEF SolutionInv

\* Every step keeps a solution that is out timed, and its verdict right.
LEMMA NextSolution ==
  ASSUME SolutionInv, ClientInv, [Next]_vars
  PROVE  SolutionInv'
<1> USE DEF SolutionInv
<1> USE DEF Quiet
<1>1. CASE /\ UNCHANGED <<responsetimer, responseDue, m_response_pending, m_stale,
                          flight, submit>>
           /\ session' = "none" => session = "none" \/ flight = <<>>
  BY <1>1 DEF SolutionIsTimed, StaleIsNotFresh
<1>2. CASE StopFarm \/ Stop \/ Shutdown \/ MinerRestart \/ UNCHANGED vars
  BY <1>1, <1>2 DEF StopFarm, Stop, Shutdown, MinerRestart, vars, linkVars, timerVars,
     solutionVars
<1>3. CASE TryReconnect
  <2>1. /\ responsetimer' = FALSE /\ responseDue' = responseDue + Count(responsetimer)
        /\ UNCHANGED <<session, m_response_pending, m_stale, flight, submit>>
    BY <1>3 DEF TryReconnect, solutionVars
  <2>2. responseDue' \in Nat /\ (responsetimer \/ responseDue > 0 => responseDue' > 0)
    BY <2>1 DEF Count
  <2>3. SolutionIsTimed'
    BY <2>1, <2>2 DEF SolutionIsTimed
  <2>4. QED
    BY <2>1, <2>2, <2>3 DEF StaleIsNotFresh
<1>4. CASE Resolved
  <2>1. /\ UNCHANGED <<responsetimer, responseDue, m_response_pending, m_stale, submit>>
        /\ flight' = <<>>
    BY <1>4 DEF Resolved, timerVars
  <2>2. flight' \in Seq(Share) /\ SolutionIsTimed' /\ StaleIsNotFresh'
    BY <2>1 DEF SolutionIsTimed, StaleIsNotFresh
  <2>3. QED
    BY <2>1, <2>2
<1>5. CASE Connected
  BY <1>1, <1>5 DEF Connected, solutionVars
<1>6. CASE HandleResponse
  BY <1>1, <1>6 DEF HandleResponse, linkVars, timerVars, solutionVars
<1>7. CASE Subscribed \/ Authorized \/ GetVersion \/ OtherLine
  BY <1>1, <1>7 DEF Subscribed, Authorized, GetVersion, OtherLine, timerVars, solutionVars
<1>8. CASE SolutionAnswered
  <2>1. flight \in Seq(Share) /\ flight # <<>>
    BY <1>8 DEF SolutionAnswered
  <2>2. Tail(flight) \in Seq(Share)
    BY <2>1
  <2>3. /\ responsetimer' = FALSE /\ m_response_pending' = FALSE /\ flight' = Tail(flight)
        /\ UNCHANGED <<session, responseDue, m_stale, submit>>
    BY <1>8 DEF SolutionAnswered
  <2>4. \A i \in 1 .. Len(flight') : /\ flight'[i] = flight[i + 1]
                                    /\ i + 1 \in 1 .. Len(flight)
    BY <2>1, <2>3
  <2>5. StaleIsNotFresh'
    BY <2>3, <2>4 DEF StaleIsNotFresh
  <2>6. SolutionIsTimed'
    BY <2>3 DEF SolutionIsTimed
  <2>7. session' = "none" => flight' = <<>>
    BY <2>1, <2>3
  <2>8. QED
    BY <2>2, <2>3, <2>5, <2>6, <2>7
<1>9. ASSUME NEW job \in Jobs, Notify(job)
      PROVE  SolutionInv'
  <2>1. /\ Len(flight) \in Nat /\ DOMAIN flight = 1 .. Len(flight)
        /\ \A i \in DOMAIN flight : flight[i] \in Share
    OBVIOUS
  <2>2. flight' = [i \in DOMAIN flight |->
                     IF job = m_current THEN flight[i] ELSE Outdated(flight[i])]
    BY <1>9 DEF Notify
  <2>3. m_stale' = (m_stale \/ m_response_pending)
    BY <1>9 DEF Notify, Stales
  <2>4. ASSUME NEW i \in DOMAIN flight
        PROVE  flight'[i] \in Share /\ (flight'[i] = "stale" => m_stale')
    BY <2>1, <2>2, <2>3 DEF Outdated, Share, StaleIsNotFresh
  <2>5. /\ flight' \in Seq(Share) /\ Len(flight') = Len(flight)
        /\ flight = <<>> => flight' = <<>>
    BY <2>1, <2>2, <2>4
  <2>6. StaleIsNotFresh'
    BY <2>1, <2>4, <2>5 DEF StaleIsNotFresh
  <2>7. /\ submit' \in [Submitters -> SubmitPC]
        /\ \A t \in Submitters : /\ submit'[t] = "stale" => submit[t] = "stale"
                                /\ submit'[t] = "idle" => submit[t] = "idle"
    BY <1>9 DEF Notify, SubmitPC, Share
  <2>8. m_stale' \in BOOLEAN /\ (m_stale => m_stale')
    BY <2>3
  <2>9. SolutionIsTimed'
    BY <1>9, <2>7 DEF Notify, SolutionIsTimed
  <2>10. QED
    BY <1>9, <2>5, <2>6, <2>7, <2>8, <2>9 DEF Notify
<1>10. CASE ResolveFails \/ HandshakeFails \/ ConnectFails \/ Denied \/ ReadFails \/ WorkTimeout
  BY <1>10, DisconnectSolution DEF ResolveFails, HandshakeFails, ConnectFails, Denied,
     ReadFails,
     WorkTimeout
<1>11. CASE ResponseTimeout
  BY <1>11, DisconnectSolution DEF ResponseTimeout
<1>12. CASE ReadAborted
  <2>1. CASE Disconnect("abortedRead")
    BY <2>1, DisconnectSolution
  <2>2. CASE ~Disconnect("abortedRead")
    BY <1>1, <1>12, <2>2 DEF ReadAborted, linkVars, timerVars, solutionVars
  <2>3. QED
    BY <2>1, <2>2
<1>13. CASE Timing
  <2>1. CASE WorkTimerTicks
    BY <1>1, <2>1 DEF WorkTimerTicks, linkVars, solutionVars
  <2>2. CASE ResponseTimerExpires
    <3>1. /\ responsetimer' = FALSE /\ responseDue' = responseDue + 1
          /\ UNCHANGED <<session, m_response_pending, m_stale, flight, submit>>
      BY <2>2 DEF ResponseTimerExpires, linkVars, solutionVars
    <3>2. responseDue' \in Nat /\ responseDue' > 0
      BY <3>1
    <3>3. QED
      BY <3>1, <3>2 DEF SolutionIsTimed, StaleIsNotFresh
  <2>3. QED
    BY <1>13, <2>1, <2>2 DEF Timing
<1>14. ASSUME NEW t \in Submitters, Submitting(t)
       PROVE  SolutionInv'
  <2>1. CASE SubmitSolution(t)
    <3>1. /\ responsetimer' = FALSE /\ submit' = [submit EXCEPT ![t] = "cancelled"]
          /\ UNCHANGED <<session, responseDue, m_response_pending, m_stale, flight>>
      BY <2>1 DEF SubmitSolution, At, linkVars
    <3>2. submit' \in [Submitters -> SubmitPC] /\ submit'[t] = "cancelled"
      BY <3>1 DEF SubmitPC
    <3>3. \A u \in Submitters : submit'[u] = "stale" => m_stale'
      BY <3>1
    <3>4. SolutionIsTimed' /\ StaleIsNotFresh'
      BY <3>1, <3>2 DEF SolutionIsTimed, StaleIsNotFresh
    <3>5. QED
      BY <3>1, <3>2, <3>3, <3>4
  <2>2. ASSUME NEW stale \in BOOLEAN, TakeStale(t, stale)
        PROVE  SolutionInv'
    <3>1. /\ m_stale' = stale /\ flight' = [i \in DOMAIN flight |-> "lost"]
          /\ submit' = [u \in Submitters |-> IF u = t THEN (IF stale THEN "stale" ELSE "fresh")
                                            ELSE IF submit[u] \in Share THEN "lost" ELSE submit[u]]
          /\ UNCHANGED <<session, responsetimer, responseDue, m_response_pending>>
      BY <2>2 DEF TakeStale, linkVars, timerVars
    <3>2. /\ submit' \in [Submitters -> SubmitPC] /\ submit'[t] # "idle"
          /\ \A u \in Submitters : submit'[u] = "stale" => stale
      BY <3>1 DEF SubmitPC, Share
    <3>3. flight' \in Seq(Share) /\ (flight = <<>> => flight' = <<>>)
      BY <3>1 DEF Share
    <3>4. StaleIsNotFresh'
      BY <3>1, <3>3 DEF StaleIsNotFresh
    <3>5. SolutionIsTimed'
      BY <3>2 DEF SolutionIsTimed
    <3>6. QED
      BY <3>1, <3>2, <3>3, <3>4, <3>5
  <2>3. CASE WriteSolution(t)
    <3>1. /\ submit[t] \in Share /\ submit' = [submit EXCEPT ![t] = "written"]
          /\ flight' = IF session = "none" THEN flight ELSE Append(flight, submit[t])
          /\ UNCHANGED <<session, responsetimer, responseDue, m_response_pending, m_stale>>
      BY <2>3 DEF WriteSolution, At, linkVars, timerVars
    <3>2. submit' \in [Submitters -> SubmitPC] /\ submit'[t] = "written"
      BY <3>1 DEF SubmitPC
    <3>3. flight' \in Seq(Share) /\ (session = "none" => flight' = <<>>)
      BY <3>1
    <3>4. \A i \in 1 .. Len(flight') : flight'[i] = "stale" => m_stale
      BY <3>1 DEF StaleIsNotFresh
    <3>5. SolutionIsTimed' /\ StaleIsNotFresh'
      BY <3>1, <3>2, <3>4 DEF SolutionIsTimed, StaleIsNotFresh
    <3>6. QED
      BY <3>1, <3>2, <3>3, <3>5
  <2>4. CASE AwaitVerdict(t)
    <3>1. /\ m_response_pending' = TRUE /\ submit' = [submit EXCEPT ![t] = "waiting"]
          /\ UNCHANGED <<session, responsetimer, responseDue, m_stale, flight>>
      BY <2>4 DEF AwaitVerdict, At, linkVars, timerVars
    <3>2. submit' \in [Submitters -> SubmitPC] /\ submit'[t] = "waiting"
      BY <3>1 DEF SubmitPC
    <3>3. SolutionIsTimed' /\ StaleIsNotFresh'
      BY <3>1, <3>2 DEF SolutionIsTimed, StaleIsNotFresh
    <3>4. QED
      BY <3>1, <3>2, <3>3
  <2>5. CASE ArmTimer(t)
    <3>1. /\ responsetimer' = TRUE /\ submit' = [submit EXCEPT ![t] = "idle"]
          /\ UNCHANGED <<session, responseDue, m_response_pending, m_stale, flight>>
      BY <2>5 DEF ArmTimer, At, linkVars
    <3>2. submit' \in [Submitters -> SubmitPC]
      BY <3>1 DEF SubmitPC
    <3>3. SolutionIsTimed' /\ StaleIsNotFresh'
      BY <3>1 DEF SolutionIsTimed, StaleIsNotFresh
    <3>4. QED
      BY <3>1, <3>2, <3>3
  <2>6. QED
    BY <1>14, <2>1, <2>2, <2>3, <2>4, <2>5 DEF Submitting
<1>15. QED
  BY <1>2, <1>3, <1>4, <1>5, <1>6, <1>7, <1>8, <1>9, <1>10, <1>11, <1>12, <1>13, <1>14
     DEF Next, Connecting, Reading, Ended

\* The client's invariant holds in every reachable state.
LEMMA ClientInvariance == Spec => []ClientInv
  BY InitClient, NextClient, PTL DEF Spec

\* Outside submitSolution, a solution the client waits for is always timed, although
\* submitSolution, every answer and tryReconnect cancel the timer (m_response_pending).
THEOREM SolutionsAreTimed == Spec => []SolutionIsTimed
<1>1. SolutionInv => SolutionIsTimed
  BY DEF SolutionInv
<1>2. QED
  BY ClientInvariance, InitSolution, NextSolution, <1>1, PTL DEF Spec

\* A share the miner calls stale, or for which the client waits when work arrives, is
\* counted as stale, unless another share takes m_stale before the verdict; whatever
\* else happens in between (submitSolution, processReponse).
THEOREM StaleSolutionsAreStale == Spec => []StaleIsNotFresh
<1>1. SolutionInv => StaleIsNotFresh
  BY DEF SolutionInv
<1>2. QED
  BY ClientInvariance, InitSolution, NextSolution, <1>1, PTL DEF Spec

-----------------------------------------------------------------------------
(* The work timer.                                                         *)

\* A socket on which a connect is under way is not up yet.
ConnectInv == connecting => session = "none"

\* Every step keeps a connect on a socket that is not up.
LEMMA NextConnect ==
  ASSUME ConnectInv, ClientInv, [Next]_vars
  PROVE  ConnectInv'
<1> USE DEF ConnectInv
<1>1. CASE UNCHANGED <<connecting, session>>
  BY <1>1
<1>2. ASSUME NEW ev, Disconnect(ev)
      PROVE  ConnectInv'
  BY <1>2 DEF Disconnect
<1>3. CASE Resolved \/ Connected
  BY <1>3 DEF Resolved, Connected
<1>4. ASSUME ReadLine
      PROVE  session # "none" /\ ConnectInv'
  BY <1>4 DEF ReadLine, ClientInv
<1>5. CASE Subscribed \/ Authorized \/ SolutionAnswered \/ GetVersion \/ OtherLine
           \/ \E job \in Jobs : Notify(job)
  BY <1>4, <1>5 DEF Subscribed, Authorized, SolutionAnswered, GetVersion, OtherLine, Notify
<1>6. CASE ResolveFails \/ HandshakeFails \/ ConnectFails \/ Denied \/ ReadFails \/ WorkTimeout
           \/ ResponseTimeout
  BY <1>2, <1>6 DEF ResolveFails, HandshakeFails, ConnectFails, Denied, ReadFails,
     WorkTimeout,
     ResponseTimeout
<1>7. CASE ReadAborted
  BY <1>1, <1>2, <1>7 DEF ReadAborted, linkVars
<1>8. CASE \/ StopFarm \/ TryReconnect \/ HandleResponse \/ Timing \/ Stop \/ Shutdown
           \/ UNCHANGED vars \/ MinerRestart \/ \E t \in Submitters : Submitting(t)
  BY <1>1, <1>8 DEF StopFarm, TryReconnect, HandleResponse, Timing, WorkTimerTicks,
     ResponseTimerExpires, Stop, Shutdown, MinerRestart, Submitting, SubmitSolution, TakeStale,
     WriteSolution, AwaitVerdict, ArmTimer, vars, linkVars
<1>9. QED
  BY <1>3, <1>5, <1>6, <1>7, <1>8 DEF Next, Connecting, Reading, Ended

\* While a session stays up and works on the same job, nothing puts the work timer
\* back, under the two protocols in which a job is its header: under EthereumStratum
\* every notification is work (processReponse, reset_work_timeout).
THEOREM TimerIsNotPutBack == Spec => SameJobTimesOut
<1> DEFINE A == Version # "ETHEREUMSTRATUM" /\ m_connected /\ m_connected'
                  /\ session # "none" /\ m_current' = m_current => worktimer' <= worktimer
<1>1. ConnectInv /\ ClientInv /\ Next => A
  <2> SUFFICES ASSUME ConnectInv, ClientInv, Next, Version # "ETHEREUMSTRATUM",
                      m_connected', session # "none", m_current' = m_current
               PROVE  worktimer' <= worktimer
    OBVIOUS
  <2>1. worktimer \in Nat
    BY DEF ClientInv, CountersOK
  <2>2. CASE UNCHANGED worktimer
    BY <2>1, <2>2
  <2>3. ASSUME NEW ev, Disconnect(ev)
        PROVE  FALSE
    BY <2>3 DEF Disconnect
  <2>4. CASE Connected
    BY <2>4 DEF Connected, ConnectInv
  <2>5. ASSUME NEW job \in Jobs, Notify(job)
        PROVE  UNCHANGED worktimer
    BY <2>5 DEF Notify, IsWork
  <2>6. CASE Subscribed \/ Authorized \/ SolutionAnswered \/ GetVersion \/ OtherLine
    BY <2>2, <2>6 DEF Subscribed, Authorized, SolutionAnswered, GetVersion, OtherLine,
       timerVars
  <2>7. CASE ResolveFails \/ HandshakeFails \/ ConnectFails \/ Denied \/ ReadFails \/ WorkTimeout
             \/ ResponseTimeout
    BY <2>3, <2>7 DEF ResolveFails, HandshakeFails, ConnectFails, Denied, ReadFails,
       WorkTimeout,
       ResponseTimeout
  <2>8. CASE ReadAborted
    BY <2>2, <2>3, <2>8 DEF ReadAborted, timerVars
  <2>9. CASE Timing
    <3>1. CASE WorkTimerTicks
      BY <2>1, <3>1 DEF WorkTimerTicks
    <3>2. CASE ResponseTimerExpires
      BY <2>2, <3>2 DEF ResponseTimerExpires
    <3>3. QED
      BY <2>9, <3>1, <3>2 DEF Timing
  <2>10. CASE \/ StopFarm \/ TryReconnect \/ HandleResponse \/ Stop \/ Shutdown \/ Resolved \/ Ended
              \/ MinerRestart \/ \E t \in Submitters : Submitting(t)
    BY <2>2, <2>10 DEF StopFarm, TryReconnect, HandleResponse, Stop, Shutdown, MinerRestart,
       Submitting, SubmitSolution, TakeStale, WriteSolution, AwaitVerdict, ArmTimer, Resolved,
       Ended, vars, timerVars
  <2>11. QED
    BY <2>2, <2>4, <2>5, <2>6, <2>7, <2>8, <2>9, <2>10 DEF Next, Connecting, Reading
<1>2. Init => ConnectInv
  BY DEF Init, ConnectInv
<1>3. QED
  BY ClientInvariance, NextConnect, <1>1, <1>2, PTL DEF Spec, SameJobTimesOut

-----------------------------------------------------------------------------
(* Types.                                                                  *)

\* The types ClientInv and SolutionInv do not give.
OtherTypes ==
    /\ m_running \in BOOLEAN /\ m_current \in Jobs \cup {NoJob}
    /\ m_reconnectTry \in 0 .. Tries /\ m_activeConnectionIdx \in 1 .. NumConnections
    /\ io \in {"run", "closing", "waiting", "ended"}
    /\ session \in {"none", "open", "subscribed", "authorized"}
    /\ writes \in Nat /\ worktimer \in 0 .. m_worktimeout

\* tryReconnect stays within the retries and the connections.
LEMMA FailoverInRange ==
  ASSUME NEW try \in 0 .. Tries, NEW idx \in 1 .. NumConnections
  PROVE  NextTry(try) \in 0 .. Tries /\ NextConnection(idx, try) \in 1 .. NumConnections
<1>1. idx % NumConnections \in 0 .. NumConnections - 1
  BY PoolFailoverAssumption
<1>2. QED
  BY <1>1, PoolFailoverAssumption DEF NextTry, NextConnection, SameConnection

\* Every step keeps the other types.
LEMMA NextOtherTypes ==
  ASSUME OtherTypes, SolutionInv, ClientInv, [Next]_vars
  PROVE  OtherTypes'
<1> USE DEF OtherTypes, poolVars, linkVars, timerVars, solutionVars
<1>1. ASSUME NEW ev, Disconnect(ev)
      PROVE  OtherTypes'
  BY <1>1, PoolAssumption DEF Disconnect
<1>2. CASE StopFarm \/ Stop \/ Shutdown \/ MinerRestart \/ UNCHANGED vars \/ ResponseTimerExpires
  BY <1>2 DEF StopFarm, Stop, Shutdown, MinerRestart, ResponseTimerExpires, vars
<1>3. CASE TryReconnect
  <2>1. m_reconnectTry' \in 0 .. Tries /\ m_activeConnectionIdx' \in 1 .. NumConnections
    BY <1>3, FailoverInRange DEF TryReconnect
  <2>2. io' \in {"run", "ended"} /\ m_running' \in BOOLEAN
    BY <1>3 DEF TryReconnect, connect
  <2>3. UNCHANGED <<m_current, session, writes, worktimer, flight>>
    BY <1>3 DEF TryReconnect
  <2>4. QED
    BY <2>1, <2>2, <2>3
<1>4. CASE Resolved
  BY <1>4, PoolAssumption DEF Resolved
<1>5. CASE Connected
  <2>1. writes' \in Nat /\ worktimer' \in 0 .. m_worktimeout
    BY <1>5, PoolAssumption DEF Connected
  <2>2. session' = "open" /\ UNCHANGED <<m_current, io, poolVars, flight>>
    BY <1>5 DEF Connected
  <2>3. QED
    BY <2>1, <2>2
<1>6. CASE HandleResponse
  <2>1. writes' \in Nat
    BY <1>6, PoolAssumption DEF HandleResponse
  <2>2. QED
    BY <1>6, <2>1 DEF HandleResponse
<1>7. CASE Authorized \/ OtherLine
  BY <1>7 DEF Authorized, OtherLine, ReadLine
<1>8. CASE Subscribed \/ GetVersion
  <2>1. writes' \in Nat
    BY <1>8, PoolAssumption DEF Subscribed, GetVersion
  <2>2. QED
    BY <1>8, <2>1 DEF Subscribed, GetVersion, ReadLine
<1>9. CASE SolutionAnswered
  BY <1>9 DEF SolutionAnswered, ReadLine
<1>10. ASSUME NEW job \in Jobs, Notify(job)
       PROVE  OtherTypes'
  <2>1. worktimer' \in 0 .. m_worktimeout /\ m_reconnectTry' \in 0 .. Tries
    BY <1>10, PoolAssumption, PoolFailoverAssumption DEF Notify
  <2>2. UNCHANGED <<m_running, m_activeConnectionIdx, io, session,
                    writes>> /\ m_current' = job
    BY <1>10 DEF Notify, ReadLine
  <2>3. QED
    BY <2>1, <2>2
<1>11. CASE ResolveFails \/ HandshakeFails \/ ConnectFails \/ Denied \/ ReadFails \/ WorkTimeout
            \/ ResponseTimeout
  BY <1>1, <1>11 DEF ResolveFails, HandshakeFails, ConnectFails, Denied, ReadFails,
     WorkTimeout,
     ResponseTimeout
<1>12. CASE ReadAborted
  BY <1>1, <1>12 DEF ReadAborted
<1>13. CASE WorkTimerTicks
  <2>1. worktimer' \in 0 .. m_worktimeout
    BY <1>13, PoolAssumption DEF WorkTimerTicks
  <2>2. QED
    BY <1>13, <2>1 DEF WorkTimerTicks
<1>14. ASSUME NEW t \in Submitters, Submitting(t)
       PROVE  OtherTypes'
  <2>1. writes' \in Nat
    BY <1>14 DEF Submitting, SubmitSolution, TakeStale, WriteSolution, AwaitVerdict,
       ArmTimer
  <2>2. QED
    BY <1>14, <2>1 DEF Submitting, SubmitSolution, TakeStale, WriteSolution,
       AwaitVerdict, ArmTimer
<1>15. QED
  BY <1>2, <1>3, <1>4, <1>5, <1>6, <1>7, <1>8, <1>9, <1>10, <1>11, <1>12, <1>13, <1>14
     DEF Next, Connecting, Reading, Timing, Ended

\* Every variable keeps its type: no count of handlers that are still to run ever goes
\* below 0, and the active connection exists (m_pending, m_activeConnectionIdx).
THEOREM TypeCorrect == Spec => []TypeOK
<1>1. Init => OtherTypes
  <2> SUFFICES ASSUME Init PROVE OtherTypes
    OBVIOUS
  <2>1. io = "run" /\ session = "none"
    BY DEF Init
  <2>2. /\ m_reconnectTry \in 0 .. Tries /\ m_activeConnectionIdx \in 1 .. NumConnections
        /\ writes \in Nat /\ worktimer \in 0 .. m_worktimeout
    BY PoolAssumption, PoolFailoverAssumption DEF Init
  <2>3. QED
    BY <2>1, <2>2 DEF Init, OtherTypes
<1>2. ClientInv /\ SolutionInv /\ OtherTypes => TypeOK
  BY DEF ClientInv, CountersOK, SolutionInv, OtherTypes, TypeOK
<1>3. Spec => []SolutionInv
  BY ClientInvariance, InitSolution, NextSolution, PTL DEF Spec
<1>4. Spec => []OtherTypes
  BY ClientInvariance, <1>1, <1>3, NextOtherTypes, PTL DEF Spec
<1>5. QED
  BY ClientInvariance, <1>2, <1>3, <1>4, PTL
=============================================================================
