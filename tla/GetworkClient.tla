--------------------------- MODULE GetworkClient ----------------------------
(***************************************************************************)
(* EthGetworkClient (libpoolprotocols/getwork) under PoolManager: a worker *)
(* polls the node over JSON-RPC and hands in the solution that the miners' *)
(* threads leave in the one slot m_solutionToSubmit. Nothing locks it.     *)
(***************************************************************************)
EXTENDS Integers, PoolFailover

CONSTANTS
    Solutions,          \* the solutions the miners find
    None,               \* no solution: a nonce of zero
    Headers,            \* header hashes the node hands out
    NoHeader            \* h256()

ASSUME GetworkAssumption ==
    /\ None \notin Solutions /\ NoHeader \notin Headers

VARIABLES
    pc,                     \* where workLoop is
    m_connected, m_justConnected,
    m_connection_changed,   \* TRUE until the manager's first connect()
    nonce,                  \* m_solutionToSubmit.nonce: whose it is
    rest,                   \* m_solutionToSubmit.work and .mixHash: whose they are
    storing,                \* the solution a miner's thread is copying into the slot
    sent,                   \* arguments of the eth_submitWork under way
    m_prevWorkPackage, m_reconnectTry, m_activeConnectionIdx,
    mining,                 \* the farm has no miners, miners without work or with it
    found,                  \* solutions the miners found
    judged,                 \* ... the node has accepted or rejected
    answered,               \* ... the client has got the verdict on
    contended               \* the slot was stored to or read while it was in use

poolVars == <<m_reconnectTry, m_activeConnectionIdx, mining, m_connection_changed>>
slotVars == <<nonce, rest, storing, found, contended>>
verdictVars == <<judged, answered>>
vars == <<pc, m_connected, m_justConnected, sent, m_prevWorkPackage, verdictVars,
          poolVars, slotVars>>

NothingSent == [nonce |-> None, rest |-> None]

TypeOK ==
    /\ pc \in {"top", "submitting", "getWork", "disconnected", "sleep", "ended"}
    /\ m_connected \in BOOLEAN /\ m_justConnected \in BOOLEAN
    /\ mining \in {"no", "idle", "working"} /\ m_connection_changed \in BOOLEAN
    /\ nonce \in Solutions \cup {None} /\ rest \in Solutions \cup {None}
    /\ storing \in Solutions \cup {None}
    /\ sent \in [nonce : Solutions \cup {None}, rest : Solutions \cup {None}]
    /\ m_prevWorkPackage \in Headers \cup {NoHeader}
    /\ m_reconnectTry \in 0 .. Tries
    /\ m_activeConnectionIdx \in 1 .. NumConnections
    /\ found \subseteq Solutions /\ judged \subseteq Solutions
    /\ answered \subseteq Solutions /\ contended \in BOOLEAN

\* The worker starts in the client's constructor.
Init ==
    /\ pc = "top" /\ m_connected = FALSE /\ m_justConnected = FALSE /\ mining = "no"
    /\ m_connection_changed = TRUE
    /\ nonce = None /\ rest = None /\ storing = None /\ sent = NothingSent
    /\ m_prevWorkPackage = NoHeader
    /\ m_reconnectTry = 0 /\ m_activeConnectionIdx = 1
    /\ found = {} /\ judged = {} /\ answered = {} /\ contended = FALSE

-----------------------------------------------------------------------------
(* The main thread.                                                        *)

\* PoolManager::start calls connect(), while the worker already runs.
Connect ==
    /\ m_connection_changed
    /\ m_connection_changed' = FALSE
    /\ m_justConnected' = TRUE
    /\ UNCHANGED <<pc, m_connected, sent, m_prevWorkPackage, verdictVars, m_reconnectTry,
                   m_activeConnectionIdx, mining, slotVars>>

-----------------------------------------------------------------------------
(* The miners' threads.                                                    *)

\* submitSolution: the copy writes the nonce first and the rest after it.
Store(s) ==
    /\ mining = "working" /\ storing = None
    /\ s \notin found
    /\ found' = found \cup {s}
    /\ storing' = s
    /\ nonce' = s
    /\ contended' = (contended \/ nonce # None \/ pc = "submitting")
    /\ UNCHANGED <<pc, m_connected, m_justConnected, sent, m_prevWorkPackage, verdictVars,
                   poolVars, rest>>

Stored ==
    /\ storing # None
    /\ rest' = storing
    /\ storing' = None
    /\ UNCHANGED <<pc, m_connected, m_justConnected, sent, m_prevWorkPackage, verdictVars,
                   poolVars, nonce, found, contended>>

-----------------------------------------------------------------------------
(* workLoop.                                                               *)

\* The top of an iteration without a connection.
SkipDisconnected ==
    /\ pc = "top" /\ ~(m_connected \/ m_justConnected)
    /\ pc' = "sleep"
    /\ UNCHANGED <<m_connected, m_justConnected, sent, m_prevWorkPackage, verdictVars,
                   poolVars, slotVars>>

\* There is no solution to submit.
NoSolution ==
    /\ pc = "top" /\ (m_connected \/ m_justConnected)
    /\ nonce = None
    /\ pc' = "getWork"
    /\ UNCHANGED <<m_connected, m_justConnected, sent, m_prevWorkPackage, verdictVars,
                   poolVars, slotVars>>

\* The arguments of eth_submitWork are read from the slot, the call begins.
BeginSubmit ==
    /\ pc = "top" /\ (m_connected \/ m_justConnected)
    /\ nonce # None
    /\ sent' = [nonce |-> nonce, rest |-> rest]
    /\ contended' = (contended \/ storing # None)
    /\ pc' = "submitting"
    /\ UNCHANGED <<m_connected, m_justConnected, m_prevWorkPackage, verdictVars,
                   poolVars, nonce, rest, storing, found>>

\* The node judges what it is sent, if that is a solution.
Judged(S) == IF sent.nonce = sent.rest THEN S \cup {sent.nonce} ELSE S

\* Mutant: the slot is not emptied after the verdict.
SubmitReturns_KeepsNonce ==
    /\ pc = "submitting"
    /\ judged' = Judged(judged) /\ answered' = Judged(answered)
    /\ sent' = NothingSent
    /\ pc' = "getWork"
    /\ UNCHANGED <<m_connected, m_justConnected, m_prevWorkPackage, poolVars, slotVars>>

\* The node accepts or rejects, and the slot is emptied whatever it holds now.
SubmitReturns ==
    /\ pc = "submitting"
    /\ judged' = Judged(judged) /\ answered' = Judged(answered)
    /\ nonce' = None
    /\ sent' = NothingSent
    /\ pc' = "getWork"
    /\ UNCHANGED <<m_connected, m_justConnected, m_prevWorkPackage, poolVars, rest,
                   storing, found, contended>>

\* Mutant: the solution is given up when the call throws.
SubmitThrows_Drops ==
    /\ pc = "submitting"
    /\ nonce' = None
    /\ sent' = NothingSent
    /\ pc' = "getWork"
    /\ UNCHANGED <<m_connected, m_justConnected, m_prevWorkPackage, verdictVars, poolVars,
                   rest, storing, found, contended>>

\* The call throws, whether it has not reached the node or its answer was lost or is
\* no answer: the slot keeps its solution for the next iteration.
SubmitThrows ==
    /\ pc = "submitting"
    /\ judged' \in {judged, Judged(judged)}
    /\ sent' = NothingSent
    /\ pc' = "getWork"
    /\ UNCHANGED <<m_connected, m_justConnected, m_prevWorkPackage, answered, poolVars,
                   slotVars>>

\* eth_getWork returns: the first success is the connection (onConnected), and a
\* new header is new work (onWorkReceived).
GotWork(h) ==
    /\ pc = "getWork"
    /\ m_justConnected' = FALSE
    /\ m_connected' = (m_connected \/ m_justConnected)
    /\ mining' = IF mining = "no" /\ ~m_justConnected THEN "no"
                 ELSE IF h # m_prevWorkPackage THEN "working"
                 ELSE IF mining = "no" THEN "idle" ELSE mining
    /\ m_prevWorkPackage' = h
    /\ m_reconnectTry' = IF h # m_prevWorkPackage THEN 0 ELSE m_reconnectTry
    /\ pc' = "sleep"
    /\ UNCHANGED <<sent, verdictVars, m_activeConnectionIdx, m_connection_changed,
                   slotVars>>

\* eth_getWork throws: disconnect(), up to onDisconnected.
GetWorkThrows ==
    /\ pc = "getWork"
    /\ m_connected' = FALSE /\ m_justConnected' = FALSE
    /\ pc' = "disconnected"
    /\ UNCHANGED <<sent, m_prevWorkPackage, verdictVars, poolVars, slotVars>>

\* Mutant: onDisconnected leaves the miners running.
Reconnect_KeepsMining ==
    LET exit == Exits(m_activeConnectionIdx, m_reconnectTry)
    IN  /\ pc = "disconnected" /\ storing = None
        /\ m_reconnectTry' = NextTry(m_reconnectTry)
        /\ m_activeConnectionIdx' = NextConnection(m_activeConnectionIdx, m_reconnectTry)
        /\ m_justConnected' = ~exit
        /\ pc' = IF exit THEN "ended" ELSE "sleep"
        /\ UNCHANGED <<m_connected, m_connection_changed, mining, sent, m_prevWorkPackage,
                       verdictVars, slotVars>>

\* onDisconnected in the worker's own thread: Farm::stop() waits for the miners,
\* who end their submitSolution first; tryReconnect then connects or exits.
Reconnect ==
    LET exit == Exits(m_activeConnectionIdx, m_reconnectTry)
    IN  /\ pc = "disconnected" /\ storing = None
        /\ mining' = "no"
        /\ m_reconnectTry' = NextTry(m_reconnectTry)
        /\ m_activeConnectionIdx' = NextConnection(m_activeConnectionIdx, m_reconnectTry)
        /\ m_justConnected' = ~exit
        /\ pc' = IF exit THEN "ended" ELSE "sleep"
        /\ UNCHANGED <<m_connected, m_connection_changed, sent, m_prevWorkPackage,
                       verdictVars, slotVars>>

\* The recheck period is over.
Wake ==
    /\ pc = "sleep"
    /\ pc' = "top"
    /\ UNCHANGED <<m_connected, m_justConnected, sent, m_prevWorkPackage, verdictVars,
                   poolVars, slotVars>>

\* onMinerRestart, in the API's thread and whatever the connection is: stop() waits for
\* the miners, start() makes new ones that have no work yet.
MinerRestart ==
    /\ pc # "ended" /\ storing = None
    /\ mining' = "idle"
    /\ UNCHANGED <<pc, m_connected, m_justConnected, sent, m_prevWorkPackage, verdictVars,
                   m_reconnectTry, m_activeConnectionIdx, m_connection_changed, slotVars>>

Submit == BeginSubmit \/ SubmitReturns \/ SubmitThrows
WorkLoop == \/ SkipDisconnected \/ NoSolution \/ Submit \/ GetWorkThrows \/ Reconnect
            \/ Wake \/ \E h \in Headers : GotWork(h)

\* The process exits once the manager has stopped.
Ended == pc = "ended" /\ UNCHANGED vars

Next == \/ WorkLoop \/ Connect \/ Stored \/ MinerRestart \/ Ended
        \/ \E s \in Solutions : Store(s)

\* The worker runs, a copy ends, and a call that is made again and again is answered
\* in the end. No solution need be found.
Fairness ==
    /\ WF_vars(WorkLoop) /\ WF_vars(Connect) /\ WF_vars(Stored) /\ SF_vars(SubmitReturns)

Spec == Init /\ [][Next]_vars /\ Fairness

-----------------------------------------------------------------------------
(* Properties.                                                             *)

\* Miners have work only while the client is connected, or until the disconnect under
\* way has stopped them; those the API restarts meanwhile wait for some (disconnect,
\* workLoop, PoolManager's onMinerRestart).
MiningMeansConnected == mining = "working" => m_connected \/ pc = "disconnected"

\* A solution whose verdict the client has got is not handed in again, although others
\* are stored while the call is under way (the slot in workLoop).
AnsweredOnce == pc = "submitting" /\ sent.nonce = sent.rest => sent.nonce \notin answered

\* Refuted: the node judged the solution and the answer was lost; the slot keeps it and
\* the next iteration hands it in again (the catch in workLoop).
JudgedOnce == pc = "submitting" /\ sent.nonce = sent.rest => sent.nonce \notin judged

\* Failures of the node lose no solution: as long as no two threads use the slot at
\* once, the client gets the verdict on each one found, even across a reconnect
\* (submitSolution).
UncontendedIsHandled ==
    \A s \in Solutions : s \in found ~> s \in answered \/ contended \/ pc = "ended"

\* Each solution that is stored is handed in ("Store the solution in temp var. Will be
\* handled in workLoop", EthGetworkClient.cpp:58).
SolutionIsHandled == \A s \in Solutions : s \in found ~> s \in answered \/ pc = "ended"
=============================================================================
