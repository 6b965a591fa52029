------------------------------- MODULE Worker -------------------------------
(***************************************************************************)
(* dev::Worker (libdevcore/Worker.{h,cpp}): one background thread that     *)
(* runs the virtual workLoop(), and the threads that start, stop and       *)
(* destroy it.  x_work serialises the callers; the background thread never *)
(* takes it and talks to them through the atomic m_state alone.            *)
(*                                                                         *)
(* A caller's acquisition of x_work is merged with the first atomic        *)
(* operation on m_state it makes: between the two it can only be delayed.  *)
(***************************************************************************)
CONSTANT Callers            \* threads that use the public interface

\* Some thread owns the Worker object.
ASSUME CallersAssumption == Callers # {}

VARIABLES
    m_state,    \* the atomic WorkerState
    m_work,     \* TRUE iff the unique_ptr holds a thread
    x_work,     \* the callers inside the mutex: at most one
    pc,         \* what each caller is doing
    thread,     \* where the background thread is
    ex,         \* the thread's local: what m_state.exchange returned
    object      \* how far the destruction of the object has got

vars == <<m_state, m_work, x_work, pc, thread, ex, object>>

WorkerState == {"Starting", "Started", "Stopping", "Stopped", "Killing"}

\* "loop": the test of line 46; "cas": line 49; "work": inside workLoop;
\* "exchange": line 65; "restore": line 68; "park": the wait of line 70.
ThreadPC == {"none", "loop", "cas", "work", "exchange", "restore", "park",
             "exited"}

\* "dtor": in the derived destructor, before stopWorking; "dtorStop": in the
\* stopWorking it calls; "base": about to run ~Worker; "join": in m_work->join.
CallerPC == {"idle", "start", "stop", "dtor", "dtorStop", "base", "join",
             "done"}

\* "stopFirst": destroyed by a destructor that calls stopWorking (the miners);
\* "stopped": that call returned, so the derived part is being torn down;
\* "plain": destroyed by ~Worker alone (the pool clients, the pool manager).
ObjectState == {"alive", "stopFirst", "stopped", "plain"}

TypeOK ==
    /\ m_state \in WorkerState
    /\ m_work \in BOOLEAN
    /\ x_work \in {{}} \cup {{c} : c \in Callers}
    /\ pc \in [Callers -> CallerPC]
    /\ thread \in ThreadPC
    /\ ex \in WorkerState
    /\ object \in ObjectState

Init ==
    /\ m_state = "Starting"
    /\ m_work = FALSE
    /\ x_work = {}
    /\ pc = [c \in Callers |-> "idle"]
    /\ thread = "none"
    /\ ex = "Starting"
    /\ object = "alive"

\* m_state.compare_exchange_strong(from, to)
CAS(from, to) == m_state' = IF m_state = from THEN to ELSE m_state

Goto(c, l) == pc' = [pc EXCEPT ![c] = l]

-----------------------------------------------------------------------------
(* The callers.                                                            *)

\* Mutant: startWorking without the guard on x_work.
StartWorking_NoGuard(c) ==
    /\ pc[c] = "idle" /\ object = "alive"
    /\ x_work' = x_work \cup {c}
    /\ \/ m_work /\ CAS("Stopped", "Starting") /\ UNCHANGED <<m_work, thread>>
       \/ ~m_work /\ m_state' = "Starting" /\ m_work' = TRUE /\ thread' = "loop"
    /\ Goto(c, "start")
    /\ UNCHANGED <<ex, object>>

\* startWorking up to its wait.
StartWorking(c) ==
    /\ pc[c] = "idle" /\ object = "alive" /\ x_work = {}
    /\ x_work' = x_work \cup {c}
    /\ \/ m_work /\ CAS("Stopped", "Starting") /\ UNCHANGED <<m_work, thread>>
       \/ ~m_work /\ m_state' = "Starting" /\ m_work' = TRUE /\ thread' = "loop"
    /\ Goto(c, "start")
    /\ UNCHANGED <<ex, object>>

\* The wait of startWorking ends and the guard is released.
StartReturns(c) ==
    /\ pc[c] = "start" /\ m_state # "Starting"
    /\ x_work' = x_work \ {c}
    /\ Goto(c, "idle")
    /\ UNCHANGED <<m_state, m_work, thread, ex, object>>

\* Mutant: stopWorking announces Stopped itself instead of Stopping.
StopWorking_SetsStopped(c) ==
    /\ x_work = {} /\ m_work
    /\ \/ pc[c] = "idle" /\ object = "alive" /\ Goto(c, "stop")
       \/ pc[c] = "dtor" /\ Goto(c, "dtorStop")
    /\ x_work' = x_work \cup {c}
    /\ CAS("Started", "Stopped")
    /\ UNCHANGED <<m_work, thread, ex, object>>

\* stopWorking up to its wait; with no thread there is nothing to do.
StopWorking(c) ==
    /\ x_work = {} /\ m_work
    /\ \/ pc[c] = "idle" /\ object = "alive" /\ Goto(c, "stop")
       \/ pc[c] = "dtor" /\ Goto(c, "dtorStop")
    /\ x_work' = x_work \cup {c}
    /\ CAS("Started", "Stopping")
    /\ UNCHANGED <<m_work, thread, ex, object>>

\* Mutant: stopWorking returns without waiting for the thread.
StopReturns_NoWait(c) ==
    /\ \/ pc[c] = "stop" /\ Goto(c, "idle") /\ UNCHANGED object
       \/ pc[c] = "dtorStop" /\ Goto(c, "base") /\ object' = "stopped"
    /\ x_work' = x_work \ {c}
    /\ UNCHANGED <<m_state, m_work, thread, ex>>

\* The wait of stopWorking ends and the guard is released.
StopReturns(c) ==
    /\ m_state = "Stopped"
    /\ \/ pc[c] = "stop" /\ Goto(c, "idle") /\ UNCHANGED object
       \/ pc[c] = "dtorStop" /\ Goto(c, "base") /\ object' = "stopped"
    /\ x_work' = x_work \ {c}
    /\ UNCHANGED <<m_state, m_work, thread, ex>>

\* A miner's destructor begins: the owner is the last user of the object.
DestroyMiner(c) ==
    /\ object = "alive" /\ m_work /\ \A d \in Callers : pc[d] = "idle"
    /\ object' = "stopFirst"
    /\ Goto(c, "dtor")
    /\ UNCHANGED <<m_state, m_work, x_work, thread, ex>>

\* The destruction of a Worker whose own destructor does not stop it.
DestroyPlain(c) ==
    /\ object = "alive" /\ \A d \in Callers : pc[d] = "idle"
    /\ object' = "plain"
    /\ Goto(c, "base")
    /\ UNCHANGED <<m_state, m_work, x_work, thread, ex>>

\* ~Worker up to the join.
Kill(c) ==
    /\ pc[c] = "base" /\ x_work = {}
    /\ \/ m_work /\ x_work' = x_work \cup {c} /\ m_state' = "Killing" /\ Goto(c, "join")
       \/ ~m_work /\ Goto(c, "done") /\ UNCHANGED <<x_work, m_state>>
    /\ UNCHANGED <<m_work, thread, ex, object>>

\* The join returns and the thread object is released.
Join(c) ==
    /\ pc[c] = "join" /\ thread = "exited"
    /\ m_work' = FALSE
    /\ x_work' = x_work \ {c}
    /\ Goto(c, "done")
    /\ UNCHANGED <<m_state, thread, ex, object>>

-----------------------------------------------------------------------------
(* The background thread.                                                  *)

\* while (m_state != Killing)
LoopTest ==
    /\ thread = "loop"
    /\ thread' = IF m_state = "Killing" THEN "exited" ELSE "cas"
    /\ UNCHANGED <<m_state, m_work, x_work, pc, ex, object>>

\* Mutant: the thread enters workLoop without acknowledging the start.
EnterWorkLoop_NoAck ==
    /\ thread = "cas"
    /\ thread' = "work"
    /\ UNCHANGED <<m_state, m_work, x_work, pc, ex, object>>

\* Acknowledge a start, then enter workLoop whatever the state is.
EnterWorkLoop ==
    /\ thread = "cas"
    /\ CAS("Starting", "Started")
    /\ thread' = "work"
    /\ UNCHANGED <<m_work, x_work, pc, ex, object>>

shouldStop == m_state # "Started"

\* workLoop returns because it saw shouldStop().
LeaveWorkLoop ==
    /\ thread = "work" /\ shouldStop
    /\ thread' = "exchange"
    /\ UNCHANGED <<m_state, m_work, x_work, pc, ex, object>>

\* workLoop returns by itself or throws (a failed DAG, a GPU error).
AbandonWorkLoop ==
    /\ thread = "work" /\ ~shouldStop
    /\ thread' = "exchange"
    /\ UNCHANGED <<m_state, m_work, x_work, pc, ex, object>>

\* Mutant: no test of ex, a command found by the exchange is dropped.
ExchangeStopped_NoRestore ==
    /\ thread = "exchange"
    /\ ex' = m_state
    /\ m_state' = "Stopped"
    /\ thread' = "park"
    /\ UNCHANGED <<m_work, x_work, pc, object>>

\* Mutant: every value found by the exchange is put back.
ExchangeStopped_RestoreAll ==
    /\ thread = "exchange"
    /\ ex' = m_state
    /\ m_state' = "Stopped"
    /\ thread' = "restore"
    /\ UNCHANGED <<m_work, x_work, pc, object>>

\* ex = m_state.exchange(Stopped)
ExchangeStopped ==
    /\ thread = "exchange"
    /\ ex' = m_state
    /\ m_state' = "Stopped"
    /\ thread' = IF m_state \in {"Killing", "Starting"} THEN "restore" ELSE "park"
    /\ UNCHANGED <<m_work, x_work, pc, object>>

\* m_state.exchange(ex): put back the command that was overwritten.
Restore ==
    /\ thread = "restore"
    /\ m_state' = ex
    /\ thread' = "park"
    /\ UNCHANGED <<m_work, x_work, pc, ex, object>>

\* while (m_state == Stopped) sleep
Unpark ==
    /\ thread = "park" /\ m_state # "Stopped"
    /\ thread' = "loop"
    /\ UNCHANGED <<m_state, m_work, x_work, pc, ex, object>>

-----------------------------------------------------------------------------
Thread ==
    \/ LoopTest \/ EnterWorkLoop \/ LeaveWorkLoop \/ AbandonWorkLoop
    \/ ExchangeStopped \/ Restore \/ Unpark

Caller(c) ==
    \/ StartWorking(c) \/ StartReturns(c) \/ StopWorking(c) \/ StopReturns(c)
    \/ DestroyMiner(c) \/ DestroyPlain(c) \/ Kill(c) \/ Join(c)

\* The object is gone.
Destroyed == (\E c \in Callers : pc[c] = "done") /\ UNCHANGED vars

Next == Thread \/ (\E c \in Callers : Caller(c)) \/ Destroyed

\* The scheduler runs every thread; nobody is obliged to call, or to return from
\* a workLoop, which may never look at shouldStop().  Callers queue for the mutex
\* only while others hold it, and a destructor never queues.
Fairness ==
    /\ WF_vars(LoopTest) /\ WF_vars(EnterWorkLoop)
    /\ WF_vars(ExchangeStopped) /\ WF_vars(Restore) /\ WF_vars(Unpark)
    /\ \A c \in Callers :
          /\ WF_vars(StartReturns(c)) /\ WF_vars(StopReturns(c))
          /\ WF_vars(pc[c] = "dtor" /\ StopWorking(c))
          /\ WF_vars(Kill(c)) /\ WF_vars(Join(c))

Spec == Init /\ [][Next]_vars /\ Fairness

-----------------------------------------------------------------------------
(* Properties.                                                             *)

\* Worker::stopWorking returns on Stopped: whoever sees Stopped sees a thread
\* that has left workLoop and cannot re-enter it without a new command.
StoppedMeansParked == m_state = "Stopped" => thread \in {"restore", "park"}

\* The miners' destructors rely on stopWorking: once it has returned and the
\* derived members are being destroyed, the thread never calls workLoop again.
NoWorkOnDestroyedMiner ==
    object = "stopped" => thread \in {"park", "loop", "exited"}

\* ~Worker joins a thread that was told to die.  The thread may overwrite
\* Killing with Stopped (line 65), but the command survives in its local ex.
KillIsNotLost ==
    \A c \in Callers : pc[c] = "join" =>
        \/ m_state = "Killing"
        \/ thread = "restore" /\ ex = "Killing"

\* While startWorking waits for its command to be taken, the command is still
\* in m_state: the exchange of line 65 never overwrites a Starting.
StartIsNotOverwritten == ~(thread = "restore" /\ ex = "Starting")

\* The derived workLoop comes back once shouldStop() holds.  The search loops of the
\* two miners do; the pool clients (while (true)), the pool manager (m_running) and
\* a miner that waits for its turn to load the DAG do not look at it.
WorkLoopReturns == thread = "work" /\ shouldStop ~> thread # "work"

\* Every wait ends, those of startWorking and stopWorking, which keep x_work, and
\* the join of either kind of destruction, if the derived workLoop comes back.
CallsTerminate ==
    WorkLoopReturns => \A c \in Callers :
        /\ pc[c] \in {"start", "stop"} ~> pc[c] = "idle"
        /\ pc[c] \in {"dtor", "base"} ~> pc[c] = "done"

\* Refuted for the Workers that do not poll (the clients, the manager): the stop of
\* such an object, or the join of its destructor, waits for ever.
CallsAlwaysTerminate ==
    \A c \in Callers :
        /\ pc[c] \in {"start", "stop"} ~> pc[c] = "idle"
        /\ pc[c] \in {"dtor", "base"} ~> pc[c] = "done"
=============================================================================
