---------------------------- MODULE WorkerProofs ----------------------------
(***************************************************************************)
(* The safety properties of Worker, for any set of callers.                *)
(*                                                                         *)
(* None of them is inductive alone.  The strengthening IInv records which  *)
(* values of m_state each position of the background thread allows, who    *)
(* holds x_work, and that a destruction has a single caller.               *)
(***************************************************************************)
EXTENDS Worker, TLAPS

\* The callers inside the mutex are the ones in a wait or in the join.
Holders == \A c \in Callers :
    c \in x_work <=> pc[c] \in {"start", "stop", "dtorStop", "join"}

\* What the callers may be doing at each stage of the object's life.
Stages == \A c \in Callers : pc[c] \in
    CASE object = "alive" -> {"idle", "start", "stop"}
      [] object = "stopFirst" -> {"idle", "dtor", "dtorStop"}
      [] OTHER -> {"idle", "base", "join", "done"}

\* Once a destruction has begun it has a single caller.
OneDestroyer == object # "alive" =>
    \A c, d \in Callers : pc[c] # "idle" /\ pc[d] # "idle" => c = d

\* What m_state may be at each position of the background thread.
StateAt ==
    /\ thread = "none" => m_state = "Starting"
    /\ thread \in {"loop", "cas"} => m_state \in {"Starting", "Killing"}
    /\ thread \in {"work", "exchange"} => m_state \in {"Started", "Stopping", "Killing"}
    /\ thread = "restore" => m_state = "Stopped" /\ ex = "Killing"
    /\ thread = "park" => m_state \in {"Stopped", "Starting", "Killing"}
    /\ thread = "exited" => m_state = "Killing"

\* The thread exists from the first start to the join.
ThreadExists ==
    /\ m_work => thread # "none"
    /\ ~m_work => thread \in {"none", "exited"}

\* A kill has a caller in ~Worker, and a join a kill.
Killed ==
    /\ m_state = "Killing" \/ thread = "restore" =>
          \E c \in Callers : pc[c] \in {"join", "done"}
    /\ \A c \in Callers : pc[c] \in {"join"} =>
          m_state = "Killing" \/ thread = "restore"

\* The derived part is gone only after the thread has parked.
Parked == object = "stopped" =>
    /\ thread \in {"park", "loop", "exited"}
    /\ m_state \in {"Stopped", "Killing"}

IInv == /\ TypeOK /\ Holders /\ Stages /\ OneDestroyer /\ StateAt
        /\ ThreadExists /\ Killed /\ Parked

\* Every initial state satisfies the inductive invariant.
LEMMA InitIInv == Init => IInv
  BY DEF Init, IInv, TypeOK, Holders, Stages, OneDestroyer, StateAt,
         ThreadExists, Killed, Parked, WorkerState, CallerPC, ThreadPC,
         ObjectState

\* Every step of a caller (startWorking, stopWorking, the destructors)
\* preserves the inductive invariant.
LEMMA CallerIInv ==
  ASSUME IInv, NEW c \in Callers, Caller(c)
  PROVE  IInv'
  <1> USE DEF IInv, TypeOK, Holders, Stages, OneDestroyer, StateAt,
              ThreadExists, Killed, Parked, WorkerState, CallerPC, ThreadPC,
              ObjectState, Goto, CAS
  <1>1. CASE StartWorking(c)
    <2> USE <1>1 DEF StartWorking
    <2>1. /\ object = "alive" /\ object' = object /\ ex' = ex
          /\ x_work = {} /\ x_work' = {c}
          /\ pc' = [pc EXCEPT ![c] = "start"]
      OBVIOUS
    <2>2. m_state # "Killing" /\ thread \notin {"restore", "exited"}
      OBVIOUS
    <2>3. /\ m_state' \in WorkerState /\ m_state' # "Killing"
          /\ thread' \in ThreadPC \ {"none", "restore", "exited"}
          /\ m_work' = TRUE
      BY <2>2
    <2>4. TypeOK' /\ Holders' /\ Stages' /\ OneDestroyer'
      BY <2>1, <2>3
    <2>5. StateAt'
      BY <2>1, <2>2
    <2>6. ThreadExists' /\ Killed' /\ Parked'
      BY <2>1, <2>3
    <2>7. QED
      BY <2>4, <2>5, <2>6
  <1>2. CASE StartReturns(c)
    BY <1>2 DEF StartReturns
  <1>3. CASE StopWorking(c)
    BY <1>3 DEF StopWorking
  <1>4. CASE StopReturns(c)
    BY <1>4 DEF StopReturns
  <1>5. CASE DestroyMiner(c)
    BY <1>5 DEF DestroyMiner
  <1>6. CASE DestroyPlain(c)
    BY <1>6 DEF DestroyPlain
  <1>7. CASE Kill(c)
    BY <1>7 DEF Kill
  <1>8. CASE Join(c)
    <2> USE <1>8 DEF Join
    <2>1. TypeOK' /\ Stages' /\ OneDestroyer'
      OBVIOUS
    <2>2. Holders'
      OBVIOUS
    <2>3. StateAt' /\ ThreadExists' /\ Parked'
      OBVIOUS
    <2>4. Killed'
      OBVIOUS
    <2>5. QED
      BY <2>1, <2>2, <2>3, <2>4
  <1>9. QED
    BY <1>1, <1>2, <1>3, <1>4, <1>5, <1>6, <1>7, <1>8 DEF Caller

\* Every step of the background thread preserves the inductive invariant.
LEMMA ThreadIInv ==
  ASSUME IInv, Thread
  PROVE  IInv'
  <1> USE DEF IInv, TypeOK, Holders, Stages, OneDestroyer, StateAt,
              ThreadExists, Killed, Parked, WorkerState, CallerPC, ThreadPC,
              ObjectState, CAS
  <1>1. CASE LoopTest
    BY <1>1 DEF LoopTest
  <1>2. CASE EnterWorkLoop
    BY <1>2 DEF EnterWorkLoop
  <1>3. CASE LeaveWorkLoop
    BY <1>3 DEF LeaveWorkLoop, shouldStop
  <1>4. CASE AbandonWorkLoop
    BY <1>4 DEF AbandonWorkLoop, shouldStop
  <1>5. CASE ExchangeStopped
    BY <1>5 DEF ExchangeStopped
  <1>6. CASE Restore
    BY <1>6 DEF Restore
  <1>7. CASE Unpark
    BY <1>7 DEF Unpark
  <1>8. QED
    BY <1>1, <1>2, <1>3, <1>4, <1>5, <1>6, <1>7 DEF Thread

\* The inductive invariant holds in every reachable state.
THEOREM Invariance == Spec => []IInv
  <1>1. IInv /\ [Next]_vars => IInv'
    <2> SUFFICES ASSUME IInv, [Next]_vars PROVE IInv'
      OBVIOUS
    <2>1. CASE Thread
      BY <2>1, ThreadIInv
    <2>2. CASE \E c \in Callers : Caller(c)
      BY <2>2, CallerIInv
    <2>3. CASE UNCHANGED vars
      BY <2>3 DEF vars, IInv, TypeOK, Holders, Stages, OneDestroyer, StateAt,
                  ThreadExists, Killed, Parked
    <2>4. QED
      BY <2>1, <2>2, <2>3 DEF Next, Destroyed
  <1>2. QED
    BY InitIInv, <1>1, PTL DEF Spec

\* Worker's variables keep their types, and x_work excludes: at most one
\* caller is inside startWorking, stopWorking or ~Worker.
THEOREM TypeCorrect == Spec => []TypeOK
  <1>1. IInv => TypeOK
    BY DEF IInv
  <1>2. QED
    BY <1>1, Invariance, PTL

\* A caller that reads Stopped in stopWorking finds the thread outside workLoop.
THEOREM StopIsSynchronous == Spec => []StoppedMeansParked
  <1>1. IInv => StoppedMeansParked
    BY DEF IInv, TypeOK, ThreadPC, StateAt, StoppedMeansParked
  <1>2. QED
    BY <1>1, Invariance, PTL

\* After a miner's destructor has returned from stopWorking, the thread never
\* calls workLoop on the members being destroyed.
THEOREM MinerDestructionSafe == Spec => []NoWorkOnDestroyedMiner
  <1>1. IInv => NoWorkOnDestroyedMiner
    BY DEF IInv, Parked, NoWorkOnDestroyedMiner
  <1>2. QED
    BY <1>1, Invariance, PTL

\* The window between the two exchanges of the thread never loses the Killing
\* of ~Worker, so the join waits for a thread that is going to exit.
THEOREM KillSurvives == Spec => []KillIsNotLost
  <1>1. IInv => KillIsNotLost
    BY DEF IInv, StateAt, Killed, KillIsNotLost
  <1>2. QED
    BY <1>1, Invariance, PTL

\* The exchange of line 65 never takes a Starting away from startWorking.
THEOREM StartSurvives == Spec => []StartIsNotOverwritten
  <1>1. IInv => StartIsNotOverwritten
    BY DEF IInv, StateAt, StartIsNotOverwritten
  <1>2. QED
    BY <1>1, Invariance, PTL
=============================================================================
