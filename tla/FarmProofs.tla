----------------------------- MODULE FarmProofs -----------------------------
(***************************************************************************)
(* What x_minerWork buys Farm, for any packages, sealers and numbers of    *)
(* devices: the miners never hold an older package, and m_isMining denies  *)
(* that they exist only inside the start() that creates them.  Both rest   *)
(* on start, stop and setWork each changing m_miners together with m_work  *)
(* or m_isMining in one critical section, though not in one step.          *)
(***************************************************************************)
EXTENDS Farm, TLAPS

\* The miners, their work and m_isMining.
MinerInv ==
    /\ m_miners \in Seq(Works \cup {NoWork})
    /\ m_work \in Works \cup {NoWork}
    /\ m_isMining \in BOOLEAN
    /\ NoStaleMiner

\* The calls the handlers have still to make: a caller inside a call has one.
CallInv ==
    /\ calls \in [Threads -> Seq(Call)]
    /\ pc \in [Threads -> CallerPC]
    /\ \A t \in Threads : pc[t] # "call" => calls[t] # <<>>

\* Who is between the lock and the unlock of x_minerWork holds it.
LockInv ==
    /\ \A t \in Threads :
          pc[t] \in {"cleared", "created", "reset", "join", "collecting"} => x_minerWork = t
    /\ service = "collecting" => x_minerWork = "service"

\* Miners and m_isMining disagree only inside a start or a stop, which holds the mutex.
MiningInv ==
    /\ m_miners # <<>> => m_isMining \/ \E t \in Threads : pc[t] = "created"
    /\ \A t \in Threads : pc[t] = "cleared" => m_miners = <<>>

IInv == MinerInv /\ CallInv /\ LockInv /\ MiningInv

\* A farm without miners satisfies the invariant on the miners.
LEMMA NoMiners ==
  ASSUME m_miners = <<>>, m_work \in Works \cup {NoWork}, m_isMining \in BOOLEAN
  PROVE  MinerInv
  <1>1. m_miners \in Seq(Works \cup {NoWork}) /\ Len(m_miners) = 0
    OBVIOUS
  <1>2. NoStaleMiner
    BY <1>1 DEF NoStaleMiner
  <1>3. QED
    BY <1>1, <1>2 DEF MinerInv

\* The same after a step that destroys the miners.
LEMMA NoMinersNext ==
  ASSUME m_miners' = <<>>, m_work' \in Works \cup {NoWork}, m_isMining' \in BOOLEAN
  PROVE  MinerInv'
  <1>1. m_miners' \in Seq(Works \cup {NoWork}) /\ Len(m_miners') = 0
    OBVIOUS
  <1>2. NoStaleMiner'
    BY <1>1 DEF NoStaleMiner
  <1>3. QED
    BY <1>1, <1>2 DEF MinerInv

\* Every initial state satisfies the inductive invariant.
LEMMA InitIInv == Init => IInv
  <1> SUFFICES ASSUME Init PROVE IInv
    OBVIOUS
  <1>1. MinerInv
    BY NoMiners DEF Init
  <1>2. CallInv
    <2>1. <<>> \in Seq(Call)
      OBVIOUS
    <2>2. QED
      BY <2>1 DEF Init, CallInv, CallerPC
  <1>3. LockInv /\ MiningInv
    BY DEF Init, LockInv, MiningInv
  <1>4. QED
    BY <1>1, <1>2, <1>3 DEF IInv

\* The miners after start(): those of a mixed start keep what they hold, and
\* the new ones have no work.
LEMMA StartedMiners ==
  ASSUME MinerInv, NEW s \in Sealers, NEW mixed \in BOOLEAN
  PROVE  /\ Started(s, mixed) \in Seq(Works \cup {NoWork})
         /\ \A i \in 1 .. Len(Started(s, mixed)) : Started(s, mixed)[i] \in {NoWork, m_work}
  <1> DEFINE old == IF mixed THEN m_miners ELSE <<>>
             new == [i \in 1 .. Instances[s] |-> NoWork]
  <1>1. Instances[s] \in Nat
    BY SealersAssumption
  <1>2. /\ old \in Seq(Works \cup {NoWork})
        /\ \A i \in 1 .. Len(old) : old[i] \in {NoWork, m_work}
    BY DEF MinerInv, NoStaleMiner
  <1>3. /\ new \in Seq(Works \cup {NoWork}) /\ Len(new) = Instances[s]
        /\ \A i \in 1 .. Len(new) : new[i] = NoWork
    BY <1>1
  <1>4. Started(s, mixed) = old \o new
    BY DEF Started
  <1> HIDE DEF old, new
  <1>5. /\ old \o new \in Seq(Works \cup {NoWork})
        /\ \A i \in 1 .. Len(old \o new) : (old \o new)[i] \in {NoWork, m_work}
    BY <1>2, <1>3
  <1>6. QED
    BY <1>4, <1>5

\* The call of a start says whether it is mixed.
LEMMA StartCallFields ==
  ASSUME NEW c \in Call, c.op = "start"
  PROVE  c.mixed \in BOOLEAN
  BY DEF Call, StopCall, CollectCall, StartCall, SetWorkCall

\* The call of a setWork carries a package.
LEMMA SetWorkCallFields ==
  ASSUME NEW c \in Call, c.op = "setWork"
  PROVE  c.work \in Works
  BY DEF Call, StopCall, CollectCall, StartCall, SetWorkCall

\* Starting a handler, moving on inside a call and returning from one keep the
\* lists of calls well formed.
LEMMA CallsKept ==
  ASSUME CallInv, NEW t \in Threads,
         \/ \E todo \in Seq(Call) : Handle(t, todo)
         \/ calls[t] # <<>> /\ \E l \in CallerPC : Goto(t, l)
         \/ calls[t] # <<>> /\ Return(t)
  PROVE  CallInv'
  <1>1. ASSUME NEW todo \in Seq(Call), Handle(t, todo)
        PROVE  CallInv'
    BY <1>1 DEF Handle, CallInv
  <1>2. ASSUME calls[t] # <<>>, NEW l \in CallerPC, Goto(t, l)
        PROVE  CallInv'
    BY <1>2 DEF Goto, CallInv
  <1>3. ASSUME calls[t] # <<>>, Return(t)
        PROVE  CallInv'
    <2>1. Tail(calls[t]) \in Seq(Call)
      BY <1>3 DEF CallInv
    <2>2. /\ calls' = [calls EXCEPT ![t] = Tail(calls[t])]
          /\ pc' = [pc EXCEPT ![t] = "call"]
      BY <1>3 DEF Return
    <2>3. calls' \in [Threads -> Seq(Call)] /\ pc' \in [Threads -> CallerPC]
      BY <2>1, <2>2 DEF CallInv, CallerPC
    <2>4. ASSUME NEW u \in Threads, pc'[u] # "call"
          PROVE  calls'[u] # <<>>
      BY <2>2, <2>4 DEF CallInv
    <2>5. QED
      BY <2>3, <2>4 DEF CallInv
  <1>4. QED
    BY <1>1, <1>2, <1>3

\* A step that leaves the miners, the work and m_isMining alone keeps MinerInv.
LEMMA MinersKept ==
  ASSUME MinerInv, UNCHANGED <<m_miners, m_work, m_isMining>>
  PROVE  MinerInv'
  BY DEF MinerInv, NoStaleMiner

\* The handlers of PoolManager only decide what to call.
LEMMA HandlerIInv ==
  ASSUME IInv, Handler
  PROVE  IInv'
  <1>1. \E t \in Threads : \E todo \in Seq(Call) : Handle(t, todo)
    <2>1. StartCall("opencl", FALSE) \in Call /\ StartCall("cuda", FALSE) \in Call
          /\ StartCall("opencl", TRUE) \in Call
      BY DEF Call, StartCall
    <2>2. StartCalls \in Seq(Call)
      <3>1. ASSUME NEW a \in Call, NEW b \in Call
            PROVE  <<a>> \in Seq(Call) /\ <<a, b>> \in Seq(Call)
        OBVIOUS
      <3> HIDE DEF Call
      <3>2. CASE m_minerType = "Mixed"
        <4>1. StartCalls = <<StartCall("cuda", FALSE), StartCall("opencl", TRUE)>>
          BY <3>2 DEF StartCalls
        <4>2. QED
          BY <2>1, <3>1, <4>1
      <3>3. CASE m_minerType # "Mixed"
        <4>1. \/ StartCalls = <<StartCall("opencl", FALSE)>>
              \/ StartCalls = <<StartCall("cuda", FALSE)>>
          BY <3>3 DEF StartCalls
        <4>2. QED
          BY <2>1, <3>1, <4>1
      <3>4. QED
        BY <3>2, <3>3
    <2>3. StopCall \in Call /\ CollectCall \in Call
          /\ \A p \in Works : SetWorkCall(p) \in Call
      BY DEF Call, SetWorkCall
    <2>4. CASE OnConnected
      <3>1. (IF m_isMining THEN <<>> ELSE StartCalls) \in Seq(Call)
        BY <2>2
      <3>2. QED
        BY <2>4, <3>1 DEF OnConnected, Threads
    <2>5. CASE OnDisconnected
      <3>1. (IF m_isMining THEN <<StopCall>> ELSE <<>>) \in Seq(Call)
        BY <2>3
      <3>2. QED
        BY <2>5, <3>1 DEF OnDisconnected, Threads
    <2>6. CASE Restart
      <3>1. (IF m_isMining THEN <<StopCall>> ELSE <<>>) \o StartCalls \in Seq(Call)
        BY <2>2, <2>3
      <3>2. QED
        BY <2>6, <3>1 DEF Restart, Threads
    <2>7. ASSUME NEW p \in Works, OnWorkReceived(p)
          PROVE  Handle("pool", <<CollectCall, SetWorkCall(p)>>)
      BY <2>7 DEF OnWorkReceived
    <2>8. ASSUME NEW p \in Works PROVE <<CollectCall, SetWorkCall(p)>> \in Seq(Call)
      BY <2>3
    <2>9. QED
      BY <2>4, <2>5, <2>6, <2>7, <2>8 DEF Handler, Threads
  <1>2. UNCHANGED <<m_miners, m_work, m_isMining>>
    BY <1>1 DEF Handle, minerVars
  <1>3. UNCHANGED <<pc, x_minerWork, service>>
    BY <1>1 DEF Handle, serviceVars
  <1>4. LockInv' /\ MiningInv'
    BY <1>2, <1>3 DEF IInv, LockInv, MiningInv
  <1>5. QED
    BY <1>1, <1>2, <1>4, CallsKept, MinersKept DEF IInv

\* A caller's step keeps the mutex with its holder.
LEMMA CallerLock ==
  ASSUME IInv, NEW t \in Threads, Locking(t) \/ Working(t)
  PROVE  LockInv'
  <1>1. pc \in [Threads -> CallerPC] /\ t \notin {"free"}
    BY DEF IInv, CallInv, Threads
  <1>2. ASSUME NEW u \in Threads, u # t
        PROVE  pc'[u] = pc[u]
    BY <1>1, <1>2 DEF Locking, Working, StopMiners, StartRefused, StartMiners, StartMining,
           StopMining, BeginCollect, SetWork, StopTimer, StopService, ClearProgresses,
           ResetService, JoinService, EndCollect, Goto, Return
  <1>3. CASE StopMiners(t) \/ StartMiners(t) \/ BeginCollect(t)
    <2>1. x_minerWork = "free" /\ x_minerWork' = t
      BY <1>3 DEF StopMiners, StartMiners, BeginCollect, Free
    <2>2. ASSUME NEW u \in Threads, u # t
          PROVE  pc[u] \notin {"cleared", "created", "reset", "join", "collecting"}
      BY <2>1 DEF IInv, LockInv, Threads
    <2>3. service # "collecting" /\ service' = service
      BY <1>3, <2>1 DEF IInv, LockInv, StopMiners, StartMiners, BeginCollect, serviceVars
    <2>4. QED
      BY <1>2, <2>1, <2>2, <2>3 DEF LockInv
  <1>4. CASE \/ StopMining(t) \/ JoinService(t) \/ EndCollect(t) \/ StartMining(t)
             \/ ResetService(t)
    <2>1. pc[t] \in {"cleared", "created", "reset", "join", "collecting"}
      BY <1>4 DEF StopMining, JoinService, EndCollect, StartMining, ResetService
    <2>2. x_minerWork = t
      BY <2>1 DEF IInv, LockInv
    <2>3. ASSUME NEW u \in Threads, u # t
          PROVE  pc[u] \notin {"cleared", "created", "reset", "join", "collecting"}
      BY <2>2, <2>3 DEF IInv, LockInv
    <2>4. \/ pc'[t] \in {"timer", "call"}
          \/ x_minerWork' = x_minerWork
      BY <1>1, <1>4 DEF StopMining, JoinService, EndCollect, StartMining, ResetService, Goto, Return
    <2>5. service # "collecting"
      BY <2>2 DEF IInv, LockInv, Threads
    <2>6. service' # "collecting"
      BY <1>4, <2>5 DEF StopMining, JoinService, EndCollect, StartMining, ResetService, serviceVars
    <2>7. QED
      BY <1>2, <2>2, <2>3, <2>4, <2>6 DEF LockInv
  <1>5. CASE \/ StartRefused(t) \/ SetWork(t) \/ StopTimer(t) \/ StopService(t)
             \/ ClearProgresses(t)
    <2>1. /\ x_minerWork' = x_minerWork /\ pc'[t] \in {"call", "io", "clear"}
          /\ service' = service
      BY <1>1, <1>5 DEF StartRefused, SetWork, StopTimer, StopService, ClearProgresses, Goto,
             Return, serviceVars
    <2>2. QED
      BY <1>2, <2>1 DEF IInv, LockInv
  <1>6. QED
    BY <1>3, <1>4, <1>5 DEF Locking, Working

\* A caller's step lets miners and m_isMining disagree only with the mutex held.
LEMMA CallerMining ==
  ASSUME IInv, NEW t \in Threads, Locking(t) \/ Working(t)
  PROVE  MiningInv'
  <1>1. pc \in [Threads -> CallerPC]
    BY DEF IInv, CallInv
  <1>2. ASSUME NEW u \in Threads, u # t
        PROVE  pc'[u] = pc[u]
    BY <1>1, <1>2 DEF Locking, Working, StopMiners, StartRefused, StartMiners, StartMining,
           StopMining, BeginCollect, SetWork, StopTimer, StopService, ClearProgresses,
           ResetService, JoinService, EndCollect, Goto, Return
  <1>3. CASE StopMiners(t)
    BY <1>3 DEF StopMiners, MiningInv
  <1>4. CASE StartMiners(t)
    <2>1. x_minerWork = "free" /\ pc'[t] = "created"
      BY <1>1, <1>4 DEF StartMiners, Free, Goto
    <2>2. \A u \in Threads : pc[u] # "cleared"
      BY <2>1 DEF IInv, LockInv, Threads
    <2>3. QED
      BY <1>2, <2>1, <2>2 DEF MiningInv
  <1>5. CASE StopMining(t)
    <2>1. m_miners' = <<>>
      BY <1>5 DEF StopMining, IInv, MiningInv
    <2>2. QED
      BY <2>1 DEF MiningInv
  <1>6. CASE StartMining(t)
    <2>1. m_isMining' = TRUE /\ m_miners' = m_miners /\ pc'[t] # "cleared"
      BY <1>1, <1>6 DEF StartMining, Goto, Return
    <2>2. QED
      BY <1>2, <2>1 DEF IInv, MiningInv
  <1>7. CASE SetWork(t)
    <2>1. m_miners = <<>> => m_miners' = <<>>
      BY <1>7 DEF SetWork
    <2>2. m_miners' # <<>> => m_miners # <<>>
      BY <2>1
    <2>3. m_isMining' = m_isMining /\ pc[t] = "call" /\ pc'[t] = "call"
      BY <1>1, <1>7 DEF SetWork, Calling, Return
    <2>4. QED
      BY <1>2, <2>1, <2>2, <2>3 DEF IInv, MiningInv
  <1>8. CASE \/ StartRefused(t) \/ BeginCollect(t) \/ StopTimer(t) \/ StopService(t)
             \/ ClearProgresses(t) \/ ResetService(t) \/ JoinService(t) \/ EndCollect(t)
    <2>1. UNCHANGED <<m_miners, m_isMining>> /\ pc[t] # "created" /\ pc'[t] # "cleared"
      BY <1>1, <1>8 DEF StartRefused, BeginCollect, StopTimer, StopService,
             ClearProgresses, ResetService, JoinService, EndCollect, Goto, Return, minerVars,
             Calling
    <2>2. QED
      BY <1>2, <2>1 DEF IInv, MiningInv
  <1>9. QED
    BY <1>3, <1>4, <1>5, <1>6, <1>7, <1>8 DEF Locking, Working

\* Every step of a caller inside start, stop, setWork or collectHashRate
\* preserves the inductive invariant.
LEMMA CallerIInv ==
  ASSUME IInv, NEW t \in Threads, Locking(t) \/ Working(t)
  PROVE  IInv'
  <1>1. calls[t] # <<>>
    BY DEF IInv, CallInv, Locking, Working, StopMiners, StartRefused, StartMiners,
           StopMining, StartMining, BeginCollect, SetWork, StopTimer, StopService, ClearProgresses,
           ResetService, JoinService, EndCollect, Calling
  <1>2. Head(calls[t]) \in Call
    BY <1>1 DEF IInv, CallInv
  <1>3. CallInv'
    <2>1. Return(t) \/ \E l \in CallerPC : Goto(t, l)
      BY DEF Locking, Working, StopMiners, StartRefused, StartMiners,
             StopMining, StartMining, BeginCollect, SetWork, StopTimer, StopService,
             ClearProgresses, ResetService, JoinService, EndCollect, CallerPC
    <2>2. QED
      BY <1>1, <2>1, CallsKept DEF IInv
  <1>4. LockInv' /\ MiningInv'
    BY CallerLock, CallerMining
  <1>5. MinerInv'
    <2>1. CASE StartMiners(t)
      <3> DEFINE call == Head(calls[t])
      <3>1. call.sealer \in Sealers /\ call.mixed \in BOOLEAN
        BY <1>2, <2>1, StartCallFields DEF StartMiners, Calling
      <3>2. /\ m_miners' = Started(call.sealer, call.mixed)
            /\ m_work' = m_work /\ m_isMining' = m_isMining
        BY <2>1 DEF StartMiners
      <3> HIDE DEF call
      <3>3. QED
        BY <3>1, <3>2, StartedMiners DEF IInv, MinerInv, NoStaleMiner
    <2>2. CASE SetWork(t)
      <3> DEFINE p == Head(calls[t]).work
      <3>1. p \in Works
        BY <1>2, <2>2, SetWorkCallFields DEF SetWork, Calling
      <3>2. /\ m_work' = p /\ m_isMining' = m_isMining
            /\ m_miners' = IF p = m_work THEN m_miners ELSE [i \in DOMAIN m_miners |-> p]
        BY <2>2 DEF SetWork
      <3> HIDE DEF p
      <3>3. m_miners' \in Seq(Works \cup {NoWork}) /\ NoStaleMiner'
        BY <3>1, <3>2 DEF IInv, MinerInv, NoStaleMiner
      <3>4. QED
        BY <3>1, <3>2, <3>3 DEF IInv, MinerInv
    <2>3. CASE StopMiners(t)
      <3>1. m_miners' = <<>> /\ m_work' = m_work /\ m_isMining' = m_isMining
        BY <2>3 DEF StopMiners
      <3>2. QED
        BY <3>1, NoMinersNext DEF IInv, MinerInv
    <2>4. CASE StopMining(t) \/ StartMining(t)
      <3>1. m_miners' = m_miners /\ m_work' = m_work /\ m_isMining' \in BOOLEAN
        BY <2>4 DEF StopMining, StartMining
      <3>2. QED
        BY <3>1 DEF IInv, MinerInv, NoStaleMiner
    <2>5. CASE UNCHANGED <<m_miners, m_work, m_isMining>>
      BY <2>5, MinersKept DEF IInv
    <2>6. QED
      BY <2>1, <2>2, <2>3, <2>4, <2>5
         DEF Locking, Working, StartRefused, BeginCollect, StopTimer, StopService,
             ClearProgresses, ResetService, JoinService, EndCollect, minerVars
  <1>6. QED
    BY <1>3, <1>4, <1>5 DEF IInv

\* The inductive invariant holds in every reachable state.
THEOREM Invariance == Spec => []IInv
  <1>1. IInv /\ [Next]_vars => IInv'
    <2> SUFFICES ASSUME IInv, [Next]_vars PROVE IInv'
      OBVIOUS
    <2>1. CASE Handler
      BY <2>1, HandlerIInv
    <2>2. CASE \E t \in Threads : Locking(t) \/ Working(t)
      BY <2>2, CallerIInv
    <2>3. CASE Running \/ ServiceCollects \/ UNCHANGED vars
      <3>1. UNCHANGED <<m_miners, m_work, m_isMining, calls, pc>>
        BY <2>3 DEF Running, TimerExpires, RunHandler, ServiceCollects,
                    ServiceCollected, ServiceRearms, RunReturns, vars, minerVars
      <3>2. CallInv' /\ MiningInv'
        BY <3>1 DEF IInv, CallInv, MiningInv
      <3>3. \A t \in Threads : x_minerWork = t => x_minerWork' = t
        BY <2>3 DEF Running, TimerExpires, RunHandler, ServiceCollects, Free, Threads,
                    ServiceCollected, ServiceRearms, RunReturns, vars, IInv, LockInv
      <3>4. service' = "collecting" => x_minerWork' = "service"
        BY <2>3 DEF Running, TimerExpires, RunHandler, ServiceCollects, ServiceCollected,
                    ServiceRearms, RunReturns, vars, serviceVars, IInv, LockInv
      <3>5. LockInv'
        BY <3>1, <3>3, <3>4 DEF IInv, LockInv
      <3>6. QED
        BY <3>1, <3>2, <3>5, MinersKept DEF IInv
    <2>4. QED
      BY <2>1, <2>2, <2>3 DEF Next
  <1>2. QED
    BY InitIInv, <1>1, PTL DEF Spec

\* However start, stop, restart and setWork interleave, a miner holds the farm's
\* package or none.
THEOREM MinersAreNeverStale == Spec => []NoStaleMiner
  <1>1. IInv => NoStaleMiner
    BY DEF IInv, MinerInv
  <1>2. QED
    BY <1>1, Invariance, PTL

\* However start, stop and restart interleave, isMining() denies miners only while
\* the start() that creates them holds the mutex: a handler that stops the farm only
\* if it is mining can miss those of a start under way and no others.
THEOREM MinersAreNoticed == Spec => []MinersMeanMining
  <1>1. IInv => MinersMeanMining
    BY DEF IInv, MiningInv, LockInv, MinersMeanMining
  <1>2. QED
    BY <1>1, Invariance, PTL

\* What TypeOK says of the mutex, the connection and the service thread, and what
\* start() stores in m_lastSealer once the miners are there.
ServiceInv ==
    /\ m_minerType \in MinerTypes
    /\ x_minerWork \in Threads \cup {"service", "free"}
    /\ connected \in BOOLEAN
    /\ service \in {"none", "run", "collect", "collecting", "rearm", "exited"}
    /\ stopped \in BOOLEAN /\ armed \in BOOLEAN
    /\ queued \in 0 .. MaxQueued

SealerInv ==
    /\ m_lastSealer \in Sealers \cup {""}
    /\ \A t \in Threads : pc[t] = "created" => Head(calls[t]).sealer \in Sealers

\* start() notes a sealer it has looked up, though after creating its miners.
LEMMA SealersKept ==
  ASSUME IInv, SealerInv, [Next]_vars
  PROVE  SealerInv'
  <1> USE DEF SealerInv
  <1>1. pc \in [Threads -> CallerPC] /\ calls \in [Threads -> Seq(Call)]
    BY DEF IInv, CallInv
  <1>2. ASSUME NEW t \in Threads, Locking(t) \/ Working(t), NEW u \in Threads, u # t
        PROVE  pc'[u] = pc[u] /\ calls'[u] = calls[u]
    BY <1>1, <1>2 DEF Locking, Working, StopMiners, StartRefused, StartMiners, StartMining,
           StopMining, BeginCollect, SetWork, StopTimer, StopService, ClearProgresses,
           ResetService, JoinService, EndCollect, Goto, Return
  <1>3. ASSUME NEW t \in Threads, StartMiners(t)
        PROVE  SealerInv'
    <2>1. m_lastSealer' = m_lastSealer /\ calls' = calls /\ Head(calls[t]).sealer \in Sealers
      BY <1>3 DEF StartMiners, Goto
    <2>2. QED
      BY <1>2, <1>3, <2>1 DEF Locking
  <1>4. ASSUME NEW t \in Threads, StartMining(t)
        PROVE  SealerInv'
    <2>1. m_lastSealer' \in Sealers /\ pc'[t] # "created"
      BY <1>1, <1>4 DEF StartMining, Goto, Return
    <2>2. QED
      BY <1>2, <1>4, <2>1 DEF Working
  <1>5. ASSUME NEW t \in Threads, Locking(t) \/ Working(t), ~StartMiners(t), ~StartMining(t)
        PROVE  SealerInv'
    <2>1. m_lastSealer' = m_lastSealer /\ pc'[t] # "created"
      BY <1>1, <1>5 DEF Locking, Working, StopMiners, StartRefused, StopMining, BeginCollect,
             SetWork, StopTimer, StopService, ClearProgresses, ResetService, JoinService,
             EndCollect, Goto, Return, minerVars
    <2>2. QED
      BY <1>2, <1>5, <2>1
  <1>6. CASE Handler
    <2>1. \E t \in Threads : \E todo : Handle(t, todo)
      BY <1>6 DEF Handler, OnConnected, OnDisconnected, OnWorkReceived, Restart, Threads
    <2>2. PICK t \in Threads : \E todo : Handle(t, todo)
      BY <2>1
    <2>3. /\ m_lastSealer' = m_lastSealer /\ pc' = pc /\ pc[t] = "call"
          /\ \A u \in Threads : u # t => calls'[u] = calls[u]
      BY <1>1, <2>2 DEF Handle, minerVars, IInv, CallInv
    <2>4. QED
      BY <2>3
  <1>7. CASE Running \/ ServiceCollects \/ UNCHANGED vars
    <2>1. UNCHANGED <<m_lastSealer, pc, calls>>
      BY <1>7 DEF Running, TimerExpires, RunHandler, ServiceCollects, ServiceCollected,
                  ServiceRearms, RunReturns, vars, minerVars
    <2>2. QED
      BY <2>1
  <1>8. QED
    BY <1>3, <1>4, <1>5, <1>6, <1>7 DEF Next

\* Every variable keeps its type; in particular the service thread handles no
\* more waits of m_hashrateTimer than have expired.
THEOREM TypeCorrect == Spec => []TypeOK
  <1>1. Init => ServiceInv /\ SealerInv
    <2>1. 0 \in 0 .. MaxQueued
      BY SealersAssumption
    <2>2. QED
      BY <2>1 DEF Init, ServiceInv, SealerInv, Threads
  <1>2. ServiceInv /\ [Next]_vars => ServiceInv'
    <2> SUFFICES ASSUME ServiceInv, [Next]_vars PROVE ServiceInv'
      OBVIOUS
    <2> USE DEF ServiceInv
    <2>1. CASE Handler
      BY <2>1 DEF Handler, OnConnected, OnDisconnected, OnWorkReceived, Restart,
                  Handle, minerVars, serviceVars
    <2>2. ASSUME NEW t \in Threads, Locking(t) PROVE ServiceInv'
      BY <2>2 DEF Locking, StopMiners, StartRefused, StartMiners, BeginCollect,
                  SetWork, minerVars, serviceVars
    <2>3. ASSUME NEW t \in Threads, Working(t) PROVE ServiceInv'
      BY <2>3 DEF Working, StopMining, StartMining, StopTimer, StopService, ClearProgresses,
                  ResetService, JoinService, EndCollect, minerVars, serviceVars
    <2>4. CASE Running \/ ServiceCollects
      <3>1. MaxQueued \in Nat /\ queued \in 0 .. MaxQueued
        BY SealersAssumption
      <3>2. \/ queued' = queued + 1 /\ queued < MaxQueued
            \/ queued' = queued - 1 /\ queued > 0
            \/ queued' = queued
        BY <2>4 DEF Running, TimerExpires, RunHandler, ServiceCollects,
                    ServiceCollected, ServiceRearms, RunReturns
      <3>3. queued' \in 0 .. MaxQueued
        <4> HIDE DEF ServiceInv
        <4>1. QED
          BY <3>1, <3>2
      <3>4. QED
        BY <2>4, <3>3 DEF Running, TimerExpires, RunHandler, ServiceCollects,
                          ServiceCollected, ServiceRearms, RunReturns, minerVars
    <2>5. CASE UNCHANGED vars
      BY <2>5 DEF vars, minerVars, serviceVars
    <2>6. QED
      BY <2>1, <2>2, <2>3, <2>4, <2>5 DEF Next
  <1>3. IInv /\ SealerInv /\ [Next]_vars => SealerInv'
    BY SealersKept
  <1>4. IInv /\ ServiceInv /\ SealerInv => TypeOK
    BY DEF IInv, MinerInv, CallInv, ServiceInv, SealerInv, TypeOK
  <1>5. QED
    BY <1>1, <1>2, <1>3, <1>4, Invariance, PTL DEF Spec
=============================================================================
