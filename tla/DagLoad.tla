------------------------------ MODULE DagLoad -------------------------------
(***************************************************************************)
(* How the miners of one sealer take turns to load the DAG of an epoch and *)
(* the program of a period: CUDAMiner::init and cuda_init, and the same    *)
(* turn-taking in CLMiner::workLoop with CLMiner::init.  The threads share *)
(* s_dagLoadIndex and s_dagInHostMemory and lock neither; ++ is a read and *)
(* a write.  The farm is stopped and started again whenever the connection *)
(* is lost or the API asks for it (PoolManager.cpp): the miners are then   *)
(* new, while the static members are not.  Failures that end the process   *)
(* are left out.                                                           *)
(***************************************************************************)
EXTENDS Integers

CONSTANTS
    NumInstances,       \* s_numInstances: the miners are 0 .. NumInstances - 1
    Sealers,            \* the kinds of miner: a subset of {"cuda", "opencl"}
    Modes,              \* the values of s_dagLoadMode
    DagCreateDevice,    \* s_dagCreateDevice, a device that mines
    PeriodsPerEpoch,    \* ETHASH_EPOCH_LENGTH / PROGPOW_PERIOD
    MaxPeriod,          \* bound: periods the pool's work goes through
    MaxStarts           \* bound: starts of the farm

Miners == 0 .. NumInstances - 1

ASSUME DagAssumption ==
    /\ NumInstances \in Nat \ {0} /\ PeriodsPerEpoch \in Nat \ {0}
    /\ MaxPeriod \in Nat \ {0} /\ MaxStarts \in Nat \ {0}
    /\ Sealers \subseteq {"cuda", "opencl"}
    /\ Modes \subseteq {"parallel", "sequential", "single"}
    /\ DagCreateDevice \in Miners

VARIABLES
    sealer, s_dagLoadMode,  \* set once, from the command line
    starts, stopping,   \* how often the farm was started; whether it is being stopped
    failed,             \* what has gone wrong: "device", "period"
    period,             \* period of the work the miners are given
    pc, w, current,     \* of each miner: where it is, the period of the work it has
                        \* taken, of the work it has adopted
    reg,                \* of each miner: what it has read of s_dagLoadIndex in ++, of
                        \* s_dagInHostMemory in a copy
    m_dag,              \* of each miner: epoch of the DAG on its device, 0 for none
    s_dagLoadIndex,
    s_dagInHostMemory   \* epoch of the DAG in host memory, 0 for NULL

config == <<sealer, s_dagLoadMode>>
farm == <<starts, stopping>>
shared == <<s_dagLoadIndex, s_dagInHostMemory>>
vars == <<config, farm, failed, period, pc, w, current, reg, m_dag, shared>>

\* Periods count from 1, and so do their epochs.
EpochOf(p) == (p + PeriodsPerEpoch - 1) \div PeriodsPerEpoch
epoch == EpochOf(period)

Steps ==
    {"mining", "turn", "load", "await", "copy", "incr", "store", "free", "broken", "gone"}

TypeOK ==
    /\ sealer \in Sealers /\ s_dagLoadMode \in Modes
    /\ failed \subseteq {"device", "period"} /\ period \in 1 .. MaxPeriod
    /\ starts \in Nat \ {0} /\ stopping \in BOOLEAN
    /\ pc \in [Miners -> Steps]
    /\ w \in [Miners -> 0 .. MaxPeriod] /\ current \in [Miners -> 0 .. MaxPeriod]
    /\ m_dag \in [Miners -> Nat] /\ reg \in [Miners -> Nat]
    /\ s_dagLoadIndex \in Nat /\ s_dagInHostMemory \in Nat

Init ==
    /\ sealer \in Sealers
    /\ s_dagLoadMode \in Modes \ (IF sealer = "opencl" THEN {"single"} ELSE {})
    /\ failed = {} /\ period = 1 /\ starts = 1 /\ stopping = FALSE
    /\ pc = [i \in Miners |-> "mining"]
    /\ w = [i \in Miners |-> 0] /\ current = [i \in Miners |-> 0]
    /\ m_dag = [i \in Miners |-> 0] /\ reg = [i \in Miners |-> 0]
    /\ s_dagLoadIndex = 0 /\ s_dagInHostMemory = 0

Go(i, l) == pc' = [pc EXCEPT ![i] = l]

\* The pool hands out work of a later period, perhaps of the next epoch.
NewPeriod(p) ==
    /\ p > period
    /\ period' = p
    /\ UNCHANGED <<config, farm, failed, pc, w, current, reg, m_dag, shared>>

\* CUDAMiner initialises its device for an epoch, CLMiner for a period.
MustInit(i) == IF sealer = "cuda" THEN EpochOf(current[i]) # epoch ELSE current[i] # period

\* workLoop finds such work and begins to initialise for it.
BeginInit(i) ==
    /\ pc[i] = "mining" /\ MustInit(i)
    /\ w' = [w EXCEPT ![i] = period]
    /\ Go(i, "turn")
    /\ UNCHANGED <<config, farm, failed, period, current, reg, m_dag, shared>>

\* CUDAMiner compiles the program of a new period and keeps the DAG.
CompileKernel(i) ==
    /\ pc[i] = "mining" /\ current[i] # period /\ ~MustInit(i)
    /\ w' = [w EXCEPT ![i] = period]
    /\ current' = [current EXCEPT ![i] = period]
    /\ UNCHANGED <<config, farm, failed, period, pc, reg, m_dag, shared>>

\* Mutant: the wait is off by one.
MayLoad_Early(i) == s_dagLoadMode = "sequential" => s_dagLoadIndex + 1 >= i

\* The wait on s_dagLoadIndex is over.
MayLoad(i) == s_dagLoadMode = "sequential" => s_dagLoadIndex >= i

\* The miner's turn: CUDA loads now and passes the turn on when it is done; OpenCL
\* passes it on first.
TakeTurn(i) ==
    /\ pc[i] = "turn" /\ MayLoad(i)
    /\ Go(i, IF sealer = "opencl" /\ s_dagLoadMode = "sequential" THEN "incr" ELSE "load")
    /\ UNCHANGED <<config, farm, failed, period, w, current, reg, m_dag, shared>>

\* ++s_dagLoadIndex
ReadIndex(i) ==
    /\ pc[i] = "incr"
    /\ reg' = [reg EXCEPT ![i] = s_dagLoadIndex]
    /\ Go(i, "store")
    /\ UNCHANGED <<config, farm, failed, period, w, current, m_dag, shared>>

\* Mutant: the turn is not passed on.
WriteIndex_Never(i) ==
    /\ pc[i] = "store"
    /\ reg' = [reg EXCEPT ![i] = 0]
    /\ Go(i, IF sealer = "opencl" THEN "load" ELSE "free")
    /\ UNCHANGED <<config, farm, failed, period, w, current, m_dag, shared>>

WriteIndex(i) ==
    /\ pc[i] = "store"
    /\ s_dagLoadIndex' = reg[i] + 1
    /\ reg' = [reg EXCEPT ![i] = 0]
    /\ Go(i, IF sealer = "opencl" THEN "load" ELSE "free")
    /\ UNCHANGED <<config, farm, failed, period, w, current, m_dag, s_dagInHostMemory>>

\* The device has been initialised: CLMiner adopts its work, CUDAMiner counts itself
\* first.
Loaded(i) ==
    IF sealer = "cuda" THEN Go(i, "incr") /\ UNCHANGED current
    ELSE Go(i, "mining") /\ current' = [current EXCEPT ![i] = w[i]]

\* The DAG is generated on the device, and copied to the host in single mode.
Generate(i) ==
    /\ pc[i] = "load" /\ EpochOf(current[i]) # EpochOf(w[i])
    /\ s_dagInHostMemory = 0
    /\ s_dagLoadMode = "single" => i = DagCreateDevice
    /\ m_dag' = [m_dag EXCEPT ![i] = EpochOf(w[i])]
    /\ s_dagInHostMemory' = IF s_dagLoadMode = "single" THEN EpochOf(w[i]) ELSE 0
    /\ Loaded(i)
    /\ UNCHANGED <<config, farm, failed, period, w, reg, s_dagLoadIndex>>

\* CLMiner::init for a new period of the same epoch: the new context's m_dag is not
\* generated, and m_searchBuffer is still the old context's, which the next write to
\* it should report.
RenewContext(i) ==
    /\ pc[i] = "load" /\ EpochOf(current[i]) = EpochOf(w[i])
    /\ m_dag' = [m_dag EXCEPT ![i] = 0]
    /\ failed' = failed \cup {"period"}
    /\ \/ Loaded(i)
       \/ Go(i, "broken") /\ UNCHANGED current
    /\ UNCHANGED <<config, farm, period, w, reg, shared>>

\* Single mode: a device that finds no DAG on the host waits for one,
AwaitHost(i) ==
    /\ pc[i] = "load" /\ s_dagLoadMode = "single"
    /\ s_dagInHostMemory = 0 /\ i # DagCreateDevice
    /\ Go(i, "await")
    /\ UNCHANGED <<config, farm, failed, period, w, current, reg, m_dag, shared>>

\* and one that finds or gets one copies it to the device.
BeginCopy(i) ==
    /\ pc[i] \in {"load", "await"}
    /\ s_dagInHostMemory # 0
    /\ reg' = [reg EXCEPT ![i] = s_dagInHostMemory]
    /\ Go(i, "copy")
    /\ UNCHANGED <<config, farm, failed, period, w, current, m_dag, shared>>

\* If the host's DAG was freed in the meantime, what is copied may be anything.
EndCopy(i) ==
    /\ pc[i] = "copy"
    /\ \E d \in {reg[i]} \cup (IF s_dagInHostMemory = reg[i] THEN {} ELSE {0}) :
          m_dag' = [m_dag EXCEPT ![i] = d]
    /\ reg' = [reg EXCEPT ![i] = 0]
    /\ Loaded(i)
    /\ UNCHANGED <<config, farm, failed, period, w, shared>>

\* cuda_init finds too little memory and returns false, which init ignores.
TooLittleMemory(i) ==
    /\ sealer = "cuda"
    /\ pc[i] = "load"
    /\ Loaded(i)
    /\ failed' = failed \cup {"device"}
    /\ UNCHANGED <<config, farm, period, w, reg, m_dag, shared>>

\* The light cache or the OpenCL device throws: the miner leaves its workLoop, and
\* the CUDA miner has not passed the turn on.
InitThrows(i) ==
    /\ pc[i] = "load"
    /\ Go(i, "broken")
    /\ failed' = failed \cup {"device"}
    /\ UNCHANGED <<config, farm, period, w, current, reg, m_dag, shared>>

\* Mutant: the host's DAG is freed one miner early.
AllLoaded_Early == s_dagLoadIndex + 1 >= NumInstances

\* init's test for "all devices have loaded DAG".
AllLoaded == s_dagLoadIndex >= NumInstances

\* init frees the host's DAG after the last miner has loaded it; workLoop compiles
\* the program and adopts the work.
FreeHost(i) ==
    /\ pc[i] = "free"
    /\ s_dagInHostMemory' = IF s_dagLoadMode = "single" /\ AllLoaded THEN 0
                            ELSE s_dagInHostMemory
    /\ current' = [current EXCEPT ![i] = w[i]]
    /\ Go(i, "mining")
    /\ UNCHANGED <<config, farm, failed, period, w, reg, m_dag, s_dagLoadIndex>>

\* The waits sleep and test again.
Sleep(i) ==
    /\ \/ pc[i] = "turn" /\ ~MayLoad(i)
       \/ pc[i] = "await" /\ s_dagInHostMemory = 0
    /\ UNCHANGED vars

-----------------------------------------------------------------------------
(* The farm is stopped and started.                                        *)

\* Farm::stop() begins.
StopFarm ==
    /\ ~stopping /\ starts < MaxStarts
    /\ stopping' = TRUE
    /\ UNCHANGED <<config, starts, failed, period, pc, w, current, reg, m_dag, shared>>

\* The miners are destroyed one after the other.  Only workLoop looks at shouldStop: the
\* destructor waits until an initialisation, with its waits, is over.
Destroy(i) ==
    /\ stopping /\ pc[i] \in {"mining", "broken"}
    /\ \A j \in Miners : j < i => pc[j] = "gone"
    /\ Go(i, "gone")
    /\ w' = [w EXCEPT ![i] = 0]
    /\ current' = [current EXCEPT ![i] = 0]
    /\ m_dag' = [m_dag EXCEPT ![i] = 0]
    /\ UNCHANGED <<config, farm, failed, period, reg, shared>>

\* Farm::start() makes new miners.
StartFarm ==
    /\ stopping /\ \A i \in Miners : pc[i] = "gone"
    /\ stopping' = FALSE /\ starts' = starts + 1
    /\ pc' = [i \in Miners |-> "mining"]
    /\ UNCHANGED <<config, failed, period, w, current, reg, m_dag, shared>>

\* A miner searches, or its thread has left workLoop.
Mine(i) == pc[i] \in {"mining", "broken"} /\ UNCHANGED vars

Load(i) == \/ BeginInit(i) \/ CompileKernel(i) \/ TakeTurn(i) \/ ReadIndex(i)
           \/ WriteIndex(i) \/ Generate(i) \/ RenewContext(i) \/ AwaitHost(i)
           \/ BeginCopy(i) \/ EndCopy(i) \/ FreeHost(i)
Fail(i) == TooLittleMemory(i) \/ InitThrows(i)

Next == \/ \E p \in 1 .. MaxPeriod : NewPeriod(p)
        \/ \E i \in Miners : Load(i) \/ Fail(i) \/ Sleep(i) \/ Mine(i) \/ Destroy(i)
        \/ StopFarm \/ StartFarm

\* Every thread runs, and a farm that is stopped is started again.
Fairness == WF_vars(StartFarm) /\ \A i \in Miners : WF_vars(Load(i)) /\ WF_vars(Destroy(i))

Spec == Init /\ [][Next]_vars /\ Fairness

-----------------------------------------------------------------------------
(* Properties.                                                             *)

Loading(i) == pc[i] \in {"load", "await", "copy"}

Sequentially == \A i, j \in Miners : Loading(i) /\ Loading(j) => i = j

\* Sequential mode loads the DAG of the first epoch on one CUDA device after the other,
\* while the miners are the ones of the first start (s_dagLoadIndex, the help of
\* --dag-load-mode).  OpenCL miners pass the turn on before they load, and the turn is
\* not taken back for later epochs or for the miners of later starts.
OneLoadsAtATime ==
    s_dagLoadMode = "sequential" /\ sealer = "cuda" /\ epoch = 1 /\ starts = 1 =>
        Sequentially

\* Refuted: the miners a reconnect or a restart makes find the static s_dagLoadIndex
\* where the last ones left it, and load all at once.
RestartsLoadInTurn ==
    s_dagLoadMode = "sequential" /\ sealer = "cuda" /\ epoch = 1 => Sequentially

\* Nothing has gone wrong, and a DAG taken from the host is that of the first epoch and
\* of the first start: later the count that frees it is not the one of its copies.
Regular == failed = {} /\ (s_dagLoadMode = "single" => epoch = 1 /\ starts = 1)

\* Unless all miners load at once, a new epoch comes and the farm is stopped only after
\* every miner has been counted.  But for this, the racing increments of those that
\* load for the second time can take back a turn another one waits for, and miners wait
\* for a turn or a DAG of one that was destroyed.
Orderly == s_dagLoadMode # "parallel" /\ (epoch > 1 \/ starts > 1 \/ stopping) => AllLoaded

\* The bound of the runs: nothing is said of what comes after something went wrong in the
\* first epoch of the first start.
WithinBounds == Regular \/ (epoch = 1 /\ starts = 1)

\* Unless an initialisation goes wrong, a miner that searches has the DAG of the epoch
\* it searches in, also after a restart (m_dag of cuda_init and CLMiner::init).  In
\* single mode this is said of the first epoch and the first start only.
MinesWithItsDag ==
    Regular => \A i \in Miners : pc[i] = "mining" => m_dag[i] = EpochOf(current[i])

\* Unless an initialisation goes wrong, and if epochs and restarts come in order, every
\* miner gets its turn and ends up with the DAG and the program of the latest work (the
\* waits of init).
EveryMinerLoads ==
    [](Regular /\ Orderly) =>
        \A i \in Miners : <>[](m_dag[i] = epoch /\ current[i] = period)

\* Refuted from four miners on, and by a restart: see Orderly.
EveryMinerAlwaysLoads ==
    []Regular => \A i \in Miners : <>[](m_dag[i] = epoch /\ current[i] = period)

\* "The random sequence changes every PROGPOW_PERIOD" (README.md:43), the DAG does not:
\* a miner whose device does not fail has the DAG of its epoch in every period.
DagOutlivesPeriods ==
    "device" \notin failed =>
        \A i \in Miners : pc[i] = "mining" => m_dag[i] = EpochOf(current[i])
=============================================================================
