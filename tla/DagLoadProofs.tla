--------------------------- MODULE DagLoadProofs ----------------------------
(***************************************************************************)
(* For any number of miners, of periods and of restarts: sequential DAG    *)
(* loading of the CUDA miners of the first start within the first epoch,   *)
(* with any failures; and that every miner searches in the DAG of its      *)
(* epoch, if nothing fails.                                                *)
(***************************************************************************)
EXTENDS DagLoad, FiniteSets, FiniteSetTheorems, TLAPS

\* The turn is at miner s_dagLoadIndex: the ones before have loaded, the ones after
\* have not begun, and only it can be between the two.
Turn ==
    /\ s_dagInHostMemory = 0
    /\ \A i \in Miners :
          /\ pc[i] \in {"mining", "turn", "load", "incr", "store", "free", "broken", "gone"}
          /\ pc[i] \in {"load", "incr", "store", "broken"} => i = s_dagLoadIndex
          /\ pc[i] = "turn" => i >= s_dagLoadIndex
          /\ pc[i] = "free" => i < s_dagLoadIndex
          /\ pc[i] = "store" => reg[i] = s_dagLoadIndex
          /\ pc[i] \in {"turn", "load", "incr", "store"} => EpochOf(current[i]) # 1
          /\ pc[i] \notin {"mining", "gone"} => EpochOf(w[i]) = 1
          /\ pc[i] = "mining" /\ EpochOf(current[i]) = 1 => i < s_dagLoadIndex
          /\ i < s_dagLoadIndex => EpochOf(current[i]) = 1 \/ pc[i] \in {"free", "gone"}

\* Work is never of an earlier epoch again and starts only count up, so that the turn
\* only has to be kept while both are the first.
Sequential == s_dagLoadMode = "sequential" /\ sealer = "cuda" /\ epoch = 1 /\ starts = 1

TurnInv == TypeOK /\ (Sequential => Turn)

\* Epochs start at 1 and do not decrease.
LEMMA Epochs ==
  /\ EpochOf(0) = 0 /\ \A p \in Nat : EpochOf(p) \in Nat
  /\ \A p \in Nat \ {0}, q \in Nat : p <= q => 1 <= EpochOf(p) /\ EpochOf(p) <= EpochOf(q)
  BY DagAssumption, SMTT(30) DEF EpochOf

\* The first miner to load is number 0.
LEMMA InitTurn == Init => TurnInv
<1>1. Init => TypeOK
  <2>1. 0 \in 0 .. MaxPeriod /\ 1 \in 1 .. MaxPeriod /\ 1 \in Nat \ {0} /\ 0 \in Nat
    BY DagAssumption
  <2>2. QED
    BY <2>1 DEF Init, TypeOK, Steps
<1>2. Init => Turn
  BY Epochs DEF Init, Turn, Miners
<1>3. QED
  BY <1>1, <1>2 DEF TurnInv

\* Every step keeps the types.
LEMMA NextTypes ==
  ASSUME TypeOK, Next
  PROVE  TypeOK'
<1> USE DEF TypeOK, Steps, Go, config, farm, shared
<1>1. ASSUME NEW p \in 1 .. MaxPeriod, NewPeriod(p) PROVE TypeOK'
  BY <1>1, DagAssumption DEF NewPeriod
<1>2. ASSUME NEW i \in Miners, BeginInit(i) \/ CompileKernel(i) PROVE TypeOK'
  <2>1. period \in 0 .. MaxPeriod
    BY DagAssumption
  <2>2. CASE BeginInit(i)
    BY <2>1, <2>2 DEF BeginInit
  <2>3. CASE CompileKernel(i)
    BY <2>1, <2>3 DEF CompileKernel
  <2>4. QED
    BY <1>2, <2>2, <2>3
<1>3. ASSUME NEW i \in Miners, TakeTurn(i) PROVE TypeOK'
  BY <1>3 DEF TakeTurn
<1>4. ASSUME NEW i \in Miners, ReadIndex(i) \/ WriteIndex(i) PROVE TypeOK'
  <2>1. CASE ReadIndex(i)
    BY <2>1 DEF ReadIndex
  <2>2. CASE WriteIndex(i)
    BY <2>2 DEF WriteIndex
  <2>3. QED
    BY <1>4, <2>1, <2>2
<1>5. ASSUME NEW i \in Miners, Generate(i) PROVE TypeOK'
  <2>1. EpochOf(w[i]) \in Nat
    BY Epochs
  <2>2. QED
    BY <1>5, <2>1 DEF Generate, Loaded
<1>6. ASSUME NEW i \in Miners, RenewContext(i) PROVE TypeOK'
  BY <1>6 DEF RenewContext, Loaded
<1>7. ASSUME NEW i \in Miners, AwaitHost(i) \/ BeginCopy(i) PROVE TypeOK'
  <2>1. CASE AwaitHost(i)
    BY <2>1 DEF AwaitHost
  <2>2. CASE BeginCopy(i)
    BY <2>2 DEF BeginCopy
  <2>3. QED
    BY <1>7, <2>1, <2>2
<1>8. ASSUME NEW i \in Miners, EndCopy(i) PROVE TypeOK'
  BY <1>8 DEF EndCopy, Loaded
<1>9. ASSUME NEW i \in Miners, FreeHost(i) PROVE TypeOK'
  BY <1>9 DEF FreeHost
<1>10. ASSUME NEW i \in Miners, TooLittleMemory(i) \/ InitThrows(i) PROVE TypeOK'
  BY <1>10 DEF TooLittleMemory, InitThrows, Loaded
<1>11. ASSUME NEW i \in Miners, Sleep(i) \/ Mine(i) PROVE TypeOK'
  BY <1>11 DEF Sleep, Mine, vars
<1>12. ASSUME NEW i \in Miners, Destroy(i) PROVE TypeOK'
  <2>1. 0 \in 0 .. MaxPeriod /\ 0 \in Nat
    BY DagAssumption
  <2>2. QED
    BY <1>12, <2>1 DEF Destroy
<1>13. CASE StopFarm
  BY <1>13 DEF StopFarm
<1>14. CASE StartFarm
  <2>1. starts' \in Nat \ {0}
    BY <1>14 DEF StartFarm
  <2>2. QED
    BY <1>14, <2>1 DEF StartFarm
<1>15. QED
  BY <1>1, <1>2, <1>3, <1>4, <1>5, <1>6, <1>7, <1>8, <1>9, <1>10, <1>11, <1>12, <1>13,
     <1>14 DEF Next, Load, Fail

\* A step that leads to work of the first epoch starts from such work.
LEMMA StillSequential ==
  ASSUME TypeOK, Next, Sequential'
  PROVE  Sequential
<1> USE DEF config, farm, shared
<1>1. ASSUME NEW p \in 1 .. MaxPeriod, NewPeriod(p) PROVE Sequential
  <2>1. period \in Nat \ {0} /\ p \in Nat /\ period <= p
    BY <1>1, DagAssumption DEF NewPeriod, TypeOK
  <2>2. 1 <= EpochOf(period) /\ EpochOf(period) <= EpochOf(p) /\ EpochOf(period) \in Nat
    BY <2>1, Epochs
  <2>3. EpochOf(p) = 1 /\ s_dagLoadMode = "sequential" /\ sealer = "cuda" /\ starts = 1
    BY <1>1 DEF NewPeriod, Sequential, epoch
  <2>4. QED
    BY <2>2, <2>3 DEF Sequential, epoch
<1>2. ASSUME NEW i \in Miners, Load(i) \/ Fail(i) \/ Sleep(i) \/ Mine(i) \/ Destroy(i)
      PROVE  UNCHANGED <<period, sealer, s_dagLoadMode, starts>>
  BY <1>2 DEF Destroy, Load, Fail, Sleep, Mine, vars, BeginInit, CompileKernel, TakeTurn,
     ReadIndex,
      WriteIndex, Generate, RenewContext, AwaitHost, BeginCopy, EndCopy, FreeHost,
      TooLittleMemory, InitThrows
<1>3. CASE StopFarm
  BY <1>3 DEF StopFarm, Sequential, epoch
<1>4. CASE StartFarm
  BY <1>4 DEF StartFarm, Sequential, TypeOK
<1>5. QED
  BY <1>1, <1>2, <1>3, <1>4 DEF Next, Sequential, epoch

\* Every step keeps the turn.
LEMMA NextTurn ==
  ASSUME TypeOK, Turn, Sequential, Next, Sequential'
  PROVE  Turn'
<1> USE DEF TypeOK, Turn, Sequential, Miners, Steps, epoch, config, farm, shared, Go
<1>1. ASSUME NEW p \in 1 .. MaxPeriod, NewPeriod(p) PROVE Turn'
  BY <1>1 DEF NewPeriod
<1>2. ASSUME NEW i \in Miners, BeginInit(i) PROVE Turn'
  BY <1>2 DEF BeginInit, MustInit
<1>3. ASSUME NEW i \in Miners, CompileKernel(i) PROVE Turn'
  BY <1>3 DEF CompileKernel, MustInit
<1>4. ASSUME NEW i \in Miners, TakeTurn(i) PROVE Turn'
  BY <1>4 DEF TakeTurn, MayLoad
<1>5. ASSUME NEW i \in Miners, ReadIndex(i) PROVE Turn'
  BY <1>5 DEF ReadIndex
<1>6. ASSUME NEW i \in Miners, WriteIndex(i) PROVE Turn'
  BY <1>6 DEF WriteIndex
<1>7. ASSUME NEW i \in Miners, Generate(i) PROVE Turn'
  <2>1. /\ pc[i] = "load" /\ pc' = [pc EXCEPT ![i] = "incr"]
        /\ s_dagInHostMemory' = 0 /\ UNCHANGED <<w, current, reg, s_dagLoadIndex>>
    BY <1>7 DEF Generate, Loaded
  <2>2. QED
    BY <2>1
<1>8. ASSUME NEW i \in Miners, RenewContext(i) PROVE Turn'
  BY <1>8 DEF RenewContext
<1>9. ASSUME NEW i \in Miners, AwaitHost(i) \/ BeginCopy(i) \/ EndCopy(i) PROVE Turn'
  BY <1>9 DEF AwaitHost, BeginCopy, EndCopy
<1>10. ASSUME NEW i \in Miners, FreeHost(i) PROVE Turn'
  BY <1>10 DEF FreeHost
<1>11. ASSUME NEW i \in Miners, TooLittleMemory(i) PROVE Turn'
  <2>1. /\ pc[i] = "load" /\ pc' = [pc EXCEPT ![i] = "incr"]
        /\ s_dagInHostMemory' = 0 /\ UNCHANGED <<w, current, reg, s_dagLoadIndex>>
    BY <1>11 DEF TooLittleMemory, Loaded
  <2>2. QED
    BY <2>1
<1>12. ASSUME NEW i \in Miners, InitThrows(i) PROVE Turn'
  BY <1>12 DEF InitThrows
<1>13. ASSUME NEW i \in Miners, Sleep(i) \/ Mine(i) PROVE Turn'
  <2>1. UNCHANGED <<pc, w, current, reg, shared>>
    BY <1>13 DEF Sleep, Mine, vars
  <2>2. QED
    BY <2>1
<1>14. ASSUME NEW i \in Miners, Destroy(i) PROVE Turn'
  BY <1>14, Epochs DEF Destroy
<1>15. CASE StopFarm
  BY <1>15 DEF StopFarm
<1>16. CASE StartFarm
  BY <1>16 DEF StartFarm
<1>17. QED
  BY <1>1, <1>2, <1>3, <1>4, <1>5, <1>6, <1>7, <1>8, <1>9, <1>10, <1>11, <1>12, <1>13,
     <1>14, <1>15, <1>16 DEF Next, Load, Fail

\* In sequential mode no two CUDA miners of the first start load the DAG of the first
\* epoch at the same time, however many there are, whichever of them fail and whenever the
\* farm is being stopped (CUDAMiner::init).  The miners of later starts do.
THEOREM SequentialLoads == Spec => []OneLoadsAtATime
<1>1. TurnInv => OneLoadsAtATime
  BY DEF TurnInv, Sequential, Turn, OneLoadsAtATime, Sequentially, Loading
<1>2. TurnInv /\ Next => TurnInv'
  BY NextTypes, StillSequential, NextTurn DEF TurnInv
<1>3. TurnInv /\ UNCHANGED vars => TurnInv'
  BY DEF TurnInv, TypeOK, Sequential, Turn, epoch, vars, config, farm, shared
<1>4. QED
  BY InitTurn, <1>1, <1>2, <1>3, PTL DEF Spec

\* Every variable keeps its type, whichever miners lose a count of the racing ++.
THEOREM TypeCorrect == Spec => []TypeOK
<1>1. Init => TypeOK
  BY InitTurn DEF TurnInv
<1>2. TypeOK /\ Next => TypeOK'
  BY NextTypes
<1>3. TypeOK /\ UNCHANGED vars => TypeOK'
  BY DEF TypeOK, vars, config, farm, shared
<1>4. QED
  BY <1>1, <1>2, <1>3, PTL DEF Spec

-----------------------------------------------------------------------------
(* Every miner searches in the DAG of its epoch.  In single mode the DAG on *)
(* the host must outlive the copies made of it: s_dagLoadIndex, some of     *)
(* whose racing increments may be lost, never counts a miner that has not   *)
(* loaded.                                                                  *)

\* The miners that have loaded and counted themselves, in the first epoch, or are gone.
Done == {i \in Miners : \/ pc[i] \in {"free", "gone"}
                        \/ pc[i] = "mining" /\ EpochOf(current[i]) = 1}

\* A device holds the DAG of the adopted work, or of the work about to be adopted.
DeviceDags ==
    \A i \in Miners :
        /\ pc[i] # "broken"
        /\ m_dag[i] = EpochOf(IF sealer = "cuda" /\ pc[i] \in {"incr", "store", "free"}
                              THEN w[i] ELSE current[i])
        /\ pc[i] \in {"await", "copy"} => s_dagLoadMode = "single"
        /\ pc[i] = "free" => sealer = "cuda"

\* The DAG on the host is there as long as someone copies it.
HostDag ==
    /\ s_dagInHostMemory \in {0, 1}
    /\ s_dagLoadIndex <= Cardinality(Done)
    /\ \A i \in Miners :
          /\ pc[i] \notin {"mining", "gone"} => EpochOf(w[i]) = 1
          /\ pc[i] = "copy" => reg[i] = 1 /\ s_dagInHostMemory = 1
          /\ pc[i] = "store" => reg[i] <= Cardinality(Done)

DagInv ==
    /\ TypeOK
    /\ s_dagLoadMode = "single" => sealer = "cuda"
    /\ Regular => /\ DeviceDags
                  /\ s_dagLoadMode = "single" => HostDag
                  /\ s_dagLoadMode # "single" => s_dagInHostMemory = 0

\* A miner's step changes neither the work nor the configuration, and undoes no failure.
LEMMA MinerKeeps ==
  ASSUME NEW i \in Miners, Load(i) \/ Fail(i) \/ Sleep(i) \/ Mine(i) \/ Destroy(i)
  PROVE  UNCHANGED <<period, sealer, s_dagLoadMode, starts>> /\ failed \subseteq failed'
  BY DEF Load, Fail, Sleep, Mine, Destroy, vars, config, farm, BeginInit, CompileKernel,
     TakeTurn,
      ReadIndex, WriteIndex, Generate, RenewContext, AwaitHost, BeginCopy, EndCopy,
      FreeHost, TooLittleMemory, InitThrows

\* What is irregular stays so.
LEMMA StillRegular ==
  ASSUME TypeOK, Next, Regular'
  PROVE  Regular
<1>1. ASSUME NEW p \in 1 .. MaxPeriod, NewPeriod(p) PROVE Regular
  <2>1. period \in Nat \ {0} /\ p \in Nat /\ period <= p
    BY <1>1, DagAssumption DEF NewPeriod, TypeOK
  <2>2. 1 <= EpochOf(period) /\ EpochOf(period) <= EpochOf(p) /\ EpochOf(period) \in Nat
    BY <2>1, Epochs
  <2>3. failed = {} /\ (s_dagLoadMode = "single" => EpochOf(p) = 1 /\ starts = 1)
    BY <1>1 DEF NewPeriod, Regular, epoch, config, farm
  <2>4. s_dagLoadMode = "single" => EpochOf(period) = 1
    BY <2>2, <2>3
  <2>5. QED
    BY <2>3, <2>4 DEF Regular, epoch
<1>2. ASSUME NEW i \in Miners, Load(i) \/ Fail(i) \/ Sleep(i) \/ Mine(i) \/ Destroy(i)
      PROVE  Regular
  BY <1>2, MinerKeeps DEF Regular, epoch
<1>3. CASE StopFarm
  BY <1>3 DEF StopFarm, Regular, epoch, config
<1>4. CASE StartFarm
  <2>1. starts \in Nat \ {0} /\ starts' = starts + 1 /\ UNCHANGED <<config, failed, period>>
    BY <1>4 DEF StartFarm, TypeOK
  <2>2. starts' # 1
    BY <2>1
  <2>3. QED
    BY <2>1, <2>2 DEF Regular, epoch, config
<1>5. QED
  BY <1>1, <1>2, <1>3, <1>4 DEF Next

\* A count of all miners that are done is one of all miners.
LEMMA DoneCount ==
  /\ IsFiniteSet(Done) /\ Cardinality(Done) \in Nat
  /\ Cardinality(Done) >= NumInstances => Done = Miners
<1>1. IsFiniteSet(Miners) /\ Cardinality(Miners) = NumInstances
  <2>1. NumInstances \in Nat /\ NumInstances > 0 /\ NumInstances - 1 \in Int
    BY DagAssumption
  <2>2. /\ IsFiniteSet(0 .. NumInstances - 1)
        /\ Cardinality(0 .. NumInstances - 1) =
              IF 0 > NumInstances - 1 THEN 0 ELSE NumInstances - 1 - 0 + 1
    BY <2>1, FS_Interval
  <2>3. QED
    BY <2>1, <2>2 DEF Miners
<1>2. Done \in SUBSET Miners
  BY DEF Done
<1>3. /\ IsFiniteSet(Done) /\ Cardinality(Done) <= Cardinality(Miners)
      /\ Cardinality(Miners) = Cardinality(Done) => Miners = Done
  BY <1>1, <1>2, FS_Subset
<1>4. Cardinality(Done) \in Nat
  BY <1>3, FS_CardinalityType
<1>5. QED
  BY <1>1, <1>3, <1>4, DagAssumption

\* Every regular step leaves the devices with the DAGs of their work.
LEMMA NextDevices ==
  ASSUME TypeOK, DeviceDags, Next, Regular, Regular',
         s_dagLoadMode = "single" => sealer = "cuda" /\ HostDag,
         s_dagLoadMode # "single" => s_dagInHostMemory = 0
  PROVE  DeviceDags'
<1> USE DEF TypeOK, DeviceDags, Regular, epoch, config, farm, shared, Go
<1>s. sealer \in {"cuda", "opencl"}
  BY DagAssumption
<1>1. ASSUME NEW p \in 1 .. MaxPeriod, NewPeriod(p) PROVE DeviceDags'
  BY <1>1 DEF NewPeriod
<1>2. ASSUME NEW i \in Miners, BeginInit(i) PROVE DeviceDags'
  BY <1>2 DEF BeginInit
<1>3. ASSUME NEW i \in Miners, CompileKernel(i) PROVE DeviceDags'
  BY <1>3, <1>s DEF CompileKernel, MustInit
<1>4. ASSUME NEW i \in Miners, TakeTurn(i) PROVE DeviceDags'
  BY <1>4, <1>s DEF TakeTurn
<1>5. ASSUME NEW i \in Miners, ReadIndex(i) PROVE DeviceDags'
  BY <1>5 DEF ReadIndex
<1>6. ASSUME NEW i \in Miners, WriteIndex(i) PROVE DeviceDags'
  BY <1>6, <1>s DEF WriteIndex
<1>7. ASSUME NEW i \in Miners, Generate(i) PROVE DeviceDags'
  BY <1>7, <1>s DEF Generate, Loaded
<1>8. ASSUME NEW i \in Miners, RenewContext(i) PROVE FALSE
  BY <1>8 DEF RenewContext
<1>9. ASSUME NEW i \in Miners, AwaitHost(i) PROVE DeviceDags'
  BY <1>9 DEF AwaitHost
<1>10. ASSUME NEW i \in Miners, BeginCopy(i) PROVE DeviceDags'
  BY <1>10 DEF BeginCopy
<1>11. ASSUME NEW i \in Miners, EndCopy(i) PROVE DeviceDags'
  <2>1. pc[i] = "copy" /\ sealer = "cuda" /\ HostDag
    BY <1>11 DEF EndCopy
  <2>2. EpochOf(w[i]) = 1 /\ reg[i] = 1 /\ s_dagInHostMemory = reg[i]
    BY <2>1 DEF HostDag
  <2>3. m_dag' = [m_dag EXCEPT ![i] = 1] /\ pc' = [pc EXCEPT ![i] = "incr"]
    BY <1>11, <2>1, <2>2 DEF EndCopy, Loaded
  <2>4. QED
    BY <1>11, <2>1, <2>2, <2>3 DEF EndCopy, Loaded
<1>12. ASSUME NEW i \in Miners, FreeHost(i) PROVE DeviceDags'
  BY <1>12 DEF FreeHost
<1>13. ASSUME NEW i \in Miners, TooLittleMemory(i) \/ InitThrows(i) PROVE FALSE
  BY <1>13 DEF TooLittleMemory, InitThrows
<1>14. ASSUME NEW i \in Miners, Sleep(i) \/ Mine(i) PROVE DeviceDags'
  BY <1>14 DEF Sleep, Mine, vars
<1>15. ASSUME NEW i \in Miners, Destroy(i) PROVE DeviceDags'
  BY <1>15, Epochs DEF Destroy
<1>16. CASE StopFarm
  BY <1>16 DEF StopFarm
<1>17. CASE StartFarm
  BY <1>17 DEF StartFarm
<1>18. QED
  BY <1>1, <1>2, <1>3, <1>4, <1>5, <1>6, <1>7, <1>8, <1>9, <1>10, <1>11, <1>12, <1>13,
     <1>14, <1>15, <1>16, <1>17 DEF Next, Load, Fail

\* A miner's step that counts nobody and frees nothing keeps what is said of the host.
LEMMA HostKept ==
  ASSUME TypeOK, HostDag, NEW i \in Miners, UNCHANGED s_dagLoadIndex,
         Done' = Done, s_dagInHostMemory' \in {0, 1},
         s_dagInHostMemory = 1 => s_dagInHostMemory' = 1,
         \A j \in Miners \ {i} : UNCHANGED <<pc[j], w[j], reg[j]>>,
         pc'[i] \notin {"mining", "gone"} => EpochOf(w'[i]) = 1,
         pc'[i] = "copy" => reg'[i] = 1 /\ s_dagInHostMemory' = 1,
         pc'[i] = "store" => reg'[i] <= Cardinality(Done)
  PROVE  HostDag'
  BY DEF HostDag

\* Every regular step in single mode keeps the DAG on the host for the miners that copy
\* it, and no miner is counted before it is done.
LEMMA NextHost ==
  ASSUME TypeOK, DeviceDags, HostDag, Next, Regular, Regular',
         s_dagLoadMode = "single", sealer = "cuda"
  PROVE  HostDag'
<1> USE DEF TypeOK, Regular, epoch, config, farm, shared, Go
<1>e. EpochOf(period) = 1
  OBVIOUS
<1>1. ASSUME NEW p \in 1 .. MaxPeriod, NewPeriod(p) PROVE HostDag'
  BY <1>1 DEF NewPeriod, HostDag, Done
<1>2. ASSUME NEW i \in Miners, BeginInit(i) PROVE HostDag'
  <2>1. Done' = Done
    BY <1>2 DEF BeginInit, MustInit, Done
  <2>2. QED
    BY <1>2, <1>e, <2>1 DEF BeginInit, HostDag
<1>3. ASSUME NEW i \in Miners, CompileKernel(i) PROVE HostDag'
  <2>1. Done' = Done
    BY <1>3, <1>e DEF CompileKernel, MustInit, Done
  <2>2. QED
    BY <1>3, <1>e, <2>1 DEF CompileKernel, HostDag
<1>4. ASSUME NEW i \in Miners, TakeTurn(i) PROVE HostDag'
  <2>1. Done' = Done
    BY <1>4 DEF TakeTurn, Done
  <2>2. QED
    BY <1>4, <2>1 DEF TakeTurn, HostDag
<1>5. ASSUME NEW i \in Miners, ReadIndex(i) PROVE HostDag'
  <2>1. Done' = Done
    BY <1>5 DEF ReadIndex, Done
  <2>2. QED
    BY <1>5, <2>1 DEF ReadIndex, HostDag
<1>6. ASSUME NEW i \in Miners, WriteIndex(i) PROVE HostDag'
  <2>1. Done' = Done \cup {i} /\ i \notin Done
    BY <1>6 DEF WriteIndex, Done
  <2>2. Cardinality(Done') = Cardinality(Done) + 1 /\ Cardinality(Done) \in Nat
    <3>1. Cardinality(Done \cup {i}) = Cardinality(Done) + 1
      BY <2>1, DoneCount, FS_AddElement
    <3>2. QED
      BY <2>1, <3>1, DoneCount
  <2>3. reg[i] <= Cardinality(Done) /\ s_dagLoadIndex' = reg[i] + 1 /\ reg[i] \in Nat
    BY <1>6 DEF WriteIndex, HostDag
  <2>4. s_dagLoadIndex' <= Cardinality(Done')
    BY <2>2, <2>3
  <2>5. \A j \in Miners : pc'[j] = "store" => reg'[j] <= Cardinality(Done')
    <3>1. SUFFICES ASSUME NEW j \in Miners, pc'[j] = "store"
                   PROVE  reg'[j] <= Cardinality(Done')
      OBVIOUS
    <3>2. pc[j] = "store" /\ reg'[j] = reg[j]
      BY <1>6, <3>1 DEF WriteIndex
    <3>3. reg[j] <= Cardinality(Done) /\ reg[j] \in Nat
      BY <3>2 DEF HostDag
    <3>4. QED
      BY <2>2, <3>2, <3>3
  <2>6. \A j \in Miners : /\ pc'[j] \notin {"mining", "gone"} => EpochOf(w'[j]) = 1
                          /\ pc'[j] = "copy" => reg'[j] = 1 /\ s_dagInHostMemory' = 1
    BY <1>6 DEF WriteIndex, HostDag
  <2>7. s_dagInHostMemory' \in {0, 1}
    BY <1>6 DEF WriteIndex, HostDag
  <2>8. QED
    BY <2>4, <2>5, <2>6, <2>7 DEF HostDag
<1>7. ASSUME NEW i \in Miners, Generate(i) PROVE HostDag'
  <2>1. /\ pc[i] = "load" /\ pc' = [pc EXCEPT ![i] = "incr"]
        /\ UNCHANGED <<w, current, reg, s_dagLoadIndex>>
    BY <1>7 DEF Generate, Loaded
  <2>2. EpochOf(w[i]) = 1 /\ s_dagInHostMemory' = 1
    BY <1>7 DEF Generate, HostDag
  <2>3. Done' = Done
    BY <2>1 DEF Done
  <2>4. QED
    BY <2>1, <2>2, <2>3, HostKept
<1>8. ASSUME NEW i \in Miners, RenewContext(i) PROVE FALSE
  BY <1>8 DEF RenewContext
<1>9. ASSUME NEW i \in Miners, AwaitHost(i) PROVE HostDag'
  <2>1. Done' = Done
    BY <1>9 DEF AwaitHost, Done
  <2>2. QED
    BY <1>9, <2>1 DEF AwaitHost, HostDag
<1>10. ASSUME NEW i \in Miners, BeginCopy(i) PROVE HostDag'
  <2>1. Done' = Done
    BY <1>10 DEF BeginCopy, Done
  <2>2. QED
    BY <1>10, <2>1 DEF BeginCopy, HostDag
<1>11. ASSUME NEW i \in Miners, EndCopy(i) PROVE HostDag'
  <2>1. /\ pc[i] = "copy" /\ pc' = [pc EXCEPT ![i] = "incr"]
        /\ reg' = [reg EXCEPT ![i] = 0] /\ UNCHANGED <<w, current, shared>>
    BY <1>11 DEF EndCopy, Loaded
  <2>2. Done' = Done
    BY <2>1 DEF Done
  <2>3. QED
    BY <2>1, <2>2 DEF HostDag
<1>12. ASSUME NEW i \in Miners, FreeHost(i) PROVE HostDag'
  <2>1. /\ pc[i] = "free" /\ pc' = [pc EXCEPT ![i] = "mining"]
        /\ current' = [current EXCEPT ![i] = w[i]] /\ EpochOf(w[i]) = 1
        /\ UNCHANGED <<w, reg, s_dagLoadIndex>>
    BY <1>12 DEF FreeHost, HostDag
  <2>2. Done' = Done
    BY <2>1 DEF Done
  <2>3. ASSUME AllLoaded PROVE \A j \in Miners : pc[j] # "copy"
    <3>1. Cardinality(Done) >= NumInstances
      BY <2>3, DoneCount, DagAssumption DEF AllLoaded, HostDag
    <3>2. QED
      BY <3>1, DoneCount DEF Done
  <2>4. \A j \in Miners : pc[j] = "copy" => s_dagInHostMemory' = s_dagInHostMemory
    BY <1>12, <2>3 DEF FreeHost
  <2>5. s_dagInHostMemory' \in {0, 1}
    BY <1>12 DEF FreeHost, HostDag
  <2>6. QED
    BY <2>1, <2>2, <2>4, <2>5 DEF HostDag
<1>13. ASSUME NEW i \in Miners, TooLittleMemory(i) \/ InitThrows(i) PROVE FALSE
  BY <1>13 DEF TooLittleMemory, InitThrows
<1>14. ASSUME NEW i \in Miners, Sleep(i) \/ Mine(i) PROVE HostDag'
  <2>1. UNCHANGED <<pc, w, current, reg, shared>>
    BY <1>14 DEF Sleep, Mine, vars
  <2>2. Done' = Done
    BY <2>1 DEF Done
  <2>3. QED
    BY <2>1, <2>2 DEF HostDag
<1>15. ASSUME NEW i \in Miners, Destroy(i) PROVE HostDag'
  <2>1. /\ pc' = [pc EXCEPT ![i] = "gone"] /\ w' = [w EXCEPT ![i] = 0]
        /\ current' = [current EXCEPT ![i] = 0] /\ UNCHANGED <<reg, shared>>
    BY <1>15 DEF Destroy
  <2>2. Done' = Done \cup {i}
    BY <2>1 DEF Done
  <2>3. Cardinality(Done') >= Cardinality(Done) /\ Cardinality(Done') \in Nat
    <3>1. Cardinality(Done \cup {i}) = IF i \in Done THEN Cardinality(Done)
                                      ELSE Cardinality(Done) + 1
      BY DoneCount, FS_AddElement
    <3>2. QED
      BY <2>2, <3>1, DoneCount
  <2>4. s_dagLoadIndex' <= Cardinality(Done')
    BY <2>1, <2>3, DoneCount DEF HostDag
  <2>5. \A j \in Miners : pc'[j] = "store" => reg'[j] <= Cardinality(Done')
    BY <2>1, <2>3, DoneCount DEF HostDag
  <2>6. \A j \in Miners : /\ pc'[j] \notin {"mining", "gone"} => EpochOf(w'[j]) = 1
                          /\ pc'[j] = "copy" => reg'[j] = 1 /\ s_dagInHostMemory' = 1
    BY <2>1 DEF HostDag
  <2>7. QED
    BY <2>1, <2>4, <2>5, <2>6 DEF HostDag
<1>16. CASE StopFarm
  <2>1. UNCHANGED <<pc, w, current, reg, shared>>
    BY <1>16 DEF StopFarm
  <2>2. Done' = Done
    BY <2>1 DEF Done
  <2>3. QED
    BY <2>1, <2>2 DEF HostDag
<1>17. CASE StartFarm
  BY <1>17 DEF StartFarm
<1>18. QED
  BY <1>1, <1>2, <1>3, <1>4, <1>5, <1>6, <1>7, <1>8, <1>9, <1>10, <1>11, <1>12, <1>13,
     <1>14, <1>15, <1>16, <1>17 DEF Next, Load, Fail

\* Outside single mode there is never a DAG on the host.
LEMMA NoHostDag ==
  ASSUME TypeOK, DeviceDags, Next, s_dagLoadMode # "single", s_dagInHostMemory = 0
  PROVE  s_dagInHostMemory' = 0
<1>1. ASSUME NEW i \in Miners, WriteIndex(i) PROVE s_dagInHostMemory' = 0
  BY <1>1 DEF WriteIndex
<1>2. ASSUME NEW i \in Miners, Generate(i) PROVE s_dagInHostMemory' = 0
  BY <1>2 DEF Generate
<1>3. ASSUME NEW i \in Miners, FreeHost(i) PROVE s_dagInHostMemory' = 0
  BY <1>3 DEF FreeHost
<1>4. QED
  BY <1>1, <1>2, <1>3 DEF Next, NewPeriod, Load, Fail, Sleep, Mine, vars, shared, BeginInit,
      CompileKernel, TakeTurn, ReadIndex, RenewContext, AwaitHost, BeginCopy, EndCopy,
      TooLittleMemory, InitThrows, Destroy, StopFarm, StartFarm

\* At the start nothing is loaded.
LEMMA InitDag == Init => DagInv
<1> SUFFICES ASSUME Init PROVE DagInv
  OBVIOUS
<1>1. TypeOK
  BY InitTurn DEF TurnInv
<1>2. s_dagLoadMode = "single" => sealer = "cuda"
  BY DagAssumption DEF Init
<1>3. DeviceDags
  BY Epochs DEF Init, DeviceDags
<1>4. s_dagInHostMemory = 0 /\ s_dagLoadIndex <= Cardinality(Done)
  BY DoneCount DEF Init
<1>5. HostDag
  BY <1>4 DEF Init, HostDag
<1>6. QED
  BY <1>1, <1>2, <1>3, <1>4, <1>5 DEF DagInv

\* Every step keeps the invariant.
LEMMA NextDag ==
  ASSUME DagInv, Next
  PROVE  DagInv'
<1>1. TypeOK /\ TypeOK'
  BY NextTypes DEF DagInv
<1>2. UNCHANGED config
  BY MinerKeeps DEF Next, NewPeriod, StopFarm, StartFarm, config
<1>3. (s_dagLoadMode = "single" => sealer = "cuda")'
  BY <1>2 DEF DagInv, config
<1>4. ASSUME Regular'
      PROVE  /\ DeviceDags'
             /\ s_dagLoadMode' = "single" => HostDag'
             /\ s_dagLoadMode' # "single" => s_dagInHostMemory' = 0
  <2>1. Regular
    BY <1>1, <1>4, StillRegular
  <2>2. /\ DeviceDags
        /\ s_dagLoadMode = "single" => sealer = "cuda" /\ HostDag
        /\ s_dagLoadMode # "single" => s_dagInHostMemory = 0
    BY <2>1 DEF DagInv
  <2>3. DeviceDags'
    BY <1>1, <1>4, <2>1, <2>2, NextDevices
  <2>4. s_dagLoadMode = "single" => HostDag'
    BY <1>1, <1>4, <2>1, <2>2, NextHost
  <2>5. s_dagLoadMode # "single" => s_dagInHostMemory' = 0
    BY <1>1, <2>2, NoHostDag
  <2>6. QED
    BY <1>2, <2>3, <2>4, <2>5 DEF config
<1>5. QED
  BY <1>1, <1>3, <1>4 DEF DagInv

\* Unless an initialisation goes wrong, every miner that searches has the DAG of the
\* epoch it searches in, for any number of miners and although the increments of
\* s_dagLoadIndex race: in the parallel and sequential modes over all epochs and restarts,
\* in single mode for the first epoch of the first start, where the DAG of the host is
\* freed after the last copy.
THEOREM DagsAreOwn == Spec => []MinesWithItsDag
<1>1. DagInv => MinesWithItsDag
  BY DEF DagInv, DeviceDags, MinesWithItsDag
<1>2. DagInv /\ UNCHANGED vars => DagInv'
  <2> SUFFICES ASSUME DagInv, UNCHANGED vars PROVE DagInv'
    OBVIOUS
  <2>1. UNCHANGED <<sealer, s_dagLoadMode, starts, stopping, failed, period, pc, w,
                    current, reg, m_dag,
                    s_dagLoadIndex, s_dagInHostMemory>>
    BY DEF vars, config, farm, shared
  <2>2. TypeOK' /\ (Regular' => Regular)
    BY <2>1 DEF DagInv, TypeOK, Regular, epoch
  <2>3. Done' = Done
    BY <2>1 DEF Done
  <2>4. (DeviceDags => DeviceDags') /\ (HostDag => HostDag')
    BY <2>1, <2>3 DEF DeviceDags, HostDag
  <2>5. QED
    BY <2>1, <2>2, <2>4 DEF DagInv
<1>3. QED
  BY InitDag, NextDag, <1>1, <1>2, PTL DEF Spec
=============================================================================
