----------------------------- MODULE GpuDevices -----------------------------
(***************************************************************************)
(* Which GPU a miner works on: the static device tables of CLMiner and     *)
(* CUDAMiner, what configureGPU accepts, how many miners there are, the    *)
(* indices Farm::start gives them and the device init makes of an index.   *)
(*                                                                         *)
(* A machine is what the drivers show of it:                               *)
(*   platforms   the OpenCL platforms, each a name and its GPUs in order   *)
(*   driver, cuda   whether there is a CUDA driver, and its GPUs in order  *)
(*   nvml, cards    see HwMon                                              *)
(* Device d of the code is element d + 1 of a sequence.                    *)
(***************************************************************************)
EXTENDS Integers, Sequences, FiniteSets

CONSTANTS
    MAX_MINERS,
    MaxUInt,            \* UINT_MAX: no limit on the number of miners
    FirstDag, LaterDag  \* ethash_get_datasize(0), and of block 2584000

Unselected == -1
NoDevices == [slot \in 0 .. MAX_MINERS - 1 |-> Unselected]

Smaller(a, b) == IF a < b THEN a ELSE b

\* setDevices, the same in both miners.
setDevices(s_devices, selected) ==
    [slot \in DOMAIN s_devices |-> IF slot < Len(selected) THEN selected[slot + 1] ELSE s_devices[slot]]

-----------------------------------------------------------------------------
(* OpenCL.                                                                 *)

getDevices(hw, platformId) ==
    hw.platforms[Smaller(platformId, Len(hw.platforms) - 1) + 1].devices

CLNumDevices(hw, s_platformId) ==
    IF hw.platforms = <<>> THEN 0 ELSE Len(getDevices(hw, s_platformId))

\* CLMiner::configureGPU: the sizes it stores, and whether some device has the memory.
RoundedUp(n, m) == ((n + m - 1) \div m) * m
CLWorkSizes(local, multiplier) ==
    [s_workgroupSize |-> RoundedUp(local, 8), s_initialGlobalWorkSize |-> multiplier * RoundedUp(local, 8)]

CLConfigureGPU(hw, platformId) ==
    /\ hw.platforms # <<>> /\ platformId < Len(hw.platforms)
    /\ \E d \in 1 .. Len(getDevices(hw, platformId)) : getDevices(hw, platformId)[d].memory >= LaterDag

\* Mutant: the slot of a miner is not looked up.
CLDevice_Unselected(hw, s_platformId, s_devices, index) == index % CLNumDevices(hw, s_platformId)

\* The device of CLMiner::init.
CLDevice(hw, s_platformId, s_devices, index) ==
    LET n   == CLNumDevices(hw, s_platformId)
        sel == s_devices[index % n]
    IN  (IF sel > Unselected THEN sel ELSE index) % n

HwMonKind(name) ==
    CASE name = "NVIDIA CUDA" -> "NVIDIA"
      [] name = "AMD Accelerated Parallel Processing" -> "AMD"
      [] OTHER -> "UNKNOWN"

NoInfo == [deviceType |-> "UNKNOWN", indexSource |-> "UNKNOWN", deviceIndex |-> -1]

\* CLMiner::init up to the DAG (which DagLoad has): the GPU it takes, the monitoring
\* data it leaves and whether it comes to a kernel with a DAG buffer.
CLInit(hw, s_platformId, s_devices, index, dagBytes) ==
    IF CLNumDevices(hw, s_platformId) = 0 THEN [ok |-> FALSE, device |-> -1, hwmon |-> NoInfo]
    ELSE LET p    == hw.platforms[Smaller(s_platformId, Len(hw.platforms) - 1) + 1]
             d    == CLDevice(hw, s_platformId, s_devices, index)
             gpu  == p.devices[d + 1]
             kind == HwMonKind(p.name)
         IN  [ok     |-> /\ gpu.version \in {"1.0", "1.1"} => p.name = "Clover"
                         /\ gpu.builds /\ gpu.memory >= dagBytes,
              device |-> d,
              hwmon  |-> [deviceType |-> kind,
                          indexSource |-> IF kind = "UNKNOWN" THEN "UNKNOWN" ELSE "OPENCL",
                          deviceIndex |-> d]]

\* The global work size of init: a multiple of the workgroup.
CLGlobalWorkSize(sizes) ==
    IF sizes.s_initialGlobalWorkSize % sizes.s_workgroupSize = 0 THEN sizes.s_initialGlobalWorkSize
    ELSE (sizes.s_initialGlobalWorkSize \div sizes.s_workgroupSize + 1) * sizes.s_workgroupSize

-----------------------------------------------------------------------------
(* CUDA: getNumDevices throws without a driver.                            *)

CUDANumDevices(hw) == Len(hw.cuda)

\* cuda_configureGPU: the memory of the selected devices, of the slots below the count.
CUDAConfigureGPU(hw, s_devices) ==
    \A slot \in 0 .. CUDANumDevices(hw) - 1 :
        s_devices[slot] # Unselected =>
            hw.cuda[Smaller(CUDANumDevices(hw) - 1, s_devices[slot]) + 1].memory >= FirstDag

\* The device of CUDAMiner::init and cuda_init.
CUDADevice(hw, s_devices, index) ==
    Smaller(IF s_devices[index] > Unselected THEN s_devices[index] ELSE index, CUDANumDevices(hw) - 1)

CUDAInit(hw, s_devices, index, dagBytes) ==
    IF CUDANumDevices(hw) = 0 THEN [ok |-> FALSE, device |-> -1, hwmon |-> NoInfo]
    ELSE LET d == CUDADevice(hw, s_devices, index)
         IN  [ok     |-> hw.cuda[d + 1].memory >= dagBytes /\ hw.cuda[d + 1].builds,
              device |-> d,
              hwmon  |-> [deviceType |-> "NVIDIA", indexSource |-> "CUDA", deviceIndex |-> d]]

-----------------------------------------------------------------------------
(* The farm.                                                               *)

setNumInstances(instances, numDevices) == Smaller(instances, numDevices)
instances(s_numInstances) == IF s_numInstances > 0 THEN s_numInstances ELSE 1

\* The miners after Farm::start.  A farm that has miners of that kind keeps them.
FarmStart(miners, sealer, ins, mixed) ==
    IF miners # <<>> /\ miners[Len(miners)].kind = sealer THEN miners
    ELSE LET kept == IF mixed THEN miners ELSE <<>>
         IN  kept \o [k \in 1 .. ins |-> [kind |-> sealer, index |-> Len(kept) + k - 1]]
=============================================================================
