-------------------------------- MODULE HwMon -------------------------------
(***************************************************************************)
(* libhwmon: the tables that lead from a device of CUDA or OpenCL to the   *)
(* sensors of a GPU, and Farm::miningProgress's use of them.               *)
(*                                                                         *)
(*   hw.lib, hw.nvml   whether NVML loads, and its GPUs in order           *)
(*   hw.drm, hw.cards  whether /sys/class/drm opens, and card0, card1, ... *)
(*                     in it: of each the vendor (NoCard where the number  *)
(*                     is free), its hwmon directories and its GPU         *)
(*   hw.adl            whether ADL loads with all its functions, and its   *)
(*                     logical adapters in order: of each its index, its   *)
(*                     ID (Failed if asking for it fails) and its GPU      *)
(* A GPU is known by its place on the bus: domain, bus, device, function.  *)
(* Which GPU is read is modelled, not what its sensors say.                *)
(***************************************************************************)
EXTENDS GpuDevices, FiniteSetsExt

CONSTANT AMD        \* 4098, the vendor of the cards that are wanted

NULL == [null |-> TRUE]
NoGpu == 0          \* nothing was read: the values stay 0
Crash == -1         \* a null pointer was used

\* The last index that matches, as a loop without a break leaves it.
LastOf(S, default) == IF S = {} THEN default ELSE Max(S)

PlatformDevices(hw, name) ==
    LET P == {p \in 1 .. Len(hw.platforms) : hw.platforms[p].name = name}
    IN  IF P = {} THEN <<>> ELSE hw.platforms[Min(P)].devices

-----------------------------------------------------------------------------
(* wrapnvml.                                                               *)

\* opencl_nvml_device_id.  An OpenCL device that NVML does not know maps to GPU 0 (calloc).
OpenClNvml(hw) ==
    LET devs == PlatformDevices(hw, "NVIDIA CUDA")
    IN  [j \in 0 .. Len(devs) - 1 |->
            LastOf({i \in 0 .. Len(hw.nvml) - 1 :
                       /\ devs[j + 1].bus = hw.nvml[i + 1].bus
                       /\ devs[j + 1].device = hw.nvml[i + 1].device}, 0)]

\* A CUDA device that NVML does not know maps to -1.
wrap_nvml_create(hw) ==
    IF ~hw.lib \/ ~hw.driver THEN NULL
    ELSE [null |-> FALSE, gpus |-> hw.nvml,
          cuda_nvml_device_id |->
              [i \in 0 .. Len(hw.cuda) - 1 |->
                  LastOf({j \in 0 .. Len(hw.nvml) - 1 :
                             /\ hw.nvml[j + 1].domain = hw.cuda[i + 1].domain
                             /\ hw.nvml[j + 1].bus = hw.cuda[i + 1].bus
                             /\ hw.nvml[j + 1].device = hw.cuda[i + 1].device}, -1)],
          opencl_nvml_device_id |-> OpenClNvml(hw)]

\* wrap_nvml_get_tempC, _fanpcnt and _power_usage: the GPU they ask.
nvml_get(h, index) == IF index < 0 \/ index >= Len(h.gpus) THEN NoGpu ELSE h.gpus[index + 1].id

-----------------------------------------------------------------------------
(* wrapamdsysfs.                                                           *)

\* atoi of two hexadecimal digits stops at the first letter, and counts in tens.
AtoiOfHex(n) ==
    LET high == n \div 16
        low  == n % 16
    IN  IF high > 9 THEN 0 ELSE IF low > 9 THEN high ELSE 10 * high + low

\* The AMD cards, in the order of their numbers.
AmdCards(hw) == SelectSeq([c \in 1 .. Len(hw.cards) |-> c - 1], LAMBDA c : hw.cards[c + 1].vendor = AMD)

\* No directory of cards, or an AMD card without a hwmon directory, makes the whole of it
\* NULL; without an AMD card
\* the table of OpenCL devices stays a null pointer.
wrap_amdsysfs_create(hw) ==
    LET amd  == AmdCards(hw)
        devs == PlatformDevices(hw, "AMD Accelerated Parallel Processing")
    IN  IF ~hw.drm \/ \E i \in 1 .. Len(amd) : hw.cards[amd[i] + 1].hwmons = {} THEN NULL
        ELSE [null |-> FALSE, card_sysfs_device_id |-> amd, table |-> amd # <<>>,
              opencl_sysfs_device_id |->
                  [j \in 0 .. Len(devs) - 1 |->
                      LastOf({i \in 0 .. Len(amd) - 1 :
                                 LET gpu == hw.cards[amd[i + 1] + 1].gpu
                                 IN  /\ AtoiOfHex(gpu.bus) = devs[j + 1].bus
                                     /\ AtoiOfHex(gpu.device) = devs[j + 1].device
                                     /\ AtoiOfHex(gpu.function) = devs[j + 1].function}, 0)]]

\* wrap_amdsysfs_get_tempC, _fanpcnt and _power_usage: the GPU they ask.
amdsysfs_get(hw, h, index) ==
    IF index < 0 \/ index >= Len(h.card_sysfs_device_id) THEN NoGpu
    ELSE hw.cards[h.card_sysfs_device_id[index + 1] + 1].gpu.id

-----------------------------------------------------------------------------
(* wrapadl.  A GPU has an adapter for each of its outputs, one after the   *)
(* other and with the same ID.                                             *)

Failed == -1        \* the adapter has no ID

\* phys_logi_device_id: the index of the first adapter of each run of one ID.  Adapters
\* without an ID are passed over, and so are those with ID 0 at the beginning.
PhysLogi(hw) ==
    LET known == SelectSeq(hw.adl.adapters, LAMBDA a : a.adapterID # Failed)
        LastId(k) == IF k = 1 THEN 0 ELSE known[k - 1].adapterID
        firsts == SelectSeq([k \in 1 .. Len(known) |-> k], LAMBDA k : known[k].adapterID # LastId(k))
    IN  [n \in 1 .. Len(firsts) |-> known[firsts[n]].iAdapterIndex]

\* opencl_adl_device_id.  devs is in the order of the adapters, but is looked up by their
\* index; an OpenCL device that ADL does not show maps to GPU 0 (calloc).
OpenClAdl(hw, phys) ==
    LET devs == PlatformDevices(hw, "AMD Accelerated Parallel Processing")
        At(i) == hw.adl.adapters[phys[i + 1] + 1].gpu
    IN  [j \in 0 .. Len(devs) - 1 |->
            LastOf({i \in 0 .. Len(phys) - 1 :
                       /\ At(i).bus = devs[j + 1].bus
                       /\ At(i).device = devs[j + 1].device
                       /\ At(i).function = devs[j + 1].function}, 0)]

\* Without a GPU the table of OpenCL devices stays a null pointer.
wrap_adl_create(hw) ==
    IF ~hw.adl.lib THEN NULL
    ELSE LET phys == PhysLogi(hw)
         IN  [null |-> FALSE, phys_logi_device_id |-> phys, table |-> phys # <<>>,
              opencl_adl_device_id |-> OpenClAdl(hw, phys)]

\* wrap_adl_get_tempC, _fanpcnt and _power_usage: the GPU of the adapter they ask.
adl_get(hw, h, index) ==
    IF index < 0 \/ index >= Len(h.phys_logi_device_id) THEN NoGpu
    ELSE LET a == CHOOSE a \in 1 .. Len(hw.adl.adapters) :
                      hw.adl.adapters[a].iAdapterIndex = h.phys_logi_device_id[index + 1]
         IN  hw.adl.adapters[a].gpu.id

-----------------------------------------------------------------------------
(* Farm.                                                                   *)

\* The constructor's handle: its call of wrap_adl_create is commented out.
adlh(hw) == NULL

\* The branch of ADL in miningProgress, for a handle h: the GPU that is read, or Crash for
\* the use of the null table.
AdlGpu(hw, h, index) ==
    CASE h.null -> NoGpu
      [] ~h.null /\ ~h.table -> Crash
      [] OTHER -> adl_get(hw, h, h.opencl_adl_device_id[index])

\* The branch of sysfs, which overwrites what ADL said.
SysfsGpu(hw, h, index, adl) ==
    CASE h.null -> adl
      [] ~h.null /\ ~h.table -> Crash
      [] OTHER -> amdsysfs_get(hw, h, h.opencl_sysfs_device_id[index])

\* Mutant: the index of CUDA or OpenCL is taken for that of NVML.
MonitoredGpu_Unmapped(hw, info) ==
    IF info.deviceIndex >= 0 /\ info.deviceType = "NVIDIA" /\ ~wrap_nvml_create(hw).null
    THEN nvml_get(wrap_nvml_create(hw), info.deviceIndex) ELSE NoGpu

\* The sensors of Farm::miningProgress for one miner: the GPU that is read, or Crash.
MonitoredGpu(hw, info) ==
    LET nvmlh == wrap_nvml_create(hw)
    IN  CASE info.deviceIndex < 0 -> NoGpu
          [] info.deviceType = "NVIDIA" /\ ~nvmlh.null ->
                nvml_get(nvmlh, IF info.indexSource = "CUDA" THEN nvmlh.cuda_nvml_device_id[info.deviceIndex]
                                ELSE nvmlh.opencl_nvml_device_id[info.deviceIndex])
          [] info.deviceType = "AMD" ->
                SysfsGpu(hw, wrap_amdsysfs_create(hw), info.deviceIndex,
                         AdlGpu(hw, adlh(hw), info.deviceIndex))
          [] OTHER -> NoGpu
=============================================================================
