# ProgPoW-miner in TLA+

ProgPoW-miner fetches work from a pool or a node, searches nonces on GPUs and
returns the solutions. What is hard in it is first the threads around the hash: work
is replaced while kernels run, connections fail while solutions are handed in, miners
are destroyed while their threads start, and devices share a counter nobody locks. It
is also the number of copies: the same hash is written for the CPU, for CUDA and for
OpenCL, and the three must agree. This directory models both in TLA+, checks them with
TLC on small instances and proves the main safety properties of the threads, of the nonces
they try and of the generated programs with TLAPS for every value of the constants.

## The system

| Component | Source | State | Operations |
|---|---|---|---|
| Worker | `libdevcore/Worker.{h,cpp}` | `m_state`, `m_work` (the thread), `x_work` | `startWorking`, `stopWorking`, `~Worker`, the thread's loop |
| CUDA miner | `libethash-cuda/CUDAMiner.cpp`, `libethcore/Miner.h` | the package, the kick `m_new_work`, batches in flight on streams, the nonce counter, the DAG | `setWork`, `kick_miner`, `workLoop`, `search`, `init`, `cuda_init` |
| OpenCL miner | `libethash-cl/CLMiner.cpp` | the package, the search buffer, the device's header, the start nonce, the DAG | `setWork`, `workLoop`, `init` |
| Farm | `libethcore/Farm.h` | the miners, their package, `m_isMining`, the timer and io_service thread of the hash rate | `start`, `stop`, `restart`, `setWork`, `collectHashRate`, `processHashRate`, `submitProof` |
| Pool manager | `libpoolprotocols/PoolManager.cpp` | `m_running`, tries, active connection | the callbacks of client and farm, `start`, `stop`, `tryReconnect`, the hash-rate report |
| Stratum client | `libpoolprotocols/stratum` | socket, session, two timers, `m_pending`, the pending solution | `connect`, `disconnect`, completion handlers, `submitSolution` |
| Getwork client | `libpoolprotocols/getwork` | connection flags, the one slot for a solution | `connect`, `disconnect`, `submitSolution`, `workLoop` |
| Simulation client | `libpoolprotocols/testing` | connection, the request for more difficulty | `connect`, `submitSolution`, `workLoop` |
| API server | `libapicore` | none of its own | reads statistics, `doMinerRestart` |
| Command line | `ethminer`, `libpoolprotocols/PoolURI.cpp` | options, endpoints, static device lists | `interpretOption`, `execute`, `doMiner`, `doBenchmark` |
| ProgPoW generator | `libprogpow` | the random state of a period, two permutations | `getKern`, `merge`, `math` |
| Ethash | `libethash`, `libethcore/EthashAux` | light caches per epoch | cache and DAG items, `eval`, sizes of an epoch |
| GPU kernels | `CLMiner_kernel.cl`, `CUDAMiner_kernel.cu`, `CUDAMiner_cuda.cu`, `cuda_helper.h` | the DAG, local memory, the result buffer | search, generation of the DAG |
| Hardware monitoring | `libhwmon` | tables from devices to GPUs | `create`, `get_tempC`, `get_fanpcnt`, ... |
| Library code | `libdevcore` (RLP, hashes, logging), `libethcore/BlockHeader` | values | conversions |

How they interact. A client's thread receives a package and calls `Farm::setWork`
through the handler `PoolManager` installed; the farm stores it in every miner
under `x_minerWork` and kicks it. A miner's thread that finds a nonce calls
`Farm::submitProof`, which calls the client's `submitSolution` **on the miner's
thread**. The client's callbacks start and stop the farm's miners; the API's thread
restarts them. Every miner, the pool manager and the polling clients are `Worker`s;
the stratum client and the farm each own a `boost::asio::io_service` thread.

What is hard, and what makes each part correct:

* Worker: four states, changed by callers and thread with compare-and-exchange. No
  command may be lost, `stopWorking` must be synchronous, no wait may hang, and the
  thread must not call into a miner whose derived part is gone.
* Miners: results arrive batches after the launch. They must be reported under the
  header and nonce the kernel hashed; new work must be reached; batches and devices
  must not try the same nonces.
* DAG loading: devices take turns through an unlocked counter and a host buffer that
  somebody frees. Nobody may read what was freed or search with the wrong DAG.
* Farm: no miner on old work, no miner `isMining()` denies for longer than its creation
  takes, every handler returns, the hash rate keeps being collected.
* Clients: one read at a time, work only while connected, never idle, a pool
  without work is left, no solution lost or handed in twice or counted as what it
  is not.
* Statistics: counters read, reset, copied and cleared by four kinds of threads, half
  of them without the mutex. No hash counted twice, nothing erased that is not there, every
  solution of a benchmark answered by a job.
* Command line: one pass over options with static lists and shared variables behind
  it. The pools, devices and sensors must be those that were asked for.
* Algorithms: all copies must compute the same function, stay inside the data set, and
  agree with the published vectors; what is encoded must decode to itself.

`PROJECT.json` lists the hazards behind these at their lines.

## Modules

Definitions keep the source's names (`m_...`, `s_...`, function names); `map` in
`PROJECT.json` gives the lines of each. A definition named `X_Something` next to `X` is
a plausible bug in `X`; it is in no specification, and stands for what would break the
property it is listed with.

| Module | Models | State and actions |
|---|---|---|
| `Worker` | `dev::Worker` | `m_state`, mutex holders `x_work`, positions of callers and thread. One action per atomic operation on `m_state`; the object's life (`alive`, derived destructor, base destructor) decides what the thread may still call. |
| `CudaNonces` | the arithmetic of `CUDAMiner::search` | stepping, wrapping, device bits and the 40 bits a kernel looks at, with the widths as constants. |
| `CudaMiner` | `workLoop`, `search`, `Miner::setWork`, `kick_miner` | the farm's thread stores and then kicks; the miner's thread takes work, adopts it, launches on the streams in turn, submits what an earlier batch found, tests for a kick. |
| `ClMiner` | `CLMiner::workLoop` | one kernel at a time, its results read in the next iteration. |
| `DagLoad` | `CUDAMiner::init`, `cuda_init`, `CLMiner::init` and the waits around it | per miner: position, work taken and adopted, DAG on the device; shared: `s_dagLoadIndex` (`++` is a read and a write), `s_dagInHostMemory`, which a stop and a start of the farm leave as they are while its miners are destroyed and made anew. Devices may fail. |
| `NonceRange` | start nonces of all miners, extranonces and shares of `EthStratumClient` | composes `CudaNonces` and the OpenCL start nonces with `processExtranonce`, `mining.notify` and `submitSolution`. |
| `Farm` (`MCFarm` for TLC) | `Farm` with `PoolManager`'s handlers and `ApiServer::doMinerRestart` | a handler is a list of calls; each call is taken in the steps between which another thread can run, with the miners and the flag `m_isMining`, which is read without the mutex, set apart; the service thread collects the hash rate. The type of the farm (CUDA, CL, Mixed) is chosen at the start. |
| `PoolFailover` | `PoolManager::tryReconnect` | functions: next connection, next try, exit. Used by both clients. |
| `StratumPool` | `EthStratumClient` and `PoolManager` | one action per completion handler on the io thread, `submitSolution` on the miners' threads in five steps (cancel, `m_stale`, write, `m_response_pending`, timer), `onMinerRestart` on the API's, `stop` on the main thread. Handlers already queued are counted, because asio cannot take them back. |
| `GetworkClient` | `EthGetworkClient` and `PoolManager` | the worker's loop with calls that may throw; storing into the slot takes two steps, because nothing locks it; a call may throw after the node has judged the solution. Miners may be restarted at any time. |
| `MinerService` | what `Miner` and `FarmFace` promise | abstract: the work set last, the work looked at, what was found and not read, the solution handed in. `CudaMiner` and `ClMiner` each `INSTANCE` it with a refinement mapping. |
| `Statistics` | `addHashCount`, `collectHashRate`, `miningProgress`, `SolutionStats`, `PoolManager::workLoop`, `doMiner`'s display, `SimulateClient` | one action per step between which another thread can run: taking the time, the mutex, reading each counter, the reset, the push, the sum, the erase; copying the returned reference in two halves; `++` as read and write. |
| `MinerCli` with `PoolUri`, `GpuDevices`, `HwMon` (`MCMinerCli` for TLC) | `MinerCLI`, `URI`, `getDevices`, `configureGPU`, `init`'s choice of device, the NVML, sysfs and ADL tables, `miningProgress`'s choice of sensors | an action per kind of option consuming arguments one by one, then `execute`, `doMiner` or `doBenchmark`, `onConnected`, `init` of every miner, one display. |
| `Keccak` | `sha3.c`, `SHA3.cpp`, both kernels' permutations | operators; a lane is the set of its one bits. |
| `Ethash` | `internal.c`, `data_sizes.h`, both generators of the DAG | operators over an unspecified SHA3; the launch geometry and the warp shuffles are explicit. Of the two tables of 2048 sizes, 15 entries each are given as they stand and compared with the rule their comments say they follow. |
| `ProgPow` with `Word32` | `ProgPow.cpp`, `fill_mix`, `kiss99` | the shuffles, then one action per instruction of the generated program, on real 32-bit words, kept as two halves. |
| `ClKernel` | local memory of `ethash_search` | one action per access of a group of lanes between barriers; words are named, not computed. |
| `CudaKernel` | a block of CUDA's `progpow_search` | operators: the words each thread copies into the cache, what a shuffle gives a thread, the result slots that are written and the host reads. |
| `CudaHelper` | `cuda_helper.h` | the word primitives by the rules of their PTX instructions. |
| `Encodings`, `Rlp`, `BlockHeader` | `CommonData`, `FixedHash`, `RLP.{h,cpp}`, `BlockHeader.cpp` | operators; a stream and an indexed reader of RLP as actions. |
| `Algorithms` (`MCAlgorithms` for TLC) | the calls of the pure ones | one action per function, with every input of a small set. |
| `*Proofs` | | theorems about the module of that name; `ClMinerProofs` has those about `ClKernel` and `ProgPow` too, `ClientProofs` those about `GetworkClient` and `NonceRange` |

Left to another module in each: `Farm` takes a miner to be the package it holds
(`CudaMiner`, `ClMiner` say what it does with it, `Worker` how it starts and ends);
the clients take the farm to have no miners, miners that wait for work or miners that have it. boost::asio, the JSON-RPC calls
and the GPU are external: they complete, fail or answer at any time the code allows.

## Runs

| Run | Shows |
|---|---|
| `worker` | three callers start, stop and destroy a `Worker` in every interleaving: no kill lost, no work on a destroyed miner, every call returns if `workLoop` does. |
| `cuda_miner` | work replaced while two streams are in flight, with and without start nonces from the pool: no kick is lost, results carry the nonces that were tried, and `MinerService` is implemented: right header, each result once, the latest work reached, a stop obeyed. |
| `cl_miner` | adjacent batches, and `MinerService` implemented without a kick. |
| `dag` | three miners of either kind, every mode, two epochs, two starts of the farm, failing devices and racing `++`: the first turns are respected, nobody mines without its DAG, everyone loads, each under the condition it states. |
| `nonce` | two miners walk through two jobs: no nonce tried twice without an extranonce, shares denote what was tried with one. |
| `farm` | the pool's events against API restarts, in farms of CUDA, OpenCL and both: no stale miner; in a farm of one kind, without restarts, handlers return and the hash rate is collected. |
| `farm_restart_completes` | **violated**, see Findings |
| `stratum` | connection failures, late timers, aborted reads, two connect chains, the solutions of two miners' threads at any moment. |
| `getwork` | solutions stored at any moment while calls fail and nodes change. |
| `stats` | the threads that count, collect, copy, display and clear, driven by the simulation client: no hash collected twice, the smoothing finds what it erases unless `stop` cleared it, a solution brings a job. |
| `cli` | command lines of one to four options on six machines with up to three GPUs of either vendor, listed in different orders and with ADL's adapters in and out of order: pools, devices and sensors as asked. |
| `algorithms` | the pure algorithms against reference definitions, ProgPoW against `test-vectors.md` (all of it but which operation a number selects, see Findings), the OpenCL kernel's local memory, blocks of the CUDA kernel, RLP streams and readers. |

### Bounds

* `worker`: three callers give two contenders while a third destroys; states of the
  callers are symmetric and nothing else grows, so the run is the whole space.
* `cuda_miner`, `cl_miner`: two headers suffice for "replaced" and "replaced and
  given back"; two streams for a result that is a batch late. `Word`, `Low`, `Devs`,
  `High`, `Space` are the widths 2^32, 2^36 and so on scaled down in the same order, so
  that every wrap and truncation happens within a few batches.
* `dag`: three miners are needed for a turn that is before, at and after the counter;
  two epochs, the first with two periods, for every kind of renewal; two starts, so that
  new miners meet the counter and the host's DAG old ones left. `WithinBounds`
  cuts only states in which every property of the run already holds vacuously:
  after a failure nothing is said of later epochs and starts, and neither a failure nor
  an epoch nor a start is ever undone.
* `nonce`: four-valued digits, seven of them, have the layout of sixteen hexadecimal
  ones; scramblers are chosen below, at and above CUDA's `max_nonce` and at the end of the
  space; a batch is longer than a slice, as in the code. Two jobs and two
  batches let an extranonce change between a search and its share.
* `farm`: two packages, two CUDA miners and one OpenCL miner, at most `MaxQueued` = 2 expired
  waits (a re-armed timer and one that could not be cancelled).
* `stratum`: two miners' threads, so that one can be anywhere in `submitSolution` while
  the other is; `MaxWrites` and `MaxAttempts` = 2 allow every pair of overlapping events;
  `MaxFlight` = 1 is looked at when a submission begins, so that two begun together are
  both out; `MaxDue` = 1 late expiry per timer. The exit behind the last
  connection is in `getwork`, whose `NumConnections` includes it.
* `getwork`: two solutions, so that one can overwrite the other.

* `stats`: one miner, two solutions: the second arrives while the job for the first is
  given out. Two batches, one tick of the clock and an interval of 0 make the smoothing
  erase at once. One reader; with two, `miningProgress` itself is unsafe (Findings).
* `cli`: every option alone and in pairs with those of pools and devices, these also in
  every order of three, and the devices' with sensors shown; missing values, lists
  with an index that does not exist and buses that need hexadecimal digits are included.
* `algorithms`: Keccak, the DAG's sizes and ProgPoW have the constants of the code
  (64- and 32-bit lanes, 24 rounds, 32 registers, period 10, real epochs up to the last of
  the tables). Nodes have four words modulo 16, bytes four values squared, so that every
  carry, boundary and padding case is met; CUDA's words have four bytes of two bits,
  and every rotation is tried. Three groups of four lanes are one more than local memory
  has room for. CUDA blocks are asked for below, at and above whole groups of 16 lanes, and
  the cache's 256 words leave threads of the largest block without one.

`farm` and `farm_restart_completes` do not check deadlock: callers that block for
ever are what `RestartCompletes` is about. Nor do `stats`, `cli` and `algorithms`, whose
behaviours end: the program is stopped, exits or has returned. Everywhere else deadlock
is checked.

### Fairness

* `Worker`: threads are scheduled. That a `workLoop` returns once `shouldStop` holds is not
  assumed but a premise of `CallsTerminate`, since not all of them poll it (Findings).
* `CudaMiner`, `ClMiner`: the miner's thread runs and kernels end; in `CudaMiner` the
  farm's thread comes from the store to the kick. New work is not assumed.
* `DagLoad`: weak fairness of each miner's thread and of its destructor, none of failures;
  a farm that was stopped is started again, as `tryReconnect` does.
* `Farm`: threads are scheduled; steps that take `x_minerWork` have strong
  fairness, since the mutex is free again and again and no thread is passed over
  for ever. `PromptService`, a premise of the run's two temporal properties, says that the io_service thread sees a stop within the
  three seconds `tryReconnect` sleeps; the run of `RestartCompletes`, whose caller
  does not sleep, is without it.
* `StratumPool`: the io thread runs what is queued, connects end, and a work timer
  nobody re-arms expires. Neither answers nor solutions are assumed.
* `GetworkClient`: the worker runs, copies end, and a submission made again and
  again is answered in the end.

* `Statistics`: the client's loop goes on, and a thread waiting for `x_minerWork` gets it
  in the end (strong fairness). Nothing is assumed of how `connect` and the client's loop
  interleave. A miner need not find anything.

`MinerService` states its progress as leads-to formulas, which the implementations'
fairness yields; `ImplementsService` checks safety and progress together.

## Proofs

Eight modules hold theorems, checked by TLAPS for every value of the constants
under the named assumptions in the modules themselves. Each rests on an inductive
invariant, because none of the properties is inductive alone.

| Module | Proved | Invariant |
|---|---|---|
| `WorkerProofs` | types, `StoppedMeansParked`, `NoWorkOnDestroyedMiner`, `KillIsNotLost`, `StartIsNotOverwritten` | who holds `x_work` (`Holders`), what callers may do at each stage of the object (`Stages`), one destroyer, which `m_state` each position of the thread allows (`StateAt`), the thread's existence, a kill has a caller in `~Worker`, parked before the derived part is gone |
| `CudaMinerProofs` | `SolutionsBelongToWork`, `KickIsNotLost` | `IInv`: batches in flight are of the searched header, the local copies agree with it, a result that was read is current, and the searched package is the latest or a kick is pending or coming |
| | `NoncesAttributed` | `NonceInv`: each batch in flight is as many batches behind the counter as there were launches since, modulo the wrap at `max_nonce` (`FlightsInOrder`), and so is a result that was read (`ResultIsBehind`); the counter is not restarted while results of its header are in flight (`StartedOnce`) |
| | the safety of `MinerService` | both, and `FlightsSeen`: when a search ends, what is in flight is for the work the miner looks at; before the first work nothing is |
| `ClMinerProofs` | types, `ReportsWhatWasFound`, `NeverStale`, `BatchesTile` | what `w`, the device's header, the buffer and the report are at each position of the loop |
| | the safety of `MinerService` | additionally `UnreadInv`: at the top of the loop an unread result is of the work the miner looks at; before the first work there is none |
| | `SharedMemoryIsOwn` of `ClKernel` | `Lockstep`: the barriers keep all groups in one phase of one hash and one loop; `MemoryKept`: in that phase, the words a group has still to read hold what it wrote; `CacheKept`: a group past the loading has loaded its share |
| | `ProgramMixesEverything` of `ProgPow`, and that every merge is one-to-one | `GeneratorInv`: both sequences are permutations after any number of swaps (`ShuffleInv`); the statements emitted so far have used the first `dst_cnt` destinations and the first cache sources, `dst_cnt` is what the iterations done have taken, and the first word loaded went to register 0 (`EmitInv`) |
| `DagLoadProofs` | types, `OneLoadsAtATime` | the turn is at miner `s_dagLoadIndex`: those before it have loaded, those after have not begun |
| | `MinesWithItsDag` | `DeviceDags`: a device has the DAG of the work it adopted or is about to; `HostDag`: `s_dagLoadIndex`, whose racing increments may be lost, never counts a miner that has not loaded, so that the host's DAG outlives its copies |
| `FarmProofs` | types, `NoStaleMiner`, `MinersMeanMining` | a caller inside a call has one (`CallInv`); between the change of the miners and that of `m_isMining`, and until the join, it holds the mutex (`LockInv`); elsewhere there are miners only if `m_isMining` says so (`MiningInv`); the last sealer is known (`SealerInv`) |
| `StratumPoolProofs` | types, `OneReadPending`, `MiningMeansConnected`, `NeverIdle` | `ClientInv`: at most one read, a read needs a session, a session a connection, and outside `run` there is none |
| | `SolutionIsTimed`, `StaleIsNotFresh` | `SolutionInv`: nothing is in flight without a session; a share marked stale has `m_stale`, from the step that takes it on; a wait that no thread is about to time is timed or due |
| | `SameJobTimesOut`, an action property, where a job is its header | `ConnectInv`: no session while connecting |
| `ClientProofs` | types, `MiningMeansConnected`, `AnsweredOnce` of `GetworkClient` | `SlotInv`: neither the slot nor the call under way holds a solution whose verdict the client has; `AskInv`: the node is asked only by a client that is or has just been connected |
| | types, `NoNonceTwice`, `ShareIsWhatWasTried` of `NonceRange` | `WalkInv`: an OpenCL miner has tried exactly the batches between its first nonce and its counter (`OpenClWalks`), a CUDA miner only nonces above its own device bits (`CudaWalks`), as many as its job allows (`TriedInv`); once a pool has assigned an extranonce there always is one (`ExtraInv`) |
| `StatisticsProofs` | `HashesCountedOnce`, `EraseFindsProgress` | `Mutex`: who collects holds it; `Counts`: between the reading of a counter and its reset, the counter holds once more what was credited; `Smoothing`: who is about to erase has found a sum above the interval, which no empty vector has, unless the vector was cleared since |

`Spec => Service!Safety` is the whole of `MinerService` but its progress: every initial
state maps to one of the service, and each step of `workLoop` to a step of the service
or to none, with the results in flight as the solutions found and not read.

The assumptions are those the code gives. `PipelineAssumption`: what is in flight on all
streams is less than `max_nonce` (2 batches of 2^19 nonces against 2^32 - 1 with the
defaults); without it a batch could be taken for one a whole round later.
`KernelAssumption`: the number of lanes is even, as `shuffle_t` is declared with
`PROGPOW_LANES / 2` double words. `WidthAssumption`: the strides of all miners fit into a
nonce (`MAX_MINERS` times 2^40 below 2^64), and a job is replaced before a miner has tried
the 2^40 nonces of its stride, or what an extranonce leaves it; past that, miners do meet.
`NoncesAreTriedOnce` further asks for no more CUDA miners than device bits tell apart (16),
and `SharesAreWhatWasTried` for extranonces of one length: without either the code does not
have the property (Findings). `CountAssumption`: the registers are at least as many as the
cache loads and at most as many as the merges; `ProgPow.h` has 11 <= 32 <= 34. With fewer
merges some register would never be written. `SameJobTimesOut` excepts EthereumStratum, where
every notification puts the timer back (Findings).

The proof of `SharedMemoryIsOwn` corrected the property: it said that seeds are safe with
any number of groups, and the step of `WriteOffset` could not be proved. TLC shows the
case with 2 lanes and 3 groups, where the offset of group 2 falls on the seed of group 1.

The merges are proved on words as `Word32` computes them: a word is two halves of 16
bits, exclusive or is defined by doubling from one bit to sixteen, and a product by its
partial products. Exclusive or is one-to-one at every width if it is at the half of it; a
rotation by less than a half, a half or more puts together the quotients and remainders of
the two halves crosswise (`Crossed`), from which both can be told; and 33 is odd, so that
multiplying by it loses nothing. The comment in `ProgPow::merge` ("only do ops that retain
entropy") is thereby a theorem, where the run tries five values.

Only model-checked:

* what needs fairness, out of the prover's reach: `CallsTerminate`, `HandlersComplete`,
  the progress of `MinerService` and the other temporal properties of the runs;
* `MatchesVectors`: a computation on given numbers, which TLC carries out;
* `MinerCli`: its properties compare the end of a pass over `argv` with filters of the
  command (`SelectSeq`, `FlattenSeq`), which takes induction over the command;
* `Algorithms`, `Rlp`: functions of their input defined by recursion or with `Bitwise`,
  which the prover cannot use, over inputs TLC enumerates.

`StoppedMeansParked`, `StartIsNotOverwritten`, `SolutionsBelongToWork`,
`ReportsWhatWasFound`, `NeverStale`, `MinersMeanMining`, `MiningMeansConnected` and the type
invariants are proved and no longer part of a run; `CallsTerminate`, `ImplementsService`
and `HandlersComplete` check on the small instance what follows from several of them.

## Findings

* **A restart can hang** (`farm_restart_completes`). `Farm::start` joins the service
  thread with `x_minerWork` held; that thread may be about to take it in
  `collectHashRate`. The comment on `restart` promises stop and start.

More statements are defined in the modules and refuted by TLC when they are put into
the cfg of their module's run. Most have a weaker form, with the condition, that holds:

* `CallsAlwaysTerminate` (`Worker`): `EthGetworkClient.cpp` 65 and `SimulateClient.cpp` 74
  loop for ever, `PoolManager.cpp` 138 polls `m_running`, and the waits for the DAG in
  `CUDAMiner.cpp` 64 and 431 and `CLMiner.cpp` 311 look at nothing but their condition:
  none polls `shouldStop`, so that `stopWorking` or the join can wait for ever.
  `CallsTerminate` holds if `workLoop` comes back.
* `MixedHandlersComplete` (`Farm`): with the default `MinerType::Mixed` (`MinerAux.h` 996)
  `start("opencl", true)` joins the service thread `start("cuda", false)` has just created,
  with `x_minerWork` held (`Farm.h` 158-160); that thread never runs out of work, and
  waits for the mutex when the timer expires. No restart is needed. `HandlersComplete` holds for
  farms of one kind.
* `OutdatedIsNotFresh` (`StratumPool`): a `mining.notify` handled between lines 663 and 667
  of `submitSolution` (`EthStratumClient.cpp`) finds nothing pending and leaves `m_stale`
  false, and a second share overwrites it: a stale share is counted as fresh.
  `StaleIsNotFresh` holds for shares that are waited for already. An answer that comes
  before line 667 likewise leaves `m_response_pending` set and the timer armed for a
  verdict that has been given; the connection is torn down two seconds later.
* `JudgedOnce` (`GetworkClient`, `EthGetworkClient.cpp` 87): a call that throws after the node
  has judged leaves the solution in the slot, and it is handed in again. `AnsweredOnce`
  holds for the verdicts that arrive.
* `RestartsLoadInTurn` (`DagLoad`, `CUDAMiner.cpp` 64): the static `s_dagLoadIndex` is never
  reset, so that after a reconnect in the first epoch all new miners load at once in
  sequential mode. `OneLoadsAtATime` holds for the first start.
* `EveryMinerAlwaysLoads` (`DagLoad`; the restart shows it with three miners, the racing
  increments with four): a stop waits for a miner that waits for the turn or the DAG of one
  that is destroyed already, and increments that race take a turn back.
  `EveryMinerLoads` holds if epochs and restarts come after everyone was counted.
* `VectorsSelectTheirPath` (`ProgPow`): in `test-vectors.md` and in the listings of the
  repository's README a remainder of 0 selects mul/add and add (`test-vectors.md` 98 and
  107, `README.md` 293 and 312); `ProgPow.cpp` prints `ROTR32` and `ROTL32` (204, 217). No row of
  the merge table and only two of the math table, those of rotr and or, name the operation
  their `r` selects in the code. `MatchesVectors` checks the result of each row by the
  operation it names, and the generator's sequences, which agree.
* `EraseIsDefined` (`Statistics`, `Farm.h` 182 and 216): `stop` clears `m_lastProgresses`
  without the mutex, between the sum and the erase of a collection; `erase(begin())` of an
  empty vector is undefined. `EraseFindsProgress` holds but for that.
* `MinersGetWork` (`Statistics`, `SimulateClient.cpp` 24-28): `connect` sets `m_connected`
  before its callback has started the farm, and the loop runs since the constructor; the
  first job may be given to nobody, and without miners no solution asks for another.

* `SolutionIsHandled` (`GetworkClient`, `EthGetworkClient.cpp` 59): there is one unlocked
  slot; a second solution overwrites the first, or is zeroed with it after the call.
  `UncontendedIsHandled` holds.
* `DagOutlivesPeriods` (`DagLoad`, `CLMiner.cpp` 677): for a new period `CLMiner::init`
  creates a new context and a new `m_dag`, and for an unchanged epoch returns before
  generating it. `MinesWithItsDag` holds.
* `SlicesAreDisjoint` (`NonceRange`, `CLMiner.cpp` 335): the device's index is shifted
  within 32 bits although the nonce has 64, so that under an assigned extranonce the
  starts are fewer nonces apart than a batch is long. `NoNonceTwice` holds without one.
* `FarmIsThreadSafe` (`Statistics`, with `N = 2`, `Readers = {"main", "loop"}`,
  `MaxBatches = 3`): `collectHashRate` takes the time before the mutex, so that an interval
  can be negative (`Farm.h` 187); `miningProgress` returns a reference that is copied
  without the mutex (334); `SolutionStats` are incremented by several threads
  (`Miner.h` 128). `HashesCountedOnce` holds.

Properties that the code has only under a condition name it in the formula and in its
comment, and the hazard list says so. Conditions on fairness are above, bounds too. Beyond
them, as read from the code:

* `s_dagLoadIndex` is never reset: later epochs and the miners of later starts do not
  wait, and single mode frees the host's DAG early; OpenCL passes the turn on before it loads; an `init` that throws
  never passes it on, and `cuda_init`'s `false` is ignored.
* `setWork` drops a package equal to the farm's last one even if new miners never had
  it.
* CUDA: `max_nonce` is truncated, which throws away most start nonces; `nonce_base`
  borrows after a wrap; the 32-bit start nonce and the 40 bits a kernel looks at lose
  the extranonce; more than 16 devices share device bits; an assigned start nonce
  of 0 keeps the counter.
* EthereumStratum resets the work timer at every notification, of the same job too;
  a share is cut by the latest extranonce's length, which may not be its job's.
* Data set and kernels: OpenCL is told the DAG's size as an unsigned int
  (`CLMiner.cpp` 613), so that from epoch 385 on the nodes past it are never generated; with more than
  `PROGPOW_LANES / 2` hashes in a work-group the offsets overlap other groups' words in
  local memory, with more than `PROGPOW_LANES` also their seeds, and the digests never;
  CUDA's generator needs blocks of whole quads, its search kernel of whole groups of 16 lanes,
  and `configureGPU` rounds a block only to eights; CUDA looks at 40 bits of the start nonce, OpenCL at all.
  The CPU evaluates Ethash (`EthashAux::eval`) although the kernels hash ProgPoW, so
  that the check before submission (`CLMiner.cpp` 367, `CUDAMiner.cpp` 657,
  `SimulateClient.cpp` 52) cannot confirm what they find. `cuda_configureGPU` sizes the DAG
  by the block alone where OpenCL adds 2584000 (`CUDAMiner.cpp` 285). The repository's
  README gives a period of 50, the code has 10.
* Word primitives nothing in the kernels uses: `operator*` of pairs multiplies the high
  words where the comment says `mul.lo.b64` (`cuda_helper.h` 572); `SHL2` and `SHR2` are
  shifts only below a word, their older variants at every count.
* Values: the boundary of difficulty 1 is 0 (`BlockHeader.cpp` 41), `fromHex` returns no
  bytes at a bad digit where the comment says it puts zeros (`CommonData.h` 69), and a hash
  made of a string of the wrong length is zero.
* Command line: `doMiner` replaces the credentials of failover servers; `-FF` before `-S`
  loses the port; `-SC` does not consume its value; `-P exit` is refused; a list
  of OpenCL devices also sets the number of CUDA miners, and in a mixed farm OpenCL
  indices start after the CUDA miners; `--benchmark-trials 0` reads the front of an empty
  vector; a mixed benchmark starts no miner.
* Sensors: `sysfs` bus numbers are hexadecimal and read with `atoi`; an OpenCL device
  that matches nothing is shown with the sensors of the first GPU; NVML's mapping of
  OpenCL devices ignores the PCI domain. The call of `wrap_adl_create` is commented out
  (`Farm.h` 69); were it made, ADL would look up adapters by their index in a list that may be ordered
  otherwise, and give an unmatched device GPU 0.

## Not modelled, and the plan

Not modelled for good: logging, D-Bus, vendored OpenCL bindings, generated JSON-RPC
stubs, TLS certificates, the layout of messages and API answers, the compilation of
kernels by the drivers, and the exits of the process on CUDA runtime errors. In `StratumPool` the main thread's `stop` is two steps: the
io thread may do anything after `m_running` is cleared, and nothing after the disconnect
that precedes `exit`. In `GetworkClient` the main thread's `stop` is not modelled.

Abstracted: SHA3 inside Ethash is an unspecified function on small nodes (its own
rounds are in `Keccak`); block headers have two hashes for all of theirs; in `Statistics`
difficulties and sensors are left out; the text of options and URLs is split into
fields before `MinerCli` sees it.

What is left, most important first:

1. The composition of client and farm: the client keeps `m_current` across a
   reconnection, so the same header from the next pool is not handed to new miners.
   Together with `m_requestBuffer`, which miner threads and the io thread fill without a
   lock (`EthStratumClient.cpp` 661).
2. `EthashAux::light`, the map of light caches that is never emptied; `submitHashrate` of
   the clients; RLP's iterators.
