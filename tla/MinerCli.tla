------------------------------ MODULE MinerCli ------------------------------
(***************************************************************************)
(* From the command line to running miners: main's loop over argv,         *)
(* MinerCLI::interpretOption (ethminer/MinerAux.h), execute, doMiner and   *)
(* doBenchmark, PoolManager's list of connections, the miners Farm::start  *)
(* makes, their devices (GpuDevices) and their sensors (HwMon).            *)
(*                                                                         *)
(* A word of argv is a string; what stol, network::uri and the search for  *)
(* a colon make of it is given by tables over the words in use.  The build *)
(* has ETH_ETHASHCL, ETH_ETHASHCUDA and API_CORE.                          *)
(***************************************************************************)
EXTENDS PoolUri, HwMon, SequencesExt

CONSTANTS
    Machines,           \* the machines the program is started on
    Commands,           \* what users ask for: sequences of options, each with its values
    Number,             \* word -> number, for the words stol accepts
    Url,                \* word -> parts of the address, for the words that are one
    UserPass,           \* word -> <<user, password>>, for the words with a colon
    Dashed,             \* the words that begin with '-'
    k_max_endpoints

VARIABLES
    hw, command,        \* the machine and the request, fixed when the program starts
    i, cli,             \* main's position in argv, the MinerCLI object
    pc,
    statics,            \* s_devices and s_numInstances of the miner classes
    m_connections,      \* of the PoolManager
    miners, monitors    \* Farm's miners; the GPU whose sensors are shown for each

vars == <<hw, command, i, cli, pc, statics, m_connections, miners, monitors>>

argv == FlattenSeq(command)

Primary == 1
Secondary == 2

\* The options whose value goes through stol in a try block, or through atoi.
StolOptions ==
    {"--farm-recheck", "--farm-retries", "--display-interval", "--opencl-platform",
     "--cl-parallel-hash", "--cl-kernel", "--cl-global-work", "--cl-local-work",
     "--cuda-grid-size", "--cuda-block-size", "--cuda-parallel-hash",
     "--benchmark-warmup", "--benchmark-trial", "--benchmark-trials", "-t",
     "--mining-threads"}
AtoiOptions == {"--work-timeout", "--api-port"}

\* The option that names the member: -t has a second spelling.
Member(o) == IF o = "--mining-threads" THEN "-t" ELSE o

\* The members of MinerCLI and their initial values; set holds those of the numeric options.
MinerCLI ==
    [mode |-> "None", minerType |-> "Mixed", ep_ix |-> 0, legacy |-> FALSE, new |-> FALSE,
     endpoints |-> [e \in 1 .. k_max_endpoints |-> NoConnection],
     openclDevices |-> <<>>, cudaDevices |-> <<>>, list |-> FALSE, exit |-> FALSE, report |-> FALSE,
     hwmon |-> FALSE, power |-> FALSE, dagLoadMode |-> "parallel", dagCreateDevice |-> 0, schedule |-> 4,
     streams |-> 2, block |-> 0,
     set |-> [o \in StolOptions \cup AtoiOptions |->
                 CASE o = "--farm-recheck" -> 500 [] o = "--farm-retries" -> 3
                   [] o = "--display-interval" -> 5 [] o = "--work-timeout" -> 180
                   [] o = "--cl-parallel-hash" -> 8 [] o = "--cuda-parallel-hash" -> 4
                   [] o = "--cl-global-work" -> 2048 [] o = "--cl-local-work" -> 256
                   [] o = "--cuda-grid-size" -> 1024 [] o = "--cuda-block-size" -> 512
                   [] o = "--benchmark-warmup" -> 15 [] o = "--benchmark-trial" -> 3
                   [] o = "--benchmark-trials" -> 5 [] o = "-t" -> MaxUInt [] OTHER -> 0]]

Statics ==
    [clDevices |-> NoDevices, cudaDevices |-> NoDevices, clInstances |-> 0, cudaInstances |-> 0,
     platform |-> 0, sizes |-> CLWorkSizes(256, 2048)]

Init ==
    /\ hw \in Machines /\ command \in Commands
    /\ i = 1 /\ cli = MinerCLI /\ pc = "parse" /\ statics = Statics
    /\ m_connections = <<>> /\ miners = <<>> /\ monitors = <<>>

-----------------------------------------------------------------------------
(* interpretOption.                                                        *)

Arg == argv[i]
More == i < Len(argv)
Value == argv[i + 1]

stolOk(w) == w \in DOMAIN Number
stol(w) == Number[w] % (MaxUInt + 1)     \* assigned to an unsigned member
atoi(w) == IF stolOk(w) THEN Number[w] ELSE 0
UrlOf(w) == URI(IF w \in DOMAIN Url THEN Url[w]
                ELSE [valid |-> TRUE, scheme |-> "", host |-> w, port |-> 0, user |-> "", pass |-> "", path |-> ""])

Leave(label) == pc' = label /\ UNCHANGED <<hw, command, i, cli, statics, m_connections, miners, monitors>>
BadArgument == Leave("bad")         \* caught by main: exit(-1)
Terminate == Leave("terminate")     \* an exception main does not catch

\* The option was understood and took this many values; the end of interpretOption.
Understood(c, values) ==
    /\ cli' = c /\ i' = i + 1 + values
    /\ pc' = IF c.legacy /\ c.new THEN "bad" ELSE "parse"
    /\ UNCHANGED <<hw, command, statics, m_connections, miners, monitors>>

Deprecated(c) == [c EXCEPT !.legacy = TRUE]
At(options) == pc = "parse" /\ i <= Len(argv) /\ Arg \in options
WithValue(options) == At(options) /\ More

\* -F: a getwork server, at port 80 unless it says another.
FarmUrl ==
    LET uri == UrlOf(Value)
    IN  /\ WithValue({"-F", "--farm"})
        /\ IF ~uri.valid \/ uri.host = "" THEN BadArgument
           ELSE Understood([Deprecated(cli) EXCEPT !.mode = "Farm",
                               !.endpoints[Primary].host = uri.host, !.endpoints[Primary].path = uri.path,
                               !.endpoints[Primary].port = IF Port(uri) # 0 THEN Port(uri) ELSE 80], 1)

\* -FF and its kin: the port counts in stratum mode only.
FailoverUrl ==
    LET uri == UrlOf(IF Value = "exit" THEN "exit:1" ELSE Value)
    IN  /\ WithValue({"-FF", "-SF", "-FS", "--farm-failover", "--stratum-failover"})
        /\ IF ~uri.valid \/ uri.host = "" \/ (cli.mode = "Stratum" /\ Port(uri) = 0) THEN BadArgument
           ELSE Understood([Deprecated(cli) EXCEPT
                               !.endpoints[Secondary].host = uri.host, !.endpoints[Secondary].path = uri.path,
                               !.endpoints[Secondary].port = IF cli.mode = "Stratum" THEN Port(uri) ELSE @], 1)

StratumUrl ==
    LET uri == UrlOf(Value)
    IN  /\ WithValue({"-S", "--stratum"})
        /\ IF ~uri.valid \/ uri.host = "" \/ Port(uri) = 0 THEN BadArgument
           ELSE Understood([Deprecated(cli) EXCEPT !.mode = "Stratum",
                               !.endpoints[Primary].host = uri.host, !.endpoints[Primary].port = Port(uri)], 1)

\* user:password.  Without a colon the password is the whole word too (npos + 1 is 0).
Split(w) == IF w \in DOMAIN UserPass THEN UserPass[w] ELSE <<w, w>>
Credentials ==
    LET e == IF Arg \in {"-FO", "--failover-userpass"} THEN Secondary ELSE Primary
    IN  /\ WithValue({"-O", "--userpass", "-FO", "--failover-userpass"})
        /\ Understood([Deprecated(cli) EXCEPT !.endpoints[e].user = Split(Value)[1],
                                              !.endpoints[e].pass = Split(Value)[2]], 1)

\* -u, -p, -o and the same for the failover server.
FailoverFields == {"-fu", "-fp", "-fo", "--failover-user", "--failover-pass", "--failover-port"}
UserOptions == {"-u", "--user", "-fu", "--failover-user"}
PassOptions == {"-p", "--pass", "-fp", "--failover-pass"}
PortOptions == {"-o", "--port", "-fo", "--failover-port"}
EndpointField ==
    LET e == IF Arg \in FailoverFields THEN Secondary ELSE Primary
    IN  \/ /\ WithValue(UserOptions)
           /\ Understood([Deprecated(cli) EXCEPT !.endpoints[e].user = Value], 1)
        \/ /\ WithValue(PassOptions)
           /\ Understood([Deprecated(cli) EXCEPT !.endpoints[e].pass = Value], 1)
        \/ /\ WithValue(PortOptions)
           /\ Understood([Deprecated(cli) EXCEPT !.endpoints[e].port = atoi(Value) % 65536], 1)

\* -SP and --stratum-ssl: for both servers.
Protocol ==
    \/ /\ WithValue({"-SP", "--stratum-protocol"})
       /\ Understood([Deprecated(cli) EXCEPT !.endpoints[Primary].version = atoi(Value),
                                             !.endpoints[Secondary].version = atoi(Value)], 1)
    \/ LET taken == More /\ Value \notin Dashed
           level == CASE taken /\ atoi(Value) = 1 -> "TLS"
                      [] taken /\ atoi(Value) = 2 -> "ALLOW_SELFSIGNED"
                      [] OTHER -> "TLS12"
       IN  /\ At({"--stratum-ssl"})
           /\ Understood([Deprecated(cli) EXCEPT !.endpoints[Primary].secLevel = level,
                                                 !.endpoints[Secondary].secLevel = level],
                         IF taken THEN 1 ELSE 0)

\* Mutant: the next endpoint takes the place of the last.
PoolUrl_SamePlace ==
    LET uri  == UrlOf(Value)
        mode == IF ProtoFamily(uri) = "STRATUM" THEN "Stratum" ELSE "Farm"
    IN  /\ WithValue({"-P"})
        /\ IF ~uri.valid \/ ~KnownScheme(uri) \/ cli.mode \notin {"None", mode} THEN BadArgument
           ELSE Understood([cli EXCEPT !.new = TRUE, !.mode = mode, !.endpoints[1] = PoolConnection(uri)], 1)

\* -P: the next endpoint; all of one family.  "exit" becomes an address whose scheme is
\* not in the table.
PoolUrl ==
    LET uri  == UrlOf(IF Value = "exit" THEN "stratum://exit:1" ELSE Value)
        mode == IF ProtoFamily(uri) = "STRATUM" THEN "Stratum" ELSE "Farm"
    IN  /\ WithValue({"-P"})
        /\ IF \/ ~uri.valid \/ ~KnownScheme(uri) \/ cli.ep_ix >= k_max_endpoints
              \/ cli.mode \notin {"None", mode}
           THEN BadArgument
           ELSE Understood([cli EXCEPT !.new = TRUE, !.mode = mode, !.ep_ix = @ + 1,
                               !.endpoints[cli.ep_ix + 1] = PoolConnection(uri)], 1)

\* The numeric options, and the values that two of them allow.
Allowed(o, n) ==
    /\ o = "--cl-parallel-hash" => n \in {1, 2, 4, 8}
    /\ o = "--cuda-parallel-hash" => n \in 1 .. 8
NumericOption ==
    \/ /\ WithValue(StolOptions)
       /\ IF stolOk(Value) /\ Allowed(Arg, stol(Value))
          THEN Understood([cli EXCEPT !.set[Member(Arg)] = stol(Value)], 1) ELSE BadArgument
    \/ /\ WithValue(AtoiOptions)
       /\ Understood([cli EXCEPT !.set[Arg] = atoi(Value)], 1)

\* How many numbers follow --opencl-devices or --cuda-devices and are taken.
DevicesTaken(have) ==
    LET run(n) == i + n <= Len(argv) /\ \A k \in 1 .. n : stolOk(argv[i + k])
    IN  CHOOSE n \in 0 .. MAX_MINERS : run(n) /\ (n = MAX_MINERS - have \/ ~run(n + 1))

DeviceList ==
    LET taken(have) == [k \in 1 .. Smaller(DevicesTaken(have), MAX_MINERS - have) |-> atoi(argv[i + k])]
    IN  \/ /\ At({"--opencl-devices", "--opencl-device"})
           /\ Understood([cli EXCEPT !.openclDevices = @ \o taken(Len(@))], DevicesTaken(Len(cli.openclDevices)))
        \/ /\ At({"--cuda-devices"})
           /\ Understood([cli EXCEPT !.cudaDevices = @ \o taken(Len(@))], DevicesTaken(Len(cli.cudaDevices)))

\* --cuda-schedule, --cuda-streams and -L; "single" reads on without looking at argc, and
\* neither its number nor that of --cuda-streams is read in a try block.
ModeOption ==
    \/ /\ WithValue({"--cuda-schedule"})
       /\ IF Value \in {"auto", "spin", "yield", "sync"}
          THEN Understood([cli EXCEPT !.schedule = CASE Value = "auto" -> 0 [] Value = "spin" -> 1
                                                     [] Value = "yield" -> 2 [] OTHER -> 4], 1)
          ELSE BadArgument
    \/ /\ WithValue({"--cuda-streams"})
       /\ IF stolOk(Value) THEN Understood([cli EXCEPT !.streams = stol(Value)], 1) ELSE Terminate
    \/ /\ WithValue({"-L", "--dag-load-mode"})
       /\ IF Value \in {"parallel", "sequential"} THEN Understood([cli EXCEPT !.dagLoadMode = Value], 1)
          ELSE IF Value # "single" THEN BadArgument
          ELSE IF i + 2 > Len(argv) \/ ~stolOk(argv[i + 2]) THEN Terminate
          ELSE Understood([cli EXCEPT !.dagLoadMode = Value, !.dagCreateDevice = stol(argv[i + 2])], 2)

\* -M and -Z: a mode, and a block unless the next word is an option.
ModeWithBlock ==
    LET c == [cli EXCEPT !.mode = IF Arg \in {"-M", "--benchmark"} THEN "Benchmark" ELSE "Simulation"]
    IN  /\ At({"-M", "--benchmark", "-Z", "--simulation"})
        /\ IF More /\ stolOk(Value) THEN Understood([c EXCEPT !.block = stol(Value)], 1)
           ELSE IF More /\ Value \notin Dashed THEN BadArgument
           ELSE Understood(c, 0)

\* The options without a value, -HWMON with its optional one, -SE, and -SC, which
\* wants a value and does not take it.
Flag ==
    \/ At({"-G", "--opencl"}) /\ Understood([cli EXCEPT !.minerType = "CL"], 0)
    \/ At({"-U", "--cuda"}) /\ Understood([cli EXCEPT !.minerType = "CUDA"], 0)
    \/ At({"-X", "--cuda-opencl"}) /\ Understood([cli EXCEPT !.minerType = "Mixed"], 0)
    \/ At({"--list-devices"}) /\ Understood([cli EXCEPT !.list = TRUE], 0)
    \/ At({"--exit"}) /\ Understood([cli EXCEPT !.exit = TRUE], 0)
    \/ At({"-RH", "--report-hashrate"}) /\ Understood([cli EXCEPT !.report = TRUE], 0)
    \/ At({"--cuda-noeval"}) /\ Understood(cli, 0)
    \/ WithValue({"-SC", "--stratum-client"}) /\ Understood(cli, 0)
    \/ WithValue({"-SE", "--stratum-email"}) /\ Understood(cli, 1)
    \/ LET taken == More /\ Value \notin Dashed
       IN  At({"-HWMON"}) /\ Understood([cli EXCEPT !.hwmon = TRUE, !.power = IF taken THEN atoi(Value) # 0 ELSE @],
                                        IF taken THEN 1 ELSE 0)

Option ==
    \/ FarmUrl \/ FailoverUrl \/ StratumUrl \/ Credentials \/ EndpointField \/ Protocol \/ PoolUrl
    \/ NumericOption \/ DeviceList \/ ModeOption \/ ModeWithBlock \/ Flag

\* What interpretOption returns false for: main's own options.
ValueOptions ==
    {"-F", "--farm", "-FF", "-SF", "-FS", "--farm-failover", "--stratum-failover", "-S", "--stratum",
     "-O", "--userpass", "-FO", "--failover-userpass",
     "-SP", "--stratum-protocol", "-P", "--cuda-schedule", "--cuda-streams", "-L", "--dag-load-mode",
     "-SC", "--stratum-client", "-SE", "--stratum-email"}
    \cup UserOptions \cup PassOptions \cup PortOptions \cup StolOptions \cup AtoiOptions
PlainOptions ==
    {"--stratum-ssl", "--opencl-devices", "--opencl-device", "--cuda-devices", "-M", "--benchmark", "-Z",
     "--simulation", "-G", "--opencl", "-U", "--cuda", "-X", "--cuda-opencl", "--list-devices", "--exit",
     "-RH", "--report-hashrate", "--cuda-noeval", "-HWMON"}

StandardOption ==
    /\ pc = "parse" /\ i <= Len(argv) /\ Arg \notin PlainOptions /\ ~(Arg \in ValueOptions /\ More)
    /\ CASE Arg \in {"-v", "--verbosity"} /\ More ->
              i' = i + 2 /\ UNCHANGED <<hw, command, cli, pc, statics, m_connections, miners, monitors>>
         [] Arg \in {"-h", "--help", "-V", "--version"} -> Leave("exit")
         [] OTHER -> Leave("bad")

-----------------------------------------------------------------------------
(* execute and what follows.                                               *)

UsesCL == cli.minerType \in {"CL", "Mixed"}
UsesCUDA == cli.minerType \in {"CUDA", "Mixed"}

\* The number of miners: one variable, which a list of OpenCL devices sets for CUDA too.
CLThreads == IF UsesCL /\ cli.openclDevices # <<>> THEN Len(cli.openclDevices) ELSE cli.set["-t"]
CUDAThreads == IF cli.cudaDevices # <<>> THEN Len(cli.cudaDevices) ELSE CLThreads

ListDevices ==
    /\ pc = "parse" /\ i > Len(argv) /\ cli.list
    /\ Leave("exit")

Execute ==
    LET platform == cli.set["--opencl-platform"]
        cl == UsesCL => CLConfigureGPU(hw, platform)
        cudaDevices == setDevices(statics.cudaDevices, cli.cudaDevices)
        cuda == UsesCUDA => hw.driver /\ CUDAConfigureGPU(hw, cudaDevices)
    IN  /\ pc = "parse" /\ i > Len(argv) /\ ~cli.list
        /\ IF ~(cl /\ cuda) THEN Leave("exit")
           ELSE /\ statics' = [statics EXCEPT
                       !.clDevices = IF UsesCL THEN setDevices(@, cli.openclDevices) ELSE @,
                       !.clInstances = IF UsesCL THEN setNumInstances(CLThreads, CLNumDevices(hw, platform)) ELSE @,
                       !.platform = IF UsesCL THEN platform ELSE @,
                       !.sizes = IF UsesCL THEN CLWorkSizes(cli.set["--cl-local-work"], cli.set["--cl-global-work"])
                                 ELSE @,
                       !.cudaDevices = IF UsesCUDA THEN cudaDevices ELSE @,
                       !.cudaInstances = IF UsesCUDA THEN setNumInstances(CUDAThreads, CUDANumDevices(hw)) ELSE @]
                /\ pc' = CASE cli.mode = "Benchmark" -> "benchmark" [] cli.mode = "None" -> "exit" [] OTHER -> "mine"
                /\ UNCHANGED <<hw, command, i, cli, m_connections, miners, monitors>>

\* doBenchmark: it starts the miners of one kind, none of a mixed farm, and exits when the
\* trials are over; without a trial it reads the front of an empty vector.
Benchmark ==
    /\ pc = "benchmark"
    /\ miners' = CASE cli.minerType = "CL" -> FarmStart(<<>>, "opencl", instances(statics.clInstances), FALSE)
                   [] cli.minerType = "CUDA" -> FarmStart(<<>>, "cuda", instances(statics.cudaInstances), FALSE)
                   [] OTHER -> <<>>
    /\ pc' = IF cli.set["--benchmark-trials"] = 0 THEN "terminate" ELSE "exit"
    /\ UNCHANGED <<hw, command, i, cli, statics, m_connections, monitors>>

\* doMiner: given credentials of a failover server are replaced by those of the primary.
Endpoints ==
    IF cli.legacy /\ cli.endpoints[Secondary].user # ""
    THEN [cli.endpoints EXCEPT ![Secondary].user = cli.endpoints[Primary].user,
                               ![Secondary].pass = cli.endpoints[Primary].pass]
    ELSE cli.endpoints

\* doMiner: addConnection up to the first endpoint without a host, and PoolManager::start.
DoMiner ==
    LET used == {n \in 0 .. k_max_endpoints : \A e \in 1 .. n : Endpoints[e].host # ""}
    IN  /\ pc = "mine"
        /\ m_connections' = SubSeq(Endpoints, 1, Max(used))
        /\ pc' = IF m_connections' = <<>> THEN "exit" ELSE "connecting"
        /\ UNCHANGED <<hw, command, i, cli, statics, miners, monitors>>

\* PoolManager's onConnected: the miners of the type that was asked for.
OnConnected ==
    LET cl == instances(statics.clInstances)
        cuda == instances(statics.cudaInstances)
    IN  /\ pc = "connecting"
        /\ miners' = CASE cli.minerType = "CL" -> FarmStart(<<>>, "opencl", cl, FALSE)
                       [] cli.minerType = "CUDA" -> FarmStart(<<>>, "cuda", cuda, FALSE)
                       [] OTHER -> FarmStart(FarmStart(<<>>, "cuda", cuda, FALSE), "opencl", cl, TRUE)
        /\ pc' = "mining"
        /\ UNCHANGED <<hw, command, i, cli, statics, m_connections, monitors>>

\* The miners' threads have work and have called init.
InitOf(m) ==
    IF m.kind = "opencl" THEN CLInit(hw, statics.platform, statics.clDevices, m.index, FirstDag)
    ELSE CUDAInit(hw, statics.cudaDevices, m.index, FirstDag)

\* doMiner's display of the progress, with the sensors.
Display ==
    /\ pc = "mining" /\ monitors = <<>>
    /\ monitors' = IF cli.hwmon THEN [k \in 1 .. Len(miners) |-> MonitoredGpu(hw, InitOf(miners[k]).hwmon)] ELSE <<>>
    /\ pc' = "displayed"
    /\ UNCHANGED <<hw, command, i, cli, statics, m_connections, miners>>

Next ==
    \/ Option \/ StandardOption \/ ListDevices \/ Execute
    \/ Benchmark \/ DoMiner \/ OnConnected \/ Display

Spec == Init /\ [][Next]_vars

-----------------------------------------------------------------------------
(* Properties.                                                             *)

\* What the user asked for: the options of a kind, with their values, in order.
Asked(options) == SelectSeq(command, LAMBDA o : o[1] \in options)

Ready == pc \in {"connecting", "mining", "displayed"}

\* The pools the program goes to are those named with -P, in their order and each with
\* its own credentials, whatever other options stand between them.
PoolsAsAsked ==
    Ready /\ cli.new =>
        /\ Len(m_connections) = Len(Asked({"-P"}))
        /\ \A k \in 1 .. Len(m_connections) : LET o == Asked({"-P"})[k]
             IN  /\ m_connections[k].host = Url[o[2]].host /\ m_connections[k].port = Url[o[2]].port
                 /\ m_connections[k].user = Url[o[2]].user /\ m_connections[k].pass = Url[o[2]].pass

\* The device a miner works on.
GpuOf(m) ==
    LET d == InitOf(m).device
    IN  IF d < 0 THEN NoGpu
        ELSE IF m.kind = "opencl" THEN getDevices(hw, statics.platform)[d + 1].id ELSE hw.cuda[d + 1].id

Listed(options) == IF Asked(options) = <<>> THEN <<>> ELSE Tail(Asked(options)[1])

\* In a farm of one kind, the miners work on the devices that were listed, one each, or
\* without a list on the first ones, as many as -t allows ("Select which OpenCL devices to
\* mine on. Default is to use all": interpretOption, execute, setDevices, Farm::start, init).
DevicesAsAsked ==
    \A kind \in {"CL", "CUDA"} :
        LET gpus  == IF kind = "CL" THEN getDevices(hw, statics.platform) ELSE hw.cuda
            words == Listed(IF kind = "CL" THEN {"--opencl-devices"} ELSE {"--cuda-devices"})
            exist == \A k \in 1 .. Len(words) : Number[words[k]] < Len(gpus)
        IN  pc \in {"mining", "displayed"} /\ cli.minerType = kind /\ exist /\ Len(words) <= MAX_MINERS /\ gpus # <<>> =>
              IF words # <<>>
              THEN [k \in 1 .. Len(miners) |-> GpuOf(miners[k])]
                      = [k \in 1 .. Len(words) |-> gpus[Number[words[k]] + 1].id]
              ELSE /\ Len(miners) = IF cli.set["-t"] = 0 THEN 1 ELSE Smaller(cli.set["-t"], Len(gpus))
                   /\ \A k \in 1 .. Len(miners) : GpuOf(miners[k]) = gpus[k].id

\* Places on the bus that sysfs writes with decimal digits below ten, all in one domain,
\* and no GPU that NVML or sysfs does not show.
PlainPlaces ==
    /\ ToSet(hw.cuda) \cup ToSet(PlatformDevices(hw, "NVIDIA CUDA")) \subseteq ToSet(hw.nvml)
    /\ ToSet(PlatformDevices(hw, "AMD Accelerated Parallel Processing"))
          \subseteq {hw.cards[c].gpu : c \in {c \in 1 .. Len(hw.cards) : hw.cards[c].vendor = AMD}}
    /\ \A c \in 1 .. Len(hw.cards) : hw.cards[c].vendor = AMD => hw.cards[c].gpu.bus < 10 /\ hw.cards[c].gpu.device < 10
    /\ \A g, h \in 1 .. Len(hw.nvml) : g # h => hw.nvml[g].bus # hw.nvml[h].bus

\* Adapters that ADL numbers in order, with one ID for each GPU, other than 0; and no GPU
\* that ADL does not show.
PlainAdapters ==
    LET a == hw.adl.adapters
    IN  /\ ToSet(PlatformDevices(hw, "AMD Accelerated Parallel Processing")) \subseteq {a[n].gpu : n \in DOMAIN a}
        /\ \A n \in DOMAIN a : a[n].iAdapterIndex = n - 1 /\ a[n].adapterID \notin {0, Failed}
        /\ \A n, m \in DOMAIN a : (a[n].gpu = a[m].gpu) <=> (a[n].adapterID = a[m].adapterID)

\* The sensors shown for a miner are those of the GPU it works on, or none are, where the
\* places on the bus are plain (the tables of libhwmon, miningProgress).  ADL, which Farm
\* does not open, would lead to that GPU as well where its adapters are plain.
SensorsOfTheMiner ==
    /\ PlainPlaces => \A k \in 1 .. Len(monitors) : monitors[k] \in {NoGpu, GpuOf(miners[k])}
    /\ PlainAdapters => \A k \in 1 .. Len(monitors) :
          LET info == InitOf(miners[k]).hwmon
          IN  info.deviceType = "AMD" =>
                  AdlGpu(hw, wrap_adl_create(hw), info.deviceIndex)
                      = IF hw.adl.lib THEN GpuOf(miners[k]) ELSE NoGpu
=============================================================================
