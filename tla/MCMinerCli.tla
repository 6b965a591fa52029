----------------------------- MODULE MCMinerCli -----------------------------
\* The machines, words and commands of the run of MinerCli.
EXTENDS MinerCli

Gpu(id, memory, bus) ==
    [id |-> id, memory |-> memory, version |-> "1.2", builds |-> TRUE,
     domain |-> 0, bus |-> bus, device |-> 0, function |-> 0]
Old == [Gpu(9, 8, 9) EXCEPT !.version = "1.1"]
Amd(devices) == [name |-> "AMD Accelerated Parallel Processing", devices |-> devices]
Nvidia(devices) == [name |-> "NVIDIA CUDA", devices |-> devices]
Card(gpu) == [vendor |-> AMD, hwmons |-> {1, 2}, gpu |-> gpu]
Adapter(index, id, gpu) == [iAdapterIndex |-> index, adapterID |-> id, gpu |-> gpu]
Adl(adapters) == [lib |-> TRUE, adapters |-> adapters]
NoAdl == [lib |-> FALSE, adapters |-> <<>>]
NoCard == [vendor |-> 0, hwmons |-> {}, gpu |-> Gpu(0, 0, 0)]

g1 == Gpu(1, 8, 1)
g2 == Gpu(2, 4, 3)
g3 == Gpu(3, 8, 10)
n1 == Gpu(11, 8, 5)
n2 == Gpu(12, 8, 6)
n3 == [Gpu(13, 1, 7) EXCEPT !.builds = FALSE]

\* AMD cards in another order than OpenCL's, one on bus 0a; the same below bus 0a; NVIDIA
\* with three orders; both; a container that hides sysfs; nothing.  ADL has adapters of one
\* GPU in runs, adapters without an ID or not in order, none, or is not there.
MCMachines ==
    {[platforms |-> <<Amd(<<g2, g1, g3>>)>>, driver |-> FALSE, cuda |-> <<>>, lib |-> FALSE, nvml |-> <<>>,
      drm |-> TRUE, cards |-> <<NoCard, Card(g1), Card(g2), Card(g3)>>,
      adl |-> Adl(<<Adapter(0, 71, g3), Adapter(1, 71, g3), Adapter(2, 72, g1), Adapter(3, 73, g2), Adapter(4, 73, g2)>>)],
     [platforms |-> <<[name |-> "Clover", devices |-> <<Old>>], Amd(<<g1, g2>>)>>, driver |-> FALSE, cuda |-> <<>>,
      lib |-> FALSE, nvml |-> <<>>,
      drm |-> TRUE, cards |-> <<Card(g2), Card(g1)>>,
      adl |-> Adl(<<Adapter(1, Failed, g1), Adapter(0, 72, g1), Adapter(2, 0, g2)>>)],
     [platforms |-> <<Nvidia(<<n2, n1>>)>>, driver |-> TRUE, cuda |-> <<n1, n2, n3>>, lib |-> TRUE,
      nvml |-> <<n3, n2, n1>>, drm |-> TRUE, cards |-> <<>>, adl |-> NoAdl],
     [platforms |-> <<Amd(<<g1, g2>>), Nvidia(<<n1, n2>>)>>, driver |-> TRUE, cuda |-> <<n2, n1>>, lib |-> TRUE,
      nvml |-> <<n1, n2>>, drm |-> TRUE, cards |-> <<Card(g1), NoCard, Card(g2)>>,
      adl |-> NoAdl],
     [platforms |-> <<Amd(<<g1>>)>>, driver |-> TRUE, cuda |-> <<>>, lib |-> TRUE, nvml |-> <<>>,
      drm |-> FALSE, cards |-> <<>>,
      adl |-> Adl(<<Adapter(0, 5, g2), Adapter(1, 6, g1)>>)],
     [platforms |-> <<>>, driver |-> FALSE, cuda |-> <<>>, lib |-> FALSE, nvml |-> <<>>,
      drm |-> TRUE, cards |-> <<>>,
      adl |-> Adl(<<>>)]}

MCNumber == "0" :> 0 @@ "1" :> 1 @@ "2" :> 2 @@ "8" :> 8 @@ "-33" :> -33

Pool(scheme, host, port, user, pass) ==
    [valid |-> TRUE, scheme |-> scheme, host |-> host, port |-> port, user |-> user, pass |-> pass, path |-> "/"]
MCUrl ==
    "stratum+tcp://a" :> Pool("stratum+tcp", "a", 4444, "ua", "pa")
    @@ "stratum1+ssl://b" :> Pool("stratum1+ssl", "b", 5555, "ub", "")
    @@ "http://c" :> Pool("http", "c", 80, "", "") @@ "ftp://d" :> Pool("ftp", "d", 21, "", "")
    @@ "h:1" :> Pool("", "h", 1, "", "") @@ "k:2" :> Pool("", "k", 2, "", "")
    @@ "exit:1" :> Pool("", "exit", 1, "", "") @@ "stratum://exit:1" :> Pool("stratum", "exit", 1, "", "")
    @@ "bad url" :> [Pool("", "", 0, "", "") EXCEPT !.valid = FALSE]
MCUserPass == "x:y" :> <<"x", "y">> @@ "z:" :> <<"z", "">>

PoolOptions ==
    {<<"-P", "stratum+tcp://a">>, <<"-P", "stratum1+ssl://b">>, <<"-P", "http://c">>, <<"-P", "exit">>,
     <<"-S", "h:1">>, <<"-F", "k:2">>, <<"-F", "h">>, <<"-FF", "k:2">>, <<"-SF", "exit">>,
     <<"-O", "x:y">>, <<"-FO", "z:">>, <<"-u", "x">>, <<"-fp", "w">>, <<"-o", "8">>, <<"--stratum-ssl", "1">>}
DeviceOptions ==
    {<<"-G">>, <<"-U">>, <<"-P", "stratum+tcp://a">>, <<"-t", "1">>, <<"--opencl-devices", "1">>,
     <<"--opencl-devices", "2", "0">>, <<"--cuda-devices", "1">>, <<"--cuda-devices", "1", "0">>,
     <<"--opencl-platform", "1">>, <<"-HWMON">>, <<"--cuda-devices", "2", "1", "0", "0", "0">>}
OtherOptions ==
    {<<"-P", "ftp://d">>, <<"-P", "bad url">>, <<"-S", "h">>, <<"-F", "bad url">>, <<"-SF", "h">>, <<"-O", "x">>,
     <<"-p", "w">>, <<"--user", "x">>, <<"--failover-port", "8">>, <<"--mining-threads", "-33">>,
     <<"-SP", "2">>, <<"--stratum-ssl">>, <<"--stratum-ssl", "2">>,
     <<"--farm-recheck", "8">>, <<"--farm-recheck", "x">>, <<"--cl-parallel-hash", "0">>, <<"--api-port", "-33">>,
     <<"--cl-local-work", "1">>, <<"--cl-global-work", "8">>, <<"--benchmark-trials", "0">>, <<"-t", "0">>,
     <<"--cuda-parallel-hash", "8">>, <<"--cuda-schedule", "yield">>, <<"--cuda-schedule", "x">>,
     <<"--cuda-streams", "1">>, <<"--cuda-streams", "x">>, <<"-L", "sequential">>, <<"-L", "single", "1">>,
     <<"-L", "x">>, <<"-L", "single">>, <<"-M">>, <<"-M", "8">>, <<"-Z">>, <<"-Z", "x">>, <<"-X">>,
     <<"--list-devices">>, <<"--exit">>, <<"-RH">>, <<"--cuda-noeval">>, <<"-SC", "2">>, <<"-SE", "x">>,
     <<"-HWMON", "1">>, <<"-v", "8">>, <<"-h">>, <<"x">>, <<"--opencl-devices">>}
Unfinished == {<<"-P">>, <<"--cuda-streams">>, <<"-t">>, <<"-v">>}

AllOptions == PoolOptions \cup DeviceOptions \cup OtherOptions
MCCommands ==
    {<<o>> : o \in AllOptions \cup Unfinished}
    \cup {<<a, b>> : a \in AllOptions, b \in PoolOptions \cup DeviceOptions \cup Unfinished}
    \cup {<<a, b, c>> : a, b, c \in PoolOptions}
    \cup {<<a, b, c, <<"-HWMON">>>> : a, b, c \in DeviceOptions}

MCDashed == ({o[1] : o \in AllOptions \cup Unfinished} \ {"x"}) \cup {"-33"}
=============================================================================
