----------------------------- MODULE CudaMiner ------------------------------
(***************************************************************************)
(* CUDAMiner::workLoop and CUDAMiner::search (libethash-cuda/CUDAMiner.cpp)*)
(* against Miner::setWork (libethcore/Miner.h): the farm replaces the work *)
(* and kicks the miner while kernels for the old work are still in flight  *)
(* on the GPU's streams.                                                   *)
(*                                                                         *)
(* A header stands for everything a package fixes with it (epoch, height,  *)
(* boundary).  The nonces are those of CudaNonces; kernels ignore what is  *)
(* above the device bits.                                                  *)
(***************************************************************************)
EXTENDS CudaNonces, Functions

CONSTANTS
    Headers,        \* block headers the pool hands out
    Starts,         \* values of WorkPackage::startNonce
    NumStreams,     \* s_numStreams
    Device,         \* m_device_num
    StartNonce,     \* get_start_nonce(): the farm's scrambler and the index
    Slice,          \* index << (32 - LOG2_MAX_MINERS - exSizeBits)
    NoHeader,       \* h256(): no work yet
    One             \* h256{1u}: workLoop's header before the first work

ASSUME StreamsAssumption == NumStreams \in Nat \ {0}
ASSUME HeaderAssumption == NoHeader \notin Headers /\ One \notin Headers \cup {NoHeader}
\* A batch fits between max_nonce and the device bits, and what is in flight does not
\* go round: with the defaults two batches of 2^19 nonces against max_nonce = 2^32 - 1.
ASSUME PipelineAssumption ==
    /\ max_nonce + Batch < Low
    /\ NumStreams * Batch <= max_nonce
ASSUME StartAssumption ==
    /\ Slice \in Nat /\ Device \in Nat
    /\ StartNonce \in 0 .. Space - 1 /\ Starts \subseteq Nat

VARIABLES
    m_work,             \* the package the farm set last
    m_new_work,         \* the kick
    setter,             \* the farm's thread: between the store and the kick?
    stopping,           \* Worker::shouldStop()
    pc,                 \* where the miner's thread is
    w, current,         \* workLoop's local copies
    m_current_header, m_starting_nonce, m_current_nonce, m_current_index,
    streams,            \* the batch in flight on each stream
    found               \* the result read from a stream, about to be submitted

farmVars == <<m_work, m_new_work, setter, stopping>>
searchVars == <<m_current_header, m_starting_nonce, m_current_nonce,
                m_current_index, streams>>
vars == <<farmVars, pc, w, current, searchVars, found>>

\* Pools of both kinds may take turns: assigned is exSizeBits >= 0, the pool of
\* this package assigns the start nonce.
Work == [header : Headers, startNonce : Starts, assigned : BOOLEAN]
NoWork == [header |-> NoHeader, startNonce |-> 0, assigned |-> FALSE]
NoCurrent == [header |-> One, startNonce |-> 0, assigned |-> FALSE]

StreamIds == 0 .. NumStreams - 1
Flight == [header : Headers, base : 0 .. Low * Devs - 1]
Idle == [header |-> NoHeader, base |-> 0]
Found == [header : Headers, base : 0 .. Low * Devs - 1, nonce : 0 .. Space - 1]
Nothing == [header |-> NoHeader, base |-> 0, nonce |-> 0]

Searching == pc \in {"launch", "submit", "check"}

TypeOK ==
    /\ m_work \in Work \cup {NoWork} /\ w \in Work \cup {NoWork}
    /\ current \in Work \cup {NoCurrent}
    /\ m_new_work \in BOOLEAN /\ stopping \in BOOLEAN
    /\ setter \in {"idle", "kick"}
    /\ pc \in {"take", "decide", "launch", "submit", "check", "done"}
    /\ m_current_header \in Headers \cup {NoHeader}
    /\ m_starting_nonce \in 0 .. Word - 1
    /\ m_current_nonce \in 0 .. Space - 1
    /\ m_current_index \in 0 .. 2 * NumStreams - 1
    /\ streams \in [StreamIds -> Flight \cup {Idle}]
    /\ found \in Found \cup {Nothing}

Init ==
    /\ m_work = NoWork /\ w = NoWork /\ current = NoCurrent
    /\ m_new_work = FALSE /\ stopping = FALSE /\ setter = "idle"
    /\ pc = "take"
    /\ m_current_header = NoHeader
    /\ m_starting_nonce = 0 /\ m_current_nonce = 0 /\ m_current_index = 0
    /\ streams = [s \in StreamIds |-> Idle]
    /\ found = Nothing

-----------------------------------------------------------------------------
(* The farm's threads.                                                     *)

\* Miner::setWork, under x_work.  Farm::setWork drops an unchanged package.
SetWork(p) ==
    /\ setter = "idle" /\ p # m_work
    /\ m_work' = p
    /\ setter' = "kick"
    /\ UNCHANGED <<m_new_work, stopping, pc, w, current, searchVars, found>>

\* Mutant: kick_miner does nothing (what CLMiner::kick_miner does).
Kick_Empty ==
    /\ setter = "kick"
    /\ setter' = "idle"
    /\ UNCHANGED <<m_work, m_new_work, stopping, pc, w, current, searchVars, found>>

\* kick_miner(), after x_work is released.
Kick ==
    /\ setter = "kick"
    /\ m_new_work' = TRUE
    /\ setter' = "idle"
    /\ UNCHANGED <<m_work, stopping, pc, w, current, searchVars, found>>

\* stopWorking() is called on the miner.
Stop ==
    /\ ~stopping
    /\ stopping' = TRUE
    /\ UNCHANGED <<m_work, m_new_work, setter, pc, w, current, searchVars, found>>

-----------------------------------------------------------------------------
(* The miner's thread.                                                     *)

\* The test of workLoop, and the local copy of the work.
TakeWork ==
    /\ pc = "take"
    /\ \/ stopping /\ pc' = "done" /\ UNCHANGED w
       \/ ~stopping /\ pc' = "decide" /\ w' = m_work
    /\ UNCHANGED <<farmVars, current, searchVars, found>>

\* No work yet: look again.
SkipNoWork ==
    /\ pc = "decide" /\ w.header = NoHeader
    /\ pc' = "take"
    /\ UNCHANGED <<farmVars, w, current, searchVars, found>>

\* init() of a new epoch fails: workLoop ends.
InitFails ==
    /\ pc = "decide" /\ w.header \notin {current.header, NoHeader}
    /\ pc' = "done"
    /\ UNCHANGED <<farmVars, w, current, searchVars, found>>

\* Mutant: the start nonce is not reduced to 32 bits.
StartN_Wide(p) == p.startNonce + Slice

\* uint32_t startN = startNonce | index << ...
StartN(p) == (p.startNonce + Slice) % Word

\* Mutant: the results in flight survive a change of header.
BeginSearch_KeepsStreams(p) ==
    /\ m_current_header' = p.header
    /\ m_current_nonce' = IF m_current_header # p.header THEN StartNonce ELSE m_current_nonce
    /\ UNCHANGED <<m_current_index, streams, m_starting_nonce>>

\* The opening of search(): a new header drops what is in flight.
BeginSearch(p) ==
    LET initialize == m_current_header # p.header
        starting == IF initialize /\ p.assigned THEN 0 ELSE m_starting_nonce
        restart == p.assigned /\ starting # StartN(p)
    IN  /\ m_current_header' = p.header
        /\ m_current_index' = IF initialize THEN 0 ELSE m_current_index
        /\ streams' = IF initialize THEN [s \in StreamIds |-> Idle] ELSE streams
        /\ m_starting_nonce' = IF restart THEN StartN(p) ELSE starting
        /\ m_current_nonce' = IF restart THEN StartN(p)
                              ELSE IF initialize /\ ~p.assigned THEN StartNonce
                              ELSE m_current_nonce

\* workLoop adopts a package with a new header and searches what it adopted.
AdoptWork ==
    /\ pc = "decide" /\ w.header # NoHeader
    /\ current' = IF w.header # current.header THEN w ELSE current
    /\ BeginSearch(current')
    /\ pc' = "launch"
    /\ UNCHANGED <<farmVars, w, found>>

\* m_current_index, folded so that its residue and the test
\* m_current_index >= s_numStreams are kept.
NextIndex(i) == IF i + 1 = 2 * NumStreams THEN NumStreams ELSE i + 1

\* Mutant: the pipeline is taken to be one batch shorter.
NonceBase_OffByOne(n) == (n - (NumStreams - 1) * Batch) % Space

\* nonce_base: where the batch now read is taken to have started.
NonceBase(n) == (n - NumStreams * Batch) % Space

\* progpow_search: "Forcibly truncate nonce" to 40 bits.
KernelNonce(n) == n % (Low * Devs)

\* One turn of the search loop up to the launch: read the stream's previous
\* batch, whose kernel may have found a nonce, and launch the next one.
Launch ==
    LET i == NextIndex(m_current_index)
        n == NextNonce(m_current_nonce, Device)
        s == i % NumStreams
        read == streams[s]
    IN  /\ pc = "launch"
        /\ m_current_index' = i
        /\ m_current_nonce' = n
        /\ streams' = [streams EXCEPT ![s] = [header |-> m_current_header,
                                               base |-> KernelNonce(n)]]
        /\ \/ found' = Nothing
           \/ /\ i >= NumStreams /\ read # Idle
              /\ found' = [header |-> read.header, base |-> read.base,
                           nonce |-> NonceBase(n)]
        /\ pc' = IF i >= NumStreams THEN "submit" ELSE "launch"
        /\ UNCHANGED <<farmVars, w, current, m_current_header, m_starting_nonce>>

\* farm.submitProof or failedSolution for what was found, then addHashCount.
Submit ==
    /\ pc = "submit"
    /\ found' = Nothing
    /\ pc' = "check"
    /\ UNCHANGED <<farmVars, w, current, searchVars>>

\* Mutant: the search only ends for new work.
CheckNewWork_IgnoresStop ==
    /\ pc = "check"
    /\ m_new_work' = FALSE
    /\ pc' = IF m_new_work THEN "take" ELSE "launch"
    /\ UNCHANGED <<m_work, setter, stopping, w, current, searchVars, found>>

\* The end of a turn: new work, a stop, or the next batch.
CheckNewWork ==
    /\ pc = "check"
    /\ m_new_work' = FALSE
    /\ pc' = IF m_new_work \/ stopping THEN "take" ELSE "launch"
    /\ UNCHANGED <<m_work, setter, stopping, w, current, searchVars, found>>

-----------------------------------------------------------------------------
Miner == TakeWork \/ SkipNoWork \/ InitFails \/ AdoptWork \/ Launch \/ Submit \/ CheckNewWork

\* workLoop has ended.
Ended == pc = "done" /\ UNCHANGED vars

Next == (\E p \in Work : SetWork(p)) \/ Kick \/ Stop \/ Miner \/ Ended

\* The miner's thread and the farm's thread inside setWork are scheduled; the
\* pool need not send work and nobody need stop the miner.
Fairness == WF_vars(Miner) /\ WF_vars(Kick)

Spec == Init /\ [][Next]_vars /\ Fairness

-----------------------------------------------------------------------------
(* Properties.                                                             *)

\* search() submits what it reads from a stream under the package w: the kernel
\* that produced it hashed w's header, however the work changed since its launch.
SolutionsBelongToWork == found # Nothing => found.header = w.header

\* While a miner searches without a kick pending, it searches the farm's
\* latest package, unless setWork is between its store and its kick.
KickIsNotLost ==
    Searching /\ ~m_new_work /\ setter = "idle" => w = m_work

\* The nonce a result is reported with, nonce_base + gid, is the nonce the kernel
\* tried in the bits the kernel looks at, as long as the counter has not wrapped
\* since the launch.
NoncesAttributed ==
    found # Nothing /\ KernelNonce(m_current_nonce) > found.base
        => KernelNonce(found.nonce) = found.base

\* What is in flight for the work the miner looks at, and what it hands in of it.
Unread == {[header |-> f.header, nonce |-> f.base] :
              f \in {b \in Range(streams) : b # Idle /\ b.header = w.header}}
Reported == IF found = Nothing THEN [header |-> NoHeader, nonce |-> 0]
            ELSE [header |-> w.header, nonce |-> found.base]

Service == INSTANCE MinerService WITH
    Nonces <- 0 .. Low * Devs - 1,
    work <- m_work.header, mined <- w.header, found <- Unread, report <- Reported,
    ended <- pc = "done"

\* workLoop and search are a miner as the farm needs it: the work set last is looked
\* at, what is submitted was in flight for the work it is submitted under, and is
\* submitted once, and a stop ends the miner. (The nonce is the kernel's own.)
ImplementsService == Service!Spec
=============================================================================
