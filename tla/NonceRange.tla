----------------------------- MODULE NonceRange -----------------------------
(***************************************************************************)
(* Which nonces the miners of a farm try, and which nonce a share stands   *)
(* for.  Composes processExtranonce, mining.notify and submitSolution of   *)
(* EthStratumClient with the start nonces of CLMiner, CUDAMiner and        *)
(* Miner::get_start_nonce.  What happens inside one search is the subject  *)
(* of ClMiner and CudaMiner.                                               *)
(*                                                                         *)
(* A nonce is a number of Digits digits (16 hexadecimal ones in the code). *)
(***************************************************************************)
EXTENDS CudaNonces, FiniteSets

CONSTANTS
    Sealers,        \* the kinds of miner: a subset of {"cuda", "opencl"}
    NumMiners,
    Digit, Digits,  \* values of a digit, digits of a nonce
    MaxMiners,      \* MAX_MINERS
    Sizes,          \* lengths of the extranonces the pool assigns
    Scramblers,     \* values of m_nonce_scrambler
    Stride,         \* 2^40
    MaxJobs,        \* bound: jobs the pool sends
    MaxBatches      \* bound: batches a miner tries of one job

Miners == 0 .. NumMiners - 1

ASSUME RangeAssumption ==
    /\ Sealers \subseteq {"cuda", "opencl"}
    /\ NumMiners \in 1 .. MaxMiners
    /\ {Digits, MaxJobs, MaxBatches, Stride, MaxMiners} \subseteq Nat \ {0}
    /\ Digit ^ Digits = Space
    /\ Sizes \subseteq 1 .. Digits /\ Scramblers \subseteq 0 .. Space - 1
    /\ \A k \in Sizes : Word % (MaxMiners * Digit ^ k) = 0    \* the shift is not negative

\* Digits of a nonce before and behind an extranonce.
ASSUME DigitAssumption == \A k \in Sizes :
    /\ {Digit ^ k, Digit ^ (Digits - k)} \subseteq Nat \ {0}
    /\ Digit ^ k * Digit ^ (Digits - k) = Space

\* The widths of the code: a uint32_t and a batch of them fit below the device bits, and
\* all miners' strides into 64 bits.  What a miner tries of one job fits into its stride,
\* and into what an extranonce leaves behind the slices: a new job comes before that.
ASSUME WidthAssumption ==
    /\ max_nonce + Batch <= Low /\ MaxMiners * Stride <= Space
    /\ MaxBatches * Batch <= Stride
    /\ \A k \in Sizes : Word \div Digit ^ k + MaxBatches * Batch <= Digit ^ (Digits - k)

VARIABLES
    sealer, m_nonce_scrambler,      \* fixed when the program starts
    extra,          \* m_extraNonce and m_extraNonceHexSize; NoExtra stands for a pool
                    \* that assigns none, and for exSizeBits = -1 in a package
    m_work,         \* the farm's package: its job and the extranonce it carries
    current,        \* of each miner: the package it searches
    m_current_nonce,    \* of each miner: its nonce counter
    tried,          \* of each miner: the first nonces of the batches of that job
    share           \* the last share: its job's extranonce, its nonce, what was sent

config == <<sealer, m_nonce_scrambler>>
nonceVars == <<config, extra, m_work, current, m_current_nonce, tried, share>>

Nonces == 0 .. Space - 1
ExtraNonces == UNION {[size : {k}, value : 0 .. Digit ^ k - 1] : k \in Sizes}
NoExtra == [size |-> 0, value |-> 0]
NoShare == [extra |-> NoExtra, nonce |-> 0, size |-> 0, sent |-> 0]

NonceTypeOK ==
    /\ sealer \in Sealers /\ m_nonce_scrambler \in Scramblers
    /\ extra \in ExtraNonces \cup {NoExtra}
    /\ m_work \in [job : 0 .. MaxJobs, extra : ExtraNonces \cup {NoExtra}]
    /\ current \in [Miners -> [job : 0 .. MaxJobs, extra : ExtraNonces \cup {NoExtra}]]
    /\ m_current_nonce \in [Miners -> Nonces]
    /\ tried \in [Miners -> SUBSET Nonces]
    /\ share \in [extra : ExtraNonces \cup {NoExtra}, nonce : Nonces,
                  size : 0 .. Digits, sent : Nonces]

NoJob == [job |-> 0, extra |-> NoExtra]

NonceInit ==
    /\ sealer \in Sealers /\ m_nonce_scrambler \in Scramblers
    /\ extra = NoExtra /\ m_work = NoJob
    /\ current = [i \in Miners |-> NoJob]
    /\ m_current_nonce = [i \in Miners |-> 0]
    /\ tried = [i \in Miners |-> {}]
    /\ share = NoShare

\* processExtranonce, under EthereumStratum: at mining.subscribe and at mining.set_extranonce.
ProcessExtranonce(x) ==
    /\ extra # x
    /\ extra' = x
    /\ UNCHANGED <<config, m_work, current, m_current_nonce, tried, share>>

\* mining.notify: the job takes the extranonce there is.
Notify ==
    /\ m_work.job < MaxJobs
    /\ m_work' = [job |-> m_work.job + 1, extra |-> extra]
    /\ UNCHANGED <<config, extra, current, m_current_nonce, tried, share>>

\* Mutant: the extranonce is padded one digit too far.
startNonce_TooFar(x) == x.value * Digit ^ (Digits - x.size + 1)

\* WorkPackage::startNonce: the extranonce in the first digits.
startNonce(x) == x.value * Digit ^ (Digits - x.size)

\* index << (32 - LOG2_MAX_MINERS - exSizeBits)
Slice(i, x) == i * (Word \div (MaxMiners * Digit ^ x.size))

\* Mutant: every miner starts at the same place.
get_start_nonce_SameForAll(i) == m_nonce_scrambler

get_start_nonce(i) == (m_nonce_scrambler + i * Stride) % Space

\* Mutant: the extranonce stays in the last digits.
FirstNonce_NotPadded(i, x) ==
    IF x = NoExtra THEN get_start_nonce(i)
    ELSE IF sealer = "opencl" THEN x.value + Slice(i, x)
    ELSE (x.value + Slice(i, x)) % Word

\* Where a miner starts with a job; CUDAMiner keeps the result in a uint32_t.
FirstNonce(i, x) ==
    IF x = NoExtra THEN get_start_nonce(i)
    ELSE IF sealer = "opencl" THEN startNonce(x) + Slice(i, x)
    ELSE (startNonce(x) + Slice(i, x)) % Word

\* CUDAMiner::search takes an assigned start nonce of 0 for the one it has.
KeepsCounter(i, x) == sealer = "cuda" /\ x # NoExtra /\ FirstNonce(i, x) = 0

\* A miner turns to the farm's package.
SwitchWork(i) ==
    /\ current[i] # m_work
    /\ current' = [current EXCEPT ![i] = m_work]
    /\ m_current_nonce' = [m_current_nonce EXCEPT ![i] =
                              IF KeepsCounter(i, m_work.extra) THEN @
                              ELSE FirstNonce(i, m_work.extra)]
    /\ tried' = [tried EXCEPT ![i] = {}]
    /\ UNCHANGED <<config, extra, m_work, share>>

\* The nonce a thread of a kernel hashes: progpow_search of the CUDA miner drops what
\* is above the device bits.
KernelNonce(first, gid) ==
    IF sealer = "opencl" THEN (first + gid) % Space ELSE (first % (Low * Devs)) + gid

\* A kernel tries the next batch: CLMiner steps after it, CUDAMiner before it.
Search(i) ==
    LET next == IF sealer = "opencl" THEN (m_current_nonce[i] + Batch) % Space
                ELSE NextNonce(m_current_nonce[i], i)
        first == IF sealer = "opencl" THEN m_current_nonce[i] ELSE next
    IN  /\ current[i].job # 0 /\ Cardinality(tried[i]) < MaxBatches
        /\ tried' = [tried EXCEPT ![i] = @ \cup {first}]
        /\ m_current_nonce' = [m_current_nonce EXCEPT ![i] = next]
        /\ UNCHANGED <<config, extra, m_work, current, share>>

\* nonceHex.substr(m_extraNonceHexSize, 16 - m_extraNonceHexSize)
SentDigits == Digits - extra.size

\* A miner found a nonce of a batch, and submitSolution sends it.
SubmitSolution(i, first, offset) ==
    LET hit == (first + offset) % Space
    IN  /\ share' = [extra |-> current[i].extra, nonce |-> hit,
                     size |-> SentDigits, sent |-> hit % Digit ^ SentDigits]
        /\ UNCHANGED <<config, extra, m_work, current, m_current_nonce, tried>>

NonceNext ==
    \/ \E x \in ExtraNonces : ProcessExtranonce(x)
    \/ Notify
    \/ \E i \in Miners : SwitchWork(i)
    \/ \E i \in Miners : Search(i)
    \/ \E i \in Miners : \E first \in tried[i], offset \in 0 .. Batch - 1 :
          SubmitSolution(i, first, offset)

NonceSpec == NonceInit /\ [][NonceNext]_nonceVars

-----------------------------------------------------------------------------
(* Properties.                                                             *)

\* The nonces the kernels of a miner have hashed.
Covered(i) == {KernelNonce(first, offset) : first \in tried[i], offset \in 0 .. Batch - 1}

Disjoint(i, j) == current[i] = current[j] => Covered(i) \cap Covered(j) = {}

\* No nonce of a job without an extranonce is tried by two miners (get_start_nonce,
\* and the device bits of CUDAMiner::search, which is all its kernel keeps of it).
NoNonceTwice ==
    \A i, j \in Miners : i # j /\ current[i].extra = NoExtra => Disjoint(i, j)

\* "This can support up to 2^c_log2MaxMiners devices" (CLMiner.cpp:334): with an
\* extranonce of the pool no nonce is tried by two OpenCL miners either.
SlicesAreDisjoint == sealer = "opencl" => \A i, j \in Miners : i # j => Disjoint(i, j)

\* The pool puts the extranonce of the job before the digits it is sent: for OpenCL
\* miners and extranonces of one length, that is the nonce the miner tried
\* (submitSolution, and the start nonces of the miners).
ShareIsWhatWasTried ==
    sealer = "opencl" /\ share.extra # NoExtra =>
        /\ share.size = Digits - share.extra.size
        /\ startNonce(share.extra) + share.sent = share.nonce
=============================================================================
