----------------------------- MODULE CudaKernel -----------------------------
(***************************************************************************)
(* One block of the CUDA search kernel: what its threads load into the     *)
(* cache, what they exchange, and the slots of the result buffer they fill *)
(* and the host reads.  Lanes exchange registers by __shfl_sync, in lock   *)
(* step, so there is no local memory to race for (ClKernel has OpenCL's).  *)
(* A seed, 14 times keccak_f800 of a nonce, is named by the thread that    *)
(* computed it, a lane's part of a hash by its seed and lane.              *)
(***************************************************************************)
EXTENDS Integers, Sequences

CONSTANTS PROGPOW_LANES, PROGPOW_DAG_LOADS, PROGPOW_CACHE_WORDS,
          DigestWords,         \* 8
          SEARCH_RESULTS

Undefined == <<"undefined">>

\* configureGPU rounds the size of a block up to whole eights.
s_blockSize(_blockSize) == ((_blockSize + 7) \div 8) * 8

lane_id(t) == t % PROGPOW_LANES

\* __shfl_sync over groups of PROGPOW_LANES: what thread t gets of lane src.  A group that
\* the block does not fill has lanes that are not there.
shfl(reg, t, src) ==
    LET from == t - lane_id(t) + (src % PROGPOW_LANES)
    IN  IF from \in DOMAIN reg THEN reg[from] ELSE Undefined

\* The words of c_dag that thread t writes, each with the element of the DAG and the word
\* of it that it is given.
CacheWrites(t, blockDim) ==
    LET starts == {w \in 0 .. PROGPOW_CACHE_WORDS - 1 :
                      \E k \in 0 .. PROGPOW_CACHE_WORDS : w = PROGPOW_DAG_LOADS * (t + k * blockDim)}
    IN  {<<word + n, word \div PROGPOW_DAG_LOADS, n>> : word \in starts, n \in 0 .. PROGPOW_DAG_LOADS - 1}

c_dag(blockDim) == UNION {CacheWrites(t, blockDim) : t \in 0 .. blockDim - 1}

\* The digest thread t is left with, that of iteration h = lane_id: word j hashes the
\* parts of lanes j, j + 8, ... of the hash whose seed lane h shared.
digest(t, blockDim) ==
    LET threads == 0 .. blockDim - 1
        seed == [u \in threads |-> u]
        digest_lane == [u \in threads |-> <<shfl(seed, u, lane_id(t)), lane_id(u)>>]
    IN  [j \in 0 .. DigestWords - 1 |->
            [k \in 1 .. PROGPOW_LANES \div DigestWords |->
                shfl(digest_lane, t, DigestWords * (k - 1) + j)]]

\* g_output after the threads of `order' have come, in that order, to a result below the
\* target: each takes an index, and keeps its result if there is a slot.
g_output(order) ==
    [count  |-> Len(order),
     result |-> [index \in {n \in 0 .. Len(order) - 1 : n < SEARCH_RESULTS} |-> order[index + 1]]]

\* The slots CUDAMiner::search reads when the stream is done.
HostReads(buffer) ==
    {j \in 0 .. buffer.count - 1 : j < IF buffer.count > SEARCH_RESULTS THEN SEARCH_RESULTS ELSE buffer.count}
=============================================================================
