------------------------------ MODULE ClKernel ------------------------------
(***************************************************************************)
(* The local memory of one work-group of the OpenCL search kernel.  The    *)
(* work-group holds `groups' groups of PROGPOW_LANES items; the lanes of a *)
(* group compute one hash together and exchange values through share, an   *)
(* array of shuffle_t (PROGPOW_LANES words, then PROGPOW_LANES / 2 double  *)
(* words).  Each group runs in lock step (its lanes are in one wavefront); *)
(* groups only meet at the barriers.  The words that are exchanged are     *)
(* named <<what, group, h, l>> instead of computed.                        *)
(***************************************************************************)
EXTENDS Integers, SequencesExt

CONSTANTS PROGPOW_LANES, PROGPOW_CNT_DAG,
          LoadWords,           \* PROGPOW_DAG_LOADS
          PROGPOW_CACHE_WORDS, MAX_OUTPUTS,
          MaxGroups            \* bound on the groups of a work-group

\* shuffle_t holds half as many double words as lanes.
ASSUME KernelAssumption ==
    /\ {PROGPOW_LANES, PROGPOW_CNT_DAG, LoadWords, MaxGroups} \subseteq Nat \ {0}
    /\ PROGPOW_LANES % 2 = 0
    /\ {PROGPOW_CACHE_WORDS, MAX_OUTPUTS} \subseteq Nat

VARIABLES groups,
          at, after,           \* of a group: its step, the one behind a barrier
          hIter, loop,         \* of a group: the hash and the loop it is at
          share,               \* word of local memory -> what was last written
          c_dag,               \* words of the cache that are loaded
          got,                 \* of a group: what it read last
          found, g_output      \* atomic counter and slots of the result buffer
kernelVars == <<groups, at, after, hIter, loop, share, c_dag, got, found, g_output>>

Groups == 0..groups - 1
LaneIds == 0..PROGPOW_LANES - 1
GROUP_SIZE == groups * PROGPOW_LANES

(* Addresses, in words: share[k] takes 2 * PROGPOW_LANES of them.           *)
uint32s(k, n) == 2 * PROGPOW_LANES * k + n
uint64s(k, n) == 2 * PROGPOW_LANES * k + PROGPOW_LANES + 2 * n

\* Offsets packed as single words
OffsetWord_Packed(g) == PROGPOW_LANES + g

\* progPowLoop gets share[0].uint64s and indexes it by group
OffsetWord(g) == uint64s(0, g)

Write64(mem, a, v) == [mem EXCEPT ![a] = v, ![a + 1] = <<"high", v>>]

KernelInit == /\ groups \in 1..MaxGroups
              /\ at = [g \in Groups |-> "load"]
              /\ after = [g \in Groups |-> "load"]
              /\ hIter = [g \in Groups |-> 0]
              /\ loop = [g \in Groups |-> 0]
              /\ share = [a \in 0..2 * PROGPOW_LANES * groups - 1 |-> <<"none">>]
              /\ c_dag = {}
              /\ got = [g \in Groups |-> <<"none">>]
              /\ found = 0
              /\ g_output = <<>>

To(g, step) == at' = [at EXCEPT ![g] = step] /\ UNCHANGED after
ToBarrier(g, step) == /\ at' = [at EXCEPT ![g] = "barrier"]
                      /\ after' = [after EXCEPT ![g] = step]

\* All items of the work-group have arrived
Barrier == /\ \A g \in Groups : at[g] = "barrier"
           /\ at' = after
           /\ UNCHANGED <<groups, after, hIter, loop, share, c_dag, got, found, g_output>>

\* The words an item copies from the DAG into the cache
CacheWords(lid) ==
    {w \in 0..PROGPOW_CACHE_WORDS - 1 :
        (w \div LoadWords) % GROUP_SIZE = lid}

LoadCache(g) ==
    /\ at[g] = "load"
    /\ c_dag' = c_dag \cup
                UNION {CacheWords(PROGPOW_LANES * g + n) : n \in LaneIds}
    /\ ToBarrier(g, "seed")
    /\ UNCHANGED <<groups, hIter, loop, share, got, found, g_output>>

\* if (lane_id == h) share[group_id].uint64s[0] = seed
WriteSeed(g) ==
    /\ at[g] = "seed"
    /\ share' = Write64(share, uint64s(g, 0), <<"seed", g, hIter[g]>>)
    /\ ToBarrier(g, "fill")
    /\ UNCHANGED <<groups, hIter, loop, c_dag, got, found, g_output>>

\* hash_seed, from which all lanes fill their mix
ReadSeed(g) ==
    /\ at[g] = "fill"
    /\ got' = [got EXCEPT ![g] = share[uint64s(g, 0)]]
    /\ loop' = [loop EXCEPT ![g] = 0]
    /\ To(g, "offset")
    /\ UNCHANGED <<groups, hIter, share, c_dag, found, g_output>>

\* progPowLoop: if (lane_id == loop % LANES) share[group_id] = mix[0]
WriteOffset(g) ==
    /\ at[g] = "offset"
    /\ share' = Write64(share, OffsetWord(g), <<"offset", g, hIter[g], loop[g]>>)
    /\ ToBarrier(g, "loop")
    /\ UNCHANGED <<groups, hIter, loop, c_dag, got, found, g_output>>

\* offset = share[group_id], the DAG and cache loads, the math and merges
ReadOffset(g) ==
    /\ at[g] = "loop"
    /\ got' = [got EXCEPT ![g] = share[OffsetWord(g)]]
    /\ loop' = [loop EXCEPT ![g] = @ + 1]
    /\ To(g, IF loop'[g] < PROGPOW_CNT_DAG THEN "offset" ELSE "digest")
    /\ UNCHANGED <<groups, hIter, share, c_dag, found, g_output>>

\* share[group_id].uint32s[lane_id] = mix_hash, by every lane
WriteDigest(g) ==
    /\ at[g] = "digest"
    /\ share' = [a \in DOMAIN share |->
                    LET n == a - uint32s(g, 0)
                    IN IF n \in LaneIds THEN <<"digest", g, hIter[g], n>> ELSE share[a]]
    /\ ToBarrier(g, "reduce")
    /\ UNCHANGED <<groups, hIter, loop, c_dag, got, found, g_output>>

Reduce(g) ==
    /\ at[g] = "reduce"
    /\ got' = [got EXCEPT ![g] = [n \in LaneIds |-> share[uint32s(g, n)]]]
    /\ hIter' = [hIter EXCEPT ![g] = @ + 1]
    /\ To(g, IF hIter'[g] < PROGPOW_LANES THEN "seed" ELSE "report")
    /\ UNCHANGED <<groups, loop, share, c_dag, found, g_output>>

\* The items below the target take slots, in any order; an item that finds
\* none left has counted and loses its result.
WriteResults(g) ==
    /\ at[g] = "report"
    /\ \E below \in SUBSET LaneIds : \E order \in SetToSeqs(below) :
          /\ found' = found + Len(order)
          /\ g_output' = SubSeq(g_output \o [k \in DOMAIN order |-> PROGPOW_LANES * g + order[k]],
                                1, IF found' < MAX_OUTPUTS THEN found' ELSE MAX_OUTPUTS)
    /\ To(g, "end")
    /\ UNCHANGED <<groups, hIter, loop, share, c_dag, got>>

KernelEnd == /\ \A g \in Groups : at[g] = "end"
             /\ UNCHANGED kernelVars

KernelNext == \/ Barrier
              \/ \E g \in Groups : \/ LoadCache(g) \/ WriteSeed(g) \/ ReadSeed(g)
                                   \/ WriteOffset(g) \/ ReadOffset(g)
                                   \/ WriteDigest(g) \/ Reduce(g) \/ WriteResults(g)
              \/ KernelEnd

KernelSpec == KernelInit /\ [][KernelNext]_kernelVars
-----------------------------------------------------------------------------
\* What a group reads from local memory is what its own lanes wrote for this
\* hash and this loop: the digest always; the offset of a DAG load as long as
\* the offsets of all groups fit share[0], that is for at most
\* PROGPOW_LANES / 2 groups; the seed for at most PROGPOW_LANES.  Past the
\* first bound the offsets lie on the digests of group 1, past the second on
\* its seed, and a wavefront that is ahead overwrites what one that is not has
\* yet to read.
SharedMemoryIsOwn ==
    \A g \in Groups :
        /\ at[g] = "offset" /\ loop[g] = 0 /\ groups <= PROGPOW_LANES
              => got[g] = <<"seed", g, hIter[g]>>
        /\ at[g] \in {"offset", "digest"} /\ loop[g] > 0 /\ groups <= PROGPOW_LANES \div 2
              => got[g] = <<"offset", g, hIter[g], loop[g] - 1>>
        /\ at[g] \in {"seed", "report"} /\ hIter[g] > 0
              => got[g] = [n \in LaneIds |-> <<"digest", g, hIter[g] - 1, n>>]
        /\ at[g] \notin {"load", "barrier"} => c_dag = 0..PROGPOW_CACHE_WORDS - 1
=============================================================================
