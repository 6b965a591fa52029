------------------------------- MODULE Ethash -------------------------------
(***************************************************************************)
(* Ethash: the sizes of an epoch's cache and DAG (data_sizes.h), the cache *)
(* and the CPU's item and hash (internal.c), and the two GPU generators of *)
(* the DAG: the OpenCL kernel run in slices of the global work size, and   *)
(* the CUDA kernel whose threads work in quads and exchange registers by   *)
(* warp shuffles.  Words are integers modulo Word (2^32 in the code), a    *)
(* node has NODE_WORDS of them in four chunks (the uint4s), and the Keccak *)
(* hashes of nodes are parameters.                                         *)
(***************************************************************************)
EXTENDS Integers, SequencesExt, Bitwise

CONSTANTS Word,                    \* number of values of a word
          NODE_WORDS,              \* words of a node, a multiple of 4
          ETHASH_CACHE_ROUNDS, ETHASH_DATASET_PARENTS, ETHASH_ACCESSES,
          NodesOfUInt,             \* nodes whose bytes an unsigned int counts
          Sha512(_),               \* SHA3_512 of a node
          Sha256(_)                \* SHA3_256 of a sequence of values

FNV_PRIME == 16777619
MIX_NODES == 2
Words == 0..NODE_WORDS - 1
Chunk(w) == w \div (NODE_WORDS \div 4)
Steps(n) == [i \in 1..n |-> i - 1]
Ungenerated == -1

\* f, computed once
Tabulate(f) == f @@ <<>>

fnv_hash(x, y) == ((x * FNV_PRIME) % Word) ^^ (y % Word)

-----------------------------------------------------------------------------
(* Sizes, in pages of ETHASH_MIX_BYTES (DAG) and nodes of ETHASH_HASH_BYTES *)
(* (cache): the entries of the tables for some of the 2048 epochs.          *)

dag_sizes ==
    0 :> 8388593 @@ 1 :> 8454143 @@ 2 :> 8519647 @@ 63 :> 12517339 @@ 127 :> 16711661
    @@ 255 :> 25100287 @@ 383 :> 33488891 @@ 384 :> 33554393 @@ 385 :> 33619919
    @@ 767 :> 58654711 @@ 1023 :> 75431903 @@ 1024 :> 75497467 @@ 1535 :> 108986357
    @@ 2046 :> 142475261 @@ 2047 :> 142540787

cache_sizes ==
    0 :> 262139 @@ 1 :> 264179 @@ 2 :> 266239 @@ 63 :> 391163 @@ 127 :> 522239
    @@ 255 :> 784379 @@ 383 :> 1046527 @@ 384 :> 1048573 @@ 385 :> 1050611
    @@ 767 :> 1832947 @@ 1023 :> 2357231 @@ 1024 :> 2359267 @@ 1535 :> 3405823
    @@ 2046 :> 4452347 @@ 2047 :> 4454399

\* The rule the tables say they were generated by: the largest prime up to a bound
IsPrime(n) == \A d \in 2..12000 : d * d <= n => n % d # 0
LargestPrime(n) == Max({p \in (n - 400)..n : IsPrime(p)})

Tabulated(epoch) == epoch < 2048

\* dagElms rounded up
dagElms_Up(pages) == (pages + 1) \div 2

\* the elements of LANES * DAG_LOADS words (256 bytes: two pages) that the
\* search kernels address, both miners computing it from the data size
dagElms(pages) == pages \div 2

-----------------------------------------------------------------------------
(* The cache and an item of the data set, as the CPU computes them.         *)

ethash_compute_cache_nodes(n, seed) ==
    LET chain == FoldLeft(LAMBDA c, i : Append(c, Sha512(c[i + 1])),
                          <<Sha512(seed)>>, Steps(n - 1))
        Round(c, k) ==
            LET i == k % n
                a == c[(n - 1 + i) % n]
                b == c[c[i][0] % n]
            IN Tabulate([c EXCEPT ![i] = Sha512([w \in Words |-> a[w] ^^ b[w]])])
    IN FoldLeft(Round, [i \in 0..n - 1 |-> chain[i + 1]],
                Steps(ETHASH_CACHE_ROUNDS * n))

FirstMix(cache, n) ==
    Sha512([cache[n % Cardinality(DOMAIN cache)] EXCEPT
               ![0] = @ ^^ (n % Word)])

ParentIndex(cache, n, i, node) ==
    fnv_hash(n ^^ i, node[i % NODE_WORDS]) % Cardinality(DOMAIN cache)

ethash_calculate_dag_item(cache, n) ==
    LET Parent(node, i) ==
            LET parent == cache[ParentIndex(cache, n, i, node)]
            IN Tabulate([w \in Words |-> fnv_hash(node[w], parent[w])])
    IN Sha512(FoldLeft(Parent, FirstMix(cache, n),
                       Steps(ETHASH_DATASET_PARENTS)))

\* One hash of a header and a nonce over the items Item[n]: each access
\* folds one page of MIX_NODES items into the mix, the page's index taken
\* from the mix as it is then; `read' collects the items it asked for.
ethash_hash(Item, pages, header, nonce) ==
    LET s == Sha512([w \in Words |-> (header + w * nonce) % Word])
        At(mix, w) == mix[w \div NODE_WORDS][w % NODE_WORDS]
        Access(st, i) ==
            LET page == fnv_hash(s[0] ^^ i,
                                 At(st.mix, i % (MIX_NODES * NODE_WORDS))) % pages
                item == [n \in 0..MIX_NODES - 1 |-> Item[MIX_NODES * page + n]]
            IN [mix  |-> Tabulate([n \in DOMAIN item |->
                            Tabulate([w \in Words |-> fnv_hash(st.mix[n][w], item[n][w])])]),
                read |-> st.read \cup {MIX_NODES * page + n : n \in DOMAIN item}]
        last == FoldLeft(Access, [mix  |-> [n \in 0..MIX_NODES - 1 |-> s],
                                  read |-> {}], Steps(ETHASH_ACCESSES))
        Compressed(g) == FoldLeft(LAMBDA r, k : fnv_hash(r, At(last.mix, 4 * g + k)),
                                  At(last.mix, 4 * g), <<1, 2, 3>>)
        mixHash == [g \in 0..(MIX_NODES * NODE_WORDS) \div 4 - 1 |-> Compressed(g)]
    IN [mixHash |-> mixHash, value |-> Sha256(<<s, mixHash>>), read |-> last.read]

ethash_get_seedhash(epoch, zero) ==
    FoldLeft(LAMBDA s, k : Sha256(<<s>>), zero, Steps(epoch))

\* EthashAux::toEpoch: the epoch whose seed hash this is; 2048 throws
toEpoch(seed, zero, bound) ==
    LET epochs == {e \in 0..bound - 1 : ethash_get_seedhash(e, zero) = seed}
    IN IF epochs = {} THEN bound ELSE Min(epochs)

-----------------------------------------------------------------------------
(* The two GPU generators.  Both are launched Runs times over a grid of     *)
(* threads, each thread taking one node.                                    *)

Runs(nodes, grid) == nodes \div grid + (IF nodes % grid > 0 THEN 1 ELSE 0)

\* OpenCL: PROGPOW_DAG_BYTES is printed as an unsigned int, so the kernel
\* compares with the data size modulo 2^32.
cl_dag(cache, nodes, globalWorkSize) ==
    [n \in 0..nodes - 1 |->
        IF n < Runs(nodes, globalWorkSize) * globalWorkSize
           /\ n < nodes % NodesOfUInt
        THEN ethash_calculate_dag_item(cache, n) ELSE Ungenerated]

\* A quad whose lanes past the last node return on their own
QuadLanes_Unrounded(nodes, threads, base, quad) ==
    {t \in 0..3 : 4 * quad + t < threads /\ base + 4 * quad + t < nodes}

\* The lanes of a quad that are there and did not return: the block has
\* `threads' threads and starts at node `base'.
QuadLanes(nodes, threads, base, quad) ==
    LET rounded == ((nodes + 3) \div 4) * 4
    IN {t \in 0..3 : 4 * quad + t < threads /\ base + 4 * quad + t < rounded}

\* __shfl_sync(reg, lane, 4): the register of a lane that has left is
\* undefined, here 0
Shfl(reg, lane) == IF lane \in DOMAIN reg THEN reg[lane] ELSE 0

\* The nodes of one quad, as a function of the lane: lane t's parent is
\* fetched by the four lanes together, lane c loading chunk c.
QuadNodes(cache, first, lanes) ==
    LET Parent(nodes, i) ==
            LET parent == [t \in lanes |-> ParentIndex(cache, first + t, i, nodes[t])]
                Load(t) == [c \in lanes |-> cache[Shfl(parent, t)]]
            IN Tabulate([t \in lanes |->
                  Tabulate([w \in Words |->
                     fnv_hash(nodes[t][w], IF Chunk(w) \in lanes
                                           THEN Load(t)[Chunk(w)][w] ELSE 0)])])
        mixed == FoldLeft(Parent, [t \in lanes |-> FirstMix(cache, first + t)],
                          Steps(ETHASH_DATASET_PARENTS))
    IN [t \in lanes |-> Sha512(mixed[t])]

\* CUDA: chunk c of a node is written by lane c of its quad.
cuda_dag(cache, nodes, blocks, threads) ==
    [n \in 0..nodes - 1 |->
        LET base  == (n \div threads) * threads
            quad  == (n - base) \div 4
            lanes == QuadLanes(nodes, threads, base, quad)
            node  == Shfl(QuadNodes(cache, base + 4 * quad, lanes),
                          n - base - 4 * quad)
        IN IF n < Runs(nodes, blocks * threads) * blocks * threads
           THEN [w \in Words |-> IF Chunk(w) \in lanes THEN node[w]
                                 ELSE Ungenerated]
           ELSE Ungenerated]
=============================================================================
