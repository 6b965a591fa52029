----------------------------- MODULE Algorithms -----------------------------
(***************************************************************************)
(* The algorithms of the system that keep no state, each called once with  *)
(* every input of a small set: the hash functions, the generation of the   *)
(* DAG by the CPU and by both kinds of GPU, the sizes of an epoch, the     *)
(* evaluation of a nonce, the encodings and the block header.  `call' is   *)
(* the last call: its function, its input and what it returned.            *)
(***************************************************************************)
EXTENDS Keccak, Ethash, BlockHeader

CONSTANTS States,              \* states of Keccak-f[1600]
          HeaderHashes,        \* 8-lane headers of the search kernels
          MaxMessage, Rate,    \* bounds on the message of the sponge
          DagPages,            \* pages of the small data sets
          WorkSizes, Blocks4,  \* global work sizes; CUDA's blocks and threads
          CacheNodes,          \* nodes of the small cache
          Nonces, Values,      \* nonces; integers and bytes to encode
          Headers,             \* block headers
          ByteBits,            \* bits of a byte of the word primitives
          Words64,             \* 64-bit words they are called with
          BlockSizes,          \* block sizes asked for on the command line
          Launch               \* sizes of the CUDA search kernel, a record

VARIABLE call

Cuda == INSTANCE CudaHelper
Search == INSTANCE CudaKernel WITH
    PROGPOW_LANES <- Launch.PROGPOW_LANES, PROGPOW_DAG_LOADS <- Launch.PROGPOW_DAG_LOADS,
    PROGPOW_CACHE_WORDS <- Launch.PROGPOW_CACHE_WORDS,
    DigestWords <- Launch.DigestWords, SEARCH_RESULTS <- Launch.SEARCH_RESULTS

Called(fn, args, ret) == /\ call = [fn |-> "none"]
                         /\ call' = [fn |-> fn, args |-> args, ret |-> ret]

seedNode == [w \in Words |-> w + 1]
cache == Tabulate(ethash_compute_cache_nodes(CacheNodes, seedNode))
Dag(nodes) == Tabulate([n \in 0..nodes - 1 |-> ethash_calculate_dag_item(cache, n)])

-----------------------------------------------------------------------------
(* One action for each algorithm.                                           *)

\* a round of Keccak by the CPU, by CUDA (same text) and by OpenCL
KeccakRound ==
    \E st \in States, r \in {0, 1, 22, 23} :
        Called("round", <<st, r>>, <<keccakf_round(st, r),
                                     cl_keccak_f1600_round(st, r)>>)

\* SHA3_512 of a node of the DAG by OpenCL and by CUDA, a round at a time
HashNode ==
    \/ \E st \in States :
          Called("node", st, <<0, cl_SHA3_512(st), cuda_keccak_f1600(st)>>)
    \/ LET r == call.ret[1] IN
       /\ call.fn = "node" /\ r < 24
       /\ call' = [call EXCEPT !.ret = <<r + 1, cl_keccak_f1600_round(@[2], r),
                                               keccakf_round(@[3], r)>>]

\* the hash of header and nonce by the two search kernels
HashHeader ==
    \/ \E hd \in HeaderHashes, bit \in {0, 31, 32, 63} :
          Called("header", <<hd, bit>>, <<0, Absorb800(hd, {bit}, hd)>>)
    \/ LET r == call.ret[1] IN
       /\ call.fn = "header" /\ r < 22
       /\ call' = [call EXCEPT !.ret = <<r + 1, keccak_f800_round(@[2], r)>>]

\* sha3_256 of a message of n bytes
Sponge ==
    \E n \in 0..MaxMessage :
        LET msg == [k \in 1..n |-> {k % 8}]
        IN Called("sponge", msg, sha3(256, 32, msg, Rate))

\* the word primitives of CUDA: rotations and shifts by n of a, arithmetic
\* of a and b
Primitives ==
    \E a \in Words64, b \in Words64, n \in 0..2 * Cuda!Width - 1 :
        LET u == Cuda!vectorize(a)
            v == Cuda!vectorize(b)
            W64(pair) == Cuda!devectorize(pair)
        IN Called("primitives", [a |-> a, b |-> b, n |-> n],
             [left   |-> {Cuda!ROTL64(a, n), W64(Cuda!ROL2(u, n)), W64(Cuda!ROL2_Old(u, n))},
              right  |-> {Cuda!ROTR64(a, n), W64(Cuda!ROR2(u, n)), W64(Cuda!ROR2_Old(u, n))},
              bytes  |-> [k \in 1..3 |-> <<W64(Cuda!ROLBytes(u, k)), W64(Cuda!RORBytes(u, k)),
                                          Cuda!ROLBytes32(u.x, k)>>],
              shorts |-> <<Cuda!ROTL16(a), Cuda!ROTR16(a)>>,
              word   |-> <<Cuda!ROTL32(u.x, n), Cuda!ROTR32(u.x, n)>>,
              shift  |-> <<W64(Cuda!SHL2(u, n)), W64(Cuda!SHR2(u, n))>>,
              older  |-> <<W64(Cuda!SHL2_Old(u, n)), W64(Cuda!SHR2_Old(u, n))>>,
              swab   |-> {Cuda!cuda_swab64(a), Cuda!devectorizeswap(u),
                          W64(Cuda!vectorizeswap(a))},
              dwords |-> Cuda!REPLACE_HIWORD(Cuda!REPLACE_LOWORD(b, Cuda!_HIWORD(a)), u.x),
              swap   |-> {Cuda!SWAPDWORDS(a), W64(Cuda!SWAPDWORDS2(u))},
              halves |-> Cuda!devectorize16(Cuda!vectorize16(u.x)),
              sum    |-> W64(Cuda!AddPair(u, v)),
              diff   |-> W64(Cuda!SubPair(u, v)),
              prod   |-> <<W64(Cuda!mul4(u)), Cuda!MulPair(u, v).x>>,
              madd   |-> {W64(Cuda!madd4(u, v)), Cuda!madd4long(a, b)},
              below  |-> Cuda!cuda_hashisbelowtarget(<<u.x, u.y>>, <<v.x, v.y>>),
              select |-> Cuda!xandx(a, b, n),
              major  |-> Cuda!andor(a, b, n),
              majors |-> Cuda!andor32(u.x, v.x, n),
              parity |-> Cuda!xor8(<<a, b, n, b, a, n, a, b>>),
              three  |-> Cuda!xor3b(u.x, v.x, Cuda!xor1(u.x, n)),
              field  |-> Cuda!bfi(Cuda!bfe(u.x, n % Cuda!Width, 3), u.x, n % Cuda!Width, 3)])

Sizes == \E e \in DOMAIN dag_sizes :
            /\ Tabulated(e)
            /\ Called("sizes", e, <<dag_sizes[e], cache_sizes[e]>>)

GenerateDag ==
    \E pages \in DagPages, ws \in WorkSizes, bt \in Blocks4 :
        LET nodes == MIX_NODES * pages
        IN Called("dag", [nodes |-> nodes, work |-> ws, grid |-> bt],
                  <<cl_dag(cache, nodes, ws), cuda_dag(cache, nodes, bt[1], bt[2])>>)

\* a block of the CUDA search kernel, of which the first `below' threads find a result
SearchBlock ==
    \E b \in BlockSizes :
        LET blockDim == Search!s_blockSize(b)
        IN  \E below \in 0..Launch.SEARCH_RESULTS + 1 :
               Called("block", [dim |-> blockDim, below |-> below],
                      [cache  |-> Search!c_dag(blockDim),
                       digest |-> [t \in 0..blockDim - 1 |-> Search!digest(t, blockDim)],
                       output |-> Search!g_output([n \in 1..below |-> n - 1])])

\* EthashAux::eval
Evaluate ==
    \E pages \in DagPages, n \in Nonces, hd \in Nonces :
        Called("eval", [pages |-> pages, header |-> hd, nonce |-> n],
               ethash_hash([k \in Nat |-> ethash_calculate_dag_item(cache, k)],
                           pages, hd, n))

Encode ==
    \E v \in Values :
        LET b == toCompactBigEndian(v, 1)
        IN Called("encode", v,
                  [compact |-> b, hex |-> toHex(b),
                   hash |-> toBigEndian(v, HashSize)])

MakeWork == \E hd \in Headers : Called("work", hd, WorkPackage(hd))

AlgorithmsInit == call = [fn |-> "none"]
AlgorithmsNext == \/ KeccakRound \/ HashNode \/ HashHeader \/ Sponge
                  \/ Primitives \/ Sizes
                  \/ GenerateDag \/ SearchBlock \/ Evaluate \/ Encode \/ MakeWork

-----------------------------------------------------------------------------
Is(fn) == call.fn = fn

\* What a word primitive should return, as arithmetic on whole words of w
\* bits: rotation to the left by n, and the order of the bytes reversed
Rotated(x, n, w) == (x % 2^(w - n)) * 2^n + (x \div 2^(w - n))
Reversed(x, w) ==
    LET k == w \div ByteBits
        At(j) == (x \div 2^(ByteBits * j)) % 2^ByteBits
    IN FoldLeft(LAMBDA acc, j : acc * 2^ByteBits + At(j), 0, [j \in 1..k |-> j - 1])

PrimitivesAreArithmetic ==
    LET n == call.args.n    a == call.args.a    b == call.args.b
        w == 2 * Cuda!Width
        lo == a % Cuda!R    hi == a \div Cuda!R
        r == call.ret
    IN /\ r.left = {Rotated(a, n, w)} /\ r.right = {Rotated(a, w - n, w)}
       /\ \A k \in 1..3 :
             r.bytes[k] = <<Rotated(a, k * ByteBits, w), Rotated(a, w - k * ByteBits, w),
                            Rotated(lo, k * ByteBits, Cuda!Width)>>
       /\ r.shorts = <<Rotated(a, 2 * ByteBits, w), Rotated(a, w - 2 * ByteBits, w)>>
       /\ n < Cuda!Width =>
             /\ r.word = <<Rotated(lo, n, Cuda!Width), Rotated(lo, Cuda!Width - n, Cuda!Width)>>
             /\ r.shift = <<(a * 2^n) % 2^w, a \div 2^n>>
       /\ r.older = <<(a * 2^n) % 2^w, a \div 2^n>>
       /\ r.halves = lo
       /\ r.swab = {Reversed(a, w)}
       /\ r.swap = {r.dwords} /\ r.dwords = Rotated(a, Cuda!Width, w)
       /\ r.sum = (a + b) % 2^w /\ r.diff = (a - b) % 2^w
       /\ r.prod = <<lo * hi, (lo * (b % Cuda!R)) % Cuda!R>> /\ r.madd = {(lo * hi + b) % 2^w}
       /\ r.below = (a <= b)
       /\ \A i \in 0..w - 1 :
             LET One(x) == (x \div 2^i) % 2 = 1
             IN /\ One(r.select) = IF One(a) THEN One(b) ELSE One(n)
                /\ One(r.major) = (Cardinality({k \in 1..3 : One(<<a, b, n>>[k])}) > 1)
                /\ One(r.parity) = (One(a) # One(b))
                /\ i < Cuda!Width => /\ One(r.majors) = One(r.major)
                                     /\ One(r.three) = (One(b) # One(n))
       /\ r.field = lo

\* The copies of Keccak agree with the reference and with each other: the
\* loops of sha3.c and the unrolled round of the OpenCL kernel compute the
\* round of Keccak-f[1600], the two GPU generators hash a node alike, and
\* the two search kernels hash a header and a nonce alike in spite of their
\* different ways of turning the bytes round.  The blocks the sponge absorbs
\* are those of the padded message, also when the message fills its last block
\* but for the one byte that then carries both ends of the padding.  The
\* primitives CUDA's rounds are made of, written once for each architecture
\* and by shifts, funnel shifts and permutations of bytes, are the arithmetic
\* of whole words, at every rotation; the newer shifts of pairs are so below a word,
\* and the product of pairs in its low word.  Each thread of a CUDA block is
\* left with the digest of its own seed, made of the lanes' parts in the order
\* of the OpenCL kernel (word i % 8 hashes lane i), as long as the block is
\* whole groups of lanes, which configureGPU's rounding alone does not ensure.
CopiesAgree ==
    /\ Is("round") => \A k \in 1..2 :
                         call.ret[k] = ReferenceRound(call.args[1], call.args[2])
    /\ Is("node") => call.ret[2] = call.ret[3]
    /\ Is("header") => cl_keccak_f800(call.ret[2]) = cuda_keccak_f800(call.ret[2])
    /\ Is("sponge") => call.ret = Padded(call.args, Rate)
    /\ Is("primitives") => PrimitivesAreArithmetic
    /\ Is("block") /\ call.args.dim % Launch.PROGPOW_LANES = 0 =>
          \A t \in DOMAIN call.ret.digest : \A j \in 0..Launch.DigestWords - 1 :
             LET lanes == SelectSeq([i \in 1..Launch.PROGPOW_LANES |-> i - 1],
                                    LAMBDA i : i % Launch.DigestWords = j)
             IN call.ret.digest[t][j] = [k \in DOMAIN lanes |-> <<t, lanes[k]>>]

\* Both GPU generators give every node of the data set the item the CPU
\* computes, whatever the launch geometry leaves in the last run; for OpenCL
\* as long as the size of the data set fits an unsigned int, for CUDA as long
\* as the threads of a block are whole quads.
DagIsWhole ==
    Is("dag") =>
        /\ call.args.nodes < NodesOfUInt => call.ret[1] = Dag(call.args.nodes)
        /\ call.args.grid[2] % 4 = 0 => call.ret[2] = Dag(call.args.nodes)

\* No access leaves the data set: the pairs of pages the search kernels
\* address (dagElms) and the items an evaluation reads are all inside,
\* although the number of pages is odd; the tables of sizes hold what the
\* rule of their comment gives.  The threads of a CUDA block
\* fill the whole cache and nothing beside it, each word with the word of the
\* DAG it stands for, whatever their number, and the host reads the result
\* slots they filled.
AccessesStayInside ==
    /\ Is("sizes") => /\ MIX_NODES * dagElms(call.ret[1]) <= call.ret[1]
                      /\ call.ret[1] = LargestPrime(2^23 + 2^16 * call.args)
                      /\ call.ret[2] = LargestPrime(2^18 + 2^11 * call.args)
    /\ Is("block") =>
          /\ call.ret.cache = {<<w, w \div Launch.PROGPOW_DAG_LOADS, w % Launch.PROGPOW_DAG_LOADS>> :
                                  w \in 0..Launch.PROGPOW_CACHE_WORDS - 1}
          /\ Search!HostReads(call.ret.output) = DOMAIN call.ret.output.result
    /\ Is("eval") => call.ret.read \subseteq 0..MIX_NODES * call.args.pages - 1

\* What is encoded decodes to itself: compact big-endian bytes have no
\* leading zero and read back as the integer, hexadecimal digits with or
\* without prefix read back as the bytes, and as hashes the integers keep
\* their order and their successor.
EncodingsRoundTrip ==
    Is("encode") =>
        LET v == call.args
            r == call.ret
            Hash(n) == toBigEndian(n, HashSize)
        IN /\ fromBigEndian(r.compact) = v
           /\ Len(r.compact) > 1 => r.compact[1] # 0
           /\ fromHex(r.hex, TRUE) = r.compact
           /\ fromHex(<<0, LetterX>> \o r.hex, FALSE) = r.compact
           /\ FixedHash(r.compact, "AlignRight") = r.hash
           /\ v + 1 < Byte^HashSize => Increment(r.hash) = Hash(v + 1)
           /\ \A u \in Values : Less(Hash(u), r.hash) <=> u < v

\* A work package describes its header: the bytes that are hashed read back
\* as all of its fields (unless its number or its gas is refused), and a hash
\* below the boundary, times the difficulty, is below the number of hashes.
WorkIsItsHeader ==
    Is("work") =>
        LET hd  == call.args
            pop == populateFromHeader(call.ret.header)
            top == fromBigEndian(call.ret.boundary)
        IN /\ pop = IF hd.number > MaxNumber THEN [thrown |-> "InvalidNumber"]
                    ELSE IF hd.gasUsed > hd.gasLimit
                    THEN [thrown |-> "TooMuchGasUsed"] ELSE hd
           /\ extractHeader(ListBytes(<<call.ret.header, <<ListStart>>,
                                        <<ListStart>>>>)) = call.ret.header
           /\ hd.difficulty > 1 =>
                 /\ top * hd.difficulty <= Byte^HashSize
                 /\ (top + 1) * hd.difficulty > Byte^HashSize
=============================================================================
