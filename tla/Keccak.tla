------------------------------- MODULE Keccak -------------------------------
(***************************************************************************)
(* The Keccak permutations and the sponge.  The code has five copies of    *)
(* them: libethash/sha3.c and libdevcore/SHA3.cpp for the CPU, the loops   *)
(* of CUDAMiner_cuda.cu and the unrolled round of CLMiner_kernel.cl for    *)
(* the DAG, and the changed 800-bit permutation that both search kernels   *)
(* hash headers with.  A lane is the set of the positions of its one bits, *)
(* so that exclusive or is the symmetric difference and a rotation a shift *)
(* of the positions modulo the width w (64 or 32).                         *)
(***************************************************************************)
EXTENDS Integers, SequencesExt

\* equal to f; TLC tabulates it instead of evaluating f at every use
Table(f) == f @@ <<>>

Xored(a, b) == {x \in a \cup b : ~(x \in a /\ x \in b)}
XorAll(S, st) == FoldLeft(LAMBDA acc, i : Xored(acc, st[i]), {}, S)
rol(x, n, w) == {(b + n) % w : b \in x}
Lanes == 0..24

rho == << 1,  3,  6, 10, 15, 21, 28, 36, 45, 55,  2, 14,
         27, 41, 56,  8, 25, 43, 62, 18, 39, 61, 20, 44>>
pi  == <<10,  7, 11, 17, 18,  3,  5, 16,  8, 21, 24,  4,
         15, 23, 19, 13, 12,  2, 20, 14, 22,  9,  6,  1>>

RC == <<{0}, {1, 7, 15}, {1, 3, 7, 15, 63}, {15, 31, 63}, {0, 1, 3, 7, 15},
        {0, 31}, {0, 7, 15, 31, 63}, {0, 3, 15, 63}, {1, 3, 7}, {3, 7},
        {0, 3, 15, 31}, {1, 3, 31}, {0, 1, 3, 7, 15, 31}, {0, 1, 3, 7, 63},
        {0, 3, 7, 15, 63}, {0, 1, 15, 63}, {1, 15, 63}, {7, 63}, {1, 3, 15},
        {1, 3, 31, 63}, {0, 7, 15, 31, 63}, {7, 15, 63}, {0, 31},
        {3, 15, 31, 63}>>

-----------------------------------------------------------------------------
(* The round as the loops of sha3.c, SHA3.cpp and CUDAMiner_cuda.cu do it.  *)

\* Theta from the parities of five groups of lanes, `parities' saying which
Theta(st, parities, w) ==
    LET bc == Table([x \in 0..4 |-> XorAll(parities[x + 1], st)])
        t  == Table([x \in 0..4 |-> Xored(bc[(x + 4) % 5], rol(bc[(x + 1) % 5], 1, w))])
    IN Table([i \in Lanes |-> Xored(st[i], t[i % 5])])

\* The walk along pi: t carries the lane the last write displaced, lane 1
\* at first, so lane pi[x] receives the old pi[x - 1] rotated by rho[x].
RhoPi(st, w) ==
    LET From(x) == IF x = 1 THEN 1 ELSE pi[x - 1]
        At == [i \in Lanes \ {0} |-> CHOOSE x \in 1..24 : pi[x] = i]
    IN Table([i \in Lanes |-> IF i = 0 THEN st[0]
                              ELSE rol(st[From(At[i])], rho[At[i]], w)])

Chi(st) ==
    Table([i \in Lanes |->
             LET y == i - (i % 5)
             IN Xored(st[i], st[y + ((i + 2) % 5)] \ st[y + ((i + 1) % 5)])])

Columns == [x \in 1..5 |-> <<x - 1, x + 4, x + 9, x + 14, x + 19>>]

keccakf_round(st, r) ==
    LET a == Chi(RhoPi(Theta(st, Columns, 64), 64))
    IN [a EXCEPT ![0] = Xored(@, RC[r + 1])]

-----------------------------------------------------------------------------
(* The unrolled round of the OpenCL kernel: theta column by column, rho and *)
(* pi as one table of moves <<from, to, rotation>>, chi by bitselect.       *)

ROL2(v, n) == rol(v, n, 64)

Moves == {<< 0,  0,  0>>, << 1, 10,  1>>, << 2, 20, 62>>, << 3,  5, 28>>,
          << 4, 15, 27>>, << 5, 16, 36>>, << 6,  1, 44>>, << 7, 11,  6>>,
          << 8, 21, 55>>, << 9,  6, 20>>, <<10,  7,  3>>, <<11, 17, 10>>,
          <<12,  2, 43>>, <<13, 12, 25>>, <<14, 22, 39>>, <<15, 23, 41>>,
          <<16,  8, 45>>, <<17, 18, 15>>, <<18,  3, 21>>, <<19, 13,  8>>,
          <<20, 14, 18>>, <<21, 24,  2>>, <<22,  9, 61>>, <<23, 19, 56>>,
          <<24,  4, 14>>}

\* bitselect with its last two arguments exchanged
bitselect_Swapped(a, b, c) == {x \in a \cup c : x \in (IF x \in b THEN c ELSE a)}

\* bitselect(a, b, c): the bits of b where c is one, of a elsewhere
bitselect(a, b, c) == {x \in a \cup b : x \in (IF x \in c THEN b ELSE a)}

\* chi for n = 0, 5, 10, 15 and 20, each of which writes its five lanes of a
chi(t) ==
    Table([i \in Lanes |->
             LET At(k) == t[i - (i % 5) + ((i + k) % 5)]
             IN bitselect(Xored(At(0), At(2)), At(0), At(1))])

cl_keccak_f1600_round(st, r) ==
    LET u == Table([x \in 0..4 |-> XorAll(Columns[x + 1], st)])
        a == Table([i \in Lanes |-> Xored(st[i], Xored(u[(i + 4) % 5],
                                                   ROL2(u[(i + 1) % 5], 1)))])
        t == Table([to \in Lanes |-> LET m == CHOOSE m \in Moves : m[2] = to
                                     IN ROL2(a[m[1]], m[3])])
    IN [chi(t) EXCEPT ![0] = Xored(@, RC[r + 1])]

\* The state SHA3_512 of the kernel permutes, from the 8 lanes of a node: the
\* padding is a constant because the message always has 64 bytes
cl_SHA3_512(node) == [i \in Lanes |-> IF i < 8 THEN node[i]
                                      ELSE IF i = 8 THEN {0, 63} ELSE {}]

\* keccak_f1600 of the CUDA generator sets lane 8 and clears the others itself
cuda_keccak_f1600(node) == [[i \in Lanes |-> IF i < 8 THEN node[i] ELSE {}]
                            EXCEPT ![8] = {0} \cup {63}]

-----------------------------------------------------------------------------
(* The 800-bit permutation of the search kernels.                           *)

Scattered == <<<<0, 6, 9, 12, 17>>, <<8, 11, 14, 19, 23>>, <<2, 7, 10, 18, 22>>,
               <<4, 5, 15, 20, 24>>, <<1, 3, 13, 16, 21>>>>

\* 0x79938B61
Tweak == {0, 5, 6, 8, 9, 11, 15, 16, 17, 20, 23, 24, 27, 28, 29, 30}

Bytes(x, lo, hi) == x \cap (lo..hi)

keccak_f800_round(st, r) ==
    LET a == RhoPi(Theta(st, Scattered, 32), 32)
        b == [a EXCEPT ![3] = Xored(@, Tweak),
                       ![10] = Xored(@, Bytes(a[19], 0, 7) \cup Bytes(a[24], 8, 15)
                                      \cup Bytes(a[6], 16, 23)
                                      \cup Bytes(a[14], 24, 31))]
    IN [Chi(b) EXCEPT ![0] = Xored(@, RC[r + 1] \cap (0..31))]

\* The state that is permuted: header (8 lanes), seed (a 64-bit word), digest
\* (8 lanes)
Absorb800(header, seed, digest) ==
    [i \in Lanes |-> CASE i < 8 -> header[i]
                       [] i = 8 -> seed \cap (0..31)
                       [] i = 9 -> {b - 32 : b \in seed \cap (32..63)}
                       [] i \in 10..17 -> digest[i - 10]
                       [] OTHER -> {}]

\* What is returned of it: as_ulong(as_uchar8(st[1] << 32 | st[0]).s76543210)
cl_keccak_f800(st) ==
    LET res == st[0] \cup {b + 32 : b \in st[1]}
    IN {8 * (7 - (b \div 8)) + (b % 8) : b \in res}

cuda_swab32(x) == {8 * (3 - (b \div 8)) + (b % 8) : b \in x}

\* cuda_swab32(st[0]) << 32 | cuda_swab32(st[1])
cuda_keccak_f800(st) == {b + 32 : b \in cuda_swab32(st[0])} \cup cuda_swab32(st[1])

-----------------------------------------------------------------------------
(* The sponge, over an unspecified permutation: a message is a sequence of  *)
(* bytes (sets of bits), the result the sequence of the blocks that were    *)
(* xored into the state before each application of P.                       *)

delim == {0}
PadEnd == {7}

\* xorin of the first len bytes of s into block a
xorin(a, s, len) == [i \in DOMAIN a |-> IF i <= len THEN Xored(a[i], s[i]) ELSE a[i]]

\* A sponge that overwrites the delimiter when the pad frame ends on it
hash_PadOverwrites(in, rate) ==
    LET full == Len(in) \div rate
        rest == Len(in) % rate
        zero == [i \in 1..rate |-> {}]
        Block(k) == xorin(zero, SubSeq(in, k * rate + 1, (k + 1) * rate), rate)
    IN Append([k \in 1..full |-> Block(k - 1)],
              xorin([zero EXCEPT ![rest + 1] = delim, ![rate] = PadEnd],
                    SubSeq(in, full * rate + 1, Len(in)), rest))

hash(in, rate) ==
    LET full == Len(in) \div rate                \* iterations of foldP
        rest == Len(in) % rate
        zero == [i \in 1..rate |-> {}]
        Block(k) == xorin(zero, SubSeq(in, k * rate + 1, (k + 1) * rate), rate)
        pad1 == [zero EXCEPT ![rest + 1] = Xored(@, delim)]
        pad2 == [pad1 EXCEPT ![rate] = Xored(@, PadEnd)]
    IN Append([k \in 1..full |-> Block(k - 1)],
              xorin(pad2, SubSeq(in, full * rate + 1, Len(in)), rest))

\* sha3_##bits refuses an output longer than the digest
sha3(bits, outlen, in, rate) ==
    IF outlen > bits \div 8 THEN <<>> ELSE hash(in, rate)

-----------------------------------------------------------------------------
(* What they should compute: Keccak-f[1600] by coordinates (lane x + 5y),   *)
(* with rho's offsets the triangular numbers along the walk                 *)
(* (x, y) -> (y, 2x + 3y), and the message padded by 1 0* 1 and cut up.     *)

Walk == FoldLeft(LAMBDA w, t : Append(w, <<w[t][2], (2 * w[t][1] + 3 * w[t][2]) % 5>>),
                 << <<1, 0>> >>, [t \in 1..23 |-> t])

Offset(x, y) == IF <<x, y>> = <<0, 0>> THEN 0
                ELSE LET t == CHOOSE t \in 1..24 : Walk[t] = <<x, y>>
                     IN ((t * (t + 1)) \div 2) % 64

ReferenceRound(st, r) ==
    LET A(x, y) == st[(x % 5) + 5 * (y % 5)]
        C(x) == XorAll(<<0, 1, 2, 3, 4>>, [y \in 0..4 |-> A(x, y)])
        D(x) == Xored(C(x + 4), rol(C(x + 1), 1, 64))
        T == [x \in 0..4, y \in 0..4 |-> Xored(A(x, y), D(x))]
        \* B[y, 2x + 3y] = rot(T[x, y]), read backwards
        B == [v \in 0..4, u \in 0..4 |->
                LET x == CHOOSE x \in 0..4 : (2 * x + 3 * v) % 5 = u
                IN rol(T[x, v], Offset(x, v), 64)]
        E(x, y) == Xored(B[x, y], B[(x + 2) % 5, y] \ B[(x + 1) % 5, y])
    IN [i \in Lanes |-> IF i = 0 THEN Xored(E(0, 0), RC[r + 1])
                        ELSE E(i % 5, i \div 5)]

Padded(in, rate) ==
    LET n == rate - (Len(in) % rate)
        pad == [i \in 1..n |-> (IF i = 1 THEN delim ELSE {})
                               \cup (IF i = n THEN PadEnd ELSE {})]
        all == in \o pad
    IN [k \in 1..Len(all) \div rate |-> SubSeq(all, (k - 1) * rate + 1, k * rate)]
=============================================================================
