------------------------------ MODULE ProgPow -------------------------------
(***************************************************************************)
(* libprogpow: the generator of a period's inner loop.  getKern seeds the  *)
(* KISS99 generator from the period, shuffles two sequences of registers   *)
(* (destinations of merges, sources of cache loads) and emits, iteration   *)
(* by iteration, cache loads and random math, and at the end the merges of *)
(* the words loaded from the DAG.  The text it prints is left out; the     *)
(* statements it stands for are kept in kern.  fill_mix of the search      *)
(* kernels, the other user of the generator, is the second entry point.    *)
(***************************************************************************)
EXTENDS Word32, Sequences

CONSTANTS PROGPOW_PERIOD, PROGPOW_REGS, PROGPOW_DAG_LOADS,
          PROGPOW_CNT_CACHE, PROGPOW_CNT_MATH,
          BlockNumbers,        \* block numbers getKern is called with
          Fills,               \* <<low word of the seed, high word, lane>>
          Vectors              \* what test-vectors.md lists

ASSUME ProgPowAssumption ==
    /\ {PROGPOW_PERIOD, PROGPOW_DAG_LOADS} \subseteq Nat \ {0}
    /\ {PROGPOW_CNT_CACHE, PROGPOW_CNT_MATH} \subseteq Nat /\ PROGPOW_REGS \in Nat \ {0, 1}
    /\ BlockNumbers \subseteq Nat /\ Fills \subseteq Uint32 \X Uint32 \X Nat

\* ProgPow.h: registers enough for the cache loads, merges enough for the registers.
ASSUME CountAssumption ==
    /\ PROGPOW_CNT_CACHE <= PROGPOW_REGS
    /\ PROGPOW_REGS <= PROGPOW_CNT_CACHE + PROGPOW_CNT_MATH + PROGPOW_DAG_LOADS - 1

VARIABLES stage,               \* "shuffle", "emit", "fill" or "done"
          input,               \* <<block>>, or the element of Fills
          rnd_state, iter,
          mix_seq_dst, mix_seq_cache,     \* 0..REGS-1 -> 0..REGS-1
          dst_cnt,             \* mix_seq_dst_cnt
          kern                 \* the statements emitted, or the mix filled
progpowVars == <<stage, input, rnd_state, iter, mix_seq_dst, mix_seq_cache, dst_cnt, kern>>

Regs == 0..PROGPOW_REGS - 1

fnv1a(h, d) == MulW(XorW(h, d), <<256, 403>>)       \* 0x1000193

FNV_OFFSET == <<33052, 40389>>                      \* 0x811c9dc5

\* The four words a generator starts from, each hashed onto the last
SeededBy(d1, d2, d3, d4) ==
    LET z     == fnv1a(FNV_OFFSET, d1)
        w     == fnv1a(z, d2)
        jsr   == fnv1a(w, d3)
    IN [z |-> z, w |-> w, jsr |-> jsr, jcong |-> fnv1a(jsr, d4)]

\* kiss99 with the multipliers of z and w exchanged
kiss99_Swapped(st) ==
    LET j1 == XorW(st.jsr, ShlW(st.jsr, 17))
        j2 == XorW(j1, ShrW(j1, 13))
    IN [z     |-> AddW(MulH(18000, st.z[2]), W(st.z[1])),
        w     |-> AddW(MulH(36969, st.w[2]), W(st.w[1])),
        jsr   |-> XorW(j2, ShlW(j2, 5)),
        jcong |-> AddW(MulW(W(69069), st.jcong), W(1234567))]

kiss99(st) ==
    LET j1 == XorW(st.jsr, ShlW(st.jsr, 17))
        j2 == XorW(j1, ShrW(j1, 13))
    IN [z     |-> AddW(MulH(36969, st.z[2]), W(st.z[1])),
        w     |-> AddW(MulH(18000, st.w[2]), W(st.w[1])),
        jsr   |-> XorW(j2, ShlW(j2, 5)),
        jcong |-> AddW(MulW(W(69069), st.jcong), W(1234567))]

\* the number a call returns, of the state it leaves
Out(st) == AddW(XorW(AddW(ShlW(st.z, 16), st.w), st.jcong), st.jsr)

\* The two numbers merge takes from a draw: the case, and a rotation that is never by 0
Merge(r) == [op |-> r[2] % 4, rot |-> ModW(ShrW(r, 16), 31) + 1]

-----------------------------------------------------------------------------
Unshuffled == /\ mix_seq_dst = [r \in Regs |-> r]
              /\ mix_seq_cache = [r \in Regs |-> r]
              /\ dst_cnt = 0
              /\ kern = <<>>

InitKern ==
    /\ stage = "shuffle"
    /\ input \in {<<b>> : b \in BlockNumbers}
    /\ LET seed0 == W(input[1] \div PROGPOW_PERIOD)    \* seed1, the high word, is 0
       IN rnd_state = SeededBy(seed0, W(0), seed0, W(0))
    /\ iter = PROGPOW_REGS - 1
    /\ Unshuffled

InitFill ==
    /\ stage = "fill"
    /\ input \in Fills
    /\ rnd_state = SeededBy(input[1], input[2], W(input[3]), W(input[3]))
    /\ iter = 0
    /\ Unshuffled

ProgPowInit == InitKern \/ InitFill

Swap(f, a, b) == [f EXCEPT ![a] = f[b], ![b] = f[a]]

\* One iteration of the Fisher-Yates shuffle, a draw for each sequence
Shuffle ==
    LET st1 == kiss99(rnd_state)
        st2 == kiss99(st1)
    IN /\ stage = "shuffle"
       /\ iter > 0
       /\ mix_seq_dst' = Swap(mix_seq_dst, iter, ModW(Out(st1), iter + 1))
       /\ mix_seq_cache' = Swap(mix_seq_cache, iter, ModW(Out(st2), iter + 1))
       /\ rnd_state' = st2
       /\ iter' = iter - 1
       /\ UNCHANGED <<stage, input, dst_cnt, kern>>

ShuffleEnd == /\ stage = "shuffle" /\ iter = 0
              /\ stage' = "emit"
              /\ UNCHANGED <<input, rnd_state, iter, mix_seq_dst, mix_seq_cache,
                             dst_cnt, kern>>

mix_dst(n) == mix_seq_dst[n % PROGPOW_REGS]

\* Sources without the correction
Sources_Same(r) ==
    LET n == ModW(r, (PROGPOW_REGS - 1) * PROGPOW_REGS)
    IN <<n % PROGPOW_REGS, n \div PROGPOW_REGS>>

\* The two distinct sources of a math instruction
Sources(r) ==
    LET n    == ModW(r, (PROGPOW_REGS - 1) * PROGPOW_REGS)
        src1 == n % PROGPOW_REGS
        src2 == n \div PROGPOW_REGS
    IN <<src1, IF src2 >= src1 THEN src2 + 1 ELSE src2>>

\* What iteration iter emits from a generator state: the statements, the
\* state left and the number of destinations taken
CacheLoad(st) ==
    IF iter >= PROGPOW_CNT_CACHE THEN [stmts |-> <<>>, st |-> st, dsts |-> 0]
    ELSE LET st1 == kiss99(st)
         IN [stmts |-> <<[kind |-> "cache", src |-> <<mix_seq_cache[iter % PROGPOW_REGS]>>,
                          dst |-> mix_dst(dst_cnt), math |-> 0,
                          merge |-> Merge(Out(st1))]>>,
             st |-> st1, dsts |-> 1]

RandomMath(st, taken) ==
    IF iter >= PROGPOW_CNT_MATH THEN [stmts |-> <<>>, st |-> st, dsts |-> 0]
    ELSE LET st1 == kiss99(st)   st2 == kiss99(st1)   st3 == kiss99(st2)
         IN [stmts |-> <<[kind |-> "math", src |-> Sources(Out(st1)),
                          dst |-> mix_dst(dst_cnt + taken),
                          math |-> ModW(Out(st2), 11), merge |-> Merge(Out(st3))]>>,
             st |-> st3, dsts |-> 1]

Instruction ==
    LET c == CacheLoad(rnd_state)
        m == RandomMath(c.st, c.dsts)
    IN /\ stage = "emit"
       /\ iter < PROGPOW_CNT_CACHE \/ iter < PROGPOW_CNT_MATH
       /\ kern' = kern \o c.stmts \o m.stmts
       /\ rnd_state' = m.st
       /\ dst_cnt' = dst_cnt + c.dsts + m.dsts
       /\ iter' = iter + 1
       /\ UNCHANGED <<stage, input, mix_seq_dst, mix_seq_cache>>

\* Iterations of the loop over cache loads and random math
Iterations == IF PROGPOW_CNT_MATH > PROGPOW_CNT_CACHE
              THEN PROGPOW_CNT_MATH ELSE PROGPOW_CNT_CACHE

\* The words loaded from the DAG: the first into mix[0], which the next
\* load's address comes from, the others into the next destinations
Consume ==
    LET k == iter - Iterations
        st1 == kiss99(rnd_state)
    IN /\ stage = "emit"
       /\ k >= 0
       /\ kern' = Append(kern, [kind |-> "load", src |-> <<k>>,
                                dst |-> IF k = 0 THEN 0 ELSE mix_dst(dst_cnt),
                                math |-> 0, merge |-> Merge(Out(st1))])
       /\ rnd_state' = st1
       /\ dst_cnt' = dst_cnt + (IF k = 0 THEN 0 ELSE 1)
       /\ iter' = iter + 1
       /\ stage' = IF k = PROGPOW_DAG_LOADS - 1 THEN "done" ELSE "emit"
       /\ UNCHANGED <<input, mix_seq_dst, mix_seq_cache>>

\* fill_mix: one draw for each register
Fill == /\ stage = "fill"
        /\ rnd_state' = kiss99(rnd_state)
        /\ kern' = Append(kern, Out(rnd_state'))
        /\ iter' = iter + 1
        /\ stage' = IF iter' = PROGPOW_REGS THEN "done" ELSE "fill"
        /\ UNCHANGED <<input, mix_seq_dst, mix_seq_cache, dst_cnt>>

ProgPowNext == Shuffle \/ ShuffleEnd \/ Instruction \/ Consume \/ Fill
ProgPowSpec == ProgPowInit /\ [][ProgPowNext]_progpowVars

-----------------------------------------------------------------------------
(* What the statements compute (the code prints them as text).              *)

merge(a, b, m) == CASE m.op = 0 -> XorW(RotrW(a, m.rot), b)
                    [] m.op = 1 -> XorW(RotlW(a, m.rot), b)
                    [] m.op = 2 -> AddW(MulW(a, W(33)), b)
                    [] m.op = 3 -> MulW(XorW(a, b), W(33))

mergePaths == <<"rotr/xor", "rotl/xor", "mul/add", "xor/mul">>
mathPaths == <<"rotl", "and", "add", "popcount", "clz", "rotr", "mul_hi", "or", "mul",
               "xor", "min">>

math(a, b, n) == CASE n = 0  -> RotlW(a, b[2] % 32)
                   [] n = 1  -> AndW(a, b)
                   [] n = 2  -> AddW(a, b)
                   [] n = 3  -> AddW(PopcountW(a), PopcountW(b))
                   [] n = 4  -> AddW(ClzW(a), ClzW(b))
                   [] n = 5  -> RotrW(a, b[2] % 32)
                   [] n = 6  -> MulHiW(a, b)
                   [] n = 7  -> OrW(a, b)
                   [] n = 8  -> MulW(a, b)
                   [] n = 9  -> XorW(a, b)
                   [] n = 10 -> IF LessW(a, b) THEN a ELSE b

-----------------------------------------------------------------------------
IsProgram == stage = "done" /\ Len(input) = 1
Stmts(kind) == {s \in 1..Len(kern) : kern[s].kind = kind}

Samples == {<<0, 0>>, <<0, 1>>, <<32768, 0>>, <<65535, 65535>>, <<4660, 22136>>}

\* A finished program merges into every register, loads the cache from
\* registers that are all different and never combines a register with
\* itself, and no merge maps two values of its register to one or rotates by
\* 0: getKern's shuffles, counters and corrected second source do what its
\* comments promise for every period.
ProgramMixesEverything ==
    IsProgram =>
        /\ {kern[s].dst : s \in 1..Len(kern)} = Regs
        /\ \A s, t \in Stmts("cache") : s # t => kern[s].src # kern[t].src
        /\ \A s \in Stmts("math") : kern[s].src[1] # kern[s].src[2]
        /\ \E s \in Stmts("load") : kern[s].dst = 0 /\ \A t \in Stmts("load") : s <= t
        /\ \A s \in 1..Len(kern) :
              LET m == kern[s].merge IN
              /\ m.rot \in 1..31
              /\ \A a1, a2, b \in Samples :
                    a1 # a2 => merge(a1, b, m) # merge(a2, b, m)

\* The generator, the shuffles and the statements agree with test-vectors.md: the
\* sequences and the generator state of period 600, the mix of its hash seed, and the
\* result of each row of the tables of merge and math, computed by the operation the row
\* names and rotated as its r says.  Which operation an r selects is not compared: it is
\* another one in the code (see VectorsSelectTheirPath).
MatchesVectors ==
    /\ stage = "emit" /\ iter = 0 /\ input[1] \div PROGPOW_PERIOD = 600 =>
        /\ mix_seq_dst = Vectors.dst
        /\ mix_seq_cache = Vectors.src
        /\ rnd_state = Vectors.state
    /\ stage = "done" /\ input \in DOMAIN Vectors.fill =>
        /\ kern = Vectors.fill[input]
        /\ \A v \in Vectors.merge : \E op \in 0..3 :
              /\ mergePaths[op + 1] = v[5]
              /\ merge(v[1], v[2], [Merge(v[3]) EXCEPT !.op = op]) = v[4]
        /\ \A v \in Vectors.math : \E n \in 0..10 :
              mathPaths[n + 1] = v[5] /\ math(v[1], v[2], n) = v[4]

\* Refuted: the r of each row of test-vectors.md selects the operation the row names, by
\* its remainder by 4 or by 11.  ProgPow::merge and ProgPow::math number their cases
\* otherwise (test-vectors.md:98 has mul/add where ProgPow.cpp:204 prints ROTR32,
\* test-vectors.md:107 has add where ProgPow.cpp:217 prints ROTL32).
VectorsSelectTheirPath ==
    /\ \A v \in Vectors.merge : mergePaths[Merge(v[3]).op + 1] = v[5]
    /\ \A v \in Vectors.math : mathPaths[ModW(v[3], 11) + 1] = v[5]
=============================================================================
