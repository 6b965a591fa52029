---------------------------- MODULE MCAlgorithms ----------------------------
(***************************************************************************)
(* The algorithms on small inputs, side by side: the pure ones, ProgPoW's  *)
(* generator with the constants of the code, the local memory of a         *)
(* work-group, and RLP.  `part' says which of them a behaviour runs; the   *)
(* others stay in an initial state.                                        *)
(***************************************************************************)
EXTENDS Algorithms, ProgPow, ClKernel

VARIABLE part
allVars == <<part, call, progpowVars, kernelVars, rlpVars>>

(* Values of the constants.                                                 *)

MCSha512(n) == Table([w \in Words |-> (n[w] * 3 + n[(w + 1) % NODE_WORDS] + w + 1)
                                      % Word])
MCSha256(s) == s

MCStates == {[k \in Lanes |-> {}],
             [k \in Lanes |-> {b \in 0..63 : (b * b + 3 * k * b + k) % 7 < 3}]}
MCHeaderHashes == {[k \in 0..7 |-> {b \in 0..31 : (b * b + 3 * k * b + k) % 5 < 2}]}

MCGrids == {<<1, 4>>, <<2, 4>>, <<1, 6>>, <<1, 8>>}

MCLaunch == [PROGPOW_LANES |-> 16, PROGPOW_DAG_LOADS |-> 4, PROGPOW_CACHE_WORDS |-> 256,
             DigestWords |-> 8, SEARCH_RESULTS |-> 4]

MCData == {<<>>, <<0>>, <<7>>, <<8>>, <<3, 4>>, <<1, 2, 3>>}
MCInts == {0, 7, 8, 255, 256}
MCValues == {0, 1, 4, 15, 16, 17, 255, 256, 257, 4095}

MCHeaders ==
    [hashes : {<<<<0, 0, 0>>, <<9, 8, 15>>>>}, difficulty : {1, 2, 7, 300},
     number : {0, 8, 15, 16, 17}, gasLimit : {9}, gasUsed : {0, 9, 10},
     timestamp : {300}, extraData : {<<>>, <<4>>, <<5, 6>>}]

\* Periods 0, 1, 600, 258400 and the largest tried
MCBlocks == {0, 9, 10, 6000, 2584000, 99999999}
\* test-vectors.md: the hash seed, the sequences and the state of the
\* generator for period 600, and the mixes of lanes 0 and 13
Seed600 == <<<<56784, 42107>>, <<60976, 18502>>>>
Indexed(s) == [r \in 0..Len(s) - 1 |-> s[r + 1]]
\* ... and its tables of merge and math: <<a, b, r, result, path>>
MergeVectors == {
    <<<<15115, 45949>>, <<40993, 8196>>, <<39890, 27312>>, <<15523, 17185>>, "mul/add">>,
    <<<<4288, 12045>>, <<34575, 41511>>, <<54516, 21781>>, <<37313, 12906>>, "xor/mul">>,
    <<<<9426, 47844>>, <<4091, 19611>>, <<32731, 49906>>, <<11997, 55628>>, "rotl/xor">>,
    <<<<55865, 59425>>, <<2204, 16392>>, <<35692, 55491>>, <<35457, 58262>>, "rotr/xor">>}
MathVectors == {
    <<<<34342, 47903>>, <<48095, 48206>>, <<34878, 23369>>, <<16902, 30573>>, "add">>,
    <<<<16203, 57260>>, <<55198, 16719>>, <<14007, 4662>>, <<19548, 45588>>, "mul">>,
    <<<<27927, 23422>>, <<50408, 40268>>, <<37966, 51899>>, <<21481, 575>>, "mul_hi">>,
    <<<<11997, 55628>>, <<32368, 52052>>, <<16199, 10885>>, <<11997, 55628>>, "min">>,
    <<<<25006, 3682>>, <<57433, 27442>>, <<16199, 10885>>, <<25006, 3682>>, "min">>,
    <<<<35457, 58262>>, <<16203, 57260>>, <<52932, 28263>>, <<7737, 26792>>, "rotl">>,
    <<<<35457, 58262>>, <<32368, 52052>>, <<56295, 8183>>, <<7737, 26792>>, "rotr">>,
    <<<<42805, 12086>>, <<41195, 28741>>, <<23015, 47576>>, <<40993, 8196>>, "and">>,
    <<<<51352, 1455>>, <<25641, 7727>>, <<7132, 33961>>, <<60601, 8111>>, "or">>,
    <<<<30215, 9939>>, <<31228, 27208>>, <<50805, 51909>>, <<4091, 19611>>, "xor">>,
    <<<<30037, 7491>>, <<13187, 47668>>, <<10339, 44337>>, <<0, 3>>, "clz">>,
    <<<<59942, 2113>>, <<59692, 17591>>, <<63551, 65149>>, <<0, 27>>, "popcount">>}
FromDocs == [
    merge |-> MergeVectors, math |-> MathVectors,
    src |-> Indexed(<<26, 30, 1, 19, 11, 21, 15, 18, 3, 17, 31, 16, 28, 4,
                 22, 23, 2, 13, 29, 24, 10, 12, 5, 20, 7, 8, 14, 27, 6,
                 25, 9, 0>>),
    dst |-> Indexed(<<0, 4, 27, 26, 13, 15, 17, 7, 14, 8, 9, 12, 3, 10, 1,
                 11, 6, 16, 28, 31, 2, 19, 30, 22, 29, 5, 24, 18, 25,
                 23, 21, 20>>),
    state |-> [z |-> <<25909, 37404>>, w |-> <<10548, 23318>>,
               jsr |-> <<49373, 32632>>, jcong |-> <<4453, 55275>>],
    fill |-> (Seed600 \o <<0>>) :> <<<<4288, 12045>>, <<39305, 7326>>, <<50582, 18848>>,
            <<17392, 14669>>, <<9426, 47844>>, <<50408, 40268>>,
            <<14730, 53852>>, <<62912, 58471>>, <<31283, 726>>,
            <<58916, 23660>>, <<30215, 9939>>, <<7986, 12007>>,
            <<34112, 22545>>, <<49905, 59237>>, <<41195, 28741>>,
            <<55865, 59425>>, <<31228, 27208>>, <<2206, 16415>>,
            <<33928, 30623>>, <<55198, 16719>>, <<1050, 33387>>,
            <<12604, 3449>>, <<4114, 23100>>, <<16203, 57260>>,
            <<42805, 12086>>, <<32368, 52052>>, <<15115, 45949>>,
            <<29859, 57930>>, <<52279, 9066>>, <<42050, 45841>>,
            <<38234, 45690>>, <<27927, 23422>>>>
         @@ (Seed600 \o <<13>>) :> <<<<20038, 53341>>, <<11895, 59188>>, <<11335, 37785>>,
            <<28785, 8567>>, <<42845, 32757>>, <<48881, 36119>>,
            <<36162, 9518>>, <<13748, 64014>>, <<17964, 34058>>,
            <<11730, 46549>>, <<24370, 46572>>, <<60765, 40685>>,
            <<63970, 26718>>, <<7977, 56462>>, <<42895, 2443>>,
            <<34472, 26747>>, <<60026, 4327>>, <<48755, 11165>>,
            <<20203, 52064>>, <<38109, 32151>>, <<14756, 9705>>,
            <<49383, 33471>>, <<47739, 34575>>, <<18467, 65376>>,
            <<63866, 23068>>, <<45067, 51956>>, <<720, 63684>>,
            <<10297, 37396>>, <<46284, 45869>>, <<33696, 37170>>,
            <<10218, 33401>>, <<14391, 56739>>>>]

MCFills == DOMAIN FromDocs.fill

-----------------------------------------------------------------------------
Kern(p) == IF p = "progpow" THEN ProgPowInit
           ELSE /\ Unshuffled /\ stage = "done" /\ input = <<0, 0>>
                /\ rnd_state = SeededBy(W(0), W(0), W(0), W(0)) /\ iter = 0

MCInit == /\ part \in {"algorithms", "progpow", "kernel", "rlp"}
          /\ AlgorithmsInit
          /\ Kern(part)
          /\ KernelInit /\ (part # "kernel" => groups = 1)
          /\ RlpInit

MCNext == \/ /\ part = "algorithms" /\ AlgorithmsNext
             /\ UNCHANGED <<part, progpowVars, kernelVars, rlpVars>>
          \/ /\ part = "progpow" /\ ProgPowNext
             /\ UNCHANGED <<part, call, kernelVars, rlpVars>>
          \/ /\ part = "kernel" /\ KernelNext
             /\ UNCHANGED <<part, call, progpowVars, rlpVars>>
          \/ /\ part = "rlp" /\ RlpNext
             /\ UNCHANGED <<part, call, progpowVars, kernelVars>>

MCSpec == MCInit /\ [][MCNext]_allVars
=============================================================================
