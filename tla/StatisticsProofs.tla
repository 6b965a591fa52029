-------------------------- MODULE StatisticsProofs --------------------------
(***************************************************************************)
(* The two safety properties of Farm::collectHashRate, for any number of   *)
(* miners, hashes and reports: the mutex orders the timer's and the        *)
(* client's collections and the clearing of m_miners; only the clearing of *)
(* m_lastProgresses, which stop() does without it, can fall between a sum  *)
(* and the erase it leads to.                                              *)
(***************************************************************************)
EXTENDS Statistics, FiniteSetTheorems, TLAPS

\* The threads that call collectHashRate.
Collectors == {"timer", "client"}

Progress == [ms : Int, hashes : Nat, minersHashes : Seq(Nat)]

\* The types of what the collectors and the miners share.
Types ==
    /\ now \in Int /\ m_lastStart \in Int
    /\ miners \in {{}, Miners}
    /\ m_hashCount \in [Miners -> Nat] /\ computed \in [Miners -> Nat]
    /\ credited \in [Miners -> Nat]
    /\ DOMAIN pc = Threads /\ DOMAIN local = Threads
    /\ \A t \in Collectors : local[t] \in Progress

\* The steps of collectHashRate that hold the mutex, and all of its steps.
Holding == {"read", "push", "sum", "erase", "undefined"}
Collecting == {"collect"} \cup Holding

\* collectHashRate holds the mutex from its first read of a counter to its return.
Mutex ==
    /\ \A t \in Collectors : pc[t] \in Holding <=> x_minerWork = t
    /\ \A t \in Threads \ Collectors : pc[t] \notin Collecting

Reading(t, m) == pc[t] = "read" /\ m <= Len(local[t].minersHashes)

\* Between the reading of a counter and its resetting it holds what was credited
\* already, once more.
Counts ==
    /\ \A m \in Miners : (\A t \in Collectors : ~Reading(t, m)) =>
          credited[m] + m_hashCount[m] <= computed[m]
    /\ \A t \in Collectors, m \in Miners : Reading(t, m) =>
          /\ local[t].minersHashes[m] <= m_hashCount[m]
          /\ credited[m] + m_hashCount[m] <= computed[m] + local[t].minersHashes[m]
    /\ \A t \in Collectors : pc[t] = "read" =>
          Len(local[t].minersHashes) <= Cardinality(miners)

\* A collection starts from nothing, and comes to erase a progress only if there is one,
\* or was until stop() cleared them.
Smoothing ==
    /\ \A t \in Collectors : pc[t] = "collect" =>
          local[t].hashes = 0 /\ local[t].minersHashes = <<>>
    /\ \A t \in Collectors : pc[t] = "erase" =>
          m_lastProgresses # <<>> \/ pc["main"] = "done"

StatInv == Types /\ Mutex /\ Counts /\ Smoothing

\* Miners are counted from 1 to N.
LEMMA MinerCount ==
  /\ Cardinality({}) = 0 /\ Cardinality(Miners) = N
  /\ N \in Nat /\ N > 0
<1>1. N \in Nat /\ N > 0
  BY StatisticsAssumption
<1>2. Cardinality(1 .. N) = IF 1 > N THEN 0 ELSE N - 1 + 1
  BY <1>1, FS_Interval
<1>3. QED
  BY <1>1, <1>2, FS_EmptySet DEF Miners

\* The sum of no times is 0.
LEMMA NoTerms ==
  ASSUME NEW s, DOMAIN s = {}
  PROVE  Total(s) = 0
<1> DEFINE Step(f) == [r \in SUBSET DOMAIN s |->
                         IF r = {} THEN 0 ELSE LET x == Max(r) IN f[r \ {x}] + s[x]]
<1>1. [r \in {{}} |-> 0] = Step([r \in {{}} |-> 0])
  BY SMT
<1>2. QED
  BY <1>1, Zenon DEF Total, FoldLeft, MapThenFoldSet

\* A step that leaves the counters alone, the miners, and the collectors with their
\* progress, keeps what is said of the counters.
LEMMA CountsKept ==
  ASSUME Counts, UNCHANGED <<m_hashCount, computed, credited, miners>>,
         \A t \in Collectors : UNCHANGED <<pc[t], local[t]>>
  PROVE  Counts'
  BY DEF Counts, Reading

\* What a step of another thread may do to a collector's invariant: nothing.
Elsewhere ==
    /\ UNCHANGED <<now, m_lastStart, miners, hashVars, m_lastProgresses, x_minerWork>>
    /\ DOMAIN pc' = DOMAIN pc /\ DOMAIN local' = DOMAIN local
    /\ \A t \in Collectors : UNCHANGED <<pc[t], local[t]>>
    /\ \A t \in {"main", "loop"} :
          \/ pc'[t] = pc[t]
          \/ pc'[t] \notin Collecting /\ pc[t] # "done"

\* Steps elsewhere keep the invariant.
LEMMA ElsewhereKeeps ==
  ASSUME StatInv, Elsewhere
  PROVE  StatInv'
<1>1. Types'
  BY DEF StatInv, Types, Elsewhere, hashVars
<1>2. Mutex'
  BY DEF StatInv, Mutex, Elsewhere, Collectors, Threads, Collecting, Holding
<1>3. Counts'
  BY CountsKept DEF StatInv, Elsewhere, hashVars
<1>4. Smoothing'
  BY DEF StatInv, Smoothing, Elsewhere, Collectors
<1>5. QED
  BY <1>1, <1>2, <1>3, <1>4 DEF StatInv

\* connect, stop, the reports and a miner's solutions are steps elsewhere.
LEMMA OtherSteps ==
  ASSUME StatInv,
         \/ Connect \/ Stop \/ \E t \in Readers : Reader(t)
         \/ \E m \in Miners : Submit(m) \/ Fail(m) \/ Increment(m)
  PROVE  StatInv'
<1>0. DOMAIN pc = Threads /\ DOMAIN local = Threads
  BY DEF StatInv, Types
<1>1. CASE Connect
  BY <1>0, <1>1, ElsewhereKeeps
     DEF Connect, Goto, farmVars, hashVars, Elsewhere, Collectors, Threads, Collecting,
         Holding
<1>2. CASE Stop
  BY <1>0, <1>2, ElsewhereKeeps
     DEF Stop, Goto, farmVars, hashVars, Elsewhere, Collectors, Threads, Collecting, Holding
<1>3. CASE \E t \in Readers : Reader(t)
  <2>1. PICK t \in {"main", "loop"} : Reader(t)
    BY <1>3, StatisticsAssumption
  <2> USE DEF Goto, Keep, farmVars, hashVars, Elsewhere, Collectors, Threads, Collecting,
              Holding
  <2>2. CASE MiningProgress(t)
    BY <1>0, <2>2, ElsewhereKeeps DEF MiningProgress
  <2>3. CASE CopyTotals(t)
    BY <1>0, <2>3, ElsewhereKeeps DEF CopyTotals
  <2>4. CASE CopyMiners(t)
    BY <1>0, <2>4, ElsewhereKeeps DEF CopyMiners
  <2>5. CASE Report(t)
    BY <1>0, <2>5, ElsewhereKeeps DEF Report
  <2>6. QED
    BY <2>1, <2>2, <2>3, <2>4, <2>5 DEF Reader
<1>4. CASE \E m \in Miners : Submit(m) \/ Fail(m) \/ Increment(m)
  BY <1>4, ElsewhereKeeps DEF Submit, Fail, Increment, farmVars, hashVars, Elsewhere
<1>5. QED
  BY <1>1, <1>2, <1>3, <1>4

\* Farm::start and Farm::stop change m_miners while nobody collects.
LEMMA FarmSteps ==
  ASSUME StatInv, StartFarm \/ ClearMiners \/ ClearProgresses
  PROVE  StatInv'
<1> USE DEF Goto, hashVars, farmVars, clientVars
<1>0. /\ Types /\ Mutex /\ Counts /\ Smoothing
      /\ "main" \in Threads /\ "main" \notin Collectors
  BY DEF StatInv, Threads, Collectors
<1>1. /\ UNCHANGED <<now, m_lastStart, hashVars, x_minerWork, local>>
      /\ \E p \in {"idle", "clear", "done"} : pc' = [pc EXCEPT !["main"] = p]
  BY DEF StartFarm, ClearMiners, ClearProgresses
<1>2. miners' \in {{}, Miners}
  BY <1>0 DEF StartFarm, ClearMiners, ClearProgresses, Types
<1>3. Types'
  BY <1>0, <1>1, <1>2 DEF Types
<1>4. Mutex'
  BY <1>0, <1>1 DEF Mutex, Types, Collectors, Threads, Holding, Collecting
<1>5. \A t \in Collectors : pc'[t] = pc[t]
  BY <1>0, <1>1 DEF Types, Collectors, Threads
<1>6. Counts'
  <2>1. CASE StartFarm \/ ClearMiners
    <3>1. \A t \in Collectors : pc[t] # "read" /\ pc'[t] # "read"
      BY <1>0, <1>5, <2>1 DEF StartFarm, ClearMiners, Mutex, Collectors, Holding
    <3>2. QED
      BY <1>0, <1>1, <3>1 DEF Counts, Reading
  <2>2. CASE ClearProgresses
    BY <1>0, <1>1, <1>5, <2>2, CountsKept DEF ClearProgresses
  <2>3. QED
    BY <2>1, <2>2
<1>7. Smoothing'
  <2>1. pc["main"] # "done" /\ (ClearProgresses => pc'["main"] = "done")
    BY <1>0 DEF StartFarm, ClearMiners, ClearProgresses, Types
  <2>2. ClearProgresses \/ UNCHANGED m_lastProgresses
    BY DEF StartFarm, ClearMiners, ClearProgresses
  <2>3. QED
    BY <1>0, <1>1, <1>5, <2>1, <2>2 DEF Smoothing
<1>8. QED
  BY <1>3, <1>4, <1>6, <1>7 DEF StatInv

\* A call of collectHashRate starts with an empty progress.
LEMMA CallSteps ==
  ASSUME StatInv, Timer \/ TakeJob
  PROVE  StatInv'
<1> USE DEF Goto, Keep, hashVars, farmVars, CallCollect
<1>0. Types /\ Mutex /\ Counts /\ Smoothing
  BY DEF StatInv
<1>1. PICK t \in Collectors :
         /\ pc[t] = "idle" /\ pc' = [pc EXCEPT ![t] = "collect"]
         /\ now' \in now .. MaxTime /\ local' = [local EXCEPT ![t] = [Empty EXCEPT !.ms = now']]
         /\ UNCHANGED <<m_lastStart, miners, hashVars, m_lastProgresses, x_minerWork>>
  BY DEF Timer, TakeJob, Collectors
<1>2. /\ pc'[t] = "collect" /\ local'[t] = [ms |-> now', hashes |-> 0, minersHashes |-> <<>>]
      /\ \A u \in Threads \ {t} : pc'[u] = pc[u] /\ local'[u] = local[u]
      /\ DOMAIN pc' = Threads /\ DOMAIN local' = Threads
  BY <1>0, <1>1 DEF Types, Empty, Collectors, Threads
<1>3. now' \in Int /\ local'[t] \in Progress
  <2>1. now' \in Int
    BY <1>0, <1>1, StatisticsAssumption DEF Types
  <2>2. QED
    BY <1>2, <2>1 DEF Progress
<1>4. Types'
  BY <1>0, <1>1, <1>2, <1>3 DEF Types, Collectors, Threads
<1>5. Mutex'
  BY <1>0, <1>1, <1>2 DEF Mutex, Collectors, Threads, Holding, Collecting
<1>6. Counts'
  <2>1. \A u \in Collectors : \A m : Reading(u, m)' <=> Reading(u, m)
    BY <1>1, <1>2 DEF Reading, Collectors, Threads
  <2>2. \A u \in Collectors : pc'[u] = "read" => pc[u] = "read" /\ local'[u] = local[u]
    BY <1>1, <1>2 DEF Collectors, Threads
  <2>3. \A u \in Collectors : \A m : Reading(u, m) => local'[u] = local[u]
    BY <1>1, <1>2 DEF Reading, Collectors, Threads
  <2>4. QED
    BY <1>0, <1>1, <2>1, <2>2, <2>3 DEF Counts
<1>7. Smoothing'
  BY <1>0, <1>1, <1>2 DEF Smoothing, Collectors, Threads
<1>8. QED
  BY <1>4, <1>5, <1>6, <1>7 DEF StatInv

\* setWork, and a miner's batch: a hash is computed and counted at once.
LEMMA WorkSteps ==
  ASSUME StatInv, SetWork \/ \E m \in Miners : AddHashCount(m)
  PROVE  StatInv'
<1> USE DEF Goto, hashVars, farmVars
<1>0. Types /\ Mutex /\ Counts /\ Smoothing
  BY DEF StatInv
<1>1. CASE SetWork
  <2>1. /\ pc' = [pc EXCEPT !["client"] = "idle"] /\ pc["client"] = "setWork"
        /\ UNCHANGED <<now, m_lastStart, miners, hashVars, m_lastProgresses, x_minerWork, local>>
    BY <1>1 DEF SetWork
  <2>2. Types'
    BY <1>0, <2>1 DEF Types
  <2>3. Mutex'
    BY <1>0, <1>1, <2>1 DEF Mutex, Types, Collectors, Threads, SetWork, Holding, Collecting
  <2>4. Counts'
    <3>1. \A u \in Collectors : (pc'[u] = "read" <=> pc[u] = "read")
      BY <1>0, <2>1 DEF Types, Collectors, Threads
    <3>2. QED
      BY <1>0, <2>1, <3>1 DEF Counts, Reading
  <2>5. Smoothing'
    BY <1>0, <2>1 DEF Smoothing, Types, Collectors, Threads
  <2>6. QED
    BY <2>2, <2>3, <2>4, <2>5 DEF StatInv
<1>2. ASSUME NEW m \in Miners, AddHashCount(m) PROVE StatInv'
  <2>1. /\ m_hashCount' = [m_hashCount EXCEPT ![m] = @ + 1]
        /\ computed' = [computed EXCEPT ![m] = @ + 1]
        /\ UNCHANGED <<now, m_lastStart, miners, credited, m_lastProgresses, x_minerWork,
                       local, pc>>
    BY <1>2 DEF AddHashCount
  <2>2. Types'
    BY <1>0, <2>1 DEF Types
  <2>3. Mutex' /\ Smoothing'
    BY <1>0, <2>1 DEF Mutex, Smoothing
  <2>4. \A n \in Miners, r \in Nat :
          /\ credited[n] + m_hashCount[n] <= computed[n] + r =>
                credited'[n] + m_hashCount'[n] <= computed'[n] + r
          /\ r <= m_hashCount[n] => r <= m_hashCount'[n]
    BY <1>0, <2>1 DEF Types
  <2>5. \A n \in Miners : computed[n] + 0 = computed[n] /\ computed'[n] + 0 = computed'[n]
    BY <1>0, <2>2 DEF Types
  <2>6. \A t \in Collectors, n \in Miners : Reading(t, n) => local[t].minersHashes[n] \in Nat
    <3>1. \A t \in Collectors : /\ local[t].minersHashes \in Seq(Nat)
                                /\ Len(local[t].minersHashes) \in Nat
      BY <1>0 DEF Types, Progress
    <3>2. \A n \in Miners : n \in Nat /\ n >= 1
      BY MinerCount DEF Miners
    <3>3. QED
      BY <3>1, <3>2 DEF Reading
  <2>7. Counts'
    <3>1. ASSUME NEW n \in Miners, \A t \in Collectors : ~Reading(t, n)
          PROVE  credited'[n] + m_hashCount'[n] <= computed'[n]
      BY <1>0, <2>4, <2>5, <3>1 DEF Counts
    <3>2. QED
      BY <1>0, <2>1, <2>4, <2>6, <3>1 DEF Counts, Reading
  <2>8. QED
    BY <2>2, <2>3, <2>7 DEF StatInv
<1>3. QED
  BY <1>1, <1>2

\* collectHashRate takes the mutex.
LEMMA CollectStep ==
  ASSUME StatInv, NEW t \in Collectors, Collect(t)
  PROVE  StatInv'
<1> USE DEF Goto, Keep, hashVars
<1>0. Types /\ Mutex /\ Counts /\ Smoothing
  BY DEF StatInv
<1>1. /\ pc[t] = "collect" /\ x_minerWork = "free" /\ x_minerWork' = t
      /\ m_lastStart' = local[t].ms /\ local[t] \in Progress
      /\ UNCHANGED <<now, miners, hashVars, m_lastProgresses>>
  BY <1>0 DEF Collect, Types
<1>2. /\ pc'[t] = "read"
      /\ local'[t] = [local[t] EXCEPT !.ms = @ - m_lastStart]
      /\ \A u \in Threads \ {t} : pc'[u] = pc[u] /\ local'[u] = local[u]
      /\ DOMAIN pc' = Threads /\ DOMAIN local' = Threads
  BY <1>0 DEF Collect, Types, Collectors, Threads
<1>3. /\ local'[t] \in Progress /\ local'[t].hashes = 0 /\ local'[t].minersHashes = <<>>
      /\ local[t].ms \in Int
  <2>1. /\ local[t].ms \in Int /\ m_lastStart \in Int
        /\ local[t].hashes = 0 /\ local[t].minersHashes = <<>>
    BY <1>0, <1>1 DEF Progress, Types, Smoothing
  <2>2. /\ local'[t] = [ms |-> local[t].ms - m_lastStart, hashes |-> 0, minersHashes |-> <<>>]
        /\ local[t].ms - m_lastStart \in Int
    BY <1>1, <1>2, <2>1 DEF Progress
  <2>3. QED
    BY <2>1, <2>2 DEF Progress
<1>4. Types'
  BY <1>0, <1>1, <1>2, <1>3 DEF Types, Collectors, Threads
<1>5. Mutex'
  BY <1>0, <1>1, <1>2 DEF Mutex, Collectors, Threads, Holding, Collecting
<1>6. Counts'
  <2>1. \A u \in Collectors : pc[u] # "read" /\ (pc'[u] = "read" => u = t)
    BY <1>0, <1>1, <1>2 DEF Mutex, Collectors, Threads, Holding, Collecting
  <2>2. Len(local'[t].minersHashes) = 0
    BY <1>3
  <2>3. \A m \in Miners : m \in Nat /\ m >= 1
    BY MinerCount DEF Miners
  <2>4. \A u \in Collectors, m \in Miners : ~Reading(u, m) /\ ~Reading(u, m)'
    BY <2>1, <2>2, <2>3 DEF Reading
  <2>5. 0 <= Cardinality(miners)
    BY <1>0, MinerCount DEF Types
  <2>6. QED
    BY <1>0, <1>1, <2>1, <2>2, <2>4, <2>5 DEF Counts
<1>7. Smoothing'
  BY <1>0, <1>1, <1>2, <1>3 DEF Smoothing, Collectors, Threads
<1>8. QED
  BY <1>4, <1>5, <1>6, <1>7 DEF StatInv

\* hashCount() of the next miner is read, and credited to it.
LEMMA ReadStep ==
  ASSUME StatInv, NEW t \in Collectors, ReadCount(t)
  PROVE  StatInv'
<1> USE DEF Keep
<1>0. Types /\ Mutex /\ Counts /\ Smoothing
  BY DEF StatInv
<1>l. PICK l \in Nat, k \in Nat : l = Len(local[t].minersHashes) /\ k = l + 1
  <2>1. Len(local[t].minersHashes) \in Nat
    BY <1>0 DEF Types, Progress
  <2>2. QED
    BY <2>1
<1>1. /\ pc[t] = "read" /\ k <= Cardinality(miners)
      /\ local' = [local EXCEPT ![t] =
                     [local[t] EXCEPT !.hashes = @ + m_hashCount[k],
                                      !.minersHashes = Append(@, m_hashCount[k])]]
      /\ credited' = [credited EXCEPT ![k] = @ + m_hashCount[k]]
      /\ UNCHANGED <<now, m_lastStart, miners, m_hashCount, computed, m_lastProgresses,
                     x_minerWork, pc>>
  BY <1>l DEF ReadCount, farmVars
<1>2. /\ local[t] \in Progress /\ local[t].minersHashes \in Seq(Nat)
      /\ local[t].hashes \in Nat
  BY <1>0 DEF Types, Progress
<1>3. miners = Miners /\ k \in Miners /\ k <= N
  <2>1. k <= Cardinality(miners) /\ k >= 1
    BY <1>1, <1>l
  <2>2. miners = Miners
    BY <1>0, <2>1, MinerCount DEF Types
  <2>3. QED
    BY <2>1, <2>2, MinerCount DEF Miners
<1>4. m_hashCount[k] \in Nat
  BY <1>0, <1>3 DEF Types
<1>5. /\ local'[t] \in Progress
      /\ local'[t].minersHashes = Append(local[t].minersHashes, m_hashCount[k])
      /\ \A u \in Threads \ {t} : local'[u] = local[u]
      /\ DOMAIN local' = Threads
  <2>1. Append(local[t].minersHashes, m_hashCount[k]) \in Seq(Nat)
    BY <1>2, <1>4
  <2>2. /\ local'[t] = [local[t] EXCEPT !.hashes = @ + m_hashCount[k],
                                        !.minersHashes = Append(@, m_hashCount[k])]
        /\ \A u \in Threads \ {t} : local'[u] = local[u]
        /\ DOMAIN local' = Threads
    BY <1>0, <1>1 DEF Types, Collectors, Threads
  <2>3. local[t].hashes + m_hashCount[k] \in Nat /\ local[t].ms \in Int
    BY <1>2, <1>4 DEF Progress
  <2>4. local'[t] = [ms |-> local[t].ms, hashes |-> local[t].hashes + m_hashCount[k],
                     minersHashes |-> Append(local[t].minersHashes, m_hashCount[k])]
    BY <1>2, <2>2 DEF Progress
  <2>5. QED
    BY <2>1, <2>2, <2>3, <2>4 DEF Progress
<1>6. Types'
  <2>1. credited' \in [Miners -> Nat]
    BY <1>0, <1>1, <1>3, <1>4 DEF Types
  <2>2. QED
    BY <1>0, <1>1, <1>5, <2>1 DEF Types, Collectors, Threads
<1>7. Mutex'
  BY <1>0, <1>1 DEF Mutex
<1>8. /\ Len(local'[t].minersHashes) = k
      /\ local'[t].minersHashes[k] = m_hashCount[k]
      /\ \A m \in 1 .. l : local'[t].minersHashes[m] = local[t].minersHashes[m]
  BY <1>l, <1>2, <1>4, <1>5
<1>9. \A u \in Collectors : pc[u] = "read" => u = t
  BY <1>0, <1>1 DEF Mutex, Collectors, Holding
<1>10. \A m \in Miners : m \in Nat /\ m >= 1
  BY MinerCount DEF Miners
<1>11. \A m \in Miners : m \in 1 .. l \/ m = k \/ m > k
  BY <1>l, <1>10
<1>12. Counts'
  <2>1. ASSUME NEW m \in Miners, m \in 1 .. l
        PROVE  /\ Reading(t, m)' /\ local'[t].minersHashes[m] <= m_hashCount'[m]
               /\ credited'[m] + m_hashCount'[m] <= computed'[m] + local'[t].minersHashes[m]
    <3>1. Reading(t, m) /\ m # k /\ m <= k
      BY <1>1, <1>l, <2>1 DEF Reading
    <3>2. credited'[m] = credited[m]
      BY <1>0, <1>1, <3>1 DEF Types
    <3>3. Reading(t, m)'
      BY <1>1, <1>8, <3>1 DEF Reading
    <3>4. QED
      BY <1>0, <1>1, <1>8, <2>1, <3>1, <3>2, <3>3 DEF Counts
  <2>2. /\ Reading(t, k)' /\ local'[t].minersHashes[k] <= m_hashCount'[k]
        /\ credited'[k] + m_hashCount'[k] <= computed'[k] + local'[t].minersHashes[k]
    <3>1. \A u \in Collectors : ~Reading(u, k)
      BY <1>l, <1>9 DEF Reading
    <3>2. credited[k] + m_hashCount[k] <= computed[k]
      BY <1>0, <1>3, <3>1 DEF Counts
    <3>3. credited'[k] = credited[k] + m_hashCount[k]
      BY <1>0, <1>1, <1>3 DEF Types
    <3>4. credited[k] \in Nat /\ computed[k] \in Nat
      BY <1>0, <1>3 DEF Types
    <3>5. Reading(t, k)'
      <4>1. k <= k
        BY <1>l
      <4>2. QED
        BY <1>1, <1>8, <4>1 DEF Reading
    <3>6. QED
      BY <1>1, <1>4, <1>8, <3>2, <3>3, <3>4, <3>5
  <2>3. ASSUME NEW m \in Miners, m > k
        PROVE  /\ \A u \in Collectors : ~Reading(u, m)'
               /\ credited'[m] + m_hashCount'[m] <= computed'[m]
    <3>1. m # k /\ ~(m <= l) /\ ~(m <= k)
      BY <1>l, <1>10, <2>3
    <3>2. \A u \in Collectors : ~Reading(u, m) /\ ~Reading(u, m)'
      BY <1>1, <1>l, <1>8, <1>9, <3>1 DEF Reading
    <3>3. credited'[m] = credited[m]
      BY <1>0, <1>1, <3>1 DEF Types
    <3>4. QED
      BY <1>0, <1>1, <3>2, <3>3 DEF Counts
  <2>4. \A u \in Collectors : pc'[u] = "read" =>
           Len(local'[u].minersHashes) <= Cardinality(miners')
    BY <1>1, <1>8, <1>9
  <2>5. \A u \in Collectors, m \in Miners : Reading(u, m)' => u = t
    BY <1>1, <1>9 DEF Reading
  <2>6. QED
    BY <1>11, <2>1, <2>2, <2>3, <2>4, <2>5 DEF Counts
<1>13. Smoothing'
  <2>1. \A u \in Collectors : pc[u] = "collect" => local'[u] = local[u]
    BY <1>1, <1>5 DEF Collectors, Threads
  <2>2. QED
    BY <1>0, <1>1, <2>1 DEF Smoothing
<1>14. QED
  BY <1>6, <1>7, <1>12, <1>13 DEF StatInv

\* resetHashCount() drops at most what was computed since the counter was read.
LEMMA ResetStep ==
  ASSUME StatInv, NEW t \in Collectors, ResetCounts(t)
  PROVE  StatInv'
<1> USE DEF Goto
<1>0. Types /\ Mutex /\ Counts /\ Smoothing
  BY DEF StatInv
<1>1. /\ pc[t] = "read" /\ Len(local[t].minersHashes) = Cardinality(miners)
      /\ m_hashCount' = [m \in Miners |-> IF m \in miners THEN 0 ELSE m_hashCount[m]]
      /\ UNCHANGED <<now, m_lastStart, miners, computed, credited, m_lastProgresses,
                     x_minerWork, local>>
  BY DEF ResetCounts, farmVars
<1>2. /\ pc'[t] = "push" /\ \A u \in Threads \ {t} : pc'[u] = pc[u]
      /\ DOMAIN pc' = Threads
  BY <1>0 DEF ResetCounts, Types, Collectors, Threads
<1>3. Types'
  BY <1>0, <1>1, <1>2 DEF Types
<1>4. Mutex'
  BY <1>0, <1>1, <1>2 DEF Mutex, Collectors, Threads, Holding, Collecting
<1>5. \A u \in Collectors : (pc[u] = "read" => u = t) /\ pc'[u] # "read"
  BY <1>0, <1>1, <1>2 DEF Mutex, Collectors, Threads, Holding, Collecting
<1>6. \A m \in Miners : m \in Nat /\ m >= 1 /\ m <= N
  BY MinerCount DEF Miners
<1>7. ASSUME NEW m \in Miners PROVE credited[m] + m_hashCount'[m] <= computed[m]
  <2>1. credited[m] \in Nat /\ computed[m] \in Nat /\ m_hashCount[m] \in Nat
    BY <1>0 DEF Types
  <2>2. CASE miners = {}
    <3>1. \A u \in Collectors : ~Reading(u, m)
      <4>1. Len(local[t].minersHashes) = 0 /\ ~(m <= 0)
        BY <1>1, <1>6, <2>2, MinerCount
      <4>2. QED
        BY <1>5, <4>1 DEF Reading
    <3>2. m_hashCount'[m] = m_hashCount[m]
      BY <1>1, <2>2
    <3>3. QED
      BY <1>0, <3>1, <3>2 DEF Counts
  <2>3. CASE miners = Miners
    <3>1. Reading(t, m)
      BY <1>1, <1>6, <2>3, MinerCount DEF Reading
    <3>2. /\ local[t].minersHashes[m] <= m_hashCount[m]
          /\ credited[m] + m_hashCount[m] <= computed[m] + local[t].minersHashes[m]
      BY <1>0, <3>1 DEF Counts
    <3>3. local[t].minersHashes[m] \in Nat
      <4>1. local[t].minersHashes \in Seq(Nat)
        BY <1>0 DEF Types, Progress
      <4>2. m \in 1 .. Len(local[t].minersHashes)
        BY <1>6, <3>1, <4>1 DEF Reading
      <4>3. QED
        BY <4>1, <4>2
    <3>4. m_hashCount'[m] = 0
      BY <1>1, <2>3
    <3>5. QED
      BY <2>1, <3>2, <3>3, <3>4
  <2>4. QED
    BY <1>0, <2>2, <2>3 DEF Types
<1>8. Counts'
  BY <1>1, <1>5, <1>7 DEF Counts, Reading
<1>9. Smoothing'
  BY <1>0, <1>1, <1>2 DEF Smoothing, Collectors, Threads
<1>10. QED
  BY <1>3, <1>4, <1>8, <1>9 DEF StatInv

\* The steps of collectHashRate after the resetting: none reads a counter, and one that
\* is left on the mutex section's way out returns the mutex.
LEMMA LateSteps ==
  ASSUME StatInv, NEW t \in Collectors,
         PushProgress(t) \/ Sum(t) \/ Erase(t) \/ EraseNothing(t)
  PROVE  StatInv'
<1> USE DEF Goto, Keep, hashVars, farmVars, Return
<1>0. Types /\ Mutex /\ Counts /\ Smoothing
  BY DEF StatInv
<1>1. /\ pc[t] \in {"push", "sum", "erase"}
      /\ UNCHANGED <<now, m_lastStart, miners, hashVars>>
  BY DEF PushProgress, Sum, Erase, EraseNothing
<1>2. /\ \/ pc'[t] \in {"setWork", "idle"} /\ local'[t] = Empty /\ x_minerWork' = "free"
         \/ pc'[t] \in {"sum", "erase", "undefined"} /\ UNCHANGED <<local, x_minerWork>>
      /\ \A u \in Threads \ {t} : pc'[u] = pc[u] /\ local'[u] = local[u]
      /\ DOMAIN pc' = Threads /\ DOMAIN local' = Threads
  <2>1. DOMAIN pc = Threads /\ DOMAIN local = Threads /\ t \in Threads
    BY <1>0 DEF Types, Collectors, Threads
  <2>2. CASE PushProgress(t)
    BY <2>1, <2>2 DEF PushProgress
  <2>3. CASE Sum(t)
    BY <2>1, <2>3 DEF Sum
  <2>4. CASE Erase(t)
    BY <2>1, <2>4 DEF Erase
  <2>5. CASE EraseNothing(t)
    BY <2>1, <2>5 DEF EraseNothing
  <2>6. QED
    BY <2>2, <2>3, <2>4, <2>5
<1>3. Empty \in Progress
  BY DEF Empty, Progress
<1>4. Types'
  BY <1>0, <1>1, <1>2, <1>3 DEF Types, Collectors, Threads
<1>5. x_minerWork = t
  BY <1>0, <1>1 DEF Mutex, Holding
<1>6. Mutex'
  BY <1>0, <1>1, <1>2, <1>5 DEF Mutex, Collectors, Threads, Holding, Collecting
<1>7. Counts'
  <2>1. \A u \in Collectors : pc[u] # "read" /\ pc'[u] # "read"
    BY <1>0, <1>1, <1>2, <1>5 DEF Mutex, Collectors, Threads, Holding
  <2>2. QED
    BY <1>0, <1>1, <2>1 DEF Counts, Reading
<1>8. Smoothing'
  <2>1. pc'["main"] = pc["main"] /\ \A u \in Collectors \ {t} : pc[u] # "erase"
    BY <1>0, <1>2, <1>5 DEF Collectors, Threads, Mutex, Holding
  <2>2. ASSUME pc'[t] = "erase" PROVE m_lastProgresses' # <<>>
    <3>1. Sum(t)
      BY <1>0, <2>2
         DEF PushProgress, Erase, EraseNothing, Types, Collectors, Threads
    <3> DEFINE times == [k \in DOMAIN m_lastProgresses |-> m_lastProgresses[k].ms]
    <3>2. Exceeds(Total(times)) /\ UNCHANGED m_lastProgresses
      BY <1>0, <2>2, <3>1 DEF Sum, Types, Collectors, Threads
    <3>3. ASSUME m_lastProgresses = <<>> PROVE FALSE
      <4>1. DOMAIN times = {}
        BY <3>3
      <4>2. Total(times) = 0
        BY <4>1, NoTerms
      <4>3. QED
        BY <3>2, <4>2, StatisticsAssumption DEF Exceeds
    <3>4. QED
      BY <3>2, <3>3
  <2>3. QED
    BY <1>0, <1>2, <2>1, <2>2 DEF Smoothing, Collectors, Threads
<1>9. QED
  BY <1>4, <1>6, <1>7, <1>8 DEF StatInv

\* At the start nothing is counted and nobody collects.
LEMMA InitStat == Init => StatInv
<1> SUFFICES ASSUME Init PROVE StatInv
  OBVIOUS
<1>1. Empty \in Progress
  BY DEF Empty, Progress
<1>2. Types
  BY <1>1 DEF Init, Types, Zeros, Threads, Collectors
<1>3. Mutex
  BY DEF Init, Mutex, Threads, Collectors, Holding, Collecting
<1>4. Counts
  BY DEF Init, Counts, Reading, Zeros, Threads, Collectors
<1>5. Smoothing
  BY DEF Init, Smoothing, Threads, Collectors
<1>6. QED
  BY <1>2, <1>3, <1>4, <1>5 DEF StatInv

\* Every step keeps the invariant.
LEMMA StatInvariance == Spec => []StatInv
<1>1. ASSUME StatInv, Next PROVE StatInv'
  BY <1>1, OtherSteps, FarmSteps, CallSteps, WorkSteps, CollectStep, ReadStep, ResetStep,
     LateSteps DEF Next, ClientStep, Collector, Collectors
<1>2. StatInv /\ UNCHANGED vars => StatInv'
  BY DEF StatInv, Types, Mutex, Counts, Reading, Smoothing, vars, farmVars, hashVars
<1>3. QED
  BY InitStat, <1>1, <1>2, PTL DEF Spec

\* However the timer, the pool client and any number of miners interleave, outside the
\* mutex section of collectHashRate no miner has been credited with, and still counts,
\* more hashes than it computed.
THEOREM NoHashTwice == Spec => []HashesCountedOnce
<1>1. StatInv => HashesCountedOnce
  BY DEF StatInv, Counts, Reading, HashesCountedOnce, Collectors, Threads
<1>2. QED
  BY StatInvariance, <1>1, PTL

\* However many threads collect, and whatever the clock and the wrapping of the times do,
\* collectHashRate erases a progress that is there, unless Farm::stop has cleared the
\* vector without the mutex between the sum and the erase.
THEOREM ErasesWhatIsThere == Spec => []EraseFindsProgress
<1>1. StatInv => EraseFindsProgress
  BY DEF StatInv, Smoothing, Mutex, Collecting, Holding, EraseFindsProgress
<1>2. QED
  BY StatInvariance, <1>1, PTL
=============================================================================
