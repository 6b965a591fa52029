-------------------------- MODULE CudaMinerProofs ---------------------------
(***************************************************************************)
(* The CUDA miner, for every number of streams and every set of packages:  *)
(* no result is submitted under a header or a nonce it was not computed    *)
(* for, no kick is lost, and the miner is a MinerService.                  *)
(***************************************************************************)
EXTENDS CudaMiner, TLAPS

Shape ==
    /\ m_work \in Work \cup {NoWork} /\ w \in Work \cup {NoWork}
    /\ current \in Work \cup {NoCurrent}
    /\ m_new_work \in BOOLEAN /\ stopping \in BOOLEAN
    /\ setter \in {"idle", "kick"}
    /\ pc \in {"take", "decide", "launch", "submit", "check", "done"}
    /\ m_current_index \in Nat
    /\ DOMAIN streams = StreamIds

\* What is in flight was launched for the header being searched.
FlightsAreCurrent == \A s \in StreamIds :
    streams[s] # Idle => streams[s].header = m_current_header

\* While searching, the three copies of the header agree.
CopiesAgree == Searching => /\ w \in Work
                            /\ w.header = current.header
                            /\ m_current_header = current.header

\* A result exists only between the launch and the submission.
ResultIsCurrent ==
    found # Nothing => pc = "submit" /\ found.header = m_current_header

\* The kick invariant, from the moment the copy is taken.
LatestOrKicked ==
    pc \in {"decide", "launch", "submit", "check"} /\ ~m_new_work /\ setter = "idle"
        => w = m_work

IInv == Shape /\ FlightsAreCurrent /\ CopiesAgree /\ ResultIsCurrent /\ LatestOrKicked

\* Every initial state satisfies the inductive invariant.
LEMMA InitIInv == Init => IInv
  <1> SUFFICES ASSUME Init PROVE IInv
    OBVIOUS
  <1>1. Shape
    BY DEF Init, Shape
  <1>2. FlightsAreCurrent /\ ResultIsCurrent
    BY DEF Init, FlightsAreCurrent, ResultIsCurrent
  <1>3. CopiesAgree /\ LatestOrKicked
    BY DEF Init, CopiesAgree, LatestOrKicked, Searching
  <1>4. QED
    BY <1>1, <1>2, <1>3 DEF IInv

\* The stream a turn of the search loop uses exists.
LEMMA StreamInRange ==
  ASSUME NEW i \in Nat
  PROVE  NextIndex(i) \in Nat /\ NextIndex(i) % NumStreams \in StreamIds
  BY StreamsAssumption DEF NextIndex, StreamIds

\* Every step of the farm or the miner preserves the inductive invariant.
LEMMA NextIInv ==
  ASSUME IInv, [Next]_vars
  PROVE  IInv'
  <1> USE DEF IInv, Shape, FlightsAreCurrent, CopiesAgree, ResultIsCurrent,
              LatestOrKicked, Searching, farmVars, searchVars
  <1>1. ASSUME NEW p \in Work, SetWork(p)
        PROVE  IInv'
    BY <1>1 DEF SetWork
  <1>2. CASE Kick
    BY <1>2 DEF Kick
  <1>3. CASE Stop
    BY <1>3 DEF Stop
  <1>4. CASE TakeWork
    BY <1>4 DEF TakeWork
  <1>5. CASE SkipNoWork
    BY <1>5 DEF SkipNoWork
  <1>6. CASE InitFails
    BY <1>6 DEF InitFails
  <1>7. CASE AdoptWork
    <2>1. /\ w \in Work /\ w.header \in Headers
          /\ current' \in Work /\ current'.header = w.header
      BY <1>7, HeaderAssumption DEF AdoptWork, Work, NoWork, NoCurrent
    <2>2. /\ m_current_header' = current'.header
          /\ m_current_index' \in Nat
          /\ DOMAIN streams' = StreamIds
      BY <1>7 DEF AdoptWork, BeginSearch
    <2>3. FlightsAreCurrent'
      BY <1>7 DEF AdoptWork, BeginSearch
    <2>4. found' = Nothing /\ pc' = "launch" /\ UNCHANGED <<farmVars, w>>
      BY <1>7 DEF AdoptWork
    <2>5. QED
      BY <1>7, <2>1, <2>2, <2>3, <2>4 DEF AdoptWork
  <1>8. CASE Launch
    <2> DEFINE i == NextIndex(m_current_index)
               s == i % NumStreams
               n == NextNonce(m_current_nonce, Device)
    <2>1. i \in Nat /\ s \in StreamIds
      BY StreamInRange
    <2>2. /\ streams' = [streams EXCEPT ![s] = [header |-> m_current_header,
                                                base |-> KernelNonce(n)]]
          /\ m_current_index' = i
          /\ pc = "launch" /\ pc' \in {"submit", "launch"}
          /\ UNCHANGED <<farmVars, w, current, m_current_header>>
      BY <1>8 DEF Launch
    <2>3. FlightsAreCurrent' /\ DOMAIN streams' = StreamIds
      <3> HIDE DEF i, s, n
      <3> QED  BY <2>1, <2>2
    <2>4. ResultIsCurrent'
      <3>1. CASE found' = Nothing
        BY <3>1
      <3>2. CASE /\ i >= NumStreams /\ streams[s] # Idle
                 /\ found' = [header |-> streams[s].header, base |-> streams[s].base,
                              nonce |-> NonceBase(n)]
        <4>1. found'.header = m_current_header
          BY <3>2, <2>1
        <4>2. pc' = "submit"
          BY <1>8, <3>2 DEF Launch
        <4>3. QED
          BY <4>1, <4>2, <2>2
      <3>3. QED
        BY <1>8, <3>1, <3>2 DEF Launch
    <2>5. Shape' /\ CopiesAgree' /\ LatestOrKicked'
      <3> HIDE DEF i, s, n
      <3> QED  BY <2>1, <2>2, <2>3
    <2>6. QED
      BY <2>3, <2>4, <2>5
  <1>9. CASE Submit
    BY <1>9 DEF Submit
  <1>10. CASE CheckNewWork
    BY <1>10 DEF CheckNewWork
  <1>11. CASE UNCHANGED vars
    BY <1>11 DEF vars
  <1>12. QED
    BY <1>1, <1>2, <1>3, <1>4, <1>5, <1>6, <1>7, <1>8, <1>9, <1>10, <1>11
       DEF Next, Miner, Ended

\* The inductive invariant holds in every reachable state.
THEOREM Invariance == Spec => []IInv
  BY InitIInv, NextIInv, PTL DEF Spec

\* No solution is submitted under a package whose header the kernel did not
\* hash, whenever setWork replaces the work.
THEOREM NoMisattributedSolution == Spec => []SolutionsBelongToWork
  <1>1. IInv => SolutionsBelongToWork
    BY DEF IInv, ResultIsCurrent, CopiesAgree, Searching, SolutionsBelongToWork
  <1>2. QED
    BY <1>1, Invariance, PTL

\* setWork's store followed by its kick, against the miner's test-and-clear of
\* the kick followed by its load, never leaves a miner on old work unkicked.
THEOREM NoLostKick == Spec => []KickIsNotLost
  <1>1. IInv => KickIsNotLost
    BY DEF IInv, LatestOrKicked, Searching, KickIsNotLost
  <1>2. QED
    BY <1>1, Invariance, PTL

-----------------------------------------------------------------------------
(* The nonce a result is reported with.                                    *)

\* A quotient is not below another of the same number.
LEMMA QuotientNotBelow ==
  ASSUME NEW d \in Nat \ {0}, NEW q \in Int, NEW p \in Int, NEW r \in Int, NEW s \in Int,
         0 <= r, r < d, 0 <= s, s < d, q * d + r = p * d + s
  PROVE  ~(q < p)
<1> SUFFICES ASSUME q < p PROVE FALSE
  OBVIOUS
<1>1. PICK k \in Nat : p = q + 1 + k
  <2>1. p - q - 1 \in Nat
    OBVIOUS
  <2>2. QED
    BY <2>1
<1>2. p * d = q * d + d + k * d
  BY <1>1
<1>3. k * d >= 0 /\ q * d \in Int /\ k * d \in Int
  OBVIOUS
<1>4. QED
  BY <1>2, <1>3

\* Quotient and remainder are unique.
LEMMA DivMod ==
  ASSUME NEW d \in Nat \ {0}, NEW q \in Int, NEW r \in 0 .. d - 1
  PROVE  (q * d + r) % d = r /\ (q * d + r) \div d = q
<1> DEFINE a == q * d + r
<1>1. a \in Int
  OBVIOUS
<1>2. /\ a = (a \div d) * d + (a % d) /\ a \div d \in Int
      /\ a % d \in Int /\ 0 <= a % d /\ a % d < d
  <2> HIDE DEF a
  <2>1. QED
    BY <1>1
<1>3. ~(q < a \div d) /\ ~(a \div d < q)
  BY <1>2, QuotientNotBelow
<1>4. q = a \div d
  BY <1>2, <1>3
<1>5. a % d = a - q * d
  <2> HIDE DEF a
  <2>1. QED
    BY <1>1, <1>2, <1>4
<1>6. QED
  BY <1>4, <1>5

\* The range of the nonces a device tries: Low of them, above DevBits.
DevBits == (Device % Devs) * Low

\* The device bits leave room for the low ones.
LEMMA Fields ==
  /\ Low * Devs \in Nat \ {0} /\ Space = High * (Low * Devs)
  /\ DevBits \in Nat /\ DevBits + Low <= Low * Devs
  /\ max_nonce \in 0 .. Word - 1
<1>1. Low * Devs \in Nat \ {0} /\ Space = High * (Low * Devs)
  BY NonceAssumption DEF Space
<1>2. Device % Devs \in 0 .. Devs - 1
  BY NonceAssumption, StartAssumption
<1>3. DevBits \in Nat
  BY <1>2, NonceAssumption DEF DevBits
<1>4. PICK k \in Nat : Devs = (Device % Devs) + 1 + k
  <2>1. Devs - (Device % Devs) - 1 \in Nat
    BY <1>2, NonceAssumption
  <2>2. QED
    BY <1>2, <2>1, NonceAssumption
<1>5. Low * Devs = DevBits + Low + Low * k
  <2> DEFINE e == Device % Devs
  <2>1. e \in Nat /\ Devs = e + 1 + k /\ DevBits = e * Low
    BY <1>2, <1>4, NonceAssumption DEF DevBits
  <2> HIDE DEF e
  <2>2. Low * Devs = Low * (e + 1 + k)
    BY <2>1
  <2>3. QED
    BY <1>4, <2>1, <2>2, NonceAssumption
<1>6. Low * k \in Nat
  BY <1>4, NonceAssumption
<1>7. DevBits + Low <= Low * Devs
  BY <1>3, <1>5, <1>6, NonceAssumption
<1>8. max_nonce \in 0 .. Word - 1
  <2>1. (15 * Low) \div 16 - 1 \in Int
    BY NonceAssumption
  <2>2. QED
    BY <2>1, NonceAssumption DEF max_nonce
<1>9. QED
  BY <1>1, <1>3, <1>7, <1>8

\* Where a nonce lies above the device bits.
LEMMA HighPart ==
  ASSUME NEW n \in 0 .. Space - 1
  PROVE  /\ n \div (Low * Devs) \in 0 .. High - 1
         /\ n = (n \div (Low * Devs)) * (Low * Devs) + KernelNonce(n)
         /\ KernelNonce(n) \in 0 .. Low * Devs - 1
<1> DEFINE D == Low * Devs
           q == n \div D
<1>1. D \in Nat \ {0} /\ Space = High * D /\ n \in Nat /\ High \in Nat \ {0}
  BY Fields, NonceAssumption
<1>2. n = q * D + KernelNonce(n) /\ q \in Nat /\ KernelNonce(n) \in 0 .. D - 1
  <2> HIDE DEF D
  <2>1. KernelNonce(n) = n % D
    BY DEF KernelNonce, D
  <2>2. QED
    BY <1>1, <2>1
<1>3. q < High
  <2> SUFFICES ASSUME q >= High PROVE FALSE
    BY <1>1, <1>2
  <2> HIDE DEF D, q
  <2>1. PICK k \in Nat : q = High + k
    <3>1. q - High \in Nat
      BY <1>1, <1>2
    <3>2. QED
      BY <3>1, <1>1, <1>2
  <2>2. q * D = High * D + k * D /\ k * D \in Nat /\ High * D \in Nat
    BY <1>1, <2>1
  <2>3. QED
    BY <1>1, <1>2, <2>2
<1>4. QED
  BY <1>1, <1>2, <1>3

\* A nonce below the end of its device's range is below the end of all.
LEMMA InSpace ==
  ASSUME NEW q \in 0 .. High - 1, NEW r \in 0 .. Low * Devs - 1
  PROVE  q * (Low * Devs) + r \in 0 .. Space - 1 /\ KernelNonce(q * (Low * Devs) + r) = r
<1> DEFINE D == Low * Devs
<1>1. D \in Nat \ {0} /\ Space = High * D /\ High \in Nat \ {0}
  BY Fields, NonceAssumption
<1>2. PICK k \in Nat : High = q + 1 + k
  <2>1. High - q - 1 \in Nat
    BY <1>1
  <2>2. QED
    BY <2>1, <1>1
<1>3. Space = q * D + D + k * D /\ k * D \in Nat /\ q * D \in Nat
  <2> HIDE DEF D
  <2>1. QED
    BY <1>1, <1>2
<1>4. (q * D + r) % D = r
  BY <1>1, DivMod
<1>5. QED
  BY <1>1, <1>3, <1>4 DEF KernelNonce

\* A step of the counter: the device bits are put in and the low bits stay within
\* max_nonce, wherever the counter was ...
LEMMA NextNonceInRange ==
  ASSUME NEW n \in 0 .. Space - 1
  PROVE  /\ NextNonce(n, Device) \in 0 .. Space - 1
         /\ KernelNonce(NextNonce(n, Device)) - DevBits \in 0 .. max_nonce
         /\ KernelNonce(NextNonce(n, Device)) \in 0 .. Low * Devs - 1
<1> DEFINE stepped == (n + Batch) % Space
           wrapped == IF stepped % Low > max_nonce THEN 0 ELSE stepped
           l == wrapped % Low
           q == wrapped \div (Low * Devs)
<1>1. stepped \in 0 .. Space - 1
  BY NonceAssumption
<1>2. wrapped \in 0 .. Space - 1 /\ wrapped \in Nat
  BY <1>1, NonceAssumption
<1>3. l \in Nat /\ l < Low
  <2> HIDE DEF wrapped
  <2>1. QED
    BY <1>2, NonceAssumption
<1>4. l <= max_nonce
  <2>1. CASE stepped % Low > max_nonce
    <3>1. l = 0
      BY <2>1, NonceAssumption
    <3>2. QED
      BY <3>1, Fields
  <2>2. CASE ~(stepped % Low > max_nonce)
    <3>1. l = stepped % Low
      BY <2>2
    <3> HIDE DEF wrapped, l, stepped
    <3>2. stepped % Low \in Nat
      BY <1>1, NonceAssumption
    <3>3. QED
      BY <2>2, <3>1, <3>2, Fields
  <2>3. QED
    BY <2>1, <2>2
<1>5. q \in 0 .. High - 1
  <2> HIDE DEF wrapped
  <2>1. QED
    BY <1>2, HighPart
<1>6. DevBits + l \in 0 .. Low * Devs - 1
  <2> HIDE DEF l
  <2>1. QED
    BY <1>3, Fields, NonceAssumption
<1>7. NextNonce(n, Device) = q * (Low * Devs) + (DevBits + l)
  <2>1. NextNonce(n, Device) = q * (Low * Devs) + (Device % Devs) * Low + l
    BY DEF NextNonce
  <2> HIDE DEF l, q
  <2>2. q * (Low * Devs) \in Int
    BY <1>5, Fields
  <2>3. QED
    BY <1>3, <2>1, <2>2, Fields DEF DevBits
<1>8. QED
  <2> HIDE DEF l, q
  <2>1. /\ NextNonce(n, Device) \in 0 .. Space - 1
        /\ KernelNonce(NextNonce(n, Device)) = DevBits + l
    BY <1>5, <1>6, <1>7, InSpace
  <2>2. QED
    BY <1>3, <1>4, <1>6, <2>1, Fields

\* ... and once they are, a step adds a batch or starts again at 0.
LEMMA NextNonceSteps ==
  ASSUME NEW n \in 0 .. Space - 1, KernelNonce(n) - DevBits \in 0 .. max_nonce
  PROVE  KernelNonce(NextNonce(n, Device)) - DevBits =
            IF KernelNonce(n) - DevBits + Batch <= max_nonce
            THEN KernelNonce(n) - DevBits + Batch ELSE 0
<1> DEFINE D == Low * Devs
           q == n \div D
           l == KernelNonce(n) - DevBits
           r == DevBits + l + Batch
<1>1. /\ q \in 0 .. High - 1 /\ n = q * D + (DevBits + l)
      /\ l \in 0 .. max_nonce
  BY HighPart, Fields
<1>2. l + Batch \in 0 .. Low - 1 /\ Batch \in Nat /\ Low \in Nat \ {0}
  <2> HIDE DEF l
  <2>1. QED
    BY <1>1, PipelineAssumption, NonceAssumption, Fields
<1>3. r \in 0 .. D - 1
  <2> HIDE DEF l, D
  <2>1. D = Low * Devs
    BY DEF D
  <2>2. QED
    BY <1>1, <1>2, <2>1, Fields
<1>4. n + Batch = q * D + r
  <2> HIDE DEF l, q, D
  <2>1. q * D \in Int
    BY <1>1, Fields DEF D
  <2>2. QED
    BY <1>1, <1>2, <2>1, Fields
<1>5. n + Batch \in 0 .. Space - 1
  <2> HIDE DEF q, r
  <2>1. QED
    BY <1>1, <1>3, <1>4, InSpace
<1>6. (n + Batch) % Space = n + Batch
  <2>1. Space \in Nat \ {0}
    BY NonceAssumption
  <2> HIDE DEF q, r, l
  <2>2. n + Batch \in 0 .. Space - 1
    BY <1>5
  <2>3. (0 * Space + (n + Batch)) % Space = n + Batch
    BY <2>1, <2>2, DivMod
  <2>4. QED
    BY <1>2, <2>1, <2>3
<1>7. (n + Batch) % Low = l + Batch
  <2> DEFINE k == q * Devs + (Device % Devs)
  <2>1. k \in Int /\ q \in Int /\ Device % Devs \in Int /\ Devs \in Int /\ l \in Int
    <3> HIDE DEF q, l
    <3>1. QED
      BY <1>1, NonceAssumption, StartAssumption
  <2>2. n + Batch = k * Low + (l + Batch)
    <3> HIDE DEF q, l
    <3>1. n + Batch = q * (Low * Devs) + (Device % Devs) * Low + (l + Batch)
      BY <1>2, <1>4, <2>1 DEF DevBits
    <3>2. QED
      BY <1>2, <2>1, <3>1
  <2> HIDE DEF k, l
  <2>3. QED
    BY <1>2, <2>1, <2>2, DivMod
<1> DEFINE wrapped == IF l + Batch > max_nonce THEN 0 ELSE n + Batch
<1>8. NextNonce(n, Device) = (wrapped \div D) * D + (Device % Devs) * Low + (wrapped % Low)
  <2> HIDE DEF l
  <2>1. QED
    BY <1>6, <1>7 DEF NextNonce
<1>9. CASE l + Batch > max_nonce
  <2>1. wrapped = 0
    BY <1>9
  <2>2. 0 \div D = 0 /\ 0 % Low = 0
    BY NonceAssumption, Fields
  <2>3. NextNonce(n, Device) = 0 * D + DevBits
    <3> HIDE DEF wrapped
    <3>1. QED
      BY <1>8, <2>1, <2>2, Fields DEF DevBits
  <2>4. DevBits \in 0 .. D - 1 /\ 0 \in 0 .. High - 1
    BY Fields, NonceAssumption
  <2>5. KernelNonce(NextNonce(n, Device)) = DevBits
    BY <2>3, <2>4, InSpace
  <2>6. /\ KernelNonce(NextNonce(n, Device)) - DevBits = 0
            /\ (l + Batch <= max_nonce <=> FALSE)
    <3> HIDE DEF l
    <3>1. QED
      BY <1>1, <1>2, <1>9, <2>5, Fields, NonceAssumption
  <2>7. QED
    BY <2>6
<1>10. CASE ~(l + Batch > max_nonce)
  <2>1. wrapped = n + Batch
    BY <1>10
  <2>2. wrapped \div D = q /\ wrapped % Low = l + Batch
    <3> HIDE DEF wrapped, q, r, l, D
    <3>1. D \in Nat \ {0} /\ q \in Int
      BY Fields, <1>1 DEF D
    <3>2. QED
      BY <1>3, <1>4, <1>7, <2>1, <3>1, DivMod
  <2>3. NextNonce(n, Device) = q * D + r
    <3> HIDE DEF wrapped, q, l, D
    <3>1. q * D \in Int
      BY <1>1, Fields DEF D
    <3>2. QED
      BY <1>1, <1>2, <1>8, <2>2, <3>1, Fields DEF DevBits
  <2>4. KernelNonce(NextNonce(n, Device)) = r
    <3> HIDE DEF q, r
    <3>1. QED
      BY <1>1, <1>3, <2>3, InSpace
  <2>5. /\ KernelNonce(NextNonce(n, Device)) - DevBits = l + Batch
            /\ (l + Batch <= max_nonce <=> TRUE)
    <3> HIDE DEF l
    <3>1. QED
      BY <1>1, <1>2, <1>10, <2>4, Fields, NonceAssumption
  <2>6. QED
    BY <2>5
<1>11. QED
  <2> HIDE DEF l
  <2>1. QED
    BY <1>9, <1>10

\* The stream of a launch, without the division: m_current_index is folded below
\* 2 * NumStreams.
Ring(i) == IF i < NumStreams THEN i ELSE i - NumStreams

\* How many launches ago stream s was launched, once launch number i is done.
Age(i, s) == IF s <= Ring(i) THEN Ring(i) - s ELSE Ring(i) + NumStreams - s

\* Low bits l were launched k batches before low bits c: they are k batches behind
\* them, or the counter has started again since and they are ahead.
Behind(l, k, c) == l + k * Batch = c \/ l + k * Batch > max_nonce + c

LowBits(n) == KernelNonce(n) - DevBits
FlightBits(s) == streams[s].base - DevBits

\* Every batch in flight is as far behind the counter, and behind every later one, as
\* there were launches since.
FlightsInOrder ==
    /\ \A s \in StreamIds : streams[s] # Idle =>
          /\ streams[s].base \in 0 .. Low * Devs - 1 /\ FlightBits(s) \in 0 .. max_nonce
          /\ LowBits(m_current_nonce) \in 0 .. max_nonce
          /\ Behind(FlightBits(s), Age(m_current_index, s), LowBits(m_current_nonce))
    /\ \A s, t \in StreamIds :
          /\ streams[s] # Idle /\ streams[t] # Idle
          /\ Age(m_current_index, s) < Age(m_current_index, t)
          => Behind(FlightBits(t), Age(m_current_index, t) - Age(m_current_index, s),
                    FlightBits(s))

\* A result that was read is one round of the streams behind the counter.
ResultIsBehind ==
    found # Nothing =>
        /\ found.base \in 0 .. Low * Devs - 1 /\ found.base - DevBits \in 0 .. max_nonce
        /\ found.nonce = NonceBase(m_current_nonce)
        /\ LowBits(m_current_nonce) \in 0 .. max_nonce
        /\ Behind(found.base - DevBits, NumStreams, LowBits(m_current_nonce))

\* The counter is not restarted while results of its header are in flight: search is
\* entered again under that header with the package the counter was started for.
StartedOnce ==
    \/ current = NoCurrent /\ m_current_header = NoHeader
    \/ /\ current \in Work /\ m_current_header = current.header
       /\ current.assigned => m_starting_nonce = StartN(current)

CountersInRange ==
    m_current_index \in 0 .. 2 * NumStreams - 1 /\ m_current_nonce \in 0 .. Space - 1

NonceInv ==
    CountersInRange /\ StartedOnce /\ FlightsInOrder /\ ResultIsBehind

\* The remainder is the ring position.
LEMMA RingIsMod ==
  ASSUME NEW i \in 0 .. 2 * NumStreams - 1
  PROVE  i % NumStreams = Ring(i) /\ Ring(i) \in StreamIds
<1>1. CASE i < NumStreams
  <2>1. (0 * NumStreams + i) % NumStreams = i
    BY <1>1, DivMod, StreamsAssumption
  <2>2. QED
    BY <1>1, <2>1, StreamsAssumption DEF Ring, StreamIds
<1>2. CASE ~(i < NumStreams)
  <2> DEFINE r == i - NumStreams
  <2>1. r \in 0 .. NumStreams - 1 /\ i = 1 * NumStreams + r
    BY <1>2, StreamsAssumption
  <2>2. (1 * NumStreams + r) % NumStreams = r
    <3> HIDE DEF r
    <3>1. QED
      BY <2>1, DivMod, StreamsAssumption
  <2>3. QED
    BY <1>2, <2>1, <2>2, StreamsAssumption DEF Ring, StreamIds
<1>3. QED
  BY <1>1, <1>2

\* A launch is the youngest; the one it replaces was the oldest, all others get older.
LEMMA AgeStep ==
  ASSUME NEW i \in 0 .. 2 * NumStreams - 1, NEW s \in StreamIds
  PROVE  /\ NextIndex(i) \in 0 .. 2 * NumStreams - 1
         /\ Age(i, s) \in 0 .. NumStreams - 1
         /\ s = Ring(NextIndex(i)) =>
               Age(NextIndex(i), s) = 0 /\ Age(i, s) = NumStreams - 1
         /\ s # Ring(NextIndex(i)) => Age(NextIndex(i), s) = Age(i, s) + 1
  BY StreamsAssumption DEF NextIndex, Ring, Age, StreamIds

\* A step of the counter leaves what was launched one batch further behind.
LEMMA BehindStep ==
  ASSUME NEW l \in 0 .. max_nonce, NEW k \in Nat, NEW c \in 0 .. max_nonce, Behind(l, k, c)
  PROVE  Behind(l, k + 1, IF c + Batch <= max_nonce THEN c + Batch ELSE 0)
<1>1. /\ (k + 1) * Batch = k * Batch + Batch /\ k * Batch \in Nat
      /\ Batch \in Nat \ {0} /\ max_nonce \in Nat
  BY NonceAssumption, Fields
<1>2. QED
  BY <1>1 DEF Behind

\* What was launched up to a round apart is not the same.
LEMMA BehindIsApart ==
  ASSUME NEW l \in 0 .. max_nonce, NEW k \in 1 .. NumStreams, NEW c \in 0 .. max_nonce,
         Behind(l, k, c)
  PROVE  l # c /\ (c > l => c = l + k * Batch)
<1>1. NumStreams \in Nat /\ Batch \in Nat \ {0} /\ max_nonce \in Nat
  BY NonceAssumption, StreamsAssumption, Fields
<1>2. k * Batch \in Nat \ {0}
  BY <1>1
<1>3. k * Batch <= NumStreams * Batch
  <2>1. PICK j \in Nat : NumStreams = k + j
    <3>1. NumStreams - k \in Nat
      BY <1>1
    <3>2. QED
      BY <1>1, <3>1
  <2>2. NumStreams * Batch = k * Batch + j * Batch /\ j * Batch \in Nat
    BY <1>1, <2>1
  <2>3. QED
    BY <1>2, <2>2
<1>4. k * Batch <= max_nonce
  BY <1>1, <1>2, <1>3, PipelineAssumption
<1>5. QED
  BY <1>1, <1>2, <1>4 DEF Behind

\* Nothing is in flight at first.
LEMMA InitNonceInv == Init => NonceInv
<1> SUFFICES ASSUME Init PROVE NonceInv
  OBVIOUS
<1>1. CountersInRange
  BY StreamsAssumption, NonceAssumption DEF Init, CountersInRange
<1>2. StartedOnce
  BY DEF Init, StartedOnce
<1>3. FlightsInOrder
  BY DEF Init, FlightsInOrder
<1>4. ResultIsBehind
  BY DEF Init, ResultIsBehind
<1>5. QED
  BY <1>1, <1>2, <1>3, <1>4 DEF NonceInv

\* search() begins: the counter is restarted only when the streams are emptied.
LEMMA AdoptKeepsNonceInv ==
  ASSUME IInv, NonceInv, AdoptWork
  PROVE  NonceInv'
<1>1. /\ w \in Work /\ current' \in Work /\ current'.header = w.header
      /\ w.header # current.header => current' = w
      /\ w.header = current.header => current' = current
  BY HeaderAssumption DEF AdoptWork, Work, NoWork, NoCurrent, IInv, Shape
<1>2. found' = Nothing /\ UNCHANGED w
  BY DEF AdoptWork, IInv, ResultIsCurrent
<1>3. StartN(current') \in 0 .. Word - 1
  <2>1. current'.startNonce + Slice \in Int
    <3>1. current'.startNonce \in Starts
      BY <1>1 DEF Work
    <3>2. current'.startNonce \in Nat /\ Slice \in Nat
      BY <3>1, StartAssumption
    <3>3. QED
      BY <3>2
  <2>2. QED
    BY <2>1, NonceAssumption DEF StartN
<1>4. 0 .. Word - 1 \subseteq 0 .. Space - 1
  BY NonceAssumption
<1>5. BeginSearch(current')
  BY DEF AdoptWork
<1>6. CASE m_current_header # current'.header
  <2>1. streams' = [s \in StreamIds |-> Idle] /\ m_current_index' = 0
    BY <1>5, <1>6 DEF BeginSearch
  <2>2. m_current_nonce' \in {StartN(current'), StartNonce, m_current_nonce}
    BY <1>5 DEF BeginSearch
  <2>3. m_current_nonce' \in 0 .. Space - 1
    BY <1>3, <1>4, <2>2, StartAssumption DEF NonceInv, CountersInRange
  <2>4. CountersInRange'
    BY <2>1, <2>3, StreamsAssumption DEF CountersInRange
  <2>5. FlightsInOrder'
    BY <2>1 DEF FlightsInOrder
  <2>6. current'.assigned => m_starting_nonce' = StartN(current')
    BY <1>5, <1>6 DEF BeginSearch
  <2>7. m_current_header' = current'.header
    BY <1>5 DEF BeginSearch
  <2>8. StartedOnce'
    BY <1>1, <2>6, <2>7 DEF StartedOnce
  <2>9. QED
    BY <1>2, <2>4, <2>5, <2>8 DEF NonceInv, ResultIsBehind
<1>7. CASE m_current_header = current'.header
  <2>1. current \in Work /\ m_current_header = current.header
    BY <1>1, <1>7, HeaderAssumption DEF NonceInv, StartedOnce, Work
  <2>2. current' = current
    BY <1>1, <1>7, <2>1
  <2>3. current'.assigned => m_starting_nonce = StartN(current')
    BY <2>1, <2>2, HeaderAssumption DEF NonceInv, StartedOnce, NoCurrent, Work
  <2>4. UNCHANGED <<m_current_header, m_current_index, streams, m_starting_nonce, m_current_nonce>>
    BY <1>5, <1>7, <2>3 DEF BeginSearch
  <2>5. QED
    BY <1>2, <2>2, <2>4 DEF NonceInv, CountersInRange, StartedOnce, FlightsInOrder,
       ResultIsBehind, FlightBits
<1>8. QED
  BY <1>6, <1>7

\* A turn of the search loop: the launch is the youngest batch in flight, and what is
\* read from its stream was launched a round before.
LEMMA LaunchKeepsNonceInv ==
  ASSUME IInv, NonceInv, Launch
  PROVE  NonceInv'
<1> DEFINE i == NextIndex(m_current_index)
           n == NextNonce(m_current_nonce, Device)
           r == Ring(i)
<1>1. /\ m_current_index \in 0 .. 2 * NumStreams - 1 /\ m_current_nonce \in 0 .. Space - 1
      /\ DOMAIN streams = StreamIds
  BY DEF NonceInv, CountersInRange, IInv, Shape
<1>2. i \in 0 .. 2 * NumStreams - 1
  BY <1>1, StreamsAssumption DEF NextIndex
<1>3. i % NumStreams = r /\ r \in StreamIds
  <2> HIDE DEF i
  <2>1. QED
    BY <1>2, RingIsMod
<1>4. /\ n \in 0 .. Space - 1 /\ LowBits(n) \in 0 .. max_nonce
      /\ KernelNonce(n) \in 0 .. Low * Devs - 1
  BY <1>1, NextNonceInRange DEF LowBits
<1>5. /\ m_current_index' = i /\ m_current_nonce' = n
      /\ streams' = [streams EXCEPT ![r] = [header |-> m_current_header,
                                             base |-> KernelNonce(n)]]
      /\ UNCHANGED <<current, m_current_header, m_starting_nonce>>
  BY <1>3 DEF Launch
<1>6. /\ found' = Nothing
      \/ /\ streams[r] # Idle
         /\ found' = [header |-> streams[r].header, base |-> streams[r].base,
                      nonce |-> NonceBase(n)]
  BY <1>3 DEF Launch
<1> HIDE DEF i, n, r
<1>7. \A s \in StreamIds : s # r => streams'[s] = streams[s]
  BY <1>1, <1>5
<1>8. streams'[r].base = KernelNonce(n) /\ streams'[r].base - DevBits = LowBits(n)
  BY <1>1, <1>3, <1>5 DEF LowBits
<1>9. ASSUME NEW s \in StreamIds, streams[s] # Idle
      PROVE  /\ streams[s].base \in 0 .. Low * Devs - 1 /\ FlightBits(s) \in 0 .. max_nonce
             /\ Behind(FlightBits(s), Age(m_current_index, s) + 1, LowBits(n))
  <2>1. /\ streams[s].base \in 0 .. Low * Devs - 1 /\ FlightBits(s) \in 0 .. max_nonce
        /\ LowBits(m_current_nonce) \in 0 .. max_nonce
        /\ Behind(FlightBits(s), Age(m_current_index, s), LowBits(m_current_nonce))
    BY <1>9 DEF NonceInv, FlightsInOrder
  <2>2. LowBits(n) = IF LowBits(m_current_nonce) + Batch <= max_nonce
                     THEN LowBits(m_current_nonce) + Batch ELSE 0
    BY <1>1, <2>1, NextNonceSteps DEF LowBits, n
  <2>3. Age(m_current_index, s) \in Nat
    BY <1>1, AgeStep, StreamsAssumption
  <2>4. QED
    BY <2>1, <2>2, <2>3, BehindStep
<1>10. \A s \in StreamIds :
          /\ Age(i, s) \in Nat /\ Age(m_current_index, s) \in Nat
          /\ s = r => Age(i, s) = 0 /\ Age(m_current_index, s) + 1 = NumStreams
          /\ s # r => Age(i, s) = Age(m_current_index, s) + 1
  BY <1>1, AgeStep, StreamsAssumption DEF i, r
<1>11. CountersInRange'
  BY <1>2, <1>4, <1>5 DEF CountersInRange
<1>12. StartedOnce'
  BY <1>5 DEF NonceInv, StartedOnce, StartN
<1>13. FlightsInOrder'
  <2>1. ASSUME NEW s \in StreamIds, streams'[s] # Idle
        PROVE  /\ streams'[s].base \in 0 .. Low * Devs - 1
               /\ FlightBits(s)' \in 0 .. max_nonce
               /\ Behind(FlightBits(s)', Age(i, s), LowBits(n))
    <3>1. CASE s = r
      <4>1. Behind(LowBits(n), 0, LowBits(n))
        BY <1>4, NonceAssumption, Fields DEF Behind
      <4>2. QED
        BY <1>4, <1>8, <1>10, <3>1, <4>1 DEF FlightBits
    <3>2. CASE s # r
      BY <1>7, <1>9, <1>10, <2>1, <3>2 DEF FlightBits
    <3>3. QED
      BY <3>1, <3>2
  <2>2. ASSUME NEW s \in StreamIds, NEW t \in StreamIds,
               streams'[s] # Idle, streams'[t] # Idle, Age(i, s) < Age(i, t)
        PROVE  Behind(FlightBits(t)', Age(i, t) - Age(i, s), FlightBits(s)')
    <3>1. t # r /\ streams[t] # Idle /\ FlightBits(t)' = FlightBits(t)
      BY <1>7, <1>10, <2>2 DEF FlightBits
    <3>2. CASE s = r
      <4>1. Age(i, t) - Age(i, s) = Age(m_current_index, t) + 1
        BY <1>10, <3>1, <3>2
      <4>2. FlightBits(s)' = LowBits(n)
        BY <1>8, <3>2 DEF FlightBits
      <4>3. QED
        BY <1>9, <3>1, <4>1, <4>2
    <3>3. CASE s # r
      <4>1. streams[s] # Idle /\ FlightBits(s)' = FlightBits(s)
        BY <1>7, <2>2, <3>3 DEF FlightBits
      <4>2. /\ Age(i, t) - Age(i, s) = Age(m_current_index, t) - Age(m_current_index, s)
            /\ Age(m_current_index, s) < Age(m_current_index, t)
        BY <1>10, <2>2, <3>1, <3>3
      <4>3. QED
        BY <3>1, <4>1, <4>2 DEF NonceInv, FlightsInOrder
    <3>4. QED
      BY <3>2, <3>3
  <2>3. QED
    BY <1>4, <1>5, <2>1, <2>2 DEF FlightsInOrder
<1>14. ResultIsBehind'
  <2>1. CASE found' = Nothing
    BY <2>1 DEF ResultIsBehind
  <2>2. CASE /\ streams[r] # Idle
             /\ found' = [header |-> streams[r].header, base |-> streams[r].base,
                          nonce |-> NonceBase(n)]
    <3>1. /\ found'.base = streams[r].base /\ found'.nonce = NonceBase(n)
          /\ found'.base - DevBits = FlightBits(r)
      BY <2>2 DEF FlightBits
    <3>2. /\ streams[r].base \in 0 .. Low * Devs - 1
          /\ FlightBits(r) \in 0 .. max_nonce /\ Behind(FlightBits(r), NumStreams, LowBits(n))
      BY <1>3, <1>9, <1>10, <2>2
    <3>3. QED
      BY <1>4, <1>5, <3>1, <3>2 DEF ResultIsBehind
  <2>3. QED
    BY <1>6, <2>1, <2>2
<1>15. QED
  BY <1>11, <1>12, <1>13, <1>14 DEF NonceInv

\* Every step keeps the order of the nonces in flight.
LEMMA NextNonceInv ==
  ASSUME IInv, NonceInv, [Next]_vars
  PROVE  NonceInv'
<1>1. CASE AdoptWork
  BY <1>1, AdoptKeepsNonceInv
<1>2. CASE Launch
  BY <1>2, LaunchKeepsNonceInv
<1>3. CASE UNCHANGED <<current, searchVars>> /\ found' \in {found, Nothing}
  BY <1>3 DEF NonceInv, CountersInRange, StartedOnce, FlightsInOrder, ResultIsBehind,
     FlightBits, searchVars
<1>4. CASE (\E p \in Work : SetWork(p)) \/ Kick \/ Stop \/ TakeWork \/ SkipNoWork \/ InitFails
           \/ Submit \/ CheckNewWork \/ UNCHANGED vars
  BY <1>3, <1>4 DEF SetWork, Kick, Stop, TakeWork, SkipNoWork, InitFails, Submit, CheckNewWork,
     vars
<1>5. QED
  BY <1>1, <1>2, <1>4 DEF Next, Miner, Ended

\* What the miner knows of its nonces holds in every reachable state.
LEMMA NonceInvariance == Spec => []NonceInv
  BY InitNonceInv, Invariance, NextNonceInv, PTL DEF Spec

\* The nonce a result is reported with is the one its kernel tried, in the bits the
\* kernel looks at: nonce_base is one round of the streams behind m_current_nonce, as
\* the launch was, whatever work was taken in between (CUDAMiner::search).
THEOREM NoncesAreAttributed == Spec => []NoncesAttributed
<1>1. NonceInv => NoncesAttributed
  <2> SUFFICES ASSUME NonceInv, found # Nothing,
                      KernelNonce(m_current_nonce) > found.base
               PROVE  KernelNonce(found.nonce) = found.base
    BY DEF NoncesAttributed
  <2> DEFINE n == m_current_nonce
             k == NumStreams * Batch
             q == n \div (Low * Devs)
  <2>1. /\ found.base \in 0 .. Low * Devs - 1 /\ found.base - DevBits \in 0 .. max_nonce
        /\ LowBits(n) \in 0 .. max_nonce /\ n \in 0 .. Space - 1
        /\ Behind(found.base - DevBits, NumStreams, LowBits(n))
        /\ found.nonce = NonceBase(n)
    BY DEF NonceInv, ResultIsBehind, CountersInRange
  <2>2. /\ q \in 0 .. High - 1 /\ n = q * (Low * Devs) + KernelNonce(n)
        /\ KernelNonce(n) \in 0 .. Low * Devs - 1
    BY <2>1, HighPart
  <2>3. NumStreams \in 1 .. NumStreams /\ k \in Nat
    BY StreamsAssumption, NonceAssumption
  <2>4. LowBits(n) > found.base - DevBits => LowBits(n) = found.base - DevBits + k
    BY <2>1, <2>3, BehindIsApart
  <2> HIDE DEF k, n, q
  <2>5. found.base \in Int /\ KernelNonce(n) \in Int /\ q * (Low * Devs) \in Int
    BY <2>1, <2>2, Fields
  <2>6. KernelNonce(n) = found.base + k
    BY <2>3, <2>4, <2>5, Fields DEF LowBits, n
  <2>7. n - k = q * (Low * Devs) + found.base
    BY <2>2, <2>3, <2>5, <2>6
  <2>8. n - k \in 0 .. Space - 1 /\ KernelNonce(n - k) = found.base
    BY <2>1, <2>2, <2>7, InSpace
  <2>9. (n - k) % Space = n - k
    <3> DEFINE x == n - k
    <3> HIDE DEF x
    <3>1. x \in 0 .. Space - 1 /\ Space \in Nat \ {0}
      BY <2>8, NonceAssumption DEF x
    <3>2. (0 * Space + x) % Space = x
      BY <3>1, DivMod
    <3>3. QED
      BY <3>1, <3>2 DEF x
  <2>10. QED
    BY <2>1, <2>8, <2>9 DEF NonceBase, k
<1>2. QED
  BY <1>1, NonceInvariance, PTL

-----------------------------------------------------------------------------
(* workLoop and search implement MinerService.                             *)

\* Between two searches what is in flight is for the work the miner looks at; before
\* the first work nothing is.
FlightsSeen ==
    /\ m_work = NoWork => w = NoWork
    /\ w = NoWork => \A s \in StreamIds : streams[s] = Idle
    /\ pc = "take" => \A s \in StreamIds : streams[s] # Idle => streams[s].header = w.header

\* Every step keeps what is in flight to the work the miner looks at.
LEMMA NextFlightsSeen ==
  ASSUME IInv, FlightsSeen, [Next]_vars
  PROVE  FlightsSeen'
<1> USE DEF FlightsSeen, farmVars, searchVars
<1>1. NoWork \notin Work /\ (w \in Work => w # NoWork)
  BY HeaderAssumption DEF NoWork, Work
<1>2. ASSUME NEW p \in Work, SetWork(p)
      PROVE  FlightsSeen'
  BY <1>1, <1>2 DEF SetWork
<1>3. CASE Kick \/ Stop \/ InitFails \/ Submit \/ UNCHANGED vars
  BY <1>3 DEF Kick, Stop, InitFails, Submit, vars
<1>4. CASE TakeWork
  BY <1>4 DEF TakeWork
<1>5. CASE SkipNoWork
  <2>1. w = NoWork
    BY <1>5, HeaderAssumption DEF SkipNoWork, IInv, Shape, Work
  <2>2. QED
    BY <1>5, <2>1 DEF SkipNoWork
<1>6. CASE AdoptWork
  BY <1>6 DEF AdoptWork, NoWork
<1>7. CASE Launch
  BY <1>1, <1>7 DEF Launch, IInv, CopiesAgree, Searching
<1>8. CASE CheckNewWork
  BY <1>8 DEF CheckNewWork, IInv, CopiesAgree, Searching, FlightsAreCurrent
<1>9. QED
  BY <1>2, <1>3, <1>4, <1>5, <1>6, <1>7, <1>8 DEF Next, Miner, Ended

ServiceInv == IInv /\ NonceInv /\ FlightsSeen

\* What is in flight for the miner's work, by stream.
LEMMA UnreadByStream ==
  ASSUME IInv, NEW x
  PROVE  x \in Unread <=> \E s \in StreamIds :
            /\ streams[s] # Idle /\ streams[s].header = w.header
            /\ x = [header |-> w.header, nonce |-> streams[s].base]
<1>1. DOMAIN streams = StreamIds
  BY DEF IInv, Shape
<1>2. Range(streams) = {streams[s] : s \in StreamIds}
  BY <1>1 DEF Range
<1>3. QED
  BY <1>2 DEF Unread

\* It consists of solutions for that work.
LEMMA UnreadAreSolutions ==
  ASSUME ServiceInv
  PROVE  Unread \subseteq Service!Solutions(w.header)
<1> SUFFICES ASSUME NEW x \in Unread PROVE x \in Service!Solutions(w.header)
  OBVIOUS
<1>1. PICK s \in StreamIds : /\ streams[s] # Idle
                             /\ x = [header |-> w.header, nonce |-> streams[s].base]
  BY UnreadByStream DEF ServiceInv
<1>2. w \in Work /\ w.header \in Headers
  BY <1>1 DEF ServiceInv, FlightsSeen, IInv, Shape, Work
<1>3. streams[s].base \in 0 .. Low * Devs - 1
  BY <1>1 DEF ServiceInv, NonceInv, FlightsInOrder
<1>4. QED
  BY <1>1, <1>2, <1>3 DEF Service!Solutions

\* The miner's thread takes a copy of the farm's work, or ends.
LEMMA TakeWorkServes ==
  ASSUME ServiceInv, TakeWork
  PROVE  Service!Next
<1>1. found = Nothing /\ UNCHANGED <<found, m_work, stopping, streams>> /\ pc = "take"
  BY DEF TakeWork, ServiceInv, IInv, ResultIsCurrent, farmVars, searchVars
<1>2. Reported = Service!NoReport /\ Reported' = Service!NoReport
  BY <1>1 DEF Reported, Service!NoReport
<1>3. CASE stopping /\ pc' = "done" /\ UNCHANGED w
  <2>1. Unread' = Unread
    BY <1>1, <1>3 DEF Unread
  <2>2. Service!End
    BY <1>1, <1>2, <1>3, <2>1 DEF Service!End
  <2>3. QED
    BY <2>2 DEF Service!Next
<1>4. CASE ~stopping /\ pc' = "decide" /\ w' = m_work
  <2>1. Unread' = Unread \cap Service!Solutions(m_work.header)
    <3>1. CASE m_work.header = w.header
      <4>1. Unread' = Unread
        BY <1>1, <1>4, <3>1 DEF Unread
      <4>2. QED
        BY <3>1, <4>1, UnreadAreSolutions
    <3>2. CASE m_work.header # w.header
      <4>1. \A s \in StreamIds : streams[s] # Idle => streams[s].header = w.header
        BY <1>1 DEF ServiceInv, FlightsSeen
      <4>2. Unread' = {}
        <5>1. Range(streams) = {streams[s] : s \in StreamIds}
          BY DEF Range, ServiceInv, IInv, Shape
        <5>2. Unread' = {[header |-> f.header, nonce |-> f.base] :
                 f \in {b \in Range(streams) : b # Idle /\ b.header = m_work.header}}
          BY <1>1, <1>4 DEF Unread
        <5>3. QED
          BY <3>2, <4>1, <5>1, <5>2
      <4>3. \A x \in Unread : x.header = w.header
        BY UnreadByStream DEF ServiceInv
      <4>4. \A x \in Service!Solutions(m_work.header) : x.header = m_work.header
        BY DEF Service!Solutions
      <4>5. QED
        BY <3>2, <4>2, <4>3, <4>4
    <3>3. QED
      BY <3>1, <3>2
  <2>2. Service!Adopt
    BY <1>1, <1>2, <1>4, <2>1 DEF Service!Adopt
  <2>3. QED
    BY <2>2 DEF Service!Next
<1>5. QED
  BY <1>3, <1>4 DEF TakeWork

\* Entering search() drops only what is in flight for other work.
LEMMA AdoptStutters ==
  ASSUME ServiceInv, AdoptWork
  PROVE  UNCHANGED Service!vars
<1>1. UNCHANGED <<found, w, m_work, stopping>> /\ pc = "decide" /\ pc' = "launch"
  BY DEF AdoptWork, farmVars
<1>2. Unread' = Unread
  <2>1. current'.header = w.header
    BY HeaderAssumption DEF AdoptWork
  <2>2. CASE m_current_header = w.header
    <3>1. streams' = streams
      BY <2>1, <2>2 DEF AdoptWork, BeginSearch
    <3>2. QED
      BY <1>1, <3>1 DEF Unread
  <2>3. CASE m_current_header # w.header
    <3>1. streams' = [s \in StreamIds |-> Idle]
      BY <2>1, <2>3 DEF AdoptWork, BeginSearch
    <3>2. Unread' = {}
      BY <3>1 DEF Unread, Range
    <3>3. Unread = {}
      BY <2>3, UnreadByStream DEF ServiceInv, IInv, FlightsAreCurrent
    <3>4. QED
      BY <3>2, <3>3
  <2>4. QED
    BY <2>2, <2>3
<1>3. QED
  BY <1>1, <1>2 DEF Service!vars, Reported

\* A turn of the search loop hands in at most what was in flight on its stream, and no
\* longer has it in flight.
LEMMA LaunchServes ==
  ASSUME ServiceInv, ServiceInv', Launch
  PROVE  Service!Search
<1> DEFINE i == NextIndex(m_current_index)
           n == NextNonce(m_current_nonce, Device)
           r == Ring(i)
<1>1. /\ UNCHANGED <<m_work, stopping, w>> /\ pc = "launch" /\ ~(pc' = "done")
      /\ found = Nothing /\ m_current_header = w.header /\ w \in Work /\ w.header # NoHeader
  BY HeaderAssumption DEF Launch, farmVars, ServiceInv, IInv, ResultIsCurrent, CopiesAgree,
     Searching, Work
<1>2. m_current_index \in 0 .. 2 * NumStreams - 1
  BY DEF ServiceInv, NonceInv, CountersInRange
<1>3. i \in 0 .. 2 * NumStreams - 1
  BY <1>2, StreamsAssumption DEF NextIndex
<1>4. i % NumStreams = r /\ r \in StreamIds
  <2> HIDE DEF i
  <2>1. QED
    BY <1>3, RingIsMod
<1>5. /\ m_current_nonce' = n
      /\ streams' = [streams EXCEPT ![r] = [header |-> m_current_header,
                                             base |-> KernelNonce(n)]]
      /\ found' = Nothing
         \/ /\ streams[r] # Idle
            /\ found' = [header |-> streams[r].header, base |-> streams[r].base,
                         nonce |-> NonceBase(n)]
  BY <1>4 DEF Launch
<1> HIDE DEF i, n, r
<1>6. Reported = Service!NoReport
  BY <1>1 DEF Reported, Service!NoReport
<1>7. DOMAIN streams = StreamIds
  BY DEF ServiceInv, IInv, Shape
<1>8. \A x \in Unread' : \E s \in StreamIds : x = [header |-> w.header, nonce |-> streams'[s].base]
                            /\ streams'[s] # Idle
  <2>1. Range(streams') = {streams'[s] : s \in StreamIds}
    BY DEF ServiceInv, IInv, Shape, Range
  <2>2. QED
    BY <1>1, <2>1 DEF Unread
<1>9. Unread' \subseteq Service!Solutions(w.header)
  <2> SUFFICES ASSUME NEW x \in Unread' PROVE x \in Service!Solutions(w.header)
    OBVIOUS
  <2>1. PICK s \in StreamIds : /\ x = [header |-> w.header, nonce |-> streams'[s].base]
                               /\ streams'[s] # Idle
    BY <1>8
  <2>2. streams'[s].base \in 0 .. Low * Devs - 1
    BY <2>1 DEF ServiceInv, NonceInv, FlightsInOrder
  <2>3. QED
    BY <1>1, <2>1, <2>2 DEF Service!Solutions, Work
<1>10. /\ Reported' = Service!NoReport \/ Reported' \in Unread
       /\ Reported' \notin Unread'
  <2>1. CASE found' = Nothing
    <3>1. Reported' = Service!NoReport
      BY <2>1 DEF Reported, Service!NoReport
    <3>2. \A x \in Unread' : x.header = w.header
      BY <1>8
    <3>3. QED
      BY <1>1, <3>1, <3>2 DEF Service!NoReport
  <2>2. CASE /\ found' # Nothing /\ streams[r] # Idle
             /\ found' = [header |-> streams[r].header, base |-> streams[r].base,
                          nonce |-> NonceBase(n)]
    <3>1. Reported' = [header |-> w.header, nonce |-> streams[r].base]
      BY <1>1, <2>2 DEF Reported
    <3>2. streams[r].header = w.header
      BY <1>1, <1>4, <2>2 DEF ServiceInv, IInv, FlightsAreCurrent
    <3>3. Reported' \in Unread
      BY <1>4, <2>2, <3>1, <3>2, UnreadByStream DEF ServiceInv
    <3>4. ASSUME NEW s \in StreamIds, streams'[s] # Idle
          PROVE  streams'[s].base # streams[r].base
      <4>1. CASE s = r
        <5>1. /\ Behind(found'.base - DevBits, NumStreams, LowBits(n))
              /\ found'.base - DevBits \in 0 .. max_nonce /\ LowBits(n) \in 0 .. max_nonce
          BY <1>5, <2>2 DEF ServiceInv, NonceInv, ResultIsBehind
        <5>2. NumStreams \in 1 .. NumStreams
          BY StreamsAssumption
        <5>3. found'.base - DevBits # LowBits(n)
          BY <5>1, <5>2, BehindIsApart
        <5>4. streams'[s].base = KernelNonce(n) /\ found'.base = streams[r].base
          BY <1>4, <1>5, <1>7, <2>2, <4>1
        <5>5. QED
          BY <5>3, <5>4 DEF LowBits
      <4>2. CASE s # r
        <5>1. streams'[s] = streams[s]
          BY <1>5, <1>7, <4>2
        <5>2. /\ Age(m_current_index, r) = NumStreams - 1
              /\ Age(m_current_index, s) \in 0 .. NumStreams - 1
              /\ Age(i, s) = Age(m_current_index, s) + 1 /\ Age(i, s) \in 0 .. NumStreams - 1
          BY <1>2, <1>3, <1>4, <4>2, AgeStep DEF i, r
        <5>3. /\ Age(m_current_index, s) < Age(m_current_index, r)
              /\ Age(m_current_index, r) - Age(m_current_index, s) \in 1 .. NumStreams
          BY <5>2, StreamsAssumption
        <5>4. /\ Behind(FlightBits(r), Age(m_current_index, r) - Age(m_current_index, s),
                        FlightBits(s))
              /\ FlightBits(r) \in 0 .. max_nonce /\ FlightBits(s) \in 0 .. max_nonce
          BY <1>4, <2>2, <3>4, <5>1, <5>3 DEF ServiceInv, NonceInv, FlightsInOrder
        <5>5. FlightBits(r) # FlightBits(s)
          BY <5>3, <5>4, BehindIsApart
        <5>6. QED
          BY <5>1, <5>5 DEF FlightBits
      <4>3. QED
        BY <4>1, <4>2
    <3>5. QED
      BY <1>8, <3>1, <3>3, <3>4
  <2>3. QED
    BY <1>5, <2>1, <2>2
<1>11. \E new \in SUBSET (Service!Solutions(w.header) \ Unread) :
          Unread' \subseteq (Unread \ {Reported'}) \cup new
  <2> DEFINE new == Unread' \ Unread
  <2>1. new \in SUBSET (Service!Solutions(w.header) \ Unread)
    BY <1>9
  <2>2. Unread' \subseteq (Unread \ {Reported'}) \cup new
    BY <1>10
  <2>3. QED
    BY <2>1, <2>2
<1>12. QED
  BY <1>1, <1>6, <1>10, <1>11 DEF Service!Search

\* Every step of the miner and of the farm is a step of the service, or none.
LEMMA NextServes ==
  ASSUME ServiceInv, ServiceInv', Next
  PROVE  Service!Next \/ UNCHANGED Service!vars
<1> USE DEF farmVars, searchVars
<1>1. ASSUME NEW p \in Work, SetWork(p)
      PROVE  Service!Next
  <2>1. Unread' = Unread /\ Reported' = Reported /\ p.header \in Headers
    BY <1>1 DEF SetWork, Unread, Reported, Work
  <2>2. Service!SetWork
    BY <1>1, <2>1 DEF SetWork, Service!SetWork
  <2>3. QED
    BY <2>2 DEF Service!Next
<1>2. CASE Kick \/ SkipNoWork \/ CheckNewWork
  BY <1>2 DEF Kick, SkipNoWork, CheckNewWork, Service!vars, Unread, Reported
<1>3. CASE Stop
  <2>1. Unread' = Unread /\ Reported' = Reported
    BY <1>3 DEF Stop, Unread, Reported
  <2>2. Service!Stop
    BY <1>3, <2>1 DEF Stop, Service!Stop
  <2>3. QED
    BY <2>2 DEF Service!Next
<1>4. CASE TakeWork
  BY <1>4, TakeWorkServes
<1>5. CASE InitFails
  <2>1. Unread' = Unread /\ found' = Nothing
    BY <1>5 DEF InitFails, Unread, ServiceInv, IInv, ResultIsCurrent
  <2>2. Service!End
    BY <1>5, <2>1 DEF InitFails, Service!End, Service!NoReport, Reported
  <2>3. QED
    BY <2>2 DEF Service!Next
<1>6. CASE AdoptWork
  BY <1>6, AdoptStutters
<1>7. CASE Launch
  BY <1>7, LaunchServes DEF Service!Next
<1>8. CASE Submit
  <2>1. Unread' = Unread /\ Reported' = Service!NoReport
    BY <1>8 DEF Submit, Unread, Reported, Service!NoReport
  <2>2. Service!NoReport \notin Unread
    BY UnreadAreSolutions, HeaderAssumption DEF Service!NoReport, Service!Solutions
  <2>3. Service!Search
    BY <1>8, <2>1, <2>2 DEF Submit, Service!Search
  <2>4. QED
    BY <2>3 DEF Service!Next
<1>9. CASE Ended
  BY <1>9 DEF Ended, vars, Service!vars, Unread, Reported
<1>10. QED
  BY <1>1, <1>2, <1>3, <1>4, <1>5, <1>6, <1>7, <1>8, <1>9 DEF Next, Miner

\* CUDAMiner::workLoop and search are a miner as the farm needs it, as far as safety
\* goes: what is submitted was in flight for the work the miner looks at and is in
\* flight no more, so it is submitted once, and nothing is once the loop has ended.
THEOREM ImplementsServiceSafety == Spec => Service!Safety
<1>1. Init => Service!Init
  BY DEF Init, Service!Init, Service!NoReport, Unread, Reported, Range, NoWork
<1>2. Init => FlightsSeen
  BY DEF Init, FlightsSeen
<1>3. Spec => []FlightsSeen
  BY Invariance, <1>2, NextFlightsSeen, PTL DEF Spec
<1>4. ServiceInv /\ ServiceInv' /\ [Next]_vars => [Service!Next]_(Service!vars)
  <2>1. UNCHANGED vars => UNCHANGED Service!vars
    BY DEF vars, farmVars, searchVars, Service!vars, Unread, Reported
  <2>2. QED
    BY <2>1, NextServes
<1>5. IInv /\ NonceInv /\ FlightsSeen => ServiceInv
  BY DEF ServiceInv
<1>6. QED
  BY Invariance, NonceInvariance, <1>1, <1>3, <1>4, <1>5, PTL DEF Spec, Service!Safety
=============================================================================
