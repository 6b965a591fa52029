---------------------------- MODULE ClientProofs ----------------------------
(***************************************************************************)
(* Solutions on their way to the pool.  First the safety properties of     *)
(* EthGetworkClient under PoolManager, for any number of connections,      *)
(* retries and solutions and although nothing locks the slot               *)
(* m_solutionToSubmit.  Then the nonces of a farm and of the shares of     *)
(* EthStratumClient (NonceRange), for any number of miners and any widths  *)
(* of a nonce.                                                             *)
(***************************************************************************)
EXTENDS GetworkClient, NonceRange, FiniteSetTheorems, TLAPS

\* Neither the slot nor the call under way holds a solution whose verdict has come: the
\* slot is emptied with it, and only solutions that are new enter it.
SlotInv ==
    /\ answered \subseteq found
    /\ nonce # None => nonce \in found \ answered
    /\ pc = "submitting" => sent.nonce \in found \ answered

\* The worker asks for work only while it is connected or has just been told to connect;
\* but for this, GotWork could give work to miners that were restarted in between.
AskInv == pc \in {"submitting", "getWork"} => m_connected \/ m_justConnected

IInv == TypeOK /\ SlotInv /\ AskInv /\ MiningMeansConnected

\* tryReconnect keeps the try and the index of the connection within their bounds.
LEMMA FailoverBounds ==
  ASSUME NEW try \in 0 .. Tries, NEW idx \in 1 .. NumConnections
  PROVE  NextTry(try) \in 0 .. Tries /\ NextConnection(idx, try) \in 1 .. NumConnections
  BY PoolFailoverAssumption DEF NextTry, NextConnection, SameConnection

\* The client starts without a connection, a solution or a verdict.
LEMMA InitIInv == Init => IInv
  <1>1. 0 \in 0 .. Tries /\ 1 \in 1 .. NumConnections
    BY PoolFailoverAssumption
  <1>2. Init => sent \in [nonce : Solutions \cup {None}, rest : Solutions \cup {None}]
    BY DEF Init, NothingSent
  <1>3. QED
    BY <1>1, <1>2 DEF Init, IInv, TypeOK, SlotInv, AskInv, MiningMeansConnected

\* Every step of the worker, of the main thread and of the miners' threads keeps the
\* invariant.
LEMMA NextIInv ==
  ASSUME IInv, Next
  PROVE  IInv'
<1> USE DEF IInv, TypeOK, SlotInv, AskInv, MiningMeansConnected, NothingSent, poolVars,
        slotVars, verdictVars, Judged
<1>1. CASE Connect
  <2>1. m_connection_changed' \in BOOLEAN /\ m_justConnected' \in BOOLEAN
    BY <1>1 DEF Connect
  <2>2. UNCHANGED <<pc, m_connected, sent, m_prevWorkPackage, verdictVars, m_reconnectTry,
                    m_activeConnectionIdx, mining, slotVars>>
    BY <1>1 DEF Connect
  <2>3. m_justConnected'
    BY <1>1 DEF Connect
  <2>4. TypeOK'
    BY <2>1, <2>2, Zenon
  <2>5. SlotInv' /\ AskInv' /\ MiningMeansConnected'
    BY <2>2, <2>3
  <2>6. QED
    BY <2>4, <2>5
<1>2. ASSUME NEW s \in Solutions, Store(s) PROVE IInv'
  BY <1>2 DEF Store
<1>3. CASE Stored
  BY <1>3 DEF Stored
<1>4. CASE SkipDisconnected \/ NoSolution \/ Wake
  BY <1>4 DEF SkipDisconnected, NoSolution, Wake
<1>5. CASE BeginSubmit
  BY <1>5 DEF BeginSubmit
<1>6. CASE SubmitReturns
  BY <1>6 DEF SubmitReturns
<1>7. CASE SubmitThrows
  BY <1>7 DEF SubmitThrows
<1>8. ASSUME NEW h \in Headers, GotWork(h) PROVE IInv'
  <2>1. 0 \in 0 .. Tries
    BY PoolFailoverAssumption
  <2>2. TypeOK'
    BY <1>8, <2>1 DEF GotWork
  <2>3. SlotInv' /\ AskInv' /\ MiningMeansConnected'
    BY <1>8 DEF GotWork
  <2>4. QED
    BY <2>2, <2>3
<1>9. CASE GetWorkThrows
  <2>1. TypeOK'
    BY <1>9, Zenon DEF GetWorkThrows
  <2>2. SlotInv' /\ AskInv' /\ MiningMeansConnected'
    BY <1>9 DEF GetWorkThrows
  <2>3. QED
    BY <2>1, <2>2
<1>10. CASE Reconnect
  <2>1. m_reconnectTry' \in 0 .. Tries /\ m_activeConnectionIdx' \in 1 .. NumConnections
    BY <1>10, FailoverBounds DEF Reconnect
  <2>2. pc' \in {"ended", "sleep"} /\ m_justConnected' \in BOOLEAN /\ mining' = "no"
    BY <1>10 DEF Reconnect
  <2>3. UNCHANGED <<m_connected, m_connection_changed, sent, m_prevWorkPackage,
                    verdictVars, slotVars>>
    BY <1>10 DEF Reconnect
  <2>4. TypeOK'
    BY <2>1, <2>2, <2>3, Zenon
  <2>5. SlotInv' /\ AskInv' /\ MiningMeansConnected'
    BY <2>2, <2>3
  <2>6. QED
    BY <2>4, <2>5
<1>11. CASE Ended
  BY <1>11 DEF Ended, vars
<1>12. CASE MinerRestart
  BY <1>12 DEF MinerRestart
<1>13. QED
  BY <1>1, <1>2, <1>3, <1>4, <1>5, <1>6, <1>7, <1>8, <1>9, <1>10, <1>11, <1>12
     DEF Next, WorkLoop, Submit

\* The inductive invariant holds in every reachable state.
LEMMA Invariance == Spec => []IInv
<1>1. IInv /\ UNCHANGED vars => IInv'
  BY DEF IInv, TypeOK, SlotInv, AskInv, MiningMeansConnected, vars, poolVars, slotVars, verdictVars
<1>2. QED
  BY InitIInv, NextIInv, <1>1, PTL DEF Spec

\* Every variable keeps its type: however often the node fails, the number of tries and
\* the index of the connection stay within their bounds (PoolManager::tryReconnect).
THEOREM TypeCorrect == Spec => []TypeOK
<1>1. IInv => TypeOK
  BY DEF IInv
<1>2. QED
  BY Invariance, <1>1, PTL

\* Miners have work only while the client is connected or is being disconnected, whenever
\* the node fails and whenever the API restarts them (EthGetworkClient::disconnect,
\* onDisconnected, onMinerRestart).
THEOREM MinersNeedTheNode == Spec => []MiningMeansConnected
<1>1. IInv => MiningMeansConnected
  BY DEF IInv
<1>2. QED
  BY Invariance, <1>1, PTL

\* No retry hands in a solution whose verdict the client has got, although a solution may
\* be stored at any moment of a submission (the slot in workLoop).  One whose answer was
\* lost is handed in again.
THEOREM OneVerdictEach == Spec => []AnsweredOnce
<1>1. IInv => AnsweredOnce
  BY DEF IInv, SlotInv, AnsweredOnce
<1>2. QED
  BY Invariance, <1>1, PTL

-----------------------------------------------------------------------------
(* The nonces of a farm.                                                   *)

\* A quotient is not below another of the same number.
LEMMA QuotientNotBelow ==
  ASSUME NEW d \in Nat \ {0}, NEW q \in Int, NEW p \in Int, NEW r \in Int, NEW s \in Int,
         0 <= r, r < d, 0 <= s, s < d, q * d + r = p * d + s
  PROVE  ~(q < p)
<1> SUFFICES ASSUME q < p PROVE FALSE
  OBVIOUS
<1>1. PICK k \in Nat : p = q + 1 + k
  <2>1. p - q - 1 \in Nat
    OBVIOUS
  <2>2. QED
    BY <2>1
<1>2. p * d = q * d + d + k * d
  BY <1>1
<1>3. k * d >= 0 /\ q * d \in Int /\ k * d \in Int
  OBVIOUS
<1>4. QED
  BY <1>2, <1>3

\* What quotient and remainder are.
LEMMA Division ==
  ASSUME NEW d \in Nat \ {0}, NEW a \in Int
  PROVE  /\ a = (a \div d) * d + (a % d) /\ a \div d \in Int
         /\ a % d \in 0 .. d - 1
  OBVIOUS

\* Quotient and remainder are unique.
LEMMA DivMod ==
  ASSUME NEW d \in Nat \ {0}, NEW q \in Int, NEW r \in 0 .. d - 1
  PROVE  (q * d + r) % d = r /\ (q * d + r) \div d = q
<1> DEFINE a == q * d + r
<1>1. a \in Int
  OBVIOUS
<1> HIDE DEF a
<1>2. /\ a = (a \div d) * d + (a % d) /\ a \div d \in Int
      /\ a % d \in 0 .. d - 1
  BY <1>1, Division
<1>3. a = q * d + r
  BY DEF a
<1>4. ~(q < a \div d) /\ ~(a \div d < q)
  BY <1>2, <1>3, QuotientNotBelow
<1>5. q = a \div d
  <2>1. \A p \in Int : ~(q < p) /\ ~(p < q) => q = p
    OBVIOUS
  <2>2. QED
    BY <1>2, <1>4, <2>1
<1>6. a % d = r
  <2>1. q * d \in Int /\ a = q * d + (a % d)
    BY <1>2, <1>5
  <2>2. QED
    BY <1>2, <1>3, <2>1
<1>7. QED
  BY <1>5, <1>6 DEF a

\* Numbers less than d apart have different remainders.
LEMMA Apart ==
  ASSUME NEW d \in Nat \ {0}, NEW a \in Int, NEW b \in Int, a < b, b - a < d
  PROVE  a % d # b % d
<1> SUFFICES ASSUME a % d = b % d PROVE FALSE
  OBVIOUS
<1> DEFINE p == a \div d
           q == b \div d
<1>1. a = p * d + (a % d) /\ b = q * d + (b % d) /\ p \in Int /\ q \in Int /\ a % d \in Int
  BY Division
<1> HIDE DEF p, q
<1>2. p * d \in Int /\ q * d \in Int /\ p * d < q * d /\ q * d - p * d < d
  BY <1>1
<1>3. ASSUME q <= p PROVE FALSE
  <2>1. p - q \in Nat /\ (p - q) * d >= 0 /\ p * d = q * d + (p - q) * d
    BY <1>1, <1>3
  <2>2. QED
    BY <1>2, <2>1
<1>4. ASSUME q > p PROVE FALSE
  <2>1. q - p - 1 \in Nat /\ (q - p - 1) * d >= 0 /\ q * d = p * d + d + (q - p - 1) * d
    BY <1>1, <1>4
  <2>2. QED
    BY <1>2, <2>1
<1>5. QED
  BY <1>1, <1>3, <1>4

\* Remainders may be taken early.
LEMMA AddMod ==
  ASSUME NEW d \in Nat \ {0}, NEW a \in Int, NEW b \in Int
  PROVE  ((a % d) + b) % d = (a + b) % d
<1> DEFINE p == a \div d
           e == (a % d) + b
           q == e \div d
           r == e % d
<1>1. a = p * d + (a % d) /\ p \in Int /\ a % d \in Int
  BY Division
<1>2. e \in Int
  BY <1>1
<1>3. e = q * d + r /\ q \in Int /\ r \in 0 .. d - 1
  <2> HIDE DEF e
  <2>1. QED
    BY <1>2, Division
<1> HIDE DEF p, q, r
<1>4. a + b = p * d + q * d + r
  BY <1>1, <1>3
<1>5. p * d + q * d = (p + q) * d /\ p + q \in Int
  BY <1>1, <1>3
<1>6. (a + b) % d = r
  <2>1. ((p + q) * d + r) % d = r
    BY <1>3, <1>5, DivMod
  <2>2. a + b = (p + q) * d + r
    BY <1>3, <1>4, <1>5
  <2>3. QED
    BY <2>1, <2>2
<1>7. QED
  BY <1>6 DEF r

\* What the widths of the fields come to.
LEMMA Widths ==
  /\ Space \in Nat \ {0} /\ Low * Devs \in Nat \ {0} /\ Space = High * (Low * Devs)
  /\ {Batch, Low, Devs, High, Word, Stride, MaxBatches, NumMiners, MaxMiners} \subseteq Nat \ {0}
  /\ Word <= Space /\ max_nonce \in 0 .. Word - 1 /\ NumMiners <= MaxMiners
  /\ max_nonce + Batch <= Low
<1>1. {Batch, Low, Devs, High} \subseteq Nat \ {0} /\ Word \in 1 .. Space /\ Space \in Nat \ {0}
  BY NonceAssumption
<1>2. Low * Devs \in Nat \ {0} /\ Space = High * (Low * Devs)
  <2>1. \A a, b \in Nat \ {0} : a * b \in Nat \ {0}
    OBVIOUS
  <2>2. \A a, b, c \in Nat : a * b * c = c * (a * b)
    OBVIOUS
  <2>3. QED
    BY <1>1, <2>1, <2>2 DEF Space
<1>3. max_nonce \in 0 .. Word - 1
  <2> DEFINE n == (15 * Low) \div 16 - 1
  <2>1. n \in Int /\ Word \in Nat \ {0}
    BY <1>1
  <2>2. max_nonce = n % Word
    BY DEF max_nonce
  <2> HIDE DEF n
  <2>3. QED
    BY <2>1, <2>2, Division
<1>4. NumMiners \in 1 .. MaxMiners /\ {Stride, MaxBatches, MaxMiners} \subseteq Nat \ {0}
  BY RangeAssumption
<1>5. QED
  BY <1>1, <1>2, <1>3, <1>4, WidthAssumption

\* The parts of an extranonce.
LEMMA ExtraParts ==
  ASSUME NEW x \in ExtraNonces
  PROVE  /\ x.size \in Sizes /\ x.size \in 1 .. Digits /\ x # NoExtra
         /\ x.value \in 0 .. Digit ^ x.size - 1
<1>1. PICK k \in Sizes : x \in [size : {k}, value : 0 .. Digit ^ k - 1]
  BY DEF ExtraNonces
<1>2. x.size = k /\ x.value \in 0 .. Digit ^ k - 1
  BY <1>1
<1>3. k \in 1 .. Digits
  BY RangeAssumption
<1>4. x # NoExtra
  BY <1>2, <1>3 DEF NoExtra
<1>5. QED
  BY <1>2, <1>3, <1>4

\* The slices of an extranonce leave room for what a miner tries.
LEMMA SliceInRange ==
  ASSUME NEW x \in ExtraNonces, NEW i \in Miners
  PROVE  /\ Slice(i, x) \in Nat
         /\ Slice(i, x) + MaxBatches * Batch <= Digit ^ (Digits - x.size)
<1> DEFINE P == Digit ^ x.size
           R == Digit ^ (Digits - x.size)
           t == Word \div (MaxMiners * P)
<1>1. x.size \in Sizes /\ P \in Nat \ {0} /\ R \in Nat \ {0}
  BY ExtraParts, DigitAssumption
<1>2. Word % (MaxMiners * P) = 0 /\ Word \div P + MaxBatches * Batch <= R
  BY <1>1, RangeAssumption, WidthAssumption
<1>3. Slice(i, x) = i * t
  BY DEF Slice
<1>4. Word \in Nat \ {0} /\ MaxMiners \in Nat \ {0} /\ i \in Nat /\ i < MaxMiners
      /\ MaxBatches \in Nat /\ Batch \in Nat
  BY Widths DEF Miners
<1> HIDE DEF P, R
<1>5. MaxMiners * P \in Nat \ {0}
  BY <1>1, <1>4
<1>6. Word = t * (MaxMiners * P) /\ t \in Int
  <2> DEFINE d == MaxMiners * P
  <2>1. d \in Nat \ {0} /\ Word % d = 0
    BY <1>2, <1>5
  <2> HIDE DEF d
  <2>2. Word = (Word \div d) * d + (Word % d) /\ Word \div d \in Int
    BY <1>4, <2>1, Division
  <2>3. Word = (Word \div d) * d
    <3>1. (Word \div d) * d \in Int
      BY <2>1, <2>2
    <3>2. QED
      BY <2>1, <2>2, <3>1
  <2>4. QED
    BY <2>2, <2>3 DEF d
<1> HIDE DEF t
<1>7. t \in Nat
  <2>1. ASSUME t < 0 PROVE FALSE
    <3>1. -t \in Nat /\ (-t) * (MaxMiners * P) \in Nat /\ (-t) * (MaxMiners * P) = -(t * (MaxMiners * P))
      BY <1>5, <1>6, <2>1
    <3>2. QED
      BY <1>4, <1>6, <3>1
  <2>2. QED
    BY <1>6, <2>1
<1>8. Word \div P = t * MaxMiners
  <2>1. t * (MaxMiners * P) = (t * MaxMiners) * P + 0 /\ t * MaxMiners \in Int
    BY <1>1, <1>4, <1>7
  <2> DEFINE q == t * MaxMiners
  <2>2. q \in Int
    BY <2>1
  <2> HIDE DEF q
  <2>3. (q * P + 0) \div P = q
    <3>1. 0 \in 0 .. P - 1
      BY <1>1
    <3>2. QED
      BY <1>1, <2>2, <3>1, DivMod
  <2>4. Word = q * P + 0
    BY <1>6, <2>1 DEF q
  <2>5. QED
    BY <2>3, <2>4 DEF q
<1>9. i * t \in Nat /\ i * t <= t * MaxMiners
  <2>1. (MaxMiners - i) * t \in Nat /\ t * MaxMiners = i * t + (MaxMiners - i) * t
    BY <1>4, <1>7
  <2>2. i * t \in Nat
    BY <1>4, <1>7
  <2>3. QED
    BY <2>1, <2>2
<1>10. MaxBatches * Batch \in Nat /\ t * MaxMiners \in Nat
  BY <1>4, <1>7
<1>11. QED
  BY <1>1, <1>2, <1>3, <1>8, <1>9, <1>10 DEF R

\* An assigned start nonce leaves the digits behind the extranonce free.
LEMMA StartInRange ==
  ASSUME NEW x \in ExtraNonces
  PROVE  /\ startNonce(x) \in Nat
         /\ startNonce(x) + Digit ^ (Digits - x.size) <= Space
<1> DEFINE P == Digit ^ x.size
           R == Digit ^ (Digits - x.size)
<1>1. P \in Nat \ {0} /\ R \in Nat \ {0} /\ P * R = Space /\ x.value \in 0 .. P - 1
  BY ExtraParts, DigitAssumption
<1>2. startNonce(x) = x.value * R
  BY DEF startNonce
<1> HIDE DEF P, R
<1>3. (P - 1 - x.value) * R \in Nat /\ P * R = x.value * R + R + (P - 1 - x.value) * R
      /\ x.value * R \in Nat
  <2>1. \A v \in 0 .. P - 1 : /\ (P - 1 - v) * R \in Nat /\ v * R \in Nat
                              /\ P * R = v * R + R + (P - 1 - v) * R
    BY <1>1
  <2>2. QED
    BY <1>1, <2>1
<1>4. QED
  BY <1>1, <1>2, <1>3 DEF R

\* The first nonce of a job is one.
LEMMA FirstInRange ==
  ASSUME NEW x \in ExtraNonces \cup {NoExtra}, NEW i \in Miners, m_nonce_scrambler \in Nat
  PROVE  FirstNonce(i, x) \in Nonces
<1>1. CASE x = NoExtra
  <2>1. m_nonce_scrambler + i * Stride \in Int
    BY Widths DEF Miners
  <2>2. QED
    BY <1>1, <2>1, Widths, Division DEF FirstNonce, get_start_nonce, Nonces
<1>2. CASE x \in ExtraNonces
  <2>1. /\ startNonce(x) \in Nat /\ Slice(i, x) \in Nat /\ MaxBatches * Batch \in Nat \ {0}
        /\ Digit ^ (Digits - x.size) \in Nat
    <3>1. \A a, b \in Nat \ {0} : a * b \in Nat \ {0}
      OBVIOUS
    <3>2. QED
      BY <1>2, <3>1, StartInRange, SliceInRange, Widths, ExtraParts, DigitAssumption
  <2>2. startNonce(x) + Slice(i, x) \in Nonces
    BY <1>2, <2>1, StartInRange, SliceInRange, Widths DEF Nonces
  <2>3. (startNonce(x) + Slice(i, x)) % Word \in Nonces
    <3> DEFINE n == startNonce(x) + Slice(i, x)
    <3>1. n \in Int /\ Word \in Nat \ {0} /\ Word <= Space /\ Space \in Nat
      BY <2>1, Widths
    <3> HIDE DEF n
    <3>2. n % Word \in 0 .. Word - 1
      BY <3>1, Division
    <3>3. n % Word \in Nonces
      BY <3>1, <3>2 DEF Nonces
    <3>4. QED
      BY <3>3 DEF n
  <2>4. x # NoExtra
    BY <1>2, ExtraParts
  <2>5. QED
    BY <2>2, <2>3, <2>4 DEF FirstNonce
<1>3. QED
  BY <1>1, <1>2

\* The nonces a CUDA device tries are those above its device bits.
LEMMA NextInRange ==
  ASSUME NEW n \in Nonces, NEW i \in Nat
  PROVE  /\ NextNonce(n, i) \in Nonces
         /\ (NextNonce(n, i) % (Low * Devs)) - (i % Devs) * Low \in 0 .. max_nonce
<1> DEFINE D == Low * Devs
           stepped == (n + Batch) % Space
           wrapped == IF stepped % Low > max_nonce THEN 0 ELSE stepped
           q == wrapped \div D
           l == wrapped % Low
           b == i % Devs
<1>1. /\ Space \in Nat \ {0} /\ D \in Nat \ {0} /\ Low \in Nat \ {0} /\ Devs \in Nat \ {0}
      /\ High \in Nat \ {0} /\ Batch \in Nat \ {0} /\ Space = High * D /\ max_nonce \in Nat
  BY Widths
<1>2. NextNonce(n, i) = q * D + b * Low + l
  BY DEF NextNonce
<1> HIDE DEF D
<1>3. stepped \in 0 .. Space - 1 /\ stepped \in Int
  <2> DEFINE a == n + Batch
  <2>1. a \in Int
    BY <1>1 DEF Nonces
  <2> HIDE DEF a
  <2>2. a % Space \in 0 .. Space - 1
    BY <1>1, <2>1, Division
  <2>3. a % Space \in Int
    BY <2>2
  <2>4. QED
    BY <2>2, <2>3 DEF a
<1> HIDE DEF stepped
<1>4. wrapped \in 0 .. Space - 1 /\ wrapped \in Int /\ l \in 0 .. max_nonce
  <2>1. stepped % Low \in 0 .. Low - 1
    BY <1>1, <1>3, Division
  <2>2. 0 % Low = 0
    <3>1. (0 * Low + 0) % Low = 0 /\ 0 * Low + 0 = 0
      BY <1>1, DivMod
    <3>2. QED
      BY <3>1
  <2>3. CASE stepped % Low > max_nonce
    BY <1>1, <1>3, <2>2, <2>3
  <2>4. CASE ~(stepped % Low > max_nonce)
    BY <1>1, <1>3, <2>1, <2>4
  <2>5. QED
    BY <2>3, <2>4
<1> HIDE DEF wrapped
<1>5. l \in 0 .. Low - 1 /\ b \in 0 .. Devs - 1
  BY <1>1, <1>4, Division
<1>6. q \in Int /\ wrapped = q * D + (wrapped % D) /\ wrapped % D \in 0 .. D - 1
  BY <1>1, <1>4, Division
<1> HIDE DEF q, l, b
<1>7. q \in 0 .. High - 1
  <2>1. ASSUME q < 0 PROVE FALSE
    <3>1. (-q - 1) * D >= 0 /\ q * D = -((-q - 1) * D) - D /\ (-q - 1) * D \in Int
      BY <1>1, <1>6, <2>1
    <3>2. QED
      BY <1>1, <1>4, <1>6, <3>1
  <2>2. ASSUME q >= High PROVE FALSE
    <3>1. (q - High) * D >= 0 /\ q * D = (q - High) * D + High * D /\ (q - High) * D \in Int
      BY <1>1, <1>6, <2>2
    <3>2. QED
      BY <1>1, <1>4, <1>6, <3>1
  <2>3. QED
    BY <1>1, <1>6, <2>1, <2>2
<1>8. b * Low \in Nat /\ b * Low + l \in 0 .. D - 1
  <2>1. b * Low \in Nat /\ (Devs - 1 - b) * Low \in Nat
        /\ Low * Devs = b * Low + Low + (Devs - 1 - b) * Low
    <3>1. \A v \in 0 .. Devs - 1 : /\ v * Low \in Nat /\ (Devs - 1 - v) * Low \in Nat
                                   /\ Low * Devs = v * Low + Low + (Devs - 1 - v) * Low
      BY <1>1
    <3>2. QED
      BY <1>5, <3>1
  <2>2. QED
    BY <1>1, <1>5, <2>1 DEF D
<1>9. NextNonce(n, i) = q * D + (b * Low + l) /\ q * D \in Nat
  BY <1>1, <1>2, <1>4, <1>7, <1>8
<1>10. NextNonce(n, i) \in Nonces
  <2>1. (High - 1 - q) * D \in Nat /\ High * D = q * D + D + (High - 1 - q) * D
    BY <1>1, <1>7
  <2>2. QED
    BY <1>1, <1>8, <1>9, <2>1 DEF Nonces
<1>11. NextNonce(n, i) % D = b * Low + l
  <2> DEFINE r == b * Low + l
  <2>1. r \in 0 .. D - 1
    BY <1>8
  <2> HIDE DEF r
  <2>2. (q * D + r) % D = r
    BY <1>1, <1>6, <2>1, DivMod
  <2>3. QED
    BY <1>9, <2>2 DEF r
<1>12. QED
  BY <1>4, <1>8, <1>10, <1>11 DEF D, b

-----------------------------------------------------------------------------
(* How the miners walk through a job.                                      *)

\* The first nonce of batch k of an OpenCL miner.
Walk(i, k) == (FirstNonce(i, current[i].extra) + k * Batch) % Space

\* An OpenCL miner has tried the batches up to its counter, one after the other.
OpenClWalks ==
    \A i \in Miners : sealer = "opencl" /\ current[i].job # 0 =>
        LET n == Cardinality(tried[i])
        IN  /\ m_current_nonce[i] = Walk(i, n)
            /\ tried[i] = {Walk(i, k) : k \in 0 .. n - 1}

\* A CUDA miner has tried nonces above its device bits.
CudaWalks ==
    \A i \in Miners : sealer = "cuda" =>
        \A first \in tried[i] : (first % (Low * Devs)) - (i % Devs) * Low \in 0 .. max_nonce

\* A miner has tried as many batches as the model allows, and none without a job.
TriedInv ==
    \A i \in Miners :
        /\ IsFiniteSet(tried[i]) /\ Cardinality(tried[i]) <= MaxBatches
        /\ current[i].job = 0 => tried[i] = {}

\* A pool that has assigned an extranonce goes on to do so.
ExtraInv ==
    /\ m_work.extra # NoExtra => extra # NoExtra
    /\ \A i \in Miners : current[i].extra # NoExtra => extra # NoExtra

WalkInv == NonceTypeOK /\ TriedInv /\ OpenClWalks /\ CudaWalks /\ ExtraInv

\* No miner has a job at first.
LEMMA InitWalk == NonceInit => WalkInv
<1> SUFFICES ASSUME NonceInit PROVE WalkInv
  OBVIOUS
<1>1. 0 \in Nonces /\ 0 \in 0 .. MaxJobs /\ 0 \in 0 .. Digits
  BY Widths, RangeAssumption DEF Nonces
<1>2. NoJob \in [job : 0 .. MaxJobs, extra : ExtraNonces \cup {NoExtra}]
  BY <1>1 DEF NoJob
<1>3. share \in [extra : ExtraNonces \cup {NoExtra}, nonce : Nonces, size : 0 .. Digits, sent : Nonces]
  BY <1>1 DEF NonceInit, NoShare
<1>4. NonceTypeOK
  BY <1>1, <1>2, <1>3 DEF NonceInit, NonceTypeOK
<1>5. TriedInv
  BY FS_EmptySet, Widths DEF NonceInit, TriedInv
<1>6. OpenClWalks /\ CudaWalks /\ ExtraInv
  BY DEF NonceInit, NoJob, OpenClWalks, CudaWalks, ExtraInv
<1>7. QED
  BY <1>4, <1>5, <1>6 DEF WalkInv

\* A miner that turns to a package starts its walk.
LEMMA SwitchKeepsWalk ==
  ASSUME WalkInv, NEW i \in Miners, SwitchWork(i)
  PROVE  WalkInv'
<1> DEFINE x == m_work.extra
<1>1. /\ UNCHANGED <<sealer, m_nonce_scrambler, extra, m_work, share>>
      /\ current' = [current EXCEPT ![i] = m_work]
      /\ m_current_nonce' = [m_current_nonce EXCEPT ![i] =
                                IF KeepsCounter(i, x) THEN @ ELSE FirstNonce(i, x)]
      /\ tried' = [tried EXCEPT ![i] = {}]
  BY DEF SwitchWork, config
<1>2. /\ DOMAIN current = Miners /\ DOMAIN m_current_nonce = Miners /\ DOMAIN tried = Miners
      /\ m_work \in [job : 0 .. MaxJobs, extra : ExtraNonces \cup {NoExtra}]
      /\ x \in ExtraNonces \cup {NoExtra} /\ m_nonce_scrambler \in Nat
      /\ m_current_nonce[i] \in Nonces
  BY RangeAssumption, Widths DEF WalkInv, NonceTypeOK
<1>3. FirstNonce(i, x) \in Nonces
  BY <1>2, FirstInRange
<1>4. NonceTypeOK'
  BY <1>1, <1>2, <1>3 DEF WalkInv, NonceTypeOK
<1>5. TriedInv'
  BY <1>1, <1>2, FS_EmptySet, Widths DEF WalkInv, TriedInv
<1>6. CudaWalks' /\ ExtraInv'
  BY <1>1, <1>2 DEF WalkInv, CudaWalks, ExtraInv
<1>7. OpenClWalks'
  <2> SUFFICES ASSUME NEW j \in Miners, sealer' = "opencl", current'[j].job # 0
               PROVE  /\ m_current_nonce'[j] = Walk(j, Cardinality(tried[j]))'
                      /\ tried'[j] = {Walk(j, k)' : k \in 0 .. Cardinality(tried'[j]) - 1}
    BY DEF OpenClWalks
  <2>1. CASE j # i
    <3>1. /\ current'[j] = current[j] /\ tried'[j] = tried[j]
          /\ m_current_nonce'[j] = m_current_nonce[j]
      BY <1>1, <1>2, <2>1
    <3>2. \A k : Walk(j, k)' = Walk(j, k)
      BY <1>1, <3>1 DEF Walk, FirstNonce, get_start_nonce
    <3>3. Walk(j, Cardinality(tried[j]))' = Walk(j, Cardinality(tried[j]))
      BY <1>1, <3>1 DEF Walk, FirstNonce, get_start_nonce
    <3>4. {Walk(j, k)' : k \in 0 .. Cardinality(tried'[j]) - 1}
             = {Walk(j, k) : k \in 0 .. Cardinality(tried[j]) - 1}
      BY <3>1, <3>2
    <3>5. QED
      BY <1>1, <3>1, <3>3, <3>4 DEF WalkInv, OpenClWalks
  <2>2. CASE j = i
    <3>1. current'[i] = m_work /\ tried'[i] = {} /\ m_current_nonce'[i] = FirstNonce(i, x)
      BY <1>1, <1>2 DEF KeepsCounter
    <3>2. Cardinality(tried'[i]) = 0
      BY <3>1, FS_EmptySet
    <3>3. Walk(i, 0)' = FirstNonce(i, x)
      <4> DEFINE f == FirstNonce(i, x)
      <4>1. Walk(i, 0)' = (f + 0 * Batch) % Space
        BY <1>1, <3>1 DEF Walk, FirstNonce, get_start_nonce
      <4>2. f \in 0 .. Space - 1 /\ Batch \in Nat /\ Space \in Nat \ {0}
        BY <1>3, Widths DEF Nonces
      <4> HIDE DEF f
      <4>3. f + 0 * Batch = 0 * Space + f /\ (0 * Space + f) % Space = f
        BY <4>2, DivMod
      <4>4. QED
        BY <4>1, <4>3 DEF f
    <3>4. Walk(i, Cardinality(tried[i]))' = Walk(i, 0)'
      BY <3>2 DEF Walk
    <3>5. {Walk(i, k)' : k \in 0 .. Cardinality(tried'[i]) - 1} = {}
      BY <3>2
    <3>6. QED
      BY <2>2, <3>1, <3>3, <3>4, <3>5
  <2>3. QED
    BY <2>1, <2>2
<1>8. QED
  BY <1>4, <1>5, <1>6, <1>7 DEF WalkInv

\* The batches of a walk are apart: what a miner tries of a job does not go round.
LEMMA WalkIsApart ==
  ASSUME NEW f \in Nat, NEW n \in Nat, NEW k \in Nat, k < n, n < MaxBatches
  PROVE  (f + k * Batch) % Space # (f + n * Batch) % Space
<1>1. /\ Batch \in Nat \ {0} /\ Space \in Nat \ {0} /\ MaxBatches \in Nat
      /\ Stride \in Nat \ {0} /\ MaxMiners \in Nat \ {0}
  BY Widths
<1>2. /\ n * Batch = k * Batch + Batch + (n - k - 1) * Batch /\ k * Batch \in Nat
      /\ (n - k - 1) * Batch \in Nat /\ n * Batch \in Nat
  BY <1>1
<1>3. MaxBatches * Batch = n * Batch + Batch + (MaxBatches - n - 1) * Batch
      /\ (MaxBatches - n - 1) * Batch \in Nat
  BY <1>1
<1>4. MaxMiners * Stride = Stride + (MaxMiners - 1) * Stride /\ (MaxMiners - 1) * Stride \in Nat
  BY <1>1
<1>5. MaxBatches * Batch <= Space
  BY <1>1, <1>2, <1>3, <1>4, WidthAssumption
<1> DEFINE a == f + k * Batch
           b == f + n * Batch
<1>6. a \in Int /\ b \in Int /\ a < b /\ b - a < Space
  BY <1>1, <1>2, <1>3, <1>5
<1> HIDE DEF a, b
<1>7. a % Space # b % Space
  BY <1>1, <1>6, Apart
<1>8. QED
  BY <1>7 DEF a, b

\* An OpenCL miner tries the batch its counter is at, and steps.
LEMMA OpenClSearchWalks ==
  ASSUME WalkInv, NEW i \in Miners, Search(i), sealer = "opencl"
  PROVE  /\ m_current_nonce[i] \notin tried[i]
         /\ tried' = [tried EXCEPT ![i] = @ \cup {m_current_nonce[i]}]
         /\ m_current_nonce' = [m_current_nonce EXCEPT ![i] = Walk(i, Cardinality(tried[i]) + 1)]
         /\ Walk(i, Cardinality(tried[i]) + 1) \in Nonces
<1> DEFINE c == Cardinality(tried[i])
           f == FirstNonce(i, current[i].extra)
<1>1. /\ current[i].job # 0 /\ c < MaxBatches /\ c \in Nat
      /\ m_current_nonce[i] = Walk(i, c) /\ tried[i] = {Walk(i, k) : k \in 0 .. c - 1}
  BY FS_CardinalityType DEF Search, WalkInv, OpenClWalks, TriedInv
<1>2. f \in Nat /\ Space \in Nat \ {0} /\ Batch \in Nat \ {0}
  <2>1. current[i].extra \in ExtraNonces \cup {NoExtra} /\ m_nonce_scrambler \in Nat
    BY RangeAssumption, Widths DEF WalkInv, NonceTypeOK
  <2>2. FirstNonce(i, current[i].extra) \in Nonces
    BY <2>1, FirstInRange
  <2>3. QED
    BY <2>2, Widths DEF Nonces
<1>3. \A k : Walk(i, k) = (f + k * Batch) % Space
  BY DEF Walk
<1> HIDE DEF f, c
<1>4. m_current_nonce[i] \notin tried[i]
  <2>1. ASSUME NEW k \in 0 .. c - 1 PROVE Walk(i, k) # Walk(i, c)
    <3>1. k \in Nat /\ k < c
      BY <1>1
    <3>2. (f + k * Batch) % Space # (f + c * Batch) % Space
      BY <1>1, <1>2, <3>1, WalkIsApart
    <3>3. QED
      BY <1>3, <3>2
  <2>2. QED
    BY <1>1, <2>1
<1>5. (m_current_nonce[i] + Batch) % Space = Walk(i, c + 1)
  <2> DEFINE a == f + c * Batch
  <2>1. a \in Int /\ a + Batch = f + (c + 1) * Batch
    BY <1>1, <1>2
  <2>2. m_current_nonce[i] = a % Space
    BY <1>1, <1>3
  <2> HIDE DEF a
  <2>3. ((a % Space) + Batch) % Space = (a + Batch) % Space
    <3>1. Batch \in Int
      BY <1>2
    <3>2. QED
      BY <1>2, <2>1, <3>1, AddMod
  <2>4. QED
    BY <1>3, <2>1, <2>2, <2>3
<1>6. Walk(i, c + 1) \in Nonces
  <2> DEFINE a == f + (c + 1) * Batch
  <2>1. a \in Int
    BY <1>1, <1>2
  <2> HIDE DEF a
  <2>2. a % Space \in 0 .. Space - 1
    BY <1>2, <2>1, Division
  <2>3. QED
    BY <1>3, <2>2 DEF a, Nonces
<1>7. QED
  BY <1>4, <1>5, <1>6 DEF Search, c

\* A search goes on with the walk.
LEMMA SearchKeepsWalk ==
  ASSUME WalkInv, NEW i \in Miners, Search(i)
  PROVE  WalkInv'
<1> DEFINE c == Cardinality(tried[i])
<1>1. /\ UNCHANGED <<sealer, m_nonce_scrambler, extra, m_work, current, share>>
      /\ current[i].job # 0 /\ c < MaxBatches
  BY DEF Search, config
<1>2. /\ current \in [Miners -> [job : 0 .. MaxJobs, extra : ExtraNonces \cup {NoExtra}]]
      /\ m_current_nonce \in [Miners -> Nonces] /\ tried \in [Miners -> SUBSET Nonces]
      /\ IsFiniteSet(tried[i]) /\ sealer \in {"cuda", "opencl"}
  BY RangeAssumption DEF WalkInv, NonceTypeOK, TriedInv
<1>3. c \in Nat /\ MaxBatches \in Nat
  BY <1>2, FS_CardinalityType, Widths
<1> HIDE DEF c
<1>4. ExtraInv'
  BY <1>1 DEF WalkInv, ExtraInv
<1>5. \A S : IsFiniteSet(S) /\ Cardinality(S) <= c + 1 => Cardinality(S) <= MaxBatches
  BY <1>1, <1>3, FS_CardinalityType
<1>6. ASSUME NEW n \in Nonces, tried' = [tried EXCEPT ![i] = @ \cup {n}]
      PROVE  TriedInv' /\ tried' \in [Miners -> SUBSET Nonces]
  <2>1. IsFiniteSet(tried[i] \cup {n}) /\ Cardinality(tried[i] \cup {n}) <= c + 1
    <3>1. /\ IsFiniteSet(tried[i] \cup {n})
          /\ Cardinality(tried[i] \cup {n}) = IF n \in tried[i] THEN c ELSE c + 1
      BY <1>2, FS_AddElement DEF c
    <3>2. QED
      BY <1>3, <3>1
  <2>2. tried'[i] = tried[i] \cup {n} /\ \A j \in Miners \ {i} : tried'[j] = tried[j]
    BY <1>2, <1>6
  <2>3. IsFiniteSet(tried'[i]) /\ Cardinality(tried'[i]) <= MaxBatches
    BY <1>5, <2>1, <2>2
  <2>4. TriedInv'
    BY <1>1, <2>2, <2>3 DEF WalkInv, TriedInv
  <2>5. QED
    BY <1>2, <1>6, <2>4
<1>7. CASE sealer = "opencl"
  <2>1. /\ m_current_nonce[i] \notin tried[i]
        /\ tried' = [tried EXCEPT ![i] = @ \cup {m_current_nonce[i]}]
        /\ m_current_nonce' = [m_current_nonce EXCEPT ![i] = Walk(i, c + 1)]
        /\ Walk(i, c + 1) \in Nonces
    BY <1>7, OpenClSearchWalks DEF c
  <2>2. m_current_nonce[i] \in Nonces
    BY <1>2
  <2>3. TriedInv' /\ tried' \in [Miners -> SUBSET Nonces]
    BY <1>6, <2>1, <2>2
  <2>4. NonceTypeOK'
    BY <1>1, <1>2, <2>1, <2>3 DEF WalkInv, NonceTypeOK
  <2>5. CudaWalks'
    BY <1>1, <1>7 DEF CudaWalks
  <2>6. \A j, k : Walk(j, k)' = Walk(j, k)
    BY <1>1 DEF Walk, FirstNonce, get_start_nonce
  <2>7. OpenClWalks'
    <3> SUFFICES ASSUME NEW j \in Miners, current[j].job # 0
                 PROVE  /\ m_current_nonce'[j] = Walk(j, Cardinality(tried[j]))'
                        /\ tried'[j] = {Walk(j, k)' : k \in 0 .. Cardinality(tried'[j]) - 1}
      BY <1>1 DEF OpenClWalks
    <3>1. /\ Walk(j, Cardinality(tried[j]))' = Walk(j, Cardinality(tried'[j]))
          /\ {Walk(j, k)' : k \in 0 .. Cardinality(tried'[j]) - 1}
                 = {Walk(j, k) : k \in 0 .. Cardinality(tried'[j]) - 1}
      <4>1. Walk(j, Cardinality(tried[j]))' = Walk(j, Cardinality(tried'[j]))
        BY <1>1 DEF Walk, FirstNonce, get_start_nonce
      <4>2. QED
        BY <2>6, <4>1
    <3>2. /\ m_current_nonce[j] = Walk(j, Cardinality(tried[j]))
          /\ tried[j] = {Walk(j, k) : k \in 0 .. Cardinality(tried[j]) - 1}
      BY <1>7 DEF WalkInv, OpenClWalks
    <3>3. CASE j # i
      <4>1. tried'[j] = tried[j] /\ m_current_nonce'[j] = m_current_nonce[j]
        BY <1>2, <2>1, <3>3
      <4>2. QED
        BY <3>1, <3>2, <4>1
    <3>4. CASE j = i
      <4>1. tried'[i] = tried[i] \cup {m_current_nonce[i]} /\ m_current_nonce'[i] = Walk(i, c + 1)
        BY <1>2, <2>1
      <4>2. Cardinality(tried'[i]) = c + 1
        BY <1>2, <2>1, <4>1, FS_AddElement DEF c
      <4>3. tried'[i] = {Walk(i, k) : k \in 0 .. c}
        <5>1. tried[i] = {Walk(i, k) : k \in 0 .. c - 1} /\ m_current_nonce[i] = Walk(i, c)
          BY <3>2, <3>4 DEF c
        <5>2. 0 .. c = (0 .. c - 1) \cup {c}
          BY <1>3
        <5>3. QED
          BY <4>1, <5>1, <5>2
      <4>4. (c + 1) - 1 = c
        BY <1>3
      <4>5. QED
        BY <3>1, <3>4, <4>1, <4>2, <4>3, <4>4
    <3>5. QED
      BY <3>3, <3>4
  <2>8. QED
    BY <1>4, <2>3, <2>4, <2>5, <2>7 DEF WalkInv
<1>8. CASE sealer = "cuda"
  <2> DEFINE n == NextNonce(m_current_nonce[i], i)
  <2>1. n \in Nonces /\ (n % (Low * Devs)) - (i % Devs) * Low \in 0 .. max_nonce
    <3>1. m_current_nonce[i] \in Nonces /\ i \in Nat
      BY <1>2 DEF Miners
    <3>2. QED
      BY <3>1, NextInRange
  <2>2. /\ tried' = [tried EXCEPT ![i] = @ \cup {n}]
        /\ m_current_nonce' = [m_current_nonce EXCEPT ![i] = n]
    BY <1>8 DEF Search
  <2> HIDE DEF n
  <2>3. TriedInv' /\ tried' \in [Miners -> SUBSET Nonces]
    BY <1>6, <2>1, <2>2
  <2>4. NonceTypeOK'
    BY <1>1, <1>2, <2>1, <2>2, <2>3 DEF WalkInv, NonceTypeOK
  <2>5. CudaWalks'
    <3>1. \A j \in Miners : tried'[j] = IF j = i THEN tried[i] \cup {n} ELSE tried[j]
      BY <1>2, <2>2
    <3>2. QED
      BY <1>1, <2>1, <3>1 DEF WalkInv, CudaWalks
  <2>6. OpenClWalks'
    BY <1>1, <1>8 DEF OpenClWalks
  <2>7. QED
    BY <1>4, <2>3, <2>4, <2>5, <2>6 DEF WalkInv
<1>9. QED
  BY <1>2, <1>7, <1>8

\* The walks do not depend on what the pool and the farm do.
LEMMA UnchangedWalks ==
  ASSUME WalkInv, UNCHANGED <<config, current, m_current_nonce, tried>>
  PROVE  TriedInv' /\ OpenClWalks' /\ CudaWalks'
<1>1. /\ sealer' = sealer /\ m_nonce_scrambler' = m_nonce_scrambler /\ current' = current
      /\ m_current_nonce' = m_current_nonce /\ tried' = tried
  BY DEF config
<1>2. TriedInv' /\ CudaWalks'
  BY <1>1 DEF WalkInv, TriedInv, CudaWalks
<1>3. OpenClWalks'
  <2> SUFFICES ASSUME NEW j \in Miners, sealer' = "opencl", current'[j].job # 0
               PROVE  /\ m_current_nonce'[j] = Walk(j, Cardinality(tried[j]))'
                      /\ tried'[j] = {Walk(j, k)' : k \in 0 .. Cardinality(tried'[j]) - 1}
    BY DEF OpenClWalks
  <2>1. \A k : Walk(j, k)' = Walk(j, k)
    BY <1>1 DEF Walk, FirstNonce, get_start_nonce
  <2>2. Walk(j, Cardinality(tried[j]))' = Walk(j, Cardinality(tried[j]))
    BY <1>1 DEF Walk, FirstNonce, get_start_nonce
  <2>3. {Walk(j, k)' : k \in 0 .. Cardinality(tried'[j]) - 1}
           = {Walk(j, k) : k \in 0 .. Cardinality(tried[j]) - 1}
    BY <1>1, <2>1
  <2>4. QED
    BY <1>1, <2>2, <2>3 DEF WalkInv, OpenClWalks
<1>4. QED
  BY <1>2, <1>3

\* What submitSolution sends of a nonce is a nonce.
LEMMA SentInRange ==
  ASSUME WalkInv, NEW n \in Nonces
  PROVE  SentDigits \in 0 .. Digits /\ n % Digit ^ SentDigits \in Nonces
<1> DEFINE R == Digit ^ SentDigits
<1>1. extra \in ExtraNonces \cup {NoExtra} /\ Digits \in Nat /\ Space \in Nat \ {0}
  BY RangeAssumption, Widths DEF WalkInv, NonceTypeOK
<1>2. SentDigits \in 0 .. Digits /\ R \in Nat \ {0} /\ R <= Space
  <2>1. CASE extra = NoExtra
    <3>1. SentDigits = Digits
      BY <1>1, <2>1 DEF SentDigits, NoExtra
    <3>2. QED
      BY <1>1, <3>1, RangeAssumption
  <2>2. CASE extra \in ExtraNonces
    <3>1. extra.size \in Sizes /\ extra.size \in 1 .. Digits
      BY <2>2, ExtraParts
    <3>2. SentDigits = Digits - extra.size
      BY DEF SentDigits
    <3>3. SentDigits \in 0 .. Digits
      BY <1>1, <3>1, <3>2
    <3>4. R \in Nat \ {0} /\ startNonce(extra) \in Nat /\ startNonce(extra) + R <= Space
      BY <2>2, <3>1, <3>2, DigitAssumption, StartInRange
    <3> HIDE DEF R
    <3>5. QED
      BY <1>1, <3>3, <3>4
  <2>3. QED
    BY <1>1, <2>1, <2>2
<1> HIDE DEF R
<1>3. n % R \in 0 .. R - 1
  BY <1>1, <1>2, Division DEF Nonces
<1>4. n % R \in Nonces
  BY <1>1, <1>2, <1>3 DEF Nonces
<1>5. QED
  BY <1>2, <1>4 DEF R

\* A share is taken from a nonce a miner tried.
LEMMA SubmitKeepsWalk ==
  ASSUME WalkInv, NEW i \in Miners, NEW first \in tried[i], NEW offset \in 0 .. Batch - 1,
         SubmitSolution(i, first, offset)
  PROVE  WalkInv'
<1> DEFINE hit == (first + offset) % Space
<1>1. /\ UNCHANGED <<sealer, m_nonce_scrambler, extra, m_work, current, m_current_nonce, tried>>
      /\ share' = [extra |-> current[i].extra, nonce |-> hit,
                   size |-> SentDigits, sent |-> hit % Digit ^ SentDigits]
  BY DEF SubmitSolution, config
<1>2. hit \in Nonces
  <2> DEFINE a == first + offset
  <2>1. a \in Int /\ Space \in Nat \ {0}
    BY Widths DEF WalkInv, NonceTypeOK, Nonces
  <2> HIDE DEF a
  <2>2. a % Space \in 0 .. Space - 1
    BY <2>1, Division
  <2>3. QED
    BY <2>2 DEF a, Nonces
<1> HIDE DEF hit
<1>3. SentDigits \in 0 .. Digits /\ hit % Digit ^ SentDigits \in Nonces
  BY <1>2, SentInRange
<1>4. current[i].extra \in ExtraNonces \cup {NoExtra}
  BY DEF WalkInv, NonceTypeOK
<1>5. NonceTypeOK'
  BY <1>1, <1>2, <1>3, <1>4 DEF WalkInv, NonceTypeOK
<1>6. TriedInv' /\ OpenClWalks' /\ CudaWalks'
  BY <1>1, UnchangedWalks DEF config
<1>7. ExtraInv'
  BY <1>1 DEF WalkInv, ExtraInv
<1>8. QED
  BY <1>5, <1>6, <1>7 DEF WalkInv

\* Every step of the pool, the farm and the miners keeps the walks.
LEMMA NextWalk == WalkInv /\ [NonceNext]_nonceVars => WalkInv'
<1> SUFFICES ASSUME WalkInv, [NonceNext]_nonceVars PROVE WalkInv'
  OBVIOUS
<1>1. ASSUME NEW x \in ExtraNonces, ProcessExtranonce(x) PROVE WalkInv'
  <2>1. /\ UNCHANGED <<sealer, m_nonce_scrambler, m_work, current, m_current_nonce, tried, share>>
        /\ extra' = x
    BY <1>1 DEF ProcessExtranonce, config
  <2>2. x # NoExtra
    BY <1>1, ExtraParts
  <2>3. NonceTypeOK' /\ ExtraInv'
    BY <2>1, <2>2, <1>1 DEF WalkInv, NonceTypeOK, ExtraInv
  <2>4. QED
    BY <2>1, <2>3, UnchangedWalks DEF WalkInv, config
<1>2. ASSUME Notify PROVE WalkInv'
  <2>1. /\ UNCHANGED <<sealer, m_nonce_scrambler, extra, current, m_current_nonce, tried, share>>
        /\ m_work' = [job |-> m_work.job + 1, extra |-> extra] /\ m_work.job < MaxJobs
    BY <1>2 DEF Notify, config
  <2>2. NonceTypeOK'
    <3>1. m_work.job \in 0 .. MaxJobs /\ MaxJobs \in Nat
      BY RangeAssumption DEF WalkInv, NonceTypeOK
    <3>2. m_work.job + 1 \in 0 .. MaxJobs
      BY <2>1, <3>1
    <3>3. QED
      BY <2>1, <3>2 DEF WalkInv, NonceTypeOK
  <2>3. ExtraInv'
    BY <2>1 DEF WalkInv, ExtraInv
  <2>4. QED
    BY <2>1, <2>2, <2>3, UnchangedWalks DEF WalkInv, config
<1>3. ASSUME UNCHANGED nonceVars PROVE WalkInv'
  <2>1. UNCHANGED <<sealer, m_nonce_scrambler, extra, m_work, current, m_current_nonce, tried, share>>
    BY <1>3 DEF nonceVars, config
  <2>2. NonceTypeOK' /\ ExtraInv'
    BY <2>1 DEF WalkInv, NonceTypeOK, ExtraInv
  <2>3. QED
    BY <2>1, <2>2, UnchangedWalks DEF WalkInv, config
<1>4. QED
  BY <1>1, <1>2, <1>3, SwitchKeepsWalk, SearchKeepsWalk, SubmitKeepsWalk DEF NonceNext

LEMMA WalkInvariance == NonceSpec => []WalkInv
  BY InitWalk, NextWalk, PTL DEF NonceSpec

\* The state of the pool, the miners and the last share stays well-formed: the nonce
\* counters and the nonces sent are 64-bit numbers, whatever start nonce the extranonce,
\* the slice and the scrambler make (CLMiner and CUDAMiner::workLoop, submitSolution).
THEOREM NonceTypeCorrect == NonceSpec => []NonceTypeOK
<1>1. WalkInv => NonceTypeOK
  BY DEF WalkInv
<1>2. QED
  BY <1>1, WalkInvariance, PTL

-----------------------------------------------------------------------------
(* No nonce is tried by two miners.                                        *)

\* The strides of two miners have no nonce in common.
LEMMA StridesApart ==
  ASSUME NEW s \in Nat, NEW i \in Miners, NEW j \in Miners, i < j,
         NEW a \in 0 .. Stride - 1, NEW b \in 0 .. Stride - 1
  PROVE  (s + i * Stride + a) % Space # (s + j * Stride + b) % Space
<1>1. /\ i \in Nat /\ j \in Nat /\ j < MaxMiners /\ MaxMiners \in Nat \ {0}
      /\ Stride \in Nat \ {0} /\ Space \in Nat \ {0} /\ MaxMiners * Stride <= Space
  BY Widths, WidthAssumption DEF Miners
<1>2. /\ j * Stride = i * Stride + Stride + (j - i - 1) * Stride
      /\ i * Stride \in Nat /\ (j - i - 1) * Stride \in Nat
  BY <1>1
<1>3. /\ MaxMiners * Stride = j * Stride + Stride + (MaxMiners - j - 1) * Stride
      /\ j * Stride \in Nat /\ (MaxMiners - j - 1) * Stride \in Nat
  BY <1>1
<1> DEFINE p == s + i * Stride + a
           q == s + j * Stride + b
<1>4. p \in Int /\ q \in Int /\ p < q /\ q - p < Space
  BY <1>1, <1>2, <1>3
<1> HIDE DEF p, q
<1>5. p % Space # q % Space
  BY <1>1, <1>4, Apart
<1>6. QED
  BY <1>5 DEF p, q

\* How far into its walk a miner is with a nonce of a batch.
LEMMA BatchNonce ==
  ASSUME NEW n \in 0 .. MaxBatches, NEW k \in 0 .. n - 1, NEW offset \in 0 .. Batch - 1
  PROVE  /\ k * Batch \in Nat /\ k * Batch + offset \in Nat
         /\ k * Batch + offset < MaxBatches * Batch /\ MaxBatches * Batch \in Nat
<1>1. MaxBatches \in Nat /\ Batch \in Nat \ {0} /\ k \in Nat /\ k < MaxBatches
  BY Widths
<1>2. MaxBatches * Batch = k * Batch + Batch + (MaxBatches - k - 1) * Batch
      /\ k * Batch \in Nat /\ (MaxBatches - k - 1) * Batch \in Nat
  BY <1>1
<1>3. QED
  BY <1>1, <1>2

\* What an OpenCL miner has tried: the batches from its first nonce on.
LEMMA OpenClTried ==
  ASSUME WalkInv, sealer = "opencl", NEW i \in Miners, NEW first \in tried[i],
         NEW offset \in 0 .. Batch - 1
  PROVE  \E a \in Nat : /\ a < MaxBatches * Batch
                        /\ (first + offset) % Space
                              = (FirstNonce(i, current[i].extra) + a) % Space
<1> DEFINE n == Cardinality(tried[i])
           f == FirstNonce(i, current[i].extra)
<1>1. n \in 0 .. MaxBatches /\ current[i].job # 0
  <2>1. IsFiniteSet(tried[i]) /\ n <= MaxBatches /\ current[i].job # 0
    BY DEF WalkInv, TriedInv
  <2>2. n \in Nat /\ MaxBatches \in Nat
    BY <2>1, FS_CardinalityType, Widths
  <2>3. QED
    BY <2>1, <2>2
<1>2. PICK k \in 0 .. n - 1 : first = (f + k * Batch) % Space
  BY <1>1 DEF WalkInv, OpenClWalks, Walk
<1>3. f \in Nat
  <2>1. current[i].extra \in ExtraNonces \cup {NoExtra} /\ m_nonce_scrambler \in Nat
    BY RangeAssumption, Widths DEF WalkInv, NonceTypeOK
  <2>2. FirstNonce(i, current[i].extra) \in Nonces
    BY <2>1, FirstInRange
  <2>3. QED
    BY <2>2, Widths DEF Nonces
<1> HIDE DEF n, f
<1>4. /\ k * Batch \in Nat /\ k * Batch + offset \in Nat
      /\ k * Batch + offset < MaxBatches * Batch
  BY <1>1, BatchNonce
<1> DEFINE e == f + k * Batch
           a == k * Batch + offset
<1>5. e \in Int /\ offset \in Int /\ Space \in Nat \ {0} /\ e + offset = f + a
  BY <1>3, <1>4, Widths
<1>6. ((e % Space) + offset) % Space = (e + offset) % Space
  <2> HIDE DEF e
  <2>1. QED
    BY <1>5, AddMod
<1>7. (first + offset) % Space = (f + a) % Space
  BY <1>2, <1>5, <1>6
<1>8. QED
  BY <1>4, <1>7 DEF f

\* Without an extranonce an OpenCL miner stays in its stride.
LEMMA OpenClStride ==
  ASSUME WalkInv, sealer = "opencl", NEW i \in Miners, current[i].extra = NoExtra,
         NEW v \in Covered(i)
  PROVE  \E a \in 0 .. Stride - 1 : v = (m_nonce_scrambler + i * Stride + a) % Space
<1>1. PICK first \in tried[i], offset \in 0 .. Batch - 1 : v = (first + offset) % Space
  BY DEF Covered, KernelNonce
<1>2. PICK a \in Nat : /\ a < MaxBatches * Batch
                       /\ (first + offset) % Space
                             = (FirstNonce(i, current[i].extra) + a) % Space
  BY OpenClTried
<1>3. a \in 0 .. Stride - 1
  <2>1. MaxBatches \in Nat /\ Batch \in Nat /\ Stride \in Nat
    BY Widths
  <2>2. MaxBatches * Batch \in Nat
    BY <2>1
  <2>3. QED
    BY <1>2, <2>1, <2>2, WidthAssumption
<1> DEFINE s == m_nonce_scrambler + i * Stride
<1>4. FirstNonce(i, current[i].extra) = s % Space
  BY DEF FirstNonce, get_start_nonce
<1>5. s \in Int /\ a \in Int /\ Space \in Nat \ {0}
  <2>1. m_nonce_scrambler \in Nat
    BY RangeAssumption, Widths DEF WalkInv, NonceTypeOK
  <2>2. QED
    BY <2>1, Widths DEF Miners
<1> HIDE DEF s
<1>6. ((s % Space) + a) % Space = (s + a) % Space
  BY <1>5, AddMod
<1>7. v = (s + a) % Space
  BY <1>1, <1>2, <1>4, <1>6
<1>8. QED
  BY <1>3, <1>7 DEF s

\* A CUDA miner stays below the device bits of the next one.
LEMMA CudaBand ==
  ASSUME WalkInv, sealer = "cuda", NEW i \in Miners, i < Devs, NEW v \in Covered(i)
  PROVE  v - i * Low \in 0 .. Low - 1
<1>1. PICK first \in tried[i], offset \in 0 .. Batch - 1 :
          v = (first % (Low * Devs)) + offset
  BY DEF Covered, KernelNonce
<1>2. /\ i \in Nat /\ Devs \in Nat \ {0} /\ Low \in Nat \ {0} /\ Batch \in Nat \ {0}
      /\ Low * Devs \in Nat \ {0} /\ max_nonce \in Nat /\ max_nonce + Batch <= Low
  BY Widths DEF Miners
<1>3. i % Devs = i
  <2>1. i \in 0 .. Devs - 1
    BY <1>2
  <2>2. (0 * Devs + i) % Devs = i /\ 0 * Devs + i = i
    BY <1>2, <2>1, DivMod
  <2>3. QED
    BY <2>2
<1> DEFINE r == first % (Low * Devs)
<1>4. r - i * Low \in 0 .. max_nonce /\ r \in Int
  <2>1. r - (i % Devs) * Low \in 0 .. max_nonce
    BY DEF WalkInv, CudaWalks
  <2>2. r \in Int
    <3> DEFINE d == Low * Devs
    <3>1. d \in Nat \ {0} /\ first \in Int
      BY <1>2, Widths DEF WalkInv, NonceTypeOK, Nonces
    <3> HIDE DEF d
    <3>2. first % d \in 0 .. d - 1
      BY <3>1, Division
    <3>3. first % d \in Int
      BY <3>2
    <3>4. QED
      BY <3>3 DEF d
  <2>3. QED
    BY <1>3, <2>1, <2>2
<1> HIDE DEF r
<1>5. i * Low \in Nat /\ v = r + offset
  BY <1>1, <1>2 DEF r
<1>6. QED
  BY <1>2, <1>4, <1>5

\* Two miners in one job without an extranonce have tried different nonces.
LEMMA TriedApart ==
  ASSUME WalkInv, "cuda" \in Sealers => NumMiners <= Devs,
         NEW i \in Miners, NEW j \in Miners, i < j,
         current[i].extra = NoExtra, current[j].extra = NoExtra
  PROVE  Covered(i) \cap Covered(j) = {}
<1> SUFFICES ASSUME NEW v \in Covered(i), v \in Covered(j) PROVE FALSE
  OBVIOUS
<1>1. sealer \in Sealers /\ sealer \in {"cuda", "opencl"} /\ m_nonce_scrambler \in Nat
  BY RangeAssumption, Widths DEF WalkInv, NonceTypeOK
<1>2. CASE sealer = "opencl"
  <2>1. PICK a \in 0 .. Stride - 1 : v = (m_nonce_scrambler + i * Stride + a) % Space
    BY <1>2, OpenClStride
  <2>2. PICK b \in 0 .. Stride - 1 : v = (m_nonce_scrambler + j * Stride + b) % Space
    BY <1>2, OpenClStride
  <2>3. QED
    BY <1>1, <2>1, <2>2, StridesApart
<1>3. CASE sealer = "cuda"
  <2>1. /\ i \in Nat /\ j \in Nat /\ Low \in Nat \ {0} /\ i < Devs /\ j < Devs
    BY <1>1, <1>3, Widths DEF Miners
  <2>2. v - i * Low \in 0 .. Low - 1 /\ v - j * Low \in 0 .. Low - 1
    BY <1>3, <2>1, CudaBand
  <2>3. /\ j * Low = i * Low + Low + (j - i - 1) * Low
        /\ i * Low \in Nat /\ (j - i - 1) * Low \in Nat
    BY <2>1
  <2>4. v \in Int
    <3>1. PICK first \in tried[i], offset \in 0 .. Batch - 1 :
              v = (first % (Low * Devs)) + offset
      BY <1>3 DEF Covered, KernelNonce
    <3> DEFINE d == Low * Devs
    <3>2. d \in Nat \ {0} /\ first \in Int /\ Batch \in Nat
      BY Widths DEF WalkInv, NonceTypeOK, Nonces
    <3> HIDE DEF d
    <3>3. first % d \in 0 .. d - 1
      BY <3>2, Division
    <3>4. v = (first % d) + offset
      BY <3>1 DEF d
    <3>5. QED
      BY <3>2, <3>3, <3>4
  <2>5. QED
    BY <2>1, <2>2, <2>3, <2>4
<1>4. QED
  BY <1>1, <1>2, <1>3

\* However many miners, batches and jobs there are, and wherever the scrambler puts the
\* first nonce, no two miners of a farm hash the same nonce of a job without an
\* extranonce (get_start_nonce; the device bits of CUDAMiner::search).  CUDA devices
\* have bits of their own as long as there are no more of them than device bits tell.
THEOREM NoncesAreTriedOnce ==
  ASSUME "cuda" \in Sealers => NumMiners <= Devs
  PROVE  NonceSpec => []NoNonceTwice
<1>1. WalkInv => NoNonceTwice
  <2> SUFFICES ASSUME WalkInv, NEW i \in Miners, NEW j \in Miners, i # j,
                      current[i].extra = NoExtra, current[i] = current[j]
               PROVE  Covered(i) \cap Covered(j) = {}
    BY DEF NoNonceTwice, Disjoint
  <2>1. (i < j \/ j < i) /\ current[j].extra = NoExtra
    BY Widths DEF Miners
  <2>2. CASE i < j
    BY <2>1, <2>2, TriedApart
  <2>3. CASE j < i
    BY <2>1, <2>3, TriedApart
  <2>4. QED
    BY <2>1, <2>2, <2>3
<1>2. QED
  BY <1>1, WalkInvariance, PTL

-----------------------------------------------------------------------------
(* A share stands for the nonce that was tried.                            *)

\* The nonce of a share splits at the extranonce the way the pool puts it together.
LEMMA ShareSplits ==
  ASSUME WalkInv, sealer = "opencl", NEW i \in Miners, NEW first \in tried[i],
         NEW offset \in 0 .. Batch - 1, current[i].extra \in ExtraNonces,
         extra.size = current[i].extra.size
  PROVE  LET x == current[i].extra
             hit == (first + offset) % Space
         IN  /\ SentDigits = Digits - x.size
             /\ startNonce(x) + (hit % Digit ^ SentDigits) = hit
<1> DEFINE x == current[i].extra
           hit == (first + offset) % Space
           R == Digit ^ (Digits - x.size)
           t == startNonce(x)
           m == Slice(i, x)
<1>1. SentDigits = Digits - x.size
  BY DEF SentDigits
<1>2. FirstNonce(i, x) = t + m
  BY ExtraParts DEF FirstNonce
<1>3. /\ R \in Nat \ {0} /\ x.value \in Nat /\ t = x.value * R /\ t \in Nat /\ m \in Nat
      /\ t + R <= Space /\ m + MaxBatches * Batch <= R
  <2>1. x.size \in Sizes /\ x.value \in 0 .. Digit ^ x.size - 1
    BY ExtraParts
  <2>2. R \in Nat \ {0} /\ Digit ^ x.size \in Nat
    BY <2>1, DigitAssumption
  <2>3. QED
    BY <2>1, <2>2, StartInRange, SliceInRange DEF startNonce
<1>4. PICK a \in Nat : a < MaxBatches * Batch /\ hit = (FirstNonce(i, x) + a) % Space
  BY OpenClTried
<1>5. Space \in Nat \ {0} /\ MaxBatches * Batch \in Nat
  <2>1. MaxBatches \in Nat /\ Batch \in Nat /\ Space \in Nat \ {0}
    BY Widths
  <2>2. QED
    BY <2>1
<1>6. hit = (t + m + a) % Space
  BY <1>2, <1>4
<1> HIDE DEF x, hit, R, t, m
<1> DEFINE r == m + a
<1>7. r \in 0 .. R - 1 /\ t + m + a = t + r /\ t + r \in 0 .. Space - 1
  BY <1>3, <1>4, <1>5
<1> HIDE DEF r
<1>8. hit = t + r
  <2> DEFINE n == t + r
  <2>1. n \in 0 .. Space - 1 /\ hit = n % Space
    BY <1>6, <1>7
  <2> HIDE DEF n
  <2>2. (0 * Space + n) % Space = n /\ 0 * Space + n = n
    BY <1>5, <2>1, DivMod
  <2>3. QED
    BY <2>1, <2>2 DEF n
<1>9. hit % R = r
  <2> DEFINE v == x.value
  <2>1. v \in Int /\ R \in Nat \ {0} /\ r \in 0 .. R - 1 /\ hit = v * R + r
    BY <1>3, <1>7, <1>8
  <2> HIDE DEF v
  <2>2. (v * R + r) % R = r
    BY <2>1, DivMod
  <2>3. QED
    BY <2>1, <2>2
<1>10. SentDigits = Digits - x.size /\ t + (hit % Digit ^ SentDigits) = hit
  BY <1>1, <1>8, <1>9 DEF R
<1>11. QED
  BY <1>10 DEF x, hit, t

\* With extranonces of one length - however the pool changes them between a job and a
\* share of it - the pool puts together the nonce the OpenCL miner hashed
\* (submitSolution, WorkPackage::startNonce, the slices of CLMiner::workLoop).
THEOREM SharesAreWhatWasTried ==
  ASSUME \A k, l \in Sizes : k = l
  PROVE  NonceSpec => []ShareIsWhatWasTried
<1>1. NonceInit => ShareIsWhatWasTried
  BY DEF NonceInit, NoShare, ShareIsWhatWasTried
<1>2. WalkInv /\ ShareIsWhatWasTried /\ [NonceNext]_nonceVars => ShareIsWhatWasTried'
  <2> SUFFICES ASSUME WalkInv, ShareIsWhatWasTried, [NonceNext]_nonceVars
               PROVE  ShareIsWhatWasTried'
    OBVIOUS
  <2>1. CASE share' = share /\ sealer' = sealer
    BY <2>1 DEF ShareIsWhatWasTried
  <2>2. ASSUME NEW i \in Miners, NEW first \in tried[i], NEW offset \in 0 .. Batch - 1,
               SubmitSolution(i, first, offset)
        PROVE  ShareIsWhatWasTried'
    <3> DEFINE x == current[i].extra
               hit == (first + offset) % Space
    <3>1. /\ sealer' = sealer
          /\ share' = [extra |-> x, nonce |-> hit, size |-> SentDigits,
                       sent |-> hit % Digit ^ SentDigits]
      BY <2>2 DEF SubmitSolution, config
    <3>2. SUFFICES ASSUME sealer = "opencl", x # NoExtra
                   PROVE  /\ SentDigits = Digits - x.size
                          /\ startNonce(x) + (hit % Digit ^ SentDigits) = hit
      BY <3>1 DEF ShareIsWhatWasTried
    <3>3. x \in ExtraNonces /\ extra \in ExtraNonces
      BY <3>2 DEF WalkInv, NonceTypeOK, ExtraInv
    <3>4. extra.size = x.size
      BY <3>3, ExtraParts
    <3>5. QED
      BY <2>2, <3>2, <3>3, <3>4, ShareSplits
  <2>3. QED
    BY <2>1, <2>2 DEF NonceNext, ProcessExtranonce, Notify, SwitchWork, Search, nonceVars, config
<1>3. QED
  BY <1>1, <1>2, WalkInvariance, PTL DEF NonceSpec
=============================================================================
