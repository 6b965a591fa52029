--------------------------- MODULE ClMinerProofs ----------------------------
(***************************************************************************)
(* Proofs about CLMiner::workLoop, for any set of headers and start nonces *)
(* and any work size, up to the refinement of MinerService; about the      *)
(* local memory of the kernel it launches; and about the program that      *)
(* ProgPow::getKern generates for that kernel.                             *)
(***************************************************************************)
EXTENDS ClMiner, ClKernel, ProgPow, TLAPS

\* Where the miner's thread can be, and what w and the device's header are there: the
\* kernel hashes the header of the work it is launched for.
LoopInv ==
    /\ m_work \in Work \cup {NoWork} /\ w \in Work \cup {NoWork}
    /\ pc \in {"top", "decide", "read", "launch", "submit", "done"}
    /\ pc \in {"read", "launch", "submit"} => w \in Work /\ m_header = w.header
    /\ pc \in {"top", "decide"} => m_header = current.header \/ current.header = One

\* The results in the buffer are those of the kernel that current describes; while a
\* kernel has been launched and not yet noted, of the one w and startNonce describe.
BufferInv ==
    m_searchBuffer # Empty =>
        /\ pc # "launch"
        /\ pc \in {"top", "decide", "read"} =>
              /\ m_searchBuffer.header = current.header
              /\ m_searchBuffer.nonce = (current.startNonce + m_searchBuffer.offset) % Space
        /\ pc = "read" => w.header = current.header
        /\ pc = "submit" =>
              /\ m_searchBuffer.header = w.header
              /\ m_searchBuffer.nonce = (startNonce + m_searchBuffer.offset) % Space

\* A report is held only until Submit, and is right and fresh.
ReportInv ==
    nonce # Nothing =>
        /\ pc \in {"launch", "submit"}
        /\ nonce.header = nonce.found.header /\ nonce.nonce = nonce.found.nonce
        /\ nonce.header = w.header

\* Between two kernels startNonce is one batch past the noted one.
TileInv ==
    /\ pc \in {"top", "decide"} /\ current.header # One
          => startNonce = (current.startNonce + GlobalWorkSize) % Space
    /\ BatchesTile

Inv == LoopInv /\ BufferInv /\ ReportInv /\ TileInv

\* workLoop starts without work, results or report.
LEMMA InitInv == Init => Inv
  BY DEF Init, Inv, LoopInv, BufferInv, ReportInv, TileInv, BatchesTile, NoWork

\* The threads of the farm touch only m_work and the stop flag.
LEMMA FarmKeepsInv ==
  ASSUME Inv, Stop \/ \E p \in Work : SetWork(p)
  PROVE  Inv'
  BY DEF Inv, LoopInv, BufferInv, ReportInv, TileInv, BatchesTile, Stop, SetWork

\* Every step of workLoop keeps the invariant.
LEMMA MinerKeepsInv ==
  ASSUME Inv, Mining \/ ClError \/ Done
  PROVE  Inv'
<1> USE DEF Inv, LoopInv, BufferInv, ReportInv, TileInv, BatchesTile
<1>1. CASE TakeWork
  BY <1>1 DEF TakeWork
<1>2. CASE PauseNoWork
  BY <1>2 DEF PauseNoWork
<1>3. CASE SwitchWork
  BY <1>3 DEF SwitchWork
<1>4. CASE KeepWork
  <2>1. w \in Work /\ w.header \in Headers /\ current.header # One
    BY <1>4, ClAssumption DEF KeepWork, Work
  <2> QED
    BY <1>4, <2>1 DEF KeepWork
<1>5. CASE ReadResults
  <2>1. CASE nonce' = Nothing
    BY <1>5, <2>1 DEF ReadResults
  <2>2. CASE nonce' # Nothing
    <3>1. /\ m_searchBuffer # Empty
          /\ nonce' = [header |-> current.header, nonce |-> ReadNonce, found |-> m_searchBuffer]
      BY <1>5, <2>2 DEF ReadResults
    <3>2. ReportInv'
      BY <1>5, <3>1 DEF ReadResults, ReadNonce
    <3> QED
      BY <1>5, <3>2 DEF ReadResults
  <2> QED
    BY <2>1, <2>2
<1>6. ASSUME NEW offset \in 0 .. GlobalWorkSize - 1, LaunchFinds(offset)
      PROVE  Inv'
  <2>1. m_searchBuffer' = [header |-> m_header, offset |-> offset,
                           nonce |-> (startNonce + offset) % Space]
    BY <1>6 DEF LaunchFinds
  <2> QED
    BY <1>6, <2>1 DEF LaunchFinds
<1>7. CASE LaunchFindsNothing
  BY <1>7 DEF LaunchFindsNothing
<1>8. CASE Submit
  BY <1>8 DEF Submit
<1>9. CASE ClError
  BY <1>9 DEF ClError
<1>10. CASE Done
  BY <1>10 DEF Done, vars
<1> QED
  BY <1>1, <1>2, <1>3, <1>4, <1>5, <1>6, <1>7, <1>8, <1>9, <1>10 DEF Mining

\* The invariant holds in every reachable state.
LEMMA Invariance == Spec => []Inv
<1>1. Inv /\ [Next]_vars => Inv'
  <2> SUFFICES ASSUME Inv, [Next]_vars PROVE Inv'
    OBVIOUS
  <2>1. CASE UNCHANGED vars
    BY <2>1 DEF vars, Inv, LoopInv, BufferInv, ReportInv, TileInv, BatchesTile
  <2> QED
    BY <2>1, FarmKeepsInv, MinerKeepsInv DEF Next
<1> QED
  BY InitInv, <1>1, PTL DEF Spec

\* Whatever the farm replaces while a kernel runs, the nonce that is reported is the
\* one a kernel found, under the header it hashed (CLMiner::workLoop).
THEOREM ReportsAreFaithful == Spec => []ReportsWhatWasFound
<1>1. Inv => ReportsWhatWasFound
  BY DEF Inv, ReportInv, ReportsWhatWasFound
<1> QED
  BY Invariance, <1>1, PTL

\* A solution of replaced work is dropped at the switch and never reported, so that no
\* OpenCL solution is ever marked stale by its miner.
THEOREM ReportsAreFresh == Spec => []NeverStale
<1>1. Inv => NeverStale
  BY DEF Inv, ReportInv, NeverStale
<1> QED
  BY Invariance, <1>1, PTL

\* No nonce is skipped or tried twice between two kernels of the same work.
THEOREM BatchesAreAdjacent == Spec => []BatchesTile
<1>1. Inv => BatchesTile
  BY DEF Inv, TileInv
<1> QED
  BY Invariance, <1>1, PTL

\* Every step of the miner and of the farm keeps the types.
LEMMA NextTypes ==
  ASSUME TypeOK, Inv, Next
  PROVE  TypeOK'
<1>1. ASSUME NEW n \in Nonces, NEW k \in 0 .. GlobalWorkSize
      PROVE  (n + k) % Space \in Nonces
  BY ClAssumption DEF Nonces
<1>2. GlobalWorkSize \in 0 .. GlobalWorkSize
  BY ClAssumption
<1>3. Starts \subseteq Nonces
  BY ClAssumption DEF Nonces
<1> USE DEF TypeOK
<1>4. CASE TakeWork \/ PauseNoWork \/ KeepWork \/ LaunchFindsNothing \/ ClError
  BY <1>4 DEF TakeWork, PauseNoWork, KeepWork, LaunchFindsNothing, ClError
<1>5. CASE SwitchWork
  BY <1>3, <1>5, ClAssumption DEF SwitchWork, Work, NoWork
<1>6. CASE ReadResults
  <2>1. CASE nonce' = Nothing
    BY <1>6, <2>1 DEF ReadResults
  <2>2. CASE nonce' # Nothing
    <3>1. /\ m_searchBuffer \in Result
          /\ nonce' = [header |-> current.header, nonce |-> ReadNonce,
                       found |-> m_searchBuffer]
      BY <1>6, <2>2 DEF ReadResults
    <3>2. current.header \in Headers
      BY <1>6, <3>1, ClAssumption DEF ReadResults, Inv, BufferInv, Result, Empty
    <3>3. m_searchBuffer.offset \in 0 .. GlobalWorkSize
      BY <3>1, ClAssumption DEF Result
    <3>4. ReadNonce \in Nonces
      BY <1>1, <3>3 DEF ReadNonce
    <3>5. nonce' \in Report
      BY <3>1, <3>2, <3>4 DEF Report
    <3>6. QED
      BY <1>6, <3>5 DEF ReadResults
  <2>3. QED
    BY <2>1, <2>2
<1>7. ASSUME NEW offset \in 0 .. GlobalWorkSize - 1, LaunchFinds(offset)
      PROVE  TypeOK'
  <2>1. m_header \in Headers
    BY <1>7, ClAssumption DEF LaunchFinds, Inv, LoopInv, Work
  <2>2. offset \in 0 .. GlobalWorkSize
    BY ClAssumption
  <2>3. (startNonce + offset) % Space \in Nonces
    BY <1>1, <2>2
  <2>4. [header |-> m_header, offset |-> offset,
         nonce |-> (startNonce + offset) % Space] \in Result
    BY <2>1, <2>3 DEF Result
  <2>5. QED
    BY <1>7, <2>4 DEF LaunchFinds
<1>8. CASE Submit
  <2>1. (startNonce + GlobalWorkSize) % Space \in Nonces
    BY <1>1, <1>2
  <2>2. w.header \in Headers
    BY <1>8 DEF Submit, Inv, LoopInv, Work
  <2>3. QED
    BY <1>8, <2>1, <2>2 DEF Submit
<1>9. CASE Stop \/ Done \/ \E p \in Work : SetWork(p)
  BY <1>9 DEF Stop, Done, SetWork, vars
<1>10. QED
  BY <1>4, <1>5, <1>6, <1>7, <1>8, <1>9 DEF Next, Mining

\* Every variable keeps its type: start nonces and reported nonces stay in 64 bits,
\* and only a header the pool handed out is ever reported.
THEOREM TypeCorrect == Spec => []TypeOK
<1>1. Init => TypeOK
  <2>1. 0 \in Nonces
    BY ClAssumption DEF Nonces
  <2>2. Init => current \in [header : Headers \cup {One}, startNonce : Nonces]
    BY <2>1 DEF Init
  <2> HIDE DEF Nonces
  <2>3. QED
    BY <2>1, <2>2 DEF Init, TypeOK
<1>2. TypeOK /\ Inv /\ Next => TypeOK'
  BY NextTypes
<1>3. TypeOK /\ UNCHANGED vars => TypeOK'
  BY DEF TypeOK, vars
<1>4. QED
  BY Invariance, <1>1, <1>2, <1>3, PTL DEF Spec

-----------------------------------------------------------------------------
(* workLoop implements MinerService.                                       *)

\* Between two iterations the results in the buffer are of the work the miner looks
\* at; before the first work there are none.
UnreadInv ==
    /\ m_work = NoWork => w = NoWork
    /\ w = NoWork => m_searchBuffer = Empty
    /\ pc = "top" /\ m_searchBuffer # Empty => m_searchBuffer.header = w.header

\* Every step keeps the buffer to the work the miner looks at.
LEMMA NextUnread ==
  ASSUME Inv, UnreadInv, [Next]_vars
  PROVE  UnreadInv'
<1> USE DEF UnreadInv
<1>1. NoWork \notin Work
  BY ClAssumption DEF NoWork, Work
<1>2. CASE TakeWork
  BY <1>2 DEF TakeWork
<1>3. CASE PauseNoWork \/ KeepWork \/ LaunchFindsNothing \/ ClError
  BY <1>3 DEF PauseNoWork, KeepWork, LaunchFindsNothing, ClError
<1>4. CASE SwitchWork \/ ReadResults
  BY <1>4 DEF SwitchWork, ReadResults
<1>5. ASSUME NEW offset \in 0 .. GlobalWorkSize - 1, LaunchFinds(offset)
      PROVE  UnreadInv'
  BY <1>1, <1>5 DEF LaunchFinds, Inv, LoopInv
<1>6. CASE Submit
  BY <1>6 DEF Submit, Inv, BufferInv
<1>7. CASE Stop \/ Done \/ UNCHANGED vars
  BY <1>7 DEF Stop, Done, vars
<1>8. ASSUME NEW p \in Work, SetWork(p)
      PROVE  UnreadInv'
  BY <1>1, <1>8 DEF SetWork
<1>9. QED
  BY <1>2, <1>3, <1>4, <1>5, <1>6, <1>7, <1>8 DEF Next, Mining

ServiceInv == TypeOK /\ Inv /\ UnreadInv

\* What a kernel found and the miner has not read is a solution for the work the
\* miner looks at, and there is at most one.
LEMMA UnreadIsSolution ==
  ASSUME TypeOK, NEW s \in Unread
  PROVE  /\ w.header \in Headers
         /\ s \in Service!Solutions(w.header)
         /\ m_searchBuffer # Empty
         /\ s = [header |-> w.header, nonce |-> m_searchBuffer.nonce]
<1>1. /\ m_searchBuffer # Empty /\ m_searchBuffer.header = w.header
      /\ s = [header |-> m_searchBuffer.header, nonce |-> m_searchBuffer.nonce]
  BY DEF Unread
<1>2. m_searchBuffer \in Result
  BY <1>1 DEF TypeOK
<1>3. m_searchBuffer.header \in Headers /\ m_searchBuffer.nonce \in Nonces
  BY <1>2 DEF Result
<1>4. QED
  BY <1>1, <1>3 DEF Service!Solutions

\* The miner's thread takes a copy of the farm's work, or ends.
LEMMA TakeWorkServes ==
  ASSUME ServiceInv, TakeWork
  PROVE  Service!Next
<1> USE DEF ServiceInv
<1>1. nonce = Nothing /\ nonce' = Nothing
  BY DEF TakeWork, Inv, ReportInv
<1>2. UNCHANGED <<m_work, stopping, m_searchBuffer, nonce>>
  BY DEF TakeWork
<1>3. CASE stopping /\ pc' = "done" /\ UNCHANGED w
  <2>1. Unread' = Unread
    BY <1>2, <1>3 DEF Unread
  <2>2. Service!End
    BY <1>1, <1>2, <1>3, <2>1 DEF Service!End, Service!NoReport, Nothing
  <2>3. QED
    BY <2>2 DEF Service!Next
<1>4. CASE ~stopping /\ pc' = "decide" /\ w' = m_work
  <2>1. m_searchBuffer # Empty => m_searchBuffer.header = w.header
    BY DEF UnreadInv, TakeWork
  <2>2. Unread' = Unread \cap Service!Solutions(m_work.header)
    <3>1. CASE m_searchBuffer = Empty
      BY <1>2, <3>1 DEF Unread
    <3>2. CASE m_searchBuffer # Empty /\ m_work.header = w.header
      <4>1. Unread' = Unread
        BY <1>2, <1>4, <3>2 DEF Unread
      <4>2. Unread \subseteq Service!Solutions(w.header)
        BY UnreadIsSolution
      <4>3. QED
        BY <3>2, <4>1, <4>2
    <3>3. CASE m_searchBuffer # Empty /\ m_work.header # w.header
      <4>1. Unread' = {}
        BY <1>2, <1>4, <2>1, <3>3 DEF Unread
      <4>2. \A s \in Unread : s.header = w.header
        BY UnreadIsSolution
      <4>3. \A s \in Service!Solutions(m_work.header) : s.header = m_work.header
        BY DEF Service!Solutions
      <4>4. QED
        BY <3>3, <4>1, <4>2, <4>3
    <3>4. QED
      BY <3>1, <3>2, <3>3
  <2>3. Service!Adopt
    <3>1. ~(pc = "done") /\ ~(pc' = "done")
      BY <1>4 DEF TakeWork
    <3>2. QED
      BY <1>1, <1>2, <1>4, <2>2, <3>1 DEF Service!Adopt, Service!NoReport, Nothing
  <2>4. QED
    BY <2>3 DEF Service!Next
<1>5. QED
  BY <1>3, <1>4 DEF TakeWork

\* Switching drops only what was found for other work.
LEMMA DecideStutters ==
  ASSUME ServiceInv, PauseNoWork \/ SwitchWork \/ KeepWork \/ LaunchFindsNothing
  PROVE  UNCHANGED Service!vars
<1>1. CASE PauseNoWork \/ KeepWork \/ LaunchFindsNothing
  BY <1>1 DEF PauseNoWork, KeepWork, LaunchFindsNothing, Service!vars, Unread
<1>2. CASE SwitchWork
  <2>1. Unread = {} /\ Unread' = {}
    BY <1>2 DEF SwitchWork, Unread, ServiceInv, Inv, BufferInv
  <2>2. QED
    BY <1>2, <2>1 DEF SwitchWork, Service!vars
<1>3. QED
  BY <1>1, <1>2

\* The first result of the kernel before is read under its own header and nonce.
LEMMA ReadServes ==
  ASSUME ServiceInv, ReadResults
  PROVE  Service!Search
<1> USE DEF ServiceInv
<1>1. /\ nonce = Nothing /\ pc = "read" /\ pc' = "launch"
      /\ UNCHANGED <<m_work, stopping, w>>
  BY DEF ReadResults, Inv, ReportInv
<1>2. Unread' = {}
  BY DEF ReadResults, Unread
<1>3. \E new \in SUBSET (Service!Solutions(w.header) \ Unread) :
         Unread' \subseteq
           (Unread \ {[header |-> nonce.header, nonce |-> nonce.nonce]'}) \cup new
  BY <1>2
<1>4. CASE nonce' = Nothing
  BY <1>1, <1>3, <1>4 DEF Service!Search, Service!NoReport, Nothing
<1>5. CASE nonce' # Nothing
  <2>1. /\ m_searchBuffer # Empty
        /\ nonce' = [header |-> current.header, nonce |-> ReadNonce, found |-> m_searchBuffer]
    BY <1>5 DEF ReadResults
  <2>2. /\ m_searchBuffer.header = current.header /\ w.header = current.header
        /\ m_searchBuffer.nonce = ReadNonce
    BY <1>1, <2>1 DEF Inv, BufferInv, ReadNonce
  <2>3. [header |-> nonce.header, nonce |-> nonce.nonce]' \in Unread
    BY <2>1, <2>2 DEF Unread
  <2>4. QED
    BY <1>1, <1>3, <2>3 DEF Service!Search, Service!NoReport, Nothing
<1>6. QED
  BY <1>4, <1>5

\* The kernel finds solutions for the work the miner looks at.
LEMMA LaunchServes ==
  ASSUME ServiceInv, NEW offset \in 0 .. GlobalWorkSize - 1, LaunchFinds(offset), TypeOK'
  PROVE  Service!Search
<1> USE DEF ServiceInv
<1>1. m_searchBuffer = Empty /\ Unread = {}
  BY DEF LaunchFinds, Inv, BufferInv, Unread
<1>2. UNCHANGED <<m_work, stopping, w, nonce>> /\ pc = "launch" /\ pc' = "submit"
  BY DEF LaunchFinds
<1>3. Unread' \subseteq Service!Solutions(w.header)
  <2>1. ASSUME NEW s \in Unread'
        PROVE  s \in Service!Solutions(w.header)
    <3>1. /\ m_searchBuffer'.header = w.header /\ m_searchBuffer' # Empty
          /\ s = [header |-> m_searchBuffer'.header, nonce |-> m_searchBuffer'.nonce]
      BY <1>2, <2>1 DEF Unread
    <3>2. m_searchBuffer' \in Result
      BY <3>1 DEF TypeOK
    <3>3. m_searchBuffer'.header \in Headers /\ m_searchBuffer'.nonce \in Nonces
      BY <3>2 DEF Result
    <3>4. QED
      BY <3>1, <3>3 DEF Service!Solutions
  <2>2. QED
    BY <2>1
<1>4. \E new \in SUBSET (Service!Solutions(w.header) \ Unread) :
         Unread' \subseteq
           (Unread \ {[header |-> nonce.header, nonce |-> nonce.nonce]'}) \cup new
  <2>1. Unread' \in SUBSET (Service!Solutions(w.header) \ Unread)
    BY <1>1, <1>3
  <2>2. QED
    BY <2>1
<1>5. QED
  BY <1>2, <1>4 DEF Service!Search

\* The report is over; what the new kernel found stays.
LEMMA SubmitServes ==
  ASSUME ServiceInv, Submit
  PROVE  Service!Search
<1> USE DEF ServiceInv
<1>1. /\ UNCHANGED <<m_work, stopping, w, m_searchBuffer>> /\ nonce' = Nothing
      /\ pc = "submit" /\ pc' = "top"
  BY DEF Submit
<1>2. Unread' = Unread
  BY <1>1 DEF Unread
<1>3. Service!NoReport \notin Unread
  BY UnreadIsSolution, ClAssumption DEF Service!NoReport
<1>4. [header |-> nonce.header, nonce |-> nonce.nonce]' = Service!NoReport
  BY <1>1 DEF Nothing, Service!NoReport
<1>5. \E new \in SUBSET (Service!Solutions(w.header) \ Unread) :
         Unread' \subseteq
           (Unread \ {[header |-> nonce.header, nonce |-> nonce.nonce]'}) \cup new
  BY <1>2, <1>3, <1>4
<1>6. QED
  BY <1>1, <1>4, <1>5 DEF Service!Search

\* Every step of the miner and of the farm is a step of the service, or none.
LEMMA NextServes ==
  ASSUME ServiceInv, Next, TypeOK'
  PROVE  Service!Next \/ UNCHANGED Service!vars
<1>1. CASE TakeWork
  BY <1>1, TakeWorkServes
<1>2. CASE PauseNoWork \/ SwitchWork \/ KeepWork \/ LaunchFindsNothing
  BY <1>2, DecideStutters
<1>3. CASE ReadResults
  BY <1>3, ReadServes DEF Service!Next
<1>4. ASSUME NEW offset \in 0 .. GlobalWorkSize - 1, LaunchFinds(offset)
      PROVE  Service!Next
  BY <1>4, LaunchServes DEF Service!Next
<1>5. CASE Submit
  BY <1>5, SubmitServes DEF Service!Next
<1>6. CASE ClError
  <2>1. Unread' = Unread
    BY <1>6 DEF ClError, Unread
  <2>2. Service!End
    BY <1>6, <2>1 DEF ClError, Service!End, Service!NoReport, Nothing
  <2>3. QED
    BY <2>2 DEF Service!Next
<1>7. CASE Stop
  <2>1. Unread' = Unread
    BY <1>7 DEF Stop, Unread
  <2>2. Service!Stop
    BY <1>7, <2>1 DEF Stop, Service!Stop
  <2>3. QED
    BY <2>2 DEF Service!Next
<1>8. ASSUME NEW p \in Work, SetWork(p)
      PROVE  Service!Next
  <2>1. Unread' = Unread /\ p.header \in Headers
    BY <1>8 DEF SetWork, Unread, Work
  <2>2. Service!SetWork
    BY <1>8, <2>1 DEF SetWork, Service!SetWork
  <2>3. QED
    BY <2>2 DEF Service!Next
<1>9. CASE Done
  BY <1>9 DEF Done, vars, Service!vars, Unread
<1>10. QED
  BY <1>1, <1>2, <1>3, <1>4, <1>5, <1>6, <1>7, <1>8, <1>9 DEF Next, Mining

\* CLMiner::workLoop is a miner as the farm needs it, as far as safety goes: whatever
\* work it reports a solution of is the one it looks at, a kernel found the solution
\* for it, it is handed in once, and nothing is handed in once the loop has ended.
THEOREM ImplementsServiceSafety == Spec => Service!Safety
<1>1. Init => Service!Init
  BY DEF Init, Service!Init, Service!NoReport, Unread, NoWork, Nothing
<1>2. Init => UnreadInv
  BY DEF Init, UnreadInv
<1>3. Spec => []UnreadInv
  BY Invariance, <1>2, NextUnread, PTL DEF Spec
<1>4. ServiceInv /\ TypeOK' /\ [Next]_vars => [Service!Next]_(Service!vars)
  <2>1. UNCHANGED vars => UNCHANGED Service!vars
    BY DEF vars, Service!vars, Unread
  <2>2. QED
    BY <2>1, NextServes
<1>5. TypeOK /\ Inv /\ UnreadInv => ServiceInv
  BY DEF ServiceInv
<1>6. QED
  BY Invariance, TypeCorrect, <1>1, <1>3, <1>4, <1>5, PTL DEF Spec, Service!Safety

-----------------------------------------------------------------------------
(* The local memory of the search kernel, for any number of lanes and of    *)
(* groups.  The barriers keep the groups in one phase, and what the groups  *)
(* write in a phase lies apart from what is still to be read in it.         *)

KernelSteps == {"load", "seed", "fill", "offset", "loop", "digest", "reduce", "report",
                "end", "barrier"}
Addresses == 0 .. 2 * PROGPOW_LANES * groups - 1

KernelTypes ==
    /\ groups \in Nat \ {0}
    /\ at \in [Groups -> KernelSteps]
    /\ after \in [Groups -> {"load", "seed", "fill", "loop", "reduce"}]
    /\ hIter \in [Groups -> Nat] /\ loop \in [Groups -> Nat]
    /\ DOMAIN share = Addresses /\ DOMAIN got = Groups
    /\ c_dag \subseteq 0 .. PROGPOW_CACHE_WORDS - 1

Waits(g, step) == at[g] = "barrier" /\ after[g] = step

\* Between two barriers a group reads what was written before the first and writes what
\* is read after the second, in hash h and loop l.
InPhase(g, phase, h, l) ==
    \/ /\ phase = "load" /\ h = 0 /\ h = hIter[g]
       /\ at[g] = "load" \/ Waits(g, "seed")
    \/ /\ phase = "seed" /\ h = hIter[g]
       /\ at[g] \in {"seed", "report", "end"} \/ Waits(g, "fill")
    \/ /\ phase = "seed" /\ h = hIter[g] + 1
       /\ at[g] = "reduce"
    \/ /\ phase = "offset" /\ h = hIter[g] /\ l = 0
       /\ at[g] = "fill"
    \/ /\ phase = "offset" /\ h = hIter[g] /\ l = loop[g]
       /\ at[g] = "offset" \/ Waits(g, "loop")
    \/ /\ phase = "offset" /\ h = hIter[g] /\ l = loop[g] + 1
       /\ at[g] = "loop" /\ l < PROGPOW_CNT_DAG
    \/ /\ phase = "digest" /\ h = hIter[g]
       /\ \/ at[g] = "digest" \/ Waits(g, "reduce")
          \/ at[g] = "loop" /\ loop[g] + 1 >= PROGPOW_CNT_DAG

\* All groups are in the same phase of the same hash and the same loop.
Lockstep == \E phase \in KernelSteps, h \in Nat, l \in Nat :
               \A g \in Groups : InPhase(g, phase, h, l)

\* The words of local memory hold what their group still has to read.
SeedKept(g) ==
    Waits(g, "fill") \/ at[g] = "fill" =>
        (groups <= PROGPOW_LANES => share[uint64s(g, 0)] = <<"seed", g, hIter[g]>>)
OffsetKept(g) ==
    Waits(g, "loop") \/ at[g] = "loop" =>
        (groups <= PROGPOW_LANES \div 2 =>
            share[OffsetWord(g)] = <<"offset", g, hIter[g], loop[g]>>)
DigestKept(g) ==
    Waits(g, "reduce") \/ at[g] = "reduce" =>
        \A n \in LaneIds : share[uint32s(g, n)] = <<"digest", g, hIter[g], n>>
MemoryKept == \A g \in Groups : SeedKept(g) /\ OffsetKept(g) /\ DigestKept(g)

\* The words a group copies into the cache.
GroupWords(g) == UNION {CacheWords(PROGPOW_LANES * g + n) : n \in LaneIds}
CacheKept == \A g \in Groups : at[g] # "load" => GroupWords(g) \subseteq c_dag

KernelInv == KernelTypes /\ Lockstep /\ MemoryKept /\ CacheKept /\ SharedMemoryIsOwn

\* The constants of the kernel.
LEMMA KernelConstants ==
  /\ PROGPOW_LANES \in Nat /\ PROGPOW_LANES >= 2
  /\ PROGPOW_CNT_DAG \in Nat /\ PROGPOW_CNT_DAG > 0
  /\ LoadWords \in Nat /\ LoadWords > 0
  /\ PROGPOW_CACHE_WORDS \in Nat
<1>1. PROGPOW_LANES \in Nat /\ PROGPOW_LANES > 0 /\ PROGPOW_LANES % 2 = 0
  BY KernelAssumption
<1>2. PROGPOW_LANES >= 2
  BY <1>1
<1>3. QED
  BY <1>1, <1>2, KernelAssumption

\* share[k] takes 2 * PROGPOW_LANES words.
LEMMA Blocks ==
  ASSUME NEW L \in Nat, NEW g \in Nat, NEW k \in Nat, g < k
  PROVE  2 * L * g \in Nat /\ 2 * L * k \in Nat /\ 2 * L * g + 2 * L <= 2 * L * k
<1>1. PICK d \in Nat : k = g + 1 + d
  <2>1. k - g - 1 \in Nat /\ k = g + 1 + (k - g - 1)
    OBVIOUS
  <2>2. QED
    BY <2>1
<1>2. 2 * L * k = 2 * L * g + 2 * L + 2 * L * d /\ 2 * L * d \in Nat /\ 2 * L * g \in Nat
  BY <1>1
<1>3. QED
  BY <1>2

\* The words of different groups are different; the offsets of up to PROGPOW_LANES
\* groups spare the seeds, those of half as many the digests.
LEMMA Layout ==
  ASSUME KernelTypes, NEW g \in Groups, NEW k \in Groups, g # k
  PROVE  /\ uint64s(g, 0) \notin {uint64s(k, 0), uint64s(k, 0) + 1}
         /\ OffsetWord(g) \notin {OffsetWord(k), OffsetWord(k) + 1}
         /\ groups <= PROGPOW_LANES =>
               uint64s(g, 0) \notin {OffsetWord(k), OffsetWord(k) + 1}
         /\ \A n \in LaneIds :
               uint32s(g, n) \notin {uint64s(k, 0), uint64s(k, 0) + 1}
         /\ \A n, m \in LaneIds : uint32s(g, n) # uint32s(k, m)
         /\ groups <= PROGPOW_LANES \div 2 =>
               \A n \in LaneIds : OffsetWord(g) # uint32s(k, n)
<1> DEFINE L == PROGPOW_LANES
           G == 2 * L * g
           K == 2 * L * k
<1>1. L \in Nat /\ L >= 2 /\ groups \in Nat
  BY KernelConstants DEF KernelTypes
<1>2. g \in Nat /\ k \in Nat /\ g < groups /\ k < groups
  BY <1>1 DEF Groups
<1>3. G \in Nat /\ K \in Nat /\ (G + 2 * L <= K \/ K + 2 * L <= G)
  <2>1. CASE g < k
    BY <1>1, <1>2, <2>1, Blocks
  <2>2. CASE k < g
    BY <1>1, <1>2, <2>2, Blocks
  <2>3. QED
    BY <1>2, <2>1, <2>2
<1>4. (g = 0 /\ G = 0) \/ G >= 2 * L
  <2>1. CASE g = 0
    BY <1>1, <2>1
  <2>2. CASE 0 < g
    <3>1. 2 * L * 0 + 2 * L <= 2 * L * g
      BY <1>1, <1>2, <2>2, Blocks
    <3>2. QED
      BY <1>1, <3>1
  <2>3. QED
    BY <1>2, <2>1, <2>2
<1>5. (k = 0 /\ K = 0) \/ K >= 2 * L
  <2>1. CASE k = 0
    BY <1>1, <2>1
  <2>2. CASE 0 < k
    <3>1. 2 * L * 0 + 2 * L <= 2 * L * k
      BY <1>1, <1>2, <2>2, Blocks
    <3>2. QED
      BY <1>1, <3>1
  <2>3. QED
    BY <1>2, <2>1, <2>2
<1>6. /\ uint64s(g, 0) = G + L /\ uint64s(k, 0) = K + L
      /\ OffsetWord(g) = L + 2 * g /\ OffsetWord(k) = L + 2 * k
      /\ \A n \in LaneIds : uint32s(g, n) = G + n /\ uint32s(k, n) = K + n
  BY <1>1, <1>2 DEF uint64s, OffsetWord, uint32s
<1>7. \A n \in LaneIds : n \in Nat /\ n < L
  BY <1>1 DEF LaneIds
<1> HIDE DEF L, G, K
<1>8. uint64s(g, 0) \notin {uint64s(k, 0), uint64s(k, 0) + 1}
  BY <1>1, <1>3, <1>6
<1>9. OffsetWord(g) \notin {OffsetWord(k), OffsetWord(k) + 1}
  BY <1>1, <1>2, <1>6
<1>10. groups <= L => uint64s(g, 0) \notin {OffsetWord(k), OffsetWord(k) + 1}
  BY <1>1, <1>2, <1>3, <1>4, <1>6
<1>11. \A n \in LaneIds : uint32s(g, n) \notin {uint64s(k, 0), uint64s(k, 0) + 1}
  BY <1>1, <1>3, <1>6, <1>7
<1>12. \A n, m \in LaneIds : uint32s(g, n) # uint32s(k, m)
  BY <1>1, <1>3, <1>6, <1>7
<1>13. groups <= L \div 2 => \A n \in LaneIds : OffsetWord(g) # uint32s(k, n)
  <2>1. groups <= L \div 2 => 2 * g < L
    BY <1>1, <1>2
  <2>2. QED
    BY <1>1, <1>2, <1>3, <1>5, <1>6, <1>7, <2>1
<1>14. QED
  BY <1>8, <1>9, <1>10, <1>11, <1>12, <1>13 DEF L

\* They lie inside local memory.
LEMMA InsideShare ==
  ASSUME KernelTypes, NEW g \in Groups
  PROVE  /\ uint64s(g, 0) \in Addresses
         /\ groups <= PROGPOW_LANES \div 2 => OffsetWord(g) \in Addresses
         /\ \A n \in LaneIds : uint32s(g, n) \in Addresses
<1> DEFINE L == PROGPOW_LANES
           G == 2 * L * g
           S == 2 * L * groups
<1>1. L \in Nat /\ L >= 2 /\ groups \in Nat
  BY KernelConstants DEF KernelTypes
<1>2. g \in Nat /\ g < groups
  BY <1>1 DEF Groups
<1>3. G \in Nat /\ S \in Nat /\ G + 2 * L <= S
  BY <1>1, <1>2, Blocks
<1>4. /\ uint64s(g, 0) = G + L /\ OffsetWord(g) = L + 2 * g
      /\ \A n \in LaneIds : uint32s(g, n) = G + n
  BY <1>1, <1>2 DEF uint64s, OffsetWord, uint32s
<1>5. \A n \in LaneIds : n \in Nat /\ n < L
  BY <1>1 DEF LaneIds
<1>6. Addresses = 0 .. S - 1
  BY DEF Addresses
<1> HIDE DEF L, G, S
<1>7. groups <= L \div 2 => 2 * g < L
  BY <1>1, <1>2
<1>8. uint64s(g, 0) \in 0 .. S - 1 /\ \A n \in LaneIds : uint32s(g, n) \in 0 .. S - 1
  BY <1>1, <1>3, <1>4, <1>5
<1>9. groups <= L \div 2 => OffsetWord(g) \in 0 .. S - 1
  BY <1>1, <1>2, <1>3, <1>4, <1>7
<1>10. QED
  BY <1>6, <1>8, <1>9 DEF L

\* Every word of the cache is copied by an item of some group.
LEMMA WholeCache ==
  ASSUME KernelTypes, \A g \in Groups : GroupWords(g) \subseteq c_dag
  PROVE  c_dag = 0 .. PROGPOW_CACHE_WORDS - 1
<1> DEFINE L == PROGPOW_LANES
<1>1. L \in Nat /\ L >= 2 /\ groups \in Nat /\ groups > 0 /\ LoadWords \in Nat /\ LoadWords > 0
  BY KernelConstants DEF KernelTypes
<1>2. ASSUME NEW x \in 0 .. PROGPOW_CACHE_WORDS - 1 PROVE x \in c_dag
  <2>1. x \in Nat /\ x \div LoadWords \in Nat
    BY <1>1, <1>2, KernelConstants
  <2>2. GROUP_SIZE \in Nat /\ GROUP_SIZE > 0 /\ GROUP_SIZE = groups * L
    BY <1>1 DEF GROUP_SIZE
  <2>3. PICK lid \in Nat : lid = (x \div LoadWords) % GROUP_SIZE /\ lid < groups * L
    BY <2>1, <2>2
  <2>4. PICK g \in Nat, n \in Nat : g = lid \div L /\ n = lid % L
    BY <1>1, <2>3
  <2>5. lid = L * g + n /\ n < L
    <3>1. lid = L * (lid \div L) + (lid % L) /\ lid % L < L
      <4> HIDE DEF L
      <4>1. QED
        BY <1>1
    <3>2. QED
      BY <2>4, <3>1
  <2>6. g < groups
    <3>1. SUFFICES ASSUME groups <= g PROVE FALSE
      BY <1>1, <2>4
    <3>2. PICK d \in Nat : g = groups + d
      <4>1. g - groups \in Nat /\ g = groups + (g - groups)
        BY <1>1, <2>4, <3>1
      <4>2. QED
        BY <4>1
    <3>3. L * g = groups * L + L * d /\ L * d \in Nat /\ groups * L \in Nat
      BY <1>1, <3>2
    <3>4. QED
      BY <2>3, <2>4, <2>5, <3>3
  <2>7. g \in Groups /\ n \in LaneIds
    BY <1>1, <2>4, <2>5, <2>6 DEF Groups, LaneIds
  <2>8. x \in CacheWords(PROGPOW_LANES * g + n)
    BY <1>2, <2>3, <2>5 DEF CacheWords
  <2>9. x \in GroupWords(g)
    BY <2>7, <2>8 DEF GroupWords
  <2>10. QED
    BY <2>7, <2>9
<1>3. QED
  BY <1>2 DEF KernelTypes

\* What a step of group k leaves of the other groups.
Others(k) ==
    /\ groups' = groups
    /\ \A g \in Groups \ {k} : UNCHANGED <<at[g], after[g], hIter[g], loop[g], got[g]>>

GroupStep(k) ==
    LoadCache(k) \/ WriteSeed(k) \/ ReadSeed(k) \/ WriteOffset(k) \/ ReadOffset(k)
    \/ WriteDigest(k) \/ Reduce(k) \/ WriteResults(k)

\* A group's step keeps the types and the other groups.
LEMMA GroupStepTypes ==
  ASSUME KernelTypes, NEW k \in Groups, GroupStep(k)
  PROVE  KernelTypes' /\ Others(k)
<1> USE DEF KernelTypes, KernelSteps, Others, To, ToBarrier, Groups, Addresses
<1>1. CASE LoadCache(k)
  <2>1. \A lid : CacheWords(lid) \subseteq 0 .. PROGPOW_CACHE_WORDS - 1
    BY DEF CacheWords
  <2>2. c_dag' \subseteq 0 .. PROGPOW_CACHE_WORDS - 1
    BY <1>1, <2>1 DEF LoadCache
  <2>3. QED
    BY <1>1, <2>2 DEF LoadCache
<1>2. CASE WriteSeed(k)
  BY <1>2 DEF WriteSeed, Write64
<1>3. CASE ReadSeed(k)
  BY <1>3 DEF ReadSeed
<1>4. CASE WriteOffset(k)
  BY <1>4 DEF WriteOffset, Write64
<1>5. CASE ReadOffset(k)
  BY <1>5 DEF ReadOffset
<1>6. CASE WriteDigest(k)
  BY <1>6 DEF WriteDigest
<1>7. CASE Reduce(k)
  BY <1>7 DEF Reduce
<1>8. CASE WriteResults(k)
  BY <1>8 DEF WriteResults
<1>9. QED
  BY <1>1, <1>2, <1>3, <1>4, <1>5, <1>6, <1>7, <1>8 DEF GroupStep

\* A group's step stays in the phase.
LEMMA GroupStepPhase ==
  ASSUME KernelTypes, NEW k \in Groups, GroupStep(k),
         NEW phase, NEW h \in Nat, NEW l \in Nat, \A g \in Groups : InPhase(g, phase, h, l)
  PROVE  \A g \in Groups : InPhase(g, phase, h, l)'
<1>1. Others(k)
  BY GroupStepTypes
<1>2. \A g \in Groups \ {k} : InPhase(g, phase, h, l)'
  BY <1>1 DEF Others, InPhase, Waits
<1>3. InPhase(k, phase, h, l)'
  <2> USE DEF KernelTypes, To, ToBarrier, InPhase, Waits
  <2>0. InPhase(k, phase, h, l) /\ hIter[k] \in Nat /\ loop[k] \in Nat
    OBVIOUS
  <2>1. CASE LoadCache(k)
    BY <2>0, <2>1 DEF LoadCache
  <2>2. CASE WriteSeed(k)
    BY <2>0, <2>2 DEF WriteSeed
  <2>3. CASE ReadSeed(k)
    BY <2>0, <2>3 DEF ReadSeed
  <2>4. CASE WriteOffset(k)
    BY <2>0, <2>4 DEF WriteOffset
  <2>5. CASE ReadOffset(k)
    BY <2>0, <2>5, KernelConstants DEF ReadOffset
  <2>6. CASE WriteDigest(k)
    BY <2>0, <2>6 DEF WriteDigest
  <2>7. CASE Reduce(k)
    BY <2>0, <2>7 DEF Reduce
  <2>8. CASE WriteResults(k)
    BY <2>0, <2>8 DEF WriteResults
  <2>9. QED
    BY <2>1, <2>2, <2>3, <2>4, <2>5, <2>6, <2>7, <2>8 DEF GroupStep
<1>4. QED
  BY <1>2, <1>3

\* A group's step overwrites nothing that another group has still to read.
LEMMA GroupStepMemory ==
  ASSUME KernelTypes, MemoryKept, NEW k \in Groups, GroupStep(k),
         NEW phase, NEW h \in Nat, NEW l \in Nat, \A g \in Groups : InPhase(g, phase, h, l)
  PROVE  MemoryKept'
<1>1. groups' = groups /\ Others(k) /\ KernelTypes'
  BY GroupStepTypes DEF Others
<1>2. /\ Groups' = Groups /\ LaneIds' = LaneIds
      /\ \A g : uint64s(g, 0)' = uint64s(g, 0) /\ OffsetWord(g)' = OffsetWord(g)
      /\ \A g, n : uint32s(g, n)' = uint32s(g, n)
  BY <1>1 DEF Groups, LaneIds, uint64s, OffsetWord, uint32s
<1>3. ASSUME NEW g \in Groups \ {k}
      PROVE  /\ UNCHANGED <<at[g], after[g], hIter[g], loop[g]>>
             /\ SeedKept(g) /\ OffsetKept(g) /\ DigestKept(g)
             /\ InPhase(g, phase, h, l) /\ InPhase(k, phase, h, l)
  BY <1>1 DEF Others, MemoryKept
<1>4. CASE LoadCache(k) \/ ReadSeed(k) \/ ReadOffset(k) \/ Reduce(k) \/ WriteResults(k)
  <2>1. share' = share
    BY <1>4 DEF LoadCache, ReadSeed, ReadOffset, Reduce, WriteResults
  <2>2. \/ at'[k] \in {"offset", "digest", "seed", "report", "end"}
        \/ at'[k] = "barrier" /\ after'[k] = "seed"
    BY <1>4 DEF LoadCache, ReadSeed, ReadOffset, Reduce, WriteResults, To, ToBarrier,
        KernelTypes
  <2>3. SeedKept(k)' /\ OffsetKept(k)' /\ DigestKept(k)'
    BY <2>2 DEF SeedKept, OffsetKept, DigestKept, Waits
  <2>4. \A g \in Groups \ {k} : SeedKept(g)' /\ OffsetKept(g)' /\ DigestKept(g)'
    BY <1>1, <1>2, <1>3, <2>1 DEF SeedKept, OffsetKept, DigestKept, Waits
  <2>5. QED
    BY <1>2, <2>3, <2>4 DEF MemoryKept
<1>5. CASE WriteSeed(k)
  <2>1. /\ at[k] = "seed" /\ at'[k] = "barrier" /\ after'[k] = "fill"
        /\ UNCHANGED <<hIter, loop>>
        /\ share' = [share EXCEPT ![uint64s(k, 0)] = <<"seed", k, hIter[k]>>,
                                  ![uint64s(k, 0) + 1] = <<"high", <<"seed", k, hIter[k]>>>>]
    BY <1>5 DEF WriteSeed, ToBarrier, KernelTypes, Write64
  <2>2. uint64s(k, 0) \in DOMAIN share /\ uint64s(k, 0) # uint64s(k, 0) + 1
    <3>1. uint64s(k, 0) \in Addresses
      BY InsideShare
    <3>2. uint64s(k, 0) \in Int
      BY <3>1 DEF Addresses
    <3>3. uint64s(k, 0) # uint64s(k, 0) + 1
      BY <3>2
    <3>4. QED
      BY <3>1, <3>3 DEF KernelTypes
  <2>3. SeedKept(k)' /\ OffsetKept(k)' /\ DigestKept(k)'
    BY <1>2, <2>1, <2>2 DEF SeedKept, OffsetKept, DigestKept, Waits
  <2>4. ASSUME NEW g \in Groups \ {k} PROVE SeedKept(g)' /\ OffsetKept(g)' /\ DigestKept(g)'
    <3>1. /\ ~Waits(g, "loop") /\ at[g] # "loop" /\ ~Waits(g, "reduce") /\ at[g] # "fill"
      BY <1>3, <2>1 DEF InPhase, Waits
    <3>2. share'[uint64s(g, 0)] = share[uint64s(g, 0)]
      BY <2>1, <2>4, Layout, InsideShare DEF KernelTypes
    <3>3. \A n \in LaneIds : share'[uint32s(g, n)] = share[uint32s(g, n)]
      BY <2>1, <2>4, Layout, InsideShare DEF KernelTypes
    <3>4. QED
      BY <1>1, <1>2, <1>3, <3>1, <3>2, <3>3 DEF SeedKept, OffsetKept, DigestKept, Waits
  <2>5. QED
    BY <1>2, <2>3, <2>4 DEF MemoryKept
<1>6. CASE WriteOffset(k)
  <2>1. /\ at[k] = "offset" /\ at'[k] = "barrier" /\ after'[k] = "loop"
        /\ UNCHANGED <<hIter, loop>>
        /\ share' = [share EXCEPT ![OffsetWord(k)] = <<"offset", k, hIter[k], loop[k]>>,
                                  ![OffsetWord(k) + 1] =
                                     <<"high", <<"offset", k, hIter[k], loop[k]>>>>]
    BY <1>6 DEF WriteOffset, ToBarrier, KernelTypes, Write64
  <2>2. groups <= PROGPOW_LANES \div 2 =>
           OffsetWord(k) \in DOMAIN share /\ OffsetWord(k) # OffsetWord(k) + 1
    <3>1. SUFFICES ASSUME groups <= PROGPOW_LANES \div 2
                   PROVE  OffsetWord(k) \in DOMAIN share /\ OffsetWord(k) # OffsetWord(k) + 1
      OBVIOUS
    <3>2. OffsetWord(k) \in Addresses
      BY <3>1, InsideShare
    <3>3. OffsetWord(k) \in Int
      BY <3>2 DEF Addresses
    <3>4. OffsetWord(k) # OffsetWord(k) + 1
      BY <3>3
    <3>5. QED
      BY <3>2, <3>4 DEF KernelTypes
  <2>3. SeedKept(k)' /\ OffsetKept(k)' /\ DigestKept(k)'
    BY <1>1, <1>2, <2>1, <2>2 DEF SeedKept, OffsetKept, DigestKept, Waits
  <2>4. ASSUME NEW g \in Groups \ {k} PROVE SeedKept(g)' /\ OffsetKept(g)' /\ DigestKept(g)'
    <3>1. ~Waits(g, "fill") /\ ~Waits(g, "reduce") /\ at[g] # "reduce"
      BY <1>3, <2>1 DEF InPhase, Waits
    <3>2. groups <= PROGPOW_LANES => share'[uint64s(g, 0)] = share[uint64s(g, 0)]
      BY <2>1, <2>4, Layout, InsideShare DEF KernelTypes
    <3>3. groups <= PROGPOW_LANES \div 2 => share'[OffsetWord(g)] = share[OffsetWord(g)]
      BY <2>1, <2>4, Layout, InsideShare DEF KernelTypes
    <3>4. QED
      BY <1>1, <1>2, <1>3, <3>1, <3>2, <3>3 DEF SeedKept, OffsetKept, DigestKept, Waits
  <2>5. QED
    BY <1>2, <2>3, <2>4 DEF MemoryKept
<1>7. CASE WriteDigest(k)
  <2>1. /\ at[k] = "digest" /\ at'[k] = "barrier" /\ after'[k] = "reduce"
        /\ UNCHANGED <<hIter, loop>>
    BY <1>7 DEF WriteDigest, ToBarrier, KernelTypes
  <2>2. /\ \A n \in LaneIds : share'[uint32s(k, n)] = <<"digest", k, hIter[k], n>>
        /\ \A a \in Addresses : (\A n \in LaneIds : a # uint32s(k, n)) => share'[a] = share[a]
    <3>1. share' = [a \in Addresses |->
                      IF a - uint32s(k, 0) \in LaneIds
                      THEN <<"digest", k, hIter[k], a - uint32s(k, 0)>> ELSE share[a]]
      BY <1>7 DEF WriteDigest, KernelTypes
    <3>2. /\ \A n \in LaneIds : uint32s(k, n) - uint32s(k, 0) = n
          /\ \A a \in Addresses : a - uint32s(k, 0) \in LaneIds =>
                a = uint32s(k, a - uint32s(k, 0))
      <4>1. PICK K \in Nat : K = 2 * PROGPOW_LANES * k
        <5>1. k \in Nat /\ PROGPOW_LANES \in Nat
          BY KernelConstants DEF Groups, KernelTypes
        <5>2. QED
          BY <5>1
      <4>2. LaneIds \subseteq Int /\ Addresses \subseteq Int
        BY DEF LaneIds, Addresses
      <4>3. QED
        BY <4>1, <4>2 DEF uint32s
    <3>3. \A n \in LaneIds : uint32s(k, n) \in Addresses
      BY InsideShare
    <3>4. QED
      BY <3>1, <3>2, <3>3
  <2>3. SeedKept(k)' /\ OffsetKept(k)' /\ DigestKept(k)'
    BY <1>1, <1>2, <2>1, <2>2 DEF SeedKept, OffsetKept, DigestKept, Waits
  <2>4. ASSUME NEW g \in Groups \ {k} PROVE SeedKept(g)' /\ OffsetKept(g)' /\ DigestKept(g)'
    <3>1. ~Waits(g, "fill") /\ at[g] # "fill" /\ ~Waits(g, "loop") /\ at[g] # "reduce"
      BY <1>3, <2>1 DEF InPhase, Waits
    <3>2. groups <= PROGPOW_LANES \div 2 => share'[OffsetWord(g)] = share[OffsetWord(g)]
      BY <2>2, <2>4, Layout, InsideShare
    <3>3. \A n \in LaneIds : share'[uint32s(g, n)] = share[uint32s(g, n)]
      BY <2>2, <2>4, Layout, InsideShare
    <3>4. QED
      BY <1>1, <1>2, <1>3, <3>1, <3>2, <3>3 DEF SeedKept, OffsetKept, DigestKept, Waits
  <2>5. QED
    BY <1>2, <2>3, <2>4 DEF MemoryKept
<1>8. QED
  BY <1>4, <1>5, <1>6, <1>7 DEF GroupStep

\* What a group has read is its own, as long as the words it reads are.
LEMMA GroupStepReads ==
  ASSUME KernelTypes, MemoryKept, CacheKept, SharedMemoryIsOwn, NEW k \in Groups, GroupStep(k),
         NEW phase, NEW h \in Nat, NEW l \in Nat, \A g \in Groups : InPhase(g, phase, h, l)
  PROVE  SharedMemoryIsOwn' /\ CacheKept'
<1>1. groups' = groups /\ Others(k) /\ KernelTypes'
  BY GroupStepTypes DEF Others
<1>2. Groups' = Groups /\ LaneIds' = LaneIds
  BY <1>1 DEF Groups, LaneIds
<1>3. \A g \in Groups : GroupWords(g)' = GroupWords(g)
  BY <1>1, <1>2 DEF GroupWords, CacheWords, GROUP_SIZE
<1>4. c_dag \subseteq c_dag' /\ (at[k] # "load" => c_dag' = c_dag)
  BY DEF GroupStep, LoadCache, WriteSeed, ReadSeed, WriteOffset, ReadOffset, WriteDigest,
      Reduce, WriteResults
<1>5. c_dag = 0 .. PROGPOW_CACHE_WORDS - 1 => c_dag' = c_dag
  BY <1>1, <1>4 DEF KernelTypes
<1>6. CacheKept'
  <2>1. GroupWords(k) \subseteq c_dag'
    <3>1. CASE at[k] = "load"
      BY <3>1 DEF GroupStep, LoadCache, WriteSeed, ReadSeed, WriteOffset, ReadOffset,
          WriteDigest, Reduce, WriteResults, GroupWords
    <3>2. CASE at[k] # "load"
      BY <1>4, <3>2 DEF CacheKept
    <3>3. QED
      BY <3>1, <3>2
  <2>2. ASSUME NEW g \in Groups \ {k}, at'[g] # "load" PROVE GroupWords(g) \subseteq c_dag'
    BY <1>1, <1>4, <2>2 DEF Others, CacheKept
  <2>3. QED
    BY <1>2, <1>3, <2>1, <2>2 DEF CacheKept
<1> DEFINE Own(g) ==
        /\ at[g] = "offset" /\ loop[g] = 0 /\ groups <= PROGPOW_LANES
              => got[g] = <<"seed", g, hIter[g]>>
        /\ at[g] \in {"offset", "digest"} /\ loop[g] > 0 /\ groups <= PROGPOW_LANES \div 2
              => got[g] = <<"offset", g, hIter[g], loop[g] - 1>>
        /\ at[g] \in {"seed", "report"} /\ hIter[g] > 0
              => got[g] = [n \in LaneIds |-> <<"digest", g, hIter[g] - 1, n>>]
        /\ at[g] \notin {"load", "barrier"} => c_dag = 0 .. PROGPOW_CACHE_WORDS - 1
<1>7. \A g \in Groups : Own(g)
  BY DEF SharedMemoryIsOwn
<1>8. \A g \in Groups \ {k} : Own(g)'
  BY <1>1, <1>2, <1>5, <1>7 DEF Others
<1>9. Own(k)'
  <2> USE DEF KernelTypes, To, ToBarrier
  <2>0. hIter[k] \in Nat /\ loop[k] \in Nat /\ SeedKept(k) /\ OffsetKept(k) /\ DigestKept(k)
    BY DEF MemoryKept
  <2>1. CASE LoadCache(k)
    BY <2>1 DEF LoadCache
  <2>2. CASE WriteSeed(k) \/ WriteOffset(k) \/ WriteDigest(k)
    BY <2>2 DEF WriteSeed, WriteOffset, WriteDigest
  <2>3. CASE ReadSeed(k)
    <3>1. /\ at[k] = "fill" /\ at'[k] = "offset" /\ loop'[k] = 0 /\ UNCHANGED <<c_dag, hIter>>
          /\ got'[k] = share[uint64s(k, 0)]
      BY <2>3 DEF ReadSeed
    <3>2. groups <= PROGPOW_LANES => got'[k] = <<"seed", k, hIter[k]>>
      BY <2>0, <3>1 DEF SeedKept
    <3>3. ~(loop'[k] > 0)
      BY <3>1
    <3>4. c_dag' = 0 .. PROGPOW_CACHE_WORDS - 1
      BY <1>7, <3>1
    <3>5. QED
      BY <1>1, <3>1, <3>2, <3>3, <3>4
  <2>4. CASE ReadOffset(k)
    <3>1. /\ at[k] = "loop" /\ at'[k] \in {"offset", "digest"} /\ loop'[k] = loop[k] + 1
          /\ UNCHANGED <<c_dag, hIter>> /\ got'[k] = share[OffsetWord(k)]
      BY <2>4 DEF ReadOffset
    <3>2. groups <= PROGPOW_LANES \div 2 => got'[k] = <<"offset", k, hIter[k], loop[k]>>
      BY <2>0, <3>1 DEF OffsetKept
    <3>3. loop'[k] - 1 = loop[k] /\ loop'[k] # 0
      BY <2>0, <3>1
    <3>4. QED
      BY <1>1, <1>7, <3>1, <3>2, <3>3
  <2>5. CASE Reduce(k)
    <3>1. /\ at[k] = "reduce" /\ at'[k] \in {"seed", "report"} /\ hIter'[k] = hIter[k] + 1
          /\ UNCHANGED c_dag /\ got'[k] = [n \in LaneIds |-> share[uint32s(k, n)]]
      BY <2>5 DEF Reduce
    <3>2. got'[k] = [n \in LaneIds |-> <<"digest", k, hIter[k], n>>]
      BY <2>0, <3>1 DEF DigestKept
    <3>3. hIter'[k] - 1 = hIter[k]
      BY <2>0, <3>1
    <3>4. QED
      BY <1>1, <1>2, <1>7, <3>1, <3>2, <3>3
  <2>6. CASE WriteResults(k)
    <3>1. at[k] = "report" /\ at'[k] = "end" /\ c_dag' = c_dag
      BY <2>6 DEF WriteResults
    <3>2. QED
      BY <1>7, <3>1
  <2>7. QED
    BY <2>1, <2>2, <2>3, <2>4, <2>5, <2>6 DEF GroupStep
<1>10. QED
  BY <1>2, <1>6, <1>8, <1>9 DEF SharedMemoryIsOwn

\* A barrier takes all groups to the next phase.
LEMMA BarrierStep ==
  ASSUME KernelInv, Barrier
  PROVE  KernelInv'
<1> USE DEF KernelInv
<1>1. /\ \A g \in Groups : at[g] = "barrier" /\ at'[g] = after[g]
      /\ UNCHANGED <<groups, after, hIter, loop, share, c_dag, got>>
      /\ Groups' = Groups /\ LaneIds' = LaneIds /\ Addresses' = Addresses
      /\ at' = after
  BY DEF Barrier, Groups, LaneIds, Addresses
<1>2. KernelTypes'
  BY <1>1 DEF KernelTypes, KernelSteps
<1>3. PICK phase \in KernelSteps, h \in Nat, l \in Nat :
         \A g \in Groups : InPhase(g, phase, h, l)
  BY DEF Lockstep
<1>4. \A g \in Groups : hIter[g] \in Nat /\ loop[g] \in Nat
  BY DEF KernelTypes
<1>5. Lockstep'
  <2>1. CASE phase = "load"
    <3>1. \A g \in Groups : InPhase(g, "seed", h, 0)'
      BY <1>1, <1>3, <2>1 DEF InPhase, Waits
    <3>2. QED
      BY <1>1, <3>1 DEF Lockstep, KernelSteps
  <2>2. CASE phase = "seed"
    <3>1. \A g \in Groups : InPhase(g, "offset", h, 0)'
      BY <1>1, <1>3, <2>2 DEF InPhase, Waits
    <3>2. QED
      BY <1>1, <3>1 DEF Lockstep, KernelSteps
  <2>3. CASE phase = "offset"
    <3>1. \A g \in Groups : after[g] = "loop" /\ h = hIter[g] /\ l = loop[g]
      BY <1>1, <1>3, <2>3 DEF InPhase, Waits
    <3>2. CASE l + 1 < PROGPOW_CNT_DAG
      <4>1. \A g \in Groups : InPhase(g, "offset", h, l + 1)'
        BY <1>1, <3>1, <3>2 DEF InPhase
      <4>2. QED
        BY <1>1, <4>1 DEF Lockstep, KernelSteps
    <3>3. CASE l + 1 >= PROGPOW_CNT_DAG
      <4>1. \A g \in Groups : InPhase(g, "digest", h, l)'
        BY <1>1, <3>1, <3>3 DEF InPhase
      <4>2. QED
        BY <1>1, <4>1 DEF Lockstep, KernelSteps
    <3>4. QED
      BY <3>2, <3>3, KernelConstants
  <2>4. CASE phase = "digest"
    <3>1. \A g \in Groups : InPhase(g, "seed", h + 1, 0)'
      BY <1>1, <1>3, <2>4 DEF InPhase, Waits
    <3>2. QED
      BY <1>1, <3>1 DEF Lockstep, KernelSteps
  <2>5. CASE phase \notin {"load", "seed", "offset", "digest"}
    <3>1. 0 \in Groups
      BY DEF Groups, KernelTypes
    <3>2. QED
      BY <1>3, <2>5, <3>1 DEF InPhase
  <2>6. QED
    BY <2>1, <2>2, <2>3, <2>4, <2>5
<1>6. MemoryKept'
  BY <1>1 DEF MemoryKept, SeedKept, OffsetKept, DigestKept, Waits, uint64s, uint32s,
      OffsetWord
<1>7. CacheKept'
  <2>1. \A g \in Groups : GroupWords(g)' = GroupWords(g)
    BY <1>1 DEF GroupWords, CacheWords, GROUP_SIZE
  <2>2. QED
    BY <1>1, <2>1 DEF CacheKept
<1>8. SharedMemoryIsOwn'
  <2>1. c_dag = 0 .. PROGPOW_CACHE_WORDS - 1
    BY <1>1, WholeCache DEF CacheKept
  <2>2. \A g \in Groups : at'[g] \in {"load", "seed", "fill", "loop", "reduce"}
    BY <1>1 DEF KernelTypes
  <2>3. ASSUME NEW g \in Groups, at'[g] = "seed" PROVE hIter[g] = 0
    BY <1>1, <1>3, <2>3 DEF InPhase, Waits
  <2>4. QED
    BY <1>1, <2>1, <2>2, <2>3 DEF SharedMemoryIsOwn
<1>9. QED
  BY <1>2, <1>5, <1>6, <1>7, <1>8

\* A kernel that has ended stays as it is.
LEMMA KernelStutters ==
  ASSUME KernelInv, UNCHANGED kernelVars
  PROVE  KernelInv'
<1>1. /\ UNCHANGED <<groups, at, after, hIter, loop, share, c_dag, got>>
      /\ Groups' = Groups /\ LaneIds' = LaneIds /\ Addresses' = Addresses
  BY DEF kernelVars, Groups, LaneIds, Addresses
<1>2. KernelTypes'
  BY <1>1 DEF KernelInv, KernelTypes
<1>3. Lockstep'
  <2>1. PICK phase \in KernelSteps, h \in Nat, l \in Nat :
           \A g \in Groups : InPhase(g, phase, h, l)
    BY DEF KernelInv, Lockstep
  <2>2. \A g \in Groups : InPhase(g, phase, h, l)'
    BY <1>1, <2>1 DEF InPhase, Waits
  <2>3. QED
    BY <1>1, <2>1, <2>2 DEF Lockstep
<1>4. MemoryKept'
  BY <1>1 DEF KernelInv, MemoryKept, SeedKept, OffsetKept, DigestKept, Waits, uint64s,
      uint32s, OffsetWord
<1>5. CacheKept'
  <2>1. \A g \in Groups : GroupWords(g)' = GroupWords(g)
    BY <1>1 DEF GroupWords, CacheWords, GROUP_SIZE
  <2>2. QED
    BY <1>1, <2>1 DEF KernelInv, CacheKept
<1>6. SharedMemoryIsOwn'
  BY <1>1 DEF KernelInv, SharedMemoryIsOwn
<1>7. QED
  BY <1>2, <1>3, <1>4, <1>5, <1>6 DEF KernelInv

\* At the start nothing is loaded, and nothing is still to be read.
LEMMA InitKernel == KernelInit => KernelInv
<1> SUFFICES ASSUME KernelInit PROVE KernelInv
  OBVIOUS
<1>1. groups \in Nat \ {0}
  BY KernelAssumption DEF KernelInit
<1>2. KernelTypes
  BY <1>1 DEF KernelInit, KernelTypes, KernelSteps, Addresses
<1>3. \A g \in Groups : InPhase(g, "load", 0, 0)
  BY DEF KernelInit, InPhase
<1>4. Lockstep
  BY <1>3 DEF Lockstep, KernelSteps
<1>5. \A g \in Groups : at[g] = "load"
  BY DEF KernelInit
<1>6. MemoryKept /\ CacheKept
  BY <1>5 DEF MemoryKept, SeedKept, OffsetKept, DigestKept, Waits, CacheKept
<1>7. SharedMemoryIsOwn
  BY <1>5 DEF SharedMemoryIsOwn
<1>8. QED
  BY <1>2, <1>4, <1>6, <1>7 DEF KernelInv

\* For any even number of lanes, any number of groups and any interleaving of them, what
\* a group of the OpenCL kernel reads from local memory is what its own lanes wrote: its
\* digest always, its DAG offsets up to PROGPOW_LANES / 2 groups in a work-group, its
\* seed up to PROGPOW_LANES; and every group finds the whole cache loaded.
THEOREM LocalMemoryIsOwn == KernelSpec => []SharedMemoryIsOwn
<1>1. ASSUME KernelInv, KernelNext PROVE KernelInv'
  <2>1. CASE Barrier
    BY <1>1, <2>1, BarrierStep
  <2>2. CASE \E k \in Groups : GroupStep(k)
    <3>1. PICK k \in Groups : GroupStep(k)
      BY <2>2
    <3>2. PICK phase \in KernelSteps, h \in Nat, l \in Nat :
             \A g \in Groups : InPhase(g, phase, h, l)
      BY <1>1 DEF KernelInv, Lockstep
    <3>3. KernelTypes' /\ Groups' = Groups
      BY <1>1, <3>1, GroupStepTypes DEF KernelInv, Others, Groups
    <3>4. Lockstep'
      <4>1. \A g \in Groups : InPhase(g, phase, h, l)'
        BY <1>1, <3>1, <3>2, GroupStepPhase DEF KernelInv
      <4>2. QED
        BY <3>2, <3>3, <4>1 DEF Lockstep
    <3>5. MemoryKept'
      BY <1>1, <3>1, <3>2, GroupStepMemory DEF KernelInv
    <3>6. SharedMemoryIsOwn' /\ CacheKept'
      BY <1>1, <3>1, <3>2, GroupStepReads DEF KernelInv
    <3>7. QED
      BY <3>3, <3>4, <3>5, <3>6 DEF KernelInv
  <2>3. CASE UNCHANGED kernelVars
    BY <1>1, <2>3, KernelStutters
  <2>4. QED
    BY <1>1, <2>1, <2>2, <2>3 DEF KernelNext, KernelEnd, GroupStep
<1>2. KernelInv /\ UNCHANGED kernelVars => KernelInv'
  BY KernelStutters
<1>3. KernelInv => SharedMemoryIsOwn
  BY DEF KernelInv
<1>4. QED
  BY InitKernel, <1>1, <1>2, <1>3, PTL DEF KernelSpec

-----------------------------------------------------------------------------
(* The generator of the program the kernel runs (ProgPow::getKern), and the *)
(* merges its statements make, over the halves of 32-bit words.             *)

-----------------------------------------------------------------------------
(* Words of 32 bits.                                                       *)

LEMMA Remainder ==
  ASSUME NEW a \in Int, NEW d \in Nat \ {0}
  PROVE  a % d \in 0 .. d - 1 /\ a \div d \in Int /\ a = d * (a \div d) + (a % d)
  OBVIOUS

\* A half is a number of 16 bits.
LEMMA HalfSize == H \in Nat \ {0} /\ \A n \in 0 .. H - 1 : n \in Nat /\ n \in Int /\ n < H
<1>1. H \in Nat \ {0}
  BY DEF H
<1>2. QED
  BY <1>1

LEMMA HalfBits == \A n \in Nat : n < 65536 <=> n \in 0 .. H - 1
<1>1. H \in Nat \ {0} /\ \A n \in Nat : n < 65536 <=> n <= H - 1
  BY DEF H
<1>2. QED
  BY <1>1

\* A word is its two halves.
LEMMA Halves ==
  /\ \A a \in Uint32 : a[1] \in 0 .. H - 1 /\ a[2] \in 0 .. H - 1 /\ a = <<a[1], a[2]>>
  /\ \A a \in Uint32 : a[1] \in Int /\ a[2] \in Int
  /\ \A x, y \in 0 .. H - 1 : <<x, y>> \in Uint32
<1>1. \A a \in Uint32 : a[1] \in 0 .. H - 1 /\ a[2] \in 0 .. H - 1 /\ a = <<a[1], a[2]>>
  BY DEF Uint32
<1>2. \A a \in Uint32 : a[1] \in Int /\ a[2] \in Int
  BY <1>1, HalfSize
<1>3. \A x, y \in 0 .. H - 1 : <<x, y>> \in Uint32
  BY DEF Uint32
<1>4. QED
  BY <1>1, <1>2, <1>3

\* Remainders by the size of a half are halves.
LEMMA HalfRemainder == \A n \in Int : n % H \in 0 .. H - 1 /\ n \div H \in Int
  BY Remainder, HalfSize

\* Exclusive or stays within as many bits as its operands.
LEMMA XorBits ==
  /\ \A u, v \in Int : Xor1(u, v) \in Nat /\ Xor1(u, v) < 2
  /\ \A u, v \in Int : Xor2(u, v) \in Nat /\ Xor2(u, v) < 4
  /\ \A u, v \in Int : Xor4(u, v) \in Nat /\ Xor4(u, v) < 16
  /\ \A u, v \in Int : Xor8(u, v) \in Nat /\ Xor8(u, v) < 256
<1>1. \A u, v \in Int : Xor1(u, v) \in Nat /\ Xor1(u, v) < 2
  BY DEF Xor1
<1>2. \A u, v \in Int : Xor2(u, v) \in Nat /\ Xor2(u, v) < 4
  <2> SUFFICES ASSUME NEW u \in Int, NEW v \in Int
               PROVE  Xor2(u, v) \in Nat /\ Xor2(u, v) < 4
    OBVIOUS
  <2>1. u % 2 \in Int /\ v % 2 \in Int /\ u \div 2 \in Int /\ v \div 2 \in Int
    OBVIOUS
  <2>2. /\ Xor1(u % 2, v % 2) \in Nat /\ Xor1(u % 2, v % 2) < 2
        /\ Xor1(u \div 2, v \div 2) \in Nat /\ Xor1(u \div 2, v \div 2) < 2
    BY <1>1, <2>1
  <2>3. QED
    BY <2>2 DEF Xor2, Twice
<1>3. \A u, v \in Int : Xor4(u, v) \in Nat /\ Xor4(u, v) < 16
  <2> SUFFICES ASSUME NEW u \in Int, NEW v \in Int
               PROVE  Xor4(u, v) \in Nat /\ Xor4(u, v) < 16
    OBVIOUS
  <2>1. u % 4 \in Int /\ v % 4 \in Int /\ u \div 4 \in Int /\ v \div 4 \in Int
    OBVIOUS
  <2>2. /\ Xor2(u % 4, v % 4) \in Nat /\ Xor2(u % 4, v % 4) < 4
        /\ Xor2(u \div 4, v \div 4) \in Nat /\ Xor2(u \div 4, v \div 4) < 4
    BY <1>2, <2>1
  <2>3. QED
    BY <2>2 DEF Xor4, Twice
<1>4. \A u, v \in Int : Xor8(u, v) \in Nat /\ Xor8(u, v) < 256
  <2> SUFFICES ASSUME NEW u \in Int, NEW v \in Int
               PROVE  Xor8(u, v) \in Nat /\ Xor8(u, v) < 256
    OBVIOUS
  <2>1. u % 16 \in Int /\ v % 16 \in Int /\ u \div 16 \in Int /\ v \div 16 \in Int
    OBVIOUS
  <2>2. /\ Xor4(u % 16, v % 16) \in Nat /\ Xor4(u % 16, v % 16) < 16
        /\ Xor4(u \div 16, v \div 16) \in Nat /\ Xor4(u \div 16, v \div 16) < 16
    BY <1>3, <2>1
  <2>3. QED
    BY <2>2 DEF Xor8, Twice
<1>5. QED
  BY <1>1, <1>2, <1>3, <1>4

\* The exclusive or of two halves is a half.
LEMMA XorHalf ==
  ASSUME NEW x \in Int, NEW y \in Int
  PROVE  XorH(x, y) \in 0 .. H - 1
<1>1. x % 256 \in Int /\ y % 256 \in Int /\ x \div 256 \in Int /\ y \div 256 \in Int
  OBVIOUS
<1>2. /\ Xor8(x % 256, y % 256) \in Nat /\ Xor8(x % 256, y % 256) < 256
      /\ Xor8(x \div 256, y \div 256) \in Nat /\ Xor8(x \div 256, y \div 256) < 256
  BY <1>1, XorBits
<1>3. XorH(x, y) \in Nat /\ XorH(x, y) < 65536
  BY <1>2 DEF XorH, Twice
<1>4. QED
  BY <1>3, HalfSize, HalfBits

\* And it keeps two halves apart, half of the bits at a time.
LEMMA XorHalfApart ==
  ASSUME NEW x \in 0 .. H - 1, NEW y \in 0 .. H - 1, NEW z \in 0 .. H - 1,
         XorH(x, z) = XorH(y, z)
  PROVE  x = y
<1>1. \A u, v, t \in Nat : u < 2 /\ v < 2 /\ t < 2 /\ Xor1(u, t) = Xor1(v, t) => u = v
  BY DEF Xor1
<1>2. \A u, v, t \in Nat : u < 4 /\ v < 4 /\ t < 4 /\ Xor2(u, t) = Xor2(v, t) => u = v
  <2> SUFFICES ASSUME NEW u \in Nat, NEW v \in Nat, NEW t \in Nat, u < 4, v < 4, t < 4,
                      Xor2(u, t) = Xor2(v, t)
               PROVE  u = v
    OBVIOUS
  <2>1. /\ u % 2 \in Nat /\ v % 2 \in Nat /\ t % 2 \in Nat
        /\ u % 2 < 2 /\ v % 2 < 2 /\ t % 2 < 2
        /\ u \div 2 \in Nat /\ v \div 2 \in Nat /\ t \div 2 \in Nat
        /\ u \div 2 < 2 /\ v \div 2 < 2 /\ t \div 2 < 2
    OBVIOUS
  <2>2. /\ u % 2 \in Int /\ v % 2 \in Int /\ t % 2 \in Int
        /\ u \div 2 \in Int /\ v \div 2 \in Int /\ t \div 2 \in Int
    BY <2>1
  <2> DEFINE ul == Xor1(u % 2, t % 2)
             vl == Xor1(v % 2, t % 2)
             uh == Xor1(u \div 2, t \div 2)
             vh == Xor1(v \div 2, t \div 2)
  <2>3. ul = vl /\ uh = vh
    <3>1. ul \in Nat /\ ul < 2 /\ vl \in Nat /\ vl < 2 /\ uh \in Nat /\ vh \in Nat
      <4>1. \A m, n \in Int : Xor1(m, n) \in Nat /\ Xor1(m, n) < 2
        BY XorBits
      <4>2. QED
        BY <2>2, <4>1
    <3>2. ul + 2 * uh = vl + 2 * vh
      BY DEF Xor2, Twice
    <3> HIDE DEF ul, vl, uh, vh
    <3>3. QED
      BY <3>1, <3>2
  <2>4. u % 2 = v % 2 /\ u \div 2 = v \div 2
    BY <1>1, <2>1, <2>3
  <2>5. QED
    BY <2>4
<1>3. \A u, v, t \in Nat : u < 16 /\ v < 16 /\ t < 16 /\ Xor4(u, t) = Xor4(v, t) => u = v
  <2> SUFFICES ASSUME NEW u \in Nat, NEW v \in Nat, NEW t \in Nat, u < 16, v < 16, t < 16,
                      Xor4(u, t) = Xor4(v, t)
               PROVE  u = v
    OBVIOUS
  <2>1. /\ u % 4 \in Nat /\ v % 4 \in Nat /\ t % 4 \in Nat
        /\ u % 4 < 4 /\ v % 4 < 4 /\ t % 4 < 4
        /\ u \div 4 \in Nat /\ v \div 4 \in Nat /\ t \div 4 \in Nat
        /\ u \div 4 < 4 /\ v \div 4 < 4 /\ t \div 4 < 4
    OBVIOUS
  <2>2. /\ u % 4 \in Int /\ v % 4 \in Int /\ t % 4 \in Int
        /\ u \div 4 \in Int /\ v \div 4 \in Int /\ t \div 4 \in Int
    BY <2>1
  <2> DEFINE ul == Xor2(u % 4, t % 4)
             vl == Xor2(v % 4, t % 4)
             uh == Xor2(u \div 4, t \div 4)
             vh == Xor2(v \div 4, t \div 4)
  <2>3. ul = vl /\ uh = vh
    <3>1. ul \in Nat /\ ul < 4 /\ vl \in Nat /\ vl < 4 /\ uh \in Nat /\ vh \in Nat
      <4>1. \A m, n \in Int : Xor2(m, n) \in Nat /\ Xor2(m, n) < 4
        BY XorBits
      <4>2. QED
        BY <2>2, <4>1
    <3>2. ul + 4 * uh = vl + 4 * vh
      BY DEF Xor4, Twice
    <3> HIDE DEF ul, vl, uh, vh
    <3>3. QED
      BY <3>1, <3>2
  <2>4. u % 4 = v % 4 /\ u \div 4 = v \div 4
    BY <1>2, <2>1, <2>3
  <2>5. QED
    BY <2>4
<1>4. \A u, v, t \in Nat : u < 256 /\ v < 256 /\ t < 256 /\ Xor8(u, t) = Xor8(v, t) => u = v
  <2> SUFFICES ASSUME NEW u \in Nat, NEW v \in Nat, NEW t \in Nat, u < 256, v < 256, t < 256,
                      Xor8(u, t) = Xor8(v, t)
               PROVE  u = v
    OBVIOUS
  <2>1. /\ u % 16 \in Nat /\ v % 16 \in Nat /\ t % 16 \in Nat
        /\ u % 16 < 16 /\ v % 16 < 16 /\ t % 16 < 16
        /\ u \div 16 \in Nat /\ v \div 16 \in Nat /\ t \div 16 \in Nat
        /\ u \div 16 < 16 /\ v \div 16 < 16 /\ t \div 16 < 16
    OBVIOUS
  <2>2. /\ u % 16 \in Int /\ v % 16 \in Int /\ t % 16 \in Int
        /\ u \div 16 \in Int /\ v \div 16 \in Int /\ t \div 16 \in Int
    BY <2>1
  <2> DEFINE ul == Xor4(u % 16, t % 16)
             vl == Xor4(v % 16, t % 16)
             uh == Xor4(u \div 16, t \div 16)
             vh == Xor4(v \div 16, t \div 16)
  <2>3. ul = vl /\ uh = vh
    <3>1. ul \in Nat /\ ul < 16 /\ vl \in Nat /\ vl < 16 /\ uh \in Nat /\ vh \in Nat
      <4>1. \A m, n \in Int : Xor4(m, n) \in Nat /\ Xor4(m, n) < 16
        BY XorBits
      <4>2. QED
        BY <2>2, <4>1
    <3>2. ul + 16 * uh = vl + 16 * vh
      BY DEF Xor8, Twice
    <3> HIDE DEF ul, vl, uh, vh
    <3>3. QED
      BY <3>1, <3>2
  <2>4. u % 16 = v % 16 /\ u \div 16 = v \div 16
    BY <1>3, <2>1, <2>3
  <2>5. QED
    BY <2>4
<1>5. /\ x % 256 \in Nat /\ y % 256 \in Nat /\ z % 256 \in Nat
      /\ x % 256 < 256 /\ y % 256 < 256 /\ z % 256 < 256
      /\ x \div 256 \in Nat /\ y \div 256 \in Nat /\ z \div 256 \in Nat
      /\ x \div 256 < 256 /\ y \div 256 < 256 /\ z \div 256 < 256
  <2>1. \A n \in Nat : n < 65536 => /\ n % 256 \in Nat /\ n % 256 < 256
                                    /\ n \div 256 \in Nat /\ n \div 256 < 256
    OBVIOUS
  <2>2. \A n \in 0 .. H - 1 : n \in Nat /\ n < 65536
    BY HalfSize, HalfBits
  <2>3. QED
    BY <2>1, <2>2
<1>6. x \in Int /\ y \in Int /\ z \in Int
  BY HalfSize
<1> DEFINE xl == Xor8(x % 256, z % 256)
           yl == Xor8(y % 256, z % 256)
           xh == Xor8(x \div 256, z \div 256)
           yh == Xor8(y \div 256, z \div 256)
<1>7. xl = yl /\ xh = yh
  <2>1. xl \in Nat /\ xl < 256 /\ yl \in Nat /\ yl < 256 /\ xh \in Nat /\ yh \in Nat
    <3>1. \A m, n \in Int : Xor8(m, n) \in Nat /\ Xor8(m, n) < 256
      BY XorBits
    <3>2. /\ x % 256 \in Int /\ y % 256 \in Int /\ z % 256 \in Int
          /\ x \div 256 \in Int /\ y \div 256 \in Int /\ z \div 256 \in Int
      BY <1>6
    <3> DEFINE u == x % 256   v == z % 256   uu == x \div 256   vv == z \div 256
               t == y % 256   tt == y \div 256
    <3>3. /\ u \in Int /\ v \in Int /\ t \in Int /\ uu \in Int /\ vv \in Int /\ tt \in Int
          /\ xl = Xor8(u, v) /\ yl = Xor8(t, v) /\ xh = Xor8(uu, vv) /\ yh = Xor8(tt, vv)
      BY <3>2
    <3> HIDE DEF u, v, t, uu, vv, tt, xl, yl, xh, yh
    <3>4. QED
      BY <3>1, <3>3
  <2>2. xl + 256 * xh = yl + 256 * yh
    BY DEF XorH, Twice
  <2> HIDE DEF xl, yl, xh, yh
  <2>3. QED
    BY <2>1, <2>2
<1>8. x % 256 = y % 256 /\ x \div 256 = y \div 256
  BY <1>4, <1>5, <1>7
<1>9. QED
  BY <1>6, <1>8

\* A sum of two pairs of numbers is a word.
LEMMA SumIsWord ==
  \A a, b : a[1] \in Int /\ a[2] \in Int /\ b[1] \in Int /\ b[2] \in Int => AddW(a, b) \in Uint32
<1> SUFFICES ASSUME NEW a, NEW b, a[1] \in Int, a[2] \in Int, b[1] \in Int, b[2] \in Int
             PROVE  AddW(a, b) \in Uint32
  OBVIOUS
<1> DEFINE lo == a[2] + b[2]
           hi == a[1] + b[1] + lo \div H
<1>1. lo \in Int
  OBVIOUS
<1>2. AddW(a, b) = <<hi % H, lo % H>>
  BY DEF AddW
<1> HIDE DEF lo
<1>3. hi \in Int
  BY <1>1, HalfRemainder
<1> HIDE DEF hi
<1>4. QED
  BY <1>1, <1>2, <1>3, HalfRemainder, Halves

\* The operations of the generator return words.
LEMMA WordOps ==
  /\ \A n \in Int : W(n) \in Uint32
  /\ \A x, y \in Int : MulH(x, y) \in Uint32
  /\ \A a, b \in Uint32 : XorW(a, b) \in Uint32 /\ AddW(a, b) \in Uint32 /\ MulW(a, b) \in Uint32
<1>1. \A n \in Int : W(n) \in Uint32
  BY HalfRemainder, Halves DEF W
<1>2. ASSUME NEW x \in Int, NEW y \in Int PROVE MulH(x, y) \in Uint32
  <2> DEFINE p == x * (y % 256)
             q == x * (y \div 256)
             a == W(p)
             b == <<q \div 256, (q % 256) * 256>>
  <2>1. p \in Int /\ q \in Int
    OBVIOUS
  <2>2. MulH(x, y) = AddW(a, b)
    BY DEF MulH
  <2> HIDE DEF p, q
  <2>3. b[1] \in Int /\ b[2] \in Int
    BY <2>1
  <2>4. a[1] \in Int /\ a[2] \in Int
    BY <1>1, <2>1, Halves
  <2> HIDE DEF a, b
  <2>5. QED
    BY <2>2, <2>3, <2>4, SumIsWord
<1>3. ASSUME NEW a \in Uint32, NEW b \in Uint32
      PROVE  XorW(a, b) \in Uint32 /\ AddW(a, b) \in Uint32 /\ MulW(a, b) \in Uint32
  <2>1. a[1] \in Int /\ a[2] \in Int /\ b[1] \in Int /\ b[2] \in Int
    BY Halves
  <2>2. XorW(a, b) \in Uint32
    BY <2>1, Halves, XorHalf DEF XorW
  <2>3. AddW(a, b) \in Uint32
    BY <2>1, SumIsWord
  <2>4. MulW(a, b) \in Uint32
    <3> DEFINE p == MulH(a[2], b[2])
               q == MulH(a[1], b[2])
               r == MulH(a[2], b[1])
               s == p[1] + q[2] + r[2]
    <3>1. p \in Uint32 /\ q \in Uint32 /\ r \in Uint32
      BY <1>2, <2>1
    <3>2. MulW(a, b) = <<s % H, p[2]>>
      BY DEF MulW
    <3> HIDE DEF p, q, r
    <3>3. s \in Int /\ p[2] \in 0 .. H - 1
      BY <3>1, Halves
    <3> HIDE DEF s
    <3>4. QED
      BY <3>2, <3>3, HalfRemainder, Halves
  <2>5. QED
    BY <2>2, <2>3, <2>4
<1>4. QED
  BY <1>1, <1>2, <1>3

\* So do the shifts by the amounts it uses.
LEMMA WordShifts ==
  ASSUME NEW a \in Uint32
  PROVE  /\ ShlW(a, 17) \in Uint32 /\ ShlW(a, 5) \in Uint32 /\ ShlW(a, 16) \in Uint32
         /\ ShrW(a, 13) \in Uint32 /\ ShrW(a, 16) \in Uint32
<1> DEFINE x == a[1]
           y == a[2]
<1>1. x \in 0 .. H - 1 /\ y \in 0 .. H - 1 /\ x \in Int /\ y \in Int
  BY Halves
<1>2. 2^0 = 1 /\ 2^1 = 2 /\ 2^3 = 8 /\ 2^5 = 32 /\ 2^13 = 8192
  OBVIOUS
<1>3. ShlW(a, 17) = <<(y * 2) % H, 0>> /\ ShlW(a, 16) = <<(y * 1) % H, 0>>
  BY <1>2 DEF ShlW
<1>4. ShlW(a, 5) = <<(x * 32 + (y * 32) \div H) % H, (y * 32) % H>>
  BY <1>2 DEF ShlW
<1>5. ShrW(a, 16) = <<0, x \div 1>>
  BY <1>2 DEF ShrW
<1>6. ShrW(a, 13) = <<x \div 8192, (x % 8192) * 8 + y \div 8192>>
  BY <1>2 DEF ShrW
<1> HIDE DEF x, y
<1>7. y * 2 \in Int /\ y * 1 \in Int /\ y * 32 \in Int
  BY <1>1
<1>8. ShlW(a, 17) \in Uint32 /\ ShlW(a, 16) \in Uint32
  BY <1>3, <1>7, HalfRemainder, Halves, HalfSize
<1>9. ShlW(a, 5) \in Uint32
  <2> DEFINE s == x * 32 + (y * 32) \div H
             t == y * 32
  <2>1. t \in Int
    BY <1>1
  <2>2. s \in Int
    <3>1. t \div H \in Int
      BY <2>1, HalfRemainder
    <3>2. QED
      BY <1>1, <3>1
  <2>3. ShlW(a, 5) = <<s % H, t % H>>
    BY <1>4
  <2> HIDE DEF s, t
  <2>4. QED
    BY <2>1, <2>2, <2>3, HalfRemainder, Halves
<1>10. x \in Nat /\ x < 65536 /\ y \in Nat /\ y < 65536
  BY <1>1, HalfSize, HalfBits
<1>11. ShrW(a, 16) \in Uint32
  <2>1. x \div 1 = x
    BY <1>1
  <2>2. QED
    BY <1>1, <1>5, <2>1, HalfSize, Halves
<1>12. ShrW(a, 13) \in Uint32
  <2> DEFINE s == x \div 8192
             t == (x % 8192) * 8 + y \div 8192
  <2>1. s \in Nat /\ s < 65536 /\ t \in Nat /\ t < 65536
    BY <1>10
  <2>2. ShrW(a, 13) = <<s, t>>
    BY <1>6
  <2> HIDE DEF s, t
  <2>3. s \in 0 .. H - 1 /\ t \in 0 .. H - 1
    BY <2>1, HalfSize, HalfBits
  <2>4. QED
    BY <2>2, <2>3, Halves
<1>13. QED
  BY <1>8, <1>9, <1>11, <1>12

\* The remainder of a word is one.
LEMMA WordRemainder ==
  ASSUME NEW a \in Uint32, NEW n \in Nat \ {0}
  PROVE  ModW(a, n) \in 0 .. n - 1
<1> DEFINE x == a[1]
           y == a[2]
           s == (x % n) * (H % n) + (y % n)
<1>1. x \in Int /\ y \in Int /\ H \in Int
  BY Halves, HalfSize
<1>2. ModW(a, n) = s % n
  BY DEF ModW
<1> HIDE DEF x, y
<1>3. x % n \in Int /\ H % n \in Int /\ y % n \in Int
  BY <1>1
<1>4. s \in Int
  BY <1>3
<1> HIDE DEF s
<1>5. QED
  BY <1>2, <1>4, Remainder

-----------------------------------------------------------------------------
(* What the generator draws.                                               *)

\* kiss99_t
KissState == [z : Uint32, w : Uint32, jsr : Uint32, jcong : Uint32]

\* The numbers in the source are numbers of 32 bits.
LEMMA KissStep ==
  ASSUME NEW st \in KissState
  PROVE  kiss99(st) \in KissState /\ Out(st) \in Uint32
<1>1. st.z \in Uint32 /\ st.w \in Uint32 /\ st.jsr \in Uint32 /\ st.jcong \in Uint32
  BY DEF KissState
<1> DEFINE j1 == XorW(st.jsr, ShlW(st.jsr, 17))
           j2 == XorW(j1, ShrW(j1, 13))
           z == AddW(MulH(36969, st.z[2]), W(st.z[1]))
           t == AddW(MulH(18000, st.w[2]), W(st.w[1]))
           jsr == XorW(j2, ShlW(j2, 5))
           jcong == AddW(MulW(W(69069), st.jcong), W(1234567))
<1>2. j1 \in Uint32
  BY <1>1, WordOps, WordShifts
<1>3. j2 \in Uint32
  <2> HIDE DEF j1
  <2>1. QED
    BY <1>2, WordOps, WordShifts
<1>4. jsr \in Uint32
  <2> HIDE DEF j2
  <2>1. QED
    BY <1>3, WordOps, WordShifts
<1>5. z \in Uint32 /\ t \in Uint32
  <2>1. st.z[1] \in Int /\ st.z[2] \in Int /\ st.w[1] \in Int /\ st.w[2] \in Int
    BY <1>1, Halves
  <2>2. MulH(36969, st.z[2]) \in Uint32 /\ MulH(18000, st.w[2]) \in Uint32
        /\ W(st.z[1]) \in Uint32 /\ W(st.w[1]) \in Uint32
    BY <2>1, WordOps
  <2>3. QED
    BY <2>2, WordOps
<1>6. jcong \in Uint32
  <2>1. W(69069) \in Uint32 /\ W(1234567) \in Uint32
    BY WordOps
  <2>2. MulW(W(69069), st.jcong) \in Uint32
    BY <1>1, <2>1, WordOps
  <2>3. QED
    BY <2>1, <2>2, WordOps
<1>7. kiss99(st) = [z |-> z, w |-> t, jsr |-> jsr, jcong |-> jcong]
  BY DEF kiss99
<1>8. kiss99(st) \in KissState
  <2> HIDE DEF z, t, jsr, jcong
  <2>1. QED
    BY <1>4, <1>5, <1>6, <1>7 DEF KissState
<1>9. Out(st) \in Uint32
  <2>1. AddW(ShlW(st.z, 16), st.w) \in Uint32
    BY <1>1, WordOps, WordShifts
  <2>2. XorW(AddW(ShlW(st.z, 16), st.w), st.jcong) \in Uint32
    BY <1>1, <2>1, WordOps
  <2>3. QED
    BY <1>1, <2>2, WordOps DEF Out
<1>10. QED
  BY <1>8, <1>9

LEMMA Seeded ==
  ASSUME NEW a \in Uint32, NEW b \in Uint32, NEW c \in Uint32, NEW d \in Uint32
  PROVE  SeededBy(a, b, c, d) \in KissState
<1>1. FNV_OFFSET \in Uint32 /\ <<256, 403>> \in Uint32
  BY HalfSize, HalfBits, Halves DEF FNV_OFFSET
<1>2. \A h, e \in Uint32 : fnv1a(h, e) \in Uint32
  BY <1>1, WordOps DEF fnv1a
<1>3. fnv1a(FNV_OFFSET, a) \in Uint32
  BY <1>1, <1>2
<1>4. fnv1a(fnv1a(FNV_OFFSET, a), b) \in Uint32
  BY <1>2, <1>3
<1>5. fnv1a(fnv1a(fnv1a(FNV_OFFSET, a), b), c) \in Uint32
  BY <1>2, <1>4
<1>6. fnv1a(fnv1a(fnv1a(fnv1a(FNV_OFFSET, a), b), c), d) \in Uint32
  BY <1>2, <1>5
<1>7. QED
  BY <1>3, <1>4, <1>5, <1>6 DEF SeededBy, KissState

Merges == [op : 0 .. 3, rot : 1 .. 31]

\* A merge rotates by 1 to 31.
LEMMA MergeType ==
  ASSUME NEW r \in Uint32
  PROVE  Merge(r) \in Merges
<1> DEFINE op == r[2] % 4
           rot == ModW(ShrW(r, 16), 31)
<1>1. op \in 0 .. 3
  <2>1. r[2] \in Int
    BY Halves
  <2>2. QED
    BY <2>1
<1>2. rot \in 0 .. 30
  <2> DEFINE v == ShrW(r, 16)
  <2>1. v \in Uint32 /\ 31 \in Nat \ {0}
    BY WordShifts
  <2> HIDE DEF v
  <2>2. ModW(v, 31) \in 0 .. 31 - 1
    BY <2>1, WordRemainder
  <2>3. QED
    BY <2>2 DEF v
<1>3. Merge(r) = [op |-> op, rot |-> rot + 1]
  BY DEF Merge
<1> HIDE DEF op, rot
<1>4. QED
  BY <1>1, <1>2, <1>3 DEF Merges

\* A math instruction has two sources.
LEMMA SourcesDiffer ==
  ASSUME NEW r \in Uint32
  PROVE  /\ Sources(r) \in Seq(Nat)
         /\ Sources(r)[1] # Sources(r)[2]
<1> DEFINE R == PROGPOW_REGS
           n == ModW(r, (R - 1) * R)
           src1 == n % R
           src2 == n \div R
<1>1. R \in Nat \ {0, 1} /\ (R - 1) * R \in Nat \ {0}
  <2>1. PROGPOW_REGS \in Nat \ {0, 1}
    BY ProgPowAssumption
  <2>2. \A a, b \in Nat \ {0} : a * b \in Nat \ {0}
    OBVIOUS
  <2>3. QED
    BY <2>1, <2>2
<1>2. n \in Nat
  BY <1>1, WordRemainder
<1>3. Sources(r) = <<src1, IF src2 >= src1 THEN src2 + 1 ELSE src2>>
  BY DEF Sources
<1> HIDE DEF R, n
<1>4. src1 \in Nat /\ src2 \in Nat
  <2>1. src1 \in 0 .. R - 1 /\ src2 \in Int /\ n = R * src2 + src1
    BY <1>1, <1>2, Remainder
  <2> HIDE DEF src1, src2
  <2>2. ASSUME src2 < 0 PROVE FALSE
    <3>1. R * (-src2 - 1) >= 0 /\ R * src2 = -(R * (-src2 - 1)) - R /\ R * (-src2 - 1) \in Int
      BY <1>1, <2>1, <2>2
    <3>2. QED
      BY <1>1, <1>2, <2>1, <3>1
  <2>3. QED
    BY <1>1, <2>1, <2>2
<1> HIDE DEF src1, src2
<1>5. QED
  BY <1>3, <1>4

-----------------------------------------------------------------------------
(* What the statements emitted so far are.                                 *)

Statements == [kind : {"cache", "math", "load"}, src : Seq(Nat), dst : Regs, math : 0 .. 10,
               merge : Merges]

Onto(f) == \A r \in Regs : \E s \in Regs : f[s] = r
OneToOne(f) == \A r, s \in Regs : f[r] = f[s] => r = s

\* k: cnt destinations taken from fd, sources of the first c cache loads from fc, and
\* l words loaded from the DAG.
Emitted(k, cnt, c, l, fd, fc) ==
    /\ k \in Seq(Statements)
    /\ \A n \in 0 .. cnt - 1 : \E s \in 1 .. Len(k) : k[s].dst = fd[n % PROGPOW_REGS]
    /\ \A s \in 1 .. Len(k) : k[s].kind = "cache" => \E n \in 0 .. c - 1 : k[s].src = <<fc[n]>>
    /\ \A s, t \in 1 .. Len(k) :
          k[s].kind = "cache" /\ k[t].kind = "cache" /\ s # t => k[s].src # k[t].src
    /\ \A s \in 1 .. Len(k) : k[s].kind = "math" => k[s].src[1] # k[s].src[2]
    /\ l = 0 => \A s \in 1 .. Len(k) : k[s].kind # "load"
    /\ l > 0 => \E s \in 1 .. Len(k) :
                   /\ k[s].kind = "load" /\ k[s].dst = 0
                   /\ \A t \in 1 .. Len(k) : k[t].kind = "load" => s <= t

LEMMA NothingEmitted ==
  ASSUME NEW fd, NEW fc PROVE Emitted(<<>>, 0, 0, 0, fd, fc)
  BY DEF Emitted

\* One more statement at the end.
LEMMA AppendedStatement ==
  ASSUME NEW k \in Seq(Statements), NEW x \in Statements
  PROVE  /\ Append(k, x) \in Seq(Statements) /\ Len(k) \in Nat
         /\ Len(Append(k, x)) = Len(k) + 1 /\ Append(k, x)[Len(k) + 1] = x
         /\ \A s \in 1 .. Len(k) : s \in 1 .. Len(k) + 1 /\ Append(k, x)[s] = k[s]
         /\ \A s \in 1 .. Len(k) + 1 : s \in 1 .. Len(k) \/ s = Len(k) + 1
         /\ Len(k) + 1 \in 1 .. Len(k) + 1
  OBVIOUS

LEMMA EmitCacheLoad ==
  ASSUME NEW k, NEW cnt \in Nat, NEW c \in Regs, NEW fd, NEW fc,
         Emitted(k, cnt, c, 0, fd, fc), OneToOne(fc),
         NEW x \in Statements, x.kind = "cache", x.src = <<fc[c]>>,
         x.dst = fd[cnt % PROGPOW_REGS]
  PROVE  Emitted(Append(k, x), cnt + 1, c + 1, 0, fd, fc)
<1> DEFINE e == Append(k, x)
           m == Len(k)
           d == c + 1
<1>1. /\ e \in Seq(Statements) /\ m \in Nat /\ Len(e) = m + 1 /\ e[m + 1] = x
      /\ \A s \in 1 .. m : s \in 1 .. m + 1 /\ e[s] = k[s]
      /\ \A s \in 1 .. m + 1 : s \in 1 .. m \/ s = m + 1
      /\ m + 1 \in 1 .. m + 1
  BY AppendedStatement DEF Emitted
<1> HIDE DEF e
<1>2. \A n \in 0 .. cnt + 1 - 1 : \E s \in 1 .. m + 1 : e[s].dst = fd[n % PROGPOW_REGS]
  <2> SUFFICES ASSUME NEW n \in 0 .. cnt + 1 - 1
               PROVE  \E s \in 1 .. m + 1 : e[s].dst = fd[n % PROGPOW_REGS]
    OBVIOUS
  <2>1. CASE n = cnt
    BY <1>1, <2>1
  <2>2. CASE n \in 0 .. cnt - 1
    BY <1>1, <2>2 DEF Emitted
  <2>3. QED
    BY <2>1, <2>2
<1>3. \A s \in 1 .. m + 1 : e[s].kind = "cache" => \E n \in 0 .. d - 1 : e[s].src = <<fc[n]>>
  <2> SUFFICES ASSUME NEW s \in 1 .. m + 1, e[s].kind = "cache"
               PROVE  \E n \in 0 .. d - 1 : e[s].src = <<fc[n]>>
    OBVIOUS
  <2>1. c \in Nat /\ c \in 0 .. d - 1
    BY ProgPowAssumption DEF Regs
  <2>2. CASE s = m + 1
    BY <1>1, <2>1, <2>2
  <2>3. CASE s \in 1 .. m
    <3>1. PICK n \in 0 .. c - 1 : k[s].src = <<fc[n]>>
      BY <1>1, <2>3 DEF Emitted
    <3>2. n \in 0 .. d - 1 /\ e[s].src = <<fc[n]>>
      BY <1>1, <2>1, <2>3, <3>1
    <3>3. QED
      BY <3>2
  <2>4. QED
    BY <1>1, <2>2, <2>3
<1>4. \A s \in 1 .. m : k[s].kind = "cache" => k[s].src # x.src
  <2> SUFFICES ASSUME NEW s \in 1 .. m, k[s].kind = "cache" PROVE k[s].src # x.src
    OBVIOUS
  <2>1. PICK n \in 0 .. c - 1 : k[s].src = <<fc[n]>>
    BY DEF Emitted
  <2>2. n \in Regs /\ n # c
    BY ProgPowAssumption DEF Regs
  <2>3. fc[n] # fc[c]
    BY <2>2 DEF OneToOne
  <2>4. QED
    BY <2>1, <2>3
<1>5. \A s, t \in 1 .. m + 1 :
          e[s].kind = "cache" /\ e[t].kind = "cache" /\ s # t => e[s].src # e[t].src
  BY <1>1, <1>4 DEF Emitted
<1>6. \A s \in 1 .. m + 1 : e[s].kind = "math" => e[s].src[1] # e[s].src[2]
  BY <1>1 DEF Emitted
<1>7. \A s \in 1 .. m + 1 : e[s].kind # "load"
  BY <1>1 DEF Emitted
<1> HIDE DEF d
<1>8. Emitted(e, cnt + 1, d, 0, fd, fc)
  BY <1>1, <1>2, <1>3, <1>5, <1>6, <1>7 DEF Emitted
<1>9. QED
  BY <1>8 DEF e, d

LEMMA EmitMath ==
  ASSUME NEW k, NEW cnt \in Nat, NEW c \in Nat, NEW fd, NEW fc, Emitted(k, cnt, c, 0, fd, fc),
         NEW x \in Statements, x.kind = "math", x.src[1] # x.src[2],
         x.dst = fd[cnt % PROGPOW_REGS]
  PROVE  Emitted(Append(k, x), cnt + 1, c, 0, fd, fc)
<1> DEFINE e == Append(k, x)
           m == Len(k)
<1>1. /\ e \in Seq(Statements) /\ m \in Nat /\ Len(e) = m + 1 /\ e[m + 1] = x
      /\ \A s \in 1 .. m : s \in 1 .. m + 1 /\ e[s] = k[s]
      /\ \A s \in 1 .. m + 1 : s \in 1 .. m \/ s = m + 1
      /\ m + 1 \in 1 .. m + 1
  BY AppendedStatement DEF Emitted
<1> HIDE DEF e
<1>2. \A n \in 0 .. cnt + 1 - 1 : \E s \in 1 .. m + 1 : e[s].dst = fd[n % PROGPOW_REGS]
  <2> SUFFICES ASSUME NEW n \in 0 .. cnt + 1 - 1
               PROVE  \E s \in 1 .. m + 1 : e[s].dst = fd[n % PROGPOW_REGS]
    OBVIOUS
  <2>1. CASE n = cnt
    BY <1>1, <2>1
  <2>2. CASE n \in 0 .. cnt - 1
    BY <1>1, <2>2 DEF Emitted
  <2>3. QED
    BY <2>1, <2>2
<1>3. \A s \in 1 .. m + 1 : e[s].kind = "cache" => \E n \in 0 .. c - 1 : e[s].src = <<fc[n]>>
  <2>1. \A s \in 1 .. m + 1 : e[s].kind = "cache" => s \in 1 .. m /\ e[s] = k[s]
    BY <1>1
  <2>2. \A s \in 1 .. m : k[s].kind = "cache" => \E n \in 0 .. c - 1 : k[s].src = <<fc[n]>>
    BY DEF Emitted
  <2> SUFFICES ASSUME NEW s \in 1 .. m + 1, e[s].kind = "cache"
               PROVE  \E n \in 0 .. c - 1 : e[s].src = <<fc[n]>>
    OBVIOUS
  <2>3. s \in 1 .. m /\ e[s] = k[s] /\ k[s].kind = "cache"
    BY <2>1
  <2>4. QED
    BY <2>2, <2>3
<1>4. \A s, t \in 1 .. m + 1 :
          e[s].kind = "cache" /\ e[t].kind = "cache" /\ s # t => e[s].src # e[t].src
  BY <1>1 DEF Emitted
<1>5. \A s \in 1 .. m + 1 : e[s].kind = "math" => e[s].src[1] # e[s].src[2]
  BY <1>1 DEF Emitted
<1>6. \A s \in 1 .. m + 1 : e[s].kind # "load"
  BY <1>1 DEF Emitted
<1>7. Emitted(e, cnt + 1, c, 0, fd, fc)
  BY <1>1, <1>2, <1>3, <1>4, <1>5, <1>6 DEF Emitted
<1>8. QED
  BY <1>7 DEF e

LEMMA EmitLoad ==
  ASSUME NEW k, NEW cnt \in Nat, NEW c \in Nat, NEW l \in Nat, NEW fd, NEW fc,
         Emitted(k, cnt, c, l, fd, fc), NEW x \in Statements, x.kind = "load",
         x.dst = IF l = 0 THEN 0 ELSE fd[cnt % PROGPOW_REGS]
  PROVE  Emitted(Append(k, x), IF l = 0 THEN cnt ELSE cnt + 1, c, l + 1, fd, fc)
<1> DEFINE e == Append(k, x)
           m == Len(k)
           d == IF l = 0 THEN cnt ELSE cnt + 1
<1>1. /\ e \in Seq(Statements) /\ m \in Nat /\ Len(e) = m + 1 /\ e[m + 1] = x
      /\ \A s \in 1 .. m : s \in 1 .. m + 1 /\ e[s] = k[s]
      /\ \A s \in 1 .. m + 1 : s \in 1 .. m \/ s = m + 1
      /\ m + 1 \in 1 .. m + 1
  BY AppendedStatement DEF Emitted
<1> HIDE DEF e
<1>2. \A n \in 0 .. d - 1 : \E s \in 1 .. m + 1 : e[s].dst = fd[n % PROGPOW_REGS]
  <2> SUFFICES ASSUME NEW n \in 0 .. d - 1
               PROVE  \E s \in 1 .. m + 1 : e[s].dst = fd[n % PROGPOW_REGS]
    OBVIOUS
  <2>1. CASE n = cnt
    <3>1. l # 0
      BY <2>1
    <3>2. QED
      BY <1>1, <2>1, <3>1
  <2>2. CASE n \in 0 .. cnt - 1
    BY <1>1, <2>2 DEF Emitted
  <2>3. QED
    BY <2>1, <2>2
<1>3. \A s \in 1 .. m + 1 : e[s].kind = "cache" => \E n \in 0 .. c - 1 : e[s].src = <<fc[n]>>
  <2>1. \A s \in 1 .. m + 1 : e[s].kind = "cache" => s \in 1 .. m /\ e[s] = k[s]
    BY <1>1
  <2>2. QED
    BY <2>1 DEF Emitted
<1>4. \A s, t \in 1 .. m + 1 :
          e[s].kind = "cache" /\ e[t].kind = "cache" /\ s # t => e[s].src # e[t].src
  BY <1>1 DEF Emitted
<1>5. \A s \in 1 .. m + 1 : e[s].kind = "math" => e[s].src[1] # e[s].src[2]
  BY <1>1 DEF Emitted
<1>6. \E s \in 1 .. m + 1 : /\ e[s].kind = "load" /\ e[s].dst = 0
                            /\ \A t \in 1 .. m + 1 : e[t].kind = "load" => s <= t
  <2>1. CASE l = 0
    <3>1. \A t \in 1 .. m + 1 : e[t].kind = "load" => m + 1 <= t
      BY <1>1, <2>1 DEF Emitted
    <3>2. QED
      BY <1>1, <2>1, <3>1
  <2>2. CASE l > 0
    <3>1. PICK s \in 1 .. m : /\ k[s].kind = "load" /\ k[s].dst = 0
                              /\ \A t \in 1 .. m : k[t].kind = "load" => s <= t
      BY <2>2 DEF Emitted
    <3>2. \A t \in 1 .. m + 1 : e[t].kind = "load" => s <= t
      BY <1>1, <3>1
    <3>3. QED
      BY <1>1, <3>1, <3>2
  <2>3. QED
    BY <2>1, <2>2
<1> HIDE DEF d
<1>7. l + 1 > 0 /\ l + 1 # 0
  OBVIOUS
<1>8. Emitted(e, d, c, l + 1, fd, fc)
  BY <1>1, <1>2, <1>3, <1>4, <1>5, <1>6, <1>7 DEF Emitted
<1>9. QED
  BY <1>8 DEF e, d

-----------------------------------------------------------------------------
(* The inductive invariant of the generator.                               *)

Lesser(a, b) == IF a < b THEN a ELSE b

\* After it iterations: cache loads emitted, words of the DAG consumed, destinations taken.
CacheLoads(it) == Lesser(it, PROGPOW_CNT_CACHE)
DagLoads(it) == IF it > Iterations THEN it - Iterations ELSE 0
Taken(it) == CacheLoads(it) + Lesser(it, PROGPOW_CNT_MATH)
             + (IF it > Iterations + 1 THEN it - Iterations - 1 ELSE 0)

\* The sequences are permutations, shuffled or not.
ShuffleInv ==
    /\ mix_seq_dst \in [Regs -> Regs] /\ Onto(mix_seq_dst)
    /\ mix_seq_cache \in [Regs -> Regs] /\ OneToOne(mix_seq_cache)
    /\ stage = "shuffle" => iter \in Regs /\ kern = <<>> /\ dst_cnt = 0

EmitInv ==
    stage # "shuffle" /\ Len(input) = 1 =>
        /\ stage = "emit" => iter < Iterations + PROGPOW_DAG_LOADS
        /\ stage = "done" => iter = Iterations + PROGPOW_DAG_LOADS
        /\ dst_cnt = Taken(iter)
        /\ Emitted(kern, dst_cnt, CacheLoads(iter), DagLoads(iter), mix_seq_dst, mix_seq_cache)

GeneratorInv ==
    /\ stage \in {"shuffle", "emit", "fill", "done"}
    /\ stage \in {"shuffle", "emit"} => Len(input) = 1
    /\ stage = "fill" => Len(input) # 1
    /\ rnd_state \in KissState /\ iter \in Nat /\ dst_cnt \in Nat
    /\ ShuffleInv /\ EmitInv

LEMMA Counts ==
  /\ PROGPOW_REGS \in Nat \ {0, 1} /\ PROGPOW_DAG_LOADS \in Nat \ {0} /\ Iterations \in Nat
  /\ PROGPOW_CNT_CACHE \in Nat /\ PROGPOW_CNT_MATH \in Nat /\ 0 \in Regs
  /\ PROGPOW_CNT_CACHE <= Iterations /\ PROGPOW_CNT_MATH <= Iterations
  /\ \A r \in Regs : r \in Nat /\ r < PROGPOW_REGS
  BY ProgPowAssumption DEF Iterations, Regs

\* A counter picks a register.
LEMMA RegisterIndex ==
  ASSUME NEW n \in Nat
  PROVE  /\ n % PROGPOW_REGS \in Regs
         /\ n < PROGPOW_REGS => n \in Regs /\ n % PROGPOW_REGS = n
<1> DEFINE d == PROGPOW_REGS
           q == n \div d
           r == n % d
<1>1. d \in Nat \ {0}
  BY Counts
<1> HIDE DEF d
<1>2. r \in 0 .. d - 1 /\ q \in Int /\ n = d * q + r
  BY <1>1, Remainder
<1>3. n % PROGPOW_REGS \in Regs
  BY <1>2 DEF Regs, d
<1> HIDE DEF q, r
<1>4. ASSUME n < d PROVE n = r
  <2>1. ASSUME q > 0 PROVE FALSE
    <3>1. d * q = d + d * (q - 1) /\ d * (q - 1) \in Nat
      BY <1>1, <1>2, <2>1
    <3>2. QED
      BY <1>1, <1>2, <1>4, <3>1
  <2>2. ASSUME q < 0 PROVE FALSE
    <3>1. d * q = -d - d * (-q - 1) /\ d * (-q - 1) \in Nat
      BY <1>1, <1>2, <2>2
    <3>2. QED
      BY <1>1, <1>2, <3>1
  <2>3. q = 0 /\ d * q = 0
    BY <1>1, <1>2, <2>1, <2>2
  <2>4. QED
    BY <1>2, <2>3
<1>5. QED
  BY <1>3, <1>4 DEF d, r

LEMMA InitGenerator == ProgPowInit => GeneratorInv
<1>1. ASSUME Unshuffled, stage = "shuffle" => iter \in Regs PROVE ShuffleInv
  BY <1>1 DEF Unshuffled, ShuffleInv, Onto, OneToOne
<1>2. ASSUME InitKern PROVE GeneratorInv
  <2>1. PICK b \in BlockNumbers : input = <<b>>
    BY <1>2 DEF InitKern
  <2>2. b \in Nat /\ PROGPOW_PERIOD \in Nat \ {0} /\ Len(input) = 1
    BY <2>1, ProgPowAssumption
  <2>3. b \div PROGPOW_PERIOD \in Int
    BY <2>2, Remainder
  <2>4. rnd_state \in KissState
    <3>1. W(b \div PROGPOW_PERIOD) \in Uint32 /\ W(0) \in Uint32
      BY <2>3, WordOps
    <3>2. rnd_state = SeededBy(W(b \div PROGPOW_PERIOD), W(0), W(b \div PROGPOW_PERIOD), W(0))
      BY <1>2, <2>1 DEF InitKern
    <3>3. QED
      BY <3>1, <3>2, Seeded
  <2>5. stage = "shuffle" /\ iter \in Regs /\ iter \in Nat /\ dst_cnt = 0 /\ Unshuffled
    BY <1>2, Counts DEF InitKern, Unshuffled, Regs
  <2>6. QED
    BY <1>1, <2>2, <2>4, <2>5 DEF GeneratorInv, EmitInv
<1>3. ASSUME InitFill PROVE GeneratorInv
  <2>1. input \in Uint32 \X Uint32 \X Nat
    BY <1>3, ProgPowAssumption DEF InitFill
  <2>2. input[1] \in Uint32 /\ input[2] \in Uint32 /\ input[3] \in Int /\ Len(input) = 3
    BY <2>1
  <2>3. rnd_state \in KissState
    <3>1. W(input[3]) \in Uint32
      BY <2>2, WordOps
    <3>2. QED
      BY <1>3, <2>2, <3>1, Seeded DEF InitFill
  <2>4. stage = "fill" /\ iter = 0 /\ dst_cnt = 0 /\ Unshuffled
    BY <1>3 DEF InitFill, Unshuffled
  <2>5. QED
    BY <1>1, <2>2, <2>3, <2>4 DEF GeneratorInv, EmitInv
<1>4. QED
  BY <1>2, <1>3 DEF ProgPowInit

\* A swap keeps a permutation one.
LEMMA SwapKeeps ==
  ASSUME NEW f \in [Regs -> Regs], NEW a \in Regs, NEW b \in Regs
  PROVE  /\ Swap(f, a, b) \in [Regs -> Regs]
         /\ Onto(f) => Onto(Swap(f, a, b))
         /\ OneToOne(f) => OneToOne(Swap(f, a, b))
<1> DEFINE g == Swap(f, a, b)
<1>1. g \in [Regs -> Regs] /\ g[b] = f[a] /\ g[a] = f[b]
      /\ \A r \in Regs \ {a, b} : g[r] = f[r]
  BY DEF Swap
<1> HIDE DEF g
<1>2. ASSUME Onto(f) PROVE Onto(g)
  <2> SUFFICES ASSUME NEW r \in Regs PROVE \E s \in Regs : g[s] = r
    BY DEF Onto
  <2>1. PICK s \in Regs : f[s] = r
    BY <1>2 DEF Onto
  <2>2. CASE s = a
    BY <1>1, <2>1, <2>2
  <2>3. CASE s = b
    BY <1>1, <2>1, <2>3
  <2>4. CASE s \notin {a, b}
    BY <1>1, <2>1, <2>4
  <2>5. QED
    BY <2>2, <2>3, <2>4
<1>3. ASSUME OneToOne(f) PROVE OneToOne(g)
  BY <1>1, <1>3 DEF OneToOne
<1>4. QED
  BY <1>1, <1>2, <1>3 DEF g

\* A draw from the registers up to one of them is a register.
LEMMA ShuffleKeeps ==
  ASSUME GeneratorInv, Shuffle PROVE GeneratorInv'
<1> DEFINE st1 == kiss99(rnd_state)
           st2 == kiss99(st1)
           d == ModW(Out(st1), iter + 1)
           c == ModW(Out(st2), iter + 1)
<1>1. /\ stage = "shuffle" /\ iter > 0 /\ rnd_state' = st2 /\ iter' = iter - 1
      /\ mix_seq_dst' = Swap(mix_seq_dst, iter, d)
      /\ mix_seq_cache' = Swap(mix_seq_cache, iter, c)
      /\ stage' = stage /\ input' = input /\ dst_cnt' = dst_cnt /\ kern' = kern
  BY DEF Shuffle
<1>2. /\ iter \in Regs /\ iter \in Nat /\ kern = <<>> /\ dst_cnt = 0 /\ rnd_state \in KissState
      /\ mix_seq_dst \in [Regs -> Regs] /\ Onto(mix_seq_dst)
      /\ mix_seq_cache \in [Regs -> Regs] /\ OneToOne(mix_seq_cache) /\ Len(input) = 1
  BY <1>1 DEF GeneratorInv, ShuffleInv
<1>3. st1 \in KissState
  BY <1>2, KissStep
<1>4. st2 \in KissState /\ Out(st1) \in Uint32
  <2> HIDE DEF st1
  <2>1. QED
    BY <1>3, KissStep
<1>5. Out(st2) \in Uint32
  <2> HIDE DEF st2
  <2>1. QED
    BY <1>4, KissStep
<1> HIDE DEF st1, st2
<1>6. d \in 0 .. (iter + 1) - 1 /\ c \in 0 .. (iter + 1) - 1
  <2>1. iter + 1 \in Nat \ {0}
    BY <1>2
  <2>2. QED
    BY <1>4, <1>5, <2>1, WordRemainder
<1> HIDE DEF d, c
<1>7. d \in Regs /\ c \in Regs /\ iter' \in Regs /\ iter' \in Nat
  <2>1. iter \in Nat /\ iter < PROGPOW_REGS /\ PROGPOW_REGS \in Nat
    BY <1>2, Counts
  <2>2. \A n \in Nat : n <= iter => n \in Regs
    BY <2>1 DEF Regs
  <2>3. d \in Nat /\ d <= iter /\ c \in Nat /\ c <= iter
    BY <1>6, <2>1
  <2>4. iter - 1 \in Nat /\ iter - 1 <= iter
    BY <1>1, <2>1
  <2>5. QED
    BY <1>1, <2>2, <2>3, <2>4
<1>8. /\ mix_seq_dst' \in [Regs -> Regs] /\ Onto(mix_seq_dst')
      /\ mix_seq_cache' \in [Regs -> Regs] /\ OneToOne(mix_seq_cache')
  BY <1>1, <1>2, <1>7, SwapKeeps
<1>9. ShuffleInv' /\ EmitInv'
  BY <1>1, <1>2, <1>7, <1>8 DEF ShuffleInv, EmitInv, Onto, OneToOne
<1>10. QED
  BY <1>1, <1>2, <1>4, <1>7, <1>9 DEF GeneratorInv

LEMMA ShuffleEndKeeps ==
  ASSUME GeneratorInv, ShuffleEnd PROVE GeneratorInv'
<1>1. /\ stage = "shuffle" /\ iter = 0 /\ stage' = "emit" /\ input' = input
      /\ rnd_state' = rnd_state /\ iter' = iter /\ dst_cnt' = dst_cnt /\ kern' = kern
      /\ mix_seq_dst' = mix_seq_dst /\ mix_seq_cache' = mix_seq_cache
  BY DEF ShuffleEnd
<1>2. kern = <<>> /\ dst_cnt = 0 /\ Len(input) = 1
  BY <1>1 DEF GeneratorInv, ShuffleInv
<1>3. Taken(0) = 0 /\ CacheLoads(0) = 0 /\ DagLoads(0) = 0
  BY Counts DEF Taken, CacheLoads, DagLoads, Lesser
<1>4. Emitted(<<>>, 0, 0, 0, mix_seq_dst, mix_seq_cache)
  BY NothingEmitted
<1>5. EmitInv'
  <2>1. 0 < Iterations + PROGPOW_DAG_LOADS
    BY Counts
  <2>2. /\ stage' = "emit" /\ iter' = 0 /\ dst_cnt' = 0 /\ kern' = <<>>
        /\ mix_seq_dst' = mix_seq_dst /\ mix_seq_cache' = mix_seq_cache
    BY <1>1, <1>2
  <2>3. QED
    BY <1>3, <1>4, <2>1, <2>2 DEF EmitInv
<1>6. ShuffleInv'
  BY <1>1 DEF GeneratorInv, ShuffleInv, Onto, OneToOne
<1>7. QED
  BY <1>1, <1>2, <1>5, <1>6 DEF GeneratorInv

\* A cache load of an iteration, if there is one.
LEMMA CacheLoadEmits ==
  ASSUME GeneratorInv, stage = "emit", iter < Iterations
  PROVE  LET c == CacheLoad(rnd_state)
         IN  /\ c.st \in KissState /\ c.dsts \in Nat
             /\ c.dsts = CacheLoads(iter + 1) - CacheLoads(iter)
             /\ Emitted(kern \o c.stmts, dst_cnt + c.dsts, CacheLoads(iter + 1), 0,
                        mix_seq_dst, mix_seq_cache)
<1> DEFINE c == CacheLoad(rnd_state)
           st1 == kiss99(rnd_state)
<1>1. /\ rnd_state \in KissState /\ iter \in Nat /\ dst_cnt \in Nat /\ Len(input) = 1
      /\ mix_seq_dst \in [Regs -> Regs] /\ mix_seq_cache \in [Regs -> Regs]
      /\ OneToOne(mix_seq_cache)
      /\ Emitted(kern, dst_cnt, CacheLoads(iter), DagLoads(iter), mix_seq_dst, mix_seq_cache)
  BY DEF GeneratorInv, ShuffleInv, EmitInv
<1>2. DagLoads(iter) = 0
  BY <1>1, Counts DEF DagLoads
<1>3. CASE iter >= PROGPOW_CNT_CACHE
  <2>1. c = [stmts |-> <<>>, st |-> rnd_state, dsts |-> 0]
    BY <1>3 DEF CacheLoad
  <2>2. CacheLoads(iter + 1) = CacheLoads(iter) /\ CacheLoads(iter) \in Nat
    BY <1>1, <1>3, Counts DEF CacheLoads, Lesser
  <2>3. kern \o <<>> = kern
    BY <1>1 DEF Emitted
  <2>4. QED
    BY <1>1, <1>2, <2>1, <2>2, <2>3
<1>4. CASE iter < PROGPOW_CNT_CACHE
  <2> DEFINE x == [kind |-> "cache", src |-> <<mix_seq_cache[iter % PROGPOW_REGS]>>,
                   dst |-> mix_dst(dst_cnt), math |-> 0, merge |-> Merge(Out(st1))]
  <2>1. c = [stmts |-> <<x>>, st |-> st1, dsts |-> 1]
    BY <1>1, <1>4, Counts DEF CacheLoad
  <2>2. st1 \in KissState
    BY <1>1, KissStep
  <2>3. Merge(Out(st1)) \in Merges
    <3> HIDE DEF st1
    <3>1. QED
      BY <2>2, KissStep, MergeType
  <2>4. iter \in Regs /\ iter % PROGPOW_REGS = iter
    <3>1. iter < PROGPOW_REGS /\ PROGPOW_REGS \in Nat \ {0}
      BY <1>1, <1>4, Counts, CountAssumption
    <3>2. QED
      BY <1>1, <3>1, RegisterIndex
  <2>5. dst_cnt % PROGPOW_REGS \in Regs
    BY <1>1, RegisterIndex
  <2>6. /\ x.kind = "cache" /\ x.src = <<mix_seq_cache[iter]>>
        /\ x.dst = mix_seq_dst[dst_cnt % PROGPOW_REGS]
    BY <2>4 DEF mix_dst
  <2>7. x \in Statements
    <3>1. mix_seq_cache[iter] \in Nat /\ mix_seq_dst[dst_cnt % PROGPOW_REGS] \in Regs
      BY <1>1, <2>4, <2>5, Counts
    <3>2. <<mix_seq_cache[iter]>> \in Seq(Nat)
      BY <3>1
    <3> HIDE DEF st1
    <3>3. QED
      BY <2>3, <2>4, <3>1, <3>2 DEF Statements, mix_dst
  <2>8. CacheLoads(iter) = iter /\ CacheLoads(iter + 1) = iter + 1
    BY <1>1, <1>4, Counts DEF CacheLoads, Lesser
  <2>9. kern \o <<x>> = Append(kern, x)
    <3> HIDE DEF x
    <3>1. QED
      BY <1>1 DEF Emitted
  <2> HIDE DEF x, st1
  <2>10. Emitted(Append(kern, x), dst_cnt + 1, iter + 1, 0, mix_seq_dst, mix_seq_cache)
    BY <1>1, <1>2, <2>4, <2>6, <2>7, <2>8, EmitCacheLoad
  <2>11. c.stmts = <<x>> /\ c.st = st1 /\ c.dsts = 1
    BY <2>1
  <2> HIDE DEF c
  <2>12. c.dsts \in Nat /\ c.dsts = CacheLoads(iter + 1) - CacheLoads(iter)
    BY <1>1, <2>8, <2>11
  <2>13. QED
    BY <2>2, <2>8, <2>9, <2>10, <2>11, <2>12 DEF c
<1>5. QED
  BY <1>1, <1>3, <1>4, Counts

\* The random math of an iteration, if there is one.
LEMMA RandomMathEmits ==
  ASSUME GeneratorInv, NEW k, NEW taken \in Nat, NEW n \in Nat, NEW st \in KissState,
         Emitted(k, dst_cnt + taken, n, 0, mix_seq_dst, mix_seq_cache)
  PROVE  LET m == RandomMath(st, taken)
         IN  /\ m.st \in KissState /\ m.dsts \in Nat
             /\ m.dsts = Lesser(iter + 1, PROGPOW_CNT_MATH) - Lesser(iter, PROGPOW_CNT_MATH)
             /\ Emitted(k \o m.stmts, dst_cnt + taken + m.dsts, n, 0, mix_seq_dst, mix_seq_cache)
<1> DEFINE m == RandomMath(st, taken)
           st1 == kiss99(st)
           st2 == kiss99(st1)
           st3 == kiss99(st2)
<1>1. iter \in Nat /\ dst_cnt \in Nat /\ mix_seq_dst \in [Regs -> Regs]
  BY DEF GeneratorInv, ShuffleInv
<1>2. CASE iter >= PROGPOW_CNT_MATH
  <2>1. m = [stmts |-> <<>>, st |-> st, dsts |-> 0]
    BY <1>2 DEF RandomMath
  <2>2. Lesser(iter + 1, PROGPOW_CNT_MATH) - Lesser(iter, PROGPOW_CNT_MATH) = 0
    BY <1>1, <1>2, Counts DEF Lesser
  <2>3. k \o <<>> = k
    BY DEF Emitted
  <2>4. dst_cnt + taken + 0 = dst_cnt + taken
    BY <1>1
  <2>5. QED
    BY <2>1, <2>2, <2>3, <2>4
<1>3. CASE iter < PROGPOW_CNT_MATH
  <2> DEFINE cnt == dst_cnt + taken
             x == [kind |-> "math", src |-> Sources(Out(st1)), dst |-> mix_dst(cnt),
                   math |-> ModW(Out(st2), 11), merge |-> Merge(Out(st3))]
  <2>1. m = [stmts |-> <<x>>, st |-> st3, dsts |-> 1]
    BY <1>1, <1>3, Counts DEF RandomMath
  <2>2. st1 \in KissState
    BY KissStep
  <2>3. st2 \in KissState /\ Out(st1) \in Uint32
    <3> HIDE DEF st1
    <3>1. QED
      BY <2>2, KissStep
  <2>4. st3 \in KissState /\ Out(st2) \in Uint32
    <3> HIDE DEF st2
    <3>1. QED
      BY <2>3, KissStep
  <2>5. Out(st3) \in Uint32
    <3> HIDE DEF st3
    <3>1. QED
      BY <2>4, KissStep
  <2> HIDE DEF st1, st2, st3
  <2>6. /\ Sources(Out(st1)) \in Seq(Nat) /\ Sources(Out(st1))[1] # Sources(Out(st1))[2]
        /\ Merge(Out(st3)) \in Merges
    BY <2>3, <2>5, SourcesDiffer, MergeType
  <2>7. ModW(Out(st2), 11) \in 0 .. 10
    <3>1. ModW(Out(st2), 11) \in 0 .. 11 - 1
      <4>1. 11 \in Nat \ {0}
        OBVIOUS
      <4>2. QED
        BY <2>4, <4>1, WordRemainder
    <3>2. QED
      BY <3>1
  <2>8. cnt \in Nat /\ cnt % PROGPOW_REGS \in Regs
    BY <1>1, RegisterIndex
  <2> HIDE DEF cnt
  <2>9. x.kind = "math" /\ x.src = Sources(Out(st1)) /\ x.dst = mix_seq_dst[cnt % PROGPOW_REGS]
    BY DEF mix_dst
  <2>10. x \in Statements
    <3>1. mix_dst(cnt) \in Regs
      BY <1>1, <2>8 DEF mix_dst
    <3>2. QED
      BY <2>6, <2>7, <3>1 DEF Statements
  <2>11. k \o <<x>> = Append(k, x)
    <3> HIDE DEF x
    <3>1. QED
      BY DEF Emitted
  <2> HIDE DEF x
  <2>12. Emitted(Append(k, x), cnt + 1, n, 0, mix_seq_dst, mix_seq_cache)
    <3>1. Emitted(k, cnt, n, 0, mix_seq_dst, mix_seq_cache) /\ x.src[1] # x.src[2]
      BY <2>6, <2>9 DEF cnt
    <3>2. QED
      BY <2>8, <2>9, <2>10, <3>1, EmitMath
  <2>13. Lesser(iter + 1, PROGPOW_CNT_MATH) - Lesser(iter, PROGPOW_CNT_MATH) = 1
    BY <1>1, <1>3, Counts DEF Lesser
  <2>14. m.stmts = <<x>> /\ m.st = st3 /\ m.dsts = 1
    BY <2>1
  <2> HIDE DEF m
  <2>15. Emitted(k \o m.stmts, dst_cnt + taken + m.dsts, n, 0, mix_seq_dst, mix_seq_cache)
    BY <2>11, <2>12, <2>14 DEF cnt
  <2>16. /\ m.st \in KissState /\ m.dsts \in Nat
         /\ m.dsts = Lesser(iter + 1, PROGPOW_CNT_MATH) - Lesser(iter, PROGPOW_CNT_MATH)
    BY <2>4, <2>13, <2>14
  <2>17. QED
    BY <2>15, <2>16 DEF m
<1>4. QED
  BY <1>1, <1>2, <1>3, Counts

LEMMA InstructionKeeps ==
  ASSUME GeneratorInv, Instruction PROVE GeneratorInv'
<1> DEFINE c == CacheLoad(rnd_state)
           m == RandomMath(c.st, c.dsts)
<1>1. /\ stage = "emit" /\ (iter < PROGPOW_CNT_CACHE \/ iter < PROGPOW_CNT_MATH)
      /\ kern' = kern \o c.stmts \o m.stmts /\ rnd_state' = m.st
      /\ dst_cnt' = dst_cnt + c.dsts + m.dsts /\ iter' = iter + 1
      /\ stage' = stage /\ input' = input
      /\ mix_seq_dst' = mix_seq_dst /\ mix_seq_cache' = mix_seq_cache
  BY DEF Instruction
<1>2. iter \in Nat /\ dst_cnt \in Nat /\ dst_cnt = Taken(iter) /\ Len(input) = 1
  BY <1>1 DEF GeneratorInv, EmitInv
<1>3. iter < Iterations
  BY <1>1, <1>2, Counts
<1>4. /\ c.st \in KissState /\ c.dsts \in Nat /\ c.dsts = CacheLoads(iter + 1) - CacheLoads(iter)
      /\ Emitted(kern \o c.stmts, dst_cnt + c.dsts, CacheLoads(iter + 1), 0,
                 mix_seq_dst, mix_seq_cache)
  BY <1>1, <1>3, CacheLoadEmits
<1>5. CacheLoads(iter + 1) \in Nat
  BY <1>2, Counts DEF CacheLoads, Lesser
<1> HIDE DEF c
<1>6. /\ m.st \in KissState /\ m.dsts \in Nat
      /\ m.dsts = Lesser(iter + 1, PROGPOW_CNT_MATH) - Lesser(iter, PROGPOW_CNT_MATH)
      /\ Emitted(kern \o c.stmts \o m.stmts, dst_cnt + c.dsts + m.dsts, CacheLoads(iter + 1), 0,
                 mix_seq_dst, mix_seq_cache)
  BY <1>4, <1>5, RandomMathEmits
<1> HIDE DEF m
<1>7. dst_cnt' = Taken(iter + 1) /\ dst_cnt' \in Nat
  <2> DEFINE M(it) == Lesser(it, PROGPOW_CNT_MATH)
  <2>1. Taken(iter) = CacheLoads(iter) + M(iter) /\ Taken(iter + 1) = CacheLoads(iter + 1) + M(iter + 1)
    BY <1>2, <1>3, Counts DEF Taken, CacheLoads, Lesser
  <2>2. CacheLoads(iter) \in Nat /\ M(iter) \in Nat /\ M(iter + 1) \in Nat
    BY <1>2, Counts DEF CacheLoads, Lesser
  <2>3. c.dsts = CacheLoads(iter + 1) - CacheLoads(iter) /\ m.dsts = M(iter + 1) - M(iter)
    BY <1>4, <1>6
  <2>4. \A a, b, e, f \in Nat : a + b + (e - a) + (f - b) = e + f
    OBVIOUS
  <2> DEFINE a == CacheLoads(iter)   b == M(iter)   e == CacheLoads(iter + 1)   f == M(iter + 1)
  <2>5. a \in Nat /\ b \in Nat /\ e \in Nat /\ f \in Nat
    BY <1>5, <2>2
  <2>6. dst_cnt' = a + b + (e - a) + (f - b) /\ Taken(iter + 1) = e + f
    BY <1>1, <1>2, <2>1, <2>3
  <2> HIDE DEF a, b, e, f
  <2>7. QED
    BY <2>4, <2>5, <2>6
<1>8. DagLoads(iter + 1) = 0 /\ iter + 1 < Iterations + PROGPOW_DAG_LOADS
  BY <1>2, <1>3, Counts DEF DagLoads
<1>9. EmitInv'
  <2>1. Emitted(kern', dst_cnt', CacheLoads(iter'), DagLoads(iter'), mix_seq_dst', mix_seq_cache')
    BY <1>1, <1>6, <1>8
  <2>2. stage' = "emit" /\ iter' < Iterations + PROGPOW_DAG_LOADS /\ dst_cnt' = Taken(iter')
    BY <1>1, <1>7, <1>8
  <2>3. QED
    BY <2>1, <2>2 DEF EmitInv
<1>10. ShuffleInv'
  BY <1>1 DEF GeneratorInv, ShuffleInv, Onto, OneToOne
<1>11. QED
  BY <1>1, <1>2, <1>6, <1>7, <1>9, <1>10 DEF GeneratorInv

LEMMA ConsumeKeeps ==
  ASSUME GeneratorInv, Consume PROVE GeneratorInv'
<1> DEFINE l == iter - Iterations
           st1 == kiss99(rnd_state)
           x == [kind |-> "load", src |-> <<l>>, dst |-> IF l = 0 THEN 0 ELSE mix_dst(dst_cnt),
                 math |-> 0, merge |-> Merge(Out(st1))]
<1>1. /\ stage = "emit" /\ l >= 0 /\ kern' = Append(kern, x) /\ rnd_state' = st1
      /\ dst_cnt' = dst_cnt + (IF l = 0 THEN 0 ELSE 1) /\ iter' = iter + 1
      /\ stage' = (IF l = PROGPOW_DAG_LOADS - 1 THEN "done" ELSE "emit")
      /\ input' = input /\ mix_seq_dst' = mix_seq_dst /\ mix_seq_cache' = mix_seq_cache
  BY DEF Consume
<1>2. /\ rnd_state \in KissState /\ iter \in Nat /\ dst_cnt \in Nat /\ Len(input) = 1
      /\ mix_seq_dst \in [Regs -> Regs] /\ iter < Iterations + PROGPOW_DAG_LOADS
      /\ dst_cnt = Taken(iter)
      /\ Emitted(kern, dst_cnt, CacheLoads(iter), DagLoads(iter), mix_seq_dst, mix_seq_cache)
  BY <1>1 DEF GeneratorInv, ShuffleInv, EmitInv
<1>3. l \in Nat /\ l = DagLoads(iter) /\ l + 1 = DagLoads(iter + 1)
      /\ CacheLoads(iter + 1) = CacheLoads(iter) /\ CacheLoads(iter) \in Nat
  BY <1>1, <1>2, Counts DEF DagLoads, CacheLoads, Lesser
<1>4. st1 \in KissState
  BY <1>2, KissStep
<1>5. Merge(Out(st1)) \in Merges
  <2> HIDE DEF st1
  <2>1. QED
    BY <1>4, KissStep, MergeType
<1> DEFINE d == IF l = 0 THEN 0 ELSE mix_dst(dst_cnt)
<1>6. d \in Regs /\ d = (IF l = 0 THEN 0 ELSE mix_seq_dst[dst_cnt % PROGPOW_REGS])
  <2>1. dst_cnt % PROGPOW_REGS \in Regs
    BY <1>2, RegisterIndex
  <2> HIDE DEF l
  <2>2. QED
    BY <1>2, <2>1, Counts DEF mix_dst
<1>7. x \in Statements /\ x.kind = "load" /\ x.dst = d
  <2>1. <<l>> \in Seq(Nat)
    BY <1>3
  <2> HIDE DEF st1, l
  <2>2. x = [kind |-> "load", src |-> <<l>>, dst |-> d, math |-> 0, merge |-> Merge(Out(st1))]
    OBVIOUS
  <2> HIDE DEF d, x
  <2>3. QED
    BY <1>5, <1>6, <2>1, <2>2 DEF Statements
<1>8. dst_cnt' = (IF l = 0 THEN dst_cnt ELSE dst_cnt + 1) /\ dst_cnt' \in Nat
  BY <1>1, <1>2
<1>9. dst_cnt' = Taken(iter + 1)
  BY <1>1, <1>2, <1>3, <1>8, Counts DEF Taken, CacheLoads, Lesser
<1>10. Emitted(kern', dst_cnt', CacheLoads(iter + 1), DagLoads(iter + 1),
               mix_seq_dst, mix_seq_cache)
  <2> HIDE DEF x, d, l
  <2>1. Emitted(Append(kern, x), IF l = 0 THEN dst_cnt ELSE dst_cnt + 1, CacheLoads(iter), l + 1,
                mix_seq_dst, mix_seq_cache)
    BY <1>2, <1>3, <1>6, <1>7, EmitLoad
  <2>2. QED
    BY <1>1, <1>3, <1>8, <2>1
<1>11. /\ stage' \in {"emit", "done"}
       /\ stage' = "emit" => iter' < Iterations + PROGPOW_DAG_LOADS
       /\ stage' = "done" => iter' = Iterations + PROGPOW_DAG_LOADS
  BY <1>1, <1>2, <1>3, Counts
<1>12. EmitInv'
  <2>1. Emitted(kern', dst_cnt', CacheLoads(iter'), DagLoads(iter'), mix_seq_dst', mix_seq_cache')
    BY <1>1, <1>10
  <2>2. dst_cnt' = Taken(iter')
    BY <1>1, <1>9
  <2> HIDE DEF x, d, l
  <2>3. QED
    BY <1>11, <2>1, <2>2 DEF EmitInv
<1>13. ShuffleInv'
  BY <1>1, <1>11 DEF GeneratorInv, ShuffleInv, Onto, OneToOne
<1>14. iter' \in Nat /\ rnd_state' \in KissState /\ Len(input') = 1
  BY <1>1, <1>2, <1>4
<1> HIDE DEF x, d, l, st1
<1>15. QED
  BY <1>8, <1>11, <1>12, <1>13, <1>14 DEF GeneratorInv

LEMMA FillKeeps ==
  ASSUME GeneratorInv, Fill PROVE GeneratorInv'
<1>1. /\ stage = "fill" /\ rnd_state' = kiss99(rnd_state) /\ iter' = iter + 1
      /\ stage' \in {"fill", "done"} /\ input' = input /\ dst_cnt' = dst_cnt
      /\ mix_seq_dst' = mix_seq_dst /\ mix_seq_cache' = mix_seq_cache
  BY DEF Fill
<1>2. rnd_state \in KissState /\ iter \in Nat /\ dst_cnt \in Nat /\ Len(input) # 1
  BY <1>1 DEF GeneratorInv
<1>3. rnd_state' \in KissState
  BY <1>1, <1>2, KissStep
<1>4. ShuffleInv'
  BY <1>1 DEF GeneratorInv, ShuffleInv, Onto, OneToOne
<1>5. EmitInv'
  BY <1>1, <1>2 DEF EmitInv
<1>6. QED
  BY <1>1, <1>2, <1>3, <1>4, <1>5 DEF GeneratorInv

LEMMA GeneratorInvariance == ProgPowSpec => []GeneratorInv
<1>1. GeneratorInv /\ [ProgPowNext]_progpowVars => GeneratorInv'
  <2> SUFFICES ASSUME GeneratorInv, [ProgPowNext]_progpowVars PROVE GeneratorInv'
    OBVIOUS
  <2>1. ASSUME UNCHANGED progpowVars PROVE GeneratorInv'
    BY <2>1 DEF progpowVars, GeneratorInv, ShuffleInv, EmitInv, Onto, OneToOne
  <2>2. QED
    BY <2>1, ShuffleKeeps, ShuffleEndKeeps, InstructionKeeps, ConsumeKeeps, FillKeeps
       DEF ProgPowNext
<1>2. QED
  BY <1>1, InitGenerator, PTL DEF ProgPowSpec

-----------------------------------------------------------------------------
(* No merge maps two values of a register to one.                          *)

\* Quotient and remainder are unique.
LEMMA UniqueDivision ==
  ASSUME NEW d \in Nat \ {0}, NEW q \in Int, NEW p \in Int, NEW r \in Int, NEW s \in Int,
         0 <= r, r < d, 0 <= s, s < d, d * q + r = d * p + s
  PROVE  q = p /\ r = s
<1>1. ASSUME NEW a \in Int, NEW b \in Int, NEW u \in Int, NEW v \in Int, a < b,
             0 <= u, u < d, 0 <= v, v < d, d * a + u = d * b + v
      PROVE  FALSE
  <2>1. d * b = d * a + d + d * (b - a - 1) /\ d * (b - a - 1) \in Nat /\ d * a \in Int
    BY <1>1
  <2>2. QED
    BY <1>1, <2>1
<1>2. ~(q < p) /\ ~(p < q)
  BY <1>1
<1>3. q = p
  BY <1>2
<1>4. d * q \in Int
  OBVIOUS
<1>5. QED
  BY <1>3, <1>4

\* The same number added does not make two remainders equal.
LEMMA SumApart ==
  ASSUME NEW d \in Nat \ {0}, NEW x \in 0 .. d - 1, NEW y \in 0 .. d - 1, NEW n \in Int,
         (x + n) % d = (y + n) % d
  PROVE  x = y
<1> DEFINE u == x + n
           v == y + n
           p == u \div d
           q == v \div d
<1>1. u \in Int /\ v \in Int /\ u % d = v % d
  OBVIOUS
<1> HIDE DEF u, v
<1>2. p \in Int /\ q \in Int /\ u % d \in 0 .. d - 1 /\ u = d * p + (u % d) /\ v = d * q + (u % d)
  BY <1>1, Remainder
<1> HIDE DEF p, q
<1>3. u - v = d * (p - q) /\ u - v = x - y /\ p - q \in Int
  <2>1. d * p - d * q = d * (p - q) /\ d * p \in Int /\ d * q \in Int
    BY <1>2
  <2>2. u % d \in Int
    BY <1>2
  <2>3. u - v = x - y
    BY DEF u, v
  <2>4. QED
    BY <1>1, <1>2, <2>1, <2>2, <2>3
<1>4. d * (p - q) + y = d * 0 + x
  BY <1>1, <1>2, <1>3
<1> DEFINE e == p - q
<1>5. e \in Int /\ d * e + y = d * 0 + x
  BY <1>3, <1>4
<1> HIDE DEF e
<1>6. QED
  BY <1>5, UniqueDivision

LEMMA XorApart ==
  ASSUME NEW a \in Uint32, NEW c \in Uint32, NEW b \in Uint32, XorW(a, b) = XorW(c, b)
  PROVE  a = c
<1>1. XorH(a[1], b[1]) = XorH(c[1], b[1]) /\ XorH(a[2], b[2]) = XorH(c[2], b[2])
  BY DEF XorW
<1>2. a[1] = c[1] /\ a[2] = c[2]
  BY <1>1, Halves, XorHalfApart
<1>3. QED
  BY <1>2, Halves

LEMMA AddApart ==
  ASSUME NEW a \in Uint32, NEW c \in Uint32, NEW b \in Uint32, AddW(a, b) = AddW(c, b)
  PROVE  a = c
<1> DEFINE x == a[1]   y == a[2]   u == c[1]   v == c[2]   s == b[1]   t == b[2]
<1>1. /\ x \in 0 .. H - 1 /\ y \in 0 .. H - 1 /\ u \in 0 .. H - 1 /\ v \in 0 .. H - 1
      /\ s \in Int /\ t \in Int
  BY Halves
<1>2. /\ (x + s + (y + t) \div H) % H = (u + s + (v + t) \div H) % H
      /\ (y + t) % H = (v + t) % H
  BY DEF AddW
<1>3. a = <<x, y>> /\ c = <<u, v>>
  BY Halves
<1> HIDE DEF x, y, u, v, s, t
<1>4. y = v
  BY <1>1, <1>2, SumApart, HalfSize
<1> DEFINE n == s + (y + t) \div H
<1>5. n \in Int /\ (x + n) % H = (u + n) % H
  <2> DEFINE k == (y + t) \div H
  <2>1. k \in Int
    <3> DEFINE l == y + t
    <3>1. l \in Int
      BY <1>1, HalfSize
    <3> HIDE DEF l
    <3>2. l \div H \in Int
      BY <3>1, HalfRemainder
    <3>3. QED
      BY <3>2 DEF l
  <2>2. (x + s + k) % H = (u + s + k) % H
    BY <1>2, <1>4
  <2>3. n = s + k
    OBVIOUS
  <2> HIDE DEF k, n
  <2>4. x \in Int /\ u \in Int /\ x + s + k = x + n /\ u + s + k = u + n /\ n \in Int
    BY <1>1, <2>1, <2>3, HalfSize
  <2>5. QED
    BY <2>2, <2>4
<1> HIDE DEF n
<1>6. x = u
  BY <1>1, <1>5, SumApart, HalfSize
<1>7. QED
  BY <1>3, <1>4, <1>6

\* 33 is odd: it has an inverse among the numbers of 16 bits.
LEMMA Times33Apart ==
  ASSUME NEW x \in 0 .. H - 1, NEW y \in 0 .. H - 1, (x * 33) % H = (y * 33) % H
  PROVE  x = y
<1> DEFINE u == x * 33
           v == y * 33
           p == u \div H
           q == v \div H
           e == x - y
           k == p - q
           j == 33761 * k - 17 * e
<1>1. H \in Nat \ {0} /\ 33761 * 33 = 17 * H + 1
  BY DEF H
<1>2. x \in Int /\ y \in Int /\ u \in Int /\ v \in Int /\ u % H = v % H
  BY HalfSize
<1>3. p \in Int /\ q \in Int /\ u % H \in Int /\ u = H * p + (u % H) /\ v = H * q + (u % H)
  <2> HIDE DEF u, v
  <2>1. u % H \in 0 .. H - 1 /\ p \in Int /\ u = H * p + (u % H)
    BY <1>2, HalfSize, Remainder
  <2>2. q \in Int /\ v = H * q + (v % H)
    BY <1>2, HalfSize, Remainder
  <2>3. u % H \in Int
    BY <2>1, HalfSize
  <2>4. QED
    BY <1>2, <2>1, <2>2, <2>3
<1>4. 33 * e = u - v
  BY <1>2
<1> HIDE DEF u, v, p, q
<1>5. 33 * e = H * k /\ e \in Int /\ k \in Int /\ H * k \in Int
  <2>1. H * p - H * q = H * (p - q) /\ H * p \in Int /\ H * q \in Int
    BY <1>1, <1>3
  <2>2. QED
    BY <1>1, <1>2, <1>3, <1>4, <2>1
<1>6. e = x - y
  OBVIOUS
<1> HIDE DEF e, k
<1>7. e = H * j /\ j \in Int
  <2>1. 33761 * (33 * e) = 17 * (H * e) + e /\ H * e \in Int
    <3>1. 33761 * (33 * e) = (33761 * 33) * e
      BY <1>5
    <3>2. (17 * H + 1) * e = 17 * (H * e) + e
      BY <1>1, <1>5
    <3>3. H * e \in Int
      BY <1>1, <1>5
    <3>4. QED
      BY <1>1, <3>1, <3>2, <3>3
  <2>2. H * j = 33761 * (H * k) - 17 * (H * e)
    BY <1>1, <1>5
  <2>3. QED
    BY <1>5, <2>1, <2>2
<1> HIDE DEF j
<1>8. H * j + y = H * 0 + x
  <2>1. H * j \in Int /\ H * 0 = 0
    BY <1>1, <1>7
  <2>2. QED
    BY <1>2, <1>6, <1>7, <2>1
<1>9. QED
  BY <1>1, <1>2, <1>7, <1>8, UniqueDivision, HalfSize

LEMMA MulApart ==
  ASSUME NEW a \in Uint32, NEW c \in Uint32, MulW(a, W(33)) = MulW(c, W(33))
  PROVE  a = c
<1>1. W(33)[1] = 0 /\ W(33)[2] = 33
  BY DEF W, H
<1>2. \A x \in Int : MulH(x, 33)[2] = (x * 33) % H
  <2> SUFFICES ASSUME NEW x \in Int PROVE MulH(x, 33)[2] = (x * 33) % H
    OBVIOUS
  <2> DEFINE p == x * 33
             r == p % H
  <2>1. MulH(x, 33)[2] = (r + 0) % H
    <3>1. x * (33 % 256) = p /\ x * (33 \div 256) = 0 /\ (0 % 256) * 256 = 0
      OBVIOUS
    <3>2. MulH(x, 33) = AddW(W(p), <<0 \div 256, (0 % 256) * 256>>)
      BY <3>1 DEF MulH
    <3> HIDE DEF p
    <3>3. QED
      BY <3>1, <3>2 DEF AddW, W
  <2>2. p \in Int
    OBVIOUS
  <2> HIDE DEF p
  <2>3. r \in 0 .. H - 1
    BY <2>2, HalfRemainder
  <2> HIDE DEF r
  <2>4. (r + 0) % H = r
    <3> DEFINE s == r + 0
               z == s % H
               q == s \div H
    <3>1. s \in Int /\ s = r
      BY <2>3, HalfSize
    <3> HIDE DEF s
    <3>2. s = H * q + z /\ q \in Int /\ z \in 0 .. H - 1
      BY <3>1, HalfSize, Remainder
    <3> HIDE DEF q, z
    <3>3. H * q + z = H * 0 + r /\ z \in Int /\ r \in Int
      BY <2>3, <3>1, <3>2, HalfSize
    <3>4. z = r
      BY <2>3, <3>2, <3>3, UniqueDivision, HalfSize
    <3>5. QED
      BY <3>4 DEF z, s
  <2>5. QED
    BY <2>1, <2>4 DEF r, p
<1> DEFINE x == a[1]   y == a[2]   u == c[1]   v == c[2]
           k(n) == MulH(n, 33)[1] + MulH(n, 0)[2]
<1>3. /\ x \in 0 .. H - 1 /\ y \in 0 .. H - 1 /\ u \in 0 .. H - 1 /\ v \in 0 .. H - 1
      /\ x \in Int /\ y \in Int /\ u \in Int /\ v \in Int /\ a = <<x, y>> /\ c = <<u, v>>
  BY Halves
<1>4. /\ (MulH(y, 33)[1] + MulH(x, 33)[2] + MulH(y, 0)[2]) % H
            = (MulH(v, 33)[1] + MulH(u, 33)[2] + MulH(v, 0)[2]) % H
      /\ MulH(y, 33)[2] = MulH(v, 33)[2]
  BY <1>1 DEF MulW
<1> HIDE DEF x, y, u, v
<1>5. y = v
  BY <1>2, <1>3, <1>4, Times33Apart
<1>6. (MulH(x, 33)[2] + k(y)) % H = (MulH(u, 33)[2] + k(y)) % H /\ k(y) \in Int
  <2>1. MulH(y, 33)[1] \in Int /\ MulH(y, 0)[2] \in Int
        /\ MulH(x, 33)[2] \in Int /\ MulH(u, 33)[2] \in Int
    BY <1>3, WordOps, Halves
  <2> DEFINE f == MulH(y, 33)[1]   g == MulH(y, 0)[2]   h == MulH(x, 33)[2]   i == MulH(u, 33)[2]
  <2>2. f \in Int /\ g \in Int /\ h \in Int /\ i \in Int /\ (f + h + g) % H = (f + i + g) % H
    BY <1>4, <1>5, <2>1
  <2>3. k(y) = f + g
    OBVIOUS
  <2> HIDE DEF f, g, h, i, k
  <2>4. f + h + g = h + k(y) /\ f + i + g = i + k(y) /\ k(y) \in Int
    BY <2>2, <2>3
  <2>5. QED
    BY <2>2, <2>4 DEF h, i
<1>7. MulH(x, 33)[2] = MulH(u, 33)[2]
  <2> DEFINE h == MulH(x, 33)[2]   i == MulH(u, 33)[2]
  <2>1. h \in 0 .. H - 1 /\ i \in 0 .. H - 1
    BY <1>3, WordOps, Halves
  <2>2. (h + k(y)) % H = (i + k(y)) % H
    BY <1>6
  <2> HIDE DEF h, i, k
  <2>3. h = i
    BY <1>6, <2>1, <2>2, SumApart, HalfSize
  <2>4. QED
    BY <2>3 DEF h, i
<1>8. x = u
  BY <1>2, <1>3, <1>7, Times33Apart
<1>9. QED
  BY <1>3, <1>5, <1>8

\* The powers of two that split a half.
LEMMA Powers ==
  ASSUME NEW n \in 0 .. 16
  PROVE  2^n \in Nat \ {0} /\ 2^(16 - n) \in Nat \ {0} /\ 2^n * 2^(16 - n) = H
<1>1. /\ 2^0 = 1 /\ 2^1 = 2 /\ 2^2 = 4 /\ 2^3 = 8 /\ 2^4 = 16 /\ 2^5 = 32 /\ 2^6 = 64
      /\ 2^7 = 128 /\ 2^8 = 256 /\ 2^9 = 512 /\ 2^10 = 1024 /\ 2^11 = 2048 /\ 2^12 = 4096
      /\ 2^13 = 8192 /\ 2^14 = 16384 /\ 2^15 = 32768 /\ 2^16 = 65536
  OBVIOUS
<1>2. H = 65536
  BY DEF H
<1>3. \/ n = 0 \/ n = 1 \/ n = 2 \/ n = 3 \/ n = 4 \/ n = 5 \/ n = 6 \/ n = 7 \/ n = 8
      \/ n = 9 \/ n = 10 \/ n = 11 \/ n = 12 \/ n = 13 \/ n = 14 \/ n = 15 \/ n = 16
  OBVIOUS
<1>4. CASE n = 0
  BY <1>1, <1>2, <1>4
<1>5. CASE n = 1
  BY <1>1, <1>2, <1>5
<1>6. CASE n = 2
  BY <1>1, <1>2, <1>6
<1>7. CASE n = 3
  BY <1>1, <1>2, <1>7
<1>8. CASE n = 4
  BY <1>1, <1>2, <1>8
<1>9. CASE n = 5
  BY <1>1, <1>2, <1>9
<1>10. CASE n = 6
  BY <1>1, <1>2, <1>10
<1>11. CASE n = 7
  BY <1>1, <1>2, <1>11
<1>12. CASE n = 8
  BY <1>1, <1>2, <1>12
<1>13. CASE n = 9
  BY <1>1, <1>2, <1>13
<1>14. CASE n = 10
  BY <1>1, <1>2, <1>14
<1>15. CASE n = 11
  BY <1>1, <1>2, <1>15
<1>16. CASE n = 12
  BY <1>1, <1>2, <1>16
<1>17. CASE n = 13
  BY <1>1, <1>2, <1>17
<1>18. CASE n = 14
  BY <1>1, <1>2, <1>18
<1>19. CASE n = 15
  BY <1>1, <1>2, <1>19
<1>20. CASE n = 16
  BY <1>1, <1>2, <1>20
<1>21. QED
  BY <1>3, <1>4, <1>5, <1>6, <1>7, <1>8, <1>9, <1>10, <1>11, <1>12, <1>13, <1>14, <1>15,
     <1>16, <1>17, <1>18, <1>19, <1>20

\* A half splits into a high part below m and a low part below d.
LEMMA Parts ==
  ASSUME NEW m \in Nat \ {0}, NEW d \in Nat \ {0}, m * d = H, NEW x \in 0 .. H - 1
  PROVE  /\ x = d * (x \div d) + (x % d)
         /\ x \div d \in 0 .. m - 1 /\ x % d \in 0 .. d - 1
<1> DEFINE q == x \div d
           r == x % d
<1>1. q \in Int /\ r \in 0 .. d - 1 /\ x = d * q + r /\ x \in Nat /\ x < H /\ H \in Nat
  BY HalfSize, Remainder
<1> HIDE DEF q, r
<1>2. ASSUME q < 0 PROVE FALSE
  <2>1. d * q = -d - d * (-q - 1) /\ d * (-q - 1) \in Nat
    BY <1>1, <1>2
  <2>2. QED
    BY <1>1, <2>1
<1>3. ASSUME q >= m PROVE FALSE
  <2>1. d * q = m * d + d * (q - m) /\ d * (q - m) \in Nat
    BY <1>1, <1>3
  <2>2. QED
    BY <1>1, <2>1
<1>4. q \in 0 .. m - 1
  BY <1>1, <1>2, <1>3
<1>5. QED
  BY <1>1, <1>4 DEF q, r

\* A low part shifted up and a high part beside it make a half.
LEMMA Joined ==
  ASSUME NEW m \in Nat \ {0}, NEW d \in Nat \ {0}, m * d = H,
         NEW l \in 0 .. d - 1, NEW h \in 0 .. m - 1
  PROVE  m * l + h \in 0 .. H - 1 /\ m * l \in 0 .. H - 1
<1>1. m * d = m * l + m + m * (d - 1 - l) /\ m * (d - 1 - l) \in Nat /\ m * l \in Nat
  OBVIOUS
<1>2. H \in Nat
  BY HalfSize
<1>3. QED
  BY <1>1, <1>2

\* What is below the size of a half is its own remainder.
LEMMA SmallRemainder ==
  ASSUME NEW k \in Int, NEW r \in 0 .. H - 1
  PROVE  (H * k + r) % H = r /\ (H * k + r) \div H = k
<1> DEFINE a == H * k + r
           q == a \div H
           s == a % H
<1>1. H \in Nat \ {0} /\ r \in Int /\ a \in Int
  BY HalfSize
<1>2. a = H * k + r
  OBVIOUS
<1> HIDE DEF a
<1>3. q \in Int /\ s \in 0 .. H - 1 /\ a = H * q + s
  BY <1>1, Remainder
<1> HIDE DEF q, s
<1>4. s \in Int /\ H * q + s = H * k + r
  BY <1>1, <1>2, <1>3, HalfSize
<1>5. q = k /\ s = r
  BY <1>1, <1>3, <1>4, UniqueDivision, HalfSize
<1>6. QED
  BY <1>5 DEF q, s, a

\* A half shifted up by the width of m.
LEMMA ShiftedHalf ==
  ASSUME NEW m, NEW d, NEW x, NEW q, NEW r,
         m \in Nat \ {0}, d \in Nat \ {0}, m * d = H, x \in 0 .. H - 1,
         x = d * q + r, q \in 0 .. m - 1, r \in 0 .. d - 1
  PROVE  (x * m) % H = m * r /\ (x * m) \div H = q
<1>1. q \in Int /\ r \in Int /\ H \in Nat \ {0} /\ 0 \in 0 .. m - 1
  BY HalfSize
<1>2. x * m = H * q + m * r
  <2>1. (d * q + r) * m = (m * d) * q + m * r
    BY <1>1
  <2>2. QED
    BY <2>1
<1>3. m * r \in 0 .. H - 1
  BY <1>1, Joined
<1>4. QED
  BY <1>1, <1>2, <1>3, SmallRemainder

\* Two halves without a carry between them.
LEMMA AddWithoutCarry ==
  ASSUME NEW a, NEW b, a[1] \in Int, a[2] \in Int, b[1] \in Int, b[2] \in Int,
         a[1] + b[1] \in 0 .. H - 1, a[2] + b[2] \in 0 .. H - 1
  PROVE  AddW(a, b) = <<a[1] + b[1], a[2] + b[2]>>
<1> DEFINE s == a[1] + b[1]
           t == a[2] + b[2]
<1>1. s \in 0 .. H - 1 /\ t \in 0 .. H - 1
  OBVIOUS
<1>2. AddW(a, b) = <<(s + t \div H) % H, t % H>>
  BY DEF AddW
<1> HIDE DEF s, t
<1>3. t % H = t /\ t \div H = 0 /\ s % H = s
  <2>1. \A r \in 0 .. H - 1 : r % H = r /\ r \div H = 0
    <3> SUFFICES ASSUME NEW r \in 0 .. H - 1 PROVE r % H = r /\ r \div H = 0
      OBVIOUS
    <3>1. H * 0 + r = r
      BY HalfSize
    <3>2. (H * 0 + r) % H = r /\ (H * 0 + r) \div H = 0
      BY SmallRemainder
    <3>3. QED
      BY <3>1, <3>2
  <2>2. QED
    BY <1>1, <2>1
<1>4. s + 0 = s
  BY <1>1, HalfSize
<1>5. QED
  BY <1>2, <1>3, <1>4 DEF s, t

\* Two halves, each multiplied by m with the other's quotient by d in the place this frees.
Crossed(m, d, x, y) == <<m * (x % d) + (y \div d), m * (y % d) + (x \div d)>>

\* A rotation by less than a half: the high part of each half moves into the other one.
LEMMA RotatedBelowHalf ==
  ASSUME NEW a \in Uint32, NEW n \in 1 .. 15
  PROVE  RotlW(a, n) = Crossed(2^n, 2^(16 - n), a[1], a[2])
<1> DEFINE x == a[1]
           y == a[2]
           m == 2^n
           d == 2^(16 - n)
<1>1. m \in Nat \ {0} /\ d \in Nat \ {0} /\ m * d = H
  <2>1. n \in 0 .. 16
    OBVIOUS
  <2>2. QED
    BY <2>1, Powers
<1>2. x \in 0 .. H - 1 /\ y \in 0 .. H - 1
  BY Halves
<1>3. RotlW(a, n) = AddW(ShlW(a, n), ShrW(a, 32 - n))
  <2>1. n % 32 = n /\ n # 0
    OBVIOUS
  <2>2. QED
    BY <2>1 DEF RotlW
<1>4. ShlW(a, n) = <<(x * m + (y * m) \div H) % H, (y * m) % H>>
  <2>1. ~(n >= 16)
    OBVIOUS
  <2>2. QED
    BY <2>1 DEF ShlW
<1>5. ShrW(a, 32 - n) = <<0, x \div d>>
  <2>1. 32 - n >= 16 /\ 32 - n - 16 = 16 - n
    OBVIOUS
  <2>2. QED
    BY <2>1 DEF ShrW
<1> HIDE DEF x, y, m, d
<1> DEFINE xh == x \div d   xl == x % d   yh == y \div d   yl == y % d
<1>6. /\ xh \in 0 .. m - 1 /\ yh \in 0 .. m - 1 /\ xl \in 0 .. d - 1 /\ yl \in 0 .. d - 1
      /\ x = d * xh + xl /\ y = d * yh + yl
  BY <1>1, <1>2, Parts
<1> HIDE DEF xh, xl, yh, yl
<1>7. (y * m) \div H = yh /\ (y * m) % H = m * yl
  BY <1>1, <1>2, <1>6, ShiftedHalf
<1>8. (x * m + yh) % H = m * xl + yh
  <2>1. /\ xh \in 0 .. m - 1 /\ xl \in 0 .. d - 1 /\ x = d * xh + xl /\ x \in 0 .. H - 1
        /\ yh \in 0 .. m - 1
    BY <1>2, <1>6
  <2> DEFINE s == m * xl + yh
  <2>2. s \in 0 .. H - 1
    BY <1>1, <2>1, Joined
  <2>3. x * m + yh = H * xh + s
    <3>1. xh \in Int /\ xl \in Int /\ yh \in Int /\ m \in Int /\ d \in Int
      BY <1>1, <2>1
    <3>2. (d * xh + xl) * m + yh = (m * d) * xh + (m * xl + yh)
      BY <3>1
    <3>3. QED
      BY <1>1, <2>1, <3>2
  <2> HIDE DEF s
  <2>4. (H * xh + s) % H = s
    BY <2>1, <2>2, SmallRemainder
  <2>5. QED
    BY <2>3, <2>4 DEF s
<1>9. ShlW(a, n) = <<m * xl + yh, m * yl>>
  BY <1>4, <1>7, <1>8
<1>10. m * xl + yh \in 0 .. H - 1 /\ m * yl + xh \in 0 .. H - 1 /\ m * yl \in 0 .. H - 1
  BY <1>1, <1>6, Joined
<1>11. ShrW(a, 32 - n) = <<0, xh>>
  BY <1>5 DEF xh
<1> DEFINE p == m * xl + yh
           q == m * yl
<1>12. p \in 0 .. H - 1 /\ q + xh \in 0 .. H - 1 /\ p \in Int /\ q \in Int /\ xh \in Int
       /\ p + 0 = p
  BY <1>1, <1>6, <1>10, HalfSize
<1>13. RotlW(a, n) = AddW(<<p, q>>, <<0, xh>>)
  BY <1>3, <1>9, <1>11
<1> HIDE DEF p, q
<1>14. AddW(<<p, q>>, <<0, xh>>) = <<p + 0, q + xh>>
  <2> DEFINE b == <<p, q>>
             c == <<0, xh>>
  <2>1. b[1] = p /\ b[2] = q /\ c[1] = 0 /\ c[2] = xh
    OBVIOUS
  <2> HIDE DEF b, c
  <2>2. AddW(b, c) = <<b[1] + c[1], b[2] + c[2]>>
    BY <1>12, <2>1, AddWithoutCarry
  <2>3. QED
    BY <2>1, <2>2 DEF b, c
<1>15. RotlW(a, n) = <<p, q + xh>>
  BY <1>12, <1>13, <1>14
<1>16. QED
  BY <1>15 DEF p, q, x, y, m, d, xh, xl, yh, yl, Crossed

\* A rotation by more than a half: the halves change places as well.
LEMMA RotatedAboveHalf ==
  ASSUME NEW a \in Uint32, NEW n \in 17 .. 31
  PROVE  RotlW(a, n) = Crossed(2^(n - 16), 2^(32 - n), a[2], a[1])
<1> DEFINE x == a[1]
           y == a[2]
           m == 2^(n - 16)
           d == 2^(32 - n)
<1>1. m \in Nat \ {0} /\ d \in Nat \ {0} /\ m * d = H
  <2>1. n - 16 \in 0 .. 16 /\ 16 - (n - 16) = 32 - n
    OBVIOUS
  <2> DEFINE k == n - 16
  <2>2. k \in 0 .. 16 /\ m = 2^k /\ d = 2^(16 - k)
    BY <2>1
  <2> HIDE DEF k
  <2>3. QED
    BY <2>2, Powers
<1>2. x \in 0 .. H - 1 /\ y \in 0 .. H - 1
  BY Halves
<1>3. RotlW(a, n) = AddW(ShlW(a, n), ShrW(a, 32 - n))
  <2>1. n % 32 = n /\ n # 0
    OBVIOUS
  <2>2. QED
    BY <2>1 DEF RotlW
<1>4. ShlW(a, n) = <<(y * m) % H, 0>>
  <2>1. n >= 16
    OBVIOUS
  <2>2. QED
    BY <2>1 DEF ShlW
<1>5. ShrW(a, 32 - n) = <<x \div d, (x % d) * m + y \div d>>
  <2>1. ~(32 - n >= 16) /\ 16 - (32 - n) = n - 16
    OBVIOUS
  <2>2. QED
    BY <2>1 DEF ShrW
<1> HIDE DEF x, y, m, d
<1> DEFINE xh == x \div d   xl == x % d   yh == y \div d   yl == y % d
<1>6. /\ xh \in 0 .. m - 1 /\ yh \in 0 .. m - 1 /\ xl \in 0 .. d - 1 /\ yl \in 0 .. d - 1
      /\ x = d * xh + xl /\ y = d * yh + yl
  <2>1. xh \in 0 .. m - 1 /\ xl \in 0 .. d - 1 /\ x = d * xh + xl
    BY <1>1, <1>2, Parts
  <2>2. yh \in 0 .. m - 1 /\ yl \in 0 .. d - 1 /\ y = d * yh + yl
    BY <1>1, <1>2, Parts
  <2>3. QED
    BY <2>1, <2>2
<1> HIDE DEF xh, xl, yh, yl
<1>7. (y * m) % H = m * yl
  BY <1>1, <1>2, <1>6, ShiftedHalf
<1>8. ShlW(a, n) = <<m * yl, 0>> /\ ShrW(a, 32 - n) = <<xh, xl * m + yh>>
  BY <1>4, <1>5, <1>7 DEF xh, xl, yh
<1>9. m * xl + yh \in 0 .. H - 1 /\ m * yl + xh \in 0 .. H - 1
  BY <1>1, <1>6, Joined
<1> DEFINE p == m * xl + yh
           q == m * yl
<1>10. /\ p \in 0 .. H - 1 /\ q + xh \in 0 .. H - 1 /\ p \in Int /\ q \in Int /\ xh \in Int
       /\ 0 + p = p /\ xl * m + yh = p
  BY <1>1, <1>6, <1>9, HalfSize
<1>11. RotlW(a, n) = AddW(<<q, 0>>, <<xh, p>>)
  BY <1>3, <1>8, <1>10
<1> HIDE DEF p, q
<1>12. AddW(<<q, 0>>, <<xh, p>>) = <<q + xh, 0 + p>>
  <2> DEFINE b == <<q, 0>>
             c == <<xh, p>>
  <2>1. b[1] = q /\ b[2] = 0 /\ c[1] = xh /\ c[2] = p
    OBVIOUS
  <2> HIDE DEF b, c
  <2>2. AddW(b, c) = <<b[1] + c[1], b[2] + c[2]>>
    BY <1>10, <2>1, AddWithoutCarry
  <2>3. QED
    BY <2>1, <2>2 DEF b, c
<1>13. RotlW(a, n) = <<q + xh, p>>
  BY <1>10, <1>11, <1>12
<1>14. QED
  BY <1>13 DEF p, q, x, y, m, d, xh, xl, yh, yl, Crossed

\* A rotation by a half.
LEMMA RotatedByHalf ==
  ASSUME NEW a \in Uint32
  PROVE  RotlW(a, 16) = <<a[2], a[1]>>
<1> DEFINE x == a[1]
           y == a[2]
<1>1. x \in 0 .. H - 1 /\ y \in 0 .. H - 1 /\ x \in Int /\ y \in Int
  BY Halves
<1>2. 2^0 = 1 /\ y * 1 = y /\ x \div 1 = x
  BY <1>1
<1>3. RotlW(a, 16) = AddW(<<y % H, 0>>, <<0, x>>)
  BY <1>2 DEF RotlW, ShlW, ShrW
<1> HIDE DEF x, y
<1>4. y % H = y
  <2>1. H * 0 + y = y
    BY <1>1, HalfSize
  <2>2. (H * 0 + y) % H = y
    BY <1>1, SmallRemainder
  <2>3. QED
    BY <2>1, <2>2
<1>5. AddW(<<y, 0>>, <<0, x>>) = <<y + 0, 0 + x>>
  <2> DEFINE b == <<y, 0>>
             c == <<0, x>>
  <2>1. b[1] = y /\ b[2] = 0 /\ c[1] = 0 /\ c[2] = x /\ y + 0 = y /\ 0 + x = x
    BY <1>1
  <2> HIDE DEF b, c
  <2>2. AddW(b, c) = <<b[1] + c[1], b[2] + c[2]>>
    BY <1>1, <2>1, AddWithoutCarry
  <2>3. QED
    BY <2>1, <2>2 DEF b, c
<1>6. QED
  BY <1>1, <1>3, <1>4, <1>5 DEF x, y

\* Parts joined crosswise tell the halves they come from.
LEMMA PartsApart ==
  ASSUME NEW m, NEW d, NEW x, NEW y, NEW u, NEW v, m \in Nat \ {0}, d \in Nat \ {0}, m * d = H,
         x \in 0 .. H - 1, y \in 0 .. H - 1, u \in 0 .. H - 1, v \in 0 .. H - 1,
         Crossed(m, d, x, y) = Crossed(m, d, u, v)
  PROVE  x = u /\ y = v
<1> DEFINE xh == x \div d   xl == x % d   yh == y \div d   yl == y % d
           uh == u \div d   ul == u % d   vh == v \div d   vl == v % d
<1>1. /\ xh \in 0 .. m - 1 /\ yh \in 0 .. m - 1 /\ xl \in 0 .. d - 1 /\ yl \in 0 .. d - 1
      /\ x = d * xh + xl /\ y = d * yh + yl
  BY Parts
<1>2. /\ uh \in 0 .. m - 1 /\ vh \in 0 .. m - 1 /\ ul \in 0 .. d - 1 /\ vl \in 0 .. d - 1
      /\ u = d * uh + ul /\ v = d * vh + vl
  BY Parts
<1>3. <<m * xl + yh, m * yl + xh>> = <<m * ul + vh, m * vl + uh>>
  BY DEF Crossed
<1> HIDE DEF xh, xl, yh, yl, uh, ul, vh, vl
<1>4. m * xl + yh = m * ul + vh /\ m * yl + xh = m * vl + uh
  BY <1>3
<1>5. xl = ul /\ yh = vh
  BY <1>1, <1>2, <1>4, UniqueDivision
<1>6. yl = vl /\ xh = uh
  BY <1>1, <1>2, <1>4, UniqueDivision
<1>7. QED
  BY <1>1, <1>2, <1>5, <1>6

LEMMA RotlApart ==
  ASSUME NEW a \in Uint32, NEW c \in Uint32, NEW n \in 1 .. 31, RotlW(a, n) = RotlW(c, n)
  PROVE  a = c
<1>1. /\ a[1] \in 0 .. H - 1 /\ a[2] \in 0 .. H - 1 /\ c[1] \in 0 .. H - 1 /\ c[2] \in 0 .. H - 1
      /\ a = <<a[1], a[2]>> /\ c = <<c[1], c[2]>>
  BY Halves
<1> DEFINE x == a[1]   y == a[2]   u == c[1]   v == c[2]
<1>2. x \in 0 .. H - 1 /\ y \in 0 .. H - 1 /\ u \in 0 .. H - 1 /\ v \in 0 .. H - 1
  BY <1>1
<1>3. CASE n \in 1 .. 15
  <2> DEFINE m == 2^n
             d == 2^(16 - n)
  <2>1. m \in Nat \ {0} /\ d \in Nat \ {0} /\ m * d = H
    <3>1. n \in 0 .. 16
      BY <1>3
    <3>2. QED
      BY <3>1, Powers
  <2>2. RotlW(a, n) = Crossed(m, d, x, y)
    BY <1>3, RotatedBelowHalf
  <2>3. RotlW(c, n) = Crossed(m, d, u, v)
    BY <1>3, RotatedBelowHalf
  <2> HIDE DEF m, d, x, y, u, v
  <2>4. x = u /\ y = v
    <3>1. Crossed(m, d, x, y) = Crossed(m, d, u, v)
      BY <2>2, <2>3
    <3>2. QED
      BY <1>2, <2>1, <3>1, PartsApart
  <2>5. QED
    BY <1>1, <2>4 DEF x, y, u, v
<1>4. CASE n \in 17 .. 31
  <2> DEFINE m == 2^(n - 16)
             d == 2^(32 - n)
             k == n - 16
  <2>1. m \in Nat \ {0} /\ d \in Nat \ {0} /\ m * d = H
    <3>1. k \in 0 .. 16 /\ 16 - k = 32 - n
      BY <1>4
    <3>2. m = 2^k /\ d = 2^(16 - k)
      BY <3>1
    <3> HIDE DEF k, m, d
    <3>3. QED
      BY <3>1, <3>2, Powers
  <2>2. RotlW(a, n) = Crossed(m, d, y, x)
    BY <1>4, RotatedAboveHalf
  <2>3. RotlW(c, n) = Crossed(m, d, v, u)
    BY <1>4, RotatedAboveHalf
  <2> HIDE DEF m, d, x, y, u, v
  <2>4. x = u /\ y = v
    <3>1. Crossed(m, d, y, x) = Crossed(m, d, v, u)
      BY <2>2, <2>3
    <3>2. QED
      BY <1>2, <2>1, <3>1, PartsApart
  <2>5. QED
    BY <1>1, <2>4 DEF x, y, u, v
<1>5. CASE n = 16
  <2>1. <<a[2], a[1]>> = <<c[2], c[1]>>
    BY <1>5, RotatedByHalf
  <2>2. QED
    BY <1>1, <2>1
<1>6. QED
  BY <1>3, <1>4, <1>5

LEMMA RotatedIsWord ==
  ASSUME NEW a \in Uint32, NEW n \in 1 .. 31
  PROVE  RotlW(a, n) \in Uint32
<1> DEFINE x == a[1]
           y == a[2]
<1>1. x \in 0 .. H - 1 /\ y \in 0 .. H - 1
  BY Halves
<1>2. CASE n \in 1 .. 15
  <2> DEFINE m == 2^n
             d == 2^(16 - n)
  <2>1. m \in Nat \ {0} /\ d \in Nat \ {0} /\ m * d = H
    <3>1. n \in 0 .. 16
      BY <1>2
    <3>2. QED
      BY <3>1, Powers
  <2>2. RotlW(a, n) = <<m * (x % d) + (y \div d), m * (y % d) + (x \div d)>>
    BY <1>2, RotatedBelowHalf DEF Crossed
  <2> HIDE DEF m, d, x, y
  <2>3. x % d \in 0 .. d - 1 /\ y % d \in 0 .. d - 1 /\ x \div d \in 0 .. m - 1 /\ y \div d \in 0 .. m - 1
    BY <1>1, <2>1, Parts
  <2>4. m * (x % d) + (y \div d) \in 0 .. H - 1 /\ m * (y % d) + (x \div d) \in 0 .. H - 1
    BY <2>1, <2>3, Joined
  <2>5. QED
    BY <2>2, <2>4, Halves
<1>3. CASE n \in 17 .. 31
  <2> DEFINE m == 2^(n - 16)
             d == 2^(32 - n)
             k == n - 16
  <2>1. m \in Nat \ {0} /\ d \in Nat \ {0} /\ m * d = H
    <3>1. k \in 0 .. 16 /\ 16 - k = 32 - n
      BY <1>3
    <3>2. m = 2^k /\ d = 2^(16 - k)
      BY <3>1
    <3> HIDE DEF k, m, d
    <3>3. QED
      BY <3>1, <3>2, Powers
  <2>2. RotlW(a, n) = <<m * (y % d) + (x \div d), m * (x % d) + (y \div d)>>
    BY <1>3, RotatedAboveHalf DEF Crossed
  <2> HIDE DEF m, d, x, y
  <2>3. x % d \in 0 .. d - 1 /\ y % d \in 0 .. d - 1 /\ x \div d \in 0 .. m - 1 /\ y \div d \in 0 .. m - 1
    BY <1>1, <2>1, Parts
  <2>4. m * (x % d) + (y \div d) \in 0 .. H - 1 /\ m * (y % d) + (x \div d) \in 0 .. H - 1
    BY <2>1, <2>3, Joined
  <2>5. QED
    BY <2>2, <2>4, Halves
<1>4. CASE n = 16
  BY <1>1, <1>4, RotatedByHalf, Halves
<1>5. QED
  BY <1>2, <1>3, <1>4

\* A merge keeps all of the register: whatever it is merged with, two values of it give
\* two results (ProgPow::merge, "only do ops that retain entropy").
THEOREM MergeRetainsEntropy ==
  ASSUME NEW a \in Uint32, NEW c \in Uint32, NEW b \in Uint32, NEW m \in Merges,
         merge(a, b, m) = merge(c, b, m)
  PROVE  a = c
<1>1. m.op \in 0 .. 3 /\ m.rot \in 1 .. 31
  BY DEF Merges
<1>2. CASE m.op = 0
  <2> DEFINE n == 32 - (m.rot % 32)
  <2>1. n \in 1 .. 31
    BY <1>1
  <2>2. \A t : RotrW(t, m.rot) = RotlW(t, n)
    BY DEF RotrW
  <2> HIDE DEF n
  <2>3. XorW(RotlW(a, n), b) = XorW(RotlW(c, n), b)
    BY <1>2, <2>2 DEF merge
  <2>4. RotlW(a, n) = RotlW(c, n)
    BY <2>1, <2>3, RotatedIsWord, XorApart
  <2>5. QED
    BY <2>1, <2>4, RotlApart
<1>3. CASE m.op = 1
  <2> DEFINE n == m.rot
  <2>1. n \in 1 .. 31
    BY <1>1
  <2>2. XorW(RotlW(a, n), b) = XorW(RotlW(c, n), b)
    BY <1>3 DEF merge
  <2> HIDE DEF n
  <2>3. RotlW(a, n) = RotlW(c, n)
    BY <2>1, <2>2, RotatedIsWord, XorApart
  <2>4. QED
    BY <2>1, <2>3, RotlApart
<1>4. CASE m.op = 2
  <2>1. AddW(MulW(a, W(33)), b) = AddW(MulW(c, W(33)), b)
    BY <1>4 DEF merge
  <2>2. W(33) \in Uint32
    BY WordOps
  <2>3. MulW(a, W(33)) \in Uint32 /\ MulW(c, W(33)) \in Uint32
    BY <2>2, WordOps
  <2>4. MulW(a, W(33)) = MulW(c, W(33))
    BY <2>1, <2>3, AddApart
  <2>5. QED
    BY <2>4, MulApart
<1>5. CASE m.op = 3
  <2>1. MulW(XorW(a, b), W(33)) = MulW(XorW(c, b), W(33))
    BY <1>5 DEF merge
  <2>2. XorW(a, b) \in Uint32 /\ XorW(c, b) \in Uint32
    BY WordOps
  <2>3. XorW(a, b) = XorW(c, b)
    BY <2>1, <2>2, MulApart
  <2>4. QED
    BY <2>3, XorApart
<1>6. QED
  BY <1>1, <1>2, <1>3, <1>4, <1>5

\* Every program getKern can generate - for every period, and any numbers of registers,
\* loads and instructions that ProgPow.h may define - merges into every register, loads
\* the cache from registers that are all different, never combines a register with
\* itself, makes the next address depend on the load, and never loses a register's value.
THEOREM EveryProgramMixes == ProgPowSpec => []ProgramMixesEverything
<1>1. GeneratorInv => ProgramMixesEverything
  <2> SUFFICES ASSUME GeneratorInv, IsProgram
               PROVE  /\ {kern[s].dst : s \in 1..Len(kern)} = Regs
                      /\ \A s, t \in Stmts("cache") : s # t => kern[s].src # kern[t].src
                      /\ \A s \in Stmts("math") : kern[s].src[1] # kern[s].src[2]
                      /\ \E s \in Stmts("load") : /\ kern[s].dst = 0
                                                  /\ \A t \in Stmts("load") : s <= t
                      /\ \A s \in 1..Len(kern) :
                            /\ kern[s].merge.rot \in 1..31
                            /\ \A a1, a2, b \in Samples : a1 # a2 =>
                                  merge(a1, b, kern[s].merge) # merge(a2, b, kern[s].merge)
    BY DEF ProgramMixesEverything
  <2>1. /\ dst_cnt = Taken(iter) /\ iter = Iterations + PROGPOW_DAG_LOADS
        /\ Emitted(kern, dst_cnt, CacheLoads(iter), DagLoads(iter), mix_seq_dst, mix_seq_cache)
    BY DEF IsProgram, GeneratorInv, EmitInv
  <2>2. dst_cnt \in Nat /\ dst_cnt >= PROGPOW_REGS /\ DagLoads(iter) > 0
    BY <2>1, Counts, CountAssumption DEF Taken, CacheLoads, DagLoads, Lesser
  <2>3. \A s \in 1 .. Len(kern) : kern[s] \in Statements
    BY <2>1 DEF Emitted
  <2>4. {kern[s].dst : s \in 1..Len(kern)} = Regs
    <3>1. \A s \in 1 .. Len(kern) : kern[s].dst \in Regs
      BY <2>3 DEF Statements
    <3>2. ASSUME NEW r \in Regs PROVE \E s \in 1 .. Len(kern) : kern[s].dst = r
      <4>1. PICK n \in Regs : mix_seq_dst[n] = r
        BY DEF GeneratorInv, ShuffleInv, Onto
      <4>2. n \in Nat /\ n < PROGPOW_REGS /\ n % PROGPOW_REGS = n
        BY Counts, RegisterIndex
      <4>3. n \in 0 .. dst_cnt - 1
        BY <2>2, <4>2, Counts
      <4>4. QED
        BY <2>1, <4>1, <4>2, <4>3 DEF Emitted
    <3>3. QED
      BY <3>1, <3>2
  <2>5. \A s, t \in Stmts("cache") : s # t => kern[s].src # kern[t].src
    BY <2>1 DEF Emitted, Stmts
  <2>6. \A s \in Stmts("math") : kern[s].src[1] # kern[s].src[2]
    BY <2>1 DEF Emitted, Stmts
  <2>7. \E s \in Stmts("load") : kern[s].dst = 0 /\ \A t \in Stmts("load") : s <= t
    BY <2>1, <2>2 DEF Emitted, Stmts
  <2>8. Samples \subseteq Uint32
    BY HalfBits, Halves DEF Samples
  <2>9. ASSUME NEW s \in 1 .. Len(kern)
        PROVE  /\ kern[s].merge.rot \in 1..31
               /\ \A a1, a2, b \in Samples : a1 # a2 =>
                     merge(a1, b, kern[s].merge) # merge(a2, b, kern[s].merge)
    <3> DEFINE m == kern[s].merge
    <3>1. m \in Merges
      BY <2>3 DEF Statements
    <3> HIDE DEF m
    <3>2. m.rot \in 1 .. 31
      BY <3>1 DEF Merges
    <3>3. \A a1, a2, b \in Samples : a1 # a2 => merge(a1, b, m) # merge(a2, b, m)
      BY <2>8, <3>1, MergeRetainsEntropy
    <3>4. QED
      BY <3>2, <3>3 DEF m
  <2>10. QED
    BY <2>4, <2>5, <2>6, <2>7, <2>9
<1>2. QED
  BY <1>1, GeneratorInvariance, PTL
=============================================================================
