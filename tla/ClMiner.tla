------------------------------ MODULE ClMiner -------------------------------
(***************************************************************************)
(* CLMiner::workLoop (libethash-cl/CLMiner.cpp): one kernel at a time; the *)
(* results of a kernel are read at the start of the next iteration, after  *)
(* the farm may have replaced the work. kick_miner is empty.               *)
(*                                                                         *)
(* A header stands for everything a package fixes with it (epoch, height,  *)
(* boundary).                                                              *)
(***************************************************************************)
EXTENDS Integers

CONSTANTS
    Headers,            \* block headers the pool hands out
    Starts,             \* start nonces: get_start_nonce(), or the pool's with the index
    GlobalWorkSize,     \* m_globalWorkSize
    Space,              \* 2^64, the range of uint64_t
    NoHeader,           \* h256(): no work yet
    One                 \* h256{1u}: workLoop's header before the first work

ASSUME ClAssumption ==
    /\ NoHeader \notin Headers /\ One \notin Headers \cup {NoHeader}
    /\ Space \in Nat \ {0} /\ GlobalWorkSize \in 1 .. Space
    /\ Starts \subseteq 0 .. Space - 1 /\ Starts # {}

VARIABLES
    m_work, stopping,   \* of the miner: the farm's package, Worker::shouldStop()
    pc, w, current, startNonce,
    m_header,           \* the header in the device's constant buffer
    m_searchBuffer,     \* the first result in the device's buffer, or Empty
    nonce               \* the result that is being reported, or Nothing

vars == <<m_work, stopping, pc, w, current, startNonce, m_header, m_searchBuffer, nonce>>

Nonces == 0 .. Space - 1
Work == [header : Headers, startNonce : Starts]
NoWork == [header |-> NoHeader, startNonce |-> 0]

\* What a kernel found: the header and nonce it hashed, and the offset it stores.
Result == [header : Headers, nonce : Nonces, offset : 0 .. GlobalWorkSize - 1]
Empty == [header |-> NoHeader, nonce |-> 0, offset |-> 0]

\* What the miner reports of it: the header and the nonce it makes of the offset.
Report == [header : Headers, nonce : Nonces, found : Result]
Nothing == [header |-> NoHeader, nonce |-> 0, found |-> Empty]

TypeOK ==
    /\ m_work \in Work \cup {NoWork} /\ w \in Work \cup {NoWork}
    /\ stopping \in BOOLEAN
    /\ pc \in {"top", "decide", "read", "launch", "submit", "done"}
    /\ current \in [header : Headers \cup {One}, startNonce : Nonces]
    /\ startNonce \in Nonces
    /\ m_header \in Headers \cup {NoHeader}
    /\ m_searchBuffer \in Result \cup {Empty}
    /\ nonce \in Report \cup {Nothing}

Init ==
    /\ m_work = NoWork /\ w = NoWork /\ stopping = FALSE
    /\ pc = "top"
    /\ current = [header |-> One, startNonce |-> 0]
    /\ startNonce = 0 /\ m_header = NoHeader
    /\ m_searchBuffer = Empty /\ nonce = Nothing

-----------------------------------------------------------------------------
(* The farm's threads.                                                     *)

\* Miner::setWork; the kick does nothing. Farm::setWork drops an unchanged package.
SetWork(p) ==
    /\ p # m_work
    /\ m_work' = p
    /\ UNCHANGED <<stopping, pc, w, current, startNonce, m_header, m_searchBuffer, nonce>>

\* stopWorking() is called on the miner.
Stop ==
    /\ ~stopping
    /\ stopping' = TRUE
    /\ UNCHANGED <<m_work, pc, w, current, startNonce, m_header, m_searchBuffer, nonce>>

-----------------------------------------------------------------------------
(* The miner's thread.                                                     *)

\* Mutant: the work is only taken when there is none.
TakeWork_Once ==
    /\ pc = "top"
    /\ \/ stopping /\ pc' = "done" /\ UNCHANGED w
       \/ ~stopping /\ pc' = "decide" /\ w' = IF w = NoWork THEN m_work ELSE w
    /\ UNCHANGED <<m_work, stopping, current, startNonce, m_header, m_searchBuffer, nonce>>

\* The test of workLoop, and the local copy of the work.
TakeWork ==
    /\ pc = "top"
    /\ \/ stopping /\ pc' = "done" /\ UNCHANGED w
       \/ ~stopping /\ pc' = "decide" /\ w' = m_work
    /\ UNCHANGED <<m_work, stopping, current, startNonce, m_header, m_searchBuffer, nonce>>

\* No work: pause for three seconds.
PauseNoWork ==
    /\ pc = "decide" /\ w = NoWork
    /\ pc' = "top"
    /\ UNCHANGED <<m_work, stopping, w, current, startNonce, m_header, m_searchBuffer, nonce>>

\* Mutant: the results of the old work stay in the buffer.
SwitchWork_KeepsResults ==
    /\ pc = "decide" /\ w # NoWork /\ w.header # current.header
    /\ m_header' = w.header
    /\ startNonce' = w.startNonce
    /\ pc' = "read"
    /\ UNCHANGED <<m_work, stopping, w, current, m_searchBuffer, nonce>>

\* New work: its header goes to the device, the result buffer is cleared, the
\* nonces start anew. A new start nonce under the same header is not looked at.
SwitchWork ==
    /\ pc = "decide" /\ w # NoWork /\ w.header # current.header
    /\ m_header' = w.header
    /\ m_searchBuffer' = Empty
    /\ startNonce' = w.startNonce
    /\ pc' = "read"
    /\ UNCHANGED <<m_work, stopping, w, current, nonce>>

KeepWork ==
    /\ pc = "decide" /\ w # NoWork /\ w.header = current.header
    /\ pc' = "read"
    /\ UNCHANGED <<m_work, stopping, w, current, startNonce, m_header, m_searchBuffer, nonce>>

\* The nonce of the first result. 0 stands for none, so that a solution with nonce 0
\* is not reported.
ReadNonce == (current.startNonce + m_searchBuffer.offset) % Space

\* Mutant: a result stays in the buffer after it was read.
ReadResults_NoReset ==
    /\ pc = "read"
    /\ nonce' = IF m_searchBuffer = Empty \/ ReadNonce = 0 THEN Nothing
                ELSE [header |-> current.header, nonce |-> ReadNonce, found |-> m_searchBuffer]
    /\ pc' = "launch"
    /\ UNCHANGED <<m_work, stopping, w, current, startNonce, m_header, m_searchBuffer>>

\* The blocking read of the results; the first one counts, then the buffer is reset.
ReadResults ==
    /\ pc = "read"
    /\ nonce' = IF m_searchBuffer = Empty \/ ReadNonce = 0 THEN Nothing
                ELSE [header |-> current.header, nonce |-> ReadNonce, found |-> m_searchBuffer]
    /\ m_searchBuffer' = Empty
    /\ pc' = "launch"
    /\ UNCHANGED <<m_work, stopping, w, current, startNonce, m_header>>

\* The kernel runs and may find something; it appends, the first result stays first.
LaunchFinds(offset) ==
    /\ pc = "launch"
    /\ m_searchBuffer' =
          IF m_searchBuffer # Empty THEN m_searchBuffer
          ELSE [header |-> m_header, offset |-> offset,
                nonce |-> (startNonce + offset) % Space]
    /\ pc' = "submit"
    /\ UNCHANGED <<m_work, stopping, w, current, startNonce, m_header, nonce>>

LaunchFindsNothing ==
    /\ pc = "launch"
    /\ pc' = "submit"
    /\ UNCHANGED <<m_work, stopping, w, current, startNonce, m_header, m_searchBuffer, nonce>>

\* Mutant: the start nonce is raised before it is noted.
Submit_RaisesFirst ==
    /\ pc = "submit"
    /\ nonce' = Nothing
    /\ startNonce' = (startNonce + GlobalWorkSize) % Space
    /\ current' = [header |-> w.header, startNonce |-> (startNonce + GlobalWorkSize) % Space]
    /\ pc' = "top"
    /\ UNCHANGED <<m_work, stopping, w, m_header, m_searchBuffer>>

\* The report, then the bookkeeping for the kernel that runs now.
Submit ==
    /\ pc = "submit"
    /\ nonce' = Nothing
    /\ current' = [header |-> w.header, startNonce |-> startNonce]
    /\ startNonce' = (startNonce + GlobalWorkSize) % Space
    /\ pc' = "top"
    /\ UNCHANGED <<m_work, stopping, w, m_header, m_searchBuffer>>

\* An OpenCL call throws: workLoop ends.
ClError ==
    /\ pc \in {"decide", "read", "launch"}
    /\ pc' = "done"
    /\ nonce' = Nothing
    /\ UNCHANGED <<m_work, stopping, w, current, startNonce, m_header, m_searchBuffer>>

\* The thread has left workLoop.
Done == pc = "done" /\ UNCHANGED vars

Mining == \/ TakeWork \/ PauseNoWork \/ SwitchWork \/ KeepWork \/ ReadResults
          \/ (\E offset \in 0 .. GlobalWorkSize - 1 : LaunchFinds(offset))
          \/ LaunchFindsNothing \/ Submit

Next == Mining \/ ClError \/ Stop \/ Done \/ \E p \in Work : SetWork(p)

\* The miner's thread runs, and no kernel hangs.
Fairness == WF_vars(Mining)

Spec == Init /\ [][Next]_vars /\ Fairness

-----------------------------------------------------------------------------
(* Properties.                                                             *)

\* What the miner reports is what a kernel found: the offset it reads is put on the
\* start nonce and the header of the kernel that stored it (current, results[1]).
ReportsWhatWasFound ==
    nonce # Nothing => nonce.header = nonce.found.header /\ nonce.nonce = nonce.found.nonce

\* No solution of replaced work is ever reported: clearing the buffer at a switch
\* drops it, so the stale flag of a Solution from this miner is always false.
NeverStale == nonce # Nothing => nonce.header = w.header

\* Under the same header every batch starts where the one before ended.
BatchesTile == pc \in {"read", "launch"} /\ w.header = current.header
                  => startNonce = (current.startNonce + GlobalWorkSize) % Space

\* What a kernel found for the work the miner looks at.
Unread == IF m_searchBuffer # Empty /\ m_searchBuffer.header = w.header
          THEN {[header |-> m_searchBuffer.header, nonce |-> m_searchBuffer.nonce]} ELSE {}

Service == INSTANCE MinerService WITH
    Nonces <- Nonces,
    work <- m_work.header, mined <- w.header, found <- Unread,
    report <- [header |-> nonce.header, nonce |-> nonce.nonce],
    ended <- pc = "done"

\* workLoop is a miner as the farm needs it, without a kick: the work set last is
\* looked at, what it reports was found for the work it looks at, and is reported
\* once and under its own nonce, and a stop ends it.
ImplementsService == Service!Spec
=============================================================================
