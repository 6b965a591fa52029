---------------------------- MODULE MinerService ----------------------------
(***************************************************************************)
(* What a miner promises the farm (Miner and FarmFace, libethcore/Miner.h),*)
(* whatever its device: it mines the work the farm set last, hands in what *)
(* its kernels found for that work, under that work and once, and ends     *)
(* when it is stopped.  CudaMiner and ClMiner implement it.                *)
(***************************************************************************)
CONSTANTS
    Headers,        \* a header stands for the package it comes with
    Nonces,
    NoHeader

VARIABLES
    work,           \* the header of the work the farm set last
    mined,          \* the header of the work the miner looks at
    found,          \* what kernels found for it and nobody has read yet
    report,         \* the solution that is being handed in, or NoReport
    stopping,       \* the farm asked the miner to stop
    ended           \* the miner left its loop

vars == <<work, mined, found, report, stopping, ended>>

NoReport == [header |-> NoHeader, nonce |-> 0]
Solutions(h) == IF h \in Headers THEN [header : {h}, nonce : Nonces] ELSE {}

Init ==
    /\ work = NoHeader /\ mined = NoHeader
    /\ found = {} /\ report = NoReport
    /\ stopping = FALSE /\ ended = FALSE

\* The farm.
SetWork ==
    /\ work' \in Headers
    /\ UNCHANGED <<mined, found, report, stopping, ended>>

Stop ==
    /\ stopping' = TRUE
    /\ UNCHANGED <<work, mined, found, report, ended>>

\* The miner looks at the farm's work; what was found for other work is lost.
Adopt ==
    /\ ~ended /\ report = NoReport
    /\ mined' = work
    /\ found' = found \cap Solutions(work)
    /\ UNCHANGED <<work, report, stopping, ended>>

\* Kernels run; the miner reads one result, or none, of what they had found before,
\* or is done with the one it hands in. It may drop others.
Search ==
    /\ ~ended
    /\ \/ report = NoReport /\ report' \in found
       \/ report' \in {report, NoReport}
    /\ \E new \in SUBSET (Solutions(mined) \ found) :
          found' \subseteq (found \ {report'}) \cup new
    /\ UNCHANGED <<work, mined, stopping, ended>>

\* The miner stops, or its device fails.
End ==
    /\ ended' = TRUE /\ report' = NoReport
    /\ found' \subseteq found
    /\ UNCHANGED <<work, mined, stopping>>

Next == SetWork \/ Stop \/ Adopt \/ Search \/ End

\* The work the farm set is looked at in the end, and a stop is obeyed.
Progress ==
    /\ \A h \in Headers : work = h ~> (mined = h \/ work # h \/ ended)
    /\ stopping ~> ended

Safety == Init /\ [][Next]_vars

Spec == Safety /\ Progress
=============================================================================
