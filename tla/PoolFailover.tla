---------------------------- MODULE PoolFailover ----------------------------
(***************************************************************************)
(* PoolManager::tryReconnect (libpoolprotocols/PoolManager.cpp) as         *)
(* functions of its members: which connection is tried next and how many   *)
(* tries it has had. Connections are numbered from 1.                      *)
(***************************************************************************)
EXTENDS Integers

CONSTANTS
    NumConnections,     \* m_connections.size()
    ExitConnection,     \* the connection whose host is "exit"; 0 if none
    Tries               \* m_reconnectTries

ASSUME PoolFailoverAssumption ==
    /\ NumConnections \in Nat \ {0} /\ ExitConnection \in 0 .. NumConnections
    /\ Tries \in Nat

\* TRUE iff tryReconnect tries the same connection again.
SameConnection(try) == NumConnections = 1 \/ Tries > try

\* Mutant: nothing uses the tries up.
NextTry_NotCounted(try) == IF SameConnection(try) THEN try ELSE 0

\* m_reconnectTry after tryReconnect.
NextTry(try) ==
    IF NumConnections = 1 THEN try
    ELSE IF SameConnection(try) THEN try + 1 ELSE 0

\* Mutant: the index runs past the last connection.
NextConnection_NoWrap(idx, try) == IF SameConnection(try) THEN idx ELSE idx + 1

\* m_activeConnectionIdx after tryReconnect.
NextConnection(idx, try) ==
    IF SameConnection(try) THEN idx ELSE (idx % NumConnections) + 1

\* TRUE iff tryReconnect stops the manager instead of connecting.
Exits(idx, try) == ~SameConnection(try) /\ NextConnection(idx, try) = ExitConnection
=============================================================================
