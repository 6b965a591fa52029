------------------------------- MODULE PoolUri ------------------------------
(***************************************************************************)
(* URI (libpoolprotocols/PoolURI.cpp) and PoolConnection.  The text of an  *)
(* address is the record of its parts, "" for a missing one (port 0), that *)
(* network::uri takes it apart into; valid says that it does.              *)
(***************************************************************************)
EXTENDS Integers

\* s_schemes: a family, a level of security and a version of the protocol each.
StratumSchemes ==
    {"stratum+tcp", "stratum1+tcp", "stratum2+tcp", "stratum+tls", "stratum1+tls", "stratum2+tls",
     "stratum+tls12", "stratum1+tls12", "stratum2+tls12", "stratum+ssl", "stratum1+ssl", "stratum2+ssl"}
s_schemes ==
    [s \in StratumSchemes \cup {"http"} |->
        [family  |-> IF s = "http" THEN "GETWORK" ELSE "STRATUM",
         secure  |-> CASE s \in {"stratum+tls", "stratum1+tls", "stratum2+tls"} -> "TLS"
                       [] s \in {"stratum+tls12", "stratum1+tls12", "stratum2+tls12",
                                 "stratum+ssl", "stratum1+ssl", "stratum2+ssl"} -> "TLS12"
                       [] OTHER -> "NONE",
         version |-> CASE s \in {"stratum1+tcp", "stratum1+tls", "stratum1+tls12", "stratum1+ssl"} -> 1
                       [] s \in {"stratum2+tcp", "stratum2+tls", "stratum2+tls12", "stratum2+ssl"} -> 2
                       [] OTHER -> 0]]

\* An address without a scheme is given one that no table has.
URI(parts) == [parts EXCEPT !.scheme = IF @ = "" THEN "unspecified" ELSE @]

KnownScheme(uri) == uri.scheme \in DOMAIN s_schemes
ProtoFamily(uri) == s_schemes[uri.scheme].family
Port(uri) == uri.port % 65536

NoConnection ==
    [host |-> "", port |-> 0, user |-> "", pass |-> "", secLevel |-> "NONE", version |-> 0, path |-> ""]

PoolConnection(uri) ==
    [host |-> uri.host, port |-> Port(uri), user |-> uri.user, pass |-> uri.pass, path |-> uri.path,
     secLevel |-> s_schemes[uri.scheme].secure, version |-> s_schemes[uri.scheme].version]
=============================================================================
