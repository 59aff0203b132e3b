--------------------------- MODULE MCTcpSession ----------------------------
(***************************************************************************)
(* Model checking of TcpSession: the bound on what is in the network at    *)
(* once.  The network may still hold back, repeat and reorder any of it.   *)
(***************************************************************************)
EXTENDS TcpSession, FiniteSets

CONSTANTS MaxToServer, MaxToPeer

FewInFlight ==
    /\ Cardinality(toServer) <= MaxToServer
    /\ Cardinality(toPeer) <= MaxToPeer
=============================================================================
