---------------------------- MODULE MCTcpOverArp ----------------------------
(* Model checking of TcpOverArp: who sits where.                            *)
EXTENDS TcpOverArp

CONSTANTS inside, outside, own_net, mac1

\* All connections are of one host of the subnet and share its cache entry.
Hosts == [t \in Tuples |-> inside]

OneMac == [ip \in Ips |-> mac1]
=============================================================================
