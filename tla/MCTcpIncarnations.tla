------------------------- MODULE MCTcpIncarnations -------------------------
(* Two incarnations whose numbers share the sequence space, and one restart *)
(* of DNet.                                                                 *)
EXTENDS TcpIncarnations

MCIsnOf == <<6, 2>>

MCIssOf == [i \in 0 .. MaxRestarts |-> IF i = 0 THEN 3 ELSE 7]
=============================================================================
