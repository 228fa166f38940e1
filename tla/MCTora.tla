------------------------------- MODULE MCTora -------------------------------
(* Tora with three nodes and a fault, and with four nodes and none. *)
EXTENDS Tora, ToraPackets

MCNodes == 1 .. 4
Line == {{1, 2}, {2, 3}}
Apart == {{2, 3}}
Triangle == {{1, 2}, {2, 3}, {1, 3}}
LongLine == {{1, 2}, {2, 3}, {3, 4}}
Square == {{1, 2}, {1, 3}, {2, 4}, {3, 4}}
MCTopologies == {Line, Apart, Triangle, LongLine, Square}
MCMaxFaults == [t \in MCTopologies |-> IF t \in {LongLine, Square} THEN 0 ELSE 1]
MCPackets == [t \in MCTopologies |-> IF t = LongLine THEN {"a", "b"} ELSE {"a"}]

\* The packet m of the model as it is handed to the radio: r is 0 in every height.
OnAir(m) ==
  IF m = Qry THEN QryHeader(Dest)
  ELSE LET h == m[2] IN UpdHeader(Dest, Height(h[1], h[2], FALSE, h[3], h[4]))

\* Every packet on the air is read as it was written, and so is one with the least and the
\* greatest values (tora-packet.cc); the nodes keep their queues as they should.
ToraRight == Inv /\ LimitsArrive /\ \A m \in net : Arrives(OnAir(m[3]))
=============================================================================
