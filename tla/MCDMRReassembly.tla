------------------------- MODULE MCDMRReassembly ---------------------------
(***************************************************************************)
(* Model checking of DMRReassembly: shapes of datagrams and channels.      *)
(***************************************************************************)
EXTENDS DMRReassembly

Sound(n, confirmed, sap, reads) ==
  [blocks |-> n, confirmed |-> confirmed, sap |-> sap, pad |-> 0, reads |-> reads,
   verdict |-> "packet"]

\* IP packets; in one block there is no room for the IP header
IP(n)   == Sound(n, FALSE, "ip", IPHeaderSize)
IPC(n)  == Sound(n, TRUE, "ip", IPHeaderSize)

\* compressed headers, their ports in the payload
UDP(n)  == Sound(n, FALSE, "udp", 9)
Moto(n) == Sound(n, FALSE, "moto", 2)

\* every kind of datagram, an empty and a short one included
MCShapes == {IP(0), IP(1), IPC(2), UDP(2), Moto(2)}

\* orderly but for lost and damaged blocks, or everything at once
MCChannels == {[loseHeaders |-> FALSE, disorder |-> FALSE],
               [loseHeaders |-> TRUE, disorder |-> TRUE]}
=============================================================================
