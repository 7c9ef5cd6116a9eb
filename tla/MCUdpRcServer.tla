--------------------------- MODULE MCUdpRcServer ---------------------------
(* Small instances of UdpRcServer for TLC. *)
EXTENDS UdpRcServer

Discover == [bus |-> 0, write |-> FALSE, address |-> 0]
Configure == [bus |-> 0, write |-> TRUE, address |-> 0]
DeviceRead == [bus |-> 1, write |-> FALSE, address |-> -1]

LeaseFrames == {<<Configure>>, <<DeviceRead, Configure>>, <<Discover>>}
SurviveFrames == {<<Configure>>}
=============================================================================
