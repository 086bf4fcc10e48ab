---------------------------- MODULE MCPacketChain ----------------------------
(* Small instances of PacketChain; the cfg files choose among these sets.    *)
EXTENDS PacketChain

UserTraffic == {"ReadSettings", "ReadBalanceCurrentCounter", "Timing"}
=============================================================================
