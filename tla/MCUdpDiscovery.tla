--------------------------- MODULE MCUdpDiscovery ---------------------------
(* One or two other hosts, whose clients subscribe to a few channels.      *)
EXTENDS UdpDiscovery
=============================================================================
