---------------------------- MODULE MCNetworkUsers ----------------------------
(* A client process with three threads, and a server process with two       *)
(* connections; a name may have two addresses.                              *)
EXTENDS NetworkUsers

CONSTANTS c1, c2, c3, d1, d2, s1, s2, s3

MCClients == {c1, c2, c3}
MCHandlers == {d1, d2}
MCHandles == {s1, s2, s3}
=============================================================================
