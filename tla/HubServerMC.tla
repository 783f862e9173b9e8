----------------------------- MODULE HubServerMC ----------------------------
(* Instances of HubServer: more sockets than slots, three listeners. *)
EXTENDS HubServer

CONSTANTS l1, l2, l3, s1, s2, s3
=============================================================================
