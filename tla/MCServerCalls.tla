---------------------------- MODULE MCServerCalls ----------------------------
(* Constants of ServerCalls for TLC. *)
EXTENDS ServerCalls, TLC

CONSTANTS c1, r1

MCCall == {c1}
MCReader == {r1}
MCLooker == {c1, r1}
=============================================================================
