---------------------------- MODULE MCAuditTamper ---------------------------
(* Constants of AuditTamper for TLC. *)
EXTENDS AuditTamper

MCBody == {"plain", "other"}
MCMask == [b \in MCBody |-> b]
MCKey == {"none", "hmac"}
=============================================================================
