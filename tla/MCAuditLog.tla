----------------------------- MODULE MCAuditLog -----------------------------
(* Constants of AuditLog for TLC. *)
EXTENDS AuditLog

CONSTANTS w1, w2, w3

\* A text that redact() leaves alone, a text holding a secret, and its masked form.
MCBody == {"plain", "secret", "masked"}
MCMask == [b \in MCBody |-> IF b = "secret" THEN "masked" ELSE b]

\* "none": PROXMOX_AUDIT_HMAC_KEY is not set.
MCKey == {"none", "hmac"}
SameKey == [w \in Writer |-> "none"]
OneForeignKey == [w \in Writer |-> IF w = w1 THEN "hmac" ELSE "none"]

\* A new log; one left by a version that did not chain.
OldLogs == {<<>>, <<Legacy("plain")>>}
=============================================================================
