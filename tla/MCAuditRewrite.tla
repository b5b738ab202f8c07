--------------------------- MODULE MCAuditRewrite ---------------------------
(* Constants of AuditRewrite for TLC. *)
EXTENDS AuditRewrite

CONSTANTS w1, w2, w3

MCBody == {"plain", "secret", "masked", "marker"}
MCMask == [b \in MCBody |-> IF b = "secret" THEN "masked" ELSE b]
MCKey == {"none", "hmac"}
SameKey == [w \in Writer |-> "none"]

\* A chain over these texts, written before redaction existed.
ChainOf(bodies) ==
  LET c[i \in DOMAIN bodies] ==
        NewEntry("none", bodies[i], IF i = 1 THEN Genesis ELSE c[i - 1].hash)
  IN  c

\* Intact logs that hold a secret: in a legacy line, at the head, at the tail.
IntactLogs ==
  {<<Legacy("secret")>> \o ChainOf(<<"secret">>), ChainOf(<<"secret", "plain">>), ChainOf(<<"plain", "secret">>)}

\* A redacted log in which the first line has its secret back, under the hash of the
\* masked text or under its own.
HalfRedacted ==
  {<<first>> \o Tail(ChainOf(<<"masked", "plain">>)) :
     first \in {[NewEntry("none", "masked", Genesis) EXCEPT !.body = "secret"],
               NewEntry("none", "secret", Genesis)}}

\* A chain two writers forked; one whose first line is gone; one with a line in
\* the middle that does not parse; one with a foreign-key line in it.
BrokenLogs ==
  {<<NewEntry("none", "secret", Genesis), NewEntry("none", "secret", Genesis)>>,
   Tail(ChainOf(<<"plain", "secret", "plain">>)),
   <<NewEntry("none", "secret", Genesis), Junk, NewEntry("none", "plain", Genesis)>>,
   ChainOf(<<"secret">>) \o
     <<NewEntry("hmac", "plain", NewEntry("none", "secret", Genesis).hash)>>} \cup
  HalfRedacted

AllLogs == IntactLogs \cup BrokenLogs
=============================================================================
