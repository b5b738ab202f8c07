--------------------------- MODULE MCSnapshotGuard ---------------------------
(* SnapshotGuard on a container with a scratch and a daily snapshot, and a *)
(* second container with a daily one.                                      *)
EXTENDS SnapshotGuard, TLC

CONSTANTS ct1, ct2, vzdump, daily

TwoGuests == {<<ct1, vzdump>>, <<ct1, daily>>, <<ct2, daily>>}
OneGuest == {<<ct1, vzdump>>, <<ct1, daily>>}
\* None; one of each sort, of ct1 or of an unknown guest; two, as in a loop.
Literal(ds, span) == {r \in Ref : r.ds = ds /\ r.name = daily /\ r.span = span}
SomeRefs ==
    {{}, {RefOf(<<ct1, daily>>), RefOf(<<ct2, daily>>)}}
    \cup {{r} : r \in {r \in Literal("guest", TRUE) \cup Literal("guest", FALSE) : r.guest = ct1}}
    \cup {{r} : r \in Literal("unknown", TRUE) \cup Literal("unknown", FALSE)}
    \cup {{r} : r \in {r \in Literal("parent", FALSE) : r.deep}}
OneRef == {{}} \cup {{r} : r \in Ref}
Callers == Permutations(Caller)
=============================================================================
