---------------------------- MODULE AuditTamper -----------------------------
(***************************************************************************)
(* What verify_chain() notices: a chain append() wrote is changed once     *)
(* behind the servers' back, servers keep appending, and anybody verifies. *)
(* The changes are the ones the docstring of proxmox_mcp/audit.py speaks   *)
(* of: altered (in each way its readers tell apart), deleted, reordered or *)
(* forged lines, corruption, truncation.  No code of the repository makes  *)
(* them.                                                                   *)
(***************************************************************************)
EXTENDS AuditChain

CONSTANTS AuditKey,     \* the key of the servers and of the verifier
          ForgedKeys,   \* keys somebody without AuditKey may hash with
          Input,        \* the texts of the entries
          InitLen,      \* bound: length of the log at the start
          MaxLen        \* bound: length after the appends that follow it

ASSUME TamperAssumption ==
  /\ Input \subseteq Body /\ AuditKey \in Key
  /\ ForgedKeys \subseteq Key \ {AuditKey}
  /\ InitLen \in Nat /\ MaxLen \in Nat

VARIABLES log,        \* the file
          rotten,     \* the lines of it whose bytes are not UTF-8
          original,   \* the file as the servers wrote it, appends since included
          change      \* the change made, "none" before

tamperVars == <<log, rotten, original, change>>

\* The lines before `first`, and the chain append() makes of these texts after them,
\* one after the other, under `key`.
ChainFrom(lines, first, key, texts) ==
  LET c[i \in DOMAIN texts] ==
        IF i < first
        THEN lines[i]
        ELSE NewEntry(key, texts[i], IF i = 1 THEN Genesis ELSE c[i - 1].hash)
  IN  c

TamperInit ==
  /\ \E n \in 0..InitLen : \E texts \in [1..n -> Input] : log = ChainFrom(<<>>, 1, AuditKey, texts)
  /\ original = log
  /\ rotten = {} /\ change = "none"

Change(kind, lines, bad) ==
  /\ change = "none"
  /\ log # <<>>
  /\ log' = lines
  /\ log' # log
  /\ rotten' = bad
  /\ change' = kind
  /\ UNCHANGED original

\* The hashes and the entries that can be had without the servers' key.
Stored == {log[i].hash : i \in DOMAIN log} \cup {Genesis}
Edits ==
  {Chained(b, p, h) : b \in Input, p \in Stored, h \in Stored}
  \cup {NewEntry(k, b, p) : k \in ForgedKeys, b \in Input, p \in Stored}

\* One line is edited: its text, its prev, its hash, or all of them.
Alter ==
  \E i \in DOMAIN log, l \in Edits : Change("alter", [log EXCEPT ![i] = l], {})

\* One line is edited so that it has no `hash`, or is JSON but no object.
Unhash ==
  \E i \in DOMAIN log, b \in Input : Change("unhash", [log EXCEPT ![i] = Legacy(b)], {})

\* One line is damaged so that it no longer parses.
Garble ==
  \E i \in DOMAIN log : Change("garble", [log EXCEPT ![i] = Junk], {})

\* One line is damaged so that it is no longer UTF-8 (or nested deeper than json.loads()
\* follows), whatever is left of it.
Rot ==
  \E i \in DOMAIN log, l \in Edits \cup {Junk} \cup {Legacy(b) : b \in Input} :
    Change("rot", [log EXCEPT ![i] = l], {i})

\* Lines i..j are deleted and at least one line after them is kept.
Delete ==
  \E i, j \in DOMAIN log :
    /\ i <= j /\ j < Len(log)
    /\ Change("delete", SubSeq(log, 1, i - 1) \o SubSeq(log, j + 1, Len(log)), {})

\* Two lines change places.
Reorder ==
  \E i, j \in DOMAIN log :
    /\ i < j
    /\ Change("reorder", [[log EXCEPT ![i] = log[j]] EXCEPT ![j] = log[i]], {})

\* Everything from line i on is written again, chained and hashed consistently,
\* under a key that is not the servers'.
Forge ==
  \E i \in DOMAIN log, k \in ForgedKeys, texts \in [DOMAIN log -> Input] :
    Change("forge", ChainFrom(log, i, k, texts), {})

\* The last lines are deleted, whole lines, some are left.
Truncate ==
  \E n \in 1..Len(log) - 1 : Change("truncate", SubSeq(log, 1, n), {})

\* A server appends: to the file as it is now.
AppendEntry ==
  /\ Len(original) < MaxLen
  /\ \E b \in Input :
       /\ log' = Append(log, NewEntry(AuditKey, Mask[b], LastHash(log)))
       /\ original' = Append(original, NewEntry(AuditKey, Mask[b], LastHash(original)))
  /\ UNCHANGED <<change, rotten>>

TamperNext ==
  \/ Alter
  \/ Unhash
  \/ Garble
  \/ Rot
  \/ Delete
  \/ Reorder
  \/ Forge
  \/ Truncate
  \/ AppendEntry

TamperSpec == TamperInit /\ [][TamperNext]_tamperVars

-----------------------------------------------------------------------------
(* Properties *)

\* The log is a sequence of lines; so is what it was.
TamperTypeOK ==
  /\ \A i \in DOMAIN log : IsLine(log[i])
  /\ \A i \in DOMAIN original : IsLine(original[i])
  /\ rotten \subseteq DOMAIN log
  /\ change \in {"none", "alter", "unhash", "garble", "rot", "delete", "reorder", "forge", "truncate"}

\* The first line on which the file differs from what the servers wrote.
FirstDifference ==
  CHOOSE i \in DOMAIN log :
    /\ i \in DOMAIN original => log[i] # original[i]
    /\ \A j \in 1..i - 1 : j \in DOMAIN original /\ log[j] = original[j]

Answers == Verdicts(log, AuditKey, rotten)

\* "altering, deleting or reordering any line ... verify_chain() detects" (audit.py:6-7):
\* the break reported is the first line that differs, so that everything above it can be
\* trusted, as long as the line still has a hash or does not parse; when its bytes are
\* no text any more, all that is reported is that the file cannot be read (line 0).
\* Appends made later never make the break go away or move.
ChangeLocated ==
  /\ change \in {"alter", "garble", "delete", "reorder", "forge"}
       => Answers = {Verdict(FALSE, FirstDifference)}
  /\ change = "rot" => Answers = {Verdict(FALSE, 0)}

\* A line that was made to look as if it had never been chained is passed over
\* (audit.py:237-239): the break is reported at the line behind it, whether that was
\* there or is appended later, and at none where the line was the whole log, since
\* the chain then begins behind it.
UnhashedIsLate ==
  change = "unhash" =>
    LET d == FirstDifference
        last == d = Len(log)
        alone == d = 1 /\ ~last /\ log[2].prev = Genesis
    IN  Answers = {IF last \/ alone THEN Verdict(TRUE, 0) ELSE Verdict(FALSE, d + 1)}

\* No false alarm: an untouched log verifies.
NoFalseAlarm == change = "none" => Answers = {Verdict(TRUE, 0)}
=============================================================================
