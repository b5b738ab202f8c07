----------------------------- MODULE AuditChain -----------------------------
(***************************************************************************)
(* The hash chain of proxmox_mcp/audit.py as pure operators: what a line   *)
(* of the log is, what append() computes from the tail of the log, what    *)
(* verify_chain() reports about a log, and the log rewrite_redacted()      *)
(* makes of another.  Nothing here changes state.                          *)
(*                                                                         *)
(* A digest is the tuple of everything that is hashed, so two digests are  *)
(* equal exactly when key, text and prev are: SHA-256 and HMAC-SHA256 are  *)
(* taken to be collision free and the key to be part of the input.         *)
(* Plain SHA-256 (no PROXMOX_AUDIT_HMAC_KEY) is one more value of Key.     *)
(***************************************************************************)
EXTENDS Naturals, Sequences, FiniteSets

CONSTANTS Body,     \* the texts an entry may carry (every field but prev, hash)
          Mask,     \* Mask[b]: the text redact() makes of b
          Key,      \* values of PROXMOX_AUDIT_HMAC_KEY; "not set" is one of them
          NoBody    \* stands for the text of a line that does not parse

\* redact() leaves what it has already masked alone (tests/test_redact.py).
ASSUME MaskAssumption ==
  /\ Mask \in [Body -> Body]
  /\ \A b \in Body : Mask[Mask[b]] = Mask[b]
  /\ NoBody \notin Body

Genesis == <<>>       \* the empty `prev` of the first chained entry

Digest(key, body, prev) == <<key, body, prev>>

-----------------------------------------------------------------------------
\* The three sorts of non-blank line: a chained entry; one without `hash`, as
\* entries had none before the chain existed (JSON that is no object is treated
\* alike); and text json.loads() rejects.  A line of which some bytes are not
\* UTF-8 is what it is once they are replaced, as _last_hash() and
\* rewrite_redacted() read it; verify_chain() does not (Verdicts).
Chained(body, prev, hash) ==
  [kind |-> "chained", body |-> body, prev |-> prev, hash |-> hash]

Legacy(body) ==
  [kind |-> "legacy", body |-> body, prev |-> Genesis, hash |-> Genesis]

Junk == [kind |-> "junk", body |-> NoBody, prev |-> Genesis, hash |-> Genesis]

IsLine(l) ==
  \/ l = Junk
  \/ l.body \in Body /\ l = Legacy(l.body)
  \/ l.body \in Body /\ l = Chained(l.body, l.prev, l.hash)

\* A sequence of whatever its elements are: digests nest, so that there is no set
\* of all lines to say Seq() of.
IsSeq(s) == s \in Seq({s[i] : i \in DOMAIN s})

IsLog(log) == IsSeq(log) /\ \A i \in DOMAIN log : IsLine(log[i])

\* Mutants of NewEntry: the digest taken before `prev` is known; an entry whose
\* `hash` is written under a name the readers do not look for.
NewEntryHashedEarly(key, body, prev) ==
  Chained(body, prev, Digest(key, body, Genesis))

NewEntryUnhashed(key, body, prev) ==
  [Chained(body, prev, Digest(key, body, prev)) EXCEPT !.kind = "legacy"]

\* The entry append() writes after reading the tail hash `prev`.
NewEntry(key, body, prev) == Chained(body, prev, Digest(key, body, prev))

\* Mutant of LastHash: one try around the whole file, so that any line that does
\* not parse makes the answer "".
LastHashOfCleanFile(log) ==
  IF /\ log # <<>>
     /\ log[Len(log)].kind = "chained"
     /\ \A i \in DOMAIN log : log[i].kind # "junk"
  THEN log[Len(log)].hash
  ELSE Genesis

\* _last_hash(): the hash of the last line, "" when that line is not chained.
LastHash(log) ==
  IF log # <<>> /\ log[Len(log)].kind = "chained"
  THEN log[Len(log)].hash
  ELSE Genesis

-----------------------------------------------------------------------------
(* verify_chain() *)

ChainedBefore(log, i) == {j \in DOMAIN log : j < i /\ log[j].kind = "chained"}

\* Mutants of PrevExpected: prev_expected is never updated; it is taken back at a
\* line that is not chained.
PrevExpectedStuck(log, i) == Genesis

PrevExpectedOfLine(log, i) ==
  IF i = 1 \/ log[i - 1].kind # "chained" THEN Genesis ELSE log[i - 1].hash

\* prev_expected when the loop is at line i: the stored hash of the closest
\* chained line before it (a broken one too), "" when there is none.
PrevExpected(log, i) ==
  IF ChainedBefore(log, i) = {}
  THEN Genesis
  ELSE LET last == CHOOSE j \in ChainedBefore(log, i) :
                     \A k \in ChainedBefore(log, i) : k <= j
       IN  log[last].hash

HashMatches(key, l) == l.hash = Digest(key, l.body, l.prev)

\* Mutants of Breaks: the comparison with prev_expected forgotten; the hash not
\* recomputed.
BreaksOfHash(log, key) ==
  {i \in DOMAIN log :
     \/ log[i].kind = "junk"
     \/ log[i].kind = "chained" /\ ~HashMatches(key, log[i])}

BreaksOfPrev(log, key) ==
  {i \in DOMAIN log :
     \/ log[i].kind = "junk"
     \/ log[i].kind = "chained" /\ log[i].prev # PrevExpected(log, i)}

\* The lines the loop calls _break() on, where it gets to them.
Breaks(log, key) ==
  {i \in DOMAIN log :
     \/ log[i].kind = "junk"
     \/ /\ log[i].kind = "chained"
        /\ \/ ~HashMatches(key, log[i])
           \/ log[i].prev # PrevExpected(log, i)}

VerifyOk(log, key) == Breaks(log, key) = {}

\* first_break["line"], 0 when there is no break.
FirstBreak(log, key) ==
  IF VerifyOk(log, key)
  THEN 0
  ELSE CHOOSE i \in Breaks(log, key) : \A j \in Breaks(log, key) : i <= j

\* The answer, where the bytes of the lines in `bad` are not UTF-8: reading them
\* raises, which is a break at line 0 unless the loop met one before.  Text is
\* decoded in blocks, so that it may not have come to any line above.
Verdict(ok, line) == [ok |-> ok, line |-> line]

Verdicts(log, key, bad) ==
  IF bad = {}
  THEN {Verdict(VerifyOk(log, key), FirstBreak(log, key))}
  ELSE {Verdict(FALSE, n) : n \in {0} \cup {m \in {FirstBreak(log, key)} : \A i \in bad : m < i}}

-----------------------------------------------------------------------------
(* rewrite_redacted(): the pure part *)

Matched(log, key) ==
  {i \in DOMAIN log : log[i].kind = "chained" /\ HashMatches(key, log[i])}

Mismatched(log, key) ==
  {i \in DOMAIN log : log[i].kind = "chained"} \ Matched(log, key)

\* Mutants of Masked: only chained lines masked; `hash` dropped and not put back.
MaskedIfChained(l) ==
  IF l.kind = "chained" THEN [l EXCEPT !.body = Mask[l.body]] ELSE l

MaskedUnhashed(l) ==
  IF l.kind = "junk" THEN l ELSE [l EXCEPT !.body = Mask[l.body], !.kind = "legacy"]

Masked(l) == IF l.kind = "junk" THEN l ELSE [l EXCEPT !.body = Mask[l.body]]

\* Mutant of Sources: old hashes are not mapped to new ones.
SourcesNone(log, key, i) == {}

\* The matched lines before i whose hash line i names as its `prev`: the entries
\* of the dictionary new_of that the lookup for line i can find.
Sources(log, key, i) ==
  {j \in Matched(log, key) : j < i /\ log[j].hash = log[i].prev}

\* redact_lines() over the whole log.  Text is masked everywhere; a chained line
\* whose hash matched is hashed again over `prev` mapped from the old hash to
\* the new one; one whose hash did not match keeps its stored hash and prev.
Rewritten(log, key) ==
  LET out[i \in DOMAIN log] ==
        LET body == Mask[log[i].body]
            from == Sources(log, key, i)
        IN  IF i \notin Matched(log, key)
            THEN Masked(log[i])
            ELSE NewEntry(key, body,
                          IF from = {}
                          THEN log[i].prev
                          ELSE out[CHOOSE j \in from : \A k \in from : k <= j].hash)
  IN  out
=============================================================================
