---------------------------- MODULE AuditRewrite ----------------------------
(***************************************************************************)
(* rewrite_redacted() of proxmox_mcp/audit.py, run by some of the          *)
(* processes while the others keep appending (AuditLog).  Its steps, in    *)
(* code order: look for <log>.redact-tmp; read the log and redact it,      *)
(* unlocked; lock; read again, decide; create the tmp file; fill and fsync *)
(* it; overwrite the log in place; remove the tmp file; unlock; append the *)
(* marker entry under a lock of its own.                                   *)
(***************************************************************************)
EXTENDS AuditLog

CONSTANTS Rewriter,    \* the processes that run rewrite_redacted()
          Marker,      \* the text of the marker entry
          Forces       \* the values of the `force` argument used

ASSUME RewriterAssumption == /\ Rewriter \subseteq Writer
                             /\ Marker \in Body
                             /\ Forces \subseteq BOOLEAN

VARIABLES rstep,    \* rstep[r]: next step of r's rewrite_redacted(), or "idle"
          force,    \* force[r]: its argument
          done,     \* done[r]: the whole lines r read before it had the lock
          plan,     \* plan[r]: the log r is going to write
          tmp,      \* <log>.redact-tmp: its state and, when complete, its lines
          cut       \* history: a begun in-place write has destroyed lines of the log

rvars == <<rstep, force, done, plan, tmp, cut>>
rewriteVars == <<vars, rvars>>

NoTmp == [state |-> "absent", lines |-> <<>>]
PartialTmp == [state |-> "partial", lines |-> <<>>]

RewriteInit ==
  /\ Init
  /\ rstep = [r \in Rewriter |-> "idle"]
  /\ force = [r \in Rewriter |-> FALSE]
  /\ done = [r \in Rewriter |-> <<>>]
  /\ plan = [r \in Rewriter |-> <<>>]
  /\ tmp = NoTmp
  /\ cut = FALSE

Rewriting(w) == w \in Rewriter /\ rstep[w] # "idle"

\* Room for one more line within MaxLen, the marker entries to come included.
Room ==
  Len(log) + Cardinality(InFlight) + Cardinality({r \in Rewriter : Rewriting(r)})
    < MaxLen

\* A rewriter uses the lock, the log and `torn`; it leaves append()'s own
\* variables to append().
AppendVars == <<pc, entry, prev, locked, damage, forked, lost>>

-----------------------------------------------------------------------------
\* Mutant of CheckTmp: a tmp file that is there is ignored.
CheckNoTmp(r) ==
  /\ rstep[r] = "idle"
  /\ pc[r] = "idle"
  /\ Room
  /\ \E f \in Forces : force' = [force EXCEPT ![r] = f]
  /\ rstep' = [rstep EXCEPT ![r] = "read"]
  /\ UNCHANGED <<vars, done, plan, tmp, cut>>

\* The check at the top, made without the lock; finding the file raises.
CheckTmp(r) ==
  /\ rstep[r] = "idle"
  /\ pc[r] = "idle"
  /\ tmp = NoTmp
  /\ Room
  /\ \E f \in Forces : force' = [force EXCEPT ![r] = f]
  /\ rstep' = [rstep EXCEPT ![r] = "read"]
  /\ UNCHANGED <<vars, done, plan, tmp, cut>>

\* Whole lines only: a line may be mid-append.
ReadUnlocked(r) ==
  /\ rstep[r] = "read"
  /\ done' = [done EXCEPT ![r] = IF torn THEN SubSeq(log, 1, Len(log) - 1) ELSE log]
  /\ rstep' = [rstep EXCEPT ![r] = "lock"]
  /\ UNCHANGED <<vars, force, plan, tmp, cut>>

RewriteLock(r) ==
  /\ rstep[r] = "lock"
  /\ lock = NoWriter
  /\ lock' = r
  /\ rstep' = [rstep EXCEPT ![r] = "decide"]
  /\ UNCHANGED <<AppendVars, log, torn, force, done, plan, tmp, cut>>

\* The end of the call: back to idle, the lock released if it was held.
Leave(r) ==
  /\ rstep' = [rstep EXCEPT ![r] = "idle"]
  /\ lock' = IF lock = r THEN NoWriter ELSE lock
  /\ force' = [force EXCEPT ![r] = FALSE]
  /\ done' = [done EXCEPT ![r] = <<>>]
  /\ plan' = [plan EXCEPT ![r] = <<>>]

\* _lock() returned False: no rewrite without the lock.  A fault of its own, "busy":
\* the lock can stay taken for 10 s and come free for the next append().
RewriteLockFails(r) ==
  /\ rstep[r] = "lock"
  /\ "busy" \in Fault
  /\ Leave(r)
  /\ UNCHANGED <<AppendVars, log, torn, tmp, cut>>

StartsWith(lines, beginning) ==
  /\ Len(beginning) <= Len(lines)
  /\ \A i \in DOMAIN beginning : lines[i] = beginning[i]

\* rewrite_redacted() raises instead of writing: the log it read is no longer a
\* beginning of the file; no chained line verifies (the key is wrong); or some
\* do not and `force` is off.
Refuses(r) ==
  LET bad == Mismatched(log, KeyOf[r])
  IN  \/ ~StartsWith(log, done[r])
      \/ bad # {} /\ (Matched(log, KeyOf[r]) = {} \/ ~force[r])

\* Read again under the lock and refuse, or find nothing to mask or to hash again.
RefuseOrNothing(r) ==
  /\ rstep[r] = "decide"
  /\ Refuses(r) \/ Rewritten(log, KeyOf[r]) = log
  /\ Leave(r)
  /\ UNCHANGED <<AppendVars, log, torn, tmp, cut>>

\* Mutant of Decide: the log is not read again under the lock.
DecideFromDone(r) ==
  /\ rstep[r] = "decide"
  /\ ~Refuses(r)
  /\ Rewritten(done[r], KeyOf[r]) # done[r]
  /\ plan' = [plan EXCEPT ![r] = Rewritten(done[r], KeyOf[r])]
  /\ rstep' = [rstep EXCEPT ![r] = "tmp"]
  /\ UNCHANGED <<vars, force, done, tmp, cut>>

Decide(r) ==
  /\ rstep[r] = "decide"
  /\ ~Refuses(r)
  /\ Rewritten(log, KeyOf[r]) # log
  /\ plan' = [plan EXCEPT ![r] = Rewritten(log, KeyOf[r])]
  /\ rstep' = [rstep EXCEPT ![r] = "tmp"]
  /\ UNCHANGED <<vars, force, done, tmp, cut>>

\* os.open(tmp, O_CREAT | O_TRUNC): whatever the file held is gone.
CreateTmp(r) ==
  /\ rstep[r] = "tmp"
  /\ tmp' = PartialTmp
  /\ rstep' = [rstep EXCEPT ![r] = "fill"]
  /\ UNCHANGED <<vars, force, done, plan, cut>>

\* _write_all() and fsync().
FillTmp(r) ==
  /\ rstep[r] = "fill"
  /\ tmp' = [state |-> "complete", lines |-> plan[r]]
  /\ rstep' = [rstep EXCEPT ![r] = "overwrite"]
  /\ UNCHANGED <<vars, force, done, plan, cut>>

\* What the file may hold after the first bytes of `new` have replaced as many of
\* `old`: some lines of `new`, a line that is half of each, and a rest of `old`
\* (or `old` itself: the first lines are often the same bytes).
Mixes(old, new) ==
  {old} \cup
  UNION {{SubSeq(new, 1, n) \o <<Junk>> \o SubSeq(old, m, Len(old)) :
            m \in 2..Len(old) + 1} : n \in 0..Len(new) - 1}

\* The in-place write, seen before it is complete.
Overwrite(r) ==
  /\ rstep[r] = "overwrite"
  /\ log' \in Mixes(log, plan[r])
  /\ torn' = (torn \/ log'[Len(log')] = Junk)
  /\ rstep' = [rstep EXCEPT ![r] = "finish"]
  /\ cut' = (log' # log)
  /\ UNCHANGED <<AppendVars, lock, force, done, plan, tmp>>

\* The rest of the write and ftruncate(): the file is exactly the new log, so a
\* line an unlocked appender added since Decide is cut off again.
Finish(r) ==
  /\ rstep[r] = "finish"
  /\ log' = plan[r]
  /\ torn' = FALSE
  /\ cut' = FALSE
  /\ rstep' = [rstep EXCEPT ![r] = "unlink"]
  /\ UNCHANGED <<AppendVars, lock, force, done, plan, tmp>>

Unlink(r) ==
  /\ rstep[r] = "unlink"
  /\ tmp' = NoTmp
  /\ rstep' = [rstep EXCEPT ![r] = "unlock"]
  /\ UNCHANGED <<vars, force, done, plan, cut>>

\* Mutant of Unlock: the marker entry is appended with the lock still held.
KeepLocked(r) ==
  /\ rstep[r] = "unlock"
  /\ rstep' = [rstep EXCEPT ![r] = "marker"]
  /\ UNCHANGED <<vars, force, done, plan, tmp, cut>>

\* The lock goes first, then append() is called for the marker entry.
Unlock(r) ==
  /\ rstep[r] = "unlock"
  /\ lock' = NoWriter
  /\ rstep' = [rstep EXCEPT ![r] = "marker"]
  /\ UNCHANGED <<AppendVars, log, torn, force, done, plan, tmp, cut>>

AppendMarker(r) ==
  /\ rstep[r] = "marker"
  /\ Open(r, Marker)
  /\ rstep' = [rstep EXCEPT ![r] = "idle"]
  /\ force' = [force EXCEPT ![r] = FALSE]
  /\ done' = [done EXCEPT ![r] = <<>>]
  /\ plan' = [plan EXCEPT ![r] = <<>>]
  /\ UNCHANGED <<tmp, cut>>

\* The process dies, or a write fails (disk full) and the exception ends the call.
RewriteCrash(r) ==
  /\ rstep[r] \notin {"idle", "marker"}
  /\ "crash" \in Fault
  /\ Leave(r)
  /\ UNCHANGED <<AppendVars, log, torn, tmp, cut>>

\* "restore it over the log": the operator does, with every server stopped.
Restore ==
  /\ tmp # NoTmp
  /\ InFlight = {}
  /\ \A r \in Rewriter : ~Rewriting(r)
  /\ log' = tmp.lines
  /\ torn' = FALSE
  /\ tmp' = NoTmp
  /\ cut' = FALSE
  /\ UNCHANGED <<AppendVars, lock, rstep, force, done, plan>>

-----------------------------------------------------------------------------
RewriteStep(r) ==
  \/ ReadUnlocked(r)
  \/ RewriteLock(r)
  \/ RewriteLockFails(r)
  \/ RefuseOrNothing(r)
  \/ Decide(r)
  \/ CreateTmp(r)
  \/ FillTmp(r)
  \/ Overwrite(r)
  \/ Finish(r)
  \/ Unlink(r)
  \/ Unlock(r)
  \/ AppendMarker(r)

RewriteNext ==
  \/ /\ \/ \E w \in Writer, b \in Input : ~Rewriting(w) /\ Room /\ Open(w, b)
        \/ \E w \in Writer : Step(w) \/ Crash(w)
     /\ UNCHANGED rvars
  \/ \E r \in Rewriter : CheckTmp(r) \/ RewriteStep(r) \/ RewriteCrash(r)
  \/ Restore

RewriteSpec == RewriteInit /\ [][RewriteNext]_rewriteVars

\* As in AuditLog: a call that has begun goes on, and flock() serves its waiters
\* in turn.
RewriteFairness ==
  /\ \A w \in Writer : WF_rewriteVars(Step(w) /\ UNCHANGED rvars)
  /\ \A w \in Writer : SF_rewriteVars(AcquireLock(w) /\ UNCHANGED rvars)
  /\ \A r \in Rewriter : WF_rewriteVars(RewriteStep(r))
  /\ \A r \in Rewriter : SF_rewriteVars(RewriteLock(r))

FairRewriteSpec == RewriteSpec /\ RewriteFairness

-----------------------------------------------------------------------------
(* Properties *)

\* Every variable of the rewrite has its type, and so have append()'s.
RewriteTypeOK ==
  /\ TypeOK
  /\ rstep \in [Rewriter -> {"idle", "read", "lock", "decide", "tmp", "fill",
                             "overwrite", "finish", "unlink", "unlock", "marker"}]
  /\ force \in [Rewriter -> BOOLEAN]
  /\ \A r \in Rewriter :
       /\ \A i \in DOMAIN done[r] : IsLine(done[r][i])
       /\ \A i \in DOMAIN plan[r] : IsLine(plan[r][i])
  /\ tmp.state \in {"absent", "partial", "complete"}
  /\ \A i \in DOMAIN tmp.lines : IsLine(tmp.lines[i])
  /\ cut \in BOOLEAN

\* Once the log has been overwritten it holds no text redact() would change, the
\* lines other processes appended between the unlocked read and the lock included.
SecretsGone ==
  \A r \in Rewriter : rstep[r] \in {"unlink", "unlock", "marker"} =>
    \A i \in DOMAIN log : log[i].kind # "junk" => Mask[log[i].body] = log[i].body

\* Line i breaks the chain of `lines` and not that of their redacted form: it holds a
\* secret where the masked text was hashed, or names the hash its predecessor gets.
Mended(lines, new, key, i) ==
  \/ ~HashMatches(key, lines[i]) /\ HashMatches(key, new[i])
  \/ /\ HashMatches(key, lines[i])
     /\ lines[i].prev # PrevExpected(lines, i)
     /\ lines[i].prev = PrevExpected(new, i)

\* "An intact chain stays intact and a pre-existing `prev` break stays visible":
\* the log about to be written breaks first on the line the log breaks first on,
\* unless that is a line the masking itself puts right.  This is about logs that are
\* UTF-8: one that is not breaks at line 0, and at a line once it is rewritten, since
\* redact_lines() replaces the bytes that cannot be decoded.
FirstBreakKept ==
  \A r \in Rewriter : rstep[r] \in {"tmp", "fill", "overwrite"} =>
    LET i == FirstBreak(log, AuditKey)
    IN  \/ FirstBreak(plan[r], AuditKey) = i
        \/ i # 0 /\ log[i].kind = "chained" /\ Mended(log, plan[r], AuditKey, i)

\* While an in-place write is unfinished, or was cut short and not repaired, the
\* tmp file is there and complete: the lines the write has destroyed are in it.
OnlyCopyKept == cut => tmp.state = "complete"

\* "An intact chain stays intact", end to end: a log that was sound when the
\* processes started verifies at every moment, whatever is appended, rewritten,
\* abandoned or restored in between, except while an in-place write is under way
\* or, cut short, waits to be repaired.
ChainSurvives == Sound(log) => [](damage = 0 /\ ~cut => VerifyOk(log, AuditKey))

\* A rewrite ends whatever the appenders do; in particular it does not wait for
\* the lock it holds when it appends its marker entry.
RewriteFinishes ==
  \A r \in Rewriter : rstep[r] # "idle" ~> rstep[r] = "idle" /\ pc[r] = "idle"

-----------------------------------------------------------------------------
(* Refinement of AuditTrail *)

MaskedTexts(lines) ==
  [i \in DOMAIN lines |->
     IF lines[i].kind = "junk" THEN NoBody ELSE Mask[lines[i].body]]

\* The entries the log stands for: in the middle of an in-place write, those of
\* the log being written.
Logical ==
  IF \E r \in Rewriter : rstep[r] = "finish"
  THEN plan[CHOOSE r \in Rewriter : rstep[r] = "finish"]
  ELSE log

RewriteTrail == INSTANCE AuditTrail WITH
                  Text <- {Mask[b] : b \in Input \cup {Marker}},
                  NoText <- NoBody,
                  InitTrails <- {MaskedTexts(lines) : lines \in InitLogs},
                  trail <- MaskedTexts(Logical),
                  phase <- Phase,
                  text <- entry

\* "Concurrent appends are never lost": up to masking, a rewrite changes nothing
\* the log records; it neither loses, repeats nor reorders an entry, whenever the
\* other processes append.
RewriteKeepsTrail == RewriteTrail!TrailSpec
=============================================================================
