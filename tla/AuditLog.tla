------------------------------ MODULE AuditLog ------------------------------
(***************************************************************************)
(* Several MCP server processes appending to one audit log:                *)
(* proxmox_mcp/audit.py append(), with _lock(), _last_hash() and           *)
(* _unlock().  append() is five steps that other processes interleave      *)
(* with: open the file, obtain the lock (or fail to), read the tail hash,  *)
(* write the line, release.  A process may crash before any of them; the   *)
(* kernel then releases its flock.                                         *)
(*                                                                         *)
(* Fault names what may go wrong in a run:                                 *)
(*   "nolock"  _lock() returns False (Windows: 10 s passed; POSIX: flock() *)
(*             raised): append() goes on and writes without the lock       *)
(*   "noread"  _last_hash() caught an exception and returned ""            *)
(*   "short"   os.write() wrote only the beginning of the line             *)
(*   "nowrite" os.write(), or what precedes it, raised: nothing written    *)
(*   "crash"   the process dies                                            *)
(***************************************************************************)
EXTENDS AuditChain

CONSTANTS Writer,     \* the processes sharing the log
          NoWriter,   \* the lock is free
          KeyOf,      \* KeyOf[w]: the key process w was started with
          AuditKey,   \* the key the verifier was started with
          Fault,      \* the faults that may happen, see above
          InitLogs,   \* the logs the processes may find when they start
          Input,      \* the texts the tools hand to append()
          MaxLen,     \* bound: no call is made that could make the log longer
          MaxDamage   \* bound: how many faults that can break the chain happen

ASSUME WriterAssumption == NoWriter \notin Writer
ASSUME KeyAssumption == KeyOf \in [Writer -> Key] /\ AuditKey \in Key
ASSUME InputAssumption == Input \subseteq Body
ASSUME InitLogsAssumption == \A lines \in InitLogs : IsLog(lines)
ASSUME BoundAssumption == MaxLen \in Nat /\ MaxDamage \in Nat

VARIABLES log,      \* the lines of the file, blank lines left out
          torn,     \* the last line has no newline yet
          lock,     \* the process holding the exclusive lock, or NoWriter
          pc,       \* pc[w]: the next step of w's append(), "idle" outside it
          entry,    \* entry[w]: the masked text w is appending
          prev,     \* prev[w]: the tail hash w read
          locked,   \* locked[w]: what _lock() returned to w
          damage,   \* history: faults so far that can break the chain
          forked,   \* history: some line was written over a stale tail hash
          lost      \* history: a write failed or was cut short

vars == <<log, torn, lock, pc, entry, prev, locked, damage, forked, lost>>

Init ==
  /\ log \in InitLogs
  /\ torn = FALSE
  /\ lock = NoWriter
  /\ pc = [w \in Writer |-> "idle"]
  /\ entry = [w \in Writer |-> NoBody]
  /\ prev = [w \in Writer |-> Genesis]
  /\ locked = [w \in Writer |-> FALSE]
  /\ damage = 0
  /\ forked = FALSE
  /\ lost = FALSE

-----------------------------------------------------------------------------
\* Mutant of Glued: the text of a glued line is taken for readable.
GluedReadable(l) ==
  IF torn THEN [log EXCEPT ![Len(log)] = [l EXCEPT !.kind = "junk"]] ELSE Append(log, l)

\* The file after text that reads as line l was added at its end: after a torn
\* line the two make one line that does not parse.
Glued(l) ==
  IF torn THEN [log EXCEPT ![Len(log)] = Junk] ELSE Append(log, l)

\* append() is called: mask the text and open the file (creating it).
Open(w, b) ==
  /\ pc[w] = "idle"
  /\ pc' = [pc EXCEPT ![w] = "lock"]
  /\ entry' = [entry EXCEPT ![w] = Mask[b]]
  /\ UNCHANGED <<log, torn, lock, prev, locked, damage, forked, lost>>

\* Mutant of AcquireLock: a shared lock.
AcquireSharedLock(w) ==
  /\ pc[w] = "lock"
  /\ lock' = w
  /\ locked' = [locked EXCEPT ![w] = TRUE]
  /\ pc' = [pc EXCEPT ![w] = "read"]
  /\ UNCHANGED <<log, torn, entry, prev, damage, forked, lost>>

AcquireLock(w) ==
  /\ pc[w] = "lock"
  /\ lock = NoWriter
  /\ lock' = w
  /\ locked' = [locked EXCEPT ![w] = TRUE]
  /\ pc' = [pc EXCEPT ![w] = "read"]
  /\ UNCHANGED <<log, torn, entry, prev, damage, forked, lost>>

\* Mutant of LockFails: without the lock the entry is dropped.
LockFailsDropsEntry(w) ==
  /\ pc[w] = "lock"
  /\ "nolock" \in Fault
  /\ damage < MaxDamage
  /\ locked' = [locked EXCEPT ![w] = FALSE]
  /\ damage' = damage + 1
  /\ pc' = [pc EXCEPT ![w] = "close"]
  /\ UNCHANGED <<log, torn, lock, entry, prev, forked, lost>>

\* "If the lock can't be had within ~10 s the line is written anyway."
LockFails(w) ==
  /\ pc[w] = "lock"
  /\ "nolock" \in Fault
  /\ damage < MaxDamage
  /\ locked' = [locked EXCEPT ![w] = FALSE]
  /\ damage' = damage + 1
  /\ pc' = [pc EXCEPT ![w] = "read"]
  /\ UNCHANGED <<log, torn, lock, entry, prev, forked, lost>>

ReadTail(w) ==
  /\ pc[w] = "read"
  /\ prev' = [prev EXCEPT ![w] = LastHash(log)]
  /\ pc' = [pc EXCEPT ![w] = "write"]
  /\ UNCHANGED <<log, torn, lock, entry, locked, damage, forked, lost>>

ReadTailFails(w) ==
  /\ pc[w] = "read"
  /\ "noread" \in Fault
  /\ damage < MaxDamage
  /\ prev' = [prev EXCEPT ![w] = Genesis]
  /\ damage' = damage + 1
  /\ pc' = [pc EXCEPT ![w] = "write"]
  /\ UNCHANGED <<log, torn, lock, entry, locked, forked, lost>>

\* os.write() took the whole line.  One write() on an O_APPEND descriptor lands
\* in one piece at the end of the file, whoever else is writing.
WriteLine(w) ==
  /\ pc[w] = "write"
  /\ log' = Glued(NewEntry(KeyOf[w], entry[w], prev[w]))
  /\ torn' = FALSE
  /\ forked' = (forked \/ prev[w] # LastHash(log))
  /\ damage' = IF KeyOf[w] = AuditKey THEN damage ELSE damage + 1
  /\ pc' = [pc EXCEPT ![w] = "close"]
  /\ UNCHANGED <<lock, entry, prev, locked, lost>>

\* os.write() took only a beginning of the line (its result is not looked at):
\* text that does not parse, or all of the entry but its newline.
WriteShort(w) ==
  /\ pc[w] = "write"
  /\ "short" \in Fault
  /\ damage < MaxDamage
  /\ \E l \in {Junk, NewEntry(KeyOf[w], entry[w], prev[w])} : log' = Glued(l)
  /\ torn' = TRUE
  /\ damage' = damage + 1
  /\ forked' = (forked \/ prev[w] # LastHash(log))
  /\ lost' = TRUE
  /\ pc' = [pc EXCEPT ![w] = "close"]
  /\ UNCHANGED <<lock, entry, prev, locked>>

\* An exception between the lock and the end of os.write(): swallowed.
WriteFails(w) ==
  /\ pc[w] = "write"
  /\ "nowrite" \in Fault
  /\ lost' = TRUE
  /\ pc' = [pc EXCEPT ![w] = "close"]
  /\ UNCHANGED <<log, torn, lock, entry, prev, locked, damage, forked>>

\* Mutants of Release: any process leaving frees the lock (as POSIX fcntl locks of
\* one process are freed by closing any descriptor); nobody frees it.
ReleaseAnyLock(w) ==
  /\ lock' = NoWriter
  /\ locked' = [locked EXCEPT ![w] = FALSE]
  /\ pc' = [pc EXCEPT ![w] = "idle"]
  /\ entry' = [entry EXCEPT ![w] = NoBody]
  /\ prev' = [prev EXCEPT ![w] = Genesis]
  /\ UNCHANGED <<log, torn, damage, forked, lost>>

ReleaseNothing(w) ==
  /\ locked' = [locked EXCEPT ![w] = FALSE]
  /\ pc' = [pc EXCEPT ![w] = "idle"]
  /\ entry' = [entry EXCEPT ![w] = NoBody]
  /\ prev' = [prev EXCEPT ![w] = Genesis]
  /\ UNCHANGED <<log, torn, lock, damage, forked, lost>>

\* _unlock() and os.close(): either releases the lock if this process has it.
Release(w) ==
  /\ lock' = IF locked[w] THEN NoWriter ELSE lock
  /\ locked' = [locked EXCEPT ![w] = FALSE]
  /\ pc' = [pc EXCEPT ![w] = "idle"]
  /\ entry' = [entry EXCEPT ![w] = NoBody]
  /\ prev' = [prev EXCEPT ![w] = Genesis]
  /\ UNCHANGED <<log, torn, damage, forked, lost>>

Close(w) ==
  /\ pc[w] = "close"
  /\ Release(w)

Crash(w) ==
  /\ pc[w] # "idle"
  /\ "crash" \in Fault
  /\ Release(w)

-----------------------------------------------------------------------------
InFlight == {w \in Writer : pc[w] # "idle"}

\* A tool calls append(); no call is made that could make the log exceed MaxLen.
Call(w, b) ==
  /\ Len(log) + Cardinality(InFlight) < MaxLen
  /\ Open(w, b)

Step(w) ==
  \/ AcquireLock(w)
  \/ LockFails(w)
  \/ ReadTail(w)
  \/ ReadTailFails(w)
  \/ WriteLine(w)
  \/ WriteShort(w)
  \/ WriteFails(w)
  \/ Close(w)

Next ==
  \/ \E w \in Writer, b \in Input : Call(w, b)
  \/ \E w \in Writer : Step(w) \/ Crash(w)

Spec == Init /\ [][Next]_vars

\* A process in append() keeps running (every call in it returns), and flock()
\* serves its waiters in turn.
Fairness ==
  /\ \A w \in Writer : WF_vars(Step(w))
  /\ \A w \in Writer : SF_vars(AcquireLock(w))

FairSpec == Spec /\ Fairness

-----------------------------------------------------------------------------
(* Properties *)

\* Every variable has its type.  prev[w] is a digest or Genesis; digests nest,
\* so their type is left open.
TypeOK ==
  /\ IsLog(log)
  /\ torn \in BOOLEAN
  /\ lock \in Writer \cup {NoWriter}
  /\ pc \in [Writer -> {"idle", "lock", "read", "write", "close"}]
  /\ entry \in [Writer -> Body \cup {NoBody}]
  /\ DOMAIN prev = Writer
  /\ locked \in [Writer -> BOOLEAN]
  /\ damage \in Nat
  /\ forked \in BOOLEAN
  /\ lost \in BOOLEAN

\* A log append() alone has written, without a fault: lines from before the chain
\* first, then a chain of lines that name their predecessor.
Sound(lines) ==
  /\ \A i \in DOMAIN lines : lines[i].kind # "junk"
  /\ \A i, j \in DOMAIN lines :
       i < j /\ lines[i].kind = "chained" => lines[j].kind = "chained"
  /\ \A i \in DOMAIN lines : lines[i].kind = "chained" =>
       /\ HashMatches(AuditKey, lines[i])
       /\ lines[i].prev = IF i > 1 /\ lines[i - 1].kind = "chained"
                          THEN lines[i - 1].hash
                          ELSE Genesis

InitLogsSound == \A lines \in InitLogs : Sound(lines)

\* Why the chain holds.  Before the first fault each process between the lock and
\* its write has the lock, only one can, and the tail hash it read is still the
\* log's; that is what makes ChainIntact survive WriteLine.
LockInv ==
  /\ \A w \in Writer : locked[w] => lock = w
  /\ \A w \in Writer : locked[w] => pc[w] \in {"read", "write", "close"}

ChainInv ==
  damage = 0 =>
    /\ ~torn
    /\ Sound(log)
    /\ \A w \in Writer : pc[w] \in {"read", "write"} => locked[w]
    /\ \A w \in Writer : pc[w] = "write" => prev[w] = LastHash(log)

\* Several servers writing one log leave a chain verify_chain() accepts, at every
\* moment, as long as each of them got the lock, read the tail, wrote whole
\* lines and had the verifier's key (the promise of the module's docstring).
ChainIntact == damage = 0 => VerifyOk(log, AuditKey)

\* "A visible break beats a lost entry": once a line has been written over a
\* stale tail hash, verify_chain() reports a break, and never stops doing so (at
\* line 0, where a short write cut a character in two: Verdicts).
ForkVisible == forked => ~VerifyOk(log, AuditKey)

\* One fault does not spread: an append without the lock, a failed tail read, a
\* write cut short or a line under another key breaks at most two lines, however
\* many appends follow it.  This counts lines: where a short write cut a character
\* in two, verify_chain() says at line 0 that the log is broken and looks no further.
NoCascade == Cardinality(Breaks(log, AuditKey)) <= 2 * damage

\* The processes that write without the lock, and the process that has it and is
\* about to write over a tail hash which is no longer the log's.
Unlocked == {w \in Writer : pc[w] \in {"read", "write"} /\ ~locked[w]}

StaleHolder == \E w \in Writer : locked[w] /\ pc[w] = "write" /\ prev[w] # LastHash(log)

\* The breaks among the lines that no append will change any more.
Final == IF torn THEN Len(log) - 1 ELSE Len(log)

SettledBreaks == {i \in Breaks(log, AuditKey) : i <= Final}

\* The breaks the tail of the log may still cause: a torn line is spoiled by the next
\* write, and the line after one that does not parse names no predecessor.
TailDebt ==
  IF torn THEN 2 ELSE IF log # <<>> /\ log[Len(log)].kind = "junk" THEN 1 ELSE 0

\* Why one fault does not spread: the two breaks it may cost are either in the log
\* already, or still owed by the tail, by a process that will write without the
\* lock (its own line, and that of the process it overtakes) or by one overtaken.
CascadeInv ==
  Cardinality(SettledBreaks) + TailDebt + (IF StaleHolder THEN 1 ELSE 0)
    + 2 * Cardinality(Unlocked) <= 2 * damage

\* Every append() comes to an end, whatever fails in it and whoever else is
\* appending or dies while holding the lock: logging never blocks a tool.
AppendFinishes == \A w \in Writer : pc[w] # "idle" ~> pc[w] = "idle"

-----------------------------------------------------------------------------
(* Refinement of AuditTrail *)

Texts(lines) == [i \in DOMAIN lines |-> lines[i].body]

\* The texts on record: a line without its newline is not, since whatever comes
\* next spoils it.
OnRecord == [i \in 1..IF torn THEN Len(log) - 1 ELSE Len(log) |-> log[i].body]

Phase ==
  [w \in Writer |-> CASE pc[w] = "idle"  -> "idle"
                      [] pc[w] = "close" -> "recorded"
                      [] OTHER           -> "pending"]

Trail == INSTANCE AuditTrail WITH
           Text <- {Mask[b] : b \in Input},
           NoText <- NoBody,
           InitTrails <- {Texts(lines) : lines \in InitLogs},
           trail <- OnRecord,
           phase <- Phase,
           text <- entry

\* Each finished append() has put its masked text into the log exactly once, at
\* its end, also when it never got the lock or another process died holding it;
\* a text is lost only to a write that failed or was cut short, its own or the
\* one just before, and a line once written whole is never touched again.
RecordsEveryAppend == Trail!TrailSpec
=============================================================================
