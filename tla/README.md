# A TLA+ model of homelab-proxmox-mcp

`proxmox_mcp` is an MCP server: a language-model client calls its 52 tools, and the
tools act on a live Proxmox VE (PVE) cluster over its REST API, over SSH on the host
and over SSH in guests.  Several server processes may run at once, one per client,
against the same host and the same audit logs.  This directory holds TLA+ modules of
the parts that are hard to get right, TLC configurations that check them, and proofs
that the TLA+ proof system (TLAPS) checks.  Paths below are relative to
`src/proxmox_mcp/`.

## 1. Inventory

| component | code | state it keeps | operations | modelled in |
|---|---|---|---|---|
| audit log | `audit.py`, `tools/audit_verify.py` | the log file, its lock, the hash chain | `append`, `verify_chain`, `read_entries` | AuditChain, AuditLog, AuditTrail, AuditTamper; AuditChainProofs, AuditLogProofs, AuditTamperProofs |
| redaction rewrite | `audit.py` `rewrite_redacted` | the log, `<log>.redact-tmp` | mask an old log in place and rebuild its chain | AuditRewrite; AuditRewriteProofs |
| registered-snapshot guard | `pve_snapshots.py`, `tools/ssh_zfs.py`, `tools/backup_maint.py`, `tools/host_ssh.py` | none of its own: ZFS snapshots and guest configs on the host | `load_registered`, `registered_hits`, three destroying tools | SnapshotGuard; SnapshotGuardProofs |
| flag gates | `format.py`, every changing tool in `tools/` | none | `confirm`, `dry_run`, `force`, `i_understand_data_loss` | ToolGates, ToolCalls; ToolCallsProofs |
| operator approval | `operator_ack.py`, `tools/snapshots.py` | the pending question | ask, accept, decline, cancel | ToolCalls |
| task polling | `http_client.py` | none: tasks on the host | `post`, `wait_for_task` | ToolCalls |
| guest type cache | `tools/vms.py` | `_VM_TYPE_CACHE` | `_resolve_vm_type` | GuestTypes, ServerCalls; ServerCallsProofs |
| destructive-command scanner | `host_ssh.py`, `vm_ssh.py` | none | `is_destructive` | ShellText, ShellGate, ShellForms, ExecTools; ExecToolsProofs |
| read-only allow-list | `read_allow.py`, `tools/host_read.py` | none | `check`, the tool | ReadSpec, ReadAllow, HostShell, ExecTools; ExecToolsProofs |
| SSH sessions | `host_ssh.py`, `ssh.py`, `vm_ssh.py` | connections | connect, run, time out, close, audit | ExecTools (`host_ssh.py`, `vm_ssh.py`); SshCommands, ServerCalls (`ssh.py`) |
| secret redaction | `redact.py` | none | `redact` | no: regular expressions over text |
| server, configuration, input models | `server.py`, `config.py`, `models.py`, ... | environment, read once | start-up | no: nothing changes afterwards |
| listing tools | `tools/nodes.py`, `storage.py`, `disks.py`, `lvm.py`, `zfs.py`, `overview.py`, `diag_read.py` | none | GET and format | no: no state |

How they interact.  host_exec, lxc_exec and vm_exec (over a pattern list of its
own) run `is_destructive` and the flag gate, host_exec then
`registered_hits` when the command says `zfs destroy`, then an SSH exec, then
`audit.append`.  The typed ZFS tools go through `registered_hits` and SSH; the REST
tools go through the flag gates, for `proxmox_snapshot` through the operator, then
through `http_client.post` and `wait_for_task`.  No component calls back into another:
they share the host, the audit files and, within one process, the guest type cache.

What is hard, and the properties that make each part correct:

* *Audit log.*  Several processes append to one file.  Each reads the hash of the last
  line and writes a line that names it; the lock can fail, be missing or be left by a
  process that died; a write can be cut short; the processes may have different keys.
  Correct: without a fault the chain is intact at every moment; with faults no entry is
  lost silently, damage is visible and does not spread; every append ends.
* *Rewrite.*  A slow pass over the log without the lock, a second one with it, a copy, an
  in-place write, and a crash anywhere.  Correct: nothing appended meanwhile is lost,
  no secret is left, an existing break neither moves nor disappears, and what an
  interrupted write has destroyed is in the copy.
* *Snapshot guard.*  A guest snapshot is two things (a ZFS snapshot and a section of the
  guest's configuration), read at different moments over SSH while PVE, sanoid and
  other calls change both.  Correct: what a call has seen registered it does not destroy;
  the pattern tool never leaves a section without its snapshot; and the cleanup tool
  destroys nothing a running backup needs, which is false.
* *Gates, approval, tasks.*  A flag is tested on one path and not on another; the
  operator's answer, the probe of the target and the change itself are separate
  exchanges; an answer is lost after the change was accepted.  Correct: nothing changes
  without consent, nothing is lost without the second flag, and a report of success is
  true.
* *Scanner and allow-list.*  Correct: what a shell would run as a destructive command is
  found through quoting, substitution and wrappers; what the allow-list lets pass reads
  only.
* *Guest types.*  A power action's URL says whether its guest is a VM or a container, and
  the answer to that is cached, shared by calls, late, and about a guest that may have
  been replaced.  Correct: a wrong type is a young guest or a caller's own hint.
* *SSH sessions.*  The command, its time limits on the host and inside the container, the
  tool's own limit, the connection and a client that cancels are independent of each
  other.  Correct: a command that ran has its record, also when it timed out; nothing of
  it stays behind; connections are closed.

`PROJECT.json` lists the hazards one by one with their lines.

## 2. Plan

1. AuditChain, AuditTrail, AuditLog, AuditTamper, AuditRewrite, and the proofs about
   them: done.
2. SnapshotGuard and SnapshotGuardProofs: done.
3. ToolGates, ToolCalls, ToolCallsProofs: done.
4. GuestTypes (the type cache), SshCommands (`ssh.py`), and ServerCalls, which composes
   both with ToolCalls and is proved to implement it: done.
5. ReadSpec, ReadAllow, HostShell, ExecTools, and ExecToolsProofs: done.
6. ShellText, ShellGate, ShellForms (the destructive-command scanner against lines built
   by bash's grammar), composed into ExecTools: done.
7. Left: further wrapper tables and interpreters in ShellGate's vocabulary; the audit
   log's reader (`read_entries`).

Modules to be proved about declare no RECURSIVE operator; parameters are CONSTANTS with
named assumptions; invariants are conjunctions of named parts.  Facts that hold of every
log, text and key are in AuditChainProofs, which the other three modules of theorems
about the audit log cite.

## 3. The audit log

### AuditChain (pure)

A line is *chained* (it has `prev` and `hash`), *legacy* (JSON without `hash`) or *junk*
(does not parse).  A digest is the tuple of what is hashed, so that it is collision free
by construction, and a key is one more element of the tuple ("not set" is a key too).
`NewEntry`, `LastHash`, `Breaks`, `FirstBreak`, `Matched` and `Rewritten` are
`_entry_hash` with the entry `append` builds, `_last_hash`, the loop of `verify_chain`,
and `redact_lines`.  `Mask` is `redact()`: the only thing assumed of it is that masking
twice is masking once, which `tests/test_redact.py` checks.

### AuditLog

One action per step of `append()` that another process can see: `Open`, `AcquireLock` or
`LockFails`, `ReadTail` or `ReadTailFails`, `WriteLine`, `WriteShort` or `WriteFails`,
`Close`, and `Crash` anywhere.  `Fault` says which of the failures may happen in a run.
The write is one `os.write` on an O_APPEND descriptor and lands in one piece; `append`
truncates its fields, so that a line always fits in the 64 KB block `_last_hash` reads.
`damage`, `forked` and `lost` are history variables: faults so far, a line written over a
stale tail, a write that failed or was cut short.

* AuditLog (pass).  Two processes, one of them with a foreign key, all faults, at most two
  of them that damage the chain (`MaxDamage`), four lines (`MaxLen`).  Two processes are
  enough for a fork, two faults for one to hide the other, and four lines for lines after
  the second fault.  ChainIntact with its inductive strengthening ChainInv;
  ForkVisible ("a visible break beats a lost entry"); NoCascade (at most two broken lines
  per fault, however many follow) with its inductive strengthening CascadeInv;
  RecordsEveryAppend, the refinement of AuditTrail;
  AppendFinishes.
A log in which a version that did not chain wrote after one that did is left out: there
`_last_hash` returns "" after the legacy line and `verify_chain` still expects the hash of
the last chained one, so that the next faultless append is reported as a break.

Fairness: a process inside `append()` keeps running (weak fairness of its steps: every
system call in it returns), and `flock()` serves its waiters (strong fairness of
`AcquireLock`).  A tool need not call `append()`.

CHECK_DEADLOCK is off in the audit runs because at the bounds nobody calls `append()`
any more; that nobody waits for ever is what AppendFinishes and RewriteFinishes say.

### AuditTrail

The promise without files, locks and hashes: each finished append has added its text
once, at the end; nothing is taken out or reordered; a text is missing or unreadable only
if a write failed.  AuditLog and AuditRewrite are checked and proved to implement it.

### AuditTamper

The module's docstring says what `verify_chain()` catches.  A chain of up to four lines is
changed once, and servers append until there are six.  `Alter` edits one line in any way
that leaves it a hash (text, `prev` and `hash`, each hash being one that stands in the file
or one made under another key); `Unhash` edits it so that it has none, or is JSON but no
object; `Garble` leaves text that is not JSON, `Rot` bytes that are not UTF-8; lines are
deleted or exchanged, or a tail is forged under another key.

* AuditTamper (pass).  ChangeLocated: after `Alter`, `Garble`, `Delete`, `Reorder` and
  `Forge` the first break reported is the first line that differs, and appends never move
  it; after `Rot` it is line 0, since the exception that ends `verify_chain()`
  (`audit.py:255-256`) knows no line.  UnhashedIsLate: a line without a hash counts as legacy
  (`audit.py:237-239`), so that the break is at the line behind it: none as long as there is
  none, and none at all when the line was the whole log, or the first of it and the chain
  begins behind it.  NoFalseAlarm.

`Verdicts` is the answer of `verify_chain()`, with the exception: text is decoded in blocks,
so that a break above the line that is not UTF-8 may be reported or not.  The modules on
appends and rewrites use the breaks alone.  A short write that cuts a character in two, or a
line that is not UTF-8, therefore counts there as the junk it is for `_last_hash()` and
`redact_lines()`, which decode with "replace"; `verify_chain()` says "not ok" either way, at
line 0 instead of the line.  A line that is made blank is not modelled: it is one that is
deleted, except that the numbers of the lines behind it stay.

Whole lines cut off the end are not noticed, although `audit.py:9-10` lists truncation:
nothing in the file tells such a log from an older one.  The model has the change
(`Truncate`), and no property is about it.

### AuditRewrite

`rewrite_redacted()` in code order: `CheckTmp`, `ReadUnlocked`, `RewriteLock`,
`RefuseOrNothing` or `Decide` (the second read), `CreateTmp`, `FillTmp`, `Overwrite`,
`Finish`, `Unlink`, `Unlock`, `AppendMarker`; `RewriteCrash` anywhere, which also stands
for a write that fails on a full disk; `Restore` is the operator following the error
message, with every server stopped.  `Mixes` is the file in the middle of the in-place
write: some new lines, one line that is half of each, a rest of the old ones.

* AuditRewriteCrash (pass).  One rewriter among appenders, every fault but an append that
  goes on without the lock, with and without `force`, intact and broken logs.  SecretsGone,
  FirstBreakKept, OnlyCopyKept, and ChainSurvives: from a sound log, whenever no in-place
  write is half done, the log verifies, after any sequence of appends, rewrites, crashes
  and restorings.
* AuditRewrite (pass).  Two rewriters; a rewrite may not get the lock, an append may not be
  able to read the tail or to write.  RewriteKeepsTrail (refinement of AuditTrail up to
  masking: concurrent appends are never lost) and RewriteFinishes.
* AuditRewriteTwo (violation).  The check for the tmp file and the O_TRUNC that would
  wipe it are not under one lock: with two rewriters and two crashes the only complete
  copy is lost.

A rewrite that dies while it fills the tmp file leaves a partial one over an intact log,
although the docstring and the error message call a surviving tmp file the complete log:
`RewriteCrash` reaches that state, and OnlyCopyKept says what does hold, that the tmp
file is complete when the log is damaged.

FirstBreakKept lets a rewrite take away one sort of break: a line that the masking itself
puts right (`Mended`).  Either the line holds a secret where the masked text was hashed, as
when an entry is edited from its own masked text, or it names the hash its predecessor will
have once that is redacted.  With `force` such a line is in order again afterwards
(`audit.py:343`), and the log of the run has both (HalfRedacted).  The property also takes
that appenders have the lock: one that writes without it between the second read and
`ftruncate` is cut off (`audit.py:387`).  Lines appended to a log that a dead rewrite left
damaged, or beside a tmp file it left behind, are gone after `Restore`; RewriteKeepsTrail is
therefore checked without crashes.  Nor does it hold with short writes: a rewrite ends a line
that was written without its newline, which then is on record although its append failed.

### Proved (AuditChainProofs, AuditLogProofs, AuditRewriteProofs, AuditTamperProofs)

For any number of processes, any texts, keys, logs, faults and bounds unless said otherwise.
Definitions that go through a log line by line (`PrevExpected`, `Rewritten`, `ChainFrom`)
are unfolded one line at a time (RewrittenUnfolds, ChainFromUnfolds), and what would be an
induction over the log is an argument about a least or a greatest counterexample (Least,
Greatest).  Two facts carry the rest: in an intact stretch no two hashes are the same
(HashesDiffer), and the first break is the break nothing precedes (FirstBreakIs).

AuditLog:

* TypeCorrect: `Spec => []TypeOK`, from the assumptions on the constants.  It needs
  EntryInv (inside `append` a process has a text).
* SoundVerifies: a log that is legacy lines followed by a well-linked chain has no breaks.
* LockExcludes: `Spec => []LockInv`.
* ChainKeeps and ChainStaysIntact: `Spec => []ChainInv` and `Spec => []ChainIntact`: before
  the first fault the log is sound, and each process that has read the tail and not written
  yet still has the lock and the right tail.  ChainIntact alone is not inductive: a stale
  tail in a process's hand breaks it one step later.  Both assume InitLogsSound.
* ForkStaysVisible: `Spec => []ForkVisible`.  The invariant adds to it that legacy lines
  come first only (LegacyFirst), since behind one that came later verify_chain expects
  another hash than append writes, which may be the stale one: hence InitLogsSound again.
* CascadeBounded and FaultsDoNotCascade: `Spec => []CascadeInv` and `Spec => []NoCascade`.
  NoCascade is not inductive: a fault is counted when it happens, and the lines it breaks
  may be written later.  CascadeInv is a balance: breaks that no append will change any
  more (SettledBreaks), what the last line may still cost (TailDebt), one for a holder of
  the lock whose tail is stale (StaleHolder) and two for each process without the lock
  (Unlocked) are together at most two per fault.  Finitely many writers are without
  it at once, since each got there by a fault of its own.  Assumed: InitLogsSound.
* ImplementsTrail: `Spec => RecordsEveryAppend`, the step simulation of AuditTrail, with
  TornInv (a torn line is there and comes from a failed write).

AuditRewrite:

* RewriteTypeCorrect; MasksEverything (SecretsGone), with MaskInv: what is about to be
  written, by whomever, is masked already.
* KeepsTheOnlyCopy (OnlyCopyKept), if at most one process rewrites: CopyInv adds what the
  tmp file is at each step.  With two it is false, as the run AuditRewriteTwo shows.
* FirstBreakStays (FirstBreakKept), if every append has the lock ("nolock" is no fault) and
  the rewriters use the verifier's key, with crashes, short writes and any number of
  rewriters.  FreshInv: from the second read to the write, the plan is the redacted form of
  the log as it is.  IntactStays: what verified before a line verifies after the rewrite.
* DyingLosesNothing and RewriteImplementsTrail (RewriteKeepsTrail), for every fault but an
  append without the lock and a short write (`Mild`).  Appenders may die anywhere, and
  rewriters wherever they have no tmp file on the disk (`Carries`: one that has created it
  gets to removing it); RewriteImplementsTrail is the case that nobody dies, like the run.
  Both hypotheses are needed: see above.  TraceInv: only a rewrite under way leaves a half
  line or a tmp file.
* ChainOutlivesRewrites (ChainSurvives), if every append has the lock, and one process
  rewrites or none dies.  No assumption on the rewriters' keys: under another key than the
  verifier's no chained line matches and the rewrite refuses (SoundMatches).  `redact_lines`
  makes a sound log of a sound one (RewrittenIsSound).  SurvivalInv: the log (unless it is in
  pieces), every plan and what could be restored are sound, and who is about to append knows
  the last hash; CutInv: a log in pieces is being written, or nobody touches it before it is
  restored.  The second is where the check for the tmp file is needed: without it a rewrite
  makes the pieces of a log permanent, which the mutant of CheckTmp shows.
* NobodyWaitsForItself (HolderGoesOn), under every fault: the safety half of AppendFinishes
  and RewriteFinishes.  OwnerInv: the lock belongs to exactly who was told so and has not
  left, so a rewriter has let go of it before it asks for it again with its marker entry.

AuditTamper:

* TamperTypeCorrect; NoFalseAlarms (NoFalseAlarm); ChangesAreLocated (ChangeLocated);
  UnhashedIsReportedLate (UnhashedIsLate), for logs of any length, any texts and keys, and any
  number of later appends.  The invariant is that the file and what the servers wrote part
  at one line, and what that line is: *spoiled*, where it does not parse, or its hash is not
  its own under the servers' key, or its `prev` is not the hash of the line before it; or
  legacy, with a chain behind it whose first line names it or nothing (Unhashed); or the one
  that cannot be read.  A line that is made from the hashes in the file either has a hash that
  is not its own or is another line of the file (EditSpoils), and that is spoiled because
  hashes differ (MovedLineSpoils).

That every append and rewrite ends is model-checked only: liveness and ENABLED are out of
the prover's reach.

## 4. The snapshot guard (SnapshotGuard)

State: `zfs` (the ZFS half of each guest snapshot: absent, younger or older than
`min_age_minutes`), `conf` (the section in the guest's configuration with its state),
`task` (the PVE operation that holds a guest's lock), `used`, and `call` (what each tool
call is doing).  `RegisteredHits` is `registered_hits`, `Registered` what
`load_registered` returns.

Each tool is one action per SSH round trip: PatternList, PatternLoad, CleanupList,
CleanupLoad, then DestroyNext once per name; HostExec, HostLoad, HostRun.  A destroy may
fail, or take effect while its answer is lost.  PVE, sanoid and time act between any two
of them: PVE writes a section before the snapshot and takes it away after it, refuses to
delete a snapshot whose ZFS half is gone and leaves the guest locked, and can be
interrupted half-way.  That part is external: it is modelled from what the comments of
`pve_snapshots.py` and the tools say PVE does.

What `snapshot_refs` reads is text: a reference ends at the first quote, `$`, backslash or
brace, so that `@dai"ly"` is read as `@dai`, and names made at run time are not seen at all.
A `Ref` is therefore what was read, and a command is a set of them and whether it is
`literal`, that is, destroys only what they name as they stand; one that is not may destroy
anything once its references have passed, and one in which none is read runs unchecked.

* SnapshotGuard (pass).  Two concurrent calls of any of the three tools, two guests, three
  snapshots, `max_delete` 2 (so that the cap bites), commands with no reference, one of each
  sort, or two, calls as a symmetry set.  Daily snapshots carry dates and are not given
  twice; vzdump's name is given again and again (`Reused = {vzdump}`).
  SeenIsSpared: what the configs registered when a call read them is not destroyed by it,
  whichever of its references would; a command that is not literal is excepted, as the
  comment at `tools/host_ssh.py:101-107` excepts it.  PatternNeverOrphans: the pattern tool
  never takes the ZFS half of a finished section under a dated name, although it lists before
  it reads and destroys after; it gets away with it because PVE writes the section first.
* SnapshotGuardParent (violation).  `zfs destroy -r rpool/data@daily` in `host_exec` names
  no guest disk and passes the check, and takes the registered snapshots below it.
* SnapshotGuardCleanup (violation).  `backup_maint.py:8-9` says that the cleanup tool "can
  never race a running backup".  It lists an old scratch snapshot; the backup that owns it
  ends before the configs are read (or another call removes it); the guest's next backup
  starts, and its fresh snapshot, which has the same name, is destroyed.  One call and one
  guest are enough.

### Proved (SnapshotGuardProofs)

For any guests, names, datasets, number of calls, sets of references and `max_delete`, and
whichever names are given again:

* TypeCorrect (TypeOK), in which no pattern call holds more targets than `max_delete`.
* SeenSpared (SeenIsSpared), if no guest's disks lie below a literal parent dataset
  (`Nested = FALSE`): with them it is false, as the run SnapshotGuardParent shows.  The
  invariant is that nothing a literal call still has to destroy was registered when it read
  the configs; for commands it rests on what the references reach being among what
  `registered_hits` checks them against (CommandsSpare).
* NeverOrphan (PatternNeverOrphans).  The property is about what a call is going to destroy
  later, so that the invariants say of each dated name still in its list what PVE, sanoid and
  the other calls can have made of it since: a name that had no section when the configs were
  read, and was asked for before, gets none.

### Left out

`host_exec` checks in one SSH command and runs in another, so that a snapshot PVE takes in
between loses its ZFS half: PatternNeverOrphans is not about it.  Nor is it about cleanup, or
about `@vzdump` snapshots a pattern matches: see SnapshotGuardCleanup.  `zfs_dataset` destroy
never consults the guard; the wording of reports.

## 5. Gates and calls

### ToolGates (pure)

One operator per changing tool, named after it: the sequence of the checks its body makes
before it sends anything, in code order, each a pair of "does it stop this call" and the
answer it then gives.  `Gate` is the answer of the first check that stops, or "go".
`Requests` are the calls of some operations (a tool and its action) with every
combination of the flags the tool's input model has; `sound` stands for its other checks
(a pool's device count, a property on the allow-list).  For the exec tools the scanner's
verdict is part of the operation ("plain" or "destructive").  `Effect`, which is external,
says what a request does to the thing it names: make it where there is none, drop it,
replace what it held, blank it unless it holds data, or leave its data alone.  The pattern
and cleanup tools, and what `host_exec` checks of a `zfs destroy`, are in SnapshotGuard.
A missing configuration stops a call before anything else and is left out.

### ToolCalls

A call from its arguments to its answer.  State: where each call is (`phase`), its
arguments, what it learned before its gate (`known`: the operator's verdict, or whether
the target of a restore exists), the polls left, the work PVE or the host's shell does for
it (`task`), how that was asked for (`way`), its answer (`reply`), and the `content` of
the things: "none", "empty", or "data" that would be lost.

| action | code |
|---|---|
| Invoke, OperatorAnswers | the SDK's call, `ask_operator`, `ack_refusal` |
| Body | the tool's body up to the request, with the restore's probe |
| Accepted, AnswerLost, Refused, TokenRejected | `http_client.post/put/delete`, the error paths, the SSH fallback of `disk_prepare` |
| RunCommand, ConnectFails, CommandReturns | `run_command`, `run_pipeline`, `exec_command` |
| Poll, PollFails | one round of `wait_for_task` |
| TaskEnds, Elsewhere | external: the work ends whenever it likes, well or not; others change the thing |

Body is one action from the answer of the probe to the last check, because nothing is
awaited in between; the request is sent in a later one, so that the probe may be stale.
`CommandReturns` may report success of a command that did not end well: ServerCalls says
when.

### GuestTypes

`_resolve_vm_type()` and its cache: CacheHit; Ask, PveLists (external: PVE makes the list),
Receive, LookupFails, Return.  Remade is another user who removes the guest and makes one
of the other type under its id; Tick is the clock.  The cache is stamped when the list
arrives, calls share it, and lists may arrive out of order.  WrongTypeIsYoung: a request
goes to the wrong endpoint only on the caller's own hint, or for a guest made less than the
TTL and one lookup ago.  The function's docstring says more ("never worse than the
caller-supplied type"), which does not hold: within that time an entry that is out of date
wins over a hint that is right.

### SshCommands

`ssh.py`: the programs each tool starts, the list of binaries, and the one exit status
`set -o pipefail` makes of a pipe, that of the last program that failed
(`run_pipeline`'s docstring says the first).  The connection may be lost meanwhile, and
`exit_status or 0` then says 0.  `timeout=None`, meant for a long `zfs send`, becomes
PROXMOX_SSH_TIMEOUT, so that a call may give up on a command that goes on: Result always
contains an error.

### ServerCalls

ToolCalls with these two parts in detail: a power action resolves its guest's type between
its gate and its request (ResolveType, Send), while status calls share the cache
(ReadStatus); a command's answer comes from its programs' exit statuses and its connection
(StartCommand, SshTaskEnds, LoseLink, Finish).  A guest that is made where there was none
may be of either type (Types).  Each action is an action of ToolCalls with what it does to
the parts beside it, or leaves ToolCalls alone.  DoneIsDone: "done" is wrong only of a
command whose connection was lost, for `zfs send | dd` too.

* ToolCalls (pass, of ServerCalls).  All 39 operations with all their flags, one call, one
  thing, one reader, up to three polls (the first, one in between and the one at the
  deadline), a TTL of two ticks and a lookup of at most one.  The guests' part moves only
  while a power action has not been sent (`Watched`): nothing else reads the cache, and
  until the call's own lookup the reader has all the time to leave any cache there is.  One reader is enough to
  overtake the call's own lookup.  Two calls meet only
  in the thing they name, and Elsewhere does to it whatever another call could, so that
  one call is enough; the proofs are for any number.  NothingWithoutConsent; AnswerTrue;
  WorkOnce; CallReturns; LossAcked with the five operations that lose data on confirm
  alone listed in `LossyOnConfirm`: a rollback and a destroy without -r, which the tools'
  docstrings announce; the two targets of `zfs_send` (`zfs recv -F` and `dd of=` replace
  what is there), which they do not; and init_gpt, the subject of ToolCallsLoss.
* ToolCallsLoss (violation).  `disk_prepare` init_gpt needs confirm only because the REST
  endpoint refuses a disk with data; `sgdisk -Z -o` over SSH does not, and `via=auto` goes
  there by itself.

The resolver that asks the operator runs before the body and looks at `confirm` only
(`operator_ack.py:107-112`): a delete without the second flag asks a human and is refused
afterwards, which the repository's README (line 203) and `tools/snapshots.py:86-87` rule
out.  The model does the same; no run is about it.

Fairness: a body keeps running (weak fairness of its steps: requests, lookups of a type,
commands and sleeps have timeouts).  Nothing is assumed of the operator, of the tasks, or of a status request
failing, so that CallReturns rests on the deadline of `wait_for_task`.

### Proved (ToolCallsProofs, ServerCallsProofs)

For any calls, things, subset of the operations and number of polls: TypeCorrect,
ConsentBeforeWork (NothingWithoutConsent), AnswersTrue, StartsWorkOnce, and LossIsAcked
(LossAcked, if `ConfirmOnly` contains `LossyOnConfirm`).  The argument: GatePasses goes
through the tools one by one and shows that a gate that answers "go" had the flags its
operation needs (Consent); the invariant IInv carries that from Body to the end of the
work (ConsentInv), together with where work can exist at all (PlaceInv: none before the
request, none behind a refusal).  NothingWithoutConsent alone is not inductive: it says
nothing of a call between its gate and its request.  Assumed: CallsAssumption, the types
of the constants.

TypesCorrect and WrongTypesAreYoung, for any number of calls that share the cache, any TTL
and latency: CacheInv says that a cached type that is wrong belongs to a guest not older
than the entry and one lookup, ListInv the same of a list under way.

ImplementsToolCalls (`ServerSpec => Spec`) and ImplementsGuestTypes (`ServerSpec =>
TypesSpec`), so that what is proved of either holds of the composition (ServerKeepsGates,
PowerIsRouted); DoneMeansDone (DoneIsDone), with ExitsTrue: work over SSH that ended has
exit statuses, all 0 exactly if it was done.  CallReturns is model-checked only.

## 6. Commands over SSH

Seven tools run a command line and record it.  host_exec, lxc_exec and vm_exec take any
line under the flag gates and the scanner, vm_read_file (`head -c`), ct_service_action and
ct_log_tail make their own.
`proxmox_host_read_exec` runs one command without any consent, on the word of a validator;
there, what can go wrong is a difference between three readings of the same line: the
validator's, bash's (which expands globs over files nobody has seen) and the program's
(getopt, which decides by itself which word is an option, a value or an operand).  For the
scanner it is a difference between what it finds in a line and what bash does with it.  For
all seven, the ways out of a call differ: an exception at each await, a limit, a cancellation.

* ReadSpec (data): a word's text (an operand, `-x`, `--name`, `--`, and of a value what the
  rules look at: does it start with a letter, is it a number, does it hold a glob), what
  its unquoted part would make bash do (`shape`), and the allow-list: one program for each
  rule of the validator, of its options one or two of each kind.
* ReadAllow (pure): `check`.  `Options` is `_options`: `Takes` is what one option does to
  the walk, `OptionsNext` where the walk goes from each word, `Visited` the words it comes
  to; subcommands and objects are compared as whole words (`Says`).  `OperandRule`, `Ip`, `BySubcommand`,
  `Validate`, `PctExec` and `InsideCT` (one level of `pct exec`), `GlobsAllowed` and `Wrapped` (the
  `timeout` in front, on both sides of `pct exec`) are the rest of `_validate` and
  `check`.  `_rebuild` quotes what was quoted, so that a word keeps its shape.
* HostShell (external): what bash makes of a word in a directory (a listing gives for what
  stands before a glob the files that fit: any names, as long as they begin like it), the
  programs' own option tables with the options read_allow.py's comments leave out because they write, set or
  follow, getopt's reading, and which readings do harm.
* ShellText (pure): `host_ssh._scan`, the tokenizer, over lexemes: each character bash gives
  a meaning to is one, and names are.  The simple commands of a line, with the texts nested
  in quotes, substitutions, heredocs and here-strings scanned in turn.
* ShellGate (pure): `is_destructive`.  Assignments, keywords and wrappers (`sudo -u t`, `env
  -i`, `timeout 5`, ...) are skipped by the options their tables list, scripts of other shells
  are followed, and the head of each command is judged; the patterns look at the raw text.
  Of each list (shells, wrappers, options, destructive commands) a few names stand for all.
  The reading is the same for all three gates, the patterns are not: vm_ssh.py gives
  `is_destructive` a list of its own (`GuestPatterns`), which has `docker system prune` and no
  `zpool destroy`, `zfs destroy`, `qm`, `pct`, `pvesm` or `systemctl stop`; vm_exec runs these
  without i_understand_data_loss.  `PatternsOf` is the tool's list, and payloads decoded out of
  a line are searched with the same one.
* ShellForms (external): lines as bash's grammar builds them: a command is put after another
  one, into a group, a substitution, a script for another shell or a heredoc, behind a
  wrapper, or only quoted and shown, and `does` records what the result does.  A pool is
  destroyed on the host only, and a docker prune harms a guest only: harm is what the list of
  the tool's own machine is there for.
* ExecTools: the tools with `exec_command` of host_ssh.py and vm_ssh.py.  For
  host_read_exec `Type` builds the command word by word, so that TLC meets every command
  over the vocabulary, and `Accept` or `Refuse` is `check`.  For host_exec `TypeLine` puts
  one more thing around the line there is, and `Demand` is the gate; the others' lines are
  fixed (`Return` stands for a missing flag, see ToolGates).  `ResolveFails` is the alias
  registry, `TunnelUp` the connection to the bastion, `ConnectFails` and `ConnectLost` the
  exceptions `_connect` lists and those it does not; `Run`, `Returns`, `GiveUp`,
  `ConnectionLost`, `Answer` are `exec_command` with its `finally` and the record after it;
  `Cancel` is the client's, `Crash` the server's; `Expire`, `Ends`, `Tick` are the host's.
  `stage` counts the moments that matter: the timeout, KILL_AFTER later, and the 5 seconds
  more host_read_exec waits.

`Allowed` was compared with `read_allow.check` itself on 134,701 commands: this vocabulary,
up to four words (five after `systemctl` and `zpool`, eight after `pct`), with the same verdict
on each.  ShellGate was compared with `is_destructive` of
host_ssh.py and of vm_ssh.py on all 27,983 lines with up to two things around a command, and
(the host's list, 13 commands) on 793,000 with three: the verdicts are the same, apart from
`ssh` given a script quoted as one word that begins with a redirection, a form that is left
out.

* ExecTools (pass).  Commands of three words (four where a verb follows options, eight for
  `pct exec`) from 9 programs and `pct`, 15 to 20 words each, in directories whose files are
  called like a verb, a number, an option or a forbidden value.  host_exec gets every line
  with up to two things around one of 15 commands (`MaxWraps`): each form meets each other
  one from inside and from outside, which is what one level of quoting and its escapes can
  get wrong.  vm_exec, whose patterns are others but are read alike, gets one thing around
  each; lxc_exec has host_exec's very gate and gets the commands alone; the other tools have
  one line each: nothing looks at it.  DangerAcked: a line that runs an opaque command, or
  one the tool's list calls destructive, does not start without i_understand_data_loss.  OnlyDangerAsked: a line that
  only shows one is not asked for it, unless its raw text matches a pattern.  ReadsOnly: no command
  that is let through writes, sets or repeats for ever.  MeaningKept: files change operands
  only, and nothing of the command inside the container.  HostAnswersFirst: the tool gives up
  only on a command that SIGKILL does not end.  GoneInTime: KILL_AFTER + 5 s past the
  timeout nothing of it runs on either side, unless it is stuck.  NothingStays: with a lost connection, a
  cancelled call or a dead server too, nothing it has started keeps running on the host or
  inside the container.  NothingLeftOpen (all seven tools): a call that has returned holds no
  connection, and no tunnel but where `_connect` met an exception it does not list.  Three words
  are an option, its value and what follows; the shift the globs are refused for
  (`systemctl -p s* status`) takes four.  CHECK_DEADLOCK is off: a call ends.
* ExecToolsCancel (violation).  RanIsRecorded.  A cancelled call leaves a command that ran
  without a line in the audit log, although `host_ssh.py:10` and `tools/host_read.py:14-15`
  say every call is recorded.

Fairness: the host's clock moves on and its timers fire (weak fairness of Tick and Expire),
and the tool's event loop runs (Returns, GiveUp, Answer).  A command need not end by
itself, a client need not type anything.

Left out: the tokenizer's segments and character classes (a word has one `shape`), values
the validator does not inspect, the output caps (`ulimit -d`, `head -c`), which bound what
an allowed command can do and not which are allowed; of ct_ops.py's commands the `grep` that
filters a log and the formatting of what comes back.

### Proved (ExecToolsProofs)

For commands of any length over any words (`IsWord`), any lines of the other tools, and any
set of directory listings.  The allow-list and the programs' manuals are the tables of
ReadSpec and HostShell: what a theorem says, it says of those programs and options.

* TypesOk (TypeOK), LimitComesFirst (HostAnswersFirst: whatever is typed, the line bash
  makes begins with `timeout`), NothingIsLeftOpen (NothingLeftOpen).
* LimitsEndIt (GoneInTime), the safety half of NothingStays.  GoneInv follows the command
  past the two signals: on each side it ends at the timeout or, if it ignores SIGTERM, at
  SIGKILL, whatever has become of the call, the connection and the server.  It needs that
  both sides are under limits (BothLimited), which is step 5 below: what LetThrough lets run
  on the host, and what it hands to a CT, begins with `timeout` after bash has expanded it.
* OnlyReads (ReadsOnly) and CheckedIsRun (MeaningKept).  The invariant LetThrough says that
  what runs is what bash, in some directory, has made of the words that were checked, put
  under the limits.  The rest is about `check`, and goes in five steps:
  1. *The tables agree* (FlatProgramsAgree, SubcommandAgrees, IpAgrees): an option the
     allow-list knows is in the program's manual, takes its value in the same way, and
     neither writes nor sets.
  2. *One option* (OptionAgrees): the validator and getopt take the same words for it and
     read the same value.
  3. *The walk* (OptionsWalk, SubUnderstood, IpUnderstood; Validated): both walks visit the
     same words, so that the validator's operands are the program's and the verb is the
     verb, also behind a `--` (`Understood`).  A walk is not followed by induction: Visited
     is characterised as a set closed under `next` in which every word but the first has a
     predecessor (Walked, VisitedIs), and two walks that differ would differ first
     somewhere (Least).
  4. *The expansion* (BashSpreads, ReadingSpreads, OperandsSpread; CommandRuns): bash turns
     each word into a block of one or more words.  Where globs are free operands only, the
     program's walk over the blocks is the walk over the words spread out: options and
     values are the same words (`-n` before a glob is the case OptionalNext is there for),
     and an operand's block consists of operands of a form the rule allows.
  5. *The limits* (HostPermitted, ExecPermitted): bash changes no word of `timeout -k 5 30`
     nor of `pct exec N --`; what comes behind is a command of step 4, and inside a CT one
     without a glob, word for word.

* The flag gate, in two parts.  *How good is_destructive must be*: GateIsObeyed (DangerAcked)
  and GateAsksOnly (OnlyDangerAsked) are stated for any languages L of lines, one for each
  tool, that the tool's client stays in (`Stays`) and whose harmful lines is_destructive finds
  with that tool's patterns (`FindsHarm`), and of whose others it flags only those that look
  harmful to a pattern (`FindsOnlyHarm`).  For vm_exec `zpool destroy` is none of them.  Then no interleaving of
  typing, gates, failing aliases and tunnels, lost connections, cancellations and a dying
  server lets a harmful line start without the flag: AckInv and AskInv tie what is running
  to the line that was judged.  That the run's lines are such a language is what TLC checks
  when it checks the two properties, line by line.
  *How good it is in any case*: GivenAwayIsAcked has no hypothesis.  Whatever a client makes
  up, a line whose raw text matches a pattern of the list of its tool, that holds base64 of one that does (of base64
  of one, up to three times), or of which the tokenizer makes nothing goes to the host only
  with the flag: patterns are a floor below everything the tokenizer may overlook, and it fails
  closed.  FlaggedUnfolds shows first that is_destructive's recursion through nested texts
  has a solution, one level of depth at a time.

The two assumptions are DirsAssumption (a file that fits a glob begins as the glob does;
no file's name is a word that could not be typed) and LiteralsAssumption, that five literals
are strings: true of any, but the proof system has no axiom that says so.

Model-checked only: what the tokenizer finds in a given line, that is, that FindsHarm and
FindsOnlyHarm hold of the run's lines (`_scan` goes through a text by recursion: what it
computes for every text is an induction over data); NothingStays (liveness); and
RanIsRecorded, which fails.

## 7. Limits

TLC explores the instances above and no others; what holds of every instance is in
sections 3 to 6, *Proved*.  External behaviour (PVE, ZFS, bash, the file system, the
kernel's flock) is modelled from how the code uses it.  `redact.py`'s patterns, file modes
(`_heal_mode`), `read_entries`, the listing tools, and the server's start-up, configuration
and input models are not modelled: no property of the components above depends on more of
them than is stated here.
