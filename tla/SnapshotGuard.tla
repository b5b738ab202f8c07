---------------------------- MODULE SnapshotGuard ----------------------------
(***************************************************************************)
(* The guard that keeps this server from raw-destroying a ZFS snapshot PVE *)
(* has registered (pve_snapshots.py), and the three tools that destroy     *)
(* snapshots behind it: proxmox_zfs_destroy_snapshots_by_pattern,          *)
(* proxmox_cleanup_vzdump_snapshots and proxmox_host_exec.                 *)
(*                                                                         *)
(* A guest snapshot PVE takes has two halves: the ZFS snapshot and a       *)
(* section of the guest's config file.  Every tool reads the two at        *)
(* different moments, over SSH, while PVE, sanoid and other calls go on    *)
(* working on them.                                                        *)
(***************************************************************************)
EXTENDS FiniteSets, Integers

CONSTANTS
    Snap,       \* the guest snapshots that can exist: <<guest, name>>
    Vzdump,     \* the name vzdump gives to its scratch snapshot
    Caller,     \* concurrent tool calls
    Tool,       \* the tools called: "pattern", "cleanup", "host_exec"
    Dataset,    \* how a command spells a dataset: "guest", "unknown", "parent"
    Nested,     \* TRUE: a literal parent dataset holds the guests' disks
    RefSets,    \* the sets of references commands are read to hold
    MaxDelete,  \* max_delete of a pattern call
    Reused      \* the names given to a snapshot again once it is gone

ASSUME GuardAssumption ==
    /\ Tool \subseteq {"pattern", "cleanup", "host_exec"}
    /\ Dataset \subseteq {"guest", "unknown", "parent"}
    /\ Nested \in BOOLEAN /\ MaxDelete \in Nat
    /\ IsFiniteSet(Snap)

Guest == {s[1] : s \in Snap}
Name == {s[2] : s \in Snap}

VARIABLES
    zfs,     \* the ZFS halves: "none", "young" (below min_age_minutes), "old"
    conf,    \* the config sections: "none", "prepare", "ready", "delete"
    task,    \* the PVE snapshot operation that holds each guest's lock
    used,    \* the snapshots with dated names that were ever asked for
    call     \* what each tool call is doing

vars == <<zfs, conf, task, used, call>>

NoTask == [op |-> "none"]
Task == {NoTask} \cup [op : {"create", "delete", "locked"}, snap : Snap]

-----------------------------------------------------------------------------
(* The check: registered_hits.                                             *)

\* A `<dataset>@<snap>` reference, as snapshot_refs reads it in the text of a
\* command: up to the first quote, $, backslash or brace, and not what the shell
\* makes of it.  "guest": a disk of `guest`; "unknown": a shell variable, an
\* empty dataset or a pool root; "parent": any other literal path, in a command
\* that says `-r` if deep.  span: the name is a range `a%b`.
Ref ==
    [ds : Dataset \cap {"guest"}, guest : Guest, name : Name, span : BOOLEAN]
    \cup [ds : Dataset \cap {"unknown"}, name : Name, span : BOOLEAN]
    \cup [ds : Dataset \cap {"parent"}, name : Name, span : BOOLEAN, deep : BOOLEAN]

ASSUME RefSetsAssumption == \A refs \in RefSets : refs \subseteq Ref

RefOf(s) == [ds |-> "guest", guest |-> s[1], name |-> s[2], span |-> FALSE]

\* The guests a reference is checked against.
Owners(r) == CASE r.ds = "guest"   -> {r.guest}
               [] r.ds = "unknown" -> Guest
               [] OTHER            -> {}

\* As if the rule for `a%b` ranges were missing.
HitsWithoutRanges(refs, registered) ==
    {r \in refs : \E s \in registered : s[1] \in Owners(r) /\ s[2] = r.name}

\* The references among refs that would destroy a registered snapshot.
RegisteredHits(refs, registered) ==
    {r \in refs : \E s \in registered : s[1] \in Owners(r) /\ (r.span \/ s[2] = r.name)}

\* load_registered: every section of every guest config, whatever its state.
Registered == {s \in Snap : conf[s] # "none"}

\* What these references, taken literally, may destroy: a shell variable holds any
\* dataset, and -r on a parent reaches every disk below it.
Reach(refs) ==
    {s \in Snap : \E r \in refs :
        /\ r.span \/ s[2] = r.name
        /\ \/ r.ds = "guest" /\ s[1] = r.guest
           \/ r.ds = "unknown"
           \/ r.ds = "parent" /\ r.deep /\ Nested}

-----------------------------------------------------------------------------
\* literal: the call destroys nothing that its references do not name as they stand.
Doing(tool, step, refs, literal, todo, seen) ==
    [tool |-> tool, step |-> step, refs |-> refs, literal |-> literal,
     todo |-> todo, seen |-> seen]
Idle == Doing("none", "idle", {}, TRUE, {}, {})
Calls == [tool : Tool \cup {"none"}, step : {"idle", "load", "destroy", "run"},
          refs : SUBSET Ref, literal : BOOLEAN, todo : SUBSET Snap, seen : SUBSET Snap]

TypeOK ==
    /\ zfs \in [Snap -> {"none", "young", "old"}]
    /\ conf \in [Snap -> {"none", "prepare", "ready", "delete"}]
    /\ task \in [Guest -> Task]
    /\ used \subseteq Snap
    /\ \A c \in Caller :
        /\ call[c] \in Calls
        /\ call[c].step = "destroy" => call[c].todo # {}
        /\ call[c].step = "destroy" /\ call[c].tool = "pattern" =>
              Cardinality(call[c].todo) <= MaxDelete

Init ==
    /\ zfs = [s \in Snap |-> "none"]
    /\ conf = [s \in Snap |-> "none"]
    /\ task = [g \in Guest |-> NoTask]
    /\ used = {}
    /\ call = [c \in Caller |-> Idle]

Live == {s \in Snap : zfs[s] # "none"}
Return(c) == call' = [call EXCEPT ![c] = Idle]
Listed(c, tool, found) ==
    call' = [call EXCEPT ![c] = Doing(tool, "load", {}, TRUE, found, {})]

\* The call goes on to destroy; seen keeps, for the properties, what the configs it
\* has just read register (no property is about a command that is not literal).
Proceed(c, step, targets) ==
    call' = [call EXCEPT ![c] =
               Doing(call[c].tool, step, {}, call[c].literal, targets,
                     IF call[c].literal THEN Registered ELSE {})]

-----------------------------------------------------------------------------
(* proxmox_zfs_destroy_snapshots_by_pattern                                *)

\* `zfs list`: the matches of the pattern.  No match: the call returns.
PatternList(c) ==
    /\ "pattern" \in Tool /\ call[c].step = "idle"
    /\ \E guests \in SUBSET Guest, names \in SUBSET Name :
        LET matches == {s \in Live : s[1] \in guests /\ s[2] \in names}
        IN  matches # {} /\ Listed(c, "pattern", matches)
    /\ UNCHANGED <<zfs, conf, task, used>>

\* As if max_delete let one match too many pass.
PatternAcceptsOneMore(c, go, loaded) ==
    /\ go /\ Cardinality(call[c].todo) <= MaxDelete + 1 /\ loaded
    /\ RegisteredHits({RefOf(s) : s \in call[c].todo}, Registered) = {}

\* As if configs that cannot be read registered nothing.
PatternAcceptsUnread(c, go, loaded) ==
    /\ go /\ Cardinality(call[c].todo) <= MaxDelete
    /\ loaded => RegisteredHits({RefOf(s) : s \in call[c].todo}, Registered) = {}

\* The configs are read after the list; one hit refuses the whole batch, and so
\* does a failed read (loaded = FALSE).  go: dry_run=false with confirm and
\* i_understand_data_loss.
PatternAccepts(c, go, loaded) ==
    /\ go
    /\ Cardinality(call[c].todo) <= MaxDelete
    /\ loaded
    /\ RegisteredHits({RefOf(s) : s \in call[c].todo}, Registered) = {}

PatternLoad(c) ==
    /\ call[c].step = "load" /\ call[c].tool = "pattern"
    /\ \E go, loaded \in BOOLEAN :
        IF PatternAccepts(c, go, loaded)
        THEN Proceed(c, "destroy", call[c].todo)
        ELSE Return(c)
    /\ UNCHANGED <<zfs, conf, task, used>>

\* One `zfs destroy` of the loop, of either tool.  It may fail, or take effect
\* while its answer is lost: the loop goes on with the next name.
DestroyNext(c) ==
    /\ call[c].step = "destroy"
    /\ \E s \in call[c].todo :
        /\ zfs' \in {zfs, [zfs EXCEPT ![s] = "none"]}
        /\ IF call[c].todo = {s} THEN Return(c)
           ELSE call' = [call EXCEPT ![c].todo = @ \ {s}]
    /\ UNCHANGED <<conf, task, used>>

-----------------------------------------------------------------------------
(* proxmox_cleanup_vzdump_snapshots                                        *)

\* Only @vzdump snapshots, and only those older than min_age_minutes.
Candidates(guests) ==
    {s \in Snap : s[1] \in guests /\ s[2] = Vzdump /\ zfs[s] = "old"}

CleanupList(c) ==
    /\ "cleanup" \in Tool /\ call[c].step = "idle"
    /\ \E guests \in SUBSET Guest :
        /\ Candidates(guests) # {}
        /\ Listed(c, "cleanup", Candidates(guests))
    /\ UNCHANGED <<zfs, conf, task, used>>

\* What is left of the candidates once the registered ones are skipped.
Unblocked(c) ==
    {s \in call[c].todo : RegisteredHits({RefOf(s)}, Registered) = {}}

CleanupLoad(c) ==
    /\ call[c].step = "load" /\ call[c].tool = "cleanup"
    /\ \E go, loaded \in BOOLEAN :
        IF loaded /\ go /\ Unblocked(c) # {}
        THEN Proceed(c, "destroy", Unblocked(c))
        ELSE Return(c)
    /\ UNCHANGED <<zfs, conf, task, used>>

-----------------------------------------------------------------------------
(* proxmox_host_exec, with a command that holds `zfs destroy` and the two  *)
(* flags such a command needs.                                             *)

\* A command in which no reference is read runs unchecked, on anything.  One in
\* which some are may still destroy others (~literal): names that are quoted or
\* expanded by the shell, of which a reference holds the beginning, or names that
\* are produced at run time.
HostExec(c) ==
    /\ "host_exec" \in Tool /\ call[c].step = "idle"
    /\ \E refs \in RefSets, literal \in BOOLEAN :
        call' = [call EXCEPT ![c] =
                   IF refs = {}
                   THEN Doing("host_exec", "run", {}, FALSE, Snap, {})
                   ELSE Doing("host_exec", "load", refs, literal, {}, {})]
    /\ UNCHANGED <<zfs, conf, task, used>>

HostLoad(c) ==
    /\ call[c].step = "load" /\ call[c].tool = "host_exec"
    /\ \E loaded \in BOOLEAN :
        IF loaded /\ RegisteredHits(call[c].refs, Registered) = {}
        THEN Proceed(c, "run", IF call[c].literal THEN Reach(call[c].refs) ELSE Snap)
        ELSE Return(c)
    /\ UNCHANGED <<zfs, conf, task, used>>

\* The shell resolves the names when it runs; any part of the work may fail.
HostRun(c) ==
    /\ call[c].step = "run"
    /\ \E gone \in SUBSET (call[c].todo \cap Live) :
        zfs' = [s \in Snap |-> IF s \in gone THEN "none" ELSE zfs[s]]
    /\ Return(c)
    /\ UNCHANGED <<conf, task, used>>

-----------------------------------------------------------------------------
(* The host, which is not under src/: PVE (pct/qm snapshot, delsnapshot and *)
(* vzdump's scratch snapshot), sanoid, and time.                            *)

\* Snapshot names carry a date, and are not given twice; vzdump's is.
Dated == {s \in Snap : s[2] \notin Reused}
Fresh(s) == s \notin used /\ used' = used \cup ({s} \cap Dated)

\* The section is written first, under the guest's lock.
PveCreateBegin(s) ==
    /\ Fresh(s)
    /\ task[s[1]] = NoTask /\ conf[s] = "none"
    /\ conf' = [conf EXCEPT ![s] = "prepare"]
    /\ task' = [task EXCEPT ![s[1]] = [op |-> "create", snap |-> s]]
    /\ UNCHANGED <<zfs, call>>

\* The ZFS half; "dataset already exists" takes the section away again.
PveCreateZfs(g) ==
    /\ task[g].op = "create"
    /\ LET s == task[g].snap IN
       IF zfs[s] = "none"
       THEN zfs' = [zfs EXCEPT ![s] = "young"] /\ conf' = [conf EXCEPT ![s] = "ready"]
       ELSE conf' = [conf EXCEPT ![s] = "none"] /\ UNCHANGED zfs
    /\ task' = [task EXCEPT ![g] = NoTask]
    /\ UNCHANGED <<used, call>>

PveDeleteBegin(s) ==
    /\ task[s[1]] = NoTask /\ conf[s] \in {"ready", "delete"}
    /\ conf' = [conf EXCEPT ![s] = "delete"]
    /\ task' = [task EXCEPT ![s[1]] = [op |-> "delete", snap |-> s]]
    /\ UNCHANGED <<zfs, used, call>>

\* Without its ZFS half the deletion fails and leaves the guest locked.
PveDeleteZfs(g) ==
    /\ task[g].op = "delete"
    /\ LET s == task[g].snap IN
       IF zfs[s] # "none"
       THEN /\ zfs' = [zfs EXCEPT ![s] = "none"]
            /\ conf' = [conf EXCEPT ![s] = "none"]
            /\ task' = [task EXCEPT ![g] = NoTask]
       ELSE /\ task' = [task EXCEPT ![g].op = "locked"]
            /\ UNCHANGED <<zfs, conf>>
    /\ UNCHANGED <<used, call>>

\* delsnapshot --force, after the guest is unlocked: the section goes and a ZFS
\* half that is there stays, an orphan.
PveForce(s) ==
    /\ task[s[1]].op \in {"none", "locked"} /\ conf[s] # "none"
    /\ conf' = [conf EXCEPT ![s] = "none"]
    /\ task' = [task EXCEPT ![s[1]] = NoTask]
    /\ UNCHANGED <<zfs, used, call>>

\* An operation interrupted by a crash or a reboot leaves its halves behind.
PveDies(g) ==
    /\ task[g].op \in {"create", "delete"}
    /\ task' = [task EXCEPT ![g] = NoTask]
    /\ UNCHANGED <<zfs, conf, used, call>>

\* sanoid, or an ad-hoc `zfs snapshot`: no section.
Sanoid(s) ==
    /\ Fresh(s) /\ zfs[s] = "none" /\ s[2] # Vzdump
    /\ zfs' = [zfs EXCEPT ![s] = "young"]
    /\ UNCHANGED <<conf, task, call>>

\* Nobody asks for the age of the others.
Age ==
    /\ \E s \in Snap : zfs[s] = "young" /\ s[2] = Vzdump
    /\ zfs' = [s \in Snap |-> IF zfs[s] = "young" /\ s[2] = Vzdump THEN "old" ELSE zfs[s]]
    /\ UNCHANGED <<conf, task, used, call>>

-----------------------------------------------------------------------------
Next ==
    \/ \E c \in Caller :
        \/ PatternList(c) \/ PatternLoad(c) \/ CleanupList(c) \/ CleanupLoad(c)
        \/ DestroyNext(c) \/ HostExec(c) \/ HostLoad(c) \/ HostRun(c)
    \/ \E s \in Snap : PveCreateBegin(s) \/ PveDeleteBegin(s) \/ PveForce(s) \/ Sanoid(s)
    \/ \E g \in Guest : PveCreateZfs(g) \/ PveDeleteZfs(g) \/ PveDies(g)
    \/ Age

Spec == Init /\ [][Next]_vars

-----------------------------------------------------------------------------
\* The snapshots a step of call c destroys, if the step is one of c's.
DestroyedBy(c) ==
    IF call'[c] = call[c] THEN {} ELSE {s \in Live : zfs'[s] = "none"}

\* What a call saw registered when it read the configs it does not destroy, by
\* whichever of its references: "refuses with a pointer to pct/qm delsnapshot. There
\* is no override flag" (pve_snapshots.py 11-13).  A command whose references do not
\* say literally all it destroys is excepted, as tools/host_ssh.py 101-107 does: "a
\* determined free-form command can still bypass this".
SeenIsSpared ==
    [][\A c \in Caller : call[c].literal => DestroyedBy(c) \cap call[c].seen = {}]_vars

\* The pattern tool, "the exact gate" (tools/host_ssh.py 104-105), never takes the
\* ZFS half from a finished section under a dated name, though PVE may write sections
\* and snapshots between its list, its read of the configs and each destroy: it lists
\* first, and PVE writes the section before the snapshot.
PatternNeverOrphans ==
    [][\A c \in Caller : call[c].tool = "pattern" =>
          \A s \in DestroyedBy(c) \cap Dated : conf[s] # "ready"]_vars

\* proxmox_cleanup_vzdump_snapshots "skips snapshots younger than
\* min_age_minutes so it can never race a running backup" (backup_maint.py 8-9):
\* what it destroys is an old @vzdump snapshot at the moment it destroys it.
CleanupSparesYoung ==
    [][\A c \in Caller : call[c].tool = "cleanup" =>
          \A s \in DestroyedBy(c) : s[2] = Vzdump /\ zfs[s] = "old"]_vars
=============================================================================
