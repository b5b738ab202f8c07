------------------------------ MODULE ToolGates ------------------------------
(***************************************************************************)
(* The flag gate of every tool that changes something: the checks its body *)
(* makes before it sends anything, in code order, each with the answer the *)
(* tool returns when the check stops it, and what the request does to the  *)
(* thing it names.  Nothing here changes state.                            *)
(***************************************************************************)
EXTENDS Naturals, Sequences

\* The operations: a tool and its action.  "destructive" and "plain" are an exec
\* tool's command with and without a hit of the scanner; "recv" and "file" the two
\* targets of a send; "destroy -r" a recursive destroy.
Operation ==
    ({"snapshot"} \X {"create", "rollback", "delete"})
    \cup ({"restore_backup"} \X {"restore"})
    \cup ({"create_vm", "create_container", "clone_vm", "create_backup", "zfs_create_snapshot"}
            \X {"create"})
    \cup ({"vm_power", "resize_vm", "move_disk", "zfs_scrub"} \X {"alter"})
    \cup ({"zfs_pool_manage"} \X {"create", "destroy"})
    \cup ({"lvm_manage"} \X {"create_vg", "create_thin", "destroy_vg", "destroy_thin"})
    \cup ({"storage_config"} \X {"add_zfs", "add_dir", "remove"})
    \cup ({"disk_prepare"} \X {"wipe", "init_gpt"})
    \cup ({"zfs_dataset"} \X {"create", "destroy", "destroy -r"})
    \cup ({"zfs_property"} \X {"get", "set"})
    \cup ({"zfs_send"} \X {"recv", "file"})
    \cup ({"host_exec", "lxc_exec", "vm_exec"} \X {"plain", "destructive"})
    \cup ({"ct_service_action"} \X {"read", "change"})

Reads == {<<"zfs_property", "get">>, <<"ct_service_action", "read">>}

\* The tools whose input model has the flag.
HasAck == {"snapshot", "restore_backup", "zfs_pool_manage", "lvm_manage", "disk_prepare",
           "zfs_dataset", "host_exec", "lxc_exec", "vm_exec"}
HasDry == {"restore_backup", "create_vm", "create_container", "clone_vm"}
\* proxmox_snapshot's `force` gates nothing, it is passed on to PVE.
HasForce == {"restore_backup"}
\* The tools with `wait_seconds`: those that call wait_for_task.
HasWait == {"snapshot", "restore_backup", "create_backup", "create_vm", "create_container",
            "clone_vm", "vm_power", "move_disk", "zfs_pool_manage", "lvm_manage",
            "disk_prepare"}
\* The tools whose body checks other arguments too: a value, a device count, ...
HasChecks == {"clone_vm", "resize_vm", "zfs_pool_manage", "zfs_property", "zfs_send"}

\* The tools that work over SSH; disk_prepare is told how (`via`).
OverSsh == {"zfs_dataset", "zfs_create_snapshot", "zfs_scrub", "zfs_property", "zfs_send",
            "host_exec", "lxc_exec", "vm_exec", "ct_service_action"}
Vias(tool) == IF tool = "disk_prepare" THEN {"api", "ssh", "auto"}
              ELSE IF tool \in OverSsh THEN {"ssh"} ELSE {"api"}

\* The calls of these operations: a flag the tool does not have is FALSE, and
\* `sound` says that the other checks of the body pass.
Requests(operations) ==
    UNION {[tool : {o[1]}, action : {o[2]}, via : Vias(o[1]), confirm : BOOLEAN,
            ack : IF o[1] \in HasAck THEN BOOLEAN ELSE {FALSE},
            dry : IF o[1] \in HasDry THEN BOOLEAN ELSE {FALSE},
            force : IF o[1] \in HasForce THEN BOOLEAN ELSE {FALSE},
            sound : IF o[1] \in HasChecks THEN BOOLEAN ELSE {TRUE}] : o \in operations}

-----------------------------------------------------------------------------
Check(stops, answer) == [stops |-> stops, answer |-> answer]

Confirm(a) == Check(~a.confirm, "missing_confirm")
DataLossAck(a) == Check(~a.ack, "missing_data_loss_ack")
Preview(a) == Check(a.dry, "preview")
Sound(a) == Check(~a.sound, "bad_input")

\* A check made only when `cond` holds.
When(cond, check) == [check EXCEPT !.stops = cond /\ @]

\* The answer of the first check that stops the call, "go" if none does.
FirstStop(checks) ==
    LET stopping == {i \in DOMAIN checks : checks[i].stops}
    IN  IF stopping = {} THEN "go"
        ELSE checks[CHOOSE i \in stopping : \A j \in stopping : i <= j].answer

-----------------------------------------------------------------------------
(* The tools.  `known` is what a body learns before its gate: the operator's *)
(* verdict on a snapshot call, or the probe for the restore's target.        *)

\* Mutant: what ack_refusal() says is ignored.
SnapshotUnasked(a, known) ==
    <<Confirm(a), When(a.action = "delete", DataLossAck(a))>>

Snapshot(a, known) ==
    <<Confirm(a), When(a.action = "delete", DataLossAck(a)),
      Check(known = "refused", "operator_refused")>>

\* Mutant: the second flag is asked for only if the probe saw the guest.
RestoreAckIfSeen(a, known) ==
    <<Check(known = "unknown", "probe_failed"),
      Check(known = "exists" /\ ~a.force, "exists"),
      Preview(a), Confirm(a), When(a.force /\ known = "exists", DataLossAck(a))>>

Restore(a, known) ==
    <<Check(known = "unknown", "probe_failed"),
      Check(known = "exists" /\ ~a.force, "exists"),
      Preview(a), Confirm(a), When(a.force, DataLossAck(a))>>

CreateVm(a) == <<Preview(a), Confirm(a)>>
CreateContainer(a) == <<Preview(a), Confirm(a)>>
CloneVm(a) == <<Sound(a), Preview(a), Confirm(a)>>
MoveDisk(a) == <<Confirm(a)>>
CreateBackup(a) == <<Confirm(a)>>
VmPower(a) == <<Confirm(a)>>
ResizeVm(a) == <<Confirm(a), Sound(a)>>
ZfsPoolManage(a) ==
    <<Confirm(a), When(a.action = "destroy", DataLossAck(a)),
      When(a.action = "create", Sound(a))>>
LvmManage(a) ==
    <<Confirm(a), When(a.action \in {"destroy_vg", "destroy_thin"}, DataLossAck(a))>>
StorageConfig(a) == <<Confirm(a)>>
DiskPrepare(a) == <<Confirm(a), When(a.action = "wipe", DataLossAck(a))>>
ZfsDataset(a) == <<Confirm(a), When(a.action = "destroy -r", DataLossAck(a))>>
ZfsCreateSnapshot(a) == <<Confirm(a)>>
ZfsProperty(a) == <<When(a.action = "set", Confirm(a)), When(a.action = "set", Sound(a))>>
ZfsScrub(a) == <<Confirm(a)>>
ZfsSend(a) == <<Confirm(a), Sound(a)>>
\* What host_exec checks of a `zfs destroy` besides is in SnapshotGuard.
HostExec(a) == <<Confirm(a), When(a.action = "destructive", DataLossAck(a))>>
LxcExec(a) == <<Confirm(a), When(a.action = "destructive", DataLossAck(a))>>
VmExec(a) == <<Confirm(a), When(a.action = "destructive", DataLossAck(a))>>
CtServiceAction(a) == <<When(a.action = "change", Confirm(a))>>

Checks(a, known) ==
    CASE a.tool = "snapshot"            -> Snapshot(a, known)
      [] a.tool = "restore_backup"      -> Restore(a, known)
      [] a.tool = "create_backup"       -> CreateBackup(a)
      [] a.tool = "create_vm"           -> CreateVm(a)
      [] a.tool = "create_container"    -> CreateContainer(a)
      [] a.tool = "clone_vm"            -> CloneVm(a)
      [] a.tool = "vm_power"            -> VmPower(a)
      [] a.tool = "resize_vm"           -> ResizeVm(a)
      [] a.tool = "move_disk"           -> MoveDisk(a)
      [] a.tool = "zfs_pool_manage"     -> ZfsPoolManage(a)
      [] a.tool = "lvm_manage"          -> LvmManage(a)
      [] a.tool = "storage_config"      -> StorageConfig(a)
      [] a.tool = "disk_prepare"        -> DiskPrepare(a)
      [] a.tool = "zfs_dataset"         -> ZfsDataset(a)
      [] a.tool = "zfs_create_snapshot" -> ZfsCreateSnapshot(a)
      [] a.tool = "zfs_scrub"           -> ZfsScrub(a)
      [] a.tool = "zfs_property"        -> ZfsProperty(a)
      [] a.tool = "zfs_send"            -> ZfsSend(a)
      [] a.tool = "host_exec"           -> HostExec(a)
      [] a.tool = "lxc_exec"            -> LxcExec(a)
      [] a.tool = "vm_exec"             -> VmExec(a)
      [] a.tool = "ct_service_action"   -> CtServiceAction(a)

Gate(a, known) == FirstStop(Checks(a, known))

-----------------------------------------------------------------------------
\* What the request does to the thing it names, sent this way ("api" or "ssh"):
\* make it where there is none, drop it, replace what is there whatever it
\* holds, blank it unless it holds data, or leave its data alone.
Effect(a, way) ==
    CASE a.action \in {"create", "create_vg", "create_thin"} -> "make"
      [] a.action \in {"delete", "destroy", "destroy -r", "destroy_vg", "destroy_thin",
                       "destructive"} -> "drop"
      [] a.action = "restore" -> IF a.force THEN "replace" ELSE "make"
      [] a.action \in {"rollback", "wipe", "recv", "file"} -> "replace"
      [] a.action = "init_gpt" -> IF way = "api" THEN "blank" ELSE "replace"
      [] OTHER -> "alter"
=============================================================================
