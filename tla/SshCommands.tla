----------------------------- MODULE SshCommands -----------------------------
(***************************************************************************)
(* The commands of ssh.py: run_command() starts one program on the host,   *)
(* run_pipeline() several with pipes between them, and both give back one  *)
(* exit status, `exit_status or 0`.  The connection may be lost while the  *)
(* programs go on.                                                         *)
(***************************************************************************)
EXTENDS Naturals, Sequences

CONSTANT Session       \* the calls that run commands

VARIABLES
    exits,     \* exits[c]: the exit statuses of its programs, once all have ended
    link       \* link[c]: "none", "up", "lost" (while the command ran)

commandVars == <<exits, link>>

AllowedBinaries ==
    {"wipefs", "sgdisk", "blkdiscard", "dd", "zfs", "zpool", "pvs", "vgs", "lvs",
     "lvremove", "vgremove", "pvremove", "lsblk", "nvme", "smartctl"}

\* The programs a call runs, in the order of the pipe.  The exec tools and
\* ct_service_action give a line to the host's shell, through host_ssh.py.
Programs(a) ==
    CASE a.tool = "zfs_send"     -> IF a.action = "recv" THEN <<"zfs", "zfs">> ELSE <<"zfs", "dd">>
      [] a.tool = "disk_prepare" -> IF a.action = "wipe" THEN <<"wipefs">> ELSE <<"sgdisk">>
      [] a.tool = "zfs_scrub"    -> <<"zpool">>
      [] a.tool \in {"zfs_dataset", "zfs_create_snapshot", "zfs_property"} -> <<"zfs">>
      [] OTHER -> <<"shell">>

\* _validate_argv, on every stage; host_ssh.py has no list.
Valid(programs) ==
    \A i \in DOMAIN programs : programs[i] \in AllowedBinaries \cup {"shell"}

\* Mutant: the status of a pipe without pipefail.
LastStatus(statuses) == statuses[Len(statuses)]

\* The status of `set -o pipefail; a | b`: that of the last program that failed.
Status(statuses) ==
    LET failed == {i \in DOMAIN statuses : statuses[i] # 0}
    IN  IF failed = {} THEN 0
        ELSE statuses[CHOOSE i \in failed : \A j \in failed : j <= i]

CommandsInit ==
    /\ exits = [c \in Session |-> <<>>]
    /\ link = [c \in Session |-> "none"]

Connect(c) ==
    /\ link' = [link EXCEPT ![c] = "up"]
    /\ UNCHANGED exits

\* All programs have ended; the work is done if every one of them says so.
ProgramsEnd(c, a, done) ==
    /\ exits[c] = <<>>
    /\ \E statuses \in [DOMAIN Programs(a) -> {0, 1}] :
        /\ done <=> \A i \in DOMAIN statuses : statuses[i] = 0
        /\ exits' = [exits EXCEPT ![c] = statuses]
    /\ UNCHANGED link

LinkLost(c) ==
    /\ link[c] = "up"
    /\ link' = [link EXCEPT ![c] = "lost"]
    /\ UNCHANGED exits

\* What the call is told: the status; 0 if the channel closed without one; or
\* that the time is up, or the connection gone.
Result(c) ==
    (IF link[c] = "up" /\ exits[c] # <<>>
     THEN {IF Status(exits[c]) = 0 THEN "done" ELSE "error"} ELSE {})
    \cup (IF link[c] = "lost" THEN {"done"} ELSE {})
    \cup {"error"}
=============================================================================
