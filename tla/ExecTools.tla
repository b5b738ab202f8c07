----------------------------- MODULE ExecTools -----------------------------
(***************************************************************************)
(* The tools that run a command line over SSH and record it: host_exec,    *)
(* host_read_exec (tools/host_read.py), lxc_exec, ct_service_action,       *)
(* ct_log_tail (tools/ct_ops.py), vm_exec and vm_read_file, with           *)
(* host_ssh.exec_command and vm_ssh.exec_command.  A client types a        *)
(* command; host_read_exec has it checked and rebuilt (ReadAllow), three   *)
(* others ask for a flag where it looks destructive (ShellGate); a         *)
(* connection is opened, to a guest through a tunnel where its alias asks  *)
(* for one; bash expands the line in whatever directory it starts in       *)
(* (HostShell); timers on the host, inside the CT and in the tool end it;  *)
(* and the call is recorded.  The client may cancel the call at any await. *)
(***************************************************************************)
EXTENDS ReadAllow, HostShell

Gate == INSTANCE ShellGate

CONSTANTS
    NextWords(_),  \* the words a client may type after those it has typed
    NextLines(_, _), \* the lines a client of a tool may make of the one it has
    Dirs           \* listings of the directory bash starts in

ASSUME DirsAssumption == \A d \in Dirs : IsListing(d)

VARIABLES
    tool,     \* the tool that is called
    typed,    \* the words typed for host_read_exec
    line,     \* the others' line: its text, what bash does with it, and what is
              \* around the command in it (ShellForms)
    ack,      \* i_understand_data_loss: "none", "given", or "demanded" by the gate
    tunnel,   \* a guest's tunnel: "none", "wanted", "open" or "closed"
    phase,    \* where the call is
    conn,     \* the SSH connection: "none", "open" or "closed"
    result,   \* what exec_command came back with: "none", "rc", "timeout",
              \* "failed", or "lost": _connect raised an exception it does not list
    argv,     \* the words bash made of the line that was run
    temper,   \* what the command does when left alone, or asked to end
    stage,    \* 1: the timeout has passed, 2: KILL_AFTER too, 3: and 5 s more
    proc,     \* the processes "host" and "ct": "none", "runs" or "ended"
    audited   \* the call's line in the audit log, "" when it has none

vars == <<tool, typed, line, ack, tunnel, phase, conn, result, argv, temper, stage, proc, audited>>
call == <<tool, typed, line, ack>>
remote == <<argv, temper, stage, proc>>

\* ct_service is ct_service_action, ct_log is ct_log_tail: fixed commands of theirs.
PctTools == {"lxc_exec", "ct_service", "ct_log"}
HostTools == {"host_exec", "host_read"} \cup PctTools
GuestTools == {"vm_exec", "vm_read"}
Gated == {"host_exec", "lxc_exec", "vm_exec"}
NoLine == [text |-> <<>>, kind |-> "list", does |-> "none", plain |-> FALSE, wraps |-> 0]
Phases == {"typing", "returned", "refused", "connecting", "running", "closing",
           "over", "cancelled", "died"}
\* Left alone it "ends" or waits; "stubborn" takes a SIGKILL, and "stuck" (asleep
\* in the kernel on a blocking device) is not ended by that either.
Tempers == {"ends", "waits", "stubborn", "stuck"}
Sides == {"host", "ct"}
Does == {"harm", "show", "maybe", "none"}   \* what bash does with a line

TypeOK ==
    /\ tool \in HostTools \cup GuestTools
    /\ phase \in Phases
    /\ conn \in {"none", "open", "closed"}
    /\ tunnel \in IF tool \in GuestTools THEN {"none", "wanted", "open", "closed"} ELSE {"none"}
    /\ result \in {"none", "rc", "timeout", "failed", "lost"}
    /\ temper \in Tempers
    /\ stage \in 0..3
    /\ proc \in [Sides -> {"none", "runs", "ended"}]
    /\ audited \in {"", "refused", "failed", "ran"}
    /\ line.does \in Does
    /\ ack \in IF tool \in Gated THEN {"none", "given", "demanded"} ELSE {"none"}
    /\ \A k \in DOMAIN typed : IsWord(typed[k])
    /\ (audited = "") = (phase \notin {"refused", "over"})
    /\ (conn = "open") = (phase \in {"running", "closing"})

Init ==
    /\ tool \in HostTools \cup GuestTools
    /\ tunnel \in IF tool \in GuestTools THEN {"none", "wanted"} ELSE {"none"}
    /\ typed = <<>> /\ line = NoLine /\ ack = "none" /\ phase = "typing" /\ conn = "none" /\ result = "none"
    /\ argv = <<>> /\ temper = "ends" /\ stage = 0
    /\ proc = [p \in Sides |-> "none"] /\ audited = ""

\* The client adds a word to the command it is about to send.
Type ==
    /\ phase = "typing" /\ tool = "host_read"
    /\ \E w \in NextWords(typed) : IsWord(w) /\ typed' = Append(typed, w)
    /\ UNCHANGED <<tool, line, ack, tunnel, phase, conn, result, remote, audited>>

\* The line is a command, or something around the one there is.
TypeLine ==
    /\ phase = "typing" /\ tool \in Gated
    /\ \E l \in NextLines(tool, line) : l.does \in Does /\ line' = l
    /\ UNCHANGED <<tool, typed, ack, tunnel, phase, conn, result, remote, audited>>

\* require_ssh fails, a flag is missing (ToolGates), or ct_log_tail has no unit or
\* file to read: the call returns before anything is checked or recorded.
Return ==
    /\ phase = "typing" /\ tool # "vm_read"
    /\ phase' = "returned"
    /\ UNCHANGED <<call, tunnel, conn, result, remote, audited>>

Checked == tool = "host_read"

\* As if a refusal were only answered.
RefuseUnrecorded ==
    /\ phase = "typing"
    /\ Checked /\ ~Allowed(typed)
    /\ phase' = "refused"
    /\ UNCHANGED <<call, tunnel, conn, result, remote, audited>>

Refuse ==
    /\ phase = "typing"
    /\ Checked /\ ~Allowed(typed)
    /\ phase' = "refused"
    /\ audited' = "refused"
    /\ UNCHANGED <<call, tunnel, conn, result, remote>>

\* is_destructive(params.command): lxc_exec looks at the inner command, and vm_ssh
\* has a list of its own.
\* (HostsListOf: as if it gave no list, and the host's were taken.)
HostsListOf(t) == Gate!HostPatterns
PatternsOf(t) == IF t \in GuestTools THEN Gate!GuestPatterns ELSE Gate!HostPatterns
Danger == Gate!IsDestructive(PatternsOf(tool), line.text)

\* Without the flag a destructive line is refused: nothing is sent or recorded.
\* (From here on only what the line does matters; its text is forgotten.)
Forgotten == [NoLine EXCEPT !.does = line.does, !.plain = line.plain]
Demand ==
    /\ phase = "typing" /\ tool \in Gated /\ line # NoLine
    /\ Danger
    /\ phase' = "returned" /\ ack' = "demanded" /\ line' = Forgotten
    /\ UNCHANGED <<tool, typed, tunnel, conn, result, remote, audited>>

Accept ==
    /\ phase = "typing"
    /\ Checked => Allowed(typed)
    /\ tool \in Gated => line # NoLine
    /\ ack' \in IF tool \in Gated THEN {"none", "given"} ELSE {"none"}
    /\ tool \in Gated /\ Danger => ack' = "given"
    /\ phase' = "connecting" /\ line' = Forgotten
    /\ UNCHANGED <<tool, typed, tunnel, conn, result, remote, audited>>

-----------------------------------------------------------------------------
\* An exception out of exec_command, recorded and answered.
Fail(r) ==
    /\ phase = "connecting"
    /\ phase' = "over"
    /\ result' = r
    /\ audited' = "failed"
    /\ UNCHANGED <<call, conn, remote>>

\* The registry cannot be read, any alias in it is malformed, or this one is unknown.
ResolveFails ==
    /\ tool \in GuestTools /\ tunnel \in {"none", "wanted"}
    /\ Fail("failed")
    /\ UNCHANGED tunnel

TunnelUp ==
    /\ phase = "connecting" /\ tunnel = "wanted"
    /\ tunnel' = "open"
    /\ UNCHANGED <<call, phase, conn, result, remote, audited>>

Shut(t) == IF t = "open" THEN "closed" ELSE t

\* As if only the connection were given up.
ConnectFailsTunnelUp == Fail("failed") /\ UNCHANGED tunnel

\* No key, no route, a wrong key: the tunnel is closed, nothing runs.
ConnectFails == Fail("failed") /\ tunnel' = Shut(tunnel)

\* Any other exception passes _connect, which closes nothing.
ConnectLost == Fail("lost") /\ UNCHANGED tunnel

\* The words of the line: `pct exec <vmid> -- /bin/sh -c <quoted>` for a CT.
Opaque == Plain(Name("sh"))
Line ==
    CASE Checked -> Wrapped(typed)
      [] tool \in PctTools -> <<Plain(Name("pct")), Plain(Name("exec")),
                                Plain(Operand("1", "number")), Plain(DDash), Opaque>>
      [] OTHER -> <<Opaque>>

Run ==
    /\ phase = "connecting" /\ tunnel # "wanted"
    /\ conn' = "open"
    /\ \E dir \in Dirs : argv' = BashWords(Line, dir)
    /\ temper' \in Tempers
    /\ proc' = [host |-> "runs",
                ct |-> IF Inner(Bare(argv')) = <<>> THEN "none" ELSE "runs"]
    /\ phase' = "running"
    /\ UNCHANGED <<call, tunnel, result, stage, audited>>

-----------------------------------------------------------------------------
\* Does coreutils' `timeout` watch this process.
Limited(p) == IF p = "host" THEN UnderLimit(argv)
              ELSE UnderLimit(Inner(Bare(argv)))

\* What ends process p; pct itself takes any signal.
Yields(p, tempers) == temper \notin tempers \/ (p = "host" /\ proc["ct"] # "none")

Due(p) ==
    /\ proc[p] = "runs" /\ Limited(p)
    /\ \/ stage = 1 /\ Yields(p, {"stubborn", "stuck"})
       \/ stage >= 2 /\ Yields(p, {"stuck"})

Expire(p) ==
    /\ Due(p)
    /\ proc' = [proc EXCEPT ![p] = "ended"]
    /\ UNCHANGED <<call, tunnel, phase, conn, result, argv, temper, stage, audited>>

\* The command ends of itself; pct ends with the command it runs.
Ends(p) ==
    /\ proc[p] = "runs"
    /\ IF p = "host" /\ proc["ct"] # "none" THEN proc["ct"] = "ended" ELSE temper = "ends"
    /\ proc' = [proc EXCEPT ![p] = "ended"]
    /\ UNCHANGED <<call, tunnel, phase, conn, result, argv, temper, stage, audited>>

\* The host's timers are punctual: none is due when time moves on, and an exit
\* status travels faster than 5 seconds.
Tick ==
    /\ stage < 3
    /\ \E p \in Sides : proc[p] = "runs"
    /\ \A p \in Sides : ~Due(p)
    /\ ~(phase = "running" /\ proc["host"] = "ended")
    /\ stage' = stage + 1
    /\ UNCHANGED <<call, tunnel, phase, conn, result, argv, temper, proc, audited>>

\* As if the tool waited as long as the command may run.
PatienceOfTimeout == 1

\* host_read_exec waits timeout + KILL_AFTER + 5 seconds, the others timeout.
Patience == IF Checked THEN 3 ELSE 1

\* exec_command leaves conn.run with r and starts to close the connection.
Leave(r) ==
    /\ phase = "running"
    /\ phase' = "closing"
    /\ result' = r
    /\ UNCHANGED <<call, tunnel, conn, remote, audited>>

Returns == proc["host"] = "ended" /\ Leave("rc")
GiveUp == stage >= Patience /\ Leave("timeout")
\* The connection breaks; a channel that closes without a status is rc 0.
ConnectionLost == Leave("failed") \/ Leave("rc")

\* The line in the audit log: with the rc, or FAILED.
Record == IF result = "rc" THEN "ran" ELSE "failed"

\* wait_closed is over, and then the tunnel's: the call is recorded and answered.
Answer ==
    /\ phase = "closing"
    /\ conn' = "closed"
    /\ tunnel' = Shut(tunnel)
    /\ phase' = "over"
    /\ audited' = Record
    /\ UNCHANGED <<call, result, remote>>

\* The client cancels the call: CancelledError is no Exception, so the connection
\* is closed and nothing else is done; the tunnel is closed only if the wait for
\* the connection to close ends before it is cancelled too.
Cancel ==
    /\ phase \in {"connecting", "running", "closing"}
    /\ phase' = "cancelled"
    /\ conn' = Shut(conn)
    /\ tunnel' \in {tunnel} \cup (IF conn = "open" THEN {Shut(tunnel)} ELSE {})
    /\ UNCHANGED <<call, result, remote, audited>>

\* The server dies: the system closes what it had open, the command is on its own.
Crash ==
    /\ phase \in {"connecting", "running", "closing"}
    /\ phase' = "died"
    /\ conn' = Shut(conn)
    /\ tunnel' = Shut(tunnel)
    /\ UNCHANGED <<call, result, remote, audited>>

Next ==
    \/ Type \/ TypeLine \/ Return \/ Refuse \/ Demand \/ Accept
    \/ ResolveFails \/ TunnelUp \/ ConnectFails \/ ConnectLost \/ Run
    \/ \E p \in Sides : Expire(p) \/ Ends(p)
    \/ Tick \/ Returns \/ GiveUp \/ ConnectionLost \/ Answer \/ Cancel \/ Crash

Spec == Init /\ [][Next]_vars

\* The host's clock and timers run, and the tool takes what is there for it.
FairSpec ==
    /\ Spec
    /\ WF_vars(Tick) /\ WF_vars(Returns) /\ WF_vars(GiveUp) /\ WF_vars(Answer)
    /\ \A p \in Sides : WF_vars(Expire(p))

-----------------------------------------------------------------------------
Started == argv # <<>>
Intended == Ran(Texts(typed))

\* Whatever files lie in the directory, no command host_read_exec lets through
\* writes, sets or repeats for ever, on the host or inside the CT, and bash
\* finds nothing to act on in the line but globs (read_allow.check).
ReadsOnly ==
    Started /\ Checked => /\ \A c \in Ran(argv) : ~Harms(c)
                          /\ Tokenizes(typed)

\* Wherever bash's grammar puts a command so that it runs that is opaque, or that
\* the list of the tool's machine calls destructive (after another, in a group or a
\* substitution, in a script for another shell, behind a wrapper), the line that
\* holds it starts only with i_understand_data_loss (host_ssh.py:74-93, "so
\* `false || eval "$X"` is caught").
DangerAcked == Started /\ tool \in Gated /\ line.does = "harm" => ack = "given"

\* ... and where the line only shows the command, in quotes, behind a # or looked
\* up, or is harmless, the flag is not asked for ("while `grep -E 'a|eval'` is
\* not", host_ssh.py:88), unless the raw text itself matches a pattern.
OnlyDangerAsked == line.does \in {"show", "none"} /\ ~line.plain => ack # "demanded"

\* What was checked is what runs: files change operands only, never the
\* program, its subcommand, its options or their values, and no file of the
\* host changes a word of the command inside the CT.
MeaningKept ==
    Started /\ Checked =>
        /\ {Meaning(c) : c \in Ran(argv)} = {Meaning(c) : c \in Intended}
        /\ Bare(Inner(Bare(argv))) = Inner(Texts(typed))

\* host_read_exec gives up only on a command that not even SIGKILL ends:
\* otherwise the limits on the host come before its own.
HostAnswersFirst ==
    Checked /\ result = "timeout" => temper = "stuck" /\ proc["ct"] = "none"

\* Whatever the command does, and even when the tool has lost the connection, the
\* client has cancelled the call or the server has died, nothing of what host_read_exec has started
\* stays behind, on the host or inside the CT (read_allow.check, `timeout`
\* twice), unless it is stuck.
NothingStays ==
    (Checked /\ phase = "running" /\ temper # "stuck") ~> (\A p \in Sides : proc[p] # "runs")

\* KILL_AFTER + 5 s past the timeout nothing of it runs, then: the `timeout`s are
\* both over by themselves, whoever is left to watch.
GoneInTime == Checked /\ stage = 3 /\ temper # "stuck" => \A p \in Sides : proc[p] # "runs"

\* A call that has returned holds no connection, and no tunnel to a guest but
\* where _connect raised what it does not list; a connection never outlives its
\* tunnel, and a cancelled call may leave the tunnel only (vm_ssh.py, finally).
NothingLeftOpen ==
    /\ phase \in {"over", "cancelled", "died", "returned", "refused"} => conn # "open"
    /\ phase = "over" /\ tunnel = "open" => result = "lost"
    /\ conn = "open" => tunnel \in {"none", "open"}

\* "every call written to _host_ssh_audit.log" (host_ssh.py:10): once the call
\* is over, a command that ran has a line in the log.
RanIsRecorded == phase \in {"over", "cancelled"} /\ Started => audited # ""
=============================================================================
