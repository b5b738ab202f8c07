------------------------------ MODULE ToolCalls ------------------------------
(***************************************************************************)
(* A call of a changing tool, from its arguments to its answer: the        *)
(* operator's approval (operator_ack.py), the flag gate (ToolGates), the   *)
(* REST request or the SSH command, and wait_for_task (http_client.py).    *)
(* PVE and the host's shell work on after they have accepted a request,    *)
(* whether or not their answer arrives, and others change the same things  *)
(* at any moment.                                                          *)
(***************************************************************************)
EXTENDS ToolGates

CONSTANTS
    Call,          \* the calls
    Thing,         \* guests, snapshots, disks, pools, datasets, files
    Operations,    \* the operations called
    CanAsk,        \* does the client offer form elicitation: subset of BOOLEAN
    MaxWait,       \* bound: polls that fit into wait_seconds
    ConfirmOnly    \* the operations taken to need no i_understand_data_loss

ASSUME CallsAssumption ==
    /\ Operations \subseteq Operation
    /\ CanAsk \subseteq BOOLEAN
    /\ MaxWait \in Nat

Request == Requests(Operations)
NoRequest == [tool |-> "none"]

VARIABLES
    phase,     \* phase[c]: what call c does next
    args,      \* args[c]: its arguments
    thing,     \* thing[c]: what they name
    known,     \* known[c]: what it learned before the gate, see ToolGates
    left,      \* left[c]: polls left
    task,      \* task[c]: the work PVE or the host's shell does for it
    way,       \* way[c]: how that work was asked for
    reply,     \* reply[c]: its answer
    content    \* content[t]: "none", "empty" or "data"

vars == <<phase, args, thing, known, left, task, way, reply, content>>

Replies == {"none", "missing_confirm", "missing_data_loss_ack", "preview", "bad_input",
            "operator_refused", "probe_failed", "exists",
            "error", "accepted", "finished", "failed", "still_running", "poll_failed", "done"}

\* The answers of a call that was stopped before it sent anything.
Stopped == {"missing_confirm", "missing_data_loss_ack", "preview", "bad_input",
            "operator_refused", "probe_failed", "exists"}

TypeOK ==
    /\ phase \in [Call -> {"idle", "asking", "body", "send", "ssh", "shell", "poll", "over"}]
    /\ args \in [Call -> Request \cup {NoRequest}]
    /\ thing \in [Call -> Thing]
    /\ known \in [Call -> {"nothing", "approved", "refused", "unknown", "free", "exists"}]
    /\ left \in [Call -> 0..MaxWait]
    /\ task \in [Call -> {"none", "running", "ok", "warnings", "failed"}]
    /\ way \in [Call -> {"none", "api", "ssh"}]
    /\ reply \in [Call -> Replies]
    /\ content \in [Thing -> {"none", "empty", "data"}]

Init ==
    /\ phase = [c \in Call |-> "idle"]
    /\ args = [c \in Call |-> NoRequest]
    /\ thing \in [Call -> Thing]
    /\ known = [c \in Call |-> "nothing"]
    /\ left = [c \in Call |-> 0]
    /\ task = [c \in Call |-> "none"]
    /\ way = [c \in Call |-> "none"]
    /\ reply = [c \in Call |-> "none"]
    /\ content \in [Thing -> {"none", "empty", "data"}]

Answer(c, r) ==
    /\ phase' = [phase EXCEPT ![c] = "over"]
    /\ reply' = [reply EXCEPT ![c] = r]

GoTo(c, p) == phase' = [phase EXCEPT ![c] = p] /\ UNCHANGED reply

-----------------------------------------------------------------------------
\* The resolver asks once `confirm` is set; it looks at no other flag.
AsksOperator(a) == a.tool = "snapshot" /\ a.confirm

Invoke(c) ==
    /\ phase[c] = "idle"
    /\ \E a \in Request, canAsk \in CanAsk :
        /\ args' = [args EXCEPT ![c] = a]
        /\ GoTo(c, IF AsksOperator(a) /\ canAsk THEN "asking" ELSE "body")
        /\ \E n \in IF a.tool \in HasWait THEN 0..MaxWait ELSE {0} : left' = [left EXCEPT ![c] = n]
    /\ UNCHANGED <<thing, known, task, way, content>>

\* The operator approves, or says no, declines or cancels.
OperatorAnswers(c) ==
    /\ phase[c] = "asking"
    /\ \E verdict \in {"approved", "refused"} : known' = [known EXCEPT ![c] = verdict]
    /\ GoTo(c, "body")
    /\ UNCHANGED <<args, thing, left, task, way, content>>

\* What the body has learned when it comes to its gate: for a restore the answer
\* of /cluster/resources, which may fail.
Learned(c) ==
    IF args[c].tool = "restore_backup"
    THEN {"unknown", IF content[thing[c]] = "none" THEN "free" ELSE "exists"}
    ELSE {known[c]}

Body(c) ==
    /\ phase[c] = "body"
    /\ \E k \in Learned(c) :
        /\ known' = [known EXCEPT ![c] = k]
        /\ IF Gate(args[c], k) = "go"
           THEN GoTo(c, IF args[c].via = "ssh" THEN "ssh" ELSE "send")
           ELSE Answer(c, Gate(args[c], k))
    /\ UNCHANGED <<args, thing, left, task, way, content>>

-----------------------------------------------------------------------------
\* PVE or the host starts the work.
Starts(c, w) ==
    /\ task' = [task EXCEPT ![c] = "running"]
    /\ way' = [way EXCEPT ![c] = w]

\* PVE accepts the request and answers with a task id.
Accepted(c) ==
    /\ phase[c] = "send"
    /\ Starts(c, "api")
    /\ IF left[c] = 0 THEN Answer(c, "accepted") ELSE GoTo(c, "poll")
    /\ UNCHANGED <<args, thing, known, left, content>>

\* Mutant: via="auto" goes over to SSH after any failure.
AnswerLostFallsBack(c) ==
    /\ phase[c] = "send"
    /\ Starts(c, "api")
    /\ IF args[c].via = "auto" THEN GoTo(c, "ssh") ELSE Answer(c, "error")
    /\ UNCHANGED <<args, thing, known, left, content>>

\* It accepts and the answer is lost, or comes too late.
AnswerLost(c) ==
    /\ phase[c] = "send"
    /\ Starts(c, "api")
    /\ Answer(c, "error")
    /\ UNCHANGED <<args, thing, known, left, content>>

\* It refuses, or the request never reaches it.
Refused(c) ==
    /\ phase[c] = "send"
    /\ Answer(c, "error")
    /\ UNCHANGED <<args, thing, known, left, task, way, content>>

\* It rejects the API token (403, root@pam): via="auto" goes on over SSH if SSH is
\* configured.
TokenRejected(c) ==
    /\ phase[c] = "send"
    /\ \/ args[c].via = "auto" /\ GoTo(c, "ssh")
       \/ Answer(c, "error")
    /\ UNCHANGED <<args, thing, known, left, task, way, content>>

-----------------------------------------------------------------------------
\* run_command, run_pipeline, exec_command: connect and start the command.
RunCommand(c) ==
    /\ phase[c] = "ssh"
    /\ Starts(c, "ssh")
    /\ GoTo(c, "shell")
    /\ UNCHANGED <<args, thing, known, left, content>>

ConnectFails(c) ==
    /\ phase[c] = "ssh"
    /\ Answer(c, "error")
    /\ UNCHANGED <<args, thing, known, left, task, way, content>>

\* The command's exit status, 0 when none came; or the timeout, after which the
\* command may still be running.
CommandReturns(c) ==
    /\ phase[c] = "shell"
    /\ \/ task[c] = "ok" /\ Answer(c, "done")
       \/ task[c] \in {"warnings", "failed"} /\ Answer(c, "error")
       \/ Answer(c, "error")
       \/ Answer(c, "done")
    /\ UNCHANGED <<args, thing, known, left, task, way, content>>

-----------------------------------------------------------------------------
\* One round of wait_for_task: GET the status, then look at the deadline.
PollFails(c) ==
    /\ phase[c] = "poll"
    /\ Answer(c, "poll_failed")
    /\ UNCHANGED <<args, thing, known, left, task, way, content>>

\* Mutant: one round more than wait_seconds.
PollPastDeadline(c) ==
    /\ phase[c] = "poll"
    /\ \/ task[c] = "ok" /\ Answer(c, "finished") /\ UNCHANGED left
       \/ task[c] \in {"warnings", "failed"} /\ Answer(c, "failed") /\ UNCHANGED left
       \/ task[c] = "running" /\ left[c] < 0 /\ Answer(c, "still_running") /\ UNCHANGED left
       \/ task[c] = "running" /\ left[c] >= 0
          /\ left' = [left EXCEPT ![c] = @ - 1] /\ UNCHANGED <<phase, reply>>
    /\ UNCHANGED <<args, thing, known, task, way, content>>

\* Mutant: a stopped task is taken for a good one.
PollAnyStop(c) ==
    /\ phase[c] = "poll"
    /\ \/ task[c] # "running" /\ Answer(c, "finished") /\ UNCHANGED left
       \/ task[c] = "running" /\ left[c] = 0 /\ Answer(c, "still_running") /\ UNCHANGED left
       \/ task[c] = "running" /\ left[c] > 0
          /\ left' = [left EXCEPT ![c] = @ - 1] /\ UNCHANGED <<phase, reply>>
    /\ UNCHANGED <<args, thing, known, task, way, content>>

\* Mutant: no deadline.
PollForever(c) ==
    /\ phase[c] = "poll"
    /\ \/ task[c] = "ok" /\ Answer(c, "finished") /\ UNCHANGED left
       \/ task[c] \in {"warnings", "failed"} /\ Answer(c, "failed") /\ UNCHANGED left
       \/ task[c] = "running" /\ UNCHANGED <<phase, reply, left>>
    /\ UNCHANGED <<args, thing, known, task, way, content>>

Poll(c) ==
    /\ phase[c] = "poll"
    /\ \/ task[c] = "ok" /\ Answer(c, "finished") /\ UNCHANGED left
       \/ task[c] \in {"warnings", "failed"} /\ Answer(c, "failed") /\ UNCHANGED left
       \/ task[c] = "running" /\ left[c] = 0 /\ Answer(c, "still_running") /\ UNCHANGED left
       \/ task[c] = "running" /\ left[c] > 0
          /\ left' = [left EXCEPT ![c] = @ - 1] /\ UNCHANGED <<phase, reply>>
    /\ UNCHANGED <<args, thing, known, task, way, content>>

-----------------------------------------------------------------------------
(* The host, which is not under src/.                                      *)

\* The content of a thing after this effect on it; a task that meets another
\* content than its effect allows fails.
Allows(effect, now) ==
    CASE effect = "make"  -> now = "none"
      [] effect = "blank" -> now = "empty"
      [] OTHER            -> now # "none"

After(effect, now) ==
    CASE effect = "drop"  -> "none"
      [] effect = "alter" -> now
      [] OTHER            -> "empty"

\* The work ends; one that fails may have done its work or not.
TaskEnds(c) ==
    /\ task[c] = "running"
    /\ LET effect == Effect(args[c], way[c])
           now == content[thing[c]]
           changed == [content EXCEPT ![thing[c]] = After(effect, now)]
       IN  \/ /\ Allows(effect, now)
              /\ task' \in {[task EXCEPT ![c] = x] : x \in {"ok", "warnings", "failed"}}
              /\ content' = changed
           \/ /\ task' = [task EXCEPT ![c] = "failed"]
              /\ UNCHANGED content
    /\ UNCHANGED <<phase, args, thing, known, left, way, reply>>

\* Somebody else makes, fills, empties or removes a thing.
Elsewhere(t) ==
    /\ \E x \in {"none", "empty", "data"} \ {content[t]} : content' = [content EXCEPT ![t] = x]
    /\ UNCHANGED <<phase, args, thing, known, left, task, way, reply>>

-----------------------------------------------------------------------------
Step(c) ==
    \/ Body(c)
    \/ Accepted(c) \/ AnswerLost(c) \/ Refused(c) \/ TokenRejected(c)
    \/ RunCommand(c) \/ ConnectFails(c) \/ CommandReturns(c)
    \/ Poll(c)

Next ==
    \/ \E c \in Call : Invoke(c) \/ OperatorAnswers(c) \/ Step(c) \/ PollFails(c) \/ TaskEnds(c)
    \/ \E t \in Thing : Elsewhere(t)

Spec == Init /\ [][Next]_vars

\* A body goes on: requests and commands have timeouts, sleeps end.  Nothing is
\* said of the operator, of PVE's tasks, or of a status request failing.
FairSpec == Spec /\ \A c \in Call : WF_vars(Step(c))

-----------------------------------------------------------------------------
\* The operations that lose data on confirm alone: a rollback drops what is newer
\* than the snapshot, `zfs destroy` without -r a dataset, sgdisk a partition table,
\* `zfs recv -F` and dd what the target held.
LossyOnConfirm ==
    {<<"snapshot", "rollback">>, <<"zfs_dataset", "destroy">>, <<"disk_prepare", "init_gpt">>,
     <<"zfs_send", "recv">>, <<"zfs_send", "file">>}

Op(c) == <<args[c].tool, args[c].action>>

\* "Nothing changes state until an explicit confirm=true call" (README 209-210),
\* a preview changes nothing and a declined prompt issues no write: work that
\* changes something was asked for with confirm, without dry_run, by a call the
\* operator did not refuse, and a stopped call has no work behind it, ever.
NothingWithoutConsent ==
    \A c \in Call : task[c] # "none" =>
        /\ reply[c] \notin Stopped
        /\ Op(c) \in Reads \/ (args[c].confirm /\ ~args[c].dry /\ known[c] # "refused")

\* The answer is true, though the work ends when it likes: "finished" is work
\* that ended well, "failed" work that did not, and the other good answers work
\* PVE has accepted.
AnswerTrue ==
    \A c \in Call :
        /\ reply[c] = "finished" => task[c] = "ok"
        /\ reply[c] = "failed" => task[c] \in {"warnings", "failed"}
        /\ reply[c] \in {"accepted", "still_running", "poll_failed"} => task[c] # "none"

\* One call starts one piece of work at most: in particular the SSH fallback of
\* disk_prepare only follows a request PVE did not accept.
WorkOnce ==
    [][\A c \in Call : task[c] # "none" => task'[c] # "running" \/ task[c] = "running"]_vars

\* Data is lost to a call only if it set i_understand_data_loss too, or is one of
\* the operations that do not need it; and to a restore only if it set force,
\* though the guest may have come after the probe.
LossAcked ==
    [][\A c \in Call :
         task'[c] # task[c] /\ content[thing[c]] = "data" /\ content'[thing[c]] # "data" =>
            /\ args[c].ack \/ Op(c) \in ConfirmOnly
            /\ args[c].tool = "restore_backup" => args[c].force]_vars

\* A call that is not waiting for the operator comes to its answer, however long
\* the work takes: wait_for_task gives up at its deadline.
CallReturns ==
    \A c \in Call : phase[c] \in {"body", "send", "ssh", "shell", "poll"} ~> phase[c] = "over"
=============================================================================
