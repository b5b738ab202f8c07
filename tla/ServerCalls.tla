----------------------------- MODULE ServerCalls -----------------------------
(***************************************************************************)
(* ToolCalls with two of its parts in detail: a power action learns the    *)
(* guest's type (GuestTypes) before its request, while status calls share  *)
(* the cache; and what runs over SSH is one or more programs whose exit    *)
(* statuses and connection decide the answer (SshCommands).  Every step is *)
(* a step of ToolCalls or leaves it alone.                                 *)
(***************************************************************************)
EXTENDS ToolCalls, GuestTypes, SshCommands

CONSTANT Reader        \* the calls of proxmox_get_vm_status

ASSUME PartsAssumption ==
    Guest = Thing /\ Looker = Call \cup Reader /\ Call \cap Reader = {} /\ Session = Call

serverVars == <<vars, typeVars, commandVars>>

ServerInit == Init /\ TypesInit /\ CommandsInit

Power(c) == args[c].tool = "vm_power"

\* The resolver runs between the gate of vm_power and its request.
Resolves(c) == phase[c] = "send" /\ Power(c)
Routed(c) == Power(c) => look[c].step = "found"

Present == {t \in Thing : content[t] # "none"}

-----------------------------------------------------------------------------
Prepare(c) ==
    /\ Invoke(c) \/ OperatorAnswers(c) \/ Body(c)
    /\ UNCHANGED <<typeVars, commandVars>>

ResolveType(c) ==
    /\ Resolves(c)
    /\ Lookup(c, thing[c], Present)
    /\ UNCHANGED <<vars, commandVars>>

Send(c) ==
    /\ Routed(c)
    /\ Accepted(c) \/ AnswerLost(c) \/ Refused(c) \/ TokenRejected(c)
    /\ UNCHANGED <<typeVars, commandVars>>

\* A status call runs whenever a power action may still be led astray by it.
Watched == \E c \in Call : Power(c) /\ phase[c] \in {"body", "send"}

ReadStatus(r) ==
    /\ Watched
    /\ \/ \E g \in Guest : Lookup(r, g, Present)
       \/ Return(r)
    /\ UNCHANGED <<vars, commandVars>>

TimePasses ==
    /\ Watched
    /\ Tick
    /\ UNCHANGED <<vars, commandVars>>

-----------------------------------------------------------------------------
StartCommand(c) ==
    /\ Valid(Programs(args[c]))
    /\ RunCommand(c)
    /\ Connect(c)
    /\ UNCHANGED typeVars

\* An argv outside the list is refused before the connection is made.
NotStarted(c) ==
    /\ ConnectFails(c)
    /\ UNCHANGED <<typeVars, commandVars>>

LoseLink(c) ==
    /\ phase[c] = "shell"
    /\ LinkLost(c)
    /\ UNCHANGED <<vars, typeVars>>

Finish(c) ==
    /\ CommandReturns(c)
    /\ reply'[c] \in Result(c)
    /\ UNCHANGED <<typeVars, commandVars>>

-----------------------------------------------------------------------------
\* A guest that is made where there was none may be of either type.
Types(t) ==
    \/ UNCHANGED typeVars
    \/ /\ Watched
       /\ content[t] = "none" /\ content'[t] # "none"
       /\ Remade(t)

ApiTaskEnds(c) ==
    /\ way[c] = "api"
    /\ TaskEnds(c)
    /\ Types(thing[c])
    /\ UNCHANGED commandVars

SshTaskEnds(c) ==
    /\ way[c] = "ssh"
    /\ TaskEnds(c)
    /\ task'[c] # "warnings"
    /\ ProgramsEnd(c, args[c], task'[c] = "ok")
    /\ UNCHANGED typeVars

Others(t) ==
    /\ Elsewhere(t)
    /\ Types(t)
    /\ UNCHANGED commandVars

PollRound(c) == Poll(c) /\ UNCHANGED <<typeVars, commandVars>>
PollLost(c) == PollFails(c) /\ UNCHANGED <<typeVars, commandVars>>

-----------------------------------------------------------------------------
ServerStep(c) ==
    \/ Prepare(c) /\ phase[c] = "body"
    \/ ResolveType(c) \/ Send(c)
    \/ StartCommand(c) \/ NotStarted(c) \/ Finish(c)
    \/ PollRound(c)

ServerNext ==
    \/ \E c \in Call :
        \/ Prepare(c)
        \/ ResolveType(c) \/ Send(c)
        \/ StartCommand(c) \/ NotStarted(c) \/ LoseLink(c) \/ Finish(c)
        \/ PollRound(c) \/ PollLost(c)
        \/ ApiTaskEnds(c) \/ SshTaskEnds(c)
    \/ \E r \in Reader : ReadStatus(r)
    \/ TimePasses
    \/ \E t \in Thing : Others(t)

ServerSpec == ServerInit /\ [][ServerNext]_serverVars

\* As in ToolCalls; a lookup ends, for its request has a timeout.
FairServerSpec == ServerSpec /\ \A c \in Call : WF_serverVars(ServerStep(c))

-----------------------------------------------------------------------------
\* "done" is true of work that ran over SSH: every program of the pipe has ended
\* well, unless the connection was lost, when `exit_status or 0` says 0 of a
\* command nobody knows the end of (ssh.py run_command and run_pipeline,
\* host_ssh.py exec_command).
DoneIsDone == \A c \in Call : reply[c] = "done" => task[c] = "ok" \/ link[c] = "lost"
=============================================================================
