--------------------------- MODULE ToolCallsProofs ---------------------------
(***************************************************************************)
(* What holds of ToolCalls for any calls, things, operations and bounds.   *)
(***************************************************************************)
EXTENDS ToolCalls, TLAPS

\* What a check is.
CheckRec == [stops : BOOLEAN, answer : Stopped]

\* A set of check positions has a first one.
LEMMA SmallMinimum ==
    ASSUME NEW T \in SUBSET (1..5), T # {}
    PROVE  \E i \in T : \A j \in T : i <= j
<1>1. CASE 1 \in T
  BY <1>1
<1>2. CASE 1 \notin T /\ 2 \in T
  BY <1>2
<1>3. CASE 1 \notin T /\ 2 \notin T /\ 3 \in T
  BY <1>3
<1>4. CASE 1 \notin T /\ 2 \notin T /\ 3 \notin T /\ 4 \in T
  BY <1>4
<1>5. CASE 1 \notin T /\ 2 \notin T /\ 3 \notin T /\ 4 \notin T
  <2>1. \A j \in T : j = 5
    BY <1>5
  <2>2. 5 \in T
    <3>1. PICK j \in T : TRUE
      OBVIOUS
    <3> QED BY <2>1, <3>1
  <2> QED BY <2>1, <2>2
<1> QED BY <1>1, <1>2, <1>3, <1>4, <1>5

\* FirstStop answers with the answer of a check, or "go" if no check stops.
LEMMA FirstStopAnswers ==
    ASSUME NEW checks \in Seq(CheckRec), Len(checks) \in 1..5
    PROVE  /\ FirstStop(checks) \in Stopped \cup {"go"}
           /\ FirstStop(checks) = "go" => \A i \in DOMAIN checks : ~checks[i].stops
<1> DEFINE stopping == {i \in DOMAIN checks : checks[i].stops}
<1>1. CASE stopping = {}
  BY <1>1 DEF FirstStop
<1>2. CASE stopping # {}
  <2>1. stopping \in SUBSET (1..5)
    OBVIOUS
  <2>2. PICK i \in stopping : \A j \in stopping : i <= j
    BY <1>2, <2>1, SmallMinimum
  <2> DEFINE m == CHOOSE x \in stopping : \A j \in stopping : x <= j
  <2>3. m \in stopping
    BY <2>2
  <2>4. checks[m] \in CheckRec
    <3> HIDE DEF m
    <3> QED BY <2>3
  <2>5. FirstStop(checks) = checks[m].answer
    BY <1>2 DEF FirstStop
  <2>6. checks[m].answer \in Stopped
    <3> HIDE DEF m
    <3> QED BY <2>4 DEF CheckRec
  <2> QED BY <2>5, <2>6 DEF Stopped
<1> QED BY <1>1, <1>2

\* An element of a product is a pair.
LEMMA Pairs ==
    ASSUME NEW A, NEW B, NEW o \in A \X B
    PROVE  o = <<o[1], o[2]>>
OBVIOUS

\* What a request consists of.
LEMMA RequestFacts ==
    ASSUME NEW a \in Request
    PROVE  /\ <<a.tool, a.action>> \in Operation
           /\ a.confirm \in BOOLEAN /\ a.ack \in BOOLEAN /\ a.dry \in BOOLEAN
           /\ a.force \in BOOLEAN /\ a.sound \in BOOLEAN
           /\ a.dry => a.tool \in HasDry
           /\ a.force => a.tool \in HasForce
  <1>1. PICK o \in Operations : 
        a \in [tool : {o[1]}, action : {o[2]}, via : Vias(o[1]), confirm : BOOLEAN,
            ack : IF o[1] \in HasAck THEN BOOLEAN ELSE {FALSE},
            dry : IF o[1] \in HasDry THEN BOOLEAN ELSE {FALSE},
            force : IF o[1] \in HasForce THEN BOOLEAN ELSE {FALSE},
            sound : IF o[1] \in HasChecks THEN BOOLEAN ELSE {TRUE}]
    BY DEF Request, Requests
  <1>2. o \in Operation
    BY <1>1, CallsAssumption
  <1>3. o = <<o[1], o[2]>>
    BY <1>2, Pairs DEF Operation
  <1> QED BY <1>1, <1>2, <1>3

\* A check is a record of what it is made from.
LEMMA CheckFacts ==
    ASSUME NEW cond \in BOOLEAN, NEW answer \in Stopped
    PROVE  Check(cond, answer) \in CheckRec
BY DEF Check, CheckRec

\* The named checks.
LEMMA NamedChecks ==
    ASSUME NEW a \in Request
    PROVE  /\ Confirm(a) \in CheckRec /\ Confirm(a).stops = ~a.confirm
           /\ DataLossAck(a) \in CheckRec /\ DataLossAck(a).stops = ~a.ack
           /\ Preview(a) \in CheckRec /\ Preview(a).stops = a.dry
           /\ Sound(a) \in CheckRec /\ Sound(a).stops = ~a.sound
BY RequestFacts DEF Confirm, DataLossAck, Preview, Sound, Check, CheckRec, Stopped

\* The checks that are made under a condition.
LEMMA ConditionalChecks ==
    ASSUME NEW a \in Request, NEW x
    PROVE  /\ When(a.action = x, DataLossAck(a)) \in CheckRec
           /\ When(a.action = x, DataLossAck(a)).stops = (a.action = x /\ ~a.ack)
           /\ When(a.action \in x, DataLossAck(a)) \in CheckRec
           /\ When(a.action \in x, DataLossAck(a)).stops = (a.action \in x /\ ~a.ack)
           /\ When(a.force, DataLossAck(a)) \in CheckRec
           /\ When(a.force, DataLossAck(a)).stops = (a.force /\ ~a.ack)
           /\ When(a.action = x, Confirm(a)) \in CheckRec
           /\ When(a.action = x, Confirm(a)).stops = (a.action = x /\ ~a.confirm)
           /\ When(a.action = x, Sound(a)) \in CheckRec
           /\ When(a.action = x, Sound(a)).stops = (a.action = x /\ ~a.sound)
BY NamedChecks, RequestFacts DEF When, CheckRec

\* The gate of a tool with one check.
LEMMA Gate1 ==
    ASSUME NEW x \in CheckRec
    PROVE  /\ FirstStop(<<x>>) \in Stopped \cup {"go"}
           /\ FirstStop(<<x>>) = "go" => ~x.stops
<1> DEFINE s == <<x>>
<1>1. s \in Seq(CheckRec) /\ Len(s) = 1 /\ DOMAIN s = 1..1
  OBVIOUS
<1>2. s[1] = x
  OBVIOUS
<1> HIDE DEF s
<1>3. FirstStop(s) \in Stopped \cup {"go"} /\ (FirstStop(s) = "go" => ~x.stops)
  BY <1>1, <1>2, FirstStopAnswers
<1> QED BY <1>3 DEF s

\* The gate of a tool with two checks.
LEMMA Gate2 ==
    ASSUME NEW x \in CheckRec, NEW y \in CheckRec
    PROVE  /\ FirstStop(<<x, y>>) \in Stopped \cup {"go"}
           /\ FirstStop(<<x, y>>) = "go" => ~x.stops /\ ~y.stops
<1> DEFINE s == <<x, y>>
<1>1. s \in Seq(CheckRec) /\ Len(s) = 2 /\ DOMAIN s = 1..2
  OBVIOUS
<1>2. s[1] = x /\ s[2] = y
  OBVIOUS
<1> HIDE DEF s
<1>3. FirstStop(s) \in Stopped \cup {"go"} /\ (FirstStop(s) = "go" => ~x.stops /\ ~y.stops)
  BY <1>1, <1>2, FirstStopAnswers
<1> QED BY <1>3 DEF s

\* The gate of a tool with three checks.
LEMMA Gate3 ==
    ASSUME NEW x \in CheckRec, NEW y \in CheckRec, NEW z \in CheckRec
    PROVE  /\ FirstStop(<<x, y, z>>) \in Stopped \cup {"go"}
           /\ FirstStop(<<x, y, z>>) = "go" => ~x.stops /\ ~y.stops /\ ~z.stops
<1> DEFINE s == <<x, y, z>>
<1>1. s \in Seq(CheckRec) /\ Len(s) = 3 /\ DOMAIN s = 1..3
  OBVIOUS
<1>2. s[1] = x /\ s[2] = y /\ s[3] = z
  OBVIOUS
<1> HIDE DEF s
<1>3. FirstStop(s) \in Stopped \cup {"go"} /\ (FirstStop(s) = "go" => ~x.stops /\ ~y.stops /\ ~z.stops)
  BY <1>1, <1>2, FirstStopAnswers
<1> QED BY <1>3 DEF s

\* The gate of a tool with five checks.
LEMMA Gate5 ==
    ASSUME NEW x \in CheckRec, NEW y \in CheckRec, NEW z \in CheckRec, NEW u \in CheckRec, NEW v \in CheckRec
    PROVE  /\ FirstStop(<<x, y, z, u, v>>) \in Stopped \cup {"go"}
           /\ FirstStop(<<x, y, z, u, v>>) = "go" => ~x.stops /\ ~y.stops /\ ~z.stops /\ ~u.stops /\ ~v.stops
<1> DEFINE s == <<x, y, z, u, v>>
<1>1. s \in Seq(CheckRec) /\ Len(s) = 5 /\ DOMAIN s = 1..5
  OBVIOUS
<1>2. s[1] = x /\ s[2] = y /\ s[3] = z /\ s[4] = u /\ s[5] = v
  OBVIOUS
<1> HIDE DEF s
<1>3. FirstStop(s) \in Stopped \cup {"go"} /\ (FirstStop(s) = "go" =>
            ~x.stops /\ ~y.stops /\ ~z.stops /\ ~u.stops /\ ~v.stops)
  BY <1>1, <1>2, FirstStopAnswers
<1> QED BY <1>3 DEF s

-----------------------------------------------------------------------------
(* What a call that passes its gate has said. *)

\* The operations that need i_understand_data_loss, and what passing a gate implies.
NeedsAck ==
    {<<"snapshot", "delete">>, <<"zfs_pool_manage", "destroy">>, <<"lvm_manage", "destroy_vg">>,
     <<"lvm_manage", "destroy_thin">>, <<"disk_prepare", "wipe">>, <<"zfs_dataset", "destroy -r">>,
     <<"host_exec", "destructive">>, <<"lxc_exec", "destructive">>, <<"vm_exec", "destructive">>}

Consent(a, k) ==
    /\ <<a.tool, a.action>> \in Reads \/ (a.confirm /\ ~a.dry)
    /\ a.tool = "snapshot" => k # "refused"
    /\ <<a.tool, a.action>> \in NeedsAck => a.ack
    /\ a.tool = "restore_backup" /\ a.force => a.ack

\* A gate answers with a refusal or lets the call go on, and the latter only with
\* the flags of that operation.
LEMMA GatePasses ==
    ASSUME NEW a \in Request, NEW k
    PROVE  /\ Gate(a, k) \in Stopped \cup {"go"}
           /\ Gate(a, k) = "go" => Consent(a, k)
<1>1. CASE a.tool \in {"create_backup", "vm_power", "move_disk", "storage_config",
                      "zfs_create_snapshot", "zfs_scrub"}
  <2> DEFINE x == Confirm(a)
  <2>1. x \in CheckRec /\ x.stops = ~a.confirm
    BY NamedChecks
  <2>2. Gate(a, k) = FirstStop(<<x>>)
    BY <1>1 DEF Gate, Checks, CreateBackup, VmPower, MoveDisk, StorageConfig, ZfsCreateSnapshot, ZfsScrub
  <2> HIDE DEF x
  <2> QED BY <1>1, <2>1, <2>2, Gate1, RequestFacts
    DEF Consent, NeedsAck, Reads, HasDry
<1>2. CASE a.tool \in {"create_vm", "create_container"}
  <2> DEFINE x == Preview(a)
             y == Confirm(a)
  <2>1. x \in CheckRec /\ x.stops = a.dry
    BY NamedChecks
  <2>2. y \in CheckRec /\ y.stops = ~a.confirm
    BY NamedChecks
  <2>3. Gate(a, k) = FirstStop(<<x, y>>)
    BY <1>2 DEF Gate, Checks, CreateVm, CreateContainer
  <2> HIDE DEF x, y
  <2> QED BY <1>2, <2>1, <2>2, <2>3, Gate2, RequestFacts
    DEF Consent, NeedsAck, Reads, HasDry
<1>3. CASE a.tool = "clone_vm"
  <2> DEFINE x == Sound(a)
             y == Preview(a)
             z == Confirm(a)
  <2>1. x \in CheckRec /\ x.stops = ~a.sound
    BY NamedChecks
  <2>2. y \in CheckRec /\ y.stops = a.dry
    BY NamedChecks
  <2>3. z \in CheckRec /\ z.stops = ~a.confirm
    BY NamedChecks
  <2>4. Gate(a, k) = FirstStop(<<x, y, z>>)
    BY <1>3 DEF Gate, Checks, CloneVm
  <2> HIDE DEF x, y, z
  <2> QED BY <1>3, <2>1, <2>2, <2>3, <2>4, Gate3, RequestFacts
    DEF Consent, NeedsAck, Reads, HasDry
<1>4. CASE a.tool \in {"resize_vm", "zfs_send"}
  <2> DEFINE x == Confirm(a)
             y == Sound(a)
  <2>1. x \in CheckRec /\ x.stops = ~a.confirm
    BY NamedChecks
  <2>2. y \in CheckRec /\ y.stops = ~a.sound
    BY NamedChecks
  <2>3. Gate(a, k) = FirstStop(<<x, y>>)
    BY <1>4 DEF Gate, Checks, ResizeVm, ZfsSend
  <2> HIDE DEF x, y
  <2> QED BY <1>4, <2>1, <2>2, <2>3, Gate2, RequestFacts
    DEF Consent, NeedsAck, Reads, HasDry
<1>5. CASE a.tool = "lvm_manage"
  <2> DEFINE x == Confirm(a)
             y == When(a.action \in {"destroy_vg", "destroy_thin"}, DataLossAck(a))
  <2>1. x \in CheckRec /\ x.stops = ~a.confirm
    BY NamedChecks
  <2>2. y \in CheckRec /\ y.stops = (a.action \in {"destroy_vg", "destroy_thin"} /\ ~a.ack)
    BY ConditionalChecks
  <2>3. Gate(a, k) = FirstStop(<<x, y>>)
    BY <1>5 DEF Gate, Checks, LvmManage
  <2> HIDE DEF x, y
  <2> QED BY <1>5, <2>1, <2>2, <2>3, Gate2, RequestFacts
    DEF Consent, NeedsAck, Reads, HasDry
<1>6. CASE a.tool = "disk_prepare"
  <2> DEFINE x == Confirm(a)
             y == When(a.action = "wipe", DataLossAck(a))
  <2>1. x \in CheckRec /\ x.stops = ~a.confirm
    BY NamedChecks
  <2>2. y \in CheckRec /\ y.stops = (a.action = "wipe" /\ ~a.ack)
    BY ConditionalChecks
  <2>3. Gate(a, k) = FirstStop(<<x, y>>)
    BY <1>6 DEF Gate, Checks, DiskPrepare
  <2> HIDE DEF x, y
  <2> QED BY <1>6, <2>1, <2>2, <2>3, Gate2, RequestFacts
    DEF Consent, NeedsAck, Reads, HasDry
<1>7. CASE a.tool = "zfs_dataset"
  <2> DEFINE x == Confirm(a)
             y == When(a.action = "destroy -r", DataLossAck(a))
  <2>1. x \in CheckRec /\ x.stops = ~a.confirm
    BY NamedChecks
  <2>2. y \in CheckRec /\ y.stops = (a.action = "destroy -r" /\ ~a.ack)
    BY ConditionalChecks
  <2>3. Gate(a, k) = FirstStop(<<x, y>>)
    BY <1>7 DEF Gate, Checks, ZfsDataset
  <2> HIDE DEF x, y
  <2> QED BY <1>7, <2>1, <2>2, <2>3, Gate2, RequestFacts
    DEF Consent, NeedsAck, Reads, HasDry
<1>8. CASE a.tool \in {"host_exec", "lxc_exec", "vm_exec"}
  <2> DEFINE x == Confirm(a)
             y == When(a.action = "destructive", DataLossAck(a))
  <2>1. x \in CheckRec /\ x.stops = ~a.confirm
    BY NamedChecks
  <2>2. y \in CheckRec /\ y.stops = (a.action = "destructive" /\ ~a.ack)
    BY ConditionalChecks
  <2>3. Gate(a, k) = FirstStop(<<x, y>>)
    BY <1>8 DEF Gate, Checks, HostExec, LxcExec, VmExec
  <2> HIDE DEF x, y
  <2> QED BY <1>8, <2>1, <2>2, <2>3, Gate2, RequestFacts
    DEF Consent, NeedsAck, Reads, HasDry
<1>9. CASE a.tool = "zfs_pool_manage"
  <2> DEFINE x == Confirm(a)
             y == When(a.action = "destroy", DataLossAck(a))
             z == When(a.action = "create", Sound(a))
  <2>1. x \in CheckRec /\ x.stops = ~a.confirm
    BY NamedChecks
  <2>2. y \in CheckRec /\ y.stops = (a.action = "destroy" /\ ~a.ack)
    BY ConditionalChecks
  <2>3. z \in CheckRec /\ z.stops = (a.action = "create" /\ ~a.sound)
    BY ConditionalChecks
  <2>4. Gate(a, k) = FirstStop(<<x, y, z>>)
    BY <1>9 DEF Gate, Checks, ZfsPoolManage
  <2> HIDE DEF x, y, z
  <2> QED BY <1>9, <2>1, <2>2, <2>3, <2>4, Gate3, RequestFacts
    DEF Consent, NeedsAck, Reads, HasDry
<1>10. CASE a.tool = "zfs_property"
  <2> DEFINE x == When(a.action = "set", Confirm(a))
             y == When(a.action = "set", Sound(a))
  <2>1. x \in CheckRec /\ x.stops = (a.action = "set" /\ ~a.confirm)
    BY ConditionalChecks
  <2>2. y \in CheckRec /\ y.stops = (a.action = "set" /\ ~a.sound)
    BY ConditionalChecks
  <2>3. Gate(a, k) = FirstStop(<<x, y>>)
    BY <1>10 DEF Gate, Checks, ZfsProperty
  <2> HIDE DEF x, y
  <2>4. a.action \in {"get", "set"}
    BY <1>10, RequestFacts DEF Operation
  <2> QED BY <1>10, <2>1, <2>2, <2>3, <2>4, Gate2, RequestFacts
    DEF Consent, NeedsAck, Reads, HasDry
<1>11. CASE a.tool = "ct_service_action"
  <2> DEFINE x == When(a.action = "change", Confirm(a))
  <2>1. x \in CheckRec /\ x.stops = (a.action = "change" /\ ~a.confirm)
    BY ConditionalChecks
  <2>2. Gate(a, k) = FirstStop(<<x>>)
    BY <1>11 DEF Gate, Checks, CtServiceAction
  <2> HIDE DEF x
  <2>3. a.action \in {"read", "change"}
    BY <1>11, RequestFacts DEF Operation
  <2> QED BY <1>11, <2>1, <2>2, <2>3, Gate1, RequestFacts
    DEF Consent, NeedsAck, Reads, HasDry
<1>12. CASE a.tool = "snapshot"
  <2> DEFINE x == Confirm(a)
             y == When(a.action = "delete", DataLossAck(a))
             z == Check(k = "refused", "operator_refused")
  <2>1. x \in CheckRec /\ x.stops = ~a.confirm
    BY NamedChecks
  <2>2. y \in CheckRec /\ y.stops = (a.action = "delete" /\ ~a.ack)
    BY ConditionalChecks
  <2>3. z \in CheckRec /\ z.stops = (k = "refused")
    BY CheckFacts DEF Check, Stopped
  <2>4. Gate(a, k) = FirstStop(<<x, y, z>>)
    BY <1>12 DEF Gate, Checks, Snapshot
  <2> HIDE DEF x, y, z
  <2>5. Gate(a, k) \in Stopped \cup {"go"} /\ (Gate(a, k) = "go" => ~x.stops /\ ~y.stops /\ ~z.stops)
    BY <2>1, <2>2, <2>3, <2>4, Gate3
  <2> QED BY <1>12, <2>1, <2>2, <2>3, <2>5, RequestFacts
    DEF Consent, NeedsAck, Reads, HasDry
<1>13. CASE a.tool = "restore_backup"
  <2> DEFINE x == Check(k = "unknown", "probe_failed")
             y == Check(k = "exists" /\ ~a.force, "exists")
             z == Preview(a)
             u == Confirm(a)
             v == When(a.force, DataLossAck(a))
  <2>1. x \in CheckRec /\ x.stops = (k = "unknown")
    BY CheckFacts DEF Check, Stopped
  <2>2. y \in CheckRec /\ y.stops = (k = "exists" /\ ~a.force)
    BY CheckFacts DEF Check, Stopped
  <2>3. z \in CheckRec /\ z.stops = a.dry
    BY NamedChecks
  <2>4. u \in CheckRec /\ u.stops = ~a.confirm
    BY NamedChecks
  <2>5. v \in CheckRec /\ v.stops = (a.force /\ ~a.ack)
    BY ConditionalChecks
  <2>6. Gate(a, k) = FirstStop(<<x, y, z, u, v>>)
    BY <1>13 DEF Gate, Checks, Restore
  <2> HIDE DEF x, y, z, u, v
  <2>7. Gate(a, k) \in Stopped \cup {"go"} /\ (Gate(a, k) = "go" => ~z.stops /\ ~u.stops /\ ~v.stops)
    BY <2>1, <2>2, <2>3, <2>4, <2>5, <2>6, Gate5
  <2> QED BY <1>13, <2>3, <2>4, <2>5, <2>7, RequestFacts
    DEF Consent, NeedsAck, Reads, HasDry
<1> QED BY <1>1, <1>2, <1>3, <1>4, <1>5, <1>6, <1>7, <1>8, <1>9, <1>10, <1>11, <1>12, <1>13,
    RequestFacts DEF Operation

-----------------------------------------------------------------------------
(* The types. *)

\* The initial states have the types.
LEMMA TypeInit == Init => TypeOK
BY CallsAssumption DEF Init, TypeOK, Replies

\* What a call's arguments are: known once it is invoked.
Invoked == \A c \in Call : phase[c] # "idle" => args[c] \in Request

\* Every step keeps the types.
LEMMA TypeStep == TypeOK /\ Invoked /\ [Next]_vars => TypeOK' /\ Invoked'
<1> SUFFICES ASSUME TypeOK, Invoked, [Next]_vars
             PROVE  TypeOK' /\ Invoked'
  OBVIOUS
<1> USE CallsAssumption
<1>1. ASSUME NEW c \in Call, Invoke(c) PROVE TypeOK' /\ Invoked'
  BY <1>1 DEF Invoke, GoTo, TypeOK, Invoked, Replies
<1>2. ASSUME NEW c \in Call, OperatorAnswers(c) PROVE TypeOK' /\ Invoked'
  BY <1>2 DEF OperatorAnswers, GoTo, TypeOK, Invoked, Replies
<1>3. ASSUME NEW c \in Call, Body(c) PROVE TypeOK' /\ Invoked'
  <2>1. PICK k \in Learned(c) :
            /\ known' = [known EXCEPT ![c] = k]
            /\ IF Gate(args[c], k) = "go"
               THEN GoTo(c, IF args[c].via = "ssh" THEN "ssh" ELSE "send")
               ELSE Answer(c, Gate(args[c], k))
    BY <1>3 DEF Body
  <2>2. k \in {"nothing", "approved", "refused", "unknown", "free", "exists"}
    BY DEF Learned, TypeOK
  <2>3. Gate(args[c], k) \in Stopped \cup {"go"}
    BY <1>3, GatePasses DEF Body, Invoked
  <2>4. phase[c] = "body" /\ UNCHANGED <<args, thing, left, task, way, content>>
    BY <1>3 DEF Body
  <2> QED BY <2>1, <2>2, <2>3, <2>4 DEF TypeOK, Invoked, GoTo, Answer, Replies, Stopped
<1>4. ASSUME NEW c \in Call, Accepted(c) PROVE TypeOK' /\ Invoked'
  BY <1>4 DEF Accepted, Starts, Answer, GoTo, TypeOK, Invoked, Replies
<1>5. ASSUME NEW c \in Call, AnswerLost(c) PROVE TypeOK' /\ Invoked'
  BY <1>5 DEF AnswerLost, Starts, Answer, TypeOK, Invoked, Replies
<1>6. ASSUME NEW c \in Call, Refused(c) PROVE TypeOK' /\ Invoked'
  BY <1>6 DEF Refused, Answer, TypeOK, Invoked, Replies
<1>7. ASSUME NEW c \in Call, TokenRejected(c) PROVE TypeOK' /\ Invoked'
  BY <1>7 DEF TokenRejected, Answer, GoTo, TypeOK, Invoked, Replies
<1>8. ASSUME NEW c \in Call, RunCommand(c) PROVE TypeOK' /\ Invoked'
  BY <1>8 DEF RunCommand, Starts, GoTo, TypeOK, Invoked, Replies
<1>9. ASSUME NEW c \in Call, ConnectFails(c) PROVE TypeOK' /\ Invoked'
  BY <1>9 DEF ConnectFails, Answer, TypeOK, Invoked, Replies
<1>10. ASSUME NEW c \in Call, CommandReturns(c) PROVE TypeOK' /\ Invoked'
  BY <1>10 DEF CommandReturns, Answer, TypeOK, Invoked, Replies
<1>11. ASSUME NEW c \in Call, PollFails(c) PROVE TypeOK' /\ Invoked'
  BY <1>11 DEF PollFails, Answer, TypeOK, Invoked, Replies
<1>12. ASSUME NEW c \in Call, Poll(c) PROVE TypeOK' /\ Invoked'
  BY <1>12 DEF Poll, Answer, TypeOK, Invoked, Replies
<1>13. ASSUME NEW c \in Call, TaskEnds(c) PROVE TypeOK' /\ Invoked'
  <2>1. content' \in [Thing -> {"none", "empty", "data"}]
    BY <1>13 DEF TaskEnds, After, TypeOK
  <2>2. task' \in [Call -> {"none", "running", "ok", "warnings", "failed"}]
    BY <1>13 DEF TaskEnds, TypeOK
  <2> QED BY <1>13, <2>1, <2>2 DEF TaskEnds, TypeOK, Invoked
<1>14. ASSUME NEW t \in Thing, Elsewhere(t) PROVE TypeOK' /\ Invoked'
  BY <1>14 DEF Elsewhere, TypeOK, Invoked
<1>15. CASE UNCHANGED vars
  BY <1>15 DEF vars, TypeOK, Invoked
<1> QED BY <1>1, <1>2, <1>3, <1>4, <1>5, <1>6, <1>7, <1>8, <1>9, <1>10, <1>11, <1>12, <1>13,
    <1>14, <1>15 DEF Next, Step

\* Every state of ToolCalls has the types of TypeOK.
THEOREM TypeCorrect == Spec => []TypeOK
<1>1. Init => TypeOK /\ Invoked
  BY TypeInit DEF Init, Invoked
<1> QED BY <1>1, TypeStep, PTL DEF Spec

-----------------------------------------------------------------------------
(* Where a call is and what has been done for it. *)

\* Work exists from the request on, once; an answer ends the call, and none of the
\* answers that say something of the work is given before it exists.
PlaceInv ==
    \A c \in Call :
        /\ phase[c] \in {"idle", "asking", "body", "send", "ssh"} => task[c] = "none"
        /\ phase[c] \in {"shell", "poll"} => task[c] # "none"
        /\ phase[c] # "over" => reply[c] = "none"
        /\ phase[c] \in {"idle", "asking"} => known[c] = "nothing"
        /\ task[c] # "none" => way[c] \in {"api", "ssh"}
        /\ reply[c] \in Stopped => task[c] = "none"

\* A call past its gate has consented; only an asked operator refuses.
ConsentInv ==
    \A c \in Call :
        /\ phase[c] \in {"send", "ssh", "shell", "poll"} \/ task[c] # "none"
              => Consent(args[c], known[c])
        /\ phase[c] = "asking" \/ known[c] = "refused" => AsksOperator(args[c])

\* The inductive invariant.
IInv == TypeOK /\ Invoked /\ PlaceInv /\ ConsentInv /\ AnswerTrue

\* The inductive invariant holds initially.
LEMMA IInvInit == Init => IInv
BY TypeInit DEF Init, IInv, Invoked, PlaceInv, ConsentInv, AnswerTrue, Stopped

\* Every step keeps PlaceInv.
LEMMA PlaceStep == IInv /\ [Next]_vars => PlaceInv'
<1> SUFFICES ASSUME IInv, [Next]_vars
             PROVE  PlaceInv'
  OBVIOUS
<1> USE DEF IInv
<1>1. ASSUME NEW c \in Call, Invoke(c) PROVE PlaceInv'
  BY <1>1 DEF Invoke, GoTo, TypeOK, PlaceInv, Stopped
<1>2. ASSUME NEW c \in Call, OperatorAnswers(c) PROVE PlaceInv'
  BY <1>2 DEF OperatorAnswers, GoTo, TypeOK, PlaceInv, Stopped
<1>3. ASSUME NEW c \in Call, Body(c) PROVE PlaceInv'
  <2>1. PICK k \in Learned(c) :
            /\ known' = [known EXCEPT ![c] = k]
            /\ IF Gate(args[c], k) = "go"
               THEN GoTo(c, IF args[c].via = "ssh" THEN "ssh" ELSE "send")
               ELSE Answer(c, Gate(args[c], k))
    BY <1>3 DEF Body
  <2>2. phase[c] = "body" /\ UNCHANGED <<args, thing, left, task, way, content>>
    BY <1>3 DEF Body
  <2>3. Gate(args[c], k) \in Stopped \cup {"go"}
    BY <2>2, GatePasses DEF Invoked
  <2> QED BY <2>1, <2>2, <2>3 DEF TypeOK, PlaceInv, GoTo, Answer, Stopped
<1>4. ASSUME NEW c \in Call, Accepted(c) PROVE PlaceInv'
  BY <1>4 DEF Accepted, Starts, Answer, GoTo, TypeOK, PlaceInv, Stopped
<1>5. ASSUME NEW c \in Call, AnswerLost(c) PROVE PlaceInv'
  BY <1>5 DEF AnswerLost, Starts, Answer, TypeOK, PlaceInv, Stopped
<1>6. ASSUME NEW c \in Call, Refused(c) PROVE PlaceInv'
  BY <1>6 DEF Refused, Answer, TypeOK, PlaceInv, Stopped
<1>7. ASSUME NEW c \in Call, TokenRejected(c) PROVE PlaceInv'
  BY <1>7 DEF TokenRejected, Answer, GoTo, TypeOK, PlaceInv, Stopped
<1>8. ASSUME NEW c \in Call, RunCommand(c) PROVE PlaceInv'
  BY <1>8 DEF RunCommand, Starts, GoTo, TypeOK, PlaceInv, Stopped
<1>9. ASSUME NEW c \in Call, ConnectFails(c) PROVE PlaceInv'
  BY <1>9 DEF ConnectFails, Answer, TypeOK, PlaceInv, Stopped
<1>10. ASSUME NEW c \in Call, CommandReturns(c) PROVE PlaceInv'
  BY <1>10 DEF CommandReturns, Answer, TypeOK, PlaceInv, Stopped
<1>11. ASSUME NEW c \in Call, PollFails(c) PROVE PlaceInv'
  BY <1>11 DEF PollFails, Answer, TypeOK, PlaceInv, Stopped
<1>12. ASSUME NEW c \in Call, Poll(c) PROVE PlaceInv'
  BY <1>12 DEF Poll, Answer, TypeOK, PlaceInv, Stopped
<1>13. ASSUME NEW c \in Call, TaskEnds(c) PROVE PlaceInv'
  BY <1>13 DEF TaskEnds, TypeOK, PlaceInv, Stopped
<1>14. ASSUME NEW t \in Thing, Elsewhere(t) PROVE PlaceInv'
  BY <1>14 DEF Elsewhere, PlaceInv
<1>15. CASE UNCHANGED vars
  BY <1>15 DEF vars, PlaceInv
<1> QED BY <1>1, <1>2, <1>3, <1>4, <1>5, <1>6, <1>7, <1>8, <1>9, <1>10, <1>11, <1>12, <1>13,
    <1>14, <1>15 DEF Next, Step

\* Every step keeps ConsentInv: only Body lets a call past its gate.
LEMMA ConsentStep == IInv /\ [Next]_vars => ConsentInv'
<1> SUFFICES ASSUME IInv, [Next]_vars
             PROVE  ConsentInv'
  OBVIOUS
<1> USE DEF IInv
<1>1. ASSUME NEW c \in Call, Invoke(c) PROVE ConsentInv'
  BY <1>1 DEF Invoke, GoTo, TypeOK, ConsentInv, PlaceInv, AsksOperator
<1>2. ASSUME NEW c \in Call, OperatorAnswers(c) PROVE ConsentInv'
  BY <1>2 DEF OperatorAnswers, GoTo, TypeOK, ConsentInv, PlaceInv, AsksOperator
<1>3. ASSUME NEW c \in Call, Body(c) PROVE ConsentInv'
  <2>1. PICK k \in Learned(c) :
            /\ known' = [known EXCEPT ![c] = k]
            /\ IF Gate(args[c], k) = "go"
               THEN GoTo(c, IF args[c].via = "ssh" THEN "ssh" ELSE "send")
               ELSE Answer(c, Gate(args[c], k))
    BY <1>3 DEF Body
  <2>2. phase[c] = "body" /\ UNCHANGED <<args, thing, left, task, way, content>>
    BY <1>3 DEF Body
  <2>3. Gate(args[c], k) \in Stopped \cup {"go"}
    BY <2>2, GatePasses DEF Invoked
  <2>4. Gate(args[c], k) = "go" => Consent(args[c], k)
    BY <2>2, GatePasses DEF Invoked
  <2>5. k = "refused" => known[c] = "refused"
    BY DEF Learned
  <2> QED BY <2>1, <2>2, <2>3, <2>4, <2>5 DEF TypeOK, PlaceInv, ConsentInv, GoTo, Answer, Stopped
<1>4. ASSUME NEW c \in Call, Accepted(c) PROVE ConsentInv'
  BY <1>4 DEF Accepted, Starts, Answer, GoTo, TypeOK, ConsentInv, PlaceInv, AsksOperator
<1>5. ASSUME NEW c \in Call, AnswerLost(c) PROVE ConsentInv'
  BY <1>5 DEF AnswerLost, Starts, Answer, TypeOK, ConsentInv, PlaceInv, AsksOperator
<1>6. ASSUME NEW c \in Call, Refused(c) PROVE ConsentInv'
  BY <1>6 DEF Refused, Answer, TypeOK, ConsentInv, PlaceInv, AsksOperator
<1>7. ASSUME NEW c \in Call, TokenRejected(c) PROVE ConsentInv'
  BY <1>7 DEF TokenRejected, Answer, GoTo, TypeOK, ConsentInv, PlaceInv, AsksOperator
<1>8. ASSUME NEW c \in Call, RunCommand(c) PROVE ConsentInv'
  BY <1>8 DEF RunCommand, Starts, GoTo, TypeOK, ConsentInv, PlaceInv, AsksOperator
<1>9. ASSUME NEW c \in Call, ConnectFails(c) PROVE ConsentInv'
  BY <1>9 DEF ConnectFails, Answer, TypeOK, ConsentInv, PlaceInv, AsksOperator
<1>10. ASSUME NEW c \in Call, CommandReturns(c) PROVE ConsentInv'
  BY <1>10 DEF CommandReturns, Answer, TypeOK, ConsentInv, PlaceInv, AsksOperator
<1>11. ASSUME NEW c \in Call, PollFails(c) PROVE ConsentInv'
  BY <1>11 DEF PollFails, Answer, TypeOK, ConsentInv, PlaceInv, AsksOperator
<1>12. ASSUME NEW c \in Call, Poll(c) PROVE ConsentInv'
  BY <1>12 DEF Poll, Answer, TypeOK, ConsentInv, PlaceInv, AsksOperator
<1>13. ASSUME NEW c \in Call, TaskEnds(c) PROVE ConsentInv'
  BY <1>13 DEF TaskEnds, TypeOK, ConsentInv, PlaceInv, AsksOperator
<1>14. ASSUME NEW t \in Thing, Elsewhere(t) PROVE ConsentInv'
  BY <1>14 DEF Elsewhere, ConsentInv
<1>15. CASE UNCHANGED vars
  BY <1>15 DEF vars, ConsentInv
<1> QED BY <1>1, <1>2, <1>3, <1>4, <1>5, <1>6, <1>7, <1>8, <1>9, <1>10, <1>11, <1>12, <1>13,
    <1>14, <1>15 DEF Next, Step

\* Every step keeps AnswerTrue: a task that has ended stays as it is.
LEMMA AnswerStep == IInv /\ [Next]_vars => AnswerTrue'
<1> SUFFICES ASSUME IInv, [Next]_vars
             PROVE  AnswerTrue'
  OBVIOUS
<1> USE DEF IInv
<1>1. ASSUME NEW c \in Call, Invoke(c) PROVE AnswerTrue'
  BY <1>1 DEF Invoke, GoTo, TypeOK, AnswerTrue, PlaceInv, Stopped
<1>2. ASSUME NEW c \in Call, OperatorAnswers(c) PROVE AnswerTrue'
  BY <1>2 DEF OperatorAnswers, GoTo, TypeOK, AnswerTrue, PlaceInv, Stopped
<1>3. ASSUME NEW c \in Call, Body(c) PROVE AnswerTrue'
  <2>1. PICK k \in Learned(c) :
            /\ known' = [known EXCEPT ![c] = k]
            /\ IF Gate(args[c], k) = "go"
               THEN GoTo(c, IF args[c].via = "ssh" THEN "ssh" ELSE "send")
               ELSE Answer(c, Gate(args[c], k))
    BY <1>3 DEF Body
  <2>2. phase[c] = "body" /\ UNCHANGED <<args, thing, left, task, way, content>>
    BY <1>3 DEF Body
  <2>3. Gate(args[c], k) \in Stopped \cup {"go"}
    BY <2>2, GatePasses DEF Invoked
  <2> QED BY <2>1, <2>2, <2>3 DEF TypeOK, PlaceInv, AnswerTrue, GoTo, Answer, Stopped
<1>4. ASSUME NEW c \in Call, Accepted(c) PROVE AnswerTrue'
  BY <1>4 DEF Accepted, Starts, Answer, GoTo, TypeOK, AnswerTrue, PlaceInv, Stopped
<1>5. ASSUME NEW c \in Call, AnswerLost(c) PROVE AnswerTrue'
  BY <1>5 DEF AnswerLost, Starts, Answer, TypeOK, AnswerTrue, PlaceInv, Stopped
<1>6. ASSUME NEW c \in Call, Refused(c) PROVE AnswerTrue'
  BY <1>6 DEF Refused, Answer, TypeOK, AnswerTrue, PlaceInv, Stopped
<1>7. ASSUME NEW c \in Call, TokenRejected(c) PROVE AnswerTrue'
  BY <1>7 DEF TokenRejected, Answer, GoTo, TypeOK, AnswerTrue, PlaceInv, Stopped
<1>8. ASSUME NEW c \in Call, RunCommand(c) PROVE AnswerTrue'
  BY <1>8 DEF RunCommand, Starts, GoTo, TypeOK, AnswerTrue, PlaceInv, Stopped
<1>9. ASSUME NEW c \in Call, ConnectFails(c) PROVE AnswerTrue'
  BY <1>9 DEF ConnectFails, Answer, TypeOK, AnswerTrue, PlaceInv, Stopped
<1>10. ASSUME NEW c \in Call, CommandReturns(c) PROVE AnswerTrue'
  BY <1>10 DEF CommandReturns, Answer, TypeOK, AnswerTrue, PlaceInv, Stopped
<1>11. ASSUME NEW c \in Call, PollFails(c) PROVE AnswerTrue'
  BY <1>11 DEF PollFails, Answer, TypeOK, AnswerTrue, PlaceInv, Stopped
<1>12. ASSUME NEW c \in Call, Poll(c) PROVE AnswerTrue'
  BY <1>12 DEF Poll, Answer, TypeOK, AnswerTrue, PlaceInv, Stopped
<1>13. ASSUME NEW c \in Call, TaskEnds(c) PROVE AnswerTrue'
  BY <1>13 DEF TaskEnds, TypeOK, AnswerTrue, PlaceInv, Stopped
<1>14. ASSUME NEW t \in Thing, Elsewhere(t) PROVE AnswerTrue'
  BY <1>14 DEF Elsewhere, AnswerTrue
<1>15. CASE UNCHANGED vars
  BY <1>15 DEF vars, AnswerTrue
<1> QED BY <1>1, <1>2, <1>3, <1>4, <1>5, <1>6, <1>7, <1>8, <1>9, <1>10, <1>11, <1>12, <1>13,
    <1>14, <1>15 DEF Next, Step

\* Every step keeps the inductive invariant.
LEMMA IInvStep == IInv /\ [Next]_vars => IInv'
BY TypeStep, PlaceStep, ConsentStep, AnswerStep DEF IInv

\* It holds in every state.
LEMMA IInvHolds == Spec => []IInv
BY IInvInit, IInvStep, PTL DEF Spec

\* Work that changes something was consented to by the flags and, where the
\* operator was asked, by the operator, whichever of the tools it is.
THEOREM ConsentBeforeWork == Spec => []NothingWithoutConsent
<1>1. IInv => NothingWithoutConsent
  BY DEF IInv, PlaceInv, ConsentInv, Consent, AsksOperator, NothingWithoutConsent, Op
<1> QED BY <1>1, IInvHolds, PTL

\* No answer of a waiting call claims what its task did not do.
THEOREM AnswersTrue == Spec => []AnswerTrue
<1>1. IInv => AnswerTrue
  BY DEF IInv
<1> QED BY <1>1, IInvHolds, PTL

\* No call starts a second piece of work, the SSH fallback of disk_prepare included.
THEOREM StartsWorkOnce == Spec => WorkOnce
<1>1. IInv /\ [Next]_vars => \A c \in Call : task[c] # "none" => task'[c] # "running" \/ task[c] = "running"
  <2> SUFFICES ASSUME IInv, [Next]_vars, NEW d \in Call, task[d] # "none"
               PROVE  task'[d] # "running" \/ task[d] = "running"
    OBVIOUS
  <2> USE DEF IInv
  <2>1. ASSUME NEW c \in Call, Invoke(c) PROVE task'[d] # "running" \/ task[d] = "running"
    BY <2>1 DEF Invoke, Starts, TypeOK, PlaceInv
  <2>2. ASSUME NEW c \in Call, OperatorAnswers(c) PROVE task'[d] # "running" \/ task[d] = "running"
    BY <2>2 DEF OperatorAnswers, Starts, TypeOK, PlaceInv
  <2>3. ASSUME NEW c \in Call, Body(c) PROVE task'[d] # "running" \/ task[d] = "running"
    BY <2>3 DEF Body, Starts, TypeOK, PlaceInv
  <2>4. ASSUME NEW c \in Call, Accepted(c) PROVE task'[d] # "running" \/ task[d] = "running"
    BY <2>4 DEF Accepted, Starts, TypeOK, PlaceInv
  <2>5. ASSUME NEW c \in Call, AnswerLost(c) PROVE task'[d] # "running" \/ task[d] = "running"
    BY <2>5 DEF AnswerLost, Starts, TypeOK, PlaceInv
  <2>6. ASSUME NEW c \in Call, Refused(c) PROVE task'[d] # "running" \/ task[d] = "running"
    BY <2>6 DEF Refused, Starts, TypeOK, PlaceInv
  <2>7. ASSUME NEW c \in Call, TokenRejected(c) PROVE task'[d] # "running" \/ task[d] = "running"
    BY <2>7 DEF TokenRejected, Starts, TypeOK, PlaceInv
  <2>8. ASSUME NEW c \in Call, RunCommand(c) PROVE task'[d] # "running" \/ task[d] = "running"
    BY <2>8 DEF RunCommand, Starts, TypeOK, PlaceInv
  <2>9. ASSUME NEW c \in Call, ConnectFails(c) PROVE task'[d] # "running" \/ task[d] = "running"
    BY <2>9 DEF ConnectFails, Starts, TypeOK, PlaceInv
  <2>10. ASSUME NEW c \in Call, CommandReturns(c) PROVE task'[d] # "running" \/ task[d] = "running"
    BY <2>10 DEF CommandReturns, Starts, TypeOK, PlaceInv
  <2>11. ASSUME NEW c \in Call, PollFails(c) PROVE task'[d] # "running" \/ task[d] = "running"
    BY <2>11 DEF PollFails, Starts, TypeOK, PlaceInv
  <2>12. ASSUME NEW c \in Call, Poll(c) PROVE task'[d] # "running" \/ task[d] = "running"
    BY <2>12 DEF Poll, Starts, TypeOK, PlaceInv
  <2>13. ASSUME NEW c \in Call, TaskEnds(c) PROVE task'[d] # "running" \/ task[d] = "running"
    BY <2>13 DEF TaskEnds, Starts, TypeOK, PlaceInv
  <2>14. ASSUME NEW t \in Thing, Elsewhere(t) PROVE task' = task
    BY <2>14 DEF Elsewhere
  <2>15. CASE UNCHANGED vars
    BY <2>15 DEF vars
  <2> QED BY <2>1, <2>2, <2>3, <2>4, <2>5, <2>6, <2>7, <2>8, <2>9, <2>10, <2>11, <2>12, <2>13,
      <2>14, <2>15 DEF Next, Step
<1> QED BY <1>1, IInvHolds, PTL DEF Spec, WorkOnce

-----------------------------------------------------------------------------
(* Data loss. *)

\* The operations that may take data need the second flag, or are on the list.
LEMMA LossyEffects ==
    ASSUME NEW a \in Request, NEW w, Effect(a, w) \in {"drop", "replace"}
    PROVE  /\ <<a.tool, a.action>> \in NeedsAck \cup LossyOnConfirm
                 \/ (a.tool = "restore_backup" /\ a.force)
           /\ a.tool = "restore_backup" => a.force
<1>1. <<a.tool, a.action>> \in Operation
  BY RequestFacts
<1>2. CASE a.tool = "restore_backup"
  <2>1. a.action = "restore"
    BY <1>1, <1>2 DEF Operation
  <2> QED BY <1>2, <2>1 DEF Effect
<1>3. CASE a.action \in {"delete", "destroy", "destroy -r", "destroy_vg", "destroy_thin", "destructive"}
  BY <1>1, <1>3 DEF Operation, NeedsAck, LossyOnConfirm
<1>4. CASE a.action \in {"rollback", "wipe", "recv", "file", "init_gpt"}
  BY <1>1, <1>4 DEF Operation, NeedsAck, LossyOnConfirm
<1>5. CASE a.tool # "restore_backup" /\ a.action \in {"create", "create_vg", "create_thin", "alter",
                "add_zfs", "add_dir", "remove", "get", "set", "plain", "read", "change"}
  BY <1>5 DEF Effect
<1> QED BY <1>1, <1>2, <1>3, <1>4, <1>5 DEF Operation

\* A call takes data only with i_understand_data_loss or as one of the operations
\* that need none, and a restore only with force, whatever its probe saw.
THEOREM LossIsAcked ==
    ASSUME LossyOnConfirm \subseteq ConfirmOnly
    PROVE  Spec => LossAcked
<1>1. IInv /\ [Next]_vars =>
        \A c \in Call :
          task'[c] # task[c] /\ content[thing[c]] = "data" /\ content'[thing[c]] # "data" =>
            /\ args[c].ack \/ Op(c) \in ConfirmOnly
            /\ args[c].tool = "restore_backup" => args[c].force
  <2> SUFFICES ASSUME IInv, [Next]_vars, NEW d \in Call, task'[d] # task[d],
                      content[thing[d]] = "data", content'[thing[d]] # "data"
               PROVE  /\ args[d].ack \/ Op(d) \in ConfirmOnly
                      /\ args[d].tool = "restore_backup" => args[d].force
    OBVIOUS
  <2>1. TaskEnds(d)
    <3>1. content' # content /\ task' # task
      OBVIOUS
    <3>2. ASSUME NEW c \in Call, Invoke(c) \/ OperatorAnswers(c) \/ Step(c) \/ PollFails(c)
         PROVE UNCHANGED content
      BY <3>2 DEF Step, Invoke, OperatorAnswers, Body, Accepted, AnswerLost, Refused, TokenRejected,
        RunCommand, ConnectFails, CommandReturns, PollFails, Poll
    <3>3. ASSUME NEW t \in Thing, Elsewhere(t) PROVE UNCHANGED task
      BY <3>3 DEF Elsewhere
    <3>4. PICK c \in Call : TaskEnds(c)
      BY <3>1, <3>2, <3>3 DEF Next, vars
    <3>5. c = d
      BY <3>4 DEF TaskEnds, IInv, TypeOK
    <3> QED BY <3>4, <3>5
  <2>2. task[d] = "running" /\ args[d] \in Request /\ Consent(args[d], known[d])
    BY <2>1 DEF TaskEnds, IInv, Invoked, PlaceInv, ConsentInv
  <2>3. Effect(args[d], way[d]) \in {"drop", "replace"}
    <3> DEFINE e == Effect(args[d], way[d])
    <3>1. e \in {"make", "drop", "replace", "blank", "alter"}
      BY DEF Effect
    <3>2. Allows(e, "data") /\ After(e, "data") # "data"
      BY <2>1 DEF TaskEnds, IInv, TypeOK
    <3> QED BY <3>1, <3>2 DEF Allows, After
  <2> QED BY <2>2, <2>3, LossyEffects DEF Consent, Op
<1> QED BY <1>1, IInvHolds, PTL DEF Spec, LossAcked
=============================================================================
