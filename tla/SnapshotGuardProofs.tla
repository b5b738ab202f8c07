------------------------- MODULE SnapshotGuardProofs -------------------------
(***************************************************************************)
(* What holds of SnapshotGuard for any guests, snapshots, callers, tools   *)
(* and references.                                                         *)
(***************************************************************************)
EXTENDS SnapshotGuard, FiniteSetTheorems, TLAPS

Types ==
    /\ zfs \in [Snap -> {"none", "young", "old"}]
    /\ conf \in [Snap -> {"none", "prepare", "ready", "delete"}]
    /\ task \in [Guest -> Task]
    /\ used \subseteq Snap
    /\ call \in [Caller -> Calls]

\* What a call does next fits what it is: only host_exec runs a command, a loop has
\* something left to destroy, the pattern tool's at most max_delete snapshots.
Capped ==
    \A c \in Caller :
        /\ call[c].step = "run" => call[c].tool = "host_exec"
        /\ call[c].tool \in {"pattern", "cleanup"} => call[c].todo # {}
        /\ call[c].step = "destroy" =>
             /\ call[c].tool \in {"pattern", "cleanup"}
             /\ call[c].tool = "pattern" => Cardinality(call[c].todo) <= MaxDelete

\* No call whose references say what it destroys goes on with a target it has seen
\* registered.
Spared == \A c \in Caller : call[c].literal => call[c].todo \cap call[c].seen = {}

\* Under a dated name, a snapshot that is being made is of the locked guest, and has
\* a section and no ZFS half yet; every half that is there was asked for.
Making ==
    /\ \A s \in Dated : zfs[s] # "none" \/ conf[s] # "none" => s \in used
    /\ \A g \in Guest : task[g].op = "create" /\ task[g].snap \in Dated =>
         /\ task[g].snap[1] = g
         /\ zfs[task[g].snap] = "none"
         /\ conf[task[g].snap] = "prepare"

\* A name that was used, and under which nothing is being made.
Past(s) == s \in used /\ \A g \in Guest : task[g].op = "create" => task[g].snap # s

\* What the pattern tool has listed under a dated name was there once; what it
\* destroys had no section when it read the configs, and gets none.
Listing ==
    \A c \in Caller : call[c].tool = "pattern" =>
        \A s \in call[c].todo \cap Dated :
            /\ Past(s)
            /\ call[c].step = "destroy" => conf[s] = "none"

-----------------------------------------------------------------------------
(* The steps of the calls, and those of the host.                          *)

ToolStep(c) ==
    \/ PatternList(c) \/ PatternLoad(c) \/ CleanupList(c) \/ CleanupLoad(c)
    \/ DestroyNext(c) \/ HostExec(c) \/ HostLoad(c) \/ HostRun(c)

HostStep ==
    \/ \E s \in Snap : PveCreateBegin(s) \/ PveDeleteBegin(s) \/ PveForce(s) \/ Sanoid(s)
    \/ \E g \in Guest : PveCreateZfs(g) \/ PveDeleteZfs(g) \/ PveDies(g)
    \/ Age

LEMMA Steps == Next <=> (\E c \in Caller : ToolStep(c)) \/ HostStep
BY DEF Next, ToolStep, HostStep

\* What call c holds after a step of its own.
Lists(c) ==
    /\ zfs' = zfs /\ call'[c].step = "load" /\ call'[c].seen = {} /\ call'[c].todo # {}
    /\ call'[c].tool \in {"pattern", "cleanup"}
    /\ \A s \in call'[c].todo : zfs[s] # "none"

Loads(c) ==
    /\ zfs' = zfs /\ call[c].step = "load" /\ call[c].tool \in {"pattern", "cleanup"}
    /\ call'[c].step = "destroy" /\ call'[c].tool = call[c].tool
    /\ call'[c].todo # {} /\ call'[c].todo \subseteq call[c].todo
    /\ call[c].tool = "pattern" => Cardinality(call'[c].todo) <= MaxDelete
    /\ call'[c].todo \cap Registered = {} /\ call'[c].seen \subseteq Registered

Destroys(c) ==
    /\ call[c].step = "destroy"
    /\ call'[c].step = "destroy" /\ call'[c].tool = call[c].tool
    /\ call'[c].todo # {} /\ call'[c].seen = call[c].seen /\ call'[c].literal = call[c].literal
    /\ \E s \in call[c].todo : call'[c].todo = call[c].todo \ {s}

Commands(c) ==
    /\ zfs' = zfs
    /\ call'[c].step \in {"load", "run"} /\ call'[c].tool = "host_exec"
    /\ \/ call'[c].seen = {}
       \/ /\ RegisteredHits(call[c].refs, Registered) = {} /\ call'[c].seen \subseteq Registered
          /\ call'[c].literal => call'[c].todo = Reach(call[c].refs)

Returns(c) == call'[c] = Idle

-----------------------------------------------------------------------------
\* The check lets through no reference that names a registered snapshot itself.
LEMMA ChecksEachName ==
    ASSUME NEW T \in SUBSET Snap, NEW R \in SUBSET Snap,
           RegisteredHits({RefOf(s) : s \in T}, R) = {}
    PROVE  T \cap R = {}
<1>1. SUFFICES ASSUME NEW s \in T, s \in R PROVE FALSE
  OBVIOUS
<1>2. RefOf(s).ds = "guest" /\ RefOf(s).guest = s[1] /\ RefOf(s).name = s[2]
  BY DEF RefOf
<1>3. s[1] \in Owners(RefOf(s))
  BY <1>2 DEF Owners
<1>4. RefOf(s) \in RegisteredHits({RefOf(t) : t \in T}, R)
  BY <1>1, <1>2, <1>3 DEF RegisteredHits
<1>. QED
  BY <1>4

\* What a call stores, field by field.
LEMMA Fields ==
    ASSUME NEW t \in Tool \cup {"none"}, NEW st \in {"idle", "load", "destroy", "run"},
           NEW refs \in SUBSET Ref, NEW literal \in BOOLEAN,
           NEW todo \in SUBSET Snap, NEW seen \in SUBSET Snap
    PROVE  LET k == Doing(t, st, refs, literal, todo, seen)
           IN  /\ k \in Calls
               /\ k.tool = t /\ k.step = st /\ k.refs = refs
               /\ k.literal = literal /\ k.todo = todo /\ k.seen = seen
BY DEF Doing, Calls

LEMMA IdleIsCall == Idle \in Calls
BY DEF Idle, Doing, Calls

\* What a step of call c changes.
Own(c) ==
    /\ conf' = conf /\ task' = task /\ used' = used
    /\ call' \in [Caller -> Calls]
    /\ \A d \in Caller \ {c} : call'[d] = call[d]
    /\ zfs' \in [Snap -> {"none", "young", "old"}]
    /\ \A s \in Snap : zfs'[s] = zfs[s] \/ zfs'[s] = "none"
    /\ \A s \in Snap : zfs'[s] # zfs[s] =>
         s \in call[c].todo /\ call[c].step \in {"destroy", "run"}

LEMMA ToolSteps ==
    ASSUME Types, Capped, NEW c \in Caller, ToolStep(c)
    PROVE  Own(c) /\ (Returns(c) \/ Lists(c) \/ Loads(c) \/ Destroys(c) \/ Commands(c))
<1>. USE DEF Types
<1>0. call[c] \in Calls /\ Idle \in Calls
  BY IdleIsCall
<1>a. /\ call[c].tool \in Tool \cup {"none"} /\ call[c].todo \in SUBSET Snap
      /\ call[c].refs \in SUBSET Ref /\ Registered \in SUBSET Snap /\ call[c].literal \in BOOLEAN
  BY <1>0 DEF Calls, Registered
<1>. DEFINE sees == IF call[c].literal THEN Registered ELSE {}
<1>b. sees \in SUBSET Snap /\ sees \subseteq Registered
  BY <1>a
<1>1. CASE PatternList(c)
  <2>1. PICK guests \in SUBSET Guest, names \in SUBSET Name :
          LET matches == {s \in Live : s[1] \in guests /\ s[2] \in names}
          IN  matches # {} /\ Listed(c, "pattern", matches)
    BY <1>1 DEF PatternList
  <2>. DEFINE todo == {s \in Live : s[1] \in guests /\ s[2] \in names}
              k == Doing("pattern", "load", {}, TRUE, todo, {})
  <2>2. "pattern" \in Tool /\ zfs' = zfs /\ conf' = conf /\ task' = task /\ used' = used
    BY <1>1 DEF PatternList
  <2>3. todo \in SUBSET Snap /\ todo # {} /\ \A s \in todo : zfs[s] # "none"
    BY <1>1, <2>1 DEF Live
  <2>4. call' = [call EXCEPT ![c] = k]
    BY <2>1 DEF Listed
  <2>. HIDE DEF todo
  <2>5. k \in Calls /\ k.tool = "pattern" /\ k.step = "load" /\ k.todo = todo /\ k.seen = {}
    BY <2>2, <2>3 DEF Doing, Calls
  <2>. HIDE DEF k
  <2>. QED
    BY <2>2, <2>3, <2>4, <2>5 DEF Own, Lists
<1>2. CASE CleanupList(c)
  <2>1. PICK guests \in SUBSET Guest :
          Candidates(guests) # {} /\ Listed(c, "cleanup", Candidates(guests))
    BY <1>2 DEF CleanupList
  <2>. DEFINE todo == Candidates(guests)
              k == Doing("cleanup", "load", {}, TRUE, todo, {})
  <2>2. "cleanup" \in Tool /\ zfs' = zfs /\ conf' = conf /\ task' = task /\ used' = used
    BY <1>2 DEF CleanupList
  <2>3. todo \in SUBSET Snap /\ todo # {} /\ \A s \in todo : zfs[s] # "none"
    BY <2>1 DEF Candidates
  <2>4. call' = [call EXCEPT ![c] = k]
    BY <2>1 DEF Listed
  <2>. HIDE DEF todo
  <2>5. k \in Calls /\ k.tool = "cleanup" /\ k.step = "load" /\ k.todo = todo /\ k.seen = {}
    BY <2>2, <2>3 DEF Doing, Calls
  <2>. HIDE DEF k
  <2>. QED
    BY <2>2, <2>3, <2>4, <2>5 DEF Own, Lists
<1>3. CASE PatternLoad(c)
  <2>1. call[c].step = "load" /\ call[c].tool = "pattern"
        /\ zfs' = zfs /\ conf' = conf /\ task' = task /\ used' = used
    BY <1>3 DEF PatternLoad
  <2>2. CASE Return(c)
    BY <2>1, <2>2, <1>0 DEF Return, Own, Returns
  <2>3. CASE Proceed(c, "destroy", call[c].todo)
             /\ \E go, loaded \in BOOLEAN : PatternAccepts(c, go, loaded)
    <3>. DEFINE k == Doing(call[c].tool, "destroy", {}, call[c].literal, call[c].todo, sees)
    <3>1. call[c].todo \cap Registered = {} /\ Cardinality(call[c].todo) <= MaxDelete
      BY <2>3, <1>a, ChecksEachName DEF PatternAccepts
    <3>2. call' = [call EXCEPT ![c] = k]
      BY <2>3 DEF Proceed
    <3>3. k \in Calls /\ k.tool = call[c].tool /\ k.step = "destroy" /\ k.todo = call[c].todo
          /\ k.seen = sees
      BY <1>a, <1>b, Fields
    <3>. HIDE DEF k, sees
    <3>4. call[c].todo # {}
      BY <2>1 DEF Capped
    <3>. QED
      BY <2>1, <1>b, <3>1, <3>2, <3>3, <3>4 DEF Own, Loads
  <2>. QED
    BY <1>3, <2>2, <2>3 DEF PatternLoad
<1>4. CASE CleanupLoad(c)
  <2>1. call[c].step = "load" /\ call[c].tool = "cleanup"
        /\ zfs' = zfs /\ conf' = conf /\ task' = task /\ used' = used
    BY <1>4 DEF CleanupLoad
  <2>2. CASE Return(c)
    BY <2>1, <2>2, <1>0 DEF Return, Own, Returns
  <2>3. CASE Proceed(c, "destroy", Unblocked(c)) /\ Unblocked(c) # {}
    <3>. DEFINE todo == Unblocked(c)
                k == Doing(call[c].tool, "destroy", {}, call[c].literal, todo, sees)
    <3>1. todo \subseteq call[c].todo /\ \A s \in todo : RegisteredHits({RefOf(s)}, Registered) = {}
      BY DEF Unblocked
    <3>2. ASSUME NEW s \in todo PROVE s \notin Registered
      <4>1. {s} \in SUBSET Snap /\ {RefOf(t) : t \in {s}} = {RefOf(s)}
        BY <3>1, <1>a
      <4>. QED
        BY <4>1, <3>1, <1>a, ChecksEachName
    <3>3. call' = [call EXCEPT ![c] = k]
      BY <2>3 DEF Proceed
    <3>4. todo \in SUBSET Snap /\ todo # {}
      BY <3>1, <1>a, <2>3
    <3>. HIDE DEF todo
    <3>5. k \in Calls /\ k.tool = call[c].tool /\ k.step = "destroy" /\ k.todo = todo
          /\ k.seen = sees
      BY <3>4, <1>a, <1>b, Fields
    <3>. HIDE DEF k, sees
    <3>. QED
      BY <2>1, <1>b, <3>1, <3>2, <3>3, <3>4, <3>5 DEF Own, Loads
  <2>. QED
    BY <1>4, <2>2, <2>3 DEF CleanupLoad
<1>5. CASE DestroyNext(c)
  <2>1. PICK s \in call[c].todo :
          /\ zfs' \in {zfs, [zfs EXCEPT ![s] = "none"]}
          /\ IF call[c].todo = {s} THEN Return(c)
             ELSE call' = [call EXCEPT ![c].todo = @ \ {s}]
    BY <1>5 DEF DestroyNext
  <2>2. call[c].step = "destroy" /\ conf' = conf /\ task' = task /\ used' = used
    BY <1>5 DEF DestroyNext
  <2>3. /\ zfs' \in [Snap -> {"none", "young", "old"}]
        /\ \A t \in Snap : zfs'[t] = zfs[t] \/ zfs'[t] = "none"
        /\ \A t \in Snap : zfs'[t] # zfs[t] => t \in call[c].todo
    BY <2>1, <1>a
  <2>4. CASE Return(c)
    BY <2>2, <2>3, <2>4, <1>0 DEF Return, Own, Returns
  <2>5. CASE call[c].todo # {s} /\ call' = [call EXCEPT ![c].todo = @ \ {s}]
    <3>. DEFINE k == [call[c] EXCEPT !.todo = @ \ {s}]
    <3>1. k \in Calls /\ k.tool = call[c].tool /\ k.step = call[c].step
          /\ k.todo = call[c].todo \ {s} /\ k.seen = call[c].seen /\ k.literal = call[c].literal
      BY <1>0 DEF Calls
    <3>2. call' = [call EXCEPT ![c] = k]
      BY <2>5
    <3>3. k.todo # {}
      BY <3>1, <2>5
    <3>. HIDE DEF k
    <3>. QED
      BY <2>1, <2>2, <2>3, <3>1, <3>2, <3>3 DEF Own, Destroys
  <2>. QED
    BY <2>1, <2>4, <2>5
<1>6. CASE HostExec(c)
  <2>1. PICK refs \in RefSets, literal \in BOOLEAN :
          call' = [call EXCEPT ![c] = IF refs = {}
                                      THEN Doing("host_exec", "run", {}, FALSE, Snap, {})
                                      ELSE Doing("host_exec", "load", refs, literal, {}, {})]
    BY <1>6 DEF HostExec
  <2>2. "host_exec" \in Tool /\ zfs' = zfs /\ conf' = conf /\ task' = task /\ used' = used
    BY <1>6 DEF HostExec
  <2>. DEFINE k == IF refs = {} THEN Doing("host_exec", "run", {}, FALSE, Snap, {})
                                ELSE Doing("host_exec", "load", refs, literal, {}, {})
  <2>3. refs \in SUBSET Ref
    BY RefSetsAssumption
  <2>4. k \in Calls /\ k.tool = "host_exec" /\ k.step \in {"load", "run"} /\ k.seen = {}
    <3>1. CASE refs = {}
      <4>1. Snap \in SUBSET Snap
        OBVIOUS
      <4>. QED
        BY <3>1, <4>1, <2>2, <2>3 DEF Doing, Calls
    <3>2. CASE refs # {}
      BY <3>2, <2>2, <2>3 DEF Doing, Calls
    <3>. QED
      BY <3>1, <3>2
  <2>5. call' = [call EXCEPT ![c] = k]
    BY <2>1
  <2>. HIDE DEF k
  <2>. QED
    BY <2>2, <2>4, <2>5 DEF Own, Commands
<1>7. CASE HostLoad(c)
  <2>1. call[c].step = "load" /\ call[c].tool = "host_exec"
        /\ zfs' = zfs /\ conf' = conf /\ task' = task /\ used' = used
    BY <1>7 DEF HostLoad
  <2>2. CASE Return(c)
    BY <2>1, <2>2, <1>0 DEF Return, Own, Returns
  <2>3. CASE /\ Proceed(c, "run", IF call[c].literal THEN Reach(call[c].refs) ELSE Snap)
             /\ RegisteredHits(call[c].refs, Registered) = {}
    <3>. DEFINE todo == IF call[c].literal THEN Reach(call[c].refs) ELSE Snap
                k == Doing(call[c].tool, "run", {}, call[c].literal, todo, sees)
    <3>1. todo \in SUBSET Snap
      BY DEF Reach
    <3>2. call' = [call EXCEPT ![c] = k]
      BY <2>3 DEF Proceed
    <3>3. k \in Calls /\ k.tool = call[c].tool /\ k.step = "run" /\ k.todo = todo
          /\ k.seen = sees /\ k.literal = call[c].literal
      BY <3>1, <1>a, <1>b, Fields
    <3>4. k.literal => k.todo = Reach(call[c].refs)
      BY <3>3
    <3>. HIDE DEF k, sees, todo
    <3>. QED
      BY <2>1, <2>3, <1>b, <3>4, <3>2, <3>3 DEF Own, Commands
  <2>. QED
    BY <1>7, <2>2, <2>3 DEF HostLoad
<1>8. CASE HostRun(c)
  <2>1. PICK gone \in SUBSET (call[c].todo \cap Live) :
          zfs' = [s \in Snap |-> IF s \in gone THEN "none" ELSE zfs[s]]
    BY <1>8 DEF HostRun
  <2>2. call[c].step = "run" /\ Return(c) /\ conf' = conf /\ task' = task /\ used' = used
    BY <1>8 DEF HostRun
  <2>3. /\ zfs' \in [Snap -> {"none", "young", "old"}]
        /\ \A t \in Snap : zfs'[t] = zfs[t] \/ zfs'[t] = "none"
        /\ \A t \in Snap : zfs'[t] # zfs[t] => t \in call[c].todo
    BY <2>1
  <2>. QED
    BY <2>2, <2>3, <1>0 DEF Return, Own, Returns
<1>. QED
  BY <1>1, <1>2, <1>3, <1>4, <1>5, <1>6, <1>7, <1>8 DEF ToolStep

\* The host leaves the calls alone, and every variable in its type.
LEMMA HostSteps ==
    ASSUME Types, HostStep
    PROVE  /\ call' = call
           /\ zfs' \in [Snap -> {"none", "young", "old"}]
           /\ conf' \in [Snap -> {"none", "prepare", "ready", "delete"}]
           /\ task' \in [Guest -> Task]
           /\ used' \subseteq Snap
<1>. USE DEF Types
<1>0. NoTask \in Task /\ \A s \in Snap : s[1] \in Guest
  BY DEF Task, Guest
<1>1. ASSUME NEW s \in Snap,
             PveCreateBegin(s) \/ PveDeleteBegin(s) \/ PveForce(s) \/ Sanoid(s)
      PROVE  /\ call' = call
             /\ zfs' \in [Snap -> {"none", "young", "old"}]
             /\ conf' \in [Snap -> {"none", "prepare", "ready", "delete"}]
             /\ task' \in [Guest -> Task]
             /\ used' \subseteq Snap
  <2>1. [op |-> "create", snap |-> s] \in Task /\ [op |-> "delete", snap |-> s] \in Task
    BY DEF Task
  <2>2. CASE PveCreateBegin(s)
    BY <1>0, <2>1, <2>2 DEF PveCreateBegin, Fresh
  <2>3. CASE PveDeleteBegin(s)
    BY <1>0, <2>1, <2>3 DEF PveDeleteBegin
  <2>4. CASE PveForce(s)
    BY <1>0, <2>4 DEF PveForce
  <2>5. CASE Sanoid(s)
    BY <2>5 DEF Sanoid, Fresh
  <2>. QED
    BY <1>1, <2>2, <2>3, <2>4, <2>5
<1>2. ASSUME NEW g \in Guest, PveCreateZfs(g) \/ PveDeleteZfs(g) \/ PveDies(g)
      PROVE  /\ call' = call
             /\ zfs' \in [Snap -> {"none", "young", "old"}]
             /\ conf' \in [Snap -> {"none", "prepare", "ready", "delete"}]
             /\ task' \in [Guest -> Task]
             /\ used' \subseteq Snap
  <2>1. task[g].op # "none" =>
          task[g].snap \in Snap /\ [task[g] EXCEPT !.op = "locked"] \in Task
    BY DEF Task, NoTask
  <2>2. CASE PveCreateZfs(g)
    BY <1>0, <2>1, <2>2 DEF PveCreateZfs
  <2>3. CASE PveDeleteZfs(g)
    <3>1. task[g].op # "none" /\ call' = call /\ used' = used
      BY <2>3 DEF PveDeleteZfs
    <3>2. CASE zfs[task[g].snap] # "none"
      BY <2>3, <3>1, <3>2, <2>1, <1>0 DEF PveDeleteZfs
    <3>3. CASE zfs[task[g].snap] = "none"
      BY <2>3, <3>1, <3>3, <2>1 DEF PveDeleteZfs
    <3>. QED
      BY <3>2, <3>3
  <2>4. CASE PveDies(g)
    BY <1>0, <2>4 DEF PveDies
  <2>. QED
    BY <1>2, <2>2, <2>3, <2>4
<1>3. ASSUME Age
      PROVE  /\ call' = call
             /\ zfs' \in [Snap -> {"none", "young", "old"}]
             /\ conf' \in [Snap -> {"none", "prepare", "ready", "delete"}]
             /\ task' \in [Guest -> Task]
             /\ used' \subseteq Snap
  BY <1>3 DEF Age
<1>. QED
  BY <1>1, <1>2, <1>3 DEF HostStep

-----------------------------------------------------------------------------
LEMMA TypesStep == ASSUME Types, Capped, Next PROVE Types' /\ Capped'
<1>1. ASSUME NEW c \in Caller, ToolStep(c) PROVE Types' /\ Capped'
  <2>1. Own(c) /\ (Returns(c) \/ Lists(c) \/ Loads(c) \/ Destroys(c) \/ Commands(c))
    BY <1>1, ToolSteps
  <2>2. Types'
    BY <2>1 DEF Types, Own
  <2>3. Idle.tool = "none" /\ Idle.step = "idle"
    BY DEF Idle, Doing
  <2>4. call[c].todo \in SUBSET Snap /\ "none" \notin Tool
    BY GuardAssumption DEF Types, Calls
  <2>5. call'[c].step = "run" => call'[c].tool = "host_exec"
    BY <2>1, <2>3 DEF Returns, Lists, Loads, Destroys, Commands
  <2>6. call'[c].tool \in {"pattern", "cleanup"} => call'[c].todo # {}
    BY <2>1, <2>3 DEF Returns, Lists, Loads, Destroys, Commands
  <2>7. call'[c].step = "destroy" => call'[c].tool \in {"pattern", "cleanup"}
    BY <2>1, <2>3 DEF Returns, Lists, Loads, Destroys, Commands, Capped
  <2>8. ASSUME call'[c].step = "destroy", call'[c].tool = "pattern"
        PROVE  Cardinality(call'[c].todo) <= MaxDelete
    <3>1. CASE Loads(c)
      BY <3>1, <2>8 DEF Loads
    <3>2. CASE Destroys(c)
      <4>1. /\ call'[c].todo \subseteq call[c].todo
            /\ Cardinality(call[c].todo) <= MaxDelete
        BY <3>2, <2>8 DEF Destroys, Capped
      <4>2. IsFiniteSet(call[c].todo)
        BY <2>4, GuardAssumption, FS_Subset
      <4>3. /\ Cardinality(call'[c].todo) <= Cardinality(call[c].todo)
            /\ Cardinality(call[c].todo) \in Nat /\ IsFiniteSet(call'[c].todo)
        BY <4>1, <4>2, FS_Subset, FS_CardinalityType
      <4>4. Cardinality(call'[c].todo) \in Nat /\ MaxDelete \in Nat
        BY <4>3, FS_CardinalityType, GuardAssumption
      <4>. QED
        BY <4>1, <4>3, <4>4
    <3>. QED
      BY <2>1, <2>3, <2>8, <3>1, <3>2 DEF Returns, Lists, Commands
  <2>9. \A d \in Caller \ {c} : call'[d] = call[d]
    BY <2>1 DEF Own
  <2>10. Capped'
    <3>1. SUFFICES ASSUME NEW d \in Caller
                   PROVE  /\ call'[d].step = "run" => call'[d].tool = "host_exec"
                          /\ call'[d].tool \in {"pattern", "cleanup"} => call'[d].todo # {}
                          /\ call'[d].step = "destroy" =>
                               /\ call'[d].tool \in {"pattern", "cleanup"}
                               /\ call'[d].tool = "pattern" =>
                                    Cardinality(call'[d].todo) <= MaxDelete
      BY DEF Capped
    <3>2. CASE d = c
      BY <3>2, <2>5, <2>6, <2>7, <2>8
    <3>3. CASE d # c
      BY <3>3, <2>9 DEF Capped
    <3>. QED
      BY <3>2, <3>3
  <2>. QED
    BY <2>2, <2>10
<1>2. ASSUME HostStep PROVE Types' /\ Capped'
  BY <1>2, HostSteps DEF Types, Capped
<1>. QED
  BY <1>1, <1>2, Steps

LEMMA TypesInvariant == Spec => [](Types /\ Capped)
<1>1. Init => Types /\ Capped
  <2>1. Idle.tool = "none" /\ Idle.step = "idle" /\ "none" \notin {"pattern", "cleanup"}
    BY DEF Idle, Doing
  <2>2. NoTask \in Task
    BY DEF Task
  <2>. QED
    BY <2>1, <2>2, IdleIsCall DEF Init, Types, Capped
<1>2. (Types /\ Capped) /\ [Next]_vars => (Types /\ Capped)'
  <2>1. UNCHANGED vars /\ Types /\ Capped => (Types /\ Capped)'
    BY DEF vars, Types, Capped
  <2>. QED
    BY <2>1, TypesStep
<1>. QED
  BY <1>1, <1>2, PTL DEF Spec

\* The variables keep their types, and no call of the pattern tool destroys more
\* than max_delete snapshots (tools/ssh_zfs.py 567-585), however many matched and
\* whatever the other calls did since.
THEOREM TypeCorrect == Spec => []TypeOK
<1>1. Types /\ Capped => TypeOK
  BY DEF Types, Capped, TypeOK
<1>. QED
  BY <1>1, TypesInvariant, PTL

-----------------------------------------------------------------------------
LEMMA CommandsSpare ==
    ASSUME Nested = FALSE, NEW refs \in SUBSET Ref,
           RegisteredHits(refs, Registered) = {}
    PROVE  Reach(refs) \cap Registered = {}
<1>1. SUFFICES ASSUME NEW s \in Reach(refs), s \in Registered PROVE FALSE
  OBVIOUS
<1>2. s \in Snap /\ s[1] \in Guest
  BY DEF Reach, Guest
<1>3. PICK r \in refs : /\ r.span \/ s[2] = r.name
                        /\ (r.ds = "guest" /\ s[1] = r.guest) \/ r.ds = "unknown"
  BY <1>1 DEF Reach
<1>4. s[1] \in Owners(r)
  BY <1>2, <1>3 DEF Owners
<1>5. r \in RegisteredHits(refs, Registered)
  BY <1>1, <1>3, <1>4 DEF RegisteredHits
<1>. QED
  BY <1>5

LEMMA SparedStep ==
    ASSUME Types, Capped, Spared, Nested = FALSE, Next
    PROVE  Spared'
<1>1. ASSUME NEW c \in Caller, ToolStep(c) PROVE Spared'
  <2>1. Own(c) /\ (Returns(c) \/ Lists(c) \/ Loads(c) \/ Destroys(c) \/ Commands(c))
    BY <1>1, ToolSteps
  <2>2. Idle.seen = {} /\ call[c].refs \in SUBSET Ref
    BY DEF Idle, Doing, Types, Calls
  <2>3. ASSUME call'[c].literal PROVE call'[c].todo \cap call'[c].seen = {}
    <3>1. CASE Returns(c) \/ Lists(c)
      BY <3>1, <2>2 DEF Returns, Lists
    <3>2. CASE Loads(c)
      BY <3>2 DEF Loads
    <3>3. CASE Destroys(c)
      BY <3>3, <2>3 DEF Destroys, Spared
    <3>4. CASE Commands(c)
      BY <3>4, <2>2, <2>3, CommandsSpare DEF Commands
    <3>. QED
      BY <2>1, <3>1, <3>2, <3>3, <3>4
  <2>. QED
    BY <2>1, <2>3 DEF Own, Spared
<1>2. ASSUME HostStep PROVE Spared'
  BY <1>2, HostSteps DEF Spared
<1>. QED
  BY <1>1, <1>2, Steps

LEMMA SparedInvariant ==
    ASSUME Nested = FALSE
    PROVE  Spec => [](Types /\ Capped /\ Spared)
<1>1. Init => Spared
  BY DEF Init, Spared, Idle, Doing
<1>2. Types /\ Capped /\ Spared /\ [Next]_vars => Spared'
  <2>1. UNCHANGED vars /\ Spared => Spared'
    BY DEF vars, Spared
  <2>. QED
    BY <2>1, SparedStep
<1>. QED
  BY <1>1, <1>2, TypesInvariant, PTL DEF Spec

\* What a call destroys in a step, it had among its targets.
LEMMA DestroyedIsTarget ==
    ASSUME Types, Capped, Next, NEW c \in Caller, NEW s \in DestroyedBy(c)
    PROVE  /\ s \in call[c].todo /\ s \in Snap
           /\ call[c].tool = "pattern" => call[c].step = "destroy"
<1>1. s \in Snap /\ zfs[s] # "none" /\ zfs'[s] = "none" /\ call'[c] # call[c]
  BY DEF DestroyedBy, Live
<1>2. ASSUME NEW d \in Caller, ToolStep(d)
      PROVE  s \in call[c].todo /\ (call[c].tool = "pattern" => call[c].step = "destroy")
  <2>1. Own(d)
    BY <1>2, ToolSteps
  <2>2. d = c
    BY <1>1, <2>1 DEF Own
  <2>. QED
    BY <1>1, <2>1, <2>2 DEF Own, Capped
<1>3. ~HostStep
  BY <1>1, HostSteps
<1>. QED
  BY <1>1, <1>2, <1>3, Steps

\* With no disks below a literal parent dataset, a call that destroys only what its
\* references name as they stand destroys nothing it saw registered when it read the
\* configs (registered_hits, pve_snapshots.py 96-120): for any number of calls and
\* guests, and any references in one command.
THEOREM SeenSpared == ASSUME Nested = FALSE PROVE Spec => SeenIsSpared
<1>1. Types /\ Capped /\ Spared /\ [Next]_vars =>
        [\A c \in Caller : call[c].literal => DestroyedBy(c) \cap call[c].seen = {}]_vars
  BY DestroyedIsTarget DEF Spared
<1>. QED
  BY <1>1, SparedInvariant, PTL DEF Spec, SeenIsSpared

-----------------------------------------------------------------------------
\* A dated name is never given to a snapshot again.
LEMMA MakingStep ==
    ASSUME Types, Capped, Making, Next
    PROVE  Making'
<1>. USE DEF Types, Dated
<1>0. \A s \in Snap : s[1] \in Guest
  BY DEF Guest
<1>1. ASSUME NEW c \in Caller, ToolStep(c) PROVE Making'
  <2>1. Own(c)
    BY <1>1, ToolSteps
  <2>2. \A g \in Guest : task[g].op = "create" => task[g].snap \in Snap
    BY DEF Task, NoTask
  <2>. QED
    BY <2>1, <2>2 DEF Own, Making
<1>2. ASSUME NEW s \in Snap, PveCreateBegin(s) PROVE Making'
  <2>1. s \notin used /\ used' = used \cup ({s} \cap Dated) /\ zfs' = zfs
    BY <1>2 DEF PveCreateBegin, Fresh
  <2>2. /\ conf' = [conf EXCEPT ![s] = "prepare"] /\ conf[s] = "none"
        /\ task' = [task EXCEPT ![s[1]] = [op |-> "create", snap |-> s]]
    BY <1>2 DEF PveCreateBegin
  <2>3. s \in Dated => zfs[s] = "none"
    BY <2>1 DEF Making
  <2>4. \A g \in Guest : task[g].op = "create" => task[g].snap \in Snap
    BY DEF Task, NoTask
  <2>5. task'[s[1]].snap = s
    BY <2>2, <1>0
  <2>. QED
    BY <2>1, <2>2, <2>3, <2>4, <2>5, <1>0 DEF Making
<1>3. ASSUME NEW s \in Snap, PveDeleteBegin(s) PROVE Making'
  <2>1. /\ conf' = [conf EXCEPT ![s] = "delete"] /\ conf[s] \in {"ready", "delete"}
        /\ task' = [task EXCEPT ![s[1]] = [op |-> "delete", snap |-> s]]
        /\ zfs' = zfs /\ used' = used
    BY <1>3 DEF PveDeleteBegin
  <2>2. \A g \in Guest : task[g].op = "create" => task[g].snap \in Snap
    BY DEF Task, NoTask
  <2>3. task'[s[1]].op = "delete"
    BY <2>1, <1>0
  <2>. QED
    BY <2>1, <2>2, <2>3, <1>0 DEF Making
<1>4. ASSUME NEW s \in Snap, PveForce(s) PROVE Making'
  <2>1. /\ conf' = [conf EXCEPT ![s] = "none"] /\ task[s[1]].op # "create"
        /\ task' = [task EXCEPT ![s[1]] = NoTask] /\ zfs' = zfs /\ used' = used
    BY <1>4 DEF PveForce
  <2>2. \A g \in Guest : task[g].op = "create" => task[g].snap \in Snap
    BY DEF Task, NoTask
  <2>3. NoTask.op # "create"
    BY DEF NoTask
  <2>. QED
    BY <2>1, <2>2, <2>3, <1>0 DEF Making
<1>5. ASSUME NEW s \in Snap, Sanoid(s) PROVE Making'
  <2>1. /\ s \notin used /\ used' = used \cup ({s} \cap Dated) /\ conf' = conf /\ task' = task
        /\ zfs' = [zfs EXCEPT ![s] = "young"]
    BY <1>5 DEF Sanoid, Fresh
  <2>2. \A g \in Guest : task[g].op = "create" => task[g].snap \in Snap
    BY DEF Task, NoTask
  <2>. QED
    BY <2>1, <2>2, <1>0 DEF Making
<1>6. ASSUME NEW g \in Guest, PveCreateZfs(g) PROVE Making'
  <2>1. PICK s \in Snap : s = task[g].snap
    BY <1>6 DEF PveCreateZfs, Task, NoTask
  <2>2. /\ \A t \in Snap \ {s} : zfs'[t] = zfs[t] /\ conf'[t] = conf[t]
        /\ task' = [task EXCEPT ![g] = NoTask] /\ used' = used
    BY <1>6, <2>1 DEF PveCreateZfs
  <2>3. \A h \in Guest : task[h].op = "create" => task[h].snap \in Snap
    BY DEF Task, NoTask
  <2>4. NoTask.op # "create" /\ (s \in Dated => s[1] = g /\ s \in used)
    BY <1>6, <2>1 DEF NoTask, PveCreateZfs, Making
  <2>. QED
    BY <2>1, <2>2, <2>3, <2>4, <1>0 DEF Making
<1>7. ASSUME NEW g \in Guest, PveDeleteZfs(g) PROVE Making'
  <2>1. PICK s \in Snap : s = task[g].snap
    BY <1>7 DEF PveDeleteZfs, Task, NoTask
  <2>2. \A h \in Guest : task[h].op = "create" => task[h].snap \in Snap
    BY DEF Task, NoTask
  <2>3. CASE zfs[s] # "none"
    <3>1. /\ zfs' = [zfs EXCEPT ![s] = "none"] /\ conf' = [conf EXCEPT ![s] = "none"]
          /\ task' = [task EXCEPT ![g] = NoTask] /\ used' = used
      BY <1>7, <2>1, <2>3 DEF PveDeleteZfs
    <3>2. NoTask.op # "create"
      BY DEF NoTask
    <3>. QED
      BY <2>2, <2>3, <3>1, <3>2 DEF Making
  <2>4. CASE zfs[s] = "none"
    <3>1. /\ zfs' = zfs /\ conf' = conf /\ used' = used
          /\ task' = [task EXCEPT ![g].op = "locked"]
      BY <1>7, <2>1, <2>4 DEF PveDeleteZfs
    <3>2. task'[g].op = "locked"
      BY <3>1, <1>7 DEF Task, NoTask, PveDeleteZfs
    <3>. QED
      BY <2>2, <3>1, <3>2 DEF Making
  <2>. QED
    BY <2>3, <2>4
<1>8. ASSUME NEW g \in Guest, PveDies(g) PROVE Making'
  <2>1. task' = [task EXCEPT ![g] = NoTask] /\ zfs' = zfs /\ conf' = conf /\ used' = used
    BY <1>8 DEF PveDies
  <2>2. NoTask.op # "create"
    BY DEF NoTask
  <2>. QED
    BY <2>1, <2>2 DEF Making
<1>9. ASSUME Age PROVE Making'
  <2>1. /\ zfs' = [s \in Snap |-> IF zfs[s] = "young" /\ s[2] = Vzdump THEN "old" ELSE zfs[s]]
        /\ conf' = conf /\ task' = task /\ used' = used
    BY <1>9 DEF Age
  <2>2. \A s \in Snap : zfs'[s] = "none" <=> zfs[s] = "none"
    BY <2>1
  <2>3. \A h \in Guest : task[h].op = "create" => task[h].snap \in Snap
    BY DEF Task, NoTask
  <2>. QED
    BY <2>1, <2>2, <2>3 DEF Making
<1>. QED
  BY <1>1, <1>2, <1>3, <1>4, <1>5, <1>6, <1>7, <1>8, <1>9, Steps DEF HostStep

\* The host makes no second snapshot under a dated name, and writes it no section.
LEMMA PastStays ==
    ASSUME Types, Making, HostStep, NEW s \in Dated, Past(s)
    PROVE  Past(s)' /\ (conf[s] = "none" => conf'[s] = "none")
<1>. USE DEF Types, Dated
<1>0. \A t \in Snap : t[1] \in Guest
  BY DEF Guest
<1>n. NoTask.op # "create"
  BY DEF NoTask
<1>2. ASSUME NEW t \in Snap, PveCreateBegin(t)
      PROVE  Past(s)' /\ (conf[s] = "none" => conf'[s] = "none")
  <2>1. t # s /\ used' = used \cup ({t} \cap Dated)
    BY <1>2 DEF PveCreateBegin, Fresh, Past
  <2>2. /\ conf' = [conf EXCEPT ![t] = "prepare"]
        /\ task' = [task EXCEPT ![t[1]] = [op |-> "create", snap |-> t]]
    BY <1>2 DEF PveCreateBegin
  <2>3. task'[t[1]].snap = t
    BY <2>2, <1>0
  <2>. QED
    BY <2>1, <2>2, <2>3, <1>0 DEF Past
<1>3. ASSUME NEW t \in Snap, PveDeleteBegin(t)
      PROVE  Past(s)' /\ (conf[s] = "none" => conf'[s] = "none")
  <2>1. /\ conf' = [conf EXCEPT ![t] = "delete"] /\ conf[t] \in {"ready", "delete"}
        /\ task' = [task EXCEPT ![t[1]] = [op |-> "delete", snap |-> t]]
        /\ used' = used
    BY <1>3 DEF PveDeleteBegin
  <2>2. task'[t[1]].op = "delete"
    BY <2>1, <1>0
  <2>. QED
    BY <2>1, <2>2, <1>0 DEF Past
<1>4. ASSUME NEW t \in Snap, PveForce(t)
      PROVE  Past(s)' /\ (conf[s] = "none" => conf'[s] = "none")
  <2>1. /\ conf' = [conf EXCEPT ![t] = "none"] /\ used' = used
        /\ task' = [task EXCEPT ![t[1]] = NoTask]
    BY <1>4 DEF PveForce
  <2>. QED
    BY <2>1, <1>n, <1>0 DEF Past
<1>5. ASSUME NEW t \in Snap, Sanoid(t)
      PROVE  Past(s)' /\ (conf[s] = "none" => conf'[s] = "none")
  <2>1. used' = used \cup ({t} \cap Dated) /\ conf' = conf /\ task' = task
    BY <1>5 DEF Sanoid, Fresh
  <2>. QED
    BY <2>1 DEF Past
<1>6. ASSUME NEW g \in Guest, PveCreateZfs(g)
      PROVE  Past(s)' /\ (conf[s] = "none" => conf'[s] = "none")
  <2>1. PICK t \in Snap : t = task[g].snap
    BY <1>6 DEF PveCreateZfs, Task, NoTask
  <2>2. /\ \A u \in Snap \ {t} : conf'[u] = conf[u]
        /\ task' = [task EXCEPT ![g] = NoTask] /\ used' = used
    BY <1>6, <2>1 DEF PveCreateZfs
  <2>3. t # s
    BY <1>6, <2>1 DEF PveCreateZfs, Past
  <2>. QED
    BY <2>2, <2>3, <1>n DEF Past
<1>7. ASSUME NEW g \in Guest, PveDeleteZfs(g)
      PROVE  Past(s)' /\ (conf[s] = "none" => conf'[s] = "none")
  <2>1. PICK t \in Snap : t = task[g].snap
    BY <1>7 DEF PveDeleteZfs, Task, NoTask
  <2>2. CASE zfs[t] # "none"
    <3>1. /\ zfs' = [zfs EXCEPT ![t] = "none"] /\ conf' = [conf EXCEPT ![t] = "none"]
          /\ task' = [task EXCEPT ![g] = NoTask] /\ used' = used
      BY <1>7, <2>1, <2>2 DEF PveDeleteZfs
    <3>. QED
      BY <3>1, <1>n DEF Past
  <2>3. CASE zfs[t] = "none"
    <3>1. /\ zfs' = zfs /\ conf' = conf /\ used' = used
          /\ task' = [task EXCEPT ![g].op = "locked"]
      BY <1>7, <2>1, <2>3 DEF PveDeleteZfs
    <3>2. task'[g].op = "locked"
      BY <3>1, <1>7 DEF Task, NoTask, PveDeleteZfs
    <3>. QED
      BY <3>1, <3>2 DEF Past
  <2>. QED
    BY <2>2, <2>3
<1>8. ASSUME NEW g \in Guest, PveDies(g)
      PROVE  Past(s)' /\ (conf[s] = "none" => conf'[s] = "none")
  <2>1. task' = [task EXCEPT ![g] = NoTask] /\ zfs' = zfs /\ conf' = conf /\ used' = used
    BY <1>8 DEF PveDies
  <2>. QED
    BY <2>1, <1>n DEF Past
<1>9. ASSUME Age
      PROVE  Past(s)' /\ (conf[s] = "none" => conf'[s] = "none")
  BY <1>9 DEF Age, Past
<1>. QED
  BY <1>2, <1>3, <1>4, <1>5, <1>6, <1>7, <1>8, <1>9 DEF HostStep

LEMMA ListingStep ==
    ASSUME Types, Capped, Making, Listing, Next
    PROVE  Listing'
<1>1. ASSUME NEW c \in Caller, ToolStep(c) PROVE Listing'
  <2>1. Own(c) /\ (Returns(c) \/ Lists(c) \/ Loads(c) \/ Destroys(c) \/ Commands(c))
    BY <1>1, ToolSteps
  <2>2. Idle.tool = "none" /\ call[c].todo \in SUBSET Snap /\ call'[c].todo \in SUBSET Snap
    BY <2>1 DEF Idle, Doing, Types, Calls, Own
  <2>3. \A s \in Snap : Past(s) => Past(s)'
    BY <2>1 DEF Own, Past
  <2>4. \A s \in Dated : zfs[s] # "none" => Past(s)
    BY DEF Making, Past
  <2>5. SUFFICES ASSUME NEW d \in Caller, call'[d].tool = "pattern",
                        NEW s \in call'[d].todo \cap Dated
                 PROVE  Past(s)' /\ (call'[d].step = "destroy" => conf'[s] = "none")
    BY DEF Listing, Dated
  <2>6. s \in Snap
    BY DEF Dated
  <2>7. CASE d # c
    <3>1. call'[d] = call[d] /\ conf' = conf
      BY <2>1, <2>7 DEF Own
    <3>. QED
      BY <3>1, <2>3, <2>5, <2>6 DEF Listing
  <2>8. CASE d = c
    <3>1. CASE Lists(c)
      BY <3>1, <2>3, <2>4, <2>6, <2>8 DEF Lists
    <3>2. CASE Loads(c)
      <4>1. s \in call[c].todo /\ s \notin Registered /\ conf' = conf
            /\ call'[c].tool = call[c].tool
        BY <3>2, <2>1, <2>2, <2>8 DEF Loads, Own
      <4>. QED
        BY <4>1, <2>3, <2>5, <2>6, <2>8 DEF Listing, Registered
    <3>3. CASE Destroys(c)
      <4>1. s \in call[c].todo /\ conf' = conf /\ call[c].step = "destroy"
            /\ call'[c].tool = call[c].tool
        BY <3>3, <2>1, <2>2, <2>8 DEF Destroys, Own
      <4>. QED
        BY <4>1, <2>3, <2>5, <2>6, <2>8 DEF Listing
    <3>. QED
      BY <2>1, <2>2, <2>5, <2>8, <3>1, <3>2, <3>3 DEF Returns, Commands
  <2>. QED
    BY <2>7, <2>8
<1>2. ASSUME HostStep PROVE Listing'
  <2>1. call' = call
    BY <1>2, HostSteps
  <2>2. SUFFICES ASSUME NEW d \in Caller, call[d].tool = "pattern",
                        NEW s \in call[d].todo \cap Dated
                 PROVE  Past(s)' /\ (call[d].step = "destroy" => conf'[s] = "none")
    BY <2>1 DEF Listing, Dated
  <2>. QED
    BY <1>2, <2>2, PastStays DEF Listing
<1>. QED
  BY <1>1, <1>2, Steps

LEMMA ListingInvariant == Spec => [](Types /\ Capped /\ Making /\ Listing)
<1>1. Init => Making /\ Listing
  BY DEF Init, Making, Listing, Idle, Doing, NoTask, Dated
<1>2. Types /\ Capped /\ Making /\ Listing /\ [Next]_vars => (Making /\ Listing)'
  <2>1. UNCHANGED vars /\ Making /\ Listing => (Making /\ Listing)'
    BY DEF vars, Making, Listing, Past, Dated
  <2>. QED
    BY <2>1, MakingStep, ListingStep
<1>. QED
  BY <1>1, <1>2, TypesInvariant, PTL DEF Spec

\* The pattern tool never takes the ZFS half from a finished section under a name
\* that is given once, whatever names are given again and whatever PVE, sanoid and
\* other calls do between the list, the read of the configs and each destroy
\* (tools/host_ssh.py 104-105).
THEOREM NeverOrphan == Spec => PatternNeverOrphans
<1>1. Types /\ Capped /\ Making /\ Listing /\ [Next]_vars =>
        [\A c \in Caller : call[c].tool = "pattern" =>
            \A s \in DestroyedBy(c) \cap Dated : conf[s] # "ready"]_vars
  BY DestroyedIsTarget DEF Listing
<1>. QED
  BY <1>1, ListingInvariant, PTL DEF Spec, PatternNeverOrphans
=============================================================================
