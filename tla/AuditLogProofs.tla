--------------------------- MODULE AuditLogProofs ---------------------------
(***************************************************************************)
(* Theorems about AuditLog, for any number of processes, any texts, keys   *)
(* and bounds.                                                             *)
(***************************************************************************)
EXTENDS AuditLog, AuditChainProofs, FiniteSetTheorems

(* Types *)

LEMMA GluedIsLog ==
  ASSUME IsLog(log), NEW l, IsLine(l)
  PROVE  IsLog(Glued(l))
  <1>1. CASE torn
    <2>1. IsLine(Junk)
      BY DEF IsLine
    <2>2. Glued(l) = [log EXCEPT ![Len(log)] = Junk]
      BY <1>1 DEF Glued
    <2>3. IsSeq(Glued(l)) /\ DOMAIN Glued(l) = DOMAIN log
      <3>1. IsSeq(log)
        BY DEF IsLog
      <3>2. /\ IsSeq([log EXCEPT ![Len(log)] = Junk])
            /\ DOMAIN [log EXCEPT ![Len(log)] = Junk] = DOMAIN log
        BY <3>1, ExceptIsSeq, Zenon
      <3>3. QED
        BY <3>2, <2>2, Zenon
    <2>4. \A i \in DOMAIN log : Glued(l)[i] = log[i] \/ Glued(l)[i] = Junk
      BY <2>2
    <2>5. QED
      BY <2>1, <2>3, <2>4 DEF IsLog
  <1>2. CASE ~torn
    <2>1. Glued(l) = Append(log, l)
      BY <1>2 DEF Glued
    <2>2. \A i \in DOMAIN Append(log, l) : i \in DOMAIN log \/ i = Len(log) + 1
      BY AppendIsSeq DEF IsLog
    <2>3. \A i \in DOMAIN Append(log, l) : IsLine(Append(log, l)[i])
      BY <2>2, AppendIsSeq DEF IsLog
    <2>4. QED
      BY <2>1, <2>3, AppendIsSeq DEF IsLog
  <1>3. QED
    BY <1>1, <1>2

\* Each process between the opening and the closing of the log has a text.
EntryInv == \A w \in Writer : pc[w] # "idle" => entry[w] \in Body

TypeInv == TypeOK /\ EntryInv

LEMMA InitTypes == Init => TypeInv
  <1> SUFFICES ASSUME Init PROVE TypeInv
    OBVIOUS
  <1>1. IsLog(log)
    BY InitLogsAssumption DEF Init
  <1>2. TypeOK
    BY <1>1 DEF Init, TypeOK
  <1>3. EntryInv
    BY DEF Init, EntryInv
  <1>4. QED
    BY <1>2, <1>3 DEF TypeInv

LEMMA StepTypes ==
  ASSUME TypeInv, [Next]_vars
  PROVE  TypeInv'
  <1> USE DEF TypeInv, TypeOK, EntryInv
  <1>1. ASSUME NEW w \in Writer, NEW b \in Input, Call(w, b)
        PROVE  TypeInv'
    <2>1. Mask[b] \in Body
      BY MaskAssumption, InputAssumption
    <2>2. QED
      BY <1>1, <2>1 DEF Call, Open
  <1>2. ASSUME NEW w \in Writer, AcquireLock(w)
        PROVE  TypeInv'
    BY <1>2 DEF AcquireLock
  <1>3. ASSUME NEW w \in Writer, LockFails(w)
        PROVE  TypeInv'
    BY <1>3 DEF LockFails
  <1>4. ASSUME NEW w \in Writer, ReadTail(w)
        PROVE  TypeInv'
    BY <1>4 DEF ReadTail
  <1>5. ASSUME NEW w \in Writer, ReadTailFails(w)
        PROVE  TypeInv'
    BY <1>5 DEF ReadTailFails
  <1>6. ASSUME NEW w \in Writer, WriteLine(w)
        PROVE  TypeInv'
    <2>1. IsLog(log')
      BY <1>6, NewEntryIsLine, GluedIsLog DEF WriteLine
    <2>2. forked' \in BOOLEAN
      BY <1>6, Zenon DEF WriteLine
    <2>3. damage' \in Nat
      BY <1>6 DEF WriteLine
    <2>4. QED
      BY <1>6, <2>1, <2>2, <2>3 DEF WriteLine
  <1>7. ASSUME NEW w \in Writer, WriteShort(w)
        PROVE  TypeInv'
    <2>1. IsLine(Junk)
      BY DEF IsLine
    <2>2. IsLog(log')
      BY <1>7, <2>1, NewEntryIsLine, GluedIsLog DEF WriteShort
    <2>3. QED
      BY <1>7, <2>2 DEF WriteShort
  <1>8. ASSUME NEW w \in Writer, WriteFails(w)
        PROVE  TypeInv'
    BY <1>8 DEF WriteFails
  <1>9. ASSUME NEW w \in Writer, Close(w) \/ Crash(w)
        PROVE  TypeInv'
    BY <1>9 DEF Close, Crash, Release
  <1>10. CASE UNCHANGED vars
    BY <1>10 DEF vars
  <1>11. QED
    BY <1>1, <1>2, <1>3, <1>4, <1>5, <1>6, <1>7, <1>8, <1>9, <1>10 DEF Next, Step

\* Type correctness, from the assumptions on the constants alone.
THEOREM TypeCorrect == Spec => []TypeOK
  <1>1. TypeInv => TypeOK
    BY DEF TypeInv
  <1>2. QED
    BY InitTypes, StepTypes, <1>1, PTL DEF Spec

-----------------------------------------------------------------------------
(* Sound logs verify, and a locked append keeps a log sound *)

\* verify_chain() finds nothing to report on a sound log.
THEOREM SoundVerifies ==
  ASSUME NEW lines, IsSeq(lines), Sound(lines)
  PROVE  VerifyOk(lines, AuditKey)
  <1>1. DOMAIN lines = 1..Len(lines) /\ Len(lines) \in Nat
    BY DEF IsSeq
  <1>2. ASSUME NEW i \in DOMAIN lines, lines[i].kind = "chained"
        PROVE  lines[i].prev = PrevExpected(lines, i)
    <2>1. lines[i].prev = IF i > 1 /\ lines[i - 1].kind = "chained"
                          THEN lines[i - 1].hash
                          ELSE Genesis
      BY <1>2 DEF Sound
    <2>2. CASE ChainedBefore(lines, i) = {}
      <3>1. ~(i > 1 /\ lines[i - 1].kind = "chained")
        BY <1>1, <2>2 DEF ChainedBefore
      <3>2. QED
        BY <2>1, <2>2, <3>1 DEF PrevExpected
    <2>3. CASE ChainedBefore(lines, i) # {}
      <3>1. PICK j \in DOMAIN lines : j < i /\ lines[j].kind = "chained"
        BY <2>3 DEF ChainedBefore
      <3>2. i > 1 /\ i - 1 \in DOMAIN lines /\ j <= i - 1
        BY <1>1, <3>1
      <3>3. lines[i - 1].kind = "chained"
        BY <1>1, <3>1, <3>2 DEF Sound
      <3>4. i - 1 \in ChainedBefore(lines, i)
        BY <1>1, <3>2, <3>3 DEF ChainedBefore
      <3>5. \A k \in ChainedBefore(lines, i) : k <= i - 1
        BY <1>1 DEF ChainedBefore
      <3>6. (CHOOSE m \in ChainedBefore(lines, i) :
               \A k \in ChainedBefore(lines, i) : k <= m) = i - 1
        <4>1. \A m \in ChainedBefore(lines, i) :
                (\A k \in ChainedBefore(lines, i) : k <= m) => m = i - 1
          BY <1>1, <3>4, <3>5 DEF ChainedBefore
        <4>2. QED
          BY <3>4, <3>5, <4>1
      <3>7. PrevExpected(lines, i) = lines[i - 1].hash
        BY <2>3, <3>6 DEF PrevExpected
      <3>8. QED
        BY <2>1, <3>2, <3>3, <3>7
    <2>4. QED
      BY <2>2, <2>3
  <1>3. QED
    BY <1>2 DEF VerifyOk, Breaks, Sound

\* An entry chained to the last line keeps a log sound.
LEMMA AppendKeepsSound ==
  ASSUME NEW lines, IsSeq(lines), Sound(lines), NEW b
  PROVE  Sound(Append(lines, NewEntry(AuditKey, b, LastHash(lines))))
  <1> DEFINE n == Len(lines)
             e == NewEntry(AuditKey, b, LastHash(lines))
             a == Append(lines, e)
  <1>1. /\ n \in Nat /\ DOMAIN lines = 1..n /\ DOMAIN a = 1..(n + 1)
        /\ \A i \in 1..n : a[i] = lines[i]
        /\ a[n + 1] = e
    BY AppendIsSeq
  <1>2. /\ e.kind = "chained"
        /\ e.prev = LastHash(lines)
        /\ HashMatches(AuditKey, e)
    BY DEF NewEntry, Chained, HashMatches
  <1>3. LastHash(lines) = IF n + 1 > 1 /\ lines[n].kind = "chained"
                          THEN lines[n].hash
                          ELSE Genesis
    <2>1. n = 0 <=> lines = <<>>
      BY DEF IsSeq
    <2>2. QED
      BY <1>1, <2>1 DEF LastHash
  <1> HIDE DEF e, a
  <1>4. \A i \in DOMAIN a : a[i].kind # "junk"
    BY <1>1, <1>2 DEF Sound
  <1>5. ASSUME NEW i \in DOMAIN a, NEW j \in DOMAIN a, i < j, a[i].kind = "chained"
        PROVE  a[j].kind = "chained"
    BY <1>1, <1>2, <1>5 DEF Sound
  <1>6. ASSUME NEW i \in DOMAIN a, a[i].kind = "chained"
        PROVE  /\ HashMatches(AuditKey, a[i])
               /\ a[i].prev = IF i > 1 /\ a[i - 1].kind = "chained"
                              THEN a[i - 1].hash
                              ELSE Genesis
    <2>1. CASE i = n + 1
      BY <1>1, <1>2, <1>3, <2>1
    <2>2. CASE i \in 1..n
      <3>1. a[i] = lines[i] /\ (i > 1 => a[i - 1] = lines[i - 1])
        BY <1>1, <2>2
      <3>2. QED
        BY <1>1, <1>6, <2>2, <3>1 DEF Sound
    <2>3. QED
      BY <1>1, <2>1, <2>2
  <1>7. Sound(a)
    BY <1>4, <1>5, <1>6 DEF Sound
  <1>8. QED
    BY <1>7 DEF a, e

-----------------------------------------------------------------------------
(* The lock *)

LEMMA StepLock ==
  ASSUME TypeInv, LockInv, [Next]_vars
  PROVE  LockInv'
  <1> USE DEF TypeInv, TypeOK, LockInv
  <1>1. ASSUME NEW w \in Writer, NEW b \in Input, Call(w, b)
        PROVE  LockInv'
    BY <1>1 DEF Call, Open
  <1>2. ASSUME NEW w \in Writer, AcquireLock(w)
        PROVE  LockInv'
    BY <1>2, WriterAssumption DEF AcquireLock
  <1>3. ASSUME NEW w \in Writer, LockFails(w)
        PROVE  LockInv'
    BY <1>3 DEF LockFails
  <1>4. ASSUME NEW w \in Writer, ReadTail(w) \/ ReadTailFails(w)
        PROVE  LockInv'
    BY <1>4 DEF ReadTail, ReadTailFails
  <1>5. ASSUME NEW w \in Writer, WriteLine(w) \/ WriteShort(w) \/ WriteFails(w)
        PROVE  LockInv'
    BY <1>5 DEF WriteLine, WriteShort, WriteFails
  <1>6. ASSUME NEW w \in Writer, Close(w) \/ Crash(w)
        PROVE  LockInv'
    BY <1>6 DEF Close, Crash, Release
  <1>7. CASE UNCHANGED vars
    BY <1>7 DEF vars
  <1>8. QED
    BY <1>1, <1>2, <1>3, <1>4, <1>5, <1>6, <1>7 DEF Next, Step

\* The lock excludes: of the processes that were told they have it, each is the one
\* holding it, from AcquireLock to Release and whoever crashes.
THEOREM LockExcludes == Spec => []LockInv
  <1>1. Init => LockInv
    BY DEF Init, LockInv
  <1>2. QED
    BY InitTypes, StepTypes, <1>1, StepLock, PTL DEF Spec

-----------------------------------------------------------------------------
(* The chain *)

LEMMA InitChain ==
  ASSUME InitLogsSound, Init
  PROVE  ChainInv
  BY DEF InitLogsSound, Init, ChainInv

LEMMA StepChain ==
  ASSUME TypeInv, LockInv, ChainInv, [Next]_vars
  PROVE  ChainInv'
  <1> USE DEF TypeInv, TypeOK, ChainInv
  <1>1. ASSUME NEW w \in Writer, NEW b \in Input, Call(w, b)
        PROVE  ChainInv'
    BY <1>1 DEF Call, Open
  <1>2. ASSUME NEW w \in Writer, AcquireLock(w)
        PROVE  ChainInv'
    BY <1>2 DEF AcquireLock
  <1>3. ASSUME NEW w \in Writer, LockFails(w)
        PROVE  ChainInv'
    BY <1>3 DEF LockFails
  <1>4. ASSUME NEW w \in Writer, ReadTail(w)
        PROVE  ChainInv'
    BY <1>4 DEF ReadTail
  <1>5. ASSUME NEW w \in Writer, ReadTailFails(w)
        PROVE  ChainInv'
    BY <1>5 DEF ReadTailFails
  <1>6. ASSUME NEW w \in Writer, WriteLine(w)
        PROVE  ChainInv'
    <2> SUFFICES ASSUME damage' = 0
                 PROVE  /\ ~torn'
                        /\ Sound(log')
                        /\ \A v \in Writer : pc'[v] \in {"read", "write"} => locked'[v]
                        /\ \A v \in Writer : pc'[v] = "write" => prev'[v] = LastHash(log')
      OBVIOUS
    <2>1. damage = 0 /\ KeyOf[w] = AuditKey
      BY <1>6 DEF WriteLine
    <2>2. ~torn /\ Sound(log) /\ prev[w] = LastHash(log) /\ locked[w]
      BY <1>6, <2>1 DEF WriteLine
    <2>3. log' = Append(log, NewEntry(AuditKey, entry[w], LastHash(log)))
      BY <1>6, <2>1, <2>2 DEF WriteLine, Glued
    <2>4. Sound(log')
      BY <2>2, <2>3, AppendKeepsSound DEF IsLog
    <2>5. ~torn'
      BY <1>6 DEF WriteLine
    <2>6. \A v \in Writer : pc'[v] \in {"read", "write"} => locked'[v]
      BY <1>6, <2>1 DEF WriteLine
    <2>7. ASSUME NEW v \in Writer, pc'[v] = "write"
          PROVE  FALSE
      <3>1. v # w /\ pc[v] = "write"
        BY <1>6, <2>7 DEF WriteLine
      <3>2. locked[v]
        BY <2>1, <3>1
      <3>3. QED
        BY <2>2, <3>1, <3>2 DEF LockInv
    <2>8. QED
      BY <2>4, <2>5, <2>6, <2>7
  <1>7. ASSUME NEW w \in Writer, WriteShort(w)
        PROVE  ChainInv'
    BY <1>7 DEF WriteShort
  <1>8. ASSUME NEW w \in Writer, WriteFails(w)
        PROVE  ChainInv'
    BY <1>8 DEF WriteFails
  <1>9. ASSUME NEW w \in Writer, Close(w) \/ Crash(w)
        PROVE  ChainInv'
    BY <1>9 DEF Close, Crash, Release
  <1>10. CASE UNCHANGED vars
    BY <1>10 DEF vars
  <1>11. QED
    BY <1>1, <1>2, <1>3, <1>4, <1>5, <1>6, <1>7, <1>8, <1>9, <1>10 DEF Next, Step

LEMMA ChainInvHolds ==
  ASSUME InitLogsSound
  PROVE  Spec => [](TypeInv /\ ChainInv)
  <1>1. Init => TypeInv /\ LockInv /\ ChainInv
    <2>1. Init => LockInv
      BY DEF Init, LockInv
    <2>2. QED
      BY InitTypes, InitChain, <2>1
  <1>2. TypeInv /\ LockInv /\ ChainInv /\ [Next]_vars => (TypeInv /\ LockInv /\ ChainInv)'
    BY StepTypes, StepLock, StepChain
  <1>3. QED
    BY <1>1, <1>2, PTL DEF Spec

\* Before the first fault the log is sound and whole, whoever is between the lock
\* and its write has the lock, and the tail hash it read is still the last one.
THEOREM ChainKeeps ==
  ASSUME InitLogsSound
  PROVE  Spec => []ChainInv
  BY ChainInvHolds, PTL

\* verify_chain() accepts the log at every moment before the first fault, for any
\* number of processes, if it accepts what they found: every locked append links to
\* the line that is last when it writes.
THEOREM ChainStaysIntact ==
  ASSUME InitLogsSound
  PROVE  Spec => []ChainIntact
  <1>1. TypeInv /\ ChainInv => ChainIntact
    BY SoundVerifies DEF TypeInv, TypeOK, IsLog, ChainInv, ChainIntact
  <1>2. QED
    BY <1>1, ChainInvHolds, PTL

-----------------------------------------------------------------------------
(* A torn line *)

\* A torn line is there, and comes from a write that was cut short.
TornInv == torn => lost /\ log # <<>>

\* The first n bodies of a log, and one more, as Append makes them.
LEMMA BodiesAppend ==
  ASSUME NEW lines, NEW n \in Nat, NEW b
  PROVE  Append([i \in 1..n |-> lines[i].body], b) =
           [i \in 1..n + 1 |-> IF i = n + 1 THEN b ELSE lines[i].body]
  <1> DEFINE s == [i \in 1..n |-> lines[i].body]
             a == Append(s, b)
             S == {s[i] : i \in 1..n} \cup {b}
  <1>1. s \in [1..n -> S]
    OBVIOUS
  <1>2. s \in Seq(S) /\ Len(s) = n
    <2> HIDE DEF s, S
    <2>1. s \in Seq(S)
      BY <1>1, SeqDef
    <2>2. QED
      BY <1>1, <2>1
  <1>3. /\ a \in Seq(S) /\ Len(a) = n + 1
        /\ \A i \in 1..n : a[i] = s[i]
        /\ a[n + 1] = b
    <2> HIDE DEF s
    <2>1. QED
      BY <1>2
  <1>4. a = [i \in 1..n + 1 |-> a[i]]
    <2> HIDE DEF a
    <2>1. QED
      BY <1>3
  <1>5. \A i \in 1..n + 1 : a[i] = IF i = n + 1 THEN b ELSE lines[i].body
    <2> HIDE DEF a
    <2>1. \A i \in 1..n : s[i] = lines[i].body
      OBVIOUS
    <2> HIDE DEF s
    <2>2. QED
      BY <1>3, <2>1
  <1> HIDE DEF a
  <1>6. QED
    BY <1>4, <1>5 DEF a

LEMMA StepTorn ==
  ASSUME TypeInv, TornInv, [Next]_vars
  PROVE  TornInv'
  <1> USE DEF TornInv
  <1>1. ASSUME NEW w \in Writer, NEW b \in Input, Call(w, b)
        PROVE  TornInv'
    BY <1>1 DEF Call, Open
  <1>2. ASSUME NEW w \in Writer,
               AcquireLock(w) \/ LockFails(w) \/ ReadTail(w) \/ ReadTailFails(w)
        PROVE  TornInv'
    BY <1>2 DEF AcquireLock, LockFails, ReadTail, ReadTailFails
  <1>3. ASSUME NEW w \in Writer, WriteLine(w)
        PROVE  TornInv'
    BY <1>3 DEF WriteLine
  <1>4. ASSUME NEW w \in Writer, WriteShort(w)
        PROVE  TornInv'
    <2>1. PICK l : log' = Glued(l)
      BY <1>4 DEF WriteShort
    <2>2. lost'
      BY <1>4 DEF WriteShort
    <2>3. log' # <<>>
      <3>1. IsSeq(log)
        BY DEF TypeInv, TypeOK, IsLog
      <3>2. CASE torn
        <4>1. log # <<>> /\ DOMAIN log = 1..Len(log) /\ Len(log) \in Nat
          BY <3>1, <3>2, AppendIsSeq
        <4>2. DOMAIN log' = DOMAIN log
          BY <2>1, <3>1, <3>2, ExceptIsSeq DEF Glued
        <4>3. Len(log) # 0
          BY <3>1, <4>1 DEF IsSeq
        <4>4. 1 \in DOMAIN log'
          BY <4>1, <4>2, <4>3
        <4>5. QED
          BY <4>4
      <3>3. CASE ~torn
        <4>1. DOMAIN log' = 1..(Len(log) + 1) /\ Len(log) \in Nat
          BY <2>1, <3>1, <3>3, AppendIsSeq DEF Glued
        <4>2. 1 \in DOMAIN log'
          BY <4>1
        <4>3. QED
          BY <4>2
      <3>4. QED
        BY <3>2, <3>3
    <2>4. QED
      BY <2>2, <2>3
  <1>5. ASSUME NEW w \in Writer, WriteFails(w)
        PROVE  TornInv'
    BY <1>5 DEF WriteFails
  <1>6. ASSUME NEW w \in Writer, Close(w) \/ Crash(w)
        PROVE  TornInv'
    BY <1>6 DEF Close, Crash, Release
  <1>7. CASE UNCHANGED vars
    BY <1>7 DEF vars
  <1>8. QED
    BY <1>1, <1>2, <1>3, <1>4, <1>5, <1>6, <1>7 DEF Next, Step

-----------------------------------------------------------------------------
(* A fork stays visible *)

\* What the log holds from before the chain existed comes before the chain.
LegacyFirst(lines) ==
  \A i, j \in DOMAIN lines : i < j /\ lines[i].kind = "chained" => lines[j].kind # "legacy"

\* Whether a line is a break depends on the lines up to it alone.
LEMMA BreaksAreLocal ==
  ASSUME NEW s, IsSeq(s), NEW t, IsSeq(t), NEW m \in Nat, m <= Len(s), m <= Len(t),
         \A i \in 1..m : s[i] = t[i], NEW key
  PROVE  {i \in Breaks(s, key) : i <= m} = {i \in Breaks(t, key) : i <= m}
  <1>1. /\ Len(s) \in Nat /\ DOMAIN s = 1..Len(s)
        /\ Len(t) \in Nat /\ DOMAIN t = 1..Len(t)
    BY DEF IsSeq
  <1>2. ASSUME NEW i \in 1..m
        PROVE  PrevExpected(s, i) = PrevExpected(t, i)
    <2>1. ChainedBefore(s, i) = ChainedBefore(t, i)
      BY <1>1 DEF ChainedBefore
    <2>2. CASE ChainedBefore(s, i) = {}
      BY <2>1, <2>2 DEF PrevExpected
    <2>3. CASE ChainedBefore(s, i) # {}
      <3>1. i \in DOMAIN s
        BY <1>1
      <3>2. PICK last \in ChainedBefore(s, i) :
              last = CHOOSE j \in ChainedBefore(s, i) :
                       \A k \in ChainedBefore(s, i) : k <= j
        BY <2>3, <3>1, ExpectedIsEarlier
      <3>3. last \in 1..m
        BY <1>1, <3>2 DEF ChainedBefore
      <3>4. PrevExpected(s, i) = s[last].hash /\ PrevExpected(t, i) = t[last].hash
        BY <2>1, <2>3, <3>2 DEF PrevExpected
      <3>5. QED
        BY <3>3, <3>4
    <2>4. QED
      BY <2>2, <2>3
  <1>3. ASSUME NEW i \in 1..m
        PROVE  i \in Breaks(s, key) <=> i \in Breaks(t, key)
    BY <1>1, <1>2 DEF Breaks
  <1>4. \A i : i \in Breaks(s, key) /\ i <= m => i \in 1..m
    BY <1>1 DEF Breaks
  <1>5. \A i : i \in Breaks(t, key) /\ i <= m => i \in 1..m
    BY <1>1 DEF Breaks
  <1>6. QED
    BY <1>3, <1>4, <1>5

\* What the line after a log is to name as its predecessor is what _last_hash()
\* answers, unless the last line does not parse.
LEMMA ExpectedNext ==
  ASSUME IsLog(log), LegacyFirst(log), NEW l,
         log # <<>> => log[Len(log)].kind # "junk"
  PROVE  PrevExpected(Append(log, l), Len(log) + 1) = LastHash(log)
  <1> DEFINE n == Len(log)
             a == Append(log, l)
  <1>1. IsSeq(log) /\ n \in Nat /\ DOMAIN log = 1..n /\ (log # <<>> <=> n # 0)
    BY AppendIsSeq DEF IsLog, IsSeq
  <1>2. /\ IsSeq(a) /\ DOMAIN a = 1..(n + 1)
        /\ \A i \in 1..n : a[i] = log[i]
    BY <1>1, AppendIsSeq
  <1> HIDE DEF a
  <1>3. CASE n # 0 /\ log[n].kind = "chained"
    <2>1. n \in ChainedBefore(a, n + 1) /\ \A k \in ChainedBefore(a, n + 1) : k <= n
      BY <1>1, <1>2, <1>3 DEF ChainedBefore
    <2>2. PICK j \in ChainedBefore(a, n + 1) :
            /\ \A k \in ChainedBefore(a, n + 1) : k <= j
            /\ PrevExpected(a, n + 1) = a[j].hash
      BY <1>1, <1>2, <2>1, ExpectedIsEarlier
    <2>3. j = n
      BY <1>1, <1>2, <2>1, <2>2 DEF ChainedBefore
    <2>4. PrevExpected(a, n + 1) = LastHash(log)
      BY <1>1, <1>2, <1>3, <2>2, <2>3 DEF LastHash
    <2>5. QED
      BY <2>4 DEF a
  <1>4. CASE n = 0 \/ log[n].kind = "legacy"
    <2>1. ChainedBefore(a, n + 1) = {}
      BY <1>1, <1>2, <1>4 DEF ChainedBefore, LegacyFirst
    <2>2. PrevExpected(a, n + 1) = Genesis /\ LastHash(log) = Genesis
      BY <1>1, <1>4, <2>1 DEF PrevExpected, LastHash
    <2>3. QED
      BY <2>2 DEF a
  <1>5. n # 0 => log[n].kind \in {"junk", "chained", "legacy"}
    BY <1>1 DEF IsLog, IsLine, Junk, Legacy, Chained
  <1>6. QED
    BY <1>1, <1>3, <1>4, <1>5

\* Adding a line, or spoiling the last one, mends no break.
LEMMA BreaksStay ==
  ASSUME IsLog(log), torn => log # <<>>, NEW l, Breaks(log, AuditKey) # {}
  PROVE  Breaks(Glued(l), AuditKey) # {}
  <1> DEFINE n == Len(log)
  <1>1. IsSeq(log) /\ n \in Nat /\ DOMAIN log = 1..n /\ (log # <<>> => n # 0)
    BY AppendIsSeq DEF IsLog, IsSeq
  <1>2. CASE torn
    <2>1. Glued(l) = [log EXCEPT ![n] = Junk] /\ n \in DOMAIN log
      BY <1>1, <1>2 DEF Glued
    <2>2. Glued(l)[n].kind = "junk" /\ n \in DOMAIN Glued(l)
      BY <2>1 DEF Junk
    <2>3. QED
      BY <2>2 DEF Breaks
  <1>3. CASE ~torn
    <2> DEFINE a == Append(log, l)
    <2>1. /\ Glued(l) = a /\ IsSeq(a) /\ Len(a) = n + 1
          /\ \A i \in 1..n : a[i] = log[i]
      BY <1>1, <1>3, AppendIsSeq DEF Glued
    <2> HIDE DEF a
    <2>2. PICK i \in 1..n : i \in Breaks(log, AuditKey)
      BY <1>1 DEF Breaks
    <2>3. {m \in Breaks(a, AuditKey) : m <= n} = {m \in Breaks(log, AuditKey) : m <= n}
      BY <1>1, <2>1, BreaksAreLocal
    <2>4. i \in {m \in Breaks(log, AuditKey) : m <= n}
      BY <1>1, <2>2
    <2>5. i \in Breaks(a, AuditKey)
      BY <2>3, <2>4
    <2>6. QED
      BY <2>1, <2>5
  <1>4. QED
    BY <1>2, <1>3

\* A line written over a stale tail hash is a break, or is glued into one.
LEMMA StaleBreaks ==
  ASSUME IsLog(log), torn => log # <<>>, LegacyFirst(log),
         NEW l, l = Junk \/ (l.kind = "chained" /\ l.prev # LastHash(log))
  PROVE  Breaks(Glued(l), AuditKey) # {}
  <1> DEFINE n == Len(log)
  <1>1. IsSeq(log) /\ n \in Nat /\ DOMAIN log = 1..n /\ (log # <<>> <=> n # 0)
    BY AppendIsSeq DEF IsLog, IsSeq
  <1>2. CASE torn
    <2>1. Glued(l) = [log EXCEPT ![n] = Junk] /\ n \in DOMAIN log
      BY <1>1, <1>2 DEF Glued
    <2>2. Glued(l)[n].kind = "junk" /\ n \in DOMAIN Glued(l)
      BY <2>1 DEF Junk
    <2>3. QED
      BY <2>2 DEF Breaks
  <1>3. CASE ~torn
    <2> DEFINE a == Append(log, l)
    <2>1. /\ Glued(l) = a /\ IsSeq(a) /\ DOMAIN a = 1..(n + 1)
          /\ \A i \in 1..n : a[i] = log[i]
          /\ a[n + 1] = l
      BY <1>1, <1>3, AppendIsSeq DEF Glued
    <2> HIDE DEF a
    <2>2. CASE l = Junk
      BY <2>1, <2>2 DEF Breaks, Junk
    <2>3. CASE l.kind = "chained" /\ l.prev # LastHash(log)
      <3>1. CASE n # 0 /\ log[n].kind = "junk"
        BY <2>1, <3>1, <1>1 DEF Breaks
      <3>2. CASE n = 0 \/ log[n].kind # "junk"
        <4>1. PrevExpected(a, n + 1) = LastHash(log)
          BY <1>1, <3>2, ExpectedNext DEF a
        <4>2. n + 1 \in Breaks(a, AuditKey)
          BY <4>1, <2>3, <2>1, <1>1 DEF Breaks
        <4>3. QED
          BY <4>2, <2>1
      <3>3. QED
        BY <3>1, <3>2
    <2>4. QED
      BY <2>2, <2>3
  <1>4. QED
    BY <1>2, <1>3

\* A line that is not from before the chain leaves those where they are.
LEMMA LegacyStaysFirst ==
  ASSUME IsLog(log), LegacyFirst(log), NEW l, l.kind # "legacy"
  PROVE  LegacyFirst(Glued(l))
  <1> DEFINE n == Len(log)
  <1>1. IsSeq(log) /\ n \in Nat /\ DOMAIN log = 1..n
    BY AppendIsSeq DEF IsLog
  <1>2. CASE torn
    <2>1. Glued(l) = [log EXCEPT ![n] = Junk] /\ DOMAIN Glued(l) = DOMAIN log
      BY <1>2 DEF Glued
    <2>2. \A i \in DOMAIN log : Glued(l)[i] = log[i] \/ Glued(l)[i].kind = "junk"
      BY <2>1 DEF Junk
    <2>3. QED
      BY <2>1, <2>2 DEF LegacyFirst
  <1>3. CASE ~torn
    <2>1. /\ DOMAIN Glued(l) = 1..(n + 1)
          /\ \A i \in 1..n : Glued(l)[i] = log[i]
          /\ Glued(l)[n + 1] = l
      BY <1>1, <1>3, AppendIsSeq DEF Glued
    <2>2. QED
      BY <1>1, <2>1 DEF LegacyFirst
  <1>4. QED
    BY <1>2, <1>3

ForkInv == LegacyFirst(log) /\ (forked => Breaks(log, AuditKey) # {})

LEMMA StepFork ==
  ASSUME TypeInv, TornInv, ForkInv, [Next]_vars
  PROVE  ForkInv'
  <1>1. IsLog(log) /\ (torn => log # <<>>)
    BY DEF TypeInv, TypeOK, TornInv
  <1>2. ASSUME log' = log, forked' = forked
        PROVE  ForkInv'
    BY <1>2 DEF ForkInv
  <1>3. ASSUME NEW w \in Writer, WriteLine(w) \/ WriteShort(w)
        PROVE  ForkInv'
    <2>1. PICK l : /\ log' = Glued(l) /\ forked' = (forked \/ prev[w] # LastHash(log))
                   /\ l = Junk \/ (l.kind = "chained" /\ l.prev = prev[w])
      <3> DEFINE e == NewEntry(KeyOf[w], entry[w], prev[w])
      <3>1. e.kind = "chained" /\ e.prev = prev[w]
        BY DEF NewEntry, Chained
      <3> HIDE DEF e
      <3>2. CASE WriteLine(w)
        <4>1. log' = Glued(e) /\ forked' = (forked \/ prev[w] # LastHash(log))
          BY <3>2, Zenon DEF WriteLine, e
        <4>2. QED
          BY <3>1, <4>1, Zenon
      <3>3. CASE WriteShort(w)
        <4>1. /\ \E l \in {Junk, e} : log' = Glued(l)
              /\ forked' = (forked \/ prev[w] # LastHash(log))
          BY <3>3, Zenon DEF WriteShort, e
        <4>2. PICK l \in {Junk, e} : log' = Glued(l)
          BY <4>1
        <4>3. l = Junk \/ (l.kind = "chained" /\ l.prev = prev[w])
          BY <3>1
        <4>4. QED
          BY <4>1, <4>2, <4>3, Zenon
      <3>4. QED
        BY <1>3, <3>2, <3>3
    <2>2. l.kind # "legacy"
      BY <2>1 DEF Junk
    <2>3. CASE forked
      BY <1>1, <2>1, <2>2, <2>3, BreaksStay, LegacyStaysFirst DEF ForkInv
    <2>4. CASE prev[w] # LastHash(log)
      BY <1>1, <2>1, <2>2, <2>4, StaleBreaks, LegacyStaysFirst DEF ForkInv
    <2>5. CASE ~forked /\ prev[w] = LastHash(log)
      BY <1>1, <2>1, <2>2, <2>5, LegacyStaysFirst DEF ForkInv
    <2>6. QED
      BY <2>3, <2>4, <2>5
  <1>4. CASE UNCHANGED vars
    BY <1>2, <1>4 DEF vars
  <1>5. ASSUME NEW w \in Writer, NEW b \in Input, Call(w, b)
        PROVE  ForkInv'
    BY <1>2, <1>5 DEF Call, Open
  <1>6. ASSUME NEW w \in Writer,
               AcquireLock(w) \/ LockFails(w) \/ ReadTail(w) \/ ReadTailFails(w)
        PROVE  ForkInv'
    BY <1>2, <1>6 DEF AcquireLock, LockFails, ReadTail, ReadTailFails
  <1>7. ASSUME NEW w \in Writer, WriteFails(w) \/ Close(w) \/ Crash(w)
        PROVE  ForkInv'
    BY <1>2, <1>7 DEF WriteFails, Close, Crash, Release
  <1>8. QED
    BY <1>3, <1>4, <1>5, <1>6, <1>7 DEF Next, Step

\* A line over a stale tail hash, written because the lock could not be had or the
\* tail not be read, makes verify_chain() report a break from then on, for any
\* number of processes, faults and later appends (audit.py 159, "a visible break
\* beats a lost entry").
THEOREM ForkStaysVisible ==
  ASSUME InitLogsSound
  PROVE  Spec => []ForkVisible
  <1>1. Init => TornInv /\ ForkInv
    BY DEF Init, TornInv, ForkInv, LegacyFirst, InitLogsSound, Sound
  <1>2. ForkInv => ForkVisible
    BY DEF ForkInv, ForkVisible, VerifyOk
  <1>3. TypeInv /\ TornInv /\ ForkInv /\ [Next]_vars => (TypeInv /\ TornInv /\ ForkInv)'
    BY StepTypes, StepTorn, StepFork
  <1>4. QED
    BY InitTypes, <1>1, <1>2, <1>3, PTL DEF Spec

-----------------------------------------------------------------------------
(* One fault does not spread *)

\* The breaks of a log can be counted.
LEMMA BreaksFinite ==
  ASSUME NEW s, IsSeq(s), NEW m, NEW key
  PROVE  IsFiniteSet({i \in Breaks(s, key) : i <= m}) /\ IsFiniteSet(Breaks(s, key))
  <1>1. Len(s) \in Nat /\ DOMAIN s = 1..Len(s)
    BY DEF IsSeq
  <1>2. IsFiniteSet(1..Len(s))
    BY <1>1, FS_Interval
  <1>3. /\ Breaks(s, key) \subseteq 1..Len(s)
        /\ {i \in Breaks(s, key) : i <= m} \subseteq 1..Len(s)
    BY <1>1 DEF Breaks
  <1>4. QED
    BY <1>2, <1>3, FS_Subset

\* A write settles the line it completes and no other, and breaks at most that one:
\* none, when a whole line naming what is expected of it follows a readable one.
LEMMA GluedSettles ==
  ASSUME TypeInv, TornInv, LegacyFirst(log), NEW l, log' = Glued(l), torn' \in BOOLEAN
  PROVE  /\ IsFiniteSet(SettledBreaks) /\ IsFiniteSet(SettledBreaks')
         /\ Cardinality(SettledBreaks)' <= Cardinality(SettledBreaks) + IF torn' THEN 0 ELSE 1
         /\ /\ ~torn /\ ~torn'
            /\ log # <<>> => log[Len(log)].kind # "junk"
            /\ l.kind = "chained" /\ HashMatches(AuditKey, l) /\ l.prev = LastHash(log)
            => Cardinality(SettledBreaks)' = Cardinality(SettledBreaks)
  <1> DEFINE top == Len(log)
             B == SettledBreaks
  <1>1. /\ IsLog(log) /\ IsSeq(log) /\ top \in Nat /\ DOMAIN log = 1..top
        /\ torn \in BOOLEAN /\ (torn => top # 0)
    BY AppendIsSeq DEF TypeInv, TypeOK, IsLog, TornInv, IsSeq
  <1>2. /\ IsSeq(log')
        /\ Len(log') = IF torn THEN top ELSE top + 1
        /\ Final \in Nat /\ Final <= top /\ Final <= Len(log')
        /\ \A i \in 1..Final : log'[i] = log[i]
    <2>1. CASE torn
      <3>1. log' = [log EXCEPT ![top] = Junk]
        BY <2>1 DEF Glued
      <3>2. IsSeq(log') /\ Len(log') = top
        <4>1. /\ IsSeq([log EXCEPT ![top] = Junk])
              /\ Len([log EXCEPT ![top] = Junk]) = top
          BY <1>1, ExceptIsSeq, Zenon
        <4>2. QED
          BY <3>1, <4>1, Zenon
      <3>3. Final = top - 1 /\ top - 1 \in Nat
        BY <1>1, <2>1 DEF Final
      <3>4. \A i \in 1..top - 1 : log'[i] = log[i]
        <4>1. ASSUME NEW i \in 1..top - 1
              PROVE  i \in DOMAIN log /\ i # top
          <5>1. top \in Nat /\ DOMAIN log = 1..top
            BY <1>1
          <5> HIDE DEF top
          <5>2. QED
            BY <5>1
        <4>2. QED
          BY <3>1, <4>1
      <3>5. QED
        BY <1>1, <2>1, <3>2, <3>3, <3>4
    <2>2. CASE ~torn
      <3>1. log' = Append(log, l) /\ Final = top
        BY <2>2 DEF Glued, Final
      <3>2. QED
        BY <1>1, <2>2, <3>1, AppendIsSeq
    <2>3. QED
      BY <2>1, <2>2
  <1>3. Final' = IF torn' THEN Final ELSE Final + 1
    BY <1>1, <1>2 DEF Final
  <1>4. IsFiniteSet(B) /\ Cardinality(B) \in Nat
    BY <1>1, BreaksFinite, FS_CardinalityType DEF SettledBreaks
  <1>5. {i \in Breaks(log', AuditKey) : i <= Final} = B
    BY <1>1, <1>2, BreaksAreLocal DEF SettledBreaks
  <1>6. SettledBreaks' = {i \in Breaks(log', AuditKey) : i <= Final'}
    BY DEF SettledBreaks
  <1>7. \A i \in Breaks(log', AuditKey) : i \in Nat
    BY <1>2 DEF Breaks, IsSeq
  <1>8. CASE torn'
    BY <1>3, <1>4, <1>5, <1>6, <1>8
  <1>9. CASE ~torn'
    <2> DEFINE m == Final + 1
    <2>1. Final' = m /\ \A i \in Nat : i <= m <=> (i <= Final \/ i = m)
      BY <1>2, <1>3, <1>9
    <2>2. SettledBreaks' = B \/ SettledBreaks' = B \cup {m}
      BY <1>5, <1>6, <1>7, <2>1
    <2>3. IsFiniteSet(SettledBreaks') /\ Cardinality(SettledBreaks') <= Cardinality(B) + 1
      <3>1. IsFiniteSet(B \cup {m}) /\ Cardinality(B \cup {m}) <= Cardinality(B) + 1
        <4>1. Cardinality(B \cup {m}) = IF m \in B THEN Cardinality(B) ELSE Cardinality(B) + 1
          BY <1>4, FS_AddElement
        <4>2. QED
          BY <1>4, <4>1, FS_AddElement
      <3>2. QED
        BY <1>4, <2>2, <3>1
    <2>4. ASSUME ~torn, log # <<>> => log[Len(log)].kind # "junk",
                 l.kind = "chained", HashMatches(AuditKey, l), l.prev = LastHash(log)
          PROVE  SettledBreaks' = B
      <3>1. log' = Append(log, l) /\ m = top + 1
        BY <2>4 DEF Glued, Final
      <3>2. log'[m] = l /\ PrevExpected(log', m) = l.prev
        BY <1>1, <2>4, <3>1, ExpectedNext, AppendIsSeq
      <3>3. m \notin Breaks(log', AuditKey)
        BY <2>4, <3>2 DEF Breaks
      <3>4. QED
        BY <1>5, <1>6, <1>7, <2>1, <3>3
    <2>5. QED
      BY <1>4, <1>9, <2>3, <2>4
  <1>10. QED
    BY <1>1, <1>8, <1>9

CascadeIInv == IsFiniteSet(Unlocked) /\ CascadeInv

\* The terms of CascadeInv.
Settled == Cardinality(SettledBreaks)
HolderDebt == IF StaleHolder THEN 1 ELSE 0
UnlockedCount == Cardinality(Unlocked)

\* One element more or less changes the size of a set by at most one.
LEMMA OneMoreOrLess ==
  ASSUME NEW S, IsFiniteSet(S), NEW x
  PROVE  /\ IsFiniteSet(S \cup {x}) /\ IsFiniteSet(S \ {x})
         /\ Cardinality(S) \in Nat
         /\ Cardinality(S \cup {x}) \in Nat /\ Cardinality(S \cup {x}) <= Cardinality(S) + 1
         /\ Cardinality(S \ {x}) \in Nat /\ Cardinality(S \ {x}) <= Cardinality(S)
         /\ x \in S => Cardinality(S \ {x}) = Cardinality(S) - 1
  <1>1. Cardinality(S) \in Nat
    BY FS_CardinalityType
  <1>2. /\ IsFiniteSet(S \cup {x})
        /\ Cardinality(S \cup {x}) = IF x \in S THEN Cardinality(S) ELSE Cardinality(S) + 1
    BY FS_AddElement
  <1>3. /\ IsFiniteSet(S \ {x})
        /\ Cardinality(S \ {x}) = IF x \in S THEN Cardinality(S) - 1 ELSE Cardinality(S)
    BY FS_RemoveElement
  <1>4. Cardinality(S \ {x}) \in Nat
    BY <1>3, FS_CardinalityType
  <1>5. QED
    BY <1>1, <1>2, <1>3, <1>4

\* How a step changes who is without the lock.
LEMMA StepUnlocked ==
  ASSUME TypeInv, LockInv, NEW w \in Writer
  PROVE  /\ AcquireLock(w) \/ ReadTail(w) \/ ReadTailFails(w) => Unlocked' = Unlocked
         /\ \A b \in Input : Call(w, b) => Unlocked' = Unlocked
         /\ LockFails(w) => Unlocked' = Unlocked \cup {w}
         /\ WriteLine(w) \/ WriteShort(w) \/ WriteFails(w) \/ Close(w) \/ Crash(w)
              => Unlocked' = Unlocked \ {w}
         /\ pc[w] = "write" /\ ~locked[w] => w \in Unlocked
  <1> USE DEF TypeInv, TypeOK, LockInv, Unlocked
  <1>1. AcquireLock(w) => Unlocked' = Unlocked
    BY DEF AcquireLock
  <1>2. ReadTail(w) \/ ReadTailFails(w) => Unlocked' = Unlocked
    BY DEF ReadTail, ReadTailFails
  <1>3. \A b \in Input : Call(w, b) => Unlocked' = Unlocked
    BY DEF Call, Open
  <1>4. LockFails(w) => Unlocked' = Unlocked \cup {w}
    BY DEF LockFails
  <1>5. WriteLine(w) \/ WriteShort(w) \/ WriteFails(w) => Unlocked' = Unlocked \ {w}
    BY DEF WriteLine, WriteShort, WriteFails
  <1>6. Close(w) \/ Crash(w) => Unlocked' = Unlocked \ {w}
    BY DEF Close, Crash, Release
  <1>7. pc[w] = "write" /\ ~locked[w] => w \in Unlocked
    OBVIOUS
  <1>8. QED
    BY <1>1, <1>2, <1>3, <1>4, <1>5, <1>6, <1>7

\* Only a failed read of the tail, or a write of another process, overtakes the
\* process that has the lock; its own write does not leave it overtaken.
LEMMA StepStaleHolder ==
  ASSUME TypeInv, LockInv, NEW w \in Writer
  PROVE  /\ AcquireLock(w) \/ LockFails(w) \/ ReadTail(w) => (StaleHolder' => StaleHolder)
         /\ \A b \in Input : Call(w, b) => (StaleHolder' => StaleHolder)
         /\ WriteFails(w) \/ Close(w) \/ Crash(w) => (StaleHolder' => StaleHolder)
         /\ (WriteLine(w) \/ WriteShort(w)) /\ locked[w] => ~StaleHolder'
  <1> USE DEF TypeInv, TypeOK, LockInv, StaleHolder
  <1>1. AcquireLock(w) => (StaleHolder' => StaleHolder)
    BY DEF AcquireLock
  <1>2. LockFails(w) => (StaleHolder' => StaleHolder)
    BY DEF LockFails
  <1>3. ReadTail(w) => (StaleHolder' => StaleHolder)
    BY DEF ReadTail
  <1>4. \A b \in Input : Call(w, b) => (StaleHolder' => StaleHolder)
    BY DEF Call, Open
  <1>5. WriteFails(w) => (StaleHolder' => StaleHolder)
    BY DEF WriteFails
  <1>6. Close(w) \/ Crash(w) => (StaleHolder' => StaleHolder)
    BY DEF Close, Crash, Release
  <1>7. ASSUME WriteLine(w) \/ WriteShort(w), locked[w], NEW v \in Writer,
               locked'[v], pc'[v] = "write"
        PROVE  FALSE
    BY <1>7 DEF WriteLine, WriteShort
  <1>8. (WriteLine(w) \/ WriteShort(w)) /\ locked[w] => ~StaleHolder'
    BY <1>7
  <1>9. QED
    BY <1>1, <1>2, <1>3, <1>4, <1>5, <1>6, <1>8

\* The line a write completes, and the debt of the tail it leaves.
LEMMA WriteCosts ==
  ASSUME TypeInv, TornInv, LegacyFirst(log), NEW w \in Writer
  PROVE  /\ WriteLine(w) =>
              /\ Cardinality(SettledBreaks)' <= Cardinality(SettledBreaks) + 1
              /\ TailDebt' = IF torn THEN 1 ELSE 0
              /\ /\ ~torn /\ KeyOf[w] = AuditKey /\ prev[w] = LastHash(log)
                 /\ TailDebt = 0
                 => Cardinality(SettledBreaks)' = Cardinality(SettledBreaks)
         /\ WriteShort(w) =>
              /\ Cardinality(SettledBreaks)' <= Cardinality(SettledBreaks)
              /\ TailDebt' = 2
         /\ WriteLine(w) \/ WriteShort(w) => Cardinality(SettledBreaks)' \in Nat
  <1>1. /\ IsLog(log) /\ Len(log) \in Nat /\ DOMAIN log = 1..Len(log)
        /\ torn => log # <<>> /\ Len(log) \in DOMAIN log
    BY AppendIsSeq DEF TypeInv, TypeOK, IsLog, TornInv, IsSeq
  <1>2. ASSUME WriteLine(w)
        PROVE  /\ Cardinality(SettledBreaks)' <= Cardinality(SettledBreaks) + 1
               /\ TailDebt' = IF torn THEN 1 ELSE 0
               /\ /\ ~torn /\ KeyOf[w] = AuditKey /\ prev[w] = LastHash(log)
                  /\ TailDebt = 0
                  => Cardinality(SettledBreaks)' = Cardinality(SettledBreaks)
               /\ Cardinality(SettledBreaks)' \in Nat
    <2> DEFINE e == NewEntry(KeyOf[w], entry[w], prev[w])
    <2>1. log' = Glued(e) /\ torn' = FALSE
      BY <1>2 DEF WriteLine
    <2>2. /\ e.kind = "chained" /\ e.prev = prev[w]
          /\ KeyOf[w] = AuditKey => HashMatches(AuditKey, e)
      BY DEF NewEntry, Chained, HashMatches
    <2> HIDE DEF e
    <2>3. TailDebt = 0 => (log # <<>> => log[Len(log)].kind # "junk")
      BY DEF TailDebt
    <2>4. TailDebt' = IF torn THEN 1 ELSE 0
      <3>1. CASE torn
        <4>1. log' = [log EXCEPT ![Len(log)] = Junk]
          BY <2>1, <3>1 DEF Glued
        <4>2. Len(log') = Len(log)
          <5>1. Len([log EXCEPT ![Len(log)] = Junk]) = Len(log)
            BY <1>1, ExceptIsSeq, Zenon DEF IsLog
          <5>2. QED
            BY <4>1, <5>1
        <4>3. log'[Len(log)].kind = "junk" /\ log' # <<>>
          <5>1. Len(log) \in DOMAIN log'
            BY <1>1, <3>1, <4>1
          <5>2. QED
            BY <1>1, <3>1, <4>1, <5>1 DEF Junk
        <4>4. QED
          BY <2>1, <3>1, <4>2, <4>3 DEF TailDebt
      <3>2. CASE ~torn
        <4>1. Len(log') = Len(log) + 1 /\ log'[Len(log) + 1] = e
          BY <1>1, <2>1, <3>2, AppendIsSeq DEF Glued, IsLog
        <4>2. QED
          BY <2>1, <2>2, <3>2, <4>1 DEF TailDebt
      <3>3. QED
        BY <3>1, <3>2
    <2>5. /\ IsFiniteSet(SettledBreaks')
          /\ Cardinality(SettledBreaks)' <= Cardinality(SettledBreaks) + 1
          /\ /\ ~torn
             /\ log # <<>> => log[Len(log)].kind # "junk"
             /\ HashMatches(AuditKey, e) /\ e.prev = LastHash(log)
             => Cardinality(SettledBreaks)' = Cardinality(SettledBreaks)
      BY <2>1, <2>2, GluedSettles
    <2>6. QED
      BY <2>2, <2>3, <2>4, <2>5, FS_CardinalityType
  <1>3. ASSUME WriteShort(w)
        PROVE  /\ Cardinality(SettledBreaks)' <= Cardinality(SettledBreaks)
               /\ TailDebt' = 2
               /\ Cardinality(SettledBreaks)' \in Nat
    <2>1. torn' = TRUE
      BY <1>3 DEF WriteShort
    <2>2. PICK l : log' = Glued(l)
      BY <1>3 DEF WriteShort
    <2>3. /\ IsFiniteSet(SettledBreaks) /\ IsFiniteSet(SettledBreaks')
          /\ Cardinality(SettledBreaks)' <= Cardinality(SettledBreaks) + 0
      BY <2>1, <2>2, GluedSettles
    <2>4. QED
      BY <2>1, <2>3, FS_CardinalityType DEF TailDebt
  <1>4. QED
    BY <1>2, <1>3

\* The arithmetic of the steps: b settled breaks, t owed by the tail, h by an
\* overtaken holder of the lock, u processes without it, d faults; then the same
\* after a step that wrote nothing, a short write, and the write of a line.
Covered(b, t, h, u, d) ==
  /\ b \in Nat /\ t \in Nat /\ h \in 0..1 /\ u \in Nat /\ d \in Nat
  /\ b + t + h + 2 * u <= 2 * d

Charged(b, t, h, u, d, b1, t1, h1, u1, d1) ==
  /\ b1 \in Nat /\ t1 \in Nat /\ h1 \in 0..1 /\ u1 \in Nat /\ d1 \in Nat
  /\ \/ /\ b1 = b /\ t1 = t
        /\ \/ h1 <= h /\ u1 <= u /\ d1 = d
           \/ h1 <= h /\ u1 <= u + 1 /\ d1 = d + 1
           \/ u1 = u /\ d1 = d + 1
     \/ b1 <= b /\ t1 = 2 /\ d1 = d + 1 /\ (u1 = u - 1 \/ (h1 = 0 /\ u1 <= u))
     \/ /\ b1 <= b + 1 /\ (t1 = 0 \/ (t1 = 1 /\ t = 2)) /\ (d1 = d \/ d1 = d + 1)
        /\ \/ u1 = u - 1
           \/ h1 = 0 /\ u1 <= u /\ (b1 = b \/ t # 0 \/ h # 0 \/ d1 = d + 1)

LEMMA CascadeSum ==
  ASSUME NEW b, NEW t, NEW h, NEW u, NEW d, NEW b1, NEW t1, NEW h1, NEW u1, NEW d1,
         Covered(b, t, h, u, d), Charged(b, t, h, u, d, b1, t1, h1, u1, d1)
  PROVE  Covered(b1, t1, h1, u1, d1)
  BY DEF Covered, Charged

LEMMA StepCascade ==
  ASSUME TypeInv, LockInv, TornInv, LegacyFirst(log), CascadeIInv, [Next]_vars
  PROVE  CascadeIInv'
  <1> DEFINE Cost == Charged(Settled, TailDebt, HolderDebt, UnlockedCount, damage,
                             Settled', TailDebt', HolderDebt', UnlockedCount', damage')
  <1>1. /\ Settled \in Nat /\ UnlockedCount \in Nat /\ HolderDebt \in 0..1
        /\ TailDebt \in 0..2 /\ damage \in Nat /\ IsFiniteSet(Unlocked)
        /\ Covered(Settled, TailDebt, HolderDebt, UnlockedCount, damage)
    <2>1. IsFiniteSet(SettledBreaks)
      BY BreaksFinite DEF TypeInv, TypeOK, IsLog, SettledBreaks
    <2>2. IsFiniteSet(Unlocked) /\ CascadeInv /\ damage \in Nat
      BY DEF CascadeIInv, TypeInv, TypeOK
    <2>3. Settled \in Nat /\ UnlockedCount \in Nat
      BY <2>1, <2>2, OneMoreOrLess DEF Settled, UnlockedCount
    <2>4. TailDebt \in 0..2 /\ HolderDebt \in 0..1
      BY DEF TailDebt, HolderDebt
    <2>5. Covered(Settled, TailDebt, HolderDebt, UnlockedCount, damage)
      BY <2>2, <2>3, <2>4 DEF CascadeInv, Covered, Settled, HolderDebt, UnlockedCount
    <2>6. QED
      BY <2>2, <2>3, <2>4, <2>5
  <1>2. TailDebt' \in Nat /\ HolderDebt' \in 0..1 /\ damage' \in Nat
    <2>1. damage' \in Nat
      BY StepTypes DEF TypeInv, TypeOK
    <2>2. QED
      BY <2>1 DEF TailDebt, HolderDebt
  <1>3. HolderDebt' <= HolderDebt \/ (StaleHolder' /\ ~StaleHolder)
    BY DEF HolderDebt
  <1>4. log' = log /\ torn' = torn => Settled' = Settled /\ TailDebt' = TailDebt
    BY DEF Settled, SettledBreaks, Final, TailDebt
  <1>5. /\ Unlocked' = Unlocked => UnlockedCount' = UnlockedCount /\ IsFiniteSet(Unlocked')
        /\ \A w : Unlocked' = Unlocked \cup {w} =>
             /\ UnlockedCount' \in Nat /\ UnlockedCount' <= UnlockedCount + 1
             /\ IsFiniteSet(Unlocked')
        /\ \A w : Unlocked' = Unlocked \ {w} =>
             /\ UnlockedCount' \in Nat /\ UnlockedCount' <= UnlockedCount
             /\ IsFiniteSet(Unlocked')
             /\ w \in Unlocked => UnlockedCount' = UnlockedCount - 1
    BY <1>1, OneMoreOrLess DEF UnlockedCount
  <1>6. ASSUME Cost, IsFiniteSet(Unlocked')
        PROVE  CascadeIInv'
    <2>1. Covered(Settled', TailDebt', HolderDebt', UnlockedCount', damage')
      BY <1>1, <1>6, CascadeSum
    <2>2. QED
      BY <1>6, <2>1
      DEF CascadeIInv, CascadeInv, Covered, Settled, HolderDebt, UnlockedCount
  <1>7. ASSUME NEW w \in Writer,
               (\E b \in Input : Call(w, b)) \/ AcquireLock(w) \/ ReadTail(w)
        PROVE  CascadeIInv'
    <2>1. log' = log /\ torn' = torn /\ damage' = damage
      BY <1>7 DEF Call, Open, AcquireLock, ReadTail
    <2>2. Unlocked' = Unlocked /\ (StaleHolder' => StaleHolder)
      BY <1>7, StepUnlocked, StepStaleHolder
    <2>3. Cost
      BY <1>1, <1>2, <1>3, <1>4, <1>5, <2>1, <2>2 DEF Charged
    <2>4. QED
      BY <1>1, <1>4, <1>5, <1>6, <2>1, <2>2, <2>3
  <1>8. ASSUME NEW w \in Writer, LockFails(w)
        PROVE  CascadeIInv'
    <2>1. log' = log /\ torn' = torn /\ damage' = damage + 1
      BY <1>8 DEF LockFails
    <2>2. Unlocked' = Unlocked \cup {w} /\ (StaleHolder' => StaleHolder)
      BY <1>8, StepUnlocked, StepStaleHolder
    <2>3. /\ UnlockedCount' \in Nat /\ UnlockedCount' <= UnlockedCount + 1
          /\ IsFiniteSet(Unlocked')
      BY <1>5, <2>2
    <2>4. Cost
      BY <1>1, <1>2, <1>3, <1>4, <2>1, <2>2, <2>3 DEF Charged
    <2>5. QED
      BY <1>1, <1>4, <1>6, <2>1, <2>3, <2>4
  <1>9. ASSUME NEW w \in Writer, ReadTailFails(w)
        PROVE  CascadeIInv'
    <2>1. log' = log /\ torn' = torn /\ damage' = damage + 1
      BY <1>9 DEF ReadTailFails
    <2>2. Unlocked' = Unlocked
      BY <1>9, StepUnlocked
    <2>3. Cost
      BY <1>1, <1>2, <1>4, <1>5, <2>1, <2>2 DEF Charged
    <2>4. QED
      BY <1>1, <1>4, <1>5, <1>6, <2>1, <2>2, <2>3
  <1>10. ASSUME NEW w \in Writer,
                WriteLine(w) \/ WriteShort(w) \/ WriteFails(w) \/ Close(w) \/ Crash(w)
         PROVE  /\ UnlockedCount' \in Nat /\ UnlockedCount' <= UnlockedCount
                /\ IsFiniteSet(Unlocked')
                /\ w \in Unlocked => UnlockedCount' = UnlockedCount - 1
    BY <1>5, <1>10, StepUnlocked
  <1>11. ASSUME NEW w \in Writer, WriteLine(w) \/ WriteShort(w)
         PROVE  UnlockedCount' = UnlockedCount - 1 \/ (locked[w] /\ HolderDebt' = 0)
    <2>1. CASE locked[w]
      BY <1>11, <2>1, StepStaleHolder DEF HolderDebt
    <2>2. CASE ~locked[w]
      <3>1. w \in Unlocked
        BY <1>11, <2>2, StepUnlocked DEF WriteLine, WriteShort
      <3>2. QED
        BY <1>10, <1>11, <3>1
    <2>3. QED
      BY <2>1, <2>2
  <1>12. ASSUME NEW w \in Writer, WriteLine(w)
         PROVE  CascadeIInv'
    <2>1. /\ Settled' \in Nat /\ Settled' <= Settled + 1
          /\ TailDebt' = 0 \/ (TailDebt' = 1 /\ TailDebt = 2)
      BY <1>12, WriteCosts DEF Settled, TailDebt
    <2>2. damage' = damage \/ damage' = damage + 1
      BY <1>12 DEF WriteLine
    <2>3. ASSUME locked[w]
          PROVE  Settled' = Settled \/ TailDebt # 0 \/ HolderDebt # 0 \/ damage' = damage + 1
      <3> SUFFICES ASSUME TailDebt = 0, HolderDebt = 0, damage' # damage + 1
                   PROVE  Settled' = Settled
        OBVIOUS
      <3>1. prev[w] = LastHash(log)
        BY <1>12, <2>3 DEF WriteLine, HolderDebt, StaleHolder
      <3>2. KeyOf[w] = AuditKey
        BY <1>12 DEF WriteLine
      <3>3. ~torn
        BY DEF TailDebt
      <3>4. QED
        BY <1>12, <3>1, <3>2, <3>3, WriteCosts DEF Settled
    <2>4. Cost
      BY <1>10, <1>11, <1>12, <1>2, <2>1, <2>2, <2>3 DEF Charged
    <2>5. QED
      BY <1>6, <1>10, <1>12, <2>1, <2>4
  <1>13. ASSUME NEW w \in Writer, WriteShort(w)
         PROVE  CascadeIInv'
    <2>1. Settled' \in Nat /\ Settled' <= Settled /\ TailDebt' = 2
      BY <1>13, WriteCosts DEF Settled
    <2>2. damage' = damage + 1
      BY <1>13 DEF WriteShort
    <2>3. Cost
      BY <1>2, <1>10, <1>11, <1>13, <2>1, <2>2 DEF Charged
    <2>4. QED
      BY <1>6, <1>10, <1>13, <2>1, <2>3
  <1>14. ASSUME NEW w \in Writer, WriteFails(w) \/ Close(w) \/ Crash(w)
         PROVE  CascadeIInv'
    <2>1. log' = log /\ torn' = torn /\ damage' = damage
      BY <1>14 DEF WriteFails, Close, Crash, Release
    <2>2. StaleHolder' => StaleHolder
      BY <1>14, StepStaleHolder
    <2>3. Cost
      BY <1>1, <1>2, <1>3, <1>4, <1>10, <1>14, <2>1, <2>2 DEF Charged
    <2>4. QED
      BY <1>1, <1>4, <1>6, <1>10, <1>14, <2>1, <2>3
  <1>15. CASE UNCHANGED vars
    BY <1>15 DEF vars, CascadeIInv, CascadeInv, SettledBreaks, Final, TailDebt,
                 StaleHolder, Unlocked
  <1>16. QED
    BY <1>7, <1>8, <1>9, <1>12, <1>13, <1>14, <1>15 DEF Next, Step

LEMMA CascadeInvHolds ==
  ASSUME InitLogsSound
  PROVE  Spec => [](TypeInv /\ CascadeIInv)
  <1> DEFINE IInv == TypeInv /\ LockInv /\ TornInv /\ ForkInv /\ CascadeIInv
  <1>1. ASSUME Init
        PROVE  IInv
    <2>1. Sound(log) /\ IsSeq(log)
      BY <1>1, InitTypes DEF Init, InitLogsSound, TypeInv, TypeOK, IsLog
    <2>2. LockInv /\ TornInv /\ ForkInv
      BY <1>1, <2>1 DEF Init, LockInv, TornInv, ForkInv, LegacyFirst, Sound
    <2>3. SettledBreaks = {}
      BY <2>1, SoundVerifies DEF SettledBreaks, VerifyOk
    <2>4. TailDebt = 0
      <3>1. log # <<>> => Len(log) \in DOMAIN log
        BY <2>1 DEF IsSeq
      <3>2. QED
        BY <1>1, <2>1, <3>1 DEF Init, TailDebt, Sound
    <2>5. Unlocked = {} /\ ~StaleHolder
      BY <1>1 DEF Init, Unlocked, StaleHolder
    <2>6. damage = 0
      BY <1>1 DEF Init
    <2>7. CascadeIInv
      BY <2>3, <2>4, <2>5, <2>6, FS_EmptySet DEF CascadeIInv, CascadeInv
    <2>8. QED
      BY <1>1, <2>2, <2>7, InitTypes
  <1>2. IInv /\ [Next]_vars => IInv'
    BY StepTypes, StepLock, StepTorn, StepFork, StepCascade DEF ForkInv
  <1>3. IInv => TypeInv /\ CascadeIInv
    OBVIOUS
  <1> HIDE DEF IInv
  <1>4. QED
    BY <1>1, <1>2, <1>3, PTL DEF Spec

\* The invariant behind NoCascade: the two breaks a fault may cost are in the log,
\* or still owed by its tail, by a process writing without the lock or by the one it
\* overtakes.
THEOREM CascadeBounded ==
  ASSUME InitLogsSound
  PROVE  Spec => []CascadeInv
  <1>1. CascadeIInv => CascadeInv
    BY DEF CascadeIInv
  <1>2. QED
    BY <1>1, CascadeInvHolds, PTL

\* A fault never breaks more than two lines, for any number of processes, faults and
\* later appends: an append without the lock, a failed read of the tail, a write cut
\* short or a line under another key does not make the lines after it unverifiable.
THEOREM FaultsDoNotCascade ==
  ASSUME InitLogsSound
  PROVE  Spec => []NoCascade
  <1>1. TypeInv /\ CascadeIInv => NoCascade
    <2> SUFFICES ASSUME TypeInv, CascadeIInv
                 PROVE  NoCascade
      OBVIOUS
    <2>1. IsSeq(log) /\ Len(log) \in Nat /\ DOMAIN log = 1..Len(log) /\ damage \in Nat
      BY AppendIsSeq DEF TypeInv, TypeOK, IsLog
    <2>2. IsFiniteSet(SettledBreaks) /\ Cardinality(SettledBreaks) \in Nat
      BY <2>1, BreaksFinite, FS_CardinalityType DEF SettledBreaks
    <2>3. Cardinality(Unlocked) \in Nat
      BY FS_CardinalityType DEF CascadeIInv
    <2>4. IsFiniteSet(Breaks(log, AuditKey)) /\ Cardinality(Breaks(log, AuditKey)) \in Nat
      BY <2>1, BreaksFinite, FS_CardinalityType
    <2>5. CASE ~torn
      <3>1. SettledBreaks = Breaks(log, AuditKey)
        BY <2>1, <2>5 DEF SettledBreaks, Final, Breaks
      <3>2. QED
        BY <2>1, <2>2, <2>3, <2>5, <3>1 DEF CascadeIInv, CascadeInv, NoCascade, TailDebt
    <2>6. CASE torn
      <3>1. Breaks(log, AuditKey) \subseteq SettledBreaks \cup {Len(log)}
        BY <2>1, <2>6 DEF SettledBreaks, Final, Breaks
      <3>2. /\ IsFiniteSet(SettledBreaks \cup {Len(log)})
            /\ Cardinality(SettledBreaks \cup {Len(log)}) \in Nat
            /\ Cardinality(SettledBreaks \cup {Len(log)}) <= Cardinality(SettledBreaks) + 1
        BY <2>2, OneMoreOrLess
      <3>3. Cardinality(Breaks(log, AuditKey)) <= Cardinality(SettledBreaks \cup {Len(log)})
        BY <3>1, <3>2, FS_Subset
      <3>4. QED
        BY <2>1, <2>2, <2>3, <2>4, <2>6, <3>2, <3>3
        DEF CascadeIInv, CascadeInv, NoCascade, TailDebt
    <2>7. QED
      BY <2>5, <2>6
  <1>2. QED
    BY <1>1, CascadeInvHolds, PTL

-----------------------------------------------------------------------------
(* AuditLog implements AuditTrail: what a write adds *)

\* What a write adds to the record: a whole line its text, or nothing readable
\* when it is glued to a torn line; a line cut short nothing.
LEMMA GluedOnRecord ==
  ASSUME TypeInv, TornInv, NEW l, log' = Glued(l)
  PROVE  /\ ~torn /\ torn' = FALSE => OnRecord' = Append(OnRecord, l.body)
         /\ torn /\ torn' = FALSE => OnRecord' = Append(OnRecord, NoBody)
         /\ torn' = TRUE => OnRecord' = OnRecord
  <1> DEFINE n == Len(log)
  <1>1. IsSeq(log) /\ n \in Nat /\ DOMAIN log = 1..n
    BY AppendIsSeq DEF TypeInv, TypeOK, IsLog
  <1>2. CASE ~torn
    <2>1. OnRecord = [i \in 1..n |-> log[i].body]
      BY <1>2 DEF OnRecord
    <2>2. /\ Len(log') = n + 1
          /\ \A i \in 1..n : log'[i] = log[i]
          /\ log'[n + 1] = l
      BY <1>1, <1>2, AppendIsSeq DEF Glued
    <2>3. ASSUME torn' = FALSE
          PROVE  OnRecord' = Append(OnRecord, l.body)
      <3>1. OnRecord' = [i \in 1..n + 1 |-> log'[i].body]
        BY <2>2, <2>3 DEF OnRecord
      <3>2. Append(OnRecord, l.body) =
              [i \in 1..n + 1 |-> IF i = n + 1 THEN l.body ELSE log[i].body]
        BY <1>1, <2>1, BodiesAppend
      <3>3. \A i \in 1..n + 1 :
              log'[i].body = IF i = n + 1 THEN l.body ELSE log[i].body
        BY <1>1, <2>2
      <3>4. QED
        BY <3>1, <3>2, <3>3
    <2>4. ASSUME torn' = TRUE
          PROVE  OnRecord' = OnRecord
      <3>1. OnRecord' = [i \in 1..n |-> log'[i].body]
        BY <1>1, <2>2, <2>4 DEF OnRecord
      <3>2. QED
        BY <2>1, <2>2, <3>1
    <2>5. QED
      BY <1>2, <2>3, <2>4
  <1>3. CASE torn
    <2>1. n >= 1
      <3>1. n # 0
        BY <1>1, <1>3 DEF TornInv, IsSeq
      <3>2. QED
        BY <1>1, <3>1
    <2>2. PICK m \in Nat : Len(log) = m + 1 /\ Len(log) - 1 = m
      <3>1. n - 1 \in Nat /\ n = (n - 1) + 1
        BY <1>1, <2>1
      <3>2. QED
        BY <3>1
    <2>3. OnRecord = [i \in 1..m |-> log[i].body]
      <3>1. (IF torn THEN Len(log) - 1 ELSE Len(log)) = m
        BY <1>3, <2>2
      <3>2. QED
        BY <3>1 DEF OnRecord
    <2>4. log' = [log EXCEPT ![Len(log)] = Junk]
      BY <1>3 DEF Glued
    <2>6. Len(log') = n
      BY <1>1, <2>4, ExceptIsSeq, Zenon
    <2>7. \A i \in 1..n : log'[i] = IF i = n THEN Junk ELSE log[i]
      BY <1>1, <2>4
    <2>8. ASSUME torn' = FALSE
          PROVE  OnRecord' = Append(OnRecord, NoBody)
      <3>1. OnRecord' = [i \in 1..n |-> log'[i].body]
        BY <2>6, <2>8 DEF OnRecord
      <3>2. Append(OnRecord, NoBody) =
              [i \in 1..m + 1 |-> IF i = m + 1 THEN NoBody ELSE log[i].body]
        BY <2>2, <2>3, BodiesAppend
      <3>3. \A i \in 1..n : log'[i].body = IF i = n THEN NoBody ELSE log[i].body
        BY <2>7 DEF Junk
      <3>4. QED
        BY <2>2, <3>1, <3>2, <3>3
    <2>9. ASSUME torn' = TRUE
          PROVE  OnRecord' = OnRecord
      <3>1. OnRecord' = [i \in 1..m |-> log'[i].body]
        BY <2>2, <2>6, <2>9 DEF OnRecord
      <3>2. \A i \in 1..m : log'[i] = log[i]
        BY <1>1, <2>2, <2>7
      <3>3. QED
        BY <2>3, <3>1, <3>2
    <2>10. QED
      BY <1>3, <2>8, <2>9
  <1>4. QED
    BY <1>2, <1>3

\* Every step of append() is a step of the trail or changes nothing of it.
LEMMA StepTrail ==
  ASSUME TypeInv, TornInv, [Next]_vars
  PROVE  [Trail!TrailNext]_(Trail!trailVars)
  <1> USE DEF TypeInv, TypeOK
  <1>1. ASSUME NEW w \in Writer, NEW b \in Input, Call(w, b)
        PROVE  Trail!Begin(w, Mask[b])
    <2>1. Phase[w] = "idle" /\ Phase' = [Phase EXCEPT ![w] = "pending"]
      BY <1>1 DEF Call, Open, Phase
    <2>2. OnRecord' = OnRecord
      BY <1>1 DEF Call, Open, OnRecord
    <2>3. QED
      BY <1>1, <2>1, <2>2 DEF Call, Open, Trail!Begin
  <1>2. ASSUME NEW w \in Writer,
               AcquireLock(w) \/ LockFails(w) \/ ReadTail(w) \/ ReadTailFails(w)
        PROVE  UNCHANGED Trail!trailVars
    <2>1. Phase' = Phase
      BY <1>2 DEF AcquireLock, LockFails, ReadTail, ReadTailFails, Phase
    <2>2. OnRecord' = OnRecord
      BY <1>2 DEF AcquireLock, LockFails, ReadTail, ReadTailFails, OnRecord
    <2>3. UNCHANGED <<entry, lost>>
      BY <1>2 DEF AcquireLock, LockFails, ReadTail, ReadTailFails
    <2>4. QED
      BY <2>1, <2>2, <2>3 DEF Trail!trailVars
  <1>3. ASSUME NEW w \in Writer, WriteLine(w) \/ WriteShort(w) \/ WriteFails(w)
        PROVE  Phase[w] = "pending" /\ Phase' = [Phase EXCEPT ![w] = "recorded"]
    BY <1>3 DEF WriteLine, WriteShort, WriteFails, Phase
  <1>4. ASSUME NEW w \in Writer, WriteLine(w)
        PROVE  Trail!Record(w) \/ Trail!Lose(w)
    <2> DEFINE l == NewEntry(KeyOf[w], entry[w], prev[w])
    <2>1. log' = Glued(l) /\ torn' = FALSE /\ UNCHANGED <<entry, lost>>
      BY <1>4 DEF WriteLine
    <2>2. l.body = entry[w]
      BY DEF NewEntry, Chained
    <2> HIDE DEF l
    <2>3. CASE torn
      <3>1. OnRecord' = Append(OnRecord, NoBody)
        BY <2>1, <2>3, GluedOnRecord
      <3>2. lost' = TRUE
        BY <2>1, <2>3 DEF TornInv
      <3>3. QED
        BY <1>3, <1>4, <2>1, <3>1, <3>2 DEF Trail!Lose
    <2>4. CASE ~torn
      <3>1. OnRecord' = Append(OnRecord, entry[w])
        BY <2>1, <2>2, <2>4, GluedOnRecord
      <3>2. QED
        BY <1>3, <1>4, <2>1, <3>1 DEF Trail!Record
    <2>5. QED
      BY <2>3, <2>4
  <1>5. ASSUME NEW w \in Writer, WriteShort(w)
        PROVE  Trail!Lose(w)
    <2>1. PICK l : log' = Glued(l)
      BY <1>5 DEF WriteShort
    <2>2. torn' = TRUE /\ lost' = TRUE /\ UNCHANGED entry
      BY <1>5 DEF WriteShort
    <2>3. OnRecord' = OnRecord
      BY <2>1, <2>2, GluedOnRecord
    <2>4. QED
      BY <1>3, <1>5, <2>2, <2>3 DEF Trail!Lose
  <1>6. ASSUME NEW w \in Writer, WriteFails(w)
        PROVE  Trail!Lose(w)
    <2>1. lost' = TRUE /\ UNCHANGED <<log, torn, entry>>
      BY <1>6 DEF WriteFails
    <2>2. OnRecord' = OnRecord
      BY <2>1 DEF OnRecord
    <2>3. QED
      BY <1>3, <1>6, <2>1, <2>2 DEF Trail!Lose
  <1>7. ASSUME NEW w \in Writer, Close(w) \/ Crash(w)
        PROVE  Trail!Die(w)
    <2>1. Phase[w] # "idle" /\ Phase' = [Phase EXCEPT ![w] = "idle"]
      BY <1>7 DEF Close, Crash, Release, Phase
    <2>2. UNCHANGED <<log, torn, lost>> /\ entry' = [entry EXCEPT ![w] = NoBody]
      BY <1>7 DEF Close, Crash, Release
    <2>3. OnRecord' = OnRecord
      BY <2>2 DEF OnRecord
    <2>4. QED
      BY <2>1, <2>2, <2>3 DEF Trail!Die
  <1>8. CASE UNCHANGED vars
    BY <1>8 DEF vars, Trail!trailVars, OnRecord, Phase
  <1>9. QED
    <2>1. ASSUME NEW w \in Writer, NEW b \in Input, Call(w, b)
          PROVE  Trail!TrailNext
      <3>1. Mask[b] \in {Mask[c] : c \in Input}
        OBVIOUS
      <3>2. QED
        BY <1>1, <2>1, <3>1 DEF Trail!TrailNext
    <2>2. ASSUME NEW w \in Writer, Step(w) \/ Crash(w)
          PROVE  Trail!TrailNext \/ UNCHANGED Trail!trailVars
      BY <1>2, <1>4, <1>5, <1>6, <1>7, <2>2 DEF Step, Trail!TrailNext
    <2>3. QED
      BY <1>8, <2>1, <2>2 DEF Next

\* Several servers appending to one file, with whatever fails in them, implement
\* the exactly-once trail: no line written whole is ever lost, repeated, reordered
\* or altered by an append.
THEOREM ImplementsTrail == Spec => RecordsEveryAppend
  <1>1. Init => TornInv
    BY DEF Init, TornInv
  <1>2. Init => Trail!TrailInit
    <2> SUFFICES ASSUME Init PROVE Trail!TrailInit
      OBVIOUS
    <2>1. DOMAIN log = 1..Len(log)
      BY InitTypes, AppendIsSeq DEF TypeInv, TypeOK, IsLog
    <2>2. OnRecord = Texts(log)
      <3>1. (IF torn THEN Len(log) - 1 ELSE Len(log)) = Len(log)
        BY DEF Init
      <3>2. QED
        BY <2>1, <3>1 DEF OnRecord, Texts
    <2>3. Phase = [w \in Writer |-> "idle"]
      BY DEF Init, Phase
    <2>4. QED
      BY <2>2, <2>3 DEF Init, Trail!TrailInit
  <1>3. QED
    BY InitTypes, StepTypes, StepTorn, StepTrail, <1>1, <1>2, PTL
    DEF Spec, RecordsEveryAppend, Trail!TrailSpec

=============================================================================
