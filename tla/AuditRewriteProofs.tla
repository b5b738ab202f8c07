------------------------- MODULE AuditRewriteProofs -------------------------
(***************************************************************************)
(* Theorems about AuditRewrite, for any number of processes, any logs,     *)
(* texts, keys and faults.                                                 *)
(***************************************************************************)
EXTENDS AuditRewrite, AuditLogProofs

(* What the steps make of a log *)

\* Every line of a log caught in the middle of an in-place write is one of the old
\* log, one of the new or half of each.
LEMMA MixIsLog ==
  ASSUME NEW old, IsLog(old), NEW new, IsLog(new), NEW mix \in Mixes(old, new)
  PROVE  /\ IsLog(mix)
         /\ \A i \in DOMAIN mix :
              \/ mix[i] = Junk
              \/ \E j \in DOMAIN old : mix[i] = old[j]
              \/ \E j \in DOMAIN new : mix[i] = new[j]
  <1>1. CASE mix = old
    BY <1>1
  <1>2. ASSUME NEW n \in 0..Len(new) - 1, NEW m \in 2..Len(old) + 1,
               mix = SubSeq(new, 1, n) \o <<Junk>> \o SubSeq(old, m, Len(old))
        PROVE  /\ IsLog(mix)
               /\ \A i \in DOMAIN mix :
                    \/ mix[i] = Junk
                    \/ \E j \in DOMAIN old : mix[i] = old[j]
                    \/ \E j \in DOMAIN new : mix[i] = new[j]
    <2> DEFINE a == SubSeq(new, 1, n)
               c == SubSeq(old, m, Len(old))
               S == {a[i] : i \in DOMAIN a} \cup {Junk} \cup {c[i] : i \in DOMAIN c}
    <2>1. Len(new) \in Nat /\ Len(old) \in Nat
      BY DEF IsLog, IsSeq
    <2>2. /\ IsLog(a)
          /\ \A i \in DOMAIN a : \E j \in DOMAIN new : a[i] = new[j]
      <3>1. 1 \in Int /\ n \in Int /\ 1 <= 1 /\ n <= Len(new)
        BY <2>1
      <3>2. QED
        BY <3>1, SubSeqIsLog
    <2>3. /\ IsLog(c)
          /\ \A i \in DOMAIN c : \E j \in DOMAIN old : c[i] = old[j]
      <3>1. m \in Int /\ Len(old) \in Int /\ 1 <= m /\ Len(old) <= Len(old)
        BY <2>1
      <3>2. QED
        BY <3>1, SubSeqIsLog
    <2>4. \A e \in S : /\ IsLine(e)
                       /\ \/ e = Junk
                          \/ \E j \in DOMAIN old : e = old[j]
                          \/ \E j \in DOMAIN new : e = new[j]
      <3>1. IsLine(Junk)
        BY DEF IsLine
      <3> HIDE DEF a, c
      <3>2. QED
        BY <2>2, <2>3, <3>1 DEF IsLog
    <2>5. a \in Seq(S) /\ c \in Seq(S) /\ <<Junk>> \in Seq(S)
      <3> HIDE DEF a, c
      <3>1. a \in Seq(S) /\ c \in Seq(S)
        BY <2>2, <2>3 DEF IsLog, IsSeq
      <3>2. QED
        BY <3>1
    <2> HIDE DEF S
    <2>6. mix \in Seq(S)
      <3> HIDE DEF a, c
      <3>1. a \o <<Junk>> \in Seq(S)
        BY <2>5
      <3>2. (a \o <<Junk>>) \o c \in Seq(S)
        BY <2>5, <3>1
      <3>3. mix = (a \o <<Junk>>) \o c
        BY <1>2 DEF a, c
      <3>4. QED
        BY <3>2, <3>3
    <2>7. \A i \in DOMAIN mix : mix[i] \in S
      BY <2>6
    <2>8. mix \in Seq({mix[i] : i \in DOMAIN mix})
      BY <2>6, SeqOfItself
    <2>9. QED
      BY <2>4, <2>7, <2>8 DEF IsLog, IsSeq
  <1>3. \/ mix = old
        \/ \E n \in 0..Len(new) - 1, m \in 2..Len(old) + 1 :
             mix = SubSeq(new, 1, n) \o <<Junk>> \o SubSeq(old, m, Len(old))
    <2> DEFINE M(n, m) == SubSeq(new, 1, n) \o <<Junk>> \o SubSeq(old, m, Len(old))
               Row(n) == {M(n, m) : m \in 2..Len(old) + 1}
    <2>1. mix \in {old} \cup UNION {Row(n) : n \in 0..Len(new) - 1}
      BY DEF Mixes
    <2>2. mix = old \/ \E n \in 0..Len(new) - 1 : mix \in Row(n)
      <3> HIDE DEF Row
      <3>1. QED
        BY <2>1
    <2>3. \A n : mix \in Row(n) => \E m \in 2..Len(old) + 1 : mix = M(n, m)
      <3> HIDE DEF M
      <3>1. QED
        OBVIOUS
    <2>4. QED
      BY <2>2, <2>3
  <1>4. QED
    BY <1>1, <1>2, <1>3

-----------------------------------------------------------------------------
(* Types *)

\* The types of the rewrite's own variables.  A half-read or planned log is a log:
\* stronger than RewriteTypeOK, which asks only about its lines.
RewriteTypes ==
  /\ rstep \in [Rewriter -> {"idle", "read", "lock", "decide", "tmp", "fill",
                             "overwrite", "finish", "unlink", "unlock", "marker"}]
  /\ force \in [Rewriter -> BOOLEAN]
  /\ DOMAIN done = Rewriter
  /\ DOMAIN plan = Rewriter
  /\ \A r \in Rewriter : IsLog(done[r]) /\ IsLog(plan[r])
  /\ tmp.state \in {"absent", "partial", "complete"}
  /\ IsLog(tmp.lines)
  /\ cut \in BOOLEAN

AllTypes == TypeInv /\ RewriteTypes

LEMMA EmptyIsLog == IsLog(<<>>)
  <1>1. DOMAIN <<>> = {}
    OBVIOUS
  <1>2. <<>> \in Seq({<<>>[i] : i \in DOMAIN <<>>})
    OBVIOUS
  <1>3. QED
    BY <1>1, <1>2 DEF IsLog, IsSeq

\* Opening the log for any text, the marker entry included.
LEMMA OpenTypes ==
  ASSUME TypeInv, NEW w \in Writer, NEW b \in Body, Open(w, b)
  PROVE  TypeInv'
  <1>1. Mask[b] \in Body
    BY MaskAssumption
  <1>2. QED
    BY <1>1 DEF TypeInv, TypeOK, EntryInv, Open

\* Leave(r) with append()'s variables and the log left alone, as every early end of
\* a rewrite leaves them.
LEMMA LeaveTypes ==
  ASSUME AllTypes, NEW r \in Rewriter, Leave(r),
         UNCHANGED <<AppendVars, log, torn, tmp, cut>>
  PROVE  AllTypes'
  <1>1. TypeInv'
    BY WriterAssumption, RewriterAssumption
    DEF AllTypes, TypeInv, TypeOK, EntryInv, Leave, AppendVars
  <1>2. rstep' \in [Rewriter -> {"idle", "read", "lock", "decide", "tmp", "fill",
                             "overwrite", "finish", "unlink", "unlock", "marker"}]
        /\ force' \in [Rewriter -> BOOLEAN]
        /\ DOMAIN done' = Rewriter /\ DOMAIN plan' = Rewriter
    BY DEF AllTypes, RewriteTypes, Leave
  <1>3. \A q \in Rewriter : /\ done'[q] = done[q] \/ done'[q] = <<>>
                            /\ plan'[q] = plan[q] \/ plan'[q] = <<>>
    BY DEF AllTypes, RewriteTypes, Leave
  <1>4. \A q \in Rewriter : IsLog(done'[q]) /\ IsLog(plan'[q])
    BY <1>3, EmptyIsLog DEF AllTypes, RewriteTypes
  <1>5. RewriteTypes'
    BY <1>2, <1>4 DEF AllTypes, RewriteTypes
  <1>6. QED
    BY <1>1, <1>5 DEF AllTypes

LEMMA InitRewriteTypes == RewriteInit => AllTypes
  <1> SUFFICES ASSUME RewriteInit PROVE AllTypes
    OBVIOUS
  <1>1. TypeInv
    BY InitTypes DEF RewriteInit
  <1>2. RewriteTypes
    BY EmptyIsLog DEF RewriteInit, RewriteTypes, NoTmp
  <1>3. QED
    BY <1>1, <1>2 DEF AllTypes

\* A step of append() while the rewrites stand still.
LEMMA AppendStepTypes ==
  ASSUME AllTypes, UNCHANGED rvars,
         \/ \E w \in Writer, b \in Input : ~Rewriting(w) /\ Room /\ Open(w, b)
         \/ \E w \in Writer : Step(w) \/ Crash(w)
  PROVE  AllTypes'
  <1>1. RewriteTypes'
    BY DEF AllTypes, RewriteTypes, rvars
  <1>2. ASSUME NEW w \in Writer, NEW b \in Input, Open(w, b)
        PROVE  TypeInv'
    BY <1>2, OpenTypes, InputAssumption DEF AllTypes
  <1>3. ASSUME NEW w \in Writer, Step(w) \/ Crash(w)
        PROVE  TypeInv'
    <2>1. Next
      BY <1>3 DEF Next
    <2>2. QED
      BY <2>1, StepTypes DEF AllTypes
  <1>4. QED
    BY <1>1, <1>2, <1>3 DEF AllTypes

LEMMA RewriteStepTypes ==
  ASSUME AllTypes, NEW r \in Rewriter, CheckTmp(r) \/ RewriteStep(r) \/ RewriteCrash(r)
  PROVE  AllTypes'
  <1>w. r \in Writer
    BY RewriterAssumption
  <1>1. CASE CheckTmp(r)
    <2>1. TypeInv'
      BY <1>1 DEF CheckTmp, vars, AllTypes, TypeInv, TypeOK, EntryInv
    <2>2. RewriteTypes'
      BY <1>1, RewriterAssumption DEF CheckTmp, AllTypes, RewriteTypes
    <2>3. QED
      BY <2>1, <2>2 DEF AllTypes
  <1>2. CASE ReadUnlocked(r)
    <2> DEFINE read == IF torn THEN SubSeq(log, 1, Len(log) - 1) ELSE log
    <2>1. TypeInv'
      BY <1>2 DEF ReadUnlocked, vars, AllTypes, TypeInv, TypeOK, EntryInv
    <2>2. IsLog(log)
      BY DEF AllTypes, TypeInv, TypeOK
    <2>3. IsLog(read)
      <3>1. Len(log) \in Nat
        BY <2>2 DEF IsLog, IsSeq
      <3>2. 1 \in Int /\ Len(log) - 1 \in Int /\ 1 <= 1 /\ Len(log) - 1 <= Len(log)
        BY <3>1
      <3>3. IsLog(SubSeq(log, 1, Len(log) - 1))
        BY <2>2, <3>2, SubSeqIsLog
      <3>4. QED
        BY <2>2, <3>3
    <2> HIDE DEF read
    <2>4. done' = [done EXCEPT ![r] = read]
      BY <1>2 DEF ReadUnlocked, read
    <2>5. RewriteTypes'
      BY <1>2, <2>3, <2>4 DEF ReadUnlocked, AllTypes, RewriteTypes
    <2>6. QED
      BY <2>1, <2>5 DEF AllTypes
  <1>3. CASE RewriteLock(r)
    <2>1. TypeInv'
      BY <1>3, <1>w DEF RewriteLock, AppendVars, AllTypes, TypeInv, TypeOK, EntryInv
    <2>2. RewriteTypes'
      BY <1>3 DEF RewriteLock, AllTypes, RewriteTypes
    <2>3. QED
      BY <2>1, <2>2 DEF AllTypes
  <1>4. CASE RewriteLockFails(r) \/ RefuseOrNothing(r) \/ RewriteCrash(r)
    BY <1>4, LeaveTypes DEF RewriteLockFails, RefuseOrNothing, RewriteCrash
  <1>5. CASE Decide(r)
    <2> DEFINE new == Rewritten(log, KeyOf[r])
    <2>1. TypeInv'
      BY <1>5 DEF Decide, vars, AllTypes, TypeInv, TypeOK, EntryInv
    <2>2. IsLog(new)
      BY RewrittenIsLog DEF AllTypes, TypeInv, TypeOK
    <2> HIDE DEF new
    <2>3. plan' = [plan EXCEPT ![r] = new]
      BY <1>5 DEF Decide, new
    <2>4. RewriteTypes'
      BY <1>5, <2>2, <2>3 DEF Decide, AllTypes, RewriteTypes
    <2>5. QED
      BY <2>1, <2>4 DEF AllTypes
  <1>6. CASE CreateTmp(r)
    <2>1. TypeInv'
      BY <1>6 DEF CreateTmp, vars, AllTypes, TypeInv, TypeOK, EntryInv
    <2>2. RewriteTypes'
      BY <1>6, EmptyIsLog DEF CreateTmp, PartialTmp, AllTypes, RewriteTypes
    <2>3. QED
      BY <2>1, <2>2 DEF AllTypes
  <1>7. CASE FillTmp(r)
    <2>1. TypeInv'
      BY <1>7 DEF FillTmp, vars, AllTypes, TypeInv, TypeOK, EntryInv
    <2>2. RewriteTypes'
      BY <1>7 DEF FillTmp, AllTypes, RewriteTypes
    <2>3. QED
      BY <2>1, <2>2 DEF AllTypes
  <1>8. CASE Overwrite(r)
    <2>1. IsLog(log')
      BY <1>8, MixIsLog DEF Overwrite, AllTypes, RewriteTypes, TypeInv, TypeOK
    <2>2. torn' \in BOOLEAN
      BY <1>8, Zenon DEF Overwrite
    <2>3. TypeInv'
      BY <1>8, <2>1, <2>2 DEF Overwrite, AppendVars, AllTypes, TypeInv, TypeOK, EntryInv
    <2>4. cut' \in BOOLEAN
      BY <1>8, Zenon DEF Overwrite
    <2>5. RewriteTypes'
      BY <1>8, <2>4 DEF Overwrite, AllTypes, RewriteTypes
    <2>6. QED
      BY <2>3, <2>5 DEF AllTypes
  <1>9. CASE Finish(r)
    <2>1. TypeInv'
      BY <1>9 DEF Finish, AppendVars, AllTypes, RewriteTypes, TypeInv, TypeOK, EntryInv
    <2>2. RewriteTypes'
      BY <1>9 DEF Finish, AllTypes, RewriteTypes
    <2>3. QED
      BY <2>1, <2>2 DEF AllTypes
  <1>10. CASE Unlink(r)
    <2>1. TypeInv'
      BY <1>10 DEF Unlink, vars, AllTypes, TypeInv, TypeOK, EntryInv
    <2>2. RewriteTypes'
      BY <1>10, EmptyIsLog DEF Unlink, NoTmp, AllTypes, RewriteTypes
    <2>3. QED
      BY <2>1, <2>2 DEF AllTypes
  <1>11. CASE Unlock(r)
    <2>1. TypeInv'
      BY <1>11 DEF Unlock, AppendVars, AllTypes, TypeInv, TypeOK, EntryInv
    <2>2. RewriteTypes'
      BY <1>11 DEF Unlock, AllTypes, RewriteTypes
    <2>3. QED
      BY <2>1, <2>2 DEF AllTypes
  <1>12. CASE AppendMarker(r)
    <2>1. TypeInv'
      BY <1>12, <1>w, OpenTypes, RewriterAssumption DEF AppendMarker, AllTypes
    <2>2. \A q \in Rewriter : /\ done'[q] = done[q] \/ done'[q] = <<>>
                              /\ plan'[q] = plan[q] \/ plan'[q] = <<>>
      BY <1>12 DEF AppendMarker, AllTypes, RewriteTypes
    <2>3. \A q \in Rewriter : IsLog(done'[q]) /\ IsLog(plan'[q])
      BY <2>2, EmptyIsLog DEF AllTypes, RewriteTypes
    <2>4. RewriteTypes'
      BY <1>12, <2>3 DEF AppendMarker, AllTypes, RewriteTypes
    <2>5. QED
      BY <2>1, <2>4 DEF AllTypes
  <1>13. QED
    BY <1>1, <1>2, <1>3, <1>4, <1>5, <1>6, <1>7, <1>8, <1>9, <1>10, <1>11, <1>12
    DEF RewriteStep

LEMMA NextRewriteTypes ==
  ASSUME AllTypes, [RewriteNext]_rewriteVars
  PROVE  AllTypes'
  <1>1. CASE Restore
    <2>1. TypeInv'
      BY <1>1 DEF Restore, AppendVars, AllTypes, RewriteTypes, TypeInv, TypeOK, EntryInv
    <2>2. RewriteTypes'
      BY <1>1, EmptyIsLog DEF Restore, NoTmp, AllTypes, RewriteTypes
    <2>3. QED
      BY <2>1, <2>2 DEF AllTypes
  <1>2. CASE UNCHANGED rewriteVars
    <2>1. TypeInv'
      BY <1>2 DEF rewriteVars, vars, AllTypes, TypeInv, TypeOK, EntryInv
    <2>2. RewriteTypes'
      BY <1>2 DEF rewriteVars, rvars, AllTypes, RewriteTypes
    <2>3. QED
      BY <2>1, <2>2 DEF AllTypes
  <1>3. QED
    BY <1>1, <1>2, AppendStepTypes, RewriteStepTypes DEF RewriteNext

\* Type correctness of the rewrite and of append() beside it.
THEOREM RewriteTypeCorrect == RewriteSpec => []RewriteTypeOK
  <1>1. AllTypes => RewriteTypeOK
    BY DEF AllTypes, TypeInv, RewriteTypes, RewriteTypeOK, IsLog
  <1>2. QED
    BY InitRewriteTypes, NextRewriteTypes, <1>1, PTL DEF RewriteSpec

-----------------------------------------------------------------------------
(* What redact() would change is gone *)

CleanLine(l) == l.kind # "junk" => Mask[l.body] = l.body

Clean(lines) == \A i \in DOMAIN lines : CleanLine(lines[i])

\* Why a log that was clean stays so while others append: they append masked text.
\* No rewrite needs the lock for this: plan[r] is clean whenever it was made.
MaskInv ==
  /\ \A w \in Writer : pc[w] # "idle" => Mask[entry[w]] = entry[w]
  /\ \A r \in Rewriter : rstep[r] \in {"tmp", "fill", "overwrite", "finish"} => Clean(plan[r])
  /\ \A r \in Rewriter : rstep[r] \in {"unlink", "unlock", "marker"} => Clean(log)

LEMMA GluedIsClean ==
  ASSUME IsLog(log), Clean(log), NEW l, CleanLine(l)
  PROVE  Clean(Glued(l))
  <1>1. CASE torn
    <2>1. Glued(l) = [log EXCEPT ![Len(log)] = Junk]
      BY <1>1 DEF Glued
    <2>2. \A i \in DOMAIN Glued(l) : i \in DOMAIN log /\ (Glued(l)[i] = log[i] \/ Glued(l)[i] = Junk)
      BY <2>1
    <2>3. CleanLine(Junk)
      BY DEF CleanLine, Junk
    <2>4. QED
      BY <2>2, <2>3 DEF Clean
  <1>2. CASE ~torn
    <2>1. Glued(l) = Append(log, l)
      BY <1>2 DEF Glued
    <2>2. \A i \in DOMAIN Append(log, l) :
            \/ i \in DOMAIN log /\ Append(log, l)[i] = log[i]
            \/ Append(log, l)[i] = l
      BY AppendIsSeq DEF IsLog
    <2>3. QED
      BY <2>1, <2>2 DEF Clean
  <1>3. QED
    BY <1>1, <1>2

\* What append() writes: its masked text, or half a line.
LEMMA AppendIsClean ==
  ASSUME AllTypes, MaskInv, Clean(log),
         \E w \in Writer : WriteLine(w) \/ WriteShort(w)
  PROVE  Clean(log')
  <1>1. PICK w \in Writer : WriteLine(w) \/ WriteShort(w)
    OBVIOUS
  <1> DEFINE l == NewEntry(KeyOf[w], entry[w], prev[w])
  <1>2. pc[w] # "idle"
    BY <1>1 DEF WriteLine, WriteShort
  <1>3. CleanLine(l) /\ CleanLine(Junk)
    BY <1>2 DEF MaskInv, CleanLine, NewEntry, Chained, Junk
  <1>4. IsLog(log)
    BY DEF AllTypes, TypeInv, TypeOK
  <1>5. Clean(Glued(l)) /\ Clean(Glued(Junk))
    BY <1>3, <1>4, GluedIsClean
  <1>6. log' = Glued(l) \/ log' = Glued(Junk)
    BY <1>1 DEF WriteLine, WriteShort
  <1>7. QED
    BY <1>5, <1>6

LEMMA OpenMasks ==
  ASSUME AllTypes, MaskInv, NEW w \in Writer, NEW b \in Body, Open(w, b)
  PROVE  \A v \in Writer : pc'[v] # "idle" => Mask[entry'[v]] = entry'[v]
  <1>1. Mask[Mask[b]] = Mask[b]
    BY MaskAssumption
  <1>2. pc' = [pc EXCEPT ![w] = "lock"] /\ entry' = [entry EXCEPT ![w] = Mask[b]]
    BY DEF Open
  <1>3. \A v \in Writer : v # w => pc'[v] = pc[v] /\ entry'[v] = entry[v]
    BY <1>2 DEF AllTypes, TypeInv, TypeOK
  <1>4. entry'[w] = Mask[b]
    BY <1>2 DEF AllTypes, TypeInv, TypeOK
  <1>5. QED
    BY <1>1, <1>3, <1>4 DEF MaskInv

LEMMA AppendStepMasks ==
  ASSUME AllTypes, MaskInv, UNCHANGED rvars,
         \/ \E w \in Writer, b \in Input : ~Rewriting(w) /\ Room /\ Open(w, b)
         \/ \E w \in Writer : Step(w) \/ Crash(w)
  PROVE  MaskInv'
  <1>1. UNCHANGED <<rstep, plan>>
    BY DEF rvars
  <1>2. ASSUME NEW w \in Writer, NEW b \in Input, Open(w, b)
        PROVE  MaskInv'
    <2>1. b \in Body
      BY InputAssumption
    <2>2. \A v \in Writer : pc'[v] # "idle" => Mask[entry'[v]] = entry'[v]
      BY <1>2, <2>1, OpenMasks
    <2>3. UNCHANGED log
      BY <1>2 DEF Open
    <2>4. QED
      BY <1>1, <2>2, <2>3 DEF MaskInv, Clean
  <1>3. ASSUME NEW w \in Writer, Step(w) \/ Crash(w)
        PROVE  MaskInv'
    <2>1. \A v \in Writer : pc'[v] # "idle" => pc[v] # "idle" /\ entry'[v] = entry[v]
      BY <1>3 DEF AllTypes, TypeInv, TypeOK, Step, AcquireLock, LockFails, ReadTail,
                  ReadTailFails, WriteLine, WriteShort, WriteFails, Close, Crash, Release
    <2>2. Clean(log) => Clean(log')
      <3>1. CASE WriteLine(w) \/ WriteShort(w)
        BY <3>1, AppendIsClean
      <3>2. CASE ~(WriteLine(w) \/ WriteShort(w))
        <4>1. UNCHANGED log
          BY <1>3, <3>2 DEF Step, AcquireLock, LockFails, ReadTail, ReadTailFails,
                            WriteFails, Close, Crash, Release
        <4>2. QED
          BY <4>1
      <3>3. QED
        BY <3>1, <3>2
    <2>3. QED
      BY <1>1, <2>1, <2>2 DEF MaskInv, Clean
  <1>4. QED
    BY <1>2, <1>3

LEMMA RewriteStepMasks ==
  ASSUME AllTypes, MaskInv, NEW r \in Rewriter, CheckTmp(r) \/ RewriteStep(r) \/ RewriteCrash(r)
  PROVE  MaskInv'
  <1> DEFINE Planned == {"tmp", "fill", "overwrite", "finish"}
             Written == {"unlink", "unlock", "marker"}
  <1>w. r \in Writer
    BY RewriterAssumption
  <1>1. CASE \/ CheckTmp(r) \/ ReadUnlocked(r) \/ RewriteLock(r) \/ CreateTmp(r)
             \/ FillTmp(r) \/ Unlink(r) \/ Unlock(r)
    <2>1. UNCHANGED <<pc, entry, log, plan>>
      BY <1>1 DEF CheckTmp, ReadUnlocked, RewriteLock, CreateTmp, FillTmp, Unlink, Unlock,
                  vars, AppendVars
    <2>2. \A q \in Rewriter : /\ rstep'[q] \in Planned => rstep[q] \in Planned
                              /\ rstep'[q] \in Written => rstep[q] \in Written
      BY <1>1 DEF CheckTmp, ReadUnlocked, RewriteLock, CreateTmp, FillTmp, Unlink, Unlock,
                  AllTypes, RewriteTypes
    <2>3. QED
      BY <2>1, <2>2 DEF MaskInv, Clean
  <1>2. CASE RewriteLockFails(r) \/ RefuseOrNothing(r) \/ RewriteCrash(r)
    <2>1. UNCHANGED <<pc, entry, log>>
      BY <1>2 DEF RewriteLockFails, RefuseOrNothing, RewriteCrash, AppendVars
    <2>2. \A q \in Rewriter : rstep'[q] # "idle" => rstep'[q] = rstep[q] /\ plan'[q] = plan[q]
      BY <1>2 DEF RewriteLockFails, RefuseOrNothing, RewriteCrash, Leave, AllTypes, RewriteTypes
    <2>3. QED
      BY <2>1, <2>2 DEF MaskInv, Clean
  <1>3. CASE Decide(r)
    <2> DEFINE new == Rewritten(log, KeyOf[r])
    <2>1. IsLog(log)
      BY DEF AllTypes, TypeInv, TypeOK
    <2>2. ASSUME NEW i \in DOMAIN new PROVE CleanLine(new[i])
      <3>1. i \in DOMAIN log
        BY <2>1, RewrittenIsLog
      <3>2. new[i].kind # "junk" => log[i].body \in Body /\ new[i].body = Mask[log[i].body]
        BY <2>1, <3>1, RewrittenIsLog
      <3> HIDE DEF new
      <3>3. QED
        BY <3>2, MaskAssumption DEF CleanLine
    <2>3. Clean(new)
      BY <2>2 DEF Clean
    <2> HIDE DEF new
    <2>4. plan' = [plan EXCEPT ![r] = new] /\ rstep' = [rstep EXCEPT ![r] = "tmp"]
          /\ UNCHANGED <<pc, entry, log>>
      BY <1>3 DEF Decide, vars, new
    <2>5. \A q \in Rewriter : rstep'[q] \in Planned => Clean(plan'[q])
      BY <2>3, <2>4 DEF AllTypes, RewriteTypes, MaskInv
    <2>6. QED
      BY <2>4, <2>5 DEF AllTypes, RewriteTypes, MaskInv, Clean
  <1>4. CASE Overwrite(r)
    <2>1. Clean(plan[r])
      BY <1>4 DEF Overwrite, MaskInv
    <2>2. Clean(log) => Clean(log')
      <3>1. SUFFICES ASSUME Clean(log), NEW i \in DOMAIN log' PROVE CleanLine(log'[i])
        BY DEF Clean
      <3>2. \/ log'[i] = Junk
            \/ \E j \in DOMAIN log : log'[i] = log[j]
            \/ \E j \in DOMAIN plan[r] : log'[i] = plan[r][j]
        <4>1. IsLog(log) /\ IsLog(plan[r]) /\ log' \in Mixes(log, plan[r])
          BY <1>4 DEF Overwrite, AllTypes, RewriteTypes, TypeInv, TypeOK
        <4>2. QED
          BY <4>1, MixIsLog
      <3>3. CleanLine(Junk)
        BY DEF CleanLine, Junk
      <3>4. QED
        BY <2>1, <3>1, <3>2, <3>3 DEF Clean
    <2>3. UNCHANGED <<pc, entry, plan>> /\ rstep' = [rstep EXCEPT ![r] = "finish"] /\ rstep[r] = "overwrite"
      BY <1>4 DEF Overwrite, AppendVars
    <2>4. QED
      BY <2>1, <2>2, <2>3 DEF AllTypes, RewriteTypes, MaskInv, Clean
  <1>5. CASE Finish(r)
    <2>1. Clean(log')
      BY <1>5 DEF Finish, MaskInv, Clean
    <2>2. UNCHANGED <<pc, entry, plan>> /\ rstep' = [rstep EXCEPT ![r] = "unlink"]
      BY <1>5 DEF Finish, AppendVars
    <2>3. QED
      BY <2>1, <2>2 DEF AllTypes, RewriteTypes, MaskInv, Clean
  <1>6. CASE AppendMarker(r)
    <2>1. \A v \in Writer : pc'[v] # "idle" => Mask[entry'[v]] = entry'[v]
      BY <1>6, <1>w, OpenMasks, RewriterAssumption DEF AppendMarker
    <2>2. UNCHANGED log
      BY <1>6 DEF AppendMarker, Open
    <2>3. \A q \in Rewriter : rstep'[q] # "idle" => rstep'[q] = rstep[q] /\ plan'[q] = plan[q]
      BY <1>6 DEF AppendMarker, AllTypes, RewriteTypes
    <2>4. QED
      BY <2>1, <2>2, <2>3 DEF MaskInv, Clean
  <1>7. QED
    BY <1>1, <1>2, <1>3, <1>4, <1>5, <1>6 DEF RewriteStep

LEMMA NextMasks ==
  ASSUME AllTypes, MaskInv, [RewriteNext]_rewriteVars
  PROVE  MaskInv'
  <1>1. CASE Restore
    <2>1. UNCHANGED <<pc, entry, plan, rstep>> /\ \A r \in Rewriter : rstep[r] = "idle"
      BY <1>1 DEF Restore, AppendVars, Rewriting
    <2>2. QED
      BY <2>1 DEF MaskInv
  <1>2. CASE UNCHANGED rewriteVars
    BY <1>2 DEF rewriteVars, rvars, vars, MaskInv, Clean
  <1>3. QED
    BY <1>1, <1>2, AppendStepMasks, RewriteStepMasks DEF RewriteNext

\* Once rewrite_redacted() has overwritten the log, the log holds nothing redact()
\* would change: for any number of rewrites and appends at once, whatever fails.
THEOREM MasksEverything == RewriteSpec => []SecretsGone
  <1>1. RewriteInit => MaskInv
    BY DEF RewriteInit, Init, MaskInv
  <1>2. MaskInv => SecretsGone
    BY DEF MaskInv, SecretsGone, Clean, CleanLine
  <1>3. QED
    BY InitRewriteTypes, NextRewriteTypes, <1>1, NextMasks, <1>2, PTL DEF RewriteSpec

-----------------------------------------------------------------------------
(* The only copy *)

\* Where one process rewrites: an unfinished in-place write leaves a complete tmp
\* file, and that file keeps the next rewrite from starting.
CopyInv ==
  /\ cut => tmp.state = "complete"
  /\ \A r \in Rewriter :
       /\ rstep[r] \in {"overwrite", "finish"} => tmp.state = "complete"
       /\ rstep[r] \in {"read", "lock", "decide", "tmp", "fill", "unlink"} => ~cut

LEMMA NextCopies ==
  ASSUME \A q, r \in Rewriter : q = r, AllTypes, CopyInv, [RewriteNext]_rewriteVars
  PROVE  CopyInv'
  <1> USE DEF CopyInv, AllTypes, RewriteTypes
  <1>1. CASE UNCHANGED <<rstep, tmp, cut>>
    BY <1>1
  <1>2. CASE Restore
    BY <1>2 DEF Restore, Rewriting
  <1>3. ASSUME NEW r \in Rewriter, CheckTmp(r)
        PROVE  CopyInv'
    BY <1>3 DEF CheckTmp, NoTmp
  <1>4. ASSUME NEW r \in Rewriter, ReadUnlocked(r) \/ RewriteLock(r) \/ Decide(r)
        PROVE  CopyInv'
    BY <1>4 DEF ReadUnlocked, RewriteLock, Decide
  <1>5. ASSUME NEW r \in Rewriter, CreateTmp(r) \/ FillTmp(r)
        PROVE  CopyInv'
    BY <1>5 DEF CreateTmp, FillTmp
  <1>6. ASSUME NEW r \in Rewriter, Overwrite(r) \/ Finish(r)
        PROVE  CopyInv'
    BY <1>6 DEF Overwrite, Finish
  <1>7. ASSUME NEW r \in Rewriter, Unlink(r) \/ Unlock(r)
        PROVE  CopyInv'
    BY <1>7 DEF Unlink, Unlock
  <1>8. ASSUME NEW r \in Rewriter,
               RewriteLockFails(r) \/ RefuseOrNothing(r) \/ RewriteCrash(r) \/ AppendMarker(r)
        PROVE  CopyInv'
    BY <1>8 DEF RewriteLockFails, RefuseOrNothing, RewriteCrash, Leave, AppendMarker
  <1>9. QED
    BY <1>1, <1>2, <1>3, <1>4, <1>5, <1>6, <1>7, <1>8
    DEF RewriteNext, RewriteStep, rewriteVars, rvars

\* Whatever crashes and wherever, the lines an unfinished in-place write destroyed
\* are in the tmp file, as long as at most one process runs rewrite_redacted();
\* two break it.
THEOREM KeepsTheOnlyCopy ==
  ASSUME \A q, r \in Rewriter : q = r
  PROVE  RewriteSpec => []OnlyCopyKept
  <1>1. RewriteInit => CopyInv
    BY DEF RewriteInit, CopyInv
  <1>2. CopyInv => OnlyCopyKept
    BY DEF CopyInv, OnlyCopyKept
  <1>3. AllTypes /\ CopyInv /\ [RewriteNext]_rewriteVars => CopyInv'
    BY NextCopies
  <1>4. QED
    BY InitRewriteTypes, NextRewriteTypes, <1>1, <1>2, <1>3, PTL DEF RewriteSpec

-----------------------------------------------------------------------------
(* The lock, of appends and of rewrites *)

Holding == {"decide", "tmp", "fill", "overwrite", "finish", "unlink", "unlock"}

\* One lock for both, and a rewriter makes no append meanwhile: true as long as no
\* append goes on without the lock.
HoldInv ==
  /\ LockInv
  /\ \A w \in Writer : pc[w] \in {"read", "write", "close"} => lock = w
  /\ \A r \in Rewriter : rstep[r] \in Holding => lock = r
  /\ \A r \in Rewriter : rstep[r] # "idle" => pc[r] = "idle"

\* From Decide to Overwrite the plan stays the redacted form of the log.
FreshInv ==
  \A r \in Rewriter : rstep[r] \in {"tmp", "fill", "overwrite"} =>
    plan[r] = Rewritten(log, KeyOf[r])

LEMMA AppendStepHolds ==
  ASSUME "nolock" \notin Fault, AllTypes, HoldInv, UNCHANGED rvars,
         \/ \E w \in Writer, b \in Input : ~Rewriting(w) /\ Room /\ Open(w, b)
         \/ \E w \in Writer : Step(w) \/ Crash(w)
  PROVE  HoldInv'
  <1> USE RewriterAssumption, WriterAssumption
      DEF AllTypes, TypeInv, TypeOK, HoldInv, LockInv, Holding
  <1>1. UNCHANGED rstep
    BY DEF rvars
  <1>2. ASSUME NEW w \in Writer, NEW b \in Input, ~Rewriting(w), Open(w, b)
        PROVE  HoldInv'
    BY <1>1, <1>2 DEF Open, Rewriting
  <1>3. ASSUME NEW w \in Writer, AcquireLock(w) PROVE HoldInv'
    BY <1>1, <1>3 DEF AcquireLock
  <1>4. ASSUME NEW w \in Writer, ReadTail(w) \/ ReadTailFails(w) PROVE HoldInv'
    BY <1>1, <1>4 DEF ReadTail, ReadTailFails
  <1>5. ASSUME NEW w \in Writer, WriteLine(w) \/ WriteShort(w) \/ WriteFails(w) PROVE HoldInv'
    BY <1>1, <1>5 DEF WriteLine, WriteShort, WriteFails
  <1>6. ASSUME NEW w \in Writer, Close(w) \/ Crash(w) PROVE HoldInv'
    BY <1>1, <1>6 DEF Close, Crash, Release
  <1>7. QED
    BY <1>2, <1>3, <1>4, <1>5, <1>6 DEF Step, LockFails

LEMMA RewriteStepHolds ==
  ASSUME AllTypes, HoldInv, NEW r \in Rewriter,
         CheckTmp(r) \/ RewriteStep(r) \/ RewriteCrash(r)
  PROVE  HoldInv'
  <1> USE RewriterAssumption, WriterAssumption
      DEF AllTypes, TypeInv, TypeOK, RewriteTypes, HoldInv, LockInv, Holding
  <1>1. CASE CheckTmp(r) \/ ReadUnlocked(r) \/ Decide(r) \/ CreateTmp(r) \/ FillTmp(r) \/ Unlink(r)
    BY <1>1 DEF CheckTmp, ReadUnlocked, Decide, CreateTmp, FillTmp, Unlink, vars
  <1>2. CASE RewriteLock(r)
    BY <1>2 DEF RewriteLock, AppendVars
  <1>3. CASE RefuseOrNothing(r) \/ RewriteLockFails(r) \/ RewriteCrash(r)
    BY <1>3 DEF RefuseOrNothing, RewriteLockFails, RewriteCrash, Leave, AppendVars
  <1>4. CASE Overwrite(r) \/ Finish(r)
    BY <1>4 DEF Overwrite, Finish, AppendVars
  <1>5. CASE Unlock(r)
    BY <1>5 DEF Unlock, AppendVars
  <1>6. CASE AppendMarker(r)
    BY <1>6 DEF AppendMarker, Open
  <1>7. QED
    BY <1>1, <1>2, <1>3, <1>4, <1>5, <1>6 DEF RewriteStep

\* Only the holder of the lock writes: an append that writes finds no rewrite under way.
LEMMA WriterAlone ==
  ASSUME HoldInv, NEW w \in Writer, pc[w] \in {"read", "write", "close"}
  PROVE  \A r \in Rewriter : rstep[r] \notin Holding
  BY DEF HoldInv, Holding

LEMMA AppendStepFresh ==
  ASSUME HoldInv, FreshInv, UNCHANGED rvars,
         \/ \E w \in Writer, b \in Input : ~Rewriting(w) /\ Room /\ Open(w, b)
         \/ \E w \in Writer : Step(w) \/ Crash(w)
  PROVE  FreshInv'
  <1>1. UNCHANGED <<rstep, plan>>
    BY DEF rvars
  <1>2. CASE UNCHANGED log
    BY <1>1, <1>2 DEF FreshInv
  <1>3. ASSUME NEW w \in Writer, WriteLine(w) \/ WriteShort(w)
        PROVE  FreshInv'
    <2>1. \A r \in Rewriter : rstep[r] \notin Holding
      BY <1>3, WriterAlone DEF WriteLine, WriteShort
    <2>2. QED
      BY <1>1, <2>1 DEF FreshInv, Holding
  <1>4. QED
    BY <1>2, <1>3 DEF Open, Step, AcquireLock, LockFails, ReadTail, ReadTailFails, WriteFails,
                      Close, Crash, Release

LEMMA RewriteStepFresh ==
  ASSUME AllTypes, HoldInv, FreshInv, NEW r \in Rewriter,
         CheckTmp(r) \/ RewriteStep(r) \/ RewriteCrash(r)
  PROVE  FreshInv'
  <1> DEFINE Early == {"tmp", "fill", "overwrite"}
  <1>q. \A q \in Rewriter : rstep[q] \in Holding /\ rstep[r] \in Holding => q = r
    BY DEF HoldInv
  <1>0. \A q \in Rewriter : rstep[q] \in Early => plan[q] = Rewritten(log, KeyOf[q])
    BY DEF FreshInv
  <1>1. CASE \/ CheckTmp(r) \/ ReadUnlocked(r) \/ RewriteLock(r) \/ CreateTmp(r) \/ FillTmp(r)
             \/ Unlink(r) \/ Unlock(r)
    <2>1. UNCHANGED <<log, plan>>
      BY <1>1 DEF CheckTmp, ReadUnlocked, RewriteLock, CreateTmp, FillTmp, Unlink, Unlock, vars
    <2>2. \A q \in Rewriter : rstep'[q] \in Early => rstep[q] \in Early
      BY <1>1 DEF CheckTmp, ReadUnlocked, RewriteLock, CreateTmp, FillTmp, Unlink, Unlock,
                  AllTypes, RewriteTypes
    <2>3. QED
      BY <1>0, <2>1, <2>2 DEF FreshInv
  <1>2. CASE RefuseOrNothing(r) \/ RewriteLockFails(r) \/ RewriteCrash(r) \/ AppendMarker(r)
    <2>1. UNCHANGED log
      BY <1>2 DEF RefuseOrNothing, RewriteLockFails, RewriteCrash, AppendMarker, Open
    <2>2. \A q \in Rewriter : rstep'[q] # "idle" => rstep'[q] = rstep[q] /\ plan'[q] = plan[q]
      BY <1>2 DEF RefuseOrNothing, RewriteLockFails, RewriteCrash, Leave, AppendMarker,
                  AllTypes, RewriteTypes
    <2>3. QED
      BY <1>0, <2>1, <2>2 DEF FreshInv
  <1>3. CASE Decide(r)
    <2> DEFINE new == Rewritten(log, KeyOf[r])
    <2>1. new = Rewritten(log, KeyOf[r])
      OBVIOUS
    <2> HIDE DEF new
    <2>2. UNCHANGED log /\ plan' = [plan EXCEPT ![r] = new] /\ rstep' = [rstep EXCEPT ![r] = "tmp"]
      BY <1>3 DEF Decide, vars, new
    <2>3. \A q \in Rewriter : q # r => rstep'[q] = rstep[q] /\ plan'[q] = plan[q]
      BY <2>2 DEF AllTypes, RewriteTypes
    <2>4. plan'[r] = new
      BY <2>2 DEF AllTypes, RewriteTypes
    <2>5. QED
      BY <1>0, <2>1, <2>2, <2>3, <2>4 DEF FreshInv
  <1>4. CASE Overwrite(r) \/ Finish(r)
    <2>1. rstep[r] \in Holding
      BY <1>4 DEF Overwrite, Finish, Holding
    <2>2. /\ rstep'[r] \in {"finish", "unlink"}
          /\ \A q \in Rewriter : q # r => rstep'[q] = rstep[q]
      BY <1>4 DEF Overwrite, Finish, AllTypes, RewriteTypes
    <2>3. \A q \in Rewriter : rstep'[q] \notin Early
      BY <1>q, <2>1, <2>2 DEF Holding
    <2>4. QED
      BY <2>3 DEF FreshInv
  <1>5. QED
    BY <1>1, <1>2, <1>3, <1>4 DEF RewriteStep

LEMMA NextFresh ==
  ASSUME "nolock" \notin Fault, AllTypes, HoldInv, FreshInv, [RewriteNext]_rewriteVars
  PROVE  HoldInv' /\ FreshInv'
  <1>1. CASE Restore
    <2>1. HoldInv'
      BY <1>1 DEF Restore, Rewriting, AppendVars, HoldInv, LockInv, Holding
    <2>2. FreshInv'
      BY <1>1 DEF Restore, Rewriting, FreshInv
    <2>3. QED
      BY <2>1, <2>2
  <1>2. CASE UNCHANGED rewriteVars
    <2>1. HoldInv'
      BY <1>2 DEF rewriteVars, vars, rvars, HoldInv, LockInv
    <2>2. FreshInv'
      BY <1>2 DEF rewriteVars, vars, rvars, FreshInv
    <2>3. QED
      BY <2>1, <2>2
  <1>3. ASSUME NEW r \in Rewriter, CheckTmp(r) \/ RewriteStep(r) \/ RewriteCrash(r)
        PROVE  HoldInv' /\ FreshInv'
    BY <1>3, RewriteStepHolds, RewriteStepFresh
  <1>4. QED
    BY <1>1, <1>2, <1>3, AppendStepHolds, AppendStepFresh DEF RewriteNext

LEMMA InitFresh == RewriteInit => HoldInv /\ FreshInv
  BY DEF RewriteInit, Init, HoldInv, LockInv, Holding, FreshInv

-----------------------------------------------------------------------------
(* The first break stays where it is *)

\* The first break is a break after the rewrite, unless the masking puts it right.
LEMMA BreakStays ==
  ASSUME NEW lines, IsLog(lines), NEW key, NEW new, new = Rewritten(lines, key),
         NEW i \in Breaks(lines, key), IntactBefore(lines, key, i),
         ~(lines[i].kind = "chained" /\ Mended(lines, new, key, i))
  PROVE  i \in Breaks(new, key)
  <1>1. i \in DOMAIN lines /\ IsSeq(lines)
    BY DEF Breaks, IsLog
  <1>2. DOMAIN lines = 1..Len(lines) /\ Len(lines) \in Nat
    BY <1>1 DEF IsSeq
  <1>3. DOMAIN new = DOMAIN lines /\ new[i].kind = lines[i].kind /\ IsLog(new)
    BY <1>1, RewrittenIsLog
  <1>4. CASE lines[i].kind = "junk"
    BY <1>1, <1>3, <1>4 DEF Breaks
  <1>5. CASE lines[i].kind = "chained" /\ ~HashMatches(key, lines[i])
    <2>1. ~HashMatches(key, new[i])
      BY <1>5 DEF Mended
    <2>2. QED
      BY <1>1, <1>3, <1>5, <2>1 DEF Breaks
  <1>6. CASE /\ lines[i].kind = "chained" /\ HashMatches(key, lines[i])
             /\ lines[i].prev # PrevExpected(lines, i)
    <2>1. i \in Matched(lines, key)
      BY <1>1, <1>6 DEF Matched
    <2>2. lines[i].prev # PrevExpected(new, i)
      BY <1>6 DEF Mended
    <2>3. CASE Sources(lines, key, i) = {}
      <3>1. new[i].prev = lines[i].prev
        BY <2>1, <2>3, RehashedLine
      <3>2. QED
        BY <1>1, <1>3, <1>6, <2>2, <3>1 DEF Breaks
    <2>4. CASE Sources(lines, key, i) # {}
      <3>1. PICK h \in Sources(lines, key, i) : new[i].prev = new[h].hash
        BY <2>1, <2>4, RehashedLine
      <3>2. h \in ChainedBefore(lines, i) /\ lines[h].hash = lines[i].prev
        BY <3>1 DEF Sources, Matched, ChainedBefore
      <3>3. PICK j \in ChainedBefore(lines, i) :
              /\ \A k \in ChainedBefore(lines, i) : k <= j
              /\ PrevExpected(lines, i) = lines[j].hash
              /\ j = CHOOSE m \in ChainedBefore(lines, i) :
                       \A k \in ChainedBefore(lines, i) : k <= m
        BY <1>1, <3>2, ExpectedIsEarlier
      <3>4. h # j
        BY <1>6, <3>2, <3>3
      <3>5. h < j
        <4>1. h \in 1..Len(lines) /\ j \in 1..Len(lines) /\ h <= j
          BY <1>2, <3>2, <3>3 DEF ChainedBefore
        <4>2. QED
          BY <1>2, <3>4, <4>1
      <3>6. ChainedBefore(new, i) = ChainedBefore(lines, i)
        BY <1>1, RewrittenLines
      <3>7. PrevExpected(new, i) = new[j].hash
        BY <3>2, <3>3, <3>6, Zenon DEF PrevExpected
      <3>8. IntactBefore(new, key, i) /\ IsSeq(new)
        <4>1. i \in Nat
          BY <1>1, <1>2
        <4>2. QED
          BY <1>3, <4>1, IntactStays DEF IsLog
      <3>9. new[h].hash # new[j].hash
        <4>1. h \in ChainedBefore(new, i) /\ j \in ChainedBefore(new, i)
          BY <3>2, <3>6
        <4>2. i \in Nat
          BY <1>1, <1>2
        <4>3. QED
          BY <3>5, <3>8, <4>1, <4>2, HashesDiffer
      <3>10. QED
        BY <1>1, <1>3, <1>6, <3>1, <3>7, <3>9 DEF Breaks
    <2>5. QED
      BY <2>3, <2>4
  <1>7. QED
    BY <1>4, <1>5, <1>6 DEF Breaks

LEMMA RewrittenFirstBreak ==
  ASSUME NEW lines, IsLog(lines), NEW key, NEW new, new = Rewritten(lines, key), NEW i, i = FirstBreak(lines, key)
  PROVE  \/ FirstBreak(new, key) = i
         \/ i # 0 /\ lines[i].kind = "chained" /\ Mended(lines, new, key, i)
  <1>1. DOMAIN lines = 1..Len(lines) /\ Len(lines) \in Nat /\ IsSeq(lines)
    BY DEF IsLog, IsSeq
  <1>2. DOMAIN new = DOMAIN lines /\ IsSeq(new)
    BY RewrittenIsLog DEF IsLog
  <1>3. CASE Breaks(lines, key) = {}
    <2>1. i = 0
      BY <1>3 DEF FirstBreak, VerifyOk
    <2>2. IntactBefore(lines, key, Len(lines) + 1)
      BY <1>3 DEF IntactBefore
    <2>3. IntactBefore(new, key, Len(lines) + 1)
      BY <1>1, <2>2, IntactStays
    <2>4. Breaks(new, key) = {}
      BY <1>1, <1>2, <2>3 DEF IntactBefore, Breaks
    <2>5. QED
      BY <2>1, <2>4 DEF FirstBreak, VerifyOk
  <1>4. CASE Breaks(lines, key) # {}
    <2>1. Breaks(lines, key) \in SUBSET Nat
      BY <1>1 DEF Breaks
    <2>2. PICK m \in Breaks(lines, key) : \A k \in Breaks(lines, key) : m <= k
      BY <1>4, <2>1, Least
    <2>3. m \in Nat /\ IntactBefore(lines, key, m)
      BY <1>1, <2>1, <2>2 DEF IntactBefore
    <2>4. i = m /\ m # 0
      <3>1. m # 0
        BY <1>1 DEF Breaks
      <3>2. QED
        BY <1>1, <2>3, <3>1, FirstBreakIs
    <2>5. CASE ~(lines[m].kind = "chained" /\ Mended(lines, new, key, m))
      <3>1. m \in Breaks(new, key) /\ IntactBefore(new, key, m)
        BY <2>3, <2>5, BreakStays, IntactStays
      <3>2. QED
        BY <1>2, <2>4, <3>1, FirstBreakIs
    <2>6. QED
      BY <2>4, <2>5
  <1>5. QED
    BY <1>3, <1>4

\* rewrite_redacted() moves the first break of no log, however it came to be broken,
\* except where the masking itself puts it right: for any number of rewrites, all
\* with the verifier's key, whatever crashes, as long as no append is made without
\* the lock.
THEOREM FirstBreakStays ==
  ASSUME "nolock" \notin Fault, \A r \in Rewriter : KeyOf[r] = AuditKey
  PROVE  RewriteSpec => []FirstBreakKept
  <1>1. AllTypes /\ FreshInv => FirstBreakKept
    <2>1. SUFFICES ASSUME AllTypes, FreshInv, NEW r \in Rewriter,
                          rstep[r] \in {"tmp", "fill", "overwrite"}
                   PROVE  LET i == FirstBreak(log, AuditKey)
                          IN  \/ FirstBreak(plan[r], AuditKey) = i
                              \/ i # 0 /\ log[i].kind = "chained" /\ Mended(log, plan[r], AuditKey, i)
      BY DEF FirstBreakKept
    <2>2. plan[r] = Rewritten(log, AuditKey) /\ IsLog(log)
      BY <2>1 DEF FreshInv, AllTypes, TypeInv, TypeOK
    <2>3. QED
      BY <2>2, RewrittenFirstBreak
  <1>2. AllTypes /\ HoldInv /\ FreshInv /\ [RewriteNext]_rewriteVars => HoldInv' /\ FreshInv'
    BY NextFresh
  <1>3. QED
    BY InitRewriteTypes, NextRewriteTypes, InitFresh, <1>1, <1>2, PTL DEF RewriteSpec

-----------------------------------------------------------------------------
(* No append is lost: the rewrite implements AuditTrail                      *)

\* No write is cut short and no append goes on without the lock.  Processes may die,
\* and a lock may not be had, a tail not be read and a write fail, at any time ...
Mild == "nolock" \notin Fault /\ "short" \notin Fault

\* ... but for one: a rewrite that has created its tmp file gets to removing it.
Carries ==
  \A r \in Rewriter :
    rstep[r] \in {"fill", "overwrite", "finish", "unlink"} => rstep'[r] # "idle"

\* Then only a rewrite under way leaves a half line or a tmp file.
TraceInv ==
  /\ torn => \E r \in Rewriter : rstep[r] = "finish"
  /\ tmp # NoTmp => \E r \in Rewriter : rstep[r] \in {"fill", "overwrite", "finish", "unlink"}

TrailInv == AllTypes /\ MaskInv /\ HoldInv /\ FreshInv /\ TraceInv

\* Up to masking, redact_lines() changes no text.
LEMMA RewrittenTexts ==
  ASSUME NEW lines, IsLog(lines), NEW key
  PROVE  MaskedTexts(Rewritten(lines, key)) = MaskedTexts(lines)
  <1> DEFINE new == Rewritten(lines, key)
  <1>1. DOMAIN new = DOMAIN lines
    BY RewrittenIsLog
  <1>2. ASSUME NEW i \in DOMAIN lines
        PROVE  (IF new[i].kind = "junk" THEN NoBody ELSE Mask[new[i].body]) =
                 (IF lines[i].kind = "junk" THEN NoBody ELSE Mask[lines[i].body])
    <2>1. /\ new[i].kind = lines[i].kind
          /\ new[i].kind # "junk" => lines[i].body \in Body /\ new[i].body = Mask[lines[i].body]
      BY RewrittenIsLog
    <2> HIDE DEF new
    <2>2. QED
      BY <2>1, MaskAssumption
  <1> HIDE DEF new
  <1>3. MaskedTexts(new) = MaskedTexts(lines)
    BY <1>1, <1>2 DEF MaskedTexts
  <1>4. QED
    BY <1>3 DEF new

Long(f, n) == f = [i \in 1..n |-> f[i]]

LEMMA AppendIsExtension ==
  ASSUME NEW n \in Nat, NEW f, Long(f, n), NEW g, Long(g, n + 1),
         \A i \in 1..n : g[i] = f[i]
  PROVE  g = Append(f, g[n + 1])
  <1> USE DEF Long
  <1> DEFINE a == Append(f, g[n + 1])
             S == {f[i] : i \in 1..n} \cup {g[n + 1]}
  <1>1. f \in [1..n -> S]
    OBVIOUS
  <1>2. f \in Seq(S) /\ Len(f) = n /\ g[n + 1] \in S
    <2>1. g[n + 1] \in S
      OBVIOUS
    <2> HIDE DEF S
    <2>2. QED
      BY <1>1, <2>1, SeqDef
  <1>3. /\ a \in Seq(S) /\ Len(a) = n + 1
        /\ \A i \in 1..n : a[i] = f[i]
        /\ a[n + 1] = g[n + 1]
    <2> HIDE DEF S
    <2>1. QED
      BY <1>2
  <1>4. a = [i \in 1..n + 1 |-> a[i]]
    <2> HIDE DEF a, S
    <2>1. QED
      BY <1>3
  <1>5. \A i \in 1..n + 1 : i \in 1..n \/ i = n + 1
    OBVIOUS
  <1> HIDE DEF a, S
  <1>6. \A i \in 1..n + 1 : a[i] = g[i]
    BY <1>3, <1>5
  <1>7. [i \in 1..n + 1 |-> a[i]] = [i \in 1..n + 1 |-> g[i]]
    BY <1>6
  <1>8. a = g
    BY <1>4, <1>7, Zenon
  <1>9. QED
    BY <1>8 DEF a

\* A line appended to a log adds its text.
LEMMA AppendedTexts ==
  ASSUME NEW lines, IsLog(lines), NEW l, l.kind # "junk"
  PROVE  MaskedTexts(Append(lines, l)) = Append(MaskedTexts(lines), Mask[l.body])
  <1> DEFINE was == MaskedTexts(lines)
             now == MaskedTexts(Append(lines, l))
             len == Len(lines)
  <1>1. /\ len \in Nat /\ DOMAIN lines = 1..len
        /\ DOMAIN Append(lines, l) = 1..len + 1
        /\ \A i \in 1..len : Append(lines, l)[i] = lines[i]
        /\ Append(lines, l)[len + 1] = l
    BY AppendIsSeq DEF IsLog
  <1>2. Long(was, len)
    BY <1>1 DEF MaskedTexts, Long
  <1>3. Long(now, len + 1) /\ now[len + 1] = Mask[l.body]
    BY <1>1 DEF MaskedTexts, Long
  <1>4. \A i \in 1..len : now[i] = was[i]
    BY <1>1 DEF MaskedTexts
  <1> HIDE DEF was, now, len
  <1>5. now = Append(was, now[len + 1])
    BY <1>1, <1>2, <1>3, <1>4, AppendIsExtension
  <1>6. QED
    BY <1>3, <1>5 DEF was, now

\* At most one rewriter is in the middle of its write, and Logical is its plan.
LEMMA LogicalIsPlan ==
  ASSUME HoldInv
  PROVE  /\ \A r \in Rewriter : rstep[r] = "finish" => Logical = plan[r]
         /\ (\A r \in Rewriter : rstep[r] # "finish") => Logical = log
  <1>1. ASSUME NEW r \in Rewriter, rstep[r] = "finish"
        PROVE  Logical = plan[r]
    <2>1. \A q \in Rewriter : rstep[q] = "finish" => q = r
      BY <1>1 DEF HoldInv, Holding
    <2>2. (CHOOSE q \in Rewriter : rstep[q] = "finish") = r
      BY <1>1, <2>1
    <2>3. QED
      BY <1>1, <2>2, Zenon DEF Logical
  <1>2. ASSUME \A r \in Rewriter : rstep[r] # "finish"
        PROVE  Logical = log
    BY <1>2, Zenon DEF Logical
  <1>3. QED
    BY <1>1, <1>2

\* The steps of append() that happen there.
LEMMA MildSteps ==
  ASSUME Mild, NEW w \in Writer, Step(w) \/ Crash(w)
  PROVE  \/ AcquireLock(w) \/ ReadTail(w) \/ ReadTailFails(w)
         \/ WriteLine(w) \/ WriteFails(w) \/ Close(w) \/ Crash(w)
  BY DEF Mild, Step, LockFails, WriteShort

LEMMA AppendStepTraces ==
  ASSUME Mild, HoldInv, TraceInv, UNCHANGED rvars,
         \/ \E w \in Writer, b \in Input : ~Rewriting(w) /\ Room /\ Open(w, b)
         \/ \E w \in Writer : Step(w) \/ Crash(w)
  PROVE  TraceInv'
  <1>1. UNCHANGED <<rstep, tmp>>
    BY DEF rvars
  <1>2. torn' => torn
    BY MildSteps DEF Open, AcquireLock, ReadTail, ReadTailFails, WriteLine, WriteFails, Close, Crash,
       Release
  <1>3. QED
    BY <1>1, <1>2 DEF TraceInv

LEMMA RewriteStepTraces ==
  ASSUME Carries, AllTypes, HoldInv, TraceInv, NEW r \in Rewriter,
         CheckTmp(r) \/ RewriteStep(r) \/ RewriteCrash(r)
  PROVE  TraceInv'
  <1> DEFINE Late == {"fill", "overwrite", "finish", "unlink"}
  <1>1. CASE \/ CheckTmp(r) \/ ReadUnlocked(r) \/ RewriteLock(r) \/ RewriteLockFails(r)
             \/ RefuseOrNothing(r) \/ Decide(r) \/ Unlock(r) \/ AppendMarker(r) \/ RewriteCrash(r)
    <2>1. UNCHANGED <<torn, tmp>>
      BY <1>1 DEF CheckTmp, ReadUnlocked, RewriteLock, RewriteLockFails, RefuseOrNothing, Decide,
                  Unlock, AppendMarker, RewriteCrash, Open, vars
    <2>2. \A q \in Rewriter : rstep[q] \in Late => rstep'[q] = rstep[q]
      BY <1>1 DEF CheckTmp, ReadUnlocked, RewriteLock, RewriteLockFails, RefuseOrNothing, Leave,
                  Decide, Unlock, AppendMarker, RewriteCrash, Carries, AllTypes, RewriteTypes
    <2>3. QED
      BY <2>1, <2>2 DEF TraceInv
  <1>2. CASE CreateTmp(r) \/ FillTmp(r)
    <2>1. UNCHANGED torn
      BY <1>2 DEF CreateTmp, FillTmp, vars
    <2>2. \A q \in Rewriter : IF q = r
                              THEN rstep[q] # "finish" /\ rstep'[q] \in {"fill", "overwrite"}
                              ELSE rstep'[q] = rstep[q]
      BY <1>2 DEF CreateTmp, FillTmp, AllTypes, RewriteTypes
    <2>3. QED
      BY <2>1, <2>2 DEF TraceInv
  <1>3. CASE Overwrite(r) \/ Finish(r)
    <2>1. rstep'[r] \in {"finish", "unlink"} /\ (torn' => rstep'[r] = "finish")
      BY <1>3 DEF Overwrite, Finish, AllTypes, RewriteTypes
    <2>2. QED
      BY <2>1 DEF TraceInv
  <1>4. CASE Unlink(r)
    <2>1. UNCHANGED torn /\ tmp' = NoTmp
      BY <1>4 DEF Unlink, vars
    <2>2. \A q \in Rewriter : rstep[q] = "finish" => rstep'[q] = "finish"
      BY <1>4 DEF Unlink, AllTypes, RewriteTypes
    <2>3. QED
      BY <2>1, <2>2 DEF TraceInv
  <1>5. QED
    BY <1>1, <1>2, <1>3, <1>4 DEF RewriteStep

LEMMA UnchangedTrailInv ==
  ASSUME Mild, TrailInv, UNCHANGED rewriteVars
  PROVE  TrailInv'
  <1>1. AllTypes' /\ MaskInv' /\ HoldInv' /\ FreshInv'
    BY NextRewriteTypes, NextMasks, NextFresh DEF Mild, TrailInv
  <1>2. TraceInv'
    BY DEF TrailInv, TraceInv, rewriteVars, vars, rvars
  <1>3. QED
    BY <1>1, <1>2 DEF TrailInv

LEMMA NextTrailInv ==
  ASSUME Mild, Carries, TrailInv, [RewriteNext]_rewriteVars
  PROVE  TrailInv'
  <1> USE DEF TrailInv
  <1>1. AllTypes' /\ MaskInv' /\ HoldInv' /\ FreshInv'
    BY NextRewriteTypes, NextMasks, NextFresh DEF Mild
  <1>2. CASE Restore
    BY <1>2 DEF Restore, Rewriting, TraceInv
  <1>3. CASE UNCHANGED rewriteVars
    BY <1>3, UnchangedTrailInv
  <1>4. ASSUME NEW r \in Rewriter, CheckTmp(r) \/ RewriteStep(r) \/ RewriteCrash(r)
        PROVE  TraceInv'
    BY <1>4, RewriteStepTraces
  <1>5. QED
    BY <1>1, <1>2, <1>3, <1>4, AppendStepTraces DEF RewriteNext

\* Opening the log, for a tool's entry or the marker, begins an append.
LEMMA OpenBegins ==
  ASSUME AllTypes, NEW w \in Writer, NEW b \in Input \cup {Marker}, Open(w, b),
         MaskedTexts(Logical)' = MaskedTexts(Logical)
  PROVE  RewriteTrail!TrailNext
  <1>1. Phase[w] = "idle" /\ Phase' = [Phase EXCEPT ![w] = "pending"]
    BY DEF AllTypes, TypeInv, TypeOK, Open, Phase
  <1>2. entry' = [entry EXCEPT ![w] = Mask[b]] /\ UNCHANGED lost
    BY DEF Open
  <1>3. RewriteTrail!Begin(w, Mask[b])
    BY <1>1, <1>2 DEF RewriteTrail!Begin
  <1>4. QED
    BY <1>3 DEF RewriteTrail!TrailNext

LEMMA AppendStepTrail ==
  ASSUME Mild, TrailInv, TrailInv', UNCHANGED rvars,
         \/ \E w \in Writer, b \in Input : ~Rewriting(w) /\ Room /\ Open(w, b)
         \/ \E w \in Writer : Step(w) \/ Crash(w)
  PROVE  RewriteTrail!TrailNext \/ UNCHANGED RewriteTrail!trailVars
  <1>0. UNCHANGED <<rstep, plan>>
    BY DEF rvars
  <1>1. ASSUME UNCHANGED log
        PROVE  MaskedTexts(Logical)' = MaskedTexts(Logical)
    BY <1>0, <1>1 DEF MaskedTexts, Logical
  <1>2. ASSUME NEW w \in Writer, NEW b \in Input, Open(w, b)
        PROVE  RewriteTrail!TrailNext
    <2>1. UNCHANGED log
      BY <1>2 DEF Open
    <2>2. QED
      BY <1>1, <1>2, <2>1, OpenBegins DEF TrailInv
  <1>3. ASSUME NEW w \in Writer, AcquireLock(w) \/ ReadTail(w) \/ ReadTailFails(w)
        PROVE  UNCHANGED RewriteTrail!trailVars
    <2>1. UNCHANGED <<log, entry, lost>>
      BY <1>3 DEF AcquireLock, ReadTail, ReadTailFails
    <2>2. Phase' = Phase
      BY <1>3 DEF AcquireLock, ReadTail, ReadTailFails, Phase, TrailInv, AllTypes, TypeInv, TypeOK
    <2>3. QED
      BY <1>1, <2>1, <2>2 DEF RewriteTrail!trailVars
  <1>4. ASSUME NEW w \in Writer, WriteLine(w)
        PROVE  RewriteTrail!TrailNext
    <2> DEFINE line == NewEntry(KeyOf[w], entry[w], prev[w])
    <2>1. (\A r \in Rewriter : rstep[r] # "finish") /\ ~torn
      BY <1>4, WriterAlone DEF WriteLine, TrailInv, TraceInv, Holding
    <2>2. Logical = log /\ Logical' = log'
      <3>1. HoldInv' /\ \A r \in Rewriter : rstep'[r] # "finish"
        BY <1>0, <2>1 DEF TrailInv
      <3>2. Logical = log
        BY <2>1, LogicalIsPlan DEF TrailInv
      <3>3. Logical' = log'
        BY <1>0, <2>1, Zenon DEF Logical
      <3>4. QED
        BY <3>2, <3>3
    <2>3. log' = Append(log, line)
      BY <1>4, <2>1 DEF WriteLine, Glued
    <2>4. line.kind # "junk" /\ line.body = entry[w]
      BY DEF NewEntry, Chained
    <2> HIDE DEF line
    <2>5. MaskedTexts(log') = Append(MaskedTexts(log), Mask[line.body])
      BY <2>3, <2>4, AppendedTexts DEF TrailInv, AllTypes, TypeInv, TypeOK
    <2>6. Mask[line.body] = entry[w]
      BY <1>4, <2>4 DEF WriteLine, TrailInv, MaskInv
    <2>7. MaskedTexts(Logical)' = Append(MaskedTexts(Logical), entry[w])
      <3>1. MaskedTexts(Logical)' = MaskedTexts(log')
        BY <2>2 DEF MaskedTexts
      <3>2. QED
        BY <2>2, <2>5, <2>6, <3>1
    <2>8. Phase[w] = "pending" /\ Phase' = [Phase EXCEPT ![w] = "recorded"]
      BY <1>4 DEF WriteLine, Phase, TrailInv, AllTypes, TypeInv, TypeOK
    <2>9. UNCHANGED <<entry, lost>>
      BY <1>4 DEF WriteLine
    <2>10. RewriteTrail!Record(w)
      BY <2>7, <2>8, <2>9 DEF RewriteTrail!Record
    <2>11. QED
      BY <2>10 DEF RewriteTrail!TrailNext
  <1>5. ASSUME NEW w \in Writer, Close(w)
        PROVE  RewriteTrail!TrailNext
    <2>1. Phase[w] = "recorded" /\ Phase' = [Phase EXCEPT ![w] = "idle"]
      BY <1>5 DEF Close, Release, Phase, TrailInv, AllTypes, TypeInv, TypeOK
    <2>2. UNCHANGED <<log, lost>> /\ entry' = [entry EXCEPT ![w] = NoBody]
      BY <1>5 DEF Close, Release
    <2>3. RewriteTrail!Return(w)
      BY <1>1, <2>1, <2>2 DEF RewriteTrail!Return
    <2>4. QED
      BY <2>3 DEF RewriteTrail!TrailNext
  <1>6. ASSUME NEW w \in Writer, WriteFails(w)
        PROVE  RewriteTrail!TrailNext
    <2>1. Phase[w] = "pending" /\ Phase' = [Phase EXCEPT ![w] = "recorded"]
      BY <1>6 DEF WriteFails, Phase, TrailInv, AllTypes, TypeInv, TypeOK
    <2>2. UNCHANGED <<log, entry>> /\ lost' = TRUE
      BY <1>6 DEF WriteFails
    <2>3. RewriteTrail!Lose(w)
      BY <1>1, <2>1, <2>2 DEF RewriteTrail!Lose
    <2>4. QED
      BY <2>3 DEF RewriteTrail!TrailNext
  <1>7. ASSUME NEW w \in Writer, Crash(w)
        PROVE  RewriteTrail!TrailNext
    <2>1. Phase[w] # "idle" /\ Phase' = [Phase EXCEPT ![w] = "idle"]
      BY <1>7 DEF Crash, Release, Phase, TrailInv, AllTypes, TypeInv, TypeOK
    <2>2. UNCHANGED <<log, lost>> /\ entry' = [entry EXCEPT ![w] = NoBody]
      BY <1>7 DEF Crash, Release
    <2>3. RewriteTrail!Die(w)
      BY <1>1, <2>1, <2>2 DEF RewriteTrail!Die
    <2>4. QED
      BY <2>3 DEF RewriteTrail!TrailNext
  <1>8. QED
    BY <1>2, <1>3, <1>4, <1>5, <1>6, <1>7, MildSteps

LEMMA RewriteStepTrail ==
  ASSUME Carries, TrailInv, TrailInv', NEW r \in Rewriter,
         CheckTmp(r) \/ RewriteStep(r) \/ RewriteCrash(r)
  PROVE  RewriteTrail!TrailNext \/ UNCHANGED RewriteTrail!trailVars
  <1> USE DEF TrailInv
  <1>w. r \in Writer
    BY RewriterAssumption
  <1>0. ASSUME UNCHANGED log,
               \A q \in Rewriter : \/ rstep[q] # "finish" /\ rstep'[q] # "finish"
                                   \/ rstep'[q] = rstep[q] /\ plan'[q] = plan[q]
        PROVE  MaskedTexts(Logical)' = MaskedTexts(Logical)
    <2>1. CASE \E q \in Rewriter : rstep[q] = "finish"
      <3>1. PICK q \in Rewriter : rstep[q] = "finish"
        BY <2>1
      <3>2. rstep'[q] = "finish" /\ plan'[q] = plan[q]
        BY <1>0, <3>1
      <3>3. Logical = plan[q]
        BY <3>1, LogicalIsPlan
      <3>4. \A p \in Rewriter : rstep'[p] = "finish" => p = q
        BY <3>2 DEF HoldInv, Holding
      <3>5. (CHOOSE p \in Rewriter : rstep'[p] = "finish") = q
        BY <3>2, <3>4
      <3>6. Logical' = plan'[q]
        BY <3>2, <3>5, Zenon DEF Logical
      <3>7. QED
        BY <3>2, <3>3, <3>6 DEF MaskedTexts
    <2>2. CASE \A q \in Rewriter : rstep[q] # "finish"
      <3>1. \A q \in Rewriter : rstep'[q] # "finish"
        BY <1>0, <2>2
      <3>2. Logical = log
        BY <2>2, LogicalIsPlan
      <3>3. Logical' = log'
        BY <3>1, Zenon DEF Logical
      <3>4. QED
        BY <1>0, <3>2, <3>3 DEF MaskedTexts
    <2>3. QED
      BY <2>1, <2>2
  <1>1. CASE \/ CheckTmp(r) \/ ReadUnlocked(r) \/ RewriteLock(r) \/ RewriteLockFails(r)
             \/ RefuseOrNothing(r) \/ Decide(r) \/ CreateTmp(r) \/ FillTmp(r) \/ Unlink(r) \/ Unlock(r)
             \/ RewriteCrash(r)
    <2>1. UNCHANGED <<log, pc, entry, lost>>
      BY <1>1 DEF CheckTmp, ReadUnlocked, RewriteLock, RewriteLockFails, RefuseOrNothing, Decide,
                  CreateTmp, FillTmp, Unlink, Unlock, RewriteCrash, vars, AppendVars
    <2>2. \A q \in Rewriter : \/ rstep[q] # "finish" /\ rstep'[q] # "finish"
                              \/ rstep'[q] = rstep[q] /\ plan'[q] = plan[q]
      BY <1>1 DEF CheckTmp, ReadUnlocked, RewriteLock, RewriteLockFails, RefuseOrNothing, Leave,
                  Decide, CreateTmp, FillTmp, Unlink, Unlock, RewriteCrash, Carries, AllTypes, RewriteTypes
    <2>3. MaskedTexts(Logical)' = MaskedTexts(Logical)
      BY <1>0, <2>1, <2>2
    <2>4. Phase' = Phase
      BY <2>1 DEF Phase
    <2>5. QED
      BY <2>1, <2>3, <2>4 DEF RewriteTrail!trailVars
  <1>2. CASE Overwrite(r)
    <2>1. rstep[r] = "overwrite" /\ rstep'[r] = "finish" /\ UNCHANGED <<plan, pc, entry, lost>>
      BY <1>2 DEF Overwrite, AppendVars, AllTypes, RewriteTypes
    <2>2. \A q \in Rewriter : rstep[q] # "finish"
      BY <2>1 DEF HoldInv, Holding
    <2>3. Logical = log
      BY <2>2, LogicalIsPlan
    <2>4. \A q \in Rewriter : rstep'[q] = "finish" => q = r
      BY <2>1 DEF HoldInv, Holding
    <2>5. (CHOOSE q \in Rewriter : rstep'[q] = "finish") = r
      BY <2>1, <2>4
    <2>6. Logical' = plan[r]
      BY <2>1, <2>5, Zenon DEF Logical
    <2>7. MaskedTexts(plan[r]) = MaskedTexts(log)
      BY <2>1, RewrittenTexts DEF FreshInv, AllTypes, TypeInv, TypeOK
    <2>8. MaskedTexts(Logical)' = MaskedTexts(Logical)
      <3>1. MaskedTexts(Logical)' = MaskedTexts(plan[r])
        BY <2>6 DEF MaskedTexts
      <3>2. QED
        BY <2>3, <2>7, <3>1
    <2>9. Phase' = Phase
      BY <2>1 DEF Phase
    <2>10. QED
      BY <2>1, <2>8, <2>9 DEF RewriteTrail!trailVars
  <1>3. CASE Finish(r)
    <2>1. rstep[r] = "finish" /\ rstep'[r] = "unlink" /\ log' = plan[r] /\ UNCHANGED <<plan, pc, entry, lost>>
      BY <1>3 DEF Finish, AppendVars, AllTypes, RewriteTypes
    <2>2. Logical = plan[r]
      BY <2>1, LogicalIsPlan
    <2>3. \A q \in Rewriter : rstep'[q] # "finish"
      BY <2>1 DEF HoldInv, Holding
    <2>4. Logical' = log'
      BY <2>3, Zenon DEF Logical
    <2>5. MaskedTexts(Logical)' = MaskedTexts(Logical)
      BY <2>1, <2>2, <2>4 DEF MaskedTexts
    <2>6. Phase' = Phase
      BY <2>1 DEF Phase
    <2>7. QED
      BY <2>1, <2>5, <2>6 DEF RewriteTrail!trailVars
  <1>4. CASE AppendMarker(r)
    <2>1. UNCHANGED log /\ Open(r, Marker)
      BY <1>4 DEF AppendMarker, Open
    <2>2. \A q \in Rewriter : \/ rstep[q] # "finish" /\ rstep'[q] # "finish"
                              \/ rstep'[q] = rstep[q] /\ plan'[q] = plan[q]
      BY <1>4 DEF AppendMarker, AllTypes, RewriteTypes
    <2>3. MaskedTexts(Logical)' = MaskedTexts(Logical)
      BY <1>0, <2>1, <2>2
    <2>4. QED
      BY <1>w, <2>1, <2>3, OpenBegins
  <1>5. QED
    BY <1>1, <1>2, <1>3, <1>4 DEF RewriteStep

LEMMA InitTrailInv ==
  ASSUME RewriteInit
  PROVE  TrailInv /\ RewriteTrail!TrailInit
  <1>1. AllTypes
    BY InitRewriteTypes
  <1>2. MaskInv /\ HoldInv /\ FreshInv
    BY InitFresh DEF RewriteInit, Init, MaskInv
  <1>3. TraceInv
    BY DEF RewriteInit, Init, TraceInv
  <1>4. Logical = log
    BY <1>2, LogicalIsPlan DEF RewriteInit
  <1>5. Phase = [w \in Writer |-> "idle"]
    BY DEF RewriteInit, Init, Phase
  <1>6. RewriteTrail!TrailInit
    BY <1>4, <1>5 DEF RewriteInit, Init, RewriteTrail!TrailInit
  <1>7. QED
    BY <1>1, <1>2, <1>3, <1>6 DEF TrailInv

\* "Concurrent appends are never lost": any number of rewrites and appends at once
\* implement, up to masking, the exactly-once trail, also where processes die,
\* rewrites give up on a lock that is taken, and appends cannot read the tail or
\* write.  Only a rewrite that dies between creating its tmp file and removing it
\* (rewrite_redacted, the write in place) may cost entries, with the restoring.
THEOREM DyingLosesNothing ==
  ASSUME Mild
  PROVE  RewriteSpec /\ [][Carries]_rewriteVars => RewriteKeepsTrail
  <1>1. RewriteInit => TrailInv /\ RewriteTrail!TrailInit
    BY InitTrailInv
  <1>2. TrailInv /\ [RewriteNext]_rewriteVars /\ [Carries]_rewriteVars => TrailInv'
    BY NextTrailInv, UnchangedTrailInv
  <1>3. TrailInv /\ TrailInv' /\ [RewriteNext]_rewriteVars /\ [Carries]_rewriteVars =>
          [RewriteTrail!TrailNext]_(RewriteTrail!trailVars)
    <2>1. SUFFICES ASSUME TrailInv, TrailInv', [RewriteNext]_rewriteVars, [Carries]_rewriteVars
                   PROVE  RewriteTrail!TrailNext \/ UNCHANGED RewriteTrail!trailVars
      OBVIOUS
    <2>2. CASE Restore
      BY <2>1, <2>2 DEF Restore, Rewriting, TrailInv, TraceInv
    <2>3. CASE UNCHANGED rewriteVars
      <3>1. UNCHANGED <<log, pc, entry, lost, rstep, plan>>
        BY <2>3 DEF rewriteVars, vars, rvars
      <3>2. MaskedTexts(Logical)' = MaskedTexts(Logical)
        BY <3>1 DEF MaskedTexts, Logical
      <3>3. Phase' = Phase
        BY <3>1 DEF Phase
      <3>4. QED
        BY <3>1, <3>2, <3>3 DEF RewriteTrail!trailVars
    <2>4. QED
      BY <2>1, <2>2, <2>3, AppendStepTrail, RewriteStepTrail DEF RewriteNext
  <1>4. QED
    BY <1>1, <1>2, <1>3, PTL DEF RewriteSpec, RewriteKeepsTrail, RewriteTrail!TrailSpec

\* Where no process dies, every rewrite carries through.
LEMMA NoneDiesCarries ==
  ASSUME "crash" \notin Fault, AllTypes, RewriteNext
  PROVE  Carries
  <1> SUFFICES ASSUME NEW q \in Rewriter, rstep[q] \in {"fill", "overwrite", "finish", "unlink"}
               PROVE  rstep'[q] # "idle"
    BY DEF Carries
  <1>1. CASE UNCHANGED rstep
    BY <1>1
  <1>2. ASSUME NEW r \in Rewriter, CheckTmp(r) \/ RewriteStep(r) \/ RewriteCrash(r)
        PROVE  rstep'[q] # "idle"
    <2>1. CASE RewriteLockFails(r) \/ RefuseOrNothing(r)
      BY <2>1 DEF RewriteLockFails, RefuseOrNothing, Leave, AllTypes, RewriteTypes
    <2>2. CASE AppendMarker(r)
      BY <2>2 DEF AppendMarker, AllTypes, RewriteTypes
    <2>3. CASE CheckTmp(r) \/ ReadUnlocked(r) \/ RewriteLock(r) \/ Decide(r) \/ CreateTmp(r)
                \/ FillTmp(r) \/ Overwrite(r) \/ Finish(r) \/ Unlink(r) \/ Unlock(r)
      BY <2>3 DEF CheckTmp, ReadUnlocked, RewriteLock, Decide, CreateTmp, FillTmp, Overwrite, Finish,
                  Unlink, Unlock, AllTypes, RewriteTypes
    <2>4. ~RewriteCrash(r)
      BY DEF RewriteCrash
    <2>5. QED
      BY <1>2, <2>1, <2>2, <2>3, <2>4 DEF RewriteStep
  <1>3. CASE Restore
    BY <1>3 DEF Restore
  <1>4. QED
    BY <1>1, <1>2, <1>3 DEF RewriteNext, rvars

\* "Concurrent appends are never lost", where no process dies: whatever is appended
\* while an old log is masked in place stays on record, once and in order.
THEOREM RewriteImplementsTrail ==
  ASSUME Mild, "crash" \notin Fault
  PROVE  RewriteSpec => RewriteKeepsTrail
  <1>1. RewriteSpec => []AllTypes
    BY InitRewriteTypes, NextRewriteTypes, PTL DEF RewriteSpec
  <1>2. AllTypes /\ [RewriteNext]_rewriteVars => [Carries]_rewriteVars
    BY NoneDiesCarries
  <1>3. RewriteSpec => [][Carries]_rewriteVars
    BY <1>1, <1>2, PTL DEF RewriteSpec
  <1>4. QED
    BY <1>3, DyingLosesNothing

-----------------------------------------------------------------------------
(* A sound log stays sound *)

\* redact_lines() makes a sound log of a sound log whose chained lines all match.
LEMMA RewrittenIsSound ==
  ASSUME NEW lines, IsLog(lines), Sound(lines), NEW key, Mismatched(lines, key) = {},
         NEW new, new = Rewritten(lines, key)
  PROVE  Sound(new)
  <1>1. DOMAIN lines = 1..Len(lines) /\ Len(lines) \in Nat
    BY DEF IsLog, IsSeq
  <1>2. DOMAIN new = DOMAIN lines /\ \A i \in DOMAIN lines : new[i].kind = lines[i].kind
    BY RewrittenIsLog
  <1>3. ASSUME NEW i \in DOMAIN lines, lines[i].kind = "chained"
        PROVE  i \in Matched(lines, key) /\ key = AuditKey
    <2>1. i \in Matched(lines, key)
      BY <1>3 DEF Mismatched
    <2>2. lines[i].hash = Digest(key, lines[i].body, lines[i].prev)
      BY <2>1 DEF Matched, HashMatches
    <2>3. lines[i].hash = Digest(AuditKey, lines[i].body, lines[i].prev)
      BY <1>3 DEF Sound, HashMatches
    <2>4. QED
      BY <2>1, <2>2, <2>3 DEF Digest
  <1>4. ASSUME NEW i \in DOMAIN lines, lines[i].kind = "chained"
        PROVE  /\ HashMatches(AuditKey, new[i])
               /\ new[i].prev = IF i > 1 /\ lines[i - 1].kind = "chained"
                                THEN new[i - 1].hash
                                ELSE Genesis
    <2>1. i \in Matched(lines, key) /\ key = AuditKey
      BY <1>3, <1>4
    <2>2. lines[i].prev = IF i > 1 /\ lines[i - 1].kind = "chained" THEN lines[i - 1].hash ELSE Genesis
      BY <1>4 DEF Sound
    <2>3. HashMatches(AuditKey, new[i])
      BY <2>1, RehashedLine
    <2>4. CASE i > 1 /\ lines[i - 1].kind = "chained"
      <3>1. i - 1 \in DOMAIN lines
        BY <1>1, <2>4
      <3>2. i - 1 \in Sources(lines, key, i)
        BY <1>1, <1>3, <2>2, <2>4, <3>1 DEF Sources
      <3>3. PICK j \in Sources(lines, key, i) :
              (\A k \in Sources(lines, key, i) : k <= j) /\ new[i].prev = new[j].hash
        BY <2>1, <3>2, RehashedLine
      <3>4. j = i - 1
        BY <1>1, <3>2, <3>3 DEF Sources, Matched
      <3>5. QED
        BY <2>3, <2>4, <3>3, <3>4
    <2>5. CASE ~(i > 1 /\ lines[i - 1].kind = "chained")
      <3>1. ASSUME NEW j \in Sources(lines, key, i) PROVE FALSE
        <4>1. j \in DOMAIN lines /\ lines[j].kind = "chained" /\ j < i
          BY DEF Sources, Matched
        <4>2. i > 1 /\ i - 1 \in DOMAIN lines
          BY <1>1, <4>1
        <4>3. CASE j = i - 1
          BY <2>5, <4>1, <4>2, <4>3
        <4>4. CASE j < i - 1
          BY <2>5, <4>1, <4>2, <4>4 DEF Sound
        <4>5. QED
          BY <1>1, <4>1, <4>3, <4>4
      <3>2. new[i].prev = Genesis
        BY <2>1, <2>2, <2>5, <3>1, RehashedLine
      <3>3. QED
        BY <2>3, <2>5, <3>2
    <2>6. QED
      BY <2>4, <2>5
  <1>5. \A i \in DOMAIN new : i > 1 => i - 1 \in DOMAIN lines
    BY <1>1, <1>2
  <1>6. \A i \in DOMAIN new : new[i].kind # "junk"
    BY <1>2 DEF Sound
  <1>7. \A i, j \in DOMAIN new : i < j /\ new[i].kind = "chained" => new[j].kind = "chained"
    BY <1>2 DEF Sound
  <1>8. ASSUME NEW i \in DOMAIN new, new[i].kind = "chained"
        PROVE  /\ HashMatches(AuditKey, new[i])
               /\ new[i].prev = IF i > 1 /\ new[i - 1].kind = "chained" THEN new[i - 1].hash ELSE Genesis
    <2>1. i \in DOMAIN lines /\ lines[i].kind = "chained"
      BY <1>2, <1>8
    <2>2. i > 1 => new[i - 1].kind = lines[i - 1].kind
      BY <1>2, <1>5
    <2>3. QED
      BY <1>4, <2>1, <2>2
  <1>9. QED
    BY <1>6, <1>7, <1>8 DEF Sound

\* A rewriter that does not refuse a sound log finds that each chained line in it
\* matches: under a key that is not the verifier's none would.
LEMMA SoundMatches ==
  ASSUME NEW r \in Rewriter, Sound(log), ~Refuses(r)
  PROVE  Mismatched(log, KeyOf[r]) = {}
  <1>1. CASE KeyOf[r] = AuditKey
    BY <1>1 DEF Mismatched, Matched, Sound
  <1>2. CASE KeyOf[r] # AuditKey
    <2>1. ASSUME NEW i \in Matched(log, KeyOf[r]) PROVE FALSE
      <3>1. /\ i \in DOMAIN log /\ log[i].kind = "chained"
            /\ log[i].hash = Digest(KeyOf[r], log[i].body, log[i].prev)
        BY DEF Matched, HashMatches
      <3>2. log[i].hash = Digest(AuditKey, log[i].body, log[i].prev)
        BY <3>1 DEF Sound, HashMatches
      <3>3. QED
        BY <1>2, <3>1, <3>2 DEF Digest
    <2>2. QED
      BY <2>1 DEF Refuses
  <1>3. QED
    BY <1>1, <1>2

Single == \A q, r \in Rewriter : q = r

\* A log in pieces is being written, or nobody touches it before it is restored.
CutInv ==
  /\ \A r \in Rewriter : rstep[r] \in {"overwrite", "finish"} => tmp # NoTmp
  /\ cut => \/ \E r \in Rewriter : rstep[r] = "finish"
            \/ tmp # NoTmp /\ \A r \in Rewriter : rstep[r] = "idle"

LEMMA AppendStepCuts ==
  ASSUME CutInv, UNCHANGED rvars
  PROVE  CutInv'
  BY DEF CutInv, rvars

LEMMA RewriteStepCuts ==
  ASSUME Single \/ Carries, AllTypes, HoldInv, HoldInv', CutInv, NEW r \in Rewriter,
         CheckTmp(r) \/ RewriteStep(r) \/ RewriteCrash(r)
  PROVE  CutInv'
  <1> USE DEF AllTypes, RewriteTypes
  <1> DEFINE Late == {"overwrite", "finish"}
  <1>1. \A q \in Rewriter : q # r => rstep'[q] = rstep[q]
    BY DEF CheckTmp, RewriteStep, ReadUnlocked, RewriteLock, RewriteLockFails, RefuseOrNothing, Leave, Decide,
           CreateTmp, FillTmp, Overwrite, Finish, Unlink, Unlock, AppendMarker, RewriteCrash
  <1>2. CASE CheckTmp(r)
    BY <1>1, <1>2 DEF CheckTmp, CutInv
  <1>3. CASE ReadUnlocked(r) \/ RewriteLock(r) \/ RewriteLockFails(r) \/ AppendMarker(r)
    <2>1. /\ rstep[r] \in {"read", "lock", "marker"} /\ rstep'[r] \notin Late
          /\ UNCHANGED <<tmp, cut>>
      BY <1>3 DEF ReadUnlocked, RewriteLock, RewriteLockFails, Leave, AppendMarker
    <2>2. QED
      BY <1>1, <2>1 DEF CutInv
  <1>4. CASE RefuseOrNothing(r) \/ Decide(r) \/ CreateTmp(r) \/ FillTmp(r) \/ Unlink(r) \/ Unlock(r)
    <2>1. rstep[r] \in Holding \ {"finish"}
      BY <1>4 DEF RefuseOrNothing, Decide, CreateTmp, FillTmp, Unlink, Unlock, Holding
    <2>2. \A q \in Rewriter : q # r => rstep[q] \notin Late
      BY <2>1 DEF HoldInv, Holding
    <2>3. ~cut
      BY <2>1, <2>2 DEF CutInv, Holding
    <2>4. UNCHANGED cut /\ (rstep'[r] \in Late => tmp' # NoTmp)
      BY <1>4 DEF RefuseOrNothing, Leave, Decide, CreateTmp, FillTmp, Unlink, Unlock, NoTmp
    <2>5. QED
      BY <1>1, <2>2, <2>3, <2>4 DEF CutInv
  <1>5. CASE Overwrite(r) \/ Finish(r)
    <2>1. /\ rstep[r] \in Late /\ UNCHANGED tmp
          /\ rstep'[r] = "finish" \/ ~cut'
      BY <1>5 DEF Overwrite, Finish
    <2>2. QED
      BY <1>1, <2>1 DEF CutInv
  <1>6. CASE RewriteCrash(r)
    <2>1. rstep'[r] = "idle" /\ rstep[r] # "idle" /\ UNCHANGED <<tmp, cut>>
      BY <1>6 DEF RewriteCrash, Leave
    <2>2. CASE rstep[r] # "finish"
      BY <1>1, <2>1, <2>2 DEF CutInv
    <2>3. CASE rstep[r] = "finish"
      <3>1. Single
        BY <2>1, <2>3 DEF Carries
      <3>2. \A q \in Rewriter : rstep'[q] = "idle"
        BY <2>1, <3>1 DEF Single
      <3>3. QED
        BY <2>1, <2>3, <3>2 DEF CutInv
    <2>4. QED
      BY <2>2, <2>3
  <1>7. QED
    BY <1>2, <1>3, <1>4, <1>5, <1>6 DEF RewriteStep

LEMMA NextCuts ==
  ASSUME Single \/ Carries, AllTypes, HoldInv, HoldInv', CutInv, RewriteNext
  PROVE  CutInv'
  <1>1. CASE Restore
    BY <1>1 DEF Restore, Rewriting, CutInv
  <1>2. QED
    BY <1>1, AppendStepCuts, RewriteStepCuts DEF RewriteNext

\* Why the chain survives: but for a log in pieces, everything there is, is sound:
\* the log, what is going to be written, and what could be restored; and a process
\* about to append knows the last hash.
SurvivalInv ==
  damage = 0 =>
    /\ ~cut => ~torn /\ Sound(log) /\ \A w \in Writer : pc[w] = "write" => prev[w] = LastHash(log)
    /\ Sound(tmp.lines)
    /\ \A r \in Rewriter : rstep[r] \in {"tmp", "fill", "overwrite", "finish"} =>
         Sound(plan[r]) /\ DOMAIN plan[r] # {}

LEMMA EmptyIsSound == Sound(<<>>)
  <1>1. DOMAIN <<>> = {}
    OBVIOUS
  <1>2. QED
    BY <1>1 DEF Sound

LEMMA AppendStepSurvives ==
  ASSUME "nolock" \notin Fault, AllTypes, HoldInv, SurvivalInv, UNCHANGED rvars,
         \/ \E w \in Writer, b \in Input : ~Rewriting(w) /\ Room /\ Open(w, b)
         \/ \E w \in Writer : Step(w) \/ Crash(w)
  PROVE  SurvivalInv'
  <1> USE DEF AllTypes, TypeInv, TypeOK
  <1> SUFFICES ASSUME damage' = 0
               PROVE  ~cut => ~torn' /\ Sound(log')
                                /\ \A w \in Writer : pc'[w] = "write" => prev'[w] = LastHash(log')
    <2>1. damage' = damage \/ damage' = damage + 1
      BY DEF Open, Step, AcquireLock, LockFails, ReadTail, ReadTailFails, WriteLine, WriteShort, WriteFails,
             Close, Crash, Release
    <2>2. damage' = 0 => damage = 0
      BY <2>1
    <2>3. QED
      BY <2>2 DEF SurvivalInv, rvars
  <1>1. CASE cut
    BY <1>1
  <1>2. CASE ~cut
    <2>1. \/ damage' = damage + 1
          \/ \E w \in Writer : ReadTail(w) \/ WriteLine(w)
          \/ UNCHANGED <<log, torn, prev, damage>> /\ \A w \in Writer : pc'[w] = "write" => pc[w] = "write"
          \/ /\ UNCHANGED <<log, torn, damage>>
             /\ \A w \in Writer : pc'[w] = "write" => pc[w] = "write" /\ prev'[w] = prev[w]
      BY DEF Open, Step, AcquireLock, LockFails, ReadTailFails, WriteShort, WriteFails, Close, Crash, Release
    <2>2. CASE damage' = damage + 1
      BY <2>2
    <2>3. ASSUME NEW w \in Writer, ReadTail(w) PROVE SurvivalInv'
      BY <1>2, <2>3 DEF ReadTail, SurvivalInv, rvars
    <2>4. ASSUME NEW w \in Writer, WriteLine(w)
          PROVE  ~torn' /\ Sound(log') /\ \A v \in Writer : pc'[v] # "write"
      <3>1. KeyOf[w] = AuditKey /\ damage = 0
        BY <2>4 DEF WriteLine
      <3>2. log' = Append(log, NewEntry(AuditKey, entry[w], LastHash(log)))
        BY <1>2, <2>4, <3>1 DEF WriteLine, Glued, SurvivalInv
      <3>3. Sound(log')
        BY <1>2, <3>1, <3>2, AppendKeepsSound DEF SurvivalInv, IsLog
      <3>4. \A v \in Writer : v # w => pc[v] # "write"
        BY <2>4 DEF WriteLine, HoldInv
      <3>5. QED
        BY <2>4, <3>3, <3>4 DEF WriteLine
    <2>5. QED
      BY <1>2, <2>1, <2>2, <2>3, <2>4 DEF SurvivalInv, rvars
  <1>3. QED
    BY <1>1, <1>2

LEMMA RewriteStepSurvives ==
  ASSUME AllTypes, HoldInv, FreshInv, CutInv, SurvivalInv, damage = 0, NEW r \in Rewriter,
         CheckTmp(r) \/ RewriteStep(r) \/ RewriteCrash(r)
  PROVE  SurvivalInv'
  <1> USE DEF AllTypes, RewriteTypes
  <1> DEFINE Planning == {"tmp", "fill", "overwrite", "finish"}
             Same(q) == rstep'[q] \in Planning => rstep[q] \in Planning /\ plan'[q] = plan[q]
  <1>1. \A q \in Rewriter : q # r => Same(q)
    BY DEF CheckTmp, RewriteStep, ReadUnlocked, RewriteLock, RewriteLockFails, RefuseOrNothing, Leave, Decide,
           CreateTmp, FillTmp, Overwrite, Finish, Unlink, Unlock, AppendMarker, RewriteCrash
  <1>2. CASE \/ CheckTmp(r) \/ ReadUnlocked(r) \/ RewriteLock(r) \/ RewriteLockFails(r)
             \/ RefuseOrNothing(r) \/ Unlock(r) \/ AppendMarker(r) \/ RewriteCrash(r)
    <2>1. UNCHANGED <<log, torn, prev, damage, tmp, cut>> /\ rstep'[r] \notin Planning
      BY <1>2 DEF CheckTmp, ReadUnlocked, RewriteLock, RewriteLockFails, RefuseOrNothing, Leave, Unlock,
                  AppendMarker, Open, RewriteCrash, vars, AppendVars
    <2>2. \A w \in Writer : pc'[w] = "write" => pc[w] = "write"
      BY <1>2, RewriterAssumption
      DEF CheckTmp, ReadUnlocked, RewriteLock, RewriteLockFails, RefuseOrNothing, Unlock,
          AppendMarker, Open, RewriteCrash, vars, AppendVars, TypeInv, TypeOK
    <2>3. QED
      BY <1>1, <2>1, <2>2 DEF SurvivalInv
  <1>3. CASE Decide(r)
    <2>1. ~cut
      BY <1>3 DEF Decide, CutInv, HoldInv, Holding
    <2>2. IsLog(log) /\ Sound(log) /\ ~Refuses(r)
      BY <1>3, <2>1 DEF Decide, SurvivalInv, TypeInv, TypeOK
    <2>3. Sound(plan'[r]) /\ DOMAIN plan'[r] # {}
      <3> DEFINE new == Rewritten(log, KeyOf[r])
      <3>1. plan'[r] = new /\ new # log
        BY <1>3 DEF Decide
      <3>2. Sound(new)
        BY <2>2, SoundMatches, RewrittenIsSound
      <3>3. /\ log = [i \in DOMAIN log |-> log[i]]
            /\ new = [i \in DOMAIN log |-> OutLine(log, KeyOf[r], new, i)]
        <4> DEFINE S == {log[i] : i \in DOMAIN log}
        <4>1. log \in Seq(S)
          BY <2>2 DEF IsLog, IsSeq
        <4>2. new = [i \in DOMAIN log |-> OutLine(log, KeyOf[r], new, i)]
          BY <2>2, RewrittenUnfolds DEF IsLog
        <4> HIDE DEF S, new
        <4>3. log = [i \in DOMAIN log |-> log[i]]
          BY <4>1
        <4>4. QED
          BY <4>2, <4>3
      <3> HIDE DEF new
      <3>4. DOMAIN new = DOMAIN log
        BY <3>3
      <3>5. DOMAIN log # {}
        <4>1. SUFFICES ASSUME DOMAIN log = {} PROVE FALSE
          OBVIOUS
        <4>2. [i \in DOMAIN log |-> log[i]] = [i \in DOMAIN log |-> OutLine(log, KeyOf[r], new, i)]
          BY <4>1
        <4>3. QED
          BY <3>1, <3>3, <4>2, Zenon
      <3>6. QED
        BY <3>1, <3>2, <3>4, <3>5
    <2>4. UNCHANGED <<log, torn, pc, prev, damage, tmp, cut>>
      BY <1>3 DEF Decide, vars
    <2>5. QED
      BY <1>1, <2>3, <2>4 DEF SurvivalInv
  <1>4. CASE CreateTmp(r) \/ FillTmp(r) \/ Unlink(r)
    <2>1. UNCHANGED <<log, torn, pc, prev, damage, cut, plan>> /\ Same(r)
      BY <1>4 DEF CreateTmp, FillTmp, Unlink, vars
    <2>2. Sound(tmp'.lines)
      <3>1. tmp'.lines = <<>> \/ (rstep[r] = "fill" /\ tmp'.lines = plan[r])
        BY <1>4 DEF CreateTmp, FillTmp, Unlink, NoTmp, PartialTmp
      <3>2. QED
        BY <3>1, EmptyIsSound DEF SurvivalInv
    <2>3. QED
      BY <1>1, <2>1, <2>2 DEF SurvivalInv
  <1>5. \A w \in Writer : rstep[r] \in Holding => pc[w] # "write"
    BY DEF HoldInv, Holding
  <1>6. CASE Overwrite(r)
    <2>1. /\ UNCHANGED <<pc, prev, damage, plan, tmp>>
          /\ rstep[r] = "overwrite" /\ Same(r)
          /\ cut' = (log' # log)
          /\ torn' = (torn \/ log'[Len(log')] = Junk)
      BY <1>6 DEF Overwrite, AppendVars
    <2>2. ~cut
      BY <2>1 DEF CutInv, HoldInv, Holding
    <2>3. ASSUME ~cut' PROVE ~torn' /\ Sound(log')
      <3>1. log' = log /\ Sound(log) /\ ~torn /\ IsLog(log)
        BY <2>1, <2>2, <2>3 DEF SurvivalInv, TypeInv, TypeOK
      <3>2. DOMAIN log # {}
        <4>1. plan[r] = Rewritten(log, KeyOf[r]) /\ DOMAIN plan[r] # {}
          BY <2>1 DEF FreshInv, SurvivalInv
        <4>2. QED
          BY <3>1, <4>1, RewrittenIsLog
      <3>3. Len(log) \in DOMAIN log
        BY <3>1, <3>2 DEF IsLog, IsSeq
      <3>4. log[Len(log)].kind # "junk"
        BY <3>1, <3>3 DEF Sound
      <3>5. log[Len(log)] # Junk
        BY <3>4 DEF Junk
      <3>6. QED
        BY <2>1, <3>1, <3>5
    <2>4. QED
      BY <1>1, <1>5, <2>1, <2>3 DEF SurvivalInv, Holding
  <1>7. CASE Finish(r)
    <2>1. /\ UNCHANGED <<pc, prev, damage, plan, tmp>>
          /\ rstep[r] = "finish" /\ Same(r)
          /\ log' = plan[r] /\ torn' = FALSE
      BY <1>7 DEF Finish, AppendVars
    <2>2. Sound(log')
      BY <2>1 DEF SurvivalInv
    <2>3. QED
      BY <1>1, <1>5, <2>1, <2>2 DEF SurvivalInv, Holding
  <1>8. QED
    BY <1>2, <1>3, <1>4, <1>6, <1>7 DEF RewriteStep

LEMMA NextSurvives ==
  ASSUME "nolock" \notin Fault, AllTypes, HoldInv, FreshInv, CutInv, SurvivalInv, RewriteNext
  PROVE  SurvivalInv'
  <1>1. CASE Restore
    <2>1. /\ UNCHANGED <<pc, prev, damage, rstep, plan>> /\ InFlight = {}
          /\ log' = tmp.lines /\ torn' = FALSE /\ tmp' = NoTmp
      BY <1>1 DEF Restore, AppendVars
    <2>2. Sound(tmp'.lines)
      BY <2>1, EmptyIsSound DEF NoTmp
    <2>3. \A w \in Writer : pc[w] # "write"
      BY <2>1 DEF InFlight
    <2>4. QED
      BY <2>1, <2>2, <2>3 DEF SurvivalInv
  <1>2. ASSUME NEW r \in Rewriter, CheckTmp(r) \/ RewriteStep(r) \/ RewriteCrash(r)
        PROVE  SurvivalInv'
    <2>1. UNCHANGED damage
      BY <1>2 DEF CheckTmp, RewriteStep, ReadUnlocked, RewriteLock, RewriteLockFails, RefuseOrNothing, Decide,
                  CreateTmp, FillTmp, Overwrite, Finish, Unlink, Unlock, AppendMarker, Open, RewriteCrash,
                  vars, AppendVars
    <2>2. CASE damage = 0
      BY <1>2, <2>2, RewriteStepSurvives
    <2>3. CASE damage # 0
      BY <2>1, <2>3 DEF SurvivalInv
    <2>4. QED
      BY <2>2, <2>3
  <1>3. QED
    BY <1>1, <1>2, AppendStepSurvives DEF RewriteNext

\* "An intact chain stays intact", from the first entry to the last and through
\* every rewrite: several servers append, a process masks the log in place, any of
\* them dies at any step and the operator restores the copy, and verify_chain()
\* accepts what there is whenever no write is half done.  Either one process
\* rewrites, or none dies: with two and a crash the copy itself can be lost.
THEOREM ChainOutlivesRewrites ==
  ASSUME "nolock" \notin Fault, Single \/ "crash" \notin Fault
  PROVE  RewriteSpec => ChainSurvives
  <1> DEFINE Base == AllTypes /\ HoldInv /\ FreshInv /\ CutInv
             Inv == Base /\ SurvivalInv
             Good == damage = 0 /\ ~cut => VerifyOk(log, AuditKey)
  <1>1. RewriteInit => Base
    BY InitRewriteTypes, InitFresh DEF RewriteInit, CutInv
  <1>2. RewriteInit /\ Sound(log) => SurvivalInv
    BY EmptyIsSound DEF RewriteInit, Init, SurvivalInv, NoTmp
  <1>3. Inv /\ [RewriteNext]_rewriteVars => Inv'
    <2>1. SUFFICES ASSUME Inv, [RewriteNext]_rewriteVars PROVE Inv'
      OBVIOUS
    <2>2. AllTypes' /\ HoldInv' /\ FreshInv'
      BY <2>1, NextRewriteTypes, NextFresh
    <2>3. CASE RewriteNext
      <3>1. Single \/ Carries
        BY <2>1, <2>3, NoneDiesCarries
      <3>2. QED
        BY <2>1, <2>2, <2>3, <3>1, NextCuts, NextSurvives
    <2>4. CASE UNCHANGED rewriteVars
      <3>1. CutInv'
        BY <2>1, <2>4 DEF CutInv, rewriteVars, rvars
      <3>2. SurvivalInv'
        BY <2>1, <2>4 DEF SurvivalInv, rewriteVars, vars, rvars
      <3>3. QED
        BY <2>2, <3>1, <3>2
    <2>5. QED
      BY <2>1, <2>3, <2>4
  <1>4. Inv => Good
    <2>1. SUFFICES ASSUME Inv, damage = 0, ~cut PROVE VerifyOk(log, AuditKey)
      OBVIOUS
    <2>2. Sound(log) /\ IsSeq(log)
      BY <2>1 DEF SurvivalInv, AllTypes, TypeInv, TypeOK, IsLog
    <2>3. QED
      BY <2>2, SoundVerifies
  <1> HIDE DEF Base, Good
  <1>5. QED
    BY <1>1, <1>2, <1>3, <1>4, PTL DEF RewriteSpec, ChainSurvives, Good

-----------------------------------------------------------------------------
(* Nobody waits for the lock it has *)

Owns(w) == locked[w] \/ (w \in Rewriter /\ rstep[w] \in Holding)

\* The lock belongs to who was told so and has not left yet, with every fault: an
\* append that goes on without the lock takes it from nobody.
OwnerInv ==
  /\ \A w \in Writer : lock = w <=> Owns(w)
  /\ \A w \in Writer : locked[w] => pc[w] \in {"read", "write", "close"}
  /\ \A r \in Rewriter : rstep[r] # "idle" => pc[r] = "idle"

LEMMA AppendStepOwns ==
  ASSUME AllTypes, OwnerInv, UNCHANGED rvars,
         \/ \E w \in Writer, b \in Input : ~Rewriting(w) /\ Room /\ Open(w, b)
         \/ \E w \in Writer : Step(w) \/ Crash(w)
  PROVE  OwnerInv'
  <1> USE RewriterAssumption, WriterAssumption
      DEF AllTypes, TypeInv, TypeOK, OwnerInv, Owns, Holding
  <1>1. UNCHANGED rstep
    BY DEF rvars
  <1>2. ASSUME NEW w \in Writer, NEW b \in Input, ~Rewriting(w), Open(w, b)
        PROVE  OwnerInv'
    BY <1>1, <1>2 DEF Open, Rewriting
  <1>3. ASSUME NEW w \in Writer, AcquireLock(w) PROVE OwnerInv'
    BY <1>1, <1>3 DEF AcquireLock
  <1>4. ASSUME NEW w \in Writer, LockFails(w) PROVE OwnerInv'
    BY <1>1, <1>4 DEF LockFails
  <1>5. ASSUME NEW w \in Writer,
               \/ ReadTail(w) \/ ReadTailFails(w) \/ WriteLine(w) \/ WriteShort(w) \/ WriteFails(w)
        PROVE  OwnerInv'
    BY <1>1, <1>5 DEF ReadTail, ReadTailFails, WriteLine, WriteShort, WriteFails
  <1>6. ASSUME NEW w \in Writer, Close(w) \/ Crash(w) PROVE OwnerInv'
    BY <1>1, <1>6 DEF Close, Crash, Release
  <1>7. QED
    BY <1>2, <1>3, <1>4, <1>5, <1>6 DEF Step

LEMMA RewriteStepOwns ==
  ASSUME AllTypes, OwnerInv, NEW r \in Rewriter,
         CheckTmp(r) \/ RewriteStep(r) \/ RewriteCrash(r)
  PROVE  OwnerInv'
  <1> USE RewriterAssumption, WriterAssumption
      DEF AllTypes, TypeInv, TypeOK, RewriteTypes, OwnerInv, Owns, Holding
  <1>1. CASE CheckTmp(r) \/ ReadUnlocked(r) \/ Decide(r) \/ CreateTmp(r) \/ FillTmp(r) \/ Unlink(r)
    BY <1>1 DEF CheckTmp, ReadUnlocked, Decide, CreateTmp, FillTmp, Unlink, vars
  <1>2. CASE RewriteLock(r)
    BY <1>2 DEF RewriteLock, AppendVars
  <1>3. CASE RefuseOrNothing(r) \/ RewriteLockFails(r) \/ RewriteCrash(r)
    BY <1>3 DEF RefuseOrNothing, RewriteLockFails, RewriteCrash, Leave, AppendVars
  <1>4. CASE Overwrite(r) \/ Finish(r)
    BY <1>4 DEF Overwrite, Finish, AppendVars
  <1>5. CASE Unlock(r)
    BY <1>5 DEF Unlock, AppendVars
  <1>6. CASE AppendMarker(r)
    BY <1>6 DEF AppendMarker, Open
  <1>7. QED
    BY <1>1, <1>2, <1>3, <1>4, <1>5, <1>6 DEF RewriteStep

\* Whoever has the lock is at a step that does not ask for it: inside append() behind
\* the lock, or inside rewrite_redacted() between the lock and its release, and not
\* already appending its marker entry.
HolderGoesOn ==
  \A w \in Writer : lock = w =>
    \/ pc[w] \in {"read", "write", "close"}
    \/ w \in Rewriter /\ rstep[w] \in Holding /\ pc[w] = "idle"

\* The safety half of AppendFinishes and RewriteFinishes: of the processes that wait
\* for the lock none has it, and its holder never waits for anybody, so that no two
\* wait for each other and none for itself, whatever fails or dies (append() and
\* rewrite_redacted(), whose marker entry goes through a second descriptor).
THEOREM NobodyWaitsForItself == RewriteSpec => []HolderGoesOn
  <1> DEFINE Inv == AllTypes /\ OwnerInv
  <1>1. RewriteInit => Inv
    BY InitRewriteTypes, RewriterAssumption, WriterAssumption DEF RewriteInit, Init, OwnerInv, Owns, Holding
  <1>2. Inv /\ [RewriteNext]_rewriteVars => Inv'
    <2>1. SUFFICES ASSUME Inv, [RewriteNext]_rewriteVars PROVE Inv'
      OBVIOUS
    <2>2. AllTypes'
      BY <2>1, NextRewriteTypes
    <2>3. CASE Restore
      BY <2>1, <2>2, <2>3 DEF Restore, AppendVars, OwnerInv, Owns
    <2>4. CASE UNCHANGED rewriteVars
      BY <2>1, <2>2, <2>4 DEF rewriteVars, vars, rvars, OwnerInv, Owns
    <2>5. QED
      BY <2>1, <2>2, <2>3, <2>4, AppendStepOwns, RewriteStepOwns DEF RewriteNext
  <1>3. Inv => HolderGoesOn
    BY DEF OwnerInv, Owns, Holding, HolderGoesOn
  <1> HIDE DEF Inv
  <1>4. QED
    BY <1>1, <1>2, <1>3, PTL DEF RewriteSpec

=============================================================================
