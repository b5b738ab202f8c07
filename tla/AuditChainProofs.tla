-------------------------- MODULE AuditChainProofs --------------------------
(***************************************************************************)
(* What holds of every log, text and key: lemmas about the operators of    *)
(* AuditChain, on which the theorems about AuditLog, AuditRewrite and      *)
(* AuditTamper rest.                                                       *)
(***************************************************************************)
EXTENDS AuditChain, SequenceTheorems, WellFoundedInduction, TLAPS

(* Numbers: what stands in for induction, a least counterexample *)

LEMMA Least ==
  ASSUME NEW S \in SUBSET Nat, S # {}
  PROVE  \E m \in S : \A k \in S : m <= k
  <1> DEFINE R == {ss \in Nat \X Nat : ss[1] < ss[2]}
  <1>1. IsWellFoundedOn(R, Nat)
    BY NatLessThanWellFounded DEF OpToRel
  <1>2. PICK m \in S : \A k \in S : <<k, m>> \notin R
    <2> HIDE DEF R
    <2>1. QED
      BY <1>1, WFMin
  <1>3. \A k \in S : ~(k < m)
    <2>1. SUFFICES ASSUME NEW k \in S, k < m PROVE FALSE
      OBVIOUS
    <2>2. <<k, m>> \in Nat \X Nat /\ <<k, m>>[1] = k /\ <<k, m>>[2] = m
      OBVIOUS
    <2>3. <<k, m>> \in R
      BY <2>1, <2>2
    <2>4. QED
      BY <2>3, <1>2
  <1>4. QED
    BY <1>3

LEMMA Greatest ==
  ASSUME NEW n \in Nat, NEW S \in SUBSET (0..n), S # {}
  PROVE  \E m \in S : \A k \in S : k <= m
  <1> DEFINE T == {j \in 0..n : n - j \in S}
  <1>1. T \in SUBSET Nat
    OBVIOUS
  <1>2. T # {}
    <2>1. PICK k \in S : TRUE
      OBVIOUS
    <2>2. n - k \in 0..n /\ n - (n - k) = k
      OBVIOUS
    <2>3. QED
      BY <2>1, <2>2
  <1>3. PICK t \in T : \A u \in T : t <= u
    <2> HIDE DEF T
    <2>1. QED
      BY <1>1, <1>2, Least
  <1>4. ASSUME NEW k \in S
        PROVE  k <= n - t
    <2>1. n - k \in 0..n /\ n - (n - k) = k
      OBVIOUS
    <2>2. n - k \in T
      BY <2>1
    <2>3. t <= n - k /\ t \in 0..n /\ k \in 0..n
      BY <2>2, <1>3
    <2>4. QED
      BY <2>3
  <1>5. QED
    BY <1>3, <1>4

-----------------------------------------------------------------------------
(* Sequences of anything *)

LEMMA SeqOfItself ==
  ASSUME NEW S, NEW s \in Seq(S)
  PROVE  s \in Seq({s[i] : i \in DOMAIN s})
  <1> DEFINE T == {s[i] : i \in DOMAIN s}
  <1>1. Len(s) \in Nat /\ s = [i \in 1..Len(s) |-> s[i]]
    OBVIOUS
  <1>2. s \in [1..Len(s) -> T]
    BY <1>1
  <1> HIDE DEF T
  <1>3. s \in Seq(T)
    BY <1>1, <1>2, SeqDef
  <1>4. QED
    BY <1>3 DEF T

\* A function over the positions of a sequence is a sequence of that length.
LEMMA SameDomainIsSeq ==
  ASSUME NEW s, IsSeq(s), NEW t, t = [i \in DOMAIN s |-> t[i]]
  PROVE  IsSeq(t) /\ DOMAIN t = DOMAIN s /\ Len(t) = Len(s) /\ Len(s) \in Nat
  <1> DEFINE T == {t[i] : i \in DOMAIN t}
  <1>1. DOMAIN s = 1..Len(s) /\ Len(s) \in Nat
    BY DEF IsSeq
  <1>2. DOMAIN t = DOMAIN s
    OBVIOUS
  <1>3. t \in [1..Len(s) -> T]
    BY <1>1, <1>2
  <1> HIDE DEF T
  <1>4. t \in Seq(T)
    BY <1>1, <1>3, SeqDef
  <1>5. Len(t) = Len(s)
    BY <1>1, <1>3, <1>4
  <1>6. QED
    BY <1>1, <1>2, <1>4, <1>5 DEF IsSeq, T

\* Appending keeps a sequence a sequence, whatever the element is.
LEMMA AppendIsSeq ==
  ASSUME NEW s, IsSeq(s), NEW e
  PROVE  /\ IsSeq(Append(s, e))
         /\ Len(s) \in Nat
         /\ DOMAIN s = 1..Len(s)
         /\ Len(Append(s, e)) = Len(s) + 1
         /\ DOMAIN Append(s, e) = 1..(Len(s) + 1)
         /\ \A i \in 1..Len(s) : Append(s, e)[i] = s[i]
         /\ Append(s, e)[Len(s) + 1] = e
  <1> DEFINE S == {s[i] : i \in DOMAIN s}
  <1> DEFINE a == Append(s, e)
  <1>1. s \in Seq(S) /\ s \in Seq(S \cup {e})
    BY DEF IsSeq
  <1>2. /\ Len(s) \in Nat /\ DOMAIN s = 1..Len(s)
        /\ a \in Seq(S \cup {e})
        /\ Len(a) = Len(s) + 1
        /\ \A i \in 1..Len(s) : a[i] = s[i]
        /\ a[Len(s) + 1] = e
    BY <1>1
  <1>3. DOMAIN a = 1..(Len(s) + 1)
    BY <1>2
  <1>4. a \in Seq({a[i] : i \in DOMAIN a})
    BY <1>2, <1>3
  <1>5. QED
    BY <1>2, <1>3, <1>4 DEF IsSeq

\* Replacing an element keeps a sequence a sequence of the same length.
LEMMA ExceptIsSeq ==
  ASSUME NEW s, IsSeq(s), NEW n, NEW e
  PROVE  LET t == [s EXCEPT ![n] = e]
         IN  IsSeq(t) /\ DOMAIN t = DOMAIN s /\ Len(t) = Len(s)
  <1> DEFINE t == [s EXCEPT ![n] = e]
  <1>1. /\ Len(s) \in Nat
        /\ s = [i \in 1..Len(s) |-> s[i]]
    BY DEF IsSeq
  <1>2. t = [i \in 1..Len(s) |-> t[i]] /\ DOMAIN t = DOMAIN s
    BY <1>1
  <1> DEFINE T == {t[i] : i \in DOMAIN t}
  <1>3. t \in Seq(T) /\ Len(t) = Len(s)
    <2>1. t \in [1..Len(s) -> T]
      BY <1>1, <1>2
    <2> HIDE DEF T, t
    <2>2. t \in Seq(T)
      BY <1>1, <2>1, SeqDef
    <2>3. QED
      BY <1>1, <2>1, <2>2
  <1>4. QED
    BY <1>2, <1>3 DEF IsSeq

LEMMA SubSeqIsLog ==
  ASSUME NEW lines, IsLog(lines), NEW m \in Int, NEW n \in Int, 1 <= m, n <= Len(lines)
  PROVE  LET part == SubSeq(lines, m, n)
         IN  /\ IsLog(part)
             /\ \A i \in DOMAIN part : \E j \in DOMAIN lines : part[i] = lines[j]
  <1> DEFINE part == SubSeq(lines, m, n)
             S == {lines[i] : i \in DOMAIN lines}
  <1>1. DOMAIN lines = 1..Len(lines) /\ Len(lines) \in Nat
    BY DEF IsLog, IsSeq
  <1>2. \A i \in m..n : i \in DOMAIN lines /\ lines[i] \in S
    BY <1>1
  <1>3. /\ part \in Seq(S)
        /\ Len(part) = IF m <= n THEN n - m + 1 ELSE 0
        /\ \A i \in 1..n - m + 1 : part[i] = lines[m + i - 1]
    <2> HIDE DEF S
    <2>1. QED
      BY <1>2, SubSeqProperties
  <1>4. DOMAIN part = 1..Len(part)
    <2> HIDE DEF part, S
    <2>1. QED
      BY <1>3
  <1>5. ASSUME NEW i \in DOMAIN part
        PROVE  \E j \in DOMAIN lines : part[i] = lines[j]
    <2>1. i \in 1..n - m + 1 /\ m + i - 1 \in m..n
      BY <1>3, <1>4
    <2>2. QED
      BY <1>2, <1>3, <2>1
  <1>6. part \in Seq({part[i] : i \in DOMAIN part})
    <2> HIDE DEF part, S
    <2>1. QED
      BY <1>3, SeqOfItself
  <1>7. \A i \in DOMAIN part : IsLine(part[i])
    BY <1>5 DEF IsLog
  <1>8. QED
    BY <1>5, <1>6, <1>7 DEF IsLog, IsSeq

-----------------------------------------------------------------------------
(* Chains *)

LEMMA NewEntryIsLine ==
  ASSUME NEW k, NEW b \in Body, NEW p
  PROVE  IsLine(NewEntry(k, b, p))
  BY DEF IsLine, NewEntry, Chained

\* What verify_chain() expects of a line is the hash of an earlier one.
LEMMA ExpectedIsEarlier ==
  ASSUME NEW lines, IsSeq(lines), NEW i \in DOMAIN lines, ChainedBefore(lines, i) # {}
  PROVE  \E j \in ChainedBefore(lines, i) :
            /\ \A k \in ChainedBefore(lines, i) : k <= j
            /\ PrevExpected(lines, i) = lines[j].hash
            /\ j = CHOOSE m \in ChainedBefore(lines, i) :
                     \A k \in ChainedBefore(lines, i) : k <= m
  <1>1. DOMAIN lines = 1..Len(lines) /\ Len(lines) \in Nat
    BY DEF IsSeq
  <1>2. ChainedBefore(lines, i) \in SUBSET (0..Len(lines))
    BY <1>1 DEF ChainedBefore
  <1>3. \E m \in ChainedBefore(lines, i) : \A k \in ChainedBefore(lines, i) : k <= m
    BY <1>1, <1>2, Greatest
  <1> DEFINE last == CHOOSE m \in ChainedBefore(lines, i) :
                       \A k \in ChainedBefore(lines, i) : k <= m
  <1>4. last \in ChainedBefore(lines, i) /\ \A k \in ChainedBefore(lines, i) : k <= last
    BY <1>3
  <1>5. PrevExpected(lines, i) = lines[last].hash
    BY DEF PrevExpected
  <1>6. QED
    BY <1>4, <1>5

\* verify_chain() finds nothing before line i.
IntactBefore(lines, key, i) == \A j \in DOMAIN lines : j < i => j \notin Breaks(lines, key)

\* In an intact stretch of a chain no two hashes are the same.
LEMMA HashesDiffer ==
  ASSUME NEW lines, IsSeq(lines), NEW key, NEW i \in Nat, IntactBefore(lines, key, i),
         NEW j \in ChainedBefore(lines, i), NEW k \in ChainedBefore(lines, i), j < k
  PROVE  lines[j].hash # lines[k].hash
  <1> DEFINE Twin(n) == \E h \in ChainedBefore(lines, i) : h < n /\ lines[h].hash = lines[n].hash
             Twins == {n \in ChainedBefore(lines, i) : Twin(n)}
  <1>1. DOMAIN lines = 1..Len(lines) /\ Len(lines) \in Nat
    BY DEF IsSeq
  <1>2. SUFFICES ASSUME lines[j].hash = lines[k].hash PROVE FALSE
    OBVIOUS
  <1>3. k \in Twins
    BY <1>2
  <1>4. PICK m \in Twins : \A n \in Twins : m <= n
    <2>1. Twins \in SUBSET Nat /\ Twins # {}
      BY <1>1, <1>3 DEF ChainedBefore
    <2> HIDE DEF Twins
    <2>2. QED
      BY <2>1, Least
  <1>5. PICK h \in ChainedBefore(lines, i) : h < m /\ lines[h].hash = lines[m].hash
    BY <1>4
  <1>6. \A n \in ChainedBefore(lines, i) :
          /\ n \in DOMAIN lines /\ n < i /\ lines[n].kind = "chained"
          /\ lines[n].hash = Digest(key, lines[n].body, lines[n].prev)
          /\ lines[n].prev = PrevExpected(lines, n)
    BY DEF IntactBefore, ChainedBefore, Breaks, HashMatches
  <1>7. m \in ChainedBefore(lines, i)
    BY <1>4
  <1>8. PrevExpected(lines, h) = PrevExpected(lines, m)
    <2>1. lines[h].prev = lines[m].prev
      BY <1>5, <1>6, <1>7 DEF Digest
    <2>2. QED
      BY <1>5, <1>6, <1>7, <2>1
  <1>9. h \in ChainedBefore(lines, m)
    BY <1>5, <1>6 DEF ChainedBefore
  <1>10. PICK p \in ChainedBefore(lines, m) :
           /\ \A n \in ChainedBefore(lines, m) : n <= p
           /\ PrevExpected(lines, m) = lines[p].hash
    <2>1. m \in DOMAIN lines /\ ChainedBefore(lines, m) # {}
      BY <1>6, <1>7, <1>9
    <2>2. QED
      BY <2>1, ExpectedIsEarlier
  <1>11. p \in ChainedBefore(lines, i) /\ p < m /\ h <= p
    BY <1>1, <1>6, <1>7, <1>9, <1>10 DEF ChainedBefore
  <1>12. CASE ChainedBefore(lines, h) = {}
    <2>1. PrevExpected(lines, h) = Genesis
      BY <1>12 DEF PrevExpected
    <2>2. lines[p].hash = Digest(key, lines[p].body, lines[p].prev)
      BY <1>6, <1>11
    <2>3. QED
      BY <1>8, <1>10, <2>1, <2>2 DEF Genesis, Digest
  <1>13. CASE ChainedBefore(lines, h) # {}
    <2>1. PICK q \in ChainedBefore(lines, h) : PrevExpected(lines, h) = lines[q].hash
      <3>1. h \in DOMAIN lines
        BY <1>5, <1>6
      <3>2. QED
        BY <1>13, <3>1, ExpectedIsEarlier
    <2>2. q \in ChainedBefore(lines, i) /\ q < p
      BY <1>1, <1>5, <1>6, <1>11, <2>1 DEF ChainedBefore
    <2>3. lines[q].hash = lines[p].hash
      BY <1>8, <1>10, <2>1
    <2>4. p \in Twins
      BY <1>11, <2>2, <2>3
    <2>5. m <= p /\ m \in 1..Len(lines) /\ p \in 1..Len(lines)
      BY <1>1, <1>4, <1>6, <1>7, <1>11, <2>4
    <2>6. QED
      BY <1>1, <1>11, <2>5
  <1>14. QED
    BY <1>12, <1>13

\* The first break is the break nothing precedes.
LEMMA FirstBreakIs ==
  ASSUME NEW lines, IsSeq(lines), NEW key, NEW i \in Breaks(lines, key), IntactBefore(lines, key, i)
  PROVE  FirstBreak(lines, key) = i
  <1>1. DOMAIN lines = 1..Len(lines) /\ Len(lines) \in Nat
    BY DEF IsSeq
  <1>2. Breaks(lines, key) \subseteq DOMAIN lines
    BY DEF Breaks
  <1>3. \A j \in Breaks(lines, key) : i <= j
    BY <1>1, <1>2 DEF IntactBefore
  <1>4. \A h \in Breaks(lines, key) : (\A j \in Breaks(lines, key) : h <= j) => h = i
    BY <1>1, <1>2, <1>3
  <1>5. (CHOOSE h \in Breaks(lines, key) : \A j \in Breaks(lines, key) : h <= j) = i
    BY <1>3, <1>4
  <1>6. ~VerifyOk(lines, key)
    BY DEF VerifyOk
  <1>7. QED
    BY <1>5, <1>6 DEF FirstBreak

\* A log is called sound exactly if all its text could be read and no line breaks it.
LEMMA VerdictIsOk ==
  ASSUME NEW lines, NEW key, NEW bad, NEW v \in Verdicts(lines, key, bad)
  PROVE  v.ok = (bad = {} /\ VerifyOk(lines, key))
  <1>1. CASE bad = {}
    <2>1. v = Verdict(VerifyOk(lines, key), FirstBreak(lines, key))
      BY <1>1 DEF Verdicts
    <2>2. VerifyOk(lines, key) \in BOOLEAN
      BY DEF VerifyOk
    <2>3. QED
      BY <1>1, <2>1, <2>2 DEF Verdict
  <1>2. CASE bad # {}
    <2>1. PICK n : v = Verdict(FALSE, n)
      BY <1>2 DEF Verdicts
    <2>2. v.ok = FALSE
      BY <2>1 DEF Verdict
    <2>3. QED
      BY <1>2, <2>2
  <1>3. QED
    BY <1>1, <1>2

\* Where nothing breaks before the line that cannot be read, line 0 is reported.
LEMMA UnreadAtZero ==
  ASSUME NEW lines, IsSeq(lines), NEW key, NEW d \in DOMAIN lines, IntactBefore(lines, key, d)
  PROVE  Verdicts(lines, key, {d}) = {Verdict(FALSE, 0)}
  <1>1. DOMAIN lines = 1..Len(lines) /\ Len(lines) \in Nat
    BY DEF IsSeq
  <1>2. ASSUME FirstBreak(lines, key) # 0
        PROVE  ~(FirstBreak(lines, key) < d)
    <2>1. Breaks(lines, key) # {} /\ Breaks(lines, key) \in SUBSET DOMAIN lines
      BY <1>2 DEF FirstBreak, VerifyOk, Breaks
    <2>2. Breaks(lines, key) \in SUBSET Nat
      BY <1>1, <2>1
    <2>3. PICK m \in Breaks(lines, key) : \A k \in Breaks(lines, key) : m <= k
      BY <2>1, <2>2, Least
    <2>4. IntactBefore(lines, key, m)
      BY <1>1, <2>1, <2>3 DEF IntactBefore
    <2>5. FirstBreak(lines, key) = m
      BY <2>4, FirstBreakIs
    <2>6. m \in DOMAIN lines
      BY <2>1
    <2>7. QED
      BY <2>5, <2>6 DEF IntactBefore
  <1>3. {m \in {FirstBreak(lines, key)} : \A i \in {d} : m < i} \subseteq {0}
    BY <1>2
  <1>4. QED
    BY <1>3 DEF Verdicts

-----------------------------------------------------------------------------
(* redact_lines() unfolded, line by line *)

\* Line i of the rewritten log, `out` being what precedes it.
OutLine(lines, key, out, i) ==
  LET body == Mask[lines[i].body]
      from == Sources(lines, key, i)
  IN  IF i \notin Matched(lines, key)
      THEN Masked(lines[i])
      ELSE NewEntry(key, body,
                    IF from = {}
                    THEN lines[i].prev
                    ELSE out[CHOOSE j \in from : \A k \in from : k <= j].hash)

\* It depends on earlier lines only.
LEMMA OutLineIsLocal ==
  ASSUME NEW lines, IsSeq(lines), NEW key, NEW i \in DOMAIN lines, NEW f, NEW g,
         \A j \in 1..i - 1 : f[j] = g[j]
  PROVE  OutLine(lines, key, f, i) = OutLine(lines, key, g, i)
  <1> DEFINE from == Sources(lines, key, i)
             last == CHOOSE j \in from : \A k \in from : k <= j
  <1>1. DOMAIN lines = 1..Len(lines) /\ Len(lines) \in Nat
    BY DEF IsSeq
  <1>2. CASE from = {}
    BY <1>2 DEF OutLine
  <1>3. CASE from # {}
    <2>1. from \in SUBSET (0..Len(lines)) /\ from \subseteq 1..i - 1
      BY <1>1 DEF Sources, Matched
    <2>2. \E j \in from : \A k \in from : k <= j
      BY <1>1, <1>3, <2>1, Greatest
    <2>3. last \in from
      BY <2>2
    <2>4. f[last] = g[last]
      BY <2>1, <2>3
    <2> HIDE DEF last, from
    <2>5. QED
      BY <1>3, <2>4 DEF OutLine, last, from
  <1>4. QED
    BY <1>2, <1>3

LEMMA RewrittenUnfolds ==
  ASSUME NEW lines, IsSeq(lines), NEW key
  PROVE  Rewritten(lines, key) =
           [i \in DOMAIN lines |-> OutLine(lines, key, Rewritten(lines, key), i)]
  <1> DEFINE Upto(n, f) == f = [i \in 1..n |-> OutLine(lines, key, f, i)]
             Bad == {n \in 0..Len(lines) : ~(\E f : Upto(n, f))}
  <1>1. DOMAIN lines = 1..Len(lines) /\ Len(lines) \in Nat
    BY DEF IsSeq
  <1>2. Bad = {}
    <2>1. SUFFICES ASSUME Bad # {} PROVE FALSE
      OBVIOUS
    <2>2. PICK m \in Bad : \A k \in Bad : m <= k
      <3>1. Bad \in SUBSET Nat
        BY <1>1
      <3> HIDE DEF Bad
      <3>2. QED
        BY <2>1, <3>1, Least
    <2>3. m \in 0..Len(lines) /\ ~(\E f : Upto(m, f))
      OBVIOUS
    <2>4. m # 0
      <3>1. Upto(0, [i \in {} |-> 0])
        OBVIOUS
      <3>2. QED
        BY <2>3, <3>1
    <2>5. m - 1 \in 0..Len(lines) /\ m \in DOMAIN lines /\ ~(m <= m - 1)
      BY <1>1, <2>3, <2>4
    <2>6. PICK f : Upto(m - 1, f)
      BY <2>2, <2>5
    <2> DEFINE g == [i \in 1..m |-> IF i = m THEN OutLine(lines, key, f, m) ELSE f[i]]
    <2>7. \A i \in 1..m - 1 : g[i] = f[i] /\ f[i] = OutLine(lines, key, f, i)
      BY <2>5, <2>6
    <2>8. ASSUME NEW i \in 1..m
          PROVE  g[i] = OutLine(lines, key, g, i)
      <3>1. i \in DOMAIN lines /\ \A j \in 1..i - 1 : f[j] = g[j]
        BY <1>1, <2>3, <2>7
      <3> HIDE DEF g
      <3>2. OutLine(lines, key, f, i) = OutLine(lines, key, g, i)
        BY <3>1, OutLineIsLocal
      <3>3. g[i] = OutLine(lines, key, f, i)
        <4>1. CASE i = m
          BY <4>1 DEF g
        <4>2. CASE i # m
          BY <4>2, <2>3, <2>7
        <4>3. QED
          BY <4>1, <4>2
      <3>4. QED
        BY <3>2, <3>3
    <2>9. Upto(m, g)
      <3>1. g = [i \in 1..m |-> g[i]]
        OBVIOUS
      <3> HIDE DEF g
      <3>2. QED
        BY <3>1, <2>8
    <2> HIDE DEF g
    <2>10. QED
      BY <2>3, <2>9
  <1>3. \E f : Upto(Len(lines), f)
    BY <1>1, <1>2
  <1>4. Rewritten(lines, key) = CHOOSE f : Upto(Len(lines), f)
    BY <1>1 DEF Rewritten, OutLine
  <1> HIDE DEF Upto
  <1>5. Upto(Len(lines), Rewritten(lines, key))
    BY <1>3, <1>4
  <1>6. QED
    BY <1>1, <1>5 DEF Upto

\* A line with its text masked is a line, of the same kind.
LEMMA MaskedIsLine ==
  ASSUME NEW l, IsLine(l)
  PROVE  /\ IsLine(Masked(l))
         /\ Masked(l).kind = l.kind
         /\ l.kind # "junk" => l.body \in Body /\ Masked(l).body = Mask[l.body]
  <1>1. CASE l = Junk
    BY <1>1 DEF IsLine, Masked, Junk
  <1>2. CASE l.body \in Body /\ l = Legacy(l.body)
    <2>1. Mask[l.body] \in Body
      BY <1>2, MaskAssumption
    <2>2. Masked(l) = Legacy(Mask[l.body])
      BY <1>2 DEF Masked, Legacy
    <2>3. QED
      BY <1>2, <2>1, <2>2 DEF IsLine, Legacy
  <1>3. CASE l.body \in Body /\ l = Chained(l.body, l.prev, l.hash)
    <2>1. Mask[l.body] \in Body
      BY <1>3, MaskAssumption
    <2>2. Masked(l) = Chained(Mask[l.body], l.prev, l.hash)
      BY <1>3 DEF Masked, Chained
    <2>3. QED
      BY <1>3, <2>1, <2>2 DEF IsLine, Chained
  <1>4. QED
    BY <1>1, <1>2, <1>3 DEF IsLine

LEMMA OutLineIsLine ==
  ASSUME NEW lines, IsLog(lines), NEW key, NEW i \in DOMAIN lines, NEW out
  PROVE  LET l == OutLine(lines, key, out, i)
         IN  /\ IsLine(l)
             /\ l.kind = lines[i].kind
             /\ l.kind # "junk" =>
                  lines[i].body \in Body /\ l.body = Mask[lines[i].body]
  <1>1. IsLine(lines[i])
    BY DEF IsLog
  <1>2. CASE i \notin Matched(lines, key)
    BY <1>1, <1>2, MaskedIsLine DEF OutLine
  <1>3. CASE i \in Matched(lines, key)
    <2>1. lines[i].kind = "chained"
      BY <1>3 DEF Matched
    <2>2. lines[i].body \in Body
      BY <1>1, <2>1 DEF IsLine, Junk
    <2>3. Mask[lines[i].body] \in Body
      BY <2>2, MaskAssumption
    <2> DEFINE from == Sources(lines, key, i)
               p == IF from = {}
                    THEN lines[i].prev
                    ELSE out[CHOOSE j \in from : \A k \in from : k <= j].hash
    <2>4. OutLine(lines, key, out, i) = NewEntry(key, Mask[lines[i].body], p)
      BY <1>3 DEF OutLine
    <2> HIDE DEF p
    <2>5. QED
      BY <2>1, <2>2, <2>3, <2>4 DEF NewEntry, Chained, IsLine
  <1>4. QED
    BY <1>2, <1>3

\* redact_lines() keeps the number and the kinds of the lines, and masks every text.
LEMMA RewrittenIsLog ==
  ASSUME NEW lines, IsLog(lines), NEW key
  PROVE  LET new == Rewritten(lines, key)
         IN  /\ IsLog(new)
             /\ DOMAIN new = DOMAIN lines /\ Len(new) = Len(lines) /\ Len(new) \in Nat
             /\ \A i \in DOMAIN lines :
                  /\ new[i].kind = lines[i].kind
                  /\ new[i].kind # "junk" =>
                       lines[i].body \in Body /\ new[i].body = Mask[lines[i].body]
  <1> DEFINE new == Rewritten(lines, key)
  <1>1. IsSeq(lines)
    BY DEF IsLog
  <1>2. new = [i \in DOMAIN lines |-> OutLine(lines, key, new, i)]
    BY <1>1, RewrittenUnfolds
  <1> HIDE DEF new
  <1>3. new = [i \in DOMAIN lines |-> new[i]]
    BY <1>2
  <1>4. IsSeq(new) /\ DOMAIN new = DOMAIN lines /\ Len(new) = Len(lines) /\ Len(new) \in Nat
    BY <1>1, <1>3, SameDomainIsSeq
  <1>5. ASSUME NEW i \in DOMAIN lines
        PROVE  /\ IsLine(new[i])
               /\ new[i].kind = lines[i].kind
               /\ new[i].kind # "junk" =>
                    lines[i].body \in Body /\ new[i].body = Mask[lines[i].body]
    <2> DEFINE l == OutLine(lines, key, new, i)
    <2>1. new[i] = l
      BY <1>2
    <2>2. /\ IsLine(l)
          /\ l.kind = lines[i].kind
          /\ l.kind # "junk" =>
               lines[i].body \in Body /\ l.body = Mask[lines[i].body]
      BY OutLineIsLine
    <2> HIDE DEF l
    <2>3. QED
      BY <2>1, <2>2
  <1>6. QED
    BY <1>4, <1>5 DEF IsLog, new

\* The rewritten log line by line, and the chained lines of it.
LEMMA RewrittenLines ==
  ASSUME NEW lines, IsLog(lines), NEW key, NEW new, new = Rewritten(lines, key), NEW i \in DOMAIN lines
  PROVE  /\ new[i] = OutLine(lines, key, new, i)
         /\ ChainedBefore(new, i) = ChainedBefore(lines, i)
  <1>1. new = [h \in DOMAIN lines |-> OutLine(lines, key, new, h)]
    BY RewrittenUnfolds DEF IsLog
  <1>2. DOMAIN new = DOMAIN lines /\ \A j \in DOMAIN lines : new[j].kind = lines[j].kind
    BY RewrittenIsLog
  <1>3. ChainedBefore(new, i) = ChainedBefore(lines, i)
    BY <1>2 DEF ChainedBefore
  <1>4. QED
    BY <1>1, <1>3

-----------------------------------------------------------------------------
(* What redact_lines() makes of a chain *)

\* A matched line is hashed again over the new hash of the closest line before it whose
\* old hash it names.
LEMMA RehashedLine ==
  ASSUME NEW lines, IsLog(lines), NEW key, NEW new, new = Rewritten(lines, key),
         NEW i \in Matched(lines, key)
  PROVE  /\ new[i].kind = "chained"
         /\ HashMatches(key, new[i])
         /\ Sources(lines, key, i) = {} => new[i].prev = lines[i].prev
         /\ Sources(lines, key, i) # {} =>
              \E j \in Sources(lines, key, i) :
                 /\ \A k \in Sources(lines, key, i) : k <= j
                 /\ new[i].prev = new[j].hash
  <1> DEFINE srcs == Sources(lines, key, i)
             near == CHOOSE j \in srcs : \A k \in srcs : k <= j
             prior == IF srcs = {} THEN lines[i].prev ELSE new[near].hash
  <1>1. i \in DOMAIN lines
    BY DEF Matched
  <1>2. new[i] = NewEntry(key, Mask[lines[i].body], prior)
    <2>1. new[i] = OutLine(lines, key, new, i)
      BY <1>1, RewrittenLines
    <2>2. QED
      BY <2>1 DEF OutLine
  <1>3. srcs # {} => near \in srcs /\ \A k \in srcs : k <= near
    <2>1. DOMAIN lines = 1..Len(lines) /\ Len(lines) \in Nat
      BY DEF IsLog, IsSeq
    <2>2. srcs \in SUBSET (0..Len(lines))
      BY <2>1 DEF Sources, Matched
    <2> HIDE DEF srcs
    <2>3. srcs # {} => \E j \in srcs : \A k \in srcs : k <= j
      BY <2>1, <2>2, Greatest
    <2>4. QED
      BY <2>3
  <1>4. new[i].kind = "chained" /\ HashMatches(key, new[i]) /\ new[i].prev = prior
    <2> HIDE DEF prior
    <2>1. QED
      BY <1>2 DEF NewEntry, Chained, HashMatches
  <1> HIDE DEF near
  <1>5. QED
    BY <1>3, <1>4

\* A line that was in order is in order after the rewrite.
LEMMA OrderKept ==
  ASSUME NEW lines, IsLog(lines), NEW key, NEW new, new = Rewritten(lines, key),
         NEW i \in Matched(lines, key), IntactBefore(lines, key, i),
         lines[i].prev = PrevExpected(lines, i)
  PROVE  new[i].prev = PrevExpected(new, i)
  <1>1. i \in DOMAIN lines /\ IsSeq(lines)
    BY DEF Matched, IsLog
  <1>2. DOMAIN lines = 1..Len(lines) /\ Len(lines) \in Nat
    BY <1>1 DEF IsSeq
  <1>3. ChainedBefore(new, i) = ChainedBefore(lines, i)
    BY <1>1, RewrittenLines
  <1>4. Sources(lines, key, i) \subseteq ChainedBefore(lines, i)
    BY DEF Sources, Matched, ChainedBefore
  <1>5. CASE ChainedBefore(lines, i) = {}
    <2>1. new[i].prev = lines[i].prev
      BY <1>4, <1>5, RehashedLine
    <2>2. QED
      BY <1>3, <1>5, <2>1 DEF PrevExpected
  <1>6. CASE ChainedBefore(lines, i) # {}
    <2>1. PICK j \in ChainedBefore(lines, i) :
            /\ \A k \in ChainedBefore(lines, i) : k <= j
            /\ PrevExpected(lines, i) = lines[j].hash
            /\ j = CHOOSE m \in ChainedBefore(lines, i) :
                     \A k \in ChainedBefore(lines, i) : k <= m
      BY <1>1, <1>6, ExpectedIsEarlier
    <2>2. j \in Matched(lines, key)
      BY <2>1 DEF IntactBefore, Breaks, ChainedBefore, Matched
    <2>3. j \in Sources(lines, key, i)
      BY <2>1, <2>2 DEF Sources, ChainedBefore
    <2>4. PICK h \in Sources(lines, key, i) :
            /\ \A k \in Sources(lines, key, i) : k <= h
            /\ new[i].prev = new[h].hash
      BY <2>3, RehashedLine
    <2>5. h = j
      <3>1. h \in 1..Len(lines) /\ j \in 1..Len(lines)
        BY <1>2, <1>4, <2>1 DEF ChainedBefore
      <3>2. h <= j /\ j <= h
        BY <1>4, <2>1, <2>3, <2>4
      <3>3. QED
        BY <1>2, <3>1, <3>2
    <2>6. PrevExpected(new, i) = new[j].hash
      BY <1>3, <1>6, <2>1, Zenon DEF PrevExpected
    <2>7. QED
      BY <2>4, <2>5, <2>6
  <1>7. QED
    BY <1>5, <1>6

LEMMA IntactStays ==
  ASSUME NEW lines, IsLog(lines), NEW key, NEW new, new = Rewritten(lines, key), NEW i \in Nat,
         IntactBefore(lines, key, i)
  PROVE  IntactBefore(new, key, i)
  <1>1. DOMAIN new = DOMAIN lines
    BY RewrittenIsLog
  <1>2. SUFFICES ASSUME NEW j \in DOMAIN lines, j < i
                 PROVE  j \notin Breaks(new, key)
    BY <1>1 DEF IntactBefore
  <1>3. DOMAIN lines = 1..Len(lines) /\ Len(lines) \in Nat
    BY DEF IsLog, IsSeq
  <1>4. j \notin Breaks(lines, key) /\ IntactBefore(lines, key, j)
    BY <1>2, <1>3 DEF IntactBefore
  <1>5. new[j].kind = lines[j].kind
    BY RewrittenIsLog
  <1>6. CASE lines[j].kind = "chained"
    <2>1. j \in Matched(lines, key) /\ lines[j].prev = PrevExpected(lines, j)
      BY <1>4, <1>6 DEF Breaks, Matched
    <2>2. HashMatches(key, new[j]) /\ new[j].prev = PrevExpected(new, j)
      BY <1>4, <2>1, RehashedLine, OrderKept
    <2>3. QED
      BY <1>5, <1>6, <2>2 DEF Breaks
  <1>7. CASE lines[j].kind # "chained"
    BY <1>4, <1>5, <1>7 DEF Breaks
  <1>8. QED
    BY <1>6, <1>7
=============================================================================
