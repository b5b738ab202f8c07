------------------------- MODULE AuditTamperProofs -------------------------
(***************************************************************************)
(* Theorems about AuditTamper, for logs of any length, any texts and keys: *)
(* what verify_chain() notices, and where.                                 *)
(***************************************************************************)
EXTENDS AuditTamper, AuditChainProofs

(* The chain unfolded *)

\* Line i of a chain continued from `first` on, `out` being what precedes it.
ChainLine(lines, first, key, texts, out, i) ==
  IF i < first
  THEN lines[i]
  ELSE NewEntry(key, texts[i], IF i = 1 THEN Genesis ELSE out[i - 1].hash)

LEMMA ChainFromUnfolds ==
  ASSUME NEW lines, NEW first, NEW key, NEW texts, NEW len \in Nat, DOMAIN texts = 1..len
  PROVE  LET chain == ChainFrom(lines, first, key, texts)
         IN  chain = [i \in 1..len |-> ChainLine(lines, first, key, texts, chain, i)]
  <1> DEFINE Upto(n, f) == f = [i \in 1..n |-> ChainLine(lines, first, key, texts, f, i)]
             Bad == {n \in 0..len : ~(\E f : Upto(n, f))}
             chain == ChainFrom(lines, first, key, texts)
  <1>1. Bad = {}
    <2>1. SUFFICES ASSUME Bad # {} PROVE FALSE
      OBVIOUS
    <2>2. PICK m \in Bad : \A k \in Bad : m <= k
      <3>1. Bad \in SUBSET Nat
        OBVIOUS
      <3> HIDE DEF Bad
      <3>2. QED
        BY <2>1, <3>1, Least
    <2>3. m \in 0..len /\ ~(\E f : Upto(m, f))
      OBVIOUS
    <2>4. m # 0
      <3>1. Upto(0, [i \in {} |-> 0])
        OBVIOUS
      <3>2. QED
        BY <2>3, <3>1
    <2>5. m - 1 \in 0..len /\ ~(m <= m - 1)
      BY <2>3, <2>4
    <2>6. PICK f : Upto(m - 1, f)
      BY <2>2, <2>5
    <2> DEFINE g == [i \in 1..m |-> IF i = m THEN ChainLine(lines, first, key, texts, f, m) ELSE f[i]]
    <2>7. \A i \in 1..m - 1 :
            g[i] = f[i] /\ f[i] = ChainLine(lines, first, key, texts, f, i)
      BY <2>5, <2>6
    <2>8. ASSUME NEW i \in 1..m
          PROVE  g[i] = ChainLine(lines, first, key, texts, g, i)
      <3>1. i # 1 => i - 1 \in 1..m - 1
        BY <2>3
      <3>2. i # 1 => g[i - 1] = f[i - 1]
        BY <2>7, <3>1
      <3>3. g[i] = ChainLine(lines, first, key, texts, f, i)
        <4>1. g[m] = ChainLine(lines, first, key, texts, f, m)
          BY <2>3, <2>4
        <4> HIDE DEF g
        <4>2. CASE i = m
          BY <4>1, <4>2, Zenon
        <4>3. CASE i # m
          BY <4>3, <2>3, <2>7
        <4>4. QED
          BY <4>2, <4>3
      <3> HIDE DEF g
      <3>4. ChainLine(lines, first, key, texts, g, i) = ChainLine(lines, first, key, texts, f, i)
        BY <3>2 DEF ChainLine
      <3>5. QED
        BY <3>3, <3>4
    <2>9. Upto(m, g)
      <3>1. g = [i \in 1..m |-> g[i]]
        OBVIOUS
      <3> HIDE DEF g
      <3>2. QED
        BY <3>1, <2>8
    <2> HIDE DEF g
    <2>10. QED
      BY <2>3, <2>9
  <1>2. \E f : Upto(len, f)
    BY <1>1
  <1>3. chain = CHOOSE f : Upto(len, f)
    BY DEF ChainFrom, ChainLine
  <1> HIDE DEF Upto
  <1>4. Upto(len, chain)
    BY <1>2, <1>3
  <1>5. QED
    BY <1>4 DEF Upto

-----------------------------------------------------------------------------
(* A chain nobody has touched *)

\* Every line is an entry that names the one before it: what append() writes.
Linked(lines) ==
  /\ IsLog(lines)
  /\ \A i \in DOMAIN lines :
       /\ lines[i].kind = "chained"
       /\ HashMatches(AuditKey, lines[i])
       /\ lines[i].prev = IF i = 1 THEN Genesis ELSE lines[i - 1].hash

\* Behind a chained line verify_chain() expects its hash, on the first line "".
LEMMA ExpectedIsPrevious ==
  ASSUME NEW lines, IsSeq(lines), NEW i \in DOMAIN lines,
         i # 1 => lines[i - 1].kind = "chained"
  PROVE  PrevExpected(lines, i) = IF i = 1 THEN Genesis ELSE lines[i - 1].hash
  <1>1. DOMAIN lines = 1..Len(lines) /\ Len(lines) \in Nat
    BY DEF IsSeq
  <1>2. CASE i = 1
    <2>1. ChainedBefore(lines, i) = {}
      BY <1>1, <1>2 DEF ChainedBefore
    <2>2. QED
      BY <1>2, <2>1 DEF PrevExpected
  <1>3. CASE i # 1
    <2>1. i - 1 \in ChainedBefore(lines, i) /\ \A k \in ChainedBefore(lines, i) : k <= i - 1
      BY <1>1, <1>3 DEF ChainedBefore
    <2>2. PICK j \in ChainedBefore(lines, i) :
            /\ \A k \in ChainedBefore(lines, i) : k <= j
            /\ PrevExpected(lines, i) = lines[j].hash
      BY <2>1, ExpectedIsEarlier
    <2>3. j = i - 1
      BY <1>1, <2>1, <2>2 DEF ChainedBefore
    <2>4. QED
      BY <1>3, <2>2, <2>3
  <1>4. QED
    BY <1>2, <1>3

\* What agrees with an untouched chain before line d verifies before line d.
LEMMA AgreesIsIntact ==
  ASSUME NEW orig, Linked(orig), NEW lines, IsSeq(lines), NEW d \in Nat,
         \A j \in 1..d - 1 : j \in DOMAIN lines => j \in DOMAIN orig /\ lines[j] = orig[j]
  PROVE  IntactBefore(lines, AuditKey, d)
  <1>1. /\ DOMAIN lines = 1..Len(lines) /\ Len(lines) \in Nat
        /\ DOMAIN orig = 1..Len(orig) /\ Len(orig) \in Nat
    BY DEF Linked, IsLog, IsSeq
  <1>2. ASSUME NEW j \in DOMAIN lines, j < d
        PROVE  j \notin Breaks(lines, AuditKey)
    <2>1. j \in DOMAIN orig /\ lines[j] = orig[j]
      BY <1>1, <1>2
    <2>2. j # 1 => j - 1 \in DOMAIN orig /\ lines[j - 1] = orig[j - 1]
      BY <1>1, <1>2
    <2>3. PrevExpected(lines, j) = IF j = 1 THEN Genesis ELSE lines[j - 1].hash
      BY <2>2, ExpectedIsPrevious DEF Linked
    <2>4. lines[j].prev = PrevExpected(lines, j)
      BY <2>1, <2>2, <2>3 DEF Linked
    <2>5. QED
      BY <2>1, <2>4 DEF Breaks, Linked
  <1>3. QED
    BY <1>2 DEF IntactBefore

LEMMA LinkedVerifies ==
  ASSUME NEW lines, Linked(lines)
  PROVE  Breaks(lines, AuditKey) = {}
  <1>1. DOMAIN lines = 1..Len(lines) /\ Len(lines) \in Nat /\ IsSeq(lines)
    BY DEF Linked, IsLog, IsSeq
  <1>2. IntactBefore(lines, AuditKey, Len(lines) + 1)
    BY <1>1, AgreesIsIntact
  <1>3. QED
    BY <1>1, <1>2 DEF IntactBefore, Breaks

\* No two lines of it have the same hash, and none has the empty one.
LEMMA LinkedHashes ==
  ASSUME NEW lines, Linked(lines)
  PROVE  /\ \A i, j \in DOMAIN lines : i < j => lines[i].hash # lines[j].hash
         /\ \A i \in DOMAIN lines : lines[i].hash # Genesis
  <1>1. DOMAIN lines = 1..Len(lines) /\ Len(lines) \in Nat /\ IsSeq(lines)
    BY DEF Linked, IsLog, IsSeq
  <1>2. IntactBefore(lines, AuditKey, Len(lines) + 1) /\ Len(lines) + 1 \in Nat
    BY <1>1, AgreesIsIntact
  <1>3. \A i \in DOMAIN lines : i \in ChainedBefore(lines, Len(lines) + 1)
    BY <1>1 DEF ChainedBefore, Linked
  <1>4. \A i, j \in DOMAIN lines : i < j => lines[i].hash # lines[j].hash
    BY <1>1, <1>2, <1>3, HashesDiffer
  <1>5. \A i \in DOMAIN lines : lines[i].hash # Genesis
    BY DEF Linked, HashMatches, Digest, Genesis
  <1>6. QED
    BY <1>4, <1>5

LEMMA AppendIsLinked ==
  ASSUME NEW lines, Linked(lines), NEW b \in Body
  PROVE  Linked(Append(lines, NewEntry(AuditKey, b, LastHash(lines))))
  <1> DEFINE e == NewEntry(AuditKey, b, LastHash(lines))
             more == Append(lines, e)
             len == Len(lines)
  <1>1. /\ IsSeq(more) /\ len \in Nat /\ DOMAIN lines = 1..len
        /\ DOMAIN more = 1..len + 1
        /\ \A i \in 1..len : more[i] = lines[i]
        /\ more[len + 1] = e
    <2>1. IsSeq(lines)
      BY DEF Linked, IsLog
    <2> HIDE DEF e
    <2>2. QED
      BY <2>1, AppendIsSeq
  <1>2. IsLine(e) /\ e.kind = "chained" /\ HashMatches(AuditKey, e) /\ e.prev = LastHash(lines)
    BY NewEntryIsLine DEF NewEntry, Chained, HashMatches
  <1>3. LastHash(lines) = IF len = 0 THEN Genesis ELSE lines[len].hash
    <2>1. lines = <<>> <=> len = 0
      BY <1>1 DEF Linked, IsLog, IsSeq
    <2>2. len # 0 => lines[len].kind = "chained"
      BY <1>1 DEF Linked
    <2>3. QED
      BY <2>1, <2>2 DEF LastHash
  <1> HIDE DEF e, more
  <1>4. ASSUME NEW i \in DOMAIN more
        PROVE  /\ IsLine(more[i])
               /\ more[i].kind = "chained" /\ HashMatches(AuditKey, more[i])
               /\ more[i].prev = IF i = 1 THEN Genesis ELSE more[i - 1].hash
    <2>1. CASE i \in 1..len
      <3>1. IsLine(lines[i])
        BY <1>1, <2>1 DEF Linked, IsLog
      <3>2. more[i] = lines[i] /\ (i # 1 => more[i - 1] = lines[i - 1])
        BY <1>1, <2>1
      <3>3. QED
        BY <1>1, <2>1, <3>1, <3>2 DEF Linked
    <2>2. CASE i = len + 1
      <3>1. more[i] = e /\ (i # 1 => more[i - 1] = lines[len] /\ len # 0) /\ (i = 1 => len = 0)
        BY <1>1, <2>2
      <3>2. QED
        BY <1>2, <1>3, <3>1
    <2>3. QED
      BY <1>1, <2>1, <2>2
  <1>5. QED
    BY <1>1, <1>4 DEF Linked, IsLog, e, more

-----------------------------------------------------------------------------
(* What a change spoils *)

PrevOf(lines, d) == IF d = 1 THEN Genesis ELSE lines[d - 1].hash

\* A line verify_chain() stops at when it stands at d behind an untouched beginning.
Spoils(l, orig, d) ==
  \/ l.kind = "junk"
  \/ l.kind = "chained" /\ (~HashMatches(AuditKey, l) \/ l.prev # PrevOf(orig, d))

\* Line d is the first one that is not what the servers wrote.
Spoiled(lines, orig, d) ==
  /\ d \in DOMAIN lines /\ d \in DOMAIN orig
  /\ \A j \in 1..d - 1 : j \in DOMAIN lines /\ j \in DOMAIN orig /\ lines[j] = orig[j]
  /\ Spoils(lines[d], orig, d)

LEMMA SpoiledIsDifferent ==
  ASSUME NEW orig, Linked(orig), NEW lines, NEW d, Spoiled(lines, orig, d)
  PROVE  lines[d] # orig[d]
  <1>1. /\ orig[d].kind = "chained"
        /\ HashMatches(AuditKey, orig[d])
        /\ orig[d].prev = PrevOf(orig, d)
    BY DEF Spoiled, Linked, PrevOf
  <1>2. QED
    BY <1>1 DEF Spoiled, Spoils

\* Another line of it, put in the place of line d, names another hash.
LEMMA MovedLineSpoils ==
  ASSUME NEW orig, Linked(orig), NEW d \in DOMAIN orig, NEW m \in DOMAIN orig, d # m
  PROVE  Spoils(orig[m], orig, d)
  <1>1. DOMAIN orig = 1..Len(orig) /\ Len(orig) \in Nat
    BY DEF Linked, IsLog, IsSeq
  <1>2. orig[m].kind = "chained" /\ orig[m].prev = PrevOf(orig, m)
    BY DEF Linked, PrevOf
  <1>3. PrevOf(orig, m) # PrevOf(orig, d)
    <2>1. CASE d = 1
      <3>1. m # 1 /\ m - 1 \in DOMAIN orig
        BY <1>1, <2>1
      <3>2. QED
        BY <2>1, <3>1, LinkedHashes DEF PrevOf
    <2>2. CASE m = 1
      <3>1. d # 1 /\ d - 1 \in DOMAIN orig
        BY <1>1, <2>2
      <3>2. QED
        BY <2>2, <3>1, LinkedHashes DEF PrevOf
    <2>3. CASE d # 1 /\ m # 1
      <3>1. d - 1 \in DOMAIN orig /\ m - 1 \in DOMAIN orig /\ (d - 1 < m - 1 \/ m - 1 < d - 1)
        BY <1>1, <2>3
      <3>2. orig[m - 1].hash # orig[d - 1].hash
        BY <3>1, LinkedHashes
      <3>3. QED
        BY <2>3, <3>2 DEF PrevOf
    <2>4. QED
      BY <2>1, <2>2, <2>3
  <1>4. QED
    BY <1>2, <1>3 DEF Spoils

\* verify_chain() names the spoiled line, and nothing else differs before it.
LEMMA SpoiledIsFirstBreak ==
  ASSUME NEW orig, Linked(orig), NEW lines, IsLog(lines), NEW d, Spoiled(lines, orig, d)
  PROVE  FirstBreak(lines, AuditKey) = d
  <1>1. /\ IsSeq(lines) /\ DOMAIN lines = 1..Len(lines) /\ Len(lines) \in Nat
        /\ d \in DOMAIN lines /\ d \in Nat
    BY DEF IsLog, IsSeq, Spoiled
  <1>2. IntactBefore(lines, AuditKey, d)
    BY <1>1, AgreesIsIntact DEF Spoiled
  <1>3. d \in Breaks(lines, AuditKey)
    <2>1. CASE lines[d].kind = "junk"
      BY <1>1, <2>1 DEF Breaks
    <2>2. CASE lines[d].kind = "chained" /\ ~HashMatches(AuditKey, lines[d])
      BY <1>1, <2>2 DEF Breaks
    <2>3. CASE lines[d].kind = "chained" /\ lines[d].prev # PrevOf(orig, d)
      <3>1. d # 1 => /\ d - 1 \in DOMAIN orig
                     /\ lines[d - 1] = orig[d - 1]
                     /\ lines[d - 1].kind = "chained"
        BY <1>1 DEF Spoiled, Linked
      <3>2. PrevExpected(lines, d) = IF d = 1 THEN Genesis ELSE lines[d - 1].hash
        BY <1>1, <3>1, ExpectedIsPrevious
      <3>3. PrevExpected(lines, d) = PrevOf(orig, d)
        BY <3>1, <3>2 DEF PrevOf
      <3>4. QED
        BY <1>1, <2>3, <3>3 DEF Breaks
    <2>4. QED
      BY <2>1, <2>2, <2>3 DEF Spoiled, Spoils
  <1>4. QED
    BY <1>1, <1>2, <1>3, FirstBreakIs

\* Line d is the first one on which the two differ.
Parts(lines, orig, d) ==
  /\ d \in DOMAIN lines /\ d \in DOMAIN orig
  /\ \A j \in 1..d - 1 : j \in DOMAIN lines /\ j \in DOMAIN orig /\ lines[j] = orig[j]
  /\ lines[d] # orig[d]

LEMMA SpoiledParts ==
  ASSUME NEW orig, Linked(orig), NEW lines, NEW d, Spoiled(lines, orig, d)
  PROVE  Parts(lines, orig, d)
  BY SpoiledIsDifferent DEF Spoiled, Parts

\* There is one first difference only.
LEMMA PartsAtFirstDifference ==
  ASSUME NEW d, IsLog(log), Parts(log, original, d)
  PROVE  FirstDifference = d
  <1> DEFINE First(i) == /\ i \in DOMAIN original => log[i] # original[i]
                         /\ \A j \in 1..i - 1 : j \in DOMAIN original /\ log[j] = original[j]
  <1>1. DOMAIN log = 1..Len(log) /\ Len(log) \in Nat /\ d \in DOMAIN log /\ d \in DOMAIN original
    BY DEF IsLog, IsSeq, Parts
  <1>2. log[d] # original[d]
    BY DEF Parts
  <1>3. First(d)
    BY <1>2 DEF Parts
  <1>4. ASSUME NEW i \in DOMAIN log, First(i)
        PROVE  i = d
    <2>1. ~(d < i)
      BY <1>1, <1>2, <1>4
    <2>2. ~(i < d)
      <3>1. SUFFICES ASSUME i < d PROVE FALSE
        OBVIOUS
      <3>2. i \in 1..d - 1
        BY <1>1, <3>1
      <3>3. i \in DOMAIN original /\ log[i] = original[i]
        BY <3>2 DEF Parts
      <3>4. QED
        BY <1>4, <3>3
    <2>3. QED
      BY <1>1, <2>1, <2>2
  <1>5. FirstDifference = CHOOSE i \in DOMAIN log : First(i)
    BY DEF FirstDifference
  <1> HIDE DEF First
  <1>6. QED
    BY <1>1, <1>3, <1>4, <1>5

-----------------------------------------------------------------------------
(* A line that is no longer chained *)

\* Line d has lost its hash; what comes behind it is a chain of its own.
Unhashed(lines, orig, d) ==
  /\ Parts(lines, orig, d)
  /\ lines[d].kind = "legacy"
  /\ \A k \in DOMAIN lines : k > d =>
       /\ lines[k].kind = "chained"
       /\ HashMatches(AuditKey, lines[k])
       /\ IF k = d + 1
          THEN lines[k].prev \in {Genesis, orig[d].hash}
          ELSE lines[k].prev = lines[k - 1].hash

\* verify_chain() passes it over and still expects what line d had to name.
LEMMA ExpectedBehindUnhashed ==
  ASSUME NEW orig, Linked(orig), NEW lines, IsSeq(lines), NEW d, Unhashed(lines, orig, d),
         d + 1 \in DOMAIN lines
  PROVE  PrevExpected(lines, d + 1) = PrevOf(orig, d)
  <1>1. DOMAIN lines = 1..Len(lines) /\ Len(lines) \in Nat /\ d \in DOMAIN lines /\ d \in DOMAIN orig
    BY DEF IsSeq, Unhashed, Parts
  <1>2. \A j \in 1..d - 1 : j \in DOMAIN lines /\ lines[j] = orig[j] /\ lines[j].kind = "chained"
    BY DEF Unhashed, Parts, Linked
  <1>3. d \notin ChainedBefore(lines, d + 1)
    BY DEF ChainedBefore, Unhashed
  <1>4. CASE d = 1
    <2>1. ChainedBefore(lines, d + 1) = {}
      BY <1>1, <1>3, <1>4 DEF ChainedBefore
    <2>2. QED
      BY <1>4, <2>1 DEF PrevExpected, PrevOf
  <1>5. CASE d # 1
    <2>1. d - 1 \in 1..d - 1
      BY <1>1, <1>5
    <2>2. d - 1 \in ChainedBefore(lines, d + 1) /\ \A k \in ChainedBefore(lines, d + 1) : k <= d - 1
      BY <1>1, <1>2, <1>3, <2>1 DEF ChainedBefore
    <2>3. PICK j \in ChainedBefore(lines, d + 1) :
            /\ \A k \in ChainedBefore(lines, d + 1) : k <= j
            /\ PrevExpected(lines, d + 1) = lines[j].hash
      BY <2>2, ExpectedIsEarlier
    <2>4. j = d - 1
      BY <1>1, <2>2, <2>3 DEF ChainedBefore
    <2>5. QED
      BY <1>2, <1>5, <2>1, <2>3, <2>4 DEF PrevOf
  <1>6. QED
    BY <1>4, <1>5

\* It is reported at the line behind, unless the chain begins there or there is none.
LEMMA UnhashedAnswer ==
  ASSUME NEW orig, Linked(orig), NEW lines, IsLog(lines), NEW d, Unhashed(lines, orig, d)
  PROVE  Verdicts(lines, AuditKey, {}) =
           {IF d = Len(lines) \/ (d = 1 /\ d # Len(lines) /\ lines[2].prev = Genesis)
            THEN Verdict(TRUE, 0)
            ELSE Verdict(FALSE, d + 1)}
  <1>1. /\ IsSeq(lines) /\ DOMAIN lines = 1..Len(lines) /\ Len(lines) \in Nat
        /\ DOMAIN orig = 1..Len(orig) /\ Len(orig) \in Nat
        /\ d \in DOMAIN lines /\ d \in DOMAIN orig /\ d \in Nat
    BY DEF IsLog, IsSeq, Unhashed, Parts, Linked
  <1>2. IntactBefore(lines, AuditKey, d)
    BY <1>1, AgreesIsIntact DEF Unhashed, Parts
  <1>3. d \notin Breaks(lines, AuditKey)
    BY DEF Breaks, Unhashed
  <1>4. IntactBefore(lines, AuditKey, d + 1)
    BY <1>1, <1>2, <1>3 DEF IntactBefore
  <1>5. ASSUME NEW k \in DOMAIN lines, k > d + 1
        PROVE  k \notin Breaks(lines, AuditKey)
    <2>1. k - 1 \in DOMAIN lines /\ k - 1 > d /\ k # 1 /\ k > d /\ k # d + 1
      BY <1>1, <1>5
    <2>2. lines[k - 1].kind = "chained"
      BY <2>1 DEF Unhashed
    <2>3. PrevExpected(lines, k) = lines[k - 1].hash
      BY <1>1, <2>1, <2>2, ExpectedIsPrevious
    <2>4. QED
      BY <2>1, <2>3 DEF Breaks, Unhashed
  <1> DEFINE next == d + 1 \in DOMAIN lines /\ lines[d + 1].prev # PrevOf(orig, d)
  <1>6. d + 1 \in Breaks(lines, AuditKey) <=> next
    <2>1. d + 1 > d
      BY <1>1
    <2>2. CASE d + 1 \in DOMAIN lines
      <3>1. PrevExpected(lines, d + 1) = PrevOf(orig, d)
        BY <1>1, <2>2, ExpectedBehindUnhashed
      <3>2. lines[d + 1].kind = "chained" /\ HashMatches(AuditKey, lines[d + 1])
        BY <2>1, <2>2 DEF Unhashed
      <3>3. QED
        BY <2>2, <3>1, <3>2 DEF Breaks
    <2>3. CASE d + 1 \notin DOMAIN lines
      BY <2>3 DEF Breaks
    <2>4. QED
      BY <2>2, <2>3
  <1>7. next <=> ~(d = Len(lines) \/ (d = 1 /\ d # Len(lines) /\ lines[2].prev = Genesis))
    <2>1. d + 1 \in DOMAIN lines <=> d # Len(lines)
      BY <1>1
    <2>2. CASE d = 1
      BY <2>1, <2>2 DEF PrevOf
    <2>3. CASE d # 1 /\ d + 1 \in DOMAIN lines
      <3>1. d - 1 \in DOMAIN orig /\ d - 1 < d /\ d + 1 > d
        BY <1>1, <2>3
      <3>2. PrevOf(orig, d) # Genesis /\ PrevOf(orig, d) # orig[d].hash
        BY <1>1, <2>3, <3>1, LinkedHashes DEF PrevOf
      <3>3. lines[d + 1].prev = Genesis \/ lines[d + 1].prev = orig[d].hash
        BY <2>3, <3>1 DEF Unhashed
      <3>4. QED
        BY <2>1, <2>3, <3>2, <3>3
    <2>4. QED
      BY <2>1, <2>2, <2>3
  <1>8. CASE next
    <2>1. d + 1 \in Breaks(lines, AuditKey)
      BY <1>6, <1>8
    <2>2. FirstBreak(lines, AuditKey) = d + 1
      BY <1>1, <1>4, <2>1, FirstBreakIs
    <2>3. VerifyOk(lines, AuditKey) = FALSE
      BY <2>1 DEF VerifyOk
    <2>4. QED
      BY <1>7, <1>8, <2>2, <2>3 DEF Verdicts
  <1>9. CASE ~next
    <2>1. ASSUME NEW k \in DOMAIN lines PROVE k \notin Breaks(lines, AuditKey)
      <3>1. k < d + 1 \/ k = d + 1 \/ k > d + 1
        BY <1>1
      <3>2. QED
        BY <1>4, <1>5, <1>6, <1>9, <3>1 DEF IntactBefore
    <2>2. Breaks(lines, AuditKey) = {}
      BY <2>1 DEF Breaks
    <2>3. VerifyOk(lines, AuditKey) = TRUE /\ FirstBreak(lines, AuditKey) = 0
      BY <2>2 DEF VerifyOk, FirstBreak
    <2>4. QED
      BY <1>7, <1>9, <2>3 DEF Verdicts
  <1>10. QED
    BY <1>8, <1>9

-----------------------------------------------------------------------------
(* The invariant *)

Located == {"alter", "garble", "delete", "reorder", "forge"}

\* The servers' chain is in order; before the change the file is it; after a change
\* that is located the two part at a spoiled line, after `unhash` at one that is passed
\* over, and after `rot` at one that cannot be read.
TamperInv ==
  /\ Linked(original)
  /\ IsLog(log)
  /\ change \in {"none", "truncate", "unhash", "rot"} \cup Located
  /\ change = "none" => log = original
  /\ change # "rot" => rotten = {}
  /\ change \in Located => \E d \in DOMAIN log : Spoiled(log, original, d)
  /\ change = "unhash" => \E d \in DOMAIN log : Unhashed(log, original, d)
  /\ change = "rot" => \E d \in DOMAIN log : rotten = {d} /\ Parts(log, original, d)

LEMMA MaskedInput ==
  ASSUME NEW b \in Input
  PROVE  b \in Body /\ Mask[b] \in Body
  BY TamperAssumption, MaskAssumption

\* A chain continued from a log is a log, the same before `first`.
LEMMA ChainFromIsLog ==
  ASSUME NEW lines, IsLog(lines), NEW first \in Nat, NEW key,
         NEW texts \in [DOMAIN lines -> Input]
  PROVE  LET chain == ChainFrom(lines, first, key, texts)
         IN  /\ IsLog(chain) /\ DOMAIN chain = DOMAIN lines
             /\ \A i \in DOMAIN lines :
                  chain[i] = ChainLine(lines, first, key, texts, chain, i)
  <1> DEFINE chain == ChainFrom(lines, first, key, texts)
  <1>1. DOMAIN lines = 1..Len(lines) /\ Len(lines) \in Nat /\ IsSeq(lines)
    BY DEF IsLog, IsSeq
  <1>2. chain = [i \in 1..Len(lines) |-> ChainLine(lines, first, key, texts, chain, i)]
    BY <1>1, ChainFromUnfolds
  <1> HIDE DEF chain
  <1>3. /\ chain = [i \in DOMAIN lines |-> chain[i]]
        /\ \A i \in DOMAIN lines : chain[i] = ChainLine(lines, first, key, texts, chain, i)
    BY <1>1, <1>2
  <1>4. IsSeq(chain) /\ DOMAIN chain = DOMAIN lines
    BY <1>1, <1>3, SameDomainIsSeq
  <1>5. ASSUME NEW i \in DOMAIN lines
        PROVE  IsLine(chain[i])
    <2>1. CASE i < first
      <3>1. chain[i] = lines[i]
        BY <1>3, <2>1 DEF ChainLine
      <3>2. QED
        BY <3>1 DEF IsLog
    <2>2. CASE ~(i < first)
      <3> DEFINE p == IF i = 1 THEN Genesis ELSE chain[i - 1].hash
      <3>1. chain[i] = NewEntry(key, texts[i], p)
        BY <1>3, <2>2 DEF ChainLine
      <3>2. texts[i] \in Body
        BY TamperAssumption
      <3> HIDE DEF p
      <3>3. QED
        BY <3>1, <3>2, NewEntryIsLine
    <2>3. QED
      BY <2>1, <2>2
  <1>6. QED
    BY <1>3, <1>4, <1>5 DEF IsLog, chain

LEMMA InitIsLinked ==
  ASSUME TamperInit
  PROVE  TamperInv
  <1>0. PICK n \in 0..InitLen :
          \E texts \in [1..n -> Input] : log = ChainFrom(<<>>, 1, AuditKey, texts)
    BY DEF TamperInit
  <1>1. PICK texts \in [1..n -> Input] : log = ChainFrom(<<>>, 1, AuditKey, texts)
    BY <1>0
  <1>2. n \in Nat
    BY TamperAssumption
  <1>3. log = [i \in 1..n |-> ChainLine(<<>>, 1, AuditKey, texts, log, i)]
    BY <1>1, <1>2, ChainFromUnfolds
  <1>4. /\ DOMAIN log = 1..n
        /\ log = [i \in DOMAIN texts |-> log[i]]
        /\ \A i \in 1..n : log[i] = ChainLine(<<>>, 1, AuditKey, texts, log, i)
    BY <1>3
  <1>5. IsSeq(texts)
    <2>1. texts \in Seq(Input)
      BY <1>2, SeqDef
    <2>2. QED
      BY <2>1, SeqOfItself DEF IsSeq
  <1>6. IsSeq(log)
    BY <1>4, <1>5, SameDomainIsSeq
  <1>7. ASSUME NEW i \in DOMAIN log
        PROVE  /\ IsLine(log[i])
               /\ log[i].kind = "chained" /\ HashMatches(AuditKey, log[i])
               /\ log[i].prev = IF i = 1 THEN Genesis ELSE log[i - 1].hash
    <2> DEFINE p == IF i = 1 THEN Genesis ELSE log[i - 1].hash
    <2>1. i \in 1..n /\ ~(i < 1)
      BY <1>2, <1>4
    <2>2. log[i] = NewEntry(AuditKey, texts[i], p)
      BY <1>4, <2>1 DEF ChainLine
    <2>3. texts[i] \in Body
      BY <2>1, MaskedInput
    <2> HIDE DEF p
    <2>4. log[i].kind = "chained" /\ HashMatches(AuditKey, log[i]) /\ log[i].prev = p
      BY <2>2 DEF NewEntry, Chained, HashMatches
    <2>5. IsLine(log[i])
      BY <2>2, <2>3, NewEntryIsLine
    <2>6. QED
      BY <2>4, <2>5 DEF p
  <1>8. Linked(log)
    BY <1>6, <1>7 DEF Linked, IsLog
  <1>9. change = "none" /\ original = log /\ rotten = {}
    BY DEF TamperInit
  <1>10. QED
    BY <1>8, <1>9 DEF TamperInv, Located, Linked

\* A change that spoils a line and leaves a log is noticed.
LEMMA ChangeSpoils ==
  ASSUME TamperInv, NEW kind \in Located, NEW lines, Change(kind, lines, {}),
         IsLog(lines), NEW d, Spoiled(lines, log, d)
  PROVE  TamperInv'
  <1>1. /\ log = original /\ log' = lines /\ original' = original /\ change' = kind
        /\ rotten' = {} /\ Linked(original)
    BY DEF Change, TamperInv
  <1>2. Linked(original)' /\ IsLog(log)'
    BY <1>1 DEF Linked, IsLog, IsSeq
  <1>3. Spoiled(log', original', d) /\ d \in DOMAIN log'
    BY <1>1 DEF Spoiled
  <1>4. change' \notin {"none", "unhash", "rot"}
    BY <1>1 DEF Located
  <1>5. QED
    BY <1>1, <1>2, <1>3, <1>4 DEF TamperInv

\* What a step may use of the log before a change.
LEMMA BeforeChange ==
  ASSUME TamperInv, change = "none"
  PROVE  /\ Linked(log) /\ IsLog(log) /\ IsSeq(log)
         /\ DOMAIN log = 1..Len(log) /\ Len(log) \in Nat
  <1>1. Linked(log)
    BY DEF TamperInv
  <1>2. QED
    BY <1>1 DEF Linked, IsLog, IsSeq

\* Putting another line in place of one leaves a log that parts there.
LEMMA ReplacedParts ==
  ASSUME Linked(log), NEW i \in DOMAIN log, NEW l, IsLine(l), [log EXCEPT ![i] = l] # log
  PROVE  LET lines == [log EXCEPT ![i] = l]
         IN  /\ IsLog(lines) /\ DOMAIN lines = DOMAIN log
             /\ lines[i] = l /\ \A j \in DOMAIN log : j # i => lines[j] = log[j]
             /\ Parts(lines, log, i)
  <1> DEFINE lines == [log EXCEPT ![i] = l]
  <1>1. IsLog(log) /\ IsSeq(log) /\ DOMAIN log = 1..Len(log) /\ Len(log) \in Nat
    BY DEF Linked, IsLog, IsSeq
  <1>2. l # log[i]
    <2>1. SUFFICES ASSUME l = log[i] PROVE FALSE
      OBVIOUS
    <2>2. log = [n \in 1..Len(log) |-> log[n]]
      BY <1>1 DEF IsSeq
    <2>3. lines = log
      BY <2>1, <2>2
    <2>4. QED
      BY <2>3
  <1>3. /\ DOMAIN lines = DOMAIN log /\ IsSeq(lines)
        /\ lines[i] = l
        /\ \A j \in DOMAIN log : j # i => lines[j] = log[j]
    BY <1>1, ExceptIsSeq
  <1> HIDE DEF lines
  <1>4. IsLog(lines)
    BY <1>1, <1>3 DEF IsLog
  <1>5. Parts(lines, log, i)
    BY <1>1, <1>2, <1>3 DEF Parts
  <1>6. QED
    BY <1>3, <1>4, <1>5 DEF lines

\* What can be made without the key does not verify in the place of another line.
LEMMA EditSpoils ==
  ASSUME Linked(log), NEW i \in DOMAIN log, NEW l \in Edits, l # log[i]
  PROVE  IsLine(l) /\ Spoils(l, log, i)
  <1>1. CASE \E b \in Input, p \in Stored, h \in Stored : l = Chained(b, p, h)
    <2>1. PICK b \in Input, p \in Stored, h \in Stored : l = Chained(b, p, h)
      BY <1>1
    <2>2. IsLine(l) /\ l.kind = "chained" /\ l.hash = h /\ l.body = b /\ l.prev = p
      BY <2>1, MaskedInput DEF IsLine, Chained
    <2>3. CASE ~HashMatches(AuditKey, l)
      BY <2>2, <2>3 DEF Spoils
    <2>4. CASE HashMatches(AuditKey, l)
      <3>1. h = Digest(AuditKey, b, p) /\ h # Genesis
        BY <2>2, <2>4 DEF HashMatches, Digest, Genesis
      <3>2. PICK m \in DOMAIN log : h = log[m].hash
        BY <3>1 DEF Stored
      <3>3. /\ IsLine(log[m]) /\ log[m].kind = "chained"
            /\ log[m].hash = Digest(AuditKey, log[m].body, log[m].prev)
        BY DEF Linked, IsLog, HashMatches
      <3>4. log[m] = Chained(log[m].body, log[m].prev, log[m].hash)
        BY <3>3 DEF IsLine, Junk, Legacy
      <3>5. b = log[m].body /\ p = log[m].prev
        BY <3>1, <3>2, <3>3 DEF Digest
      <3>6. l = log[m] /\ m # i
        BY <2>1, <3>2, <3>4, <3>5
      <3>7. QED
        BY <2>2, <3>6, MovedLineSpoils
    <2>5. QED
      BY <2>3, <2>4
  <1>2. CASE \E k \in ForgedKeys, b \in Input, p \in Stored : l = NewEntry(k, b, p)
    <2>1. PICK k \in ForgedKeys, b \in Input, p \in Stored : l = NewEntry(k, b, p)
      BY <1>2
    <2>2. k # AuditKey
      BY TamperAssumption
    <2>3. l.kind = "chained" /\ ~HashMatches(AuditKey, l)
      BY <2>1, <2>2 DEF NewEntry, Chained, HashMatches, Digest
    <2>4. IsLine(l)
      BY <2>1, MaskedInput, NewEntryIsLine
    <2>5. QED
      BY <2>3, <2>4 DEF Spoils
  <1>3. QED
    BY <1>1, <1>2 DEF Edits

LEMMA AlterKeeps ==
  ASSUME TamperInv, Alter
  PROVE  TamperInv'
  <1>1. PICK i \in DOMAIN log, l \in Edits : Change("alter", [log EXCEPT ![i] = l], {})
    BY DEF Alter
  <1> DEFINE lines == [log EXCEPT ![i] = l]
  <1>2. change = "none" /\ lines # log
    BY <1>1 DEF Change
  <1>3. Linked(log) /\ log = [n \in 1..Len(log) |-> log[n]]
    BY <1>2, BeforeChange DEF IsSeq
  <1>4. l # log[i]
    <2>1. l = log[i] => lines = log
      BY <1>3
    <2>2. QED
      BY <1>2, <2>1
  <1>5. IsLine(l) /\ Spoils(l, log, i)
    BY <1>3, <1>4, EditSpoils
  <1>6. IsLog(lines) /\ lines[i] = l /\ Parts(lines, log, i)
    BY <1>2, <1>3, <1>5, ReplacedParts
  <1> HIDE DEF lines
  <1>7. Spoiled(lines, log, i)
    BY <1>5, <1>6 DEF Spoiled, Parts
  <1>8. QED
    BY <1>1, <1>6, <1>7, ChangeSpoils DEF Located, lines

LEMMA UnhashKeeps ==
  ASSUME TamperInv, Unhash
  PROVE  TamperInv'
  <1>1. PICK i \in DOMAIN log, b \in Input : Change("unhash", [log EXCEPT ![i] = Legacy(b)], {})
    BY DEF Unhash
  <1> DEFINE lines == [log EXCEPT ![i] = Legacy(b)]
  <1>2. /\ change = "none" /\ lines # log /\ log' = lines
        /\ rotten' = {} /\ change' = "unhash" /\ original' = original
    BY <1>1 DEF Change
  <1>3. /\ Linked(log) /\ log = original
        /\ DOMAIN log = 1..Len(log) /\ Len(log) \in Nat
    BY <1>2, BeforeChange DEF TamperInv
  <1>4. IsLine(Legacy(b)) /\ Legacy(b).kind = "legacy"
    BY MaskedInput DEF IsLine, Legacy
  <1>5. /\ IsLog(lines) /\ DOMAIN lines = DOMAIN log
        /\ lines[i].kind = "legacy" /\ \A j \in DOMAIN log : j # i => lines[j] = log[j]
        /\ Parts(lines, log, i)
    BY <1>2, <1>3, <1>4, ReplacedParts
  <1> HIDE DEF lines
  <1>6. ASSUME NEW k \in DOMAIN lines, k > i
        PROVE  /\ lines[k].kind = "chained"
               /\ HashMatches(AuditKey, lines[k])
               /\ IF k = i + 1
                  THEN lines[k].prev \in {Genesis, log[i].hash}
                  ELSE lines[k].prev = lines[k - 1].hash
    <2>1. k \in DOMAIN log /\ k # i /\ lines[k] = log[k] /\ k # 1
      BY <1>3, <1>5, <1>6
    <2>2. log[k].kind = "chained" /\ HashMatches(AuditKey, log[k]) /\ log[k].prev = log[k - 1].hash
      BY <1>3, <2>1 DEF Linked
    <2>3. k # i + 1 => lines[k - 1] = log[k - 1]
      BY <1>3, <1>5, <1>6
    <2>4. k = i + 1 => k - 1 = i
      BY <1>3
    <2>5. QED
      BY <2>1, <2>2, <2>3, <2>4
  <1>7. Unhashed(lines, log, i)
    BY <1>5, <1>6 DEF Unhashed
  <1>8. Linked(original)' /\ IsLog(log)'
    BY <1>2, <1>3, <1>5 DEF Linked, IsLog, IsSeq
  <1>9. Unhashed(log', original', i) /\ i \in DOMAIN log'
    BY <1>2, <1>3, <1>5, <1>7
  <1>10. QED
    BY <1>2, <1>8, <1>9 DEF TamperInv, Located

LEMMA RotKeeps ==
  ASSUME TamperInv, Rot
  PROVE  TamperInv'
  <1>1. PICK i \in DOMAIN log, l \in Edits \cup {Junk} \cup {Legacy(b) : b \in Input} :
          Change("rot", [log EXCEPT ![i] = l], {i})
    BY DEF Rot
  <1> DEFINE lines == [log EXCEPT ![i] = l]
  <1>2. /\ change = "none" /\ lines # log /\ log' = lines
        /\ rotten' = {i} /\ change' = "rot" /\ original' = original
    BY <1>1 DEF Change
  <1>3. /\ Linked(log) /\ log = original
        /\ log = [n \in 1..Len(log) |-> log[n]]
    BY <1>2, BeforeChange DEF TamperInv, IsSeq
  <1>4. l # log[i]
    <2>1. l = log[i] => lines = log
      BY <1>3
    <2>2. QED
      BY <1>2, <2>1
  <1>5. IsLine(l)
    <2>1. CASE l \in Edits
      BY <1>3, <1>4, <2>1, EditSpoils
    <2>2. CASE l \notin Edits
      BY <1>1, <2>2, MaskedInput DEF IsLine, Legacy
    <2>3. QED
      BY <2>1, <2>2
  <1>6. IsLog(lines) /\ DOMAIN lines = DOMAIN log /\ Parts(lines, log, i)
    BY <1>2, <1>3, <1>5, ReplacedParts
  <1> HIDE DEF lines
  <1>7. Linked(original)' /\ IsLog(log)'
    BY <1>2, <1>3, <1>6 DEF Linked, IsLog, IsSeq
  <1>8. Parts(log', original', i) /\ i \in DOMAIN log'
    BY <1>2, <1>3, <1>6
  <1>9. QED
    BY <1>2, <1>7, <1>8 DEF TamperInv, Located

LEMMA GarbleKeeps ==
  ASSUME TamperInv, Garble
  PROVE  TamperInv'
  <1>1. PICK i \in DOMAIN log : Change("garble", [log EXCEPT ![i] = Junk], {})
    BY DEF Garble
  <1> DEFINE lines == [log EXCEPT ![i] = Junk]
  <1>2. change = "none" /\ Change("garble", lines, {})
    BY <1>1 DEF Change
  <1>3. /\ Linked(log) /\ IsLog(log) /\ IsSeq(log)
        /\ DOMAIN log = 1..Len(log) /\ Len(log) \in Nat
    BY <1>2, BeforeChange
  <1>4. /\ DOMAIN lines = DOMAIN log /\ IsSeq(lines)
        /\ lines[i] = Junk
        /\ \A j \in DOMAIN log : j # i => lines[j] = log[j]
    BY <1>3, ExceptIsSeq
  <1> HIDE DEF lines
  <1>5. IsLog(lines)
    BY <1>3, <1>4 DEF IsLog, IsLine
  <1>6. Junk.kind = "junk"
    BY DEF Junk
  <1>7. Spoiled(lines, log, i)
    BY <1>3, <1>4, <1>6 DEF Spoiled, Spoils
  <1>8. QED
    BY <1>2, <1>5, <1>7, ChangeSpoils DEF Located

LEMMA ReorderKeeps ==
  ASSUME TamperInv, Reorder
  PROVE  TamperInv'
  <1>1. PICK i \in DOMAIN log, j \in DOMAIN log :
          /\ i < j
          /\ Change("reorder", [[log EXCEPT ![i] = log[j]] EXCEPT ![j] = log[i]], {})
    BY DEF Reorder
  <1> DEFINE half == [log EXCEPT ![i] = log[j]]
             lines == [half EXCEPT ![j] = log[i]]
  <1>2. change = "none" /\ Change("reorder", lines, {})
    BY <1>1 DEF Change
  <1>3. /\ Linked(log) /\ IsLog(log) /\ IsSeq(log)
        /\ DOMAIN log = 1..Len(log) /\ Len(log) \in Nat
    BY <1>2, BeforeChange
  <1>4. /\ DOMAIN half = DOMAIN log /\ IsSeq(half)
        /\ half[i] = log[j]
        /\ \A k \in DOMAIN log : k # i => half[k] = log[k]
    BY <1>3, ExceptIsSeq
  <1> HIDE DEF half
  <1>5. /\ DOMAIN lines = DOMAIN half /\ IsSeq(lines)
        /\ lines[j] = log[i]
        /\ \A k \in DOMAIN log : k # j => lines[k] = half[k]
    BY <1>4, ExceptIsSeq
  <1> HIDE DEF lines
  <1>6. i # j /\ i \in Nat /\ j \in Nat
    BY <1>1, <1>3
  <1>7. \A k \in DOMAIN log : lines[k] = IF k = i THEN log[j] ELSE IF k = j THEN log[i] ELSE log[k]
    BY <1>4, <1>5, <1>6
  <1>8. IsLog(lines)
    BY <1>3, <1>4, <1>5, <1>7 DEF IsLog
  <1>9. Spoils(log[j], log, i)
    BY <1>3, <1>6, MovedLineSpoils
  <1>10. Spoiled(lines, log, i)
    <2>1. \A k \in 1..i - 1 : k \in DOMAIN log /\ k # i /\ k # j
      BY <1>1, <1>3
    <2>2. QED
      BY <1>4, <1>5, <1>7, <1>9, <2>1 DEF Spoiled
  <1>11. QED
    BY <1>2, <1>8, <1>10, ChangeSpoils DEF Located

LEMMA DeleteKeeps ==
  ASSUME TamperInv, Delete
  PROVE  TamperInv'
  <1>1. PICK i \in DOMAIN log, j \in DOMAIN log :
          /\ i <= j /\ j < Len(log)
          /\ Change("delete", SubSeq(log, 1, i - 1) \o SubSeq(log, j + 1, Len(log)), {})
    BY DEF Delete
  <1> DEFINE head == SubSeq(log, 1, i - 1)
             rest == SubSeq(log, j + 1, Len(log))
             lines == head \o rest
             S == {log[k] : k \in DOMAIN log}
  <1>2. change = "none" /\ Change("delete", lines, {})
    BY <1>1 DEF Change
  <1>3. /\ Linked(log) /\ IsLog(log) /\ IsSeq(log)
        /\ DOMAIN log = 1..Len(log) /\ Len(log) \in Nat
    BY <1>2, BeforeChange
  <1>4. /\ head \in Seq(S) /\ Len(head) = i - 1
        /\ \A k \in 1..i - 1 : head[k] = log[k]
    <2>1. \A k \in 1..i - 1 : log[k] \in S
      BY <1>3
    <2>2. 1 \in Int /\ i - 1 \in Int /\ i \in 1..Len(log)
      BY <1>3
    <2> HIDE DEF S
    <2>3. /\ head \in Seq(S)
          /\ Len(head) = IF 1 <= i - 1 THEN i - 1 - 1 + 1 ELSE 0
          /\ \A k \in 1..i - 1 - 1 + 1 : head[k] = log[1 + k - 1]
      BY <2>1, <2>2, SubSeqProperties
    <2> HIDE DEF head
    <2>4. QED
      BY <2>2, <2>3, <1>3
  <1>5. /\ rest \in Seq(S) /\ Len(rest) = Len(log) - j
        /\ \A k \in 1..Len(log) - j : rest[k] = log[j + k]
    <2>1. \A k \in j + 1..Len(log) : log[k] \in S
      BY <1>3
    <2>2. j + 1 \in Int /\ Len(log) \in Int /\ j \in 1..Len(log) /\ j + 1 <= Len(log)
      BY <1>1, <1>3
    <2> HIDE DEF S
    <2>3. /\ rest \in Seq(S)
          /\ Len(rest) = IF j + 1 <= Len(log) THEN Len(log) - (j + 1) + 1 ELSE 0
          /\ \A k \in 1..Len(log) - (j + 1) + 1 : rest[k] = log[j + 1 + k - 1]
      BY <2>1, <2>2, SubSeqProperties
    <2> HIDE DEF rest, S
    <2>4. Len(log) - (j + 1) + 1 = Len(log) - j /\ Len(rest) = Len(log) - j
      BY <2>2, <2>3
    <2>5. ASSUME NEW k \in 1..Len(log) - j
          PROVE  rest[k] = log[j + k]
      <3>1. k \in 1..Len(log) - (j + 1) + 1 /\ j + 1 + k - 1 = j + k
        BY <2>2, <2>4
      <3>2. QED
        BY <2>3, <3>1
    <2>6. QED
      BY <2>3, <2>4, <2>5
  <1> HIDE DEF head, rest
  <1>6. /\ lines \in Seq(S) /\ Len(lines) = Len(head) + Len(rest)
        /\ \A k \in 1..Len(head) + Len(rest) :
             lines[k] = IF k <= Len(head) THEN head[k] ELSE rest[k - Len(head)]
    <2> HIDE DEF S
    <2>1. QED
      BY <1>4, <1>5, ConcatProperties
  <1> HIDE DEF lines
  <1>7. /\ DOMAIN lines = 1..Len(lines) /\ i \in DOMAIN lines
        /\ \A k \in 1..i - 1 : k \in DOMAIN lines /\ lines[k] = log[k]
    <2> HIDE DEF S
    <2>1. DOMAIN lines = 1..Len(lines)
      BY <1>6
    <2>2. i \in 1..Len(log) /\ j \in 1..Len(log) /\ Len(lines) = i - 1 + (Len(log) - j)
      BY <1>3, <1>4, <1>5, <1>6
    <2>3. i <= Len(lines) /\ Len(lines) \in Nat
      BY <1>1, <1>3, <2>2
    <2>4. QED
      BY <1>3, <1>4, <1>5, <1>6, <2>1, <2>2, <2>3
  <1>8. lines[i] = log[j + 1] /\ j + 1 \in DOMAIN log /\ i < j + 1
    <2>1. i \in 1..Len(log) /\ j \in 1..Len(log)
      BY <1>3
    <2>2. i \in 1..Len(head) + Len(rest) /\ ~(i <= Len(head)) /\ i - Len(head) = 1
      BY <1>1, <1>3, <1>4, <1>5, <2>1
    <2>3. lines[i] = rest[1]
      BY <1>6, <2>2
    <2>4. 1 \in 1..Len(log) - j
      BY <1>1, <1>3, <2>1
    <2>5. QED
      BY <1>1, <1>3, <1>5, <2>1, <2>3, <2>4
  <1>9. IsLog(lines)
    <2>1. IsSeq(lines)
      <3> HIDE DEF S
      <3>1. QED
        BY <1>6, SeqOfItself DEF IsSeq
    <2>2. \A k \in DOMAIN lines : lines[k] \in S
      <3> HIDE DEF S
      <3>1. QED
        BY <1>6
    <2>3. \A x \in S : IsLine(x)
      BY <1>3 DEF IsLog
    <2>4. QED
      BY <2>1, <2>2, <2>3 DEF IsLog
  <1>10. Spoils(log[j + 1], log, i)
    <2>1. i # j + 1
      BY <1>3, <1>8
    <2>2. QED
      BY <1>3, <1>8, <2>1, MovedLineSpoils
  <1>11. Spoiled(lines, log, i)
    BY <1>3, <1>7, <1>8, <1>10 DEF Spoiled
  <1>12. QED
    BY <1>2, <1>9, <1>11, ChangeSpoils DEF Located

LEMMA ForgeKeeps ==
  ASSUME TamperInv, Forge
  PROVE  TamperInv'
  <1>1. PICK i \in DOMAIN log, k \in ForgedKeys, texts \in [DOMAIN log -> Input] :
          Change("forge", ChainFrom(log, i, k, texts), {})
    BY DEF Forge
  <1> DEFINE lines == ChainFrom(log, i, k, texts)
             p == IF i = 1 THEN Genesis ELSE lines[i - 1].hash
  <1>2. change = "none" /\ Change("forge", lines, {})
    BY <1>1 DEF Change
  <1>3. /\ Linked(log) /\ IsLog(log) /\ IsSeq(log)
        /\ DOMAIN log = 1..Len(log) /\ Len(log) \in Nat
    BY <1>2, BeforeChange
  <1>4. i \in Nat
    BY <1>3
  <1>5. /\ IsLog(lines) /\ DOMAIN lines = DOMAIN log
        /\ \A m \in DOMAIN log : lines[m] = ChainLine(log, i, k, texts, lines, m)
    BY <1>3, <1>4, ChainFromIsLog
  <1> HIDE DEF lines
  <1>6. lines[i] = NewEntry(k, texts[i], p)
    BY <1>4, <1>5 DEF ChainLine
  <1>7. \A m \in 1..i - 1 : m \in DOMAIN log /\ lines[m] = log[m]
    <2>1. \A m \in 1..i - 1 : m \in DOMAIN log /\ m < i
      BY <1>3
    <2>2. QED
      BY <1>5, <2>1 DEF ChainLine
  <1> HIDE DEF p
  <1>8. lines[i].kind = "chained" /\ ~HashMatches(AuditKey, lines[i])
    <2>1. k # AuditKey
      BY TamperAssumption
    <2>2. QED
      BY <1>6, <2>1 DEF NewEntry, Chained, HashMatches, Digest
  <1>9. Spoiled(lines, log, i)
    BY <1>5, <1>7, <1>8 DEF Spoiled, Spoils
  <1>10. QED
    BY <1>2, <1>5, <1>9, ChangeSpoils DEF Located

LEMMA TruncateKeeps ==
  ASSUME TamperInv, Truncate
  PROVE  TamperInv'
  <1>1. PICK n \in 1..Len(log) - 1 : Change("truncate", SubSeq(log, 1, n), {})
    BY DEF Truncate
  <1>2. change = "none" /\ log' = SubSeq(log, 1, n) /\ change' = "truncate" /\ original' = original /\ rotten' = {}
    BY <1>1 DEF Change
  <1>3. IsLog(log) /\ Len(log) \in Nat
    BY <1>2, BeforeChange
  <1>4. IsLog(log')
    <2>1. 1 \in Int /\ n \in Int /\ 1 <= 1 /\ n <= Len(log)
      BY <1>3
    <2>2. IsLog(SubSeq(log, 1, n))
      BY <1>3, <2>1, SubSeqIsLog
    <2>3. QED
      BY <1>2, <2>2
  <1>5. QED
    BY <1>2, <1>4 DEF TamperInv, Located, Linked, IsLog, IsSeq

LEMMA AppendEntryKeeps ==
  ASSUME TamperInv, AppendEntry
  PROVE  TamperInv'
  <1>1. PICK b \in Input :
          /\ log' = Append(log, NewEntry(AuditKey, Mask[b], LastHash(log)))
          /\ original' = Append(original, NewEntry(AuditKey, Mask[b], LastHash(original)))
    BY DEF AppendEntry
  <1>2. change' = change /\ rotten' = rotten
    BY DEF AppendEntry
  <1>3. Mask[b] \in Body
    BY MaskedInput
  <1>4. Linked(original)'
    <2>1. Linked(original')
      BY <1>1, <1>3, AppendIsLinked DEF TamperInv
    <2>2. QED
      BY <2>1 DEF Linked, IsLog, IsSeq
  <1> DEFINE e == NewEntry(AuditKey, Mask[b], LastHash(log))
             o == NewEntry(AuditKey, Mask[b], LastHash(original))
  <1>5. IsLine(e) /\ e.kind = "chained" /\ HashMatches(AuditKey, e) /\ e.prev = LastHash(log)
    BY <1>3, NewEntryIsLine DEF NewEntry, Chained, HashMatches
  <1> HIDE DEF e, o
  <1>6. /\ Len(log) \in Nat /\ IsSeq(log')
        /\ DOMAIN log = 1..Len(log)
        /\ DOMAIN log' = 1..(Len(log) + 1)
        /\ \A i \in 1..Len(log) : log'[i] = log[i]
        /\ log'[Len(log) + 1] = e
    BY <1>1, AppendIsSeq DEF e, TamperInv, IsLog
  <1>7. /\ Len(original) \in Nat
        /\ DOMAIN original = 1..Len(original)
        /\ DOMAIN original' = 1..(Len(original) + 1)
        /\ \A i \in 1..Len(original) : original'[i] = original[i]
    BY <1>1, AppendIsSeq DEF o, TamperInv, Linked, IsLog
  <1>8. IsLog(log)'
    <2>1. \A i \in DOMAIN log' : i \in 1..Len(log) \/ i = Len(log) + 1
      BY <1>6
    <2>2. \A i \in DOMAIN log' : IsLine(log'[i])
      BY <1>5, <1>6, <2>1 DEF TamperInv, IsLog
    <2>3. QED
      BY <1>6, <2>2 DEF IsLog, IsSeq
  <1>9. ASSUME NEW d \in DOMAIN log, Spoiled(log, original, d)
        PROVE  d \in DOMAIN log' /\ Spoiled(log', original', d)
    <2>1. /\ d \in DOMAIN log' /\ d \in DOMAIN original'
          /\ log'[d] = log[d] /\ d \in Nat
      BY <1>6, <1>7, <1>9 DEF Spoiled
    <2>2. \A j \in 1..d - 1 : /\ j \in DOMAIN log' /\ j \in DOMAIN original'
                              /\ log'[j] = log[j] /\ original'[j] = original[j]
      BY <1>6, <1>7, <1>9 DEF Spoiled
    <2>3. PrevOf(original', d) = PrevOf(original, d)
      <3>1. d # 1 => d - 1 \in 1..d - 1
        BY <1>6
      <3>2. QED
        BY <2>2, <3>1 DEF PrevOf
    <2>4. Spoils(log'[d], original', d)
      BY <1>9, <2>1, <2>3 DEF Spoiled, Spoils
    <2>5. QED
      BY <1>9, <2>1, <2>2, <2>4 DEF Spoiled
  <1>10. change' = "none" => log' = original'
    BY <1>1, <1>2 DEF TamperInv
  <1>11. change' \in Located => \E d \in DOMAIN log' : Spoiled(log', original', d)
    BY <1>2, <1>9 DEF TamperInv
  <1>12. ASSUME NEW d \in DOMAIN log, Parts(log, original, d)
         PROVE  /\ d \in DOMAIN log' /\ Parts(log', original', d)
                /\ log'[d] = log[d] /\ original'[d] = original[d]
    <2>1. /\ d \in DOMAIN log' /\ d \in DOMAIN original'
          /\ log'[d] = log[d] /\ original'[d] = original[d]
      BY <1>6, <1>7, <1>12 DEF Parts
    <2>2. \A j \in 1..d - 1 : /\ j \in DOMAIN log' /\ j \in DOMAIN original'
                              /\ log'[j] = log[j] /\ original'[j] = original[j]
      BY <1>6, <1>7, <1>12 DEF Parts
    <2>3. QED
      BY <1>12, <2>1, <2>2 DEF Parts
  <1>13. ASSUME NEW d \in DOMAIN log, Unhashed(log, original, d)
         PROVE  d \in DOMAIN log' /\ Unhashed(log', original', d)
    <2>1. /\ d \in DOMAIN log' /\ Parts(log', original', d)
          /\ log'[d] = log[d] /\ original'[d] = original[d]
          /\ log[d].kind = "legacy" /\ d \in 1..Len(log)
      BY <1>6, <1>12, <1>13 DEF Unhashed
    <2>2. ASSUME NEW k \in DOMAIN log', k > d
          PROVE  /\ log'[k].kind = "chained"
                 /\ HashMatches(AuditKey, log'[k])
                 /\ IF k = d + 1
                    THEN log'[k].prev \in {Genesis, original'[d].hash}
                    ELSE log'[k].prev = log'[k - 1].hash
      <3>1. CASE k \in DOMAIN log
        <4>1. log'[k] = log[k] /\ log'[k - 1] = log[k - 1]
          BY <1>6, <2>1, <2>2, <3>1
        <4>2. QED
          BY <1>13, <2>1, <2>2, <3>1, <4>1 DEF Unhashed
      <3>2. CASE k = Len(log) + 1 /\ d = Len(log)
        <4>1. LastHash(log) = Genesis
          BY <2>1, <3>2 DEF LastHash
        <4>2. QED
          BY <1>5, <1>6, <3>2, <4>1
      <3>3. CASE k = Len(log) + 1 /\ d # Len(log)
        <4>1. Len(log) \in DOMAIN log /\ Len(log) > d /\ log # <<>> /\ k # d + 1 /\ k - 1 = Len(log)
          BY <1>6, <2>1, <3>3
        <4>2. log[Len(log)].kind = "chained"
          BY <1>13, <4>1 DEF Unhashed
        <4>3. LastHash(log) = log[Len(log)].hash
          BY <4>1, <4>2 DEF LastHash
        <4>4. log'[k - 1] = log[Len(log)]
          BY <1>6, <4>1
        <4>5. QED
          BY <1>5, <1>6, <3>3, <4>1, <4>3, <4>4
      <3>4. QED
        BY <1>6, <3>1, <3>2, <3>3
    <2>3. QED
      BY <2>1, <2>2 DEF Unhashed
  <1>14. change' = "unhash" => \E d \in DOMAIN log' : Unhashed(log', original', d)
    BY <1>2, <1>13 DEF TamperInv
  <1>15. change' = "rot" => \E d \in DOMAIN log' : rotten' = {d} /\ Parts(log', original', d)
    BY <1>2, <1>12 DEF TamperInv
  <1>16. QED
    BY <1>2, <1>4, <1>8, <1>10, <1>11, <1>14, <1>15 DEF TamperInv

THEOREM TamperInvariant == TamperSpec => []TamperInv
  <1>1. TamperInit => TamperInv
    BY InitIsLinked
  <1>2. TamperInv /\ [TamperNext]_tamperVars => TamperInv'
    <2>1. SUFFICES ASSUME TamperInv, [TamperNext]_tamperVars
                   PROVE  TamperInv'
      OBVIOUS
    <2>2. CASE Alter
      BY <2>1, <2>2, AlterKeeps
    <2>3. CASE Unhash
      BY <2>1, <2>3, UnhashKeeps
    <2>4. CASE Garble
      BY <2>1, <2>4, GarbleKeeps
    <2>5. CASE Rot
      BY <2>1, <2>5, RotKeeps
    <2>6. CASE Delete
      BY <2>1, <2>6, DeleteKeeps
    <2>7. CASE Reorder
      BY <2>1, <2>7, ReorderKeeps
    <2>8. CASE Forge
      BY <2>1, <2>8, ForgeKeeps
    <2>9. CASE Truncate
      BY <2>1, <2>9, TruncateKeeps
    <2>10. CASE AppendEntry
      BY <2>1, <2>10, AppendEntryKeeps
    <2>11. CASE UNCHANGED tamperVars
      <3>1. log' = log /\ original' = original /\ rotten' = rotten /\ change' = change
        BY <2>11 DEF tamperVars
      <3>2. Linked(original)' /\ IsLog(log)'
        BY <2>1, <3>1 DEF TamperInv, Linked, IsLog, IsSeq
      <3>3. QED
        BY <2>1, <3>1, <3>2 DEF TamperInv
    <2>12. QED
      BY <2>1, <2>2, <2>3, <2>4, <2>5, <2>6, <2>7, <2>8, <2>9, <2>10, <2>11 DEF TamperNext
  <1>3. QED
    BY <1>1, <1>2, PTL DEF TamperSpec

-----------------------------------------------------------------------------
(* The theorems *)

\* Type correctness: whatever is changed, the log is a sequence of lines append() and
\* verify_chain() can read.
THEOREM TamperTypeCorrect == TamperSpec => []TamperTypeOK
  <1>1. TamperInv => TamperTypeOK
    BY DEF TamperInv, TamperTypeOK, Linked, IsLog, Located
  <1>2. QED
    BY <1>1, TamperInvariant, PTL

\* A log of any length in which any one line is edited, as long as it still has a hash,
\* or no longer parses, any lines are deleted from before its end, any two lines change
\* places, or everything from some line on is forged under another key: verify_chain()
\* names the first line that differs, however many entries are appended afterwards; and
\* where a line is no longer UTF-8, it says that the file cannot be read.
THEOREM ChangesAreLocated == TamperSpec => []ChangeLocated
  <1>1. TamperInv => ChangeLocated
    <2>1. ASSUME TamperInv, change \in Located
          PROVE  Answers = {Verdict(FALSE, FirstDifference)}
      <3>1. PICK d \in DOMAIN log : Spoiled(log, original, d)
        BY <2>1 DEF TamperInv
      <3>2. FirstBreak(log, AuditKey) = d
        BY <2>1, <3>1, SpoiledIsFirstBreak DEF TamperInv
      <3>3. FirstDifference = d
        BY <2>1, <3>1, SpoiledParts, PartsAtFirstDifference DEF TamperInv
      <3>4. rotten = {}
        BY <2>1 DEF TamperInv, Located
      <3>5. VerifyOk(log, AuditKey) = FALSE
        <4>1. d # 0
          BY <2>1 DEF TamperInv, IsLog, IsSeq
        <4>2. ~VerifyOk(log, AuditKey)
          BY <3>2, <4>1 DEF FirstBreak
        <4>3. VerifyOk(log, AuditKey) \in BOOLEAN
          BY DEF VerifyOk
        <4>4. QED
          BY <4>2, <4>3
      <3>6. QED
        BY <3>2, <3>3, <3>4, <3>5 DEF Answers, Verdicts
    <2>2. ASSUME TamperInv, change = "rot"
          PROVE  Answers = {Verdict(FALSE, 0)}
      <3>1. PICK d \in DOMAIN log : rotten = {d} /\ Parts(log, original, d)
        BY <2>2 DEF TamperInv
      <3>2. IsSeq(log) /\ d \in Nat
        BY <2>2 DEF TamperInv, IsLog, IsSeq
      <3>3. IntactBefore(log, AuditKey, d)
        BY <2>2, <3>1, <3>2, AgreesIsIntact DEF TamperInv, Parts
      <3>4. QED
        BY <3>1, <3>2, <3>3, UnreadAtZero DEF Answers
    <2>3. QED
      BY <2>1, <2>2 DEF ChangeLocated, Located
  <1>2. QED
    BY <1>1, TamperInvariant, PTL

\* A log of any length in which one line is made to look as if it had never been chained:
\* verify_chain() names the line behind it, now or when there is one, and none when the
\* chain begins behind it.
THEOREM UnhashedIsReportedLate == TamperSpec => []UnhashedIsLate
  <1>1. TamperInv => UnhashedIsLate
    <2>1. SUFFICES ASSUME TamperInv, change = "unhash"
                   PROVE  LET d == FirstDifference
                              last == d = Len(log)
                              alone == d = 1 /\ ~last /\ log[2].prev = Genesis
                          IN  Answers = {IF last \/ alone THEN Verdict(TRUE, 0) ELSE Verdict(FALSE, d + 1)}
      BY DEF UnhashedIsLate
    <2>2. PICK d \in DOMAIN log : Unhashed(log, original, d)
      BY <2>1 DEF TamperInv
    <2>3. FirstDifference = d
      BY <2>1, <2>2, PartsAtFirstDifference DEF TamperInv, Unhashed
    <2>4. rotten = {}
      BY <2>1 DEF TamperInv
    <2>5. Verdicts(log, AuditKey, {}) =
            {IF d = Len(log) \/ (d = 1 /\ d # Len(log) /\ log[2].prev = Genesis)
             THEN Verdict(TRUE, 0)
             ELSE Verdict(FALSE, d + 1)}
      BY <2>1, <2>2, UnhashedAnswer DEF TamperInv
    <2>6. QED
      BY <2>3, <2>4, <2>5 DEF Answers
  <1>2. QED
    BY <1>1, TamperInvariant, PTL

\* verify_chain() finds nothing in a log only append() has written.
THEOREM NoFalseAlarms == TamperSpec => []NoFalseAlarm
  <1>1. TamperInv => NoFalseAlarm
    <2>1. SUFFICES ASSUME TamperInv, change = "none"
                   PROVE  Answers = {Verdict(TRUE, 0)}
      BY DEF NoFalseAlarm
    <2>2. Breaks(log, AuditKey) = {} /\ rotten = {}
      BY <2>1, LinkedVerifies DEF TamperInv
    <2>3. VerifyOk(log, AuditKey) = TRUE /\ FirstBreak(log, AuditKey) = 0
      BY <2>2 DEF VerifyOk, FirstBreak
    <2>4. QED
      BY <2>2, <2>3 DEF Answers, Verdicts
  <1>2. QED
    BY <1>1, TamperInvariant, PTL
=============================================================================
