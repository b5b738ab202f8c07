-------------------------- MODULE ExecToolsProofs --------------------------
(***************************************************************************)
(* What holds of the exec tools for any words, lines and directories.      *)
(***************************************************************************)
EXTENDS ExecTools, WellFoundedInduction, SequenceTheorems, TLAPS

-----------------------------------------------------------------------------
(* Numbers: a least counterexample stands in for induction. *)

LEMMA Least ==
  ASSUME NEW S \in SUBSET Nat, S # {}
  PROVE  \E m \in S : \A k \in S : m <= k
  <1> DEFINE R == {ss \in Nat \X Nat : ss[1] < ss[2]}
  <1>1. IsWellFoundedOn(R, Nat)
    BY NatLessThanWellFounded DEF OpToRel
  <1>2. PICK m \in S : \A k \in S : <<k, m>> \notin R
    <2> HIDE DEF R
    <2>1. QED
      BY <1>1, WFMin
  <1>3. \A k \in S : ~(k < m)
    <2>1. SUFFICES ASSUME NEW k \in S, k < m PROVE FALSE
      OBVIOUS
    <2>2. <<k, m>> \in Nat \X Nat /\ <<k, m>>[1] = k /\ <<k, m>>[2] = m
      OBVIOUS
    <2>3. <<k, m>> \in R
      BY <2>1, <2>2
    <2>4. QED
      BY <2>3, <1>2
  <1>4. QED
    BY <1>3
LEMMA MinIs ==
  ASSUME NEW S \in SUBSET Nat, NEW m \in S, \A k \in S : m <= k
  PROVE  Min(S) = m
  <1>1. \A x \in S : (\A k \in S : x <= k) => x = m
    <2>1. SUFFICES ASSUME NEW x \in S, \A k \in S : x <= k PROVE x = m
      OBVIOUS
    <2>2. x \in Nat /\ m \in Nat /\ x <= m /\ m <= x
      BY <2>1
    <2>3. QED
      BY <2>2
  <1>2. QED
    BY <1>1 DEF Min

LEMMA MinIn ==
  ASSUME NEW S \in SUBSET Nat, S # {}
  PROVE  Min(S) \in S /\ \A k \in S : Min(S) <= k
  <1>1. \E m \in S : \A k \in S : m <= k
    BY Least
  <1>2. QED
    BY <1>1 DEF Min

-----------------------------------------------------------------------------
(* Walks.  next says of each of n positions where a walk goes from it. *)

Hops(next, n) ==
  /\ n \in Nat
  /\ next \in [1..n -> Nat]
  /\ \A k \in 1..n : k < next[k] /\ next[k] <= n + 1

\* The positions a walk from each position visits, from the position a on.
From(next, n, a, f) ==
  f = [k \in a..(n + 1) |-> IF k = n + 1 THEN {} ELSE {k} \cup f[next[k]]]

LEMMA FromExists ==
  ASSUME NEW n, NEW next, Hops(next, n)
  PROVE  \E f : From(next, n, 1, f)
  <1> DEFINE Bad == {m \in 0..n : ~(\E f : From(next, n, n + 1 - m, f))}
  <1>1. n \in Nat /\ \A k \in 1..n : next[k] \in (k + 1)..(n + 1)
    BY DEF Hops
  <1>2. Bad = {}
    <2>1. SUFFICES ASSUME Bad # {} PROVE FALSE
      OBVIOUS
    <2>2. PICK m \in Bad : \A k \in Bad : m <= k
      <3>1. Bad \in SUBSET Nat
        BY <1>1
      <3> HIDE DEF Bad
      <3>2. QED
        BY <2>1, <3>1, Least
    <2>3. m \in 0..n /\ ~(\E f : From(next, n, n + 1 - m, f))
      OBVIOUS
    <2>4. m # 0
      <3>1. From(next, n, n + 1 - 0, [k \in (n + 1)..(n + 1) |-> {}])
        BY <1>1 DEF From
      <3>2. QED
        BY <2>3, <3>1
    <2>5. m - 1 \in 0..n /\ ~(m <= m - 1) /\ n + 1 - (m - 1) = n + 2 - m
      BY <1>1, <2>3, <2>4
    <2>6. PICK f : From(next, n, n + 2 - m, f)
      BY <2>2, <2>5
    <2> DEFINE a == n + 1 - m
               g == [k \in a..(n + 1) |-> IF k = a THEN {a} \cup f[next[a]] ELSE f[k]]
    <2>7. a \in 1..n /\ a + 1 = n + 2 - m
      BY <1>1, <2>3, <2>4
    <2>8. ASSUME NEW k \in a..(n + 1)
          PROVE  g[k] = IF k = n + 1 THEN {} ELSE {k} \cup g[next[k]]
      <3>1. ASSUME NEW j \in (a + 1)..(n + 1)
            PROVE  g[j] = f[j] /\ f[j] = IF j = n + 1 THEN {} ELSE {j} \cup f[next[j]]
        <4>1. From(next, n, a + 1, f)
          BY <2>6, <2>7
        <4>2. j \in a..(n + 1) /\ j # a
          BY <1>1, <2>7
        <4>3. g[j] = f[j]
          BY <4>2
        <4> HIDE DEF a, g
        <4>4. QED
          BY <4>1, <4>3 DEF From
      <3>2. k # n + 1 => next[k] \in (a + 1)..(n + 1)
        BY <1>1, <2>7
      <3>3. CASE k = a
        <4>1. g[k] = {a} \cup f[next[a]]
          BY <3>3
        <4> HIDE DEF g
        <4>2. k # n + 1
          BY <3>3, <2>7, <1>1
        <4>3. g[next[k]] = f[next[k]]
          BY <3>1, <3>2, <4>2
        <4>4. QED
          BY <3>3, <4>1, <4>2, <4>3
      <3>4. CASE k # a
        <4>1. k \in (a + 1)..(n + 1)
          BY <3>4, <2>7, <1>1
        <4> HIDE DEF g
        <4>2. QED
          BY <3>1, <3>2, <4>1
      <3>5. QED
        BY <3>3, <3>4
    <2>9. From(next, n, a, g)
      <3>1. g = [k \in a..(n + 1) |-> g[k]]
        OBVIOUS
      <3> HIDE DEF g
      <3>2. QED
        BY <3>1, <2>8 DEF From
    <2> HIDE DEF g
    <2>10. QED
      BY <2>3, <2>9
  <1>3. 0 \in 0..n /\ n \in 0..n /\ n + 1 - n = 1
    BY <1>1
  <1>4. QED
    BY <1>2, <1>3

\* V is what a walk that starts at a visits.
Walked(next, n, a, V) ==
  /\ V \in SUBSET (a..n)
  /\ a <= n => a \in V
  /\ \A k \in V : next[k] \in V \cup {n + 1}
  /\ \A k, j \in V : k < j => next[k] <= j
  /\ \A S : (a <= n => a \in S) /\ (\A k \in S \cap (1..n) : next[k] \in S \cup {n + 1})
              => V \subseteq S

LEMMA WalkedBefore ==
  ASSUME NEW n, NEW next, Hops(next, n), NEW k \in 1..n, NEW V, Walked(next, n, next[k], V)
  PROVE  Walked(next, n, k, {k} \cup V)
  <1>1. n \in Nat /\ next[k] \in (k + 1)..(n + 1)
    BY DEF Hops
  <1>2. V \in SUBSET (next[k]..n) /\ (next[k] <= n => next[k] \in V)
    BY DEF Walked
  <1>3. {k} \cup V \in SUBSET (k..n)
    BY <1>1, <1>2
  <1>4. ASSUME NEW j \in {k} \cup V PROVE next[j] \in {k} \cup V \cup {n + 1}
    <2>1. CASE j = k
      BY <2>1, <1>1, <1>2
    <2>2. CASE j \in V
      BY <2>2 DEF Walked
    <2>3. QED
      BY <2>1, <2>2
  <1>5. ASSUME NEW i \in {k} \cup V, NEW j \in {k} \cup V, i < j PROVE next[i] <= j
    <2>1. CASE i = k
      BY <2>1, <1>1, <1>2, <1>5
    <2>2. CASE i \in V
      <3>1. j \in V
        BY <2>2, <1>1, <1>2, <1>5
      <3>2. QED
        BY <2>2, <3>1, <1>5 DEF Walked
    <2>3. QED
      BY <2>1, <2>2
  <1>6. ASSUME NEW S, k <= n => k \in S, \A j \in S \cap (1..n) : next[j] \in S \cup {n + 1}
        PROVE  {k} \cup V \subseteq S
    <2>1. k \in S /\ next[k] \in S \cup {n + 1}
      BY <1>1, <1>6
    <2>2. next[k] <= n => next[k] \in S
      BY <2>1, <1>1
    <2>3. V \subseteq S
      BY <2>2, <1>6 DEF Walked
    <2>4. QED
      BY <2>1, <2>3
  <1>7. QED
    BY <1>3, <1>4, <1>5, <1>6, <1>1 DEF Walked

LEMMA VisitedIs ==
  ASSUME NEW n, NEW next, Hops(next, n), NEW a \in Nat \ {0}
  PROVE  Walked(next, n, a, Visited(next, a))
  <1>1. n \in Nat /\ next \in [1..n -> Nat] /\ \A k \in 1..n : next[k] \in (k + 1)..(n + 1)
    BY DEF Hops
  <1>2. Len(next) = n
    BY <1>1, LenProperties, SeqDef
  <1> DEFINE F == CHOOSE f : From(next, n, 1, f)
  <1>3. From(next, n, 1, F)
    BY FromExists
  <1>4. Visited(next, a) = IF a > n + 1 THEN {} ELSE F[a]
    BY <1>2 DEF Visited, From
  <1> HIDE DEF F
  <1>5. \A k \in 1..(n + 1) : F[k] = IF k = n + 1 THEN {} ELSE {k} \cup F[next[k]]
    BY <1>3 DEF From
  <1> DEFINE Bad == {m \in 0..n : ~Walked(next, n, n + 1 - m, F[n + 1 - m])}
  <1>6. Bad = {}
    <2>1. SUFFICES ASSUME Bad # {} PROVE FALSE
      OBVIOUS
    <2>2. PICK m \in Bad : \A k \in Bad : m <= k
      <3>1. Bad \in SUBSET Nat
        BY <1>1
      <3> HIDE DEF Bad
      <3>2. QED
        BY <2>1, <3>1, Least
    <2> DEFINE b == n + 1 - m
    <2>3. m \in 0..n /\ b \in 1..(n + 1) /\ ~Walked(next, n, b, F[b])
      BY <1>1
    <2>4. b # n + 1
      <3>1. Walked(next, n, n + 1, {})
        BY <1>1 DEF Walked
      <3>2. F[n + 1] = {}
        <4>1. n + 1 \in 1..(n + 1)
          BY <1>1
        <4>2. QED
          BY <1>5, <4>1
      <3> HIDE DEF b
      <3>3. QED
        BY <3>1, <3>2, <2>3
    <2>5. b \in 1..n /\ next[b] \in (b + 1)..(n + 1)
      BY <1>1, <2>3, <2>4
    <2>6. n + 1 - next[b] \in 0..n /\ ~(m <= n + 1 - next[b]) /\ n + 1 - (n + 1 - next[b]) = next[b]
      BY <1>1, <2>3, <2>5
    <2>7. Walked(next, n, next[b], F[next[b]])
      BY <2>2, <2>6
    <2> HIDE DEF b
    <2>8. Walked(next, n, b, {b} \cup F[next[b]])
      BY <2>5, <2>7, WalkedBefore
    <2>9. F[b] = {b} \cup F[next[b]]
      BY <1>5, <2>3, <2>4
    <2>10. QED
      BY <2>3, <2>8, <2>9
  <1>7. CASE a > n + 1
    <2>1. Walked(next, n, a, {})
      BY <1>1, <1>7 DEF Walked
    <2>2. QED
      BY <2>1, <1>4, <1>7
  <1>8. CASE a <= n + 1
    <2>1. n + 1 - a \in 0..n /\ n + 1 - (n + 1 - a) = a
      BY <1>1, <1>8
    <2>2. Walked(next, n, a, F[a])
      BY <2>1, <1>6
    <2>3. Visited(next, a) = F[a]
      BY <1>1, <1>4, <1>8
    <2>4. QED
      BY <2>2, <2>3
  <1>9. QED
    BY <1>1, <1>7, <1>8

\* Walks that go the same way from all the positions one of them visits.
LEMMA SameWalk ==
  ASSUME NEW n \in Nat, NEW next, NEW other, NEW a \in Nat, NEW V, NEW W,
         Walked(next, n, a, V), Walked(other, n, a, W), \A k \in V : other[k] = next[k]
  PROVE  W = V
  <1>1. W \subseteq V
    <2>1. \A k \in V \cap (1..n) : other[k] \in V \cup {n + 1}
      BY DEF Walked
    <2>2. a <= n => a \in V
      BY DEF Walked
    <2>3. QED
      BY <2>1, <2>2 DEF Walked
  <1>2. V \subseteq V \cap W
    <2>1. \A k \in (V \cap W) \cap (1..n) : next[k] \in (V \cap W) \cup {n + 1}
      BY DEF Walked
    <2>2. a <= n => a \in V \cap W
      BY DEF Walked
    <2> HIDE DEF Walked
    <2>3. QED
      BY <2>1, <2>2 DEF Walked
  <1>3. QED
    BY <1>1, <1>2

\* The longer walk takes in one that goes the same way until it ends.
Follows(other, next, n, V) == \A k \in V : other[k] = next[k] \/ next[k] = n + 1

LEMMA WalkPrefix ==
  ASSUME NEW n \in Nat, NEW next, NEW other, NEW a \in Nat, NEW V, NEW W,
         Walked(next, n, a, V), Walked(other, n, a, W), Follows(other, next, n, V)
  PROVE  V \subseteq W
  <1> USE DEF Follows
  <1>1. \A k \in (V \cap W) \cap (1..n) : next[k] \in (V \cap W) \cup {n + 1}
    BY DEF Walked
  <1>2. a <= n => a \in V \cap W
    BY DEF Walked
  <1>3. V \subseteq V \cap W
    BY <1>1, <1>2 DEF Walked
  <1>4. QED
    BY <1>3

\* A walk that comes from the positions P to c, and from there goes as another does.
Leads(other, n, P, c, W) ==
  /\ P \subseteq W
  /\ 1 <= n => 1 \in P
  /\ \A k \in P : other[k] \in P \cup {c, n + 1}
  /\ c <= n => c \in W
Alike(other, next, V) == \A k \in V : other[k] = next[k]

LEMMA WalksJoin ==
  ASSUME NEW n \in Nat, NEW next, NEW other, NEW c \in Nat, NEW V, NEW W, NEW P,
         Walked(other, n, 1, W), Walked(next, n, c, V), Leads(other, n, P, c, W), Alike(other, next, V)
  PROVE  W = P \cup V
  <1> USE DEF Leads, Alike
  <1>1. c <= n => c \in V
    BY DEF Walked
  <1>2. V \subseteq V \cap W
    <2>1. \A k \in (V \cap W) \cap (1..n) : next[k] \in (V \cap W) \cup {n + 1}
      BY DEF Walked
    <2>2. QED
      BY <2>1, <1>1 DEF Walked
  <1>3. W \subseteq P \cup V
    <2>1. ASSUME NEW k \in (P \cup V) \cap (1..n)
          PROVE  other[k] \in (P \cup V) \cup {n + 1}
      <3>1. CASE k \in V
        BY <3>1 DEF Walked
      <3>2. CASE k \in P
        <4>1. other[k] = c => c \in W \cup {n + 1}
          BY <3>2 DEF Walked
        <4>2. c \in W => c \in V
          BY <1>1 DEF Walked
        <4>3. QED
          BY <3>2, <4>1, <4>2
      <3>3. QED
        BY <3>1, <3>2
    <2>2. QED
      BY <2>1 DEF Walked
  <1>4. QED
    BY <1>2, <1>3

-----------------------------------------------------------------------------
(* Expansion.  Each of n words becomes a block of words, of which there are *)
(* m: one word, but for the words of G, which are globs.                    *)

Spread(n, m, p, G) ==
  /\ n \in Nat /\ m \in Nat
  /\ p \in [1..(n + 1) -> 1..(m + 1)]
  /\ p[1] = 1 /\ p[n + 1] = m + 1
  /\ \A k \in 1..n : p[k] < p[k + 1]
  /\ \A k \in (1..n) \ G : p[k + 1] = p[k] + 1

Block(p, k) == p[k]..(p[k + 1] - 1)
Blocks(p, V) == UNION {Block(p, k) : k \in V}

LEMMA GlobIsPassed ==
  ASSUME NEW n, NEW m, NEW p, NEW G, Spread(n, m, p, G), NEW k \in 1..n,
         NEW next, NEW V, Walked(next, m, 1, V), p[k] \in V, \A i \in Block(p, k) : next[i] = i + 1
  PROVE  Block(p, k) \subseteq V /\ p[k + 1] \in V \cup {m + 1}
  <1>1. n \in Nat /\ m \in Nat /\ p[k] \in 1..(m + 1) /\ p[k + 1] \in 1..(m + 1) /\ p[k] < p[k + 1]
    BY DEF Spread
  <1>2. Block(p, k) \subseteq 1..m
    BY <1>1 DEF Block
  <1> DEFINE Bad == Block(p, k) \ V
  <1>3. Bad = {}
    <2>1. SUFFICES ASSUME Bad # {} PROVE FALSE
      OBVIOUS
    <2>2. Bad \in SUBSET Nat
      BY <1>2
    <2>3. PICK i \in Bad : \A j \in Bad : i <= j
      <3> HIDE DEF Bad
      <3>1. QED
        BY <2>1, <2>2, Least
    <2>4. i \in Block(p, k) /\ i \notin V /\ i # p[k] /\ i \in 1..m
      BY <1>2
    <2>5. i - 1 \in Block(p, k) /\ ~(i <= i - 1) /\ (i - 1) + 1 = i /\ i # m + 1
      BY <2>4, <1>1 DEF Block
    <2>6. i - 1 \in V
      BY <2>3, <2>5
    <2>7. next[i - 1] \in V \cup {m + 1} /\ next[i - 1] = i
      BY <2>5, <2>6 DEF Walked
    <2>8. QED
      BY <2>4, <2>5, <2>7
  <1>4. p[k + 1] - 1 \in Block(p, k) /\ (p[k + 1] - 1) + 1 = p[k + 1]
    BY <1>1 DEF Block
  <1>5. next[p[k + 1] - 1] = p[k + 1] /\ p[k + 1] - 1 \in V
    BY <1>3, <1>4
  <1>6. QED
    BY <1>3, <1>5 DEF Walked

\* The walk other over the expanded words goes where next goes over the words.
SpreadsOn(next, V, p, G, other) ==
  /\ \A k \in V \ G : other[p[k]] = p[next[k]]
  /\ \A k \in V \cap G : next[k] = k + 1
  /\ \A k \in V \cap G : \A i \in Block(p, k) : other[i] = i + 1

\* A walk over the expanded words visits the blocks of the words the walk over
\* the words visits.
LEMMA SpreadWalk ==
  ASSUME NEW n, NEW m, NEW p, NEW G, Spread(n, m, p, G),
         NEW next, NEW V, Walked(next, n, 1, V), NEW other, NEW W, Walked(other, m, 1, W),
         SpreadsOn(next, V, p, G, other)
  PROVE  W = Blocks(p, V)
  <1>0. /\ \A k \in V \ G : other[p[k]] = p[next[k]]
        /\ \A k \in V \cap G : next[k] = k + 1 /\ \A i \in Block(p, k) : other[i] = i + 1
    BY DEF SpreadsOn
  <1>1. /\ n \in Nat /\ m \in Nat /\ p[1] = 1 /\ p[n + 1] = m + 1
        /\ \A k \in 1..(n + 1) : p[k] \in 1..(m + 1)
        /\ \A k \in 1..n : p[k] < p[k + 1] /\ k + 1 \in 1..(n + 1)
        /\ \A k \in (1..n) \ G : p[k + 1] = p[k] + 1
    BY DEF Spread
  <1>2. V \in SUBSET (1..n) /\ (1 <= n => 1 \in V) /\ \A k \in V : next[k] \in V \cup {n + 1}
    BY DEF Walked
  <1>3. W \subseteq 1..m /\ (1 <= m => 1 \in W) /\ \A i \in W : other[i] \in W \cup {m + 1}
    BY DEF Walked
  <1>4. ASSUME NEW k \in V
        PROVE  /\ p[k] \in Block(p, k) /\ Block(p, k) \in SUBSET (1..m)
               /\ k \notin G => Block(p, k) = {p[k]}
    <2>1. p[k] \in 1..(m + 1) /\ p[k + 1] \in 1..(m + 1) /\ p[k] < p[k + 1]
      BY <1>1, <1>2
    <2>2. k \notin G => p[k + 1] = p[k] + 1
      BY <1>1, <1>2
    <2>3. QED
      BY <2>1, <2>2, <1>1 DEF Block
  <1>5. n >= 1 <=> m >= 1
    <2>1. CASE n = 0
      BY <1>1, <2>1
    <2>2. CASE n >= 1
      <3>1. 1 \in 1..n
        BY <1>1, <2>2
      <3>2. p[1] < p[1 + 1] /\ p[1 + 1] \in 1..(m + 1)
        BY <1>1, <3>1
      <3>3. QED
        BY <1>1, <2>2, <3>2
    <2>3. QED
      BY <1>1, <2>1, <2>2
  <1>6. W \subseteq Blocks(p, V)
    <2>1. ASSUME NEW i \in Blocks(p, V) PROVE other[i] \in Blocks(p, V) \cup {m + 1}
      <3>1. PICK k \in V : i \in Block(p, k)
        BY <2>1 DEF Blocks
      <3>2. \A j \in V \cup {n + 1} : p[j] \in Blocks(p, V) \cup {m + 1}
        BY <1>1, <1>4 DEF Blocks
      <3>3. CASE k \notin G
        <4>1. i = p[k] /\ next[k] \in V \cup {n + 1}
          BY <3>1, <3>3, <1>2, <1>4
        <4>2. QED
          BY <3>2, <3>3, <4>1, <1>0
      <3>4. CASE k \in G
        <4>1. other[i] = i + 1 /\ p[k + 1] \in Blocks(p, V) \cup {m + 1}
          BY <3>1, <3>2, <3>4, <1>0, <1>2
        <4>2. i + 1 \in Block(p, k) \/ i + 1 = p[k + 1]
          BY <3>1, <1>1, <1>2 DEF Block
        <4>3. QED
          BY <4>1, <4>2 DEF Blocks
      <3>5. QED
        BY <3>3, <3>4
    <2>2. 1 <= m => 1 \in Blocks(p, V)
      BY <1>1, <1>2, <1>4, <1>5 DEF Blocks
    <2>3. QED
      BY <2>1, <2>2 DEF Walked
  <1>7. ASSUME NEW k \in V, p[k] \in W
        PROVE  Block(p, k) \subseteq W /\ p[next[k]] \in W \cup {m + 1}
    <2>1. CASE k \notin G
      BY <2>1, <1>0, <1>3, <1>4, <1>7
    <2>2. CASE k \in G
      <3>1. next[k] = k + 1 /\ \A i \in Block(p, k) : other[i] = i + 1
        BY <2>2, <1>0
      <3>2. QED
        BY <3>1, <1>2, <1>7, GlobIsPassed
    <2>3. QED
      BY <2>1, <2>2
  <1>8. V \subseteq {k \in V : p[k] \in W}
    <2> DEFINE S == {k \in V : p[k] \in W}
    <2>1. 1 <= n => 1 \in S
      BY <1>1, <1>2, <1>3, <1>5
    <2>2. ASSUME NEW k \in S PROVE next[k] \in S \cup {n + 1}
      <3>1. p[next[k]] \in W \cup {m + 1} /\ next[k] \in V \cup {n + 1}
        BY <1>7, <1>2
      <3>2. ASSUME next[k] \in V PROVE p[next[k]] # m + 1
        <4>1. p[next[k]] \in 1..m
          BY <3>2, <1>4
        <4>2. QED
          BY <4>1, <1>1
      <3>3. QED
        BY <3>1, <3>2
    <2> HIDE DEF S
    <2>3. V \subseteq S
      BY <2>1, <2>2 DEF Walked
    <2>4. QED
      BY <2>3 DEF S
  <1>9. Blocks(p, V) \subseteq W
    BY <1>7, <1>8 DEF Blocks
  <1>10. QED
    BY <1>6, <1>9

\* What FlattenSeq makes of the first i sequences.
LEMMA FlattenUnfolds ==
  ASSUME NEW T, NEW n \in Nat \ {0}, NEW E \in [1..n -> Seq(T)]
  PROVE  \E f : /\ f[1] = E[1] /\ \A i \in 2..n : f[i] = f[i - 1] \o E[i]
                /\ FlattenSeq(E) = f[n]
  <1> DEFINE Upto(m, f) == f = [i \in 1..m |-> IF i = 1 THEN E[i] ELSE f[i - 1] \o E[i]]
             Bad == {m \in 1..n : ~(\E f : Upto(m, f))}
  <1>1. Bad = {}
    <2>1. SUFFICES ASSUME Bad # {} PROVE FALSE
      OBVIOUS
    <2>2. PICK m \in Bad : \A k \in Bad : m <= k
      <3>1. Bad \in SUBSET Nat
        <4> HIDE DEF Upto
        <4>1. QED
          OBVIOUS
      <3> HIDE DEF Bad
      <3>2. QED
        BY <2>1, <3>1, Least
    <2>3. m \in 1..n /\ ~(\E f : Upto(m, f))
      OBVIOUS
    <2>4. m # 1
      <3> DEFINE g == [i \in 1..1 |-> E[i]]
      <3>1. Upto(1, g)
        <4>1. \A i \in 1..1 : i = 1
          OBVIOUS
        <4>2. \A i \in 1..1 : E[i] = IF i = 1 THEN E[i] ELSE g[i - 1] \o E[i]
          BY <4>1
        <4>3. QED
          BY <4>2
      <3> HIDE DEF g
      <3>2. QED
        BY <2>3, <3>1
    <2>5. m - 1 \in 1..n /\ ~(m <= m - 1)
      BY <2>3, <2>4
    <2>6. PICK f : Upto(m - 1, f)
      BY <2>2, <2>5
    <2> DEFINE g == [i \in 1..m |-> IF i = m THEN f[m - 1] \o E[m] ELSE f[i]]
    <2>7. ASSUME NEW i \in 1..m
          PROVE  g[i] = IF i = 1 THEN E[i] ELSE g[i - 1] \o E[i]
      <3>1. ASSUME NEW j \in 1..(m - 1)
            PROVE  g[j] = f[j] /\ f[j] = IF j = 1 THEN E[j] ELSE f[j - 1] \o E[j]
        <4>1. j \in 1..m /\ j # m
          BY <2>3
        <4>2. g[j] = f[j]
          BY <4>1
        <4> HIDE DEF g
        <4>3. QED
          BY <4>2, <2>6
      <3>2. g[m] = f[m - 1] \o E[m]
        BY <2>3
      <3>3. i - 1 \in 1..(m - 1) \/ i = 1
        BY <2>3
      <3>4. i = m \/ i \in 1..(m - 1)
        BY <2>3
      <3> HIDE DEF g
      <3>5. QED
        BY <3>1, <3>2, <3>3, <3>4, <2>4
    <2>8. Upto(m, g)
      <3>1. g = [i \in 1..m |-> g[i]]
        OBVIOUS
      <3> HIDE DEF g
      <3>2. QED
        BY <3>1, <2>7
    <2> HIDE DEF g
    <2>9. QED
      BY <2>3, <2>8
  <1>2. \E f : Upto(n, f)
    <2>1. n \in 1..n
      OBVIOUS
    <2> HIDE DEF Upto
    <2>2. QED
      BY <1>1, <2>1
  <1> DEFINE F == CHOOSE f : Upto(n, f)
  <1>3. Len(E) = n /\ n # 0
    BY LenProperties, SeqDef
  <1>4. FlattenSeq(E) = F[n]
    BY <1>3 DEF FlattenSeq
  <1>5. Upto(n, F)
    BY <1>2
  <1> HIDE DEF F
  <1>6. F[1] = E[1] /\ \A i \in 2..n : F[i] = F[i - 1] \o E[i]
    <2>1. 1 \in 1..n /\ \A i \in 2..n : i \in 1..n /\ i # 1
      OBVIOUS
    <2>2. \A i \in 1..n : F[i] = IF i = 1 THEN E[i] ELSE F[i - 1] \o E[i]
      BY <1>5
    <2> HIDE DEF Upto
    <2>3. QED
      BY <2>1, <2>2
  <1>7. QED
    BY <1>4, <1>6

LEMMA FlattenSpreads ==
  ASSUME NEW T, NEW n \in Nat, NEW E \in [1..n -> Seq(T) \ {<<>>}]
  PROVE  /\ FlattenSeq(E) \in Seq(T)
         /\ \E p : /\ Spread(n, Len(FlattenSeq(E)), p, {k \in 1..n : Len(E[k]) # 1})
                   /\ \A k \in 1..n : \A i \in Block(p, k) : FlattenSeq(E)[i] \in Range(E[k])
  <1> DEFINE G == {k \in 1..n : Len(E[k]) # 1}
  <1>0. \A k \in 1..n : E[k] \in Seq(T) /\ Len(E[k]) \in Nat \ {0}
    BY EmptySeq
  <1>1. CASE n = 0
    <2>1. Len(E) = 0 /\ FlattenSeq(E) = E /\ E = <<>>
      BY <1>1 DEF FlattenSeq
    <2> DEFINE p == [k \in 1..1 |-> 1]
    <2>2. Spread(0, 0, p, G)
      BY <1>1 DEF Spread
    <2>3. <<>> \in Seq(T)
      BY EmptySeq
    <2> HIDE DEF p
    <2>4. QED
      BY <1>1, <2>1, <2>2, <2>3
  <1>2. CASE n # 0
    <2>1. PICK f : /\ f[1] = E[1] /\ \A i \in 2..n : f[i] = f[i - 1] \o E[i]
                   /\ FlattenSeq(E) = f[n]
      <3>1. E \in [1..n -> Seq(T)] /\ n \in Nat \ {0}
        BY <1>2
      <3> HIDE DEF G
      <3>2. \E f : /\ f[1] = E[1] /\ \A i \in 2..n : f[i] = f[i - 1] \o E[i]
                   /\ FlattenSeq(E) = f[n]
        BY <3>1, FlattenUnfolds
      <3>3. QED
        BY <3>2
    <2> DEFINE Good(i) == /\ f[i] \in Seq(T)
                          /\ \A j \in 1..i : /\ Len(f[j]) <= Len(f[i])
                                             /\ \A x \in 1..Len(f[j]) : f[i][x] = f[j][x]
               Bad == {i \in 1..n : ~Good(i)}
    <2>2. Good(1)
      <3>1. 1 \in 1..n
        BY <1>2
      <3>2. f[1] \in Seq(T) /\ Len(f[1]) \in Nat
        BY <3>1, <2>1, <1>0
      <3>3. \A j \in 1..1 : j = 1
        OBVIOUS
      <3>4. QED
        BY <3>2, <3>3
    <2>3. Bad = {}
      <3>1. SUFFICES ASSUME Bad # {} PROVE FALSE
        OBVIOUS
      <3>2. PICK i \in Bad : \A k \in Bad : i <= k
        <4>1. Bad \in SUBSET Nat
          OBVIOUS
        <4> HIDE DEF Bad
        <4>2. QED
          BY <3>1, <4>1, Least
      <3>3. i \in 2..n /\ ~Good(i)
        <4>1. i \in 1..n /\ ~Good(i)
          OBVIOUS
        <4> HIDE DEF Good
        <4>2. QED
          BY <2>2, <4>1
      <3>4. i - 1 \in 1..n /\ ~(i <= i - 1)
        BY <3>3
      <3>5. Good(i - 1)
        BY <3>2, <3>4
      <3>6. f[i] = f[i - 1] \o E[i] /\ f[i - 1] \in Seq(T) /\ E[i] \in Seq(T)
        BY <2>1, <3>3, <3>5, <1>0
      <3>7. /\ f[i] \in Seq(T) /\ Len(f[i]) = Len(f[i - 1]) + Len(E[i])
            /\ \A x \in 1..Len(f[i - 1]) : f[i][x] = f[i - 1][x]
            /\ Len(f[i - 1]) \in Nat /\ Len(E[i]) \in Nat
        BY <3>6, ConcatProperties, LenProperties
      <3>8. ASSUME NEW j \in 1..i
            PROVE  Len(f[j]) <= Len(f[i]) /\ \A x \in 1..Len(f[j]) : f[i][x] = f[j][x]
        <4>1. CASE j = i
          BY <4>1, <3>7
        <4>2. CASE j # i
          <5>1. j \in 1..(i - 1)
            BY <4>2, <3>3
          <5>2. Len(f[j]) <= Len(f[i - 1]) /\ \A x \in 1..Len(f[j]) : f[i - 1][x] = f[j][x]
            BY <5>1, <3>5
          <5>3. f[j] \in Seq(T) /\ Len(f[j]) \in Nat
            <6>1. j \in 1..n /\ ~(i <= j)
              BY <5>1, <3>3
            <6>2. Good(j)
              BY <3>2, <6>1
            <6>3. QED
              BY <6>2, LenProperties
          <5>4. QED
            BY <5>2, <5>3, <3>7
        <4>3. QED
          BY <4>1, <4>2
      <3>9. QED
        BY <3>3, <3>7, <3>8
    <2>4. \A i \in 1..n : Good(i)
      BY <2>3
    <2> DEFINE p == [k \in 1..(n + 1) |-> IF k = 1 THEN 1 ELSE Len(f[k - 1]) + 1]
               all == FlattenSeq(E)
    <2>5. ASSUME NEW k \in 1..n
          PROVE  /\ p[k] \in Nat \ {0} /\ p[k + 1] = p[k] + Len(E[k])
                 /\ p[k + 1] = Len(f[k]) + 1
                 /\ \A x \in 1..Len(E[k]) : f[k][p[k] + x - 1] = E[k][x]
      <3>1. k + 1 \in 1..(n + 1) /\ k + 1 # 1 /\ (k + 1) - 1 = k /\ k \in 1..(n + 1)
        OBVIOUS
      <3>2. p[k + 1] = Len(f[k]) + 1 /\ p[k] = IF k = 1 THEN 1 ELSE Len(f[k - 1]) + 1
        BY <3>1
      <3> HIDE DEF p
      <3>3. CASE k = 1
        <4>1. f[k] = E[k] /\ p[k] = 1
          BY <3>2, <3>3, <2>1
        <4>2. QED
          BY <4>1, <3>2, <1>0
      <3>4. CASE k # 1
        <4>0. k \in 2..n /\ k - 1 \in 1..n
          BY <3>4
        <4>1. f[k] = f[k - 1] \o E[k] /\ k - 1 \in 1..n
          BY <4>0, <2>1
        <4>2. f[k - 1] \in Seq(T) /\ E[k] \in Seq(T)
          BY <4>1, <2>4, <1>0
        <4>3. Len(f[k - 1]) \in Nat /\ Len(E[k]) \in Nat
          BY <4>2, LenProperties
        <4>4. Len(f[k]) = Len(f[k - 1]) + Len(E[k])
          BY <4>1, <4>2, ConcatProperties
        <4>5. ASSUME NEW x \in 1..Len(E[k])
              PROVE  f[k][Len(f[k - 1]) + x] = E[k][x]
          <5>1. /\ Len(f[k - 1]) + x \in 1..(Len(f[k - 1]) + Len(E[k]))
                /\ ~(Len(f[k - 1]) + x <= Len(f[k - 1]))
                /\ (Len(f[k - 1]) + x) - Len(f[k - 1]) = x
            BY <4>3
          <5>2. QED
            BY <5>1, <4>1, <4>2, ConcatProperties
        <4>6. \A x \in 1..Len(E[k]) : (Len(f[k - 1]) + 1) + x - 1 = Len(f[k - 1]) + x
          BY <4>3
        <4>7. p[k] = Len(f[k - 1]) + 1
          BY <3>2, <3>4
        <4>8. \A x \in 1..Len(E[k]) : f[k][p[k] + x - 1] = E[k][x]
          BY <4>5, <4>6, <4>7
        <4>9. p[k] \in Nat \ {0} /\ p[k + 1] = p[k] + Len(E[k])
          BY <3>2, <4>3, <4>4, <4>7
        <4>10. QED
          BY <3>2, <4>8, <4>9
      <3>5. QED
        BY <3>3, <3>4
    <2>6. all \in Seq(T) /\ Len(all) \in Nat /\ all = f[n] /\ n \in 1..n /\ 1 \in 1..(n + 1)
      BY <2>1, <2>4, <1>2, LenProperties
    <2>7. p[1] = 1
      BY <2>6
    <2>8. p[n + 1] = Len(all) + 1
      BY <2>5, <2>6
    <2>9. \A k \in 1..(n + 1) : p[k] \in 1..(Len(all) + 1)
      <3>1. SUFFICES ASSUME NEW k \in 1..(n + 1) PROVE p[k] \in 1..(Len(all) + 1)
        OBVIOUS
      <3>2. CASE k = n + 1
        BY <3>2, <2>6, <2>8
      <3>3. CASE k # n + 1
        <4>1. k \in 1..n
          BY <3>3
        <4>2. Good(n)
          BY <2>4, <2>6
        <4>3. Len(f[k]) <= Len(all) /\ Len(E[k]) \in Nat \ {0}
          BY <4>1, <4>2, <2>6, <1>0
        <4>4. Len(f[k]) \in Nat
          <5>1. Good(k)
            BY <4>1, <2>4
          <5>2. QED
            BY <5>1, LenProperties
        <4> HIDE DEF p, all
        <4>5. QED
          BY <4>1, <4>3, <4>4, <2>5, <2>6
      <3>4. QED
        BY <3>2, <3>3
    <2>10. Spread(n, Len(all), p, G)
      <3>1. p \in [1..(n + 1) -> 1..(Len(all) + 1)]
        <4>1. p = [k \in 1..(n + 1) |-> p[k]]
          OBVIOUS
        <4> HIDE DEF p, all
        <4>2. QED
          BY <4>1, <2>9
      <3> HIDE DEF p, all
      <3>2. \A k \in 1..n : p[k] < p[k + 1]
        BY <2>5, <1>0
      <3>3. \A k \in (1..n) \ G : p[k + 1] = p[k] + 1
        BY <2>5
      <3>4. QED
        BY <3>1, <3>2, <3>3, <2>6, <2>7, <2>8 DEF Spread
    <2>11. ASSUME NEW k \in 1..n, NEW i \in Block(p, k) PROVE all[i] \in Range(E[k])
      <3>1. Len(E[k]) \in Nat /\ DOMAIN E[k] = 1..Len(E[k])
        BY <1>0, LenProperties
      <3> HIDE DEF p, all
      <3>2. i - p[k] + 1 \in 1..Len(E[k]) /\ p[k] + (i - p[k] + 1) - 1 = i /\ i \in 1..(p[k + 1] - 1)
        <4>1. /\ p[k] \in Nat \ {0} /\ p[k + 1] = p[k] + Len(E[k])
              /\ i \in p[k]..(p[k + 1] - 1)
          BY <2>5 DEF Block
        <4> DEFINE a == p[k]
                   l == Len(E[k])
        <4>2. a \in Nat \ {0} /\ l \in Nat /\ i \in a..(a + l - 1) /\ p[k + 1] = a + l
          BY <3>1, <4>1
        <4> HIDE DEF a, l
        <4>3. i - a + 1 \in 1..l /\ a + (i - a + 1) - 1 = i /\ i \in 1..(a + l - 1)
          BY <4>2
        <4>4. QED
          BY <4>2, <4>3 DEF a, l
      <3>3. f[k][i] = E[k][i - p[k] + 1]
        BY <2>5, <3>2
      <3>4. Good(n)
        BY <2>4, <2>6
      <3>5. Len(f[k]) \in Nat
        <4>1. Good(k)
          BY <2>4
        <4>2. QED
          BY <4>1, LenProperties
      <3>6. i \in 1..Len(f[k])
        <4>1. p[k + 1] = Len(f[k]) + 1
          BY <2>5
        <4>2. QED
          BY <4>1, <3>2, <3>5
      <3>7. all[i] = f[k][i]
        BY <3>4, <3>6, <2>6
      <3>8. QED
        BY <3>1, <3>2, <3>3, <3>7 DEF Range
    <2> HIDE DEF p
    <2>12. QED
      BY <2>6, <2>10, <2>11
  <1>3. QED
    BY <1>1, <1>2

-----------------------------------------------------------------------------
(* One option: the allow-list and the program see the same words in it. *)

Harmless(prog, u) == <<prog, u[1]>> \notin Writers /\ <<prog, u[1], u[2]>> \notin Setters

Listed(spec) == spec.flags \cup spec.vals \cup spec.opt \cup spec.lflags \cup spec.lvals \cup spec.lopt

\* What spec lists the program reads the same way, and does not write, set or
\* repeat for; a -NUM is none of its options.
Agrees(prog, spec) ==
  /\ spec.flags \cup spec.lflags \subseteq Manual(prog).flags
  /\ spec.vals \cup spec.lvals \subseteq Manual(prog).vals
  /\ spec.opt \cup spec.lopt \subseteq Manual(prog).optional
  /\ \A o \in Manual(prog).vals : o \notin Manual(prog).flags
  /\ \A o \in Manual(prog).optional : o \notin Manual(prog).flags \cup Manual(prog).vals
  /\ "5" \notin Manual(prog).flags \cup Manual(prog).vals \cup Manual(prog).optional
  /\ \A o \in Listed(spec) \cup {"5"} : <<prog, o>> \notin Writers

LEMMA FlatProgramsAgree ==
  ASSUME NEW prog \in DOMAIN SPEC PROVE Agrees(prog, SPEC[prog])
  <1>1. CASE prog = "tail"
    BY <1>1 DEF SPEC, TailOpts, NoOptions, Agrees, Listed, Manual, Table, Writers
  <1>2. CASE prog = "date"
    BY <1>2 DEF SPEC, DateOpts, NoOptions, Agrees, Listed, Manual, Table, Writers
  <1>3. CASE prog = "hostname"
    BY <1>3 DEF SPEC, HostnameOpts, NoOptions, Agrees, Listed, Manual, Table, Writers
  <1>4. CASE prog = "lsof"
    BY <1>4 DEF SPEC, LsofOpts, NoOptions, Agrees, Listed, Manual, Table, Writers
  <1>5. CASE prog = "journalctl"
    BY <1>5 DEF SPEC, JournalctlOpts, NoOptions, Agrees, Listed, Manual, Table, Writers
  <1>6. CASE prog = "smartctl"
    BY <1>6 DEF SPEC, SmartctlOpts, NoOptions, Agrees, Listed, Manual, Table, Writers
  <1>7. QED
    BY <1>1, <1>2, <1>3, <1>4, <1>5, <1>6 DEF SPEC

LEMMA BothAgree ==
  ASSUME NEW prog, NEW a, NEW b, Agrees(prog, a), Agrees(prog, b)
  PROVE  Agrees(prog, Both(a, b))
  BY DEF Agrees, Both, Listed

LEMMA SubcommandAgrees ==
  ASSUME NEW prog \in DOMAIN SUBS, NEW sub \in DOMAIN SUBS[prog]
  PROVE  Agrees(prog, SUBS[prog][sub])
  <1>1. CASE prog = "zpool"
    <2>1. SUBS[prog] = ZpoolSubs /\ sub \in {"pre", "status", "history"}
      BY <1>1 DEF SUBS, ZpoolSubs
    <2>2. CASE sub = "pre"
      <3>1. Agrees(prog, ZpoolSubs.pre)
        BY <1>1 DEF ZpoolSubs, NoOptions, Agrees, Listed, Manual, Table, Writers
      <3>2. QED
        BY <2>1, <2>2, <3>1
    <2>3. CASE sub = "status"
      <3>1. Agrees(prog, ZpoolSubs.status)
        BY <1>1 DEF ZpoolSubs, NoOptions, Agrees, Listed, Manual, Table, Writers
      <3>2. QED
        BY <2>1, <2>3, <3>1
    <2>4. CASE sub = "history"
      <3>1. Agrees(prog, ZpoolSubs.history)
        BY <1>1 DEF ZpoolSubs, NoOptions, Agrees, Listed, Manual, Table, Writers
      <3>2. QED
        BY <2>1, <2>4, <3>1
    <2>5. QED
      BY <2>1, <2>2, <2>3, <2>4
  <1>2. CASE prog = "systemctl"
    <2>1. SUBS[prog] = SystemctlSubs /\ sub \in {"pre", "status", "show", "list_units"}
      BY <1>2 DEF SUBS, SystemctlSubs
    <2>2. CASE sub = "pre"
      <3>1. Agrees(prog, SystemctlSubs.pre)
        BY <1>2 DEF SystemctlSubs, NoOptions, Agrees, Listed, Manual, Table, Writers
      <3>2. QED
        BY <2>1, <2>2, <3>1
    <2>3. CASE sub = "status"
      <3>1. Agrees(prog, SystemctlSubs.status)
        BY <1>2 DEF SystemctlSubs, NoOptions, Agrees, Listed, Manual, Table, Writers
      <3>2. QED
        BY <2>1, <2>3, <3>1
    <2>4. CASE sub = "show"
      <3>1. Agrees(prog, SystemctlSubs.show)
        BY <1>2 DEF SystemctlSubs, NoOptions, Agrees, Listed, Manual, Table, Writers
      <3>2. QED
        BY <2>1, <2>4, <3>1
    <2>5. CASE sub = "list_units"
      <3>1. Agrees(prog, SystemctlSubs.list_units)
        BY <1>2 DEF SystemctlSubs, NoOptions, Agrees, Listed, Manual, Table, Writers
      <3>2. QED
        BY <2>1, <2>5, <3>1
    <2>6. QED
      BY <2>1, <2>2, <2>3, <2>4, <2>5
  <1>3. CASE prog = "pct"
    <2>1. SUBS[prog] = PctSubs /\ sub \in {"pre", "status", "config", "exec"}
      BY <1>3 DEF SUBS, PctSubs
    <2>2. CASE sub = "pre"
      <3>1. Agrees(prog, PctSubs.pre)
        BY <1>3 DEF PctSubs, NoOptions, Agrees, Listed, Manual, Table, Writers
      <3>2. QED
        BY <2>1, <2>2, <3>1
    <2>3. CASE sub = "status"
      <3>1. Agrees(prog, PctSubs.status)
        BY <1>3 DEF PctSubs, NoOptions, Agrees, Listed, Manual, Table, Writers
      <3>2. QED
        BY <2>1, <2>3, <3>1
    <2>4. CASE sub = "config"
      <3>1. Agrees(prog, PctSubs.config)
        BY <1>3 DEF PctSubs, NoOptions, Agrees, Listed, Manual, Table, Writers
      <3>2. QED
        BY <2>1, <2>4, <3>1
    <2>5. CASE sub = "exec"
      <3>1. Agrees(prog, PctSubs.exec)
        BY <1>3 DEF PctSubs, NoOptions, Agrees, Listed, Manual, Table, Writers
      <3>2. QED
        BY <2>1, <2>5, <3>1
    <2>6. QED
      BY <2>1, <2>2, <2>3, <2>4, <2>5
  <1>4. QED
    BY <1>1, <1>2, <1>3 DEF SUBS

LEMMA SubcommandsAgree ==
  ASSUME NEW prog \in DOMAIN SUBS
  PROVE  /\ Agrees(prog, SUBS[prog].pre)
         /\ \A sub \in DOMAIN SUBS[prog] : Agrees(prog, Both(SUBS[prog].pre, SUBS[prog][sub]))
  <1>1. "pre" \in DOMAIN SUBS[prog]
    BY DEF SUBS, ZpoolSubs, SystemctlSubs, PctSubs
  <1>2. Agrees(prog, SUBS[prog].pre)
    BY <1>1, SubcommandAgrees
  <1>3. QED
    BY <1>2, SubcommandAgrees, BothAgree

\* The text of an option that is given none.
NoText == ""

\* A sequence of words.
IsArgs(args) == Len(args) \in Nat /\ DOMAIN args = 1..Len(args)

\* Options without a value.
Flags(t) == {<<OptionsOf(t)[i], NoText>> : i \in 1..Len(OptionsOf(t))}

LEMMA ReadsFlags ==
  ASSUME NEW prog, NEW args, NEW k,
         \A q \in DOMAIN OptionsOf(args[k]) : OptionsOf(args[k])[q] \in Manual(prog).flags
  PROVE  ReadOption(prog, args, k) = [takes |-> 1, used |-> Flags(args[k])]
  BY DEF ReadOption, NoText, Flags

\* The options in front of t's p-th, as flags.
Before(t, p) == {<<OptionsOf(t)[i], NoText>> : i \in 1..(p - 1)}

\* What is read of the option opt with val attached, when given stands before it.
ReadAs(prog, args, k, opt, val, given) ==
  IF /\ val = NoText
     /\ \/ opt \in Manual(prog).vals /\ k < Len(args)
        \/ opt \in Manual(prog).optional /\ OptionalValue(prog, opt, args, k)
  THEN [takes |-> 2, used |-> given \cup {<<opt, args[k + 1].name>>}]
  ELSE [takes |-> 1, used |-> given \cup {<<opt, val>>}]

\* The p-th option of the word is the first that may take a value.
LEMMA ReadsValue ==
  ASSUME NEW prog, NEW args, NEW k, NEW p \in DOMAIN OptionsOf(args[k]),
         DOMAIN OptionsOf(args[k]) \in SUBSET Nat,
         OptionsOf(args[k])[p] \notin Manual(prog).flags,
         \A q \in DOMAIN OptionsOf(args[k]) : q < p => OptionsOf(args[k])[q] \in Manual(prog).flags
  PROVE  ReadOption(prog, args, k) =
           ReadAs(prog, args, k, OptionsOf(args[k])[p], Attached(args[k], p), Before(args[k], p))
  <1> DEFINE ls == OptionsOf(args[k])
             stops == {q \in DOMAIN ls : ls[q] \notin Manual(prog).flags}
  <1>1. p \in stops /\ stops \in SUBSET Nat
    OBVIOUS
  <1>2. \A q \in stops : p <= q
    BY <1>1
  <1>3. Min(stops) = p /\ stops # {}
    <2> HIDE DEF stops
    <2>1. QED
      BY <1>1, <1>2, MinIs
  <1>4. QED
    BY <1>3 DEF ReadOption, NoText, ReadAs, Before

\* The word at k of args and the one at q of other are the same, and so are those
\* behind them, unless an option at k, which takes count words, leaves a glob there.
SameAt(args, k, other, q, count) ==
  /\ k \in 1..Len(args) /\ q \in Nat /\ Len(args) \in Nat /\ Len(other) \in Nat
  /\ other[q] = args[k]
  /\ k < Len(args) <=> q < Len(other)
  /\ k < Len(args) => other[q + 1] = args[k + 1] \/ (count = 1 /\ args[k + 1].star)

LEMMA OptionalAgrees ==
  ASSUME NEW prog, NEW opt, NEW args, NEW k, NEW other, NEW q,
         SameAt(args, k, other, q, OptionalNext(prog, opt, args, k)),
         OptionalNext(prog, opt, args, k) # Refused
  PROVE  /\ OptionalNext(prog, opt, args, k) \in {1, 2}
         /\ OptionalValue(prog, opt, args, k) <=> OptionalNext(prog, opt, args, k) = 2
         /\ OptionalValue(prog, opt, other, q) <=> OptionalNext(prog, opt, args, k) = 2
         /\ OptionalNext(prog, opt, args, k) = 2 => k < Len(args)
  <1>1. k \in 1..Len(args) /\ Len(args) \in Nat /\ (k = Len(args) <=> ~(k < Len(args)))
    BY DEF SameAt
  <1>2. CASE ~HasNext(prog, opt) \/ k = Len(args)
    BY <1>1, <1>2 DEF SameAt, OptionalNext, OptionalValue, Refused
  <1>3. CASE HasNext(prog, opt) /\ k < Len(args)
    <2>1. CASE NextTakes(prog, opt, args[k + 1])
      BY <1>1, <1>3, <2>1 DEF SameAt, OptionalNext, OptionalValue, Refused
    <2>2. CASE ~NextTakes(prog, opt, args[k + 1])
      BY <1>1, <1>3, <2>2 DEF SameAt, OptionalNext, OptionalValue, Refused
    <2>3. QED
      BY <2>1, <2>2
  <1>4. QED
    BY <1>1, <1>2, <1>3

\* What the allow-list lets the p-th option of the word at k be, opt with val
\* attached: an option with a value, in the same word or the next, or an optional one.
ValueHere(prog, spec, opt, val) ==
  opt \in spec.vals \cup spec.lvals /\ val # NoText /\ ValueOK(prog, opt, Name(val))
ValueNext(prog, spec, args, k, opt, val) ==
  opt \in spec.vals \cup spec.lvals /\ val = NoText /\ k < Len(args) /\ ValueOK(prog, opt, args[k + 1])
OptionalHere(spec, opt, val) == opt \in spec.opt \cup spec.lopt /\ val # NoText
OptionalBehind(prog, spec, args, k, opt, val, count) ==
  opt \in spec.opt \cup spec.lopt /\ val = NoText /\ count = OptionalNext(prog, opt, args, k)

Inspected(prog, spec, args, k, opt, val, count) ==
  \/ ValueNext(prog, spec, args, k, opt, val) /\ count = 2
  \/ (ValueHere(prog, spec, opt, val) \/ OptionalHere(spec, opt, val)) /\ count = 1
  \/ OptionalBehind(prog, spec, args, k, opt, val, count)

LEMMA InspectedIsHarmless ==
  ASSUME NEW prog, NEW spec, Agrees(prog, spec), NEW args, NEW k, NEW opt, NEW val, NEW count
  PROVE  /\ opt \in Listed(spec) /\ opt \notin Manual(prog).vals => \A v : Harmless(prog, <<opt, v>>)
         /\ ValueHere(prog, spec, opt, val) => Harmless(prog, <<opt, val>>)
         /\ ValueNext(prog, spec, args, k, opt, val) => Harmless(prog, <<opt, args[k + 1].name>>)
         /\ opt \in spec.flags \cup spec.lflags => Harmless(prog, <<opt, NoText>>)
         /\ Harmless(prog, <<"5", NoText>>)
  <1>1. prog = "smartctl" => {"l", "log"} \subseteq Manual(prog).vals
    BY DEF Manual, Table
  <1>2. ASSUME NEW v, opt \in Listed(spec),
               prog = "smartctl" /\ opt \in {"l", "log"} => v # "scterc"
        PROVE  Harmless(prog, <<opt, v>>)
    <2>1. <<prog, opt>> \notin Writers
      BY <1>2 DEF Agrees
    <2>2. <<prog, opt, v>> \notin Setters
      BY <1>2 DEF Setters
    <2>3. QED
      BY <2>1, <2>2 DEF Harmless
  <1>3. opt \in Listed(spec) /\ opt \notin Manual(prog).vals => \A v : Harmless(prog, <<opt, v>>)
    BY <1>1, <1>2
  <1>4. ValueHere(prog, spec, opt, val) => Harmless(prog, <<opt, val>>)
    <2>1. SUFFICES ASSUME ValueHere(prog, spec, opt, val) PROVE Harmless(prog, <<opt, val>>)
      OBVIOUS
    <2>2. opt \in Listed(spec)
      BY <2>1 DEF ValueHere, Listed
    <2>3. prog = "smartctl" /\ opt \in {"l", "log"} => val # "scterc"
      <3>1. Name(val).name = val
        BY Zenon DEF Name, Operand, Text
      <3>2. QED
        BY <2>1, <3>1 DEF ValueHere, ValueOK, Says
    <2>4. QED
      BY <1>2, <2>2, <2>3
  <1>5. ValueNext(prog, spec, args, k, opt, val) => Harmless(prog, <<opt, args[k + 1].name>>)
    <2>1. SUFFICES ASSUME ValueNext(prog, spec, args, k, opt, val)
                   PROVE  Harmless(prog, <<opt, args[k + 1].name>>)
      OBVIOUS
    <2>2. opt \in Listed(spec)
      BY <2>1 DEF ValueNext, Listed
    <2>3. prog = "smartctl" /\ opt \in {"l", "log"} => args[k + 1].name # "scterc"
      BY <2>1 DEF ValueNext, ValueOK, Says
    <2>4. QED
      BY <1>2, <2>2, <2>3
  <1>6. opt \in spec.flags \cup spec.lflags => Harmless(prog, <<opt, NoText>>)
    <2>1. opt \in spec.flags \cup spec.lflags => opt \in Listed(spec)
      BY DEF Listed
    <2>2. NoText # "scterc"
      BY DEF NoText
    <2>3. QED
      BY <2>1, <2>2, <1>2
  <1>7. Harmless(prog, <<"5", NoText>>)
    <2>1. <<prog, "5">> \notin Writers /\ <<prog, "5", NoText>> \notin Setters
      BY DEF Agrees, Setters
    <2>2. QED
      BY <2>1 DEF Harmless
  <1>8. QED
    BY <1>3, <1>4, <1>5, <1>6, <1>7

LEMMA InspectedIsRead ==
  ASSUME NEW prog, NEW spec, Agrees(prog, spec), NEW args, NEW k, NEW other, NEW q,
         NEW count \in {1, 2}, SameAt(args, k, other, q, count), NEW opt, NEW val, NEW given,
         Inspected(prog, spec, args, k, opt, val, count)
  PROVE  /\ ReadAs(prog, other, q, opt, val, given) = ReadAs(prog, args, k, opt, val, given)
         /\ ReadAs(prog, args, k, opt, val, given).takes = count /\ (count = 2 => k < Len(args))
         /\ \A u \in ReadAs(prog, args, k, opt, val, given).used \ given : Harmless(prog, u)
  <1> DEFINE mine == ReadAs(prog, args, k, opt, val, given)
             theirs == ReadAs(prog, other, q, opt, val, given)
  <1>0. /\ mine = IF val = NoText /\ ((opt \in Manual(prog).vals /\ k < Len(args))
                      \/ (opt \in Manual(prog).optional /\ OptionalValue(prog, opt, args, k)))
                  THEN [takes |-> 2, used |-> given \cup {<<opt, args[k + 1].name>>}]
                  ELSE [takes |-> 1, used |-> given \cup {<<opt, val>>}]
        /\ theirs = IF val = NoText /\ ((opt \in Manual(prog).vals /\ q < Len(other))
                      \/ (opt \in Manual(prog).optional /\ OptionalValue(prog, opt, other, q)))
                    THEN [takes |-> 2, used |-> given \cup {<<opt, other[q + 1].name>>}]
                    ELSE [takes |-> 1, used |-> given \cup {<<opt, val>>}]
    BY DEF ReadAs
  <1> HIDE DEF mine, theirs
  <1>1. (k < Len(args) <=> q < Len(other)) /\ 1 # 2
    BY DEF SameAt
  <1>2. k < Len(args) /\ count = 2 => other[q + 1] = args[k + 1]
    BY DEF SameAt
  <1>3. CASE ValueNext(prog, spec, args, k, opt, val) /\ count = 2
    <2>1. val = NoText /\ k < Len(args) /\ opt \in Manual(prog).vals
      BY <1>3 DEF ValueNext, Agrees
    <2>2. mine = [takes |-> 2, used |-> given \cup {<<opt, args[k + 1].name>>}] /\ theirs = mine
      BY <1>0, <1>1, <1>2, <1>3, <2>1
    <2>3. Harmless(prog, <<opt, args[k + 1].name>>)
      BY <1>3, InspectedIsHarmless
    <2>4. QED
      <3>1. mine.used \ given \subseteq {<<opt, args[k + 1].name>>} /\ mine.takes = 2
        BY <2>2
      <3>2. QED
        BY <1>3, <2>1, <2>2, <2>3, <3>1 DEF mine, theirs
  <1>4. CASE (ValueHere(prog, spec, opt, val) \/ OptionalHere(spec, opt, val)) /\ count = 1
    <2>1. val # NoText
      BY <1>4 DEF ValueHere, OptionalHere
    <2>2. mine = [takes |-> 1, used |-> given \cup {<<opt, val>>}] /\ theirs = mine
      BY <1>0, <2>1
    <2>3. Harmless(prog, <<opt, val>>)
      <3>1. OptionalHere(spec, opt, val) => opt \in Listed(spec) /\ opt \notin Manual(prog).vals
        BY DEF OptionalHere, Agrees, Listed
      <3>2. QED
        BY <1>4, <3>1, InspectedIsHarmless
    <2>4. QED
      <3>1. mine.used \ given \subseteq {<<opt, val>>} /\ mine.takes = 1
        BY <2>2
      <3>2. QED
        BY <1>1, <1>4, <2>2, <2>3, <3>1 DEF mine, theirs
  <1>5. CASE OptionalBehind(prog, spec, args, k, opt, val, count)
    <2>1. /\ val = NoText /\ opt \in Manual(prog).optional /\ opt \notin Manual(prog).vals
          /\ opt \in Listed(spec)
      BY <1>5 DEF OptionalBehind, Agrees, Listed
    <2>2. count = OptionalNext(prog, opt, args, k) /\ count # Refused
      BY <1>5 DEF OptionalBehind, Refused
    <2>3. SameAt(args, k, other, q, OptionalNext(prog, opt, args, k))
          /\ OptionalNext(prog, opt, args, k) # Refused
      BY <2>2
    <2>4. /\ OptionalValue(prog, opt, args, k) <=> count = 2
          /\ OptionalValue(prog, opt, other, q) <=> count = 2
          /\ count = 2 => k < Len(args)
      BY <2>2, <2>3, OptionalAgrees
    <2>5. theirs = mine /\ mine.takes = count
      BY <1>0, <1>1, <1>2, <2>1, <2>4
    <2>6. mine.used = IF count = 2 THEN given \cup {<<opt, args[k + 1].name>>}
                      ELSE given \cup {<<opt, val>>}
      BY <1>0, <2>1, <2>4
    <2>7. \A v : Harmless(prog, <<opt, v>>)
      BY <2>1, InspectedIsHarmless
    <2>8. QED
      BY <2>4, <2>5, <2>6, <2>7 DEF mine, theirs
  <1>6. QED
    BY <1>3, <1>4, <1>5 DEF Inspected

\* Only flags stand in front of t's p-th option.
BehindFlags(t, flags, p) ==
  /\ DOMAIN OptionsOf(t) \in SUBSET Nat /\ 0 \notin DOMAIN OptionsOf(t)
  /\ p \in DOMAIN OptionsOf(t) /\ 1..(p - 1) \subseteq DOMAIN OptionsOf(t)
  /\ \A i \in 1..(p - 1) : OptionsOf(t)[i] \in flags

\* The program reads an option the allow-list lets through the way it was inspected,
\* in other words too that are the same there.
LEMMA ValueAgrees ==
  ASSUME NEW prog, NEW spec, Agrees(prog, spec), NEW args, NEW k, NEW other, NEW q,
         NEW count \in {1, 2}, SameAt(args, k, other, q, count),
         NEW p, BehindFlags(args[k], spec.flags, p),
         Inspected(prog, spec, args, k, OptionsOf(args[k])[p], Attached(args[k], p), count)
  PROVE  /\ ReadOption(prog, other, q) = ReadOption(prog, args, k)
         /\ ReadOption(prog, args, k).takes = count
         /\ count = 2 => k < Len(args)
         /\ \A u \in ReadOption(prog, args, k).used : Harmless(prog, u)
  <1> DEFINE ls == OptionsOf(args[k])
             opt == ls[p]
             val == Attached(args[k], p)
             given == Before(args[k], p)
  <1>1. /\ other[q] = args[k] /\ p \in Nat \ {0}
        /\ DOMAIN ls \in SUBSET Nat /\ p \in DOMAIN ls /\ 0 \notin DOMAIN ls
        /\ \A i \in 1..(p - 1) : ls[i] \in spec.flags
    BY DEF SameAt, BehindFlags
  <1>2. opt \notin Manual(prog).flags /\ \A i \in DOMAIN ls : i < p => ls[i] \in Manual(prog).flags
    <2>1. opt \in spec.vals \cup spec.lvals \cup spec.opt \cup spec.lopt
      BY DEF Inspected, ValueNext, ValueHere, OptionalHere, OptionalBehind
    <2>2. ASSUME NEW i \in DOMAIN ls, i < p PROVE ls[i] \in Manual(prog).flags
      <3>1. i \in 1..(p - 1)
        BY <1>1, <2>2
      <3>2. QED
        BY <1>1, <3>1 DEF Agrees
    <2>3. QED
      BY <2>1, <2>2 DEF Agrees
  <1>3. ReadOption(prog, args, k) = ReadAs(prog, args, k, opt, val, given)
    BY <1>1, <1>2, ReadsValue
  <1>4. ReadOption(prog, other, q) = ReadAs(prog, other, q, opt, val, given)
    <2>1. /\ p \in DOMAIN OptionsOf(other[q]) /\ DOMAIN OptionsOf(other[q]) \in SUBSET Nat
          /\ OptionsOf(other[q])[p] \notin Manual(prog).flags
          /\ \A i \in DOMAIN OptionsOf(other[q]) : i < p => OptionsOf(other[q])[i] \in Manual(prog).flags
      BY <1>1, <1>2
    <2>2. ReadOption(prog, other, q) =
            ReadAs(prog, other, q, OptionsOf(other[q])[p], Attached(other[q], p), Before(other[q], p))
      BY <2>1, ReadsValue
    <2>3. QED
      BY <1>1, <2>2
  <1>5. ASSUME NEW u \in given PROVE Harmless(prog, u)
    <2>1. PICK i \in 1..(p - 1) : u = <<ls[i], NoText>>
      BY <1>5 DEF Before
    <2>2. QED
      BY <1>1, <2>1, InspectedIsHarmless
  <1> HIDE DEF given, val, opt, ls
  <1>6. Inspected(prog, spec, args, k, opt, val, count)
    BY DEF val, opt, ls
  <1>7. /\ ReadOption(prog, other, q) = ReadOption(prog, args, k)
        /\ ReadOption(prog, args, k).takes = count /\ (count = 2 => k < Len(args))
        /\ \A u \in ReadOption(prog, args, k).used \ given : Harmless(prog, u)
    BY <1>3, <1>4, <1>6, InspectedIsRead
  <1>8. QED
    BY <1>5, <1>7

LEMMA OptionText ==
  ASSUME NEW t, IsText(t)
  PROVE  /\ t.kind \in Kinds
         /\ t.form = "number" /\ t.kind # "operand" => t.kind = "short" /\ t.letters = <<"5">>
         /\ t.kind = "short" => t.letters # <<>>
         /\ t.kind # "short" => t.letters = <<>>
         /\ t.letters \in Seq(STRING) /\ \A i \in DOMAIN t.letters : t.letters[i] # NoText
         /\ t.form \in {"plusNumber", "plusOther"} => t.kind = "operand"
         /\ t.star => t.form \in {"name", "plusOther", "odd"} /\ t.kind \notin {"dash", "ddash"}
  <1>1. t \in [kind : Kinds, name : STRING, letters : Seq(STRING), val : STRING,
               form : Forms, dir : {"", "bin", "other"}, star : BOOLEAN]
    BY DEF IsText
  <1>2. t.letters \in Seq(STRING) /\ t.kind \in Kinds
    BY <1>1
  <1>3. \/ t.kind = "operand" \/ t.form = "odd"
        \/ (t.kind = "short" /\ t.letters = <<"5">> /\ t.form = "number")
    BY DEF IsText
  <1>4. (t.kind = "short") = (t.letters # <<>>)
    BY DEF IsText
  <1>5. \A i \in DOMAIN t.letters : t.letters[i] # NoText
    BY DEF IsText, NoText
  <1>6. (t.kind \in {"dash", "ddash"} => ~t.star) /\ (t.star => t.form \in {"name", "plusOther", "odd"})
    BY DEF IsText
  <1>7. QED
    BY <1>2, <1>3, <1>4, <1>5, <1>6

LEMMA LongAgrees ==
  ASSUME NEW prog, NEW spec, Agrees(prog, spec), NEW args, NEW k, NEW other, NEW q,
         args[k].kind = "long", TakesLong(prog, spec, args, k) # Refused,
         SameAt(args, k, other, q, TakesLong(prog, spec, args, k))
  PROVE  /\ TakesLong(prog, spec, args, k) \in {1, 2}
         /\ ReadOption(prog, other, q) = ReadOption(prog, args, k)
         /\ ReadOption(prog, args, k).takes = TakesLong(prog, spec, args, k)
         /\ TakesLong(prog, spec, args, k) = 2 => k < Len(args)
         /\ \A u \in ReadOption(prog, args, k).used : Harmless(prog, u)
  <1> DEFINE takes == TakesLong(prog, spec, args, k)
             opt == args[k].name
             val == args[k].val
  <1>0. other[q] = args[k]
    BY DEF SameAt
  <1>1. OptionsOf(args[k]) = <<opt>> /\ Attached(args[k], 1) = val
    BY DEF OptionsOf, Attached
  <1>2. /\ opt \in spec.lopt => opt \notin spec.lflags \cup spec.lvals
        /\ opt \in spec.lvals => opt \notin spec.lflags \cup spec.lopt
    BY DEF Agrees
  <1>3. /\ opt \in spec.lflags /\ val = NoText => takes = 1
        /\ ~(opt \in spec.lflags /\ val = NoText) =>
             takes = IF opt \in spec.lopt
                     THEN IF val # NoText THEN 1 ELSE OptionalNext(prog, opt, args, k)
                     ELSE IF opt \in spec.lvals /\ val = NoText THEN NextValue(prog, opt, args, k)
                     ELSE IF opt \in spec.lvals /\ ValueOK(prog, opt, Name(val)) THEN 1
                     ELSE Refused
    BY <1>2 DEF TakesLong, NoText
  <1> HIDE DEF takes, opt, val
  <1>4. CASE opt \in spec.lflags /\ val = NoText
    <2>1. opt \in Manual(prog).flags
      BY <1>4 DEF Agrees
    <2>2. /\ \A i \in DOMAIN OptionsOf(args[k]) : OptionsOf(args[k])[i] \in Manual(prog).flags
          /\ \A i \in DOMAIN OptionsOf(other[q]) : OptionsOf(other[q])[i] \in Manual(prog).flags
      BY <1>0, <1>1, <2>1
    <2>3. /\ ReadOption(prog, args, k) = [takes |-> 1, used |-> Flags(args[k])]
          /\ ReadOption(prog, other, q) = [takes |-> 1, used |-> Flags(other[q])]
      BY <2>2, ReadsFlags
    <2>4. ReadOption(prog, other, q) = ReadOption(prog, args, k)
      BY <1>0, <2>3
    <2>5. \A u \in Flags(args[k]) : u = <<opt, NoText>>
      BY <1>1 DEF Flags
    <2>6. Harmless(prog, <<opt, NoText>>)
      BY <1>4, InspectedIsHarmless
    <2>7. takes = 1
      BY <1>3, <1>4
    <2>8. QED
      BY <1>4, <2>3, <2>4, <2>5, <2>6, <2>7 DEF takes
  <1>5. CASE ~(opt \in spec.lflags /\ val = NoText)
    <2>1. Inspected(prog, spec, args, k, opt, val, takes)
      BY <1>3, <1>5 DEF takes, NextValue, Refused, Inspected, ValueNext, ValueHere, OptionalHere,
                        OptionalBehind
    <2>2. takes \in {1, 2}
      BY <2>1 DEF Inspected, OptionalBehind, OptionalNext, takes, Refused
    <2> PICK first \in {1} : TRUE
      OBVIOUS
    <2>3. BehindFlags(args[k], spec.flags, first) /\ OptionsOf(args[k])[first] = opt
      BY <1>1 DEF BehindFlags
    <2>4. Inspected(prog, spec, args, k, OptionsOf(args[k])[first], Attached(args[k], first), takes)
      BY <1>1, <2>1, <2>3
    <2>5. SameAt(args, k, other, q, takes)
      BY DEF takes
    <2>6. /\ ReadOption(prog, other, q) = ReadOption(prog, args, k)
          /\ ReadOption(prog, args, k).takes = takes
          /\ takes = 2 => k < Len(args)
          /\ \A u \in ReadOption(prog, args, k).used : Harmless(prog, u)
      BY <2>2, <2>3, <2>4, <2>5, ValueAgrees
    <2>7. QED
      BY <2>2, <2>6 DEF takes
  <1>6. QED
    BY <1>4, <1>5

LEMMA ShortAgrees ==
  ASSUME NEW prog, NEW spec, Agrees(prog, spec), NEW args, NEW k, NEW other, NEW q,
         IsText(args[k]), args[k].kind = "short", TakesShort(prog, spec, args, k) # Refused,
         SameAt(args, k, other, q, TakesShort(prog, spec, args, k))
  PROVE  /\ TakesShort(prog, spec, args, k) \in {1, 2}
         /\ ReadOption(prog, other, q) = ReadOption(prog, args, k)
         /\ ReadOption(prog, args, k).takes = TakesShort(prog, spec, args, k)
         /\ TakesShort(prog, spec, args, k) = 2 => k < Len(args)
         /\ \A u \in ReadOption(prog, args, k).used : Harmless(prog, u)
  <1> DEFINE takes == TakesShort(prog, spec, args, k)
             ls == args[k].letters
             stops == {i \in DOMAIN ls : ls[i] \notin spec.flags}
  <1>0. other[q] = args[k]
    BY DEF SameAt
  <1>1. /\ ls \in Seq(STRING) /\ Len(ls) \in Nat \ {0} /\ DOMAIN ls = 1..Len(ls)
        /\ \A i \in DOMAIN ls : ls[i] # NoText
        /\ args[k].form = "number" => ls = <<"5">>
    <2>2. /\ ls \in Seq(STRING) /\ ls # <<>> /\ \A i \in DOMAIN ls : ls[i] # NoText
          /\ args[k].form = "number" => ls = <<"5">>
      BY OptionText
    <2> HIDE DEF ls
    <2>3. QED
      BY <2>2, EmptySeq, LenProperties
  <1>2. OptionsOf(args[k]) = ls
    BY DEF OptionsOf
  <1>3. CASE stops = {}
    <2>1. \A i \in DOMAIN ls : ls[i] \in spec.flags
      BY <1>3
    <2>2. /\ \A i \in DOMAIN OptionsOf(args[k]) : OptionsOf(args[k])[i] \in Manual(prog).flags
          /\ \A i \in DOMAIN OptionsOf(other[q]) : OptionsOf(other[q])[i] \in Manual(prog).flags
      BY <1>0, <1>2, <2>1 DEF Agrees
    <2>3. /\ ReadOption(prog, args, k) = [takes |-> 1, used |-> Flags(args[k])]
          /\ ReadOption(prog, other, q) = [takes |-> 1, used |-> Flags(other[q])]
      BY <2>2, ReadsFlags
    <2>4. ReadOption(prog, other, q) = ReadOption(prog, args, k)
      BY <1>0, <2>3
    <2>5. ASSUME NEW u \in Flags(args[k]) PROVE Harmless(prog, u)
      <3>1. PICK i \in 1..Len(ls) : u = <<ls[i], NoText>>
        BY <1>2, <2>5 DEF Flags
      <3>2. ls[i] \in spec.flags
        BY <1>1, <2>1, <3>1
      <3>3. QED
        BY <3>1, <3>2, InspectedIsHarmless
    <2>6. takes = 1
      BY <1>3 DEF TakesShort
    <2> HIDE DEF takes
    <2>7. QED
      BY <2>3, <2>4, <2>5, <2>6 DEF takes
  <1>4. CASE stops # {} /\ spec.num /\ args[k].form = "number"
    <2>1. OptionsOf(args[k]) = <<"5">> /\ OptionsOf(other[q]) = <<"5">>
      BY <1>0, <1>1, <1>2, <1>4
    <2>2. takes = 1
      BY <1>4 DEF TakesShort
    <2> PICK first \in {1} : TRUE
      OBVIOUS
    <2>3. /\ first \in DOMAIN <<"5">> /\ DOMAIN <<"5">> \in SUBSET Nat /\ <<"5">>[first] = "5"
          /\ \A i \in DOMAIN <<"5">> : ~(i < first)
      OBVIOUS
    <2>4. "5" \notin Manual(prog).flags \cup Manual(prog).vals \cup Manual(prog).optional
      BY DEF Agrees
    <2>5. /\ ReadOption(prog, args, k) = ReadAs(prog, args, k, "5", Attached(args[k], first), Before(args[k], first))
          /\ ReadOption(prog, other, q) = ReadAs(prog, other, q, "5", Attached(other[q], first), Before(other[q], first))
      BY <2>1, <2>3, <2>4, ReadsValue
    <2>6. Attached(args[k], first) = NoText /\ Before(args[k], first) = {}
      <3>1. ~(first < Len(args[k].letters)) /\ args[k].kind # "long" /\ 1..(first - 1) = {}
        BY <1>1, <1>4
      <3>2. QED
        BY <3>1 DEF Attached, NoText, Before
    <2>7. /\ ReadOption(prog, args, k) = [takes |-> 1, used |-> {} \cup {<<"5", NoText>>}]
          /\ ReadOption(prog, other, q) = [takes |-> 1, used |-> {} \cup {<<"5", NoText>>}]
      BY <1>0, <2>4, <2>5, <2>6 DEF ReadAs
    <2>8. Harmless(prog, <<"5", NoText>>)
      BY InspectedIsHarmless
    <2> HIDE DEF takes
    <2>9. QED
      BY <2>2, <2>7, <2>8 DEF takes
  <1>5. CASE stops # {} /\ ~(spec.num /\ args[k].form = "number")
    <2> DEFINE first == Min(stops)
               value == Attached(args[k], first)
    <2>1. first \in stops /\ \A i \in stops : first <= i
      <3>1. stops \in SUBSET Nat
        BY <1>1
      <3> HIDE DEF stops
      <3>2. QED
        BY <1>5, <3>1, MinIn
    <2>2. takes = CASE ls[first] \in spec.vals ->
                         IF first = Len(ls) THEN NextValue(prog, ls[first], args, k)
                         ELSE IF ls[first] \in spec.attach /\ ValueOK(prog, ls[first], Name(ls[first + 1])) THEN 1
                         ELSE Refused
                    [] ls[first] \in spec.opt ->
                         IF first = Len(ls) THEN OptionalNext(prog, ls[first], args, k) ELSE 1
                    [] OTHER -> Refused
      BY <1>5 DEF TakesShort
    <2>3. ls[first] \in spec.opt => ls[first] \notin spec.vals
      BY DEF Agrees
    <2>4. BehindFlags(args[k], spec.flags, first)
      <3>1. \A i \in 1..(first - 1) : i \in DOMAIN ls /\ i \notin stops
        <4>1. first \in 1..Len(ls) /\ Len(ls) \in Nat /\ DOMAIN ls = 1..Len(ls)
              /\ \A i \in stops : first <= i
          BY <1>1, <2>1
        <4> HIDE DEF first, stops, ls
        <4>2. QED
          BY <4>1
      <3>2. \A i \in 1..(first - 1) : ls[i] \in spec.flags
        BY <3>1
      <3>3. first \in DOMAIN ls
        BY <2>1
      <3> HIDE DEF first, stops, ls
      <3>4. QED
        BY <1>1, <1>2, <3>1, <3>2, <3>3 DEF BehindFlags
    <2>5. /\ first = Len(ls) => value = NoText
          /\ first # Len(ls) => value = ls[first + 1] /\ value # NoText
      <3>1. first \in 1..Len(ls)
        BY <1>1, <2>1
      <3>2. value = IF first < Len(ls) THEN ls[first + 1] ELSE NoText
        BY DEF Attached, NoText
      <3>3. first # Len(ls) => first < Len(ls) /\ first + 1 \in DOMAIN ls
        BY <1>1, <3>1
      <3>4. first = Len(ls) => ~(first < Len(ls))
        BY <1>1
      <3> HIDE DEF first, value, ls
      <3>5. QED
        BY <1>1, <3>2, <3>3, <3>4
    <2> HIDE DEF first, value, stops, takes, ls
    <2>6. Inspected(prog, spec, args, k, ls[first], value, takes)
      <3>1. CASE ls[first] \in spec.vals
        <4>1. takes = IF first = Len(ls) THEN NextValue(prog, ls[first], args, k)
                      ELSE IF ls[first] \in spec.attach /\ ValueOK(prog, ls[first], Name(ls[first + 1])) THEN 1
                      ELSE Refused
          BY <2>2, <2>3, <3>1
        <4>2. takes # Refused
          BY DEF takes
        <4>3. QED
          BY <2>5, <3>1, <4>1, <4>2 DEF NextValue, Refused, Inspected, ValueNext, ValueHere
      <3>2. CASE ls[first] \in spec.opt
        <4>1. takes = IF first = Len(ls) THEN OptionalNext(prog, ls[first], args, k) ELSE 1
          BY <2>2, <2>3, <3>2
        <4>2. QED
          BY <2>5, <3>2, <4>1 DEF Inspected, OptionalHere, OptionalBehind
      <3>3. CASE ls[first] \notin spec.vals /\ ls[first] \notin spec.opt
        <4>1. takes = Refused
          BY <2>2, <3>3
        <4>2. QED
          BY <4>1 DEF takes
      <3>4. QED
        BY <3>1, <3>2, <3>3
    <2>7. takes \in {1, 2}
      BY <2>6 DEF Inspected, OptionalBehind, OptionalNext, takes, Refused
    <2>8. Inspected(prog, spec, args, k, OptionsOf(args[k])[first], Attached(args[k], first), takes)
      BY <1>2, <2>6 DEF value
    <2>9. SameAt(args, k, other, q, takes)
      BY DEF takes
    <2>10. /\ ReadOption(prog, other, q) = ReadOption(prog, args, k)
           /\ ReadOption(prog, args, k).takes = takes
           /\ takes = 2 => k < Len(args)
           /\ \A u \in ReadOption(prog, args, k).used : Harmless(prog, u)
      BY <2>4, <2>7, <2>8, <2>9, ValueAgrees
    <2>11. QED
      BY <2>7, <2>10 DEF takes
  <1>6. QED
    BY <1>3, <1>4, <1>5

\* The program reads an option the allow-list lets through as it was inspected, and
\* it is none that writes, sets or repeats for ever.
LEMMA OptionAgrees ==
  ASSUME NEW prog, NEW spec, Agrees(prog, spec), NEW args, NEW k, NEW other, NEW q,
         IsText(args[k]), IsOption(args[k]), Takes(prog, spec, args, k) # Refused,
         SameAt(args, k, other, q, Takes(prog, spec, args, k))
  PROVE  /\ Takes(prog, spec, args, k) \in {1, 2}
         /\ ReadOption(prog, other, q) = ReadOption(prog, args, k)
         /\ ReadOption(prog, args, k).takes = Takes(prog, spec, args, k)
         /\ Takes(prog, spec, args, k) = 2 => k < Len(args)
         /\ \A u \in ReadOption(prog, args, k).used : Harmless(prog, u)
  <1>1. CASE args[k].kind = "long"
    <2>1. Takes(prog, spec, args, k) = TakesLong(prog, spec, args, k)
      BY <1>1 DEF Takes
    <2>2. TakesLong(prog, spec, args, k) # Refused
          /\ SameAt(args, k, other, q, TakesLong(prog, spec, args, k))
      BY <2>1
    <2>3. QED
      BY <1>1, <2>1, <2>2, LongAgrees
  <1>2. CASE args[k].kind = "short"
    <2>1. Takes(prog, spec, args, k) = TakesShort(prog, spec, args, k)
      BY <1>2 DEF Takes
    <2>2. TakesShort(prog, spec, args, k) # Refused
          /\ SameAt(args, k, other, q, TakesShort(prog, spec, args, k))
      BY <2>1
    <2>3. QED
      BY <1>2, <2>1, <2>2, ShortAgrees
  <1>3. QED
    BY <1>1, <1>2 DEF IsOption

-----------------------------------------------------------------------------
(* Walks over the words: the allow-list's and the program's. *)

LEMMA TakesBound ==
  ASSUME NEW prog, NEW spec, Agrees(prog, spec), NEW args, NEW k \in Nat, Len(args) \in Nat, k <= Len(args)
  PROVE  /\ Takes(prog, spec, args, k) \in {0, 1, 2}
         /\ Takes(prog, spec, args, k) = 2 => k < Len(args)
  <1> DEFINE InBound(n) == n \in {0, 1, 2} /\ (n = 2 => k < Len(args))
  <1>1. \A o : InBound(NextValue(prog, o, args, k))
    BY DEF NextValue, Refused
  <1>2. \A o : InBound(OptionalNext(prog, o, args, k))
    BY DEF OptionalNext, Refused
  <1>3. InBound(0) /\ InBound(1)
    OBVIOUS
  <1> HIDE DEF InBound
  <1>4. InBound(TakesLong(prog, spec, args, k))
    <2> DEFINE name == args[k].name
               value == args[k].val
               arm == IF name \in spec.lopt
                      THEN IF value # NoText THEN 1 ELSE OptionalNext(prog, name, args, k)
                      ELSE IF name \in spec.lvals /\ value = NoText THEN NextValue(prog, name, args, k)
                      ELSE IF name \in spec.lvals /\ ValueOK(prog, name, Name(value)) THEN 1
                      ELSE Refused
    <2>1. /\ name \in spec.lopt => name \notin spec.lflags \cup spec.lvals
          /\ name \in spec.lvals => name \notin spec.lflags \cup spec.lopt
      BY DEF Agrees
    <2>2. /\ name \in spec.lflags /\ value = NoText => TakesLong(prog, spec, args, k) = 1
          /\ ~(name \in spec.lflags /\ value = NoText) => TakesLong(prog, spec, args, k) = arm
      BY <2>1 DEF TakesLong, NoText
    <2>3. InBound(arm)
      BY <1>1, <1>2, <1>3 DEF Refused
    <2>4. QED
      BY <1>3, <2>2, <2>3
  <1>5. InBound(TakesShort(prog, spec, args, k))
    <2> DEFINE ls == args[k].letters
               stops == {i \in DOMAIN ls : ls[i] \notin spec.flags}
               first == Min(stops)
               inner == CASE ls[first] \in spec.vals ->
                         IF first = Len(ls) THEN NextValue(prog, ls[first], args, k)
                         ELSE IF ls[first] \in spec.attach /\ ValueOK(prog, ls[first], Name(ls[first + 1])) THEN 1
                         ELSE Refused
                    [] ls[first] \in spec.opt ->
                         IF first = Len(ls) THEN OptionalNext(prog, ls[first], args, k) ELSE 1
                    [] OTHER -> Refused
    <2>1. TakesShort(prog, spec, args, k) =
            IF stops = {} \/ (spec.num /\ args[k].form = "number") THEN 1 ELSE inner
      BY DEF TakesShort
    <2>2. ls[first] \in spec.opt => ls[first] \notin spec.vals
      BY DEF Agrees
    <2> HIDE DEF first, stops, ls
    <2>3. InBound(inner)
      BY <1>1, <1>2, <1>3, <2>2 DEF Refused
    <2> HIDE DEF inner
    <2>4. QED
      BY <1>3, <2>1, <2>3
  <1>6. InBound(Takes(prog, spec, args, k))
    BY <1>4, <1>5 DEF Takes
  <1>7. QED
    BY <1>6 DEF InBound

LEMMA OptionsHop ==
  ASSUME NEW prog, NEW spec, Agrees(prog, spec), NEW args, IsArgs(args), NEW stop \in BOOLEAN
  PROVE  Hops(OptionsNext(prog, spec, args, stop), Len(args))
  <1> DEFINE next == OptionsNext(prog, spec, args, stop)
             n == Len(args)
             hop(k) == IF IsOption(args[k])
                       THEN IF Takes(prog, spec, args, k) = Refused THEN n + 1
                            ELSE k + Takes(prog, spec, args, k)
                       ELSE IF stop \/ args[k].kind = "ddash" THEN n + 1 ELSE k + 1
  <1>1. n \in Nat /\ DOMAIN args = 1..n
    BY DEF IsArgs
  <1>2. next = [k \in 1..n |-> hop(k)]
    BY <1>1 DEF OptionsNext
  <1>3. ASSUME NEW k \in 1..n PROVE hop(k) \in Nat /\ k < hop(k) /\ hop(k) <= n + 1
    <2>1. /\ Takes(prog, spec, args, k) \in {0, 1, 2}
          /\ Takes(prog, spec, args, k) = 2 => k < n
      BY <1>1, TakesBound
    <2>2. QED
      BY <1>1, <2>1 DEF Refused
  <1> HIDE DEF next, hop
  <1>4. QED
    BY <1>1, <1>2, <1>3 DEF Hops, next

LEMMA ReadsHop ==
  ASSUME NEW prog, NEW args, IsArgs(args)
  PROVE  Hops(ReadsNext(prog, args), Len(args))
  <1> DEFINE next == ReadsNext(prog, args)
             n == Len(args)
             hop(k) == IF ReadsOption(prog, args, k) THEN k + ReadOption(prog, args, k).takes
                       ELSE IF ReadsLast(prog, args, k) THEN n + 1 ELSE k + 1
  <1>1. n \in Nat /\ DOMAIN args = 1..n
    BY DEF IsArgs
  <1>2. next = [k \in 1..n |-> hop(k)]
    BY <1>1 DEF ReadsNext
  <1>3. ASSUME NEW k \in 1..n PROVE hop(k) \in Nat /\ k < hop(k) /\ hop(k) <= n + 1
    <2>1. \/ ReadOption(prog, args, k).takes = 1
          \/ ReadOption(prog, args, k).takes = 2 /\ k < n
      BY DEF ReadOption, OptionalValue
    <2>2. QED
      BY <1>1, <2>1
  <1> HIDE DEF next, hop
  <1>4. QED
    BY <1>1, <1>2, <1>3 DEF Hops, next

\* Words that are texts.
AllText(args) == IsArgs(args) /\ \A k \in 1..Len(args) : IsText(args[k])

\* What the program makes of the positions V: its operands and its options.
FreeIn(prog, args, V) ==
  {k \in V : ~ReadsOption(prog, args, k) /\ (args[k].kind # "ddash" \/ ReadsVerb(prog, k))}
OperandsIn(prog, args, V) ==
  FreeIn(prog, args, V) \cup {j \in 1..Len(args) : \E k \in V : ReadsLast(prog, args, k) /\ k < j}
UsedIn(prog, args, V) ==
  UNION {ReadOption(prog, args, k).used : k \in {j \in V : ReadsOption(prog, args, j)}}

LEMMA ReadingIs ==
  ASSUME NEW prog, NEW args, IsArgs(args), NEW V, Walked(ReadsNext(prog, args), Len(args), 1, V)
  PROVE  /\ Reading(prog, args).operands = OperandsIn(prog, args, V)
         /\ Reading(prog, args).used = UsedIn(prog, args, V)
  <1> DEFINE read == Visited(ReadsNext(prog, args), 1)
             n == Len(args)
  <1>1. n \in Nat /\ 1 \in Nat /\ 1 \in Nat \ {0}
    BY DEF IsArgs
  <1>2. Hops(ReadsNext(prog, args), n)
    BY ReadsHop
  <1>3. Walked(ReadsNext(prog, args), n, 1, read)
    BY <1>1, <1>2, VisitedIs
  <1>4. read = V
    BY <1>1, <1>3, SameWalk
  <1>5. V \subseteq 1..n
    BY DEF Walked
  <1>6. Reading(prog, args).used = UsedIn(prog, args, V)
    BY <1>4 DEF Reading, UsedIn
  <1>7. Reading(prog, args).operands = OperandsIn(prog, args, V)
    <2> DEFINE last == {k \in V : ReadsLast(prog, args, k)}
               behind == UNION {(k + 1)..n : k \in last}
    <2>1. Reading(prog, args).operands = FreeIn(prog, args, V) \cup behind
      BY <1>4 DEF Reading, FreeIn
    <2>2. behind = {j \in 1..n : \E k \in V : ReadsLast(prog, args, k) /\ k < j}
      <3>1. ASSUME NEW j \in behind PROVE j \in 1..n /\ \E k \in V : ReadsLast(prog, args, k) /\ k < j
        <4>1. PICK k \in last : j \in (k + 1)..n
          BY <3>1
        <4>2. k \in 1..n /\ k \in V /\ ReadsLast(prog, args, k)
          BY <1>5
        <4>3. QED
          BY <1>1, <4>1, <4>2
      <3>2. ASSUME NEW j \in 1..n, NEW k \in V, ReadsLast(prog, args, k), k < j PROVE j \in behind
        <4>1. k \in last /\ k \in 1..n
          BY <1>5, <3>2
        <4>2. j \in (k + 1)..n
          BY <1>1, <3>2, <4>1
        <4>3. QED
          BY <4>1, <4>2
      <3> HIDE DEF behind
      <3>3. QED
        BY <3>1, <3>2
    <2>3. QED
      BY <2>1, <2>2 DEF OperandsIn
  <1>8. QED
    BY <1>6, <1>7

LEMMA OptionStep ==
  ASSUME NEW prog, NEW spec, Agrees(prog, spec), NEW args, AllText(args), NEW k \in 1..Len(args),
         IsOption(args[k]), Takes(prog, spec, args, k) # Refused
  PROVE  /\ Takes(prog, spec, args, k) \in {1, 2}
         /\ ReadOption(prog, args, k).takes = Takes(prog, spec, args, k)
         /\ Takes(prog, spec, args, k) = 2 => k < Len(args)
         /\ \A u \in ReadOption(prog, args, k).used : Harmless(prog, u)
  <1>1. IsText(args[k]) /\ Len(args) \in Nat
    BY DEF AllText, IsArgs
  <1>2. SameAt(args, k, args, k, Takes(prog, spec, args, k))
    BY <1>1 DEF SameAt
  <1>3. QED
    BY <1>1, <1>2, OptionAgrees

\* Where the program goes from a word the allow-list has let through.
LEMMA SameHop ==
  ASSUME NEW prog, NEW spec, Agrees(prog, spec), NEW args, AllText(args), NEW k \in 1..Len(args),
         IsOption(args[k]) => Takes(prog, spec, args, k) # Refused,
         ~ReadsVerb(prog, k), prog # "ip", NEW stop \in BOOLEAN, stop => IsOption(args[k])
  PROVE  ReadsNext(prog, args)[k] = OptionsNext(prog, spec, args, stop)[k]
  <1>1. k \in DOMAIN args
    BY DEF AllText, IsArgs
  <1>2. OptionsNext(prog, spec, args, stop)[k] =
          IF IsOption(args[k])
          THEN IF Takes(prog, spec, args, k) = Refused THEN Len(args) + 1
               ELSE k + Takes(prog, spec, args, k)
          ELSE IF stop \/ args[k].kind = "ddash" THEN Len(args) + 1 ELSE k + 1
    BY <1>1 DEF OptionsNext
  <1>3. ReadsNext(prog, args)[k] =
          IF ReadsOption(prog, args, k) THEN k + ReadOption(prog, args, k).takes
          ELSE IF ReadsLast(prog, args, k) THEN Len(args) + 1 ELSE k + 1
    BY <1>1 DEF ReadsNext
  <1>4. CASE IsOption(args[k])
    <2>1. ReadOption(prog, args, k).takes = Takes(prog, spec, args, k)
      BY <1>4, OptionStep
    <2>2. ReadsOption(prog, args, k)
      BY <1>4 DEF ReadsOption
    <2>3. QED
      BY <1>2, <1>3, <1>4, <2>1, <2>2
  <1>5. CASE ~IsOption(args[k])
    <2>1. ~ReadsOption(prog, args, k) /\ (ReadsLast(prog, args, k) <=> args[k].kind = "ddash") /\ ~stop
      BY <1>5 DEF ReadsOption, ReadsLast
    <2>2. QED
      BY <1>2, <1>3, <1>5, <2>1
  <1>6. QED
    BY <1>4, <1>5

\* A walk that does not stop at an operand, behind whatever is the verb.
FreeWalk(prog, spec, args, a, V) ==
  /\ Walked(OptionsNext(prog, spec, args, FALSE), Len(args), a, V)
  /\ \A k \in V : /\ ReadsNext(prog, args)[k] = OptionsNext(prog, spec, args, FALSE)[k]
                  /\ IsOption(args[k]) => Takes(prog, spec, args, k) # Refused
                  /\ ~ReadsVerb(prog, k)

LEMMA OptionsWalk ==
  ASSUME NEW prog, prog # "ip", NEW spec, Agrees(prog, spec), NEW args, AllText(args),
         NEW a \in Nat \ {0}, a = 1 => prog \notin VerbFirst,
         Options(prog, spec, args, a, FALSE).ok
  PROVE  \E V : /\ FreeWalk(prog, spec, args, a, V)
                /\ Options(prog, spec, args, a, FALSE).operands = OperandsIn(prog, args, V)
  <1> DEFINE V == Visited(OptionsNext(prog, spec, args, FALSE), a)
             n == Len(args)
  <1>1. n \in Nat /\ IsArgs(args) /\ \A k \in 1..n : IsText(args[k])
    BY DEF AllText, IsArgs
  <1>2. Walked(OptionsNext(prog, spec, args, FALSE), n, a, V)
    BY <1>1, OptionsHop, VisitedIs
  <1>3. V \subseteq a..n
    BY <1>2 DEF Walked
  <1>4. \A k \in V : IsOption(args[k]) => Takes(prog, spec, args, k) # Refused
    BY DEF Options
  <1>5. \A k \in V : ~ReadsVerb(prog, k) /\ k \in 1..n
    <2> HIDE DEF V
    <2>1. QED
      BY <1>1, <1>3 DEF ReadsVerb
  <1>6. \A k \in V : ReadsNext(prog, args)[k] = OptionsNext(prog, spec, args, FALSE)[k]
    <2> HIDE DEF V
    <2>1. QED
      BY <1>4, <1>5, SameHop
  <1>7. FreeWalk(prog, spec, args, a, V)
    <2> HIDE DEF V
    <2>1. QED
      BY <1>2, <1>4, <1>5, <1>6 DEF FreeWalk
  <1>8. Options(prog, spec, args, a, FALSE).operands = OperandsIn(prog, args, V)
    <2> DEFINE free == {k \in V : args[k].kind \in {"operand", "dash"}}
               ends == {j \in V : args[j].kind = "ddash"}
               behind == {k + 1 : k \in ends}
               rest == UNION {k..n : k \in behind}
    <2>1. Options(prog, spec, args, a, FALSE).operands = free \cup rest
      BY DEF Options
    <2> HIDE DEF V
    <2>2. free = FreeIn(prog, args, V)
      <3>1. ASSUME NEW k \in V
            PROVE  args[k].kind \in {"operand", "dash"} <=>
                     ~ReadsOption(prog, args, k) /\ (args[k].kind # "ddash" \/ ReadsVerb(prog, k))
        <4>1. args[k].kind \in Kinds
          BY <1>1, <1>5, OptionText
        <4>2. QED
          BY <1>5, <4>1 DEF Kinds, ReadsOption, IsOption
      <3>2. QED
        BY <3>1 DEF FreeIn
    <2>3. \A k \in V : k \in ends <=> ReadsLast(prog, args, k)
      BY <1>5 DEF ReadsLast, IsOption
    <2>4. rest = {j \in 1..n : \E k \in V : ReadsLast(prog, args, k) /\ k < j}
      <3>1. ASSUME NEW j \in rest PROVE j \in 1..n /\ \E k \in V : ReadsLast(prog, args, k) /\ k < j
        <4>1. PICK k \in ends : j \in (k + 1)..n
          BY <3>1
        <4>2. k \in 1..n /\ k \in V /\ ReadsLast(prog, args, k)
          BY <1>5, <2>3
        <4>3. QED
          BY <1>1, <4>1, <4>2
      <3>2. ASSUME NEW j \in 1..n, NEW k \in V, ReadsLast(prog, args, k), k < j PROVE j \in rest
        <4>1. k \in ends /\ k \in 1..n
          BY <1>5, <2>3, <3>2
        <4>2. j \in (k + 1)..n /\ k + 1 \in behind
          BY <1>1, <3>2, <4>1
        <4>3. QED
          BY <4>1, <4>2
      <3> HIDE DEF rest
      <3>3. QED
        BY <3>1, <3>2
    <2>5. QED
      BY <2>1, <2>2, <2>4 DEF OperandsIn
  <1> HIDE DEF V
  <1>9. QED
    BY <1>7, <1>8

-----------------------------------------------------------------------------
(* What is left to the operand rules. *)

Command(T, words) == words \in Seq(T) /\ words # <<>> /\ \A t \in T : IsText(t)

LEMMA CommandArgs ==
  ASSUME NEW T, NEW words, Command(T, words)
  PROVE  /\ AllText(Tail(words)) /\ IsText(words[1])
         /\ Len(words) \in Nat \ {0} /\ Len(Tail(words)) = Len(words) - 1
         /\ Tail(words) \in Seq(T)
         /\ \A k \in 1..Len(Tail(words)) : Tail(words)[k] = words[k + 1]
  <1>1. words \in Seq(T) /\ words # <<>> /\ \A t \in T : IsText(t)
    BY DEF Command
  <1>2. /\ Tail(words) \in Seq(T) /\ Len(Tail(words)) = Len(words) - 1
        /\ \A k \in 1..Len(Tail(words)) : Tail(words)[k] = words[k + 1]
    BY <1>1, HeadTailProperties
  <1>3. Len(words) \in Nat \ {0} /\ words[1] \in T
    <2>1. Len(words) \in Nat \ {0}
      BY <1>1, EmptySeq
    <2>2. 1 \in 1..Len(words)
      BY <2>1
    <2>3. QED
      BY <1>1, <2>1, <2>2, ElementOfSeq
  <1>4. IsArgs(Tail(words))
    BY <1>2, LenProperties DEF IsArgs
  <1>5. \A k \in 1..Len(Tail(words)) : Tail(words)[k] \in T
    BY <1>2, ElementOfSeq
  <1>6. QED
    BY <1>1, <1>2, <1>3, <1>4, <1>5 DEF AllText

LEMMA MaxIs ==
  ASSUME NEW S \in SUBSET Nat, NEW m \in S, \A k \in S : k <= m
  PROVE  Max(S) = m
  <1>1. \A x \in S : (\A k \in S : x >= k) => x = m
    <2>1. SUFFICES ASSUME NEW x \in S, \A k \in S : x >= k PROVE x = m
      OBVIOUS
    <2>2. x \in Nat /\ m \in Nat /\ x <= m /\ x >= m
      BY <2>1
    <2>3. QED
      BY <2>2
  <1>2. \A k \in S : m >= k
    OBVIOUS
  <1>3. QED
    BY <1>1, <1>2 DEF Max

\* A largest number below a bound.
LEMMA Greatest ==
  ASSUME NEW n \in Nat, NEW S \in SUBSET (1..n), S # {}
  PROVE  \E m \in S : \A k \in S : k <= m
  <1> DEFINE Above == {n - k : k \in S}
  <1>1. Above \in SUBSET Nat /\ Above # {}
    <2>1. \A k \in S : k \in 1..n /\ n - k \in Nat
      OBVIOUS
    <2>2. QED
      BY <2>1
  <1>2. PICK d \in Above : \A e \in Above : d <= e
    <2> HIDE DEF Above
    <2>1. QED
      BY <1>1, Least
  <1>3. PICK m \in S : d = n - m
    BY <1>2
  <1>4. ASSUME NEW k \in S PROVE k <= m
    <2>1. n - k \in Above /\ k \in 1..n /\ m \in 1..n
      OBVIOUS
    <2>2. n - m <= n - k
      BY <1>2, <1>3, <2>1
    <2>3. QED
      BY <2>1, <2>2
  <1>5. QED
    BY <1>4

\* The words at ops behind the program's name.
Behind(ops) == {k + 1 : k \in ops}

\* A program that takes INTERVAL COUNT is given both numbers, and no glob.
LEMMA CountEnds ==
  ASSUME NEW T, NEW words, Command(T, words), NEW ops \in SUBSET (1..Len(Tail(words))),
         CountRule(words, Behind(ops))
  PROVE  /\ ~Repeats(Tail(words), ops)
         /\ \A k \in ops : ~Tail(words)[k].star
  <1> DEFINE args == Tail(words)
             n == Len(args)
             nums == {k \in Behind(ops) : words[k].form \in {"number", "fraction"}}
  <1>1. n \in Nat /\ \A k \in 1..n : args[k] = words[k + 1]
    BY CommandArgs DEF AllText, IsArgs
  <1>2. \A k \in ops : k \in 1..n /\ k + 1 \in Behind(ops) /\ args[k] = words[k + 1]
    BY <1>1 DEF Behind
  <1>3. \A k \in ops : ~args[k].star
    BY <1>2 DEF CountRule
  <1>4. nums = {} \/ \E i, j \in nums : /\ i < j /\ nums = {i, j}
                                        /\ \A k \in Behind(ops) \ nums : k < i
                                        /\ words[j].form = "number"
    BY DEF CountRule
  <1>5. SUFFICES ASSUME Repeats(args, ops) PROVE FALSE
    BY <1>3
  <1>6. ops # {} /\ Numeric(args[Max(ops)])
        /\ (ops \ {Max(ops)} = {} \/ ~Numeric(args[Max(ops \ {Max(ops)})]) \/ args[Max(ops)].form = "fraction")
    BY <1>5 DEF Repeats
  <1>7. PICK m \in ops : \A k \in ops : k <= m
    BY <1>1, <1>6, Greatest
  <1>8. Max(ops) = m
    <2>1. ops \in SUBSET Nat
      BY <1>1
    <2>2. QED
      BY <1>7, <2>1, MaxIs
  <1>9. m + 1 \in nums
    BY <1>2, <1>6, <1>8 DEF Numeric
  <1>10. PICK i, j \in nums : /\ i < j /\ nums = {i, j}
                              /\ \A k \in Behind(ops) \ nums : k < i
                              /\ words[j].form = "number"
    BY <1>4, <1>9
  <1>11. PICK a \in ops : i = a + 1
    BY DEF Behind
  <1>12. PICK b \in ops : j = b + 1
    BY DEF Behind
  <1> HIDE DEF nums, n, args
  <1>13. a \in Nat /\ b \in Nat /\ m \in Nat /\ a < b /\ b <= m
    BY <1>1, <1>2, <1>7, <1>10, <1>11, <1>12
  <1>14. m = b
    <2>1. m + 1 = a + 1 \/ m + 1 = b + 1
      BY <1>9, <1>10, <1>11, <1>12
    <2>2. QED
      BY <1>13, <2>1
  <1>15. Max(ops \ {m}) = a
    <2>1. ASSUME NEW k \in ops \ {m} PROVE k <= a
      <3>1. k \in Nat /\ k + 1 \in Behind(ops) /\ k # b
        BY <1>1, <1>2, <1>14, <2>1
      <3>2. k + 1 \in nums => k = a
        <4>1. k + 1 \in nums => k + 1 = a + 1 \/ k + 1 = b + 1
          BY <1>10, <1>11, <1>12
        <4>2. QED
          BY <1>13, <3>1, <4>1
      <3>3. k + 1 \notin nums => k + 1 < a + 1
        BY <1>10, <1>11, <3>1
      <3>4. QED
        BY <1>13, <3>1, <3>2, <3>3
    <2>2. a \in ops \ {m} /\ ops \ {m} \in SUBSET Nat
      BY <1>1, <1>2, <1>13, <1>14
    <2>3. QED
      BY <2>1, <2>2, MaxIs
  <1>16. Numeric(args[a]) /\ args[m].form = "number"
    <2>1. a + 1 \in nums
      BY <1>11
    <2>2. words[a + 1].form \in {"number", "fraction"}
      BY <2>1 DEF nums
    <2>3. args[a] = words[a + 1] /\ args[m] = words[m + 1]
      BY <1>2
    <2>4. QED
      BY <1>10, <1>12, <1>14, <2>2, <2>3 DEF Numeric
  <1>17. a \in ops \ {m}
    BY <1>13, <1>14
  <1>18. QED
    BY <1>6, <1>8, <1>15, <1>16, <1>17

-----------------------------------------------------------------------------
(* What the program makes of words the allow-list has let through. *)

\* ops are the program's operands; those in O the allow-list leaves to the rules.
Kept(prog, args, O, ops) ==
  /\ prog = "date" => \A k \in ops : IsPlus(args[k])
  /\ prog = "hostname" => ops = {}
  /\ prog \in {"tail", "lsof"} => \A k \in ops : args[k].form # "plusOther"
  /\ prog = "zpool" /\ ops # {} /\ Says(args[Min(ops)], {"status"}) =>
       ~Repeats(args, ops \ {Min(ops)}) /\ \A k \in O : ~args[k].star
  /\ prog \in Verbs /\ ops # {} => Min(ops) \notin O
  /\ prog = "ip" => O = {}
  /\ ~VerbHarms(prog, args, ops)

\* V are the words the program reads one by one: its options are listed, and none
\* of them takes a word of O, nor is one of O an option or a --.
Understood(prog, args, O, V) ==
  /\ O \subseteq 1..Len(args)
  /\ Walked(ReadsNext(prog, args), Len(args), 1, V)
  /\ \A k \in V : ReadsOption(prog, args, k) =>
       \E spec : /\ Agrees(prog, spec) /\ Takes(prog, spec, args, k) # Refused
                 /\ Takes(prog, spec, args, k) = 2 => k + 1 \notin O
  /\ \A k \in V \cap O : ~IsOption(args[k]) /\ ~ReadsLast(prog, args, k)
  /\ Kept(prog, args, O, OperandsIn(prog, args, V))

LEMMA EndsAtLast ==
  ASSUME NEW prog, NEW args, IsArgs(args), NEW k \in 1..Len(args)
  PROVE  /\ ReadsLast(prog, args, k) => ReadsNext(prog, args)[k] = Len(args) + 1
         /\ ReadsLast(prog, args, k) => ~ReadsOption(prog, args, k)
         /\ ReadsOption(prog, args, k) =>
              ReadsNext(prog, args)[k] = k + ReadOption(prog, args, k).takes
         /\ ~ReadsOption(prog, args, k) /\ ~ReadsLast(prog, args, k) =>
              ReadsNext(prog, args)[k] = k + 1
  <1>1. k \in DOMAIN args
    BY DEF IsArgs
  <1>2. ReadsLast(prog, args, k) => ~ReadsOption(prog, args, k)
    BY DEF ReadsLast, ReadsOption
  <1>3. QED
    BY <1>1, <1>2 DEF ReadsNext

LEMMA FreeWalkApart ==
  ASSUME NEW prog, prog # "ip", NEW spec, Agrees(prog, spec), NEW args, AllText(args),
         NEW a \in Nat \ {0}, NEW V, FreeWalk(prog, spec, args, a, V)
  PROVE  /\ V \subseteq a..Len(args)
         /\ \A k \in V : Takes(prog, spec, args, k) = 2 /\ IsOption(args[k]) =>
              k + 1 \notin OperandsIn(prog, args, V)
         /\ \A k \in V \cap OperandsIn(prog, args, V) : ~IsOption(args[k]) /\ ~ReadsLast(prog, args, k)
  <1> DEFINE next == OptionsNext(prog, spec, args, FALSE)
             n == Len(args)
  <1>1. /\ n \in Nat /\ IsArgs(args) /\ V \subseteq a..n
        /\ \A k, j \in V : k < j => next[k] <= j
    BY DEF AllText, IsArgs, FreeWalk, Walked
  <1>2. \A k \in V : k \in 1..n /\ next[k] = ReadsNext(prog, args)[k] /\ ~ReadsVerb(prog, k)
                     /\ (IsOption(args[k]) => Takes(prog, spec, args, k) # Refused)
    <2>1. \A k \in V : k \in 1..n
      BY <1>1
    <2>2. QED
      BY <2>1 DEF FreeWalk
  <1> HIDE DEF next
  <1>3. ASSUME NEW k \in V, NEW j \in V, ReadsLast(prog, args, k), k < j PROVE FALSE
    <2>1. next[k] = n + 1
      BY <1>1, <1>2, <1>3, EndsAtLast
    <2>2. n + 1 <= j /\ j \in 1..n
      BY <1>1, <1>2, <1>3, <2>1
    <2>3. QED
      BY <1>1, <2>2
  <1>4. ASSUME NEW k \in V, Takes(prog, spec, args, k) = 2, IsOption(args[k]),
               k + 1 \in OperandsIn(prog, args, V)
        PROVE  FALSE
    <2>1. ReadOption(prog, args, k).takes = 2 /\ ReadsOption(prog, args, k)
      BY <1>2, <1>4, OptionStep DEF ReadsOption, Refused
    <2>2. next[k] = k + 2
      BY <1>1, <1>2, <2>1, EndsAtLast
    <2>3. k + 1 \notin V
      <3>1. SUFFICES ASSUME k + 1 \in V PROVE FALSE
        OBVIOUS
      <3>2. k \in Nat /\ k < k + 1
        BY <1>2
      <3>3. k + 2 <= k + 1
        BY <1>1, <2>2, <3>1, <3>2
      <3>4. QED
        BY <3>2, <3>3
    <2>4. PICK j \in V : ReadsLast(prog, args, j) /\ j < k + 1
      BY <1>4, <2>3 DEF OperandsIn, FreeIn
    <2>5. j # k
      BY <1>2, <2>1, <2>4, EndsAtLast, <1>1
    <2>6. j < k
      BY <1>2, <2>4, <2>5
    <2>7. QED
      BY <1>3, <2>4, <2>6
  <1>5. ASSUME NEW k \in V \cap OperandsIn(prog, args, V)
        PROVE  ~IsOption(args[k]) /\ ~ReadsLast(prog, args, k)
    <2>1. CASE k \in FreeIn(prog, args, V)
      BY <1>2, <2>1 DEF FreeIn, ReadsOption, ReadsLast
    <2>2. CASE \E j \in V : ReadsLast(prog, args, j) /\ j < k
      BY <1>3, <2>2
    <2>3. QED
      BY <2>1, <2>2 DEF OperandsIn
  <1>6. QED
    BY <1>1, <1>4, <1>5

LEMMA RuledOk ==
  ASSUME NEW words, NEW ops, NEW rule, Ruled(words, ops, rule).ok
  PROVE  Ruled(words, ops, rule).operands = Behind(ops) /\ OperandRule(rule, words, Behind(ops))
  BY DEF Ruled, Behind, Yes, No

LEMMA FlatKept ==
  ASSUME NEW T, NEW words, Command(T, words), NEW prog \in DOMAIN SPEC,
         NEW ops \in SUBSET (1..Len(Tail(words))), OperandRule(OPERANDS(prog, ""), words, Behind(ops))
  PROVE  Kept(prog, Tail(words), ops, ops)
  <1> DEFINE args == Tail(words)
  <1>1. /\ prog \in {"tail", "date", "hostname", "lsof", "journalctl", "smartctl"}
        /\ prog \notin Verbs /\ prog # "ip" /\ prog # "zpool"
    BY DEF SPEC, Verbs
  <1>2. \A k \in ops : k + 1 \in Behind(ops) /\ words[k + 1] = args[k] /\ IsText(args[k])
    BY CommandArgs DEF Behind, AllText
  <1> HIDE DEF args
  <1>3. prog = "date" => \A k \in ops : IsPlus(args[k])
    <2>1. prog = "date" => OPERANDS(prog, "") = "+"
      BY DEF OPERANDS
    <2>2. QED
      BY <1>2, <2>1 DEF OperandRule
  <1>4. prog = "hostname" => ops = {}
    <2>1. prog = "hostname" => OPERANDS(prog, "") = "none"
      BY DEF OPERANDS
    <2>2. QED
      BY <1>2, <2>1 DEF OperandRule
  <1>5. prog = "tail" => \A k \in ops : args[k].form # "plusOther"
    <2>1. prog = "tail" => OPERANDS(prog, "") = "+N"
      BY DEF OPERANDS
    <2>2. prog = "tail" => \A k \in ops : IsPlus(args[k]) => args[k].form = "plusNumber"
      BY <1>2, <2>1 DEF OperandRule
    <2>3. \A k \in ops : args[k].form = "plusOther" => IsPlus(args[k])
      BY <1>2, OptionText DEF IsPlus
    <2>4. QED
      BY <2>2, <2>3
  <1>6. prog = "lsof" => \A k \in ops : args[k].form # "plusOther"
    <2>1. prog = "lsof" => OPERANDS(prog, "") = "no+"
      BY DEF OPERANDS
    <2>2. prog = "lsof" => \A k \in ops : ~IsPlus(args[k])
      BY <1>2, <2>1 DEF OperandRule
    <2>3. \A k \in ops : args[k].form = "plusOther" => IsPlus(args[k])
      BY <1>2, OptionText DEF IsPlus
    <2>4. QED
      BY <2>2, <2>3
  <1>7. QED
    BY <1>1, <1>3, <1>4, <1>5, <1>6 DEF Kept, VerbHarms, args

\* Walks that go the same way visit the same words.
LEMMA ReadsAlike ==
  ASSUME NEW prog, NEW args, IsArgs(args), NEW next, NEW V, Walked(next, Len(args), 1, V),
         \A k \in V : ReadsNext(prog, args)[k] = next[k]
  PROVE  Walked(ReadsNext(prog, args), Len(args), 1, V)
  <1> DEFINE read == Visited(ReadsNext(prog, args), 1)
  <1>1. Len(args) \in Nat /\ 1 \in Nat /\ 1 \in Nat \ {0}
    BY DEF IsArgs
  <1>2. Walked(ReadsNext(prog, args), Len(args), 1, read)
    BY <1>1, ReadsHop, VisitedIs
  <1> HIDE DEF read
  <1>3. read = V
    BY <1>1, <1>2, SameWalk
  <1>4. QED
    BY <1>2, <1>3

LEMMA FlatUnderstood ==
  ASSUME NEW T, NEW words, Command(T, words), NEW prog \in DOMAIN SPEC, ByProgram(prog, words).ok
  PROVE  \E O, V : /\ ByProgram(prog, words).operands = Behind(O)
                   /\ Understood(prog, Tail(words), O, V)
  <1> DEFINE args == Tail(words)
             spec == SPEC[prog]
             walk == Options(prog, spec, args, 1, FALSE)
  <1>1. prog \notin Verbs /\ prog # "ip" /\ prog \notin VerbFirst
    BY DEF SPEC, Verbs, VerbFirst
  <1>2. Agrees(prog, spec)
    BY FlatProgramsAgree
  <1>3. AllText(args) /\ IsArgs(args)
    BY CommandArgs DEF AllText
  <1>4. walk.ok /\ ByProgram(prog, words) = Ruled(words, walk.operands, OPERANDS(prog, ""))
    BY DEF ByProgram, No
  <1>5. 1 \in Nat \ {0}
    OBVIOUS
  <1>6. \E V : FreeWalk(prog, spec, args, 1, V) /\ walk.operands = OperandsIn(prog, args, V)
    <2> HIDE DEF args, spec
    <2>1. QED
      BY <1>1, <1>2, <1>3, <1>4, <1>5, OptionsWalk
  <1>7. PICK V : FreeWalk(prog, spec, args, 1, V) /\ walk.operands = OperandsIn(prog, args, V)
    BY <1>6
  <1> DEFINE O == walk.operands
  <1>8. ByProgram(prog, words).operands = Behind(O) /\ OperandRule(OPERANDS(prog, ""), words, Behind(O))
    <2>1. Ruled(words, O, OPERANDS(prog, "")).ok
      BY <1>4
    <2>2. ByProgram(prog, words).operands = Ruled(words, O, OPERANDS(prog, "")).operands
      BY <1>4
    <2> HIDE DEF O
    <2>3. /\ Ruled(words, O, OPERANDS(prog, "")).operands = Behind(O)
          /\ OperandRule(OPERANDS(prog, ""), words, Behind(O))
      BY <2>1, RuledOk
    <2>4. QED
      BY <2>2, <2>3
  <1> HIDE DEF O, walk, spec
  <1>9. /\ V \subseteq 1..Len(args)
        /\ \A k \in V : Takes(prog, spec, args, k) = 2 /\ IsOption(args[k]) => k + 1 \notin O
        /\ \A k \in V \cap O : ~IsOption(args[k]) /\ ~ReadsLast(prog, args, k)
    <2>1. FreeWalk(prog, spec, args, 1, V) /\ O = OperandsIn(prog, args, V)
      BY <1>7 DEF O
    <2> HIDE DEF args
    <2>2. /\ V \subseteq 1..Len(args)
          /\ \A k \in V : Takes(prog, spec, args, k) = 2 /\ IsOption(args[k]) =>
               k + 1 \notin OperandsIn(prog, args, V)
          /\ \A k \in V \cap OperandsIn(prog, args, V) : ~IsOption(args[k]) /\ ~ReadsLast(prog, args, k)
      BY <1>1, <1>2, <1>3, <1>5, <2>1, FreeWalkApart
    <2>3. QED
      BY <2>1, <2>2
  <1>10. /\ Walked(OptionsNext(prog, spec, args, FALSE), Len(args), 1, V)
         /\ \A k \in V : /\ ReadsNext(prog, args)[k] = OptionsNext(prog, spec, args, FALSE)[k]
                         /\ IsOption(args[k]) => Takes(prog, spec, args, k) # Refused
    BY <1>7 DEF FreeWalk
  <1>11. Walked(ReadsNext(prog, args), Len(args), 1, V)
    BY <1>3, <1>10, ReadsAlike
  <1>12. O \subseteq 1..Len(args) /\ Kept(prog, args, O, O)
    <2>1. O \in SUBSET (1..Len(args))
      BY <1>7, <1>9 DEF O, OperandsIn, FreeIn
    <2>2. QED
      BY <1>8, <2>1, FlatKept
  <1>13. Understood(prog, args, O, V)
    <2>1. ASSUME NEW k \in V, ReadsOption(prog, args, k)
          PROVE  \E s : /\ Agrees(prog, s) /\ Takes(prog, s, args, k) # Refused
                        /\ Takes(prog, s, args, k) = 2 => k + 1 \notin O
      <3>1. IsOption(args[k])
        BY <2>1 DEF ReadsOption
      <3>2. QED
        BY <1>2, <1>9, <1>10, <2>1, <3>1
    <2>2. O = OperandsIn(prog, args, V)
      BY <1>7 DEF O
    <2>3. QED
      BY <1>9, <1>11, <1>12, <2>1, <2>2 DEF Understood
  <1>14. QED
    BY <1>8, <1>13

-----------------------------------------------------------------------------
(* Programs that are restricted by their subcommand. *)

FirstWalk(prog, args) == Options(prog, SUBS[prog].pre, args, 1, TRUE)
SubOf(prog, args) ==
  IF FirstWalk(prog, args).at > Len(args) THEN "list_units" ELSE args[FirstWalk(prog, args).at].name
SubSpec(prog, sub) == Both(SUBS[prog].pre, SUBS[prog][sub])
RestWalk(prog, args) ==
  Options(prog, SubSpec(prog, SubOf(prog, args)), args, FirstWalk(prog, args).at + 1, FALSE)

LEMMA SubVerdict ==
  ASSUME NEW prog \in DOMAIN SUBS, NEW words, BySubcommand(prog, words) # No
  PROVE  LET args == Tail(words)
             at == FirstWalk(prog, args).at
             sub == SubOf(prog, args)
         IN /\ FirstWalk(prog, args).ok
            /\ at > Len(args) => prog = "systemctl" /\ sub = "list_units"
            /\ ~(at > Len(args)) => sub = args[at].name /\ Says(args[at], DOMAIN SUBS[prog] \ {"pre"})
            /\ prog = "pct" /\ sub = "exec" => BySubcommand(prog, words) = Exec(SubSeq(args, at, Len(args)))
            /\ ~(prog = "pct" /\ sub = "exec") =>
                 /\ RestWalk(prog, args).ok
                 /\ BySubcommand(prog, words) =
                      Ruled(words, RestWalk(prog, args).operands, OPERANDS(prog, sub))
  BY DEF BySubcommand, FirstWalk, SubOf, SubSpec, RestWalk

LEMMA Subcommands ==
  ASSUME NEW prog \in DOMAIN SUBS, NEW t, Says(t, DOMAIN SUBS[prog] \ {"pre"})
  PROVE  /\ t.kind = "operand" /\ t.name \in DOMAIN SUBS[prog] \ {"pre"}
         /\ ~Says(t, ChangingVerbs)
  <1>1. DOMAIN SUBS[prog] \ {"pre"} \subseteq {"status", "history", "show", "list_units", "config", "exec"}
    <2>1. prog = "zpool" => SUBS[prog] = ZpoolSubs
      BY DEF SUBS
    <2>2. prog = "systemctl" => SUBS[prog] = SystemctlSubs
      BY DEF SUBS
    <2>3. prog = "pct" => SUBS[prog] = PctSubs
      BY DEF SUBS
    <2>4. prog \in {"zpool", "systemctl", "pct"}
      BY DEF SUBS
    <2>5. QED
      BY <2>1, <2>2, <2>3, <2>4 DEF ZpoolSubs, SystemctlSubs, PctSubs
  <1>2. QED
    BY <1>1 DEF Says, ChangingVerbs

LEMMA NoOptionTaken ==
  ASSUME NEW prog, NEW args, NEW k, IsText(args[k]), IsOption(args[k])
  PROVE  Takes(prog, NoOptions, args, k) = Refused
  <1>1. CASE args[k].kind = "long"
    BY <1>1 DEF Takes, TakesLong, NoOptions
  <1>2. CASE args[k].kind = "short"
    <2>1. {i \in DOMAIN args[k].letters : args[k].letters[i] \notin {}} # {}
      <3>1. args[k].letters \in Seq(STRING) /\ args[k].letters # <<>>
        BY <1>2, OptionText
      <3>2. Len(args[k].letters) \in Nat \ {0} /\ DOMAIN args[k].letters = 1..Len(args[k].letters)
        BY <3>1, EmptySeq, LenProperties
      <3>3. 1 \in DOMAIN args[k].letters
        BY <3>2
      <3>4. QED
        BY <3>3
    <2>2. QED
      BY <1>2, <2>1 DEF Takes, TakesShort, NoOptions
  <1>3. QED
    BY <1>1, <1>2 DEF IsOption

\* V is what the first walk visits: listed options in front of at, where it stops
\* at an operand, behind a --, or at the end.
InFront(prog, spec, args, V, at) ==
  /\ Walked(OptionsNext(prog, spec, args, TRUE), Len(args), 1, V) /\ V \subseteq 1..Len(args)
  /\ \A k \in V : IsOption(args[k]) => Takes(prog, spec, args, k) # Refused /\ k < at
StopsAt(args, V, at) ==
  at \in V /\ args[at].kind \in {"operand", "dash"} /\ \A k \in V : k = at \/ IsOption(args[k])
StopsBehind(args, V, at) ==
  at - 1 \in V /\ args[at - 1].kind = "ddash" /\ \A k \in V : k = at - 1 \/ IsOption(args[k])
StopsNowhere(args, V, at) == at = Len(args) + 1 /\ \A k \in V : IsOption(args[k])

LEMMA FirstStop ==
  ASSUME NEW prog, NEW spec, Agrees(prog, spec), NEW args, AllText(args),
         Options(prog, spec, args, 1, TRUE).ok
  PROVE  LET at == Options(prog, spec, args, 1, TRUE).at
         IN /\ at \in 1..(Len(args) + 1)
            /\ \E V : /\ InFront(prog, spec, args, V, at)
                      /\ StopsAt(args, V, at) \/ StopsBehind(args, V, at) \/ StopsNowhere(args, V, at)
  <1> DEFINE at == Options(prog, spec, args, 1, TRUE).at
             next == OptionsNext(prog, spec, args, TRUE)
             n == Len(args)
             V == Visited(next, 1)
             free == {k \in V : args[k].kind \in {"operand", "dash"}}
             ends == {j \in V : args[j].kind = "ddash"}
             behind == {k + 1 : k \in ends}
             stops == {n + 1} \cup free \cup behind
  <1>1. n \in Nat /\ IsArgs(args) /\ DOMAIN args = 1..n /\ \A k \in 1..n : IsText(args[k])
    BY DEF AllText, IsArgs
  <1>2. Walked(next, n, 1, V)
    <2>1. 1 \in Nat \ {0} /\ TRUE \in BOOLEAN
      OBVIOUS
    <2>2. Hops(next, n)
      BY <1>1, <2>1, OptionsHop
    <2> HIDE DEF next, V
    <2>3. QED
      BY <2>1, <2>2, VisitedIs DEF V
  <1>3. V \subseteq 1..n /\ \A k, j \in V : k < j => next[k] <= j
    <2> HIDE DEF V, next
    <2>1. QED
      BY <1>2 DEF Walked
  <1>4. \A k \in V : IsOption(args[k]) => Takes(prog, spec, args, k) # Refused
    BY DEF Options
  <1>5. at = Min(stops)
    BY DEF Options
  <1>6. \A k \in V : ~IsOption(args[k]) => next[k] = n + 1
    <2>1. \A k \in 1..n : ~IsOption(args[k]) => next[k] = n + 1
      BY <1>1 DEF OptionsNext
    <2> HIDE DEF V, next
    <2>2. QED
      BY <1>3, <2>1
  <1> HIDE DEF V, next, at
  <1>7. \A k, j \in V : ~IsOption(args[k]) => j <= k
    <2>1. SUFFICES ASSUME NEW k \in V, NEW j \in V, ~IsOption(args[k]), k < j PROVE FALSE
      BY <1>3
    <2>2. n + 1 <= j /\ j \in 1..n
      BY <1>3, <1>6, <2>1
    <2>3. QED
      BY <1>1, <2>2
  <1>8. \A k, j \in V : ~IsOption(args[k]) /\ ~IsOption(args[j]) => j = k
    BY <1>3, <1>7
  <1>9. \A k \in V : IsOption(args[k]) \/ args[k].kind \in {"operand", "dash"} \/ args[k].kind = "ddash"
    BY <1>1, <1>3, OptionText DEF Kinds, IsOption
  <1>10. \A k \in V : args[k].kind \in {"operand", "dash", "ddash"} => ~IsOption(args[k])
    BY DEF IsOption
  <1>11. CASE \E k \in V : args[k].kind \in {"operand", "dash"}
    <2>1. PICK k \in V : args[k].kind \in {"operand", "dash"}
      BY <1>11
    <2>2. ends = {} /\ free = {k} /\ behind = {}
      BY <1>8, <1>10, <2>1
    <2>3. k \in stops /\ stops \in SUBSET Nat /\ \A j \in stops : k <= j
      BY <1>1, <1>3, <2>2
    <2>4. at = k
      <3> HIDE DEF stops
      <3>1. QED
        BY <1>5, <2>3, MinIs
    <2>5. \A j \in V : j = at \/ IsOption(args[j])
      BY <1>8, <1>10, <2>1, <2>4
    <2>6. \A j \in V : IsOption(args[j]) => j < at
      BY <1>3, <1>7, <1>10, <2>1, <2>4
    <2>7. StopsAt(args, V, at) /\ at \in 1..(n + 1)
      BY <1>1, <1>3, <2>1, <2>4, <2>5 DEF StopsAt
    <2>8. InFront(prog, spec, args, V, at)
      BY <1>2, <1>3, <1>4, <2>6 DEF InFront, next
    <2>9. QED
      BY <2>7, <2>8 DEF at
  <1>12. CASE \E k \in V : args[k].kind = "ddash"
    <2>1. PICK k \in V : args[k].kind = "ddash"
      BY <1>12
    <2>2. ends = {k} /\ free = {} /\ behind = {k + 1}
      <3>1. ends = {k} /\ free = {}
        BY <1>8, <1>10, <2>1
      <3>2. QED
        BY <3>1
    <2>3. k + 1 \in stops /\ stops \in SUBSET Nat /\ \A j \in stops : k + 1 <= j
      BY <1>1, <1>3, <2>2
    <2>4. at = k + 1 /\ at - 1 = k
      <3>1. at = k + 1
        <4> DEFINE after == k + 1
        <4>1. after \in stops /\ stops \in SUBSET Nat /\ \A j \in stops : after <= j
          BY <2>3
        <4> HIDE DEF stops, after
        <4>2. Min(stops) = after
          BY <4>1, MinIs
        <4>3. QED
          BY <1>5, <4>2 DEF after
      <3>2. QED
        BY <1>3, <3>1
    <2>5. \A j \in V : j = at - 1 \/ IsOption(args[j])
      BY <1>8, <1>10, <2>1, <2>4
    <2>6. \A j \in V : IsOption(args[j]) => j < at
      <3>1. \A j \in V : j <= k /\ j \in 1..n /\ k \in 1..n
        BY <1>3, <1>7, <1>10, <2>1
      <3>2. QED
        BY <2>4, <3>1
    <2>7. StopsBehind(args, V, at) /\ at \in 1..(n + 1)
      BY <1>1, <1>3, <2>1, <2>4, <2>5 DEF StopsBehind
    <2>8. InFront(prog, spec, args, V, at)
      BY <1>2, <1>3, <1>4, <2>6 DEF InFront, next
    <2>9. QED
      BY <2>7, <2>8 DEF at
  <1>13. CASE \A k \in V : IsOption(args[k])
    <2>1. ends = {} /\ free = {} /\ behind = {}
      BY <1>10, <1>13
    <2>2. stops = {n + 1}
      BY <2>1
    <2>3. at = n + 1
      <3>1. n + 1 \in Nat
        BY <1>1
      <3>2. Min({n + 1}) = n + 1
        BY <3>1 DEF Min
      <3>3. QED
        BY <1>5, <2>2, <3>2
    <2>4. at \in 1..(n + 1) /\ \A k \in V : k < at
      BY <1>1, <1>3, <2>3
    <2>5. InFront(prog, spec, args, V, at)
      BY <1>2, <1>3, <1>4, <2>4 DEF InFront, next
    <2>6. StopsNowhere(args, V, at)
      BY <1>13, <2>3 DEF StopsNowhere
    <2>7. QED
      BY <2>4, <2>5, <2>6 DEF at
  <1>14. QED
    BY <1>9, <1>11, <1>12, <1>13

\* The options in front of the subcommand are read as they were inspected.
Permuted(prog, args, V, k) == k \in V /\ prog # "ip" /\ IsOption(args[k]) /\ ~ReadsVerb(prog, k)
ReadAlike(prog, spec, args, V, k) ==
  /\ ReadsOption(prog, args, k)
  /\ ReadsNext(prog, args)[k] = OptionsNext(prog, spec, args, TRUE)[k]
  /\ ReadsNext(prog, args)[k] \in V \cup {Len(args) + 1}
  /\ \A j \in V : k < j => k + Takes(prog, spec, args, k) <= j

LEMMA OptionsBefore ==
  ASSUME NEW prog, NEW spec, Agrees(prog, spec), NEW args, AllText(args), NEW V,
         NEW at, InFront(prog, spec, args, V, at), NEW k, Permuted(prog, args, V, k)
  PROVE  ReadAlike(prog, spec, args, V, k)
  <1>0. k \in V /\ prog # "ip" /\ IsOption(args[k]) /\ ~ReadsVerb(prog, k)
    BY DEF Permuted
  <1>1. /\ k \in 1..Len(args) /\ TRUE \in BOOLEAN /\ IsArgs(args)
        /\ Takes(prog, spec, args, k) # Refused
    BY <1>0 DEF AllText, InFront
  <1>2. ReadsOption(prog, args, k)
    BY <1>0 DEF ReadsOption
  <1>3. ReadsNext(prog, args)[k] = OptionsNext(prog, spec, args, TRUE)[k]
    BY <1>0, <1>1, SameHop
  <1>4. ReadsNext(prog, args)[k] = k + Takes(prog, spec, args, k)
    <2>1. ReadsNext(prog, args)[k] = k + ReadOption(prog, args, k).takes
      BY <1>1, <1>2, EndsAtLast
    <2>2. QED
      BY <1>0, <1>1, <2>1, OptionStep
  <1>5. /\ OptionsNext(prog, spec, args, TRUE)[k] \in V \cup {Len(args) + 1}
        /\ \A j \in V : k < j => OptionsNext(prog, spec, args, TRUE)[k] <= j
    BY <1>0 DEF InFront, Walked
  <1>6. QED
    BY <1>2, <1>3, <1>4, <1>5 DEF ReadAlike

LEMMA SubAfterVerb ==
  ASSUME NEW prog, prog # "ip", NEW spec, Agrees(prog, spec), NEW rest, Agrees(prog, rest),
         NEW args, AllText(args), NEW at, args[at].kind = "operand",
         prog \in VerbFirst => at = 1, NEW V, InFront(prog, spec, args, V, at), StopsAt(args, V, at),
         NEW W, FreeWalk(prog, rest, args, at + 1, W)
  PROVE  /\ Walked(ReadsNext(prog, args), Len(args), 1, V \cup W)
         /\ OperandsIn(prog, args, V \cup W) = {at} \cup OperandsIn(prog, args, W)
         /\ \A k \in V : ReadsOption(prog, args, k) => k + Takes(prog, spec, args, k) <= at
  <1> DEFINE len == Len(args)
             reads == ReadsNext(prog, args)
             before == OptionsNext(prog, spec, args, TRUE)
             behind == OptionsNext(prog, rest, args, FALSE)
             c == at + 1
             all == Visited(reads, 1)
  <1>0. /\ len \in Nat /\ IsArgs(args) /\ 1 \in Nat \ {0} /\ c \in Nat /\ at \in Nat
        /\ at \in DOMAIN args /\ at \in 1..Len(args)
    BY DEF AllText, IsArgs, InFront, StopsAt
  <1>1. len \in Nat /\ 1 \in Nat /\ c \in Nat
    BY <1>0
  <1>2. Walked(reads, len, 1, all)
    BY <1>0, ReadsHop, VisitedIs
  <1>3. ~IsOption(args[at]) /\ ~ReadsOption(prog, args, at) /\ ~ReadsLast(prog, args, at)
    BY DEF IsOption, ReadsOption, ReadsLast
  <1>4. reads[at] = c
    BY <1>0, <1>3, EndsAtLast
  <1>5. before[at] = len + 1
    BY <1>0, <1>3 DEF OptionsNext, IsArgs
  <1>6. ASSUME NEW k \in V, k # at
        PROVE  /\ ReadsOption(prog, args, k) /\ reads[k] = before[k] /\ reads[k] \in V \cup {len + 1}
               /\ k + Takes(prog, spec, args, k) <= at
    <2>1. IsOption(args[k]) /\ k < at /\ at \in V
      BY <1>6 DEF InFront, StopsAt
    <2>2. ~ReadsVerb(prog, k)
      <3>1. k \in 1..len
        BY DEF InFront
      <3>2. QED
        BY <2>1, <3>1 DEF ReadsVerb
    <2>3. IsOption(args[k])
      BY <2>1
    <2>4. Permuted(prog, args, V, k)
      BY <1>6, <2>2, <2>3 DEF Permuted
    <2>5. ReadAlike(prog, spec, args, V, k)
      BY <2>4, OptionsBefore
    <2>6. QED
      BY <2>1, <2>5 DEF ReadAlike
  <1> HIDE DEF len, reads, before, behind, c, all
  <1>7. V \subseteq all
    <2>1. Follows(reads, before, len, V)
      BY <1>5, <1>6 DEF Follows
    <2>2. Walked(before, len, 1, V)
      BY DEF before, len, InFront
    <2>3. QED
      BY <1>1, <1>2, <2>1, <2>2, WalkPrefix
  <1>8. all = V \cup W
    <2>1. Walked(behind, len, c, W) /\ Alike(reads, behind, W)
      BY DEF FreeWalk, behind, len, c, reads, Alike
    <2>2. 1 <= len => 1 \in V
      BY DEF Walked, len, InFront
    <2>3. \A k \in V : reads[k] \in V \cup {c, len + 1}
      BY <1>4, <1>6
    <2>4. c <= len => c \in all
      <3>1. at \in all
        BY <1>7 DEF StopsAt
      <3>2. reads[at] \in all \cup {len + 1}
        BY <1>2, <3>1 DEF Walked
      <3>3. QED
        BY <1>1, <1>4, <3>2
    <2>5. Leads(reads, len, V, c, all)
      BY <1>7, <2>2, <2>3, <2>4 DEF Leads
    <2>6. QED
      BY <1>1, <1>2, <2>1, <2>5, WalksJoin
  <1>9. OperandsIn(prog, args, V \cup W) = {at} \cup OperandsIn(prog, args, W)
    <2>1. FreeIn(prog, args, V \cup W) = {at} \cup FreeIn(prog, args, W)
      <3>1. \A k \in V : k # at => ReadsOption(prog, args, k)
        BY <1>6
      <3>2. args[at].kind # "ddash" /\ at \in V
        BY DEF StopsAt
      <3>3. QED
        BY <1>3, <3>1, <3>2 DEF FreeIn
    <2>2. \A k \in V : ~ReadsLast(prog, args, k)
      <3>1. ASSUME NEW k \in V, k # at PROVE ~ReadsLast(prog, args, k)
        BY <1>6, <3>1 DEF ReadsLast, ReadsOption
      <3>2. QED
        BY <1>3, <3>1
    <2>3. QED
      BY <2>1, <2>2 DEF OperandsIn
  <1>10. \A k \in V : ReadsOption(prog, args, k) => k + Takes(prog, spec, args, k) <= at
    BY <1>3, <1>6
  <1>11. QED
    BY <1>2, <1>8, <1>9, <1>10 DEF len, reads, all

\* Everything behind a -- is an operand; before it there are only options.
LEMMA SubBehindDashes ==
  ASSUME NEW prog, prog # "ip", prog \notin VerbFirst, NEW spec, Agrees(prog, spec),
         NEW args, AllText(args), NEW V, NEW at,
         at \in Nat, InFront(prog, spec, args, V, at), StopsBehind(args, V, at)
  PROVE  /\ Walked(ReadsNext(prog, args), Len(args), 1, V)
         /\ OperandsIn(prog, args, V) = at..Len(args)
         /\ \A k \in V : ReadsOption(prog, args, k) => k + Takes(prog, spec, args, k) <= at - 1
  <1> DEFINE n == Len(args)
             before == OptionsNext(prog, spec, args, TRUE)
             d == at - 1
  <1>1. n \in Nat /\ IsArgs(args) /\ d \in 1..n /\ d \in V /\ args[d].kind = "ddash" /\ at = d + 1
    BY DEF AllText, IsArgs, InFront, StopsBehind
  <1>2. \A k \in V : ~ReadsVerb(prog, k)
    BY DEF ReadsVerb
  <1>3. ~IsOption(args[d]) /\ ~ReadsOption(prog, args, d) /\ ReadsLast(prog, args, d)
    BY <1>1, <1>2 DEF IsOption, ReadsOption, ReadsLast
  <1>4. ReadsNext(prog, args)[d] = before[d]
    <2>1. ReadsNext(prog, args)[d] = n + 1
      BY <1>1, <1>3, EndsAtLast
    <2>2. before[d] = n + 1
      BY <1>1, <1>3 DEF OptionsNext, IsArgs
    <2>3. QED
      BY <2>1, <2>2
  <1>5. ASSUME NEW k \in V, k # d
        PROVE  /\ ReadsOption(prog, args, k) /\ ReadsNext(prog, args)[k] = before[k]
               /\ k + Takes(prog, spec, args, k) <= d
    <2>1. IsOption(args[k]) /\ k < d + 1
      BY <1>1, <1>5 DEF InFront, StopsBehind
    <2>2. k < d
      <3>1. k \in 1..n
        BY DEF InFront
      <3>2. QED
        BY <1>1, <1>5, <2>1, <3>1
    <2>3. QED
      <3>1. Permuted(prog, args, V, k)
        BY <1>2, <1>5, <2>1 DEF Permuted
      <3>2. ReadAlike(prog, spec, args, V, k)
        BY <3>1, OptionsBefore
      <3>3. QED
        BY <1>1, <2>2, <3>2 DEF ReadAlike
  <1> HIDE DEF before, d
  <1>6. Walked(ReadsNext(prog, args), n, 1, V)
    <2>1. \A k \in V : ReadsNext(prog, args)[k] = before[k]
      BY <1>4, <1>5
    <2>2. Walked(before, n, 1, V)
      BY DEF before, InFront
    <2>3. QED
      BY <1>1, <2>1, <2>2, ReadsAlike
  <1>7. OperandsIn(prog, args, V) = (d + 1)..n
    <2>1. FreeIn(prog, args, V) = {}
      <3>1. ASSUME NEW k \in V PROVE ReadsOption(prog, args, k) \/ (args[k].kind = "ddash" /\ ~ReadsVerb(prog, k))
        BY <1>1, <1>2, <1>5
      <3>2. QED
        BY <3>1 DEF FreeIn
    <2>2. \A k \in V : ReadsLast(prog, args, k) <=> k = d
      <3>1. ASSUME NEW k \in V, k # d PROVE ~ReadsLast(prog, args, k)
        BY <1>5, <3>1 DEF ReadsLast, ReadsOption
      <3>2. QED
        BY <1>3, <3>1
    <2>3. {j \in 1..n : \E k \in V : ReadsLast(prog, args, k) /\ k < j} = (d + 1)..n
      <3>1. {j \in 1..n : \E k \in V : ReadsLast(prog, args, k) /\ k < j} = {j \in 1..n : d < j}
        BY <1>1, <2>2
      <3>2. {j \in 1..n : d < j} = (d + 1)..n
        BY <1>1
      <3>3. QED
        BY <3>1, <3>2
    <2>4. QED
      BY <2>1, <2>3 DEF OperandsIn
  <1>8. QED
    BY <1>1, <1>3, <1>5, <1>6, <1>7 DEF d

\* What the verdict on a subcommand rests on: at is where its verb is, or would be,
\* and W what is walked behind it.
Chosen(prog, args, at) ==
  /\ at \in 1..(Len(args) + 1)
  /\ at > Len(args) => prog = "systemctl"
  /\ at <= Len(args) => args[at].kind = "operand" /\ ~Says(args[at], ChangingVerbs)

FirstStops(prog, args, at, V) ==
  /\ InFront(prog, SUBS[prog].pre, args, V, at)
  /\ StopsAt(args, V, at) \/ StopsBehind(args, V, at) \/ StopsNowhere(args, V, at)

Rested(prog, words, at, rest, W) ==
  /\ Agrees(prog, rest)
  /\ FreeWalk(prog, rest, Tail(words), at + 1, W)
  /\ BySubcommand(prog, words).operands = Behind(OperandsIn(prog, Tail(words), W))
  /\ prog = "zpool" /\ Says(Tail(words)[at], {"status"}) => CountRule(words, Behind(OperandsIn(prog, Tail(words), W)))

LEMMA VerbChosen ==
  ASSUME NEW T, NEW words, Command(T, words), NEW prog \in DOMAIN SUBS, BySubcommand(prog, words) # No
  PROVE  LET at == FirstWalk(prog, Tail(words)).at
         IN Chosen(prog, Tail(words), at) /\ \E V : FirstStops(prog, Tail(words), at, V)
  <1> DEFINE args == Tail(words)
             at == FirstWalk(prog, args).at
             pre == SUBS[prog].pre
  <1>1. /\ FirstWalk(prog, args).ok
        /\ at > Len(args) => prog = "systemctl"
        /\ ~(at > Len(args)) => Says(args[at], DOMAIN SUBS[prog] \ {"pre"})
    BY SubVerdict
  <1>2. AllText(args) /\ Len(args) \in Nat
    BY CommandArgs DEF AllText, IsArgs
  <1>3. Agrees(prog, pre)
    BY SubcommandsAgree
  <1>4. Options(prog, pre, args, 1, TRUE).ok /\ at = Options(prog, pre, args, 1, TRUE).at
    BY <1>1 DEF FirstWalk
  <1>5. /\ at \in 1..(Len(args) + 1)
        /\ \E V : /\ InFront(prog, pre, args, V, at)
                  /\ StopsAt(args, V, at) \/ StopsBehind(args, V, at) \/ StopsNowhere(args, V, at)
    <2> HIDE DEF args, pre
    <2>1. LET stop == Options(prog, pre, args, 1, TRUE).at
          IN /\ stop \in 1..(Len(args) + 1)
             /\ \E V : /\ InFront(prog, pre, args, V, stop)
                       /\ StopsAt(args, V, stop) \/ StopsBehind(args, V, stop) \/ StopsNowhere(args, V, stop)
      BY <1>2, <1>3, <1>4, FirstStop
    <2>2. QED
      BY <1>4, <2>1
  <1>6. at <= Len(args) => args[at].kind = "operand" /\ ~Says(args[at], ChangingVerbs)
    <2>1. ASSUME at <= Len(args) PROVE args[at].kind = "operand" /\ ~Says(args[at], ChangingVerbs)
      <3>1. ~(at > Len(args))
        BY <1>2, <1>5, <2>1
      <3>2. Says(args[at], DOMAIN SUBS[prog] \ {"pre"})
        BY <1>1, <3>1
      <3>3. QED
        BY <3>2, Subcommands
    <2>2. QED
      BY <2>1
  <1>7. QED
    BY <1>1, <1>5, <1>6 DEF Chosen, FirstStops

LEMMA BehindVerb ==
  ASSUME NEW T, NEW words, Command(T, words), NEW prog \in DOMAIN SUBS, BySubcommand(prog, words).ok
  PROVE  \E rest, W : Rested(prog, words, FirstWalk(prog, Tail(words)).at, rest, W)
  <1> DEFINE args == Tail(words)
             at == FirstWalk(prog, args).at
             sub == SubOf(prog, args)
             rest == SubSpec(prog, sub)
             walk == RestWalk(prog, args)
  <1>1. BySubcommand(prog, words) # No /\ BySubcommand(prog, words) # Exec(SubSeq(args, at, Len(args)))
    BY DEF No, Exec
  <1>2. /\ at > Len(args) => prog = "systemctl" /\ sub = "list_units"
        /\ ~(at > Len(args)) => sub = args[at].name /\ Says(args[at], DOMAIN SUBS[prog] \ {"pre"})
        /\ walk.ok
        /\ BySubcommand(prog, words) = Ruled(words, walk.operands, OPERANDS(prog, sub))
    BY <1>1, SubVerdict
  <1>3. sub \in DOMAIN SUBS[prog]
    <2>1. at > Len(args) => sub \in DOMAIN SUBS[prog]
      BY <1>2 DEF SUBS, SystemctlSubs
    <2>2. QED
      BY <1>2, <2>1, Subcommands
  <1>4. Agrees(prog, rest)
    BY <1>3, SubcommandsAgree DEF SubSpec
  <1>5. AllText(args) /\ prog # "ip" /\ Chosen(prog, args, at) /\ Len(args) \in Nat
    <2>1. prog # "ip"
      BY DEF SUBS
    <2>2. QED
      BY <1>1, <2>1, VerbChosen, CommandArgs DEF AllText, IsArgs
  <1>6. at + 1 \in Nat \ {0} /\ at + 1 # 1
    BY <1>5 DEF Chosen
  <1>7. Options(prog, rest, args, at + 1, FALSE).ok /\ walk = Options(prog, rest, args, at + 1, FALSE)
    BY <1>2 DEF RestWalk
  <1>8. PICK W : FreeWalk(prog, rest, args, at + 1, W) /\ walk.operands = OperandsIn(prog, args, W)
    <2> DEFINE from == at + 1
    <2>1. from \in Nat \ {0} /\ from # 1 /\ Options(prog, rest, args, from, FALSE).ok
          /\ walk = Options(prog, rest, args, from, FALSE)
      BY <1>6, <1>7
    <2> HIDE DEF from, rest, args, walk
    <2>2. \E W : FreeWalk(prog, rest, args, from, W)
                 /\ Options(prog, rest, args, from, FALSE).operands = OperandsIn(prog, args, W)
      BY <1>4, <1>5, <2>1, OptionsWalk
    <2>3. QED
      BY <2>1, <2>2 DEF from
  <1> DEFINE O == OperandsIn(prog, args, W)
  <1>9. /\ BySubcommand(prog, words).operands = Behind(O)
        /\ OperandRule(OPERANDS(prog, sub), words, Behind(O))
    <2>1. Ruled(words, O, OPERANDS(prog, sub)).ok /\ BySubcommand(prog, words) = Ruled(words, O, OPERANDS(prog, sub))
      BY <1>2, <1>8
    <2> HIDE DEF O, sub
    <2>2. QED
      BY <2>1, RuledOk
  <1>10. prog = "zpool" /\ Says(args[at], {"status"}) => CountRule(words, Behind(O))
    <2>1. SUFFICES ASSUME prog = "zpool", Says(args[at], {"status"}) PROVE CountRule(words, Behind(O))
      OBVIOUS
    <2>2. sub = "status"
      BY <1>2, <2>1 DEF Says
    <2>3. OPERANDS(prog, sub) = "count"
      BY <2>1, <2>2 DEF OPERANDS
    <2> HIDE DEF sub, O
    <2>4. QED
      BY <1>9, <2>3 DEF OperandRule
  <1>11. QED
    BY <1>4, <1>8, <1>9, <1>10 DEF Rested

\* A program's first operand is its verb, and the rest are left to the rules; or it
\* is a --, which is no verb.
Headed(prog, args, at, ops, O) ==
  \/ ops = {}
  \/ Min(ops) = at /\ at <= Len(args) /\ (prog = "zpool" => ops = {at} \cup O)
  \/ Min(ops) < at /\ args[Min(ops)].kind = "ddash"

\* The words in front of what is walked behind the verb.
Leading(prog, args, at, V, W) ==
  \A k \in V : k \in W \/ (k <= at /\ (ReadsOption(prog, args, k) =>
      \E spec : /\ Agrees(prog, spec) /\ Takes(prog, spec, args, k) # Refused
                /\ Takes(prog, spec, args, k) = 2 => k + 1 <= at))

LEMMA RestIsBehind ==
  ASSUME NEW T, NEW words, Command(T, words), NEW prog \in DOMAIN SUBS, NEW at \in Nat,
         NEW rest, NEW W, Rested(prog, words, at, rest, W)
  PROVE  LET args == Tail(words) O == OperandsIn(prog, args, W)
         IN /\ W \subseteq (at + 1)..Len(args) /\ O \subseteq (at + 1)..Len(args)
            /\ \A k \in W : IsOption(args[k]) => Takes(prog, rest, args, k) # Refused
            /\ \A k \in W : Takes(prog, rest, args, k) = 2 /\ IsOption(args[k]) => k + 1 \notin O
            /\ \A k \in W \cap O : ~IsOption(args[k]) /\ ~ReadsLast(prog, args, k)
  <1> DEFINE args == Tail(words)
             O == OperandsIn(prog, args, W)
             from == at + 1
  <1>1. AllText(args) /\ prog # "ip" /\ Len(args) \in Nat /\ from \in Nat \ {0}
    <2>1. prog # "ip"
      BY DEF SUBS
    <2>2. QED
      BY <2>1, CommandArgs DEF AllText, IsArgs
  <1>2. Agrees(prog, rest) /\ FreeWalk(prog, rest, args, from, W)
    BY DEF Rested
  <1>3. \A k \in W : IsOption(args[k]) => Takes(prog, rest, args, k) # Refused
    BY <1>2 DEF FreeWalk
  <1> HIDE DEF args, from
  <1>4. /\ W \subseteq from..Len(args)
        /\ \A k \in W : Takes(prog, rest, args, k) = 2 /\ IsOption(args[k]) => k + 1 \notin O
        /\ \A k \in W \cap O : ~IsOption(args[k]) /\ ~ReadsLast(prog, args, k)
    BY <1>1, <1>2, FreeWalkApart
  <1>5. O \subseteq from..Len(args)
    <2>1. ASSUME NEW j \in O, j \notin W PROVE j \in from..Len(args)
      <3>1. PICK k \in W : j \in 1..Len(args) /\ k < j
        BY <2>1 DEF OperandsIn, FreeIn
      <3>2. QED
        BY <1>1, <1>4, <3>1
    <2>2. QED
      BY <1>4, <2>1
  <1>6. QED
    BY <1>3, <1>4, <1>5 DEF args, from

LEMMA SubUnderstands ==
  ASSUME NEW T, NEW words, Command(T, words), NEW prog \in DOMAIN SUBS, NEW at,
         Chosen(prog, Tail(words), at), NEW rest, NEW W, Rested(prog, words, at, rest, W),
         NEW V, Walked(ReadsNext(prog, Tail(words)), Len(Tail(words)), 1, V),
         Leading(prog, Tail(words), at, V, W),
         Headed(prog, Tail(words), at, OperandsIn(prog, Tail(words), V), OperandsIn(prog, Tail(words), W))
  PROVE  Understood(prog, Tail(words), OperandsIn(prog, Tail(words), W), V)
  <1> DEFINE args == Tail(words)
             O == OperandsIn(prog, args, W)
             ops == OperandsIn(prog, args, V)
             n == Len(args)
  <1>1. /\ n \in Nat /\ prog \in {"zpool", "systemctl", "pct"} /\ at \in 1..(n + 1)
        /\ \A k \in 1..n : args[k] = words[k + 1]
    <2>1. prog \in {"zpool", "systemctl", "pct"}
      BY DEF SUBS
    <2>2. QED
      BY <2>1, CommandArgs DEF AllText, IsArgs, Chosen
  <1>2. /\ W \subseteq (at + 1)..n /\ O \subseteq (at + 1)..n
        /\ \A k \in W : IsOption(args[k]) => Takes(prog, rest, args, k) # Refused
        /\ \A k \in W : Takes(prog, rest, args, k) = 2 /\ IsOption(args[k]) => k + 1 \notin O
        /\ \A k \in W \cap O : ~IsOption(args[k]) /\ ~ReadsLast(prog, args, k)
    BY <1>1, RestIsBehind
  <1>3. \A k \in O : k \in Nat /\ ~(k <= at)
    BY <1>1, <1>2
  <1>4. V \subseteq 1..n /\ ops \subseteq 1..n
    BY DEF Walked, OperandsIn, FreeIn
  <1>5. ASSUME NEW k \in V, ReadsOption(prog, args, k)
        PROVE  \E spec : /\ Agrees(prog, spec) /\ Takes(prog, spec, args, k) # Refused
                         /\ Takes(prog, spec, args, k) = 2 => k + 1 \notin O
    <2>1. CASE k \in W
      BY <1>2, <1>5, <2>1 DEF ReadsOption, Rested
    <2>2. CASE k \notin W
      <3>1. PICK spec : /\ Agrees(prog, spec) /\ Takes(prog, spec, args, k) # Refused
                        /\ Takes(prog, spec, args, k) = 2 => k + 1 <= at
        BY <1>5, <2>2 DEF Leading
      <3>2. QED
        BY <1>3, <3>1
    <2>3. QED
      BY <2>1, <2>2
  <1>6. \A k \in V \cap O : ~IsOption(args[k]) /\ ~ReadsLast(prog, args, k)
    BY <1>2, <1>3 DEF Leading
  <1>7. Min(ops) \in Nat \/ ops = {}
    <2>1. ops \in SUBSET Nat
      BY <1>4
    <2> HIDE DEF ops
    <2>2. QED
      BY <2>1, MinIn
  <1>8. ops # {} => Min(ops) \notin O /\ ~Says(args[Min(ops)], ChangingVerbs)
    <2>1. Min(ops) = at /\ at <= n => ~Says(args[Min(ops)], ChangingVerbs)
      BY DEF Chosen
    <2>2. args[Min(ops)].kind = "ddash" => ~Says(args[Min(ops)], ChangingVerbs)
      BY DEF Says
    <2> DEFINE first == Min(ops)
    <2>0. Headed(prog, args, at, ops, O) /\ at <= at
      BY <1>1
    <2> HIDE DEF ops, O, args, n
    <2>3. ops # {} => first <= at /\ ((first = at /\ at <= n) \/ args[first].kind = "ddash")
      <3>1. ops # {} => (first = at /\ at <= Len(args)) \/ (first < at /\ args[first].kind = "ddash")
        BY <2>0 DEF Headed
      <3>2. first < at /\ ops # {} => first <= at
        BY <1>1, <1>7
      <3>3. QED
        BY <2>0, <3>1, <3>2 DEF n
    <2>4. QED
      BY <1>3, <2>1, <2>2, <2>3
  <1>9. prog = "zpool" /\ ops # {} /\ Says(args[Min(ops)], {"status"}) =>
          ~Repeats(args, ops \ {Min(ops)}) /\ \A k \in O : ~args[k].star
    <2>1. SUFFICES ASSUME prog = "zpool", ops # {}, Says(args[Min(ops)], {"status"})
                   PROVE  ~Repeats(args, ops \ {Min(ops)}) /\ \A k \in O : ~args[k].star
      OBVIOUS
    <2>2. args[Min(ops)].kind # "ddash" /\ args[Min(ops)].name = "status"
      BY <2>1 DEF Says
    <2>3. Min(ops) = at /\ ops = {at} \cup O
      BY <2>1, <2>2 DEF Headed
    <2>4. ops \ {Min(ops)} = O
      BY <1>1, <1>3, <2>3
    <2>5. CountRule(words, Behind(O))
      BY <2>1, <2>3 DEF Rested
    <2>6. O \in SUBSET (1..n)
      BY <1>1, <1>2
    <2> HIDE DEF O, ops
    <2>7. QED
      BY <2>4, <2>5, <2>6, CountEnds
  <1>10. Kept(prog, args, O, ops)
    <2> HIDE DEF O, ops
    <2>1. QED
      BY <1>1, <1>8, <1>9 DEF Kept, VerbHarms, Verbs
  <1>11. O \subseteq 1..n
    BY <1>1, <1>2
  <1>12. QED
    BY <1>5, <1>6, <1>10, <1>11 DEF Understood

LEMMA HeadedByVerb ==
  ASSUME NEW prog, NEW args, NEW at \in Nat, at <= Len(args), NEW O, \A k \in O : k \in Nat /\ ~(k <= at)
  PROVE  Headed(prog, args, at, {at} \cup O, O)
  <1> DEFINE ops == {at} \cup O
  <1>1. ops \in SUBSET Nat /\ at \in ops /\ \A k \in ops : at <= k
    OBVIOUS
  <1> HIDE DEF ops
  <1>2. Min(ops) = at
    BY <1>1, MinIs
  <1>3. QED
    BY <1>2 DEF Headed, ops

LEMMA SubVerbFound ==
  ASSUME NEW T, NEW words, Command(T, words), NEW prog \in DOMAIN SUBS, NEW at,
         Chosen(prog, Tail(words), at), prog \in VerbFirst => at = 1,
         NEW V, InFront(prog, SUBS[prog].pre, Tail(words), V, at), StopsAt(Tail(words), V, at),
         NEW rest, NEW W, Rested(prog, words, at, rest, W)
  PROVE  Understood(prog, Tail(words), OperandsIn(prog, Tail(words), W), V \cup W)
  <1> DEFINE args == Tail(words)
             pre == SUBS[prog].pre
             O == OperandsIn(prog, args, W)
             n == Len(args)
  <1>1. prog # "ip" /\ Agrees(prog, pre) /\ AllText(args) /\ n \in Nat /\ Agrees(prog, rest)
    <2>1. prog # "ip"
      BY DEF SUBS
    <2>2. QED
      BY <2>1, SubcommandsAgree, CommandArgs DEF AllText, IsArgs, Rested
  <1>2. at \in 1..n /\ at \in Nat
    BY <1>1 DEF StopsAt, InFront
  <1>3. args[at].kind = "operand"
    BY <1>1, <1>2 DEF Chosen
  <1>4. FreeWalk(prog, rest, args, at + 1, W)
    BY DEF Rested
  <1>5. /\ Walked(ReadsNext(prog, args), n, 1, V \cup W)
        /\ OperandsIn(prog, args, V \cup W) = {at} \cup O
        /\ \A k \in V : ReadsOption(prog, args, k) => k + Takes(prog, pre, args, k) <= at
    <2>1. InFront(prog, pre, args, V, at) /\ StopsAt(args, V, at)
      OBVIOUS
    <2> HIDE DEF args, pre
    <2>2. QED
      BY <1>1, <1>3, <1>4, <2>1, SubAfterVerb
  <1>6. O \subseteq (at + 1)..n
    BY <1>2, RestIsBehind
  <1>7. Headed(prog, args, at, OperandsIn(prog, args, V \cup W), O)
    <2>1. \A k \in O : k \in Nat /\ ~(k <= at)
      BY <1>1, <1>2, <1>6
    <2>2. at <= Len(args)
      BY <1>1, <1>2
    <2> HIDE DEF O, args
    <2>3. Headed(prog, args, at, {at} \cup O, O)
      BY <1>2, <2>1, <2>2, HeadedByVerb
    <2>4. QED
      BY <1>5, <2>3
  <1>8. Leading(prog, args, at, V \cup W, W)
    <2>1. ASSUME NEW k \in V
          PROVE  k <= at /\ (ReadsOption(prog, args, k) =>
                   /\ Agrees(prog, pre) /\ Takes(prog, pre, args, k) # Refused
                   /\ Takes(prog, pre, args, k) = 2 => k + 1 <= at)
      <3>1. k = at \/ IsOption(args[k])
        BY DEF StopsAt
      <3>2. k \in 1..n /\ (IsOption(args[k]) => k < at /\ Takes(prog, pre, args, k) # Refused)
        BY DEF InFront
      <3>3. ASSUME ReadsOption(prog, args, k), Takes(prog, pre, args, k) = 2 PROVE k + 1 <= at
        <4>1. k + 2 <= at
          BY <1>5, <3>3
        <4> HIDE DEF args, n
        <4>2. QED
          BY <1>1, <1>2, <3>2, <4>1
      <3>4. QED
        BY <1>1, <1>2, <3>1, <3>2, <3>3 DEF ReadsOption
    <2>2. QED
      BY <2>1 DEF Leading
  <1>9. QED
    BY <1>5, <1>7, <1>8, SubUnderstands

\* Behind a -- in front of systemctl's verb every word is an operand.
LEMMA SubVerbDashed ==
  ASSUME NEW T, NEW words, Command(T, words), NEW prog \in DOMAIN SUBS, NEW at,
         Chosen(prog, Tail(words), at), prog \notin VerbFirst, prog # "zpool",
         NEW V, InFront(prog, SUBS[prog].pre, Tail(words), V, at), StopsBehind(Tail(words), V, at),
         NEW rest, NEW W, Rested(prog, words, at, rest, W)
  PROVE  Understood(prog, Tail(words), OperandsIn(prog, Tail(words), W), V)
  <1> DEFINE args == Tail(words)
             pre == SUBS[prog].pre
             O == OperandsIn(prog, args, W)
             n == Len(args)
             ops == OperandsIn(prog, args, V)
  <1>1. prog # "ip" /\ Agrees(prog, pre) /\ AllText(args) /\ n \in Nat
    <2>1. prog # "ip"
      BY DEF SUBS
    <2>2. QED
      BY <2>1, SubcommandsAgree, CommandArgs DEF AllText, IsArgs
  <1>2. at \in 1..(n + 1) /\ at \in Nat
    BY <1>1 DEF Chosen
  <1>3. /\ Walked(ReadsNext(prog, args), n, 1, V)
        /\ ops = at..n
        /\ \A k \in V : ReadsOption(prog, args, k) => k + Takes(prog, pre, args, k) <= at - 1
    <2>1. InFront(prog, pre, args, V, at) /\ StopsBehind(args, V, at)
      OBVIOUS
    <2> HIDE DEF args, pre
    <2>2. QED
      BY <1>1, <1>2, <2>1, SubBehindDashes
  <1>4. Headed(prog, args, at, ops, O)
    <2>1. CASE at <= n
      <3>1. ops \in SUBSET Nat /\ at \in ops /\ \A k \in ops : at <= k
        BY <1>1, <1>2, <1>3, <2>1
      <3> HIDE DEF ops
      <3>2. Min(ops) = at
        BY <3>1, MinIs
      <3>3. QED
        BY <2>1, <3>2 DEF Headed
    <2>2. CASE ~(at <= n)
      BY <1>1, <1>2, <1>3, <2>2 DEF Headed
    <2>3. QED
      BY <2>1, <2>2
  <1>5. Leading(prog, args, at, V, W)
    <2>1. ASSUME NEW k \in V
          PROVE  k <= at /\ (ReadsOption(prog, args, k) =>
                   /\ Agrees(prog, pre) /\ Takes(prog, pre, args, k) # Refused
                   /\ Takes(prog, pre, args, k) = 2 => k + 1 <= at)
      <3>1. k = at - 1 \/ IsOption(args[k])
        BY DEF StopsBehind
      <3>2. k \in 1..n /\ (IsOption(args[k]) => k < at /\ Takes(prog, pre, args, k) # Refused)
        BY DEF InFront
      <3>3. ASSUME ReadsOption(prog, args, k), Takes(prog, pre, args, k) = 2 PROVE k + 1 <= at
        <4>1. k + 2 <= at - 1
          BY <1>3, <3>3
        <4> HIDE DEF args, n
        <4>2. QED
          BY <1>1, <1>2, <3>2, <4>1
      <3>4. QED
        BY <1>1, <1>2, <3>1, <3>2, <3>3 DEF ReadsOption
    <2>2. QED
      BY <2>1 DEF Leading
  <1>6. QED
    BY <1>3, <1>4, <1>5, SubUnderstands

\* systemctl with options only.
LEMMA SubBare ==
  ASSUME NEW T, NEW words, Command(T, words), NEW prog \in DOMAIN SUBS, NEW at,
         Chosen(prog, Tail(words), at), prog \notin VerbFirst,
         NEW V, InFront(prog, SUBS[prog].pre, Tail(words), V, at), StopsNowhere(Tail(words), V, at),
         NEW rest, NEW W, Rested(prog, words, at, rest, W)
  PROVE  Understood(prog, Tail(words), OperandsIn(prog, Tail(words), W), V)
  <1> DEFINE args == Tail(words)
             pre == SUBS[prog].pre
             O == OperandsIn(prog, args, W)
             n == Len(args)
             before == OptionsNext(prog, pre, args, TRUE)
  <1>1. prog # "ip" /\ Agrees(prog, pre) /\ AllText(args) /\ n \in Nat /\ IsArgs(args) /\ at = n + 1
    <2>1. prog # "ip"
      BY DEF SUBS
    <2>2. QED
      BY <2>1, SubcommandsAgree, CommandArgs DEF AllText, IsArgs, StopsNowhere
  <1>2. ASSUME NEW k \in V
        PROVE  /\ k \in 1..n /\ IsOption(args[k]) /\ ReadAlike(prog, pre, args, V, k)
               /\ Takes(prog, pre, args, k) # Refused
    <2>1. k \in 1..n /\ IsOption(args[k]) /\ Takes(prog, pre, args, k) # Refused
      BY DEF InFront, StopsNowhere
    <2>2. Permuted(prog, args, V, k)
      BY <1>1, <2>1 DEF Permuted, ReadsVerb
    <2>3. InFront(prog, pre, args, V, at)
      OBVIOUS
    <2> HIDE DEF args, pre
    <2>4. ReadAlike(prog, pre, args, V, k)
      BY <1>1, <2>2, <2>3, OptionsBefore
    <2>5. QED
      BY <2>1, <2>4
  <1>3. Walked(ReadsNext(prog, args), n, 1, V)
    <2>1. \A k \in V : ReadsNext(prog, args)[k] = before[k]
      BY <1>2 DEF ReadAlike
    <2>2. Walked(before, n, 1, V)
      BY DEF InFront
    <2> HIDE DEF before, args
    <2>3. QED
      BY <1>1, <2>1, <2>2, ReadsAlike
  <1>4. OperandsIn(prog, args, V) = {}
    <2>1. \A k \in V : ReadsOption(prog, args, k) /\ ~ReadsLast(prog, args, k)
      BY <1>2 DEF ReadAlike, ReadsLast
    <2>2. QED
      BY <2>1 DEF OperandsIn, FreeIn
  <1>5. Leading(prog, args, at, V, W)
    <2>1. ASSUME NEW k \in V
          PROVE  k <= at /\ (ReadsOption(prog, args, k) =>
                   /\ Agrees(prog, pre) /\ Takes(prog, pre, args, k) # Refused
                   /\ Takes(prog, pre, args, k) = 2 => k + 1 <= at)
      <3>1. k \in 1..n
        BY <1>2
      <3>2. k <= at /\ k + 1 <= at
        BY <1>1, <3>1
      <3>3. Agrees(prog, pre)
        BY <1>1
      <3>4. Takes(prog, pre, args, k) # Refused
        BY <1>2
      <3>5. QED
        BY <3>2, <3>3, <3>4
    <2>2. QED
      BY <2>1 DEF Leading
  <1>6. Headed(prog, args, at, OperandsIn(prog, args, V), O)
    BY <1>4 DEF Headed
  <1>7. QED
    BY <1>3, <1>5, <1>6, SubUnderstands

\* Where the verb comes first: zpool and pct take no option in front of it.
LEMMA VerbComesFirst ==
  ASSUME NEW prog \in DOMAIN SUBS, prog \in VerbFirst, NEW args, AllText(args), NEW at, Chosen(prog, args, at),
         NEW V, FirstStops(prog, args, at, V)
  PROVE  /\ 1 <= Len(args) /\ at <= Len(args)
         /\ (StopsAt(args, V, at) /\ at = 1) \/ (at = 2 /\ args[1].kind = "ddash")
  <1> DEFINE n == Len(args)
  <1>1. SUBS[prog].pre = NoOptions /\ prog # "systemctl"
    BY DEF SUBS, VerbFirst, ZpoolSubs, PctSubs
  <1>2. n \in Nat /\ \A k \in 1..n : IsText(args[k])
    BY DEF AllText, IsArgs
  <1>3. at \in 1..n
    BY <1>1, <1>2 DEF Chosen
  <1>4. V \subseteq 1..n /\ 1 \in V
    BY <1>2, <1>3 DEF FirstStops, InFront, Walked
  <1>5. \A k \in V : ~IsOption(args[k])
    <2>1. SUFFICES ASSUME NEW k \in V, IsOption(args[k]) PROVE FALSE
      OBVIOUS
    <2>2. Takes(prog, NoOptions, args, k) # Refused
      BY <1>1, <2>1 DEF FirstStops, InFront
    <2>3. IsText(args[k])
      BY <1>2, <1>4
    <2>4. QED
      BY <2>1, <2>2, <2>3, NoOptionTaken
  <1>6. ~StopsNowhere(args, V, at)
    BY <1>3, <1>2 DEF StopsNowhere
  <1>7. StopsAt(args, V, at) => at = 1
    BY <1>4, <1>5 DEF StopsAt
  <1>8. StopsBehind(args, V, at) => at - 1 = 1 /\ args[1].kind = "ddash"
    BY <1>4, <1>5 DEF StopsBehind
  <1>9. at - 1 = 1 => at = 2
    BY <1>3
  <1>10. QED
    BY <1>2, <1>3, <1>6, <1>7, <1>8, <1>9 DEF FirstStops

\* zpool -- status: the -- is taken for the verb, and the next word for an operand.
LEMMA SubDashesFirst ==
  ASSUME NEW T, NEW words, Command(T, words), NEW prog \in DOMAIN SUBS, NEW at, at = 2,
         Chosen(prog, Tail(words), at), prog \in VerbFirst, Tail(words)[1].kind = "ddash", 2 <= Len(Tail(words)),
         NEW rest, NEW W, Rested(prog, words, at, rest, W)
  PROVE  Understood(prog, Tail(words), OperandsIn(prog, Tail(words), W), {1, 2} \cup W)
  <1> DEFINE args == Tail(words)
             O == OperandsIn(prog, args, W)
             n == Len(args)
             reads == ReadsNext(prog, args)
             behind == OptionsNext(prog, rest, args, FALSE)
             all == Visited(reads, 1)
             first == {1, 2}
  <1>1. prog # "ip" /\ Agrees(prog, rest) /\ AllText(args) /\ n \in Nat /\ IsArgs(args)
        /\ 1 \in 1..n /\ 2 \in 1..n /\ 1 \in Nat /\ 3 \in Nat /\ 1 \in Nat \ {0}
    <2>1. prog # "ip"
      BY DEF SUBS
    <2>2. QED
      BY <2>1, CommandArgs DEF AllText, IsArgs, Rested
  <1>2. args[2].kind = "operand"
    BY <1>1 DEF Chosen
  <1>3. /\ ~ReadsOption(prog, args, 1) /\ ~ReadsLast(prog, args, 1) /\ ReadsVerb(prog, 1)
        /\ ~ReadsOption(prog, args, 2) /\ ~ReadsLast(prog, args, 2) /\ args[2].kind # "ddash"
    BY <1>1, <1>2 DEF ReadsOption, ReadsLast, ReadsVerb, IsOption
  <1>4. reads[1] = 2 /\ reads[2] = 3
    <2>1. reads[1] = 1 + 1 /\ reads[2] = 2 + 1
      BY <1>1, <1>3, EndsAtLast
    <2>2. QED
      BY <2>1
  <1>5. Walked(reads, n, 1, all)
    BY <1>1, ReadsHop, VisitedIs
  <1>6. FreeWalk(prog, rest, args, 3, W)
    BY <1>1 DEF Rested
  <1> HIDE DEF args, all, reads
  <1>7. all = first \cup W
    <2>1. Walked(behind, n, 3, W) /\ Alike(reads, behind, W)
      BY <1>6 DEF FreeWalk, Alike, reads
    <2>2. 1 \in all /\ 2 \in all /\ 3 \in all \cup {n + 1}
      <3>1. 1 \in all
        BY <1>1, <1>5 DEF Walked
      <3>2. 2 \in all
        <4>1. 2 \in all \cup {n + 1}
          BY <1>4, <1>5, <3>1 DEF Walked
        <4>2. QED
          BY <1>1, <4>1
      <3>3. QED
        BY <1>4, <1>5, <3>1, <3>2 DEF Walked
    <2>3. Leads(reads, n, first, 3, all)
      <3>1. first \subseteq all /\ 1 \in first /\ \A k \in first : reads[k] \in first \cup {3, n + 1}
        BY <1>4, <2>2
      <3>2. 3 <= n => 3 \in all
        BY <1>1, <2>2
      <3>3. QED
        BY <3>1, <3>2 DEF Leads
    <2> HIDE DEF first, behind, n
    <2>4. QED
      BY <1>1, <1>5, <2>1, <2>3, WalksJoin
  <1>8. OperandsIn(prog, args, first \cup W) = first \cup O
    <2>1. FreeIn(prog, args, first \cup W) = first \cup FreeIn(prog, args, W)
      BY <1>3 DEF FreeIn
    <2>2. \A k \in first : ~ReadsLast(prog, args, k)
      BY <1>3
    <2> HIDE DEF first
    <2>3. QED
      BY <2>1, <2>2 DEF OperandsIn
  <1>9. Headed(prog, args, at, first \cup O, O)
    <2>1. O \subseteq (at + 1)..n
      BY RestIsBehind DEF args
    <2>2. first \cup O \in SUBSET Nat /\ 1 \in first \cup O /\ \A k \in first \cup O : 1 <= k
      BY <1>1, <2>1
    <2> DEFINE ops == first \cup O
    <2> HIDE DEF ops
    <2>3. Min(ops) = 1
      BY <1>1, <2>2, MinIs DEF ops
    <2>4. 1 < at /\ args[1].kind = "ddash"
      BY DEF args
    <2>5. QED
      BY <2>3, <2>4 DEF Headed, ops
  <1>10. Leading(prog, args, at, first \cup W, W)
    BY <1>3 DEF Leading
  <1>11. QED
    BY <1>5, <1>7, <1>8, <1>9, <1>10, SubUnderstands DEF args, reads

LEMMA SubUnderstood ==
  ASSUME NEW T, NEW words, Command(T, words), NEW prog \in DOMAIN SUBS, BySubcommand(prog, words).ok
  PROVE  \E O, V : /\ BySubcommand(prog, words).operands = Behind(O)
                   /\ Understood(prog, Tail(words), O, V)
  <1> DEFINE args == Tail(words)
             at == FirstWalk(prog, args).at
  <1>1. AllText(args) /\ Len(args) \in Nat
    BY CommandArgs DEF AllText, IsArgs
  <1>2. Chosen(prog, args, at) /\ \E V : FirstStops(prog, args, at, V)
    <2>1. BySubcommand(prog, words) # No
      BY DEF No
    <2>2. QED
      BY <2>1, VerbChosen
  <1>3. PICK V : FirstStops(prog, args, at, V)
    BY <1>2
  <1>4. PICK rest, W : Rested(prog, words, at, rest, W)
    BY BehindVerb
  <1> DEFINE O == OperandsIn(prog, args, W)
  <1>5. BySubcommand(prog, words).operands = Behind(O)
    BY <1>4 DEF Rested
  <1>6. InFront(prog, SUBS[prog].pre, args, V, at)
        /\ (StopsAt(args, V, at) \/ StopsBehind(args, V, at) \/ StopsNowhere(args, V, at))
    BY <1>3 DEF FirstStops
  <1> HIDE DEF at
  <1>7. \E X : Understood(prog, args, O, X)
    <2>1. CASE prog \in VerbFirst
      <3>1. /\ 1 <= Len(args) /\ at <= Len(args)
            /\ (StopsAt(args, V, at) /\ at = 1) \/ (at = 2 /\ args[1].kind = "ddash")
        BY <1>1, <1>2, <1>3, <2>1, VerbComesFirst
      <3>2. CASE StopsAt(args, V, at) /\ at = 1
        BY <1>2, <1>4, <1>6, <3>2, SubVerbFound
      <3>3. CASE at = 2 /\ args[1].kind = "ddash"
        BY <1>2, <1>4, <2>1, <3>1, <3>3, SubDashesFirst
      <3>4. QED
        BY <3>1, <3>2, <3>3
    <2>2. CASE prog \notin VerbFirst
      <3>1. prog # "zpool"
        BY <2>2 DEF VerbFirst
      <3>2. CASE StopsAt(args, V, at)
        BY <1>2, <1>4, <1>6, <2>2, <3>2, SubVerbFound
      <3>3. CASE StopsBehind(args, V, at)
        BY <1>2, <1>4, <1>6, <2>2, <3>1, <3>3, SubVerbDashed
      <3>4. CASE StopsNowhere(args, V, at)
        BY <1>2, <1>4, <1>6, <2>2, <3>4, SubBare
      <3>5. QED
        BY <1>6, <3>2, <3>3, <3>4
    <2>3. QED
      BY <2>1, <2>2
  <1>8. QED
    BY <1>5, <1>7

-----------------------------------------------------------------------------
(* ip: options, an object and what to do with it. *)

IpSpec == [flags |-> IP_FLAGS, vals |-> IP_VALUE_OPTS, attach |-> {}, opt |-> {},
           lflags |-> {}, lvals |-> {}, lopt |-> {}, num |-> FALSE]

LEMMA IpAgrees == Agrees("ip", IpSpec)
  BY DEF IpSpec, IP_FLAGS, IP_VALUE_OPTS, Agrees, Listed, Manual, Table, Writers

\* What _ip accepts is what the option table of ip would have _options accept.
LEMMA IpTakesIs ==
  ASSUME NEW args, NEW k \in 1..Len(args), IsText(args[k]), IsOption(args[k]), IpTakes(args[k]) # Refused,
         Len(args) \in Nat, k + IpTakes(args[k]) <= Len(args)
  PROVE  Takes("ip", IpSpec, args, k) = IpTakes(args[k]) /\ IpTakes(args[k]) \in {1, 2}
  <1> DEFINE ls == args[k].letters
             stops == {i \in DOMAIN ls : ls[i] \notin IP_FLAGS}
  <1>1. (ls = <<"f">> /\ IpTakes(args[k]) = 2) \/ (ls \in {<<"s">>, <<"j">>} /\ IpTakes(args[k]) = 1)
    <2>1. {<<o>> : o \in IP_VALUE_OPTS} = {<<"f">>} /\ {<<o>> : o \in IP_FLAGS} = {<<"s">>, <<"j">>}
      BY DEF IP_VALUE_OPTS, IP_FLAGS
    <2>2. <<"f">> # <<"s">> /\ <<"f">> # <<"j">>
      OBVIOUS
    <2>3. IpTakes(args[k]) = CASE ls \in {<<"f">>} -> 2
                               [] ls \in {<<"s">>, <<"j">>} -> 1
                               [] OTHER -> Refused
      BY <2>1 DEF IpTakes
    <2> HIDE DEF ls
    <2>4. QED
      BY <2>2, <2>3
  <1>2. args[k].kind = "short"
    <2>1. ls # <<>>
      BY <1>1
    <2>2. QED
      BY <2>1, OptionText
  <1>3. Takes("ip", IpSpec, args, k) = TakesShort("ip", IpSpec, args, k)
    BY <1>2 DEF Takes
  <1>4. CASE ls = <<"f">>
    <2>1. stops = {1} /\ DOMAIN ls = {1} /\ Len(ls) = 1 /\ ls[1] = "f"
      BY <1>4 DEF IP_FLAGS
    <2>2. Min({1}) = 1
      BY DEF Min
    <2>3. k < Len(args) /\ IpTakes(args[k]) = 2
      BY <1>1, <1>4
    <2>4. NextValue("ip", "f", args, k) = 2
      BY <2>3 DEF NextValue, ValueOK
    <2>5. IpSpec.flags = IP_FLAGS /\ IpSpec.vals = {"f"} /\ IpSpec.num = FALSE
      BY DEF IpSpec, IP_VALUE_OPTS
    <2>6. TakesShort("ip", IpSpec, args, k) = NextValue("ip", "f", args, k)
      <3>1. stops # {} /\ Min(stops) = 1
        BY <2>1, <2>2
      <3>2. TakesShort("ip", IpSpec, args, k) =
              CASE ls[Min(stops)] \in IpSpec.vals ->
                         IF Min(stops) = Len(ls) THEN NextValue("ip", ls[Min(stops)], args, k)
                         ELSE IF ls[Min(stops)] \in IpSpec.attach /\ ValueOK("ip", ls[Min(stops)], Name(ls[Min(stops) + 1])) THEN 1
                         ELSE Refused
                    [] ls[Min(stops)] \in IpSpec.opt ->
                         IF Min(stops) = Len(ls) THEN OptionalNext("ip", ls[Min(stops)], args, k) ELSE 1
                    [] OTHER -> Refused
        BY <2>5, <3>1 DEF TakesShort
      <3>3. ls[Min(stops)] = "f" /\ Min(stops) = Len(ls) /\ "f" \in IpSpec.vals /\ "f" \notin IpSpec.opt
        BY <2>1, <2>5, <3>1 DEF IpSpec
      <3> HIDE DEF stops, ls
      <3>4. QED
        BY <3>2, <3>3
    <2>7. QED
      BY <1>3, <2>3, <2>4, <2>6
  <1>5. CASE ls \in {<<"s">>, <<"j">>}
    <2>1. stops = {}
      BY <1>5 DEF IP_FLAGS
    <2>2. TakesShort("ip", IpSpec, args, k) = 1
      BY <2>1 DEF TakesShort, IpSpec
    <2>3. QED
      BY <1>1, <1>3, <1>5, <2>2
  <1>6. QED
    BY <1>1, <1>4, <1>5

LEMMA IpHops ==
  ASSUME NEW args, IsArgs(args)
  PROVE  /\ Hops(IpNext(args), Len(args))
         /\ \A k \in 1..Len(args) : ~IsOption(args[k]) => IpNext(args)[k] = Len(args) + 1
         /\ \A k \in 1..Len(args) : IpNext(args)[k] # Len(args) + 1 =>
              /\ IsOption(args[k]) /\ IpTakes(args[k]) # Refused /\ k + IpTakes(args[k]) <= Len(args)
              /\ IpNext(args)[k] = k + IpTakes(args[k])
  <1> DEFINE n == Len(args)
             goes(k) == IsOption(args[k]) /\ IpTakes(args[k]) # Refused /\ k + IpTakes(args[k]) <= n
             hop(k) == IF goes(k) THEN k + IpTakes(args[k]) ELSE n + 1
  <1>1. n \in Nat /\ DOMAIN args = 1..n
    BY DEF IsArgs
  <1>2. IpNext(args) = [k \in 1..n |-> hop(k)]
    BY <1>1 DEF IpNext
  <1>3. \A k : IpTakes(args[k]) \in {0, 1, 2}
    BY DEF IpTakes, Refused
  <1>4. \A k \in 1..n : hop(k) \in Nat /\ k < hop(k) /\ hop(k) <= n + 1
    BY <1>1, <1>3 DEF Refused
  <1>5. \A k \in 1..n : IpNext(args)[k] = hop(k)
    BY <1>2
  <1>6. Hops(IpNext(args), n)
    <2> HIDE DEF hop
    <2>1. QED
      BY <1>1, <1>2, <1>4 DEF Hops
  <1>7. QED
    BY <1>5, <1>6

\* ip's object: the first word that is no option.
LEMMA IpObject ==
  ASSUME NEW args, AllText(args), Ip(args)
  PROVE  \E V, o : /\ Walked(IpNext(args), Len(args), 1, V)
                   /\ o \in V /\ Says(args[o], IP_OBJECTS)
                   /\ o = Len(args) \/ Says(args[o + 1], IP_READ \cup {"get"})
                   /\ \A k \in V : k = o \/ (/\ IsOption(args[k]) /\ k < o
                                            /\ Takes("ip", IpSpec, args, k) # Refused
                                            /\ IpNext(args)[k] = k + Takes("ip", IpSpec, args, k))
  <1> DEFINE V == Visited(IpNext(args), 1)
             n == Len(args)
             next == IpNext(args)
  <1>1. n \in Nat /\ IsArgs(args) /\ 1 \in Nat \ {0} /\ \A k \in 1..n : IsText(args[k])
    BY DEF AllText, IsArgs
  <1>2. Walked(next, n, 1, V)
    BY <1>1, IpHops, VisitedIs
  <1>3. PICK o \in V : /\ Says(args[o], IP_OBJECTS)
                       /\ o = n \/ Says(args[o + 1], IP_READ \cup {"get"})
    <2>1. PICK o \in V : /\ Says(args[o], IP_OBJECTS)
                         /\ \/ o = Len(args)
                            \/ Says(args[o + 1], IP_READ)
                            \/ Says(args[o + 1], {"get"}) /\ Says(args[o], IP_GET)
      BY DEF Ip
    <2>2. QED
      BY <2>1 DEF Says
  <1> HIDE DEF V, next
  <1>4. /\ V \subseteq 1..n /\ \A k, j \in V : k < j => next[k] <= j
        /\ \A k \in V : next[k] \in V \cup {n + 1}
    BY <1>2 DEF Walked
  <1>5. ~IsOption(args[o]) /\ next[o] = n + 1 /\ o \in 1..n
    <2>1. ~IsOption(args[o]) /\ o \in 1..n
      BY <1>3, <1>4 DEF Says, IsOption
    <2>2. QED
      BY <1>1, <2>1, IpHops DEF next
  <1>6. ASSUME NEW k \in V, k # o
        PROVE  /\ IsOption(args[k]) /\ k < o
               /\ Takes("ip", IpSpec, args, k) # Refused
               /\ next[k] = k + Takes("ip", IpSpec, args, k)
    <2>1. k < o
      <3>1. SUFFICES ASSUME o < k PROVE FALSE
        BY <1>4, <1>6
      <3>2. n + 1 <= k /\ k \in 1..n
        BY <1>4, <1>5, <3>1
      <3>3. QED
        BY <1>1, <3>2
    <2>2. next[k] # n + 1 /\ k \in 1..n
      BY <1>1, <1>4, <1>5, <2>1
    <2>3. /\ IsOption(args[k]) /\ IpTakes(args[k]) # Refused /\ k + IpTakes(args[k]) <= n
          /\ next[k] = k + IpTakes(args[k])
      BY <1>1, <2>2, IpHops DEF next
    <2>4. Takes("ip", IpSpec, args, k) = IpTakes(args[k])
      BY <1>1, <2>2, <2>3, IpTakesIs
    <2>5. QED
      BY <2>1, <2>3, <2>4
  <1>7. QED
    BY <1>2, <1>3, <1>6 DEF next

LEMMA IpUnderstood ==
  ASSUME NEW args, AllText(args), Ip(args)
  PROVE  \E V : Understood("ip", args, {}, V)
  <1> DEFINE n == Len(args)
             next == IpNext(args)
             reads == ReadsNext("ip", args)
  <1>1. n \in Nat /\ IsArgs(args) /\ 1 \in Nat \ {0} /\ \A k \in 1..n : IsText(args[k])
    BY DEF AllText, IsArgs
  <1>2. PICK V, o : /\ Walked(next, n, 1, V)
                    /\ o \in V /\ Says(args[o], IP_OBJECTS)
                    /\ o = n \/ Says(args[o + 1], IP_READ \cup {"get"})
                    /\ \A k \in V : k = o \/ (/\ IsOption(args[k]) /\ k < o
                                             /\ Takes("ip", IpSpec, args, k) # Refused
                                             /\ next[k] = k + Takes("ip", IpSpec, args, k))
    BY IpObject
  <1>3. V \subseteq 1..n /\ o \in 1..n
    BY <1>2 DEF Walked
  <1>4. args[o].kind = "operand" /\ ~IsOption(args[o]) /\ ~Says(args[o], ChangingVerbs)
    BY <1>2 DEF Says, IsOption, IP_OBJECTS, ChangingVerbs
  <1>5. \A k : ~ReadsVerb("ip", k)
    BY DEF ReadsVerb, VerbFirst
  <1>6. ~ReadsOption("ip", args, o) /\ ReadsLast("ip", args, o) /\ reads[o] = n + 1
    <2>1. ~ReadsOption("ip", args, o) /\ ReadsLast("ip", args, o)
      BY <1>4, <1>5 DEF ReadsOption, ReadsLast
    <2>2. QED
      BY <1>1, <1>3, <2>1, EndsAtLast
  <1>7. next[o] = n + 1
    BY <1>1, <1>3, <1>4, IpHops
  <1>8. ASSUME NEW k \in V, k # o
        PROVE  /\ ReadsOption("ip", args, k) /\ reads[k] = next[k] /\ ~ReadsLast("ip", args, k) /\ k < o
               /\ Takes("ip", IpSpec, args, k) # Refused
    <2>1. /\ IsOption(args[k]) /\ Takes("ip", IpSpec, args, k) # Refused /\ k \in 1..n /\ k < o
          /\ next[k] = k + Takes("ip", IpSpec, args, k)
      BY <1>2, <1>3, <1>8
    <2>2. ReadsOption("ip", args, k) /\ ~ReadsLast("ip", args, k)
      BY <1>5, <2>1 DEF ReadsOption, ReadsLast
    <2>3. ReadOption("ip", args, k).takes = Takes("ip", IpSpec, args, k)
      BY <2>1, IpAgrees, OptionStep
    <2>4. reads[k] = k + ReadOption("ip", args, k).takes
      BY <1>1, <2>1, <2>2, EndsAtLast
    <2>5. QED
      BY <2>1, <2>2, <2>3, <2>4
  <1> HIDE DEF next, reads
  <1>9. Walked(reads, n, 1, V)
    <2>1. \A k \in V : reads[k] = next[k]
      BY <1>6, <1>7, <1>8
    <2>2. Walked(next, n, 1, V)
      BY <1>2
    <2>3. QED
      BY <1>1, <2>1, <2>2, ReadsAlike DEF reads
  <1>10. OperandsIn("ip", args, V) = o..n
    <2>1. FreeIn("ip", args, V) = {o}
      BY <1>2, <1>4, <1>6, <1>8 DEF FreeIn
    <2>2. {j \in 1..n : \E k \in V : ReadsLast("ip", args, k) /\ k < j} = {j \in 1..n : o < j}
      BY <1>2, <1>6, <1>8
    <2>3. {o} \cup {j \in 1..n : o < j} = o..n
      BY <1>1, <1>3
    <2>4. QED
      BY <2>1, <2>2, <2>3 DEF OperandsIn
  <1>11. Min(o..n) = o
    <2> DEFINE ops == o..n
    <2>1. ops \in SUBSET Nat /\ o \in ops /\ \A k \in ops : o <= k
      BY <1>1, <1>3
    <2> HIDE DEF ops
    <2>2. Min(ops) = o
      BY <2>1, MinIs
    <2>3. QED
      BY <2>2 DEF ops
  <1>12. ~VerbHarms("ip", args, o..n)
    <2> DEFINE others == (o..n) \ {Min(o..n)}
    <2>1. SUFFICES ASSUME others # {}, Says(args[Min(others)], ChangingVerbs) PROVE FALSE
      BY <1>4, <1>11 DEF VerbHarms
    <2>2. others = (o + 1)..n
      BY <1>1, <1>3, <1>11
    <2>3. o # n /\ o + 1 \in others /\ others \in SUBSET Nat /\ \A k \in others : o + 1 <= k
      BY <1>1, <1>3, <2>1, <2>2
    <2>4. Min(others) = o + 1
      <3> DEFINE after == o + 1
      <3>1. after \in others /\ others \in SUBSET Nat /\ \A k \in others : after <= k
        BY <2>3
      <3> HIDE DEF others, after
      <3>2. Min(others) = after
        BY <3>1, MinIs
      <3>3. QED
        BY <3>2 DEF after
    <2>5. Says(args[o + 1], IP_READ \cup {"get"}) /\ Says(args[o + 1], ChangingVerbs)
      BY <1>2, <2>1, <2>3, <2>4
    <2>6. QED
      BY <2>5 DEF Says, IP_READ, ChangingVerbs
  <1>13. Kept("ip", args, {}, o..n)
    BY <1>12 DEF Kept
  <1>14. \A k \in V : ReadsOption("ip", args, k) =>
           \E spec : /\ Agrees("ip", spec) /\ Takes("ip", spec, args, k) # Refused
                     /\ Takes("ip", spec, args, k) = 2 => k + 1 \notin {}
    BY <1>6, <1>8, IpAgrees
  <1>15. QED
    BY <1>9, <1>10, <1>13, <1>14 DEF Understood, reads

-----------------------------------------------------------------------------
(* Verdicts. *)

Programs == {"ip"} \cup DOMAIN SPEC \cup DOMAIN SUBS

LEMMA ProgramsAre ==
  Programs = {"ip", "tail", "date", "hostname", "lsof", "journalctl", "smartctl", "zpool", "systemctl", "pct"}
  BY DEF Programs, SPEC, SUBS

\* What the validator decides, program by program.
LEMMA ValidateIs ==
  ASSUME NEW words, Validate(words) # No
  PROVE  LET prog == words[1].name
         IN /\ words[1].kind = "operand" /\ prog \in Programs
            /\ prog = "ip" => Ip(Tail(words)) /\ Validate(words) = Yes({})
            /\ prog \in DOMAIN SPEC => Validate(words) = ByProgram(prog, words)
            /\ prog \in DOMAIN SUBS => Validate(words) = BySubcommand(prog, words)
  <1> DEFINE prog == words[1].name
  <1>1. words[1].kind = "operand" /\ words[1].dir # "other"
    BY DEF Validate
  <1>2. Validate(words) = CASE prog = "ip" -> IF Ip(Tail(words)) THEN Yes({}) ELSE No
                            [] prog \in DOMAIN SPEC -> ByProgram(prog, words)
                            [] prog \in DOMAIN SUBS -> BySubcommand(prog, words)
                            [] OTHER -> No
    BY <1>1 DEF Validate
  <1>3. "ip" \notin DOMAIN SPEC /\ "ip" \notin DOMAIN SUBS /\ DOMAIN SPEC \cap DOMAIN SUBS = {}
    BY DEF SPEC, SUBS
  <1> HIDE DEF prog
  <1>4. CASE prog = "ip"
    <2>1. Validate(words) = IF Ip(Tail(words)) THEN Yes({}) ELSE No
      BY <1>2, <1>3, <1>4
    <2>2. QED
      BY <1>1, <1>3, <1>4, <2>1 DEF prog, Programs
  <1>5. CASE prog \in DOMAIN SPEC
    <2>1. Validate(words) = ByProgram(prog, words)
      BY <1>2, <1>3, <1>5
    <2>2. QED
      BY <1>1, <1>3, <1>5, <2>1 DEF prog, Programs
  <1>6. CASE prog \in DOMAIN SUBS
    <2>1. Validate(words) = BySubcommand(prog, words)
      BY <1>2, <1>3, <1>6
    <2>2. QED
      BY <1>1, <1>3, <1>6, <2>1 DEF prog, Programs
  <1>7. CASE prog # "ip" /\ prog \notin DOMAIN SPEC /\ prog \notin DOMAIN SUBS
    BY <1>2, <1>7
  <1>8. QED
    BY <1>4, <1>5, <1>6, <1>7

\* A command the validator lets through is understood.
LEMMA Validated ==
  ASSUME NEW T, NEW words, Command(T, words), Validate(words).ok
  PROVE  \E O, V : /\ Validate(words).operands = Behind(O)
                   /\ Understood(words[1].name, Tail(words), O, V)
  <1> DEFINE prog == words[1].name
  <1>1. Validate(words) # No
    BY DEF No
  <1>2. /\ prog \in Programs
        /\ prog = "ip" => Ip(Tail(words)) /\ Validate(words) = Yes({})
        /\ prog \in DOMAIN SPEC => Validate(words) = ByProgram(prog, words)
        /\ prog \in DOMAIN SUBS => Validate(words) = BySubcommand(prog, words)
    BY <1>1, ValidateIs
  <1>3. CASE prog = "ip"
    <2>1. PICK V : Understood("ip", Tail(words), {}, V)
      BY <1>2, <1>3, IpUnderstood, CommandArgs
    <2>2. Validate(words).operands = Behind({})
      BY <1>2, <1>3 DEF Yes, Behind
    <2>3. QED
      BY <1>3, <2>1, <2>2
  <1>4. CASE prog \in DOMAIN SPEC
    <2>1. ByProgram(prog, words).ok
      BY <1>2, <1>4
    <2>2. QED
      BY <1>2, <1>4, <2>1, FlatUnderstood
  <1>5. CASE prog \in DOMAIN SUBS
    <2>1. BySubcommand(prog, words).ok
      BY <1>2, <1>5
    <2>2. QED
      BY <1>2, <1>5, <2>1, SubUnderstood
  <1>6. QED
    BY <1>2, <1>3, <1>4, <1>5 DEF Programs

\* Where pct finds its subcommand.
VerbAt(args) == IF args[1].kind = "ddash" THEN 2 ELSE 1

LEMMA PctVerb ==
  ASSUME NEW T, NEW words, Command(T, words), BySubcommand("pct", words) # No
  PROVE  LET args == Tail(words)
         IN /\ 1 <= Len(args) /\ VerbAt(args) <= Len(args) /\ args[VerbAt(args)].kind = "operand"
            /\ BySubcommand("pct", words).ok =>
                 /\ args[VerbAt(args)].name # "exec"
                 /\ \A k \in BySubcommand("pct", words).operands : k \in Nat /\ VerbAt(args) + 1 < k
            /\ ~BySubcommand("pct", words).ok =>
                 /\ args[VerbAt(args)].name = "exec"
                 /\ BySubcommand("pct", words) = Exec(SubSeq(args, VerbAt(args), Len(args)))
  <1> DEFINE args == Tail(words)
             at == FirstWalk("pct", args).at
             sub == SubOf("pct", args)
             verdict == BySubcommand("pct", words)
  <1>1. AllText(args) /\ Len(args) \in Nat
    BY CommandArgs DEF AllText, IsArgs
  <1>2. "pct" \in DOMAIN SUBS /\ "pct" \in VerbFirst
    BY DEF SUBS, VerbFirst
  <1>3. Chosen("pct", args, at) /\ \E V : FirstStops("pct", args, at, V)
    BY <1>2, VerbChosen
  <1>4. PICK V : FirstStops("pct", args, at, V)
    BY <1>3
  <1>5. /\ at > Len(args) => "pct" = "systemctl" /\ sub = "list_units"
        /\ ~(at > Len(args)) => sub = args[at].name /\ Says(args[at], DOMAIN SUBS["pct"] \ {"pre"})
        /\ "pct" = "pct" /\ sub = "exec" => verdict = Exec(SubSeq(args, at, Len(args)))
        /\ ~("pct" = "pct" /\ sub = "exec") =>
             verdict = Ruled(words, RestWalk("pct", args).operands, OPERANDS("pct", sub))
    BY <1>2, SubVerdict
  <1> HIDE DEF at, sub, verdict
  <1>6. /\ 1 <= Len(args) /\ at <= Len(args)
        /\ (StopsAt(args, V, at) /\ at = 1) \/ (at = 2 /\ args[1].kind = "ddash")
    BY <1>1, <1>2, <1>3, <1>4, VerbComesFirst
  <1>7. args[at].kind = "operand" /\ at \in Nat
    BY <1>3, <1>6 DEF Chosen
  <1>8. at = VerbAt(args)
    BY <1>6, <1>7 DEF VerbAt
  <1>9. sub = args[at].name
    BY <1>1, <1>5, <1>6, <1>7
  <1>10. CASE sub = "exec"
    <2>1. verdict = Exec(SubSeq(args, at, Len(args)))
      BY <1>5, <1>10
    <2>2. ~verdict.ok
      BY <2>1 DEF Exec
    <2>3. QED
      BY <1>6, <1>7, <1>8, <1>9, <1>10, <2>1, <2>2 DEF verdict
  <1>11. CASE sub # "exec"
    <2>1. verdict.ok
      <3>1. verdict \in {No} \/ verdict.ok
        BY <1>5, <1>11 DEF Ruled, Yes
      <3>2. QED
        BY <3>1 DEF verdict
    <2>2. PICK rest, W : Rested("pct", words, at, rest, W)
      BY <1>2, <2>1, BehindVerb DEF verdict, at
    <2>3. /\ verdict.operands = Behind(OperandsIn("pct", args, W))
          /\ OperandsIn("pct", args, W) \subseteq (at + 1)..Len(args)
      BY <1>2, <1>7, <2>2, RestIsBehind DEF Rested, verdict
    <2>4. \A k \in verdict.operands : k \in Nat /\ at + 1 < k
      <3>1. SUFFICES ASSUME NEW j \in OperandsIn("pct", args, W) PROVE j + 1 \in Nat /\ at + 1 < j + 1
        BY <2>3 DEF Behind
      <3>2. j \in (at + 1)..Len(args)
        BY <2>3
      <3>3. QED
        BY <1>1, <1>7, <3>2
    <2>5. QED
      BY <1>6, <1>7, <1>8, <1>9, <1>11, <2>1, <2>4 DEF verdict
  <1>12. QED
    BY <1>10, <1>11

-----------------------------------------------------------------------------
(* Blocks lie behind one another and cover all words. *)

LEMMA SpreadMono ==
  ASSUME NEW n, NEW m, NEW p, NEW G, Spread(n, m, p, G), NEW k \in 1..(n + 1), NEW j \in 1..(n + 1), k <= j
  PROVE  p[k] <= p[j] /\ (k < j => p[k] < p[j])
  <1> DEFINE Bad == {i \in 1..(n + 1) : k < i /\ ~(p[k] < p[i])}
  <1>1. /\ n \in Nat /\ m \in Nat /\ \A i \in 1..(n + 1) : p[i] \in 1..(m + 1)
        /\ \A i \in 1..n : p[i] < p[i + 1]
    BY DEF Spread
  <1>2. Bad = {}
    <2>1. SUFFICES ASSUME Bad # {} PROVE FALSE
      OBVIOUS
    <2>2. PICK i \in Bad : \A x \in Bad : i <= x
      <3>1. Bad \in SUBSET Nat
        BY <1>1
      <3> HIDE DEF Bad
      <3>2. QED
        BY <2>1, <3>1, Least
    <2> DEFINE b == i - 1
    <2>3. b \in 1..n /\ b + 1 = i /\ ~(i <= b) /\ k <= b /\ b \in 1..(n + 1)
      BY <1>1, <2>2
    <2>4. ~(p[k] < p[i]) /\ p[b] < p[i]
      <3>1. p[b] < p[b + 1]
        BY <1>1, <2>3
      <3>2. QED
        BY <2>2, <2>3, <3>1
    <2>5. b \notin Bad
      BY <2>2, <2>3
    <2> HIDE DEF b
    <2>6. b = k \/ p[k] < p[b]
      BY <1>1, <2>3, <2>5
    <2>7. p[k] \in Nat /\ p[b] \in Nat /\ p[i] \in Nat
      BY <1>1, <2>3, <2>2
    <2>8. QED
      BY <2>4, <2>6, <2>7
  <1>3. k < j => p[k] < p[j]
    BY <1>2
  <1> HIDE DEF Bad
  <1>4. p[k] \in Nat /\ p[j] \in Nat /\ k \in Nat /\ j \in Nat
    BY <1>1
  <1>5. QED
    BY <1>3, <1>4

LEMMA SpreadCovers ==
  ASSUME NEW n, NEW m, NEW p, NEW G, Spread(n, m, p, G), NEW i \in 1..m
  PROVE  \E k \in 1..n : i \in Block(p, k)
  <1> DEFINE S == {x \in 1..(n + 1) : i < p[x]}
  <1>1. /\ n \in Nat /\ m \in Nat /\ p[1] = 1 /\ p[n + 1] = m + 1
        /\ \A x \in 1..(n + 1) : p[x] \in 1..(m + 1)
    BY DEF Spread
  <1>2. n + 1 \in S /\ S \in SUBSET Nat
    BY <1>1
  <1>3. PICK x \in S : \A y \in S : x <= y
    <2> HIDE DEF S
    <2>1. QED
      BY <1>2, Least
  <1>4. x # 1 /\ x \in 1..(n + 1) /\ i < p[x]
    BY <1>1, <1>3
  <1> DEFINE b == x - 1
  <1>5. b \in 1..n /\ b + 1 = x /\ ~(x <= b) /\ b \in 1..(n + 1)
    BY <1>1, <1>4
  <1>6. ~(i < p[b])
    BY <1>3, <1>5
  <1> HIDE DEF b, S
  <1>7. p[b] \in Nat /\ p[b + 1] \in Nat /\ p[b] <= i /\ i < p[b + 1] /\ i \in Nat
    BY <1>1, <1>4, <1>5, <1>6
  <1>8. i \in Block(p, b)
    BY <1>7 DEF Block
  <1>9. QED
    BY <1>5, <1>8

LEMMA BlockIs ==
  ASSUME NEW n, NEW m, NEW p, NEW G, Spread(n, m, p, G), NEW k \in 1..n
  PROVE  /\ p[k] \in Block(p, k) /\ Block(p, k) \subseteq 1..m
         /\ k \notin G => Block(p, k) = {p[k]} /\ p[k + 1] = p[k] + 1
         /\ \A i \in Block(p, k) : p[k] <= i /\ i < p[k + 1]
         /\ p[k] = 1 <=> k = 1
  <1>1. n \in Nat /\ m \in Nat /\ p[k] \in 1..(m + 1) /\ p[k + 1] \in 1..(m + 1) /\ p[k] < p[k + 1] /\ p[1] = 1
    BY DEF Spread
  <1>2. k \notin G => p[k + 1] = p[k] + 1
    BY DEF Spread
  <1>3. k # 1 => p[k] # 1
    <2>1. SUFFICES ASSUME k # 1 PROVE p[k] # 1
      OBVIOUS
    <2>2. 1 \in 1..(n + 1) /\ k \in 1..(n + 1) /\ 1 <= k /\ 1 < k
      BY <1>1, <2>1
    <2>3. p[1] < p[k]
      BY <2>2, SpreadMono
    <2>4. QED
      BY <1>1, <2>3
  <1> DEFINE a == p[k]
             b == p[k + 1]
  <1>4. a \in 1..(m + 1) /\ b \in 1..(m + 1) /\ a < b
    BY <1>1
  <1>5. Block(p, k) = a..(b - 1)
    BY DEF Block
  <1>6. (k # 1 => a # 1) /\ (k = 1 => a = 1) /\ (k \notin G => b = a + 1)
    BY <1>1, <1>2, <1>3
  <1> HIDE DEF a, b
  <1>7. a \in a..(b - 1) /\ a..(b - 1) \subseteq 1..m /\ \A i \in a..(b - 1) : a <= i /\ i < b
    BY <1>1, <1>4
  <1>8. b = a + 1 => a..(b - 1) = {a}
    BY <1>4
  <1>9. QED
    BY <1>5, <1>6, <1>7, <1>8 DEF a, b

\* The first of some blocks.
LEMMA FirstBlock ==
  ASSUME NEW n, NEW m, NEW p, NEW G, Spread(n, m, p, G), NEW S \in SUBSET (1..n), S # {}
  PROVE  Min(Blocks(p, S)) = p[Min(S)] /\ Min(S) \in S /\ Blocks(p, S) # {} /\ Blocks(p, S) \subseteq 1..m
  <1> DEFINE first == Min(S)
  <1>1. n \in Nat /\ S \in SUBSET Nat
    BY DEF Spread
  <1>2. first \in S /\ \A k \in S : first <= k
    BY <1>1, MinIn
  <1> HIDE DEF first
  <1>3. p[first] \in Blocks(p, S) /\ p[first] \in Nat
    <2>1. p[first] \in Block(p, first) /\ Block(p, first) \subseteq 1..m
      BY <1>2, BlockIs
    <2>2. QED
      BY <1>2, <2>1 DEF Blocks
  <1>4. ASSUME NEW i \in Blocks(p, S) PROVE i \in 1..m /\ p[first] <= i
    <2>1. PICK k \in S : i \in Block(p, k)
      BY <1>4 DEF Blocks
    <2>2. p[k] <= i /\ i \in 1..m /\ p[k] \in 1..m
      <3>1. p[k] \in Block(p, k) /\ Block(p, k) \subseteq 1..m /\ \A x \in Block(p, k) : p[k] <= x
        BY <2>1, BlockIs
      <3>2. QED
        BY <2>1, <3>1
    <2>3. p[first] <= p[k]
      <3>1. first \in 1..(n + 1) /\ k \in 1..(n + 1) /\ first <= k
        BY <1>1, <1>2, <2>1
      <3>2. QED
        BY <3>1, SpreadMono
    <2>4. QED
      BY <1>3, <2>2, <2>3
  <1>5. Blocks(p, S) \in SUBSET Nat
    BY <1>4
  <1>6. Min(Blocks(p, S)) = p[first]
    BY <1>3, <1>4, <1>5, MinIs
  <1>7. QED
    BY <1>2, <1>3, <1>4, <1>6 DEF first

-----------------------------------------------------------------------------
(* A command and what bash expands it to. *)

\* The words args with the globs G in them, and other, which bash makes of them.
Expanded(args, other, p, G) ==
  /\ AllText(args) /\ AllText(other) /\ G \subseteq 1..Len(args)
  /\ Spread(Len(args), Len(other), p, G)
  /\ \A k \in (1..Len(args)) \ G : other[p[k]] = args[k]
  /\ \A k \in G : args[k].star
  /\ \A k \in G : \A i \in Block(p, k) : Begins(other[i]) = Begins(args[k])

ExpandedOf(prog, args, O, V, other, p, G) ==
  Understood(prog, args, O, V) /\ G \subseteq O /\ Expanded(args, other, p, G)

LEMMA OptionSpreads ==
  ASSUME NEW prog, NEW args, NEW O, NEW V, NEW other, NEW p, NEW G, ExpandedOf(prog, args, O, V, other, p, G),
         NEW k \in V, ReadsOption(prog, args, k)
  PROVE  /\ k \notin G /\ ReadsOption(prog, other, p[k])
         /\ ReadOption(prog, other, p[k]) = ReadOption(prog, args, k)
         /\ ReadsNext(prog, other)[p[k]] = p[ReadsNext(prog, args)[k]]
  <1> DEFINE n == Len(args)
             m == Len(other)
             q == p[k]
             r == p[k + 1]
             count == ReadOption(prog, args, k).takes
  <1>1. /\ n \in Nat /\ m \in Nat /\ IsArgs(args) /\ IsArgs(other)
        /\ \A j \in 1..n : IsText(args[j])
        /\ Spread(n, m, p, G) /\ AllText(args)
    BY DEF ExpandedOf, Expanded, AllText, IsArgs
  <1>2. k \in 1..n
    BY DEF ExpandedOf, Understood, Walked
  <1>3. IsOption(args[k]) /\ ~ReadsVerb(prog, k)
    BY DEF ReadsOption
  <1>4. k \notin O /\ k \notin G
    BY <1>3 DEF ExpandedOf, Understood
  <1>5. PICK spec : /\ Agrees(prog, spec) /\ Takes(prog, spec, args, k) # Refused
                    /\ Takes(prog, spec, args, k) = 2 => k + 1 \notin O
    BY DEF ExpandedOf, Understood
  <1>6. /\ Takes(prog, spec, args, k) \in {1, 2} /\ count = Takes(prog, spec, args, k)
        /\ Takes(prog, spec, args, k) = 2 => k < n
    BY <1>1, <1>2, <1>3, <1>5, OptionStep
  <1>7. /\ other[q] = args[k] /\ r = q + 1 /\ q \in 1..m /\ (q = 1 <=> k = 1)
    <2>1. q \in Block(p, k) /\ Block(p, k) \subseteq 1..m /\ r = q + 1 /\ (q = 1 <=> k = 1)
      BY <1>1, <1>2, <1>4, BlockIs
    <2>2. other[q] = args[k]
      BY <1>2, <1>4 DEF ExpandedOf, Expanded
    <2>3. QED
      BY <2>1, <2>2
  <1>8. k < n => /\ k + 1 \in 1..n /\ r \in 1..m
                 /\ k + 1 \notin G => other[r] = args[k + 1] /\ p[(k + 1) + 1] = r + 1
                 /\ k + 1 \in G => args[k + 1].star
    <2>1. SUFFICES ASSUME k < n
                   PROVE  /\ k + 1 \in 1..n /\ r \in 1..m
                          /\ k + 1 \notin G => other[r] = args[k + 1] /\ p[(k + 1) + 1] = r + 1
                          /\ k + 1 \in G => args[k + 1].star
      OBVIOUS
    <2>2. k + 1 \in 1..n
      BY <1>1, <1>2, <2>1
    <2>3. r \in Block(p, k + 1) /\ Block(p, k + 1) \subseteq 1..m /\ (k + 1 \notin G => p[(k + 1) + 1] = r + 1)
      BY <1>1, <2>2, BlockIs
    <2>4. (k + 1 \notin G => other[r] = args[k + 1]) /\ (k + 1 \in G => args[k + 1].star)
      BY <2>2 DEF ExpandedOf, Expanded
    <2>5. QED
      BY <2>2, <2>3, <2>4
  <1>9. k = n => r = m + 1
    BY <1>1 DEF Spread
  <1> HIDE DEF q, r, n, m, count
  <1>10. SameAt(args, k, other, q, Takes(prog, spec, args, k))
    <2>1. k < n <=> q < m
      <3>1. CASE k < n
        BY <1>1, <1>7, <1>8, <3>1
      <3>2. CASE k = n
        BY <1>1, <1>7, <1>9, <3>2
      <3>3. QED
        BY <1>1, <1>2, <3>1, <3>2
    <2>2. k < n => other[q + 1] = args[k + 1] \/ (Takes(prog, spec, args, k) = 1 /\ args[k + 1].star)
      <3>1. k + 1 \in G => k + 1 \in O
        BY DEF ExpandedOf
      <3>2. k + 1 \in G => Takes(prog, spec, args, k) = 1
        BY <1>5, <1>6, <3>1
      <3>3. QED
        BY <1>7, <1>8, <3>2
    <2>3. q \in Nat
      BY <1>7
    <2>4. QED
      BY <1>1, <1>2, <1>7, <2>1, <2>2, <2>3 DEF SameAt, n, m
  <1>11. ReadOption(prog, other, q) = ReadOption(prog, args, k)
    <2>1. IsText(args[k])
      BY <1>1, <1>2
    <2>2. QED
      BY <1>3, <1>5, <1>10, <2>1, OptionAgrees
  <1>12. ReadsOption(prog, other, q)
    BY <1>3, <1>7 DEF ReadsOption, ReadsVerb
  <1>13. ReadsNext(prog, args)[k] = k + count /\ ReadsNext(prog, other)[q] = q + count
    <2>1. ReadsNext(prog, args)[k] = k + count
      BY <1>1, <1>2, EndsAtLast DEF count, n
    <2>2. ReadsNext(prog, other)[q] = q + ReadOption(prog, other, q).takes
      BY <1>1, <1>7, <1>12, EndsAtLast DEF m
    <2>3. QED
      BY <1>11, <2>1, <2>2 DEF count
  <1>14. p[k + count] = q + count
    <2>1. CASE count = 1
      BY <1>7, <2>1 DEF r
    <2>2. CASE count = 2
      <3>1. k < n /\ k + 1 \notin G
        BY <1>5, <1>6, <2>2 DEF ExpandedOf
      <3>2. p[(k + 1) + 1] = r + 1 /\ r = q + 1 /\ q \in 1..m /\ k \in 1..n
        BY <1>2, <1>7, <1>8, <3>1
      <3>3. (k + 1) + 1 = k + 2 /\ (q + 1) + 1 = q + 2
        BY <1>1, <3>2
      <3>4. QED
        BY <2>2, <3>2, <3>3
    <2>3. QED
      BY <1>6, <2>1, <2>2
  <1>15. QED
    BY <1>4, <1>11, <1>12, <1>13, <1>14 DEF q

LEMMA WordSpreads ==
  ASSUME NEW prog, NEW args, NEW O, NEW V, NEW other, NEW p, NEW G, ExpandedOf(prog, args, O, V, other, p, G),
         NEW k \in V, k \notin G, ~ReadsOption(prog, args, k)
  PROVE  /\ ~ReadsOption(prog, other, p[k]) /\ other[p[k]] = args[k]
         /\ ReadsVerb(prog, p[k]) <=> ReadsVerb(prog, k)
         /\ ReadsLast(prog, other, p[k]) <=> ReadsLast(prog, args, k)
         /\ ReadsNext(prog, other)[p[k]] = p[ReadsNext(prog, args)[k]]
  <1> DEFINE n == Len(args)
             m == Len(other)
             q == p[k]
  <1>1. /\ n \in Nat /\ m \in Nat /\ IsArgs(args) /\ IsArgs(other) /\ Spread(n, m, p, G) /\ k \in 1..n
    BY DEF ExpandedOf, Expanded, Understood, Walked, AllText, IsArgs
  <1>2. /\ other[q] = args[k] /\ p[k + 1] = q + 1 /\ q \in 1..m /\ (q = 1 <=> k = 1)
    <2>1. q \in Block(p, k) /\ Block(p, k) \subseteq 1..m /\ p[k + 1] = q + 1 /\ (q = 1 <=> k = 1)
      BY <1>1, BlockIs
    <2>2. other[q] = args[k]
      BY <1>1 DEF ExpandedOf, Expanded
    <2>3. QED
      BY <2>1, <2>2
  <1> HIDE DEF q
  <1>3. /\ ReadsVerb(prog, q) <=> ReadsVerb(prog, k)
        /\ ~ReadsOption(prog, other, q)
        /\ ReadsLast(prog, other, q) <=> ReadsLast(prog, args, k)
    BY <1>2 DEF ReadsVerb, ReadsOption, ReadsLast
  <1>4. CASE ReadsLast(prog, args, k)
    <2>1. ReadsNext(prog, args)[k] = n + 1
      BY <1>1, <1>4, EndsAtLast
    <2>2. ReadsNext(prog, other)[q] = m + 1
      BY <1>1, <1>2, <1>3, <1>4, EndsAtLast
    <2>3. p[n + 1] = m + 1
      BY <1>1 DEF Spread
    <2>4. QED
      BY <1>2, <1>3, <2>1, <2>2, <2>3 DEF q
  <1>5. CASE ~ReadsLast(prog, args, k)
    <2>1. ReadsNext(prog, args)[k] = k + 1
      BY <1>1, <1>5, EndsAtLast
    <2>2. ReadsNext(prog, other)[q] = q + 1
      BY <1>1, <1>2, <1>3, <1>5, EndsAtLast
    <2>3. QED
      BY <1>2, <1>3, <2>1, <2>2 DEF q
  <1>6. QED
    BY <1>4, <1>5

\* A glob is an operand, and so are all the names it expands into.
LEMMA GlobSpreads ==
  ASSUME NEW prog, NEW args, NEW O, NEW V, NEW other, NEW p, NEW G, ExpandedOf(prog, args, O, V, other, p, G),
         NEW k \in V, k \in G
  PROVE  /\ ~ReadsOption(prog, args, k) /\ ~ReadsLast(prog, args, k) /\ args[k].kind # "ddash"
         /\ ReadsNext(prog, args)[k] = k + 1
         /\ \A i \in Block(p, k) :
              /\ ~ReadsOption(prog, other, i) /\ ~ReadsLast(prog, other, i) /\ other[i].kind # "ddash"
              /\ ReadsNext(prog, other)[i] = i + 1
  <1> DEFINE n == Len(args)
             m == Len(other)
  <1>1. /\ n \in Nat /\ m \in Nat /\ IsArgs(args) /\ IsArgs(other) /\ Spread(n, m, p, G) /\ k \in 1..n
        /\ IsText(args[k]) /\ args[k].star
    BY DEF ExpandedOf, Expanded, Understood, Walked, AllText, IsArgs
  <1>2. k \in O /\ ~IsOption(args[k]) /\ ~ReadsLast(prog, args, k)
    BY DEF ExpandedOf, Understood
  <1>3. prog # "ip"
    BY <1>2 DEF ExpandedOf, Understood, Kept
  <1>4. args[k].kind = "operand"
    BY <1>1, <1>2, OptionText DEF Kinds, IsOption
  <1>5. ASSUME NEW i \in Block(p, k)
        PROVE  /\ ~ReadsOption(prog, other, i) /\ ~ReadsLast(prog, other, i) /\ other[i].kind # "ddash"
               /\ ReadsNext(prog, other)[i] = i + 1
    <2>1. i \in 1..m
      BY <1>1, BlockIs
    <2>2. Begins(other[i]) = Begins(args[k])
      BY DEF ExpandedOf, Expanded
    <2>3. Begins(args[k]) # "-"
      BY <1>4 DEF Begins
    <2>4. other[i].kind = "operand"
      BY <2>2, <2>3 DEF Begins
    <2>5. ~ReadsOption(prog, other, i) /\ ~ReadsLast(prog, other, i)
      BY <1>3, <2>4 DEF ReadsOption, ReadsLast, IsOption
    <2>6. QED
      BY <1>1, <2>1, <2>4, <2>5, EndsAtLast
  <1>6. ~ReadsOption(prog, args, k)
    BY <1>2 DEF ReadsOption
  <1>7. QED
    BY <1>1, <1>2, <1>4, <1>5, <1>6, EndsAtLast

\* What the program makes of the expanded words: more operands, nothing else.
LEMMA ReadingSpreads ==
  ASSUME NEW prog, NEW args, NEW O, NEW V, NEW other, NEW p, NEW G, ExpandedOf(prog, args, O, V, other, p, G)
  PROVE  /\ Walked(ReadsNext(prog, other), Len(other), 1, Blocks(p, V))
         /\ OperandsIn(prog, other, Blocks(p, V)) = Blocks(p, OperandsIn(prog, args, V))
         /\ UsedIn(prog, other, Blocks(p, V)) = UsedIn(prog, args, V)
  <1> DEFINE n == Len(args)
             m == Len(other)
             next == ReadsNext(prog, args)
             after == ReadsNext(prog, other)
             W == Visited(after, 1)
             B == Blocks(p, V)
  <1>1. /\ n \in Nat /\ m \in Nat /\ IsArgs(args) /\ IsArgs(other) /\ 1 \in Nat \ {0}
        /\ Walked(next, n, 1, V) /\ V \subseteq 1..n /\ Spread(n, m, p, G)
    BY DEF ExpandedOf, Expanded, Understood, Walked, AllText, IsArgs
  <1>2. Walked(after, m, 1, W)
    BY <1>1, ReadsHop, VisitedIs
  <1>3. \A k \in V \ G : after[p[k]] = p[next[k]]
    BY OptionSpreads, WordSpreads
  <1>4. \A k \in V \cap G : next[k] = k + 1 /\ \A i \in Block(p, k) : after[i] = i + 1
    BY GlobSpreads
  <1> HIDE DEF next, after, W, n, m
  <1>5. W = B
    <2>1. SpreadsOn(next, V, p, G, after)
      BY <1>3, <1>4 DEF SpreadsOn
    <2> HIDE DEF B
    <2>2. W = Blocks(p, V)
      BY <1>1, <1>2, <2>1, SpreadWalk
    <2>3. QED
      BY <2>2 DEF B
  <1> HIDE DEF B
  <1>6. \A k \in V : k \notin G => Block(p, k) = {p[k]}
    BY <1>1, BlockIs
  <1>7. \A k \in V : \A i \in Block(p, k) :
          /\ ReadsOption(prog, other, i) <=> ReadsOption(prog, args, k)
          /\ ReadsLast(prog, other, i) <=> ReadsLast(prog, args, k)
          /\ k \in FreeIn(prog, args, V) <=> ~ReadsOption(prog, other, i) /\ (other[i].kind # "ddash" \/ ReadsVerb(prog, i))
          /\ ReadsOption(prog, args, k) => ReadOption(prog, other, i) = ReadOption(prog, args, k)
    <2>1. SUFFICES ASSUME NEW k \in V, NEW i \in Block(p, k)
                   PROVE  /\ ReadsOption(prog, other, i) <=> ReadsOption(prog, args, k)
                          /\ ReadsLast(prog, other, i) <=> ReadsLast(prog, args, k)
                          /\ k \in FreeIn(prog, args, V) <=>
                               ~ReadsOption(prog, other, i) /\ (other[i].kind # "ddash" \/ ReadsVerb(prog, i))
                          /\ ReadsOption(prog, args, k) => ReadOption(prog, other, i) = ReadOption(prog, args, k)
      OBVIOUS
    <2>2. CASE k \in G
      BY <2>2, GlobSpreads DEF FreeIn
    <2>3. CASE k \notin G /\ ReadsOption(prog, args, k)
      <3>1. i = p[k]
        BY <1>6, <2>3
      <3>2. ReadsOption(prog, other, i) /\ ReadOption(prog, other, i) = ReadOption(prog, args, k)
        BY <2>3, <3>1, OptionSpreads
      <3>3. QED
        BY <2>3, <3>2 DEF FreeIn, ReadsLast, ReadsOption
    <2>4. CASE k \notin G /\ ~ReadsOption(prog, args, k)
      <3>1. i = p[k]
        BY <1>6, <2>4
      <3>2. /\ ~ReadsOption(prog, other, i) /\ other[i] = args[k]
            /\ ReadsVerb(prog, i) <=> ReadsVerb(prog, k)
            /\ ReadsLast(prog, other, i) <=> ReadsLast(prog, args, k)
        BY <2>4, <3>1, WordSpreads
      <3>3. QED
        BY <2>4, <3>2 DEF FreeIn
    <2>5. QED
      BY <2>2, <2>3, <2>4
  <1>8. FreeIn(prog, other, B) = Blocks(p, FreeIn(prog, args, V))
    <2>1. FreeIn(prog, args, V) \subseteq V
      BY DEF FreeIn
    <2>2. \A i : i \in FreeIn(prog, other, B) <=> \E k \in V : i \in Block(p, k) /\ k \in FreeIn(prog, args, V)
      BY <1>7 DEF FreeIn, B, Blocks
    <2>3. \A i : i \in Blocks(p, FreeIn(prog, args, V)) <=> \E k \in V : i \in Block(p, k) /\ k \in FreeIn(prog, args, V)
      BY <2>1 DEF Blocks
    <2>4. QED
      BY <2>2, <2>3
  <1>9. UsedIn(prog, other, B) = UsedIn(prog, args, V)
    <2>1. \A u : u \in UsedIn(prog, other, B) <=>
                   \E k \in V : ReadsOption(prog, args, k) /\ u \in ReadOption(prog, args, k).used
      <3>1. \A k \in V : p[k] \in Block(p, k)
        BY <1>1, BlockIs
      <3>2. ASSUME NEW u \in UsedIn(prog, other, B)
            PROVE  \E k \in V : ReadsOption(prog, args, k) /\ u \in ReadOption(prog, args, k).used
        <4>1. PICK i \in B : ReadsOption(prog, other, i) /\ u \in ReadOption(prog, other, i).used
          BY <3>2 DEF UsedIn
        <4>2. PICK k \in V : i \in Block(p, k)
          BY <4>1 DEF B, Blocks
        <4>3. QED
          BY <1>7, <4>1, <4>2
      <3>3. ASSUME NEW u, NEW k \in V, ReadsOption(prog, args, k), u \in ReadOption(prog, args, k).used
            PROVE  u \in UsedIn(prog, other, B)
        <4>1. p[k] \in B /\ ReadsOption(prog, other, p[k]) /\ ReadOption(prog, other, p[k]) = ReadOption(prog, args, k)
          BY <1>7, <3>1, <3>3 DEF B, Blocks
        <4>2. QED
          BY <3>3, <4>1 DEF UsedIn
      <3>4. QED
        BY <3>2, <3>3
    <2>2. QED
      BY <2>1 DEF UsedIn
  <1> DEFINE last == {j \in 1..n : \E k \in V : ReadsLast(prog, args, k) /\ k < j}
             lastB == {j \in 1..m : \E i \in B : ReadsLast(prog, other, i) /\ i < j}
  <1>10. lastB = Blocks(p, last)
    <2>1. ASSUME NEW k \in V, ReadsLast(prog, args, k) PROVE k \notin G /\ p[k] \in B /\ ReadsLast(prog, other, p[k])
      <3>1. k \notin G
        BY <2>1, GlobSpreads
      <3>2. p[k] \in Block(p, k)
        BY <1>1, BlockIs
      <3>3. QED
        BY <1>7, <2>1, <3>1, <3>2 DEF B, Blocks
    <2>2. ASSUME NEW i \in B, ReadsLast(prog, other, i) PROVE \E k \in V : ReadsLast(prog, args, k) /\ i = p[k]
      <3>1. PICK k \in V : i \in Block(p, k)
        BY <2>2 DEF B, Blocks
      <3>2. ReadsLast(prog, args, k) /\ k \notin G
        BY <1>7, <2>1, <2>2, <3>1
      <3>3. QED
        BY <1>6, <3>1, <3>2
    <2>3. ASSUME NEW j \in lastB PROVE j \in Blocks(p, last)
      <3>1. PICK k \in V : ReadsLast(prog, args, k) /\ p[k] < j /\ j \in 1..m
        BY <2>2, <2>3
      <3>2. PICK x \in 1..n : j \in Block(p, x)
        BY <1>1, <3>1, SpreadCovers
      <3>3. k < x
        <4>1. SUFFICES ASSUME x < k \/ x = k PROVE FALSE
          BY <1>1
        <4>2. j < p[x + 1] /\ p[x] <= j
          BY <1>1, <3>2, BlockIs
        <4>3. x # k
          <5>1. k \notin G /\ Block(p, k) = {p[k]}
            BY <1>6, <2>1, <3>1
          <5>2. SUFFICES ASSUME x = k PROVE FALSE
            OBVIOUS
          <5>3. j = p[k]
            BY <3>2, <5>1, <5>2
          <5>4. QED
            BY <3>1, <5>3
        <4>4. x + 1 \in 1..(n + 1) /\ k \in 1..(n + 1) /\ x + 1 <= k
          BY <1>1, <4>1, <4>3
        <4>5. p[x + 1] <= p[k]
          BY <1>1, <4>4, SpreadMono
        <4>6. p[x + 1] \in Nat /\ p[k] \in Nat
          BY <1>1, <4>4 DEF Spread
        <4>7. QED
          BY <3>1, <4>2, <4>5, <4>6
      <3>4. QED
        BY <3>1, <3>2, <3>3 DEF Blocks
    <2>4. ASSUME NEW j \in Blocks(p, last) PROVE j \in lastB
      <3>1. PICK x \in last : j \in Block(p, x)
        BY <2>4 DEF Blocks
      <3>2. PICK k \in V : ReadsLast(prog, args, k) /\ k < x /\ x \in 1..n
        BY <3>1
      <3>3. p[x] <= j /\ j \in 1..m
        BY <1>1, <3>1, <3>2, BlockIs
      <3>4. p[k] < p[x] /\ p[k] \in Nat /\ p[x] \in Nat
        <4>1. k \in 1..(n + 1) /\ x \in 1..(n + 1) /\ k <= x
          BY <1>1, <3>2
        <4>2. p[k] < p[x]
          BY <1>1, <3>2, <4>1, SpreadMono
        <4>3. QED
          BY <1>1, <4>1, <4>2 DEF Spread
      <3>5. p[k] < j
        BY <3>3, <3>4
      <3>6. QED
        BY <2>1, <3>2, <3>3, <3>5
    <2> HIDE DEF last, lastB
    <2>5. QED
      BY <2>3, <2>4
  <1>11. OperandsIn(prog, other, B) = Blocks(p, OperandsIn(prog, args, V))
    <2>1. OperandsIn(prog, other, B) = Blocks(p, FreeIn(prog, args, V)) \cup Blocks(p, last)
      BY <1>8, <1>10 DEF OperandsIn, m
    <2>2. OperandsIn(prog, args, V) = FreeIn(prog, args, V) \cup last
      BY DEF OperandsIn, n
    <2> HIDE DEF last, lastB
    <2>3. QED
      BY <2>1, <2>2 DEF Blocks
  <1>12. QED
    BY <1>2, <1>5, <1>9, <1>11 DEF B, W, after, m

\* Without globs bash leaves the words as they are.
LEMMA NoGlobs ==
  ASSUME NEW args, NEW other, NEW p, Expanded(args, other, p, {})
  PROVE  /\ Len(other) = Len(args)
         /\ \A k \in 1..Len(args) : other[k] = args[k] /\ Block(p, k) = {k}
         /\ \A S \in SUBSET (1..Len(args)) : Blocks(p, S) = S
  <1> DEFINE n == Len(args)
             m == Len(other)
             Bad == {k \in 1..(n + 1) : p[k] # k}
  <1>1. /\ n \in Nat /\ m \in Nat /\ Spread(n, m, p, {})
        /\ \A k \in 1..n : other[p[k]] = args[k]
    BY DEF Expanded, Spread
  <1>2. p[1] = 1 /\ p[n + 1] = m + 1 /\ \A k \in 1..n : p[k + 1] = p[k] + 1
    BY <1>1 DEF Spread
  <1> HIDE DEF n, m
  <1>3. Bad = {}
    <2>1. SUFFICES ASSUME Bad # {} PROVE FALSE
      OBVIOUS
    <2>2. PICK i \in Bad : \A x \in Bad : i <= x
      <3>1. Bad \in SUBSET Nat
        BY <1>1
      <3> HIDE DEF Bad
      <3>2. QED
        BY <2>1, <3>1, Least
    <2> DEFINE b == i - 1
    <2>3. b \in 1..n /\ b + 1 = i /\ ~(i <= b) /\ b \in 1..(n + 1)
      BY <1>1, <1>2
    <2>4. p[b] = b
      BY <2>2, <2>3
    <2>5. p[b + 1] = p[b] + 1
      BY <1>2, <2>3
    <2>6. QED
      BY <2>3, <2>4, <2>5
  <1>4. \A k \in 1..(n + 1) : p[k] = k
    BY <1>3
  <1>5. m = n
    <2>1. n + 1 \in 1..(n + 1)
      BY <1>1
    <2>2. p[n + 1] = n + 1
      BY <1>4, <2>1
    <2>3. QED
      BY <1>1, <1>2, <2>2
  <1>6. ASSUME NEW k \in 1..n PROVE other[k] = args[k] /\ Block(p, k) = {k}
    <2>1. p[k] = k /\ k \in Nat /\ k \in 1..(n + 1)
      BY <1>1, <1>4
    <2>2. Block(p, k) = {p[k]}
      BY <1>1, BlockIs
    <2>3. QED
      BY <1>1, <2>1, <2>2
  <1>7. ASSUME NEW S \in SUBSET (1..n) PROVE Blocks(p, S) = S
    <2>1. \A k \in S : Block(p, k) = {k}
      BY <1>6
    <2>2. QED
      BY <2>1 DEF Blocks
  <1>8. QED
    BY <1>5, <1>6, <1>7 DEF n, m

\* Where the texts are the same, so is what their forms say.
LEMMA SameOperands ==
  ASSUME NEW prog, NEW args, NEW other, Len(args) \in Nat, NEW ops \in SUBSET (1..Len(args)),
         \A k \in 1..Len(args) : other[k] = args[k]
  PROVE  /\ ops # {} => Repeats(other, ops \ {Min(ops)}) = Repeats(args, ops \ {Min(ops)})
         /\ VerbHarms(prog, other, ops) <=> VerbHarms(prog, args, ops)
  <1>1. ASSUME NEW S \in SUBSET (1..Len(args)), S # {} PROVE Max(S) \in S
    <2>1. PICK m \in S : \A k \in S : k <= m
      BY <1>1, Greatest
    <2>2. S \in SUBSET Nat
      OBVIOUS
    <2>3. Max(S) = m
      BY <2>1, <2>2, MaxIs
    <2>4. QED
      BY <2>3
  <1>2. ASSUME NEW S \in SUBSET (1..Len(args)) PROVE Repeats(other, S) = Repeats(args, S)
    <2> DEFINE before == S \ {Max(S)}
    <2>1. S # {} => Max(S) \in 1..Len(args)
      BY <1>1
    <2>2. before # {} => Max(before) \in 1..Len(args)
      BY <1>1
    <2>3. S # {} => other[Max(S)] = args[Max(S)]
      BY <2>1
    <2>4. before # {} => other[Max(before)] = args[Max(before)]
      BY <2>2
    <2>5. QED
      BY <2>3, <2>4 DEF Repeats
  <1>3. ASSUME NEW S \in SUBSET (1..Len(args)), S # {} PROVE other[Min(S)] = args[Min(S)]
    <2>1. S \in SUBSET Nat
      OBVIOUS
    <2>2. Min(S) \in S
      BY <1>3, <2>1, MinIn
    <2>3. QED
      BY <2>2
  <1>4. ops \ {Min(ops)} \in SUBSET (1..Len(args))
    OBVIOUS
  <1>5. VerbHarms(prog, other, ops) <=> VerbHarms(prog, args, ops)
    BY <1>3, <1>4 DEF VerbHarms
  <1>6. QED
    BY <1>2, <1>4, <1>5

\* A text that comes from a word: the word itself, or a name a glob fits.
ComesFrom(t, text, isGlob) ==
  /\ IsText(t) /\ IsText(text)
  /\ ~isGlob => t = text
  /\ isGlob => text.star /\ Begins(t) = Begins(text)

LEMMA Origin ==
  ASSUME NEW args, NEW other, NEW p, NEW G, Expanded(args, other, p, G),
         NEW ops \in SUBSET (1..Len(args)), NEW i \in Blocks(p, ops)
  PROVE  \E k \in ops : ComesFrom(other[i], args[k], k \in G)
  <1>1. PICK k \in ops : i \in Block(p, k)
    BY DEF Blocks
  <1>2. Spread(Len(args), Len(other), p, G) /\ k \in 1..Len(args)
    BY DEF Expanded
  <1>3. i \in 1..Len(other)
    BY <1>1, <1>2, BlockIs
  <1>4. IsText(other[i]) /\ IsText(args[k])
    BY <1>2, <1>3 DEF Expanded, AllText
  <1>5. k \notin G => other[i] = args[k]
    <2>1. k \notin G => Block(p, k) = {p[k]}
      BY <1>2, BlockIs
    <2>2. k \notin G => other[p[k]] = args[k]
      BY <1>2 DEF Expanded
    <2>3. QED
      BY <1>1, <2>1, <2>2
  <1>6. k \in G => args[k].star /\ Begins(other[i]) = Begins(args[k])
    BY <1>1 DEF Expanded
  <1>7. QED
    BY <1>4, <1>5, <1>6 DEF ComesFrom

\* What the forms of a word allow, the forms of a name it fits allow.
LEMMA FormsKept ==
  ASSUME NEW t, NEW text, NEW isGlob, ComesFrom(t, text, isGlob)
  PROVE  /\ IsPlus(text) => Plus(t)
         /\ text.form # "plusOther" => t.form # "plusOther"
  <1>1. CASE ~isGlob
    BY <1>1 DEF ComesFrom, IsPlus, Plus
  <1>2. CASE isGlob
    <2>1. text.star /\ Begins(t) = Begins(text) /\ IsText(t) /\ IsText(text)
      BY <1>2 DEF ComesFrom
    <2>2. /\ t.form \in {"plusNumber", "plusOther"} => t.kind = "operand"
          /\ text.form \in {"name", "plusOther", "odd"}
      BY <2>1, OptionText
    <2>3. IsPlus(text) => Plus(t)
      BY <2>1 DEF IsPlus, Plus, Begins
    <2>4. ASSUME text.form # "plusOther" PROVE t.form # "plusOther"
      <3>1. Begins(text) # "+"
        BY <2>2, <2>4 DEF Begins, Plus
      <3>2. QED
        BY <2>1, <2>2, <3>1 DEF Begins, Plus
    <2>5. QED
      BY <2>3, <2>4
  <1>3. QED
    BY <1>1, <1>2

\* The operands bash makes of those that were let through are harmless too, and
\* the verb among them is the verb that was let through.
LEMMA OperandsSpread ==
  ASSUME NEW prog, NEW args, NEW O, NEW other, NEW p, NEW G, Expanded(args, other, p, G), G \subseteq O,
         NEW ops \in SUBSET (1..Len(args)), Kept(prog, args, O, ops)
  PROVE  /\ ~OperandsHarm(prog, other, Blocks(p, ops))
         /\ ~VerbHarms(prog, other, Blocks(p, ops))
         /\ Blocks(p, ops) = {} <=> ops = {}
         /\ prog \in Verbs /\ ops # {} => other[Min(Blocks(p, ops))] = args[Min(ops)]
  <1> DEFINE B == Blocks(p, ops)
             v == Min(ops)
             w == Min(B)
  <1>1. Spread(Len(args), Len(other), p, G) /\ Len(args) \in Nat /\ Len(other) \in Nat
    BY DEF Expanded, AllText, IsArgs
  <1>2. ops # {} => w = p[v] /\ v \in ops /\ B # {}
    BY <1>1, FirstBlock
  <1>3. ops = {} => B = {}
    BY DEF Blocks
  <1>4. \A i \in B : \E k \in ops : ComesFrom(other[i], args[k], k \in G)
    BY Origin
  <1>5. prog \in Verbs /\ ops # {} => other[w] = args[v]
    <2>1. prog \in Verbs /\ ops # {} => v \notin G /\ v \in 1..Len(args)
      BY <1>2 DEF Kept
    <2>2. prog \in Verbs /\ ops # {} => other[p[v]] = args[v]
      BY <2>1 DEF Expanded
    <2>3. QED
      BY <1>2, <2>2
  <1>6. ASSUME G = {}
        PROVE  /\ B = ops
               /\ ops # {} => Repeats(other, ops \ {v}) = Repeats(args, ops \ {v})
               /\ VerbHarms(prog, other, ops) <=> VerbHarms(prog, args, ops)
    <2>1. Expanded(args, other, p, {})
      BY <1>6
    <2>2. B = ops /\ \A k \in 1..Len(args) : other[k] = args[k]
      BY <2>1, NoGlobs
    <2>3. QED
      BY <1>1, <2>2, SameOperands
  <1> HIDE DEF B, v, w
  <1>7. CASE prog = "date"
    <2>1. \A k \in ops : IsPlus(args[k])
      BY <1>7 DEF Kept
    <2>2. \A i \in B : Plus(other[i])
      BY <1>4, <2>1, FormsKept
    <2>3. ~OperandsHarm(prog, other, B)
      BY <1>7, <2>2 DEF OperandsHarm
    <2>4. ~VerbHarms(prog, other, B)
      BY <1>7 DEF VerbHarms, Verbs
    <2>5. QED
      BY <1>2, <1>3, <1>5, <2>3, <2>4 DEF B, v, w
  <1>8. CASE prog \in {"tail", "lsof"}
    <2>1. \A k \in ops : args[k].form # "plusOther"
      BY <1>8 DEF Kept
    <2>2. \A i \in B : other[i].form # "plusOther"
      BY <1>4, <2>1, FormsKept
    <2>3. ~OperandsHarm(prog, other, B)
      BY <1>8, <2>2 DEF OperandsHarm
    <2>4. ~VerbHarms(prog, other, B)
      BY <1>8 DEF VerbHarms, Verbs
    <2>5. QED
      BY <1>2, <1>3, <1>5, <2>3, <2>4 DEF B, v, w
  <1>9. CASE prog = "hostname"
    <2>1. B = {}
      BY <1>3, <1>9 DEF Kept
    <2>2. ~OperandsHarm(prog, other, B) /\ ~VerbHarms(prog, other, B)
      BY <1>9, <2>1 DEF OperandsHarm, VerbHarms, Verbs
    <2>3. QED
      BY <1>2, <1>3, <1>5, <2>2 DEF B, v, w
  <1>10. prog \in Verbs \ {"ip"} => ~VerbHarms(prog, other, B)
    <2>1. SUFFICES ASSUME prog \in Verbs \ {"ip"}, VerbHarms(prog, other, B) PROVE FALSE
      OBVIOUS
    <2>2. B # {} /\ Says(other[w], ChangingVerbs)
      BY <2>1 DEF VerbHarms, w
    <2>3. ops # {} /\ Says(args[v], ChangingVerbs)
      BY <1>3, <1>5, <2>1, <2>2
    <2>4. VerbHarms(prog, args, ops)
      BY <2>1, <2>3 DEF VerbHarms, v
    <2>5. QED
      BY <2>4 DEF Kept
  <1>11. CASE prog = "zpool"
    <2>1. SUFFICES ASSUME OperandsHarm(prog, other, B) PROVE FALSE
      BY <1>2, <1>3, <1>5, <1>10, <1>11 DEF B, v, w, Verbs
    <2>2. B # {} /\ Says(other[w], {"status"}) /\ Repeats(other, B \ {w})
      BY <1>11, <2>1 DEF OperandsHarm, w
    <2>3. ops # {} /\ Says(args[v], {"status"})
      BY <1>3, <1>5, <1>11, <2>2 DEF Verbs
    <2>4. ~Repeats(args, ops \ {v}) /\ \A k \in O : ~args[k].star
      BY <1>11, <2>3 DEF Kept, v
    <2>5. G = {}
      BY <2>4 DEF Expanded
    <2>6. B = ops /\ Repeats(other, ops \ {v}) = Repeats(args, ops \ {v})
      BY <1>6, <2>3, <2>5
    <2>7. w = v
      BY <2>6 DEF v, w
    <2>8. QED
      BY <2>2, <2>4, <2>6, <2>7
  <1>12. CASE prog = "ip"
    <2>1. G = {}
      BY <1>12 DEF Kept
    <2>2. ~VerbHarms(prog, args, ops)
      BY DEF Kept
    <2>3. B = ops /\ ~VerbHarms(prog, other, ops)
      BY <1>6, <2>1, <2>2
    <2>4. ~OperandsHarm(prog, other, B)
      BY <1>12 DEF OperandsHarm
    <2>5. QED
      BY <1>2, <1>3, <1>5, <2>3, <2>4 DEF B, v, w
  <1>13. CASE prog \notin {"date", "tail", "lsof", "hostname", "zpool", "ip"}
    <2>1. ~OperandsHarm(prog, other, B)
      BY <1>13 DEF OperandsHarm
    <2>2. ~VerbHarms(prog, other, B)
      <3>1. CASE prog \in Verbs
        BY <1>10, <1>13, <3>1
      <3>2. CASE prog \notin Verbs
        BY <1>13, <3>2 DEF VerbHarms
      <3>3. QED
        BY <3>1, <3>2
    <2>3. QED
      BY <1>2, <1>3, <1>5, <2>1, <2>2 DEF B, v, w
  <1>14. QED
    BY <1>7, <1>8, <1>9, <1>11, <1>12, <1>13

\* A command that was let through does no harm, whatever its globs expand to,
\* and means what was checked.
LEMMA CommandRuns ==
  ASSUME NEW words, NEW run, run[1] = words[1], NEW O, NEW V, NEW p, NEW G,
         ExpandedOf(words[1].name, Tail(words), O, V, Tail(run), p, G)
  PROVE  ~Harms(run) /\ Meaning(run) = Meaning(words)
  <1> DEFINE prog == words[1].name
             args == Tail(words)
             other == Tail(run)
             ops == OperandsIn(prog, args, V)
             B == Blocks(p, ops)
  <1>1. /\ Understood(prog, args, O, V) /\ Expanded(args, other, p, G) /\ G \subseteq O
        /\ ExpandedOf(prog, args, O, V, other, p, G)
    BY DEF ExpandedOf
  <1>2. run[1].name = prog
    OBVIOUS
  <1> HIDE DEF prog, args, other
  <1>3. AllText(args) /\ IsArgs(args) /\ IsArgs(other)
    BY <1>1 DEF Expanded, AllText
  <1>4. /\ Walked(ReadsNext(prog, args), Len(args), 1, V) /\ V \subseteq 1..Len(args)
        /\ Kept(prog, args, O, ops)
    BY <1>1 DEF Understood, Walked
  <1>5. ops \in SUBSET (1..Len(args))
    BY <1>4 DEF OperandsIn, FreeIn
  <1>6. /\ Walked(ReadsNext(prog, other), Len(other), 1, Blocks(p, V))
        /\ OperandsIn(prog, other, Blocks(p, V)) = B
        /\ UsedIn(prog, other, Blocks(p, V)) = UsedIn(prog, args, V)
    BY <1>1, ReadingSpreads
  <1> HIDE DEF ops
  <1>7. /\ ~OperandsHarm(prog, other, B) /\ ~VerbHarms(prog, other, B)
        /\ B = {} <=> ops = {}
        /\ prog \in Verbs /\ ops # {} => other[Min(B)] = args[Min(ops)]
    <2>1. /\ ~OperandsHarm(prog, other, Blocks(p, ops)) /\ ~VerbHarms(prog, other, Blocks(p, ops))
          /\ Blocks(p, ops) = {} <=> ops = {}
          /\ prog \in Verbs /\ ops # {} => other[Min(Blocks(p, ops))] = args[Min(ops)]
      BY <1>1, <1>4, <1>5, OperandsSpread
    <2>2. QED
      BY <2>1
  <1> HIDE DEF B
  <1>8. Reading(prog, args).operands = ops /\ Reading(prog, args).used = UsedIn(prog, args, V)
    BY <1>3, <1>4, ReadingIs DEF ops
  <1>9. Reading(prog, other).operands = B /\ Reading(prog, other).used = UsedIn(prog, args, V)
    BY <1>3, <1>6, ReadingIs
  <1>10. \A u \in UsedIn(prog, args, V) : Harmless(prog, u)
    <2>1. SUFFICES ASSUME NEW u \in UsedIn(prog, args, V) PROVE Harmless(prog, u)
      OBVIOUS
    <2>2. PICK k \in V : ReadsOption(prog, args, k) /\ u \in ReadOption(prog, args, k).used
      BY DEF UsedIn
    <2>3. PICK spec : Agrees(prog, spec) /\ Takes(prog, spec, args, k) # Refused
      BY <1>1, <2>2 DEF Understood
    <2>4. k \in 1..Len(args) /\ IsOption(args[k])
      BY <1>4, <2>2 DEF ReadsOption
    <2>5. QED
      BY <1>3, <2>2, <2>3, <2>4, OptionStep
  <1>11. ~Harms(run)
    <2>1. Harms(run) =
            \/ \E u \in Reading(prog, other).used :
                 <<prog, u[1]>> \in Writers \/ <<prog, u[1], u[2]>> \in Setters
            \/ OperandsHarm(prog, other, Reading(prog, other).operands)
            \/ VerbHarms(prog, other, Reading(prog, other).operands)
      BY <1>2 DEF Harms, other
    <2>2. ~(\E u \in Reading(prog, other).used :
                 <<prog, u[1]>> \in Writers \/ <<prog, u[1], u[2]>> \in Setters)
      BY <1>9, <1>10 DEF Harmless
    <2>3. QED
      BY <1>7, <1>9, <2>1, <2>2
  <1>12. Meaning(run) = Meaning(words)
    <2>1. Meaning(run) =
            [prog |-> prog, used |-> Reading(prog, other).used,
             verb |-> IF prog \in Verbs /\ Reading(prog, other).operands # {}
                      THEN other[Min(Reading(prog, other).operands)].name ELSE NoText]
      BY <1>2, Zenon DEF Meaning, other, NoText
    <2>2. Meaning(words) =
            [prog |-> prog, used |-> Reading(prog, args).used,
             verb |-> IF prog \in Verbs /\ Reading(prog, args).operands # {}
                      THEN args[Min(Reading(prog, args).operands)].name ELSE NoText]
      BY Zenon DEF Meaning, args, prog, NoText
    <2>3. QED
      BY <1>7, <1>8, <1>9, <2>1, <2>2
  <1>13. QED
    BY <1>11, <1>12

-----------------------------------------------------------------------------
(* What bash makes of typed words. *)

TextSet == {t \in [kind : Kinds, name : STRING, letters : Seq(STRING), val : STRING,
                   form : Forms, dir : {"", "bin", "other"}, star : BOOLEAN] : IsText(t)}
Globs(words) == {k \in 1..Len(words) : words[k].shape = "glob"}
WellTyped(words) == (\E S : words \in Seq(S)) /\ \A k \in DOMAIN words : IsWord(words[k])

\* The word at k becomes the block of k.
Bashed(words, run, p) ==
  /\ Spread(Len(words), Len(run), p, Globs(words))
  /\ run \in Seq(TextSet)
  /\ \A k \in 1..Len(words) : \A i \in Block(p, k) : ComesFrom(run[i], words[k].text, k \in Globs(words))

LEMMA TextSetIs == \A t : t \in TextSet <=> IsText(t)
  BY Zenon DEF TextSet, IsText

LEMMA WordIs ==
  ASSUME NEW w, IsWord(w)
  PROVE  IsText(w.text) /\ w.shape \in Shapes /\ (w.shape \in {"glob", "globFirst"} => w.text.star)
  BY DEF IsWord

LEMMA ExpansionIs ==
  ASSUME NEW w, IsWord(w), w.shape \in {"plain", "glob"}, NEW dir, IsListing(dir)
  PROVE  /\ Expansion(w, dir) \in Seq(TextSet) \ {<<>>}
         /\ w.shape = "plain" => Expansion(w, dir) = <<w.text>>
         /\ \A t \in Range(Expansion(w, dir)) : ComesFrom(t, w.text, w.shape = "glob")
  <1>1. IsText(w.text) /\ (w.shape = "glob" => w.text.star)
    BY WordIs
  <1>2. w.shape = "plain" => Expansion(w, dir) = <<w.text>>
    BY DEF Expansion
  <1>3. CASE Expansion(w, dir) = <<w.text>>
    <2>1. w.text \in TextSet
      BY <1>1, TextSetIs
    <2> DEFINE E == <<w.text>>
    <2>2. E \in Seq(TextSet) /\ E # <<>>
      BY <2>1
    <2>3. \A t \in Range(E) : t = w.text
      BY DEF Range
    <2> HIDE DEF E
    <2>4. \A t \in Range(E) : ComesFrom(t, w.text, w.shape = "glob")
      <3> SUFFICES ASSUME NEW t \in Range(E) PROVE ComesFrom(t, w.text, w.shape = "glob")
        OBVIOUS
      <3>1. t = w.text
        BY <2>3
      <3>2. ComesFrom(w.text, w.text, w.shape = "glob")
        BY <1>1, Zenon DEF ComesFrom
      <3>3. QED
        BY <3>1, <3>2
    <2>5. QED
      BY <1>2, <1>3, <2>2, <2>4 DEF E
  <1>4. CASE Expansion(w, dir) # <<w.text>>
    <2>1. w.shape = "glob"
      BY <1>2, <1>4
    <2> DEFINE s == Stem(w)
    <2>2. s \in DOMAIN dir /\ Expansion(w, dir) = dir[s]
      BY <1>4 DEF Expansion
    <2>3. s.first = Begins(w.text)
      <3>1. s = [first |-> Begins(w.text), name |-> w.text.name]
        BY <2>1, Zenon DEF Stem
      <3> HIDE DEF s
      <3>2. QED
        BY <3>1
    <2>4. Begins(w.text) # "any"
      BY DEF Begins
    <2> HIDE DEF s
    <2>5. /\ dir[s] \in Seq(Range(dir[s])) \ {<<>>}
          /\ \A t \in Range(dir[s]) : IsText(t) /\ Begins(t) = Begins(w.text)
      BY <2>2, <2>3, <2>4 DEF IsListing
    <2> DEFINE R == Range(dir[s])
               d == dir[s]
    <2>6. R \subseteq TextSet
      BY <2>5, TextSetIs
    <2>7. d \in Seq(TextSet) /\ d # <<>>
      <3>1. d \in Seq(R) /\ d # <<>>
        BY <2>5
      <3> HIDE DEF R, d
      <3>2. QED
        BY <2>6, <3>1
    <2>8. \A t \in Range(d) : ComesFrom(t, w.text, w.shape = "glob")
      <3>1. SUFFICES ASSUME NEW t \in R PROVE ComesFrom(t, w.text, w.shape = "glob")
        OBVIOUS
      <3>2. QED
        BY <1>1, <2>1, <2>5, Zenon DEF ComesFrom
    <2>9. QED
      BY <2>1, <2>2, <2>7, <2>8
  <1>5. QED
    BY <1>3, <1>4

LEMMA BashSpreads ==
  ASSUME NEW words, WellTyped(words), Tokenizes(words), NEW dir, IsListing(dir)
  PROVE  \E p : Bashed(words, BashWords(words, dir), p)
  <1> DEFINE n == Len(words)
             E == [k \in 1..n |-> Expansion(words[k], dir)]
             G == {k \in 1..n : Len(E[k]) # 1}
             run == BashWords(words, dir)
  <1>1. n \in Nat /\ DOMAIN words = 1..n
    BY LenProperties DEF WellTyped
  <1>2. run = FlattenSeq(E)
    BY <1>1 DEF BashWords
  <1>3. ASSUME NEW k \in 1..n
        PROVE  /\ E[k] \in Seq(TextSet) \ {<<>>}
               /\ words[k].shape = "plain" => E[k] = <<words[k].text>>
               /\ \A t \in Range(E[k]) : ComesFrom(t, words[k].text, words[k].shape = "glob")
               /\ words[k].shape \in {"plain", "glob"}
    <2>1. IsWord(words[k]) /\ words[k].shape \in {"plain", "glob"}
      BY <1>1 DEF WellTyped, Tokenizes
    <2> DEFINE w == words[k]
    <2>2. E[k] = Expansion(w, dir)
      OBVIOUS
    <2> HIDE DEF E, w
    <2>3. /\ Expansion(w, dir) \in Seq(TextSet) \ {<<>>}
          /\ w.shape = "plain" => Expansion(w, dir) = <<w.text>>
          /\ \A t \in Range(Expansion(w, dir)) : ComesFrom(t, w.text, w.shape = "glob")
      BY <2>1, ExpansionIs DEF w
    <2>4. QED
      BY <2>1, <2>2, <2>3 DEF w
  <1>4. E \in [1..n -> Seq(TextSet) \ {<<>>}]
    BY <1>3
  <1>5. \A k \in (1..n) \ Globs(words) : E[k] = <<words[k].text>> /\ Len(E[k]) = 1
    BY <1>3 DEF Globs
  <1> HIDE DEF E
  <1>6. /\ FlattenSeq(E) \in Seq(TextSet)
        /\ \E p : /\ Spread(n, Len(FlattenSeq(E)), p, G)
                  /\ \A k \in 1..n : \A i \in Block(p, k) : FlattenSeq(E)[i] \in Range(E[k])
    BY <1>1, <1>4, FlattenSpreads
  <1> HIDE DEF n, run
  <1>7. PICK p : /\ Spread(n, Len(run), p, G)
                 /\ \A k \in 1..n : \A i \in Block(p, k) : run[i] \in Range(E[k])
    BY <1>2, <1>6
  <1>8. G \subseteq Globs(words)
    BY <1>5 DEF n, Globs
  <1> HIDE DEF G
  <1>9. Spread(n, Len(run), p, Globs(words))
    BY <1>7, <1>8 DEF Spread
  <1>10. ASSUME NEW k \in 1..n, NEW i \in Block(p, k)
         PROVE  ComesFrom(run[i], words[k].text, k \in Globs(words))
    <2>1. ComesFrom(run[i], words[k].text, words[k].shape = "glob")
      BY <1>3, <1>7
    <2>2. (words[k].shape = "glob") <=> (k \in Globs(words))
      BY DEF Globs, n
    <2>3. QED
      BY <2>1, <2>2, Zenon DEF ComesFrom
  <1>11. QED
    BY <1>2, <1>6, <1>9, <1>10 DEF Bashed, n, run

\* Behind its first c words, none of them a glob, a line is bash's reading of the rest.
Shifted(p, n, c) == [k \in 1..(n - c + 1) |-> p[k + c] - c]
Beyond(G, n, c) == {k \in 1..(n - c) : k + c \in G}

LEMMA SpreadTail ==
  ASSUME NEW n, NEW m, NEW p, NEW G, Spread(n, m, p, G), NEW c \in Nat, c <= n, \A k \in G : ~(k <= c)
  PROVE  /\ c <= m /\ \A k \in 1..(c + 1) : p[k] = k
         /\ \A k \in 1..c : k \in Block(p, k)
         /\ Spread(n - c, m - c, Shifted(p, n, c), Beyond(G, n, c))
  <1> DEFINE Bad == {k \in 1..(c + 1) : p[k] # k}
  <1>1. /\ n \in Nat /\ m \in Nat /\ \A k \in 1..(n + 1) : p[k] \in 1..(m + 1)
        /\ p[1] = 1 /\ p[n + 1] = m + 1 /\ \A k \in 1..n : p[k] < p[k + 1]
        /\ \A k \in (1..n) \ G : p[k + 1] = p[k] + 1
    BY DEF Spread
  <1>2. Bad = {}
    <2>1. SUFFICES ASSUME Bad # {} PROVE FALSE
      OBVIOUS
    <2>2. PICK i \in Bad : \A x \in Bad : i <= x
      <3>1. Bad \in SUBSET Nat
        BY <1>1
      <3> HIDE DEF Bad
      <3>2. QED
        BY <2>1, <3>1, Least
    <2> DEFINE b == i - 1
    <2>3. b \in 1..c /\ b + 1 = i /\ ~(i <= b) /\ b \in 1..(c + 1) /\ b \in 1..n
      BY <1>1, <2>2
    <2>4. p[b] = b
      BY <2>2, <2>3
    <2>5. b \notin G
      BY <2>3
    <2>6. p[b + 1] = p[b] + 1
      BY <1>1, <2>3, <2>5
    <2>7. QED
      BY <2>2, <2>3, <2>4, <2>6
  <1>3. \A k \in 1..(c + 1) : p[k] = k
    BY <1>2
  <1> HIDE DEF Bad
  <1>4. c <= m
    <2>1. c + 1 \in 1..(c + 1) /\ c + 1 \in 1..(n + 1)
      BY <1>1
    <2>2. p[c + 1] = c + 1 /\ p[c + 1] \in 1..(m + 1)
      BY <1>1, <1>3, <2>1
    <2>3. QED
      BY <1>1, <2>2
  <1>5. ASSUME NEW k \in 1..c PROVE k \in Block(p, k)
    <2>1. k \in 1..n
      BY <1>1
    <2>2. p[k] \in Block(p, k)
      BY <2>1, BlockIs
    <2>3. p[k] = k
      BY <1>3
    <2>4. QED
      BY <2>2, <2>3
  <1> DEFINE q == [k \in 1..(n - c + 1) |-> p[k + c] - c]
             H == {k \in 1..(n - c) : k + c \in G}
  <1>6. ASSUME NEW k \in 1..(n - c + 1) PROVE q[k] = p[k + c] - c /\ q[k] \in 1..(m - c + 1)
    <2>1. k + c \in 1..(n + 1) /\ c + 1 \in 1..(n + 1) /\ c + 1 <= k + c /\ c + 1 \in 1..(c + 1)
      BY <1>1
    <2>2. p[c + 1] <= p[k + c] /\ p[c + 1] = c + 1
      BY <1>3, <2>1, SpreadMono
    <2>3. p[k + c] \in 1..(m + 1)
      BY <1>1, <2>1
    <2> DEFINE a == p[k + c]
    <2>4. q[k] = a - c
      OBVIOUS
    <2>5. a \in 1..(m + 1) /\ c + 1 <= a
      BY <2>2, <2>3
    <2> HIDE DEF a, q
    <2>6. a - c \in 1..(m - c + 1)
      BY <1>1, <1>4, <2>5
    <2>7. QED
      BY <2>4, <2>6 DEF a
  <1>7. ASSUME NEW k \in 1..(n - c)
        PROVE  q[k] < q[k + 1] /\ (k \notin H => q[k + 1] = q[k] + 1)
    <2>1. /\ k + c \in 1..n /\ k \in 1..(n - c + 1) /\ k + 1 \in 1..(n - c + 1) /\ (k + 1) + c = (k + c) + 1
          /\ k + c \in 1..(n + 1) /\ (k + c) + 1 \in 1..(n + 1)
      BY <1>1
    <2>2. q[k] = p[k + c] - c /\ q[k + 1] = p[(k + c) + 1] - c
      BY <1>6, <2>1
    <2>3. /\ p[k + c] < p[(k + c) + 1] /\ p[k + c] \in 1..(m + 1) /\ p[(k + c) + 1] \in 1..(m + 1)
          /\ k \notin H => p[(k + c) + 1] = p[k + c] + 1
      BY <1>1, <2>1
    <2> HIDE DEF q, H
    <2>4. QED
      BY <1>1, <2>2, <2>3
  <1>8. q \in [1..(n - c + 1) -> 1..(m - c + 1)]
    BY <1>6
  <1>9. q[1] = 1 /\ q[n - c + 1] = m - c + 1
    <2>1. /\ 1 \in 1..(n - c + 1) /\ n - c + 1 \in 1..(n - c + 1)
          /\ 1 + c = c + 1 /\ (n - c + 1) + c = n + 1 /\ c + 1 \in 1..(c + 1)
      BY <1>1
    <2>2. q[1] = p[c + 1] - c /\ q[n - c + 1] = p[n + 1] - c
      BY <1>6, <2>1
    <2>3. p[c + 1] = c + 1
      BY <1>3, <2>1
    <2> HIDE DEF q
    <2>4. QED
      BY <1>1, <1>4, <2>2, <2>3
  <1> HIDE DEF q, H
  <1>10. Spread(n - c, m - c, q, H)
    <2>1. n - c \in Nat /\ m - c \in Nat
      BY <1>1, <1>4
    <2>2. QED
      BY <1>7, <1>8, <1>9, <2>1 DEF Spread
  <1>11. QED
    BY <1>3, <1>4, <1>5, <1>10 DEF q, H, Shifted, Beyond

After(s, c) == SubSeq(s, c + 1, Len(s))

LEMMA AfterIs ==
  ASSUME NEW S, NEW s \in Seq(S), NEW c \in Nat, c <= Len(s)
  PROVE  /\ After(s, c) \in Seq(S) /\ Len(After(s, c)) = Len(s) - c
         /\ \A k \in 1..(Len(s) - c) : After(s, c)[k] = s[k + c]
  <1> DEFINE n == Len(s)
  <1>1. n \in Nat /\ \A i \in 1..n : s[i] \in S
    BY LenProperties, ElementOfSeq
  <1> HIDE DEF n
  <1>2. c + 1 \in Int /\ n \in Int /\ \A i \in (c + 1)..n : s[i] \in S
    BY <1>1
  <1>3. /\ After(s, c) \in Seq(S)
        /\ Len(After(s, c)) = IF c + 1 <= n THEN n - (c + 1) + 1 ELSE 0
        /\ \A i \in 1..(n - (c + 1) + 1) : After(s, c)[i] = s[(c + 1) + i - 1]
    BY <1>2, SubSeqProperties DEF After, n
  <1>4. n - (c + 1) + 1 = n - c /\ (~(c + 1 <= n) => n - c = 0)
    BY <1>1 DEF n
  <1>5. ASSUME NEW k \in 1..(n - c) PROVE After(s, c)[k] = s[k + c]
    <2>1. After(s, c)[k] = s[(c + 1) + k - 1]
      BY <1>3, <1>4
    <2>2. (c + 1) + k - 1 = k + c
      BY <1>1
    <2>3. QED
      BY <2>1, <2>2
  <1>6. QED
    BY <1>3, <1>4, <1>5 DEF n

LEMMA BashedTail ==
  ASSUME NEW words, WellTyped(words), NEW run, NEW p, Bashed(words, run, p),
         NEW c \in Nat, c <= Len(words), \A k \in Globs(words) : ~(k <= c)
  PROVE  /\ c <= Len(run) /\ \A k \in 1..c : run[k] = words[k].text
         /\ WellTyped(After(words, c)) /\ Globs(After(words, c)) = {k \in 1..(Len(words) - c) : k + c \in Globs(words)}
         /\ \E q : Bashed(After(words, c), After(run, c), q)
  <1> DEFINE n == Len(words)
             m == Len(run)
             rest == After(words, c)
             behind == After(run, c)
             G == Globs(words)
             q == [k \in 1..(n - c + 1) |-> p[k + c] - c]
             H == {k \in 1..(n - c) : k + c \in G}
  <1>0. PICK S : words \in Seq(S)
    BY DEF WellTyped
  <1>1. /\ n \in Nat /\ DOMAIN words = 1..n /\ m \in Nat /\ run \in Seq(TextSet) /\ Spread(n, m, p, G)
        /\ \A k \in 1..n : IsWord(words[k])
    BY <1>0, LenProperties DEF WellTyped, Bashed
  <1>2. c <= m /\ (\A k \in 1..(c + 1) : p[k] = k) /\ (\A k \in 1..c : k \in Block(p, k)) /\ Spread(n - c, m - c, q, H)
    <2>1. c <= n /\ \A k \in G : ~(k <= c)
      OBVIOUS
    <2> HIDE DEF n, m, G, q, H
    <2>2. /\ c <= m /\ (\A k \in 1..(c + 1) : p[k] = k) /\ (\A k \in 1..c : k \in Block(p, k))
          /\ Spread(n - c, m - c, Shifted(p, n, c), Beyond(G, n, c))
      BY <1>1, <2>1, SpreadTail
    <2>3. q = Shifted(p, n, c) /\ H = Beyond(G, n, c)
      BY Zenon DEF q, H, Shifted, Beyond
    <2>4. QED
      BY <2>2, <2>3
  <1>3. rest \in Seq(S) /\ Len(rest) = n - c /\ \A k \in 1..(n - c) : rest[k] = words[k + c]
    BY <1>0, AfterIs
  <1>4. behind \in Seq(TextSet) /\ Len(behind) = m - c /\ \A k \in 1..(m - c) : behind[k] = run[k + c]
    BY <1>1, <1>2, AfterIs
  <1> HIDE DEF rest, behind, n, m
  <1>5. ASSUME NEW k \in 1..c PROVE run[k] = words[k].text
    <2>1. k \in 1..n /\ k \notin G
      BY <1>1 DEF n
    <2>2. ComesFrom(run[k], words[k].text, k \in G)
      BY <1>2, <2>1 DEF Bashed, n
    <2>3. QED
      BY <2>1, <2>2 DEF ComesFrom
  <1>6. \A k \in 1..(n - c) : k + c \in 1..n
    BY <1>1
  <1>7. WellTyped(rest)
    <2>1. DOMAIN rest = 1..(n - c)
      BY <1>3, LenProperties
    <2>2. QED
      BY <1>1, <1>3, <1>6, <2>1 DEF WellTyped
  <1>8. Globs(rest) = H
    <2>1. G = {k \in 1..n : words[k].shape = "glob"}
      BY DEF G, Globs, n
    <2>2. Globs(rest) = {k \in 1..(n - c) : rest[k].shape = "glob"}
      BY <1>3 DEF Globs
    <2> HIDE DEF G
    <2>3. QED
      BY <1>3, <1>6, <2>1, <2>2
  <1>9. ASSUME NEW k \in 1..(n - c), NEW i \in Block(q, k)
        PROVE  ComesFrom(behind[i], rest[k].text, k \in Globs(rest))
    <2>1. k + c \in 1..n /\ k \in 1..(n - c + 1) /\ k + 1 \in 1..(n - c + 1) /\ (k + 1) + c = (k + c) + 1
      BY <1>1
    <2>2. q[k] = p[k + c] - c /\ q[k + 1] = p[(k + c) + 1] - c
      BY <2>1
    <2>3. p[k + c] \in Nat /\ p[(k + c) + 1] \in Nat
      <3>1. k + c \in 1..(n + 1) /\ (k + c) + 1 \in 1..(n + 1)
        BY <1>1, <2>1
      <3>2. p \in [1..(n + 1) -> 1..(m + 1)]
        BY <1>1 DEF Spread
      <3>3. QED
        BY <1>1, <3>1, <3>2
    <2>4. i \in 1..(m - c)
      <3> HIDE DEF q, H
      <3>1. Block(q, k) \subseteq 1..(m - c)
        BY <1>2, BlockIs
      <3>2. QED
        BY <3>1
    <2> DEFINE a == p[k + c]
               b == p[(k + c) + 1]
    <2>5. i \in (a - c)..(b - c - 1)
      BY <2>2 DEF Block
    <2>6. a \in Nat /\ b \in Nat
      BY <2>3
    <2>7. Block(p, k + c) = a..(b - 1)
      BY DEF Block
    <2> HIDE DEF a, b, q
    <2>8. i + c \in Block(p, k + c)
      BY <2>4, <2>5, <2>6, <2>7
    <2>9. ComesFrom(run[i + c], words[k + c].text, (k + c) \in G)
      BY <2>1, <2>8 DEF Bashed, n
    <2>10. behind[i] = run[i + c] /\ rest[k] = words[k + c]
      BY <1>3, <1>4, <2>4
    <2>11. (k \in Globs(rest)) <=> ((k + c) \in G)
      BY <1>8
    <2>12. QED
      BY <2>9, <2>10, <2>11, Zenon DEF ComesFrom
  <1>10. Bashed(rest, behind, q)
    <2>1. Spread(Len(rest), Len(behind), q, Globs(rest))
      BY <1>2, <1>3, <1>4, <1>8
    <2> HIDE DEF q, H
    <2>2. \A k \in 1..Len(rest) : \A i \in Block(q, k) : ComesFrom(behind[i], rest[k].text, k \in Globs(rest))
      BY <1>3, <1>9
    <2>3. QED
      BY <1>4, <2>1, <2>2 DEF Bashed
  <1> HIDE DEF q
  <1>11. QED
    BY <1>2, <1>5, <1>7, <1>8, <1>10 DEF rest, behind, n, m

LEMMA TextsAre ==
  ASSUME NEW words, WellTyped(words)
  PROVE  /\ Texts(words) \in Seq(TextSet) /\ Len(Texts(words)) = Len(words) /\ Len(words) \in Nat
         /\ \A k \in 1..Len(words) : Texts(words)[k] = words[k].text /\ IsText(words[k].text)
         /\ DOMAIN words = 1..Len(words)
  <1>1. DOMAIN words = 1..Len(words) /\ Len(words) \in Nat
    BY LenProperties DEF WellTyped
  <1>2. \A k \in 1..Len(words) : IsText(words[k].text)
    BY <1>1, WordIs DEF WellTyped
  <1>3. Texts(words) \in [1..Len(words) -> TextSet]
    BY <1>1, <1>2, TextSetIs DEF Texts
  <1>4. Texts(words) \in Seq(TextSet) /\ Len(Texts(words)) = Len(words)
    BY <1>1, <1>3, SeqDef, LenProperties
  <1>5. QED
    BY <1>1, <1>2, <1>4 DEF Texts

LEMMA BashedExpands ==
  ASSUME NEW words, WellTyped(words), NEW run, NEW p, Bashed(words, run, p)
  PROVE  Expanded(Texts(words), run, p, Globs(words))
  <1> DEFINE args == Texts(words)
             n == Len(words)
  <1>1. /\ args \in Seq(TextSet) /\ Len(args) = n /\ n \in Nat /\ run \in Seq(TextSet)
        /\ \A k \in 1..n : args[k] = words[k].text
        /\ Spread(n, Len(run), p, Globs(words))
    BY TextsAre DEF Bashed
  <1> HIDE DEF args
  <1>2. ASSUME NEW s \in Seq(TextSet) PROVE AllText(s)
    <2>1. \A k \in 1..Len(s) : s[k] \in TextSet
      BY ElementOfSeq
    <2>2. QED
      BY <2>1, TextSetIs, LenProperties DEF AllText, IsArgs
  <1>3. ASSUME NEW k \in 1..n, NEW i \in Block(p, k) PROVE ComesFrom(run[i], args[k], k \in Globs(words))
    <2>1. ComesFrom(run[i], words[k].text, k \in Globs(words))
      BY DEF Bashed
    <2>2. QED
      BY <1>1, <2>1
  <1>4. \A k \in 1..n : p[k] \in Block(p, k)
    BY <1>1, BlockIs
  <1>5. \A k \in (1..n) \ Globs(words) : run[p[k]] = args[k]
    BY <1>3, <1>4 DEF ComesFrom
  <1>6. \A k \in Globs(words) : args[k].star /\ \A i \in Block(p, k) : Begins(run[i]) = Begins(args[k])
    <2>1. SUFFICES ASSUME NEW k \in Globs(words)
                   PROVE  args[k].star /\ \A i \in Block(p, k) : Begins(run[i]) = Begins(args[k])
      OBVIOUS
    <2>2. k \in 1..n
      BY DEF Globs
    <2>3. \A i \in Block(p, k) : args[k].star /\ Begins(run[i]) = Begins(args[k])
      BY <1>3, <2>2 DEF ComesFrom
    <2>4. QED
      BY <1>4, <2>2, <2>3
  <1>7. Globs(words) \subseteq 1..n
    BY DEF Globs
  <1>8. QED
    BY <1>1, <1>2, <1>5, <1>6, <1>7 DEF Expanded, args

LEMMA TailIs ==
  ASSUME NEW S, NEW s \in Seq(S), s # <<>>
  PROVE  Tail(s) = After(s, 1) /\ Len(s) \in Nat \ {0} /\ 1 <= Len(s)
  <1>1. Len(s) \in Nat \ {0}
    BY LenProperties, EmptySeq
  <1>2. Tail(s) = SubSeq(s, 2, Len(s))
    BY TailIsSubSeq
  <1>3. QED
    BY <1>1, <1>2 DEF After

\* A command that runs on the host alone.
LEMMA HostRuns ==
  ASSUME NEW words, WellTyped(words), words # <<>>, Validate(Texts(words)).ok,
         GlobsAllowed(words, Validate(Texts(words))), NEW run, NEW p, Bashed(words, run, p)
  PROVE  ~Harms(run) /\ Meaning(run) = Meaning(Texts(words))
  <1> DEFINE texts == Texts(words)
             n == Len(words)
             rest == After(words, 1)
             verdict == Validate(texts)
  <1>1. /\ texts \in Seq(TextSet) /\ Len(texts) = n /\ n \in Nat /\ run \in Seq(TextSet)
        /\ \A k \in 1..n : texts[k] = words[k].text
        /\ DOMAIN words = 1..n /\ Len(run) \in Nat
    BY TextsAre, LenProperties DEF Bashed
  <1>2. PICK S : words \in Seq(S)
    BY DEF WellTyped
  <1>3. n # 0 /\ 1 \in Nat /\ 1 <= n /\ texts # <<>> /\ 1 \in 1..n
    <2>1. n # 0
      BY <1>2, EmptySeq
    <2>2. texts # <<>>
      <3> HIDE DEF texts, n
      <3>1. QED
        BY <1>1, <2>1, EmptySeq
    <2>3. QED
      BY <1>1, <2>1, <2>2
  <1> HIDE DEF texts, n, rest, verdict
  <1>4. Command(TextSet, texts)
    BY <1>1, <1>3, TextSetIs DEF Command
  <1>5. PICK O, V : verdict.operands = Behind(O) /\ Understood(texts[1].name, Tail(texts), O, V)
    <2>1. verdict.ok
      BY DEF verdict, texts
    <2>2. QED
      BY <1>4, <2>1, Validated DEF verdict
  <1>6. Len(Tail(texts)) = n - 1
    BY <1>1, <1>4, CommandArgs
  <1>7. O \subseteq 1..(n - 1)
    BY <1>5, <1>6 DEF Understood
  <1>8. ASSUME NEW k \in Globs(words) PROVE k \in Nat /\ \E o \in O : k = o + 1 /\ o \in Nat /\ 1 <= o
    <2>1. k \in 1..n /\ words[k].shape = "glob"
      BY DEF Globs, n
    <2>2. k \in verdict.operands
      BY <1>1, <2>1 DEF GlobsAllowed, verdict, texts
    <2>3. PICK o \in O : k = o + 1
      BY <1>5, <2>2 DEF Behind
    <2>4. o \in Nat /\ 1 <= o
      BY <1>1, <1>7
    <2>5. QED
      BY <1>1, <2>1, <2>3, <2>4
  <1>9. \A k \in Globs(words) : ~(k <= 1)
    BY <1>8
  <1>10. /\ 1 <= Len(run) /\ \A k \in 1..1 : run[k] = words[k].text
         /\ WellTyped(rest) /\ Globs(rest) = {k \in 1..(n - 1) : k + 1 \in Globs(words)}
         /\ \E q : Bashed(rest, After(run, 1), q)
    BY <1>3, <1>9, BashedTail DEF rest, n
  <1>11. PICK q : Bashed(rest, After(run, 1), q)
    BY <1>10
  <1>12. Expanded(Texts(rest), After(run, 1), q, Globs(rest))
    BY <1>10, <1>11, BashedExpands
  <1>13. Texts(rest) = Tail(texts)
    <2>1. rest \in Seq(S) /\ Len(rest) = n - 1 /\ \A k \in 1..(n - 1) : rest[k] = words[k + 1]
      BY <1>2, <1>3, AfterIs DEF rest, n
    <2>2. /\ Texts(rest) \in Seq(TextSet) /\ Len(Texts(rest)) = n - 1
          /\ \A k \in 1..(n - 1) : Texts(rest)[k] = rest[k].text
      BY <1>10, <2>1, TextsAre
    <2>3. /\ Tail(texts) \in Seq(TextSet)
          /\ \A k \in 1..(n - 1) : Tail(texts)[k] = texts[k + 1]
      BY <1>4, <1>6, CommandArgs
    <2>4. \A k \in 1..(n - 1) : k + 1 \in 1..n
      BY <1>1
    <2>5. \A k \in 1..(n - 1) : Texts(rest)[k] = Tail(texts)[k]
      BY <1>1, <2>1, <2>2, <2>3, <2>4
    <2>6. QED
      BY <1>6, <2>2, <2>3, <2>5, SeqEqual
  <1>14. run # <<>> /\ Tail(run) = After(run, 1)
    <2>1. run # <<>>
      BY <1>1, <1>10, EmptySeq
    <2>2. QED
      BY <1>1, <2>1, TailIs
  <1>15. Globs(rest) \subseteq O
    <2>1. SUFFICES ASSUME NEW k \in 1..(n - 1), k + 1 \in Globs(words) PROVE k \in O
      BY <1>10
    <2>2. PICK o \in O : k + 1 = o + 1 /\ o \in Nat
      BY <1>8, <2>1
    <2>3. k \in Nat
      BY <1>1
    <2>4. k = o
      BY <2>2, <2>3
    <2>5. QED
      BY <2>4
  <1>16. run[1] = texts[1]
    BY <1>1, <1>3, <1>10
  <1>17. ExpandedOf(texts[1].name, Tail(texts), O, V, Tail(run), q, Globs(rest))
    BY <1>5, <1>12, <1>13, <1>14, <1>15 DEF ExpandedOf
  <1>18. QED
    BY <1>16, <1>17, CommandRuns DEF texts

\* A `pct exec`, or what looks like one.
StartsExec(c) ==
  c[1].name = "pct" /\ Says(c[IF c[2].kind = "ddash" THEN 3 ELSE 2], {"exec"})

\* A command that was let through is no `pct exec`, nor `timeout`.
LEMMA NotExec ==
  ASSUME NEW texts, Command(TextSet, texts), Validate(texts).ok, NEW c, c[1] = texts[1],
         texts[1].name = "pct" => \A k \in 1..(VerbAt(Tail(texts)) + 1) : c[k] = texts[k]
  PROVE  Inner(c) = <<>> /\ ~UnderLimit(c) /\ ~StartsExec(c)
  <1> DEFINE args == Tail(texts)
             at == VerbAt(args)
             prog == texts[1].name
             v == IF c[2].kind = "ddash" THEN 3 ELSE 2
  <1>1. /\ prog \in Programs
        /\ prog \in DOMAIN SUBS => Validate(texts) = BySubcommand(prog, texts)
    <2>1. Validate(texts) # No
      BY DEF No
    <2>2. QED
      BY <2>1, ValidateIs
  <1>2. c[1].name # "timeout"
    BY <1>1, ProgramsAre
  <1>3. CASE prog # "pct"
    BY <1>2, <1>3 DEF Inner, UnderLimit, StartsExec
  <1>4. CASE prog = "pct"
    <2>1. BySubcommand("pct", texts).ok
      BY <1>1, <1>4 DEF SUBS
    <2>2. BySubcommand("pct", texts) # No
      BY <2>1 DEF No
    <2>3. 1 <= Len(args) /\ at <= Len(args) /\ args[at].name # "exec"
      BY <2>1, <2>2, PctVerb
    <2>4. at \in {1, 2} /\ (at = 2 <=> args[1].kind = "ddash") /\ Len(args) \in Nat
          /\ \A k \in 1..Len(args) : args[k] = texts[k + 1]
      <3>1. at \in {1, 2} /\ (at = 2 <=> args[1].kind = "ddash")
        <4>1. at = IF args[1].kind = "ddash" THEN 2 ELSE 1
          BY DEF VerbAt
        <4> HIDE DEF at, args
        <4>2. QED
          BY <4>1
      <3>2. AllText(args) /\ \A k \in 1..Len(args) : args[k] = texts[k + 1]
        BY CommandArgs
      <3>3. QED
        BY <3>1, <3>2 DEF AllText, IsArgs
    <2> HIDE DEF at, args
    <2>5. c[2] = args[1]
      <3>1. 2 \in 1..(at + 1) /\ 1 \in 1..Len(args)
        BY <2>3, <2>4
      <3>2. c[2] = texts[2] /\ args[1] = texts[1 + 1]
        BY <1>4, <2>4, <3>1 DEF at, args
      <3>3. QED
        BY <3>2
    <2>6. c[at + 1] = args[at]
      <3>1. at + 1 \in 1..(at + 1) /\ at \in 1..Len(args)
        BY <2>3, <2>4
      <3>2. c[at + 1] = texts[at + 1]
        BY <1>4, <3>1 DEF at, args
      <3>3. QED
        BY <2>4, <3>1, <3>2
    <2>7. v = at + 1
      BY <2>4, <2>5
    <2>8. ~Says(c[v], {"exec"})
      BY <2>3, <2>6, <2>7 DEF Says
    <2>9. Inner(c) = <<>> /\ ~StartsExec(c)
      BY <2>8 DEF Inner, StartsExec
    <2>10. QED
      BY <1>2, <2>9 DEF UnderLimit
  <1>5. QED
    BY <1>3, <1>4

\* Nor does bash make one of it.
LEMMA HostStays ==
  ASSUME NEW words, WellTyped(words), words # <<>>, Validate(Texts(words)).ok,
         GlobsAllowed(words, Validate(Texts(words))), NEW run, NEW p, Bashed(words, run, p)
  PROVE  /\ Command(TextSet, Texts(words))
         /\ Inner(run) = <<>> /\ ~UnderLimit(run)
         /\ Inner(Texts(words)) = <<>> /\ ~UnderLimit(Texts(words)) /\ ~StartsExec(Texts(words))
  <1> DEFINE texts == Texts(words)
             n == Len(words)
             verdict == Validate(texts)
             prog == texts[1].name
             at == VerbAt(Tail(texts))
  <1>1. /\ texts \in Seq(TextSet) /\ Len(texts) = n /\ n \in Nat
        /\ \A k \in 1..n : texts[k] = words[k].text
        /\ DOMAIN words = 1..n
    BY TextsAre
  <1>2. n # 0 /\ texts # <<>>
    <2>1. PICK S : words \in Seq(S)
      BY DEF WellTyped
    <2>2. n # 0
      BY <2>1, EmptySeq
    <2> HIDE DEF texts, n
    <2>3. QED
      BY <1>1, <2>2, EmptySeq
  <1> HIDE DEF texts
  <1>3. Command(TextSet, texts)
    BY <1>1, <1>2, TextSetIs DEF Command
  <1>4. verdict.ok /\ GlobsAllowed(words, verdict)
    BY DEF texts
  <1> HIDE DEF n, verdict
  <1>5. PICK O, V : verdict.operands = Behind(O) /\ Understood(prog, Tail(texts), O, V)
    BY <1>3, <1>4, Validated DEF verdict
  <1>6. Len(Tail(texts)) = n - 1 /\ O \subseteq 1..(n - 1)
    BY <1>1, <1>3, <1>5, CommandArgs DEF Understood
  <1>7. ASSUME NEW k \in Globs(words) PROVE k \in verdict.operands /\ ~(k <= 1)
    <2>1. k \in 1..n /\ words[k].shape = "glob"
      BY DEF Globs, n
    <2>2. k \in verdict.operands
      BY <1>1, <1>4, <2>1 DEF GlobsAllowed
    <2>3. PICK o \in O : k = o + 1
      BY <1>5, <2>2 DEF Behind
    <2>4. QED
      BY <1>1, <1>6, <2>2, <2>3
  <1>8. prog = "pct" => /\ at \in {1, 2} /\ at + 1 <= n
                        /\ \A k \in verdict.operands : k \in Nat /\ at + 1 < k
    <2>1. SUFFICES ASSUME prog = "pct"
                   PROVE  /\ at \in {1, 2} /\ at + 1 <= n
                          /\ \A k \in verdict.operands : k \in Nat /\ at + 1 < k
      OBVIOUS
    <2>2. verdict = BySubcommand("pct", texts)
      <3>1. Validate(texts) # No
        BY <1>4 DEF No, verdict
      <3>2. "pct" \in DOMAIN SUBS
        BY DEF SUBS
      <3>3. QED
        BY <2>1, <3>1, <3>2, ValidateIs DEF verdict
    <2>3. BySubcommand("pct", texts) # No
      BY <1>4, <2>2 DEF No
    <2>4. at <= Len(Tail(texts)) /\ \A k \in verdict.operands : k \in Nat /\ at + 1 < k
      BY <1>3, <1>4, <2>2, <2>3, PctVerb
    <2>5. at \in {1, 2}
      BY DEF VerbAt
    <2> HIDE DEF at
    <2>6. QED
      BY <1>1, <1>6, <2>4, <2>5
  <1> HIDE DEF at, prog
  <1> DEFINE c == IF prog = "pct" THEN at + 1 ELSE 1
  <1>9. c \in Nat /\ c <= n /\ (\A k \in Globs(words) : ~(k <= c)) /\ 1 <= c
    <2>1. CASE prog = "pct"
      BY <1>7, <1>8, <2>1
    <2>2. CASE prog # "pct"
      BY <1>1, <1>2, <1>7, <2>2
    <2>3. QED
      BY <2>1, <2>2
  <1>10. \A k \in 1..c : run[k] = texts[k]
    <2> HIDE DEF c
    <2>1. \A k \in 1..c : run[k] = words[k].text
      BY <1>9, BashedTail DEF n
    <2>2. \A k \in 1..c : k \in 1..n
      BY <1>1, <1>9
    <2>3. QED
      BY <1>1, <2>1, <2>2
  <1>11. run[1] = texts[1]
    <2>1. 1 \in 1..c
      BY <1>9
    <2>2. QED
      BY <1>10, <2>1
  <1>12. prog = "pct" => \A k \in 1..(at + 1) : run[k] = texts[k]
    BY <1>10
  <1>13. Inner(run) = <<>> /\ ~UnderLimit(run)
    BY <1>3, <1>4, <1>11, <1>12, NotExec DEF verdict, prog, at
  <1>14. Inner(texts) = <<>> /\ ~UnderLimit(texts) /\ ~StartsExec(texts)
    BY <1>3, <1>4, NotExec DEF verdict
  <1>15. QED
    BY <1>3, <1>13, <1>14 DEF texts

-----------------------------------------------------------------------------
(* pct exec: two commands, of which the one inside the CT is checked too. *)

\* Only pct leaves a command to be checked inside a CT.
LEMMA LeftToPct ==
  ASSUME NEW T, NEW texts, Command(T, texts), Validate(texts).exec # <<>>
  PROVE  LET args == Tail(texts)
             at == VerbAt(args)
         IN /\ texts[1].name = "pct" /\ texts[1].kind = "operand"
            /\ 1 <= Len(args) /\ at <= Len(args) /\ args[at].kind = "operand" /\ args[at].name = "exec"
            /\ Validate(texts).exec = SubSeq(args, at, Len(args))
  <1> DEFINE verdict == Validate(texts)
             prog == texts[1].name
  <1>1. verdict # No
    BY DEF No
  <1>2. /\ texts[1].kind = "operand" /\ prog \in Programs
        /\ prog = "ip" => verdict = Yes({})
        /\ prog \in DOMAIN SPEC => verdict = ByProgram(prog, texts)
        /\ prog \in DOMAIN SUBS => verdict = BySubcommand(prog, texts)
    BY <1>1, ValidateIs
  <1>3. prog # "ip"
    BY <1>2 DEF Yes
  <1>4. prog \notin DOMAIN SPEC
    <2>1. \A ops, rule : Ruled(texts, ops, rule).exec = <<>>
      BY DEF Ruled, Yes, No
    <2>2. ByProgram(prog, texts).exec = <<>>
      BY <2>1 DEF ByProgram, No
    <2>3. QED
      BY <1>2, <2>2
  <1>5. prog \in DOMAIN SUBS /\ verdict = BySubcommand(prog, texts)
    BY <1>2, <1>3, <1>4 DEF Programs
  <1>6. prog = "pct" /\ ~verdict.ok
    <2>1. BySubcommand(prog, texts) # No
      BY <1>1, <1>5
    <2>2. \A ops, rule : Ruled(texts, ops, rule).exec = <<>>
      BY DEF Ruled, Yes, No
    <2> DEFINE args == Tail(texts)
               at == FirstWalk(prog, args).at
               sub == SubOf(prog, args)
    <2>3. /\ prog = "pct" /\ sub = "exec" => BySubcommand(prog, texts) = Exec(SubSeq(args, at, Len(args)))
          /\ ~(prog = "pct" /\ sub = "exec") =>
               BySubcommand(prog, texts) = Ruled(texts, RestWalk(prog, args).operands, OPERANDS(prog, sub))
      <3> HIDE DEF verdict, prog
      <3>1. QED
        BY <1>5, <2>1, SubVerdict
    <2> HIDE DEF args, at, sub, prog
    <2>4. prog = "pct" /\ sub = "exec"
      BY <1>5, <2>2, <2>3
    <2>5. verdict = Exec(SubSeq(args, at, Len(args)))
      BY <1>5, <2>3, <2>4
    <2>6. QED
      BY <2>4, <2>5 DEF Exec
  <1>7. BySubcommand("pct", texts) = verdict
    BY <1>5, <1>6
  <1> DEFINE args == Tail(texts)
             at == VerbAt(args)
  <1>8. /\ 1 <= Len(args) /\ at <= Len(args) /\ args[at].kind = "operand"
        /\ ~BySubcommand("pct", texts).ok =>
             args[at].name = "exec" /\ BySubcommand("pct", texts) = Exec(SubSeq(args, at, Len(args)))
    <2>1. BySubcommand("pct", texts) # No
      BY <1>1, <1>7
    <2>2. QED
      BY <2>1, PctVerb
  <1> HIDE DEF verdict, args, at
  <1>9. args[at].name = "exec" /\ verdict.exec = SubSeq(args, at, Len(args))
    BY <1>6, <1>7, <1>8 DEF Exec
  <1>10. QED
    BY <1>2, <1>6, <1>8, <1>9 DEF verdict, args, at

\* The words `pct`, `exec`, N and -- are no command that does harm.
LEMMA OuterIsHarmless ==
  ASSUME NEW c, c \in Seq(TextSet), NEW at \in {1, 2}, Len(c) = at + 3, c[1].name = "pct",
         at = 2 => c[2].kind = "ddash", at = 1 => c[2].kind = "operand",
         c[at + 1].kind = "operand", c[at + 1].name = "exec",
         c[at + 2].kind = "operand", c[at + 3].kind = "ddash"
  PROVE  ~Harms(c)
  <1> DEFINE args == Tail(c)
             n == Len(args)
             V == Visited(ReadsNext("pct", args), 1)
             ops == OperandsIn("pct", args, V)
  <1>1. n = at + 2 /\ args \in Seq(TextSet) /\ \A k \in 1..n : args[k] = c[k + 1]
    <2>1. Len(c) # 0
      OBVIOUS
    <2>2. c # <<>>
      BY <2>1, EmptySeq
    <2>3. /\ Len(args) = Len(c) - 1 /\ args \in Seq(TextSet)
          /\ \A k \in 1..Len(args) : args[k] = c[k + 1]
      BY <2>2, HeadTailProperties
    <2> HIDE DEF args
    <2>4. QED
      BY <2>3
  <1>2. IsArgs(args) /\ n \in Nat
    BY <1>1, LenProperties DEF IsArgs
  <1> HIDE DEF args
  <1>3. \A k \in 1..n : ~IsOption(args[k])
    <2>1. \A k \in 1..n : k \in {1, 2, 3, 4} /\ args[k] = c[k + 1] /\ k <= at + 2
      BY <1>1
    <2>2. CASE at = 1
      <3>1. \A k \in 1..n : k \in {1, 2, 3}
        BY <2>1, <2>2
      <3>2. c[1 + 1].kind \in {"operand", "ddash"} /\ c[2 + 1].kind = "operand" /\ c[3 + 1].kind = "ddash"
        BY <2>2
      <3>3. QED
        BY <2>1, <3>1, <3>2 DEF IsOption
    <2>3. CASE at = 2
      <3>1. c[1 + 1].kind = "ddash" /\ c[2 + 1].kind = "operand" /\ c[3 + 1].kind = "operand" /\ c[4 + 1].kind = "ddash"
        BY <2>3
      <3>2. QED
        BY <2>1, <3>1 DEF IsOption
    <2>4. QED
      BY <2>2, <2>3
  <1>4. args[1].kind = "ddash" \/ args[1].name = "exec"
    <2>1. 1 \in 1..n /\ args[1] = c[1 + 1]
      BY <1>1
    <2>2. QED
      BY <2>1
  <1>5. Walked(ReadsNext("pct", args), n, 1, V) /\ V \subseteq 1..n /\ 1 \in V
    <2>1. 1 \in Nat \ {0} /\ 1 <= n
      BY <1>1
    <2>2. Walked(ReadsNext("pct", args), n, 1, V)
      BY <1>2, <2>1, ReadsHop, VisitedIs
    <2> HIDE DEF V
    <2>3. QED
      BY <2>1, <2>2 DEF Walked
  <1> HIDE DEF V
  <1>6. Reading("pct", args).operands = ops /\ Reading("pct", args).used = UsedIn("pct", args, V)
    BY <1>2, <1>5, ReadingIs
  <1>7. UsedIn("pct", args, V) = {}
    <2>1. \A k \in V : ~ReadsOption("pct", args, k)
      BY <1>3, <1>5 DEF ReadsOption
    <2>2. QED
      BY <2>1 DEF UsedIn
  <1>8. Min(ops) = 1
    <2>1. 1 \in ops
      <3>1. ReadsVerb("pct", 1)
        BY DEF ReadsVerb, VerbFirst
      <3>2. QED
        BY <1>5, <3>1 DEF OperandsIn, FreeIn, ReadsOption
    <2>2. ops \subseteq 1..n
      BY <1>5 DEF OperandsIn, FreeIn
    <2> HIDE DEF ops
    <2>3. ops \in SUBSET Nat /\ \A k \in ops : 1 <= k
      BY <1>2, <2>2
    <2>4. QED
      BY <2>1, <2>3, MinIs
  <1> HIDE DEF ops
  <1>9. ~OperandsHarm("pct", args, ops)
    BY DEF OperandsHarm
  <1>10. ~VerbHarms("pct", args, ops)
    BY <1>4, <1>8 DEF VerbHarms, Says, ChangingVerbs
  <1>11. QED
    BY <1>6, <1>7, <1>9, <1>10 DEF Harms, args

\* `pct [--] exec N -- COMMAND`, with exec at the word at behind pct.
ExecShape(c, at) ==
  /\ c \in Seq(TextSet) /\ at \in {1, 2} /\ at + 4 <= Len(c) /\ c[1].name = "pct"
  /\ at = 2 => c[2].kind = "ddash"
  /\ c[at + 1].kind = "operand" /\ c[at + 1].name = "exec"
  /\ c[at + 2].kind = "operand" /\ c[at + 3].kind = "ddash"

LEMMA ExecForm ==
  ASSUME NEW texts, Command(TextSet, texts), Validate(texts).exec # <<>>, PctExec(Validate(texts)).ok
  PROVE  LET at == VerbAt(Tail(texts))
         IN /\ ExecShape(texts, at) /\ Validate(After(texts, at + 3)).ok
            /\ PctExec(Validate(texts)).operands = {}
  <1> DEFINE args == Tail(texts)
             at == VerbAt(args)
             n == Len(texts)
             ex == Validate(texts).exec
             inner == After(texts, at + 3)
  <1>1. /\ texts[1].name = "pct" /\ 1 <= Len(args) /\ at <= Len(args)
        /\ args[at].kind = "operand" /\ args[at].name = "exec"
        /\ ex = SubSeq(args, at, Len(args))
    BY LeftToPct
  <1>2. /\ PctForm(ex) /\ InsideCT(SubSeq(ex, 4, Len(ex))) /\ PctExec(Validate(texts)) = Yes({})
    BY DEF PctExec, No
  <1>3. at \in {1, 2} /\ at = IF args[1].kind = "ddash" THEN 2 ELSE 1
    BY DEF VerbAt
  <1>4. /\ texts \in Seq(TextSet) /\ args \in Seq(TextSet) /\ n \in Nat \ {0} /\ Len(args) = n - 1
        /\ \A k \in 1..Len(args) : args[k] = texts[k + 1] /\ args[k] \in TextSet
    <2>1. /\ texts \in Seq(TextSet) /\ args \in Seq(TextSet) /\ n \in Nat \ {0} /\ Len(args) = n - 1
          /\ \A k \in 1..Len(args) : args[k] = texts[k + 1]
      BY CommandArgs DEF Command
    <2> HIDE DEF args
    <2>2. QED
      BY <2>1, ElementOfSeq
  <1> HIDE DEF args, at, n, ex, inner
  <1>5. ex \in Seq(TextSet) /\ Len(ex) = n - at /\ \A i \in 1..(n - at) : ex[i] = texts[at + i]
    <2>1. at \in Int /\ Len(args) \in Int /\ \A i \in at..Len(args) : args[i] \in TextSet
      BY <1>3, <1>4
    <2>2. /\ ex \in Seq(TextSet)
          /\ Len(ex) = IF at <= Len(args) THEN Len(args) - at + 1 ELSE 0
          /\ \A i \in 1..(Len(args) - at + 1) : ex[i] = args[at + i - 1]
      BY <1>1, <2>1, SubSeqProperties
    <2>3. Len(args) - at + 1 = n - at
      BY <1>3, <1>4
    <2>4. ASSUME NEW i \in 1..(n - at) PROVE ex[i] = texts[at + i]
      <3>1. at + i - 1 \in 1..Len(args) /\ (at + i - 1) + 1 = at + i
        BY <1>3, <1>4
      <3>2. ex[i] = args[at + i - 1]
        BY <2>2, <2>3
      <3>3. args[at + i - 1] = texts[(at + i - 1) + 1]
        BY <1>4, <3>1
      <3>4. QED
        BY <3>1, <3>2, <3>3
    <2>5. QED
      BY <1>1, <2>2, <2>3, <2>4
  <1>6. Len(ex) >= 4 /\ ex[2].kind = "operand" /\ ex[3].kind = "ddash"
    BY <1>2 DEF PctForm
  <1>7. at + 4 <= n /\ 1 \in 1..(n - at) /\ 2 \in 1..(n - at) /\ 3 \in 1..(n - at)
    BY <1>3, <1>4, <1>5, <1>6
  <1>8. /\ texts[at + 1].kind = "operand" /\ texts[at + 1].name = "exec"
        /\ texts[at + 2].kind = "operand" /\ texts[at + 3].kind = "ddash"
    <2>1. at \in 1..Len(args)
      BY <1>1, <1>3, <1>4
    <2>2. args[at] = texts[at + 1]
      BY <1>4, <2>1
    <2>3. QED
      BY <1>1, <1>5, <1>6, <1>7, <2>2
  <1>9. at = 2 => texts[2].kind = "ddash"
    <2>1. 1 \in 1..Len(args)
      BY <1>1, <1>4
    <2>2. args[1] = texts[1 + 1]
      BY <1>4, <2>1
    <2>3. QED
      BY <1>3, <2>2
  <1>10. ExecShape(texts, at)
    BY <1>1, <1>3, <1>4, <1>7, <1>8, <1>9 DEF ExecShape, n
  <1>11. SubSeq(ex, 4, Len(ex)) = inner
    <2>1. at + 3 \in Nat /\ at + 3 <= n
      BY <1>3, <1>4, <1>7
    <2>2. /\ inner \in Seq(TextSet) /\ Len(inner) = n - (at + 3)
          /\ \A k \in 1..(n - (at + 3)) : inner[k] = texts[k + (at + 3)]
      BY <1>4, <2>1, AfterIs DEF inner, n
    <2>3. /\ After(ex, 3) \in Seq(TextSet) /\ Len(After(ex, 3)) = (n - at) - 3
          /\ \A k \in 1..((n - at) - 3) : After(ex, 3)[k] = ex[k + 3]
      <3>1. 3 \in Nat /\ 3 <= Len(ex)
        BY <1>5, <1>6, <1>3, <1>4
      <3>2. QED
        BY <1>5, <3>1, AfterIs
    <2>4. SubSeq(ex, 4, Len(ex)) = After(ex, 3)
      BY DEF After
    <2>5. (n - at) - 3 = n - (at + 3)
      BY <1>3, <1>4
    <2>6. ASSUME NEW k \in 1..(n - (at + 3)) PROVE After(ex, 3)[k] = inner[k]
      <3>1. k + 3 \in 1..(n - at) /\ at + (k + 3) = k + (at + 3)
        BY <1>3, <1>4
      <3>2. ex[k + 3] = texts[at + (k + 3)]
        BY <1>5, <3>1
      <3>3. QED
        BY <2>2, <2>3, <2>5, <3>1, <3>2
    <2>7. QED
      BY <2>2, <2>3, <2>4, <2>5, <2>6, SeqEqual
  <1>12. Validate(inner).ok
    BY <1>2, <1>11 DEF InsideCT
  <1>13. PctExec(Validate(texts)).operands = {}
    BY <1>2 DEF Yes
  <1>14. QED
    BY <1>10, <1>12, <1>13 DEF at, args, inner

\* Inner and OuterOf take it apart at its --.
LEMMA ExecApart ==
  ASSUME NEW c, NEW at, ExecShape(c, at)
  PROVE  /\ Inner(c) = After(c, at + 3) /\ OuterOf(c) = SubSeq(c, 1, at + 3)
         /\ After(c, at + 3) # <<>> /\ ~UnderLimit(c) /\ StartsExec(c)
         /\ c[2].kind = "ddash" <=> at = 2
  <1> DEFINE n == Len(c)
             d == {k \in 3..n : c[k].kind = "ddash"}
             v == IF c[2].kind = "ddash" THEN 3 ELSE 2
  <1>1. /\ c \in Seq(TextSet) /\ at \in {1, 2} /\ at + 4 <= n /\ c[1].name = "pct" /\ n \in Nat
        /\ at = 2 => c[2].kind = "ddash"
        /\ c[at + 1].kind = "operand" /\ c[at + 1].name = "exec"
        /\ c[at + 2].kind = "operand" /\ c[at + 3].kind = "ddash"
    BY LenProperties DEF ExecShape
  <1>2. c[2].kind = "ddash" <=> at = 2
    BY <1>1
  <1>3. v = at + 1 /\ n > v
    BY <1>1, <1>2
  <1> HIDE DEF n
  <1>4. Min(d) = at + 3 /\ d # {}
    <2>1. d \in SUBSET Nat /\ at + 3 \in d
      BY <1>1
    <2>2. ASSUME NEW k \in d PROVE at + 3 <= k
      <3>1. k \in 3..n /\ c[k].kind = "ddash"
        OBVIOUS
      <3>2. k # at + 1 /\ k # at + 2
        BY <1>1, <3>1
      <3>3. QED
        BY <1>1, <3>1, <3>2
    <2> HIDE DEF d
    <2>3. QED
      BY <2>1, <2>2, MinIs
  <1>5. Says(c[v], {"exec"})
    BY <1>1, <1>3 DEF Says
  <1>6. Inner(c) = SubSeq(c, (at + 3) + 1, n)
    <2>1. Inner(c) = IF c[1].name = "pct" /\ n > v /\ Says(c[v], {"exec"}) /\ d # {}
                     THEN SubSeq(c, Min(d) + 1, n) ELSE <<>>
      BY DEF Inner, n
    <2> HIDE DEF d, v
    <2>2. QED
      BY <1>1, <1>3, <1>4, <1>5, <2>1
  <1>7. Inner(c) = After(c, at + 3)
    BY <1>6 DEF After, n
  <1>8. Len(After(c, at + 3)) = n - (at + 3) /\ After(c, at + 3) \in Seq(TextSet)
    <2>1. at + 3 \in Nat /\ at + 3 <= n
      BY <1>1
    <2>2. QED
      BY <1>1, <2>1, AfterIs DEF n
  <1>9. After(c, at + 3) # <<>>
    <2>1. n - (at + 3) # 0
      BY <1>1
    <2>2. QED
      BY <1>8, <2>1, EmptySeq
  <1>10. OuterOf(c) = SubSeq(c, 1, at + 3)
    <2>1. n - (n - (at + 3)) = at + 3
      BY <1>1
    <2>2. OuterOf(c) = SubSeq(c, 1, n - Len(Inner(c)))
      BY <1>7, <1>9 DEF OuterOf, n
    <2>3. QED
      BY <1>7, <1>8, <2>1, <2>2
  <1>11. StartsExec(c)
    BY <1>1, <1>5 DEF StartsExec
  <1>12. QED
    BY <1>1, <1>2, <1>7, <1>9, <1>10, <1>11 DEF UnderLimit

\* The words of `timeout -k KILL_AFTER <timeout>`.
LEMMA LimitWords ==
  /\ WellTyped(Limit) /\ Len(Limit) = 4
  /\ \A k \in 1..4 : Limit[k].shape = "plain"
  /\ Limit[1].text.name = "timeout"
  <1> DEFINE Op(n, f) == [kind |-> "operand", name |-> n, letters |-> <<>>, val |-> NoText,
                          form |-> f, dir |-> NoText, star |-> FALSE]
             Opt == [kind |-> "short", name |-> NoText, letters |-> <<"k">>, val |-> NoText,
                     form |-> "odd", dir |-> NoText, star |-> FALSE]
  <1>1. /\ NoText \in STRING /\ "k" # NoText
        /\ "timeout" \in STRING /\ "k" \in STRING /\ "5" \in STRING /\ "30" \in STRING
    BY LiteralsAssumption, Zenon DEF NoText
  <1>2. \A t : IsText(t) <=>
          /\ t \in [kind : Kinds, name : STRING, letters : Seq(STRING), val : STRING,
                    form : Forms, dir : {NoText, "bin", "other"}, star : BOOLEAN]
          /\ \/ t.kind = "operand" \/ t.form = "odd"
             \/ t.kind = "short" /\ t.letters = <<"5">> /\ t.form = "number"
          /\ (t.kind = "short") = (t.letters # <<>>)
          /\ \A k \in DOMAIN t.letters : t.letters[k] # NoText
          /\ t.kind \in {"dash", "ddash"} => ~t.star
          /\ t.star => t.form \in {"name", "plusOther", "odd"}
    BY Zenon DEF IsText, NoText
  <1>3. Operand("5", "number") = Op("5", "number") /\ Operand("30", "number") = Op("30", "number")
        /\ Name("timeout") = Op("timeout", "name")
    BY Zenon DEF Operand, Name, Text, NoText
  <1>4. Short(<<"k">>) = Opt
    BY Zenon DEF Short, Text, NoText
  <1>5. \A t : Plain(t) = [text |-> t, shape |-> "plain"]
    BY Zenon DEF Plain, Typed
  <1>6. ASSUME NEW n \in STRING, NEW f \in Forms
        PROVE  IsText(Op(n, f))
    <2>1. Op(n, f) \in [kind : Kinds, name : STRING, letters : Seq(STRING), val : STRING,
                        form : Forms, dir : {NoText, "bin", "other"}, star : BOOLEAN]
      BY <1>1 DEF Kinds
    <2>2. /\ Op(n, f).kind = "operand" /\ Op(n, f).letters = <<>> /\ ~Op(n, f).star
      BY Zenon
    <2>3. DOMAIN Op(n, f).letters = {}
      BY <2>2
    <2> HIDE DEF Op
    <2>4. QED
      BY <1>2, <2>1, <2>2, <2>3
  <1>7. IsText(Opt)
    <2>1. Opt \in [kind : Kinds, name : STRING, letters : Seq(STRING), val : STRING,
                   form : Forms, dir : {NoText, "bin", "other"}, star : BOOLEAN]
      BY <1>1 DEF Kinds, Forms
    <2>2. /\ Opt.kind = "short" /\ Opt.letters = <<"k">> /\ ~Opt.star /\ Opt.form = "odd"
      BY Zenon
    <2>3. DOMAIN Opt.letters = {1} /\ Opt.letters[1] = "k" /\ Opt.letters # <<>>
      BY <2>2
    <2> HIDE DEF Opt
    <2>4. QED
      BY <1>1, <1>2, <2>1, <2>2, <2>3
  <1>8. Limit = <<[text |-> Op("timeout", "name"), shape |-> "plain"], [text |-> Opt, shape |-> "plain"],
                  [text |-> Op("5", "number"), shape |-> "plain"], [text |-> Op("30", "number"), shape |-> "plain"]>>
    BY <1>3, <1>4, <1>5 DEF Limit
  <1>9. \A t : IsText(t) => IsWord([text |-> t, shape |-> "plain"])
    BY DEF IsWord, Shapes
  <1>10. /\ IsText(Op("timeout", "name")) /\ IsText(Op("5", "number")) /\ IsText(Op("30", "number"))
         /\ Op("timeout", "name").name = "timeout"
    <2>1. "name" \in Forms /\ "number" \in Forms
      BY DEF Forms
    <2>2. Op("timeout", "name").name = "timeout"
      BY Zenon
    <2> HIDE DEF Op
    <2>3. QED
      BY <1>1, <1>6, <2>1, <2>2
  <1> HIDE DEF Op, Opt
  <1> DEFINE a == [text |-> Op("timeout", "name"), shape |-> "plain"]
             b == [text |-> Opt, shape |-> "plain"]
             c == [text |-> Op("5", "number"), shape |-> "plain"]
             d == [text |-> Op("30", "number"), shape |-> "plain"]
  <1>11. /\ IsWord(a) /\ IsWord(b) /\ IsWord(c) /\ IsWord(d)
         /\ a.shape = "plain" /\ b.shape = "plain" /\ c.shape = "plain" /\ d.shape = "plain"
         /\ a.text.name = "timeout" /\ Limit = <<a, b, c, d>>
    BY <1>7, <1>8, <1>9, <1>10
  <1> HIDE DEF a, b, c, d
  <1>12. Limit \in Seq({a, b, c, d}) /\ Len(Limit) = 4 /\ DOMAIN Limit = 1..4
         /\ Limit[1] = a /\ Limit[2] = b /\ Limit[3] = c /\ Limit[4] = d
    BY <1>11
  <1>13. \A k \in 1..4 : Limit[k] \in {a, b, c, d}
    BY <1>12
  <1>14. QED
    BY <1>11, <1>12, <1>13 DEF WellTyped

LEMMA Wider ==
  ASSUME NEW A, NEW B, A \subseteq B, NEW s \in Seq(A)
  PROVE  s \in Seq(B)
  <1>1. s \in [1..Len(s) -> A] /\ Len(s) \in Nat
    BY LenProperties
  <1>2. s \in [1..Len(s) -> B]
    BY <1>1
  <1>3. QED
    BY <1>1, <1>2, SeqDef

LEMMA JoinIs ==
  ASSUME NEW a, NEW b, WellTyped(a), WellTyped(b)
  PROVE  /\ WellTyped(a \o b) /\ Len(a \o b) = Len(a) + Len(b) /\ Len(a) \in Nat /\ Len(b) \in Nat
         /\ \A k \in 1..(Len(a) + Len(b)) : (a \o b)[k] = IF k <= Len(a) THEN a[k] ELSE b[k - Len(a)]
  <1>1. PICK S : a \in Seq(S)
    BY DEF WellTyped
  <1>2. PICK T : b \in Seq(T)
    BY DEF WellTyped
  <1> DEFINE U == S \cup T
             m == Len(a)
             n == Len(b)
  <1>3. a \in Seq(U) /\ b \in Seq(U)
    <2>1. S \subseteq U /\ T \subseteq U
      OBVIOUS
    <2> HIDE DEF U
    <2>2. QED
      BY <1>1, <1>2, <2>1, Wider
  <1>4. /\ m \in Nat /\ DOMAIN a = 1..m /\ \A k \in 1..m : IsWord(a[k])
        /\ n \in Nat /\ DOMAIN b = 1..n /\ \A k \in 1..n : IsWord(b[k])
    BY <1>3, LenProperties DEF WellTyped
  <1> HIDE DEF U, m, n
  <1>5. /\ a \o b \in Seq(U) /\ Len(a \o b) = m + n
        /\ \A k \in 1..(m + n) : (a \o b)[k] = IF k <= m THEN a[k] ELSE b[k - m]
    BY <1>3, ConcatProperties DEF m, n
  <1>6. DOMAIN (a \o b) = 1..(m + n)
    BY <1>5, LenProperties
  <1>7. ASSUME NEW k \in 1..(m + n) PROVE IsWord((a \o b)[k])
    <2>1. CASE k <= m
      <3>1. k \in 1..m
        BY <1>4, <2>1
      <3>2. (a \o b)[k] = a[k]
        BY <1>5, <2>1
      <3>3. QED
        BY <1>4, <3>1, <3>2
    <2>2. CASE ~(k <= m)
      <3>1. k - m \in 1..n
        BY <1>4, <2>2
      <3>2. (a \o b)[k] = b[k - m]
        BY <1>5, <2>2
      <3>3. QED
        BY <1>4, <3>1, <3>2
    <2>3. QED
      BY <2>1, <2>2
  <1>8. WellTyped(a \o b)
    <2>1. \A k \in DOMAIN (a \o b) : IsWord((a \o b)[k])
      BY <1>6, <1>7
    <2>2. QED
      BY <1>5, <2>1 DEF WellTyped
  <1>9. QED
    BY <1>4, <1>5, <1>8 DEF m, n

\* Where nothing is a glob, bash changes no word.
LEMMA PlainRun ==
  ASSUME NEW words, WellTyped(words), NEW run, NEW p, Bashed(words, run, p), Globs(words) = {}
  PROVE  run = Texts(words)
  <1>1. Expanded(Texts(words), run, p, Globs(words))
    BY BashedExpands
  <1>2. Expanded(Texts(words), run, p, {})
    BY <1>1
  <1>3. Len(run) = Len(Texts(words)) /\ \A k \in 1..Len(Texts(words)) : run[k] = Texts(words)[k]
    BY <1>2, NoGlobs
  <1>4. run \in Seq(TextSet) /\ Texts(words) \in Seq(TextSet)
    BY TextsAre DEF Bashed
  <1>5. QED
    BY <1>3, <1>4, SeqEqual

LEMMA CutTyped ==
  ASSUME NEW words, WellTyped(words), NEW c \in Nat, c <= Len(words)
  PROVE  LET cut == SubSeq(words, 1, c)
         IN WellTyped(cut) /\ Len(cut) = c /\ \A k \in 1..c : cut[k] = words[k]
  <1> DEFINE cut == SubSeq(words, 1, c)
             n == Len(words)
  <1>1. PICK S : words \in Seq(S)
    BY DEF WellTyped
  <1>2. /\ n \in Nat /\ DOMAIN words = 1..n /\ \A k \in 1..n : words[k] \in S /\ IsWord(words[k])
    BY <1>1, LenProperties, ElementOfSeq DEF WellTyped
  <1> HIDE DEF n
  <1>3. 1 \in Int /\ c \in Int /\ \A k \in 1..c : words[k] \in S
    BY <1>2 DEF n
  <1>4. /\ cut \in Seq(S) /\ Len(cut) = (IF 1 <= c THEN c - 1 + 1 ELSE 0)
        /\ \A k \in 1..(c - 1 + 1) : cut[k] = words[1 + k - 1]
    BY <1>1, <1>3, SubSeqProperties
  <1> HIDE DEF cut
  <1>5. Len(cut) = c /\ \A k \in 1..c : cut[k] = words[k]
    <2>1. c - 1 + 1 = c /\ \A k \in 1..c : 1 + k - 1 = k
      OBVIOUS
    <2>2. QED
      BY <1>4, <2>1
  <1>6. DOMAIN cut = 1..c /\ \A k \in 1..c : k \in 1..n
    BY <1>2, <1>4, <1>5, LenProperties DEF n
  <1>7. WellTyped(cut)
    BY <1>2, <1>4, <1>5, <1>6 DEF WellTyped
  <1>8. QED
    BY <1>5, <1>7 DEF cut

LEMMA RestTyped ==
  ASSUME NEW words, WellTyped(words), NEW c \in Nat, c <= Len(words)
  PROVE  /\ WellTyped(After(words, c)) /\ Len(After(words, c)) = Len(words) - c
         /\ \A k \in 1..(Len(words) - c) : After(words, c)[k] = words[k + c]
  <1> DEFINE rest == After(words, c)
             n == Len(words)
  <1>1. PICK S : words \in Seq(S)
    BY DEF WellTyped
  <1>2. n \in Nat /\ DOMAIN words = 1..n /\ \A k \in 1..n : IsWord(words[k])
    BY <1>1, LenProperties DEF WellTyped
  <1>3. rest \in Seq(S) /\ Len(rest) = n - c /\ \A k \in 1..(n - c) : rest[k] = words[k + c]
    BY <1>1, AfterIs
  <1> HIDE DEF rest, n
  <1>4. DOMAIN rest = 1..(n - c) /\ \A k \in 1..(n - c) : k + c \in 1..n
    BY <1>2, <1>3, LenProperties
  <1>5. WellTyped(rest)
    BY <1>2, <1>3, <1>4 DEF WellTyped
  <1>6. QED
    BY <1>3, <1>5 DEF rest, n

\* The line runs under the limit, and behind it comes what bash makes of the rest.
LEMMA LimitRuns ==
  ASSUME NEW b, WellTyped(b), Tokenizes(b), NEW dir, IsListing(dir),
         NEW run, run = BashWords(Limit \o b, dir)
  PROVE  UnderLimit(run) /\ \E q : Bashed(b, Bare(run), q)
  <1> DEFINE w == Limit \o b
             n == Len(b)
  <1>1. /\ WellTyped(Limit) /\ Len(Limit) = 4 /\ (\A k \in 1..4 : Limit[k].shape = "plain")
        /\ Limit[1].text.name = "timeout"
    BY LimitWords
  <1>2. /\ WellTyped(w) /\ Len(w) = 4 + n /\ n \in Nat
        /\ \A k \in 1..(4 + n) : w[k] = IF k <= 4 THEN Limit[k] ELSE b[k - 4]
    <2>1. /\ WellTyped(w) /\ Len(w) = Len(Limit) + n /\ Len(Limit) \in Nat /\ n \in Nat
          /\ \A k \in 1..(Len(Limit) + n) : w[k] = IF k <= Len(Limit) THEN Limit[k] ELSE b[k - Len(Limit)]
      BY <1>1, JoinIs
    <2> HIDE DEF w
    <2>2. QED
      BY <1>1, <2>1
  <1> HIDE DEF w
  <1>3. DOMAIN w = 1..(4 + n) /\ DOMAIN b = 1..n
    <2>1. (\E S : w \in Seq(S)) /\ (\E S : b \in Seq(S))
      BY <1>2 DEF WellTyped
    <2>2. QED
      BY <1>2, <2>1, LenProperties
  <1>4. \A k \in 1..4 : k \in 1..(4 + n) /\ w[k] = Limit[k]
    BY <1>2
  <1>5. \A k \in 1..n : k + 4 \in 1..(4 + n) /\ w[k + 4] = b[k]
    <2> SUFFICES ASSUME NEW k \in 1..n PROVE k + 4 \in 1..(4 + n) /\ w[k + 4] = b[k]
      OBVIOUS
    <2>1. k + 4 \in 1..(4 + n) /\ ~(k + 4 <= 4) /\ (k + 4) - 4 = k
      BY <1>2
    <2>2. QED
      BY <1>2, <2>1
  <1>6. Tokenizes(w)
    <2> SUFFICES ASSUME NEW k \in 1..(4 + n) PROVE w[k].shape \in {"plain", "glob"}
      BY <1>3 DEF Tokenizes
    <2>1. CASE k <= 4
      <3>1. k \in 1..4
        BY <2>1
      <3>2. QED
        BY <1>1, <1>4, <3>1
    <2>2. CASE ~(k <= 4)
      <3>1. k - 4 \in 1..n /\ w[k] = b[k - 4]
        BY <1>2, <2>2
      <3>2. QED
        BY <1>3, <3>1 DEF Tokenizes
    <2>3. QED
      BY <2>1, <2>2
  <1>7. run = BashWords(w, dir)
    BY DEF w
  <1>8. \E p : Bashed(w, run, p)
    BY <1>2, <1>6, <1>7, BashSpreads
  <1>9. PICK p : Bashed(w, run, p)
    BY <1>8
  <1>10. 4 <= Len(w) /\ \A k \in Globs(w) : ~(k <= 4)
    <2> SUFFICES ASSUME NEW k \in Globs(w) PROVE ~(k <= 4)
      BY <1>2
    <2>1. k \in 1..(4 + n) /\ w[k].shape = "glob"
      BY <1>2 DEF Globs
    <2>2. CASE k <= 4
      <3>1. k \in 1..4
        BY <2>1, <2>2
      <3>2. QED
        BY <1>1, <1>4, <2>1, <3>1
    <2>3. QED
      BY <2>2
  <1>11. /\ 4 <= Len(run) /\ \A k \in 1..4 : run[k] = w[k].text
         /\ \E q : Bashed(After(w, 4), After(run, 4), q)
    BY <1>2, <1>9, <1>10, BashedTail
  <1>12. After(w, 4) = b
    <2>1. PICK S : w \in Seq(S)
      BY <1>2 DEF WellTyped
    <2>2. After(w, 4) \in Seq(S) /\ Len(After(w, 4)) = n /\ \A k \in 1..n : After(w, 4)[k] = w[k + 4]
      <3>1. 4 \in Nat /\ Len(w) - 4 = n
        BY <1>2
      <3>2. /\ After(w, 4) \in Seq(S) /\ Len(After(w, 4)) = Len(w) - 4
            /\ \A k \in 1..(Len(w) - 4) : After(w, 4)[k] = w[k + 4]
        BY <1>10, <2>1, <3>1, AfterIs
      <3>3. QED
        BY <3>1, <3>2
    <2>3. \A k \in 1..n : After(w, 4)[k] = b[k]
      BY <1>5, <2>2
    <2>4. PICK T : b \in Seq(T)
      BY DEF WellTyped
    <2> DEFINE U == S \cup T
    <2>5. After(w, 4) \in Seq(U) /\ b \in Seq(U)
      <3>1. S \subseteq U /\ T \subseteq U
        OBVIOUS
      <3> HIDE DEF U
      <3>2. QED
        BY <2>2, <2>4, <3>1, Wider
    <2> HIDE DEF U
    <2>6. QED
      BY <2>2, <2>3, <2>5, SeqEqual
  <1>13. run # <<>> /\ run[1].name = "timeout"
    <2>1. run # <<>>
      BY <1>11
    <2>2. 1 \in 1..4 /\ w[1] = Limit[1]
      BY <1>4
    <2>3. QED
      BY <1>1, <1>11, <2>1, <2>2
  <1>14. UnderLimit(run) /\ Bare(run) = After(run, 4)
    <2>1. UnderLimit(run)
      BY <1>13 DEF UnderLimit
    <2>2. Bare(run) = SubSeq(run, 5, Len(run))
      BY <2>1 DEF Bare
    <2>3. After(run, 4) = SubSeq(run, 5, Len(run))
      BY DEF After
    <2>4. QED
      BY <2>1, <2>2, <2>3
  <1>15. QED
    BY <1>11, <1>12, <1>14

\* Nothing the line runs does harm, it is what was typed, and inside a CT it is under
\* a limit of its own.
Permitted(words, run) ==
  /\ \A c \in Ran(run) : ~Harms(c)
  /\ {Meaning(c) : c \in Ran(run)} = {Meaning(c) : c \in Ran(Texts(words))}
  /\ Bare(Inner(Bare(run))) = Inner(Texts(words))
  /\ Inner(Bare(run)) # <<>> => UnderLimit(Inner(Bare(run)))

LEMMA RanIs ==
  ASSUME NEW c, ~UnderLimit(c)
  PROVE  /\ Bare(c) = c
         /\ Inner(c) = <<>> => Ran(c) = {c}
         /\ Inner(c) # <<>> => Ran(c) = {OuterOf(c), Bare(Inner(c))}
         /\ \A run : Bare(run) = c => Ran(run) = Ran(c)
  <1>1. Bare(c) = c
    BY DEF Bare
  <1>2. Ran(c) = {OuterOf(c)} \cup (IF Inner(c) = <<>> THEN {} ELSE {Bare(Inner(c))})
    BY <1>1, Zenon DEF Ran
  <1>3. \A run : Bare(run) = c =>
          Ran(run) = {OuterOf(c)} \cup (IF Inner(c) = <<>> THEN {} ELSE {Bare(Inner(c))})
    BY Zenon DEF Ran
  <1>4. Inner(c) = <<>> => OuterOf(c) = c
    BY DEF OuterOf
  <1>5. QED
    BY <1>1, <1>2, <1>3, <1>4

LEMMA InnerAtIs ==
  ASSUME NEW words
  PROVE  InnerAt(words) = IF StartsExec(Texts(words))
                          THEN (IF Texts(words)[2].kind = "ddash" THEN 3 ELSE 2) + 3 ELSE 0
  BY Zenon DEF InnerAt, StartsExec

LEMMA AllowedIs ==
  ASSUME NEW words, WellTyped(words), Allowed(words)
  PROVE  /\ words # <<>> /\ Tokenizes(words) /\ Command(TextSet, Texts(words))
         /\ PctExec(Validate(Texts(words))).ok
         /\ GlobsAllowed(words, PctExec(Validate(Texts(words))))
  <1>1. /\ words # <<>> /\ Tokenizes(words) /\ PctExec(Validate(Texts(words))).ok
        /\ GlobsAllowed(words, PctExec(Validate(Texts(words))))
    BY Zenon DEF Allowed, Accepted, OnHost
  <1>2. Texts(words) \in Seq(TextSet) /\ Len(Texts(words)) = Len(words) /\ Len(words) \in Nat
    BY TextsAre
  <1>3. Len(words) # 0
    <2>1. PICK S : words \in Seq(S)
      BY DEF WellTyped
    <2>2. QED
      BY <1>1, <2>1, EmptySeq
  <1>4. Texts(words) # <<>>
    BY <1>2, <1>3, EmptySeq
  <1>5. QED
    BY <1>1, <1>2, <1>4, TextSetIs DEF Command

\* A command on the host.
LEMMA HostPermitted ==
  ASSUME NEW words, WellTyped(words), Allowed(words), Validate(Texts(words)).exec = <<>>,
         NEW dir, IsListing(dir)
  PROVE  Permitted(words, BashWords(Wrapped(words), dir))
  <1> DEFINE run == BashWords(Wrapped(words), dir)
             host == Bare(run)
             texts == Texts(words)
             v == Validate(texts)
  <1>1. words # <<>> /\ Tokenizes(words) /\ v.ok /\ GlobsAllowed(words, v)
    <2>1. PctExec(v) = v
      BY DEF PctExec
    <2>2. /\ words # <<>> /\ Tokenizes(words) /\ PctExec(v).ok /\ GlobsAllowed(words, PctExec(v))
      BY AllowedIs
    <2> HIDE DEF v
    <2>3. QED
      BY <2>1, <2>2
  <1>2. \A r, p : Bashed(words, r, p) =>
          /\ ~Harms(r) /\ Meaning(r) = Meaning(texts)
          /\ Inner(r) = <<>> /\ ~UnderLimit(r)
          /\ Inner(texts) = <<>> /\ ~UnderLimit(texts) /\ ~StartsExec(texts)
    <2> SUFFICES ASSUME NEW r, NEW p, Bashed(words, r, p)
                 PROVE  /\ ~Harms(r) /\ Meaning(r) = Meaning(texts)
                        /\ Inner(r) = <<>> /\ ~UnderLimit(r)
                        /\ Inner(texts) = <<>> /\ ~UnderLimit(texts) /\ ~StartsExec(texts)
      OBVIOUS
    <2>1. ~Harms(r) /\ Meaning(r) = Meaning(texts)
      BY <1>1, HostRuns
    <2>2. /\ Inner(r) = <<>> /\ ~UnderLimit(r)
          /\ Inner(texts) = <<>> /\ ~UnderLimit(texts) /\ ~StartsExec(texts)
      BY <1>1, HostStays
    <2>3. QED
      BY <2>1, <2>2
  <1>3. ~StartsExec(texts)
    <2>1. \E p : Bashed(words, BashWords(words, dir), p)
      BY <1>1, BashSpreads
    <2>2. QED
      BY <1>2, <2>1
  <1>4. Wrapped(words) = Limit \o words
    <2>1. InnerAt(words) = 0
      BY <1>3, InnerAtIs
    <2>2. QED
      BY <2>1 DEF Wrapped
  <1>5. run = BashWords(Limit \o words, dir)
    BY <1>4
  <1> HIDE DEF run
  <1>6. \E q : Bashed(words, host, q)
    BY <1>1, <1>5, LimitRuns
  <1>7. /\ ~Harms(host) /\ Meaning(host) = Meaning(texts)
        /\ Inner(host) = <<>> /\ ~UnderLimit(host)
        /\ Inner(texts) = <<>> /\ ~UnderLimit(texts)
    BY <1>2, <1>6
  <1>8. Ran(run) = {host} /\ Ran(texts) = {texts}
    BY <1>7, RanIs
  <1>9. Bare(<<>>) = <<>>
    BY DEF Bare, UnderLimit
  <1> HIDE DEF host, texts
  <1>10. {Meaning(c) : c \in Ran(run)} = {Meaning(c) : c \in Ran(texts)}
    BY <1>7, <1>8
  <1>11. /\ \A c \in Ran(run) : ~Harms(c)
         /\ Bare(Inner(host)) = Inner(texts)
    BY <1>7, <1>8, <1>9
  <1>12. QED
    BY <1>7, <1>10, <1>11 DEF Permitted, host, texts, run

\* The words of a `pct exec` with the limit put before the command inside the CT.
Middle(words, c) == SubSeq(words, 1, c) \o Limit \o After(words, c)

LEMMA MiddleIs ==
  ASSUME NEW words, WellTyped(words), NEW c \in Nat, c <= Len(words), \A k \in 1..Len(words) : words[k].shape = "plain"
  PROVE  LET mid == Middle(words, c)
         IN /\ WellTyped(mid) /\ Tokenizes(mid) /\ Globs(mid) = {} /\ Len(mid) = Len(words) + 4
            /\ \A k \in 1..c : mid[k] = words[k]
            /\ \A k \in 1..4 : mid[c + k] = Limit[k]
            /\ \A k \in 1..(Len(words) - c) : mid[c + 4 + k] = words[c + k]
  <1> DEFINE n == Len(words)
             front == SubSeq(words, 1, c)
             back == After(words, c)
             head == front \o Limit
             mid == Middle(words, c)
  <1>1. WellTyped(front) /\ Len(front) = c /\ \A k \in 1..c : front[k] = words[k]
    BY CutTyped
  <1>2. WellTyped(back) /\ Len(back) = n - c /\ \A k \in 1..(n - c) : back[k] = words[k + c]
    BY RestTyped
  <1>3. WellTyped(Limit) /\ Len(Limit) = 4 /\ \A k \in 1..4 : Limit[k].shape = "plain"
    BY LimitWords
  <1>4. n \in Nat
    <2>1. PICK S : words \in Seq(S)
      BY DEF WellTyped
    <2>2. QED
      BY <2>1, LenProperties
  <1>5. mid = head \o back
    BY DEF Middle
  <1> HIDE DEF front, back, n, mid
  <1>6. /\ WellTyped(head) /\ Len(head) = c + 4
        /\ \A k \in 1..(c + 4) : head[k] = IF k <= c THEN front[k] ELSE Limit[k - c]
    <2>1. /\ WellTyped(head) /\ Len(head) = Len(front) + Len(Limit)
          /\ \A k \in 1..(Len(front) + Len(Limit)) : head[k] = IF k <= Len(front) THEN front[k] ELSE Limit[k - Len(front)]
      BY <1>1, <1>3, JoinIs
    <2> HIDE DEF head
    <2>2. QED
      BY <1>1, <1>3, <2>1
  <1> HIDE DEF head
  <1>7. /\ WellTyped(mid) /\ Len(mid) = n + 4
        /\ \A k \in 1..(n + 4) : mid[k] = IF k <= c + 4 THEN head[k] ELSE back[k - (c + 4)]
    <2>1. /\ WellTyped(head \o back) /\ Len(head \o back) = Len(head) + Len(back)
          /\ \A k \in 1..(Len(head) + Len(back)) :
                (head \o back)[k] = IF k <= Len(head) THEN head[k] ELSE back[k - Len(head)]
      BY <1>2, <1>6, JoinIs
    <2>2. Len(head) + Len(back) = n + 4 /\ Len(head) = c + 4
      BY <1>2, <1>4, <1>6
    <2>3. /\ WellTyped(mid) /\ Len(mid) = Len(head) + Len(back)
          /\ \A k \in 1..(Len(head) + Len(back)) : mid[k] = IF k <= Len(head) THEN head[k] ELSE back[k - Len(head)]
      BY <1>5, <2>1
    <2>4. QED
      BY <2>2, <2>3
  <1>8. c <= n
    BY DEF n
  <1>9. ASSUME NEW k \in 1..c PROVE mid[k] = words[k]
    <2>1. k \in 1..(n + 4) /\ k <= c + 4 /\ k \in 1..(c + 4) /\ k <= c
      BY <1>4, <1>8
    <2>2. QED
      BY <1>1, <1>6, <1>7, <2>1
  <1>10. ASSUME NEW k \in 1..4 PROVE mid[c + k] = Limit[k]
    <2>1. c + k \in 1..(n + 4) /\ c + k <= c + 4 /\ c + k \in 1..(c + 4) /\ ~(c + k <= c) /\ (c + k) - c = k
      BY <1>4, <1>8
    <2>2. QED
      BY <1>6, <1>7, <2>1
  <1>11. ASSUME NEW k \in 1..(n - c) PROVE mid[c + 4 + k] = words[c + k]
    <2>1. /\ c + 4 + k \in 1..(n + 4) /\ ~(c + 4 + k <= c + 4) /\ (c + 4 + k) - (c + 4) = k
          /\ k + c = c + k
      BY <1>4, <1>8
    <2>2. mid[c + 4 + k] = back[k]
      BY <1>7, <2>1
    <2>3. QED
      BY <1>2, <2>1, <2>2
  <1>12. ASSUME NEW k \in 1..(n + 4) PROVE mid[k].shape = "plain"
    <2>1. CASE k <= c
      <3>1. k \in 1..c /\ k \in 1..n
        BY <1>4, <1>8, <2>1
      <3>2. QED
        BY <1>9, <3>1 DEF n
    <2>2. CASE ~(k <= c) /\ k <= c + 4
      <3>1. PICK j \in 1..4 : k = c + j
        <4>1. k - c \in 1..4 /\ k = c + (k - c)
          BY <2>2
        <4>2. QED
          BY <4>1
      <3>2. QED
        BY <1>3, <1>10, <3>1
    <2>3. CASE ~(k <= c + 4)
      <3>1. PICK j \in 1..(n - c) : k = c + 4 + j
        <4>1. k - (c + 4) \in 1..(n - c) /\ k = c + 4 + (k - (c + 4))
          BY <1>4, <2>3
        <4>2. QED
          BY <4>1
      <3>2. c + j \in 1..n
        BY <1>4, <1>8
      <3>3. mid[c + 4 + j] = words[c + j]
        BY <1>11
      <3>4. QED
        BY <3>1, <3>2, <3>3 DEF n
    <2>4. QED
      BY <2>1, <2>2, <2>3
  <1>13. DOMAIN mid = 1..(n + 4)
    <2>1. PICK S : mid \in Seq(S)
      BY <1>7 DEF WellTyped
    <2>2. QED
      BY <1>7, <2>1, LenProperties
  <1>14. Tokenizes(mid) /\ Globs(mid) = {}
    BY <1>7, <1>12, <1>13 DEF Tokenizes, Globs
  <1>15. QED
    BY <1>7, <1>9, <1>10, <1>11, <1>14 DEF n, mid

\* The command inside the CT is one that was let through, word for word.
LEMMA InnerRuns ==
  ASSUME NEW words, WellTyped(words), NEW c \in Nat, c < Len(words),
         \A k \in 1..Len(words) : words[k].shape = "plain",
         Validate(After(Texts(words), c)).ok, NEW dir, IsListing(dir)
  PROVE  LET inner == After(Texts(words), c)
         IN /\ inner \in Seq(TextSet) /\ Len(inner) = Len(words) - c
            /\ \A k \in 1..(Len(words) - c) : inner[k] = Texts(words)[k + c]
            /\ ~Harms(inner) /\ ~UnderLimit(inner)
  <1> DEFINE texts == Texts(words)
             n == Len(words)
             inner == After(texts, c)
             back == After(words, c)
  <1>1. /\ texts \in Seq(TextSet) /\ Len(texts) = n /\ n \in Nat
        /\ \A k \in 1..n : texts[k] = words[k].text
    BY TextsAre
  <1>2. /\ WellTyped(back) /\ Len(back) = n - c
        /\ \A k \in 1..(n - c) : back[k] = words[k + c]
    BY RestTyped
  <1>3. /\ inner \in Seq(TextSet) /\ Len(inner) = n - c
        /\ \A k \in 1..(n - c) : inner[k] = texts[k + c]
    BY <1>1, AfterIs
  <1>4. Validate(inner).ok
    OBVIOUS
  <1> HIDE DEF back, inner, texts
  <1>5. c < n /\ \A k \in 1..n : words[k].shape = "plain"
    OBVIOUS
  <1> HIDE DEF n
  <1>6. \A k \in 1..(n - c) : k + c \in 1..n
    BY <1>1, <1>5
  <1>7. Texts(back) = inner
    <2>1. /\ Texts(back) \in Seq(TextSet) /\ Len(Texts(back)) = n - c
          /\ \A k \in 1..(n - c) : Texts(back)[k] = back[k].text
      BY <1>2, TextsAre
    <2>2. \A k \in 1..(n - c) : Texts(back)[k] = inner[k]
      BY <1>1, <1>2, <1>3, <1>6, <2>1
    <2>3. QED
      BY <1>3, <2>1, <2>2, SeqEqual
  <1>8. \A k \in 1..(n - c) : back[k].shape = "plain"
    BY <1>2, <1>5, <1>6
  <1>9. DOMAIN back = 1..(n - c) /\ Globs(back) = {} /\ back # <<>> /\ Tokenizes(back)
    <2>1. PICK S : back \in Seq(S)
      BY <1>2 DEF WellTyped
    <2>2. DOMAIN back = 1..(n - c)
      BY <1>2, <2>1, LenProperties
    <2>3. Globs(back) = {} /\ Tokenizes(back)
      BY <1>2, <1>8, <2>2 DEF Globs, Tokenizes
    <2>4. Len(back) # 0
      BY <1>1, <1>2, <1>5
    <2>5. QED
      BY <2>1, <2>2, <2>3, <2>4, EmptySeq
  <1>10. \E p : Bashed(back, inner, p)
    <2>1. \E p : Bashed(back, BashWords(back, dir), p)
      BY <1>2, <1>9, BashSpreads
    <2>2. PICK p : Bashed(back, BashWords(back, dir), p)
      BY <2>1
    <2>3. BashWords(back, dir) = inner
      BY <1>2, <1>7, <1>9, <2>2, PlainRun
    <2>4. QED
      BY <2>2, <2>3
  <1>11. PICK p : Bashed(back, inner, p)
    BY <1>10
  <1>12. GlobsAllowed(back, Validate(Texts(back))) /\ Validate(Texts(back)).ok
    BY <1>4, <1>7, <1>8, <1>9 DEF GlobsAllowed
  <1>13. ~Harms(inner)
    BY <1>2, <1>9, <1>11, <1>12, HostRuns
  <1>14. ~UnderLimit(inner)
    BY <1>2, <1>9, <1>11, <1>12, HostStays
  <1>15. QED
    BY <1>3, <1>13, <1>14 DEF inner, texts, n

\* What `pct exec <vmid> --` says in front of the command inside the CT.
LEMMA ShapeKept ==
  ASSUME NEW c, NEW other, NEW at, ExecShape(c, at), other \in Seq(TextSet), at + 4 <= Len(other),
         \A k \in 1..(at + 3) : other[k] = c[k]
  PROVE  ExecShape(other, at)
  <1>1. at \in {1, 2}
    BY DEF ExecShape
  <1>2. /\ 1 \in 1..(at + 3) /\ 2 \in 1..(at + 3) /\ at + 1 \in 1..(at + 3) /\ at + 2 \in 1..(at + 3)
        /\ at + 3 \in 1..(at + 3)
    BY <1>1
  <1>3. /\ other[1] = c[1] /\ other[2] = c[2] /\ other[at + 1] = c[at + 1] /\ other[at + 2] = c[at + 2]
        /\ other[at + 3] = c[at + 3]
    BY <1>2
  <1>4. QED
    BY <1>3 DEF ExecShape

LEMMA OuterCut ==
  ASSUME NEW c, NEW at, ExecShape(c, at)
  PROVE  LET outer == SubSeq(c, 1, at + 3)
         IN /\ outer \in Seq(TextSet) /\ Len(outer) = at + 3 /\ ~Harms(outer)
            /\ \A k \in 1..(at + 3) : outer[k] = c[k]
  <1> DEFINE n == at + 3
             outer == SubSeq(c, 1, n)
  <1>1. /\ c \in Seq(TextSet) /\ at \in {1, 2} /\ n \in Nat /\ n <= Len(c) /\ Len(c) \in Nat
    BY LenProperties DEF ExecShape
  <1> HIDE DEF n
  <1>2. 1 \in Int /\ n \in Int /\ (\A i \in 1..n : c[i] \in TextSet)
    <2>1. \A i \in 1..n : i \in 1..Len(c)
      BY <1>1
    <2>2. QED
      BY <1>1, <2>1, ElementOfSeq
  <1>3. /\ outer \in Seq(TextSet) /\ Len(outer) = (IF 1 <= n THEN n - 1 + 1 ELSE 0)
        /\ \A k \in 1..(n - 1 + 1) : outer[k] = c[1 + k - 1]
    BY <1>1, <1>2, SubSeqProperties
  <1> HIDE DEF outer
  <1>4. outer \in Seq(TextSet) /\ Len(outer) = n /\ \A k \in 1..n : outer[k] = c[k]
    <2>1. n - 1 + 1 = n /\ 1 <= n /\ \A k \in 1..n : 1 + k - 1 = k
      BY <1>1 DEF n
    <2>2. QED
      BY <1>3, <2>1
  <1>5. /\ 1 \in 1..n /\ 2 \in 1..n /\ at + 1 \in 1..n /\ at + 2 \in 1..n /\ at + 3 \in 1..n
    BY <1>1 DEF n
  <1>6. /\ outer[1] = c[1] /\ outer[2] = c[2] /\ outer[at + 1] = c[at + 1] /\ outer[at + 2] = c[at + 2]
        /\ outer[at + 3] = c[at + 3]
    BY <1>4, <1>5
  <1>7. /\ outer[1].name = "pct" /\ (at = 2 => outer[2].kind = "ddash")
        /\ outer[at + 1].kind = "operand" /\ outer[at + 1].name = "exec"
        /\ outer[at + 2].kind = "operand" /\ outer[at + 3].kind = "ddash"
    BY <1>6 DEF ExecShape
  <1>8. at = 1 => outer[2].kind = "operand"
    BY <1>7
  <1>9. ~Harms(outer)
    <2>1. Len(outer) = at + 3
      BY <1>4 DEF n
    <2>2. QED
      BY <1>1, <1>4, <1>7, <1>8, <2>1, OuterIsHarmless
  <1>10. QED
    BY <1>4, <1>9 DEF n, outer

\* `pct exec`, on the host and inside the CT.
LEMMA ExecPermitted ==
  ASSUME NEW words, WellTyped(words), Allowed(words), Validate(Texts(words)).exec # <<>>,
         NEW dir, IsListing(dir)
  PROVE  Permitted(words, BashWords(Wrapped(words), dir))
  <1> DEFINE run == BashWords(Wrapped(words), dir)
             host == Bare(run)
             texts == Texts(words)
             v == Validate(texts)
             n == Len(words)
             at == VerbAt(Tail(texts))
             c == at + 3
             inner == After(texts, c)
             outer == SubSeq(texts, 1, c)
             mid == Middle(words, c)
             hin == After(host, c)
  <1>1. /\ words # <<>> /\ Tokenizes(words) /\ Command(TextSet, texts) /\ PctExec(v).ok
        /\ GlobsAllowed(words, PctExec(v))
    BY AllowedIs
  <1>2. ExecShape(texts, at) /\ Validate(inner).ok /\ PctExec(v).operands = {}
    BY <1>1, ExecForm
  <1>3. /\ texts \in Seq(TextSet) /\ Len(texts) = n /\ n \in Nat /\ DOMAIN words = 1..n
        /\ \A k \in 1..n : texts[k] = words[k].text
    BY TextsAre
  <1>4. \A k \in 1..n : words[k].shape = "plain"
    <2> HIDE DEF v
    <2>1. \A k \in 1..n : words[k].shape \in {"plain", "glob"} /\ words[k].shape # "glob"
      BY <1>1, <1>2, <1>3 DEF Tokenizes, GlobsAllowed
    <2>2. QED
      BY <2>1
  <1>5. at \in {1, 2} /\ c \in Nat /\ c < n /\ c <= n
    <2>1. at \in {1, 2} /\ at + 4 <= n
      BY <1>2, <1>3 DEF ExecShape
    <2> HIDE DEF at
    <2>2. QED
      BY <1>3, <2>1
  <1>6. /\ Inner(texts) = inner /\ OuterOf(texts) = outer
        /\ inner # <<>> /\ ~UnderLimit(texts) /\ StartsExec(texts)
        /\ (texts[2].kind = "ddash" <=> at = 2)
    BY <1>2, ExecApart
  <1>7. /\ inner \in Seq(TextSet) /\ Len(inner) = n - c
        /\ \A k \in 1..(n - c) : inner[k] = texts[k + c]
        /\ ~Harms(inner) /\ ~UnderLimit(inner)
    BY <1>2, <1>4, <1>5, InnerRuns
  <1>8. outer \in Seq(TextSet) /\ Len(outer) = c /\ ~Harms(outer) /\ \A k \in 1..c : outer[k] = texts[k]
    BY <1>2, OuterCut
  <1> HIDE DEF v, at
  <1>9. InnerAt(words) = c + 1
    <2>1. InnerAt(words) = (IF texts[2].kind = "ddash" THEN 3 ELSE 2) + 3
      BY <1>6, InnerAtIs
    <2>2. QED
      BY <1>5, <1>6, <2>1
  <1> HIDE DEF c
  <1>10. Wrapped(words) = Limit \o mid
    <2>1. (c + 1) - 1 = c /\ c + 1 # 0
      BY <1>5
    <2>2. Wrapped(words) = Limit \o (SubSeq(words, 1, c) \o Limit \o SubSeq(words, c + 1, Len(words)))
      BY <1>9, <2>1 DEF Wrapped
    <2>3. QED
      BY <2>2 DEF Middle, After
  <1>11. /\ WellTyped(mid) /\ Tokenizes(mid) /\ Globs(mid) = {} /\ Len(mid) = n + 4
         /\ \A k \in 1..c : mid[k] = words[k]
         /\ \A k \in 1..4 : mid[c + k] = Limit[k]
         /\ \A k \in 1..(n - c) : mid[c + 4 + k] = words[c + k]
    BY <1>4, <1>5, MiddleIs
  <1>12. run = BashWords(Limit \o mid, dir)
    BY <1>10
  <1> HIDE DEF run, mid
  <1>13. \E q : Bashed(mid, host, q)
    BY <1>11, <1>12, LimitRuns
  <1>14. host = Texts(mid)
    BY <1>11, <1>13, PlainRun
  <1>15. /\ host \in Seq(TextSet) /\ Len(host) = n + 4
         /\ \A k \in 1..(n + 4) : host[k] = mid[k].text
    BY <1>11, <1>14, TextsAre
  <1> HIDE DEF host
  <1>16. \A k \in 1..c : host[k] = texts[k]
    <2>1. \A k \in 1..c : k \in 1..(n + 4) /\ k \in 1..n
      BY <1>3, <1>5
    <2>2. QED
      BY <1>3, <1>11, <1>15, <2>1
  <1>17. host[c + 1] = Limit[1].text
    <2>1. 1 \in 1..4 /\ c + 1 \in 1..(n + 4)
      BY <1>3, <1>5
    <2>2. QED
      BY <1>11, <1>15, <2>1
  <1>18. \A k \in 1..(n - c) : host[c + 4 + k] = texts[c + k]
    <2>1. \A k \in 1..(n - c) : c + 4 + k \in 1..(n + 4) /\ c + k \in 1..n
      BY <1>3, <1>5
    <2>2. QED
      BY <1>3, <1>11, <1>15, <2>1
  <1>19. ExecShape(host, at)
    <2>1. at + 4 <= Len(host) /\ \A k \in 1..(at + 3) : host[k] = texts[k]
      BY <1>3, <1>5, <1>15, <1>16 DEF c
    <2>2. QED
      BY <1>2, <1>15, <2>1, ShapeKept
  <1>20. Inner(host) = hin /\ OuterOf(host) = SubSeq(host, 1, c) /\ hin # <<>> /\ ~UnderLimit(host)
    BY <1>19, ExecApart DEF c
  <1>21. SubSeq(host, 1, c) = outer
    <2>1. /\ SubSeq(host, 1, c) \in Seq(TextSet) /\ Len(SubSeq(host, 1, c)) = c
          /\ \A k \in 1..c : SubSeq(host, 1, c)[k] = host[k]
      BY <1>19, OuterCut DEF c
    <2>2. QED
      BY <1>8, <1>16, <2>1, SeqEqual
  <1>22. /\ hin \in Seq(TextSet) /\ Len(hin) = n + 4 - c
         /\ \A k \in 1..(n + 4 - c) : hin[k] = host[k + c]
    <2>1. c <= Len(host)
      BY <1>3, <1>5, <1>15
    <2>2. /\ hin \in Seq(TextSet) /\ Len(hin) = Len(host) - c
          /\ \A k \in 1..(Len(host) - c) : hin[k] = host[k + c]
      BY <1>5, <1>15, <2>1, AfterIs
    <2>3. Len(host) - c = n + 4 - c
      BY <1>3, <1>5, <1>15
    <2> HIDE DEF hin
    <2>4. QED
      BY <2>2, <2>3
  <1> HIDE DEF hin
  <1>23. UnderLimit(hin)
    <2>1. 1 \in 1..(n + 4 - c) /\ 1 + c = c + 1
      BY <1>3, <1>5
    <2>2. hin[1] = Limit[1].text
      BY <1>17, <1>22, <2>1
    <2>3. Limit[1].text.name = "timeout"
      BY LimitWords
    <2>4. QED
      BY <1>20, <2>2, <2>3 DEF UnderLimit
  <1>24. Bare(hin) = inner
    <2>1. Bare(hin) = After(hin, 4)
      <3>1. Bare(hin) = SubSeq(hin, 5, Len(hin))
        BY <1>23 DEF Bare
      <3>2. After(hin, 4) = SubSeq(hin, 5, Len(hin))
        BY DEF After
      <3>3. QED
        BY <3>1, <3>2
    <2>2. 4 <= Len(hin) /\ 4 \in Nat /\ Len(hin) - 4 = n - c
      BY <1>3, <1>5, <1>22
    <2>3. /\ After(hin, 4) \in Seq(TextSet) /\ Len(After(hin, 4)) = Len(hin) - 4
          /\ \A k \in 1..(Len(hin) - 4) : After(hin, 4)[k] = hin[k + 4]
      BY <1>22, <2>2, AfterIs
    <2>4. ASSUME NEW k \in 1..(n - c) PROVE After(hin, 4)[k] = inner[k]
      <3>1. /\ k + 4 \in 1..(n + 4 - c) /\ (k + 4) + c = c + 4 + k /\ k + c = c + k
        BY <1>3, <1>5
      <3>2. After(hin, 4)[k] = host[c + 4 + k]
        BY <1>22, <2>2, <2>3, <3>1
      <3>3. QED
        BY <1>7, <1>18, <3>1, <3>2
    <2>5. QED
      BY <1>7, <2>1, <2>2, <2>3, <2>4, SeqEqual
  <1> HIDE DEF inner, outer, texts
  <1>25. Ran(run) = {outer, inner}
    BY <1>20, <1>21, <1>24, RanIs DEF host
  <1>26. Ran(texts) = {outer, inner}
    <2>1. Bare(inner) = inner
      BY <1>7, RanIs
    <2>2. QED
      BY <1>6, <2>1, RanIs
  <1>27. Bare(Inner(host)) = Inner(texts)
    BY <1>6, <1>20, <1>24
  <1>28. /\ \A x \in Ran(run) : ~Harms(x)
         /\ {Meaning(x) : x \in Ran(run)} = {Meaning(x) : x \in Ran(texts)}
    <2>1. Ran(run) = Ran(texts)
      BY <1>25, <1>26
    <2>2. QED
      BY <1>7, <1>8, <1>25, <2>1
  <1>29. UnderLimit(Inner(host))
    BY <1>20, <1>23
  <1>30. QED
    BY <1>27, <1>28, <1>29 DEF Permitted, host, texts, run

\* TypeOK in parts: what is recorded, and the words of a command, stand apart.
Recorded ==
    /\ audited \in {"", "refused", "failed", "ran"}
    /\ (audited = "") = (phase \notin {"refused", "over"})

TypedWords == (\E S : typed \in Seq(S)) /\ \A k \in DOMAIN typed : IsWord(typed[k])

Rest ==
    /\ tool \in HostTools \cup GuestTools
    /\ phase \in Phases
    /\ conn \in {"none", "open", "closed"}
    /\ tunnel \in IF tool \in GuestTools THEN {"none", "wanted", "open", "closed"} ELSE {"none"}
    /\ result \in {"none", "rc", "timeout", "failed", "lost"}
    /\ temper \in Tempers
    /\ stage \in 0..3
    /\ line.does \in Does
    /\ ack \in IF tool \in Gated THEN {"none", "given", "demanded"} ELSE {"none"}
    /\ (conn = "open") = (phase \in {"running", "closing"})

Processes == proc \in [Sides -> {"none", "runs", "ended"}]

Typing == Rest /\ Processes /\ TypedWords /\ Recorded

LEMMA TypingInit == Init => Typing
<1> SUFFICES ASSUME Init PROVE Typing
  OBVIOUS
<1>1. Recorded
  <2>1. audited = "" /\ phase = "typing"
    BY Zenon DEF Init
  <2> QED BY <2>1, Zenon DEF Recorded
<1>2. TypedWords
  <2>1. typed = <<>>
    BY Zenon DEF Init
  <2>2. typed \in Seq({}) /\ \A k \in DOMAIN typed : k \in {}
    BY <2>1, EmptySeq
  <2> QED BY <2>2 DEF TypedWords
<1>3. Processes
  <2>1. proc = [p \in Sides |-> "none"]
    BY Zenon DEF Init
  <2> QED BY <2>1 DEF Processes
<1>4. Rest
  <2>1. /\ tool \in HostTools \cup GuestTools
        /\ tunnel \in IF tool \in GuestTools THEN {"none", "wanted"} ELSE {"none"}
        /\ line = NoLine /\ ack = "none" /\ phase = "typing" /\ conn = "none"
        /\ result = "none" /\ temper = "ends" /\ stage = 0
    BY Zenon DEF Init
  <2>2. NoLine.does = "none"
    BY DEF NoLine
  <2> QED BY <2>1, <2>2 DEF Rest, Phases, Tempers, Does
<1> QED BY <1>1, <1>2, <1>3, <1>4 DEF Typing

LEMMA RecordedStep == Typing /\ [Next]_vars => Recorded'
<1> SUFFICES ASSUME Typing, [Next]_vars PROVE Recorded'
  OBVIOUS
<1> USE DEF Recorded, Typing
<1>1. CASE Type
  BY <1>1, Zenon DEF Type
<1>2. CASE TypeLine
  BY <1>2, Zenon DEF TypeLine
<1>3. CASE Return
  BY <1>3, Zenon DEF Return
<1>4. CASE Refuse
  BY <1>4, Zenon DEF Refuse
<1>5. CASE Demand
  BY <1>5, Zenon DEF Demand
<1>6. CASE Accept
  BY <1>6, Zenon DEF Accept
<1>7. CASE ResolveFails \/ ConnectFails \/ ConnectLost
  BY <1>7, Zenon DEF ResolveFails, ConnectFails, ConnectLost, Fail
<1>8. CASE TunnelUp
  BY <1>8, Zenon DEF TunnelUp
<1>11. CASE Run
  BY <1>11, Zenon DEF Run
<1>12. ASSUME NEW p \in Sides, Expire(p) \/ Ends(p) PROVE Recorded'
  BY <1>12, Zenon DEF Expire, Ends
<1>13. CASE Tick
  BY <1>13, Zenon DEF Tick
<1>14. CASE Returns \/ GiveUp \/ ConnectionLost
  BY <1>14, Zenon DEF Returns, GiveUp, ConnectionLost, Leave
<1>15. CASE Answer
  BY <1>15, Zenon DEF Answer, Record
<1>16. CASE Cancel
  BY <1>16, Zenon DEF Cancel
<1>17. CASE Crash
  BY <1>17, Zenon DEF Crash
<1>18. CASE UNCHANGED vars
  BY <1>18, Zenon DEF vars
<1> QED
  BY <1>1, <1>2, <1>3, <1>4, <1>5, <1>6, <1>7, <1>8, <1>11, <1>12, <1>13,
     <1>14, <1>15, <1>16, <1>17, <1>18, Zenon DEF Next

LEMMA TypedStep == Typing /\ [Next]_vars => TypedWords' /\ Processes'
<1> SUFFICES ASSUME Typing, [Next]_vars PROVE TypedWords' /\ Processes'
  OBVIOUS
<1>0. TypedWords /\ Processes
  BY DEF Typing
<1>1. CASE Type
  <2>1. PICK w : IsWord(w) /\ typed' = Append(typed, w)
    BY <1>1, Zenon DEF Type
  <2>2. PICK S : typed \in Seq(S)
    BY <1>0 DEF TypedWords
  <2>3. typed \in Seq(S \cup {w}) /\ w \in S \cup {w}
    <3>1. DOMAIN typed = 1..Len(typed) /\ Len(typed) \in Nat /\ \A k \in 1..Len(typed) : typed[k] \in S \cup {w}
      BY <2>2
    <3> QED BY <2>2, <3>1
  <2>4. /\ typed' \in Seq(S \cup {w}) /\ DOMAIN typed' = 1..(Len(typed) + 1)
        /\ \A k \in 1..(Len(typed) + 1) : typed'[k] = IF k = Len(typed) + 1 THEN w ELSE typed[k]
    BY <2>1, <2>3
  <2>5. \A k \in 1..(Len(typed) + 1) : IsWord(typed'[k])
    <3>1. ASSUME NEW k \in 1..(Len(typed) + 1), k # Len(typed) + 1 PROVE k \in DOMAIN typed
      BY <2>2, <3>1
    <3> QED BY <2>1, <2>4, <3>1, <1>0 DEF TypedWords
  <2>6. Processes'
    BY <1>0, <1>1, Zenon DEF Type, Processes, remote
  <2> QED BY <2>4, <2>5, <2>6 DEF TypedWords
<1>11. CASE Run
  <2>1. typed' = typed /\ proc'["host"] = "runs" /\ proc'["ct"] \in {"none", "runs"}
        /\ DOMAIN proc' = Sides
    BY <1>11 DEF Run, call, Sides
  <2>2. Processes'
    <3>1. proc' = [host |-> "runs", ct |-> IF Inner(Bare(argv')) = <<>> THEN "none" ELSE "runs"]
      BY <1>11 DEF Run
    <3> QED BY <3>1 DEF Processes, Sides
  <2> QED BY <2>1, <2>2, <1>0 DEF TypedWords
<1>12. ASSUME NEW p \in Sides, Expire(p) \/ Ends(p) PROVE TypedWords' /\ Processes'
  <2>1. typed' = typed /\ proc' = [proc EXCEPT ![p] = "ended"]
    BY <1>12, Zenon DEF Expire, Ends, call
  <2> QED BY <2>1, <1>0 DEF TypedWords, Processes
<1>13. ASSUME \/ TypeLine \/ Return \/ Refuse \/ Demand \/ Accept
              \/ ResolveFails \/ TunnelUp \/ ConnectFails \/ ConnectLost
              \/ Tick \/ Returns \/ GiveUp \/ ConnectionLost \/ Answer \/ Cancel \/ Crash
              \/ UNCHANGED vars
       PROVE  TypedWords' /\ Processes'
  <2>1. typed' = typed /\ proc' = proc
    BY <1>13, Zenon DEF TypeLine, Return, Refuse, Demand, Accept, ResolveFails, TunnelUp, ConnectFails,
       ConnectLost, Fail, Tick, Returns, GiveUp, ConnectionLost, Leave, Answer, Cancel, Crash, call, remote, vars
  <2> QED BY <2>1, <1>0 DEF TypedWords, Processes
<1> QED
  BY <1>1, <1>11, <1>12, <1>13, Zenon DEF Next

LEMMA RestStep == Typing /\ [Next]_vars => Rest'
<1> SUFFICES ASSUME Rest, [Next]_vars PROVE Rest'
  BY DEF Typing
<1> USE DEF Rest, Phases, Tempers, Does
<1>0. Forgotten.does = line.does
  BY DEF Forgotten, NoLine
<1>1. CASE Type
  BY <1>1 DEF Type, remote
<1>2. CASE TypeLine
  BY <1>2 DEF TypeLine, remote
<1>3. CASE Return
  BY <1>3 DEF Return, call, remote
<1>4. CASE Refuse
  BY <1>4 DEF Refuse, call, remote
<1>5. CASE Demand
  BY <1>0, <1>5 DEF Demand, remote
<1>6. CASE Accept
  BY <1>0, <1>6 DEF Accept, remote
<1>7. CASE ResolveFails
  BY <1>7 DEF ResolveFails, Fail, call, remote
<1>8. CASE TunnelUp
  BY <1>8 DEF TunnelUp, call, remote
<1>9. CASE ConnectFails
  BY <1>9 DEF ConnectFails, Fail, Shut, call, remote
<1>10. CASE ConnectLost
  BY <1>10 DEF ConnectLost, Fail, call, remote
<1>11. CASE Run
  BY <1>11 DEF Run, call
<1>12. ASSUME NEW p \in Sides, Expire(p) \/ Ends(p) PROVE Rest'
  BY <1>12 DEF Expire, Ends, call
<1>13. CASE Tick
  BY <1>13 DEF Tick, call
<1>14. CASE Returns \/ GiveUp \/ ConnectionLost
  BY <1>14 DEF Returns, GiveUp, ConnectionLost, Leave, call, remote
<1>15. CASE Answer
  BY <1>15 DEF Answer, Shut, call, remote
<1>16. CASE Cancel
  BY <1>16 DEF Cancel, Shut, call, remote
<1>17. CASE Crash
  BY <1>17 DEF Crash, Shut, call, remote
<1>18. CASE UNCHANGED vars
  BY <1>18 DEF vars
<1> QED
  BY <1>1, <1>2, <1>3, <1>4, <1>5, <1>6, <1>7, <1>8, <1>9, <1>10, <1>11, <1>12, <1>13,
     <1>14, <1>15, <1>16, <1>17, <1>18 DEF Next

\* Every state is one of a call: a guest's tunnel and a gated tool's flag are
\* nobody else's, every typed word is a word, a call is recorded exactly when it
\* is refused or over, and a connection is open exactly while it runs or closes.
THEOREM TypesOk == Spec => []TypeOK
<1>1. Typing => TypeOK
  BY Zenon DEF Typing, Rest, Processes, TypedWords, Recorded, TypeOK
<1>2. Typing /\ [Next]_vars => Typing'
  BY RecordedStep, TypedStep, RestStep, Zenon DEF Typing
<1> QED BY <1>1, <1>2, TypingInit, PTL DEF Spec

\* What a line's first word expands into comes first.
LEMMA FirstWord ==
  ASSUME NEW dir, IsListing(dir), NEW words, NEW T, words \in Seq(T), words # <<>>,
         words[1].shape = "plain"
  PROVE  BashWords(words, dir) # <<>> /\ BashWords(words, dir)[1] = words[1].text
  <1> DEFINE E == [k \in DOMAIN words |-> Expansion(words[k], dir)]
             U == UNION {Range(E[k]) : k \in DOMAIN words}
             flat == FlattenSeq(E)
  <1>1. Len(words) \in Nat /\ DOMAIN words = 1..Len(words) /\ 1 \in DOMAIN words
    <2>1. Len(words) \in Nat /\ DOMAIN words = 1..Len(words)
      BY LenProperties
    <2>2. Len(words) # 0
      BY EmptySeq
    <2>3. QED
      BY <2>1, <2>2
  <1>2. ASSUME NEW k \in DOMAIN words PROVE E[k] \in Seq(Range(E[k])) \ {<<>>}
    <2>1. E[k] = Expansion(words[k], dir)
      BY <1>2
    <2>2. CASE words[k].shape \in {"glob", "globFirst"} /\ Stem(words[k]) \in DOMAIN dir
      BY <2>1, <2>2, Zenon DEF Expansion, IsListing
    <2>3. CASE ~(words[k].shape \in {"glob", "globFirst"} /\ Stem(words[k]) \in DOMAIN dir)
      <3>1. E[k] = <<words[k].text>>
        BY <2>1, <2>3, Zenon DEF Expansion
      <3> HIDE DEF E
      <3>2. QED
        BY <3>1 DEF Range
    <2>4. QED
      BY <2>2, <2>3
  <1>3. E[1] = <<words[1].text>>
    BY <1>1 DEF Expansion
  <1>4. E \in [1..Len(words) -> Seq(U) \ {<<>>}]
    <2>1. E = [k \in DOMAIN words |-> E[k]]
      OBVIOUS
    <2> HIDE DEF E
    <2>2. ASSUME NEW k \in DOMAIN words PROVE E[k] \in Seq(U) \ {<<>>}
      <3>1. Range(E[k]) \subseteq U
        OBVIOUS
      <3> HIDE DEF U
      <3>2. E[k] \in Seq(Range(E[k])) \ {<<>>} 
        BY <1>2
      <3>3. Len(E[k]) \in Nat /\ E[k] \in [1..Len(E[k]) -> Range(E[k])]
        BY <3>2
      <3>4. E[k] \in [1..Len(E[k]) -> U]
        BY <3>1, <3>3
      <3>5. QED
        BY <3>2, <3>3, <3>4
    <2>3. QED
      BY <2>1, <2>2, <1>1
  <1>5. /\ flat \in Seq(U)
        /\ \E p : /\ Spread(Len(words), Len(flat), p, {k \in 1..Len(words) : Len(E[k]) # 1})
                  /\ \A k \in 1..Len(words) : \A i \in Block(p, k) : flat[i] \in Range(E[k])
    <2> HIDE DEF E, U
    <2>1. QED
      BY <1>1, <1>4, FlattenSpreads
  <1>6. PICK p : /\ Spread(Len(words), Len(flat), p, {k \in 1..Len(words) : Len(E[k]) # 1})
                 /\ \A k \in 1..Len(words) : \A i \in Block(p, k) : flat[i] \in Range(E[k])
    BY <1>5
  <1> HIDE DEF E, U, flat
  <1>7. p[1] = 1 /\ p[1] < p[1 + 1] /\ p[1 + 1] \in 1..(Len(flat) + 1) /\ Len(flat) \in Nat
    BY <1>1, <1>6 DEF Spread
  <1>8. 1 \in Block(p, 1) /\ Len(flat) # 0
    BY <1>7 DEF Block
  <1>9. flat[1] \in Range(E[1]) /\ flat # <<>>
    BY <1>1, <1>5, <1>6, <1>8, EmptySeq
  <1>10. flat[1] = words[1].text
    BY <1>3, <1>9 DEF Range
  <1>11. QED
    BY <1>9, <1>10 DEF flat, E, BashWords

\* A cut out of a sequence is a sequence, even one beyond its end.
LEMMA CutIs ==
  ASSUME NEW T, NEW s \in Seq(T), NEW m \in Int, NEW n \in Int
  PROVE  SubSeq(s, m, n) \in Seq(Range(SubSeq(s, m, n)))
  <1> DEFINE cut == SubSeq(s, m, n)
  <1>1. cut = [i \in 1..(1 + n - m) |-> s[i + m - 1]]
    OBVIOUS
  <1> HIDE DEF cut
  <1>2. \E k \in Nat : 1..k = 1..(1 + n - m)
    <2>1. CASE 1 + n - m \in Nat
      BY <2>1
    <2>2. CASE 1 + n - m \notin Nat
      <3>1. 1..0 = 1..(1 + n - m)
        BY <2>2
      <3>2. QED
        BY <3>1
    <2>3. QED
      BY <2>1, <2>2
  <1>3. PICK k \in Nat : 1..k = 1..(1 + n - m)
    BY <1>2
  <1>4. cut \in [1..k -> Range(cut)]
    BY <1>1, <1>3 DEF Range
  <1>5. QED
    BY <1>3, <1>4, SeqDef DEF cut

LEMMA TimeoutIs == Limit[1].shape = "plain" /\ Limit[1].text.name = "timeout"
  <1>1. Limit[1] = Plain(Name("timeout"))
    BY DEF Limit
  <1>2. Plain(Name("timeout")) = [text |-> Name("timeout"), shape |-> "plain"]
    BY Zenon DEF Plain, Typed
  <1>3. Name("timeout") = Operand("timeout", "name")
    BY Zenon DEF Name
  <1>4. Operand("timeout", "name").name = "timeout"
    BY Zenon DEF Operand, Text
  <1>5. QED
    BY <1>1, <1>2, <1>3, <1>4

\* host_read_exec runs under `timeout`, whatever is typed.
LEMMA RunsUnderLimit ==
  ASSUME NEW dir \in Dirs, NEW T, NEW words \in Seq(T)
  PROVE  UnderLimit(BashWords(Wrapped(words), dir))
  <1> DEFINE at == InnerAt(words)
             front == SubSeq(words, 1, at - 1)
             back == SubSeq(words, at, Len(words))
             rest == IF at = 0 THEN words ELSE front \o Limit \o back
             all == Limit \o rest
  <1>1. IsListing(dir)
    BY DirsAssumption
  <1>2. Len(words) \in Nat /\ at \in Int
    BY DEF InnerAt
  <1>3. Limit \in Seq(Range(Limit)) /\ Len(Limit) = 4 /\ Limit # <<>>
    BY DEF Limit, Range
  <1>4. front \in Seq(Range(front)) /\ back \in Seq(Range(back))
    <2> HIDE DEF at
    <2>1. at - 1 \in Int /\ 1 \in Int /\ Len(words) \in Int
      BY <1>2
    <2>2. QED
      BY <1>2, <2>1, CutIs
  <1> HIDE DEF front, back, at
  <1>5. PICK S : rest \in Seq(S)
    <2> DEFINE U == Range(front) \cup Range(Limit) \cup Range(back)
    <2>1. front \in Seq(U) /\ Limit \in Seq(U) /\ back \in Seq(U)
      <3>1. Range(front) \subseteq U /\ Range(Limit) \subseteq U /\ Range(back) \subseteq U
        OBVIOUS
      <3> HIDE DEF U
      <3>2. QED
        BY <1>3, <1>4, <3>1, Wider
    <2> HIDE DEF U
    <2>2. front \o Limit \o back \in Seq(U)
      BY <2>1
    <2>3. QED
      BY <2>2
  <1> HIDE DEF rest
  <1>6. PICK U : Limit \in Seq(U) /\ rest \in Seq(U)
    <2> DEFINE U == S \cup Range(Limit)
    <2>1. S \subseteq U /\ Range(Limit) \subseteq U
      OBVIOUS
    <2> HIDE DEF U
    <2>2. Limit \in Seq(U) /\ rest \in Seq(U)
      BY <1>3, <1>5, <2>1, Wider
    <2>3. QED
      BY <2>2
  <1>7. all \in Seq(U) /\ all[1] = Limit[1] /\ all # <<>>
    <2>1. Len(rest) \in Nat /\ Len(Limit) = 4
      BY <1>3, <1>6
    <2>2. 1 \in 1..(4 + Len(rest)) /\ 1 <= 4
      BY <2>1
    <2>3. all \in Seq(U) /\ all[1] = Limit[1] /\ Len(all) = 4 + Len(rest)
      <3>1. all \in Seq(U)
        BY <1>6
      <3>2. Len(all) = Len(Limit) + Len(rest)
        BY <1>6
      <3>3. all[1] = Limit[1]
        <4>1. 1 \in 1..(Len(Limit) + Len(rest)) /\ 1 <= Len(Limit)
          BY <2>1, <2>2
        <4>2. \A i \in 1..(Len(Limit) + Len(rest)) : (Limit \o rest)[i] = IF i <= Len(Limit) THEN Limit[i] ELSE rest[i - Len(Limit)]
          BY <1>6
        <4>3. QED
          BY <4>1, <4>2, Zenon
      <3>4. QED
        BY <2>1, <3>1, <3>2, <3>3
    <2> HIDE DEF all
    <2>4. Len(all) # 0
      BY <2>1, <2>3
    <2>5. QED
      BY <2>3, <2>4, EmptySeq
  <1>8. Wrapped(words) = all
    BY Zenon DEF Wrapped, rest, all, at, front, back
  <1> HIDE DEF all
  <1>9. all[1].shape = "plain" /\ all[1].text.name = "timeout"
    BY <1>7, TimeoutIs
  <1>10. BashWords(all, dir) # <<>> /\ BashWords(all, dir)[1] = all[1].text
    BY <1>1, <1>7, <1>9, FirstWord
  <1>11. QED
    BY <1>8, <1>9, <1>10 DEF UnderLimit

\* When host_read_exec has waited for all its 5 seconds more, `timeout` on the host
\* has sent its SIGKILL; and before a command runs no time passes at all.
LimitInv ==
  /\ phase = "typing" \/ phase = "connecting" => stage = 0 /\ result = "none" /\ proc = [p \in Sides |-> "none"]
  /\ phase = "running" => result = "none" /\ proc["host"] # "none"
  /\ Checked /\ phase = "running" => UnderLimit(argv)
  /\ Checked /\ phase = "running" /\ stage = 3 => temper = "stuck" /\ proc["ct"] = "none"
  /\ HostAnswersFirst


LEMMA LimitInit == Init => LimitInv
<1> SUFFICES ASSUME Init PROVE LimitInv
  OBVIOUS
<1>1. phase = "typing" /\ result = "none" /\ stage = 0 /\ proc = [p \in Sides |-> "none"]
  BY Zenon DEF Init
<1> QED BY <1>1 DEF LimitInv, HostAnswersFirst

LEMMA LimitStep == Typing /\ LimitInv /\ [Next]_vars => LimitInv'
<1> SUFFICES ASSUME Typing, LimitInv, [Next]_vars PROVE LimitInv'
  OBVIOUS
<1>0. /\ Rest /\ stage \in 0..3 /\ proc \in [Sides -> {"none", "runs", "ended"}]
      /\ "host" \in Sides /\ "ct" \in Sides
  BY DEF Typing, Rest, Processes, Sides
<1> USE DEF LimitInv, HostAnswersFirst, Checked
<1>1. CASE Type
  BY <1>1 DEF Type, remote
<1>2. CASE TypeLine
  BY <1>2 DEF TypeLine, remote
<1>3. CASE Return
  BY <1>3 DEF Return, call, remote
<1>4. CASE Refuse
  BY <1>4 DEF Refuse, call, remote
<1>5. CASE Demand
  BY <1>5 DEF Demand, remote
<1>6. CASE Accept
  BY <1>6 DEF Accept, remote
<1>7. CASE ResolveFails \/ ConnectFails \/ ConnectLost
  BY <1>7 DEF ResolveFails, ConnectFails, ConnectLost, Fail, call, remote
<1>8. CASE TunnelUp
  BY <1>8 DEF TunnelUp, call, remote
<1>11. CASE Run
  <2>1. /\ phase = "connecting" /\ phase' = "running" /\ tool' = tool /\ typed' = typed
        /\ result' = result /\ stage' = stage /\ proc'["host"] = "runs"
    BY <1>11 DEF Run, call
  <2>2. ASSUME tool = "host_read" PROVE UnderLimit(argv')
    <3>1. PICK dir \in Dirs : argv' = BashWords(Wrapped(typed), dir)
      <4>1. Line = Wrapped(typed)
        BY <2>2 DEF Line, PctTools
      <4>2. PICK dir \in Dirs : argv' = BashWords(Line, dir)
        BY <1>11 DEF Run
      <4> QED BY <4>1, <4>2
    <3>2. PICK S : typed \in Seq(S)
      BY DEF Typing, TypedWords
    <3> QED BY <3>1, <3>2, RunsUnderLimit
  <2>3. UnderLimit(argv)' = UnderLimit(argv')
    BY DEF UnderLimit
  <2> QED BY <2>1, <2>2, <2>3
<1>12. ASSUME NEW p \in Sides, Expire(p) \/ Ends(p) PROVE LimitInv'
  <2>1. /\ proc' = [proc EXCEPT ![p] = "ended"] /\ proc[p] = "runs"
        /\ UNCHANGED <<tool, phase, result, argv, temper, stage>>
    BY <1>12 DEF Expire, Ends, Due, call
  <2>2. /\ phase # "typing" /\ phase # "connecting"
        /\ proc'["host"] \in {proc["host"], "ended"} /\ proc["ct"] = "none" => proc'["ct"] = "none"
    BY <1>0, <2>1
  <2>3. UnderLimit(argv)' = UnderLimit(argv)
    BY <2>1 DEF UnderLimit
  <2> QED BY <2>1, <2>2, <2>3, <1>0
<1>13. CASE Tick
  <2>1. /\ stage < 3 /\ stage' = stage + 1 /\ ~Due("host") /\ ~(phase = "running" /\ proc["host"] = "ended")
        /\ \E p \in Sides : proc[p] = "runs"
        /\ UNCHANGED <<tool, phase, result, argv, temper, proc>>
    BY <1>0, <1>13 DEF Tick, call
  <2>2. phase # "typing" /\ phase # "connecting"
    BY <2>1
  <2>3. ASSUME tool = "host_read", phase = "running", stage' = 3 PROVE temper = "stuck" /\ proc["ct"] = "none"
    <3>1. proc["host"] = "runs" /\ UnderLimit(argv) /\ stage >= 2
      BY <2>1, <2>3, <1>0
    <3> QED BY <2>1, <3>1 DEF Due, Limited, Yields
  <2>4. UnderLimit(argv)' = UnderLimit(argv)
    BY <2>1 DEF UnderLimit
  <2> QED BY <2>1, <2>2, <2>3, <2>4
<1>14. CASE Returns \/ ConnectionLost
  BY <1>14 DEF Returns, ConnectionLost, Leave, call, remote
<1>19. CASE GiveUp
  <2>1. /\ stage >= Patience /\ phase = "running" /\ phase' = "closing" /\ result' = "timeout"
        /\ UNCHANGED <<tool, argv, temper, proc, stage>>
    BY <1>19 DEF GiveUp, Leave, call, remote
  <2>2. tool = "host_read" => stage = 3
    BY <2>1, <1>0 DEF Patience
  <2> QED BY <2>1, <2>2
<1>15. CASE Answer
  BY <1>15 DEF Answer, call, remote
<1>16. CASE Cancel
  BY <1>16 DEF Cancel, call, remote
<1>17. CASE Crash
  BY <1>17 DEF Crash, call, remote
<1>18. CASE UNCHANGED vars
  BY <1>18 DEF vars, UnderLimit
<1> QED
  BY <1>1, <1>2, <1>3, <1>4, <1>5, <1>6, <1>7, <1>8, <1>11, <1>12, <1>13,
     <1>14, <1>15, <1>16, <1>17, <1>18, <1>19 DEF Next

\* host_read_exec waits timeout + KILL_AFTER + 5 seconds: it gives up only on a
\* command that not even SIGKILL ends, and that no command inside a CT holds up
\* (host_read.py, the timeout it gives exec_command).
THEOREM LimitComesFirst == Spec => []HostAnswersFirst
<1>1. LimitInv => HostAnswersFirst
  BY DEF LimitInv
<1>2. Typing /\ LimitInv /\ [Next]_vars => Typing' /\ LimitInv'
  BY LimitStep, RecordedStep, TypedStep, RestStep, Zenon DEF Typing
<1> QED BY <1>1, <1>2, TypingInit, LimitInit, PTL DEF Spec

\* A connection is open only while the command runs or the answer is fetched, and
\* what it goes through is not closed before it.
OpenInv ==
    /\ tunnel \in {"none", "wanted", "open", "closed"}
    /\ (conn = "open") = (phase \in {"running", "closing"})
    /\ conn = "open" => tunnel \in {"none", "open"}
    /\ phase \in {"typing", "returned", "refused"} => tunnel \in {"none", "wanted"}
    /\ phase = "connecting" => tunnel # "closed"
    /\ phase = "over" /\ tunnel = "open" => result = "lost"

LEMMA OpenInit == Init => OpenInv
<1> SUFFICES ASSUME Init PROVE OpenInv
  OBVIOUS
<1>1. tunnel \in {"none", "wanted"}
  BY DEF Init
<1>2. phase = "typing" /\ conn = "none"
  BY DEF Init
<1> QED BY <1>1, <1>2 DEF OpenInv

LEMMA OpenStep == OpenInv /\ [Next]_vars => OpenInv'
<1> SUFFICES ASSUME OpenInv, [Next]_vars PROVE OpenInv'
  OBVIOUS
<1> USE DEF OpenInv
<1>1. CASE Type
  BY <1>1 DEF Type
<1>2. CASE TypeLine
  BY <1>2 DEF TypeLine
<1>3. CASE Return
  BY <1>3 DEF Return, call
<1>4. CASE Refuse
  BY <1>4 DEF Refuse, call
<1>5. CASE Demand
  BY <1>5 DEF Demand
<1>6. CASE Accept
  BY <1>6 DEF Accept
<1>7. CASE ResolveFails
  BY <1>7 DEF ResolveFails, Fail, call
<1>8. CASE TunnelUp
  BY <1>8 DEF TunnelUp, call
<1>9. CASE ConnectFails
  BY <1>9 DEF ConnectFails, Fail, Shut, call
<1>10. CASE ConnectLost
  BY <1>10 DEF ConnectLost, Fail, call
<1>11. CASE Run
  BY <1>11 DEF Run, call
<1>12. ASSUME NEW p \in Sides, Expire(p) \/ Ends(p) PROVE OpenInv'
  BY <1>12 DEF Expire, Ends, call
<1>13. CASE Tick
  BY <1>13 DEF Tick, call
<1>14. CASE Returns \/ GiveUp \/ ConnectionLost
  BY <1>14 DEF Returns, GiveUp, ConnectionLost, Leave, call
<1>15. CASE Answer
  BY <1>15 DEF Answer, Shut, call
<1>16. CASE Cancel
  BY <1>16 DEF Cancel, Shut, call
<1>17. CASE Crash
  BY <1>17 DEF Crash, Shut, call
<1>18. CASE UNCHANGED vars
  BY <1>18 DEF vars
<1> QED
  BY <1>1, <1>2, <1>3, <1>4, <1>5, <1>6, <1>7, <1>8, <1>9, <1>10, <1>11, <1>12, <1>13,
     <1>14, <1>15, <1>16, <1>17, <1>18 DEF Next

\* However a call ends, is cancelled or dies, it holds no connection; it holds a
\* tunnel only where _connect raised what it does not list, and a connection
\* never outlives its tunnel (vm_ssh.py, finally).
THEOREM NothingIsLeftOpen == Spec => []NothingLeftOpen
<1>1. OpenInv => NothingLeftOpen
  BY DEF OpenInv, NothingLeftOpen
<1> QED BY <1>1, OpenInit, OpenStep, PTL DEF Spec

-----------------------------------------------------------------------------
\* What host_read_exec has let through is what was typed and checked, and what runs
\* is what bash, in some directory, has made of it under the limits.
LetThrough ==
    /\ phase \in {"typing", "connecting"} => argv = <<>>
    /\ Checked /\ phase = "connecting" => Allowed(typed)
    /\ Checked /\ argv # <<>> =>
          Allowed(typed) /\ \E dir \in Dirs : argv = BashWords(Wrapped(typed), dir)

LEMMA LetThroughInit == Init => LetThrough
<1> SUFFICES ASSUME Init PROVE LetThrough
  OBVIOUS
<1>1. argv = <<>> /\ phase = "typing"
  BY Zenon DEF Init
<1> QED BY <1>1 DEF LetThrough

\* A step that leaves the words alone and goes on neither to typing nor to connecting.
LEMMA WordsKept ==
  LetThrough /\ UNCHANGED <<tool, typed, argv>> /\ (phase' = phase \/ phase' \notin {"typing", "connecting"})
    => LetThrough'
<1> SUFFICES ASSUME LetThrough, UNCHANGED <<tool, typed, argv>>,
                    phase' = phase \/ phase' \notin {"typing", "connecting"}
             PROVE  LetThrough'
  OBVIOUS
<1>1. Allowed(typed)' <=> Allowed(typed)
  BY Zenon
<1>2. (\E dir \in Dirs : argv = BashWords(Wrapped(typed), dir))'
        <=> \E dir \in Dirs : argv = BashWords(Wrapped(typed), dir)
  BY Zenon
<1> QED BY <1>1, <1>2 DEF LetThrough, Checked

LEMMA LetThroughStep == LetThrough /\ [Next]_vars => LetThrough'
<1> SUFFICES ASSUME LetThrough, [Next]_vars PROVE LetThrough'
  OBVIOUS
<1>1. CASE Type
  <2>1. phase = "typing" /\ phase' = phase /\ argv' = argv
    BY <1>1 DEF Type, remote
  <2> QED BY <2>1 DEF LetThrough
<1>2. CASE TypeLine
  BY <1>2, WordsKept DEF TypeLine, remote
<1>3. CASE Return
  BY <1>3, WordsKept DEF Return, call, remote
<1>4. CASE Refuse
  BY <1>4, WordsKept DEF Refuse, call, remote
<1>5. CASE Demand
  BY <1>5, WordsKept DEF Demand, remote
<1>6. CASE Accept
  <2>1. /\ phase = "typing" /\ phase' = "connecting" /\ argv' = argv /\ typed' = typed /\ tool' = tool
        /\ Checked => Allowed(typed)
    BY <1>6 DEF Accept, remote
  <2>2. Allowed(typed)' <=> Allowed(typed)
    BY <2>1, Zenon
  <2> QED BY <2>1, <2>2 DEF LetThrough, Checked
<1>7. CASE ResolveFails \/ ConnectFails \/ ConnectLost
  BY <1>7, WordsKept DEF ResolveFails, ConnectFails, ConnectLost, Fail, call, remote
<1>8. CASE TunnelUp
  BY <1>8, WordsKept DEF TunnelUp, call, remote
<1>9. CASE Run
  <2>1. /\ phase = "connecting" /\ phase' = "running" /\ tool' = tool /\ typed' = typed
        /\ \E dir \in Dirs : argv' = BashWords(Line, dir)
    BY <1>9 DEF Run, call
  <2>2. ASSUME Checked
        PROVE  Allowed(typed) /\ \E dir \in Dirs : argv' = BashWords(Wrapped(typed), dir)
    <3>1. Line = Wrapped(typed)
      BY <2>2 DEF Line, Checked, PctTools
    <3> QED BY <2>1, <2>2, <3>1 DEF LetThrough
  <2>3. Allowed(typed)' <=> Allowed(typed)
    BY <2>1, Zenon
  <2>4. (\E dir \in Dirs : argv = BashWords(Wrapped(typed), dir))'
          <=> \E dir \in Dirs : argv' = BashWords(Wrapped(typed), dir)
    BY <2>1, Zenon
  <2> QED BY <2>1, <2>2, <2>3, <2>4 DEF LetThrough, Checked
<1>10. ASSUME NEW p \in Sides, Expire(p) \/ Ends(p) PROVE LetThrough'
  BY <1>10, WordsKept DEF Expire, Ends, call
<1>11. CASE Tick
  BY <1>11, WordsKept DEF Tick, call
<1>12. CASE Returns \/ GiveUp \/ ConnectionLost
  BY <1>12, WordsKept DEF Returns, GiveUp, ConnectionLost, Leave, call, remote
<1>13. CASE Answer
  BY <1>13, WordsKept DEF Answer, call, remote
<1>14. CASE Cancel
  BY <1>14, WordsKept DEF Cancel, call, remote
<1>15. CASE Crash
  BY <1>15, WordsKept DEF Crash, call, remote
<1>16. CASE UNCHANGED vars
  BY <1>16, WordsKept DEF vars
<1> QED
  BY <1>1, <1>2, <1>3, <1>4, <1>5, <1>6, <1>7, <1>8, <1>9, <1>10, <1>11, <1>12, <1>13,
     <1>14, <1>15, <1>16 DEF Next

LEMMA WhatRunsIsPermitted ==
  ASSUME Typing, LetThrough, Checked, argv # <<>>
  PROVE  Allowed(typed) /\ Permitted(typed, argv)
<1>1. PICK dir \in Dirs : argv = BashWords(Wrapped(typed), dir)
  BY DEF LetThrough
<1>2. WellTyped(typed) /\ Allowed(typed) /\ IsListing(dir)
  BY DirsAssumption DEF LetThrough, Typing, TypedWords, WellTyped
<1>3. Permitted(typed, BashWords(Wrapped(typed), dir))
  <2>1. CASE Validate(Texts(typed)).exec = <<>>
    BY <1>2, <2>1, HostPermitted
  <2>2. CASE Validate(Texts(typed)).exec # <<>>
    BY <1>2, <2>2, ExecPermitted
  <2> QED BY <2>1, <2>2
<1> QED BY <1>1, <1>2, <1>3

\* Whatever is typed and whatever files lie in the directory, what host_read_exec
\* starts on the host and inside a CT writes, sets and repeats nothing, and bash
\* finds nothing to act on in the line but globs (read_allow.check).
THEOREM OnlyReads == Spec => []ReadsOnly
<1>1. Typing /\ LetThrough => ReadsOnly
  <2> SUFFICES ASSUME Typing, LetThrough PROVE ReadsOnly
    OBVIOUS
  <2>1. CASE ~(Started /\ Checked)
    BY <2>1, Zenon DEF ReadsOnly
  <2>2. CASE Started /\ Checked
    <3>1. Allowed(typed) /\ Permitted(typed, argv)
      BY <2>2, WhatRunsIsPermitted DEF Started
    <3>2. Tokenizes(typed)
      BY <3>1, Zenon DEF Allowed
    <3>3. \A c \in Ran(argv) : ~Harms(c)
      BY <3>1, Zenon DEF Permitted
    <3> QED BY <3>2, <3>3, Zenon DEF ReadsOnly
  <2> QED BY <2>1, <2>2
<1>2. Typing /\ LetThrough /\ [Next]_vars => Typing' /\ LetThrough'
  BY LetThroughStep, RecordedStep, TypedStep, RestStep, Zenon DEF Typing
<1> QED BY <1>1, <1>2, TypingInit, LetThroughInit, PTL DEF Spec

\* What was checked is what runs: the program, its verb and its options with their
\* values, whatever files bash finds, and inside a CT every word as it was typed
\* (read_allow.check, the rebuilt line).
THEOREM CheckedIsRun == Spec => []MeaningKept
<1>1. Typing /\ LetThrough => MeaningKept
  <2> SUFFICES ASSUME Typing, LetThrough PROVE MeaningKept
    OBVIOUS
  <2>1. CASE ~(Started /\ Checked)
    BY <2>1, Zenon DEF MeaningKept
  <2>2. CASE Started /\ Checked
    <3>1. Permitted(typed, argv)
      BY <2>2, WhatRunsIsPermitted DEF Started
    <3> QED BY <3>1, Zenon DEF Permitted, MeaningKept, Intended
  <2> QED BY <2>1, <2>2
<1>2. Typing /\ LetThrough /\ [Next]_vars => Typing' /\ LetThrough'
  BY LetThroughStep, RecordedStep, TypedStep, RestStep, Zenon DEF Typing
<1> QED BY <1>1, <1>2, TypingInit, LetThroughInit, PTL DEF Spec

-----------------------------------------------------------------------------
\* No process without a line, and host_read_exec's are under the limits, each on
\* its side; what the limits let go on at the last moment is stuck.
GoneInv ==
    /\ phase \in {"typing", "connecting"} => stage = 0 /\ \A p \in Sides : proc[p] = "none"
    /\ Checked => \A p \in Sides : proc[p] # "none" => argv # <<>>
    /\ proc["ct"] # "none" => Inner(Bare(argv)) # <<>>
    /\ GoneInTime

LEMMA GoneInit == Init => GoneInv
<1> SUFFICES ASSUME Init PROVE GoneInv
  OBVIOUS
<1>1. phase = "typing" /\ stage = 0 /\ proc = [p \in Sides |-> "none"]
  BY Zenon DEF Init
<1> QED BY <1>1 DEF GoneInv, GoneInTime, Sides

\* Both limits are there while host_read_exec's processes are.
LEMMA BothLimited ==
  ASSUME Typing, LetThrough, GoneInv, Checked, NEW p \in Sides, proc[p] # "none"
  PROVE  Limited(p)
<1>1. argv # <<>>
  BY DEF GoneInv
<1>2. Permitted(typed, argv)
  BY <1>1, WhatRunsIsPermitted
<1>3. UnderLimit(argv)
  <2>1. PICK dir \in Dirs : argv = BashWords(Wrapped(typed), dir)
    BY <1>1 DEF LetThrough
  <2>2. PICK S : typed \in Seq(S)
    BY DEF Typing, TypedWords
  <2> QED BY <2>1, <2>2, RunsUnderLimit
<1>4. p = "ct" => UnderLimit(Inner(Bare(argv)))
  <2>1. p = "ct" => Inner(Bare(argv)) # <<>>
    BY DEF GoneInv
  <2> QED BY <1>2, <2>1, Zenon DEF Permitted
<1>5. p = "host" \/ p = "ct"
  BY DEF Sides
<1> QED BY <1>3, <1>4, <1>5, Zenon DEF Limited

\* A step that starts nothing, ends what it will, and lets no time pass.
LEMMA GoneKept ==
  ASSUME GoneInv, UNCHANGED <<tool, argv, temper, stage>>,
         phase' = phase \/ phase' \notin {"typing", "connecting"} \/ phase = "typing",
         \A p \in Sides : proc'[p] = proc[p] \/ (proc[p] = "runs" /\ proc'[p] = "ended")
  PROVE  GoneInv'
<1>1. (Inner(Bare(argv)) = <<>>)' <=> Inner(Bare(argv)) = <<>>
  BY Zenon
<1>2. "ct" \in Sides
  BY DEF Sides
<1> QED BY <1>1, <1>2 DEF GoneInv, GoneInTime, Checked

LEMMA GoneStep == Typing /\ LetThrough /\ GoneInv /\ [Next]_vars => GoneInv'
<1> SUFFICES ASSUME Typing, LetThrough, GoneInv, [Next]_vars PROVE GoneInv'
  OBVIOUS
<1>0. "host" \in Sides /\ "ct" \in Sides /\ stage \in 0..3 /\ proc \in [Sides -> {"none", "runs", "ended"}]
  BY DEF Typing, Rest, Processes, Sides
<1>1. CASE Type \/ TypeLine
  BY <1>1, GoneKept DEF Type, TypeLine, remote
<1>2. CASE Return \/ Refuse \/ Demand \/ Accept
  BY <1>2, GoneKept DEF Return, Refuse, Demand, Accept, call, remote
<1>3. CASE ResolveFails \/ ConnectFails \/ ConnectLost
  BY <1>3, GoneKept DEF ResolveFails, ConnectFails, ConnectLost, Fail, call, remote
<1>4. CASE TunnelUp
  BY <1>4, GoneKept DEF TunnelUp, call, remote
<1>5. CASE Run
  <2>1. /\ phase = "connecting" /\ phase' = "running" /\ stage' = stage /\ tool' = tool
        /\ proc' = [host |-> "runs", ct |-> IF Inner(Bare(argv')) = <<>> THEN "none" ELSE "runs"]
        /\ \E dir \in Dirs : argv' = BashWords(Line, dir)
    BY <1>5 DEF Run, call
  <2>2. stage' = 0 /\ 0 # 3
    BY <2>1 DEF GoneInv
  <2>3. proc'["ct"] # "none" => Inner(Bare(argv')) # <<>>
    BY <2>1
  <2>4. ASSUME Checked PROVE argv' # <<>>
    <3>1. Line = Wrapped(typed)
      BY <2>4 DEF Line, Checked, PctTools
    <3>2. PICK dir \in Dirs : argv' = BashWords(Wrapped(typed), dir)
      BY <2>1, <3>1
    <3>3. PICK S : typed \in Seq(S)
      BY DEF Typing, TypedWords
    <3>4. UnderLimit(BashWords(Wrapped(typed), dir))
      BY <3>3, RunsUnderLimit
    <3> QED BY <3>2, <3>4 DEF UnderLimit
  <2>5. Inner(Bare(argv))' = Inner(Bare(argv'))
    BY Zenon
  <2> QED BY <2>1, <2>2, <2>3, <2>4, <2>5 DEF GoneInv, GoneInTime, Checked
<1>6. ASSUME NEW p \in Sides, Expire(p) \/ Ends(p) PROVE GoneInv'
  <2>1. /\ proc' = [proc EXCEPT ![p] = "ended"] /\ proc[p] = "runs"
        /\ UNCHANGED <<tool, phase, argv, temper, stage>>
    BY <1>6 DEF Expire, Ends, Due, call
  <2>2. \A q \in Sides : proc'[q] = proc[q] \/ (proc[q] = "runs" /\ proc'[q] = "ended")
    BY <1>0, <2>1
  <2> QED BY <2>1, <2>2, GoneKept
<1>7. CASE Tick
  <2>1. /\ stage < 3 /\ stage' = stage + 1 /\ \A p \in Sides : ~Due(p)
        /\ UNCHANGED <<tool, phase, argv, temper, proc>>
        /\ \E p \in Sides : proc[p] = "runs"
    BY <1>7 DEF Tick, call
  <2>2. ASSUME Checked, stage' = 3, temper # "stuck", NEW p \in Sides PROVE proc[p] # "runs"
    <3>1. SUFFICES ASSUME proc[p] = "runs" PROVE FALSE
      OBVIOUS
    <3>2. Limited(p)
      BY <2>2, <3>1, BothLimited
    <3>3. stage >= 2
      BY <2>1, <2>2, <1>0
    <3>4. Yields(p, {"stuck"})
      BY <2>2 DEF Yields
    <3> QED BY <2>1, <3>1, <3>2, <3>3, <3>4, Zenon DEF Due
  <2>3. (Inner(Bare(argv)) = <<>>)' <=> Inner(Bare(argv)) = <<>>
    BY <2>1, Zenon
  <2>4. phase \notin {"typing", "connecting"}
    BY <2>1 DEF GoneInv
  <2> QED BY <2>1, <2>2, <2>3, <2>4, <1>0 DEF GoneInv, GoneInTime, Checked
<1>8. CASE Returns \/ GiveUp \/ ConnectionLost
  BY <1>8, GoneKept DEF Returns, GiveUp, ConnectionLost, Leave, call, remote
<1>9. CASE Answer
  BY <1>9, GoneKept DEF Answer, call, remote
<1>10. CASE Cancel \/ Crash
  BY <1>10, GoneKept DEF Cancel, Crash, call, remote
<1>11. CASE UNCHANGED vars
  BY <1>11, GoneKept DEF vars
<1> QED
  BY <1>1, <1>2, <1>3, <1>4, <1>5, <1>6, <1>7, <1>8, <1>9, <1>10, <1>11 DEF Next

\* Five seconds after KILL_AFTER nothing host_read_exec has started runs, on the host
\* or inside the CT, unless it is stuck in the kernel: whatever was typed and allowed,
\* each side has its own `timeout`, and neither needs the tool, the connection or the
\* server (read_allow.check, the line it builds).
THEOREM LimitsEndIt == Spec => []GoneInTime
<1>1. GoneInv => GoneInTime
  BY DEF GoneInv
<1>2. Typing /\ LetThrough /\ GoneInv /\ [Next]_vars => Typing' /\ LetThrough' /\ GoneInv'
  BY GoneStep, LetThroughStep, RecordedStep, TypedStep, RestStep, Zenon DEF Typing
<1> QED BY <1>1, <1>2, TypingInit, LetThroughInit, GoneInit, PTL DEF Spec

-----------------------------------------------------------------------------
(* The flag gate of host_exec, lxc_exec and vm_exec.  L[t] is a language   *)
(* the lines of tool t's client stay in, whatever it makes of the one it   *)
(* has: what harms the host does not harm a guest, and is not looked for   *)
(* there.                                                                  *)

Stays(L) ==
    \A t \in Gated : /\ NoLine \in L[t]
                     /\ \A l \in L[t] : \A m \in NextLines(t, l) : m.does \in Does => m \in L[t]

\* The verdict on the lines of L by the patterns of the tool they are typed for:
\* what does harm is found, and what does none, or only shows it, is not taken for it.
Asks(t, l) == Gate!IsDestructive(PatternsOf(t), l.text)
FindsHarm(L) == \A t \in Gated : \A l \in L[t] : l.does = "harm" => Asks(t, l)
FindsOnlyHarm(L) ==
    \A t \in Gated : \A l \in L[t] :
        l # NoLine /\ l.does \in {"show", "none"} /\ ~l.plain => ~Asks(t, l)

\* While a line is typed nothing runs and no flag is given; once it is accepted,
\* the flag that went with it stays with it.
AckInv(L) ==
    /\ phase = "typing" => ack = "none" /\ (tool \in Gated => line \in L[tool])
    /\ phase \in {"typing", "returned", "refused"} => argv = <<>>
    /\ phase \notin {"typing", "returned", "refused"} /\ tool \in Gated /\ line.does = "harm" => ack = "given"

\* The flag is demanded for a line that is kept.
AskInv(L) ==
    /\ phase = "typing" => ack = "none" /\ (tool \in Gated => line \in L[tool])
    /\ OnlyDangerAsked

LEMMA ForgottenIs == Forgotten.does = line.does /\ Forgotten.plain = line.plain
  BY DEF Forgotten, NoLine

LEMMA AckInit ==
  ASSUME NEW L, Stays(L)
  PROVE  Init => AckInv(L) /\ AskInv(L)
<1> SUFFICES ASSUME Init PROVE AckInv(L) /\ AskInv(L)
  OBVIOUS
<1>1. phase = "typing" /\ line = NoLine /\ ack = "none" /\ argv = <<>>
  BY Zenon DEF Init
<1>2. tool \in Gated => NoLine \in L[tool]
  BY DEF Stays
<1> QED BY <1>1, <1>2 DEF AckInv, AskInv, OnlyDangerAsked

LEMMA AckStep ==
  ASSUME NEW L, Stays(L), FindsHarm(L)
  PROVE  AckInv(L) /\ [Next]_vars => AckInv(L)'
<1> SUFFICES ASSUME AckInv(L), [Next]_vars PROVE AckInv(L)'
  OBVIOUS
<1> USE DEF AckInv
<1>1. CASE Type
  BY <1>1 DEF Type, remote
<1>2. CASE TypeLine
  <2>1. /\ phase = "typing" /\ phase' = phase /\ ack' = ack /\ argv' = argv /\ tool \in Gated /\ tool' = tool
        /\ \E l \in NextLines(tool, line) : l.does \in Does /\ line' = l
    BY <1>2 DEF TypeLine, remote
  <2> QED BY <2>1 DEF Stays
<1>3. CASE Return
  BY <1>3 DEF Return, call, remote
<1>4. CASE Refuse
  BY <1>4 DEF Refuse, call, remote
<1>5. CASE Demand
  BY <1>5 DEF Demand, remote
<1>6. CASE Accept
  <2>1. /\ phase = "typing" /\ phase' = "connecting" /\ line' = Forgotten /\ tool' = tool
        /\ tool \in Gated /\ Danger => ack' = "given"
    BY <1>6 DEF Accept
  <2>2. tool \in Gated /\ line.does = "harm" => Danger
    BY <2>1 DEF FindsHarm, Asks, Danger
  <2> QED BY <2>1, <2>2, ForgottenIs
<1>7. CASE ResolveFails
  BY <1>7 DEF ResolveFails, Fail, call, remote
<1>8. CASE TunnelUp
  BY <1>8 DEF TunnelUp, call, remote
<1>9. CASE ConnectFails
  BY <1>9 DEF ConnectFails, Fail, call, remote
<1>10. CASE ConnectLost
  BY <1>10 DEF ConnectLost, Fail, call, remote
<1>11. CASE Run
  BY <1>11 DEF Run, call
<1>12. ASSUME NEW p \in Sides, Expire(p) \/ Ends(p) PROVE AckInv(L)'
  BY <1>12 DEF Expire, Ends, call
<1>13. CASE Tick
  BY <1>13 DEF Tick, call
<1>14. CASE Returns \/ GiveUp \/ ConnectionLost
  BY <1>14 DEF Returns, GiveUp, ConnectionLost, Leave, call, remote
<1>15. CASE Answer
  BY <1>15 DEF Answer, call, remote
<1>16. CASE Cancel
  BY <1>16 DEF Cancel, call, remote
<1>17. CASE Crash
  BY <1>17 DEF Crash, call, remote
<1>18. CASE UNCHANGED vars
  BY <1>18 DEF vars
<1> QED
  BY <1>1, <1>2, <1>3, <1>4, <1>5, <1>6, <1>7, <1>8, <1>9, <1>10, <1>11, <1>12, <1>13,
     <1>14, <1>15, <1>16, <1>17, <1>18 DEF Next

LEMMA AskStep ==
  ASSUME NEW L, Stays(L), FindsOnlyHarm(L)
  PROVE  AskInv(L) /\ [Next]_vars => AskInv(L)'
<1> SUFFICES ASSUME AskInv(L), [Next]_vars PROVE AskInv(L)'
  OBVIOUS
<1> USE DEF AskInv, OnlyDangerAsked
<1>1. CASE TypeLine
  <2>1. /\ phase = "typing" /\ phase' = phase /\ ack' = ack /\ tool \in Gated /\ tool' = tool
        /\ \E l \in NextLines(tool, line) : l.does \in Does /\ line' = l
    BY <1>1 DEF TypeLine, remote
  <2> QED BY <2>1 DEF Stays
<1>2. CASE Demand
  <2>1. phase = "typing" /\ phase' = "returned" /\ line' = Forgotten /\ line # NoLine /\ Danger /\ tool \in Gated
    BY <1>2 DEF Demand
  <2>2. ~(line.does \in {"show", "none"} /\ ~line.plain)
    BY <2>1 DEF FindsOnlyHarm, Asks, Danger
  <2> QED BY <2>1, <2>2, ForgottenIs
<1>3. CASE Accept
  <2>1. phase' = "connecting" /\ ack' \in {"none", "given"}
    BY <1>3 DEF Accept
  <2> QED BY <2>1
<1>4. ASSUME line' = line, tool' = tool, ack' = ack, phase' = phase \/ phase' # "typing" PROVE AskInv(L)'
  BY <1>4
<1>5. ASSUME \/ Type \/ Return \/ Refuse
             \/ ResolveFails \/ TunnelUp \/ ConnectFails \/ ConnectLost \/ Run
             \/ (\E p \in Sides : Expire(p) \/ Ends(p))
             \/ Tick \/ Returns \/ GiveUp \/ ConnectionLost \/ Answer \/ Cancel \/ Crash
             \/ UNCHANGED vars
      PROVE  line' = line /\ tool' = tool /\ ack' = ack /\ (phase' = phase \/ phase' # "typing")
  BY <1>5 DEF Type, Return, Refuse, ResolveFails, TunnelUp, ConnectFails, ConnectLost, Fail, Run, Expire, Ends,
     Tick, Returns, GiveUp, ConnectionLost, Leave, Answer, Cancel, Crash, call, remote, vars
<1> QED
  BY <1>1, <1>2, <1>3, <1>4, <1>5, Zenon DEF Next

\* The gate of host_exec, lxc_exec and vm_exec is as good as is_destructive over
\* the patterns of each: in any languages whose harmful lines it finds, none of
\* them starts without i_understand_data_loss, however the line was typed and whatever happens to the
\* call afterwards (tools/host_ssh.py, the gate in front of exec_command).
THEOREM GateIsObeyed ==
  ASSUME NEW L, Stays(L), FindsHarm(L)
  PROVE  Spec => []DangerAcked
<1>1. AckInv(L) => DangerAcked
  BY DEF AckInv, DangerAcked, Started
<1>2. Init => AckInv(L)
  BY AckInit
<1>3. AckInv(L) /\ [Next]_vars => AckInv(L)'
  BY AckStep
<1> QED BY <1>1, <1>2, <1>3, PTL DEF Spec

\* ... and in any languages whose harmless lines it leaves alone, the flag is
\* demanded for none of them.
THEOREM GateAsksOnly ==
  ASSUME NEW L, Stays(L), FindsOnlyHarm(L)
  PROVE  Spec => []OnlyDangerAsked
<1>1. AskInv(L) => OnlyDangerAsked
  BY DEF AskInv
<1>2. Init => AskInv(L)
  BY AckInit
<1>3. AskInv(L) /\ [Next]_vars => AskInv(L)'
  BY AskStep
<1> QED BY <1>1, <1>2, <1>3, PTL DEF Spec

-----------------------------------------------------------------------------
(* is_destructive goes three payloads deep: its equation holds.            *)

Lists == {Gate!HostPatterns, Gate!GuestPatterns}

\* One level of it, given the verdict of the next.
Level(next, depth) ==
    [pats \in Lists |-> [text \in Seq(STRING) |->
        \/ Gate!Matches(pats, text) \/ Gate!QuoteEval(text)
        \/ depth < 3 /\ \E p \in Gate!Range(text) \cap DOMAIN Gate!Payloads :
                            next[pats][Gate!Payloads[p]]
        \/ Gate!Inspected(pats, text, Gate!Commands(text, depth > 0), depth)]]

Levels(f) == f = [depth \in 0..3 |-> Level(f[depth + 1], depth)]

LEMMA LevelsExist == \E f : Levels(f)
<1> DEFINE F3 == Level(<<>>, 3)
           F2 == Level(F3, 2)
           F1 == Level(F2, 1)
           F0 == Level(F1, 0)
           f == [depth \in 0..3 |-> IF depth = 0 THEN F0 ELSE IF depth = 1 THEN F1
                                    ELSE IF depth = 2 THEN F2 ELSE F3]
<1>1. \A g, h : Level(g, 3) = Level(h, 3)
  <2>1. ~(3 < 3)
    OBVIOUS
  <2> QED BY <2>1, Zenon DEF Level
<1> HIDE DEF F3, F2, F1, F0
<1>2. f[0] = F0 /\ f[1] = F1 /\ f[2] = F2 /\ f[3] = F3
  OBVIOUS
<1>3. F0 = Level(f[1], 0) /\ F1 = Level(f[2], 1) /\ F2 = Level(f[3], 2)
  BY <1>2, Zenon DEF F0, F1, F2
<1>4. F3 = Level(f[4], 3)
  BY <1>1, Zenon DEF F3
<1>5. f = [depth \in 0..3 |-> f[depth]]
  OBVIOUS
<1> HIDE DEF f
<1>6. ASSUME NEW depth \in 0..3 PROVE f[depth] = Level(f[depth + 1], depth)
  BY <1>2, <1>3, <1>4
<1>7. f = [depth \in 0..3 |-> Level(f[depth + 1], depth)]
  BY <1>5, <1>6
<1> QED BY <1>7, Zenon DEF Levels

LEMMA FlaggedIs ==
  ASSUME NEW depth \in 0..3
  PROVE  Gate!Flagged[depth] = Level(Gate!Flagged[depth + 1], depth)
<1>1. Gate!Flagged = CHOOSE f : Levels(f)
  BY Zenon DEF Gate!Flagged, Levels, Level, Lists
<1>2. Levels(Gate!Flagged)
  BY <1>1, LevelsExist, Zenon
<1> HIDE DEF Gate!Flagged
<1> QED BY <1>2 DEF Levels

\* is_destructive's equation, as the code has it.
LEMMA FlaggedUnfolds ==
  ASSUME NEW pats \in Lists, NEW depth \in 0..3, NEW text \in Seq(STRING)
  PROVE  Gate!Flagged[depth][pats][text] <=>
            \/ Gate!Matches(pats, text) \/ Gate!QuoteEval(text)
            \/ depth < 3 /\ \E p \in Gate!Range(text) \cap DOMAIN Gate!Payloads : Gate!Flagged[depth + 1][pats][Gate!Payloads[p]]
            \/ Gate!Inspected(pats, text, Gate!Commands(text, depth > 0), depth)
<1>1. Gate!Flagged[depth] = Level(Gate!Flagged[depth + 1], depth)
  BY FlaggedIs, Zenon
<1> HIDE DEF Gate!Flagged
<1> QED BY <1>1, Zenon DEF Level

\* What the raw text gives away by itself, and the texts of its base64 literals.
Shows(pats, text) == Gate!Matches(pats, text) \/ Gate!QuoteEval(text)
Decoded(text) == {Gate!Payloads[p] : p \in Gate!Range(text) \cap DOMAIN Gate!Payloads} \cap Seq(STRING)

\* It matches a pattern, one it decodes to does, through three layers, or
\* _commands can make nothing of it (_Uninspectable).
GivenAway(pats, text) ==
    \/ Shows(pats, text)
    \/ \E one \in Decoded(text) : \/ Shows(pats, one)
                                  \/ \E two \in Decoded(one) : Shows(pats, two) \/ \E three \in Decoded(two) : Shows(pats, three)
    \/ Gate!Commands(text, FALSE).stuck

LEMMA ShownIsFlagged ==
  ASSUME NEW pats \in Lists, NEW depth \in 0..3, NEW text \in Seq(STRING), Shows(pats, text)
  PROVE  Gate!Flagged[depth][pats][text]
  BY FlaggedUnfolds, Zenon DEF Shows

LEMMA DecodedIsFlagged ==
  ASSUME NEW pats \in Lists, NEW depth \in 0..2, NEW text \in Seq(STRING),
         NEW one \in Decoded(text), Gate!Flagged[depth + 1][pats][one]
  PROVE  Gate!Flagged[depth][pats][text]
<1>1. depth \in 0..3 /\ depth < 3
  OBVIOUS
<1>2. PICK p \in Gate!Range(text) \cap DOMAIN Gate!Payloads : one = Gate!Payloads[p]
  BY Zenon DEF Decoded
<1> QED BY <1>1, <1>2, FlaggedUnfolds, Zenon

LEMMA GivenAwayIsFlagged ==
  ASSUME NEW pats \in Lists, NEW text \in Seq(STRING), GivenAway(pats, text)
  PROVE  Gate!Flagged[0][pats][text]
<1>0. /\ 0 \in 0..3 /\ 1 \in 0..3 /\ 2 \in 0..3 /\ 3 \in 0..3 /\ 0 \in 0..2 /\ 1 \in 0..2 /\ 2 \in 0..2
      /\ 0 + 1 = 1 /\ 1 + 1 = 2 /\ 2 + 1 = 3 /\ (0 > 0) = FALSE /\ \A t : Decoded(t) \subseteq Seq(STRING)
  BY DEF Decoded
<1>1. CASE Shows(pats, text)
  BY <1>0, <1>1, ShownIsFlagged, Zenon
<1>2. ASSUME NEW one \in Decoded(text), Gate!Flagged[1][pats][one] PROVE Gate!Flagged[0][pats][text]
  BY <1>0, <1>2, DecodedIsFlagged, Zenon
<1>3. ASSUME NEW one \in Decoded(text), NEW two \in Decoded(one), Gate!Flagged[2][pats][two] PROVE Gate!Flagged[0][pats][text]
  <2>1. Gate!Flagged[1][pats][one]
    BY <1>0, <1>3, DecodedIsFlagged, Zenon
  <2> QED BY <2>1, <1>2
<1>4. ASSUME NEW one \in Decoded(text), NEW two \in Decoded(one), NEW three \in Decoded(two), Shows(pats, three)
      PROVE  Gate!Flagged[0][pats][text]
  <2>1. Gate!Flagged[3][pats][three]
    BY <1>0, <1>4, ShownIsFlagged, Zenon
  <2>2. Gate!Flagged[2][pats][two]
    BY <1>0, <2>1, DecodedIsFlagged, Zenon
  <2> QED BY <2>2, <1>3
<1>5. CASE Gate!Commands(text, FALSE).stuck
  <2>1. Gate!Inspected(pats, text, Gate!Commands(text, 0 > 0), 0)
    BY <1>0, <1>5, Zenon DEF Gate!Inspected
  <2> QED BY <1>0, <2>1, FlaggedUnfolds, Zenon
<1>6. ASSUME NEW one \in Decoded(text), Shows(pats, one) PROVE Gate!Flagged[0][pats][text]
  BY <1>0, <1>2, <1>6, ShownIsFlagged, Zenon
<1>7. ASSUME NEW one \in Decoded(text), NEW two \in Decoded(one), Shows(pats, two) PROVE Gate!Flagged[0][pats][text]
  BY <1>0, <1>3, <1>7, ShownIsFlagged, Zenon
<1> QED BY <1>1, <1>4, <1>5, <1>6, <1>7, Zenon DEF GivenAway

\* The patterns are a floor, and the gate fails closed, for any client at all:
\* whatever the tokenizer finds in a line or overlooks, a line whose raw text
\* matches a pattern of the tool's own list, that decodes to one that does, or of
\* which _commands can make nothing, goes out only with i_understand_data_loss
\* (is_destructive, its first tests and its answer to _Uninspectable).
THEOREM GivenAwayIsAcked ==
  Spec => [][/\ phase = "typing" /\ phase' = "connecting" /\ tool \in Gated
             /\ line.text \in Seq(STRING) /\ GivenAway(PatternsOf(tool), line.text)
             => ack' = "given"]_vars
<1> DEFINE Acked == /\ phase = "typing" /\ phase' = "connecting" /\ tool \in Gated
                    /\ line.text \in Seq(STRING) /\ GivenAway(PatternsOf(tool), line.text)
                    => ack' = "given"
<1>1. ASSUME Next PROVE Acked
  <2>1. CASE Accept
    <3>1. tool \in Gated /\ Danger => ack' = "given"
      BY <2>1 DEF Accept
    <3>2. line.text \in Seq(STRING) /\ GivenAway(PatternsOf(tool), line.text) => Danger
      BY GivenAwayIsFlagged, Zenon DEF Danger, Gate!IsDestructive, PatternsOf, Lists
    <3> QED BY <3>1, <3>2
  <2>2. ASSUME \/ Type \/ TypeLine \/ Return \/ Refuse \/ Demand
               \/ ResolveFails \/ TunnelUp \/ ConnectFails \/ ConnectLost \/ Run
               \/ (\E p \in Sides : Expire(p) \/ Ends(p))
               \/ Tick \/ Returns \/ GiveUp \/ ConnectionLost \/ Answer \/ Cancel \/ Crash
        PROVE  ~(phase = "typing" /\ phase' = "connecting")
    BY <2>2 DEF Type, TypeLine, Return, Refuse, Demand, ResolveFails, TunnelUp, ConnectFails, ConnectLost, Fail, Run,
       Expire, Ends, Tick, Returns, GiveUp, ConnectionLost, Leave, Answer, Cancel, Crash
  <2> QED BY <1>1, <2>1, <2>2, Zenon DEF Next
<1>2. Next => Acked
  BY <1>1
<1> HIDE DEF Acked
<1>3. Spec => [][Acked]_vars
  BY <1>2, PTL DEF Spec
<1> QED BY <1>3, Zenon DEF Acked
=============================================================================
