--------------------------- MODULE SiteSyncProofs ---------------------------
(***************************************************************************)
(* Proofs about DocPages and SiteSync, for any repository, any texts, any  *)
(* edits between the steps of a build and any interruptions.               *)
(*                                                                         *)
(* The recursive definitions of DocPages are reasoned about in two steps:  *)
(* a recursion has exactly one solution (Recursion, RecursionDown), and an *)
(* induction over that solution is one over a set of indexes (CountUp,     *)
(* CountDown).                                                             *)
(***************************************************************************)
EXTENDS SiteSync, SequenceTheorems, WellFoundedInduction, TLAPS

\* Every nonempty set of numbers has a least one.
LEMMA LeastNumber ==
    ASSUME NEW T \in SUBSET Nat, T # {}
    PROVE  \E x \in T : \A y \in T : x <= y
<1>1. PICK x \in T : \A y \in T : ~ (<<y, x>> \in OpToRel(<, Nat))
    BY NatLessThanWellFounded, WFMin, Zenon
<1>2. \A y \in Nat : y < x => <<y, x>> \in OpToRel(<, Nat)
    BY Zenon DEF OpToRel
<1>3. \A y \in T : ~ (y < x)
    BY <1>1, <1>2
<1> QED
    BY <1>3

\* Induction upwards, for a set.
LEMMA CountUp ==
    ASSUME NEW n \in Nat, NEW T \in SUBSET Nat, 0 \in T,
           \A i \in 0..n : i # n /\ i \in T => i + 1 \in T
    PROVE  0..n \subseteq T
<1> DEFINE bad == {i \in 0..n : i \notin T}
<1> SUFFICES ASSUME bad # {} PROVE FALSE
    OBVIOUS
<1>0. bad \in SUBSET Nat
    OBVIOUS
<1>1. PICK i \in bad : \A j \in bad : i <= j
  <2> HIDE DEF bad
  <2> QED
    BY <1>0, LeastNumber
<1>2. i \in Nat /\ i # 0 /\ i <= n
    BY <1>1
<1>3. i - 1 \in 0..n /\ ~(i <= i - 1) /\ i - 1 # n /\ (i - 1) + 1 = i
    BY <1>2
<1>4. i - 1 \in T
    BY <1>1, <1>3
<1> QED
    BY <1>1, <1>3, <1>4

\* Induction downwards, for a set.
LEMMA CountDown ==
    ASSUME NEW n \in Nat, NEW T,
           \A i \in 1..n : (\A k \in i + 1..n : k \in T) => i \in T
    PROVE  1..n \subseteq T
<1> DEFINE bad == {m \in 0..n : m # n /\ n - m \notin T}
<1> SUFFICES ASSUME NEW x \in 1..n, x \notin T PROVE FALSE
    OBVIOUS
<1>0. n - x \in bad
  <2>1. n - x \in 0..n /\ n - x # n /\ n - (n - x) = x
    OBVIOUS
  <2> QED
    BY <2>1
<1>5. bad \in SUBSET Nat
    OBVIOUS
<1>1. PICK m \in bad : \A j \in bad : m <= j
  <2> HIDE DEF bad
  <2> QED
    BY <1>0, <1>5, LeastNumber
<1>2. n - m \in 1..n /\ n - m \notin T
    BY <1>1
<1>3. ASSUME NEW k \in (n - m) + 1..n
      PROVE  k \in T
  <2>1. n - k \in 0..n /\ n - k # n /\ n - (n - k) = k /\ ~(m <= n - k)
    BY <1>1
  <2> QED
    BY <1>1, <2>1
<1> QED
    BY <1>2, <1>3

\* Removing a line makes no new lines.
LEMMA WithoutFirstType ==
    ASSUME NEW S, NEW lines \in Seq(S), NEW kind
    PROVE  WithoutFirst(lines, kind) \in Seq(S)
<1> DEFINE hits == {i \in 1..Len(lines) : lines[i].kind = kind}
           at == CHOOSE x \in hits : \A y \in hits : x <= y
<1>1. CASE hits = {}
    BY <1>1 DEF WithoutFirst, RemoveFirstMatch
<1>2. CASE hits # {}
  <2>1. WithoutFirst(lines, kind) = SubSeq(lines, 1, at - 1) \o SubSeq(lines, at + 1, Len(lines))
    BY <1>2 DEF WithoutFirst, RemoveFirstMatch, RemoveAt, SelectInSeq, Min
  <2>2. hits \in SUBSET Nat
    OBVIOUS
  <2>3. at \in hits
    <3> HIDE DEF hits
    <3>1. \E x \in hits : \A y \in hits : x <= y
      BY <1>2, <2>2, LeastNumber
    <3> QED
      BY <3>1
  <2>4. at \in 1..Len(lines)
    BY <2>3
  <2> HIDE DEF at, hits
  <2>5. SubSeq(lines, 1, at - 1) \in Seq(S) /\ SubSeq(lines, at + 1, Len(lines)) \in Seq(S)
    <3>1. /\ at - 1 \in Int /\ at + 1 \in Int /\ Len(lines) \in Int
          /\ \A i \in 1..at - 1 : lines[i] \in S
          /\ \A i \in at + 1..Len(lines) : lines[i] \in S
      BY <2>4
    <3> QED
      BY <3>1, SubSeqProperties
  <2> QED
    BY <2>1, <2>5, ConcatProperties
<1> QED
    BY <1>1, <1>2

\* A sequence of values, each obtained from the one before.
Follows(h, b, n, F, X) == h[0] = b /\ \A i \in 1..n : h[i - 1] \in X => h[i] = F[i][h[i - 1]]

Solves(g, b, n, F, X) ==
    /\ g \in [0..n -> X]
    /\ Follows(g, b, n, F, X)
    /\ \A h : Follows(h, b, n, F, X) => \A i \in 0..n : h[i] = g[i]

\* A recursion over 1..n has exactly one solution.
LEMMA Recursion ==
    ASSUME NEW X, NEW b \in X, NEW n \in Nat, NEW F \in [1..n -> [X -> X]]
    PROVE  \E g : Solves(g, b, n, F, X)
<1> DEFINE upTo(g, m) == g[0] = b /\ \A i \in 1..n : i <= m => g[i] = F[i][g[i - 1]]
           T == {m \in Nat : \E g \in [0..n -> X] : upTo(g, m)}
<1>1. 0 \in T /\ T \in SUBSET Nat
  <2>1. [i \in 0..n |-> b] \in [0..n -> X] /\ [i \in 0..n |-> b][0] = b
    OBVIOUS
  <2>2. \A i \in 1..n : ~(i <= 0)
    OBVIOUS
  <2> QED
    BY <2>1, <2>2
<1>2. ASSUME NEW m \in 0..n, m # n, m \in T
      PROVE  m + 1 \in T
  <2>1. PICK f \in [0..n -> X] : upTo(f, m)
    BY <1>2
  <2> DEFINE g == [i \in 0..n |-> IF i = m + 1 THEN F[i][f[m]] ELSE f[i]]
  <2>2. m + 1 \in 1..n /\ m + 1 \in Nat
    BY <1>2
  <2>3. F[m + 1][f[m]] \in X
    BY <2>2
  <2>4. g \in [0..n -> X]
    BY <2>3
  <2>5. g[0] = b /\ \A i \in 0..n : i # m + 1 => g[i] = f[i]
    BY <2>1
  <2>6. g[m + 1] = F[m + 1][f[m]]
    BY <2>2
  <2> HIDE DEF g
  <2>7. ASSUME NEW i \in 1..n, i <= m + 1
        PROVE  g[i] = F[i][g[i - 1]]
    <3>1. i - 1 \in 0..n /\ i - 1 # m + 1
      BY <2>7
    <3>2. CASE i = m + 1
      <4>1. i - 1 = m
        BY <3>2
      <4> QED
        BY <2>5, <2>6, <3>1, <3>2, <4>1
    <3>3. CASE i # m + 1
      <4>1. i <= m /\ i \in 0..n
        BY <2>7, <3>3
      <4> QED
        BY <2>1, <2>5, <3>1, <3>3, <4>1
    <3> QED
      BY <3>2, <3>3
  <2> QED
    BY <2>2, <2>4, <2>5, <2>7
<1>3. n \in T
  <2> HIDE DEF T
  <2>1. 0..n \subseteq T
    BY <1>1, <1>2, CountUp
  <2> QED
    BY <2>1
<1>4. PICK g \in [0..n -> X] : upTo(g, n)
    BY <1>3
<1>5. g[0] = b /\ \A i \in 1..n : g[i] = F[i][g[i - 1]]
    BY <1>4
<1>6. ASSUME NEW h, Follows(h, b, n, F, X)
      PROVE  \A i \in 0..n : h[i] = g[i]
  <2> DEFINE U == {i \in Nat : h[i] = g[i]}
  <2>1. 0 \in U /\ U \in SUBSET Nat
    BY <1>5, <1>6 DEF Follows
  <2>2. ASSUME NEW i \in 0..n, i # n, i \in U
        PROVE  i + 1 \in U
    <3>1. i + 1 \in 1..n /\ (i + 1) - 1 = i /\ i + 1 \in Nat
      BY <2>2
    <3>2. h[i] = g[i] /\ g[i] \in X
      BY <2>2
    <3>3. h[i + 1] = F[i + 1][h[i]] /\ g[i + 1] = F[i + 1][g[i]]
      BY <1>5, <1>6, <3>1, <3>2 DEF Follows
    <3> QED
      BY <3>1, <3>2, <3>3
  <2> HIDE DEF U
  <2>3. 0..n \subseteq U
    BY <2>1, <2>2, CountUp
  <2> QED
    BY <2>3 DEF U
<1> QED
    BY <1>5, <1>6 DEF Solves, Follows

\* The same from the end to the beginning, each value obtained from a later one.
FollowsDown(h, b, n, F, next, X) ==
    h[n + 1] = b /\ \A i \in 1..n : h[next[i]] \in X => h[i] = F[i][h[next[i]]]

SolvesDown(g, b, n, F, next, X) ==
    /\ g \in [1..n + 1 -> X]
    /\ FollowsDown(g, b, n, F, next, X)
    /\ \A h : FollowsDown(h, b, n, F, next, X) => \A i \in 1..n + 1 : h[i] = g[i]

\* A recursion that looks at later indexes has exactly one solution.
LEMMA RecursionDown ==
    ASSUME NEW X, NEW b \in X, NEW n \in Nat, NEW F \in [1..n -> [X -> X]],
           NEW next \in [1..n -> 1..n + 1], \A i \in 1..n : next[i] > i
    PROVE  \E g : SolvesDown(g, b, n, F, next, X)
<1> DEFINE last(g, m) == g[n + 1] = b /\ \A i \in 1..n : i + m > n => g[i] = F[i][g[next[i]]]
           T == {m \in Nat : \E g \in [1..n + 1 -> X] : last(g, m)}
<1>1. 0 \in T /\ T \in SUBSET Nat
  <2>1. [i \in 1..n + 1 |-> b] \in [1..n + 1 -> X] /\ [i \in 1..n + 1 |-> b][n + 1] = b
    OBVIOUS
  <2>2. \A i \in 1..n : ~(i + 0 > n)
    OBVIOUS
  <2> QED
    BY <2>1, <2>2
<1>2. ASSUME NEW m \in 0..n, m # n, m \in T
      PROVE  m + 1 \in T
  <2>1. PICK f \in [1..n + 1 -> X] : last(f, m)
    BY <1>2
  <2> DEFINE at == n - m
             g == [i \in 1..n + 1 |-> IF i = at THEN F[at][f[next[at]]] ELSE f[i]]
  <2>2. at \in 1..n /\ at \in 1..n + 1 /\ at # n + 1 /\ m + 1 \in Nat
    BY <1>2
  <2>3. /\ \A i \in 1..n : i + (m + 1) > n <=> i >= at
        /\ \A i \in 1..n : i + m > n <=> i > at
    BY <1>2
  <2> HIDE DEF at
  <2>4. F[at][f[next[at]]] \in X
    BY <2>2
  <2>5. g \in [1..n + 1 -> X]
    BY <2>4
  <2>6. \A i \in 1..n + 1 : i # at => g[i] = f[i]
    OBVIOUS
  <2>7. g[at] = F[at][f[next[at]]]
    BY <2>2
  <2>8. g[n + 1] = b
    BY <2>1, <2>2
  <2> HIDE DEF g
  <2>9. ASSUME NEW i \in 1..n, i >= at
        PROVE  g[i] = F[i][g[next[i]]]
    <3>1. next[i] \in 1..n + 1 /\ next[i] # at /\ i \in 1..n + 1
      BY <2>2, <2>9
    <3>2. g[next[i]] = f[next[i]]
      BY <2>6, <3>1
    <3>3. CASE i = at
      BY <2>7, <3>2, <3>3
    <3>4. CASE i # at
      <4>1. i > at
        BY <2>2, <2>9, <3>4
      <4> QED
        BY <2>1, <2>3, <2>6, <3>1, <3>2, <3>4, <4>1
    <3> QED
      BY <3>3, <3>4
  <2> QED
    BY <2>2, <2>3, <2>5, <2>8, <2>9
<1>3. n \in T
  <2> HIDE DEF T
  <2>1. 0..n \subseteq T
    BY <1>1, <1>2, CountUp
  <2> QED
    BY <2>1
<1>4. PICK g \in [1..n + 1 -> X] : last(g, n)
    BY <1>3
<1>5. g[n + 1] = b /\ \A i \in 1..n : g[i] = F[i][g[next[i]]]
    BY <1>4
<1>6. ASSUME NEW h, FollowsDown(h, b, n, F, next, X)
      PROVE  \A i \in 1..n + 1 : h[i] = g[i]
  <2> DEFINE U == {i \in Nat : h[i] = g[i]}
  <2>1. n + 1 \in U
    BY <1>5, <1>6 DEF FollowsDown
  <2>2. ASSUME NEW i \in 1..n, \A k \in i + 1..n : k \in U
        PROVE  i \in U
    <3>1. next[i] = n + 1 \/ next[i] \in i + 1..n
      <4>1. \A k \in 1..n + 1 : k > i => k = n + 1 \/ k \in i + 1..n
        OBVIOUS
      <4> QED
        BY <4>1
    <3>2. h[next[i]] = g[next[i]] /\ g[next[i]] \in X
      BY <2>1, <2>2, <3>1
    <3>3. h[i] = F[i][h[next[i]]] /\ g[i] = F[i][g[next[i]]]
      BY <1>5, <1>6, <3>2 DEF FollowsDown
    <3> QED
      BY <3>2, <3>3
  <2> HIDE DEF U
  <2>3. 1..n \subseteq U
    BY <2>2, CountDown
  <2>4. \A i \in 1..n + 1 : i = n + 1 \/ i \in 1..n
    OBVIOUS
  <2> QED
    BY <2>1, <2>3, <2>4 DEF U
<1> QED
    BY <1>5, <1>6 DEF SolvesDown, FollowsDown

\* FlattenSeq appends one sequence after the other.
LEMMA FlattenFunction ==
    ASSUME NEW S, NEW seqs \in Seq(Seq(S))
    PROVE  \E f \in [0..Len(seqs) -> Seq(S)] :
             /\ f[0] = <<>> /\ \A i \in 1..Len(seqs) : f[i] = f[i - 1] \o seqs[i]
             /\ FlattenSeq(seqs) = f[Len(seqs)]
<1> DEFINE X == Seq(S)
           n == Len(seqs)
           F == [i \in 1..n |-> [x \in X |-> x \o seqs[i]]]
           e == <<>>
<1>1. n \in Nat /\ e \in X /\ \A i \in 1..n : seqs[i] \in X
    BY EmptySeq, LenProperties
<1>2. F \in [1..n -> [X -> X]]
    BY <1>1, ConcatProperties
<1>3. \A i \in 1..n, x \in X : F[i][x] = x \o seqs[i]
    OBVIOUS
<1> HIDE DEF X, F, n, e
<1>0. PICK g : Solves(g, e, n, F, X)
    BY <1>1, <1>2, Recursion
<1>4. /\ g \in [0..n -> X] /\ Follows(g, e, n, F, X)
      /\ \A h : Follows(h, e, n, F, X) => \A i \in 0..n : h[i] = g[i]
    BY <1>0 DEF Solves
<1>5. \A i \in 1..n : g[i - 1] \in X /\ i \in 0..n
  <2>1. \A i \in 1..n : i - 1 \in 0..n /\ i \in 0..n
    BY <1>1
  <2> QED
    BY <1>4, <2>1
<1>6. g[0] = <<>> /\ \A i \in 1..n : g[i] = g[i - 1] \o seqs[i]
    BY <1>3, <1>4, <1>5 DEF Follows, e
<1>7. CASE n = 0
  <2>1. seqs = <<>>
    BY <1>7, EmptySeq DEF n
  <2> QED
    BY <1>4, <1>6, <1>7, <2>1 DEF FlattenSeq, n, X
<1>8. CASE n # 0
  <2> DEFINE body(f, i) == IF i = 1 THEN seqs[i] ELSE f[i - 1] \o seqs[i]
             flatten == CHOOSE f : f = [i \in 1..n |-> body(f, i)]
             f0 == [i \in 1..n |-> g[i]]
  <2>1. f0 = [i \in 1..n |-> body(f0, i)]
    <3> SUFFICES ASSUME NEW i \in 1..n
                 PROVE  g[i] = body(f0, i)
      OBVIOUS
    <3>1. CASE i = 1
      <4>1. g[1] = <<>> \o seqs[1]
        <5>1. 1 \in 1..n /\ 1 - 1 = 0
          BY <3>1
        <5>2. g[1] = g[1 - 1] \o seqs[1]
          BY <1>6, <5>1
        <5> QED
          BY <1>6, <5>1, <5>2
      <4> QED
        BY <1>1, <3>1, <4>1, ConcatEmptySeq DEF X
    <3>2. CASE i # 1
      <4>1. i - 1 \in 1..n
        BY <1>1, <3>2
      <4>2. f0[i - 1] = g[i - 1]
        BY <4>1
      <4> HIDE DEF f0
      <4> QED
        BY <1>6, <3>2, <4>2
    <3> QED
      BY <3>1, <3>2
  <2>2. flatten = [i \in 1..n |-> body(flatten, i)]
    BY <2>1
  <2>3. FlattenSeq(seqs) = flatten[n]
    BY <1>8 DEF FlattenSeq, n
  <2> HIDE DEF flatten, f0
  <2>4. \A i \in 1..n : flatten[i] = body(flatten, i)
    BY <2>2
  <2> DEFINE h == [i \in 0..n |-> IF i = 0 THEN <<>> ELSE flatten[i]]
  <2>5. ASSUME NEW i \in 1..n, h[i - 1] \in X
        PROVE  h[i] = F[i][h[i - 1]]
    <3>1. i \in 0..n /\ i - 1 \in 0..n /\ i # 0
      BY <1>1
    <3>2. h[i] = flatten[i]
      BY <3>1
    <3>3. CASE i = 1
      <4>1. h[i - 1] = <<>>
        BY <3>1, <3>3
      <4> HIDE DEF h
      <4>2. F[i][h[i - 1]] = <<>> \o seqs[i]
        BY <1>1, <1>3, <4>1 DEF e
      <4>3. <<>> \o seqs[i] = seqs[i]
        BY <1>1, ConcatEmptySeq DEF X
      <4> QED
        BY <2>4, <3>2, <3>3, <4>2, <4>3
    <3>4. CASE i # 1
      <4>1. i - 1 # 0
        BY <1>1, <3>4
      <4>2. h[i - 1] = flatten[i - 1]
        BY <3>1, <4>1
      <4> HIDE DEF h
      <4> QED
        BY <1>3, <2>4, <2>5, <3>2, <3>4, <4>2
    <3> QED
      BY <3>3, <3>4
  <2>6. h[0] = <<>> /\ h[n] = flatten[n] /\ n \in 0..n
    BY <1>1, <1>8
  <2> HIDE DEF h
  <2>7. h[n] = g[n]
    BY <1>4, <2>5, <2>6 DEF Follows, e
  <2> QED
    BY <1>4, <1>6, <2>3, <2>6, <2>7 DEF n, X
<1> QED
    BY <1>7, <1>8

LEMMA FlattenType ==
    ASSUME NEW S, NEW seqs \in Seq(Seq(S))
    PROVE  FlattenSeq(seqs) \in Seq(S)
<1>1. Len(seqs) \in 0..Len(seqs)
    BY LenProperties
<1>2. PICK f \in [0..Len(seqs) -> Seq(S)] : FlattenSeq(seqs) = f[Len(seqs)]
    BY FlattenFunction
<1> QED
    BY <1>1, <1>2

LEMMA PathStepType ==
    ASSUME NEW at \in Seq(STRING), NEW segment \in STRING
    PROVE  PathStep(at, segment) \in Seq(STRING)
<1>1. Append(at, segment) \in Seq(STRING)
    BY AppendProperties
<1>2. SubSeq(at, 1, Len(at) - 1) \in Seq(STRING)
  <2>1. Len(at) - 1 \in Int /\ \A i \in 1..Len(at) - 1 : at[i] \in STRING
    OBVIOUS
  <2> QED
    BY <2>1, SubSeqProperties
<1> QED
    BY <1>1, <1>2 DEF PathStep, Front

\* posix.normalize of a path is a path.
LEMMA RepoPathType ==
    ASSUME NEW fromDir \in Seq(STRING), NEW path \in Seq(STRING)
    PROVE  RepoPath(fromDir, path) \in Seq(STRING)
<1> DEFINE X == Seq(STRING)
           n == Len(path)
           F == [i \in 1..n |-> [x \in X |-> PathStep(x, path[i])]]
<1>1. n \in Nat /\ fromDir \in X /\ \A i \in 1..n : path[i] \in STRING
    BY LenProperties
<1>2. F \in [1..n -> [X -> X]]
    BY <1>1, PathStepType
<1>3. \A i \in 1..n, x \in X : F[i][x] = PathStep(x, path[i])
    OBVIOUS
<1> HIDE DEF X, F, n
<1>4. PICK g : Solves(g, fromDir, n, F, X)
    BY <1>1, <1>2, Recursion
<1>5. /\ g \in [0..n -> X] /\ Follows(g, fromDir, n, F, X)
      /\ \A h : Follows(h, fromDir, n, F, X) => \A i \in 0..n : h[i] = g[i]
    BY <1>4 DEF Solves
<1>6. \A i \in 0..n : i # 0 => i \in 1..n /\ i - 1 \in 0..n
    BY <1>1
<1> DEFINE body(f, i) == IF i = 0 THEN fromDir ELSE PathStep(f[i - 1], path[i])
           at == CHOOSE f : f = [i \in 0..n |-> body(f, i)]
<1>7. g = [i \in 0..n |-> body(g, i)]
  <2> SUFFICES ASSUME NEW i \in 0..n
               PROVE  g[i] = body(g, i)
    BY <1>5
  <2> QED
    BY <1>3, <1>5, <1>6 DEF Follows
<1>8. at = [i \in 0..n |-> body(at, i)]
    BY <1>7
<1>9. RepoPath(fromDir, path) = at[n]
    BY DEF RepoPath, n
<1> HIDE DEF at
<1>10. Follows(at, fromDir, n, F, X)
  <2>1. \A i \in 0..n : at[i] = body(at, i)
    BY <1>8
  <2>2. 0 \in 0..n /\ \A i \in 1..n : i \in 0..n /\ i # 0
    BY <1>1
  <2> QED
    BY <1>3, <2>1, <2>2 DEF Follows
<1>11. n \in 0..n
    BY <1>1
<1> QED
    BY <1>5, <1>9, <1>10, <1>11 DEF X

\* The end of an alert is the first line below it that is not quoted.
LEMMA AlertEndIs ==
    ASSUME NEW S, NEW lines \in Seq(S), NEW i \in 1..Len(lines)
    PROVE  /\ AlertEnd(lines, i) \in i + 1..Len(lines) + 1
           /\ AlertEnd(lines, i) = Len(lines) + 1 \/ ~IsQuoted(lines[AlertEnd(lines, i)])
           /\ \A k \in i + 1..AlertEnd(lines, i) - 1 : IsQuoted(lines[k])
<1> DEFINE ends == {n \in i + 1..Len(lines) + 1 : n = Len(lines) + 1 \/ ~IsQuoted(lines[n])}
<1>1. Len(lines) \in Nat
    BY LenProperties
<1>2. ends \in SUBSET Nat /\ Len(lines) + 1 \in ends
    BY <1>1
<1>3. PICK n \in ends : \A m \in ends : n <= m
  <2> HIDE DEF ends
  <2> QED
    BY <1>2, LeastNumber
<1>4. ASSUME NEW k \in i + 1..n - 1
      PROVE  IsQuoted(lines[k])
  <2>1. k \in i + 1..Len(lines) + 1 /\ ~(n <= k)
    BY <1>1, <1>3
  <2> QED
    BY <1>3, <2>1
<1>5. \E m \in i + 1..Len(lines) + 1 :
         /\ m = Len(lines) + 1 \/ ~IsQuoted(lines[m])
         /\ \A k \in i + 1..m - 1 : IsQuoted(lines[k])
    BY <1>3, <1>4
<1> QED
    BY <1>5 DEF AlertEnd

\* The outer loop of convertAlerts is the recursion that its definition says.
LEMMA ConvertFunction ==
    ASSUME NEW S, NEW lines \in Seq(S), NEW U,
           \A i \in 1..Len(lines) : Pushed(lines, i) \in Seq(U)
    PROVE  \E f \in [1..Len(lines) + 1 -> Seq(U)] :
             /\ f[Len(lines) + 1] = <<>>
             /\ \A i \in 1..Len(lines) : f[i] = Pushed(lines, i) \o f[After(lines, i)]
             /\ convertAlerts(lines) = f[1]
<1> DEFINE X == Seq(U)
           n == Len(lines)
           F == [i \in 1..n |-> [x \in X |-> Pushed(lines, i) \o x]]
           next == [i \in 1..n |-> After(lines, i)]
           e == <<>>
<1>1. n \in Nat /\ e \in X /\ \A i \in 1..n : Pushed(lines, i) \in X
    BY EmptySeq, LenProperties
<1>2. F \in [1..n -> [X -> X]]
    BY <1>1, ConcatProperties
<1>3. \A i \in 1..n, x \in X : F[i][x] = Pushed(lines, i) \o x
    OBVIOUS
<1>4. \A i \in 1..n : After(lines, i) \in 1..n + 1 /\ After(lines, i) > i
  <2> SUFFICES ASSUME NEW i \in 1..n
               PROVE  After(lines, i) \in 1..n + 1 /\ After(lines, i) > i
    OBVIOUS
  <2>1. AlertEnd(lines, i) \in i + 1..n + 1
    BY AlertEndIs
  <2>2. \A k \in i + 1..n + 1 : k \in 1..n + 1 /\ k > i
    BY <1>1
  <2>3. i + 1 \in i + 1..n + 1
    BY <1>1
  <2> HIDE DEF n
  <2> QED
    BY <2>1, <2>2, <2>3 DEF After
<1>5. /\ next \in [1..n -> 1..n + 1] /\ \A i \in 1..n : next[i] > i
      /\ \A i \in 1..n : next[i] = After(lines, i)
    BY <1>4
<1> HIDE DEF X, F, n, next, e
<1>6. PICK g : SolvesDown(g, e, n, F, next, X)
    BY <1>1, <1>2, <1>5, RecursionDown
<1>7. /\ g \in [1..n + 1 -> X] /\ FollowsDown(g, e, n, F, next, X)
      /\ \A h : FollowsDown(h, e, n, F, next, X) => \A i \in 1..n + 1 : h[i] = g[i]
    BY <1>6 DEF SolvesDown
<1>8. g[n + 1] = <<>> /\ \A i \in 1..n : g[i] = Pushed(lines, i) \o g[After(lines, i)]
  <2>1. g[n + 1] = e /\ \A i \in 1..n : g[next[i]] \in X => g[i] = F[i][g[next[i]]]
    BY <1>7 DEF FollowsDown
  <2>2. ASSUME NEW i \in 1..n
        PROVE  g[i] = Pushed(lines, i) \o g[After(lines, i)]
    <3>1. g[next[i]] \in X
      BY <1>5, <1>7
    <3> QED
      BY <1>3, <1>5, <2>1, <3>1
  <2> QED
    BY <2>1, <2>2 DEF e
<1> DEFINE body(f, i) == IF i > n THEN <<>> ELSE Pushed(lines, i) \o f[After(lines, i)]
           from == CHOOSE f : f = [i \in 1..n + 1 |-> body(f, i)]
<1>9. /\ n + 1 > n /\ n + 1 \in 1..n + 1 /\ 1 \in 1..n + 1
      /\ \A i \in 1..n : ~(i > n) /\ i \in 1..n + 1
      /\ \A i \in 1..n + 1 : i \in 1..n \/ i = n + 1
    BY <1>1
<1>10. g = [i \in 1..n + 1 |-> body(g, i)]
  <2> SUFFICES ASSUME NEW i \in 1..n + 1
               PROVE  g[i] = body(g, i)
    BY <1>7
  <2> QED
    BY <1>8, <1>9
<1>11. from = [i \in 1..n + 1 |-> body(from, i)]
    BY <1>10
<1>12. convertAlerts(lines) = from[1]
    BY DEF convertAlerts, n
<1> HIDE DEF from
<1>13. FollowsDown(from, e, n, F, next, X)
  <2>1. \A i \in 1..n + 1 : from[i] = body(from, i)
    BY <1>11
  <2>2. from[n + 1] = e
    BY <1>9, <2>1 DEF e
  <2>3. ASSUME NEW i \in 1..n, from[next[i]] \in X
        PROVE  from[i] = F[i][from[next[i]]]
    <3>1. from[i] = Pushed(lines, i) \o from[After(lines, i)]
      BY <1>9, <2>1
    <3> QED
      BY <1>3, <1>5, <2>3, <3>1
  <2> HIDE DEF body
  <2> QED
    BY <2>2, <2>3 DEF FollowsDown
<1>14. from[1] = g[1]
    BY <1>7, <1>9, <1>13
<1> QED
    BY <1>7, <1>8, <1>12, <1>14 DEF n, X
-----------------------------------------------------------------------------
PageLines == [kind : STRING, link : Destinations \cup {NoLink}]

LEMMA SourceLineIs ==
    ASSUME NEW line \in SourceLines
    PROVE  /\ line = Line(line.kind, line.link)
           /\ line.kind \in STRING
           /\ line.link \in Targets(Seq(STRING), STRING) \cup {NoLink}
           /\ line.link # NoLink => ~IsAlert(line)
    BY DEF SourceLines, Line

LEMMA Singleton ==
    ASSUME NEW S, NEW x \in S
    PROVE  <<x>> \in Seq(S) /\ Len(<<x>>) = 1 /\ <<x>>[1] = x
    OBVIOUS

LEMMA Couple ==
    ASSUME NEW S, NEW x \in S, NEW y \in S
    PROVE  <<x, y>> \in Seq(S)
    OBVIOUS

LEMMA CoupleIsJoined ==
    ASSUME NEW S, NEW x \in S, NEW y \in S
    PROVE  <<x>> \o <<y>> = <<x, y>>
<1> DEFINE a == <<x>>
           b == <<y>>
           c == <<x, y>>
<1>1. a \in Seq(S) /\ Len(a) = 1 /\ a[1] = x /\ b \in Seq(S) /\ Len(b) = 1 /\ b[1] = y
    BY Singleton
<1>2. c \in Seq(S) /\ Len(c) = 2 /\ c[1] = x /\ c[2] = y
    BY Couple
<1> HIDE DEF a, b, c
<1>3. /\ a \o b \in Seq(S) /\ Len(a \o b) = Len(a) + Len(b)
      /\ \A i \in 1..Len(a) + Len(b) : (a \o b)[i] = IF i <= Len(a) THEN a[i] ELSE b[i - Len(a)]
    BY <1>1, ConcatProperties
<1> DEFINE d == a \o b
<1>4. d \in Seq(S) /\ Len(d) = 2 /\ d[1] = x /\ d[2] = y
    BY <1>1, <1>3
<1> HIDE DEF d
<1>5. Len(d) = Len(c) /\ \A i \in 1..Len(d) : d[i] = c[i]
    BY <1>2, <1>4
<1>6. d = c
    BY <1>2, <1>4, <1>5, SeqEqual
<1> QED
    BY <1>6 DEF a, b, c, d

LEMMA Pair ==
    ASSUME NEW S, NEW p \in Seq(S), Len(p) = 2
    PROVE  p[2] \in S /\ <<p[2]>> \in Seq(S) /\ p = <<p[1], p[2]>>
<1>1. 2 \in 1..Len(p)
    OBVIOUS
<1>2. p[2] \in S
    BY <1>1, ElementOfSeq
<1>3. <<p[2]>> \in Seq(S)
    BY <1>2, Singleton
<1>4. p = <<p[1], p[2]>>
    BY SeqEqual
<1> QED
    BY <1>2, <1>3, <1>4

LEMMA FirstOfTwo ==
    ASSUME NEW S, NEW p \in Seq(S), Len(p) > 2, NEW a, NEW b, SubSeq(p, 1, 2) = <<a, b>>
    PROVE  p # <<>> /\ p[1] = a
<1>1. SubSeq(p, 1, 2)[1] = p[1]
    BY SubSeqProperties
<1>2. <<a, b>>[1] = a
    OBVIOUS
<1>3. p # <<>>
    OBVIOUS
<1> QED
    BY <1>1, <1>2, <1>3

\* What rewriteTarget does with a relative target, by the file that it names.
LeadsTo(d, file, anchor, names) ==
    \/ file = <<"README">> /\ d = [to |-> "page", path |-> <<"index">>, anchor |-> anchor]
    \/ \E p \in names \cap WordNames :
         file = <<"docs", p>> /\ d = [to |-> "page", path |-> <<p>>, anchor |-> anchor]
    \/ d.to = "static" /\ <<"docs">> \o d.path = file
    \/ /\ d = [to |-> "github", path |-> file, anchor |-> anchor]
       /\ file # <<"README">> /\ \A p \in names \cap WordNames : file # <<"docs", p>>

\* rewriteTarget makes destinations, and a relative target leads to what it names.
LEMMA DestinationIs ==
    ASSUME NEW target \in Targets(Seq(STRING), STRING), NEW fromDir \in Seq(STRING), NEW names
    PROVE  /\ rewriteTarget(target, fromDir, names) \in Destinations
           /\ target.relative =>
                LeadsTo(rewriteTarget(target, fromDir, names), RepoPath(fromDir, target.path),
                        target.anchor, names)
<1> DEFINE path == RepoPath(fromDir, target.path)
           dest(to, where, anchor) == [to |-> to, path |-> where, anchor |-> anchor]
           d == rewriteTarget(target, fromDir, names)
           goal == d \in Destinations /\ (target.relative => LeadsTo(d, path, target.anchor, names))
<1>1. target.path \in Seq(STRING) /\ target.anchor \in STRING
    BY DEF Targets
<1>2. path \in Seq(STRING)
    BY <1>1, RepoPathType
<1>3. \A to \in {"same", "page", "static", "github"}, where \in Seq(STRING), anchor \in STRING :
         dest(to, where, anchor) \in Destinations
    BY DEF Destinations
<1>4. "index" \in STRING /\ NoAnchor \in STRING
    BY StringsAssumption
<1> SUFFICES goal
    BY DEF path
<1> DEFINE isPage == Len(path) = 2 /\ path[1] = "docs" /\ path[2] \in names \cap WordNames
           isShot == Len(path) > 2 /\ SubSeq(path, 1, 2) = <<"docs", "screenshots">>
<1> HIDE DEF path
<1>5. d = IF ~target.relative THEN dest("same", target.path, target.anchor)
          ELSE IF path = <<"README">> THEN dest("page", <<"index">>, target.anchor)
          ELSE IF isPage THEN dest("page", <<path[2]>>, target.anchor)
          ELSE IF isShot THEN dest("static", Tail(path), NoAnchor)
          ELSE dest("github", path, target.anchor)
    BY DEF rewriteTarget, path
<1> HIDE DEF d
<1>6. CASE ~target.relative
    BY <1>1, <1>3, <1>5, <1>6
<1>7. CASE target.relative /\ path = <<"README">>
  <2>1. d = dest("page", <<"index">>, target.anchor)
    BY <1>5, <1>7
  <2>2. <<"index">> \in Seq(STRING)
    BY <1>4, Singleton
  <2>3. LeadsTo(d, path, target.anchor, names)
    BY <1>7, <2>1 DEF LeadsTo
  <2> QED
    BY <1>1, <1>3, <2>1, <2>2, <2>3
<1>8. CASE target.relative /\ path # <<"README">> /\ isPage
  <2>1. d = dest("page", <<path[2]>>, target.anchor)
    BY <1>5, <1>8
  <2>2. Len(path) = 2 /\ path[1] = "docs"
    BY <1>8
  <2>3. <<path[2]>> \in Seq(STRING) /\ path = <<path[1], path[2]>>
    BY <1>2, <2>2, Pair
  <2>4. path = <<"docs", path[2]>>
    BY <2>2, <2>3
  <2>5. LeadsTo(d, path, target.anchor, names)
    BY <1>8, <2>1, <2>4 DEF LeadsTo
  <2> QED
    BY <1>1, <1>3, <2>1, <2>3, <2>5
<1>9. CASE target.relative /\ path # <<"README">> /\ ~isPage /\ isShot
  <2>1. d = dest("static", Tail(path), NoAnchor)
    BY <1>5, <1>9
  <2>2. path # <<>> /\ path[1] = "docs"
    BY <1>2, <1>9, FirstOfTwo
  <2>3. Tail(path) \in Seq(STRING) /\ <<"docs">> \o Tail(path) = path
    BY <1>2, <2>2
  <2>4. d.to = "static" /\ d.path = Tail(path)
    BY <2>1
  <2>5. LeadsTo(d, path, target.anchor, names)
    BY <2>3, <2>4 DEF LeadsTo
  <2> QED
    BY <1>3, <1>4, <2>1, <2>3, <2>5
<1>10. CASE target.relative /\ path # <<"README">> /\ ~isPage /\ ~isShot
  <2>1. d = dest("github", path, target.anchor)
    BY <1>5, <1>10
  <2>2. \A p \in names \cap WordNames : path # <<"docs", p>>
    BY <1>10
  <2>3. LeadsTo(d, path, target.anchor, names)
    BY <1>10, <2>1, <2>2 DEF LeadsTo
  <2> QED
    BY <1>1, <1>2, <1>3, <2>1, <2>3
<1> HIDE DEF goal, isPage, isShot
<1> QED
    BY <1>6, <1>7, <1>8, <1>9, <1>10

\* rewriteLinks replaces links and nothing else.
LEMMA Rewritten ==
    ASSUME NEW lines \in Seq(SourceLines), NEW fromDir \in Seq(STRING), NEW names
    PROVE  /\ rewriteLinks(lines, fromDir, names) \in Seq(PageLines)
           /\ Len(rewriteLinks(lines, fromDir, names)) = Len(lines)
           /\ \A i \in 1..Len(lines) :
                /\ rewriteLinks(lines, fromDir, names)[i].kind = lines[i].kind
                /\ lines[i].link # NoLink =>
                     rewriteLinks(lines, fromDir, names)[i].link
                       = rewriteTarget(lines[i].link, fromDir, names)
<1> DEFINE new(i) == IF lines[i].link = NoLink THEN lines[i]
                     ELSE [lines[i] EXCEPT !.link = rewriteTarget(lines[i].link, fromDir, names)]
           r == [i \in 1..Len(lines) |-> new(i)]
<1>1. rewriteLinks(lines, fromDir, names) = r
    BY DEF rewriteLinks
<1>2. ASSUME NEW i \in 1..Len(lines)
      PROVE  /\ new(i) \in PageLines
             /\ new(i).kind = lines[i].kind
             /\ lines[i].link # NoLink =>
                  new(i).link = rewriteTarget(lines[i].link, fromDir, names)
  <2>1. lines[i] \in SourceLines
    BY ElementOfSeq
  <2>2. /\ lines[i] = Line(lines[i].kind, lines[i].link)
        /\ lines[i].kind \in STRING
        /\ lines[i].link \in Targets(Seq(STRING), STRING) \cup {NoLink}
    BY <2>1, SourceLineIs
  <2>3. CASE lines[i].link = NoLink
    <3>1. new(i) = lines[i]
      BY <2>3
    <3> QED
      BY <2>2, <2>3, <3>1 DEF PageLines, Line
  <2>4. CASE lines[i].link # NoLink
    <3> DEFINE d == rewriteTarget(lines[i].link, fromDir, names)
    <3>1. d \in Destinations
      BY <2>2, <2>4, DestinationIs
    <3>2. new(i) = [lines[i] EXCEPT !.link = d]
      BY <2>4
    <3> HIDE DEF d, new
    <3>3. new(i) = Line(lines[i].kind, d)
      BY <2>2, <3>2 DEF Line
    <3>4. new(i) \in PageLines /\ new(i).kind = lines[i].kind /\ new(i).link = d
      BY <2>2, <3>1, <3>3 DEF PageLines, Line
    <3> QED
      BY <3>4 DEF d
  <2> QED
    BY <2>3, <2>4
<1> HIDE DEF new
<1>3. r \in Seq(PageLines) /\ Len(r) = Len(lines)
  <2>1. Len(lines) \in Nat /\ \A i \in 1..Len(lines) : new(i) \in PageLines
    BY <1>2, LenProperties
  <2> QED
    BY <2>1
<1>4. \A i \in 1..Len(lines) : r[i] = new(i)
    OBVIOUS
<1> QED
    BY <1>1, <1>2, <1>3, <1>4

LEMMA PageLineIs ==
    ASSUME NEW line \in PageLines
    PROVE  /\ Unquote(line) \in PageLines
           /\ Unquote(line).kind = "text" /\ Unquote(line).link = line.link
           /\ IsAlert(line) => Line(asideTypes[line.kind], NoLink) \in PageLines
           /\ Line("close", NoLink) \in PageLines
<1>1. Unquote(line) \in PageLines /\ Unquote(line).kind = "text" /\ Unquote(line).link = line.link
    BY StringsAssumption DEF PageLines, Unquote
<1>2. IsAlert(line) => asideTypes[line.kind] \in {"note", "tip", "caution", "danger"}
    BY DEF IsAlert, asideTypes
<1>3. IsAlert(line) => asideTypes[line.kind] \in STRING
    BY <1>2, StringsAssumption
<1>4. Line("close", NoLink) \in PageLines
    BY StringsAssumption DEF PageLines, Line
<1>5. IsAlert(line) => Line(asideTypes[line.kind], NoLink) \in PageLines
    BY <1>3 DEF PageLines, Line
<1> QED
    BY <1>1, <1>4, <1>5

\* Whatever an iteration pushes, line by line.
LEMMA PushedIs ==
    ASSUME NEW lines \in Seq(PageLines), NEW i \in 1..Len(lines)
    PROVE  /\ Pushed(lines, i) \in Seq(PageLines)
           /\ ~IsAlert(lines[i]) => Pushed(lines, i) = <<lines[i]>>
           /\ IsAlert(lines[i]) =>
                /\ Len(Pushed(lines, i)) = AlertEnd(lines, i) - i + 1
                /\ Pushed(lines, i)[1] = Line(asideTypes[lines[i].kind], NoLink)
                /\ \A k \in i + 1..AlertEnd(lines, i) - 1 :
                     Pushed(lines, i)[k - i + 1] = Unquote(lines[k])
                /\ Pushed(lines, i)[AlertEnd(lines, i) - i + 1] = Line("close", NoLink)
<1>1. lines[i] \in PageLines
    BY ElementOfSeq
<1>2. CASE ~IsAlert(lines[i])
  <2>1. Pushed(lines, i) = <<lines[i]>>
    BY <1>2 DEF Pushed
  <2>2. <<lines[i]>> \in Seq(PageLines)
    BY <1>1, Singleton
  <2> QED
    BY <1>2, <2>1, <2>2
<1>3. CASE IsAlert(lines[i])
  <2> DEFINE a == Line(asideTypes[lines[i].kind], NoLink)
             c == Line("close", NoLink)
             m == AlertEnd(lines, i) - i - 1
             q == [k \in 1..m |-> Unquote(lines[i + k])]
  <2>1. Pushed(lines, i) = <<a>> \o q \o <<c>>
    BY <1>3 DEF Pushed
  <2>2. AlertEnd(lines, i) \in i + 1..Len(lines) + 1
    BY AlertEndIs
  <2>3. m \in Nat /\ AlertEnd(lines, i) = m + i + 1
    BY <2>2
  <2>4. \A k \in 1..m : Unquote(lines[i + k]) \in PageLines
    <3> SUFFICES ASSUME NEW k \in 1..m PROVE Unquote(lines[i + k]) \in PageLines
      OBVIOUS
    <3>1. i + k \in 1..Len(lines)
      BY <2>2
    <3>2. lines[i + k] \in PageLines
      BY <3>1, ElementOfSeq
    <3> QED
      BY <3>2, PageLineIs
  <2>5. a \in PageLines /\ c \in PageLines
    BY <1>1, <1>3, PageLineIs
  <2> HIDE DEF a, c, m
  <2>6. q \in Seq(PageLines) /\ Len(q) = m
    BY <2>3, <2>4
  <2>7. /\ <<a>> \in Seq(PageLines) /\ Len(<<a>>) = 1 /\ <<a>>[1] = a
        /\ <<c>> \in Seq(PageLines) /\ Len(<<c>>) = 1 /\ <<c>>[1] = c
    BY <2>5, Singleton
  <2>8. \A k \in 1..m : q[k] = Unquote(lines[i + k])
    OBVIOUS
  <2> HIDE DEF q
  <2> DEFINE p == <<a>> \o q
  <2>9. /\ p \in Seq(PageLines) /\ Len(p) = m + 1 /\ p[1] = a
        /\ \A k \in 1..m : p[k + 1] = q[k]
    <3> DEFINE h == <<a>>
    <3>1. h \in Seq(PageLines) /\ Len(h) = 1 /\ h[1] = a
      BY <2>7
    <3> HIDE DEF h
    <3>2. /\ h \o q \in Seq(PageLines) /\ Len(h \o q) = Len(h) + Len(q)
          /\ \A k \in 1..Len(h) + Len(q) :
               (h \o q)[k] = IF k <= Len(h) THEN h[k] ELSE q[k - Len(h)]
      BY <2>6, <3>1, ConcatProperties
    <3>3. Len(h \o q) = m + 1 /\ (h \o q)[1] = a /\ \A k \in 1..m : (h \o q)[k + 1] = q[k]
      BY <2>3, <2>6, <3>1, <3>2
    <3> QED
      BY <3>2, <3>3 DEF h
  <2> HIDE DEF p
  <2>10. /\ p \o <<c>> \in Seq(PageLines) /\ Len(p \o <<c>>) = m + 2
         /\ (p \o <<c>>)[1] = a /\ (p \o <<c>>)[m + 2] = c
         /\ \A k \in 1..m : (p \o <<c>>)[k + 1] = q[k]
    BY <2>3, <2>7, <2>9, ConcatProperties
  <2>11. Pushed(lines, i) = p \o <<c>>
    BY <2>1 DEF p
  <2>12. AlertEnd(lines, i) - i + 1 = m + 2
    BY <2>3
  <2>13. ASSUME NEW k \in i + 1..AlertEnd(lines, i) - 1
         PROVE  Pushed(lines, i)[k - i + 1] = Unquote(lines[k])
    <3>1. k - i \in 1..m /\ i + (k - i) = k
      BY <2>3
    <3> QED
      BY <2>8, <2>10, <2>11, <3>1
  <2> QED
    BY <1>3, <2>10, <2>11, <2>12, <2>13 DEF a, c
<1> QED
    BY <1>2, <1>3

\* The elements of a concatenation.
Joined(s, t, u) ==
    /\ Len(s) \in Nat /\ Len(t) \in Nat /\ Len(u) = Len(s) + Len(t)
    /\ \A k \in 1..Len(s) : k \in 1..Len(u) /\ u[k] = s[k]
    /\ \A k \in 1..Len(t) : Len(s) + k \in 1..Len(u) /\ u[Len(s) + k] = t[k]

LEMMA Concat ==
    ASSUME NEW S, NEW s \in Seq(S), NEW t \in Seq(S)
    PROVE  Joined(s, t, s \o t)
<1>1. Len(s) \in Nat /\ Len(t) \in Nat
    BY LenProperties
<1>2. /\ Len(s \o t) = Len(s) + Len(t)
      /\ \A k \in 1..Len(s) + Len(t) : (s \o t)[k] = IF k <= Len(s) THEN s[k] ELSE t[k - Len(s)]
    BY ConcatProperties
<1>3. \A k \in 1..Len(s) : k \in 1..Len(s) + Len(t) /\ k <= Len(s)
    BY <1>1
<1>4. \A k \in 1..Len(t) :
        /\ Len(s) + k \in 1..Len(s) + Len(t) /\ ~(Len(s) + k <= Len(s))
        /\ (Len(s) + k) - Len(s) = k
    BY <1>1
<1> QED
    BY <1>1, <1>2, <1>3, <1>4 DEF Joined

\* The conversion of alerts loses no link.
LEMMA KeptLinks ==
    ASSUME NEW lines \in Seq(PageLines), NEW i \in 1..Len(lines), ~IsAlert(lines[i])
    PROVE  \E k \in DOMAIN convertAlerts(lines) : convertAlerts(lines)[k].link = lines[i].link
<1> DEFINE n == Len(lines)
<1>1. n \in Nat /\ i \in 1..n
    BY LenProperties
<1>2. \A j \in 1..n : Pushed(lines, j) \in Seq(PageLines)
    BY PushedIs
<1>3. PICK f \in [1..n + 1 -> Seq(PageLines)] :
        /\ \A j \in 1..n : f[j] = Pushed(lines, j) \o f[After(lines, j)]
        /\ convertAlerts(lines) = f[1]
    BY <1>2, ConvertFunction
<1> DEFINE found(j) == \E k \in 1..Len(f[j]) : f[j][k].link = lines[i].link
           T == {j \in 1..n : i >= j => found(j)}
<1>4. ASSUME NEW j \in 1..n, \A k \in j + 1..n : k \in T, i >= j
      PROVE  found(j)
  <2> DEFINE p == Pushed(lines, j)
             a == After(lines, j)
             g == f[a]
  <2>1. a \in j + 1..n + 1 /\ (IsAlert(lines[j]) => a = AlertEnd(lines, j))
                           /\ (~IsAlert(lines[j]) => a = j + 1)
    BY <1>1, AlertEndIs DEF After
  <2> HIDE DEF a
  <2>2. p \in Seq(PageLines) /\ g \in Seq(PageLines) /\ f[j] = p \o g
    <3>1. a \in 1..n + 1
      BY <1>1, <2>1
    <3> QED
      BY <1>2, <1>3, <3>1 DEF a
  <2> HIDE DEF p, g
  <2>3. /\ \A k \in 1..Len(p) : k \in 1..Len(f[j]) /\ f[j][k] = p[k]
        /\ \A k \in 1..Len(g) : Len(p) + k \in 1..Len(f[j]) /\ f[j][Len(p) + k] = g[k]
    <3>1. Joined(p, g, p \o g)
      BY <2>2, Concat
    <3>2. Joined(p, g, f[j])
      BY <2>2, <3>1
    <3> QED
      BY <3>2 DEF Joined
  <2>4. CASE i >= a
    <3>1. a \in j + 1..n
      BY <1>1, <2>1, <2>4
    <3>2. found(a)
      BY <1>4, <2>4, <3>1
    <3>3. PICK k \in 1..Len(g) : g[k].link = lines[i].link
      BY <3>2 DEF g
    <3> QED
      BY <2>3, <3>3
  <2>5. CASE i < a /\ ~IsAlert(lines[j])
    <3>1. i = j
      BY <1>1, <1>4, <2>1, <2>5
    <3>2. p = <<lines[i]>>
      BY <2>5, <3>1, PushedIs DEF p
    <3>3. Len(p) = 1 /\ p[1] = lines[i]
      BY <3>2
    <3> QED
      BY <2>3, <3>3
  <2>6. CASE i < a /\ IsAlert(lines[j])
    <3>1. i # j
      BY <2>6
    <3>2. i \in j + 1..a - 1 /\ i - j + 1 \in 1..a - j + 1
      BY <1>1, <1>4, <2>1, <2>6, <3>1
    <3>3. Len(p) = a - j + 1 /\ p[i - j + 1] = Unquote(lines[i])
      BY <2>1, <2>6, <3>2, PushedIs DEF p
    <3>4. lines[i] \in PageLines
      BY ElementOfSeq
    <3>5. p[i - j + 1].link = lines[i].link
      BY <3>3, <3>4, PageLineIs
    <3> QED
      BY <2>3, <3>2, <3>3, <3>5
  <2> QED
    BY <1>1, <2>1, <2>4, <2>5, <2>6
<1>5. 1..n \subseteq T
  <2>1. \A j \in 1..n : (\A k \in j + 1..n : k \in T) => j \in T
    BY <1>4
  <2> HIDE DEF T, n
  <2> QED
    BY <1>1, <2>1, CountDown
<1>6. 1 \in 1..n /\ i >= 1
    BY <1>1
<1>7. found(1)
    BY <1>5, <1>6
<1>8. f[1] \in Seq(PageLines)
    BY <1>1, <1>3
<1>9. DOMAIN f[1] = 1..Len(f[1])
    BY <1>8, LenProperties
<1> QED
    BY <1>3, <1>7, <1>9

LEMMA FirstIs ==
    ASSUME NEW S, NEW lines \in Seq(S), NEW kind
    PROVE  \/ First(lines, kind) = Line("undefined", NoLink)
           \/ First(lines, kind) \in S /\ First(lines, kind).kind = kind
<1> DEFINE hits == {i \in 1..Len(lines) : lines[i].kind = kind}
           at == CHOOSE x \in hits : \A y \in hits : x <= y
<1>1. CASE hits = {}
    BY <1>1 DEF First, SelectInSeq
<1>2. CASE hits # {}
  <2>1. hits \in SUBSET Nat
    OBVIOUS
  <2>2. at \in hits
    <3> HIDE DEF hits
    <3>1. \E x \in hits : \A y \in hits : x <= y
      BY <1>2, <2>1, LeastNumber
    <3> QED
      BY <3>1
  <2>3. First(lines, kind) = IF at = 0 THEN Line("undefined", NoLink) ELSE lines[at]
    BY <1>2 DEF First, SelectInSeq, Min
  <2> HIDE DEF at
  <2>4. at \in 1..Len(lines) /\ at # 0 /\ lines[at].kind = kind
    BY <2>2
  <2>5. lines[at] \in S
    BY <2>4, ElementOfSeq
  <2> QED
    BY <2>3, <2>4, <2>5
<1> QED
    BY <1>1, <1>2

\* The body of README.md has lines of README.md only.
LEMMA ReadmeBodyType ==
    ASSUME NEW S, NEW text \in Seq(S)
    PROVE  ReadmeBody(text) \in Seq(S)
<1> DEFINE logoless == IF text # <<>> /\ text[1].kind = "logo" THEN Tail(text) ELSE text
           badged == WithoutFirst(WithoutFirst(logoless, "heading"), "tagline")
           parts == [i \in DOMAIN badged |->
                       IF badged[i].kind = "badges" THEN <<>> ELSE <<badged[i]>>]
<1>1. logoless \in Seq(S)
    OBVIOUS
<1> HIDE DEF logoless
<1>2. WithoutFirst(logoless, "heading") \in Seq(S)
    BY <1>1, WithoutFirstType
<1>3. badged \in Seq(S)
    BY <1>2, WithoutFirstType
<1>4. ReadmeBody(text) = FlattenSeq(parts)
    BY DEF ReadmeBody, logoless
<1> HIDE DEF badged
<1>5. parts \in Seq(Seq(S))
  <2>1. DOMAIN badged = 1..Len(badged) /\ Len(badged) \in Nat
    BY <1>3, LenProperties
  <2>2. ASSUME NEW i \in 1..Len(badged)
        PROVE  (IF badged[i].kind = "badges" THEN <<>> ELSE <<badged[i]>>) \in Seq(S)
    <3>1. badged[i] \in S
      BY <1>3, ElementOfSeq
    <3>2. <<badged[i]>> \in Seq(S) /\ <<>> \in Seq(S)
      BY <3>1, Singleton, EmptySeq
    <3> QED
      BY <3>2
  <2>3. parts \in [1..Len(badged) -> Seq(S)]
    BY <2>1, <2>2
  <2> HIDE DEF parts
  <2> QED
    BY <2>1, <2>3, SeqDef
<1> HIDE DEF parts
<1> QED
    BY <1>4, <1>5, FlattenType
-----------------------------------------------------------------------------
\* Only Markdown files with an admissible name are listed.
NamesInv ==
    /\ DOMAIN docs \subseteq DocNames
    /\ pages \subseteq DocNames \ {"README"}
    /\ todo \subseteq pages

\* The list of pages is that of the repository until the author edits it.
ListInv == pc # "idle" /\ ~dirty => pages = PageNames

\* The pages of a set of files of docs/ have their sources.
Sourced(slugs) == \A p \in slugs : content[p].editUrl = <<"docs", p>>

\* The content folder holds what this build wrote and nothing of an earlier one.
WrittenInv ==
    /\ pc = "pages" => DOMAIN content = pages \ todo /\ Sourced(pages \ todo)
    /\ pc \in {"static", "build"} =>
         /\ DOMAIN content = pages \cup {"index"}
         /\ Sourced(pages)
         /\ content["index"].editUrl = <<"README">>

SiteInv == NamesInv /\ ListInv /\ WrittenInv

LEMMA InitSiteInv ==
    ASSUME Init
    PROVE  SiteInv
    BY SiteAssumption DEF Init, SiteInv, NamesInv, ListInv, WrittenInv

\* What an author does keeps the steps of the build apart from the list of pages.
LEMMA AuthorSiteInv ==
    ASSUME SiteInv, Author
    PROVE  SiteInv'
<1>1. DOMAIN docs' \subseteq DocNames
    BY DEF Author, WriteDoc, RemoveDoc, WriteReadme, ChangeShot, SiteInv, NamesInv
<1>2. dirty' = TRUE /\ UNCHANGED <<content, pc, pages, todo>>
    BY DEF Author, WriteDoc, RemoveDoc, WriteReadme, ChangeShot, Edit
<1> QED
    BY <1>1, <1>2 DEF SiteInv, NamesInv, ListInv, WrittenInv, Sourced

\* The page that a step writes has its source, the others stay.
LEMMA WrittenPage ==
    ASSUME NEW slug, NEW page, content' = Written(slug, page)
    PROVE  /\ DOMAIN content' = DOMAIN content \cup {slug}
           /\ content'[slug] = page
           /\ \A s \in DOMAIN content : s # slug => content'[s] = content[s]
    BY DEF Written

\* "Edit page" of a page leads to its source.
LEMMA PageSources ==
    ASSUME NEW page, NEW text, NEW names
    PROVE  /\ DocPage(page, text, names).editUrl = <<"docs", page>>
           /\ HomePage(text, names).editUrl = <<"README">>
    BY DEF DocPage, HomePage, writePage

LEMMA SyncPageSiteInv ==
    ASSUME SiteInv, NEW p \in DocNames, SyncPage(p)
    PROVE  SiteInv'
<1>1. /\ pc = "pages" /\ p \in todo
      /\ content' = Written(p, DocPage(p, docs[p], pages))
      /\ todo' = todo \ {p}
      /\ UNCHANGED <<docs, pc, pages, dirty>>
    BY DEF SyncPage, repo
<1>2. /\ DOMAIN content' = DOMAIN content \cup {p}
      /\ \A s \in DOMAIN content : s # p => content'[s] = content[s]
      /\ content'[p].editUrl = <<"docs", p>>
  <2> DEFINE page == DocPage(p, docs[p], pages)
  <2>1. page.editUrl = <<"docs", p>>
    BY PageSources
  <2> HIDE DEF page
  <2>2. content' = Written(p, page)
    BY <1>1 DEF page
  <2> QED
    BY <2>1, <2>2, WrittenPage
<1>3. DOMAIN content = pages \ todo /\ Sourced(pages \ todo) /\ todo \subseteq pages
    BY <1>1 DEF SiteInv, WrittenInv, NamesInv
<1>4. DOMAIN content' = pages \ todo' /\ Sourced(pages \ todo)'
    BY <1>1, <1>2, <1>3 DEF Sourced
<1> QED
    BY <1>1, <1>4 DEF SiteInv, NamesInv, ListInv, PageNames, WrittenInv

LEMMA SyncHomeSiteInv ==
    ASSUME SiteInv, SyncHome
    PROVE  SiteInv'
<1>1. /\ pc = "pages" /\ todo = {} /\ pc' = "static"
      /\ content' = Written("index", HomePage(readme, pages))
      /\ UNCHANGED <<docs, pages, todo, dirty>>
    BY DEF SyncHome, repo
<1>2. /\ DOMAIN content' = DOMAIN content \cup {"index"}
      /\ \A s \in DOMAIN content : s # "index" => content'[s] = content[s]
      /\ content'["index"].editUrl = <<"README">>
  <2> DEFINE page == HomePage(readme, pages)
  <2>1. page.editUrl = <<"README">>
    BY PageSources
  <2> HIDE DEF page
  <2>2. content' = Written("index", page)
    BY <1>1 DEF page
  <2> QED
    BY <2>1, <2>2, WrittenPage
<1>3. DOMAIN content = pages /\ Sourced(pages) /\ "index" \notin pages
    BY <1>1, SiteAssumption DEF SiteInv, WrittenInv, NamesInv
<1>4. DOMAIN content' = pages \cup {"index"} /\ Sourced(pages)'
    BY <1>1, <1>2, <1>3 DEF Sourced
<1> QED
    BY <1>1, <1>2, <1>4 DEF SiteInv, NamesInv, ListInv, PageNames, WrittenInv

LEMMA NextSiteInv ==
    ASSUME SiteInv, [Next]_vars
    PROVE  SiteInv'
<1> USE DEF SiteInv, NamesInv, ListInv, PageNames, WrittenInv, repo
<1>1. CASE StartSync
    BY <1>1 DEF StartSync
<1>2. CASE Clear
  <2>1. /\ pc = "clear" /\ pc' = "pages" /\ DOMAIN content' = {} /\ todo' = pages
        /\ UNCHANGED <<docs, pages, dirty>>
    BY <1>2 DEF Clear, EmptyContent
  <2>2. pages \ todo' = {}
    BY <2>1
  <2> QED
    BY <2>1, <2>2 DEF Sourced
<1>3. ASSUME NEW p \in DocNames, FailPage(p)
      PROVE  SiteInv'
    BY <1>3 DEF FailPage
<1>4. CASE CopyStatic \/ FailStatic
    BY <1>4 DEF CopyStatic, FailStatic, Sourced
<1>5. CASE Build
    BY <1>5 DEF Build
<1>6. CASE Interrupt
    BY <1>6 DEF Interrupt
<1>7. CASE UNCHANGED vars
    BY <1>7 DEF vars, Sourced
<1> HIDE DEF SiteInv
<1> QED
    BY <1>1, <1>2, <1>3, <1>4, <1>5, <1>6, <1>7, AuthorSiteInv, SyncPageSiteInv, SyncHomeSiteInv
       DEF Next, Script

LEMMA SiteInvariant == Spec => []SiteInv
<1>1. Init => SiteInv
    BY InitSiteInv
<1>2. SiteInv /\ [Next]_vars => SiteInv'
    BY NextSiteInv
<1> QED
    BY <1>1, <1>2, PTL DEF Spec

\* What a build hands to astro mirrors README.md and docs/, whatever earlier builds
\* left in the content folder, for any names and texts.
THEOREM SyncedContentMirrorsRepo == Spec => []ContentMirrorsRepo
<1>1. ASSUME SiteInv
      PROVE  ContentMirrorsRepo
  <2> SUFFICES ASSUME pc = "build", ~dirty
               PROVE  /\ DOMAIN content = Slugs
                      /\ \A slug \in Slugs : content[slug].editUrl = Source(slug).file
    BY DEF ContentMirrorsRepo, Undisturbed
  <2>1. /\ DOMAIN content = PageNames \cup {"index"} /\ Sourced(PageNames)
        /\ content["index"].editUrl = <<"README">>
    BY <1>1 DEF SiteInv, ListInv, WrittenInv
  <2>2. Source("index").file = <<"README">>
    BY DEF Source
  <2>3. \A slug \in PageNames : slug # "index" => Source(slug).file = <<"docs", slug>>
    BY DEF Source
  <2>4. "index" \notin PageNames
    BY <1>1, SiteAssumption DEF SiteInv, NamesInv, PageNames
  <2> QED
    BY <2>1, <2>2, <2>3, <2>4 DEF Slugs, PageNames, Sourced
<1> QED
    BY <1>1, SiteInvariant, PTL

-----------------------------------------------------------------------------
\* Every text is one that an author may write.
TextInv ==
    /\ readme \in Seq(SourceLines)
    /\ \A n \in DOMAIN docs : docs[n] \in Seq(SourceLines)

\* The pages that a build wrote come from the repository as it still is.
PageInv ==
    ~dirty =>
        /\ pc = "pages" =>
             \A p \in pages \ todo : content[p] = DocPage(p, docs[p], pages)
        /\ pc \in {"static", "build"} =>
             /\ \A p \in pages : content[p] = DocPage(p, docs[p], pages)
             /\ content["index"] = HomePage(readme, pages)
        /\ pc = "build" => shots \subseteq public

LEMMA InitPageInv ==
    ASSUME Init
    PROVE  TextInv /\ PageInv
<1>1. \A text \in FirstDocs \cup FirstHomes : text \in Seq(SourceLines)
    BY TextsAssumption
<1>2. TextInv
    BY <1>1 DEF Init, TextInv
<1>3. PageInv
    BY DEF Init, PageInv
<1> QED
    BY <1>2, <1>3

LEMMA NextTextInv ==
    ASSUME TextInv, [Next]_vars
    PROVE  TextInv'
<1>1. \A text \in DocTexts \cup HomeTexts : text \in Seq(SourceLines)
    BY TextsAssumption
<1>2. ASSUME NEW n \in DocNames, NEW text \in DocTexts, WriteDoc(n, text)
      PROVE  TextInv'
    BY <1>1, <1>2 DEF WriteDoc, TextInv
<1>3. ASSUME NEW n \in DocNames, RemoveDoc(n)
      PROVE  TextInv'
    BY <1>3 DEF RemoveDoc, TextInv
<1>4. ASSUME NEW text \in HomeTexts, WriteReadme(text)
      PROVE  TextInv'
    BY <1>1, <1>4 DEF WriteReadme, TextInv
<1>5. ASSUME NEW s \in Shots, ChangeShot(s)
      PROVE  TextInv'
    BY <1>5 DEF ChangeShot, TextInv
<1>6. CASE UNCHANGED repo
    BY <1>6 DEF repo, TextInv
<1>7. StartSync \/ Script \/ Interrupt \/ UNCHANGED vars => UNCHANGED repo
    BY DEF StartSync, Script, Clear, SyncPage, FailPage, SyncHome, CopyStatic,
           FailStatic, Build, Interrupt, vars
<1> QED
    BY <1>2, <1>3, <1>4, <1>5, <1>6, <1>7 DEF Next, Author

\* The page of this step is the page of its text, the others stay.
LEMMA SyncPagePageInv ==
    ASSUME SiteInv, PageInv, NEW p \in DocNames, SyncPage(p)
    PROVE  PageInv'
<1>1. /\ pc = "pages" /\ p \in todo
      /\ content' = Written(p, DocPage(p, docs[p], pages))
      /\ todo' = todo \ {p}
      /\ UNCHANGED <<docs, pc, pages, dirty>>
    BY DEF SyncPage, repo
<1> DEFINE page(q) == DocPage(q, docs[q], pages)
<1> SUFFICES ASSUME ~dirty'
             PROVE  \A q \in pages \ todo' : content'[q] = page(q)
    BY <1>1 DEF PageInv
<1>2. \A q \in pages \ todo : q \in DOMAIN content /\ content[q] = page(q)
    BY <1>1 DEF SiteInv, WrittenInv, PageInv
<1> HIDE DEF page
<1>3. content' = Written(p, page(p))
    BY <1>1 DEF page
<1>4. /\ content'[p] = page(p)
      /\ \A q \in DOMAIN content : q # p => content'[q] = content[q]
    BY <1>3, WrittenPage
<1> QED
    BY <1>1, <1>2, <1>4

LEMMA SyncHomePageInv ==
    ASSUME SiteInv, PageInv, SyncHome
    PROVE  PageInv'
<1>1. /\ pc = "pages" /\ todo = {} /\ pc' = "static"
      /\ content' = Written("index", HomePage(readme, pages))
      /\ UNCHANGED <<docs, readme, pages, todo, dirty>>
    BY DEF SyncHome, repo
<1> DEFINE page(q) == DocPage(q, docs[q], pages)
           home == HomePage(readme, pages)
<1> SUFFICES ASSUME ~dirty'
             PROVE  (\A q \in pages : content'[q] = page(q)) /\ content'["index"] = home
    BY <1>1 DEF PageInv
<1>2. \A q \in pages : q \in DOMAIN content /\ content[q] = page(q) /\ q # "index"
    BY <1>1, SiteAssumption DEF SiteInv, WrittenInv, NamesInv, PageInv
<1> HIDE DEF page, home
<1>3. content' = Written("index", home)
    BY <1>1 DEF home
<1>4. /\ content'["index"] = home
      /\ \A q \in DOMAIN content : q # "index" => content'[q] = content[q]
    BY <1>3, WrittenPage
<1> QED
    BY <1>2, <1>4

LEMMA NextPageInv ==
    ASSUME SiteInv, PageInv, [Next]_vars
    PROVE  PageInv'
<1>1. CASE Author
  <2>1. dirty' = TRUE
    BY <1>1 DEF Author, WriteDoc, RemoveDoc, WriteReadme, ChangeShot, Edit
  <2> QED
    BY <2>1 DEF PageInv
<1>2. CASE StartSync
  <2>1. pc' = "clear"
    BY <1>2 DEF StartSync
  <2> QED
    BY <2>1 DEF PageInv
<1>3. CASE Clear
  <2>1. pc' = "pages" /\ pages' \ todo' = {}
    BY <1>3 DEF Clear
  <2> QED
    BY <2>1 DEF PageInv
<1>4. ASSUME NEW p \in DocNames, FailPage(p)
      PROVE  PageInv'
  <2>1. pc' = "idle"
    BY <1>4 DEF FailPage
  <2> QED
    BY <2>1 DEF PageInv
<1>5. CASE CopyStatic
  <2>1. /\ pc = "static" /\ pc' = "build" /\ shots \subseteq public'
        /\ UNCHANGED <<docs, readme, shots, content, pages, dirty>>
    BY <1>5 DEF CopyStatic, repo
  <2> QED
    BY <2>1 DEF PageInv
<1>6. CASE FailStatic \/ Build \/ Interrupt
  <2>1. pc' = "idle"
    BY <1>6 DEF FailStatic, Build, Interrupt
  <2> QED
    BY <2>1 DEF PageInv
<1>7. CASE UNCHANGED vars
    BY <1>7 DEF vars, repo, PageInv
<1> QED
    BY <1>1, <1>2, <1>3, <1>4, <1>5, <1>6, <1>7, SyncPagePageInv, SyncHomePageInv
       DEF Next, Script

\* An undisturbed build has the list of pages of the repository and turned every
\* text into its page.
SyncedInv == SiteInv /\ TextInv /\ PageInv

LEMMA SyncedInvariant == Spec => []SyncedInv
<1>1. Init => SyncedInv
    BY InitSiteInv, InitPageInv DEF SyncedInv
<1>2. SyncedInv /\ [Next]_vars => SyncedInv'
    BY NextSiteInv, NextTextInv, NextPageInv DEF SyncedInv
<1> QED
    BY <1>1, <1>2, PTL DEF Spec

\* The first line of the home page.
LEMMA TaglineLine ==
    ASSUME NEW text \in Seq(SourceLines)
    PROVE  LET tagline == First(text, "tagline")
               line == Line(IF tagline.kind = "undefined" THEN "undefined" ELSE "text", tagline.link)
           IN  /\ [tagline EXCEPT !.kind = IF @ = "tagline" THEN "text" ELSE @] = line
               /\ line \in SourceLines
<1> DEFINE t == First(text, "tagline")
           line == Line(IF t.kind = "undefined" THEN "undefined" ELSE "text", t.link)
<1>1. \/ t = Line("undefined", NoLink)
      \/ t \in SourceLines /\ t.kind = "tagline"
    BY FirstIs
<1> HIDE DEF t
<1>2. /\ t = Line(t.kind, t.link) /\ t.kind \in {"undefined", "tagline"}
      /\ t.link \in Targets(Seq(STRING), STRING) \cup {NoLink}
    BY <1>1, SourceLineIs DEF Line
<1>3. [t EXCEPT !.kind = IF @ = "tagline" THEN "text" ELSE @] = line
    BY <1>2 DEF Line
<1>4. ~IsAlert(line)
    BY DEF IsAlert, Line, asideTypes
<1>5. line \in SourceLines
    BY <1>2, <1>4, StringsAssumption DEF SourceLines, Line
<1> QED
    BY <1>3, <1>5 DEF t

\* What an undisturbed build made of the text behind a slug.
LEMMA BodyIs ==
    ASSUME SyncedInv, Undisturbed, NEW slug \in Slugs
    PROVE  /\ Source(slug).lines \in Seq(SourceLines)
           /\ Source(slug).dir \in Seq(STRING)
           /\ content[slug].body
                = convertAlerts(rewriteLinks(Source(slug).lines, Source(slug).dir, pages))
<1>1. /\ pages = DOMAIN docs \ {"README"} /\ "index" \notin pages
      /\ \A p \in pages : content[p] = DocPage(p, docs[p], pages)
      /\ content["index"] = HomePage(readme, pages)
    BY SiteAssumption
       DEF SyncedInv, SiteInv, NamesInv, ListInv, PageNames, PageInv, Undisturbed
<1>2. "docs" \in STRING
    BY StringsAssumption
<1>3. CASE slug = "index"
  <2> DEFINE tagline == First(readme, "tagline")
             line == Line(IF tagline.kind = "undefined" THEN "undefined" ELSE "text", tagline.link)
             lines == <<line>> \o ReadmeBody(readme)
  <2>1. Source(slug) = [file |-> <<"README">>, dir |-> <<>>, lines |-> lines]
    BY <1>3 DEF Source
  <2>2. readme \in Seq(SourceLines)
    BY DEF SyncedInv, TextInv
  <2>3. /\ [tagline EXCEPT !.kind = IF @ = "tagline" THEN "text" ELSE @] = line
        /\ line \in SourceLines
    BY <2>2, TaglineLine
  <2>4. HomePage(readme, pages) = writePage(Line("Introduction", NoLink), tagline, <<"README">>,
                                            lines, <<>>, pages)
    BY <2>3 DEF HomePage
  <2> HIDE DEF tagline, line
  <2>5. <<line>> \in Seq(SourceLines)
    BY <2>3, Singleton
  <2>6. lines \in Seq(SourceLines)
    BY <2>2, <2>5, ReadmeBodyType, ConcatProperties
  <2> HIDE DEF lines
  <2>7. content["index"].body = convertAlerts(rewriteLinks(lines, <<>>, pages))
    <3> DEFINE body == convertAlerts(rewriteLinks(lines, <<>>, pages))
    <3>1. HomePage(readme, pages).body = body
      BY <2>4 DEF writePage
    <3> HIDE DEF body
    <3> QED
      BY <1>1, <3>1 DEF body
  <2>8. <<>> \in Seq(STRING)
    BY EmptySeq
  <2>9. Source(slug).lines = lines /\ Source(slug).dir = <<>>
    BY <2>1
  <2> QED
    BY <1>3, <2>6, <2>7, <2>8, <2>9
<1>4. CASE slug # "index"
  <2>1. slug \in pages /\ slug \in DOMAIN docs
    BY <1>1, <1>4 DEF Slugs
  <2>2. Source(slug) = [file |-> <<"docs", slug>>, dir |-> <<"docs">>,
                        lines |-> WithoutFirst(docs[slug], "h1")]
    BY <1>4 DEF Source
  <2>3. docs[slug] \in Seq(SourceLines)
    BY <2>1 DEF SyncedInv, TextInv
  <2> DEFINE lines == WithoutFirst(docs[slug], "h1")
  <2>4. lines \in Seq(SourceLines)
    BY <2>3, WithoutFirstType
  <2>5. <<"docs">> \in Seq(STRING)
    BY <1>2, Singleton
  <2>6. content[slug].body = convertAlerts(rewriteLinks(lines, <<"docs">>, pages))
    <3> DEFINE body == convertAlerts(rewriteLinks(lines, <<"docs">>, pages))
    <3>1. DocPage(slug, docs[slug], pages).body = body
      BY DEF DocPage, writePage
    <3> HIDE DEF body
    <3> QED
      BY <1>1, <2>1, <3>1 DEF body
  <2>7. Source(slug).lines = lines /\ Source(slug).dir = <<"docs">>
    BY <2>2
  <2> HIDE DEF lines
  <2> QED
    BY <2>4, <2>5, <2>6, <2>7
<1> QED
    BY <1>3, <1>4

\* A reader who follows a link of the site reaches the file that the link names in
\* the repository, for any texts, files, paths and names.
THEOREM LinksReachTheirFile == Spec => []LinksLeadToTheirFile
<1>1. ASSUME SyncedInv
      PROVE  LinksLeadToTheirFile
  <2> DEFINE dests(slug) ==
               {content[slug].body[k].link : k \in DOMAIN content[slug].body} \ {NoLink}
             reaches(d, file, anchor) ==
               \/ /\ d.to = "page" /\ d.path[1] \in DOMAIN content
                  /\ content[d.path[1]].editUrl = file
                  /\ d.anchor = anchor
               \/ /\ d.to = "static" /\ <<"docs">> \o d.path = file
                  /\ \A s \in shots : file = <<"docs", "screenshots", s>> => s \in public
               \/ /\ d.to = "github" /\ d.path = file /\ d.anchor = anchor
                  /\ \A p \in DOMAIN content :
                       content[p].editUrl = file => p \notin WordNames \cup {"index"}
  <2> SUFFICES ASSUME Undisturbed, NEW slug \in Slugs, NEW i \in DOMAIN Source(slug).lines,
                      Source(slug).lines[i].link # NoLink, Source(slug).lines[i].link.relative
               PROVE  \E d \in dests(slug) :
                        reaches(d, RepoPath(Source(slug).dir, Source(slug).lines[i].link.path),
                                Source(slug).lines[i].link.anchor)
    BY DEF LinksLeadToTheirFile
  <2> DEFINE lines == Source(slug).lines
             dir == Source(slug).dir
             target == lines[i].link
             file == RepoPath(dir, target.path)
             d == rewriteTarget(target, dir, pages)
             new == rewriteLinks(lines, dir, pages)
  <2>1. lines \in Seq(SourceLines) /\ dir \in Seq(STRING) /\ content[slug].body = convertAlerts(new)
    BY <1>1, BodyIs
  <2>2. i \in 1..Len(lines) /\ target # NoLink /\ target.relative
    BY <2>1, LenProperties
  <2>3. /\ DOMAIN content = pages \cup {"index"} /\ "index" \notin pages
        /\ \A p \in pages : content[p].editUrl = <<"docs", p>>
        /\ content["index"].editUrl = <<"README">>
        /\ shots \subseteq public
    BY <1>1, SiteAssumption
       DEF SyncedInv, SiteInv, NamesInv, WrittenInv, Sourced, PageInv, Undisturbed
  <2> HIDE DEF lines, dir
  <2>4. target \in Targets(Seq(STRING), STRING) /\ ~IsAlert(lines[i])
    BY <2>1, <2>2, ElementOfSeq, SourceLineIs
  <2> HIDE DEF target
  <2>5. d \in Destinations /\ LeadsTo(d, file, target.anchor, pages)
    BY <2>1, <2>2, <2>4, DestinationIs
  <2> HIDE DEF file
  <2>6. d \in dests(slug)
    <3>1. /\ new \in Seq(PageLines) /\ Len(new) = Len(lines)
          /\ new[i].kind = lines[i].kind /\ new[i].link = d
      BY <2>1, <2>2, Rewritten DEF target
    <3> HIDE DEF d, new
    <3>2. ~IsAlert(new[i])
      BY <2>4, <3>1 DEF IsAlert
    <3>3. \E k \in DOMAIN convertAlerts(new) : convertAlerts(new)[k].link = d
      BY <2>2, <3>1, <3>2, KeptLinks
    <3>4. d # NoLink
      BY <2>5, TextsAssumption
    <3> QED
      BY <2>1, <3>3, <3>4
  <2> HIDE DEF d, new
  <2>7. reaches(d, file, target.anchor)
    <3>1. CASE file = <<"README">> /\ d = [to |-> "page", path |-> <<"index">>, anchor |-> target.anchor]
      <4>1. d.to = "page" /\ d.path[1] = "index" /\ d.anchor = target.anchor
        BY <3>1
      <4> QED
        BY <2>3, <3>1, <4>1
    <3>2. ASSUME NEW p \in pages \cap WordNames, file = <<"docs", p>>,
                 d = [to |-> "page", path |-> <<p>>, anchor |-> target.anchor]
          PROVE  reaches(d, file, target.anchor)
      <4>1. d.to = "page" /\ d.path[1] = p /\ d.anchor = target.anchor
        BY <3>2
      <4> QED
        BY <2>3, <3>2, <4>1
    <3>3. CASE d.to = "static" /\ <<"docs">> \o d.path = file
      BY <2>3, <3>3
    <3>4. CASE /\ d = [to |-> "github", path |-> file, anchor |-> target.anchor]
               /\ file # <<"README">> /\ \A p \in pages \cap WordNames : file # <<"docs", p>>
      <4>1. d.to = "github" /\ d.path = file /\ d.anchor = target.anchor
        BY <3>4
      <4>2. \A p \in DOMAIN content :
               content[p].editUrl = file => p \notin WordNames \cup {"index"}
        BY <2>3, <3>4
      <4> QED
        BY <4>1, <4>2
    <3> HIDE DEF reaches
    <3> QED
      BY <2>5, <3>1, <3>2, <3>3, <3>4 DEF LeadsTo
  <2>8. \E x \in dests(slug) : reaches(x, file, target.anchor)
    BY <2>6, <2>7
  <2> HIDE DEF dests, reaches
  <2> QED
    BY <2>8 DEF file, target, lines, dir
<1> QED
    BY <1>1, SyncedInvariant, PTL
-----------------------------------------------------------------------------
LEMMA PrefixGrows ==
    ASSUME NEW K, NEW p \in Seq(K), NEW m \in Nat, m < Len(p)
    PROVE  /\ SubSeq(p, 1, m) \in Seq(K)
           /\ <<p[m + 1]>> \in Seq(K)
           /\ SubSeq(p, 1, m) \o <<p[m + 1]>> = SubSeq(p, 1, m + 1)
<1>1. /\ Len(p) \in Nat /\ 1 \in 1..Len(p) /\ m + 1 \in 1..Len(p)
      /\ \A i \in 1..m : i \in 1..Len(p)
    BY LenProperties
<1>2. p[m + 1] \in K /\ \A i \in 1..m : p[i] \in K
    BY <1>1, ElementOfSeq
<1>3. <<p[m + 1]>> \in Seq(K)
    BY <1>2, Singleton
<1>4. SubSeq(p, 1, m) \in Seq(K)
    BY <1>2, SubSeqProperties
<1>5. SubSeq(p, 1, m + 1) = SubSeq(p, 1, (m + 1) - 1) \o <<p[m + 1]>>
    BY <1>1, SubSeqRecursiveSecond
<1>6. (m + 1) - 1 = m
    OBVIOUS
<1> QED
    BY <1>3, <1>4, <1>5, <1>6

Assoc(s, t, u) == (s \o t) \o u = s \o (t \o u)

LEMMA Associative ==
    ASSUME NEW K, NEW s \in Seq(K), NEW t \in Seq(K), NEW u \in Seq(K)
    PROVE  Assoc(s, t, u) /\ s \o t \in Seq(K)
    BY ConcatAssociative, ConcatProperties DEF Assoc

\* g collects the parts b.
Chain(g, b, n, K) ==
    /\ g \in [0..n -> Seq(K)]
    /\ b \in [1..n -> Seq(K)]
    /\ \A i \in 1..n : g[i] = g[i - 1] \o b[i]

\* A sequence is the chain of its elements.
Elements(q, x, p, K) ==
    /\ Chain(q, x, Len(p), K)
    /\ q[0] = <<>> /\ q[Len(p)] = p
    /\ \A i \in 1..Len(p) : x[i] = <<p[i]>>

\* A sequence is the chain of its elements.
LEMMA ElementsExist ==
    ASSUME NEW K, NEW p \in Seq(K)
    PROVE  \E q, x : Elements(q, x, p, K)
<1> DEFINE n == Len(p)
           q == [i \in 0..n |-> SubSeq(p, 1, i)]
           x == [i \in 1..n |-> <<p[i]>>]
<1>1. n \in Nat
    BY LenProperties
<1>2. SubSeq(p, 1, n) = p /\ SubSeq(p, 1, 0) = <<>>
    BY SubSeqFull, SubSeqEmpty
<1>3. ASSUME NEW i \in 1..n
      PROVE  /\ SubSeq(p, 1, i - 1) \in Seq(K) /\ <<p[i]>> \in Seq(K)
             /\ SubSeq(p, 1, i - 1) \o <<p[i]>> = SubSeq(p, 1, i)
  <2>1. i - 1 \in Nat /\ i - 1 < Len(p) /\ (i - 1) + 1 = i
    BY <1>1
  <2> QED
    BY <2>1, PrefixGrows
<1>4. \A i \in 0..n : SubSeq(p, 1, i) \in Seq(K)
  <2> SUFFICES ASSUME NEW i \in 0..n PROVE SubSeq(p, 1, i) \in Seq(K)
    OBVIOUS
  <2>1. CASE i = n
    BY <1>2, <2>1
  <2>2. CASE i # n
    <3>1. i + 1 \in 1..n /\ (i + 1) - 1 = i
      BY <1>1, <2>2
    <3>2. SubSeq(p, 1, (i + 1) - 1) \in Seq(K)
      BY <1>3, <3>1
    <3> QED
      BY <3>1, <3>2
  <2> QED
    BY <2>1, <2>2
<1>5. q \in [0..n -> Seq(K)] /\ x \in [1..n -> Seq(K)]
    BY <1>3, <1>4
<1>6. q[0] = <<>> /\ q[n] = p
    BY <1>1, <1>2
<1>7. \A i \in 1..n : q[i] = q[i - 1] \o x[i] /\ x[i] = <<p[i]>>
  <2> SUFFICES ASSUME NEW i \in 1..n PROVE q[i] = q[i - 1] \o x[i] /\ x[i] = <<p[i]>>
    OBVIOUS
  <2>1. i - 1 \in 0..n /\ i \in 0..n
    BY <1>1
  <2>2. q[i] = SubSeq(p, 1, i) /\ q[i - 1] = SubSeq(p, 1, i - 1) /\ x[i] = <<p[i]>>
    BY <2>1
  <2> QED
    BY <1>3, <2>2
<1> HIDE DEF q, x
<1>8. Elements(q, x, p, K)
    BY <1>5, <1>6, <1>7 DEF Elements, Chain
<1> QED
    BY <1>8

SameParts(b, x, j, m) == \A i \in 1..m : b[j + i] = x[i]

Collects(g, q, j, m) == g[j + m] = g[j] \o q[m]

\* Two chains with the same parts.
LEMMA Chains ==
    ASSUME NEW K, NEW n \in Nat, NEW g, NEW b, Chain(g, b, n, K),
           NEW N \in Nat, NEW q, NEW x, Chain(q, x, N, K), q[0] = <<>>,
           NEW j \in 0..n, NEW m \in 0..N, j + m <= n, SameParts(b, x, j, m)
    PROVE  Collects(g, q, j, m)
<1> DEFINE T == {i \in Nat : i <= m => g[j + i] = g[j] \o q[i]}
<1>1. 0 \in T
  <2>1. g[j] \in Seq(K)
    BY DEF Chain
  <2>2. g[j] \o <<>> = g[j] /\ j + 0 = j
    BY <2>1, ConcatEmptySeq
  <2> QED
    BY <2>2
<1>2. ASSUME NEW i \in 0..m, i # m, i \in T
      PROVE  i + 1 \in T
  <2>1. /\ i \in 0..N /\ i + 1 \in 1..N /\ i + 1 \in 1..m /\ (i + 1) - 1 = i
        /\ j + i \in 0..n /\ j + (i + 1) \in 1..n /\ (j + (i + 1)) - 1 = j + i /\ i <= m
    BY <1>2
  <2> DEFINE u == g[j]
             v == q[i]
             w == x[i + 1]
  <2>2. g[j + (i + 1)] = g[j + i] \o w /\ q[i + 1] = v \o w
    BY <2>1 DEF Chain, SameParts
  <2>3. g[j + i] = u \o v
    BY <1>2, <2>1
  <2>4. u \in Seq(K) /\ v \in Seq(K) /\ w \in Seq(K)
    BY <2>1 DEF Chain
  <2> HIDE DEF u, v, w
  <2>5. Assoc(u, v, w)
    BY <2>4, Associative
  <2>6. g[j + (i + 1)] = g[j] \o q[i + 1]
    BY <2>2, <2>3, <2>5 DEF u, Assoc
  <2>7. i + 1 \in Nat
    BY <2>1
  <2> QED
    BY <2>6, <2>7
<1>3. T \in SUBSET Nat
    OBVIOUS
<1>4. m \in Nat /\ m \in 0..m /\ m <= m
    OBVIOUS
<1>5. m \in T
  <2> HIDE DEF T
  <2>1. 0..m \subseteq T
    BY <1>1, <1>2, <1>3, <1>4, CountUp
  <2> QED
    BY <1>4, <2>1
<1> QED
    BY <1>4, <1>5 DEF Collects

\* A stretch of parts that together are p, the last one having two elements.
Stretches(b, p, j, e) ==
    /\ Len(p) = e - j + 1
    /\ \A k \in j..e - 2 : b[k] = <<p[k - j + 1]>>
    /\ b[e - 1] = <<p[e - j], p[e - j + 1]>>

Spans(g, p, j, e) == g[e - 1] = g[j - 1] \o p

LEMMA Stretch ==
    ASSUME NEW K, NEW n \in Nat, NEW g, NEW b, Chain(g, b, n, K),
           NEW j \in 1..n, NEW e \in j + 1..n + 1,
           NEW p \in Seq(K), Stretches(b, p, j, e)
    PROVE  Spans(g, p, j, e)
<1> DEFINE m == e - j - 1
           N == Len(p)
<1>1. /\ m \in 0..N /\ N \in Nat /\ N = m + 2 /\ j - 1 \in 0..n /\ e - 1 \in 1..n
      /\ (j - 1) + m = (e - 1) - 1 /\ (j - 1) + m <= n
      /\ e - j = m + 1 /\ e - j + 1 = m + 2
      /\ m + 1 \in 1..N /\ (m + 1) - 1 = m /\ m + 2 \in 1..N /\ (m + 2) - 1 = m + 1
    BY DEF Stretches
<1>2. PICK q, x : Elements(q, x, p, K)
    BY ElementsExist
<1>3. /\ Chain(q, x, N, K) /\ q[0] = <<>> /\ q[N] = p /\ \A i \in 1..N : x[i] = <<p[i]>>
    BY <1>2 DEF Elements
<1>4. \A i \in 1..m : b[(j - 1) + i] = x[i]
  <2> SUFFICES ASSUME NEW i \in 1..m PROVE b[(j - 1) + i] = x[i]
    OBVIOUS
  <2>1. (j - 1) + i \in j..e - 2 /\ ((j - 1) + i) - j + 1 = i /\ i \in 1..N
    BY DEF Stretches
  <2> QED
    BY <1>3, <2>1 DEF Stretches
<1>5. b[e - 1] = <<p[m + 1], p[m + 2]>> /\ x[m + 1] = <<p[m + 1]>> /\ x[m + 2] = <<p[m + 2]>>
    BY <1>1, <1>3 DEF Stretches
<1> HIDE DEF m, N
<1>6. b[e - 1] = x[m + 1] \o x[m + 2]
  <2> DEFINE y == p[m + 1]
             z == p[m + 2]
  <2>1. y \in K /\ z \in K
    BY <1>1, ElementOfSeq DEF N
  <2>2. b[e - 1] = <<y, z>> /\ x[m + 1] = <<y>> /\ x[m + 2] = <<z>>
    BY <1>5
  <2> HIDE DEF y, z
  <2>3. <<y>> \o <<z>> = <<y, z>>
    BY <2>1, CoupleIsJoined
  <2> QED
    BY <2>2, <2>3
<1>7. g[(j - 1) + m] = g[j - 1] \o q[m]
  <2> DEFINE c == j - 1
  <2>1. c \in 0..n /\ c + m <= n /\ SameParts(b, x, c, m)
    BY <1>1, <1>4 DEF SameParts
  <2> HIDE DEF c
  <2>2. Collects(g, q, c, m)
    BY <1>1, <1>3, <2>1, Chains
  <2> QED
    BY <2>2 DEF Collects, c
<1> DEFINE u == g[j - 1]
           v == q[m]
           w == x[m + 1]
           z == x[m + 2]
<1>8. u \in Seq(K) /\ v \in Seq(K) /\ w \in Seq(K) /\ z \in Seq(K)
    BY <1>1, <1>3 DEF Chain
<1>9. g[e - 1] = (u \o v) \o (w \o z)
  <2>1. g[e - 1] = g[(e - 1) - 1] \o b[e - 1]
    BY <1>1 DEF Chain
  <2> QED
    BY <1>1, <1>6, <1>7, <2>1
<1>10. p = (v \o w) \o z
  <2>1. q[m + 1] = v \o w /\ q[m + 2] = q[m + 1] \o z
    BY <1>1, <1>3 DEF Chain
  <2> QED
    BY <1>1, <1>3, <2>1
<1> HIDE DEF u, v, w, z
<1>11. Assoc(v, w, z) /\ w \o z \in Seq(K)
    BY <1>8, Associative
<1> DEFINE y == w \o z
<1>12. y \in Seq(K) /\ p = v \o y /\ g[e - 1] = (u \o v) \o y
    BY <1>9, <1>10, <1>11 DEF Assoc
<1> HIDE DEF y
<1>13. Assoc(u, v, y)
    BY <1>8, <1>12, Associative
<1> QED
    BY <1>12, <1>13 DEF u, Assoc, Spans

\* f collects the parts p from behind, g those that next steps over.
Woven(f, p, next, n, K) ==
    /\ f \in [1..n + 1 -> Seq(K)] /\ f[n + 1] = <<>>
    /\ p \in [1..n -> Seq(K)]
    /\ next \in [1..n -> 1..n + 1] /\ \A j \in 1..n : next[j] > j
    /\ \A j \in 1..n : f[j] = p[j] \o f[next[j]]

StepsOver(g, p, next, start, n) ==
    \A j \in 1..n : j \in start => next[j] \in start /\ g[next[j] - 1] = g[j - 1] \o p[j]

SameEnds(g, f, n) == g[n] = f[1]

\* What is collected from the front is what is collected from behind.
LEMMA Weave ==
    ASSUME NEW K, NEW n \in Nat, NEW g, NEW b, Chain(g, b, n, K), g[0] = <<>>,
           NEW f, NEW p, NEW next, Woven(f, p, next, n, K),
           NEW start, 1 \in start, StepsOver(g, p, next, start, n)
    PROVE  SameEnds(g, f, n)
<1> DEFINE T == {j \in 1..n + 1 : j \in start => g[n] = g[j - 1] \o f[j]}
<1>0. g \in [0..n -> Seq(K)]
    BY DEF Chain
<1>1. n \in 0..n /\ n + 1 \in Nat /\ (n + 1) - 1 = n /\ 1 \in 1..n + 1 /\ 1 - 1 = 0
    OBVIOUS
<1>2. ASSUME NEW j \in 1..n + 1, \A k \in j + 1..n + 1 : k \in T, j \in start
      PROVE  g[n] = g[j - 1] \o f[j]
  <2>1. CASE j = n + 1
    <3>1. g[n] \o <<>> = g[n]
      BY <1>0, <1>1, ConcatEmptySeq
    <3> QED
      BY <1>1, <2>1, <3>1 DEF Woven
  <2>2. CASE j # n + 1
    <3>1. j \in 1..n /\ j - 1 \in 0..n
      BY <2>2
    <3> DEFINE a == next[j]
    <3>2. a \in 1..n + 1 /\ a > j /\ a \in start /\ g[a - 1] = g[j - 1] \o p[j] /\ f[j] = p[j] \o f[a]
      BY <1>2, <3>1 DEF Woven, StepsOver
    <3> HIDE DEF a
    <3>3. a \in j + 1..n + 1
      BY <3>2
    <3>4. g[n] = g[a - 1] \o f[a]
      BY <1>2, <3>2, <3>3
    <3> DEFINE u == g[j - 1]
               v == p[j]
               w == f[a]
    <3>5. u \in Seq(K) /\ v \in Seq(K) /\ w \in Seq(K)
      BY <1>0, <3>1, <3>2 DEF Woven
    <3> HIDE DEF u, v, w
    <3>6. Assoc(u, v, w)
      BY <3>5, Associative
    <3> QED
      BY <3>2, <3>4, <3>6 DEF Assoc, u, v, w
  <2> QED
    BY <2>1, <2>2
<1>3. 1..n + 1 \subseteq T
  <2>1. \A j \in 1..n + 1 : (\A k \in j + 1..n + 1 : k \in T) => j \in T
    BY <1>2
  <2> DEFINE N == n + 1
  <2> HIDE DEF T, N
  <2>2. N \in Nat /\ \A j \in 1..N : (\A k \in j + 1..N : k \in T) => j \in T
    BY <1>1, <2>1 DEF N
  <2>3. 1..N \subseteq T
    BY <2>2, CountDown
  <2> QED
    BY <2>3 DEF N
<1>4. g[n] = <<>> \o f[1]
    BY <1>1, <1>3
<1>5. f[1] \in Seq(K)
    BY <1>1 DEF Woven
<1> QED
    BY <1>4, <1>5, ConcatEmptySeq DEF SameEnds

LEMMA KindsAre ==
    ASSUME NEW S, NEW K, \A x \in S : x.kind \in K, NEW s \in Seq(S)
    PROVE  /\ Kinds(s) \in Seq(K) /\ Len(Kinds(s)) = Len(s)
           /\ \A k \in 1..Len(s) : Kinds(s)[k] = s[k].kind
<1>1. DOMAIN s = 1..Len(s) /\ Len(s) \in Nat
    BY LenProperties
<1>2. \A k \in 1..Len(s) : s[k].kind \in K
    BY ElementOfSeq
<1> QED
    BY <1>1, <1>2 DEF Kinds

\* Kinds distributes over concatenation.
LEMMA KindsOfJoined ==
    ASSUME NEW S, NEW K, \A x \in S : x.kind \in K, NEW s \in Seq(S), NEW t \in Seq(S)
    PROVE  Kinds(s \o t) = Kinds(s) \o Kinds(t)
<1> DEFINE u == s \o t
           a == Kinds(s)
           b == Kinds(t)
           c == Kinds(u)
<1>1. u \in Seq(S) /\ Joined(s, t, u)
    BY ConcatProperties, Concat
<1> HIDE DEF u
<1>2. a \in Seq(K) /\ Len(a) = Len(s) /\ \A k \in 1..Len(s) : a[k] = s[k].kind
    BY KindsAre
<1>3. b \in Seq(K) /\ Len(b) = Len(t) /\ \A k \in 1..Len(t) : b[k] = t[k].kind
    BY KindsAre
<1>4. c \in Seq(K) /\ Len(c) = Len(u) /\ \A k \in 1..Len(u) : c[k] = u[k].kind
    BY <1>1, KindsAre
<1> HIDE DEF a, b, c
<1> DEFINE v == a \o b
<1>5. v \in Seq(K) /\ Joined(a, b, v)
    BY <1>2, <1>3, ConcatProperties, Concat
<1> HIDE DEF v
<1>6. Len(c) = Len(v)
    BY <1>1, <1>2, <1>3, <1>4, <1>5 DEF Joined
<1>7. ASSUME NEW k \in 1..Len(c)
      PROVE  c[k] = v[k]
  <2>1. CASE k \in 1..Len(s)
    BY <1>1, <1>2, <1>4, <1>5, <2>1 DEF Joined
  <2>2. CASE k \notin 1..Len(s)
    <3> DEFINE m == k - Len(s)
    <3>1. m \in 1..Len(t) /\ k = Len(s) + m
      BY <1>1, <1>4, <2>2 DEF Joined
    <3> HIDE DEF m
    <3>2. u[k] = t[m] /\ c[k] = u[k].kind
      BY <1>1, <1>4, <3>1 DEF Joined
    <3>3. v[k] = b[m] /\ b[m] = t[m].kind
      BY <1>2, <1>3, <1>5, <3>1 DEF Joined
    <3> QED
      BY <3>2, <3>3
  <2> QED
    BY <2>1, <2>2
<1>8. c = v
    BY <1>4, <1>5, <1>6, <1>7, SeqEqual
<1> QED
    BY <1>8 DEF c, v, a, b, u

LEMMA KindsOfFew ==
    ASSUME NEW x, NEW y
    PROVE  Kinds(<<x>>) = <<x.kind>> /\ Kinds(<<x, y>>) = <<x.kind, y.kind>>
<1>1. Kinds(<<x>>) = <<x.kind>>
    BY DEF Kinds
<1>2. Kinds(<<x, y>>) = <<x.kind, y.kind>>
    BY DEF Kinds
<1> QED
    BY <1>1, <1>2

LEMMA AlertIsQuoted ==
    ASSUME NEW line
    PROVE  IsAlert(line) => IsQuoted(line)
    BY DEF IsAlert, IsQuoted

\* A line outside asides that opens none is shown as it is.
LEMMA OutsideIs ==
    ASSUME NEW S, NEW lines \in Seq(S), NEW j \in 1..Len(lines), ~Inside(lines, j),
           ~IsAlert(lines[j])
    PROVE  ~EndsAside(lines, j) /\ Shown(lines, j) = lines[j] /\ ~Inside(lines, j + 1)
<1>1. ~EndsAside(lines, j) /\ Shown(lines, j) = lines[j]
    BY DEF EndsAside, Shown
<1>2. ASSUME Inside(lines, j + 1)
      PROVE  FALSE
  <2>1. PICK m \in 1..(j + 1) - 1 : IsAlert(lines[m]) /\ \A k \in m..j + 1 : IsQuoted(lines[k])
    BY <1>2 DEF Inside
  <2>2. m # j
    BY <2>1
  <2>3. m \in 1..j - 1 /\ \A k \in m..j : k \in m..j + 1
    BY <2>2
  <2> QED
    BY <2>1, <2>3 DEF Inside
<1> QED
    BY <1>1, <1>2

\* An alert outside asides opens one that ends with its quoted lines.
LEMMA AsideIs ==
    ASSUME NEW S, NEW lines \in Seq(S), NEW j \in 1..Len(lines), ~Inside(lines, j),
           IsAlert(lines[j]), NEW e \in j + 1..Len(lines) + 1,
           e = Len(lines) + 1 \/ ~IsQuoted(lines[e]),
           \A k \in j + 1..e - 1 : IsQuoted(lines[k])
    PROVE  /\ Shown(lines, j) = Line(asideTypes[lines[j].kind], NoLink)
           /\ \A k \in j + 1..e - 1 : Shown(lines, k) = Unquote(lines[k])
           /\ \A k \in j..e - 1 : EndsAside(lines, k) <=> k = e - 1
           /\ e = Len(lines) + 1 \/ ~Inside(lines, e)
<1> DEFINE n == Len(lines)
<1>0. n \in Nat
    BY LenProperties
<1>1. Shown(lines, j) = Line(asideTypes[lines[j].kind], NoLink)
    BY DEF Shown
<1>2. \A k \in j..e - 1 : IsQuoted(lines[k])
    BY AlertIsQuoted
<1>3. ASSUME NEW k \in j + 1..e - 1
      PROVE  Inside(lines, k)
  <2>1. j \in 1..k - 1 /\ \A i \in j..k : i \in j..e - 1
    OBVIOUS
  <2> QED
    BY <1>2, <2>1 DEF Inside
<1>4. \A k \in j + 1..e - 1 : Shown(lines, k) = Unquote(lines[k])
    BY <1>3 DEF Shown
<1>5. ASSUME NEW k \in j..e - 1
      PROVE  EndsAside(lines, k) <=> k = e - 1
  <2>1. Inside(lines, k) \/ IsAlert(lines[k])
    <3>1. k = j \/ k \in j + 1..e - 1
      OBVIOUS
    <3> QED
      BY <1>3, <3>1
  <2>2. CASE k = e - 1
    <3>1. k + 1 = e /\ (e = n + 1 => k = n)
      BY <1>0, <2>2
    <3> QED
      BY <2>1, <2>2, <3>1 DEF EndsAside
  <2>3. CASE k # e - 1
    <3>1. k + 1 \in j + 1..e - 1 /\ k # n
      BY <1>0, <2>3
    <3>2. IsQuoted(lines[k + 1])
      BY <3>1
    <3> QED
      BY <2>3, <3>1, <3>2 DEF EndsAside
  <2> QED
    BY <2>2, <2>3
<1>6. e = n + 1 \/ ~Inside(lines, e)
  <2> SUFFICES ASSUME Inside(lines, e) PROVE IsQuoted(lines[e])
    OBVIOUS
  <2>1. PICK m \in 1..e - 1 : \A k \in m..e : IsQuoted(lines[k])
    BY DEF Inside
  <2>2. e \in m..e
    OBVIOUS
  <2> QED
    BY <2>1, <2>2
<1> QED
    BY <1>1, <1>4, <1>5, <1>6

LEMMA SourceLinesShown ==
    ASSUME NEW lines \in Seq(SourceLines), NEW i \in 1..Len(lines)
    PROVE  Shown(lines, i) \in SourceLines /\ Line("close", NoLink) \in SourceLines
<1>1. /\ lines[i] \in SourceLines
      /\ lines[i] = Line(lines[i].kind, lines[i].link)
      /\ lines[i].link \in Targets(Seq(STRING), STRING) \cup {NoLink}
    BY ElementOfSeq, SourceLineIs
<1>2. \A link \in Targets(Seq(STRING), STRING) \cup {NoLink} : Line("text", link) \in SourceLines
    BY StringsAssumption DEF SourceLines, Line, IsAlert, asideTypes
<1>3. \A kind \in STRING : Line(kind, NoLink) \in SourceLines
    BY DEF SourceLines, Line
<1>4. IsAlert(lines[i]) => asideTypes[lines[i].kind] \in {"note", "tip", "caution", "danger"}
    BY DEF IsAlert, asideTypes
<1>5. IsAlert(lines[i]) => asideTypes[lines[i].kind] \in STRING
    BY <1>4, StringsAssumption
<1>6. Unquote(lines[i]) = Line("text", lines[i].link)
    BY <1>1 DEF Unquote, Line
<1>7. "close" \in STRING
    BY StringsAssumption
<1> QED
    BY <1>1, <1>2, <1>3, <1>5, <1>6, <1>7 DEF Shown

\* The lines that one line becomes.
AsidePart(lines, i) ==
    IF EndsAside(lines, i) THEN <<Shown(lines, i), Line("close", NoLink)>>
    ELSE <<Shown(lines, i)>>

\* The line-by-line definition collects the part of each line.
LEMMA AsidesChain ==
    ASSUME NEW lines \in Seq(SourceLines)
    PROVE  \E g, b :
             /\ Chain(g, b, Len(lines), STRING) /\ g[0] = <<>>
             /\ Kinds(Asides(lines)) = g[Len(lines)]
             /\ \A i \in 1..Len(lines) :
                  b[i] = IF EndsAside(lines, i) THEN <<Shown(lines, i).kind, "close">>
                         ELSE <<Shown(lines, i).kind>>
<1> DEFINE n == Len(lines)
           K == STRING
           parts == [i \in 1..n |-> AsidePart(lines, i)]
<1>1. n \in Nat /\ DOMAIN lines = 1..n
    BY LenProperties
<1>2. \A i \in 1..n : AsidePart(lines, i) \in Seq(SourceLines)
  <2> SUFFICES ASSUME NEW i \in 1..n PROVE AsidePart(lines, i) \in Seq(SourceLines)
    OBVIOUS
  <2>1. Shown(lines, i) \in SourceLines /\ Line("close", NoLink) \in SourceLines
    BY SourceLinesShown
  <2>2. <<Shown(lines, i)>> \in Seq(SourceLines)
    BY <2>1, Singleton
  <2>3. <<Shown(lines, i), Line("close", NoLink)>> \in Seq(SourceLines)
    BY <2>1, Couple
  <2> QED
    BY <2>2, <2>3 DEF AsidePart
<1>3. parts \in Seq(Seq(SourceLines)) /\ Len(parts) = n
    BY <1>1, <1>2
<1>4. Asides(lines) = FlattenSeq(parts)
    BY <1>1 DEF Asides, AsidePart
<1>5. \A i \in 1..n : parts[i] = AsidePart(lines, i)
    OBVIOUS
<1> HIDE DEF parts
<1>6. PICK h \in [0..Len(parts) -> Seq(SourceLines)] :
             /\ h[0] = <<>> /\ \A i \in 1..Len(parts) : h[i] = h[i - 1] \o parts[i]
             /\ FlattenSeq(parts) = h[Len(parts)]
    BY <1>3, FlattenFunction
<1> DEFINE g == [i \in 0..n |-> Kinds(h[i])]
           b == [i \in 1..n |-> Kinds(AsidePart(lines, i))]
<1>7. h \in [0..n -> Seq(SourceLines)] /\ \A i \in 1..n : h[i] = h[i - 1] \o AsidePart(lines, i)
    BY <1>3, <1>5, <1>6
<1>8. \A x \in SourceLines : x.kind \in K
    BY SourceLineIs
<1> HIDE DEF K
<1>9. (\A i \in 0..n : Kinds(h[i]) \in Seq(K)) /\ \A i \in 1..n : Kinds(AsidePart(lines, i)) \in Seq(K)
    BY <1>2, <1>7, <1>8, KindsAre
<1>10. ASSUME NEW i \in 1..n
       PROVE  g[i] = g[i - 1] \o b[i]
  <2>1. i \in 0..n /\ i - 1 \in 0..n
    BY <1>1
  <2> DEFINE s == h[i - 1]
             t == AsidePart(lines, i)
  <2>2. s \in Seq(SourceLines) /\ t \in Seq(SourceLines) /\ h[i] = s \o t
    BY <1>2, <1>7, <2>1
  <2>3. g[i] = Kinds(h[i]) /\ g[i - 1] = Kinds(s) /\ b[i] = Kinds(t)
    BY <2>1
  <2> HIDE DEF s, t, g, b
  <2>4. Kinds(s \o t) = Kinds(s) \o Kinds(t)
    BY <1>8, <2>2, KindsOfJoined
  <2> QED
    BY <2>2, <2>3, <2>4
<1>11. g[0] = <<>>
  <2>1. g[0] = Kinds(<<>>)
    BY <1>1, <1>6
  <2>2. Kinds(<<>>) = <<>>
    BY DEF Kinds
  <2> QED
    BY <2>1, <2>2
<1>12. Kinds(Asides(lines)) = g[n]
  <2>1. g[n] = Kinds(h[n])
    BY <1>1
  <2> QED
    BY <1>3, <1>4, <1>6, <2>1
<1>13. g \in [0..n -> Seq(K)] /\ b \in [1..n -> Seq(K)]
    BY <1>9
<1>14. \A i \in 1..n : b[i] = IF EndsAside(lines, i) THEN <<Shown(lines, i).kind, "close">>
                              ELSE <<Shown(lines, i).kind>>
  <2> SUFFICES ASSUME NEW i \in 1..n
               PROVE  b[i] = IF EndsAside(lines, i) THEN <<Shown(lines, i).kind, "close">>
                             ELSE <<Shown(lines, i).kind>>
    OBVIOUS
  <2>1. b[i] = Kinds(AsidePart(lines, i))
    OBVIOUS
  <2> HIDE DEF b
  <2>2. Line("close", NoLink).kind = "close"
    BY DEF Line
  <2>3. CASE EndsAside(lines, i)
    <3>1. AsidePart(lines, i) = <<Shown(lines, i), Line("close", NoLink)>>
      BY <2>3 DEF AsidePart
    <3> QED
      BY <2>1, <2>2, <2>3, <3>1, KindsOfFew
  <2>4. CASE ~EndsAside(lines, i)
    <3>1. AsidePart(lines, i) = <<Shown(lines, i)>>
      BY <2>4 DEF AsidePart
    <3> QED
      BY <2>1, <2>4, <3>1, KindsOfFew
  <2> QED
    BY <2>3, <2>4
<1> HIDE DEF g, b
<1>15. Chain(g, b, n, K)
    BY <1>10, <1>13 DEF Chain
<1> QED
    BY <1>11, <1>12, <1>14, <1>15 DEF K

\* convertAlerts collects what its iterations push.
LEMMA ConvertWoven ==
    ASSUME NEW new \in Seq(PageLines)
    PROVE  \E f, p, next :
             /\ Woven(f, p, next, Len(new), STRING)
             /\ Kinds(convertAlerts(new)) = f[1]
             /\ \A j \in 1..Len(new) :
                  next[j] = After(new, j) /\ p[j] = Kinds(Pushed(new, j))
<1> DEFINE n == Len(new)
           K == STRING
<1>1. n \in Nat /\ n + 1 \in 1..n + 1 /\ 1 \in 1..n + 1
    BY LenProperties
<1>2. \A j \in 1..n : Pushed(new, j) \in Seq(PageLines)
    BY PushedIs
<1>3. PICK h \in [1..n + 1 -> Seq(PageLines)] :
        /\ h[n + 1] = <<>>
        /\ \A j \in 1..n : h[j] = Pushed(new, j) \o h[After(new, j)]
        /\ convertAlerts(new) = h[1]
    BY <1>2, ConvertFunction
<1>4. \A j \in 1..n : After(new, j) \in 1..n + 1 /\ After(new, j) > j
  <2> SUFFICES ASSUME NEW j \in 1..n PROVE After(new, j) \in 1..n + 1 /\ After(new, j) > j
    OBVIOUS
  <2>1. AlertEnd(new, j) \in j + 1..n + 1
    BY AlertEndIs
  <2>2. After(new, j) \in j + 1..n + 1
    BY <1>1, <2>1 DEF After
  <2> HIDE DEF n
  <2> QED
    BY <1>1, <2>2
<1>5. \A x \in PageLines : x.kind \in K
    BY DEF PageLines
<1> HIDE DEF K, n
<1>6. (\A j \in 1..n + 1 : Kinds(h[j]) \in Seq(K)) /\ \A j \in 1..n : Kinds(Pushed(new, j)) \in Seq(K)
    BY <1>2, <1>5, KindsAre
<1> DEFINE f == [j \in 1..n + 1 |-> Kinds(h[j])]
           p == [j \in 1..n |-> Kinds(Pushed(new, j))]
           next == [j \in 1..n |-> After(new, j)]
<1>7. ASSUME NEW j \in 1..n
      PROVE  f[j] = p[j] \o f[next[j]]
  <2>1. j \in 1..n + 1 /\ After(new, j) \in 1..n + 1
    BY <1>1, <1>4
  <2> DEFINE s == Pushed(new, j)
             t == h[After(new, j)]
  <2>2. s \in Seq(PageLines) /\ t \in Seq(PageLines) /\ h[j] = s \o t
    BY <1>2, <1>3, <2>1
  <2>3. f[j] = Kinds(h[j]) /\ p[j] = Kinds(s) /\ f[next[j]] = Kinds(t)
    BY <2>1
  <2> HIDE DEF s, t, f, p, next
  <2>4. Kinds(s \o t) = Kinds(s) \o Kinds(t)
    BY <1>5, <2>2, KindsOfJoined
  <2> QED
    BY <2>2, <2>3, <2>4
<1>8. f[n + 1] = <<>>
  <2>1. f[n + 1] = Kinds(<<>>)
    BY <1>1, <1>3
  <2>2. Kinds(<<>>) = <<>>
    BY DEF Kinds
  <2> QED
    BY <2>1, <2>2
<1>9. Kinds(convertAlerts(new)) = f[1]
    BY <1>1, <1>3
<1>10. /\ f \in [1..n + 1 -> Seq(K)] /\ p \in [1..n -> Seq(K)]
       /\ next \in [1..n -> 1..n + 1] /\ \A j \in 1..n : next[j] > j
    BY <1>4, <1>6
<1>11. \A j \in 1..n : next[j] = After(new, j) /\ p[j] = Kinds(Pushed(new, j))
    OBVIOUS
<1> HIDE DEF f, p, next
<1>12. Woven(f, p, next, n, K)
    BY <1>7, <1>8, <1>10 DEF Woven
<1> QED
    BY <1>9, <1>11, <1>12 DEF n, K

\* The loops of convertAlerts and the line-by-line definition make the same asides.
LEMMA ConvertIsAsides ==
    ASSUME NEW lines \in Seq(SourceLines), NEW new \in Seq(PageLines),
           Len(new) = Len(lines), \A i \in 1..Len(lines) : new[i].kind = lines[i].kind
    PROVE  Kinds(convertAlerts(new)) = Kinds(Asides(lines))
<1> DEFINE n == Len(lines)
           K == STRING
           part(i) == IF EndsAside(lines, i) THEN <<Shown(lines, i).kind, "close">>
                      ELSE <<Shown(lines, i).kind>>
           start == {j \in 1..n + 1 : j = n + 1 \/ ~Inside(lines, j)}
<1>1. n \in Nat
    BY LenProperties
<1>2. PICK g, b : /\ Chain(g, b, n, K) /\ g[0] = <<>> /\ Kinds(Asides(lines)) = g[n]
                  /\ \A i \in 1..n : b[i] = part(i)
    BY AsidesChain
<1>3. PICK f, p, next : /\ Woven(f, p, next, n, K) /\ Kinds(convertAlerts(new)) = f[1]
                        /\ \A j \in 1..n : next[j] = After(new, j) /\ p[j] = Kinds(Pushed(new, j))
    BY ConvertWoven
<1>4. \A i \in 1..n : /\ IsAlert(new[i]) <=> IsAlert(lines[i])
                      /\ IsQuoted(new[i]) <=> IsQuoted(lines[i])
    BY DEF IsAlert, IsQuoted
<1>5. \A x \in PageLines : x.kind \in K
    BY DEF PageLines
<1>6. ASSUME NEW j \in 1..n, ~Inside(lines, j)
      PROVE  next[j] \in start /\ g[next[j] - 1] = g[j - 1] \o p[j]
  <2>1. j \in 1..Len(new) /\ j + 1 \in 1..n + 1 /\ (j + 1) - 1 = j
    BY <1>1
  <2>2. CASE ~IsAlert(lines[j])
    <3>1. ~EndsAside(lines, j) /\ Shown(lines, j) = lines[j] /\ ~Inside(lines, j + 1)
      BY <1>6, <2>2, OutsideIs
    <3>2. next[j] = j + 1 /\ p[j] = Kinds(<<new[j]>>)
      BY <1>3, <1>4, <2>1, <2>2, PushedIs DEF After
    <3>3. p[j] = <<lines[j].kind>>
      BY <3>2, KindsOfFew
    <3>4. b[j] = <<lines[j].kind>>
      BY <1>2, <3>1
    <3>5. g[j] = g[j - 1] \o b[j]
      BY <1>2 DEF Chain
    <3> QED
      BY <2>1, <3>1, <3>2, <3>3, <3>4, <3>5
  <2>3. CASE IsAlert(lines[j])
    <3> DEFINE e == AlertEnd(new, j)
               s == Pushed(new, j)
               q == Kinds(s)
    <3>1. IsAlert(new[j]) /\ next[j] = e /\ p[j] = q
      BY <1>3, <1>4, <2>1, <2>3 DEF After
    <3>2. /\ e \in j + 1..n + 1 /\ (e = n + 1 \/ ~IsQuoted(new[e]))
          /\ \A k \in j + 1..e - 1 : IsQuoted(new[k])
      BY <2>1, AlertEndIs
    <3>3. /\ s \in Seq(PageLines) /\ Len(s) = e - j + 1
          /\ s[1] = Line(asideTypes[new[j].kind], NoLink)
          /\ \A k \in j + 1..e - 1 : s[k - j + 1] = Unquote(new[k])
          /\ s[e - j + 1] = Line("close", NoLink)
      BY <2>1, <3>1, PushedIs
    <3> HIDE DEF e, s, n, K, start, part
    <3>4. e = n + 1 \/ e \in 1..n
      BY <1>1, <3>2
    <3>5. \A k \in j + 1..e - 1 : k \in 1..n
      BY <1>1, <3>2
    <3>6. /\ e = n + 1 \/ ~IsQuoted(lines[e])
          /\ \A k \in j + 1..e - 1 : IsQuoted(lines[k])
      BY <1>4, <3>2, <3>4, <3>5
    <3>7. /\ Shown(lines, j) = Line(asideTypes[lines[j].kind], NoLink)
          /\ \A k \in j + 1..e - 1 : Shown(lines, k) = Unquote(lines[k])
          /\ \A k \in j..e - 1 : EndsAside(lines, k) <=> k = e - 1
          /\ e = n + 1 \/ ~Inside(lines, e)
      BY <1>6, <2>3, <3>2, <3>6, AsideIs DEF n
    <3>8. /\ q \in Seq(K) /\ Len(q) = e - j + 1
          /\ \A k \in 1..e - j + 1 : q[k] = s[k].kind
      BY <1>5, <3>3, KindsAre
    <3> HIDE DEF q
    <3>9. ASSUME NEW k \in j..e - 1
          PROVE  Shown(lines, k).kind = q[k - j + 1]
      <4>1. k - j + 1 \in 1..e - j + 1 /\ j - j + 1 = 1
        BY <1>1, <3>2
      <4>2. q[k - j + 1] = s[k - j + 1].kind
        BY <3>8, <4>1
      <4>3. CASE k = j
        <5>1. s[1].kind = asideTypes[new[j].kind] /\ Shown(lines, j).kind = asideTypes[lines[j].kind]
          BY <3>3, <3>7 DEF Line
        <5>2. new[j].kind = lines[j].kind
          BY DEF n
        <5> QED
          BY <4>1, <4>2, <4>3, <5>1, <5>2
      <4>4. CASE k # j
        <5>1. k \in j + 1..e - 1
          BY <1>1, <3>2, <4>4
        <5>2. k \in 1..Len(new) /\ k \in 1..Len(lines)
          BY <3>5, <5>1 DEF n
        <5>3. s[k - j + 1] = Unquote(new[k]) /\ Shown(lines, k) = Unquote(lines[k])
          BY <3>3, <3>7, <5>1
        <5>4. new[k] \in PageLines /\ lines[k] \in SourceLines
          BY <5>2, ElementOfSeq
        <5>5. Unquote(new[k]).kind = "text"
          BY <5>4, PageLineIs
        <5>6. lines[k] = Line(lines[k].kind, lines[k].link)
          BY <5>4, SourceLineIs
        <5>7. Unquote(lines[k]).kind = "text"
          BY <5>6 DEF Unquote, Line
        <5> QED
          BY <4>2, <5>3, <5>5, <5>7
      <4> QED
        BY <4>3, <4>4
    <3>10. ASSUME NEW k \in j..e - 2
           PROVE  b[k] = <<q[k - j + 1]>>
      <4>1. k \in j..e - 1 /\ k # e - 1 /\ k \in 1..n
        BY <1>1, <3>2
      <4>2. ~EndsAside(lines, k) /\ Shown(lines, k).kind = q[k - j + 1]
        BY <3>7, <3>9, <4>1
      <4> QED
        BY <1>2, <4>1, <4>2 DEF part
    <3>11. b[e - 1] = <<q[e - j], q[e - j + 1]>>
      <4>1. /\ e - 1 \in j..e - 1 /\ e - 1 \in 1..n /\ (e - 1) - j + 1 = e - j
            /\ e - j + 1 \in 1..e - j + 1
        BY <1>1, <3>2
      <4>2. EndsAside(lines, e - 1) /\ Shown(lines, e - 1).kind = q[e - j]
        BY <3>7, <3>9, <4>1
      <4>3. q[e - j + 1] = "close"
        BY <3>3, <3>8, <4>1 DEF Line
      <4> QED
        BY <1>2, <4>1, <4>2, <4>3 DEF part
    <3>12. g[e - 1] = g[j - 1] \o q
      <4>1. Stretches(b, q, j, e)
        BY <3>8, <3>10, <3>11 DEF Stretches
      <4>2. Spans(g, q, j, e)
        BY <1>1, <1>2, <3>2, <3>8, <4>1, Stretch
      <4> QED
        BY <4>2 DEF Spans
    <3>13. e \in start
      BY <1>1, <3>2, <3>4, <3>7 DEF start
    <3> QED
      BY <3>1, <3>12, <3>13
  <2> QED
    BY <2>2, <2>3
<1>7. StepsOver(g, p, next, start, n)
  <2> SUFFICES ASSUME NEW j \in 1..n, j \in start
               PROVE  next[j] \in start /\ g[next[j] - 1] = g[j - 1] \o p[j]
    BY DEF StepsOver
  <2>1. ~Inside(lines, j)
    BY <1>1
  <2> QED
    BY <1>6, <2>1
<1>8. 1 \in start
  <2>1. ~Inside(lines, 1)
    BY DEF Inside
  <2> QED
    BY <1>1, <2>1
<1> HIDE DEF start, n, K
<1>9. SameEnds(g, f, n)
    BY <1>1, <1>2, <1>3, <1>7, <1>8, Weave
<1> QED
    BY <1>2, <1>3, <1>9 DEF SameEnds

\* Alerts become asides, and every other line stays, for any texts.
THEOREM AlertsAreAsides == Spec => []AlertsBecomeAsides
<1>1. ASSUME SyncedInv
      PROVE  AlertsBecomeAsides
  <2> SUFFICES ASSUME Undisturbed, NEW slug \in Slugs
               PROVE  Kinds(content[slug].body) = Kinds(Asides(Source(slug).lines))
    BY DEF AlertsBecomeAsides
  <2> DEFINE lines == Source(slug).lines
             dir == Source(slug).dir
             new == rewriteLinks(lines, dir, pages)
  <2>1. lines \in Seq(SourceLines) /\ dir \in Seq(STRING) /\ content[slug].body = convertAlerts(new)
    BY <1>1, BodyIs
  <2> HIDE DEF lines, dir
  <2>2. /\ new \in Seq(PageLines) /\ Len(new) = Len(lines)
        /\ \A i \in 1..Len(lines) : new[i].kind = lines[i].kind
    BY <2>1, Rewritten
  <2> HIDE DEF new
  <2>3. Kinds(convertAlerts(new)) = Kinds(Asides(lines))
    BY <2>1, <2>2, ConvertIsAsides
  <2> QED
    BY <2>1, <2>3 DEF lines
<1> QED
    BY <1>1, SyncedInvariant, PTL
=============================================================================
