--------------------------- MODULE ConfinementProofs --------------------------
(***************************************************************************)
(* Proofs about the local location policy, for every file system with      *)
(* links: how a path is walked, what realpath and the kernel make of it,   *)
(* and what a confined facade hands to its backend.                        *)
(***************************************************************************)
EXTENDS DecisionProofs

-----------------------------------------------------------------------------
(* The walk of a path *)

Faulty == {"", "absent", "notdir"}
Walks(N) == [dir : Seq(N), rest : Seq(N), fault : Faulty]

\* A file system of names in N, in which what exists is in a directory.
Tree(N, fs) ==
    /\ DOMAIN fs \subseteq Seq(N)
    /\ \A p \in DOMAIN fs : /\ fs[p].kind \in {"file", "dir", "special", "link"}
                            /\ fs[p].kind = "link" => fs[p].to \in Seq(N)
                            /\ KindAt(fs, Parent(p)) = "dir"

\* Names for what the steps compare, so that the lemmas need not look into them.
Free(w) == w.fault = ""
Dots(x) == x \in {".", ".."}
Link(fs, p) == KindAt(fs, p) = "link"
Folder(fs, p) == KindAt(fs, p) = "dir"

\* What a step of a walk does, case by case.
Moved(fs, w, v) ==
    LET name == Head(w.rest)
        next == Append(w.dir, name) IN
    /\ w.rest = <<>> => v = w
    /\ w.rest # <<>> =>
          /\ v = [dir |-> v.dir, rest |-> v.rest, fault |-> v.fault]
          /\ v.fault \in {w.fault, Obstacle(fs, w.dir)}
          /\ Free(v) <=> Free(w) /\ Folder(fs, w.dir)
          /\ name = "." => v.dir = w.dir /\ v.rest = Tail(w.rest)
          /\ name = ".." => v.dir = Parent(w.dir) /\ v.rest = Tail(w.rest)
          /\ ~Dots(name) /\ Link(fs, next) =>
                v.dir = (IF fs[next].abs THEN <<>> ELSE w.dir) /\ v.rest = fs[next].to \o Tail(w.rest)
          /\ ~Dots(name) /\ ~Link(fs, next) =>
                v.dir = next /\ v.rest = Tail(w.rest)

\* The walk goes on without an obstacle only in a directory.
LEMMA ObstacleIs ==
    ASSUME NEW fs, NEW d
    PROVE  Obstacle(fs, d) = "" <=> Folder(fs, d)
<1>1. "" # "absent" /\ "" # "notdir" /\ "dir" # "none"
  OBVIOUS
<1>2. CASE KindAt(fs, d) = "dir"
  BY <1>1, <1>2 DEF Obstacle, Folder
<1>3. CASE KindAt(fs, d) = "none"
  BY <1>1, <1>3 DEF Obstacle, Folder
<1>4. CASE KindAt(fs, d) # "dir" /\ KindAt(fs, d) # "none"
  BY <1>1, <1>4 DEF Obstacle, Folder
<1> QED BY <1>2, <1>3, <1>4

\* One step of the walk, case by case.
LEMMA OnwardMoves ==
    ASSUME NEW fs, NEW w
    PROVE  Moved(fs, w, Onward(fs, w))
<1> DEFINE name == Head(w.rest)
           next == Append(w.dir, name)
           fault == IF w.fault # "" THEN w.fault ELSE Obstacle(fs, w.dir)
           link == Link(fs, next)
           dots == Dots(name)
           up == IF fs[next].abs THEN <<>> ELSE w.dir
           Go(dir, rest) == [dir |-> dir, rest |-> rest, fault |-> fault]
           v == Onward(fs, w)
<1>1. "." # ".." /\ (dots <=> name = "." \/ name = "..")
  BY DEF Dots
<1>2. /\ w.rest = <<>> => v = w
      /\ w.rest # <<>> /\ name = "." => v = Go(w.dir, Tail(w.rest))
      /\ w.rest # <<>> /\ name = ".." => v = Go(Parent(w.dir), Tail(w.rest))
      /\ w.rest # <<>> /\ ~dots /\ link => v = Go(up, fs[next].to \o Tail(w.rest))
      /\ w.rest # <<>> /\ ~dots /\ ~link => v = Go(next, Tail(w.rest))
  <2> HIDE DEF name, next, fault, link, up, dots
  <2>1. v = CASE w.rest = <<>> -> w
              [] w.rest # <<>> /\ name = "." -> Go(w.dir, Tail(w.rest))
              [] w.rest # <<>> /\ name = ".." -> Go(Parent(w.dir), Tail(w.rest))
              [] w.rest # <<>> /\ ~dots /\ link -> Go(up, fs[next].to \o Tail(w.rest))
              [] OTHER -> Go(next, Tail(w.rest))
    BY Zenon DEF Onward, name, next, fault, link, up, dots, Link, Dots
  <2> HIDE DEF v, Go
  <2> QED BY <1>1, <2>1
<1>3. \A dir, rest : Go(dir, rest).dir = dir /\ Go(dir, rest).rest = rest /\ Go(dir, rest).fault = fault
  <2> HIDE DEF fault
  <2> QED OBVIOUS
<1> HIDE DEF name, next, fault, link, up, dots, Go, v
<1>4. ASSUME w.rest # <<>>
      PROVE
          /\ v.fault = fault
          /\ name = "." => v.dir = w.dir /\ v.rest = Tail(w.rest)
          /\ name = ".." => v.dir = Parent(w.dir) /\ v.rest = Tail(w.rest)
          /\ ~dots /\ link => v.dir = up /\ v.rest = fs[next].to \o Tail(w.rest)
          /\ ~dots /\ ~link => v.dir = next /\ v.rest = Tail(w.rest)
  <2>1. CASE name = "."
    <3>1. v = Go(w.dir, Tail(w.rest))
      BY <1>2, <1>4, <2>1, Zenon
    <3>2. dots /\ name # ".."
      BY <1>1, <2>1
    <3> QED BY <1>3, <2>1, <3>1, <3>2, Zenon
  <2>2. CASE name = ".."
    <3>1. v = Go(Parent(w.dir), Tail(w.rest))
      BY <1>2, <1>4, <2>2, Zenon
    <3>2. dots /\ name # "."
      BY <1>1, <2>2
    <3> QED BY <1>3, <2>2, <3>1, <3>2, Zenon
  <2>3. CASE ~dots /\ link
    <3>1. v = Go(up, fs[next].to \o Tail(w.rest))
      BY <1>2, <1>4, <2>3, Zenon
    <3>2. name # "." /\ name # ".."
      BY <1>1, <2>3, Zenon
    <3> QED BY <1>3, <2>3, <3>1, <3>2, ZenonT(30)
  <2>4. CASE ~dots /\ ~link
    <3>1. v = Go(next, Tail(w.rest))
      BY <1>2, <1>4, <2>4, Zenon
    <3>2. name # "." /\ name # ".."
      BY <1>1, <2>4, Zenon
    <3> QED BY <1>3, <2>4, <3>1, <3>2, Zenon
  <2> QED BY <1>1, <2>1, <2>2, <2>3, <2>4, Zenon
<1>6. w.rest # <<>> => v = [dir |-> v.dir, rest |-> v.rest, fault |-> v.fault]
  <2>1. \A dir, rest : Go(dir, rest) = [dir |-> Go(dir, rest).dir, rest |-> Go(dir, rest).rest, fault |-> Go(dir, rest).fault]
    <3> HIDE DEF fault
    <3> QED BY DEF Go
  <2>2. w.rest # <<>> => \E dir, rest : v = Go(dir, rest)
    <3>1. name = "." \/ name = ".." \/ (~dots /\ link) \/ (~dots /\ ~link)
      BY <1>1, Zenon
    <3> QED BY <1>2, <3>1, Zenon
  <2> QED BY <2>1, <2>2, Zenon
<1>5. w.rest = <<>> => v = w
  BY <1>2
<1>7. w.rest # <<>> => v.fault \in {w.fault, Obstacle(fs, w.dir)}
                       /\ (Free(v) <=> Free(w) /\ Folder(fs, w.dir))
  <2>1. w.rest # <<>> => v.fault = IF w.fault # "" THEN w.fault ELSE Obstacle(fs, w.dir)
    BY <1>4 DEF fault
  <2>2. Obstacle(fs, w.dir) = "" <=> Folder(fs, w.dir)
    BY ObstacleIs
  <2> QED BY <2>1, <2>2 DEF Free
<1> QED BY <1>4, <1>5, <1>6, <1>7, Zenon DEF name, next, fault, link, up, v, dots, Moved

\* What may be at a path: whatever is there has a directory above it.
LEMMA KindsAre ==
    ASSUME NEW N, NEW fs, Tree(N, fs), NEW p
    PROVE  /\ KindAt(fs, p) \in {"file", "dir", "special", "link", "none"}
           /\ KindAt(fs, p) \notin {"dir", "none"} => p \in DOMAIN fs /\ fs[p].kind = KindAt(fs, p)
           /\ KindAt(fs, p) = "dir" /\ p # <<>> => p \in DOMAIN fs
           /\ p # <<>> /\ KindAt(fs, p) # "none" => p \in DOMAIN fs /\ KindAt(fs, Parent(p)) = "dir"
  BY DEF KindAt, Tree

\* A nonempty path is its first name and the others.
LEMMA HeadTail ==
    ASSUME NEW N, NEW r \in Seq(N), r # <<>>
    PROVE  /\ Head(r) \in N /\ Tail(r) \in Seq(N) /\ Len(r) \in Nat \ {0} /\ Len(Tail(r)) = Len(r) - 1
           /\ Head(r) = r[1] /\ \A i \in 1..Len(r) - 1 : Tail(r)[i] = r[i + 1]
  BY HeadTailProperties, EmptySeq

\* A nonempty path is the path above it and its last name.
LEMMA FrontLast ==
    ASSUME NEW N, NEW r \in Seq(N), r # <<>>
    PROVE  /\ Front(r) \in Seq(N) /\ Len(Front(r)) = Len(r) - 1 /\ Len(r) \in Nat \ {0}
           /\ Last(r) \in N /\ r = Append(Front(r), Last(r)) /\ Last(r) = r[Len(r)]
           /\ \A i \in 1..Len(r) - 1 : Front(r)[i] = r[i]
<1>1. Len(r) \in Nat \ {0}
  BY EmptySeq
<1>2. PICK n \in Nat : n = Len(r) - 1
  BY <1>1
<1>3. r[Len(r)] \in N /\ \A i \in 1..n : r[i] \in N
  BY <1>1, <1>2, ElementOfSeq
<1>4. Front(r) = SubSeq(r, 1, n) /\ Last(r) = r[Len(r)]
  BY <1>2 DEF Front, Last
<1>5. Front(r) \in Seq(N) /\ Len(Front(r)) = n /\ \A i \in 1..n : Front(r)[i] = r[i]
  <2>1. 1 \in Int /\ n \in Int /\ (IF 1 <= n THEN n - 1 + 1 ELSE 0) = n /\ n - 1 + 1 = n
        /\ \A i \in 1..n : 1 + i - 1 = i
    BY <1>2
  <2> QED BY <1>2, <1>3, <1>4, <2>1, SubSeqProperties
<1>6. r = Append(Front(r), Last(r))
  <2> DEFINE f == Front(r)
             a == Append(f, Last(r))
  <2>1. a \in Seq(N) /\ Len(a) = n + 1 /\ (\A i \in 1..n : a[i] = f[i]) /\ a[n + 1] = Last(r)
    <3> HIDE DEF f
    <3> QED BY <1>3, <1>4, <1>5, AppendProperties DEF f
  <2>2. Len(r) = n + 1
    BY <1>1, <1>2
  <2>3. \A i \in 1..Len(r) : a[i] = r[i]
    <3> HIDE DEF a, f
    <3>1. \A i \in 1..n + 1 : i \in 1..n \/ i = n + 1
      BY <1>2
    <3> QED BY <1>4, <1>5, <2>1, <2>2, <3>1 DEF f
  <2> HIDE DEF a
  <2>4. a = r
    BY <2>1, <2>2, <2>3, SeqEqual
  <2> QED BY <2>4 DEF a
<1> QED BY <1>1, <1>2, <1>3, <1>4, <1>5, <1>6
\* The path above a path is one.
LEMMA ParentIn ==
    ASSUME NEW N, NEW p \in Seq(N)
    PROVE  Parent(p) \in Seq(N)
<1>1. <<>> \in Seq(N)
  BY EmptySeq
<1> QED BY <1>1, FrontLast DEF Parent

\* A step of the walk stays among the walk's states.
LEMMA OnwardTyped ==
    ASSUME NEW N, NEW fs, Tree(N, fs), NEW w \in Walks(N)
    PROVE  Onward(fs, w) \in Walks(N)
<1> DEFINE v == Onward(fs, w)
           name == Head(w.rest)
           next == Append(w.dir, name)
<1> HIDE DEF v
<1>1. Moved(fs, w, v)
  BY OnwardMoves DEF v
<1>2. w.dir \in Seq(N) /\ w.rest \in Seq(N) /\ w.fault \in Faulty
  BY DEF Walks
<1>3. CASE w.rest = <<>>
  BY <1>1, <1>3 DEF Moved, v
<1>4. CASE w.rest # <<>>
  <2>1. name \in N /\ Tail(w.rest) \in Seq(N)
    BY <1>2, <1>4, HeadTail
  <2>2. next \in Seq(N)
    BY <1>2, <2>1, AppendProperties
  <2>3. v.fault \in Faulty
    <3>1. Obstacle(fs, w.dir) \in Faulty
      BY DEF Obstacle, Faulty
    <3> QED BY <1>1, <1>2, <1>4, <3>1, Zenon DEF Moved
  <2>4. v.dir \in Seq(N) /\ v.rest \in Seq(N)
    <3>1. CASE name = "."
      BY <1>1, <1>2, <1>4, <2>1, <3>1, Zenon DEF Moved
    <3>2. CASE name = ".."
      <4>1. Parent(w.dir) \in Seq(N)
        BY <1>2, ParentIn
      <4> QED BY <1>1, <1>4, <2>1, <3>2, <4>1, Zenon DEF Moved
    <3>3. CASE ~Dots(name) /\ Link(fs, next)
      <4>1. next \in DOMAIN fs /\ fs[next].kind = "link"
        <5>1. KindAt(fs, next) \notin {"dir", "none"}
          BY <3>3 DEF Link
        <5> HIDE DEF next
        <5> QED BY <3>3, <5>1, KindsAre DEF Link
      <4>2. fs[next].to \in Seq(N)
        BY <4>1 DEF Tree
      <4>3. v.dir = (IF fs[next].abs THEN <<>> ELSE w.dir) /\ v.rest = fs[next].to \o Tail(w.rest)
        BY <1>1, <1>4, <3>3, Zenon DEF Moved
      <4>4. <<>> \in Seq(N)
        BY EmptySeq
      <4>5. v.rest \in Seq(N)
        <5> HIDE DEF next
        <5> QED BY <2>1, <4>2, <4>3, ConcatProperties
      <4> HIDE DEF next
      <4> QED BY <1>2, <4>3, <4>4, <4>5
    <3>4. CASE ~Dots(name) /\ ~Link(fs, next)
      BY <1>1, <1>4, <2>1, <2>2, <3>4, Zenon DEF Moved
    <3>5. Dots(name) => name = "." \/ name = ".."
      BY DEF Dots
    <3> QED BY <3>1, <3>2, <3>3, <3>4, <3>5
  <2>5. v = [dir |-> v.dir, rest |-> v.rest, fault |-> v.fault]
    BY <1>1, <1>4, Zenon DEF Moved
  <2> QED BY <2>3, <2>4, <2>5 DEF Walks, v
<1> QED BY <1>3, <1>4

\* A walk and its steps.
IsWalk(N, fs, path, w) ==
    /\ w[0].dir = <<>> /\ w[0].rest = path /\ Free(w[0])
    /\ \A n \in 1..Steps : Moved(fs, w[n - 1], w[n])
    /\ \A n \in 0..Steps : w[n].dir \in Seq(N) /\ w[n].rest \in Seq(N) /\ w[n].fault \in Faulty

\* Walk begins at the root with the whole path and takes one step at a time.
Runs(fs, path, w) ==
    /\ w[0] = [dir |-> <<>>, rest |-> path, fault |-> ""]
    /\ \A n \in 1..Steps : w[n] = Onward(fs, w[n - 1])

\* The walk of every path runs so.
LEMMA WalkRuns ==
    ASSUME NEW N, NEW fs, Tree(N, fs), NEW path \in Seq(N)
    PROVE  Runs(fs, path, Walk(fs, path))
<1> DEFINE start == [dir |-> <<>>, rest |-> path, fault |-> ""]
           D == 0..Steps
           V == Walks(N)
           mu == [n \in D |-> n]
           base == [n \in {0} |-> start]
           next == [n \in D \ {0} |-> n - 1]
           on == [v \in V |-> Onward(fs, v)]
           wrap == [n \in D \ {0} |-> on]
           Body(g, n) == IF n = 0 THEN start ELSE Onward(fs, g[n - 1])
           After == CHOOSE g : g = [n \in D |-> Body(g, n)]
<1>1. Steps \in Nat
  BY StepsAssumption
<1>2. start \in V
  BY EmptySeq DEF Walks, Faulty
<1>3. on \in [V -> V]
  BY OnwardTyped
<1>4. Descends(D, V, mu, {0}, base, next, wrap)
  <2>1. base \in [{0} -> V]
    <3> HIDE DEF V, start
    <3> QED BY <1>2
  <2>2. wrap \in [D \ {0} -> [V -> V]]
    <3> HIDE DEF V, on, D
    <3> QED BY <1>3
  <2>3. /\ mu \in [D -> Nat] /\ {0} \in SUBSET D /\ next \in [D \ {0} -> D]
        /\ \A n \in D \ {0} : mu[next[n]] < mu[n]
    BY <1>1
  <2> HIDE DEF mu, base, next, wrap, V, D
  <2> QED BY <2>1, <2>2, <2>3 DEF Descends
<1>5. PICK f : Solves(f, D, V, {0}, base, next, wrap)
  <2> HIDE DEF mu, base, next, wrap, D, V
  <2> QED BY <1>4, LinearRecursion, Zenon
<1>6. f = [n \in D |-> Body(f, n)]
  <2>1. f \in [D -> V] /\ \A n \in D : f[n] = IF n \in {0} THEN base[n] ELSE wrap[n][f[next[n]]]
    <3> HIDE DEF mu, base, next, wrap, D, V
    <3> QED BY <1>5 DEF Solves
  <2>2. ASSUME NEW n \in D PROVE f[n] = Body(f, n)
    <3>1. CASE n = 0
      <4> HIDE DEF start, V
      <4> QED BY <2>1, <3>1
    <3>2. CASE n # 0
      <4>1. n - 1 \in D /\ next[n] = n - 1
        BY <1>1, <3>2
      <4>2. f[n - 1] \in V
        BY <2>1, <4>1
      <4>3. f[n] = wrap[n][f[n - 1]] /\ wrap[n] = on
        <5> HIDE DEF on, V
        <5> QED BY <2>1, <3>2, <4>1
      <4> HIDE DEF V
      <4> QED BY <3>2, <4>2, <4>3
    <3> QED BY <3>1, <3>2
  <2> HIDE DEF Body, D, V
  <2> QED BY <2>1, <2>2
<1>7. After = [n \in D |-> Body(After, n)]
  <2> HIDE DEF Body, D
  <2> QED BY <1>6, Zenon
<1>8. Walk(fs, path) = After
  BY Zenon DEF Walk
<1> HIDE DEF After
<1>9. After[0] = start /\ \A n \in 1..Steps : After[n] = Onward(fs, After[n - 1])
  <2>1. 0 \in D /\ \A n \in 1..Steps : n \in D /\ n # 0
    BY <1>1
  <2>2. \A n \in D : After[n] = Body(After, n)
    <3> HIDE DEF Body, D
    <3> QED BY <1>7
  <2> HIDE DEF start, D
  <2> QED BY <2>1, <2>2
<1> HIDE DEF start
<1> QED BY <1>8, <1>9, Zenon DEF Runs, start

\* Its steps are those of a walk.
LEMMA WalkSteps ==
    ASSUME NEW N, NEW fs, Tree(N, fs), NEW path \in Seq(N)
    PROVE  IsWalk(N, fs, path, Walk(fs, path))
<1> DEFINE start == [dir |-> <<>>, rest |-> path, fault |-> ""]
           D == 0..Steps
           V == Walks(N)
<1>1. Steps \in Nat
  BY StepsAssumption
<1>2. start \in V
  BY EmptySeq DEF Walks, Faulty
<1>3. PICK After : After = Walk(fs, path)
  OBVIOUS
<1>9. After[0] = start /\ \A n \in 1..Steps : After[n] = Onward(fs, After[n - 1])
  <2> HIDE DEF start
  <2>1. Runs(fs, path, After)
    BY <1>3, WalkRuns
  <2> QED BY <2>1, Zenon DEF Runs, start
<1> DEFINE G == {n \in D : After[n] \in V}
<1>10. D \subseteq G
  <2>1. 0 \in G
    <3> HIDE DEF start, V
    <3> QED BY <1>1, <1>2, <1>9
  <2>2. ASSUME NEW n \in 1..Steps, n - 1 \in G PROVE n \in G
    <3>1. After[n - 1] \in V
      BY <2>2
    <3>2. Onward(fs, After[n - 1]) \in V
      BY <3>1, OnwardTyped
    <3>3. After[n] = Onward(fs, After[n - 1])
      BY <1>9
    <3>4. n \in D
      BY <1>1
    <3> HIDE DEF V, D
    <3> QED BY <3>2, <3>3, <3>4
  <2> HIDE DEF G
  <2>3. 0..Steps \subseteq G
    BY <1>1, <2>1, <2>2, UpInduction
  <2> QED BY <2>3
<1>11. \A n \in 1..Steps : Moved(fs, After[n - 1], After[n])
  BY <1>9, OnwardMoves
<1>13. After[0].dir = <<>> /\ After[0].rest = path /\ Free(After[0])
  <2>1. After[0] = start
    BY <1>9
  <2>2. start.dir = <<>> /\ start.rest = path /\ start.fault = ""
    OBVIOUS
  <2> HIDE DEF start
  <2> QED BY <2>1, <2>2, Zenon DEF Free
<1>12. \A n \in 0..Steps : After[n].dir \in Seq(N) /\ After[n].rest \in Seq(N) /\ After[n].fault \in Faulty
  BY <1>10 DEF Walks
<1> QED BY <1>3, <1>11, <1>12, <1>13, Zenon DEF IsWalk

\* Paths that agree up to a place begin alike.
LEMMA SamePrefix ==
    ASSUME NEW N, NEW s \in Seq(N), NEW t \in Seq(N), NEW i \in Nat, i <= Len(s), i <= Len(t),
           \A k \in 1..i : s[k] = t[k]
    PROVE  SubSeq(s, 1, i) = SubSeq(t, 1, i)
<1>1. \A k \in 1..i : s[k] \in N /\ t[k] \in N
  <2>1. \A k \in 1..i : k \in 1..Len(s)
    <3>1. PICK n \in Nat : n = Len(s)
      BY LenProperties
    <3> QED BY <3>1
  <2> QED BY <2>1, ElementOfSeq
<1>2. PICK a : a = SubSeq(s, 1, i)
  OBVIOUS
<1>3. PICK b : b = SubSeq(t, 1, i)
  OBVIOUS
<1>4. 1 \in Int /\ i \in Int /\ (IF 1 <= i THEN i - 1 + 1 ELSE 0) = i /\ i - 1 + 1 = i
      /\ \A k \in 1..i : 1 + k - 1 = k
  OBVIOUS
<1>5. a \in Seq(N) /\ Len(a) = i /\ \A k \in 1..i : a[k] = s[k]
  BY <1>1, <1>2, <1>4, SubSeqProperties
<1>6. b \in Seq(N) /\ Len(b) = i /\ \A k \in 1..i : b[k] = t[k]
  BY <1>1, <1>3, <1>4, SubSeqProperties
<1>7. a = b
  BY <1>5, <1>6, SeqEqual
<1> QED BY <1>2, <1>3, <1>7

\* A path without links and dots.
Canon(fs, d) ==
    \A i \in 1..Len(d) : ~Dots(d[i]) /\ ~Link(fs, SubSeq(d, 1, i))

\* The root holds no link and no dots.
LEMMA CanonEmpty == ASSUME NEW fs PROVE Canon(fs, <<>>)
BY DEF Canon

\* What is above a path without links and dots is one too.
LEMMA CanonFront ==
    ASSUME NEW N, NEW fs, NEW d \in Seq(N), d # <<>>, Canon(fs, d)
    PROVE  Canon(fs, Front(d)) /\ ~Dots(Last(d)) /\ ~Link(fs, d)
<1>1. PICK n \in Nat \ {0} : n = Len(d)
  BY FrontLast
<1>2. PICK f \in Seq(N) : f = Front(d) /\ Len(f) = n - 1 /\ \A i \in 1..n - 1 : f[i] = d[i]
  BY <1>1, FrontLast
<1>3. ASSUME NEW i \in 1..Len(f) PROVE ~Dots(f[i]) /\ ~Link(fs, SubSeq(f, 1, i))
  <2>1. i \in Nat /\ i <= n - 1 /\ i <= n /\ i \in 1..n - 1 /\ i \in 1..n /\ \A k \in 1..i : k \in 1..n - 1
    BY <1>1, <1>2
  <2>2. SubSeq(f, 1, i) = SubSeq(d, 1, i)
    BY <1>1, <1>2, <2>1, SamePrefix
  <2> QED BY <1>1, <1>2, <2>1, <2>2 DEF Canon
<1>4. SubSeq(d, 1, n) = d
  BY <1>1, SubSeqFull
<1>5. n \in 1..n /\ Last(d) = d[n]
  BY <1>1 DEF Last
<1>6. ~Dots(d[n]) /\ ~Link(fs, SubSeq(d, 1, n))
  BY <1>1, <1>5 DEF Canon
<1>7. Canon(fs, f)
  BY <1>3 DEF Canon
<1> QED BY <1>2, <1>4, <1>5, <1>6, <1>7

\* A name that is no link and no dots may be added to such a path.
LEMMA CanonAppend ==
    ASSUME NEW N, NEW fs, NEW d \in Seq(N), Canon(fs, d), NEW x \in N, ~Dots(x),
           ~Link(fs, Append(d, x))
    PROVE  Canon(fs, Append(d, x))
<1>1. PICK n \in Nat : n = Len(d)
  BY LenProperties
<1>2. PICK e \in Seq(N) : e = Append(d, x) /\ Len(e) = n + 1 /\ (\A i \in 1..n : e[i] = d[i]) /\ e[n + 1] = x
  BY <1>1, AppendProperties
<1>3. ASSUME NEW i \in 1..Len(e) PROVE ~Dots(e[i]) /\ ~Link(fs, SubSeq(e, 1, i))
  <2>1. CASE i = n + 1
    <3>1. SubSeq(e, 1, i) = e
      BY <1>2, <2>1, SubSeqFull
    <3> QED BY <1>2, <2>1, <3>1
  <2>2. CASE i # n + 1
    <3>1. i \in Nat /\ i <= n /\ i <= n + 1 /\ i \in 1..n /\ \A k \in 1..i : k \in 1..n
      BY <1>1, <1>2, <2>2
    <3>2. SubSeq(e, 1, i) = SubSeq(d, 1, i)
      BY <1>1, <1>2, <3>1, SamePrefix
    <3> QED BY <1>1, <1>2, <3>1, <3>2 DEF Canon
  <2> QED BY <2>1, <2>2
<1> QED BY <1>2, <1>3 DEF Canon

\* A walk that has come to its end stays there.
LEMMA Stays ==
    ASSUME NEW N, NEW fs, NEW path, NEW w, IsWalk(N, fs, path, w),
           NEW m \in 0..Steps, w[m].rest = <<>>, NEW n \in m..Steps
    PROVE  w[n] = w[m]
<1>1. Steps \in Nat
  BY StepsAssumption
<1>2. PICK k \in Nat : k = Steps - m
  BY <1>1
<1> DEFINE G == {i \in 0..k : w[m + i] = w[m]}
<1>3. 0 \in G
  <2>1. m + 0 = m /\ 0 \in 0..k
    OBVIOUS
  <2> QED BY <2>1
<1>4. ASSUME NEW i \in 1..k, i - 1 \in G PROVE i \in G
  <2>1. PICK j : j = m + i
    OBVIOUS
  <2>2. j \in 1..Steps /\ m + (i - 1) = j - 1 /\ i \in 0..k
    BY <1>1, <1>2, <2>1
  <2>3. w[j - 1] = w[m]
    BY <1>4, <2>2
  <2>4. Moved(fs, w[j - 1], w[j])
    BY <2>2 DEF IsWalk
  <2>5. w[j] = w[m]
    BY <2>3, <2>4, Zenon DEF Moved
  <2> QED BY <2>1, <2>2, <2>5
<1> HIDE DEF G
<1>5. 0..k \subseteq G
  BY <1>3, <1>4, UpInduction
<1>6. n - m \in 0..k /\ m + (n - m) = n
  BY <1>1, <1>2
<1> QED BY <1>5, <1>6 DEF G

\* A walk that has met no obstacle met none before.
LEMMA FaultStays ==
    ASSUME NEW N, NEW fs, NEW path, NEW w, IsWalk(N, fs, path, w),
           NEW n \in 0..Steps, NEW m \in 0..n, Free(w[n])
    PROVE  Free(w[m])
<1> SUFFICES ASSUME ~Free(w[m]) PROVE FALSE
  OBVIOUS
<1>1. Steps \in Nat
  BY StepsAssumption
<1>2. PICK k \in Nat : k = n - m
  BY <1>1
<1> DEFINE G == {i \in 0..k : ~Free(w[m + i])}
<1>3. 0 \in G
  <2>1. m + 0 = m /\ 0 \in 0..k
    OBVIOUS
  <2> QED BY <2>1
<1>4. ASSUME NEW i \in 1..k, i - 1 \in G PROVE i \in G
  <2>1. PICK j : j = m + i
    OBVIOUS
  <2>2. j \in 1..Steps /\ m + (i - 1) = j - 1 /\ i \in 0..k
    BY <1>1, <1>2, <2>1
  <2>3. ~Free(w[j - 1])
    BY <1>4, <2>2
  <2>4. Moved(fs, w[j - 1], w[j])
    BY <2>2 DEF IsWalk
  <2>5. ~Free(w[j])
    <3>1. CASE w[j - 1].rest = <<>>
      BY <2>3, <2>4, <3>1, Zenon DEF Moved
    <3>2. CASE w[j - 1].rest # <<>>
      BY <2>3, <2>4, <3>2, Zenon DEF Moved
    <3> QED BY <3>1, <3>2
  <2> QED BY <2>1, <2>2, <2>5
<1> HIDE DEF G
<1>5. 0..k \subseteq G
  BY <1>3, <1>4, UpInduction
<1>6. k \in 0..k /\ m + k = n
  BY <1>1, <1>2
<1> QED BY <1>5, <1>6 DEF G

\* Where a walk without an obstacle went on there is a directory.
LEMMA NoObstacle ==
    ASSUME NEW N, NEW fs, NEW path, NEW w, IsWalk(N, fs, path, w),
           NEW n \in 0..Steps, NEW m \in 0..n - 1, Free(w[n]), w[m].rest # <<>>
    PROVE  Folder(fs, w[m].dir)
<1>1. PICK j : j = m + 1
  OBVIOUS
<1>2. j \in 0..n /\ j \in 1..Steps /\ j - 1 = m /\ m \in 0..n
  BY <1>1, StepsAssumption
<1>3. Free(w[j])
  BY <1>2, FaultStays
<1>4. Moved(fs, w[m], w[j])
  BY <1>2 DEF IsWalk
<1> QED BY <1>3, <1>4, Zenon DEF Moved

\* A step from d with the name x and the names t left.
Along(fs, d, x, t, s, v) ==
    /\ Free(v) <=> Free(s) /\ Folder(fs, d)
    /\ x = "." => v.dir = d /\ v.rest = t
    /\ x = ".." => v.dir = Parent(d) /\ v.rest = t
    /\ ~Dots(x) /\ ~Link(fs, Append(d, x)) => v.dir = Append(d, x) /\ v.rest = t
    /\ ~Dots(x) /\ Link(fs, Append(d, x)) =>
         v.dir = (IF fs[Append(d, x)].abs THEN <<>> ELSE d) /\ v.rest = fs[Append(d, x)].to \o t

\* A step over one name, when more names follow it.
LEMMA StepAlong ==
    ASSUME NEW N, NEW fs, NEW path, NEW w, IsWalk(N, fs, path, w), NEW j \in 1..Steps,
           NEW x \in N, NEW t \in Seq(N), NEW d \in Seq(N),
           w[j - 1].dir = d, w[j - 1].rest = <<x>> \o t
    PROVE  Along(fs, d, x, t, w[j - 1], w[j])
<1>1. PICK r : r = w[j - 1].rest
  OBVIOUS
<1>2. r # <<>> /\ Head(r) = x /\ Tail(r) = t
  <2>1. <<x>> \in Seq(N) /\ Len(<<x>>) = 1 /\ <<x>>[1] = x
    OBVIOUS
  <2>2. r \in Seq(N) /\ Len(r) = 1 + Len(t) /\ r[1] = x /\ \A i \in 1..Len(t) : r[i + 1] = t[i]
    <3>1. r \in Seq(N) /\ Len(r) = Len(<<x>>) + Len(t)
          /\ \A i \in 1..Len(<<x>>) + Len(t) : r[i] = IF i <= Len(<<x>>) THEN <<x>>[i] ELSE t[i - Len(<<x>>)]
      BY <1>1, <2>1, ConcatProperties
    <3>2. PICK k \in Nat : k = Len(t)
      BY LenProperties
    <3>3. r[1] = x
      <4>1. 1 \in 1..1 + k /\ 1 <= 1
        BY <3>2
      <4> QED BY <2>1, <3>1, <3>2, <4>1
    <3>4. ASSUME NEW i \in 1..k PROVE r[i + 1] = t[i]
      <4>1. i + 1 \in 1..1 + k /\ ~(i + 1 <= 1) /\ i + 1 - 1 = i
        BY <3>2
      <4> QED BY <2>1, <3>1, <3>2, <4>1
    <3> QED BY <2>1, <3>1, <3>2, <3>3, <3>4
  <2>3. PICK k \in Nat : k = Len(t)
    BY LenProperties
  <2>4. r # <<>>
    BY <2>2, <2>3, EmptySeq
  <2>5. PICK q : q = Tail(r)
    OBVIOUS
  <2>6. Head(r) = x /\ q \in Seq(N) /\ Len(q) = k /\ \A i \in 1..k : q[i] = r[i + 1]
    <3>1. 1 + k - 1 = k
      OBVIOUS
    <3> QED BY <2>2, <2>3, <2>4, <2>5, <3>1, HeadTail
  <2>7. q = t
    BY <2>2, <2>3, <2>6, SeqEqual
  <2> QED BY <2>4, <2>5, <2>6, <2>7
<1>3. Moved(fs, w[j - 1], w[j])
  BY DEF IsWalk
<1>4. PICK s : s = w[j - 1]
  OBVIOUS
<1>5. PICK v : v = w[j]
  OBVIOUS
<1>6. Moved(fs, s, v) /\ s.dir = d /\ s.rest = r
  BY <1>1, <1>3, <1>4, <1>5, Zenon
<1>7. s.rest # <<>> /\ Head(s.rest) = x /\ Tail(s.rest) = t
  BY <1>2, <1>6, Zenon
<1>8. Free(v) <=> Free(s) /\ Folder(fs, d)
  BY <1>6, <1>7, Zenon DEF Moved
<1>9. x = "." => v.dir = d /\ v.rest = t
  BY <1>6, <1>7, Zenon DEF Moved
<1>10. x = ".." => v.dir = Parent(d) /\ v.rest = t
  BY <1>6, <1>7, Zenon DEF Moved
<1>11. ~Dots(x) /\ ~Link(fs, Append(d, x)) => v.dir = Append(d, x) /\ v.rest = t
  BY <1>6, <1>7, Zenon DEF Moved
<1>12. ~Dots(x) /\ Link(fs, Append(d, x)) =>
         v.dir = (IF fs[Append(d, x)].abs THEN <<>> ELSE d) /\ v.rest = fs[Append(d, x)].to \o t
  BY <1>6, <1>7, Zenon DEF Moved
<1>13. Along(fs, d, x, t, s, v)
  BY <1>8, <1>9, <1>10, <1>11, <1>12, Zenon DEF Along
<1> QED BY <1>4, <1>5, <1>13

-----------------------------------------------------------------------------
(* The walk without links *)

\* The walk has come to a path without links and dots, of no more names than steps.
LEMMA DirsCanon ==
    ASSUME NEW N, NEW fs, NEW path, NEW w, IsWalk(N, fs, path, w), NEW n \in 0..Steps
    PROVE  Canon(fs, w[n].dir) /\ Len(w[n].dir) <= n
<1> DEFINE G == {k \in 0..Steps : Canon(fs, w[k].dir) /\ Len(w[k].dir) <= k}
<1>1. Steps \in Nat
  BY StepsAssumption
<1>2. 0 \in G
  <2>1. w[0].dir = <<>>
    BY Zenon DEF IsWalk
  <2>2. Len(<<>>) = 0
    BY EmptySeq
  <2> QED BY <1>1, <2>1, <2>2, CanonEmpty
<1>3. ASSUME NEW k \in 1..Steps, k - 1 \in G PROVE k \in G
  <2>1. PICK s : s = w[k - 1]
    OBVIOUS
  <2>2. PICK v : v = w[k]
    OBVIOUS
  <2>3. Moved(fs, s, v)
    BY <2>1, <2>2 DEF IsWalk
  <2>4. k - 1 \in 0..Steps /\ k \in 0..Steps
    BY <1>1
  <2>5. s.dir \in Seq(N) /\ s.rest \in Seq(N)
    BY <2>1, <2>4 DEF IsWalk
  <2>6. PICK d \in Seq(N) : d = s.dir
    BY <2>5
  <2>7. PICK l \in Nat : l = Len(d)
    BY LenProperties
  <2>8. Canon(fs, d) /\ l <= k - 1
    BY <1>3, <2>1, <2>6, <2>7
  <2>9. Canon(fs, v.dir) /\ Len(v.dir) <= k
    <3>1. CASE s.rest = <<>>
      <4>1. v = s
        BY <2>3, <3>1, Zenon DEF Moved
      <4> QED BY <2>6, <2>7, <2>8, <4>1
    <3>2. CASE s.rest # <<>>
      <4>1. PICK x \in N : x = Head(s.rest)
        BY <2>5, <3>2, HeadTail
      <4>2. CASE Dots(x)
        <5>1. v.dir = d \/ v.dir = Parent(d)
          BY <2>3, <2>6, <3>2, <4>1, <4>2 DEF Moved, Dots
        <5>2. CASE v.dir = d
          BY <2>7, <2>8, <5>2
        <5>3. CASE v.dir = Parent(d)
          <6>1. CASE d = <<>>
            <7>1. v.dir = <<>> /\ Len(<<>>) = 0
              BY <5>3, <6>1, EmptySeq DEF Parent
            <7> QED BY <7>1, CanonEmpty
          <6>2. CASE d # <<>>
            <7>1. v.dir = Front(d)
              BY <5>3, <6>2 DEF Parent
            <7>2. Canon(fs, Front(d))
              BY <2>8, <6>2, CanonFront
            <7>3. Len(Front(d)) = l - 1
              BY <2>7, <6>2, FrontLast
            <7> QED BY <2>8, <7>1, <7>2, <7>3
          <6> QED BY <6>1, <6>2
        <5> QED BY <5>1, <5>2, <5>3
      <4>3. CASE ~Dots(x) /\ Link(fs, Append(d, x))
        <5>1. v.dir = (IF fs[Append(d, x)].abs THEN <<>> ELSE d)
          BY <2>3, <2>6, <3>2, <4>1, <4>3, Zenon DEF Moved
        <5>2. CASE v.dir = d
          BY <2>7, <2>8, <5>2
        <5>3. CASE v.dir = <<>>
          BY <5>3, CanonEmpty, EmptySeq
        <5> QED BY <5>1, <5>2, <5>3
      <4>4. CASE ~Dots(x) /\ ~Link(fs, Append(d, x))
        <5>1. v.dir = Append(d, x)
          BY <2>3, <2>6, <3>2, <4>1, <4>4, Zenon DEF Moved
        <5>2. Canon(fs, Append(d, x))
          BY <2>8, <4>4, CanonAppend
        <5>3. Len(Append(d, x)) = l + 1
          BY <2>7, AppendProperties
        <5> QED BY <2>8, <5>1, <5>2, <5>3
      <4> QED BY <4>2, <4>3, <4>4
    <3> QED BY <3>1, <3>2
  <2> QED BY <2>2, <2>4, <2>9
<1> HIDE DEF G
<1>4. 0..Steps \subseteq G
  BY <1>1, <1>2, <1>3, UpInduction
<1> QED BY <1>4 DEF G

\* A walk along a path without links comes through all of its directories.
Reaches(N, fs, d) ==
    \A t \in Seq(N) : LET w == Walk(fs, d \o t) IN w[Len(d)].dir = d /\ w[Len(d)].rest = t

\* A path without links and dots is walked name by name.
LEMMA Straight ==
    ASSUME NEW N, NEW fs, Tree(N, fs), NEW d \in Seq(N), Canon(fs, d), Len(d) <= Steps
    PROVE  Reaches(N, fs, d)
<1> DEFINE G == {k \in 0..Steps : \A e \in Seq(N) : Len(e) = k /\ Canon(fs, e) => Reaches(N, fs, e)}
<1>1. Steps \in Nat
  BY StepsAssumption
<1>2. 0 \in G
  <2>1. ASSUME NEW e \in Seq(N), Len(e) = 0 PROVE Reaches(N, fs, e)
    <3>1. e = <<>>
      BY <2>1, EmptySeq
    <3>2. ASSUME NEW t \in Seq(N), NEW w, w = Walk(fs, e \o t) PROVE w[0].dir = e /\ w[0].rest = t
      <4>1. e \o t = t
        BY <3>1, ConcatEmptySeq
      <4>2. IsWalk(N, fs, t, w)
        BY <3>2, <4>1, WalkSteps
      <4> QED BY <3>1, <4>2, Zenon DEF IsWalk
    <3> QED BY <2>1, <3>2 DEF Reaches
  <2> QED BY <1>1, <2>1
<1>3. ASSUME NEW k \in 1..Steps, k - 1 \in G PROVE k \in G
  <2>1. ASSUME NEW e \in Seq(N), Len(e) = k, Canon(fs, e) PROVE Reaches(N, fs, e)
    <3>1. e # <<>>
      BY <2>1, EmptySeq
    <3>2. PICK f \in Seq(N), x \in N : f = Front(e) /\ x = Last(e) /\ e = Append(f, x) /\ Len(f) = k - 1
      BY <2>1, <3>1, FrontLast
    <3>3. Canon(fs, f) /\ ~Dots(x) /\ ~Link(fs, e)
      BY <2>1, <3>1, <3>2, CanonFront
    <3>4. Reaches(N, fs, f)
      BY <1>3, <3>2, <3>3
    <3>5. ASSUME NEW t \in Seq(N), NEW w, w = Walk(fs, e \o t) PROVE w[k].dir = e /\ w[k].rest = t
      <4>1. <<x>> \in Seq(N)
        OBVIOUS
      <4>2. PICK u \in Seq(N) : u = <<x>> \o t
        BY <4>1, ConcatProperties
      <4>3. e \o t = f \o u
        <5>1. e = f \o <<x>>
          BY <3>2, AppendIsConcat
        <5>2. (f \o <<x>>) \o t = f \o (<<x>> \o t)
          BY <4>1, ConcatAssociative
        <5> QED BY <4>2, <5>1, <5>2
      <4>4. w = Walk(fs, f \o u)
        BY <3>5, <4>3
      <4>5. w[k - 1].dir = f /\ w[k - 1].rest = u
        BY <3>2, <3>4, <4>4 DEF Reaches
      <4>6. f \o u \in Seq(N)
        BY ConcatProperties
      <4>7. IsWalk(N, fs, f \o u, w)
        BY <4>4, <4>6, WalkSteps
      <4>8. Along(fs, f, x, t, w[k - 1], w[k])
        BY <4>2, <4>5, <4>7, StepAlong
      <4>9. ~Link(fs, Append(f, x))
        BY <3>2, <3>3
      <4>10. w[k].dir = Append(f, x) /\ w[k].rest = t
        BY <3>3, <4>8, <4>9, Zenon DEF Along
      <4> QED BY <3>2, <4>10
    <3> QED BY <2>1, <3>5 DEF Reaches
  <2> QED BY <1>1, <2>1
<1> HIDE DEF G
<1>4. 0..Steps \subseteq G
  BY <1>1, <1>2, <1>3, UpInduction
<1>5. Len(d) \in 0..Steps
  <2>1. Len(d) \in Nat
    BY LenProperties
  <2> QED BY <1>1, <2>1
<1> QED BY <1>4, <1>5 DEF G

\* The last state of a walk.
End(fs, path) == Walk(fs, path)[Steps]
Ends(fs, path) == End(fs, path).rest = <<>>

\* realpath leaves a path without links and dots as it is.
LEMMA CanonStands ==
    ASSUME NEW N, NEW fs, Tree(N, fs), NEW d \in Seq(N), Canon(fs, d), Len(d) <= Steps
    PROVE  RealPath(fs, d) = d
<1>1. PICK w : w = Walk(fs, d)
  OBVIOUS
<1>2. PICK n \in 0..Steps : n = Len(d)
  <2>1. Len(d) \in Nat
    BY LenProperties
  <2> QED BY <2>1, StepsAssumption
<1>3. w[n].dir = d /\ w[n].rest = <<>>
  <2>1. d \o <<>> = d /\ <<>> \in Seq(N)
    BY ConcatEmptySeq, EmptySeq
  <2>2. Reaches(N, fs, d)
    BY Straight
  <2> QED BY <1>1, <1>2, <2>1, <2>2 DEF Reaches
<1>4. IsWalk(N, fs, d, w)
  BY <1>1, WalkSteps
<1>5. w[Steps] = w[n]
  <2>1. Steps \in n..Steps
    BY StepsAssumption
  <2> QED BY <1>3, <1>4, <2>1, Stays
<1>6. RealPath(fs, d) = w[Steps].dir \o w[Steps].rest
  BY <1>1, Zenon DEF RealPath, Reached
<1> QED BY <1>3, <1>5, <1>6, ConcatEmptySeq

\* Adding a name to a path below another.
LEMMA AppendToConcat ==
    ASSUME NEW N, NEW a \in Seq(N), NEW b \in Seq(N), NEW x \in N
    PROVE  a \o Append(b, x) = Append(a \o b, x) /\ Append(a \o b, x) \in Seq(N)
<1>1. <<x>> \in Seq(N) /\ a \o b \in Seq(N)
  BY ConcatProperties
<1>2. Append(b, x) = b \o <<x>> /\ Append(a \o b, x) = (a \o b) \o <<x>>
  BY <1>1, AppendIsConcat
<1>3. (a \o b) \o <<x>> = a \o (b \o <<x>>)
  BY <1>1, ConcatAssociative
<1> QED BY <1>1, <1>2, <1>3, AppendProperties

\* The state v is the state s with one more name to go.
More(x, s, v) ==
    v.dir = s.dir /\ v.rest = Append(s.rest, x) /\ (Free(v) <=> Free(s))

\* As long as a walk has names left, one more name at the end changes nothing.
LEMMA MoreMoves ==
    ASSUME NEW N, NEW fs, Tree(N, fs), NEW x \in N,
           NEW s, s.dir \in Seq(N), s.rest \in Seq(N), s.rest # <<>>,
           NEW s2, More(x, s, s2), NEW v, Moved(fs, s, v), NEW v2, Moved(fs, s2, v2)
    PROVE  More(x, v, v2)
<1>1. PICK r \in Seq(N) : r = s.rest
  OBVIOUS
<1>2. PICK d \in Seq(N) : d = s.dir
  OBVIOUS
<1>3. PICK y \in N, t \in Seq(N) : y = Head(r) /\ t = Tail(r)
  BY <1>1, HeadTail
<1>4. s2.dir = d /\ s2.rest = Append(r, x) /\ (Free(s2) <=> Free(s))
  BY <1>1, <1>2, Zenon DEF More
<1>5. s2.rest # <<>> /\ Head(s2.rest) = y /\ Tail(s2.rest) = Append(t, x)
  BY <1>1, <1>3, <1>4, HeadTailAppend, AppendProperties, SMTT(30)
<1>6. Free(v) <=> Free(s) /\ Folder(fs, d)
  BY <1>2, Zenon DEF Moved
<1>7. Free(v2) <=> Free(s2) /\ Folder(fs, d)
  BY <1>4, <1>5, Zenon DEF Moved
<1>8. v2.dir = v.dir /\ v2.rest = Append(v.rest, x)
  <2>1. CASE Dots(y)
    <3>1. CASE y = "."
      <4>1. v.dir = d /\ v.rest = t
        BY <1>1, <1>2, <1>3, <3>1, Zenon DEF Moved
      <4>2. v2.dir = d /\ v2.rest = Append(t, x)
        BY <1>4, <1>5, <3>1, Zenon DEF Moved
      <4> QED BY <4>1, <4>2
    <3>2. CASE y = ".."
      <4>1. v.dir = Parent(d) /\ v.rest = t
        BY <1>1, <1>2, <1>3, <3>2, Zenon DEF Moved
      <4>2. v2.dir = Parent(d) /\ v2.rest = Append(t, x)
        BY <1>4, <1>5, <3>2, Zenon DEF Moved
      <4> QED BY <4>1, <4>2
    <3> QED BY <2>1, <3>1, <3>2 DEF Dots
  <2>2. CASE ~Dots(y) /\ ~Link(fs, Append(d, y))
    <3>1. v.dir = Append(d, y) /\ v.rest = t
      BY <1>1, <1>2, <1>3, <2>2, Zenon DEF Moved
    <3>2. v2.dir = Append(d, y) /\ v2.rest = Append(t, x)
      BY <1>4, <1>5, <2>2, Zenon DEF Moved
    <3> QED BY <3>1, <3>2
  <2>3. CASE ~Dots(y) /\ Link(fs, Append(d, y))
    <3>1. PICK to : to = fs[Append(d, y)].to
      OBVIOUS
    <3>2. PICK up : up = (IF fs[Append(d, y)].abs THEN <<>> ELSE d)
      OBVIOUS
    <3>3. to \in Seq(N)
      <4>1. KindAt(fs, Append(d, y)) \notin {"dir", "none"}
        BY <2>3 DEF Link
      <4>2. Append(d, y) \in DOMAIN fs /\ fs[Append(d, y)].kind = "link"
        BY <2>3, <4>1, KindsAre DEF Link
      <4> QED BY <3>1, <4>2 DEF Tree
    <3>4. v.dir = up /\ v.rest = to \o t
      BY <1>1, <1>2, <1>3, <2>3, <3>1, <3>2, Zenon DEF Moved
    <3>5. v2.dir = up /\ v2.rest = to \o Append(t, x)
      BY <1>4, <1>5, <2>3, <3>1, <3>2, Zenon DEF Moved
    <3> QED BY <3>3, <3>4, <3>5, AppendToConcat
  <2> QED BY <2>1, <2>2, <2>3
<1> QED BY <1>4, <1>6, <1>7, <1>8, Zenon DEF More

\* With one more name at its end a path is walked in the same way, up to that name.
LEMMA Appended ==
    ASSUME NEW N, NEW fs, Tree(N, fs), NEW f \in Seq(N), NEW x \in N,
           NEW w, IsWalk(N, fs, f, w), NEW w2, IsWalk(N, fs, Append(f, x), w2),
           NEW n \in 0..Steps, \A k \in 0..n - 1 : w[k].rest # <<>>
    PROVE  More(x, w[n], w2[n])
<1> DEFINE G == {k \in 0..n : More(x, w[k], w2[k])}
<1>1. Steps \in Nat /\ n \in Nat
  BY StepsAssumption
<1>2. 0 \in G
  <2>1. More(x, w[0], w2[0])
    BY Zenon DEF IsWalk, More
  <2>2. 0 \in 0..n
    BY <1>1
  <2> QED BY <2>1, <2>2
<1>3. ASSUME NEW k \in 1..n, k - 1 \in G PROVE k \in G
  <2>1. k \in 1..Steps /\ k \in 0..n /\ k - 1 \in 0..Steps /\ k - 1 \in 0..n - 1
    BY <1>1
  <2>2. More(x, w[k - 1], w2[k - 1]) /\ w[k - 1].rest # <<>>
    BY <1>3, <2>1
  <2>3. Moved(fs, w[k - 1], w[k]) /\ Moved(fs, w2[k - 1], w2[k])
    BY <2>1, Zenon DEF IsWalk
  <2>4. w[k - 1].dir \in Seq(N) /\ w[k - 1].rest \in Seq(N)
    BY <2>1, Zenon DEF IsWalk
  <2>5. More(x, w[k], w2[k])
    BY <2>2, <2>3, <2>4, MoreMoves, Zenon
  <2> QED BY <2>1, <2>5
<1> HIDE DEF G
<1>4. 0..n \subseteq G
  BY <1>1, <1>2, <1>3, UpInduction
<1> QED BY <1>1, <1>4 DEF G

-----------------------------------------------------------------------------
(* The last name of a path *)

\* After m steps a walk has one name left, x, in the directory d.
AtLast(N, fs, p, f, x, d, m) ==
    LET w == Walk(fs, p) IN
    /\ m \in 0..Steps - 1 /\ d \in Seq(N) /\ d = End(fs, f).dir
    /\ w[m].dir = d /\ w[m].rest = <<x>> /\ (Free(w[m]) <=> Free(End(fs, f)))
    /\ Canon(fs, d) /\ Len(d) <= m

\* The walk of a path comes to where only its last name is left.
LEMMA LastName ==
    ASSUME NEW N, NEW fs, Tree(N, fs), NEW f \in Seq(N), NEW x \in N, Ends(fs, Append(f, x))
    PROVE  Ends(fs, f) /\ \E d, m : AtLast(N, fs, Append(f, x), f, x, d, m)
<1>1. PICK p \in Seq(N) : p = Append(f, x)
  BY AppendProperties
<1>2. PICK w : w = Walk(fs, f)
  OBVIOUS
<1>3. PICK w2 : w2 = Walk(fs, p)
  OBVIOUS
<1>4. IsWalk(N, fs, f, w) /\ IsWalk(N, fs, p, w2)
  BY <1>2, <1>3, WalkSteps
<1>5. w2[Steps].rest = <<>>
  BY <1>1, <1>3, Zenon DEF Ends, End
<1>6. Steps \in Nat
  BY StepsAssumption
<1>7. ASSUME NEW n \in 0..Steps, \A k \in 0..n - 1 : w[k].rest # <<>> PROVE More(x, w[n], w2[n])
  <2>1. IsWalk(N, fs, Append(f, x), w2)
    BY <1>1, <1>4
  <2> QED BY <1>4, <1>7, <2>1, Appended
<1> DEFINE T == {k \in 0..Steps : w[k].rest = <<>>}
<1>8. T # {}
  <2> SUFFICES ASSUME T = {} PROVE FALSE
    OBVIOUS
  <2>1. \A k \in 0..Steps : w[k].rest # <<>>
    OBVIOUS
  <2>2. More(x, w[Steps], w2[Steps])
    <3>1. Steps \in 0..Steps /\ \A k \in 0..Steps - 1 : k \in 0..Steps
      BY <1>6
    <3> HIDE DEF T
    <3> QED BY <1>7, <2>1, <3>1
  <2>3. w[Steps].rest \in Seq(N)
    BY <1>4, <1>6 DEF IsWalk
  <2>4. w2[Steps].rest = Append(w[Steps].rest, x)
    BY <2>2, Zenon DEF More
  <2> QED BY <1>5, <2>3, <2>4, AppendProperties
<1>9. PICK m \in T : \A k \in T : m <= k
  <2>1. T \subseteq Nat
    BY <1>6
  <2> HIDE DEF T
  <2> QED BY <1>8, <2>1, LeastNatural
<1>10. m \in 0..Steps /\ w[m].rest = <<>>
  OBVIOUS
<1>11. \A k \in 0..m - 1 : w[k].rest # <<>>
  <2> SUFFICES ASSUME NEW k \in 0..m - 1, w[k].rest = <<>> PROVE FALSE
    OBVIOUS
  <2>1. k \in 0..Steps /\ ~(m <= k)
    BY <1>6, <1>10
  <2> QED BY <1>9, <2>1
<1> HIDE DEF T
<1>12. More(x, w[m], w2[m])
  BY <1>7, <1>10, <1>11
<1>13. w[Steps] = w[m]
  <2>1. Steps \in m..Steps
    BY <1>6, <1>10
  <2> QED BY <1>4, <1>10, <2>1, Stays
<1>14. w2[m].dir = w[m].dir /\ w2[m].rest = <<x>> /\ (Free(w2[m]) <=> Free(w[m]))
  <2>1. Append(<<>>, x) = <<x>>
    OBVIOUS
  <2> QED BY <1>10, <1>12, <2>1, Zenon DEF More
<1>15. m # Steps
  <2>1. <<x>> # <<>>
    OBVIOUS
  <2> QED BY <1>5, <1>14, <2>1
<1>16. m \in 0..Steps - 1
  BY <1>6, <1>10, <1>15
<1>17. Canon(fs, w[m].dir) /\ Len(w[m].dir) <= m /\ w[m].dir \in Seq(N)
  <2>1. w[m].dir \in Seq(N)
    BY <1>4, <1>10, Zenon DEF IsWalk
  <2> QED BY <1>4, <1>10, <2>1, DirsCanon
<1>18. Ends(fs, f)
  BY <1>2, <1>10, <1>13, Zenon DEF Ends, End
<1>19. End(fs, f) = w[m]
  BY <1>2, <1>13, Zenon DEF End
<1>20. AtLast(N, fs, p, f, x, w[m].dir, m)
  BY <1>3, <1>14, <1>16, <1>17, <1>19, Zenon DEF AtLast
<1> QED BY <1>1, <1>18, <1>20, Zenon

\* Two walks that have come to the same place go on alike.
LEMMA Alike ==
    ASSUME NEW N, NEW fs, NEW p, NEW q, NEW w, IsWalk(N, fs, p, w), NEW u, IsWalk(N, fs, q, u),
           NEW m \in 0..Steps, NEW l \in 0..m, w[m].dir = u[l].dir, w[m].rest = u[l].rest, Free(w[m]),
           NEW n \in m..Steps
    PROVE  /\ w[n].dir = u[l + (n - m)].dir /\ w[n].rest = u[l + (n - m)].rest
           /\ Free(u[l + (n - m)]) => Free(w[n])
<1> DEFINE Same(s, v) == s.dir = v.dir /\ s.rest = v.rest /\ (Free(v) => Free(s))
           G == {k \in 0..Steps - m : Same(w[m + k], u[l + k])}
<1>1. Steps \in Nat /\ Steps - m \in Nat
  BY StepsAssumption
<1>2. 0 \in G
  <2>1. m + 0 = m /\ l + 0 = l /\ 0 \in 0..Steps - m
    BY <1>1
  <2>2. Same(w[m], u[l])
    OBVIOUS
  <2>3. Same(w[m + 0], u[l + 0])
    <3> HIDE DEF Same
    <3> QED BY <2>1, <2>2
  <2> QED BY <2>1, <2>3
<1>3. ASSUME NEW k \in 1..Steps - m, k - 1 \in G PROVE k \in G
  <2>1. PICK s : s = w[m + (k - 1)]
    OBVIOUS
  <2>2. PICK v : v = u[l + (k - 1)]
    OBVIOUS
  <2>3. PICK s2 : s2 = w[m + k]
    OBVIOUS
  <2>4. PICK v2 : v2 = u[l + k]
    OBVIOUS
  <2>5. Same(s, v)
    BY <1>3, <2>1, <2>2
  <2>6. k \in 1..Steps - m /\ m + k \in 1..Steps /\ l + k \in 1..Steps /\ m + k - 1 = m + (k - 1) /\ l + k - 1 = l + (k - 1)
    BY <1>1
  <2>7. Moved(fs, s, s2) /\ Moved(fs, v, v2)
    <3>1. Moved(fs, w[m + k - 1], w[m + k]) /\ Moved(fs, u[l + k - 1], u[l + k])
      <4>1. PICK i \in 1..Steps : i = m + k
        BY <2>6
      <4>2. PICK j \in 1..Steps : j = l + k
        BY <2>6
      <4>3. Moved(fs, w[i - 1], w[i]) /\ Moved(fs, u[j - 1], u[j])
        BY Zenon DEF IsWalk
      <4> QED BY <4>1, <4>2, <4>3
    <3> QED BY <2>1, <2>2, <2>3, <2>4, <2>6, <3>1
  <2>8. s.rest = v.rest /\ s.dir = v.dir /\ (Free(v) => Free(s))
    BY <2>5
  <2>9. Same(s2, v2)
    <3> HIDE DEF G
    <3>1. CASE s.rest = <<>>
      BY <2>7, <2>8, <3>1, Zenon DEF Moved
    <3>2. CASE s.rest # <<>>
      <4>1. PICK d : d = s.dir
        OBVIOUS
      <4>2. PICK x : x = Head(s.rest)
        OBVIOUS
      <4>3. Free(s2) <=> Free(s) /\ Folder(fs, d)
        BY <2>7, <3>2, <4>1, Zenon DEF Moved
      <4>4. Free(v2) <=> Free(v) /\ Folder(fs, d)
        BY <2>7, <2>8, <3>2, <4>1, Zenon DEF Moved
      <4>5. s2.dir = v2.dir /\ s2.rest = v2.rest
        <5>1. CASE x = "."
          BY <2>7, <2>8, <3>2, <4>2, <5>1, Zenon DEF Moved
        <5>2. CASE x = ".."
          BY <2>7, <2>8, <3>2, <4>2, <5>2, Zenon DEF Moved
        <5>3. CASE ~Dots(x) /\ Link(fs, Append(d, x))
          BY <2>7, <2>8, <3>2, <4>1, <4>2, <5>3, Zenon DEF Moved
        <5>4. CASE ~Dots(x) /\ ~Link(fs, Append(d, x))
          BY <2>7, <2>8, <3>2, <4>1, <4>2, <5>4, Zenon DEF Moved
        <5>5. Dots(x) => x = "." \/ x = ".."
          BY DEF Dots
        <5> QED BY <5>1, <5>2, <5>3, <5>4, <5>5
      <4> QED BY <2>8, <4>3, <4>4, <4>5
    <3> QED BY <3>1, <3>2
  <2>10. k \in 0..Steps - m
    BY <1>1
  <2> HIDE DEF Same
  <2> QED BY <2>3, <2>4, <2>9, <2>10
<1> HIDE DEF G
<1>4. 0..Steps - m \subseteq G
  BY <1>1, <1>2, <1>3, UpInduction
<1>5. PICK k \in 0..Steps - m : k = n - m /\ m + k = n
  BY <1>1
<1>6. Same(w[m + k], u[l + k])
  BY <1>4 DEF G
<1> QED BY <1>5, <1>6

\* Where the last name is a link the walk goes where the link's own walk goes.
LEMMA TheLink ==
    ASSUME NEW N, NEW fs, Tree(N, fs), NEW f \in Seq(N), NEW x \in N, NEW p \in Seq(N), Ends(fs, p),
           NEW d, NEW m, AtLast(N, fs, p, f, x, d, m), Free(End(fs, f))
    PROVE  /\ Ends(fs, Append(d, x)) /\ End(fs, Append(d, x)).dir = End(fs, p).dir
           /\ Free(End(fs, Append(d, x))) => Free(End(fs, p))
<1>1. PICK w : w = Walk(fs, p)
  OBVIOUS
<1>2. d \in Seq(N) /\ m \in 0..Steps - 1 /\ Canon(fs, d) /\ Len(d) <= m
  BY Zenon DEF AtLast
<1>3. w[m].dir = d /\ w[m].rest = <<x>> /\ Free(w[m])
  BY <1>1, Zenon DEF AtLast
<1>4. PICK q \in Seq(N) : q = Append(d, x)
  BY <1>2, AppendProperties
<1>5. PICK u : u = Walk(fs, q)
  OBVIOUS
<1>6. IsWalk(N, fs, p, w) /\ IsWalk(N, fs, q, u)
  BY <1>1, <1>5, WalkSteps
<1>7. PICK l \in Nat : l = Len(d)
  BY <1>2, LenProperties
<1>8. Steps \in Nat /\ m \in 0..Steps /\ l \in 0..m /\ l <= Steps
  BY <1>2, <1>7, StepsAssumption
<1>9. u[l].dir = d /\ u[l].rest = <<x>>
  <2>1. <<x>> \in Seq(N) /\ q = d \o <<x>>
    BY <1>2, <1>4, AppendIsConcat
  <2>2. Reaches(N, fs, d)
    BY <1>2, <1>7, <1>8, Straight
  <2> QED BY <1>5, <1>7, <2>1, <2>2 DEF Reaches
<1>10. PICK k : k = l + (Steps - m)
  OBVIOUS
<1>11. w[Steps].dir = u[k].dir /\ w[Steps].rest = u[k].rest /\ (Free(u[k]) => Free(w[Steps]))
  <2>1. Steps \in m..Steps
    BY <1>8
  <2>2. w[m].dir = u[l].dir /\ w[m].rest = u[l].rest
    BY <1>3, <1>9
  <2>3. /\ w[Steps].dir = u[l + (Steps - m)].dir /\ w[Steps].rest = u[l + (Steps - m)].rest
        /\ Free(u[l + (Steps - m)]) => Free(w[Steps])
    BY <1>3, <1>6, <1>8, <2>1, <2>2, Alike, Zenon
  <2> QED BY <1>10, <2>3, Zenon
<1>12. w[Steps].rest = <<>>
  BY <1>1, Zenon DEF Ends, End
<1>13. u[Steps] = u[k]
  <2>1. k \in 0..Steps /\ Steps \in k..Steps
    BY <1>8, <1>10
  <2>2. u[k].rest = <<>>
    BY <1>11, <1>12
  <2> QED BY <1>6, <2>1, <2>2, Stays
<1> QED BY <1>1, <1>4, <1>5, <1>11, <1>12, <1>13, Zenon DEF End, Ends

\* Where a path with one more name leads, from where it leads without it.
Stepped(fs, f, x) ==
    LET p == Append(f, x)
        d == End(fs, f).dir
        e == End(fs, p) IN
    /\ x = "." => e.dir = d /\ (Free(End(fs, f)) /\ Folder(fs, d) => Free(e))
    /\ x = ".." => e.dir = Parent(d) /\ (Free(End(fs, f)) /\ Folder(fs, d) => Free(e))
    /\ ~Dots(x) /\ ~Link(fs, Append(d, x)) =>
          e.dir = Append(d, x) /\ (Free(End(fs, f)) /\ Folder(fs, d) => Free(e))
    /\ ~Dots(x) /\ Link(fs, Append(d, x)) /\ Free(End(fs, f)) =>
          /\ End(fs, Append(d, x)).dir = e.dir /\ Ends(fs, Append(d, x))
          /\ Free(End(fs, Append(d, x))) => Free(e)
    /\ Free(e) => Free(End(fs, f)) /\ Folder(fs, d)

\* Where the walk of a path ends, from where the walk of its parent ends.
LEMMA LastStep ==
    ASSUME NEW N, NEW fs, Tree(N, fs), NEW f \in Seq(N), NEW x \in N, Ends(fs, Append(f, x))
    PROVE  Stepped(fs, f, x)
<1>1. PICK p \in Seq(N) : p = Append(f, x)
  BY AppendProperties
<1>2. PICK d, m : AtLast(N, fs, p, f, x, d, m)
  BY <1>1, LastName
<1>3. PICK w : w = Walk(fs, p)
  OBVIOUS
<1>4. IsWalk(N, fs, p, w)
  BY <1>3, WalkSteps
<1>5. PICK e : e = End(fs, f)
  OBVIOUS
<1>6. m \in 0..Steps - 1 /\ d \in Seq(N) /\ d = e.dir
  BY <1>2, <1>5, Zenon DEF AtLast
<1>7. w[m].dir = d /\ w[m].rest = <<x>> /\ (Free(w[m]) <=> Free(e))
  BY <1>2, <1>3, <1>5, Zenon DEF AtLast
<1>8. PICK j \in 1..Steps : j = m + 1 /\ j - 1 = m
  BY <1>6, StepsAssumption
<1>9. Along(fs, d, x, <<>>, w[m], w[j])
  <2>1. <<x>> \o <<>> = <<x>> /\ <<>> \in Seq(N)
    OBVIOUS
  <2>2. w[j - 1].dir = d /\ w[j - 1].rest = <<x>> \o <<>>
    BY <1>7, <1>8, <2>1
  <2>3. Along(fs, d, x, <<>>, w[j - 1], w[j])
    BY <1>4, <1>6, <2>1, <2>2, StepAlong
  <2> QED BY <1>8, <2>3
<1>10. Ends(fs, p) /\ End(fs, p) = w[Steps]
  BY <1>1, <1>3, Zenon DEF End
<1>11. ASSUME w[j].rest = <<>> PROVE End(fs, p) = w[j]
  <2>1. j \in 0..Steps /\ Steps \in j..Steps
    BY StepsAssumption
  <2> QED BY <1>4, <1>10, <1>11, <2>1, Stays
<1>12. PICK v : v = w[j]
  OBVIOUS
<1>13. PICK s : s = w[m]
  OBVIOUS
<1>14. Along(fs, d, x, <<>>, s, v) /\ (Free(s) <=> Free(e)) /\ (v.rest = <<>> => End(fs, p) = v)
  BY <1>7, <1>9, <1>11, <1>12, <1>13
<1>15. x = "." => End(fs, p).dir = d /\ (Free(e) /\ Folder(fs, d) => Free(End(fs, p)))
  BY <1>14, Zenon DEF Along
<1>16. x = ".." => End(fs, p).dir = Parent(d) /\ (Free(e) /\ Folder(fs, d) => Free(End(fs, p)))
  BY <1>14, Zenon DEF Along
<1>17. ~Dots(x) /\ ~Link(fs, Append(d, x)) =>
          End(fs, p).dir = Append(d, x) /\ (Free(e) /\ Folder(fs, d) => Free(End(fs, p)))
  BY <1>14, Zenon DEF Along
<1>18. Free(e) => /\ Ends(fs, Append(d, x)) /\ End(fs, Append(d, x)).dir = End(fs, p).dir
                  /\ Free(End(fs, Append(d, x))) => Free(End(fs, p))
  BY <1>2, <1>5, <1>10, TheLink
<1>19. Free(End(fs, p)) => Free(e) /\ Folder(fs, d)
  <2>1. SUFFICES ASSUME Free(End(fs, p)) PROVE Free(e) /\ Folder(fs, d)
    OBVIOUS
  <2>2. Steps \in 0..Steps /\ m \in 0..Steps - 1 /\ m \in 0..Steps
    BY <1>6, StepsAssumption
  <2>3. Free(w[m])
    BY <1>4, <1>10, <2>1, <2>2, FaultStays
  <2>4. Folder(fs, w[m].dir)
    <3>1. w[m].rest # <<>>
      BY <1>7
    <3> QED BY <1>4, <1>10, <2>1, <2>2, <3>1, NoObstacle
  <2> QED BY <1>7, <2>3, <2>4
<1>20. d = End(fs, f).dir /\ e = End(fs, f) /\ p = Append(f, x)
  BY <1>1, <1>5, <1>6
<1> HIDE <1>14, <1>9
<1> QED BY <1>15, <1>16, <1>17, <1>18, <1>19, <1>20, Zenon DEF Stepped

\* A walk ends at a path without links and dots.
LEMMA EndTyped ==
    ASSUME NEW N, NEW fs, Tree(N, fs), NEW p \in Seq(N)
    PROVE  /\ End(fs, p).dir \in Seq(N) /\ Canon(fs, End(fs, p).dir) /\ Len(End(fs, p).dir) <= Steps
           /\ End(fs, p).fault \in Faulty /\ RealPath(fs, p) \in Seq(N)
<1>1. PICK w : w = Walk(fs, p)
  OBVIOUS
<1>2. IsWalk(N, fs, p, w)
  BY <1>1, WalkSteps
<1>3. Steps \in 0..Steps
  BY StepsAssumption
<1>4. w[Steps].dir \in Seq(N) /\ w[Steps].rest \in Seq(N) /\ w[Steps].fault \in Faulty
  BY <1>2, <1>3, Zenon DEF IsWalk
<1>5. Canon(fs, w[Steps].dir) /\ Len(w[Steps].dir) <= Steps
  BY <1>2, <1>3, DirsCanon
<1>6. End(fs, p) = w[Steps]
  BY <1>1, Zenon DEF End
<1>7. RealPath(fs, p) = w[Steps].dir \o w[Steps].rest
  BY <1>1, Zenon DEF RealPath, Reached
<1>8. RealPath(fs, p) \in Seq(N)
  BY <1>4, <1>7, ConcatProperties
<1> QED BY <1>4, <1>5, <1>6, <1>8

\* RealPath and Follow, from the end of the walk.
LEMMA EndedReal ==
    ASSUME NEW N, NEW fs, Tree(N, fs), NEW p \in Seq(N), Ends(fs, p)
    PROVE  /\ RealPath(fs, p) = End(fs, p).dir
           /\ Follow(fs, p).fault = "" <=> Free(End(fs, p))
           /\ Free(End(fs, p)) => Follow(fs, p).at = End(fs, p).dir
<1>1. PICK e : e = End(fs, p)
  OBVIOUS
<1>2. e.rest = <<>> /\ e = Walk(fs, p)[Steps]
  BY <1>1, Zenon DEF Ends, End
<1>3. RealPath(fs, p) = e.dir \o <<>>
  BY <1>2, Zenon DEF RealPath, Reached
<1>4. e.dir \in Seq(N)
  BY <1>1, EndTyped
<1>5. e.dir \o <<>> = e.dir
  BY <1>4, ConcatEmptySeq
<1>6. Follow(fs, p) = IF e.fault # "" THEN [fault |-> e.fault, at |-> <<>>] ELSE [fault |-> "", at |-> e.dir]
  BY <1>2, Zenon DEF Follow, Ending
<1>7. \A a, b : [fault |-> a, at |-> b].fault = a /\ [fault |-> a, at |-> b].at = b
  OBVIOUS
<1>8. (Follow(fs, p).fault = "" <=> Free(e)) /\ (Free(e) => Follow(fs, p).at = e.dir)
  <2>1. CASE e.fault = ""
    <3>1. Follow(fs, p) = [fault |-> "", at |-> e.dir]
      BY <1>6, <2>1, Zenon
    <3>2. [fault |-> "", at |-> e.dir].fault = "" /\ [fault |-> "", at |-> e.dir].at = e.dir
      OBVIOUS
    <3> QED BY <2>1, <3>1, <3>2, Zenon DEF Free
  <2>2. CASE e.fault # ""
    <3>1. Follow(fs, p) = [fault |-> e.fault, at |-> <<>>]
      BY <1>6, <2>2, Zenon
    <3> QED BY <1>7, <2>2, <3>1, Zenon DEF Free
  <2> QED BY <2>1, <2>2, Zenon
<1> QED BY <1>1, <1>3, <1>5, <1>8

-----------------------------------------------------------------------------
(* Resolution *)

\* A path with a name added, taken apart.
LEMMA TakenApart ==
    ASSUME NEW N, NEW f \in Seq(N), NEW x \in N
    PROVE  Front(Append(f, x)) = f /\ Last(Append(f, x)) = x /\ Append(f, x) # <<>> /\ Append(f, x) \in Seq(N)
<1>1. PICK p \in Seq(N) : p = Append(f, x) /\ p # <<>>
  BY AppendProperties
<1>2. PICK g \in Seq(N), y \in N : g = Front(p) /\ y = Last(p) /\ p = Append(g, y)
  BY <1>1, FrontLast
<1>3. f = g /\ x = y
  <2>1. Append(f, x) = Append(g, y)
    BY <1>1, <1>2
  <2>2. g \in Seq(N) /\ y \in N
    OBVIOUS
  <2>3. Append(f, x) = Append(g, y) <=> f = g /\ x = y
    BY ONLY f \in Seq(N), x \in N, <2>2, AppendInjective
  <2> QED BY <2>1, <2>3
<1> QED BY <1>1, <1>2, <1>3

\* What there is, of the names that a walk of it ends at.
Present(fs, f, x) ==
    LET p == Append(f, x)
        d == End(fs, f).dir IN
    /\ Dots(x) => (LExists(fs, p) <=> Free(End(fs, p)) /\ KindAt(fs, End(fs, p).dir) # "none")
    /\ ~Dots(x) =>
          (LExists(fs, p) <=> Free(End(fs, f)) /\ Folder(fs, d) /\ KindAt(fs, Append(d, x)) # "none")

\* stat succeeds if the walk met no obstacle and something is there.
LEMMA StatIs ==
    ASSUME NEW N, NEW fs, Tree(N, fs), NEW p \in Seq(N), Ends(fs, p)
    PROVE  Stat(fs, p) \notin Faults <=> Free(End(fs, p)) /\ KindAt(fs, End(fs, p).dir) # "none"
<1>1. PICK e : e = End(fs, p)
  OBVIOUS
<1>2. PICK k : k = KindAt(fs, e.dir)
  OBVIOUS
<1>3. PICK g : g = Follow(fs, p)
  OBVIOUS
<1>4. k \in {"file", "dir", "special", "link", "none"}
  BY <1>2, KindsAre
<1>5. k \notin Faults /\ "absent" \in Faults
  BY <1>4 DEF Faults
<1>6. e.fault \in {"", "absent", "notdir"}
  BY <1>1, EndTyped DEF Faulty
<1>7. (g.fault = "" <=> Free(e)) /\ (Free(e) => g.at = e.dir)
  BY <1>1, <1>3, EndedReal
<1>8. CASE Free(e)
  <2>1. Stat(fs, p) = IF k = "none" THEN "absent" ELSE k
    <3>1. g.fault = "" /\ KindAt(fs, g.at) = k
      BY <1>2, <1>7, <1>8
    <3>2. Stat(fs, p) = IF g.fault # "" THEN g.fault
                        ELSE IF KindAt(fs, g.at) = "none" THEN "absent" ELSE KindAt(fs, g.at)
      BY <1>3, Zenon DEF Stat, KindOf
    <3> QED BY <3>1, <3>2
  <2> QED BY <1>1, <1>2, <1>5, <1>8, <2>1
<1>9. CASE ~Free(e)
  <2>1. Stat(fs, p) = g.fault
    BY <1>3, <1>7, <1>9, Zenon DEF Stat, KindOf
  <2>2. g.fault = e.fault
    <3>1. e = Walk(fs, p)[Steps]
      BY <1>1, Zenon DEF End
    <3>2. e.fault # ""
      BY <1>9, Zenon DEF Free
    <3>3. g = [fault |-> e.fault, at |-> <<>>]
      BY <1>3, <3>1, <3>2, Zenon DEF Follow, Ending
    <3> QED BY <3>3
  <2>3. e.fault \in Faults
    BY <1>6, <1>9 DEF Faults, Free
  <2> QED BY <1>1, <1>9, <2>1, <2>2, <2>3, Zenon
<1> QED BY <1>8, <1>9

\* lstat succeeds if there is something in the directory that the parent leads to.
LEMMA PresentIs ==
    ASSUME NEW N, NEW fs, Tree(N, fs), NEW f \in Seq(N), NEW x \in N, Ends(fs, Append(f, x)), Ends(fs, f)
    PROVE  Present(fs, f, x)
<1>1. PICK p \in Seq(N) : p = Append(f, x) /\ Front(p) = f /\ Last(p) = x /\ p # <<>>
  BY TakenApart
<1>2. PICK e : e = End(fs, f)
  OBVIOUS
<1>3. PICK d : d = e.dir
  OBVIOUS
<1>4. CASE Dots(x)
  <2>1. LStat(fs, p) = Stat(fs, p)
    BY <1>1, <1>4, Zenon DEF LStat, Dots
  <2>2. LExists(fs, p) <=> Stat(fs, p) \notin Faults
    BY <2>1, Zenon DEF LExists
  <2>3. Stat(fs, p) \notin Faults <=> Free(End(fs, p)) /\ KindAt(fs, End(fs, p).dir) # "none"
    BY <1>1, StatIs
  <2> QED BY <1>1, <1>4, <2>2, <2>3, Zenon DEF Present
<1>5. CASE ~Dots(x)
  <2>1. PICK g : g = Follow(fs, f)
    OBVIOUS
  <2>2. (g.fault = "" <=> Free(e)) /\ (Free(e) => g.at = d)
    BY <1>2, <1>3, <2>1, EndedReal
  <2>3. ~(p = <<>> \/ Last(p) \in {".", ".."})
    BY <1>1, <1>5, Zenon DEF Dots
  <2>4. PICK k : k = KindAt(fs, d)
    OBVIOUS
  <2>5. PICK l : l = KindAt(fs, Append(d, x))
    OBVIOUS
  <2>6. LStat(fs, p) = IF g.fault # "" THEN g.fault
                       ELSE CASE KindAt(fs, g.at) = "none" -> "absent"
                              [] KindAt(fs, g.at) \in {"file", "special"} -> "notdir"
                              [] OTHER -> IF KindAt(fs, Append(g.at, x)) = "none" THEN "absent"
                                          ELSE KindAt(fs, Append(g.at, x))
    BY <1>1, <2>1, <2>3, Zenon DEF LStat, KindBelow
  <2>7. CASE ~Free(e)
    <3>1. e.fault \in {"", "absent", "notdir"} /\ e.fault # ""
      BY <1>2, <2>7, EndTyped DEF Faulty, Free
    <3>2. g.fault = e.fault
      <4>1. e = Walk(fs, f)[Steps]
        BY <1>2, Zenon DEF End
      <4>2. g = [fault |-> e.fault, at |-> <<>>]
        BY <2>1, <3>1, <4>1, Zenon DEF Follow, Ending
      <4> QED BY <4>2
    <3>3. LStat(fs, p) = e.fault
      BY <2>6, <3>1, <3>2, Zenon
    <3>4. e.fault \in Faults
      BY <3>1 DEF Faults
    <3>5. ~LExists(fs, p)
      BY <3>3, <3>4, Zenon DEF LExists
    <3> QED BY <1>1, <1>2, <1>5, <2>7, <3>5, Zenon DEF Present
  <2>8. CASE Free(e)
    <3>1. k \in {"file", "dir", "special", "link", "none"} /\ l \in {"file", "dir", "special", "link", "none"}
      BY <2>4, <2>5, KindsAre
    <3>2. LStat(fs, p) = CASE k = "none" -> "absent"
                           [] k \in {"file", "special"} -> "notdir"
                           [] OTHER -> IF l = "none" THEN "absent" ELSE l
      BY <2>2, <2>4, <2>5, <2>6, <2>8, Zenon
    <3>3. k # "link"
      <4>1. Canon(fs, d) /\ d \in Seq(N)
        BY <1>2, <1>3, EndTyped
      <4>2. d = <<>> => k = "dir"
        BY <2>4 DEF KindAt
      <4>3. d # <<>> => ~Link(fs, d)
        BY <4>1, CanonFront
      <4> QED BY <2>4, <4>2, <4>3 DEF Link
    <3>4. LStat(fs, p) \notin Faults <=> k = "dir" /\ l # "none"
      BY <3>1, <3>2, <3>3 DEF Faults
    <3>5. LExists(fs, p) <=> k = "dir" /\ l # "none"
      BY <3>4, Zenon DEF LExists
    <3> QED BY <1>1, <1>2, <1>3, <1>5, <2>4, <2>5, <2>8, <3>5, Zenon DEF Present, Folder
  <2> QED BY <2>7, <2>8
<1> QED BY <1>4, <1>5

\* The root of the file system.
LEMMA RootIs ==
    ASSUME NEW N, NEW fs, Tree(N, fs)
    PROVE  /\ <<>> \in Seq(N) /\ Ends(fs, <<>>) /\ Free(End(fs, <<>>)) /\ End(fs, <<>>).dir = <<>>
           /\ LExists(fs, <<>>)
<1>1. <<>> \in Seq(N)
  BY EmptySeq
<1>2. PICK w : w = Walk(fs, <<>>)
  OBVIOUS
<1>3. IsWalk(N, fs, <<>>, w)
  BY <1>1, <1>2, WalkSteps
<1>4. w[0].dir = <<>> /\ w[0].rest = <<>> /\ Free(w[0])
  BY <1>3, Zenon DEF IsWalk
<1>5. w[Steps] = w[0]
  <2>1. 0 \in 0..Steps /\ Steps \in 0..Steps
    BY StepsAssumption
  <2> QED BY <1>3, <1>4, <2>1, Stays
<1>6. End(fs, <<>>) = w[0]
  BY <1>2, <1>5, Zenon DEF End
<1>7. Ends(fs, <<>>)
  BY <1>4, <1>6, Zenon DEF Ends
<1>8. Stat(fs, <<>>) \notin Faults
  <2>1. KindAt(fs, <<>>) = "dir" /\ "dir" # "none"
    BY DEF KindAt
  <2> QED BY <1>1, <1>4, <1>6, <1>7, <2>1, StatIs
<1>9. LStat(fs, <<>>) = Stat(fs, <<>>)
  BY Zenon DEF LStat
<1>10. LExists(fs, <<>>)
  BY <1>8, <1>9, Zenon DEF LExists
<1> QED BY <1>1, <1>4, <1>6, <1>7, <1>10

\* One name of _resolve.
Resolved(fs, p) ==
    /\ LExists(fs, p) => Resolve(fs, p) = RealPath(fs, p)
    /\ ~LExists(fs, p) /\ Last(p) = "." => Resolve(fs, p) = Resolve(fs, Front(p))
    /\ ~LExists(fs, p) /\ Last(p) = ".." => Resolve(fs, p) = Refused
    /\ ~LExists(fs, p) /\ ~Dots(Last(p)) =>
          Resolve(fs, p) = IF Resolve(fs, Front(p)) = Refused THEN Refused
                           ELSE Append(Resolve(fs, Front(p)), Last(p))

\* The recursion of Resolve has a solution: a name less each time.
LEMMA ResolveSteps ==
    ASSUME NEW fs, Tree(STRING, fs), NEW path \in Seq(STRING)
    PROVE  Resolved(fs, path)
<1> DEFINE D == Seq(STRING)
           V == D \cup {Refused}
           mu == [p \in D |-> Len(p)]
           stop == {p \in D : LExists(fs, p) \/ Last(p) = ".."}
           base == [p \in stop |-> IF LExists(fs, p) THEN RealPath(fs, p) ELSE Refused]
           next == [p \in D \ stop |-> Front(p)]
           On(p, v) == IF Last(p) = "." THEN v ELSE IF v = Refused THEN Refused ELSE Append(v, Last(p))
           wrap == [p \in D \ stop |-> [v \in V |-> On(p, v)]]
           Body(g, p) ==
               IF LExists(fs, p) THEN RealPath(fs, p)
               ELSE CASE Last(p) = "." -> g[Front(p)]
                      [] Last(p) = ".." -> Refused
                      [] OTHER -> LET head == g[Front(p)] IN
                                  IF head = Refused THEN Refused ELSE Append(head, Last(p))
           Of == CHOOSE g : g = [p \in D |-> Body(g, p)]
<1>1. ASSUME NEW p \in D \ stop PROVE p # <<>> /\ p \in D /\ ~LExists(fs, p) /\ Last(p) # ".."
  <2>1. LExists(fs, <<>>)
    BY RootIs
  <2> QED BY <2>1
<1>2. ASSUME NEW p \in D \ stop
      PROVE  Front(p) \in D /\ Last(p) \in STRING /\ mu[Front(p)] < mu[p]
  <2>1. p # <<>> /\ p \in Seq(STRING)
    BY <1>1
  <2>2. Front(p) \in Seq(STRING) /\ Last(p) \in STRING /\ Len(Front(p)) = Len(p) - 1 /\ Len(p) \in Nat
    BY <2>1, FrontLast
  <2> HIDE DEF stop
  <2> QED BY <2>1, <2>2
<1>3. ASSUME NEW p \in D, LExists(fs, p) PROVE RealPath(fs, p) \in V
  BY EndTyped
<1>4. ASSUME NEW p \in D \ stop, NEW v \in V PROVE On(p, v) \in V
  <2>1. CASE v = Refused
    BY <2>1
  <2>2. CASE v # Refused
    <3>1. Append(v, Last(p)) \in D
      BY <1>2, <2>2, AppendProperties
    <3> QED BY <2>2, <3>1
  <2> QED BY <2>1, <2>2
<1>5. Descends(D, V, mu, stop, base, next, wrap)
  <2>1. mu \in [D -> Nat]
    BY LenProperties
  <2>2. stop \in SUBSET D
    OBVIOUS
  <2>3. base \in [stop -> V]
    <3>1. Refused \in V
      OBVIOUS
    <3>2. \A p \in stop : base[p] \in V
      <4> HIDE DEF V
      <4> QED BY <1>3, <3>1
    <3> HIDE DEF V, stop
    <3> QED BY <3>2
  <2>4. next \in [D \ stop -> D]
    <3> HIDE DEF stop
    <3> QED BY <1>2
  <2>5. wrap \in [D \ stop -> [V -> V]]
    <3> HIDE DEF V, stop, On
    <3> QED BY <1>4
  <2>6. \A p \in D \ stop : mu[next[p]] < mu[p]
    <3> HIDE DEF stop, mu
    <3> QED BY <1>2
  <2> HIDE DEF D, V, mu, stop, base, next, wrap
  <2> QED BY <2>1, <2>2, <2>3, <2>4, <2>5, <2>6 DEF Descends
<1>6. PICK f : Solves(f, D, V, stop, base, next, wrap)
  <2> HIDE DEF mu, base, next, wrap, D, V, stop
  <2> QED BY <1>5, LinearRecursion, Zenon
<1>7. f = [p \in D |-> Body(f, p)]
  <2>1. f \in [D -> V] /\ \A p \in D : f[p] = IF p \in stop THEN base[p] ELSE wrap[p][f[next[p]]]
    <3> HIDE DEF mu, base, next, wrap, D, V, stop
    <3> QED BY <1>6 DEF Solves
  <2>2. ASSUME NEW p \in D PROVE f[p] = Body(f, p)
    <3>1. CASE p \in stop
      <4>1. f[p] = IF LExists(fs, p) THEN RealPath(fs, p) ELSE Refused
        <5> HIDE DEF V, D, stop
        <5> QED BY <2>1, <3>1
      <4>2. LExists(fs, p) \/ Last(p) = ".."
        BY <3>1
      <4>3. CASE LExists(fs, p)
        BY <4>1, <4>3, Zenon
      <4>4. CASE ~LExists(fs, p) /\ Last(p) = ".."
        <5>1. Last(p) # "."
          BY <4>4
        <5> QED BY <4>1, <4>4, <5>1
      <4> QED BY <4>2, <4>3, <4>4
    <3>2. CASE p \notin stop
      <4>1. p \in D \ stop
        BY <3>2
      <4>2. next[p] = Front(p) /\ Front(p) \in D
        <5> HIDE DEF D, stop, mu
        <5> QED BY <1>2, <4>1
      <4>3. f[Front(p)] \in V
        BY <2>1, <4>2
      <4>4. f[p] = wrap[p][f[Front(p)]]
        <5> HIDE DEF base, next, wrap, D, V, stop
        <5> QED BY <2>1, <3>2, <4>2
      <4>5. f[p] = On(p, f[Front(p)])
        <5> HIDE DEF On, V, D, stop
        <5> QED BY <4>1, <4>3, <4>4
      <4>6. ~LExists(fs, p) /\ Last(p) # ".."
        BY <1>1, <4>1
      <4> HIDE DEF V, D, stop
      <4> QED BY <4>5, <4>6
    <3> QED BY <3>1, <3>2
  <2> HIDE DEF Body, D, V
  <2> QED BY <2>1, <2>2
<1>8. Of = [p \in D |-> Body(Of, p)]
  <2> HIDE DEF Body, D
  <2> QED BY <1>7, Zenon
<1>9. \A p \in D : Resolve(fs, p) = Of[p]
  BY Zenon DEF Resolve
<1> HIDE DEF Of
<1>10. Of[path] = Body(Of, path)
  <2> HIDE DEF Body, D
  <2>1. path \in D
    BY DEF D
  <2> QED BY <1>8, <2>1
<1>11. ~LExists(fs, path) => Front(path) \in D
  <2>1. ~LExists(fs, path) => path # <<>>
    BY RootIs
  <2> QED BY <2>1, FrontLast
<1>12. Resolve(fs, path) = Of[path] /\ (~LExists(fs, path) => Resolve(fs, Front(path)) = Of[Front(path)])
  <2>1. path \in D
    OBVIOUS
  <2> HIDE DEF D
  <2> QED BY <1>9, <1>11, <2>1
<1>13. PICK o : o = Of[path]
  OBVIOUS
<1>14. PICK h : h = Of[Front(path)]
  OBVIOUS
<1>15. o = IF LExists(fs, path) THEN RealPath(fs, path)
           ELSE CASE Last(path) = "." -> h
                  [] Last(path) = ".." -> Refused
                  [] OTHER -> IF h = Refused THEN Refused ELSE Append(h, Last(path))
  BY <1>10, <1>13, <1>14, Zenon
<1>16. "." # ".."
  OBVIOUS
<1>17. Dots(Last(path)) <=> Last(path) = "." \/ Last(path) = ".."
  BY DEF Dots
<1>18. Resolve(fs, path) = o /\ (~LExists(fs, path) => Resolve(fs, Front(path)) = h)
  BY <1>12, <1>13, <1>14
<1> HIDE DEF Body, D, V
<1>19. LExists(fs, path) => o = RealPath(fs, path)
  BY <1>15, Zenon
<1>20. ~LExists(fs, path) /\ Last(path) = "." => o = h
  BY ONLY <1>15, <1>16
<1>21. ~LExists(fs, path) /\ Last(path) = ".." => o = Refused
  BY ONLY <1>15, <1>16
<1>22. ~LExists(fs, path) /\ ~Dots(Last(path)) => o = IF h = Refused THEN Refused ELSE Append(h, Last(path))
  BY ONLY <1>15, <1>17
<1> QED BY <1>18, <1>19, <1>20, <1>21, <1>22, Zenon DEF Resolved

Names == STRING \ {"/refused"}

\* The kernel can follow a link to a directory that realpath finds.
LinksLeadAlike(fs) ==
    \A p \in DOMAIN fs : Link(fs, p) /\ Folder(fs, RealPath(fs, p)) => Follow(fs, p).fault = ""

\* No path of names is the refusal.
LEMMA RefusedIsNone ==
    ASSUME NEW d \in Seq(Names)
    PROVE  d # Refused /\ \A x \in Names : Append(d, x) # Refused /\ Append(d, x) \in Seq(Names)
<1>1. ASSUME NEW e \in Seq(Names) PROVE e # Refused
  <2> SUFFICES ASSUME e = Refused PROVE FALSE
    OBVIOUS
  <2>1. Len(e) = 1 /\ e[1] = "/refused"
    BY DEF Refused
  <2>2. e[1] \in Names
    <3>1. 1 \in 1..Len(e)
      BY <2>1
    <3> QED BY <3>1, ElementOfSeq
  <2> QED BY <2>1, <2>2 DEF Names
<1>2. ASSUME NEW x \in Names PROVE Append(d, x) \in Seq(Names)
  BY AppendProperties
<1> QED BY <1>1, <1>2

\* Names are strings.
LEMMA OfStrings ==
    /\ \A s \in Seq(Names) : s \in Seq(STRING)
    /\ \A fs : Tree(Names, fs) => Tree(STRING, fs)
<1>1. Names \subseteq STRING
  BY DEF Names
<1>2. \A s \in Seq(Names) : s \in Seq(STRING)
  BY <1>1, SeqMonotonic
<1>3. ASSUME NEW fs, Tree(Names, fs) PROVE Tree(STRING, fs)
  BY <1>2, <1>3 DEF Tree
<1> QED BY <1>2, <1>3

\* What _resolve finds of a path that can be walked.
Found(fs, p) ==
    Ends(fs, p) =>
        /\ Resolve(fs, p) # Refused =>
              /\ Resolve(fs, p) = RealPath(fs, p)
              /\ Folder(fs, RealPath(fs, p)) => Free(End(fs, p))
        /\ Free(End(fs, p)) => Resolve(fs, p) # Refused

\* The root resolves to itself.
LEMMA FoundOfRoot ==
    ASSUME NEW fs, Tree(Names, fs)
    PROVE  Found(fs, <<>>)
<1>1. LExists(fs, <<>>) /\ Free(End(fs, <<>>)) /\ <<>> \in Seq(Names)
  BY RootIs
<1>2. Resolve(fs, <<>>) = RealPath(fs, <<>>)
  <2>1. Tree(STRING, fs) /\ <<>> \in Seq(STRING)
    BY <1>1, OfStrings
  <2> QED BY <1>1, <2>1, ResolveSteps, Zenon DEF Resolved
<1>3. RealPath(fs, <<>>) # Refused
  BY <1>1, EndTyped, RefusedIsNone
<1> QED BY <1>1, <1>2, <1>3, Zenon DEF Found

\* And a path with one more name resolves to what that name stands for.
LEMMA FoundOfNext ==
    ASSUME NEW fs, Tree(Names, fs), LinksLeadAlike(fs), NEW f \in Seq(Names), NEW x \in Names,
           Found(fs, f)
    PROVE  Found(fs, Append(f, x))
<1>1. PICK p \in Seq(Names) : p = Append(f, x) /\ Front(p) = f /\ Last(p) = x
  BY TakenApart
<1> SUFFICES ASSUME Ends(fs, p)
             PROVE  /\ Resolve(fs, p) # Refused =>
                          /\ Resolve(fs, p) = RealPath(fs, p)
                          /\ Folder(fs, RealPath(fs, p)) => Free(End(fs, p))
                    /\ Free(End(fs, p)) => Resolve(fs, p) # Refused
  BY <1>1, Zenon DEF Found
<1>2. Ends(fs, f)
  <2>1. Ends(fs, Append(f, x))
    BY <1>1
  <2> QED BY <2>1, LastName
<1>3. PICK d : d = End(fs, f).dir
  OBVIOUS
<1>4. PICK a : a = End(fs, p).dir
  OBVIOUS
<1>5. d \in Seq(Names) /\ a \in Seq(Names) /\ RealPath(fs, f) = d /\ RealPath(fs, p) = a
  BY <1>1, <1>2, <1>3, <1>4, EndTyped, EndedReal
<1>6. PICK n : n = Append(d, x)
  OBVIOUS
<1>7. Stepped(fs, f, x) /\ Present(fs, f, x)
  <2>1. Ends(fs, Append(f, x))
    BY <1>1
  <2> QED BY <1>2, <2>1, LastStep, PresentIs
<1>8. Resolved(fs, p)
  BY <1>1, OfStrings, ResolveSteps
<1>9. Found(fs, f) /\ Ends(fs, f)
  BY <1>2
<1> DEFINE freeF == Free(End(fs, f))
           freeP == Free(End(fs, p))
<1>10. /\ Resolve(fs, f) # Refused => Resolve(fs, f) = d /\ (Folder(fs, d) => freeF)
       /\ freeF => Resolve(fs, f) # Refused
  BY <1>5, <1>9, Zenon DEF Found
<1>11. freeP => freeF /\ Folder(fs, d)
  BY <1>1, <1>3, <1>7, Zenon DEF Stepped
<1>12. a # Refused /\ d # Refused /\ n # Refused
  BY <1>5, <1>6, RefusedIsNone
<1>13. LExists(fs, p) => Resolve(fs, p) = a
  BY <1>5, <1>8, Zenon DEF Resolved
<1>14. CASE Dots(x)
  <2>1. LExists(fs, p) <=> freeP /\ KindAt(fs, a) # "none"
    BY <1>1, <1>4, <1>7, <1>14, Zenon DEF Present
  <2>2. CASE LExists(fs, p)
    BY <1>5, <1>12, <1>13, <2>1, <2>2, Zenon
  <2>3. CASE ~LExists(fs, p) /\ x = "."
    <3>1. a = d /\ (freeF /\ Folder(fs, d) => freeP)
      BY <1>1, <1>3, <1>4, <1>7, <2>3, Zenon DEF Stepped
    <3>2. Resolve(fs, p) = Resolve(fs, f)
      BY <1>1, <1>8, <2>3, Zenon DEF Resolved
    <3> QED BY <1>5, <1>10, <1>11, <3>1, <3>2, Zenon
  <2>4. CASE ~LExists(fs, p) /\ x = ".."
    <3>1. Resolve(fs, p) = Refused
      BY <1>1, <1>8, <2>4, Zenon DEF Resolved
    <3>2. ~freeP
      <4> SUFFICES ASSUME freeP PROVE FALSE
        OBVIOUS
      <4>1. a = Parent(d)
        BY <1>1, <1>3, <1>4, <1>7, <2>4, Zenon DEF Stepped
      <4>2. KindAt(fs, d) = "dir"
        BY <1>11, Zenon DEF Folder
      <4>3. KindAt(fs, a) = "dir"
        <5>1. CASE d = <<>>
          BY <4>1, <5>1 DEF Parent, KindAt
        <5>2. CASE d # <<>>
          <6>1. "dir" # "none"
            OBVIOUS
          <6> QED BY <4>1, <4>2, <5>2, <6>1, KindsAre
        <5> QED BY <5>1, <5>2
      <4>4. KindAt(fs, a) # "none"
        BY <4>3
      <4> QED BY <2>1, <2>4, <4>4, Zenon
    <3> QED BY <3>1, <3>2, Zenon
  <2> QED BY <1>14, <2>2, <2>3, <2>4 DEF Dots
<1>15. CASE ~Dots(x)
  <2>1. LExists(fs, p) <=> freeF /\ Folder(fs, d) /\ KindAt(fs, n) # "none"
    BY <1>1, <1>3, <1>6, <1>7, <1>15, Zenon DEF Present
  <2>2. CASE LExists(fs, p)
    <3>1. ASSUME Folder(fs, a) PROVE freeP
      <4>1. CASE ~Link(fs, n)
        BY <1>1, <1>3, <1>6, <1>7, <1>15, <2>1, <2>2, <4>1, Zenon DEF Stepped
      <4>2. CASE Link(fs, n)
        <5>1. End(fs, n).dir = a /\ Ends(fs, n) /\ (Free(End(fs, n)) => freeP)
          BY <1>1, <1>3, <1>4, <1>6, <1>7, <1>15, <2>1, <2>2, <4>2, Zenon DEF Stepped
        <5>2. n \in Seq(Names)
          BY <1>5, <1>6, AppendProperties
        <5>3. n \in DOMAIN fs
          <6>1. KindAt(fs, n) \notin {"dir", "none"}
            BY <4>2 DEF Link
          <6> QED BY <6>1, KindsAre
        <5>4. RealPath(fs, n) = a /\ (Follow(fs, n).fault = "" => Free(End(fs, n)))
          BY <5>1, <5>2, EndedReal
        <5>5. Follow(fs, n).fault = ""
          BY <3>1, <4>2, <5>3, <5>4, Zenon DEF LinksLeadAlike
        <5> QED BY <5>1, <5>4, <5>5
      <4> QED BY <4>1, <4>2
    <3> QED BY <1>5, <1>12, <1>13, <2>2, <3>1, Zenon
  <2>3. CASE ~LExists(fs, p)
    <3>1. Resolve(fs, p) = IF Resolve(fs, f) = Refused THEN Refused ELSE Append(Resolve(fs, f), x)
      BY <1>1, <1>8, <1>15, <2>3, Zenon DEF Resolved
    <3>2. CASE Resolve(fs, f) = Refused
      <4>1. Resolve(fs, p) = Refused
        BY <3>1, <3>2
      <4> QED BY <1>10, <1>11, <3>2, <4>1, Zenon
    <3>3. CASE Resolve(fs, f) # Refused
      <4>1. Resolve(fs, f) = d /\ (Folder(fs, d) => freeF)
        BY <1>10, <3>3, Zenon
      <4>2. Resolve(fs, p) = n
        BY <1>6, <3>1, <3>3, <4>1
      <4>3. KindAt(fs, n) = "none"
        <5> SUFFICES ASSUME KindAt(fs, n) # "none" PROVE FALSE
          OBVIOUS
        <5>1. n # <<>> /\ Parent(n) = d
          BY <1>5, <1>6, TakenApart DEF Parent
        <5>2. Folder(fs, d)
          BY <5>1, KindsAre DEF Folder
        <5> QED BY <2>1, <2>3, <4>1, <5>2, Zenon
      <4>4. "none" # "link" /\ "none" # "dir"
        OBVIOUS
      <4>5. ~Link(fs, n) /\ ~Folder(fs, n)
        BY <4>3, <4>4, Zenon DEF Link, Folder
      <4>6. a = n
        BY <1>1, <1>3, <1>4, <1>6, <1>7, <1>15, <4>5, Zenon DEF Stepped
      <4> QED BY <1>5, <1>12, <4>2, <4>5, <4>6, Zenon
    <3> QED BY <3>2, <3>3
  <2> QED BY <2>2, <2>3
<1> QED BY <1>14, <1>15

\* By induction over its names, every path resolves to where it leads, or to
\* where a file would be created, or is refused.
LEMMA FoundOfAll ==
    ASSUME NEW fs, Tree(Names, fs), LinksLeadAlike(fs), NEW path \in Seq(Names)
    PROVE  Found(fs, path)
<1> DEFINE mu == [p \in Seq(Names) |-> Len(p)]
           Bad == {p \in Seq(Names) : ~Found(fs, p)}
<1>1. mu \in [Seq(Names) -> Nat]
  BY LenProperties
<1>2. Bad = {}
  <2> SUFFICES ASSUME Bad # {} PROVE FALSE
    OBVIOUS
  <2>1. PICK p \in Bad : \A q \in Bad : mu[p] <= mu[q]
    <3>1. Bad \in SUBSET Seq(Names)
      OBVIOUS
    <3> HIDE DEF Bad, mu
    <3> QED BY <1>1, <3>1, LeastBy
  <2>2. p \in Seq(Names) /\ ~Found(fs, p)
    OBVIOUS
  <2>3. p # <<>>
    BY <2>2, FoundOfRoot
  <2>4. PICK f \in Seq(Names), x \in Names : p = Append(f, x) /\ Len(f) = Len(p) - 1 /\ Len(p) \in Nat
    <3>1. Front(p) \in Seq(Names) /\ Last(p) \in Names /\ p = Append(Front(p), Last(p))
          /\ Len(Front(p)) = Len(p) - 1 /\ Len(p) \in Nat
      BY <2>2, <2>3, FrontLast
    <3> QED BY <3>1
  <2>5. ~(mu[p] <= mu[f])
    BY <2>2, <2>4
  <2>6. f \notin Bad
    <3> HIDE DEF Bad
    <3> QED BY <2>1, <2>5
  <2>7. Found(fs, f)
    BY <2>6
  <2> QED BY <2>2, <2>4, <2>7, FoundOfNext
<1> QED BY <1>2

-----------------------------------------------------------------------------
(* Confinement *)

\* What _check hands on of a path that can be walked.
Handed(fs, root, j, path) ==
    /\ path # Refused =>
          /\ path \in Seq(Names) /\ Inside(path, root) /\ RealPath(fs, path) = path
          /\ Follow(fs, j).fault = "" => Follow(fs, j).at = path
    /\ Follow(fs, j).fault = "" /\ Inside(Follow(fs, j).at, root) => path = Follow(fs, j).at

\* So what Confine lets through is a path without links inside the root.
LEMMA ConfinesTo ==
    ASSUME NEW fs, Tree(Names, fs), LinksLeadAlike(fs), NEW policyRoot \in Seq(Names), NEW path, NEW abs,
           NEW root, root = RealPath(fs, policyRoot), NEW j \in Seq(Names), j = Join(root, path, abs),
           Ends(fs, j)
    PROVE  Handed(fs, root, j, Confine(fs, policyRoot, path, abs))
<1>1. PICK r : r = Resolve(fs, j)
  OBVIOUS
<1>2. PICK d : d = End(fs, j).dir
  OBVIOUS
<1>3. Found(fs, j)
  BY FoundOfAll
<1>4. d \in Seq(Names) /\ Canon(fs, d) /\ Len(d) <= Steps
  BY <1>2, EndTyped
<1>5. RealPath(fs, j) = d /\ (Follow(fs, j).fault = "" <=> Free(End(fs, j)))
      /\ (Free(End(fs, j)) => Follow(fs, j).at = d)
  BY <1>2, EndedReal
<1>6. (r # Refused => r = d) /\ (Free(End(fs, j)) => r # Refused)
  BY <1>1, <1>3, <1>5, Zenon DEF Found
<1>7. RealPath(fs, d) = d
  BY <1>4, CanonStands
<1>8. Confine(fs, policyRoot, path, abs) = IF r = Refused \/ ~Inside(r, root) THEN Refused ELSE r
  BY <1>1, Zenon DEF Confine
<1>9. PICK c : c = Confine(fs, policyRoot, path, abs)
  OBVIOUS
<1>10. PICK fo : fo = Follow(fs, j)
  OBVIOUS
<1>11. c # Refused => c = d /\ Inside(d, root)
  BY <1>6, <1>8, <1>9, Zenon
<1>12. fo.fault = "" => fo.at = d /\ r = d /\ d # Refused
  BY <1>5, <1>6, <1>10, Zenon
<1>13. fo.fault = "" /\ Inside(d, root) => c = d
  BY <1>8, <1>9, <1>12, Zenon
<1> QED BY <1>4, <1>7, <1>9, <1>10, <1>11, <1>12, <1>13, Zenon DEF Handed

\* The path that is confined is one of names.
LEMMA Joined ==
    ASSUME NEW root \in Seq(Names), NEW path \in Seq(Names), NEW abs
    PROVE  Join(root, path, abs) \in Seq(Names)
<1>1. root \o path \in Seq(Names)
  BY ConcatProperties
<1> QED BY <1>1 DEF Join

\* What the question's resolutions have to be: none goes on for more than Steps.
Settled(q) ==
    LET j == Join(RealPath(q.fs, q.root), q.path, q.abs)
        c == Confine(q.fs, q.root, q.path, q.abs) IN
    /\ Ends(q.fs, j)
    /\ c # Refused => Ends(q.fs, Append(c, q.name))

IsPathQuestion(q) ==
    /\ Tree(Names, q.fs) /\ LinksLeadAlike(q.fs)
    /\ q.root \in Seq(Names) /\ q.path \in Seq(Names) /\ q.name \in Names
    /\ Settled(q)

\* ConfinedPath holds of every such question.
LEMMA ConfinedHolds ==
    ASSUME NEW q, IsPathQuestion(q)
    PROVE  ConfinedPath(q)
<1>1. PICK fs : fs = q.fs
  OBVIOUS
<1>2. PICK root : root = RealPath(fs, q.root)
  OBVIOUS
<1>3. PICK j : j = Join(root, q.path, q.abs)
  OBVIOUS
<1>4. PICK c : c = Confine(fs, q.root, q.path, q.abs)
  OBVIOUS
<1>5. PICK x : x = q.name
  OBVIOUS
<1>6. Tree(Names, fs) /\ LinksLeadAlike(fs)
  BY <1>1, Zenon DEF IsPathQuestion
<1>7. q.root \in Seq(Names) /\ q.path \in Seq(Names) /\ x \in Names
  BY <1>5, Zenon DEF IsPathQuestion
<1>8. Ends(fs, j) /\ (c # Refused => Ends(fs, Append(c, x)))
  BY <1>1, <1>2, <1>3, <1>4, <1>5, Zenon DEF IsPathQuestion, Settled
<1>9. root \in Seq(Names) /\ j \in Seq(Names)
  <2>1. root \in Seq(Names)
    BY <1>2, <1>6, <1>7, EndTyped
  <2> QED BY <1>3, <1>7, <2>1, Joined
<1>10. Handed(fs, root, j, c)
  BY <1>2, <1>3, <1>4, <1>6, <1>7, <1>8, <1>9, ConfinesTo, Zenon
<1>11. PICK src : src = <<"r", x>>
  OBVIOUS
<1>12. Last(src) = x
  BY <1>11 DEF Last
<1>13. PICK target : target = CopyTarget(fs, q.root, src, c)
  OBVIOUS
<1>14. PICK final : final = Confine(fs, q.root, Append(c, x), TRUE)
  OBVIOUS
<1>15. target = IF c = Refused \/ ~IsDir(fs, c) THEN c
                ELSE IF final = Refused \/ IsDir(fs, final) THEN Refused ELSE final
  BY <1>12, <1>13, <1>14, Zenon DEF CopyTarget
<1>16. ASSUME target # Refused PROVE Inside(Written(fs, src, target), root)
  <2>1. CASE ~IsDir(fs, c)
    <3>1. target = c /\ c # Refused
      BY <1>15, <1>16, <2>1, Zenon
    <3>2. Written(fs, src, c) = RealPath(fs, c)
      BY <2>1, Zenon DEF Written
    <3>3. RealPath(fs, c) = c /\ Inside(c, root)
      BY <1>10, <3>1, Zenon DEF Handed
    <3> QED BY <3>1, <3>2, <3>3
  <2>2. CASE IsDir(fs, c)
    <3>1. c # Refused /\ target = final /\ final # Refused /\ ~IsDir(fs, final)
      BY <1>15, <1>16, <2>2, Zenon
    <3>2. PICK p : p = Append(c, x)
      OBVIOUS
    <3>3. p \in Seq(Names) /\ p = Join(root, p, TRUE)
      <4>1. c \in Seq(Names)
        BY <1>10, <3>1, Zenon DEF Handed
      <4>2. p \in Seq(Names)
        BY <1>7, <3>2, <4>1, AppendProperties
      <4> QED BY <4>2 DEF Join
    <3>4. Ends(fs, p) /\ final = Confine(fs, q.root, p, TRUE)
      BY <1>8, <1>14, <3>1, <3>2
    <3>5. Handed(fs, root, p, final)
      BY <1>2, <1>6, <1>7, <3>3, <3>4, ConfinesTo, Zenon
    <3>6. RealPath(fs, final) = final /\ Inside(final, root)
      BY <3>1, <3>5, Zenon DEF Handed
    <3>7. Written(fs, src, final) = RealPath(fs, final)
      BY <3>1, Zenon DEF Written
    <3> QED BY <3>1, <3>6, <3>7
  <2> QED BY <2>1, <2>2
<1>17. /\ c # Refused => Inside(c, root) /\ RealPath(fs, c) = c
                         /\ (Follow(fs, j).fault = "" => Follow(fs, j).at = c)
       /\ Follow(fs, j).fault = "" /\ Inside(Follow(fs, j).at, root) => c = Follow(fs, j).at
  BY <1>10, Zenon DEF Handed
<1> QED BY <1>1, <1>2, <1>3, <1>4, <1>5, <1>11, <1>13, <1>16, <1>17, Zenon DEF ConfinedPath

\* Whatever the file system is and however deep the root and the path are, a
\* confined facade reads and writes inside its root and refuses nothing that leads
\* inside (location.py, confine_local and the copy's final check), as long as no
\* resolution meets more links than Steps allows and a link leads the kernel where
\* it leads realpath.
THEOREM ConfinedPathsStayInside ==
    (question.about = "path" => IsPathQuestion(question)) /\ [][UNCHANGED question]_question
    => []ConfinedStaysInside
<1> DEFINE Asked == question.about = "path" => IsPathQuestion(question)
<1>1. Asked /\ [UNCHANGED question]_question => Asked'
  OBVIOUS
<1>2. Asked => ConfinedStaysInside
  BY ConfinedHolds, Zenon DEF ConfinedStaysInside, Answers
<1> QED BY <1>1, <1>2, PTL

===============================================================================
