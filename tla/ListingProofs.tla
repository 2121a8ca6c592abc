----------------------------- MODULE ListingProofs ----------------------------
(*****************************************************************************)
(* Proofs about listings, for every finite file system with links. What      *)
(* stat and lstat make of a path is followed name by name; the loops of the  *)
(* local and of the SFTP backend then have one invariant in common, which    *)
(* says what is listed and what is pending, and from which it follows what   *)
(* they list at the end. S3 lists keys, and over files and directories only  *)
(* it is shown to list the same.                                             *)
(*****************************************************************************)
EXTENDS ConfinementProofs

-----------------------------------------------------------------------------
(* What a path leads to, name by name *)

\* A walk keeps the first obstacle that it has met.
Minds(fs, s, v) ==
    /\ ~Free(s) => v.fault = s.fault
    /\ Free(s) /\ s.rest # <<>> => v.fault = Obstacle(fs, s.dir)

\* A step of the walk does so.
LEMMA OnwardMinds ==
    ASSUME NEW fs, NEW w
    PROVE  Minds(fs, w, Onward(fs, w))
<1> DEFINE name == Head(w.rest)
           next == Append(w.dir, name)
           fault == IF w.fault # "" THEN w.fault ELSE Obstacle(fs, w.dir)
           link == KindAt(fs, next) = "link"
           here == name = "."
           above == name = ".."
           plain == name \notin {".", ".."}
           to == fs[next].to \o Tail(w.rest)
           up == IF fs[next].abs THEN <<>> ELSE w.dir
           Go(dir, rest) == [dir |-> dir, rest |-> rest, fault |-> fault]
           v == Onward(fs, w)
<1> HIDE DEF name, next, fault, link, here, above, plain, to, up
<1>1. v = CASE w.rest = <<>> -> w
            [] w.rest # <<>> /\ here -> Go(w.dir, Tail(w.rest))
            [] w.rest # <<>> /\ above -> Go(Parent(w.dir), Tail(w.rest))
            [] w.rest # <<>> /\ plain /\ link -> Go(up, to)
            [] OTHER -> Go(next, Tail(w.rest))
  BY Zenon DEF Onward, name, next, fault, link, up, to, here, above, plain
<1>2. \A dir, rest : Go(dir, rest).fault = fault
  OBVIOUS
<1> HIDE DEF Go, v
<1>3. w.rest = <<>> => v = w
  <2>1. ASSUME w.rest = <<>> PROVE v = w
    BY <1>1, <2>1
  <2> QED BY <2>1
<1>4. w.rest # <<>> => v.fault = fault
  <2>1. ASSUME w.rest # <<>> PROVE \E dir, rest : v = Go(dir, rest)
    BY <1>1, <2>1
  <2> QED BY <1>2, <2>1, Zenon
<1>5. ~Free(w) => fault = w.fault
  BY DEF fault, Free
<1>6. Free(w) => fault = Obstacle(fs, w.dir)
  BY DEF fault, Free
<1> QED BY <1>3, <1>4, <1>5, <1>6, Zenon DEF Minds, v

\* What a walk has met it has met for good.
LEMMA FaultKept ==
    ASSUME NEW fs, NEW path, NEW w, Runs(fs, path, w),
           NEW n \in 0..Steps, NEW m \in 0..n, ~Free(w[m])
    PROVE  w[n].fault = w[m].fault
<1>1. Steps \in Nat
  BY StepsAssumption
<1>2. PICK k \in Nat : k = n - m
  BY <1>1
<1> DEFINE G == {i \in 0..k : w[m + i].fault = w[m].fault}
<1>3. 0 \in G
  <2>1. m + 0 = m /\ 0 \in 0..k
    OBVIOUS
  <2> QED BY <2>1
<1>4. ASSUME NEW i \in 1..k, i - 1 \in G PROVE i \in G
  <2>1. PICK j : j = m + i
    OBVIOUS
  <2>2. j \in 1..Steps /\ m + (i - 1) = j - 1 /\ i \in 0..k
    BY <1>1, <1>2, <2>1
  <2>3. w[j - 1].fault = w[m].fault
    BY <1>4, <2>2
  <2>4. w[j] = Onward(fs, w[j - 1])
    BY <2>2 DEF Runs
  <2>5. Minds(fs, w[j - 1], w[j])
    BY <2>4, OnwardMinds
  <2>6. w[j].fault = w[m].fault
    BY <2>3, <2>5, Zenon DEF Minds, Free
  <2> QED BY <2>1, <2>2, <2>6
<1> HIDE DEF G
<1>5. 0..k \subseteq G
  BY <1>3, <1>4, UpInduction
<1>6. k \in 0..k /\ m + k = n
  BY <1>1, <1>2
<1> QED BY <1>5, <1>6 DEF G

\* With one more name at its end a path meets the same obstacles up to that name.
LEMMA AppendedMinds ==
    ASSUME NEW N, NEW fs, Tree(N, fs), NEW f \in Seq(N), NEW x \in N,
           NEW w, w = Walk(fs, f), NEW w2, w2 = Walk(fs, Append(f, x)),
           NEW n \in 0..Steps, \A k \in 0..n - 1 : w[k].rest # <<>>
    PROVE  More(x, w[n], w2[n]) /\ w2[n].fault = w[n].fault
<1>1. Steps \in Nat /\ n \in Nat
  BY StepsAssumption
<1>2. Append(f, x) \in Seq(N)
  BY AppendProperties
<1>3. /\ IsWalk(N, fs, f, w) /\ IsWalk(N, fs, Append(f, x), w2)
      /\ Runs(fs, f, w) /\ Runs(fs, Append(f, x), w2)
  BY <1>2, WalkSteps, WalkRuns
<1>4. ASSUME NEW k \in 0..n PROVE More(x, w[k], w2[k])
  <2>1. k \in 0..Steps /\ \A i \in 0..k - 1 : i \in 0..n - 1
    BY <1>1
  <2> QED BY <1>3, <2>1, Appended
<1> DEFINE G == {k \in 0..n : w2[k].fault = w[k].fault}
<1>5. 0 \in G
  <2>1. Free(w[0]) /\ Free(w2[0])
    BY <1>3, Zenon DEF IsWalk
  <2>2. w2[0].fault = w[0].fault
    BY <2>1, Zenon DEF Free
  <2> QED BY <1>1, <2>2
<1>6. ASSUME NEW k \in 1..n, k - 1 \in G PROVE k \in G
  <2>1. k \in 1..Steps /\ k \in 0..n /\ k - 1 \in 0..n /\ k - 1 \in 0..n - 1 /\ k - 1 \in 0..Steps
    BY <1>1
  <2>2. PICK s : s = w[k - 1]
    OBVIOUS
  <2>3. PICK s2 : s2 = w2[k - 1]
    OBVIOUS
  <2>4. Minds(fs, s, w[k]) /\ Minds(fs, s2, w2[k])
    <3>1. w[k] = Onward(fs, s) /\ w2[k] = Onward(fs, s2)
      BY <1>3, <2>1, <2>2, <2>3, Zenon DEF Runs
    <3> QED BY <3>1, OnwardMinds
  <2>5. s2.dir = s.dir /\ s2.rest = Append(s.rest, x) /\ s2.fault = s.fault /\ s.rest # <<>>
    <3>1. More(x, w[k - 1], w2[k - 1])
      BY <1>4, <2>1
    <3> QED BY <1>6, <2>1, <2>2, <2>3, <3>1 DEF More
  <2>6. s2.rest # <<>>
    <3>1. s.rest \in Seq(N)
      BY <1>3, <2>1, <2>2, Zenon DEF IsWalk
    <3> QED BY <2>5, <3>1, AppendProperties
  <2>7. w2[k].fault = w[k].fault
    BY <2>4, <2>5, <2>6, Zenon DEF Minds, Free
  <2> QED BY <2>1, <2>7
<1> HIDE DEF G
<1>7. 0..n \subseteq G
  BY <1>1, <1>5, <1>6, UpInduction
<1>8. n \in 0..n
  BY <1>1
<1> QED BY <1>4, <1>7, <1>8 DEF G

\* Where the kernel gets to, from the end of the walk.
LEMMA Followed ==
    ASSUME NEW fs, NEW p, NEW e, e = End(fs, p)
    PROVE  /\ ~Free(e) => Follow(fs, p).fault = e.fault
           /\ Free(e) /\ e.rest # <<>> => Follow(fs, p).fault = "loop"
           /\ Free(e) /\ e.rest = <<>> => Free(Follow(fs, p)) /\ Follow(fs, p).at = e.dir
<1>1. \A a, b : [fault |-> a, at |-> b].fault = a /\ [fault |-> a, at |-> b].at = b
  OBVIOUS
<1>2. Follow(fs, p) = IF e.fault # "" THEN [fault |-> e.fault, at |-> <<>>]
                      ELSE IF e.rest # <<>> THEN [fault |-> "loop", at |-> <<>>]
                      ELSE [fault |-> "", at |-> e.dir]
  BY Zenon DEF Follow, Ending, End
<1>3. ASSUME ~Free(e) PROVE Follow(fs, p).fault = e.fault
  <2>1. Follow(fs, p) = [fault |-> e.fault, at |-> <<>>]
    BY <1>2, <1>3, Zenon DEF Free
  <2> QED BY <1>1, <2>1, Zenon
<1>4. ASSUME Free(e), e.rest # <<>> PROVE Follow(fs, p).fault = "loop"
  <2>1. Follow(fs, p) = [fault |-> "loop", at |-> <<>>]
    BY <1>2, <1>4, Zenon DEF Free
  <2> QED BY <1>1, <2>1, Zenon
<1>5. ASSUME Free(e), e.rest = <<>> PROVE Free(Follow(fs, p)) /\ Follow(fs, p).at = e.dir
  <2>1. Follow(fs, p) = [fault |-> "", at |-> e.dir]
    BY <1>2, <1>5, Zenon DEF Free
  <2>2. [fault |-> "", at |-> e.dir].fault = "" /\ [fault |-> "", at |-> e.dir].at = e.dir
    OBVIOUS
  <2> QED BY <2>1, <2>2, Zenon DEF Free
<1> QED BY <1>3, <1>4, <1>5

\* A walk of one more name comes to where only that name is left, or ends before.
ComesTo(x, e, v, m) ==
    /\ More(x, e, v) /\ v.fault = e.fault
    /\ m = Steps \/ e.rest = <<>>

\* What is walked before the last name is the walk of the path without it.
LEMMA BeforeLast ==
    ASSUME NEW N, NEW fs, Tree(N, fs), NEW f \in Seq(N), NEW x \in N
    PROVE  \E m \in 0..Steps : ComesTo(x, End(fs, f), Walk(fs, Append(f, x))[m], m)
<1>1. Steps \in Nat
  BY StepsAssumption
<1>2. PICK w : w = Walk(fs, f)
  OBVIOUS
<1>3. PICK w2 : w2 = Walk(fs, Append(f, x))
  OBVIOUS
<1>4. IsWalk(N, fs, f, w) /\ End(fs, f) = w[Steps]
  BY <1>2, WalkSteps DEF End
<1> DEFINE T == {k \in 0..Steps : w[k].rest = <<>>}
<1>5. CASE T = {}
  <2>1. \A k \in 0..Steps - 1 : w[k].rest # <<>>
    <3>1. \A k \in 0..Steps - 1 : k \in 0..Steps
      BY <1>1
    <3> QED BY <1>5, <3>1
  <2>2. Steps \in 0..Steps
    BY <1>1
  <2>3. More(x, w[Steps], w2[Steps]) /\ w2[Steps].fault = w[Steps].fault
    BY <1>2, <1>3, <2>1, <2>2, AppendedMinds
  <2> QED BY <1>3, <1>4, <2>2, <2>3 DEF ComesTo
<1>6. CASE T # {}
  <2>1. PICK m \in T : \A k \in T : m <= k
    <3>1. T \subseteq Nat
      BY <1>1
    <3> HIDE DEF T
    <3> QED BY <1>6, <3>1, LeastNatural
  <2>2. m \in 0..Steps /\ w[m].rest = <<>>
    OBVIOUS
  <2>3. \A k \in 0..m - 1 : w[k].rest # <<>>
    <3> SUFFICES ASSUME NEW k \in 0..m - 1, w[k].rest = <<>> PROVE FALSE
      OBVIOUS
    <3>1. k \in 0..Steps /\ ~(m <= k)
      BY <1>1, <2>2
    <3> QED BY <2>1, <3>1
  <2> HIDE DEF T
  <2>4. More(x, w[m], w2[m]) /\ w2[m].fault = w[m].fault
    BY <1>2, <1>3, <2>2, <2>3, AppendedMinds
  <2>5. w[Steps] = w[m]
    <3>1. Steps \in m..Steps
      BY <1>1, <2>2
    <3> QED BY <1>4, <2>2, <3>1, Stays
  <2> QED BY <1>3, <1>4, <2>2, <2>4, <2>5 DEF ComesTo
<1> QED BY <1>5, <1>6

\* What a name more leads to, from what the path without it leads to.
Further(fs, g, x, h) ==
    /\ ~Free(g) => h.fault = g.fault
    /\ Free(g) /\ ~Folder(fs, g.at) => h.fault \in {Obstacle(fs, g.at), "loop"}
    /\ Free(g) /\ Folder(fs, g.at) /\ Dots(x) => h.fault = "loop" \/ (Free(h) /\ Folder(fs, h.at))
    /\ Free(g) /\ Folder(fs, g.at) /\ ~Dots(x) /\ ~Link(fs, Append(g.at, x)) =>
         h.fault = "loop" \/ (Free(h) /\ h.at = Append(g.at, x))

\* Where the kernel gets to with one name more.
LEMMA OneNameMore ==
    ASSUME NEW N, NEW fs, Tree(N, fs), NEW f \in Seq(N), NEW x \in N
    PROVE  Further(fs, Follow(fs, f), x, Follow(fs, Append(f, x)))
<1>1. Steps \in Nat
  BY StepsAssumption
<1>2. PICK p \in Seq(N) : p = Append(f, x)
  BY AppendProperties
<1>3. PICK w : w = Walk(fs, p)
  OBVIOUS
<1>4. PICK e : e = End(fs, f)
  OBVIOUS
<1>5. PICK z : z = End(fs, p)
  OBVIOUS
<1>6. PICK g : g = Follow(fs, f)
  OBVIOUS
<1>7. PICK h : h = Follow(fs, p)
  OBVIOUS
<1>8. IsWalk(N, fs, p, w) /\ Runs(fs, p, w) /\ z = w[Steps]
  BY <1>3, <1>5, WalkSteps, WalkRuns DEF End
<1>9. PICK m \in 0..Steps : ComesTo(x, e, w[m], m)
  BY <1>2, <1>3, <1>4, BeforeLast
<1>10. PICK v : v = w[m]
  OBVIOUS
<1>11. v.dir = e.dir /\ v.rest = Append(e.rest, x) /\ (Free(v) <=> Free(e)) /\ v.fault = e.fault
       /\ (m = Steps \/ e.rest = <<>>)
  BY <1>9, <1>10, Zenon DEF ComesTo, More
<1>12. e.dir \in Seq(N) /\ e.rest \in Seq(N)
  <2>1. IsWalk(N, fs, f, Walk(fs, f)) /\ e = Walk(fs, f)[Steps] /\ Steps \in 0..Steps
    BY <1>1, <1>4, WalkSteps DEF End
  <2> QED BY <2>1, Zenon DEF IsWalk
<1>13. /\ ~Free(e) => g.fault = e.fault
       /\ Free(e) /\ e.rest # <<>> => g.fault = "loop"
       /\ Free(e) /\ e.rest = <<>> => Free(g) /\ g.at = e.dir
  BY <1>4, <1>6, Followed
<1>14. /\ ~Free(z) => h.fault = z.fault
       /\ Free(z) /\ z.rest # <<>> => h.fault = "loop"
       /\ Free(z) /\ z.rest = <<>> => Free(h) /\ h.at = z.dir
  BY <1>5, <1>7, Followed
<1>15. ~Free(v) => z.fault = v.fault
  <2>1. Steps \in 0..Steps /\ m \in 0..Steps
    BY <1>1
  <2> QED BY <1>8, <1>10, <2>1, FaultKept

<1>16. CASE ~Free(e)
  <2>1. h.fault = g.fault /\ ~Free(g)
    BY <1>11, <1>13, <1>14, <1>15, <1>16, Zenon DEF Free
  <2> QED BY <1>2, <1>6, <1>7, <2>1, Zenon DEF Further
<1>17. CASE Free(e) /\ m = Steps
  <2>1. z = v
    BY <1>8, <1>10, <1>17
  <2>2. z.rest # <<>>
    BY <1>11, <1>12, <2>1, AppendProperties
  <2>3. h.fault = "loop"
    BY <1>11, <1>14, <1>17, <2>1, <2>2, Zenon
  <2>4. ~Free(g) => g.fault = "loop"
    BY <1>13, <1>17, Zenon
  <2> QED BY <1>2, <1>6, <1>7, <2>3, <2>4, Zenon DEF Further
<1>18. CASE Free(e) /\ m # Steps
  <2>1. PICK d \in Seq(N) : d = e.dir
    BY <1>12
  <2>2. Free(g) /\ g.at = d /\ v.dir = d /\ v.rest = <<x>> /\ Free(v)
    <3>1. e.rest = <<>> /\ Append(<<>>, x) = <<x>>
      BY <1>11, <1>18
    <3> QED BY <1>11, <1>13, <1>18, <2>1, <3>1, Zenon
  <2>3. PICK j \in 1..Steps : j = m + 1 /\ j - 1 = m
    BY <1>1, <1>18
  <2>4. PICK u : u = w[j]
    OBVIOUS
  <2>5. u.fault = Obstacle(fs, d)
    <3>1. u = Onward(fs, v)
      BY <1>8, <1>10, <2>3, <2>4 DEF Runs
    <3>2. Minds(fs, v, u)
      BY <3>1, OnwardMinds
    <3>3. v.rest # <<>>
      BY <2>2
    <3> QED BY <2>2, <3>2, <3>3, Zenon DEF Minds
  <2>6. j \in 0..Steps /\ Steps \in 0..Steps /\ j \in 0..Steps /\ Steps \in j..Steps
    BY <1>1
  <2>7. CASE ~Folder(fs, d)
    <3>1. ~Free(u)
      BY <2>5, <2>7, ObstacleIs, Zenon DEF Free
    <3>2. z.fault = u.fault
      BY <1>8, <2>4, <2>6, <3>1, FaultKept
    <3>3. h.fault = Obstacle(fs, d)
      BY <1>14, <2>5, <3>1, <3>2, Zenon DEF Free
    <3> QED BY <1>2, <1>6, <1>7, <2>2, <2>7, <3>3, Zenon DEF Further
  <2>8. CASE Folder(fs, d)
    <3>1. Along(fs, d, x, <<>>, v, u)
      <4>1. <<x>> \o <<>> = <<x>> /\ <<>> \in Seq(N)
        OBVIOUS
      <4>2. w[j - 1].dir = d /\ w[j - 1].rest = <<x>> \o <<>>
        BY <1>10, <2>2, <2>3, <4>1
      <4> QED BY <1>8, <1>10, <2>3, <2>4, <4>1, <4>2, StepAlong
    <3>2. Free(u)
      BY <2>2, <2>8, <3>1, Zenon DEF Along
    <3>3. ASSUME u.rest = <<>> PROVE Free(h) /\ h.at = u.dir
      <4>1. w[Steps] = w[j]
        BY <1>8, <2>4, <2>6, <3>3, Stays
      <4> QED BY <1>8, <1>14, <2>4, <3>2, <3>3, <4>1, Zenon
    <3>4. CASE Dots(x)
      <4>1. u.rest = <<>> /\ (u.dir = d \/ u.dir = Parent(d))
        BY <3>1, <3>4 DEF Along, Dots
      <4>2. Folder(fs, Parent(d))
        <5>1. d = <<>> => Parent(d) = d
          BY DEF Parent
        <5>2. d # <<>> => KindAt(fs, Parent(d)) = "dir"
          BY <2>8, KindsAre DEF Folder
        <5> QED BY <2>8, <5>1, <5>2 DEF Folder
      <4>3. Free(h) /\ Folder(fs, h.at)
        BY <2>8, <3>3, <4>1, <4>2, Zenon
      <4> QED BY <1>2, <1>6, <1>7, <2>2, <2>8, <3>4, <4>3, Zenon DEF Further
    <3>5. CASE ~Dots(x)
      <4>1. ASSUME ~Link(fs, Append(d, x)) PROVE Free(h) /\ h.at = Append(d, x)
        <5>1. u.dir = Append(d, x) /\ u.rest = <<>>
          BY <3>1, <3>5, <4>1, Zenon DEF Along
        <5> QED BY <3>3, <5>1, Zenon
      <4> QED BY <1>2, <1>6, <1>7, <2>2, <2>8, <3>5, <4>1, Zenon DEF Further
    <3> QED BY <3>4, <3>5
  <2> QED BY <2>7, <2>8
<1> QED BY <1>16, <1>17, <1>18

PresentKinds == {"file", "dir", "special"}

\* stat, from where the kernel gets to.
Tells(fs, N, g, stat) ==
    /\ ~Free(g) => stat = g.fault /\ g.fault \in Faults
    /\ Free(g) => /\ g.at \in Seq(N) /\ Canon(fs, g.at)
                  /\ KindAt(fs, g.at) \in PresentKinds \cup {"none"}
                  /\ KindAt(fs, g.at) = "none" => stat = "absent"
                  /\ KindAt(fs, g.at) # "none" => stat = KindAt(fs, g.at)

\* stat is the kind of what the kernel gets to, or why it gets nowhere.
LEMMA StatTells ==
    ASSUME NEW N, NEW fs, Tree(N, fs), NEW p \in Seq(N)
    PROVE  Tells(fs, N, Follow(fs, p), Stat(fs, p))
<1>1. PICK g : g = Follow(fs, p)
  OBVIOUS
<1>2. PICK e : e = End(fs, p)
  OBVIOUS
<1>3. /\ e.dir \in Seq(N) /\ Canon(fs, e.dir) /\ e.fault \in Faulty
  BY <1>2, EndTyped
<1>4. /\ ~Free(e) => g.fault = e.fault
      /\ Free(e) /\ e.rest # <<>> => g.fault = "loop"
      /\ Free(e) /\ e.rest = <<>> => Free(g) /\ g.at = e.dir
  BY <1>1, <1>2, Followed
<1>5. CASE ~Free(g)
  <2>1. Stat(fs, p) = g.fault
    BY <1>1, <1>5, Zenon DEF Stat, KindOf, Free
  <2>2. g.fault \in Faults
    <3>1. "loop" \in Faults
      BY DEF Faults
    <3>2. ~Free(e) => e.fault \in Faults
      BY <1>3, Zenon DEF Faulty, Free, Faults
    <3> QED BY <1>4, <1>5, <3>1, <3>2, Zenon
  <2> QED BY <1>1, <1>5, <2>1, <2>2, Zenon DEF Tells
<1>6. CASE Free(g)
  <2>1. Free(e) /\ e.rest = <<>> /\ g.at = e.dir
    <3>1. "loop" # ""
      BY Zenon
    <3> QED BY <1>4, <1>6, <3>1, Zenon DEF Free
  <2>2. PICK k : k = KindAt(fs, g.at)
    OBVIOUS
  <2>3. k \in PresentKinds \cup {"none"}
    <3>1. k \in {"file", "dir", "special", "link", "none"}
      BY <2>2, KindsAre
    <3>2. k # "link"
      <4>1. g.at = <<>> => k = "dir"
        BY <2>2 DEF KindAt
      <4>2. g.at # <<>> => ~Link(fs, g.at)
        BY <1>3, <2>1, CanonFront
      <4> QED BY <2>2, <4>1, <4>2 DEF Link
    <3> QED BY <3>1, <3>2 DEF PresentKinds
  <2>4. Stat(fs, p) = IF k = "none" THEN "absent" ELSE k
    BY <1>1, <1>6, <2>2, Zenon DEF Stat, KindOf, Free
  <2>5. /\ k = "none" => Stat(fs, p) = "absent"
        /\ k # "none" => Stat(fs, p) = k
    BY <2>4
  <2> QED BY <1>1, <1>3, <1>6, <2>1, <2>2, <2>3, <2>5, Zenon DEF Tells
<1> QED BY <1>5, <1>6

\* lstat of a name, from where the kernel gets to without it.
Shows(fs, g, x, lstat) ==
    /\ ~Free(g) => lstat = g.fault
    /\ Free(g) /\ KindAt(fs, g.at) = "none" => lstat = "absent"
    /\ Free(g) /\ KindAt(fs, g.at) \in {"file", "special"} => lstat = "notdir"
    /\ Free(g) /\ Folder(fs, g.at) =>
         lstat = IF KindAt(fs, Append(g.at, x)) = "none" THEN "absent" ELSE KindAt(fs, Append(g.at, x))

\* lstat is the kind of what has the name, in the directory the path before it
\* leads to.
LEMMA LStatShows ==
    ASSUME NEW N, NEW fs, Tree(N, fs), NEW f \in Seq(N), NEW x \in N, ~Dots(x)
    PROVE  Shows(fs, Follow(fs, f), x, LStat(fs, Append(f, x)))
<1>1. PICK p \in Seq(N) : p = Append(f, x) /\ Front(p) = f /\ Last(p) = x /\ p # <<>>
  BY TakenApart
<1>2. PICK g : g = Follow(fs, f)
  OBVIOUS
<1>3. ~(p = <<>> \/ Last(p) \in {".", ".."})
  BY <1>1, Zenon DEF Dots
<1>4. PICK k : k = KindAt(fs, g.at)
  OBVIOUS
<1>5. PICK l : l = KindAt(fs, Append(g.at, x))
  OBVIOUS
<1>6. PICK t : t = LStat(fs, p)
  OBVIOUS
<1>7. t = IF g.fault # "" THEN g.fault
          ELSE CASE k = "none" -> "absent"
                 [] k \in {"file", "special"} -> "notdir"
                 [] OTHER -> IF l = "none" THEN "absent" ELSE l
  BY <1>1, <1>2, <1>3, <1>4, <1>5, <1>6, Zenon DEF LStat, KindBelow
<1>8. ~Free(g) => t = g.fault
  BY <1>7, Zenon DEF Free
<1>9. Free(g) => t = CASE k = "none" -> "absent"
                       [] k \in {"file", "special"} -> "notdir"
                       [] OTHER -> IF l = "none" THEN "absent" ELSE l
  BY <1>7, Zenon DEF Free
<1>10. /\ Free(g) /\ k = "none" => t = "absent"
       /\ Free(g) /\ k \in {"file", "special"} => t = "notdir"
       /\ Free(g) /\ k = "dir" => t = IF l = "none" THEN "absent" ELSE l
  BY <1>9
<1> QED BY <1>1, <1>2, <1>4, <1>5, <1>6, <1>8, <1>10, Zenon DEF Shows, Folder

\* The beginnings of a path.
LEMMA Beginnings ==
    ASSUME NEW N, NEW p \in Seq(N)
    PROVE  /\ Len(p) \in Nat
           /\ \A i \in 0..Len(p) : SubSeq(p, 1, i) \in Seq(N) /\ Len(SubSeq(p, 1, i)) = i
           /\ SubSeq(p, 1, 0) = <<>> /\ SubSeq(p, 1, Len(p)) = p
           /\ \A i \in 1..Len(p) : p[i] \in N /\ SubSeq(p, 1, i) = Append(SubSeq(p, 1, i - 1), p[i])
           /\ \A i \in 0..Len(p) : \A j \in 1..i : SubSeq(p, 1, i)[j] = p[j]
<1>1. PICK n \in Nat : n = Len(p)
  BY LenProperties
<1>2. \A i \in 1..n : p[i] \in N
  BY <1>1, ElementOfSeq
<1>3. ASSUME NEW i \in 0..n
      PROVE  /\ SubSeq(p, 1, i) \in Seq(N) /\ Len(SubSeq(p, 1, i)) = i
             /\ \A j \in 1..i : SubSeq(p, 1, i)[j] = p[j]
  <2>1. 1 \in Int /\ i \in Int /\ (IF 1 <= i THEN i - 1 + 1 ELSE 0) = i /\ i - 1 + 1 = i
        /\ \A j \in 1..i : 1 + j - 1 = j /\ j \in 1..n
    BY <1>3
  <2> QED BY <1>2, <2>1, SubSeqProperties
<1>4. SubSeq(p, 1, 0) = <<>>
  BY SubSeqEmpty
<1>5. SubSeq(p, 1, n) = p
  BY <1>1, SubSeqFull
<1>6. ASSUME NEW i \in 1..n PROVE SubSeq(p, 1, i) = Append(SubSeq(p, 1, i - 1), p[i])
  <2>1. PICK a : a = SubSeq(p, 1, i)
    OBVIOUS
  <2>2. PICK b : b = SubSeq(p, 1, i - 1)
    OBVIOUS
  <2>3. i \in 0..n /\ i - 1 \in 0..n /\ i - 1 + 1 = i
    BY <1>6
  <2>4. a \in Seq(N) /\ Len(a) = i /\ \A j \in 1..i : a[j] = p[j]
    BY <1>3, <2>1, <2>3
  <2>5. b \in Seq(N) /\ Len(b) = i - 1 /\ \A j \in 1..i - 1 : b[j] = p[j]
    BY <1>3, <2>2, <2>3
  <2>6. PICK c : c = Append(b, p[i])
    OBVIOUS
  <2>7. c \in Seq(N) /\ Len(c) = i /\ (\A j \in 1..i - 1 : c[j] = p[j]) /\ c[i] = p[i]
    BY <1>2, <2>3, <2>5, <2>6, AppendProperties
  <2>8. \A j \in 1..i : a[j] = c[j]
    <3>1. \A j \in 1..i : j \in 1..i - 1 \/ j = i
      BY <1>6
    <3> QED BY <2>4, <2>7, <3>1
  <2>9. a = c
    BY <2>4, <2>7, <2>8, SeqEqual
  <2> QED BY <2>1, <2>2, <2>6, <2>9
<1> QED BY <1>1, <1>2, <1>3, <1>4, <1>5, <1>6

-----------------------------------------------------------------------------
(* What stat says along a path *)

AllStats == {"absent", "notdir", "loop", "file", "dir", "special"}

\* What stat says of the beginnings of a path of n names: a fault is never left
\* again, and below what is no directory there is nothing but faults.
StatsInOrder(st, n) ==
    /\ n \in Nat /\ st[0] = "dir" /\ \A i \in 0..n : st[i] \in AllStats
    /\ \A i \in 0..n : \A j \in i..n : st[i] \in {"notdir", "loop"} => st[j] = st[i]
    /\ \A i \in 0..n : \A j \in i + 1..n : st[i] \in {"file", "special"} => st[j] \in {"notdir", "loop"}
    /\ \A i \in 0..n : \A j \in i..n : st[i] = "absent" => st[j] \in {"absent", "loop"}

StatsOf(fs, path) == [i \in 0..Len(path) |-> Stat(fs, SubSeq(path, 1, i))]

\* Where the kernel is stuck it stays stuck, whatever names follow.
LEMMA StuckAt ==
    ASSUME NEW N, NEW fs, Tree(N, fs), NEW path \in Seq(N),
           NEW i \in 0..Len(path), NEW j \in i..Len(path), ~Free(Follow(fs, SubSeq(path, 1, i)))
    PROVE  Follow(fs, SubSeq(path, 1, j)).fault = Follow(fs, SubSeq(path, 1, i)).fault
<1>1. PICK n \in Nat : n = Len(path)
  BY LenProperties
<1>2. PICK g : g = Follow(fs, SubSeq(path, 1, i))
  OBVIOUS
<1> DEFINE k == n - i
           G == {m \in 0..k : Follow(fs, SubSeq(path, 1, i + m)).fault = g.fault}
<1>3. k \in Nat /\ i \in Nat
  BY <1>1
<1>4. 0 \in G
  <2>1. 0 \in 0..k /\ i + 0 = i
    BY <1>3
  <2> QED BY <1>2, <2>1
<1>5. ASSUME NEW m \in 1..k, m - 1 \in G PROVE m \in G
  <2>1. PICK l \in 1..n : l = i + m
    BY <1>1, <1>3
  <2>2. l - 1 = i + (m - 1) /\ m \in 0..k
    BY <1>3, <2>1
  <2>3. PICK f \in Seq(N), x \in N : f = SubSeq(path, 1, l - 1) /\ x = path[l] /\ SubSeq(path, 1, l) = Append(f, x)
    <3>1. l - 1 \in 0..n
      BY <1>1
    <3>2. SubSeq(path, 1, l - 1) \in Seq(N) /\ path[l] \in N /\ SubSeq(path, 1, l) = Append(SubSeq(path, 1, l - 1), path[l])
      BY <1>1, <3>1, Beginnings, Zenon
    <3> QED BY <3>2, Zenon
  <2>4. Further(fs, Follow(fs, f), x, Follow(fs, Append(f, x)))
    BY OneNameMore
  <2>5. Follow(fs, f).fault = g.fault
    BY <1>5, <2>2, <2>3
  <2>6. Follow(fs, Append(f, x)).fault = g.fault
    BY <1>2, <2>4, <2>5, Zenon DEF Further, Free
  <2> QED BY <2>1, <2>2, <2>3, <2>6
<1> HIDE DEF G
<1>6. 0..k \subseteq G
  <2> HIDE DEF k
  <2> QED BY <1>3, <1>4, <1>5, UpInduction
<1>7. j - i \in 0..k /\ i + (j - i) = j
  BY <1>1, <1>3
<1> QED BY <1>2, <1>6, <1>7 DEF G

\* The kinds of the obstacles.
LEMMA ObstacleKinds ==
    ASSUME NEW fs, NEW d
    PROVE  /\ KindAt(fs, d) = "none" => Obstacle(fs, d) = "absent"
           /\ KindAt(fs, d) \in {"file", "special"} => Obstacle(fs, d) = "notdir"
<1>1. Obstacle(fs, d) = CASE KindAt(fs, d) = "dir" -> ""
                          [] KindAt(fs, d) = "none" -> "absent"
                          [] OTHER -> "notdir"
  BY Zenon DEF Obstacle
<1>2. PICK e : e = ""
  OBVIOUS
<1>3. Obstacle(fs, d) = CASE KindAt(fs, d) = "dir" -> e
                          [] KindAt(fs, d) = "none" -> "absent"
                          [] OTHER -> "notdir"
  BY <1>1, <1>2, Zenon
<1> HIDE <1>1, <1>2
<1> QED BY <1>3

\* stat says that of the beginnings of every path.
LEMMA StatsAlong ==
    ASSUME NEW N, NEW fs, Tree(N, fs), NEW path \in Seq(N)
    PROVE  StatsInOrder(StatsOf(fs, path), Len(path))
<1>1. PICK n \in Nat : n = Len(path)
  BY LenProperties
<1>2. PICK st : st = StatsOf(fs, path)
  OBVIOUS
<1> DEFINE g == [i \in 0..n |-> Follow(fs, SubSeq(path, 1, i))]
<1>3. \A i \in 0..n : st[i] = Stat(fs, SubSeq(path, 1, i)) /\ g[i] = Follow(fs, SubSeq(path, 1, i))
  BY <1>1, <1>2 DEF StatsOf
<1> HIDE DEF g
<1>4. \A i \in 0..n : Tells(fs, N, g[i], st[i])
  <2>1. ASSUME NEW i \in 0..n PROVE Tells(fs, N, g[i], st[i])
    <3>1. SubSeq(path, 1, i) \in Seq(N)
      BY <1>1, Beginnings, Zenon
    <3> QED BY <1>3, <3>1, StatTells
  <2> QED BY <2>1
<1>5. \A i \in 1..n : Further(fs, g[i - 1], path[i], g[i])
  <2>1. ASSUME NEW i \in 1..n PROVE Further(fs, g[i - 1], path[i], g[i])
    <3>1. i - 1 \in 0..n /\ i \in 0..n
      BY <1>1
    <3>2. PICK f \in Seq(N), x \in N : f = SubSeq(path, 1, i - 1) /\ x = path[i] /\ SubSeq(path, 1, i) = Append(f, x)
      <4>1. SubSeq(path, 1, i - 1) \in Seq(N) /\ path[i] \in N /\ SubSeq(path, 1, i) = Append(SubSeq(path, 1, i - 1), path[i])
        BY <1>1, <3>1, Beginnings, Zenon
      <4> QED BY <4>1, Zenon
    <3>3. Further(fs, Follow(fs, f), x, Follow(fs, Append(f, x)))
      BY OneNameMore
    <3> QED BY <1>3, <3>1, <3>2, <3>3
  <2> QED BY <2>1
<1>6. \A i \in 0..n : \A j \in i..n : ~Free(g[i]) => g[j].fault = g[i].fault
  <2>1. ASSUME NEW i \in 0..n, NEW j \in i..n, ~Free(g[i]) PROVE g[j].fault = g[i].fault
    <3>1. j \in 0..n
      BY <1>1
    <3> QED BY <1>1, <1>3, <2>1, <3>1, StuckAt
  <2> QED BY <2>1
<1>7. \A i \in 0..n : st[i] \in AllStats
  <2>1. ASSUME NEW i \in 0..n PROVE st[i] \in AllStats
    <3>1. Tells(fs, N, g[i], st[i])
      BY <1>4
    <3> QED BY <3>1 DEF Tells, AllStats, Faults, PresentKinds
  <2> QED BY <2>1
<1>8. st[0] = "dir"
  <2>1. 0 \in 0..n
    BY <1>1
  <2>2. st[0] = Stat(fs, <<>>)
    BY <1>1, <1>3, <2>1, Beginnings, ZenonT(30)
  <2>3. <<>> \in Seq(N) /\ Ends(fs, <<>>) /\ Free(End(fs, <<>>)) /\ End(fs, <<>>).dir = <<>>
    BY RootIs
  <2>4. Free(Follow(fs, <<>>)) /\ Follow(fs, <<>>).at = <<>>
    BY <2>3, Followed DEF Ends
  <2>5. KindAt(fs, <<>>) = "dir"
    BY DEF KindAt
  <2>6. Tells(fs, N, Follow(fs, <<>>), Stat(fs, <<>>))
    BY <2>3, StatTells
  <2>7. "dir" # "none"
    OBVIOUS
  <2> QED BY <2>2, <2>4, <2>5, <2>6, <2>7, Zenon DEF Tells
<1>9. \A i \in 0..n : \A j \in i..n : st[i] \in {"notdir", "loop"} => st[j] = st[i]
  <2>1. ASSUME NEW i \in 0..n, NEW j \in i..n, st[i] \in {"notdir", "loop"} PROVE st[j] = st[i]
    <3>1. j \in 0..n
      BY <1>1
    <3>2. ~Free(g[i])
      <4>1. Tells(fs, N, g[i], st[i])
        BY <1>4
      <4> QED BY <2>1, <4>1 DEF Tells, PresentKinds
    <3>3. g[j].fault = g[i].fault
      BY <1>6, <3>2
    <3>4. ~Free(g[j])
      BY <3>2, <3>3, Zenon DEF Free
    <3> QED BY <1>4, <3>1, <3>2, <3>3, <3>4, Zenon DEF Tells
  <2> QED BY <2>1
<1>10. ASSUME NEW i \in 0..n, NEW j \in i + 1..n, NEW o \in {"absent", "notdir"}, Free(g[i]), ~Folder(fs, g[i].at),
              Obstacle(fs, g[i].at) = o
       PROVE  st[j] \in {o, "loop"}
  <2>1. i + 1 \in 1..n /\ i + 1 - 1 = i /\ j \in 0..n /\ i + 1 \in 0..n /\ j \in (i + 1)..n
    BY <1>1
  <2>2. PICK h : h = g[i + 1]
    OBVIOUS
  <2>3. h.fault \in {o, "loop"}
    <3>1. Further(fs, g[i], path[i + 1], h)
      BY <1>5, <2>1, <2>2
    <3> QED BY <1>10, <3>1, Zenon DEF Further
  <2>4. ~Free(h)
    <3>1. "absent" # "" /\ "notdir" # "" /\ "loop" # ""
      BY Zenon
    <3> QED BY <2>3, <3>1, Zenon DEF Free
  <2>5. g[j].fault = h.fault
    BY <1>6, <2>1, <2>2, <2>4
  <2>6. ~Free(g[j])
    BY <2>4, <2>5, Zenon DEF Free
  <2> QED BY <1>4, <2>1, <2>3, <2>5, <2>6, Zenon DEF Tells
<1>11. \A i \in 0..n : \A j \in i + 1..n : st[i] \in {"file", "special"} => st[j] \in {"notdir", "loop"}
  <2>1. ASSUME NEW i \in 0..n, NEW j \in i + 1..n, st[i] \in {"file", "special"} PROVE st[j] \in {"notdir", "loop"}
    <3>1. Tells(fs, N, g[i], st[i])
      BY <1>4
    <3>2. Free(g[i])
      BY <2>1, <3>1 DEF Tells, Faults
    <3>3. KindAt(fs, g[i].at) \in {"file", "special"}
      BY <2>1, <3>1, <3>2 DEF Tells
    <3>4. Obstacle(fs, g[i].at) = "notdir" /\ ~Folder(fs, g[i].at)
      BY <3>3, ObstacleKinds DEF Folder
    <3> QED BY <1>10, <3>2, <3>4
  <2> QED BY <2>1
<1>12. \A i \in 0..n : \A j \in i..n : st[i] = "absent" => st[j] \in {"absent", "loop"}
  <2>1. ASSUME NEW i \in 0..n, NEW j \in i..n, st[i] = "absent" PROVE st[j] \in {"absent", "loop"}
    <3>1. Tells(fs, N, g[i], st[i])
      BY <1>4
    <3>2. j \in 0..n /\ (j = i \/ j \in i + 1..n)
      BY <1>1
    <3>3. CASE ~Free(g[i])
      <4>1. g[j].fault = g[i].fault /\ st[i] = g[i].fault
        BY <1>6, <3>1, <3>3, Zenon DEF Tells
      <4>2. ~Free(g[j])
        BY <3>3, <4>1, Zenon DEF Free
      <4>3. st[j] = st[i]
        BY <1>4, <3>2, <4>1, <4>2, Zenon DEF Tells
      <4> QED BY <2>1, <4>3
    <3>4. CASE Free(g[i])
      <4>1. KindAt(fs, g[i].at) = "none"
        BY <2>1, <3>1, <3>4 DEF Tells, PresentKinds
      <4>2. Obstacle(fs, g[i].at) = "absent" /\ ~Folder(fs, g[i].at)
        BY <4>1, ObstacleKinds DEF Folder
      <4> QED BY <1>10, <2>1, <3>2, <3>4, <4>2
    <3> QED BY <3>3, <3>4
  <2> QED BY <2>1
<1> QED BY <1>1, <1>2, <1>7, <1>8, <1>9, <1>11, <1>12, Zenon DEF StatsInOrder

\* The nearest beginning of a path that is there, from which the SFTP backend
\* tells whether a directory or something else was in the way.
NearestThere(fs, path, st, n, m) ==
    /\ st[m] \notin {"absent", "notdir"}
    /\ \A k \in m + 1..n : st[k] \in {"absent", "notdir"}
    /\ CheckNotDirectory(fs, path) = IF st[m] = "dir" THEN "" ELSE "StorageError"

\* Every path has such a beginning: the root is there.
LEMMA NearestIs ==
    ASSUME NEW N, NEW fs, Tree(N, fs), NEW path \in Seq(N), NEW st, st = StatsOf(fs, path),
           NEW n, n = Len(path)
    PROVE  \E m \in 0..n : NearestThere(fs, path, st, n, m)
<1> DEFINE there == {k \in 0..n : ~NotFound(Stat(fs, SubSeq(path, 1, k)))}
           Last1(k) == \A l \in there : l <= k
           m == CHOOSE k \in there : Last1(k)
<1>1. n \in Nat /\ StatsInOrder(st, n)
  BY LenProperties, StatsAlong
<1>2. \A k \in 0..n : k \in there <=> st[k] \notin {"absent", "notdir"}
  BY DEF StatsOf, NotFound
<1>3. 0 \in there
  <2> HIDE DEF there
  <2> QED BY <1>1, <1>2 DEF StatsInOrder
<1>4. \E k \in there : Last1(k)
  <2> DEFINE mu == [k \in 0..n |-> n - k]
  <2>1. mu \in [0..n -> Nat] /\ there \in SUBSET (0..n) /\ there # {}
    BY <1>1, <1>3
  <2>2. PICK k \in there : \A l \in there : mu[k] <= mu[l]
    <3> HIDE DEF mu, there
    <3> QED BY <2>1, LeastBy
  <2>3. ASSUME NEW l \in there PROVE l <= k
    <3>1. k \in 0..n /\ l \in 0..n /\ mu[k] <= mu[l]
      BY <2>2
    <3> QED BY <1>1, <3>1
  <2> HIDE DEF there
  <2> QED BY <2>3
<1>5. m \in there /\ Last1(m)
  <2> HIDE DEF there, Last1
  <2> QED BY <1>4, Zenon
<1>6. CheckNotDirectory(fs, path) = IF Stat(fs, SubSeq(path, 1, m)) = "dir" THEN "" ELSE "StorageError"
  BY Zenon DEF CheckNotDirectory
<1> HIDE DEF m
<1>7. m \in 0..n /\ st[m] \notin {"absent", "notdir"}
  BY <1>2, <1>5
<1>8. ASSUME NEW k \in m + 1..n PROVE st[k] \in {"absent", "notdir"}
  <2>1. k \in 0..n /\ ~(k <= m)
    BY <1>1, <1>7
  <2>2. k \notin there
    <3> HIDE DEF there
    <3> QED BY <1>5, <2>1
  <2> HIDE DEF there
  <2> QED BY <1>2, <2>1, <2>2
<1>9. st[m] = Stat(fs, SubSeq(path, 1, m))
  BY <1>7 DEF StatsOf
<1>10. CheckNotDirectory(fs, path) = IF st[m] = "dir" THEN "" ELSE "StorageError"
  BY <1>6, <1>9, Zenon
<1> QED BY <1>7, <1>8, <1>10, Zenon DEF NearestThere

\* In a tree of files and directories there is nothing but a file that makes a path fail so.
LEMMA PlainStep ==
    ASSUME NEW N, NEW fs, Tree(N, fs), Plainly(fs), NEW f \in Seq(N), NEW x \in N, Stat(fs, f) = "dir"
    PROVE  Stat(fs, Append(f, x)) # "notdir"
<1>1. PICK p \in Seq(N) : p = Append(f, x)
  BY AppendProperties
<1>2. PICK g : g = Follow(fs, f)
  OBVIOUS
<1>3. PICK h : h = Follow(fs, p)
  OBVIOUS
<1>4. Tells(fs, N, g, "dir") /\ Tells(fs, N, h, Stat(fs, p))
  BY <1>1, <1>2, <1>3, StatTells
<1>5. Further(fs, g, x, h)
  BY <1>1, <1>2, <1>3, OneNameMore
<1>6. Free(g) /\ Folder(fs, g.at)
  BY <1>4 DEF Tells, Faults, Folder
<1>7. ~Link(fs, Append(g.at, x))
  BY DEF Plainly, Link, KindAt
<1>8. h.fault = "loop" \/ Free(h)
  BY <1>5, <1>6, <1>7, Zenon DEF Further
<1>9. CASE Free(h)
  BY <1>1, <1>4, <1>9 DEF Tells, PresentKinds
<1>10. CASE ~Free(h)
  BY <1>1, <1>4, <1>8, <1>10 DEF Tells
<1> QED BY <1>9, <1>10

\* lstat of a name below what is no directory.
LEMMA NoLinkBelow ==
    ASSUME NEW N, NEW fs, Tree(N, fs), NEW f \in Seq(N), NEW x \in N,
           Stat(fs, f) \in {"file", "special", "notdir", "loop"}, Stat(fs, Append(f, x)) = "notdir"
    PROVE  LStat(fs, Append(f, x)) # "link"
<1>1. PICK p \in Seq(N) : p = Append(f, x) /\ Last(p) = x /\ p # <<>>
  BY TakenApart
<1>2. PICK g : g = Follow(fs, f)
  OBVIOUS
<1>3. Tells(fs, N, g, Stat(fs, f))
  BY <1>2, StatTells
<1>4. CASE Dots(x)
  <2>1. LStat(fs, p) = Stat(fs, p)
    BY <1>1, <1>4, Zenon DEF LStat, Dots
  <2> QED BY <1>1, <2>1
<1>5. CASE ~Dots(x)
  <2>1. PICK t : t = LStat(fs, p)
    OBVIOUS
  <2>2. Shows(fs, g, x, t)
    BY <1>1, <1>2, <1>5, <2>1, LStatShows
  <2>3. CASE ~Free(g)
    BY <1>1, <1>3, <2>1, <2>2, <2>3 DEF Shows, Tells, Faults
  <2>4. CASE Free(g)
    <3>1. KindAt(fs, g.at) \in {"file", "special"}
      BY <1>3, <2>4 DEF Tells, PresentKinds
    <3> QED BY <1>1, <2>1, <2>2, <2>4, <3>1 DEF Shows
  <2> QED BY <2>3, <2>4
<1> QED BY <1>4, <1>5

\* What becomes of a path that cannot be listed: the SFTP backend's look upward
\* finds a file in the way if there is one.
Diagnosis(fs, path) ==
    LET stat == Stat(fs, path)
        clear == CheckNotDirectory(fs, path) = "" IN
    /\ ~clear => CheckNotDirectory(fs, path) = "StorageError"
    /\ stat = "absent" => clear
    /\ stat = "notdir" /\ BelowFile(fs, path) => ~clear /\ LStat(fs, path) # "link"
    /\ stat = "notdir" /\ ~BelowFile(fs, path) => clear
    /\ stat = "notdir" /\ Plainly(fs) => BelowFile(fs, path)
    /\ stat \in {"file", "special"} => ~clear

\* That is what _check_not_directory finds of every path.
LEMMA Diagnosed ==
    ASSUME NEW N, NEW fs, Tree(N, fs), NEW path \in Seq(N)
    PROVE  Diagnosis(fs, path)
<1>1. PICK n \in Nat : n = Len(path)
  BY LenProperties
<1>2. PICK st : st = StatsOf(fs, path)
  OBVIOUS
<1>3. StatsInOrder(st, n)
  BY <1>1, <1>2, StatsAlong
<1>4. PICK m \in 0..n : NearestThere(fs, path, st, n, m)
  BY <1>1, <1>2, NearestIs
<1>5. PICK clear : clear = (CheckNotDirectory(fs, path) = "")
  OBVIOUS
<1>6. (clear <=> st[m] = "dir") /\ (~clear => CheckNotDirectory(fs, path) = "StorageError")
  <2>1. "StorageError" # ""
    BY Zenon
  <2>2. CheckNotDirectory(fs, path) = IF st[m] = "dir" THEN "" ELSE "StorageError"
    BY <1>4, Zenon DEF NearestThere
  <2>3. CASE st[m] = "dir"
    BY <1>5, <2>1, <2>2, <2>3, Zenon
  <2>4. CASE st[m] # "dir"
    BY <1>5, <2>1, <2>2, <2>4, Zenon
  <2> QED BY <2>3, <2>4, Zenon
<1>7. st[m] \in {"file", "dir", "special", "loop"} /\ \A k \in m + 1..n : st[k] \in {"absent", "notdir"}
  <2>1. st[m] \in AllStats
    BY <1>3, Zenon DEF StatsInOrder
  <2> QED BY <1>4, <2>1 DEF NearestThere, AllStats
<1>8. st[n] = Stat(fs, path)
  <2>1. n \in 0..n
    OBVIOUS
  <2>2. st[n] = Stat(fs, SubSeq(path, 1, n))
    BY <1>1, <1>2, <2>1 DEF StatsOf
  <2> QED BY <1>1, <2>2, Beginnings
<1>9. BelowFile(fs, path) <=> \E k \in 1..n - 1 : st[k] \in {"file", "special"}
  <2>1. \A k \in 1..n - 1 : st[k] = Stat(fs, SubSeq(path, 1, k))
    BY <1>1, <1>2 DEF StatsOf
  <2>2. BelowFile(fs, path) <=> \E k \in 1..n - 1 : Stat(fs, SubSeq(path, 1, k)) \in {"file", "special"}
    BY <1>1, Zenon DEF BelowFile
  <2> QED BY <2>1, <2>2
<1>10. m # n => m \in 0..n - 1 /\ m + 1 \in m + 1..n /\ n \in m + 1..n /\ n \in m..n
  OBVIOUS
<1>11. st[m] = "loop" => m = n
  <2>1. m # n /\ st[m] = "loop" => st[n] = "loop"
    BY <1>3, <1>10 DEF StatsInOrder
  <2>2. m # n => st[n] \in {"absent", "notdir"}
    BY <1>7, <1>10
  <2> QED BY <2>1, <2>2
<1>12. st[n] = "absent" => clear
  <2>1. st[n] = "absent" /\ st[m] # "dir" => m # n /\ st[m] \in {"file", "special"}
    BY <1>7, <1>11
  <2>2. m # n /\ st[m] \in {"file", "special"} => st[n] \in {"notdir", "loop"}
    BY <1>3, <1>10, Zenon DEF StatsInOrder
  <2> QED BY <1>6, <2>1, <2>2
<1>13. st[n] = "notdir" => m # n /\ m \in 0..n - 1
  BY <1>7, <1>10
<1>14. ASSUME st[n] = "notdir", NEW k \in 1..n - 1, st[k] \in {"file", "special"} PROVE k = m
  <2>1. ~(k \in m + 1..n)
    BY <1>7, <1>14
  <2>2. k <= m /\ k \in 0..n
    BY <2>1
  <2>3. ASSUME k < m PROVE FALSE
    <3>1. m \in k + 1..n
      BY <2>2, <2>3
    <3>2. st[m] \in {"notdir", "loop"}
      BY <1>3, <1>14, <2>2, <3>1, Zenon DEF StatsInOrder
    <3> QED BY <1>7, <1>11, <1>13, <1>14, <3>2
  <2> QED BY <2>2, <2>3
<1>15. ASSUME st[n] = "notdir", BelowFile(fs, path) PROVE ~clear /\ LStat(fs, path) # "link"
  <2>1. PICK k \in 1..n - 1 : st[k] \in {"file", "special"}
    BY <1>9, <1>15
  <2>2. st[m] # "dir"
    BY <1>14, <1>15, <2>1
  <2>3. PICK f \in Seq(N), x \in N : f = SubSeq(path, 1, n - 1) /\ path = Append(f, x)
    <3>1. n - 1 \in 0..n /\ n \in 1..n
      BY <2>1
    <3>2. SubSeq(path, 1, n - 1) \in Seq(N) /\ path[n] \in N /\ SubSeq(path, 1, n) = path
          /\ SubSeq(path, 1, n) = Append(SubSeq(path, 1, n - 1), path[n])
      BY <1>1, <3>1, Beginnings, SMTT(30)
    <3> QED BY <3>2, Zenon
  <2>4. Stat(fs, f) \in {"file", "special", "notdir", "loop"}
    <3>1. n - 1 \in 0..n
      BY <2>1
    <3>2. st[n - 1] = Stat(fs, f)
      BY <1>1, <1>2, <2>3, <3>1 DEF StatsOf
    <3>3. k # n - 1 => st[n - 1] \in {"notdir", "loop"}
      <4>1. k # n - 1 => n - 1 \in k + 1..n /\ k \in 0..n
        BY <2>1
      <4> QED BY <1>3, <2>1, <4>1, Zenon DEF StatsInOrder
    <3> QED BY <2>1, <3>2, <3>3
  <2>5. LStat(fs, path) # "link"
    BY <1>8, <1>15, <2>3, <2>4, NoLinkBelow
  <2> QED BY <1>6, <2>2, <2>5
<1>16. ASSUME st[n] = "notdir", ~BelowFile(fs, path) PROVE clear
  <2>1. m \in 1..n - 1 => st[m] \notin {"file", "special"}
    BY <1>9, <1>16
  <2>2. m = 0 => st[m] = "dir"
    BY <1>3 DEF StatsInOrder
  <2>3. m = 0 \/ m \in 1..n - 1
    BY <1>13, <1>16
  <2> QED BY <1>6, <1>7, <1>11, <1>13, <1>16, <2>1, <2>2, <2>3
<1>17. ASSUME st[n] = "notdir", Plainly(fs) PROVE BelowFile(fs, path)
  <2> SUFFICES ASSUME ~BelowFile(fs, path) PROVE FALSE
    OBVIOUS
  <2>1. st[m] = "dir"
    BY <1>6, <1>16, <1>17
  <2>2. m \in 0..n - 1 /\ m + 1 \in 1..n /\ m + 1 \in 0..n /\ m + 1 \in m + 1..n /\ n \in m + 1..n /\ m + 1 - 1 = m
        /\ n \in (m + 1)..n
    BY <1>13, <1>17
  <2>3. PICK f \in Seq(N), x \in N : f = SubSeq(path, 1, m) /\ SubSeq(path, 1, m + 1) = Append(f, x)
    <3>1. PICK l \in 1..n : l = m + 1 /\ l - 1 = m
      BY <2>2
    <3>2. l - 1 \in 0..n
      BY <2>2, <3>1
    <3>3. SubSeq(path, 1, l - 1) \in Seq(N) /\ path[l] \in N
          /\ SubSeq(path, 1, l) = Append(SubSeq(path, 1, l - 1), path[l])
      BY <1>1, <3>2, Beginnings, Zenon
    <3> QED BY <3>1, <3>3, Zenon
  <2>4. Stat(fs, f) = "dir" /\ st[m + 1] = Stat(fs, Append(f, x))
    BY <1>1, <1>2, <2>1, <2>2, <2>3 DEF StatsOf
  <2>5. st[m + 1] # "notdir"
    BY <1>17, <2>4, PlainStep
  <2>6. st[m + 1] = "absent"
    BY <1>7, <2>2, <2>5
  <2>7. st[n] \in {"absent", "loop"}
    BY <1>3, <2>2, <2>6, Zenon DEF StatsInOrder
  <2> QED BY <1>17, <2>7
<1>18. st[n] \in {"file", "special"} => ~clear
  <2>1. st[n] \in {"file", "special"} => m = n
    BY <1>7, <1>10
  <2> QED BY <1>6, <2>1
<1> HIDE <1>5
<1>19. /\ ~clear => CheckNotDirectory(fs, path) = "StorageError"
       /\ st[n] = "absent" => clear
       /\ st[n] = "notdir" /\ BelowFile(fs, path) => ~clear /\ LStat(fs, path) # "link"
       /\ st[n] = "notdir" /\ ~BelowFile(fs, path) => clear
       /\ st[n] = "notdir" /\ Plainly(fs) => BelowFile(fs, path)
       /\ st[n] \in {"file", "special"} => ~clear
  BY <1>6, <1>12, <1>15, <1>16, <1>17, <1>18
<1> QED BY <1>5, <1>8, <1>19, Zenon DEF Diagnosis

-----------------------------------------------------------------------------
(* What is below a path *)

\* A path is below another if it goes on from there.
LEMMA GoesOn ==
    ASSUME NEW N, NEW a \in Seq(N), NEW s \in Seq(N)
    PROVE  /\ a \o s \in Seq(N) /\ Len(a \o s) = Len(a) + Len(s)
           /\ IsPrefix(a, a \o s) /\ SubSeq(a \o s, Len(a) + 1, Len(a \o s)) = s
           /\ a \o s = a <=> s = <<>>
<1>1. PICK n \in Nat : n = Len(a)
  BY LenProperties
<1>2. PICK k \in Nat : k = Len(s)
  BY LenProperties
<1>3. PICK p \in Seq(N) : p = a \o s
  BY ConcatProperties
<1>4. Len(p) = n + k /\ \A i \in 1..n + k : p[i] = IF i <= n THEN a[i] ELSE s[i - n]
  BY <1>1, <1>2, <1>3, ConcatProperties
<1>5. IsPrefix(a, p)
  <2>1. \A i \in 1..n : a[i] = p[i]
    <3>1. \A i \in 1..n : i \in 1..n + k /\ i <= n
      OBVIOUS
    <3> QED BY <1>4, <3>1
  <2>2. n <= Len(p)
    BY <1>4
  <2>3. SubSeq(a, 1, n) = SubSeq(p, 1, n)
    BY <1>1, <2>1, <2>2, SamePrefix
  <2> QED BY <1>1, <2>2, <2>3 DEF IsPrefix
<1>6. SubSeq(p, n + 1, n + k) = s
  <2>1. PICK t : t = SubSeq(p, n + 1, n + k)
    OBVIOUS
  <2>2. \A i \in n + 1..n + k : p[i] \in N
    <3>1. \A i \in n + 1..n + k : i \in 1..Len(p)
      BY <1>4
    <3> QED BY <3>1, ElementOfSeq
  <2>3. n + 1 \in Int /\ n + k \in Int /\ (IF n + 1 <= n + k THEN n + k - (n + 1) + 1 ELSE 0) = k
        /\ n + k - (n + 1) + 1 = k
    OBVIOUS
  <2>4. t \in Seq(N) /\ Len(t) = k /\ \A i \in 1..k : t[i] = p[n + 1 + i - 1]
    BY <2>1, <2>2, <2>3, SubSeqProperties
  <2>5. \A i \in 1..k : t[i] = s[i]
    <3>1. ASSUME NEW i \in 1..k PROVE t[i] = s[i]
      <4>1. PICK j \in 1..n + k : j = n + 1 + i - 1 /\ ~(j <= n) /\ j - n = i
        OBVIOUS
      <4>2. t[i] = p[j] /\ p[j] = s[i]
        BY <1>4, <2>4, <4>1
      <4> QED BY <4>2
    <3> QED BY <3>1
  <2>6. t = s
    BY <1>2, <2>4, <2>5, SeqEqual
  <2> QED BY <2>1, <2>6
<1>7. a \o s = a <=> s = <<>>
  <2>1. Len(s) = 0 => s = <<>>
    BY EmptySeq, Zenon
  <2>2. p = a => k = 0
    BY <1>1, <1>4
  <2>3. s = <<>> => a \o s = a
    BY ConcatEmptySeq
  <2> QED BY <1>2, <1>3, <2>1, <2>2, <2>3
<1> QED BY <1>1, <1>2, <1>3, <1>4, <1>5, <1>6, <1>7, Zenon

\* What is behind a prefix, and that the two make the path.
LEMMA PrefixOfPath ==
    ASSUME NEW N, NEW a \in Seq(N), NEW p \in Seq(N), IsPrefix(a, p)
    PROVE  SubSeq(p, Len(a) + 1, Len(p)) \in Seq(N) /\ p = a \o SubSeq(p, Len(a) + 1, Len(p))
<1>1. PICK n \in Nat : n = Len(a)
  BY LenProperties
<1>2. PICK k \in Nat : k = Len(p)
  BY LenProperties
<1>3. n <= k /\ SubSeq(a, 1, n) = SubSeq(p, 1, n)
  BY <1>1, <1>2 DEF IsPrefix
<1>4. SubSeq(p, 1, n) \o SubSeq(p, n + 1, k) = SubSeq(p, 1, k)
  <2>1. 1 \in 1..k + 1 /\ n \in 1 - 1..k /\ k \in n..k
    BY <1>3
  <2> QED BY <1>2, <2>1, ConcatAdjacentSubSeq
<1>5. SubSeq(p, n + 1, k) \in Seq(N)
  <2>1. \A i \in n + 1..k : p[i] \in N
    <3>1. \A i \in n + 1..k : i \in 1..k
      OBVIOUS
    <3> QED BY <1>2, <3>1, ElementOfSeq
  <2>2. n + 1 \in Int /\ k \in Int
    OBVIOUS
  <2> QED BY <2>1, <2>2, SubSeqProperties
<1>6. SubSeq(a, 1, n) = a /\ SubSeq(p, 1, k) = p
  BY <1>1, <1>2, SubSeqFull
<1> QED BY <1>1, <1>2, <1>3, <1>4, <1>5, <1>6, Zenon

\* The names below a root are those of what exists below where it is.
LEMMA BelowIs ==
    ASSUME NEW N, NEW fs, Tree(N, fs), NEW root, NEW at \in Seq(N), at = Follow(fs, root).at
    PROVE  \A s : s \in Below(fs, root) <=> s \in Seq(N) /\ s # <<>> /\ at \o s \in DOMAIN fs
<1>1. Below(fs, root) = {SubSeq(p, Len(at) + 1, Len(p)) : p \in {q \in DOMAIN fs : IsPrefix(at, q) /\ at # q}}
  BY Zenon DEF Below, IsStrictPrefix
<1>2. ASSUME NEW s \in Below(fs, root) PROVE s \in Seq(N) /\ s # <<>> /\ at \o s \in DOMAIN fs
  <2>1. PICK p \in DOMAIN fs : IsPrefix(at, p) /\ at # p /\ s = SubSeq(p, Len(at) + 1, Len(p))
    BY <1>1, <1>2, Zenon
  <2>2. p \in Seq(N)
    BY DEF Tree
  <2>3. s \in Seq(N) /\ p = at \o s
    <3>1. SubSeq(p, Len(at) + 1, Len(p)) \in Seq(N) /\ p = at \o SubSeq(p, Len(at) + 1, Len(p))
      BY <2>1, <2>2, PrefixOfPath
    <3> QED BY <2>1, <3>1, Zenon
  <2> QED BY <2>1, <2>3, GoesOn
<1>3. ASSUME NEW s \in Seq(N), s # <<>>, at \o s \in DOMAIN fs PROVE s \in Below(fs, root)
  <2>1. PICK p \in DOMAIN fs : p = at \o s
    BY <1>3
  <2>2. IsPrefix(at, p) /\ at # p /\ SubSeq(p, Len(at) + 1, Len(p)) = s
    <3>1. IsPrefix(at, at \o s) /\ SubSeq(at \o s, Len(at) + 1, Len(at \o s)) = s
      BY GoesOn, ZenonT(30)
    <3>2. at \o s # at
      BY <1>3, GoesOn
    <3> QED BY <2>1, <3>1, <3>2
  <2> QED BY <1>1, <2>2, Zenon
<1> QED BY <1>2, <1>3

-----------------------------------------------------------------------------
(* What the kernel makes of what is below a directory *)

\* No name is a dot, and the root has none.
Named(fs) == \A p \in DOMAIN fs : p # <<>> /\ \A i \in 1..Len(p) : ~Dots(p[i])

\* What is no link is reached before Steps are over.
Reachable(fs, root) ==
    \A c \in Children(fs, root, FALSE) : Stat(fs, c) = "loop" => LStat(fs, c) = "link"

\* A directory that is listed, and where it is.
Listable(N, fs, root, at) ==
    /\ Tree(N, fs) /\ Named(fs) /\ IsFiniteSet(DOMAIN fs)
    /\ root \in Seq(N) /\ Stat(fs, root) = "dir" /\ Reachable(fs, root)
    /\ at = Follow(fs, root).at

\* Where the root is.
LEMMA RootAt ==
    ASSUME NEW N, NEW fs, NEW root, NEW at, Listable(N, fs, root, at)
    PROVE  at \in Seq(N) /\ Free(Follow(fs, root)) /\ Folder(fs, at)
<1>1. Tells(fs, N, Follow(fs, root), "dir")
  BY StatTells DEF Listable
<1> QED BY <1>1 DEF Tells, Listable, Folder, Faults

\* The paths below the root, from where it is.
ChildPaths(N, fs, root, at) ==
    \A c : c \in Children(fs, root, FALSE) <=>
             \E s \in Seq(N) : s # <<>> /\ at \o s \in DOMAIN fs /\ c = root \o s

\* The children of a root are the paths of what is below the place it leads to.
LEMMA ChildrenAre ==
    ASSUME NEW N, NEW fs, NEW root, NEW at, Listable(N, fs, root, at)
    PROVE  ChildPaths(N, fs, root, at)
<1>1. at \in Seq(N) /\ Tree(N, fs) /\ at = Follow(fs, root).at
  BY RootAt, Zenon DEF Listable
<1>2. \A s : s \in Below(fs, root) <=> s \in Seq(N) /\ s # <<>> /\ at \o s \in DOMAIN fs
  BY <1>1, BelowIs
<1>3. Children(fs, root, FALSE) = {root \o s : s \in Below(fs, root)}
  BY DEF Children
<1> QED BY <1>2, <1>3, Zenon DEF ChildPaths

\* The name of what exists is no dot.
LEMMA NoDots ==
    ASSUME NEW N, NEW fs, Tree(N, fs), Named(fs), NEW d \in Seq(N), NEW x \in N, Append(d, x) \in DOMAIN fs
    PROVE  ~Dots(x) /\ KindAt(fs, Append(d, x)) = fs[Append(d, x)].kind /\ Folder(fs, d)
<1>1. PICK p \in DOMAIN fs : p = Append(d, x)
  OBVIOUS
<1>2. Len(p) \in 1..Len(p) /\ p[Len(p)] = x
  <2>1. Len(d) \in Nat /\ Len(p) = Len(d) + 1 /\ p[Len(d) + 1] = x
    BY <1>1, AppendProperties, LenProperties
  <2> QED BY <2>1
<1>3. ~Dots(p[Len(p)]) /\ p # <<>>
  BY <1>2 DEF Named
<1>4. Front(p) = d
  BY <1>1, TakenApart
<1>5. KindAt(fs, d) = "dir"
  BY <1>3, <1>4 DEF Tree, Parent
<1> QED BY <1>1, <1>2, <1>3, <1>5 DEF KindAt, Folder

\* A place below the root that is a directory, or the root.
Place(fs, at, s) == Folder(fs, at \o s) /\ (s # <<>> => at \o s \in DOMAIN fs)
\* The kernel finds the directory of that place.
LeadsThere(fs, root, at, s) == Free(Follow(fs, root \o s)) /\ Follow(fs, root \o s).at = at \o s

\* What the kernel makes of a path c that what is at p has.
Seen(N, fs, root, c, p) ==
    /\ c \in Children(fs, root, FALSE) /\ c \in Seq(N)
    /\ LStat(fs, c) = fs[p].kind
    /\ ~Link(fs, p) => Free(Follow(fs, c)) /\ Follow(fs, c).at = p /\ Stat(fs, c) = fs[p].kind

\* A name in such a directory.
LEMMA ChildIs ==
    ASSUME NEW N, NEW fs, NEW root, NEW at, Listable(N, fs, root, at),
           NEW s \in Seq(N), Place(fs, at, s), LeadsThere(fs, root, at, s),
           NEW x \in N, Append(at \o s, x) \in DOMAIN fs
    PROVE  Seen(N, fs, root, Append(root \o s, x), Append(at \o s, x))
<1>1. at \in Seq(N) /\ root \in Seq(N) /\ Tree(N, fs) /\ Named(fs) /\ Reachable(fs, root)
  BY RootAt DEF Listable
<1>2. PICK d \in Seq(N) : d = at \o s
  BY <1>1, GoesOn
<1>3. PICK f \in Seq(N) : f = root \o s
  BY <1>1, GoesOn
<1>4. PICK p \in DOMAIN fs : p = Append(d, x)
  BY <1>2
<1>5. PICK c \in Seq(N) : c = Append(f, x)
  BY AppendProperties
<1>6. ~Dots(x) /\ KindAt(fs, p) = fs[p].kind /\ Folder(fs, d)
  BY <1>1, <1>4, NoDots
<1>7. c \in Children(fs, root, FALSE)
  <2>1. PICK t \in Seq(N) : t = Append(s, x) /\ t # <<>>
    BY AppendProperties
  <2>2. root \o t = c /\ at \o t = p
    <3>1. root \o Append(s, x) = Append(root \o s, x) /\ at \o Append(s, x) = Append(at \o s, x)
      BY <1>1, AppendToConcat, SMTT(30)
    <3> QED BY <1>2, <1>3, <1>4, <1>5, <2>1, <3>1
  <2>3. ChildPaths(N, fs, root, at)
    BY ChildrenAre
  <2> QED BY <2>1, <2>2, <2>3 DEF ChildPaths
<1>8. PICK g : g = Follow(fs, f) /\ Free(g) /\ g.at = d
  BY <1>2, <1>3 DEF LeadsThere
<1>9. PICK t : t = LStat(fs, c)
  OBVIOUS
<1>10. t = fs[p].kind
  <2>1. Shows(fs, g, x, t)
    BY <1>1, <1>5, <1>6, <1>8, <1>9, LStatShows
  <2>2. fs[p].kind \in {"file", "dir", "special", "link"}
    BY <1>1 DEF Tree
  <2> QED BY <1>4, <1>6, <1>8, <2>1, <2>2 DEF Shows
<1>11. ASSUME ~Link(fs, p) PROVE Free(Follow(fs, c)) /\ Follow(fs, c).at = p /\ Stat(fs, c) = fs[p].kind
  <2>1. PICK h : h = Follow(fs, c)
    OBVIOUS
  <2>2. Tells(fs, N, h, Stat(fs, c))
    BY <1>1, <2>1, StatTells
  <2>3. Stat(fs, c) # "loop"
    BY <1>1, <1>6, <1>7, <1>9, <1>10, <1>11 DEF Reachable, Link
  <2>4. Further(fs, g, x, h)
    BY <1>1, <1>5, <1>8, <2>1, OneNameMore
  <2>5. h.fault # "loop"
    <3>1. "loop" # ""
      BY Zenon
    <3> QED BY <2>2, <2>3, <3>1, Zenon DEF Tells, Free
  <2>6. Free(h) /\ h.at = p
    BY <1>4, <1>6, <1>8, <1>11, <2>4, <2>5, Zenon DEF Further
  <2>7. KindAt(fs, p) # "none"
    BY <1>1, <1>6 DEF Tree
  <2> QED BY <1>6, <2>1, <2>2, <2>6, <2>7, Zenon DEF Tells
<1> QED BY <1>2, <1>3, <1>4, <1>5, <1>7, <1>9, <1>10, <1>11, Zenon DEF Seen

\* The kernel finds every directory below the root that no link led out of.
LEMMA AllStraight ==
    ASSUME NEW N, NEW fs, NEW root, NEW at, Listable(N, fs, root, at), NEW s \in Seq(N), Place(fs, at, s)
    PROVE  LeadsThere(fs, root, at, s)
<1>1. at \in Seq(N) /\ root \in Seq(N) /\ Tree(N, fs) /\ Named(fs)
      /\ Free(Follow(fs, root)) /\ at = Follow(fs, root).at
  BY RootAt DEF Listable
<1> DEFINE D == {t \in Seq(N) : Place(fs, at, t)}
           T == {t \in D : ~LeadsThere(fs, root, at, t)}
           mu == [t \in D |-> Len(t)]
<1> SUFFICES ASSUME T # {} PROVE FALSE
  BY DEF D
<1>2. mu \in [D -> Nat] /\ T \in SUBSET D
  BY LenProperties
<1>3. PICK t \in T : \A u \in T : mu[t] <= mu[u]
  <2> HIDE DEF mu, D, T
  <2> QED BY <1>2, LeastBy
<1>4. t \in Seq(N) /\ Place(fs, at, t) /\ ~LeadsThere(fs, root, at, t)
  BY <1>3
<1>5. t # <<>>
  <2>1. root \o <<>> = root /\ at \o <<>> = at
    BY <1>1, ConcatEmptySeq
  <2> QED BY <1>1, <1>4, <2>1, Zenon DEF LeadsThere
<1>6. PICK u \in Seq(N), x \in N : t = Append(u, x) /\ Len(u) = Len(t) - 1
  BY <1>4, <1>5, FrontLast
<1>7. at \o t = Append(at \o u, x) /\ root \o t = Append(root \o u, x) /\ at \o u \in Seq(N)
  <2>1. at \o Append(u, x) = Append(at \o u, x) /\ root \o Append(u, x) = Append(root \o u, x)
    <3>1. at \in Seq(N) /\ root \in Seq(N) /\ u \in Seq(N) /\ x \in N
      BY <1>1
    <3> QED BY ONLY <3>1, AppendToConcat, SMTT(30)
  <2>2. at \o u \in Seq(N)
    BY <1>1, GoesOn
  <2> QED BY <1>6, <2>1, <2>2
<1>8. Append(at \o u, x) \in DOMAIN fs /\ Folder(fs, Append(at \o u, x))
  BY <1>4, <1>5, <1>7 DEF Place
<1>9. Folder(fs, at \o u)
  BY <1>1, <1>7, <1>8, NoDots
<1>10. u # <<>> => at \o u \in DOMAIN fs
  <2>1. u # <<>> => at \o u # <<>>
    BY <1>1, ConcatEqualIffEmpty
  <2> QED BY <1>1, <1>9, <2>1, KindsAre DEF Folder
<1>11. Place(fs, at, u)
  BY <1>9, <1>10 DEF Place
<1>12. u \notin T
  <2>1. u \in T => mu[t] <= mu[u] /\ mu[t] = Len(t) /\ mu[u] = Len(u)
    BY <1>3, <1>4, <1>11
  <2>2. Len(t) \in Nat /\ Len(u) = Len(t) - 1
    BY <1>4, <1>6, LenProperties
  <2> HIDE DEF T, mu, D
  <2> QED BY <2>1, <2>2
<1>13. LeadsThere(fs, root, at, u)
  BY <1>11, <1>12
<1>14. ~Link(fs, Append(at \o u, x))
  BY <1>8 DEF Folder, Link
<1>15. Free(Follow(fs, root \o t)) /\ Follow(fs, root \o t).at = at \o t
  <2>1. Seen(N, fs, root, Append(root \o u, x), Append(at \o u, x))
    BY <1>8, <1>11, <1>13, ChildIs
  <2> QED BY <1>7, <1>14, <2>1, Zenon DEF Seen
<1> QED BY <1>4, <1>15 DEF LeadsThere

\* The directories that a listing goes through.
Entered(fs, root) == {root} \cup {c \in Children(fs, root, FALSE) : LStat(fs, c) = "dir"}

Kids(fs, d) == {Append(d, n) : n \in NamesIn(fs, d)}

\* Every path below the root is a name in a place.
AChild(N, fs, root, at, c, u, x) ==
    /\ c = Append(root \o u, x) /\ Append(at \o u, x) \in DOMAIN fs /\ Place(fs, at, u)
    /\ Seen(N, fs, root, c, Append(at \o u, x))

\* Every child is in one.
LEMMA EachChild ==
    ASSUME NEW N, NEW fs, NEW root, NEW at, Listable(N, fs, root, at), NEW c \in Children(fs, root, FALSE)
    PROVE  \E u \in Seq(N), x \in N : AChild(N, fs, root, at, c, u, x)
<1>1. at \in Seq(N) /\ root \in Seq(N) /\ Tree(N, fs) /\ Named(fs)
  BY RootAt DEF Listable
<1>2. PICK s \in Seq(N) : s # <<>> /\ at \o s \in DOMAIN fs /\ c = root \o s
  <2>1. ChildPaths(N, fs, root, at)
    BY ChildrenAre
  <2> QED BY <2>1, Zenon DEF ChildPaths
<1>3. PICK u \in Seq(N), x \in N : s = Append(u, x)
  <2>1. s \in Seq(N) /\ s # <<>>
    BY <1>2
  <2>2. Front(s) \in Seq(N) /\ Last(s) \in N /\ s = Append(Front(s), Last(s))
    BY ONLY <2>1, FrontLast
  <2> QED BY <2>2, Zenon
<1>4. at \o s = Append(at \o u, x) /\ root \o s = Append(root \o u, x) /\ at \o u \in Seq(N)
  <2>1. at \in Seq(N) /\ root \in Seq(N) /\ u \in Seq(N) /\ x \in N
    BY <1>1
  <2>2. at \o Append(u, x) = Append(at \o u, x) /\ root \o Append(u, x) = Append(root \o u, x)
    BY ONLY <2>1, AppendToConcat, SMTT(30)
  <2>3. at \o u \in Seq(N)
    BY <2>1, GoesOn
  <2> QED BY <1>3, <2>2, <2>3
<1>5. Append(at \o u, x) \in DOMAIN fs
  BY <1>2, <1>4
<1>6. Folder(fs, at \o u)
  BY <1>1, <1>4, <1>5, NoDots
<1>7. u # <<>> => at \o u \in DOMAIN fs
  <2>1. u # <<>> => at \o u # <<>>
    BY <1>1, ConcatEqualIffEmpty
  <2> QED BY <1>1, <1>6, <2>1, KindsAre DEF Folder
<1>8. Place(fs, at, u)
  BY <1>6, <1>7 DEF Place
<1>9. LeadsThere(fs, root, at, u)
  BY <1>8, AllStraight
<1>10. Seen(N, fs, root, Append(root \o u, x), Append(at \o u, x))
  BY <1>5, <1>8, <1>9, ChildIs
<1> QED BY <1>2, <1>4, <1>5, <1>8, <1>10, Zenon DEF AChild

\* A directory that is entered is one of the places.
LEMMA EnteredIs ==
    ASSUME NEW N, NEW fs, NEW root, NEW at, Listable(N, fs, root, at), NEW d \in Entered(fs, root)
    PROVE  \E s \in Seq(N) : d = root \o s /\ Place(fs, at, s)
<1>1. at \in Seq(N) /\ root \in Seq(N) /\ Tree(N, fs) /\ Folder(fs, at)
  BY RootAt DEF Listable
<1>2. CASE d = root
  <2>1. <<>> \in Seq(N) /\ root \o <<>> = root /\ at \o <<>> = at
    BY <1>1, ConcatEmptySeq, EmptySeq
  <2>2. Place(fs, at, <<>>)
    BY <1>1, <2>1 DEF Place
  <2> QED BY <1>2, <2>1, <2>2, Zenon
<1>3. CASE d \in Children(fs, root, FALSE) /\ LStat(fs, d) = "dir"
  <2>1. PICK u \in Seq(N), x \in N : AChild(N, fs, root, at, d, u, x)
    BY <1>3, EachChild
  <2>2. PICK s \in Seq(N) : s = Append(u, x)
    BY AppendProperties
  <2>3. d = root \o s /\ at \o s = Append(at \o u, x)
    <3>1. at \in Seq(N) /\ root \in Seq(N) /\ u \in Seq(N) /\ x \in N
      BY <1>1
    <3>2. at \o Append(u, x) = Append(at \o u, x) /\ root \o Append(u, x) = Append(root \o u, x)
      BY ONLY <3>1, AppendToConcat, SMTT(30)
    <3> QED BY <2>1, <2>2, <3>2, Zenon DEF AChild
  <2>4. at \o s \in DOMAIN fs /\ fs[at \o s].kind = "dir"
    BY <1>3, <2>1, <2>3 DEF AChild, Seen
  <2>5. at \o s # <<>>
    BY <2>4 DEF Listable, Named
  <2>6. Place(fs, at, s)
    BY <2>4, <2>5 DEF Place, Folder, KindAt
  <2> QED BY <2>3, <2>6
<1> QED BY <1>2, <1>3 DEF Entered

\* The names in such a place.
LEMMA NamesAre ==
    ASSUME NEW N, NEW fs, NEW root, NEW at, Listable(N, fs, root, at), NEW s \in Seq(N), Place(fs, at, s)
    PROVE  \A n : n \in NamesIn(fs, root \o s) <=> n \in N /\ Append(at \o s, n) \in DOMAIN fs
<1>1. at \in Seq(N) /\ root \in Seq(N) /\ Tree(N, fs) /\ Named(fs)
  BY RootAt DEF Listable
<1>2. PICK d \in Seq(N) : d = at \o s
  BY <1>1, GoesOn
<1>3. NamesIn(fs, root \o s) = {Last(p) : p \in {q \in DOMAIN fs : Front(q) = d}}
  <2>1. Follow(fs, root \o s).at = d
    BY <1>2, AllStraight DEF LeadsThere
  <2> QED BY <2>1, Zenon DEF NamesIn
<1>4. ASSUME NEW n \in NamesIn(fs, root \o s) PROVE n \in N /\ Append(d, n) \in DOMAIN fs
  <2>1. PICK p \in DOMAIN fs : Front(p) = d /\ n = Last(p)
    BY <1>3, <1>4
  <2>2. p \in Seq(N) /\ p # <<>>
    BY <1>1 DEF Tree, Named
  <2>3. Last(p) \in N /\ p = Append(Front(p), Last(p))
    BY <2>2, FrontLast
  <2> QED BY <2>1, <2>3
<1>5. ASSUME NEW n \in N, Append(d, n) \in DOMAIN fs PROVE n \in NamesIn(fs, root \o s)
  <2>1. Front(Append(d, n)) = d /\ Last(Append(d, n)) = n
    BY TakenApart
  <2> QED BY <1>3, <1>5, <2>1
<1> QED BY <1>2, <1>4, <1>5

\* The image of a finite set.
LEMMA ImageFinite ==
    ASSUME NEW S, IsFiniteSet(S), NEW f, NEW T, T = {f[x] : x \in S}
    PROVE  IsFiniteSet(T) /\ Cardinality(T) <= Cardinality(S)
<1> DEFINE g == [x \in S |-> f[x]]
<1>1. g \in Surjection(S, T)
  <2>1. g \in [S -> T]
    OBVIOUS
  <2>2. \A t \in T : \E x \in S : g[x] = t
    OBVIOUS
  <2> HIDE DEF g
  <2> QED BY <2>1, <2>2 DEF Surjection
<1> HIDE DEF g
<1> QED BY <1>1, FS_Surjection

\* There are not more of them than there are files and directories.
LEMMA FinitelyMany ==
    ASSUME NEW N, NEW fs, NEW root, NEW at, Listable(N, fs, root, at)
    PROVE  /\ IsFiniteSet(Children(fs, root, FALSE))
           /\ IsFiniteSet(Entered(fs, root)) /\ Cardinality(Entered(fs, root)) <= Cardinality(DOMAIN fs) + 1
           /\ Cardinality(DOMAIN fs) \in Nat
           /\ \A d : IsFiniteSet(NamesIn(fs, d))
<1>1. IsFiniteSet(DOMAIN fs) /\ at = Follow(fs, root).at
  BY DEF Listable
<1>2. PICK T : T = {q \in DOMAIN fs : IsStrictPrefix(at, q)}
  OBVIOUS
<1>3. IsFiniteSet(T) /\ Cardinality(T) <= Cardinality(DOMAIN fs)
  BY <1>1, <1>2, FS_Subset
<1>4. PICK B : B = Below(fs, root)
  OBVIOUS
<1>5. IsFiniteSet(B) /\ Cardinality(B) <= Cardinality(T)
  <2> DEFINE f == [p \in T |-> SubSeq(p, Len(at) + 1, Len(p))]
  <2>1. B = {SubSeq(p, Len(at) + 1, Len(p)) : p \in T}
    BY <1>1, <1>2, <1>4, Zenon DEF Below
  <2>2. B = {f[p] : p \in T}
    BY <2>1
  <2> HIDE DEF f
  <2> QED BY <1>3, <2>2, ImageFinite
<1>6. PICK K : K = Children(fs, root, FALSE)
  OBVIOUS
<1>7. IsFiniteSet(K) /\ Cardinality(K) <= Cardinality(B)
  <2> DEFINE f == [s \in B |-> root \o s]
  <2>1. K = {root \o s : s \in B}
    BY <1>4, <1>6 DEF Children
  <2>2. K = {f[s] : s \in B}
    BY <2>1
  <2> HIDE DEF f
  <2> QED BY <1>5, <2>2, ImageFinite
<1>8. PICK R : R = {c \in K : LStat(fs, c) = "dir"}
  OBVIOUS
<1>9. IsFiniteSet(R) /\ Cardinality(R) <= Cardinality(K)
  BY <1>7, <1>8, FS_Subset
<1>10. Entered(fs, root) = R \cup {root}
  BY <1>6, <1>8 DEF Entered
<1>11. IsFiniteSet(R \cup {root}) /\ Cardinality(R \cup {root}) <= Cardinality(R) + 1
  <2>1. IsFiniteSet(R \cup {root})
        /\ Cardinality(R \cup {root}) = IF root \in R THEN Cardinality(R) ELSE Cardinality(R) + 1
    BY <1>9, FS_AddElement
  <2>2. Cardinality(R) \in Nat
    BY <1>9, FS_CardinalityType
  <2> QED BY <2>1, <2>2
<1>12. /\ Cardinality(DOMAIN fs) \in Nat /\ Cardinality(T) \in Nat /\ Cardinality(B) \in Nat
       /\ Cardinality(K) \in Nat /\ Cardinality(R) \in Nat /\ Cardinality(R \cup {root}) \in Nat
  BY <1>1, <1>3, <1>5, <1>7, <1>9, <1>11, FS_CardinalityType
<1>13. Cardinality(R \cup {root}) <= Cardinality(DOMAIN fs) + 1
  BY <1>3, <1>5, <1>7, <1>9, <1>11, <1>12
<1>14. ASSUME NEW d PROVE IsFiniteSet(NamesIn(fs, d))
  <2>1. PICK Q : Q = {q \in DOMAIN fs : Front(q) = Follow(fs, d).at}
    OBVIOUS
  <2>2. IsFiniteSet(Q)
    BY <1>1, <2>1, FS_Subset
  <2> DEFINE f == [p \in Q |-> Last(p)]
  <2>3. NamesIn(fs, d) = {Last(p) : p \in Q}
    BY <2>1, Zenon DEF NamesIn
  <2>4. NamesIn(fs, d) = {f[p] : p \in Q}
    BY <2>3
  <2> HIDE DEF f
  <2> QED BY <2>2, <2>4, ImageFinite
<1> QED BY <1>6, <1>7, <1>10, <1>11, <1>12, <1>13, <1>14

\* What the loops of a listing rely on.
Lawful(N, fs, root) ==
    LET K == Children(fs, root, FALSE) IN
    /\ root \in Seq(N) /\ root \notin K /\ K \subseteq Seq(N)
    /\ IsFiniteSet(K) /\ IsFiniteSet(Entered(fs, root))
    /\ Cardinality(DOMAIN fs) \in Nat /\ Cardinality(Entered(fs, root)) <= Cardinality(DOMAIN fs) + 1
    /\ \A d \in Entered(fs, root) :
          d \in Seq(N) /\ IsFiniteSet(NamesIn(fs, d)) /\ NamesIn(fs, d) \subseteq N /\ Kids(fs, d) \subseteq K
    /\ \A c \in K : c # <<>> /\ Front(c) \in Entered(fs, root) /\ Last(c) \in NamesIn(fs, Front(c))
    /\ Children(fs, root, TRUE) = Kids(fs, root)
    /\ \A c \in K : LStat(fs, c) \in {"file", "dir", "special", "link"}
                    /\ (LStat(fs, c) # "link" => Stat(fs, c) = LStat(fs, c))

\* They hold of every directory that can be listed.
LEMMA ListableLawful ==
    ASSUME NEW N, NEW fs, NEW root, NEW at, Listable(N, fs, root, at)
    PROVE  Lawful(N, fs, root)
<1>1. at \in Seq(N) /\ root \in Seq(N) /\ Tree(N, fs) /\ Named(fs)
  BY RootAt DEF Listable
<1>2. PICK K : K = Children(fs, root, FALSE)
  OBVIOUS
<1>3. ASSUME NEW d \in Entered(fs, root)
      PROVE  d \in Seq(N) /\ IsFiniteSet(NamesIn(fs, d)) /\ NamesIn(fs, d) \subseteq N /\ Kids(fs, d) \subseteq K
  <2>1. PICK s \in Seq(N) : d = root \o s /\ Place(fs, at, s)
    BY EnteredIs
  <2>2. d \in Seq(N)
    BY <1>1, <2>1, GoesOn
  <2>3. \A n : n \in NamesIn(fs, d) <=> n \in N /\ Append(at \o s, n) \in DOMAIN fs
    BY <2>1, NamesAre
  <2>4. ASSUME NEW n \in NamesIn(fs, d) PROVE Append(d, n) \in K
    <3>1. n \in N /\ Append(at \o s, n) \in DOMAIN fs
      BY <2>3
    <3>2. LeadsThere(fs, root, at, s)
      BY <2>1, AllStraight
    <3>3. Seen(N, fs, root, Append(root \o s, n), Append(at \o s, n))
      BY <2>1, <3>1, <3>2, ChildIs
    <3> QED BY <1>2, <2>1, <3>3, Zenon DEF Seen
  <2> QED BY <2>2, <2>3, <2>4, FinitelyMany DEF Kids
<1>4. ASSUME NEW c \in K
      PROVE  /\ c \in Seq(N) /\ c # <<>> /\ c # root
             /\ Front(c) \in Entered(fs, root) /\ Last(c) \in NamesIn(fs, Front(c))
             /\ LStat(fs, c) \in {"file", "dir", "special", "link"}
             /\ (LStat(fs, c) # "link" => Stat(fs, c) = LStat(fs, c))
  <2>1. PICK u \in Seq(N), x \in N : AChild(N, fs, root, at, c, u, x)
    BY <1>2, EachChild
  <2>2. PICK f \in Seq(N) : f = root \o u
    BY <1>1, GoesOn
  <2>3. c = Append(f, x) /\ Place(fs, at, u) /\ Append(at \o u, x) \in DOMAIN fs
        /\ Seen(N, fs, root, c, Append(at \o u, x))
    BY <2>1, <2>2, Zenon DEF AChild
  <2>4. Front(c) = f /\ Last(c) = x /\ c # <<>> /\ c \in Seq(N)
    BY <2>3, TakenApart
  <2>5. x \in NamesIn(fs, f)
    BY <2>2, <2>3, NamesAre
  <2>6. c # root
    <3>1. Len(c) = Len(root) + Len(u) + 1 /\ Len(root) \in Nat /\ Len(u) \in Nat
      BY <1>1, <2>2, <2>3, GoesOn, AppendProperties, LenProperties
    <3> QED BY <3>1
  <2>7. f \in Entered(fs, root)
    <3>1. CASE u = <<>>
      <4>1. root \o <<>> = root
        BY <1>1, ConcatEmptySeq
      <4> QED BY <2>2, <3>1, <4>1 DEF Entered
    <3>2. CASE u # <<>>
      <4>1. at \o u \in DOMAIN fs /\ Folder(fs, at \o u) /\ at \in Seq(N)
        BY <1>1, <2>3, <3>2 DEF Place
      <4>2. f \in Children(fs, root, FALSE)
        <5>1. ChildPaths(N, fs, root, at)
          BY ChildrenAre
        <5> QED BY <2>2, <3>2, <4>1, <5>1 DEF ChildPaths
      <4>3. PICK v \in Seq(N), y \in N : AChild(N, fs, root, at, f, v, y)
        BY <4>2, EachChild
      <4>4. LStat(fs, f) = fs[Append(at \o v, y)].kind /\ f = Append(root \o v, y)
        BY <4>3, Zenon DEF AChild, Seen
      <4>5. at \o u = Append(at \o v, y)
        <5>1. at \in Seq(N) /\ root \in Seq(N) /\ v \in Seq(N) /\ y \in N
          BY <1>1
        <5>2. at \o Append(v, y) = Append(at \o v, y) /\ root \o Append(v, y) = Append(root \o v, y)
          BY ONLY <5>1, AppendToConcat
        <5>3. PICK t \in Seq(N) : t = Append(v, y)
          BY AppendProperties
        <5>4. root \o u = root \o t
          BY <2>2, <4>4, <5>2, <5>3
        <5>5. u = t
          <6>1. SubSeq(root \o u, Len(root) + 1, Len(root \o u)) = u
            BY <1>1, GoesOn
          <6>2. SubSeq(root \o t, Len(root) + 1, Len(root \o t)) = t
            BY <1>1, GoesOn
          <6> QED BY <5>4, <6>1, <6>2, Zenon
        <5> QED BY <5>2, <5>3, <5>5
      <4>6. at \o u # <<>>
        BY <1>1, <4>1 DEF Named
      <4>7. fs[at \o u].kind = "dir"
        BY <4>1, <4>6 DEF Folder, KindAt
      <4> QED BY <4>2, <4>4, <4>5, <4>7 DEF Entered
    <3> QED BY <3>1, <3>2
  <2>8. LStat(fs, c) = fs[Append(at \o u, x)].kind
        /\ (~Link(fs, Append(at \o u, x)) => Stat(fs, c) = fs[Append(at \o u, x)].kind)
    BY <2>3, Zenon DEF Seen
  <2>9. fs[Append(at \o u, x)].kind \in {"file", "dir", "special", "link"}
    BY <1>1, <2>3 DEF Tree
  <2>10. Link(fs, Append(at \o u, x)) => fs[Append(at \o u, x)].kind = "link"
    BY <1>1, <2>3 DEF Link, KindAt, Named
  <2> QED BY <2>4, <2>5, <2>6, <2>7, <2>8, <2>9, <2>10
<1>5. Children(fs, root, TRUE) = Kids(fs, root)
  <2>1. \A s : s \in Below(fs, root) <=> s \in Seq(N) /\ s # <<>> /\ at \o s \in DOMAIN fs
    <3>1. Tree(N, fs) /\ at \in Seq(N) /\ at = Follow(fs, root).at
      BY <1>1 DEF Listable
    <3> QED BY <3>1, BelowIs
  <2>2. Children(fs, root, TRUE) = {root \o s : s \in {t \in Below(fs, root) : Len(t) = 1}}
    BY DEF Children
  <2>3. root \o <<>> = root /\ at \o <<>> = at /\ Place(fs, at, <<>>) /\ <<>> \in Seq(N)
    BY <1>1, RootAt, ConcatEmptySeq, EmptySeq DEF Place
  <2>4. \A n : n \in NamesIn(fs, root) <=> n \in N /\ Append(at, n) \in DOMAIN fs
    BY <2>3, NamesAre
  <2>5. ASSUME NEW n \in N
        PROVE  /\ Append(<<>>, n) \in Seq(N) /\ Append(<<>>, n) # <<>> /\ Len(Append(<<>>, n)) = 1
               /\ at \o Append(<<>>, n) = Append(at, n) /\ root \o Append(<<>>, n) = Append(root, n)
    <3>1. at \in Seq(N) /\ root \in Seq(N) /\ <<>> \in Seq(N) /\ n \in N
      BY <1>1, <2>3
    <3>2. at \o Append(<<>>, n) = Append(at \o <<>>, n) /\ root \o Append(<<>>, n) = Append(root \o <<>>, n)
      BY ONLY <3>1, AppendToConcat
    <3>3. Append(<<>>, n) \in Seq(N) /\ Append(<<>>, n) # <<>> /\ Len(Append(<<>>, n)) = 1
      BY <3>1
    <3> QED BY <2>3, <3>2, <3>3
  <2>6. ASSUME NEW c \in Children(fs, root, TRUE) PROVE c \in Kids(fs, root)
    <3>1. PICK t \in Below(fs, root) : c = root \o t /\ Len(t) = 1
      BY <2>2
    <3>2. t \in Seq(N) /\ t # <<>> /\ at \o t \in DOMAIN fs
      BY <2>1
    <3>3. PICK f \in Seq(N), n \in N : t = Append(f, n) /\ Len(f) = Len(t) - 1
      BY <3>2, FrontLast
    <3>4. f = <<>>
      BY <3>1, <3>3, EmptySeq
    <3>5. c = Append(root, n) /\ n \in NamesIn(fs, root)
      BY <2>4, <2>5, <3>1, <3>2, <3>3, <3>4
    <3> QED BY <3>5 DEF Kids
  <2>7. ASSUME NEW c \in Kids(fs, root) PROVE c \in Children(fs, root, TRUE)
    <3>1. PICK n \in NamesIn(fs, root) : c = Append(root, n)
      BY <2>7 DEF Kids
    <3>2. n \in N /\ Append(at, n) \in DOMAIN fs
      BY <2>4
    <3>3. PICK t : t = Append(<<>>, n)
      OBVIOUS
    <3>4. t \in Below(fs, root) /\ Len(t) = 1 /\ c = root \o t
      BY <2>1, <2>5, <3>1, <3>2, <3>3
    <3> QED BY <2>2, <3>4
  <2> QED BY <2>6, <2>7
<1> QED BY <1>1, <1>2, <1>3, <1>4, <1>5, FinitelyMany DEF Lawful

-----------------------------------------------------------------------------
(* Sequences without repetitions *)

\* A set as a sequence.
LEMMA SetAsSeq ==
    ASSUME NEW S, IsFiniteSet(S)
    PROVE  /\ SetToSeq(S) \in Seq(S) /\ IsInjective(SetToSeq(S)) /\ ToSet(SetToSeq(S)) = S
           /\ Len(SetToSeq(S)) = Cardinality(S) /\ Cardinality(S) \in Nat
<1>1. PICK n \in Nat : n = Cardinality(S)
  BY FS_CardinalityType
<1>2. PICK q : q = SetToSeq(S)
  OBVIOUS
<1>3. \E f \in [1..n -> S] : IsInjective(f)
  <2>1. ExistsBijection(1..n, S)
    BY <1>1, FS_CardinalityType
  <2> QED BY <2>1 DEF ExistsBijection, Bijection, Injection
<1>4. q \in [1..n -> S] /\ IsInjective(q)
  <2>1. q = CHOOSE f \in [1..n -> S] : IsInjective(f)
    BY <1>1, <1>2 DEF SetToSeq
  <2> QED BY <1>3, <2>1, Zenon
<1>5. q \in Surjection(1..n, S)
  <2>1. q \in Injection(1..n, S)
    BY <1>4 DEF Injection
  <2>2. Cardinality(1..n) = n
    BY FS_Interval
  <2> QED BY <1>1, <2>1, <2>2, FS_Injection
<1>6. q \in Seq(S) /\ Len(q) = n /\ DOMAIN q = 1..n
  BY <1>4
<1>7. ToSet(q) = S
  BY <1>4, <1>5 DEF ToSet, Surjection
<1> QED BY <1>1, <1>2, <1>4, <1>6, <1>7

\* It is as long as it has elements.
LEMMA CountsItsElements ==
    ASSUME NEW T, NEW s \in Seq(T), IsInjective(s)
    PROVE  IsFiniteSet(ToSet(s)) /\ Cardinality(ToSet(s)) = Len(s)
<1>1. PICK n \in Nat : n = Len(s)
  BY LenProperties
<1>2. DOMAIN s = 1..n /\ s \in [1..n -> ToSet(s)]
  BY <1>1 DEF ToSet
<1>3. s \in Surjection(1..n, ToSet(s)) /\ s \in Injection(1..n, ToSet(s))
  BY <1>2 DEF Surjection, Injection, ToSet
<1>4. IsFiniteSet(1..n) /\ Cardinality(1..n) = n
  BY FS_Interval
<1>5. IsFiniteSet(ToSet(s))
  BY <1>3, <1>4, FS_Surjection
<1>6. Cardinality(ToSet(s)) = Cardinality(1..n)
  BY <1>3, <1>4, FS_Surjection
<1> QED BY <1>1, <1>4, <1>5, <1>6

\* With one more.
LEMMA OneMore ==
    ASSUME NEW T, NEW s \in Seq(T), NEW e \in T
    PROVE  /\ Append(s, e) \in Seq(T) /\ ToSet(Append(s, e)) = ToSet(s) \cup {e} /\ ToSet(s) \subseteq T
           /\ IsInjective(s) /\ e \notin ToSet(s) => IsInjective(Append(s, e))
<1>1. PICK n \in Nat : n = Len(s) /\ DOMAIN s = 1..n /\ \A i \in 1..n : s[i] \in T
  BY LenProperties, ElementOfSeq
<1>2. PICK a \in Seq(T) : a = Append(s, e)
  BY AppendProperties
<1>3. DOMAIN a = 1..n + 1 /\ (\A i \in 1..n : a[i] = s[i]) /\ a[n + 1] = e
  BY <1>1, <1>2, AppendProperties
<1>4. \A i \in 1..n + 1 : i \in 1..n \/ i = n + 1
  BY <1>1
<1>5. n + 1 \in 1..n + 1 /\ \A i \in 1..n : i \in 1..n + 1
  BY <1>1
<1>6. ToSet(a) = ToSet(s) \cup {e}
  BY <1>1, <1>3, <1>4, <1>5 DEF ToSet
<1>7. ASSUME IsInjective(s), e \notin ToSet(s) PROVE IsInjective(a)
  <2>1. \A i \in 1..n : s[i] # e
    BY <1>1, <1>7 DEF ToSet
  <2>2. \A i, j \in 1..n : s[i] = s[j] => i = j
    BY <1>1, <1>7 DEF IsInjective
  <2> QED BY <1>3, <1>4, <2>1, <2>2 DEF IsInjective
<1>8. ToSet(s) \subseteq T
  BY <1>1 DEF ToSet
<1> QED BY <1>2, <1>6, <1>7, <1>8

\* Without the last.
LEMMA OneLess ==
    ASSUME NEW T, NEW s \in Seq(T), s # <<>>, IsInjective(s)
    PROVE  /\ Front(s) \in Seq(T) /\ Last(s) \in T /\ IsInjective(Front(s))
           /\ ToSet(s) = ToSet(Front(s)) \cup {Last(s)} /\ Last(s) \notin ToSet(Front(s))
<1>1. PICK f \in Seq(T), x \in T : f = Front(s) /\ x = Last(s) /\ s = Append(f, x)
      /\ Len(f) = Len(s) - 1 /\ Len(s) \in Nat \ {0} /\ x = s[Len(s)] /\ \A i \in 1..Len(s) - 1 : f[i] = s[i]
  <2>1. Front(s) \in Seq(T) /\ Last(s) \in T /\ s = Append(Front(s), Last(s))
        /\ Len(Front(s)) = Len(s) - 1 /\ Len(s) \in Nat \ {0} /\ Last(s) = s[Len(s)]
        /\ \A i \in 1..Len(s) - 1 : Front(s)[i] = s[i]
    BY FrontLast
  <2> QED BY <2>1, Zenon
<1>2. PICK n \in Nat : n = Len(f) /\ Len(s) = n + 1 /\ DOMAIN f = 1..n /\ DOMAIN s = 1..n + 1
      /\ x = s[n + 1] /\ \A i \in 1..n : f[i] = s[i]
  <2>1. Len(f) \in Nat /\ Len(s) = Len(f) + 1 /\ Len(s) - 1 = Len(f)
    BY <1>1
  <2> QED BY <1>1, <2>1
<1>3. \A i \in 1..n : i \in 1..n + 1 /\ i # n + 1
  BY <1>2
<1>4. n + 1 \in 1..n + 1
  BY <1>2
<1>5. \A i, j \in 1..n + 1 : s[i] = s[j] => i = j
  BY <1>2 DEF IsInjective
<1>6. IsInjective(f)
  BY <1>2, <1>3, <1>5 DEF IsInjective
<1>7. x \notin ToSet(f)
  BY <1>2, <1>3, <1>4, <1>5 DEF ToSet
<1>8. ToSet(s) = ToSet(f) \cup {x}
  BY <1>1, OneMore
<1> QED BY <1>1, <1>6, <1>7, <1>8

\* The empty sequence has no element and no repetition.
LEMMA NoneYet == ToSet(<<>>) = {} /\ IsInjective(<<>>)
  BY DEF ToSet, IsInjective

-----------------------------------------------------------------------------
(* What becomes of a child *)

Mistakes == {"", "StorageError"}
Partial(N) == [error : Mistakes, objects : Seq(Seq(N)), prefixes : Seq(Seq(N)), pending : Seq(Seq(N))]

\* What both backends make of a child.
Adds(fs, grouped, f, c, v) ==
    /\ Stat(fs, c) = "loop" => v = Failed("StorageError")
    /\ Stat(fs, c) # "loop" =>
          /\ v.error = f.error
          /\ v.objects = IF Stat(fs, c) = "file" THEN Append(f.objects, c) ELSE f.objects
          /\ v.prefixes = IF Stat(fs, c) = "dir" /\ grouped THEN Append(f.prefixes, c) ELSE f.prefixes
          /\ v.pending = IF LStat(fs, c) = "dir" /\ ~grouped THEN Append(f.pending, c) ELSE f.pending

\* What Enlist adds, kind by kind.
LEMMA EnlistIs ==
    ASSUME NEW N, NEW f \in Partial(N), NEW c \in Seq(N), NEW kind, NEW linked \in BOOLEAN, NEW grouped \in BOOLEAN
    PROVE  LET v == Enlist(f, c, kind, linked, grouped) IN
           /\ v \in Partial(N) /\ v.error = f.error
           /\ v.objects = IF kind = "file" THEN Append(f.objects, c) ELSE f.objects
           /\ v.prefixes = IF kind = "dir" /\ grouped THEN Append(f.prefixes, c) ELSE f.prefixes
           /\ v.pending = IF kind = "dir" /\ ~linked /\ ~grouped THEN Append(f.pending, c) ELSE f.pending
<1>1. \A s \in Seq(Seq(N)) : Append(s, c) \in Seq(Seq(N))
  BY AppendProperties
<1> QED BY <1>1 DEF Enlist, Partial

\* What listings start with and fail with.
LEMMA FailedTyped == ASSUME NEW N PROVE Failed("StorageError") \in Partial(N) /\ Empty \in Partial(N)
<1>1. "" \in Mistakes /\ "StorageError" \in Mistakes
  BY Zenon DEF Mistakes
<1>2. <<>> \in Seq(Seq(N))
  BY EmptySeq
<1>3. \A e \in Mistakes : [error |-> e, objects |-> <<>>, prefixes |-> <<>>, pending |-> <<>>] \in Partial(N)
  BY <1>2 DEF Partial
<1> QED BY <1>1, <1>3, Zenon DEF Failed, Listing, Empty

\* What the loop relies on to know a child.
KnownChild(N, fs, c) ==
    /\ c \in Seq(N) /\ Stat(fs, c) \in AllStats
    /\ LStat(fs, c) \in {"file", "dir", "special", "link"}
    /\ LStat(fs, c) # "link" => Stat(fs, c) = LStat(fs, c)

\* Both backends do so, although they ask in a different order.
LEMMA EnterIs ==
    ASSUME NEW N, NEW fs, NEW f \in Partial(N), NEW c, KnownChild(N, fs, c), NEW grouped \in BOOLEAN
    PROVE  /\ LocalEnter(fs, f, c, grouped) \in Partial(N) /\ Adds(fs, grouped, f, c, LocalEnter(fs, f, c, grouped))
           /\ SftpEnter(fs, f, c, grouped) \in Partial(N) /\ Adds(fs, grouped, f, c, SftpEnter(fs, f, c, grouped))
<1>1. c \in Seq(N)
  BY DEF KnownChild
<1>2. PICK st \in AllStats : st = Stat(fs, c)
  BY DEF KnownChild
<1>3. PICK ls \in {"file", "dir", "special", "link"} : ls = LStat(fs, c)
  BY DEF KnownChild
<1>4. ls # "link" => st = ls
  BY <1>2, <1>3 DEF KnownChild
<1>5. PICK linked \in BOOLEAN : linked = (ls = "link")
  OBVIOUS
<1>6. PICK v : v = Enlist(f, c, st, linked, grouped)
  OBVIOUS
<1>7. /\ v \in Partial(N) /\ v.error = f.error
      /\ v.objects = IF st = "file" THEN Append(f.objects, c) ELSE f.objects
      /\ v.prefixes = IF st = "dir" /\ grouped THEN Append(f.prefixes, c) ELSE f.prefixes
      /\ v.pending = IF st = "dir" /\ ~linked /\ ~grouped THEN Append(f.pending, c) ELSE f.pending
  BY <1>1, <1>6, EnlistIs
<1>8. Failed("StorageError") \in Partial(N)
  BY FailedTyped
<1>9. st = "dir" /\ ~linked <=> ls = "dir"
  BY <1>4, <1>5
<1>10. ASSUME st # "loop" PROVE Adds(fs, grouped, f, c, v)
  BY <1>2, <1>3, <1>7, <1>9, <1>10 DEF Adds
<1>11. ASSUME st # "loop", linked, st \in Faults PROVE Adds(fs, grouped, f, c, f)
  BY <1>2, <1>3, <1>5, <1>11 DEF Adds, Faults
<1>12. ASSUME st = "loop" PROVE Adds(fs, grouped, f, c, Failed("StorageError"))
  BY <1>2, <1>12 DEF Adds
<1>13. PICK l : l = LocalEnter(fs, f, c, grouped)
  OBVIOUS
<1>14. l = IF st \in Faults
           THEN IF linked /\ st # "loop" THEN f ELSE Failed("StorageError")
           ELSE v
  BY <1>2, <1>3, <1>5, <1>6, <1>13, Zenon DEF LocalEnter
<1>15. st \in Faults /\ ~(linked /\ st # "loop") => st = "loop"
  BY <1>4, <1>5 DEF Faults
<1>16. st = "loop" => st \in Faults
  BY DEF Faults
<1>17. l \in Partial(N) /\ Adds(fs, grouped, f, c, l)
  BY <1>7, <1>8, <1>10, <1>11, <1>12, <1>14, <1>15, <1>16, Zenon
<1>18. PICK s : s = SftpEnter(fs, f, c, grouped)
  OBVIOUS
<1>19. s = CASE linked /\ st \in {"absent", "notdir"} -> f
             [] st = "loop" -> Failed("StorageError")
             [] OTHER -> v
  <2>1. (IF linked THEN st ELSE ls) = st
    BY <1>4, <1>5
  <2>2. PICK w : w = Enlist(f, c, IF linked THEN st ELSE ls, linked, grouped)
    OBVIOUS
  <2>3. v = w
    BY <1>6, <2>1, <2>2
  <2>4. PICK kind : kind = IF linked THEN st ELSE ls
    OBVIOUS
  <2>5. s = CASE linked /\ kind \in {"absent", "notdir"} -> f
              [] kind = "loop" -> Failed("StorageError")
              [] OTHER -> Enlist(f, c, kind, linked, grouped)
    BY <1>2, <1>3, <1>5, <1>18, <2>4, Zenon DEF SftpEnter, NotFound
  <2> QED BY <1>6, <2>1, <2>4, <2>5, Zenon
<1>20. /\ linked /\ st \in {"absent", "notdir"} => s = f
       /\ ~(linked /\ st \in {"absent", "notdir"}) /\ st = "loop" => s = Failed("StorageError")
       /\ ~(linked /\ st \in {"absent", "notdir"}) /\ st # "loop" => s = v
  BY <1>19
<1>21. st \in {"absent", "notdir"} => st \in Faults /\ st # "loop"
  BY DEF Faults
<1>22. s \in Partial(N) /\ Adds(fs, grouped, f, c, s)
  BY <1>7, <1>8, <1>10, <1>11, <1>12, <1>20, <1>21, Zenon
<1> QED BY <1>13, <1>17, <1>18, <1>22

-----------------------------------------------------------------------------
(* The two loops of a listing *)

Fine(f) == f.error = ""

\* A listing stays one, whatever child or directory comes next.
LEMMA EnterTyped ==
    ASSUME NEW N, NEW fs, NEW f \in Partial(N), NEW c \in Seq(N), NEW grouped \in BOOLEAN
    PROVE  LocalEnter(fs, f, c, grouped) \in Partial(N) /\ SftpEnter(fs, f, c, grouped) \in Partial(N)
<1>1. PICK linked \in BOOLEAN : linked = (LStat(fs, c) = "link")
  OBVIOUS
<1>2. Failed("StorageError") \in Partial(N)
  BY FailedTyped
<1>3. \A kind : Enlist(f, c, kind, linked, grouped) \in Partial(N)
  <2>1. ASSUME NEW kind PROVE Enlist(f, c, kind, linked, grouped) \in Partial(N)
    BY EnlistIs
  <2> QED BY <2>1
<1>4. PICK l : l = LocalEnter(fs, f, c, grouped)
  OBVIOUS
<1>5. l \in {f, Failed("StorageError"), Enlist(f, c, Stat(fs, c), linked, grouped)}
  <2>1. l = IF Stat(fs, c) \in Faults
            THEN IF linked /\ Stat(fs, c) # "loop" THEN f ELSE Failed("StorageError")
            ELSE Enlist(f, c, Stat(fs, c), linked, grouped)
    BY <1>1, <1>4, Zenon DEF LocalEnter
  <2> QED BY <2>1, Zenon
<1>6. PICK s : s = SftpEnter(fs, f, c, grouped)
  OBVIOUS
<1>7. PICK kind : kind = IF linked THEN Stat(fs, c) ELSE LStat(fs, c)
  OBVIOUS
<1>8. s = CASE linked /\ NotFound(kind) -> f
            [] kind = "loop" -> Failed("StorageError")
            [] OTHER -> Enlist(f, c, kind, linked, grouped)
  BY <1>1, <1>6, <1>7, Zenon DEF SftpEnter
<1>9. s \in {f, Failed("StorageError"), Enlist(f, c, kind, linked, grouped)}
  BY <1>8
<1> QED BY <1>2, <1>3, <1>4, <1>5, <1>6, <1>9, Zenon

\* A child leaves a listing a listing.
LEMMA ChildTyped ==
    ASSUME NEW N, NEW fs, NEW backend, NEW grouped \in BOOLEAN, NEW max, NEW dir \in Seq(N),
           NEW f \in Partial(N), NEW name \in N
    PROVE  Child(fs, backend, grouped, max, dir, f, name) \in Partial(N)
<1>1. PICK c \in Seq(N) : c = Append(dir, name)
  BY AppendProperties
<1>2. LocalEnter(fs, f, c, grouped) \in Partial(N) /\ SftpEnter(fs, f, c, grouped) \in Partial(N)
  BY EnterTyped
<1>3. Child(fs, backend, grouped, max, dir, f, name) \in {f, LocalEnter(fs, f, c, grouped), SftpEnter(fs, f, c, grouped)}
  BY <1>1, Zenon DEF Child
<1> QED BY <1>2, <1>3, Zenon

\* The loop over the children of a directory, child by child.
ChildByChild(N, fs, backend, grouped, max, dir, names, g) ==
    /\ \A m \in 0..Len(names) : g[m] \in Partial(N)
    /\ \A m \in 1..Len(names) : g[m] = Child(fs, backend, grouped, max, dir, g[m - 1], names[m])

\* The directory that comes next, and how it is gone through.
ComesNext(N, fs, max, found, dir, base, names) ==
    /\ Fine(found) /\ found.pending # <<>> /\ ~Full(found, max)
    /\ dir \in Seq(N) /\ dir = Last(found.pending)
    /\ base \in Partial(N) /\ base = [found EXCEPT !.pending = Front(@)]
    /\ names \in Seq(N) /\ names = SetToSeq(NamesIn(fs, dir))

GoneThrough(N, fs, backend, grouped, max, found, dir, base, names) ==
    \E g : /\ ChildByChild(N, fs, backend, grouped, max, dir, names, g)
           /\ g[0] = base /\ g[Len(names)] = OneDirectory(fs, backend, grouped, max, found)

\* The fold over the names of a directory has its stages.
LEMMA DirectoryFold ==
    ASSUME NEW N, NEW fs, NEW backend, NEW grouped \in BOOLEAN, NEW max,
           NEW found, NEW dir, NEW base, NEW names, ComesNext(N, fs, max, found, dir, base, names)
    PROVE  GoneThrough(N, fs, backend, grouped, max, found, dir, base, names)
<1>0. /\ Fine(found) /\ found.pending # <<>> /\ ~Full(found, max)
      /\ dir \in Seq(N) /\ dir = Last(found.pending)
      /\ base \in Partial(N) /\ base = [found EXCEPT !.pending = Front(@)]
      /\ names \in Seq(N) /\ names = SetToSeq(NamesIn(fs, dir))
  BY Zenon DEF ComesNext
<1> DEFINE V == Partial(N)
           S == DOMAIN names
           pick == [s \in SUBSET S |-> Max(s)]
           op == [i \in S |-> [f \in V |-> Child(fs, backend, grouped, max, dir, f, names[i])]]
           Body(g, s) == IF s = {} THEN base
                         ELSE Child(fs, backend, grouped, max, dir, g[s \ {Max(s)}], names[Max(s)])
           iter == CHOOSE g : g = [s \in SUBSET S |-> Body(g, s)]
<1>1. OneDirectory(fs, backend, grouped, max, found) = iter[S]
  BY <1>0, Zenon DEF OneDirectory, FoldLeft, MapThenFoldSet, Fine
<1>2. op \in [S -> [V -> V]]
  <2>1. ASSUME NEW i \in S, NEW f \in V PROVE Child(fs, backend, grouped, max, dir, f, names[i]) \in V
    <3>1. names[i] \in N
      BY <1>0, ElementOfSeq, LenProperties
    <3> QED BY <1>0, <3>1, ChildTyped
  <2> HIDE DEF V, S
  <2> QED BY <2>1
<1>3. /\ IsFiniteSet(S) /\ base \in V
      /\ \A s \in SUBSET S : s # {} => pick[s] \in s
  <2> HIDE DEF V
  <2> QED BY <1>0, SequenceDomain DEF V
<1>4. PICK g : Folds(g, S, V, base, pick, op)
  <2> HIDE DEF S, V, pick, op
  <2> QED BY <1>2, <1>3, FoldExists
<1>5. g = [s \in SUBSET S |-> Body(g, s)]
  <2>1. g \in [SUBSET S -> V]
    <3> HIDE DEF S, V, pick, op
    <3> QED BY <1>4 DEF Folds
  <2>2. ASSUME NEW s \in SUBSET S PROVE g[s] = Body(g, s)
    <3>1. CASE s = {}
      <4> HIDE DEF S, V, pick, op
      <4> QED BY <3>1, <1>4 DEF Folds
    <3>2. CASE s # {}
      <4>1. Max(s) \in S /\ g[s \ {Max(s)}] \in V
        <5>1. Max(s) \in s
          <6> HIDE DEF S, V, op
          <6> QED BY <1>3, <3>2
        <5> HIDE DEF V, S
        <5> QED BY <2>1, <5>1
      <4>2. g[s] = op[Max(s)][g[s \ {Max(s)}]]
        <5> HIDE DEF op, V, S
        <5> QED BY <1>4, <3>2 DEF Folds
      <4> HIDE DEF V, S
      <4> QED BY <4>1, <4>2, <3>2
    <3> QED BY <3>1, <3>2
  <2> HIDE DEF Body, S, V
  <2> QED BY <2>1, <2>2
<1>6. iter = [s \in SUBSET S |-> Body(iter, s)]
  <2> HIDE DEF Body, S
  <2> QED BY <1>5, Zenon
<1> HIDE DEF iter
<1>7. /\ iter[{}] = base
      /\ \A s \in SUBSET S : s # {} => iter[s] = Child(fs, backend, grouped, max, dir, iter[s \ {Max(s)}], names[Max(s)])
  <2> HIDE DEF S, V
  <2> QED BY <1>6
<1> DEFINE n == Len(names)
           f == [m \in 0..n |-> iter[1..m]]
<1>8. n \in Nat /\ S = 1..n
  BY <1>0, SequenceDomain
<1>9. ASSUME NEW m \in 1..n PROVE f[m] = Child(fs, backend, grouped, max, dir, f[m - 1], names[m])
  <2>1. m \in 0..n /\ m - 1 \in 0..n
    <3> HIDE DEF n, S, V
    <3> QED BY <1>8
  <2>2. iter[1..m] = Child(fs, backend, grouped, max, dir, iter[1..(m - 1)], names[m])
    <3> DEFINE all == 1..m
    <3>1. all \in SUBSET S /\ all # {} /\ Max(all) = m /\ all \ {m} = 1..(m - 1)
      BY <1>0, Stretches
    <3> HIDE DEF S, n, all, V
    <3>2. iter[all] = Child(fs, backend, grouped, max, dir, iter[all \ {Max(all)}], names[Max(all)])
      BY <1>7, <3>1
    <3>3. iter[all] = Child(fs, backend, grouped, max, dir, iter[1..(m - 1)], names[m])
      BY ONLY <3>1, <3>2, Zenon
    <3> QED BY <3>3 DEF all
  <2>3. f[m] = iter[1..m] /\ f[m - 1] = iter[1..(m - 1)]
    <3> HIDE DEF n, S, V
    <3> QED BY <2>1
  <2> HIDE DEF f, S, V
  <2> QED BY <2>2, <2>3
<1>10. f[0] = base /\ f[n] = iter[S]
  <2>1. 0 \in 0..n /\ n \in 0..n /\ 1..0 = {}
    <3> HIDE DEF n, S, V
    <3> QED BY <1>8
  <2> HIDE DEF n, V
  <2> QED BY <1>7, <1>8, <2>1
<1> HIDE DEF f
<1> DEFINE G == {m \in 0..n : f[m] \in V}
<1>11. 0..n \subseteq G
  <2>1. 0 \in G
    <3> HIDE DEF V
    <3> QED BY <1>3, <1>8, <1>10
  <2>2. ASSUME NEW m \in 1..n, m - 1 \in G PROVE m \in G
    <3>1. m \in 0..n /\ names[m] \in N
      BY <1>0, <1>8, ElementOfSeq
    <3>2. f[m - 1] \in V
      BY <2>2
    <3>3. Child(fs, backend, grouped, max, dir, f[m - 1], names[m]) \in V
      BY <1>0, <3>1, <3>2, ChildTyped
    <3> HIDE DEF V
    <3> QED BY <1>9, <3>1, <3>3
  <2> HIDE DEF G
  <2> QED BY <1>8, <2>1, <2>2, UpInduction
<1>12. \A m \in 0..n : f[m] \in V
  BY <1>11
<1> HIDE <1>0
<1>13. ChildByChild(N, fs, backend, grouped, max, dir, names, f)
  BY <1>9, <1>12 DEF ChildByChild
<1> QED BY <1>1, <1>10, <1>13 DEF GoneThrough

\* A listing stays one, whatever directory comes next.
LEMMA NamesTyped ==
    ASSUME NEW N, NEW fs, Tree(N, fs), Named(fs), IsFiniteSet(DOMAIN fs), NEW dir
    PROVE  IsFiniteSet(NamesIn(fs, dir)) /\ NamesIn(fs, dir) \subseteq N /\ SetToSeq(NamesIn(fs, dir)) \in Seq(N)
<1>1. PICK Q : Q = {q \in DOMAIN fs : Front(q) = Follow(fs, dir).at}
  OBVIOUS
<1>2. IsFiniteSet(Q)
  BY <1>1, FS_Subset
<1> DEFINE f == [p \in Q |-> Last(p)]
<1>3. NamesIn(fs, dir) = {Last(p) : p \in Q}
  BY <1>1, Zenon DEF NamesIn
<1>4. NamesIn(fs, dir) = {f[p] : p \in Q}
  BY <1>3
<1>5. IsFiniteSet(NamesIn(fs, dir))
  <2> HIDE DEF f
  <2> QED BY <1>2, <1>4, ImageFinite
<1>6. NamesIn(fs, dir) \subseteq N
  <2>1. ASSUME NEW p \in Q PROVE Last(p) \in N
    <3>1. p \in Seq(N) /\ p # <<>>
      BY <1>1 DEF Tree, Named
    <3> QED BY <3>1, FrontLast
  <2> QED BY <1>3, <2>1
<1>7. SetToSeq(NamesIn(fs, dir)) \in Seq(N)
  <2>1. SetToSeq(NamesIn(fs, dir)) \in Seq(NamesIn(fs, dir))
    BY <1>5, SetAsSeq
  <2> QED BY <1>6, <2>1, SeqMonotonic
<1> QED BY <1>5, <1>6, <1>7

\* Going through a directory leaves a listing a listing.
LEMMA DirectoryTyped ==
    ASSUME NEW N, NEW fs, Tree(N, fs), Named(fs), IsFiniteSet(DOMAIN fs),
           NEW backend, NEW grouped \in BOOLEAN, NEW max, NEW found \in Partial(N)
    PROVE  OneDirectory(fs, backend, grouped, max, found) \in Partial(N)
<1>1. CASE ~Fine(found) \/ found.pending = <<>> \/ Full(found, max)
  <2>1. OneDirectory(fs, backend, grouped, max, found) = found
    BY <1>1, Zenon DEF OneDirectory, Fine
  <2> QED BY <2>1
<1>2. CASE Fine(found) /\ found.pending # <<>> /\ ~Full(found, max)
  <2>1. PICK dir : dir = Last(found.pending)
    OBVIOUS
  <2>2. found.pending \in Seq(Seq(N))
    BY DEF Partial
  <2>3. dir \in Seq(N) /\ Front(found.pending) \in Seq(Seq(N))
    BY <1>2, <2>1, <2>2, FrontLast
  <2>4. PICK base \in Partial(N) : base = [found EXCEPT !.pending = Front(@)]
    BY <2>3 DEF Partial
  <2>5. PICK names \in Seq(N) : names = SetToSeq(NamesIn(fs, dir))
    BY NamesTyped
  <2>6. PICK g : /\ ChildByChild(N, fs, backend, grouped, max, dir, names, g)
                 /\ g[0] = base /\ g[Len(names)] = OneDirectory(fs, backend, grouped, max, found)
    <3>1. ComesNext(N, fs, max, found, dir, base, names)
      BY <1>2, <2>1, <2>3, <2>4, <2>5, Zenon DEF ComesNext
    <3>2. GoneThrough(N, fs, backend, grouped, max, found, dir, base, names)
      BY <3>1, DirectoryFold
    <3> QED BY <3>2, Zenon DEF GoneThrough
  <2>7. Len(names) \in 0..Len(names)
    BY LenProperties
  <2> QED BY <2>6, <2>7, Zenon DEF ChildByChild
<1> QED BY <1>1, <1>2

\* The loop over the directories, round by round.
RoundByRound(N, fs, backend, grouped, max, n, g) ==
    /\ \A m \in 0..n : g[m] \in Partial(N)
    /\ \A m \in 1..n : g[m] = OneDirectory(fs, backend, grouped, max, g[m - 1])

\* The fold over the directories has its rounds.
LEMMA TraverseFold ==
    ASSUME NEW N, NEW fs, Tree(N, fs), Named(fs), IsFiniteSet(DOMAIN fs),
           NEW backend, NEW grouped \in BOOLEAN, NEW max, NEW root,
           NEW base \in Partial(N), base = [Empty EXCEPT !.pending = <<root>>],
           NEW n \in Nat, n = Cardinality(DOMAIN fs) + 1
    PROVE  \E g : /\ RoundByRound(N, fs, backend, grouped, max, n, g)
                  /\ g[0] = base /\ g[n] = Traverse(fs, backend, root, grouped, max)
<1> DEFINE V == Partial(N)
           rounds == [round \in 1..n |-> round]
           S == DOMAIN rounds
           pick == [s \in SUBSET S |-> Max(s)]
           op == [i \in S |-> [f \in V |-> OneDirectory(fs, backend, grouped, max, f)]]
           Body(g, s) == IF s = {} THEN base
                         ELSE OneDirectory(fs, backend, grouped, max, g[s \ {Max(s)}])
           iter == CHOOSE g : g = [s \in SUBSET S |-> Body(g, s)]
<1>1. Traverse(fs, backend, root, grouped, max) = iter[S]
  BY Zenon DEF Traverse, FoldLeft, MapThenFoldSet
<1>2. op \in [S -> [V -> V]]
  <2>1. ASSUME NEW f \in V PROVE OneDirectory(fs, backend, grouped, max, f) \in V
    BY DirectoryTyped
  <2> HIDE DEF V, S
  <2> QED BY <2>1
<1>0. rounds \in Seq(1..n) /\ Len(rounds) = n
  OBVIOUS
<1>3. /\ IsFiniteSet(S) /\ base \in V
      /\ \A s \in SUBSET S : s # {} => pick[s] \in s
  <2> HIDE DEF V, rounds
  <2> QED BY <1>0, SequenceDomain DEF V
<1> HIDE DEF rounds
<1>4. PICK g : Folds(g, S, V, base, pick, op)
  <2> HIDE DEF S, V, pick, op
  <2> QED BY <1>2, <1>3, FoldExists
<1>5. g = [s \in SUBSET S |-> Body(g, s)]
  <2>1. g \in [SUBSET S -> V]
    <3> HIDE DEF S, V, pick, op
    <3> QED BY <1>4 DEF Folds
  <2>2. ASSUME NEW s \in SUBSET S PROVE g[s] = Body(g, s)
    <3>1. CASE s = {}
      <4> HIDE DEF S, V, pick, op
      <4> QED BY <3>1, <1>4 DEF Folds
    <3>2. CASE s # {}
      <4>1. Max(s) \in S /\ g[s \ {Max(s)}] \in V
        <5>1. Max(s) \in s
          <6> HIDE DEF S, V, op
          <6> QED BY <1>3, <3>2
        <5> HIDE DEF V, S
        <5> QED BY <2>1, <5>1
      <4>2. g[s] = op[Max(s)][g[s \ {Max(s)}]]
        <5> HIDE DEF op, V, S
        <5> QED BY <1>4, <3>2 DEF Folds
      <4> HIDE DEF V, S
      <4> QED BY <4>1, <4>2, <3>2
    <3> QED BY <3>1, <3>2
  <2> HIDE DEF Body, S, V
  <2> QED BY <2>1, <2>2
<1>6. iter = [s \in SUBSET S |-> Body(iter, s)]
  <2> HIDE DEF Body, S
  <2> QED BY <1>5, Zenon
<1> HIDE DEF iter
<1>7. /\ iter[{}] = base
      /\ \A s \in SUBSET S : s # {} => iter[s] = OneDirectory(fs, backend, grouped, max, iter[s \ {Max(s)}])
  <2> HIDE DEF S, V
  <2> QED BY <1>6
<1> DEFINE f == [m \in 0..n |-> iter[1..m]]
<1>8. S = 1..n
  BY <1>0, SequenceDomain
<1>9. ASSUME NEW m \in 1..n PROVE f[m] = OneDirectory(fs, backend, grouped, max, f[m - 1])
  <2>1. m \in 0..n /\ m - 1 \in 0..n
    <3> HIDE DEF S, V
    <3> QED BY <1>8
  <2>2. iter[1..m] = OneDirectory(fs, backend, grouped, max, iter[1..(m - 1)])
    <3> DEFINE all == 1..m
    <3>1. all \in SUBSET S /\ all # {} /\ Max(all) = m /\ all \ {m} = 1..(m - 1)
      BY <1>0, Stretches
    <3> HIDE DEF S, all, V
    <3>2. iter[all] = OneDirectory(fs, backend, grouped, max, iter[all \ {Max(all)}])
      BY <1>7, <3>1
    <3>3. iter[all] = OneDirectory(fs, backend, grouped, max, iter[1..(m - 1)])
      BY ONLY <3>1, <3>2, Zenon
    <3> QED BY <3>3 DEF all
  <2>3. f[m] = iter[1..m] /\ f[m - 1] = iter[1..(m - 1)]
    <3> HIDE DEF S, V
    <3> QED BY <2>1
  <2> HIDE DEF f, S, V
  <2> QED BY <2>2, <2>3
<1>10. f[0] = base /\ f[n] = iter[S]
  <2>1. 0 \in 0..n /\ n \in 0..n /\ 1..0 = {}
    OBVIOUS
  <2> HIDE DEF V
  <2> QED BY <1>7, <1>8, <2>1
<1> HIDE DEF f
<1> DEFINE G == {m \in 0..n : f[m] \in V}
<1>11. 0..n \subseteq G
  <2>1. 0 \in G
    <3> HIDE DEF V
    <3> QED BY <1>3, <1>10
  <2>2. ASSUME NEW m \in 1..n, m - 1 \in G PROVE m \in G
    <3>1. m \in 0..n
      OBVIOUS
    <3>2. f[m - 1] \in V
      BY <2>2
    <3>3. OneDirectory(fs, backend, grouped, max, f[m - 1]) \in V
      BY <3>2, DirectoryTyped
    <3> HIDE DEF V
    <3> QED BY <1>9, <3>1, <3>3
  <2> HIDE DEF G
  <2> QED BY <2>1, <2>2, UpInduction
<1>12. \A m \in 0..n : f[m] \in V
  BY <1>11
<1> QED BY <1>1, <1>9, <1>10, <1>12 DEF RoundByRound

-----------------------------------------------------------------------------
(* How far a listing has come *)

FilesOf(fs, S) == {c \in S : Stat(fs, c) = "file"}
GroupsOf(fs, grouped, S) == {c \in S : grouped /\ Stat(fs, c) = "dir"}
DeeperOf(fs, grouped, S) == {c \in S : ~grouped /\ LStat(fs, c) = "dir"}

\* It lists the children S, and each once.
Lists(fs, grouped, f, S) ==
    /\ Fine(f) /\ IsInjective(f.objects) /\ IsInjective(f.prefixes)
    /\ ToSet(f.objects) = FilesOf(fs, S) /\ ToSet(f.prefixes) = GroupsOf(fs, grouped, S)
    /\ \A c \in S : Stat(fs, c) # "loop"

\* Of the root and the directories among S, those in D are done and the others
\* pending, each once.
Waits(fs, grouped, root, f, D, S) ==
    /\ IsInjective(f.pending) /\ ToSet(f.pending) \cap D = {}
    /\ ToSet(f.pending) \cup D = {root} \cup DeeperOf(fs, grouped, S)

Kept(f, max) == max # NoLimit => Count(f) <= max

Broken(fs, C, f) == f.error = "StorageError" /\ \E c \in C : Stat(fs, c) = "loop"
Ended(fs, grouped, max, C, f) ==
    Full(f, max) /\ Kept(f, max) /\ \E T \in SUBSET C : Lists(fs, grouped, f, T)
Underway(fs, grouped, max, root, f, D, S) ==
    Lists(fs, grouped, f, S) /\ Waits(fs, grouped, root, f, D, S) /\ Kept(f, max)

Stage(fs, grouped, max, root, C, f, D, S) ==
    Broken(fs, C, f) \/ Ended(fs, grouped, max, C, f) \/ Underway(fs, grouped, max, root, f, D, S)

\* A listing that failed has an error.
LEMMA BrokenIsNotFine == ASSUME NEW fs, NEW C, NEW f, Broken(fs, C, f) PROVE ~Fine(f)
  BY Zenon DEF Broken, Fine

\* A child more.
Addition(N, fs, grouped, max, root, f, v, D, S, c) ==
    /\ grouped \in BOOLEAN /\ max \in Nat /\ f \in Partial(N) /\ v \in Partial(N)
    /\ KnownChild(N, fs, c) /\ c \notin S /\ c # root /\ Stat(fs, c) # "loop" /\ ~Full(f, max)
    /\ Underway(fs, grouped, max, root, f, D, S) /\ Adds(fs, grouped, f, c, v)

\* What listed the children S lists that child as well.
LEMMA ChildAdded ==
    ASSUME NEW N, NEW fs, NEW grouped, NEW max, NEW root, NEW f, NEW v, NEW D, NEW S, NEW c,
           Addition(N, fs, grouped, max, root, f, v, D, S, c)
    PROVE  Underway(fs, grouped, max, root, v, D, S \cup {c})
<1>a. /\ grouped \in BOOLEAN /\ max \in Nat /\ f \in Partial(N) /\ v \in Partial(N)
      /\ KnownChild(N, fs, c) /\ c \notin S /\ c # root /\ Stat(fs, c) # "loop" /\ ~Full(f, max)
      /\ Underway(fs, grouped, max, root, f, D, S) /\ Adds(fs, grouped, f, c, v)
  BY Zenon DEF Addition
<1> USE <1>a
<1> DEFINE P == Seq(N)
<1>0. f.objects \in Seq(P) /\ f.prefixes \in Seq(P) /\ f.pending \in Seq(P) /\ c \in P
  BY DEF Partial, KnownChild
<1> HIDE DEF P
<1>1. PICK o \in Seq(P) : o = f.objects
  BY <1>0
<1>2. PICK g \in Seq(P) : g = f.prefixes
  BY <1>0
<1>3. PICK d \in Seq(P) : d = f.pending
  BY <1>0
<1>4. PICK isFile \in BOOLEAN : isFile = (Stat(fs, c) = "file")
  OBVIOUS
<1>5. PICK isGroup \in BOOLEAN : isGroup = (grouped /\ Stat(fs, c) = "dir")
  OBVIOUS
<1>6. PICK isDeeper \in BOOLEAN : isDeeper = (~grouped /\ LStat(fs, c) = "dir")
  OBVIOUS
<1>7. v.error = f.error /\ v.objects = (IF isFile THEN Append(o, c) ELSE o)
      /\ v.prefixes = (IF isGroup THEN Append(g, c) ELSE g)
      /\ v.pending = (IF isDeeper THEN Append(d, c) ELSE d)
  BY <1>1, <1>2, <1>3, <1>4, <1>5, <1>6 DEF Adds
<1>8. ToSet(o) = FilesOf(fs, S) /\ ToSet(g) = GroupsOf(fs, grouped, S)
      /\ IsInjective(o) /\ IsInjective(g) /\ Fine(f) /\ \A k \in S : Stat(fs, k) # "loop"
  BY <1>1, <1>2, Zenon DEF Underway, Lists
<1>9. IsInjective(d) /\ ToSet(d) \cap D = {} /\ ToSet(d) \cup D = {root} \cup DeeperOf(fs, grouped, S)
  BY <1>3, Zenon DEF Underway, Waits
<1>10. c \notin ToSet(o) /\ c \notin ToSet(g) /\ c \notin ToSet(d) /\ c \notin D
  BY <1>8, <1>9 DEF FilesOf, GroupsOf, DeeperOf
<1>11. /\ Append(o, c) \in Seq(P) /\ ToSet(Append(o, c)) = ToSet(o) \cup {c} /\ IsInjective(Append(o, c))
       /\ Append(g, c) \in Seq(P) /\ ToSet(Append(g, c)) = ToSet(g) \cup {c} /\ IsInjective(Append(g, c))
       /\ Append(d, c) \in Seq(P) /\ ToSet(Append(d, c)) = ToSet(d) \cup {c} /\ IsInjective(Append(d, c))
  BY <1>0, <1>8, <1>9, <1>10, OneMore
<1>12. /\ FilesOf(fs, S \cup {c}) = IF isFile THEN FilesOf(fs, S) \cup {c} ELSE FilesOf(fs, S)
       /\ GroupsOf(fs, grouped, S \cup {c}) =
            IF isGroup THEN GroupsOf(fs, grouped, S) \cup {c} ELSE GroupsOf(fs, grouped, S)
       /\ DeeperOf(fs, grouped, S \cup {c}) =
            IF isDeeper THEN DeeperOf(fs, grouped, S) \cup {c} ELSE DeeperOf(fs, grouped, S)
  BY <1>4, <1>5, <1>6 DEF FilesOf, GroupsOf, DeeperOf
<1>13. IsInjective(v.objects) /\ ToSet(v.objects) = FilesOf(fs, S \cup {c})
  BY <1>7, <1>8, <1>11, <1>12
<1>14. IsInjective(v.prefixes) /\ ToSet(v.prefixes) = GroupsOf(fs, grouped, S \cup {c})
  BY <1>7, <1>8, <1>11, <1>12
<1>15. Lists(fs, grouped, v, S \cup {c})
  <2>1. Fine(v)
    BY <1>7, <1>8, Zenon DEF Fine
  <2>2. \A k \in S \cup {c} : Stat(fs, k) # "loop"
    BY <1>8
  <2> QED BY <1>13, <1>14, <2>1, <2>2, Zenon DEF Lists
<1>16. Waits(fs, grouped, root, v, D, S \cup {c})
  <2>1. CASE isDeeper
    <3>1. v.pending = Append(d, c) /\ DeeperOf(fs, grouped, S \cup {c}) = DeeperOf(fs, grouped, S) \cup {c}
      BY <1>7, <1>12, <2>1
    <3>2. ToSet(v.pending) = ToSet(d) \cup {c} /\ IsInjective(v.pending)
      BY <1>11, <3>1
    <3> QED BY <1>9, <1>10, <3>1, <3>2 DEF Waits
  <2>2. CASE ~isDeeper
    <3>1. v.pending = d /\ DeeperOf(fs, grouped, S \cup {c}) = DeeperOf(fs, grouped, S)
      BY <1>7, <1>12, <2>2
    <3> QED BY <1>9, <3>1 DEF Waits
  <2> QED BY <2>1, <2>2
<1>17. Kept(v, max)
  <2>1. Len(o) \in Nat /\ Len(g) \in Nat /\ Len(Append(o, c)) = Len(o) + 1 /\ Len(Append(g, c)) = Len(g) + 1
    BY <1>0, AppendProperties, LenProperties
  <2>2. ~(isFile /\ isGroup)
    BY <1>4, <1>5
  <2>3. Count(v) <= Count(f) + 1 /\ Count(f) \in Nat /\ Count(v) \in Nat
    <3>1. PICK i \in Nat, j \in Nat : i = Len(o) /\ j = Len(g) /\ Len(Append(o, c)) = i + 1 /\ Len(Append(g, c)) = j + 1
      BY <2>1
    <3>2. Count(f) = i + j
      BY <1>1, <1>2, <3>1 DEF Count
    <3>3. Len(v.objects) = (IF isFile THEN i + 1 ELSE i) /\ Len(v.prefixes) = (IF isGroup THEN j + 1 ELSE j)
      BY <1>7, <3>1, Zenon
    <3>4. Count(v) = Len(v.objects) + Len(v.prefixes)
      BY DEF Count
    <3>5. CASE isFile
      <4>1. Len(v.objects) = i + 1 /\ Len(v.prefixes) = j
        BY <2>2, <3>3, <3>5, Zenon
      <4> QED BY ONLY i \in Nat, j \in Nat, <3>2, <3>4, <4>1
    <3>6. CASE ~isFile
      <4>1. Len(v.objects) = i /\ Len(v.prefixes) \in {j, j + 1}
        BY <3>3, <3>6, Zenon
      <4> QED BY ONLY i \in Nat, j \in Nat, <3>2, <3>4, <4>1
    <3> QED BY <3>5, <3>6
  <2>4. max # NoLimit => ~(Count(f) >= max)
    BY DEF Full
  <2> QED BY <2>3, <2>4 DEF Kept
<1> QED BY <1>15, <1>16, <1>17, Zenon DEF Underway

\* The child c that comes next.
NextChild(N, fs, grouped, max, root, C, f, D, S, dir, name, c) ==
    /\ grouped \in BOOLEAN /\ max \in Nat /\ f \in Partial(N) /\ S \in SUBSET C /\ dir \in Seq(N) /\ name \in N
    /\ c \in C /\ c = Append(dir, name) /\ KnownChild(N, fs, c) /\ c \notin S /\ c # root
    /\ Stage(fs, grouped, max, root, C, f, D, S)

\* Whatever the stage, the next child leads to a stage again.
LEMMA ChildStep ==
    ASSUME NEW N, NEW fs, NEW backend, NEW grouped, NEW max, NEW root, NEW C, NEW f, NEW D, NEW S,
           NEW dir, NEW name, NEW c, NextChild(N, fs, grouped, max, root, C, f, D, S, dir, name, c)
    PROVE  Stage(fs, grouped, max, root, C, Child(fs, backend, grouped, max, dir, f, name), D, S \cup {c})
<1>a. /\ grouped \in BOOLEAN /\ max \in Nat /\ f \in Partial(N) /\ S \in SUBSET C /\ dir \in Seq(N) /\ name \in N
      /\ c \in C /\ c = Append(dir, name) /\ KnownChild(N, fs, c) /\ c \notin S /\ c # root
      /\ Stage(fs, grouped, max, root, C, f, D, S)
  BY Zenon DEF NextChild
<1> USE <1>a
<1>1. PICK v : v = Child(fs, backend, grouped, max, dir, f, name)
  OBVIOUS
<1>2. v = IF ~Fine(f) \/ Full(f, max) THEN f
          ELSE IF backend = "local" THEN LocalEnter(fs, f, c, grouped) ELSE SftpEnter(fs, f, c, grouped)
  BY <1>1, Zenon DEF Child, Fine
<1>3. /\ LocalEnter(fs, f, c, grouped) \in Partial(N) /\ Adds(fs, grouped, f, c, LocalEnter(fs, f, c, grouped))
      /\ SftpEnter(fs, f, c, grouped) \in Partial(N) /\ Adds(fs, grouped, f, c, SftpEnter(fs, f, c, grouped))
  BY EnterIs
<1>4. Fine(f) /\ ~Full(f, max) => v \in Partial(N) /\ Adds(fs, grouped, f, c, v)
  BY <1>2, <1>3, Zenon
<1>5. CASE Broken(fs, C, f)
  <2>1. v = f
    BY <1>2, <1>5, BrokenIsNotFine, Zenon
  <2> QED BY <1>1, <1>5, <2>1, Zenon DEF Stage
<1>6. CASE Ended(fs, grouped, max, C, f)
  <2>1. v = f
    BY <1>2, <1>6, Zenon DEF Ended
  <2> QED BY <1>1, <1>6, <2>1, Zenon DEF Stage
<1>7. CASE Underway(fs, grouped, max, root, f, D, S) /\ Full(f, max)
  <2>1. v = f
    BY <1>2, <1>7, Zenon
  <2>2. Ended(fs, grouped, max, C, f)
    BY <1>7 DEF Underway, Ended
  <2> QED BY <1>1, <2>1, <2>2, Zenon DEF Stage
<1>8. CASE Underway(fs, grouped, max, root, f, D, S) /\ ~Full(f, max)
  <2>1. v \in Partial(N) /\ Adds(fs, grouped, f, c, v)
    BY <1>4, <1>8, Zenon DEF Underway, Lists
  <2>2. CASE Stat(fs, c) = "loop"
    <3>1. v = Failed("StorageError")
      BY <2>1, <2>2, Zenon DEF Adds
    <3>2. v.error = "StorageError"
      BY <3>1 DEF Failed, Listing
    <3>3. Broken(fs, C, v)
      BY <2>2, <3>2, Zenon DEF Broken
    <3> QED BY <1>1, <3>3, Zenon DEF Stage
  <2>3. CASE Stat(fs, c) # "loop"
    <3>1. Underway(fs, grouped, max, root, v, D, S \cup {c})
      <4>1. Underway(fs, grouped, max, root, f, D, S)
        BY <1>8
      <4>2. ~Full(f, max)
        BY <1>8
      <4>3. v \in Partial(N)
        BY <2>1
      <4>4. Adds(fs, grouped, f, c, v)
        BY <2>1
      <4>5. Addition(N, fs, grouped, max, root, f, v, D, S, c)
        BY <2>3, <4>1, <4>2, <4>3, <4>4, Zenon DEF Addition
      <4> QED BY ONLY <4>5, ChildAdded, Zenon
    <3> QED BY <1>1, <3>1, Zenon DEF Stage
  <2> QED BY <2>2, <2>3
<1> QED BY <1>5, <1>6, <1>7, <1>8, Zenon DEF Stage

\* What a listing is about: the children C of the root.
Setting(N, fs, grouped, max, root, C) ==
    /\ grouped \in BOOLEAN /\ max \in Nat /\ Tree(N, fs) /\ Named(fs) /\ IsFiniteSet(DOMAIN fs)
    /\ Lawful(N, fs, root) /\ C = Children(fs, root, grouped)
    /\ \A c \in Children(fs, root, FALSE) : KnownChild(N, fs, c)

\* The children of the directories in D.
Gone(fs, D) == UNION {Kids(fs, d) : d \in D}

\* A listing with groups does not leave the root.
Goes(fs, grouped, root, dir) == dir \in Entered(fs, root) /\ (grouped => dir = root)

Enclosed(N, fs, grouped, root, C) ==
    /\ root \in Seq(N) /\ root \notin C /\ C \subseteq Seq(N) /\ IsFiniteSet(C)
    /\ C \subseteq Children(fs, root, FALSE) /\ (~grouped => C = Children(fs, root, FALSE))
    /\ (grouped => C = Kids(fs, root))
    /\ \A c \in C : KnownChild(N, fs, c)
    /\ \A d : Goes(fs, grouped, root, d) =>
          d \in Seq(N) /\ Kids(fs, d) \subseteq C /\ IsFiniteSet(NamesIn(fs, d)) /\ NamesIn(fs, d) \subseteq N

\* The loops stay among the children they are about.
LEMMA KidsInside ==
    ASSUME NEW N, NEW fs, NEW grouped, NEW max, NEW root, NEW C, Setting(N, fs, grouped, max, root, C)
    PROVE  Enclosed(N, fs, grouped, root, C)
<1> USE DEF Enclosed
<1>0. Lawful(N, fs, root) /\ C = Children(fs, root, grouped) /\ grouped \in BOOLEAN
      /\ \A c \in Children(fs, root, FALSE) : KnownChild(N, fs, c)
  BY Zenon DEF Setting
<1>1. PICK K : K = Children(fs, root, FALSE)
  OBVIOUS
<1>2. /\ root \in Seq(N) /\ root \notin K /\ K \subseteq Seq(N) /\ IsFiniteSet(K)
      /\ \A d \in Entered(fs, root) :
            d \in Seq(N) /\ IsFiniteSet(NamesIn(fs, d)) /\ NamesIn(fs, d) \subseteq N /\ Kids(fs, d) \subseteq K
      /\ Children(fs, root, TRUE) = Kids(fs, root)
  BY <1>0, <1>1, Zenon DEF Lawful
<1>3. root \in Entered(fs, root)
  BY DEF Entered
<1>4. CASE grouped
  <2>1. C = Kids(fs, root) /\ C \subseteq K
    <3>1. C = Children(fs, root, TRUE)
      BY <1>0, <1>4
    <3> QED BY <1>2, <1>3, <3>1
  <2>2. IsFiniteSet(C)
    BY <1>2, <2>1, FS_Subset
  <2> QED BY <1>0, <1>1, <1>2, <1>4, <2>1, <2>2 DEF Goes
<1>5. CASE ~grouped
  <2>1. C = K
    BY <1>0, <1>1, <1>5
  <2> QED BY <1>0, <1>1, <1>2, <1>5, <2>1 DEF Goes
<1> QED BY <1>4, <1>5

\* The children of another directory are others.
LEMMA OtherKids ==
    ASSUME NEW N, NEW fs, NEW D, NEW dir \in Seq(N), dir \notin D, NEW n \in N,
           \A d \in D : d \in Seq(N) /\ NamesIn(fs, d) \subseteq N
    PROVE  Append(dir, n) \notin Gone(fs, D)
<1>1. SUFFICES ASSUME Append(dir, n) \in Gone(fs, D) PROVE FALSE
  OBVIOUS
<1>2. PICK d \in D : \E x \in NamesIn(fs, d) : Append(dir, n) = Append(d, x)
  BY <1>1 DEF Gone, Kids
<1>2a. PICK x \in NamesIn(fs, d) : Append(dir, n) = Append(d, x)
  BY <1>2
<1>3. d \in Seq(N) /\ x \in N
  BY <1>2
<1>4. dir = d
  BY <1>2a, <1>3, AppendInjective
<1> QED BY <1>4

\* The directory that comes next.
NextOne(N, fs, backend, grouped, max, root, C, f, D, dir, base, names) ==
    /\ Setting(N, fs, grouped, max, root, C) /\ \A d \in D : Goes(fs, grouped, root, d)
    /\ ComesNext(N, fs, max, f, dir, base, names)
    /\ Goes(fs, grouped, root, dir) /\ dir \notin D
    /\ Underway(fs, grouped, max, root, base, D \cup {dir}, Gone(fs, D))

\* When all its names are gone through, the directory is one that is done.
LEMMA ChildrenStep ==
    ASSUME NEW N, NEW fs, NEW backend, NEW grouped, NEW max, NEW root, NEW C, NEW f, NEW D,
           NEW dir, NEW base, NEW names,
           NextOne(N, fs, backend, grouped, max, root, C, f, D, dir, base, names)
    PROVE  Stage(fs, grouped, max, root, C, OneDirectory(fs, backend, grouped, max, f),
                 D \cup {dir}, Gone(fs, D \cup {dir}))
<1>0. /\ Setting(N, fs, grouped, max, root, C) /\ \A d \in D : Goes(fs, grouped, root, d)
      /\ ComesNext(N, fs, max, f, dir, base, names)
      /\ Goes(fs, grouped, root, dir) /\ dir \notin D
      /\ Underway(fs, grouped, max, root, base, D \cup {dir}, Gone(fs, D))
  BY Zenon DEF NextOne
<1>1. grouped \in BOOLEAN /\ max \in Nat
  BY <1>0, Zenon DEF Setting
<1>2. /\ root \notin C /\ \A c \in C : KnownChild(N, fs, c)
      /\ \A d : Goes(fs, grouped, root, d) =>
            d \in Seq(N) /\ Kids(fs, d) \subseteq C /\ IsFiniteSet(NamesIn(fs, d)) /\ NamesIn(fs, d) \subseteq N
  BY <1>0, KidsInside DEF Enclosed
<1>3. names \in Seq(N) /\ names = SetToSeq(NamesIn(fs, dir)) /\ dir \in Seq(N) /\ base \in Partial(N)
  BY <1>0, Zenon DEF ComesNext
<1>4. IsInjective(names) /\ ToSet(names) = NamesIn(fs, dir)
  <2>1. IsFiniteSet(NamesIn(fs, dir))
    BY <1>0, <1>2
  <2> QED BY <1>3, <2>1, SetAsSeq
<1>5. PICK g : /\ ChildByChild(N, fs, backend, grouped, max, dir, names, g)
               /\ g[0] = base /\ g[Len(names)] = OneDirectory(fs, backend, grouped, max, f)
  <2>1. GoneThrough(N, fs, backend, grouped, max, f, dir, base, names)
    BY <1>0, <1>1, DirectoryFold
  <2> QED BY <2>1, Zenon DEF GoneThrough
<1>6. PICK n \in Nat : n = Len(names) /\ DOMAIN names = 1..n
  BY <1>3, LenProperties
<1> DEFINE Got(m) == Gone(fs, D) \cup {Append(dir, names[i]) : i \in 1..m}
           Right(m) == Stage(fs, grouped, max, root, C, g[m], D \cup {dir}, Got(m))
<1>7. ASSUME NEW m \in 0..n PROVE Got(m) \subseteq C
  <2>1. Gone(fs, D) \subseteq C
    BY <1>0, <1>2 DEF Gone
  <2>2. ASSUME NEW i \in 1..m PROVE Append(dir, names[i]) \in C
    <3>1. names[i] \in NamesIn(fs, dir)
      BY <1>4, <1>6 DEF ToSet
    <3> QED BY <1>0, <1>2, <3>1 DEF Kids
  <2> QED BY <2>1, <2>2
<1>8. Right(0)
  <2>1. Got(0) = Gone(fs, D)
    OBVIOUS
  <2>2. Underway(fs, grouped, max, root, g[0], D \cup {dir}, Got(0))
    BY <1>0, <1>5, <2>1, Zenon
  <2> QED BY <2>2, Zenon DEF Stage
<1>9. ASSUME NEW m \in 1..n, Right(m - 1) PROVE Right(m)
  <2>1. m - 1 \in 0..n /\ m \in 0..n
    OBVIOUS
  <2>2. g[m - 1] \in Partial(N) /\ g[m] = Child(fs, backend, grouped, max, dir, g[m - 1], names[m])
    BY <1>5, <1>6, <2>1, Zenon DEF ChildByChild
  <2>3. names[m] \in N /\ names[m] \in NamesIn(fs, dir)
    BY <1>3, <1>4, <1>6 DEF ToSet
  <2>4. PICK c : c = Append(dir, names[m])
    OBVIOUS
  <2>5. c \in C
    BY <1>0, <1>2, <2>3, <2>4 DEF Kids
  <2>6. c \notin Got(m - 1)
    <3>1. c \notin Gone(fs, D)
      <4>1. \A d \in D : d \in Seq(N) /\ NamesIn(fs, d) \subseteq N
        BY <1>0, <1>2
      <4> QED BY <1>0, <1>3, <2>3, <2>4, <4>1, OtherKids
    <3>2. ASSUME NEW i \in 1..(m - 1) PROVE c # Append(dir, names[i])
      <4>1. i \in DOMAIN names /\ m \in DOMAIN names /\ i # m /\ names[i] \in N
        BY <1>3, <1>6
      <4>2. names[i] # names[m]
        BY <1>4, <4>1 DEF IsInjective
      <4> QED BY <1>3, <2>3, <2>4, <4>1, <4>2, AppendInjective
    <3> QED BY <3>1, <3>2
  <2>7. Got(m) = Got(m - 1) \cup {c}
    <3>1. 1..m = (1..(m - 1)) \cup {m}
      OBVIOUS
    <3> QED BY <2>4, <3>1
  <2>8. Got(m - 1) \in SUBSET C
    BY <1>7, <2>1
  <2>9. Stage(fs, grouped, max, root, C, g[m - 1], D \cup {dir}, Got(m - 1))
    BY <1>9
  <2>10. PICK S : S = Got(m - 1)
    OBVIOUS
  <2> HIDE DEF Got
  <2>11. Stage(fs, grouped, max, root, C, Child(fs, backend, grouped, max, dir, g[m - 1], names[m]),
               D \cup {dir}, S \cup {c})
    <3>1. /\ S \in SUBSET C /\ c \in C /\ c = Append(dir, names[m]) /\ KnownChild(N, fs, c) /\ c \notin S /\ c # root
          /\ Stage(fs, grouped, max, root, C, g[m - 1], D \cup {dir}, S)
      BY <1>2, <2>4, <2>5, <2>6, <2>8, <2>9, <2>10, Zenon
    <3>2. NextChild(N, fs, grouped, max, root, C, g[m - 1], D \cup {dir}, S, dir, names[m], c)
      BY <1>1, <1>3, <2>2, <2>3, <3>1, Zenon DEF NextChild
    <3> QED BY ONLY <3>2, ChildStep, Zenon
  <2> QED BY <2>2, <2>7, <2>10, <2>11, Zenon
<1>10. Right(n)
  <2> DEFINE G == {m \in 0..n : Right(m)}
  <2> HIDE DEF Right
  <2>1. 0 \in G
    BY <1>8
  <2>2. ASSUME NEW m \in 1..n, m - 1 \in G PROVE m \in G
    <3>1. m \in 0..n
      OBVIOUS
    <3> QED BY <1>9, <2>2, <3>1
  <2>3. n \in 0..n
    OBVIOUS
  <2>4. 0..n \subseteq G
    <3> HIDE DEF G
    <3> QED BY <2>1, <2>2, UpInduction
  <2> QED BY <2>3, <2>4
<1>11. Got(n) = Gone(fs, D \cup {dir})
  <2>1. {Append(dir, names[i]) : i \in 1..n} = Kids(fs, dir)
    BY <1>4, <1>6 DEF Kids, ToSet
  <2> QED BY <2>1 DEF Gone
<1> QED BY <1>5, <1>6, <1>10, <1>11, Zenon

Finished(f, max) == ~Fine(f) \/ f.pending = <<>> \/ Full(f, max)

\* Where a listing stands between two directories.
Between(N, fs, grouped, max, root, C, f, D) ==
    /\ Setting(N, fs, grouped, max, root, C) /\ f \in Partial(N)
    /\ \A d \in D : Goes(fs, grouped, root, d)
    /\ Stage(fs, grouped, max, root, C, f, D, Gone(fs, D))

\* The directories among the children gone through are ones to enter.
LEMMA WaitingGoes ==
    ASSUME NEW N, NEW fs, NEW grouped, NEW max, NEW root, NEW C, NEW f, NEW D,
           Between(N, fs, grouped, max, root, C, f, D)
    PROVE  /\ Gone(fs, D) \subseteq C
           /\ \A d \in {root} \cup DeeperOf(fs, grouped, Gone(fs, D)) : Goes(fs, grouped, root, d)
<1>1. /\ Setting(N, fs, grouped, max, root, C) /\ \A d \in D : Goes(fs, grouped, root, d)
  BY Zenon DEF Between
<1>e. Enclosed(N, fs, grouped, root, C)
  BY <1>1, KidsInside
<1>2. /\ C \subseteq Children(fs, root, FALSE)
      /\ \A d : Goes(fs, grouped, root, d) => Kids(fs, d) \subseteq C
  BY <1>e, Zenon DEF Enclosed
<1>3. Gone(fs, D) \subseteq C
  <2>1. ASSUME NEW c \in Gone(fs, D) PROVE c \in C
    <3>1. PICK d \in D : c \in Kids(fs, d)
      BY DEF Gone
    <3> QED BY <1>1, <1>2, <3>1
  <2> QED BY <2>1
<1>4. Goes(fs, grouped, root, root)
  BY DEF Goes, Entered
<1>5. ASSUME NEW d \in DeeperOf(fs, grouped, Gone(fs, D)) PROVE Goes(fs, grouped, root, d)
  <2>1. d \in Children(fs, root, FALSE) /\ LStat(fs, d) = "dir" /\ ~grouped
    BY <1>2, <1>3 DEF DeeperOf
  <2> QED BY <2>1 DEF Goes, Entered
<1> QED BY <1>3, <1>4, <1>5

\* Unless the loop is over, one more directory is done.
LEMMA DirectoryStep ==
    ASSUME NEW N, NEW fs, NEW backend, NEW grouped, NEW max, NEW root, NEW C, NEW f, NEW D,
           Between(N, fs, grouped, max, root, C, f, D), ~Finished(f, max)
    PROVE  \E dir : /\ dir \notin D /\ Goes(fs, grouped, root, dir)
                    /\ Between(N, fs, grouped, max, root, C,
                               OneDirectory(fs, backend, grouped, max, f), D \cup {dir})
<1>1. /\ Setting(N, fs, grouped, max, root, C) /\ f \in Partial(N)
      /\ \A d \in D : Goes(fs, grouped, root, d)
      /\ Stage(fs, grouped, max, root, C, f, D, Gone(fs, D))
  BY Zenon DEF Between
<1>2. Fine(f) /\ f.pending # <<>> /\ ~Full(f, max)
  BY Zenon DEF Finished
<1>3. Underway(fs, grouped, max, root, f, D, Gone(fs, D))
  BY <1>1, <1>2, BrokenIsNotFine, Zenon DEF Stage, Ended
<1>4. grouped \in BOOLEAN /\ max \in Nat /\ Tree(N, fs) /\ Named(fs) /\ IsFiniteSet(DOMAIN fs)
  BY <1>1, Zenon DEF Setting
<1>5. PICK p \in Seq(Seq(N)) : p = f.pending
  BY <1>1 DEF Partial
<1>6. p # <<>> /\ IsInjective(p) /\ ToSet(p) \cap D = {}
      /\ ToSet(p) \cup D = {root} \cup DeeperOf(fs, grouped, Gone(fs, D))
  BY <1>2, <1>3, <1>5, Zenon DEF Underway, Waits
<1>7. PICK dir \in Seq(N) : dir = Last(p)
  BY <1>5, <1>6, OneLess
<1>8. /\ Front(p) \in Seq(Seq(N)) /\ IsInjective(Front(p))
      /\ ToSet(p) = ToSet(Front(p)) \cup {dir} /\ dir \notin ToSet(Front(p))
  BY <1>6, <1>7, OneLess
<1>9. dir \notin D /\ Goes(fs, grouped, root, dir)
  <2>1. \A d \in {root} \cup DeeperOf(fs, grouped, Gone(fs, D)) : Goes(fs, grouped, root, d)
    BY WaitingGoes
  <2> QED BY <1>6, <1>8, <2>1
<1>10. PICK base \in Partial(N) : base = [f EXCEPT !.pending = Front(@)]
  BY <1>1, <1>5, <1>8 DEF Partial
<1>11. base.error = f.error /\ base.objects = f.objects /\ base.prefixes = f.prefixes /\ base.pending = Front(p)
  BY <1>1, <1>5, <1>10 DEF Partial
<1>12. PICK names \in Seq(N) : names = SetToSeq(NamesIn(fs, dir))
  BY <1>4, NamesTyped
<1>13. ComesNext(N, fs, max, f, dir, base, names)
  BY <1>2, <1>5, <1>7, <1>10, <1>12, Zenon DEF ComesNext
<1>14. Underway(fs, grouped, max, root, base, D \cup {dir}, Gone(fs, D))
  <2>1. Lists(fs, grouped, base, Gone(fs, D))
    BY <1>3, <1>11, Zenon DEF Underway, Lists, Fine
  <2>2. Waits(fs, grouped, root, base, D \cup {dir}, Gone(fs, D))
    BY <1>6, <1>8, <1>11 DEF Waits
  <2>3. Count(base) = Count(f)
    BY <1>11, Zenon DEF Count
  <2>4. Kept(base, max)
    BY <1>3, <2>3, Zenon DEF Underway, Kept
  <2> QED BY <2>1, <2>2, <2>4, Zenon DEF Underway
<1>15. NextOne(N, fs, backend, grouped, max, root, C, f, D, dir, base, names)
  BY <1>1, <1>9, <1>13, <1>14, Zenon DEF NextOne
<1>16. Stage(fs, grouped, max, root, C, OneDirectory(fs, backend, grouped, max, f),
             D \cup {dir}, Gone(fs, D \cup {dir}))
  BY <1>15, ChildrenStep
<1>17. OneDirectory(fs, backend, grouped, max, f) \in Partial(N)
  BY <1>1, <1>4, DirectoryTyped
<1>18. \A d \in D \cup {dir} : Goes(fs, grouped, root, d)
  BY <1>1, <1>9
<1>19. Between(N, fs, grouped, max, root, C, OneDirectory(fs, backend, grouped, max, f), D \cup {dir})
  BY <1>1, <1>16, <1>17, <1>18, Zenon DEF Between
<1> QED BY <1>9, <1>19

\* When no directory is left pending, every child has come.
LEMMA AllGone ==
    ASSUME NEW N, NEW fs, NEW grouped, NEW max, NEW root, NEW C, NEW f, NEW D,
           Between(N, fs, grouped, max, root, C, f, D),
           D = {root} \cup DeeperOf(fs, grouped, Gone(fs, D))
    PROVE  Gone(fs, D) = C
<1>1. Setting(N, fs, grouped, max, root, C) /\ \A d \in D : Goes(fs, grouped, root, d)
  BY Zenon DEF Between
<1>2. Gone(fs, D) \subseteq C
  <2>1. Between(N, fs, grouped, max, root, C, f, D)
    OBVIOUS
  <2> QED BY ONLY <2>1, WaitingGoes
<1>e. Enclosed(N, fs, grouped, root, C)
  BY <1>1, KidsInside
<1>3. /\ C \subseteq Seq(N) /\ (~grouped => C = Children(fs, root, FALSE)) /\ (grouped => C = Kids(fs, root))
  BY <1>e, Zenon DEF Enclosed
<1>4. root \in D
  OBVIOUS
<1>5. CASE grouped
  <2>1. Kids(fs, root) \subseteq Gone(fs, D)
    BY <1>4 DEF Gone
  <2> QED BY <1>2, <1>3, <1>5, <2>1
<1>6. CASE ~grouped
  <2> SUFFICES ASSUME C \ Gone(fs, D) # {} PROVE FALSE
    BY <1>2
  <2>1. PICK mu \in [C -> Nat] : mu = [c \in C |-> Len(c)]
    <3>1. [c \in C |-> Len(c)] \in [C -> Nat]
      <4>1. \A c \in C : Len(c) \in Nat
        BY <1>3, LenProperties
      <4> QED BY <4>1
    <3> QED BY <3>1
  <2>2. PICK c \in C \ Gone(fs, D) : \A k \in C \ Gone(fs, D) : mu[c] <= mu[k]
    BY <2>1, LeastBy
  <2>3. c \in Seq(N) /\ c # <<>> /\ Front(c) \in Entered(fs, root) /\ Last(c) \in NamesIn(fs, Front(c))
    <3>1. c \in Children(fs, root, FALSE)
      BY <1>3, <1>6, <2>2
    <3>2. Lawful(N, fs, root)
      BY <1>1, Zenon DEF Setting
    <3> QED BY <1>3, <2>2, <3>1, <3>2, Zenon DEF Lawful
  <2>4. PICK d \in Seq(N) : d = Front(c) /\ Len(d) = Len(c) - 1 /\ c = Append(d, Last(c)) /\ Len(c) \in Nat
    BY <2>3, FrontLast
  <2>5. d \notin D
    <3>1. d \in D => c \in Gone(fs, D)
      BY <2>3, <2>4, SMTT(30) DEF Gone, Kids
    <3> QED BY <2>2, <3>1
  <2>6. d \in C /\ LStat(fs, d) = "dir"
    BY <1>3, <1>4, <1>6, <2>3, <2>4, <2>5 DEF Entered
  <2>7. d \in Gone(fs, D)
    <3>1. mu[d] = Len(d) /\ mu[c] = Len(c)
      BY <2>1, <2>2, <2>6
    <3>2. ~(mu[c] <= mu[d])
      BY <2>4, <3>1
    <3> QED BY <2>2, <2>6, <3>2
  <2>8. d \in DeeperOf(fs, grouped, Gone(fs, D))
    BY <1>6, <2>6, <2>7 DEF DeeperOf
  <2> QED BY <2>5, <2>8
<1> QED BY <1>5, <1>6

\* The root alone is pending at first.
LEMMA AtFirst ==
    ASSUME NEW N, NEW fs, NEW grouped, NEW max, NEW root, NEW C, Setting(N, fs, grouped, max, root, C),
           NEW base, base = [Empty EXCEPT !.pending = <<root>>]
    PROVE  Between(N, fs, grouped, max, root, C, base, {})
<1>1. root \in Seq(N)
  <2>1. Enclosed(N, fs, grouped, root, C)
    BY KidsInside
  <2> QED BY <2>1, Zenon DEF Enclosed
<1>2. max \in Nat
  BY Zenon DEF Setting
<1>3. PICK e \in Partial(N) : e = Empty
  BY FailedTyped
<1>4. Fine(e) /\ e.objects = <<>> /\ e.prefixes = <<>>
  <2>1. PICK none : none = ""
    OBVIOUS
  <2>2. e = [error |-> none, objects |-> <<>>, prefixes |-> <<>>, pending |-> <<>>]
    BY <1>3, <2>1, Zenon DEF Empty, Listing
  <2>3. e.error = none /\ e.objects = <<>> /\ e.prefixes = <<>>
    BY <2>2
  <2> QED BY <2>1, <2>3, Zenon DEF Fine
<1>5. <<root>> \in Seq(Seq(N)) /\ ToSet(<<root>>) = {root} /\ IsInjective(<<root>>)
  <2>0. <<root>> \in Seq(Seq(N)) /\ Len(<<root>>) = 1 /\ <<root>>[1] = root
    BY <1>1
  <2>a. PICK s \in Seq(Seq(N)) : s = <<root>> /\ Len(s) = 1 /\ s[1] = root
    BY <2>0, Zenon
  <2>b. DOMAIN s = {1}
    BY <2>a, LenProperties
  <2>1. PICK one \in Seq(Seq(N)) : one = <<root>> /\ DOMAIN one = {1} /\ one[1] = root
    BY <2>a, <2>b, Zenon
  <2>2. ToSet(one) = {root} /\ IsInjective(one)
    BY ONLY <2>1 DEF ToSet, IsInjective
  <2> QED BY <2>1, <2>2, Zenon
<1>6. base = [e EXCEPT !.pending = <<root>>]
  BY <1>3, Zenon
<1>7. base \in Partial(N) /\ base.error = e.error /\ base.objects = <<>> /\ base.prefixes = <<>>
      /\ base.pending = <<root>>
  BY ONLY <1>3, <1>4, <1>5, <1>6 DEF Partial
<1>8. Gone(fs, {}) = {}
  BY DEF Gone
<1>9. Lists(fs, grouped, base, {})
  <2>1. Fine(base)
    BY <1>4, <1>7, Zenon DEF Fine
  <2>2. FilesOf(fs, {}) = {} /\ GroupsOf(fs, grouped, {}) = {}
    BY DEF FilesOf, GroupsOf
  <2>3. \A c \in {} : Stat(fs, c) # "loop"
    OBVIOUS
  <2> QED BY <1>7, <2>1, <2>2, <2>3, NoneYet, Zenon DEF Lists
<1>10. Waits(fs, grouped, root, base, {}, {})
  <2>1. DeeperOf(fs, grouped, {}) = {}
    BY DEF DeeperOf
  <2> QED BY <1>5, <1>7, <2>1 DEF Waits
<1>11. Kept(base, max)
  <2>1. Count(base) = Len(<<>>) + Len(<<>>)
    BY <1>7, Zenon DEF Count
  <2>2. Count(base) = 0
    BY <2>1
  <2>3. Count(base) <= max
    BY ONLY <1>2, <2>2
  <2> QED BY <2>3, Zenon DEF Kept
<1>12. Stage(fs, grouped, max, root, C, base, {}, Gone(fs, {}))
  BY <1>8, <1>9, <1>10, <1>11, Zenon DEF Stage, Underway
<1>13. \A d \in {} : Goes(fs, grouped, root, d)
  OBVIOUS
<1> QED BY <1>7, <1>12, <1>13, Zenon DEF Between

\* Every round is one more directory, or nothing is left to do.
Rounds(N, fs, grouped, max, root, C, f, k) ==
    \E D : /\ Between(N, fs, grouped, max, root, C, f, D)
           /\ Finished(f, max) \/ (IsFiniteSet(D) /\ Cardinality(D) = k)

\* A round keeps it so.
LEMMA RoundStep ==
    ASSUME NEW N, NEW fs, NEW backend, NEW grouped, NEW max, NEW root, NEW C, NEW f, NEW k \in Nat,
           Rounds(N, fs, grouped, max, root, C, f, k)
    PROVE  Rounds(N, fs, grouped, max, root, C, OneDirectory(fs, backend, grouped, max, f), k + 1)
<1>1. PICK D : /\ Between(N, fs, grouped, max, root, C, f, D)
               /\ Finished(f, max) \/ (IsFiniteSet(D) /\ Cardinality(D) = k)
  BY Zenon DEF Rounds
<1>2. CASE Finished(f, max)
  <2>1. OneDirectory(fs, backend, grouped, max, f) = f
    BY <1>2, Zenon DEF OneDirectory, Finished, Fine
  <2> QED BY <1>1, <1>2, <2>1, Zenon DEF Rounds
<1>3. CASE ~Finished(f, max)
  <2>1. PICK dir : /\ dir \notin D
                   /\ Between(N, fs, grouped, max, root, C, OneDirectory(fs, backend, grouped, max, f), D \cup {dir})
    BY <1>1, <1>3, DirectoryStep
  <2>2. IsFiniteSet(D) /\ Cardinality(D) = k
    BY <1>1, <1>3
  <2>3. IsFiniteSet(D \cup {dir}) /\ Cardinality(D \cup {dir}) = k + 1
    <3>1. Cardinality(D \cup {dir}) = IF dir \in D THEN Cardinality(D) ELSE Cardinality(D) + 1
      BY <2>2, FS_AddElement
    <3>2. IsFiniteSet(D \cup {dir})
      BY <2>2, FS_AddElement
    <3> QED BY <2>1, <2>2, <3>1, <3>2
  <2> QED BY <2>1, <2>3, Zenon DEF Rounds
<1> QED BY <1>2, <1>3

Outcome(fs, grouped, max, C, f) ==
    Broken(fs, C, f) \/ Ended(fs, grouped, max, C, f) \/ (Lists(fs, grouped, f, C) /\ Kept(f, max))

\* After as many rounds as there can be directories, nothing is left to do.
LEMMA AtLastOver ==
    ASSUME NEW N, NEW fs, NEW grouped, NEW max, NEW root, NEW C, NEW f,
           Rounds(N, fs, grouped, max, root, C, f, Cardinality(DOMAIN fs) + 1)
    PROVE  Outcome(fs, grouped, max, C, f)
<1>1. PICK D : /\ Between(N, fs, grouped, max, root, C, f, D)
               /\ Finished(f, max) \/ (IsFiniteSet(D) /\ Cardinality(D) = Cardinality(DOMAIN fs) + 1)
  BY Zenon DEF Rounds
<1>2. /\ Setting(N, fs, grouped, max, root, C) /\ f \in Partial(N) /\ \A d \in D : Goes(fs, grouped, root, d)
      /\ Stage(fs, grouped, max, root, C, f, D, Gone(fs, D))
  BY <1>1, Zenon DEF Between
<1>3. Gone(fs, D) \subseteq C
  BY <1>1, WaitingGoes
<1>4. \A d \in {root} \cup DeeperOf(fs, grouped, Gone(fs, D)) : d \in Entered(fs, root)
  <2>1. \A d \in {root} \cup DeeperOf(fs, grouped, Gone(fs, D)) : Goes(fs, grouped, root, d)
    BY <1>1, WaitingGoes
  <2> QED BY <2>1 DEF Goes
<1>5. CASE Underway(fs, grouped, max, root, f, D, Gone(fs, D))
  <2>1. Lists(fs, grouped, f, Gone(fs, D)) /\ Waits(fs, grouped, root, f, D, Gone(fs, D)) /\ Kept(f, max)
    BY <1>5, Zenon DEF Underway
  <2>2. Fine(f)
    BY <2>1, Zenon DEF Lists
  <2>3. CASE Full(f, max)
    BY <1>3, <2>1, <2>3 DEF Outcome, Ended
  <2>4. CASE ~Full(f, max)
    <3>1. PICK p \in Seq(Seq(N)) : p = f.pending
      BY <1>2 DEF Partial
    <3>2. ToSet(p) \cap D = {} /\ ToSet(p) \cup D = {root} \cup DeeperOf(fs, grouped, Gone(fs, D))
      BY <2>1, <3>1, Zenon DEF Waits
    <3>3. ToSet(p) = {}
      <4>1. CASE p = <<>>
        BY <4>1, NoneYet
      <4>2. CASE p # <<>>
        <5>1. IsFiniteSet(D) /\ Cardinality(D) = Cardinality(DOMAIN fs) + 1
          BY <1>1, <2>2, <2>4, <3>1, <4>2, Zenon DEF Finished
        <5>2. /\ IsFiniteSet(Entered(fs, root)) /\ Cardinality(DOMAIN fs) \in Nat
              /\ Cardinality(Entered(fs, root)) <= Cardinality(DOMAIN fs) + 1
          <6>1. Lawful(N, fs, root)
            BY <1>2, Zenon DEF Setting
          <6> QED BY <6>1, Zenon DEF Lawful
        <5>3. D \in SUBSET Entered(fs, root)
          BY <1>2 DEF Goes
        <5>4. Cardinality(D) <= Cardinality(Entered(fs, root))
              /\ (Cardinality(Entered(fs, root)) = Cardinality(D) => Entered(fs, root) = D)
          BY ONLY <5>2, <5>3, FS_Subset
        <5>5. Cardinality(Entered(fs, root)) \in Nat
          BY <5>2, FS_CardinalityType
        <5>6. Entered(fs, root) = D
          BY <5>1, <5>2, <5>4, <5>5
        <5> QED BY <1>4, <3>2, <5>6
      <4> QED BY <4>1, <4>2
    <3>4. D = {root} \cup DeeperOf(fs, grouped, Gone(fs, D))
      BY <3>2, <3>3
    <3>5. Gone(fs, D) = C
      BY <1>1, <3>4, AllGone
    <3> QED BY <2>1, <3>5, Zenon DEF Outcome
  <2> QED BY <2>3, <2>4
<1> QED BY <1>2, <1>5, Zenon DEF Stage, Outcome

\* A listing fails for a child that is a loop, is cut off where the limit is
\* reached, or has every child there is.
LEMMA Traversed ==
    ASSUME NEW N, NEW fs, NEW backend, NEW grouped, NEW max, NEW root, NEW C, Setting(N, fs, grouped, max, root, C)
    PROVE  /\ Traverse(fs, backend, root, grouped, max) \in Partial(N)
           /\ Outcome(fs, grouped, max, C, Traverse(fs, backend, root, grouped, max))
<1>1. grouped \in BOOLEAN /\ Tree(N, fs) /\ Named(fs) /\ IsFiniteSet(DOMAIN fs)
  BY Zenon DEF Setting
<1>2. PICK base : base = [Empty EXCEPT !.pending = <<root>>]
  OBVIOUS
<1>3. Between(N, fs, grouped, max, root, C, base, {})
  BY <1>2, AtFirst
<1>4. base \in Partial(N)
  BY <1>3, Zenon DEF Between
<1>5. PICK n \in Nat : n = Cardinality(DOMAIN fs) + 1
  BY <1>1, FS_CardinalityType
<1>6. PICK g : /\ RoundByRound(N, fs, backend, grouped, max, n, g)
               /\ g[0] = base /\ g[n] = Traverse(fs, backend, root, grouped, max)
  BY <1>1, <1>2, <1>4, <1>5, TraverseFold
<1> DEFINE G == {k \in 0..n : Rounds(N, fs, grouped, max, root, C, g[k], k)}
<1>7. 0 \in G
  <2>1. IsFiniteSet({}) /\ Cardinality({}) = 0
    BY FS_EmptySet
  <2>2. Rounds(N, fs, grouped, max, root, C, g[0], 0)
    BY <1>3, <1>6, <2>1, Zenon DEF Rounds
  <2> QED BY <2>2
<1>8. ASSUME NEW k \in 1..n, k - 1 \in G PROVE k \in G
  <2>1. k \in 0..n /\ k - 1 \in Nat /\ (k - 1) + 1 = k
    OBVIOUS
  <2>2. Rounds(N, fs, grouped, max, root, C, g[k - 1], k - 1)
    BY <1>8
  <2>3. PICK j \in Nat : j = k - 1 /\ j + 1 = k
    BY <2>1
  <2>4. Rounds(N, fs, grouped, max, root, C, OneDirectory(fs, backend, grouped, max, g[j]), j + 1)
    BY <2>2, <2>3, RoundStep
  <2>5. g[k] = OneDirectory(fs, backend, grouped, max, g[k - 1])
    BY <1>6, Zenon DEF RoundByRound
  <2>6. Rounds(N, fs, grouped, max, root, C, g[k], k)
    BY <2>3, <2>4, <2>5, Zenon
  <2> QED BY <2>1, <2>6
<1>9. n \in G
  <2>1. n \in 0..n
    OBVIOUS
  <2>2. 0..n \subseteq G
    <3> HIDE DEF G
    <3> QED BY <1>7, <1>8, UpInduction
  <2> QED BY <2>1, <2>2
<1>10. Rounds(N, fs, grouped, max, root, C, g[n], Cardinality(DOMAIN fs) + 1)
  BY <1>5, <1>9
<1>11. n \in 0..n
  OBVIOUS
<1> QED BY <1>6, <1>10, <1>11, AtLastOver, Zenon DEF RoundByRound

\* A directory that can be listed sets the loops up.
LEMMA SettingOf ==
    ASSUME NEW N, NEW fs, NEW root, NEW at, Listable(N, fs, root, at),
           NEW grouped \in BOOLEAN, NEW max \in Nat
    PROVE  Setting(N, fs, grouped, max, root, Children(fs, root, grouped))
<1>1. Tree(N, fs) /\ Named(fs) /\ IsFiniteSet(DOMAIN fs)
  BY Zenon DEF Listable
<1>2. Lawful(N, fs, root)
  BY ListableLawful
<1>3. PICK K : K = Children(fs, root, FALSE)
  OBVIOUS
<1>4. /\ K \subseteq Seq(N)
      /\ \A c \in K : LStat(fs, c) \in {"file", "dir", "special", "link"}
                      /\ (LStat(fs, c) # "link" => Stat(fs, c) = LStat(fs, c))
  BY <1>2, <1>3, Zenon DEF Lawful
<1>5. ASSUME NEW c \in K PROVE KnownChild(N, fs, c)
  <2>1. c \in Seq(N)
    BY <1>4
  <2>2. Stat(fs, c) \in AllStats
    <3>1. PICK st : st = StatsOf(fs, c)
      OBVIOUS
    <3>2. StatsInOrder(st, Len(c))
      BY <1>1, <2>1, <3>1, StatsAlong
    <3>3. Len(c) \in 0..Len(c) /\ SubSeq(c, 1, Len(c)) = c
      BY <2>1, Beginnings
    <3>4. st[Len(c)] = Stat(fs, c)
      BY <3>1, <3>3 DEF StatsOf
    <3> QED BY <3>2, <3>3, <3>4, Zenon DEF StatsInOrder
  <2>3. /\ LStat(fs, c) \in {"file", "dir", "special", "link"}
        /\ (LStat(fs, c) # "link" => Stat(fs, c) = LStat(fs, c))
    BY <1>4
  <2> QED BY <2>1, <2>2, <2>3, Zenon DEF KnownChild
<1> QED BY <1>1, <1>2, <1>3, <1>5 DEF Setting

\* What a listing counts are the files and the groups it lists.
Counted(fs, grouped, f, T) ==
    /\ Len(f.objects) \in Nat /\ Len(f.objects) = Cardinality(FilesOf(fs, T))
    /\ Len(f.prefixes) \in Nat /\ Len(f.prefixes) = Cardinality(GroupsOf(fs, grouped, T))

\* Each is listed once, so that the lists are as long as the sets are large.
LEMMA ListsCounted ==
    ASSUME NEW N, NEW fs, NEW grouped, NEW T, NEW f \in Partial(N), Lists(fs, grouped, f, T)
    PROVE  Counted(fs, grouped, f, T)
<1>1. PICK o \in Seq(Seq(N)) : o = f.objects
  BY DEF Partial
<1>2. PICK g \in Seq(Seq(N)) : g = f.prefixes
  BY DEF Partial
<1>3. IsInjective(o) /\ IsInjective(g) /\ ToSet(o) = FilesOf(fs, T) /\ ToSet(g) = GroupsOf(fs, grouped, T)
  BY <1>1, <1>2, Zenon DEF Lists
<1>4. Cardinality(ToSet(o)) = Len(o) /\ Cardinality(ToSet(g)) = Len(g)
  BY <1>3, CountsItsElements
<1>5. Len(o) \in Nat /\ Len(g) \in Nat
  BY LenProperties
<1> QED BY <1>1, <1>2, <1>3, <1>4, <1>5, Zenon DEF Counted

\* What is listed of a directory.
LEMMA OfDirectory ==
    ASSUME NEW fs, NEW grouped \in BOOLEAN, NEW root, Stat(fs, root) = "dir",
           NEW C, C = Children(fs, root, grouped)
    PROVE  /\ Listed(fs, root, grouped) = FilesOf(fs, C)
           /\ Groups(fs, root, grouped) = GroupsOf(fs, grouped, C)
           /\ MustFail(fs, root, grouped) <=> \E c \in C : Stat(fs, c) = "loop"
<1>1. Listed(fs, root, grouped) = FilesOf(fs, C)
  BY DEF Listed, FilesOf
<1>2. Groups(fs, root, grouped) = GroupsOf(fs, grouped, C)
  BY DEF Groups, GroupsOf
<1>3. MustFail(fs, root, grouped) <=> \E c \in C : Stat(fs, c) = "loop"
  BY DEF MustFail
<1> QED BY <1>1, <1>2, <1>3

\* A listing of all children is the one that was asked for.
LEMMA FullListing ==
    ASSUME NEW N, NEW fs, NEW grouped, NEW max \in Nat, NEW C, IsFiniteSet(C),
           NEW f \in Partial(N), Lists(fs, grouped, f, C), Kept(f, max)
    PROVE  IsListing(f, FilesOf(fs, C), GroupsOf(fs, grouped, C), max)
<1>0. Counted(fs, grouped, f, C)
  BY ListsCounted
<1>1. PICK i \in Nat, j \in Nat : /\ i = Len(f.objects) /\ i = Cardinality(FilesOf(fs, C))
                                  /\ j = Len(f.prefixes) /\ j = Cardinality(GroupsOf(fs, grouped, C))
  BY <1>0, Zenon DEF Counted
<1>2. Count(f) = i + j
  BY <1>1, Zenon DEF Count
<1>3. Count(f) = IF max # NoLimit /\ max < i + j THEN max ELSE i + j
  BY <1>2 DEF Kept
<1>4. /\ Fine(f) /\ IsInjective(f.objects) /\ IsInjective(f.prefixes)
      /\ ToSet(f.objects) = FilesOf(fs, C) /\ ToSet(f.prefixes) = GroupsOf(fs, grouped, C)
  BY Zenon DEF Lists
<1>5. ToSet(f.objects) \subseteq FilesOf(fs, C) /\ ToSet(f.prefixes) \subseteq GroupsOf(fs, grouped, C)
  BY <1>4
<1>6. Count(f) = IF max # NoLimit /\ max < Cardinality(FilesOf(fs, C)) + Cardinality(GroupsOf(fs, grouped, C))
                 THEN max ELSE Cardinality(FilesOf(fs, C)) + Cardinality(GroupsOf(fs, grouped, C))
  BY <1>1, <1>3, Zenon
<1> QED BY <1>4, <1>5, <1>6, Zenon DEF IsListing, Fine

\* A listing that stopped at its limit is the one that was asked for, too.
LEMMA CutListing ==
    ASSUME NEW N, NEW fs, NEW grouped, NEW max \in Nat, NEW C, IsFiniteSet(C),
           NEW f \in Partial(N), Ended(fs, grouped, max, C, f)
    PROVE  IsListing(f, FilesOf(fs, C), GroupsOf(fs, grouped, C), max)
<1>1. PICK T \in SUBSET C : Lists(fs, grouped, f, T)
  BY DEF Ended
<1>0. Counted(fs, grouped, f, T)
  BY <1>1, ListsCounted
<1>2. PICK i \in Nat, j \in Nat : /\ i = Len(f.objects) /\ i = Cardinality(FilesOf(fs, T))
                                  /\ j = Len(f.prefixes) /\ j = Cardinality(GroupsOf(fs, grouped, T))
  BY <1>0, Zenon DEF Counted
<1>3. /\ FilesOf(fs, T) \in SUBSET FilesOf(fs, C) /\ IsFiniteSet(FilesOf(fs, C))
      /\ GroupsOf(fs, grouped, T) \in SUBSET GroupsOf(fs, grouped, C) /\ IsFiniteSet(GroupsOf(fs, grouped, C))
  <2>1. FilesOf(fs, C) \subseteq C /\ GroupsOf(fs, grouped, C) \subseteq C
    BY DEF FilesOf, GroupsOf
  <2>2. IsFiniteSet(FilesOf(fs, C)) /\ IsFiniteSet(GroupsOf(fs, grouped, C))
    BY <2>1, FS_Subset
  <2> QED BY <2>2 DEF FilesOf, GroupsOf
<1>4. PICK k \in Nat, l \in Nat : k = Cardinality(FilesOf(fs, C)) /\ l = Cardinality(GroupsOf(fs, grouped, C))
  BY <1>3, FS_CardinalityType
<1>5. i <= k /\ j <= l
  BY <1>2, <1>3, <1>4, FS_Subset
<1>6. Count(f) = i + j
  BY <1>2, Zenon DEF Count
<1>7. Full(f, max) /\ Kept(f, max)
  BY Zenon DEF Ended
<1>8. Count(f) = IF max # NoLimit /\ max < k + l THEN max ELSE k + l
  BY ONLY max \in Nat, i \in Nat, j \in Nat, k \in Nat, l \in Nat, <1>5, <1>6, <1>7 DEF Full, Kept
<1>9. /\ Fine(f) /\ IsInjective(f.objects) /\ IsInjective(f.prefixes)
      /\ ToSet(f.objects) = FilesOf(fs, T) /\ ToSet(f.prefixes) = GroupsOf(fs, grouped, T)
  BY <1>1, Zenon DEF Lists
<1>10. ToSet(f.objects) \subseteq FilesOf(fs, C) /\ ToSet(f.prefixes) \subseteq GroupsOf(fs, grouped, C)
  BY <1>3, <1>9
<1>11. Count(f) = IF max # NoLimit /\ max < Cardinality(FilesOf(fs, C)) + Cardinality(GroupsOf(fs, grouped, C))
                  THEN max ELSE Cardinality(FilesOf(fs, C)) + Cardinality(GroupsOf(fs, grouped, C))
  BY <1>4, <1>8, Zenon
<1> QED BY <1>9, <1>10, <1>11, Zenon DEF IsListing, Fine

\* A traversal gives what belongs in the listing of a directory.
LEMMA DirectoryListed ==
    ASSUME NEW N, NEW fs, NEW root, NEW at, Listable(N, fs, root, at), NEW backend,
           NEW grouped \in BOOLEAN, NEW max \in Nat, max > 0
    PROVE  Objects(fs, root, grouped, max, Traverse(fs, backend, root, grouped, max))
<1>1. PICK C : C = Children(fs, root, grouped)
  OBVIOUS
<1>2. Setting(N, fs, grouped, max, root, C)
  BY <1>1, SettingOf
<1>3. PICK f \in Partial(N) : f = Traverse(fs, backend, root, grouped, max) /\ Outcome(fs, grouped, max, C, f)
  BY <1>2, Traversed
<1>4. IsFiniteSet(C)
  <2>1. Enclosed(N, fs, grouped, root, C)
    BY <1>2, KidsInside
  <2> QED BY <2>1, Zenon DEF Enclosed
<1>5. Stat(fs, root) = "dir"
  BY Zenon DEF Listable
<1>6. /\ Listed(fs, root, grouped) = FilesOf(fs, C)
      /\ Groups(fs, root, grouped) = GroupsOf(fs, grouped, C)
      /\ MustFail(fs, root, grouped) <=> \E c \in C : Stat(fs, c) = "loop"
  BY <1>1, <1>5, OfDirectory
<1>7. ASSUME \E c \in C : Stat(fs, c) = "loop"
      PROVE  f.error = "StorageError"
             \/ (max # NoLimit /\ IsListing(f, FilesOf(fs, C), GroupsOf(fs, grouped, C), max))
  <2>1. ~Lists(fs, grouped, f, C)
    BY <1>7, Zenon DEF Lists
  <2>2. CASE Broken(fs, C, f)
    BY <2>2, Zenon DEF Broken
  <2>3. CASE Ended(fs, grouped, max, C, f)
    <3>1. max # NoLimit
      BY <2>3, Zenon DEF Ended, Full
    <3>2. IsListing(f, FilesOf(fs, C), GroupsOf(fs, grouped, C), max)
      BY <1>4, <2>3, CutListing
    <3> QED BY <3>1, <3>2
  <2> QED BY <1>3, <2>1, <2>2, <2>3, Zenon DEF Outcome
<1>8. ASSUME ~\E c \in C : Stat(fs, c) = "loop" PROVE IsListing(f, FilesOf(fs, C), GroupsOf(fs, grouped, C), max)
  <2>1. ~Broken(fs, C, f)
    BY <1>8, Zenon DEF Broken
  <2>2. CASE Ended(fs, grouped, max, C, f)
    BY <1>4, <2>2, CutListing
  <2>3. CASE Lists(fs, grouped, f, C) /\ Kept(f, max)
    BY <1>4, <2>3, FullListing
  <2> QED BY <1>3, <2>1, <2>2, <2>3, Zenon DEF Outcome
<1> QED BY <1>3, <1>5, <1>6, <1>7, <1>8, Zenon DEF Objects

-----------------------------------------------------------------------------
(* list_objects of the local and of the SFTP backend *)

Nothing(v) == Fine(v) /\ v.objects = <<>> /\ v.prefixes = <<>>

\* The listing that is answered without looking has nothing.
LEMMA EmptyIsPlain == Nothing(Empty)
<1>1. PICK none : none = ""
  OBVIOUS
<1>2. PICK e : e = Empty
  OBVIOUS
<1>3. e = [error |-> none, objects |-> <<>>, prefixes |-> <<>>, pending |-> <<>>]
  BY <1>1, <1>2, Zenon DEF Empty, Listing
<1>4. e.error = none /\ e.objects = <<>> /\ e.prefixes = <<>>
  BY <1>3
<1> QED BY <1>1, <1>2, <1>4, Zenon DEF Nothing, Fine

\* Nothing at all is a listing where nothing is asked for, or nothing is there.
LEMMA NothingListed ==
    ASSUME NEW max \in Nat, NEW O, NEW G, IsFiniteSet(O), IsFiniteSet(G),
           max = 0 \/ (O = {} /\ G = {})
    PROVE  IsListing(Empty, O, G, max)
<1>1. Fine(Empty) /\ Empty.objects = <<>> /\ Empty.prefixes = <<>>
  BY EmptyIsPlain, Zenon DEF Nothing
<1>2. ToSet(Empty.objects) = {} /\ ToSet(Empty.prefixes) = {}
      /\ IsInjective(Empty.objects) /\ IsInjective(Empty.prefixes)
  BY <1>1, NoneYet, Zenon
<1>3. Count(Empty) = 0
  <2>1. Count(Empty) = Len(<<>>) + Len(<<>>)
    BY <1>1, Zenon DEF Count
  <2> QED BY <2>1
<1>4. PICK k \in Nat, l \in Nat : k = Cardinality(O) /\ l = Cardinality(G)
  BY FS_CardinalityType
<1>5. O = {} /\ G = {} => k = 0 /\ l = 0
  BY <1>4, FS_EmptySet
<1>6. Count(Empty) = IF max # NoLimit /\ max < k + l THEN max ELSE k + l
  BY ONLY max \in Nat, max = 0 \/ (O = {} /\ G = {}), k \in Nat, l \in Nat, <1>3, <1>5 DEF NoLimit
<1>7. Count(Empty) = IF max # NoLimit /\ max < Cardinality(O) + Cardinality(G)
                     THEN max ELSE Cardinality(O) + Cardinality(G)
  BY <1>4, <1>6, Zenon
<1>8. ToSet(Empty.objects) \subseteq O /\ ToSet(Empty.prefixes) \subseteq G
  BY <1>2
<1> QED BY <1>1, <1>2, <1>7, <1>8, Zenon DEF IsListing, Fine

\* The listing of a file has that file, once.
LEMMA OneElement == ASSUME NEW p PROVE Len(<<p>>) = 1 /\ ToSet(<<p>>) = {p} /\ IsInjective(<<p>>)
<1>1. PICK s \in Seq({p}) : s = <<p>> /\ Len(s) = 1 /\ s[1] = p
  <2>1. <<p>> \in Seq({p}) /\ Len(<<p>>) = 1 /\ <<p>>[1] = p
    OBVIOUS
  <2> QED BY <2>1, Zenon
<1>2. DOMAIN s = {1}
  BY <1>1, LenProperties
<1>3. ToSet(s) = {p} /\ IsInjective(s)
  BY ONLY <1>1, <1>2 DEF ToSet, IsInjective
<1> QED BY <1>1, <1>3, Zenon

\* A file is a listing of itself.
LEMMA ItselfListed ==
    ASSUME NEW max \in Nat, max > 0, NEW p, NEW v, v = Listing("", <<p>>)
    PROVE  IsListing(v, {p}, {}, max)
<1>1. PICK none : none = ""
  OBVIOUS
<1>2. v = [error |-> none, objects |-> <<p>>, prefixes |-> <<>>, pending |-> <<>>]
  BY <1>1, Zenon DEF Listing
<1>3. v.error = none /\ v.objects = <<p>> /\ v.prefixes = <<>>
  BY ONLY <1>2
<1>4. Len(<<p>>) = 1 /\ ToSet(<<p>>) = {p} /\ IsInjective(<<p>>)
  BY OneElement, Zenon
<1>7. Count(v) = 1
  <2>1. Count(v) = Len(<<p>>) + Len(<<>>)
    BY <1>3, Zenon DEF Count
  <2> QED BY ONLY <1>4, <2>1
<1>8. Cardinality({p}) = 1 /\ Cardinality({}) = 0
  BY FS_Singleton, FS_EmptySet
<1>9. Count(v) = IF max # NoLimit /\ max < Cardinality({p}) + Cardinality({})
                 THEN max ELSE Cardinality({p}) + Cardinality({})
  BY ONLY max \in Nat, max > 0, <1>7, <1>8 DEF NoLimit
<1>10. /\ v.error = "" /\ ToSet(v.objects) \subseteq {p} /\ ToSet(v.prefixes) \subseteq {}
       /\ IsInjective(v.objects) /\ IsInjective(v.prefixes)
  <2>1. v.error = ""
    BY <1>1, <1>3, Zenon
  <2>2. ToSet(v.objects) = {p} /\ ToSet(v.prefixes) = {} /\ IsInjective(v.objects) /\ IsInjective(v.prefixes)
    BY <1>3, <1>4, NoneYet, Zenon
  <2> QED BY <2>1, <2>2, Zenon
<1> QED BY <1>9, <1>10, Zenon DEF IsListing

\* A question for a listing.
Asked(N, fs, prefix, grouped, max) ==
    /\ Tree(N, fs) /\ Named(fs) /\ IsFiniteSet(DOMAIN fs) /\ prefix \in Seq(N)
    /\ grouped \in BOOLEAN /\ max \in Nat
    /\ Stat(fs, prefix) = "dir" => Reachable(fs, prefix)

\* stat answers whatever prefix is asked for.
LEMMA AskedStat ==
    ASSUME NEW N, NEW fs, NEW prefix, NEW grouped, NEW max, Asked(N, fs, prefix, grouped, max)
    PROVE  Stat(fs, prefix) \in AllStats
<1>1. Tree(N, fs) /\ prefix \in Seq(N)
  BY Zenon DEF Asked
<1>2. PICK st : st = StatsOf(fs, prefix)
  OBVIOUS
<1>3. StatsInOrder(st, Len(prefix))
  BY <1>1, <1>2, StatsAlong
<1>4. Len(prefix) \in 0..Len(prefix) /\ SubSeq(prefix, 1, Len(prefix)) = prefix
  BY <1>1, Beginnings
<1>5. st[Len(prefix)] = Stat(fs, prefix)
  BY <1>2, <1>4 DEF StatsOf
<1> QED BY <1>3, <1>4, <1>5, Zenon DEF StatsInOrder

\* A path that is no directory holds nothing.
LEMMA OfNoDirectory ==
    ASSUME NEW fs, NEW prefix, NEW grouped, Stat(fs, prefix) # "dir"
    PROVE  /\ Groups(fs, prefix, grouped) = {}
           /\ Listed(fs, prefix, grouped) = IF Stat(fs, prefix) = "file" THEN {prefix} ELSE {}
           /\ MustFail(fs, prefix, grouped) <=>
                 \/ Stat(fs, prefix) = "loop"
                 \/ Stat(fs, prefix) = "notdir" /\ LStat(fs, prefix) # "link"
  BY DEF Groups, Listed, MustFail

\* What there is to list is finite.
LEMMA ListedFinite ==
    ASSUME NEW N, NEW fs, NEW prefix, NEW grouped, NEW max, Asked(N, fs, prefix, grouped, max)
    PROVE  IsFiniteSet(Listed(fs, prefix, grouped)) /\ IsFiniteSet(Groups(fs, prefix, grouped))
<1>1. CASE Stat(fs, prefix) = "dir"
  <2>1. PICK at : at = Follow(fs, prefix).at
    OBVIOUS
  <2>2. Listable(N, fs, prefix, at) /\ grouped \in BOOLEAN /\ max \in Nat
    BY <1>1, <2>1, Zenon DEF Listable, Asked
  <2>3. PICK C : C = Children(fs, prefix, grouped)
    OBVIOUS
  <2>4. Enclosed(N, fs, grouped, prefix, C)
    BY <2>2, <2>3, SettingOf, KidsInside
  <2>5. IsFiniteSet(C)
    BY <2>4, Zenon DEF Enclosed
  <2>6. Listed(fs, prefix, grouped) = FilesOf(fs, C) /\ Groups(fs, prefix, grouped) = GroupsOf(fs, grouped, C)
    BY <1>1, <2>2, <2>3, OfDirectory
  <2>7. FilesOf(fs, C) \subseteq C /\ GroupsOf(fs, grouped, C) \subseteq C
    BY DEF FilesOf, GroupsOf
  <2> QED BY <2>5, <2>6, <2>7, FS_Subset
<1>2. CASE Stat(fs, prefix) # "dir"
  <2>1. /\ Groups(fs, prefix, grouped) = {}
        /\ Listed(fs, prefix, grouped) = IF Stat(fs, prefix) = "file" THEN {prefix} ELSE {}
    BY <1>2, OfNoDirectory
  <2> QED BY <2>1, FS_EmptySet, FS_Singleton
<1> QED BY <1>1, <1>2

\* Where a loop is below, failing is the right answer.
LEMMA FailsAsItMust ==
    ASSUME NEW fs, NEW prefix, NEW grouped, NEW max \in Nat, max > 0, MustFail(fs, prefix, grouped)
    PROVE  Objects(fs, prefix, grouped, max, Failed("StorageError"))
<1>1. PICK f : f = Failed("StorageError")
  OBVIOUS
<1>2. f.error = "StorageError"
  BY <1>1 DEF Failed, Listing
<1> QED BY <1>1, <1>2, Zenon DEF Objects

\* What both backends make of a prefix, but for one that is below a file.
Answered(fs, backend, prefix, grouped, max, v) ==
    /\ max = 0 => v = Empty
    /\ max > 0 =>
          /\ Stat(fs, prefix) \in {"absent", "special"} => v = Empty
          /\ Stat(fs, prefix) = "loop" => v = Failed("StorageError")
          /\ Stat(fs, prefix) = "file" => v = Listing("", <<prefix>>)
          /\ Stat(fs, prefix) = "dir" => v = Traverse(fs, backend, prefix, grouped, max)
          /\ Stat(fs, prefix) = "notdir" =>
                IF LStat(fs, prefix) = "link" THEN v = Empty ELSE v = Failed("StorageError")

\* A backend that answers so answers right.
LEMMA AnsweredRight ==
    ASSUME NEW N, NEW fs, NEW backend, NEW prefix, NEW grouped, NEW max, Asked(N, fs, prefix, grouped, max),
           NEW v, Answered(fs, backend, prefix, grouped, max, v)
    PROVE  Objects(fs, prefix, grouped, max, v)
<1>1. grouped \in BOOLEAN /\ max \in Nat
  BY Zenon DEF Asked
<1>2. Stat(fs, prefix) \in AllStats
  BY AskedStat
<1>3. IsFiniteSet(Listed(fs, prefix, grouped)) /\ IsFiniteSet(Groups(fs, prefix, grouped))
  BY ListedFinite
<1>4. CASE max = 0
  <2>1. v = Empty
    BY <1>4, Zenon DEF Answered
  <2>2. ~(max > 0)
    BY <1>4
  <2>3. IsListing(v, Listed(fs, prefix, grouped), Groups(fs, prefix, grouped), max)
    BY <1>1, <1>3, <1>4, <2>1, NothingListed
  <2> QED BY <2>2, <2>3, Zenon DEF Objects
<1>5. CASE max > 0 /\ Stat(fs, prefix) = "dir"
  <2>1. PICK at : at = Follow(fs, prefix).at
    OBVIOUS
  <2>2. Listable(N, fs, prefix, at)
    BY <1>5, <2>1, Zenon DEF Listable, Asked
  <2>3. v = Traverse(fs, backend, prefix, grouped, max)
    BY <1>5, Zenon DEF Answered
  <2>4. Objects(fs, prefix, grouped, max, Traverse(fs, backend, prefix, grouped, max))
    BY <1>1, <1>5, <2>2, DirectoryListed
  <2> QED BY <2>3, <2>4, Zenon
<1>6. CASE max > 0 /\ Stat(fs, prefix) # "dir"
  <2>1. /\ Groups(fs, prefix, grouped) = {}
        /\ Listed(fs, prefix, grouped) = IF Stat(fs, prefix) = "file" THEN {prefix} ELSE {}
        /\ MustFail(fs, prefix, grouped) <=>
              \/ Stat(fs, prefix) = "loop"
              \/ Stat(fs, prefix) = "notdir" /\ LStat(fs, prefix) # "link"
    BY <1>6, OfNoDirectory
  <2>2. CASE MustFail(fs, prefix, grouped)
    <3>1. v = Failed("StorageError")
      BY <1>6, <2>1, <2>2, Zenon DEF Answered
    <3> QED BY <1>1, <1>6, <2>2, <3>1, FailsAsItMust, Zenon
  <2>3. CASE ~MustFail(fs, prefix, grouped) /\ Stat(fs, prefix) = "file"
    <3>1. v = Listing("", <<prefix>>)
      BY <1>6, <2>3, Zenon DEF Answered
    <3>2. PICK none : none = ""
      OBVIOUS
    <3>3. IsListing(v, {prefix}, {}, max)
      BY <1>1, <1>6, <3>1, ItselfListed, Zenon
    <3>4. Listed(fs, prefix, grouped) = {prefix}
      BY <2>1, <2>3
    <3> QED BY <2>1, <2>3, <3>3, <3>4, Zenon DEF Objects
  <2>4. CASE ~MustFail(fs, prefix, grouped) /\ Stat(fs, prefix) # "file"
    <3>1. v = Empty
      <4>1. \/ Stat(fs, prefix) \in {"absent", "special"}
            \/ Stat(fs, prefix) = "notdir" /\ LStat(fs, prefix) = "link"
        BY <1>2, <1>6, <2>1, <2>4 DEF AllStats
      <4> QED BY <1>6, <4>1, Zenon DEF Answered
    <3>2. Listed(fs, prefix, grouped) = {}
      BY <2>1, <2>4
    <3>3. IsListing(Empty, {}, {}, max)
      BY <1>1, FS_EmptySet, NothingListed
    <3> QED BY <2>1, <2>4, <3>1, <3>2, <3>3, Zenon DEF Objects
  <2> QED BY <2>2, <2>3, <2>4
<1>7. max = 0 \/ max > 0
  BY <1>1
<1> QED BY <1>4, <1>5, <1>6, <1>7

\* The local backend.
LEMMA LocalListed ==
    ASSUME NEW N, NEW fs, NEW prefix, NEW grouped, NEW max, Asked(N, fs, prefix, grouped, max)
    PROVE  Objects(fs, prefix, grouped, max, LocalObjects(fs, prefix, grouped, max))
<1>1. max \in Nat
  BY Zenon DEF Asked
<1>2. PICK v : v = LocalObjects(fs, prefix, grouped, max)
  OBVIOUS
<1>3. PICK one : one = Listing("", <<prefix>>)
  OBVIOUS
<1>4. PICK st \in AllStats : st = Stat(fs, prefix)
  BY AskedStat
<1>6. v = IF max < 0 THEN Failed("ValueError")
          ELSE IF max = 0 THEN Empty
          ELSE CASE st = "absent" -> Empty
                 [] st = "notdir" -> IF LStat(fs, prefix) = "link" THEN Empty ELSE Failed("StorageError")
                 [] st = "loop" -> Failed("StorageError")
                 [] st = "file" -> one
                 [] st = "special" -> Empty
                 [] OTHER -> Traverse(fs, "local", prefix, grouped, max)
  BY <1>2, <1>3, <1>4, Zenon DEF LocalObjects
<1>7. ~(max < 0) /\ (max > 0 => ~(max = 0))
  BY <1>1
<1>8. max = 0 => v = Empty
  BY <1>6, <1>7, Zenon
<1>9. ASSUME max > 0
      PROVE  /\ st \in {"absent", "special"} => v = Empty
             /\ st = "loop" => v = Failed("StorageError")
             /\ st = "file" => v = one
             /\ st = "dir" => v = Traverse(fs, "local", prefix, grouped, max)
             /\ st = "notdir" => IF LStat(fs, prefix) = "link" THEN v = Empty ELSE v = Failed("StorageError")
  BY ONLY <1>6, <1>7, <1>9
<1>10. Answered(fs, "local", prefix, grouped, max, v)
  BY <1>3, <1>4, <1>8, <1>9, Zenon DEF Answered
<1> QED BY <1>2, <1>10, AnsweredRight, Zenon

\* The SFTP backend.
LEMMA SftpListed ==
    ASSUME NEW N, NEW fs, NEW prefix, NEW grouped, NEW max, Asked(N, fs, prefix, grouped, max)
    PROVE  IF Stat(fs, prefix) = "notdir" /\ ~BelowFile(fs, prefix)
           THEN SftpObjects(fs, prefix, grouped, max) = Empty
           ELSE Objects(fs, prefix, grouped, max, SftpObjects(fs, prefix, grouped, max))
<1>1. max \in Nat /\ Tree(N, fs) /\ prefix \in Seq(N)
  BY Zenon DEF Asked
<1>2. PICK v : v = SftpObjects(fs, prefix, grouped, max)
  OBVIOUS
<1>3. PICK one : one = Listing("", <<prefix>>)
  OBVIOUS
<1>4. PICK st \in AllStats : st = Stat(fs, prefix)
  BY AskedStat
<1>6. PICK told : told = Failed(CheckNotDirectory(fs, prefix))
  OBVIOUS
<1>7. v = IF max < 0 THEN Failed("ValueError")
          ELSE IF max = 0 THEN Empty
          ELSE CASE st \in {"absent", "notdir"} -> told
                 [] st = "loop" -> Failed("StorageError")
                 [] st = "file" -> one
                 [] st = "special" -> Empty
                 [] OTHER -> Traverse(fs, "sftp", prefix, grouped, max)
  BY <1>2, <1>3, <1>4, <1>6, Zenon DEF SftpObjects, NotFound
<1>8. ~(max < 0) /\ (max > 0 => ~(max = 0))
  BY <1>1
<1>9. max = 0 => v = Empty
  BY <1>7, <1>8, Zenon
<1>10. ASSUME max > 0
       PROVE  /\ st \in {"absent", "notdir"} => v = told
              /\ st = "loop" => v = Failed("StorageError")
              /\ st = "file" => v = one
              /\ st = "special" => v = Empty
              /\ st = "dir" => v = Traverse(fs, "sftp", prefix, grouped, max)
  BY ONLY <1>7, <1>8, <1>10
<1>11. Diagnosis(fs, prefix)
  BY <1>1, Diagnosed
<1>12. PICK clear \in BOOLEAN : clear = (CheckNotDirectory(fs, prefix) = "")
  BY Zenon
<1>13. /\ clear => told = Empty
       /\ ~clear => told = Failed("StorageError")
  BY <1>6, <1>11, <1>12, Zenon DEF Diagnosis, Failed, Empty
<1>14. /\ st = "absent" => clear
       /\ st = "notdir" /\ BelowFile(fs, prefix) => ~clear /\ LStat(fs, prefix) # "link"
       /\ st = "notdir" /\ ~BelowFile(fs, prefix) => clear
  BY <1>4, <1>11, <1>12, Zenon DEF Diagnosis
<1>15. max = 0 \/ max > 0
  BY <1>1
<1>16. CASE st = "notdir" /\ ~BelowFile(fs, prefix)
  <2>1. v = Empty
    BY <1>9, <1>10, <1>13, <1>14, <1>15, <1>16
  <2> QED BY <1>2, <1>4, <1>16, <2>1, Zenon
<1>17. CASE ~(st = "notdir" /\ ~BelowFile(fs, prefix))
  <2>1. ASSUME max > 0
        PROVE  /\ st \in {"absent", "special"} => v = Empty
               /\ st = "notdir" => IF LStat(fs, prefix) = "link" THEN v = Empty ELSE v = Failed("StorageError")
    BY ONLY <1>10, <1>13, <1>14, <1>17, <2>1
  <2>2. Answered(fs, "sftp", prefix, grouped, max, v)
    BY <1>3, <1>4, <1>9, <1>10, <2>1, Zenon DEF Answered
  <2> QED BY <1>2, <1>4, <1>17, <2>2, AnsweredRight, Zenon
<1> QED BY <1>16, <1>17

-----------------------------------------------------------------------------
(* list_dir, where there are files and directories only *)

\* Without links and special files, what stat and lstat say is the same.
LEMMA PlainChildren ==
    ASSUME NEW N, NEW fs, NEW root, NEW at, Listable(N, fs, root, at), Plainly(fs),
           NEW c \in Children(fs, root, FALSE)
    PROVE  Stat(fs, c) = LStat(fs, c) /\ LStat(fs, c) \in {"file", "dir"}
<1>1. PICK u \in Seq(N), x \in N : AChild(N, fs, root, at, c, u, x)
  BY EachChild
<1>2. PICK p : p = Append(at \o u, x)
  OBVIOUS
<1>3. p \in DOMAIN fs /\ Seen(N, fs, root, c, p)
  BY <1>1, <1>2, Zenon DEF AChild
<1>4. LStat(fs, c) = fs[p].kind
  BY <1>3, Zenon DEF Seen
<1>5. LStat(fs, c) \in {"file", "dir"}
  BY <1>3, <1>4 DEF Plainly
<1>6. Lawful(N, fs, root)
  BY ListableLawful
<1>7. LStat(fs, c) # "link" => Stat(fs, c) = LStat(fs, c)
  BY <1>6, Zenon DEF Lawful
<1> QED BY <1>5, <1>7

\* The two backends read a directory alike.
LEMMA SameDirectory ==
    ASSUME NEW N, NEW fs, NEW root, NEW at, Listable(N, fs, root, at), Plainly(fs)
    PROVE  LocalDir(fs, root) = SftpDir(fs, root)
<1>1. Stat(fs, root) = "dir"
  BY Zenon DEF Listable
<1>2. PICK D : D = NamesIn(fs, root)
  OBVIOUS
<1>3. ASSUME NEW n \in D
      PROVE  Stat(fs, Append(root, n)) = LStat(fs, Append(root, n)) /\ LStat(fs, Append(root, n)) \in {"file", "dir"}
  <2>1. Lawful(N, fs, root)
    BY ListableLawful
  <2>2. Kids(fs, root) \subseteq Children(fs, root, FALSE)
    <3>1. root \in Entered(fs, root)
      BY DEF Entered
    <3> QED BY <2>1, <3>1, Zenon DEF Lawful
  <2>3. Append(root, n) \in Children(fs, root, FALSE)
    BY <1>2, <2>2 DEF Kids
  <2> QED BY <2>3, PlainChildren
<1>4. {n \in D : Stat(fs, Append(root, n)) \in {"file", "dir"}} = D
  BY <1>3
<1>5. ~\E n \in D : Stat(fs, Append(root, n)) = "loop"
  BY <1>3
<1>6. IsFiniteSet(D)
  BY <1>2, FinitelyMany
<1>7. PICK s \in Seq(D) : s = SetToSeq(D)
  BY <1>6, SetAsSeq
<1>8. \A i \in DOMAIN s : s[i] \in D
  BY LenProperties
<1>9. PICK l : l = [i \in DOMAIN s |-> <<s[i], Stat(fs, Append(root, s[i]))>>]
  OBVIOUS
<1>10. PICK r : r = [i \in DOMAIN s |-> <<s[i], IF LStat(fs, Append(root, s[i])) = "dir" THEN "dir" ELSE "file">>]
  OBVIOUS
<1>11. l = r
  <2>1. ASSUME NEW i \in DOMAIN s
        PROVE  Stat(fs, Append(root, s[i])) = IF LStat(fs, Append(root, s[i])) = "dir" THEN "dir" ELSE "file"
    <3>1. s[i] \in D
      BY <1>8
    <3> QED BY <1>3, <3>1
  <2> QED BY <1>9, <1>10, <2>1
<1>12. LocalDir(fs, root) = Listing("", l)
  <2>1. PICK S : S = SetToSeq({n \in D : Stat(fs, Append(root, n)) \in {"file", "dir"}})
    OBVIOUS
  <2>2. S = s
    BY <1>4, <1>7, <2>1, Zenon
  <2>3. PICK m : m = Listing("", [i \in DOMAIN S |-> <<S[i], Stat(fs, Append(root, S[i]))>>])
    OBVIOUS
  <2>4. PICK st : st = Stat(fs, root)
    OBVIOUS
  <2>5. PICK v : v = LocalDir(fs, root)
    OBVIOUS
  <2>6. v = CASE st = "absent" -> Failed("PathNotFoundError")
              [] st \in {"notdir", "loop", "file", "special"} -> Failed("StorageError")
              [] OTHER -> IF \E n \in D : Stat(fs, Append(root, n)) = "loop" THEN Failed("StorageError") ELSE m
    BY <1>2, <2>1, <2>3, <2>4, <2>5, Zenon DEF LocalDir
  <2>7. v = m
    BY ONLY <1>1, <1>5, <2>4, <2>6
  <2>8. m = Listing("", l)
    BY <1>9, <2>2, <2>3, Zenon
  <2> QED BY <2>5, <2>7, <2>8, Zenon
<1>13. SftpDir(fs, root) = Listing("", r)
  <2>1. PICK m : m = Listing("", r)
    OBVIOUS
  <2>2. PICK st : st = Stat(fs, root)
    OBVIOUS
  <2>3. PICK v : v = SftpDir(fs, root)
    OBVIOUS
  <2>4. PICK clear : clear = (CheckNotDirectory(fs, root) = "")
    OBVIOUS
  <2>5. v = CASE st \in {"absent", "notdir"} \/ st \in {"file", "special"} ->
                   IF clear THEN Failed("PathNotFoundError") ELSE Failed("StorageError")
              [] st = "loop" -> Failed("StorageError")
              [] OTHER -> m
    BY <1>2, <1>7, <1>10, <2>1, <2>2, <2>3, <2>4, Zenon DEF SftpDir, NotFound
  <2>6. v = m
    BY ONLY <1>1, <2>2, <2>5
  <2> QED BY <2>1, <2>3, <2>6, Zenon
<1> QED BY <1>11, <1>12, <1>13, Zenon

\* list_dir of the local and of the SFTP backend.
LEMMA DirectoriesAgree ==
    ASSUME NEW N, NEW fs, NEW prefix, NEW grouped, NEW max, Asked(N, fs, prefix, grouped, max), Plainly(fs)
    PROVE  LocalDir(fs, prefix) = SftpDir(fs, prefix)
<1>1. Tree(N, fs) /\ prefix \in Seq(N)
  BY Zenon DEF Asked
<1>2. CASE Stat(fs, prefix) = "dir"
  <2>1. PICK at : at = Follow(fs, prefix).at
    OBVIOUS
  <2>2. Listable(N, fs, prefix, at)
    BY <1>2, <2>1, Zenon DEF Listable, Asked
  <2> QED BY <2>2, SameDirectory
<1>3. CASE Stat(fs, prefix) # "dir"
  <2>1. PICK st \in AllStats : st = Stat(fs, prefix)
    BY AskedStat
  <2>2. Diagnosis(fs, prefix)
    BY <1>1, Diagnosed
  <2>3. PICK clear \in BOOLEAN : clear = (CheckNotDirectory(fs, prefix) = "")
    BY Zenon
  <2>4. /\ st = "absent" => clear
        /\ st = "notdir" /\ BelowFile(fs, prefix) => ~clear
        /\ st = "notdir" => BelowFile(fs, prefix)
        /\ st \in {"file", "special"} => ~clear
    BY <2>1, <2>2, <2>3, Zenon DEF Diagnosis
  <2>5. PICK l : l = LocalDir(fs, prefix)
    OBVIOUS
  <2>6. PICK r : r = SftpDir(fs, prefix)
    OBVIOUS
  <2>7. \E x : l = CASE st = "absent" -> Failed("PathNotFoundError")
                     [] st \in {"notdir", "loop", "file", "special"} -> Failed("StorageError")
                     [] OTHER -> x
    BY <2>1, <2>5, Zenon DEF LocalDir
  <2>8. \E x : r = CASE st \in {"absent", "notdir"} \/ st \in {"file", "special"} ->
                          IF clear THEN Failed("PathNotFoundError") ELSE Failed("StorageError")
                     [] st = "loop" -> Failed("StorageError")
                     [] OTHER -> x
    BY <2>1, <2>3, <2>6, Zenon DEF SftpDir, NotFound
  <2>9. st # "dir"
    BY <1>3, <2>1
  <2>10. l = r
    BY ONLY st \in AllStats, clear \in BOOLEAN, <2>4, <2>7, <2>8, <2>9 DEF AllStats
  <2> QED BY <2>5, <2>6, <2>10
<1> QED BY <1>2, <1>3

-----------------------------------------------------------------------------
(* list_objects of S3 *)

\* What is above something is a directory.
LEMMA AllAbove ==
    ASSUME NEW N, NEW fs, Tree(N, fs), NEW p \in Seq(N), p # <<>>, KindAt(fs, p) # "none"
    PROVE  \A i \in 0..Len(p) - 1 : Folder(fs, SubSeq(p, 1, i))
<1>1. PICK m \in Nat : Len(p) = m + 1
  <2>1. Len(p) \in Nat \ {0}
    BY FrontLast
  <2>2. Len(p) - 1 \in Nat /\ Len(p) = (Len(p) - 1) + 1
    BY <2>1
  <2> QED BY <2>2
<1>2. /\ \A i \in 0..m + 1 : SubSeq(p, 1, i) \in Seq(N) /\ Len(SubSeq(p, 1, i)) = i
      /\ SubSeq(p, 1, m + 1) = p
      /\ \A i \in 1..m + 1 : p[i] \in N /\ SubSeq(p, 1, i) = Append(SubSeq(p, 1, i - 1), p[i])
  BY <1>1, Beginnings
<1>3. ASSUME NEW i \in 0..m, KindAt(fs, SubSeq(p, 1, i + 1)) # "none" PROVE Folder(fs, SubSeq(p, 1, i))
  <2>1. PICK q \in Seq(N), d \in Seq(N), x \in N : q = SubSeq(p, 1, i + 1) /\ d = SubSeq(p, 1, i) /\ q = Append(d, x)
    <3>1. i + 1 \in 1..m + 1 /\ (i + 1) - 1 = i /\ i \in 0..m + 1 /\ i + 1 \in 0..m + 1
      OBVIOUS
    <3>2. SubSeq(p, 1, i + 1) = Append(SubSeq(p, 1, (i + 1) - 1), p[i + 1]) /\ p[i + 1] \in N
      BY <1>2, <3>1
    <3>3. SubSeq(p, 1, i + 1) = Append(SubSeq(p, 1, i), p[i + 1])
      BY <3>1, <3>2, Zenon
    <3>4. SubSeq(p, 1, i) \in Seq(N) /\ SubSeq(p, 1, i + 1) \in Seq(N)
      BY <1>2, <3>1
    <3> QED BY <3>2, <3>3, <3>4, Zenon
  <2>2. q # <<>> /\ Front(q) = d
    <3>1. Append(d, x) # <<>> /\ Front(Append(d, x)) = d
      BY TakenApart
    <3> QED BY <2>1, <3>1
  <2>3. Parent(q) = d
    BY <2>2, Zenon DEF Parent
  <2>4. KindAt(fs, q) # "none"
    BY <1>3, <2>1
  <2>5. KindAt(fs, Parent(q)) = "dir"
    BY <2>2, <2>4, KindsAre
  <2> QED BY <2>1, <2>3, <2>5 DEF Folder
<1> DEFINE G == {j \in 0..m : Folder(fs, SubSeq(p, 1, m - j))}
<1>4. 0 \in G
  <2>1. Folder(fs, SubSeq(p, 1, m))
    <3>1. m \in 0..m
      OBVIOUS
    <3>2. KindAt(fs, SubSeq(p, 1, m + 1)) # "none"
      BY <1>2
    <3> QED BY <1>3, <3>1, <3>2
  <2>2. m - 0 = m /\ 0 \in 0..m
    OBVIOUS
  <2> QED BY <2>1, <2>2
<1>5. ASSUME NEW j \in 1..m, j - 1 \in G PROVE j \in G
  <2>1. PICK i \in 0..m : i = m - j /\ i + 1 = m - (j - 1) /\ j \in 0..m
    <3>1. m - j \in 0..m /\ (m - j) + 1 = m - (j - 1) /\ j \in 0..m
      OBVIOUS
    <3> QED BY <3>1
  <2>2. KindAt(fs, SubSeq(p, 1, i + 1)) = "dir"
    BY <1>5, <2>1 DEF Folder
  <2>3. Folder(fs, SubSeq(p, 1, i))
    BY <1>3, <2>2
  <2> QED BY <2>1, <2>3
<1>6. 0..m \subseteq G
  <2> HIDE DEF G
  <2> QED BY <1>4, <1>5, UpInduction
<1>7. ASSUME NEW i \in 0..m PROVE Folder(fs, SubSeq(p, 1, i))
  <2>1. m - i \in 0..m /\ m - (m - i) = i
    OBVIOUS
  <2>2. m - i \in G
    BY <1>6, <2>1
  <2> QED BY <2>1, <2>2
<1>8. Len(p) - 1 = m
  BY <1>1
<1> QED BY <1>7, <1>8

\* A path of directories without links leads to itself.
LEMMA LeadsToItself ==
    ASSUME NEW N, NEW fs, Tree(N, fs), Named(fs), NEW p \in Seq(N), Folder(fs, p), Stat(fs, p) = "dir"
    PROVE  Follow(fs, p).at = p
<1>1. PICK n \in Nat : n = Len(p)
  BY LenProperties
<1>2. /\ \A i \in 0..n : SubSeq(p, 1, i) \in Seq(N)
      /\ SubSeq(p, 1, 0) = <<>> /\ SubSeq(p, 1, n) = p
      /\ \A i \in 1..n : p[i] \in N /\ SubSeq(p, 1, i) = Append(SubSeq(p, 1, i - 1), p[i])
  BY <1>1, Beginnings
<1>3. \A i \in 0..n : Folder(fs, SubSeq(p, 1, i))
  <2>1. CASE p = <<>>
    <3>1. n = 0
      BY <1>1, <2>1
    <3>2. \A i \in 0..n : i = n
      BY <3>1
    <3>3. Folder(fs, SubSeq(p, 1, n))
      BY <1>2
    <3> QED BY <3>2, <3>3
  <2>2. CASE p # <<>>
    <3>1. \A i \in 0..n - 1 : Folder(fs, SubSeq(p, 1, i))
      <4>1. KindAt(fs, p) # "none"
        BY DEF Folder
      <4> QED BY <1>1, <2>2, <4>1, AllAbove
    <3>2. \A i \in 0..n : i \in 0..n - 1 \/ i = n
      OBVIOUS
    <3> QED BY <1>2, <3>1, <3>2
  <2> QED BY <2>1, <2>2
<1>4. \A i \in 1..n : ~Dots(p[i])
  <2>1. CASE p = <<>>
    <3>1. n = 0
      BY <1>1, <2>1
    <3> QED BY <3>1
  <2>2. CASE p # <<>>
    <3>1. p \in DOMAIN fs
      BY <2>2, KindsAre DEF Folder
    <3> QED BY <1>1, <3>1 DEF Named
  <2> QED BY <2>1, <2>2
<1>5. \A i \in 0..n : Free(Follow(fs, SubSeq(p, 1, i)))
  <2> SUFFICES ASSUME NEW i \in 0..n, ~Free(Follow(fs, SubSeq(p, 1, i))) PROVE FALSE
    OBVIOUS
  <2>1. Follow(fs, SubSeq(p, 1, n)).fault = Follow(fs, SubSeq(p, 1, i)).fault
    <3>1. i \in 0..Len(p) /\ n \in i..Len(p)
      BY <1>1
    <3> QED BY <3>1, StuckAt
  <2>2. ~Free(Follow(fs, p))
    BY <1>2, <2>1, Zenon DEF Free
  <2>3. Tells(fs, N, Follow(fs, p), Stat(fs, p))
    BY StatTells
  <2>4. Stat(fs, p) \in Faults
    BY <2>2, <2>3, Zenon DEF Tells
  <2> QED BY <2>4 DEF Faults
<1> DEFINE G == {i \in 0..n : Follow(fs, SubSeq(p, 1, i)).at = SubSeq(p, 1, i)}
<1>6. 0 \in G
  <2>1. Follow(fs, <<>>).at = <<>>
    <3>1. PICK e : e = End(fs, <<>>)
      OBVIOUS
    <3>2. Ends(fs, <<>>) /\ Free(e) /\ e.dir = <<>>
      BY <3>1, RootIs
    <3>3. e.rest = <<>>
      BY <3>1, <3>2, Zenon DEF Ends
    <3> QED BY <3>1, <3>2, <3>3, Followed
  <2>2. Follow(fs, SubSeq(p, 1, 0)).at = SubSeq(p, 1, 0)
    BY <1>2, <2>1, Zenon
  <2>3. 0 \in 0..n
    OBVIOUS
  <2> QED BY <2>2, <2>3
<1>7. ASSUME NEW i \in 1..n, i - 1 \in G PROVE i \in G
  <2>0. i \in 0..n /\ i - 1 \in 0..n
    OBVIOUS
  <2>1. PICK f \in Seq(N), x \in N : f = SubSeq(p, 1, i - 1) /\ x = p[i] /\ SubSeq(p, 1, i) = Append(f, x)
    BY <1>2, <2>0
  <2>2. Follow(fs, f).at = f
    BY <1>7, <2>1
  <2>3. Free(Follow(fs, f)) /\ Folder(fs, f) /\ ~Dots(x) /\ Free(Follow(fs, Append(f, x))) /\ Folder(fs, Append(f, x))
    BY <1>3, <1>4, <1>5, <2>0, <2>1
  <2>4. ~Link(fs, Append(f, x))
    BY <2>3 DEF Folder, Link
  <2>5. Further(fs, Follow(fs, f), x, Follow(fs, Append(f, x)))
    BY OneNameMore
  <2>6. Follow(fs, Append(f, x)).fault # "loop"
    <3>1. Follow(fs, Append(f, x)).fault = ""
      BY <2>3, Zenon DEF Free
    <3> QED BY <3>1, Zenon
  <2>7. Follow(fs, Append(f, x)).at = Append(f, x)
    BY <2>2, <2>3, <2>4, <2>5, <2>6, Zenon DEF Further
  <2> QED BY <2>0, <2>1, <2>7
<1>8. 0..n \subseteq G
  <2> HIDE DEF G
  <2> QED BY <1>6, <1>7, UpInduction
<1>9. n \in G
  BY <1>8
<1> QED BY <1>2, <1>9

\* A prefix is one of another path, or the path itself.
LEMMA StrictlyLonger ==
    ASSUME NEW N, NEW a \in Seq(N), NEW p \in Seq(N)
    PROVE  IsStrictPrefix(a, p) <=> IsPrefix(a, p) /\ Len(p) >= Len(a) + 1
<1>1. PICK n \in Nat, k \in Nat : n = Len(a) /\ k = Len(p)
  BY LenProperties
<1>2. SubSeq(a, 1, n) = a /\ SubSeq(p, 1, k) = p
  BY <1>1, SubSeqFull
<1>3. ASSUME IsPrefix(a, p), a # p PROVE k >= n + 1
  <2>1. n <= k /\ SubSeq(a, 1, n) = SubSeq(p, 1, n)
    BY <1>1, <1>3 DEF IsPrefix
  <2>2. n # k
    BY <1>2, <1>3, <2>1
  <2> QED BY <2>1, <2>2
<1>4. ASSUME k >= n + 1 PROVE a # p
  BY <1>1, <1>4
<1> QED BY <1>1, <1>3, <1>4 DEF IsStrictPrefix

\* The directory that is listed leads to itself, and holds files and directories.
PlainPlace(N, fs, root) == Listable(N, fs, root, root) /\ Plainly(fs)

\* What is below the root is what has it for a prefix.
BelowRoot(fs, root, grouped, C) ==
    /\ \A c : c \in C <=> c \in DOMAIN fs /\ IsStrictPrefix(root, c) /\ (grouped => Len(c) = Len(root) + 1)
    /\ \A c \in C : Stat(fs, c) = fs[c].kind

\* The children of such a directory are that.
LEMMA TreeChildren ==
    ASSUME NEW N, NEW fs, NEW root, PlainPlace(N, fs, root), NEW grouped \in BOOLEAN
    PROVE  BelowRoot(fs, root, grouped, Children(fs, root, grouped))
<1>0. Listable(N, fs, root, root) /\ Plainly(fs)
  BY Zenon DEF PlainPlace
<1>1. Tree(N, fs) /\ root \in Seq(N) /\ root = Follow(fs, root).at
  BY <1>0, Zenon DEF Listable
<1>2. PICK K : K = Children(fs, root, FALSE)
  OBVIOUS
<1>3. \A s : s \in Below(fs, root) <=> s \in Seq(N) /\ s # <<>> /\ root \o s \in DOMAIN fs
  BY <1>1, BelowIs
<1>4. \A s \in Seq(N) : /\ Len(root \o s) = Len(root) + Len(s) /\ IsPrefix(root, root \o s)
                        /\ (root \o s = root <=> s = <<>>) /\ Len(s) \in Nat
  BY <1>1, GoesOn, LenProperties
<1>5. ASSUME NEW c \in K PROVE c \in DOMAIN fs /\ Stat(fs, c) = fs[c].kind
  <2>1. PICK u \in Seq(N), x \in N : AChild(N, fs, root, root, c, u, x)
    BY <1>0, <1>2, EachChild
  <2>2. c = Append(root \o u, x) /\ Append(root \o u, x) \in DOMAIN fs /\ Seen(N, fs, root, c, Append(root \o u, x))
    BY <2>1, Zenon DEF AChild
  <2>3. c \in DOMAIN fs /\ Seen(N, fs, root, c, c)
    BY <2>2, Zenon
  <2>4. LStat(fs, c) = fs[c].kind
    BY <2>3, Zenon DEF Seen
  <2>5. Stat(fs, c) = LStat(fs, c)
    BY <1>0, <1>2, PlainChildren
  <2> QED BY <2>3, <2>4, <2>5, Zenon
<1>6. Children(fs, root, grouped) = {root \o s : s \in {t \in Below(fs, root) : grouped => Len(t) = 1}}
  BY DEF Children
<1>7. K = {root \o s : s \in {t \in Below(fs, root) : FALSE => Len(t) = 1}}
  BY <1>2, Zenon DEF Children
<1>8. Children(fs, root, grouped) \subseteq K
  BY <1>6, <1>7
<1>9. ASSUME NEW c \in Children(fs, root, grouped)
      PROVE  c \in DOMAIN fs /\ IsStrictPrefix(root, c) /\ (grouped => Len(c) = Len(root) + 1)
  <2>1. PICK s \in Below(fs, root) : c = root \o s /\ (grouped => Len(s) = 1)
    BY <1>6
  <2>2. s \in Seq(N) /\ s # <<>> /\ root \o s \in DOMAIN fs
    BY <1>3
  <2>3. Len(c) = Len(root) + Len(s) /\ IsPrefix(root, c) /\ c # root
    BY <1>4, <2>1, <2>2
  <2> QED BY <2>1, <2>2, <2>3 DEF IsStrictPrefix
<1>10. ASSUME NEW c \in DOMAIN fs, IsStrictPrefix(root, c), grouped => Len(c) = Len(root) + 1
       PROVE  c \in Children(fs, root, grouped)
  <2>1. c \in Seq(N)
    BY <1>1 DEF Tree
  <2>2. IsPrefix(root, c) /\ root # c
    BY <1>10 DEF IsStrictPrefix
  <2>3. PICK s \in Seq(N) : c = root \o s
    BY <1>1, <2>1, <2>2, PrefixOfPath, ZenonT(30)
  <2>4. s # <<>>
    BY <1>4, <2>2, <2>3
  <2>5. s \in Below(fs, root)
    BY <1>3, <1>10, <2>3, <2>4
  <2>6. grouped => Len(s) = 1
    <3>1. Len(c) = Len(root) + Len(s) /\ Len(s) \in Nat /\ Len(root) \in Nat
      BY <1>1, <1>4, <2>3, LenProperties
    <3>2. ASSUME grouped PROVE Len(s) = 1
      <4>1. Len(c) = Len(root) + 1
        BY <1>10, <3>2
      <4>2. PICK i \in Nat, j \in Nat : i = Len(s) /\ j = Len(root) /\ j + i = Len(c)
        BY <3>1
      <4>3. j + i = j + 1
        BY <4>1, <4>2, Zenon
      <4>4. i = 1
        BY ONLY i \in Nat, j \in Nat, <4>3
      <4> QED BY <4>2, <4>4, Zenon
    <3> QED BY <3>2
  <2> QED BY <1>6, <2>3, <2>5, <2>6
<1>11. \A c \in Children(fs, root, grouped) : Stat(fs, c) = fs[c].kind
  BY <1>5, <1>8
<1> QED BY <1>9, <1>10, <1>11 DEF BelowRoot

Keys(fs) == {p \in DOMAIN fs : fs[p].kind = "file"}
Filled(fs, prefix, grouped) ==
    {g \in Groups(fs, prefix, grouped) : \E k \in Keys(fs) : IsPrefix(g, k) /\ k # g}

\* What S3 selects of the keys, and what it makes groups of.
Under(keys, prefix) == {k \in keys : IsPrefix(prefix, k) /\ Len(k) >= Len(prefix) + 1}
Selected(keys, prefix, grouped) == {k \in Under(keys, prefix) : grouped => Len(k) = Len(prefix) + 1}
Grouped(keys, prefix, grouped) ==
    {SubSeq(k, 1, Len(prefix) + 1) : k \in {q \in Under(keys, prefix) : grouped /\ Len(q) > Len(prefix) + 1}}

\* The keys S3 selects are the files to list.
LEMMA SelectedAreListed ==
    ASSUME NEW N, NEW fs, NEW root, PlainPlace(N, fs, root), NEW grouped \in BOOLEAN
    PROVE  Selected(Keys(fs), root, grouped) = Listed(fs, root, grouped)
<1>1. PICK C : C = Children(fs, root, grouped)
  OBVIOUS
<1>2. BelowRoot(fs, root, grouped, C)
  BY <1>1, TreeChildren
<1>3. Tree(N, fs) /\ root \in Seq(N) /\ Stat(fs, root) = "dir"
  BY Zenon DEF PlainPlace, Listable
<1>4. Listed(fs, root, grouped) = FilesOf(fs, C)
  BY <1>1, <1>3, OfDirectory
<1>5. \A k \in DOMAIN fs : IsStrictPrefix(root, k) <=> IsPrefix(root, k) /\ Len(k) >= Len(root) + 1
  <2>1. \A k \in DOMAIN fs : k \in Seq(N)
    BY <1>3 DEF Tree
  <2> QED BY <1>3, <2>1, StrictlyLonger
<1>6. FilesOf(fs, C) = {c \in C : fs[c].kind = "file"}
  BY <1>2 DEF BelowRoot, FilesOf
<1>7. Selected(Keys(fs), root, grouped) = {c \in C : fs[c].kind = "file"}
  <2>1. \A c : c \in Selected(Keys(fs), root, grouped) <=>
                 /\ c \in DOMAIN fs /\ fs[c].kind = "file" /\ IsPrefix(root, c) /\ Len(c) >= Len(root) + 1
                 /\ (grouped => Len(c) = Len(root) + 1)
    BY DEF Selected, Under, Keys
  <2> QED BY <1>2, <1>5, <2>1 DEF BelowRoot
<1> QED BY <1>4, <1>6, <1>7

\* The beginning of a beginning.
LEMMA BeginningOf ==
    ASSUME NEW N, NEW g \in Seq(N), NEW k \in Seq(N), NEW n \in Nat,
           n <= Len(g), Len(g) <= Len(k), g = SubSeq(k, 1, Len(g))
    PROVE  SubSeq(g, 1, n) = SubSeq(k, 1, n)
<1>1. PICK l \in Nat, m \in Nat : l = Len(g) /\ m = Len(k)
  BY LenProperties
<1>2. l \in 0..m
  BY <1>1
<1>3. \A j \in 1..l : SubSeq(k, 1, l)[j] = k[j]
  BY <1>1, <1>2, Beginnings
<1>4. \A j \in 1..n : g[j] = k[j]
  <2>1. SubSeq(k, 1, l) = g
    BY <1>1
  <2>2. \A j \in 1..n : j \in 1..l
    BY <1>1
  <2> QED BY <1>3, <2>1, <2>2
<1>5. n <= Len(k)
  BY <1>1, <1>2
<1> QED BY <1>4, <1>5, SamePrefix

\* The common prefix of a key is a directory with a file below it.
LEMMA GroupIsFilled ==
    ASSUME NEW N, NEW fs, NEW root, PlainPlace(N, fs, root),
           NEW k \in Under(Keys(fs), root), Len(k) > Len(root) + 1
    PROVE  SubSeq(k, 1, Len(root) + 1) \in Filled(fs, root, TRUE)
<1>0. Tree(N, fs) /\ root \in Seq(N) /\ Stat(fs, root) = "dir"
  BY Zenon DEF PlainPlace, Listable
<1>1. k \in DOMAIN fs /\ fs[k].kind = "file" /\ IsPrefix(root, k) /\ k \in Seq(N) /\ k \in Keys(fs)
  BY <1>0 DEF Under, Keys, Tree
<1>2. PICK n \in Nat, m \in Nat : n = Len(root) /\ m = Len(k) /\ m > n + 1
  BY <1>0, <1>1, LenProperties
<1>3. PICK g : g = SubSeq(k, 1, n + 1)
  OBVIOUS
<1>4. g \in Seq(N) /\ Len(g) = n + 1
  <2>1. n + 1 \in 0..m
    BY <1>2
  <2> QED BY <1>1, <1>2, <1>3, <2>1, Beginnings
<1>5. k # <<>> /\ g # <<>>
  <2>1. Len(<<>>) = 0 /\ n + 1 # 0 /\ m # 0
    BY <1>2
  <2> QED BY <1>2, <1>4, <2>1
<1>6. Folder(fs, g)
  <2>1. KindAt(fs, k) = "file"
    BY <1>1, <1>5 DEF KindAt
  <2>2. n + 1 \in 0..Len(k) - 1
    BY <1>2
  <2> QED BY <1>0, <1>1, <1>3, <1>5, <2>1, <2>2, AllAbove
<1>7. g \in DOMAIN fs /\ fs[g].kind = "dir"
  <2>1. KindAt(fs, g) = "dir"
    BY <1>6 DEF Folder
  <2> QED BY <1>5, <2>1 DEF KindAt
<1>8. n <= Len(g) /\ Len(g) <= Len(k) /\ g = SubSeq(k, 1, Len(g))
  BY <1>2, <1>3, <1>4
<1>9. IsPrefix(root, g)
  <2>1. SubSeq(g, 1, n) = SubSeq(k, 1, n)
    BY <1>1, <1>4, <1>8, BeginningOf
  <2>2. SubSeq(root, 1, n) = SubSeq(k, 1, n)
    BY <1>1, <1>2 DEF IsPrefix
  <2> QED BY <1>2, <1>8, <2>1, <2>2 DEF IsPrefix
<1>10. IsStrictPrefix(root, g)
  <2>1. Len(g) >= Len(root) + 1
    BY <1>2, <1>4
  <2> QED BY <1>0, <1>4, <1>9, <2>1, StrictlyLonger
<1>11. g \in Children(fs, root, TRUE) /\ Stat(fs, g) = "dir"
  <2>1. BelowRoot(fs, root, TRUE, Children(fs, root, TRUE))
    BY TreeChildren
  <2>2. Len(g) = Len(root) + 1
    BY <1>2, <1>4
  <2> QED BY <1>7, <1>10, <2>1, <2>2 DEF BelowRoot
<1>12. g \in Groups(fs, root, TRUE)
  BY <1>0, <1>11 DEF Groups
<1>13. IsPrefix(g, k) /\ k # g
  <2>1. SubSeq(g, 1, Len(g)) = g
    BY <1>4, SubSeqFull
  <2>2. k # g
    BY <1>2, <1>4
  <2> QED BY <1>8, <2>1, <2>2 DEF IsPrefix
<1>14. g \in Filled(fs, root, TRUE)
  BY <1>1, <1>12, <1>13 DEF Filled
<1> QED BY <1>2, <1>3, <1>14

\* A directory with a file below it is the common prefix of that file's key.
LEMMA FilledIsGroup ==
    ASSUME NEW N, NEW fs, NEW root, PlainPlace(N, fs, root), NEW g \in Filled(fs, root, TRUE)
    PROVE  g \in Grouped(Keys(fs), root, TRUE)
<1>0. Tree(N, fs) /\ root \in Seq(N) /\ Stat(fs, root) = "dir"
  BY Zenon DEF PlainPlace, Listable
<1>1. PICK k \in Keys(fs) : IsPrefix(g, k) /\ k # g
  BY DEF Filled
<1>2. g \in Children(fs, root, TRUE)
  BY <1>0 DEF Filled, Groups
<1>3. g \in DOMAIN fs /\ IsStrictPrefix(root, g) /\ Len(g) = Len(root) + 1
  <2>1. BelowRoot(fs, root, TRUE, Children(fs, root, TRUE))
    BY TreeChildren
  <2> QED BY <1>2, <2>1 DEF BelowRoot
<1>4. g \in Seq(N) /\ k \in Seq(N)
  BY <1>0, <1>1, <1>3 DEF Keys, Tree
<1>5. PICK n \in Nat, m \in Nat : n = Len(root) /\ m = Len(k) /\ Len(g) = n + 1
  BY <1>0, <1>3, <1>4, LenProperties
<1>6. Len(k) >= Len(g) + 1
  <2>1. IsStrictPrefix(g, k)
    BY <1>1 DEF IsStrictPrefix
  <2> QED BY <1>4, <2>1, StrictlyLonger
<1>7. n <= Len(g) /\ Len(g) <= Len(k) /\ Len(k) > n + 1 /\ Len(k) >= n + 1 /\ n <= Len(k)
  BY <1>5, <1>6
<1>8. g = SubSeq(k, 1, Len(g))
  <2>1. SubSeq(g, 1, Len(g)) = g
    BY <1>4, SubSeqFull
  <2> QED BY <1>1, <2>1 DEF IsPrefix
<1>9. IsPrefix(root, k)
  <2>1. SubSeq(g, 1, n) = SubSeq(k, 1, n)
    BY <1>4, <1>7, <1>8, BeginningOf
  <2>2. SubSeq(root, 1, n) = SubSeq(g, 1, n)
    BY <1>3, <1>5 DEF IsStrictPrefix, IsPrefix
  <2> QED BY <1>5, <1>7, <2>1, <2>2 DEF IsPrefix
<1>10. k \in Under(Keys(fs), root) /\ Len(k) > Len(root) + 1
  BY <1>1, <1>5, <1>7, <1>9 DEF Under
<1>11. g = SubSeq(k, 1, Len(root) + 1)
  BY <1>3, <1>8
<1> QED BY <1>10, <1>11 DEF Grouped

\* Common prefixes and directories with files are the same.
LEMMA GroupedAreFilled ==
    ASSUME NEW N, NEW fs, NEW root, PlainPlace(N, fs, root), NEW grouped \in BOOLEAN
    PROVE  Grouped(Keys(fs), root, grouped) = Filled(fs, root, grouped)
<1>1. CASE grouped = TRUE
  <2>1. Grouped(Keys(fs), root, TRUE) \subseteq Filled(fs, root, TRUE)
    <3>1. ASSUME NEW k \in {q \in Under(Keys(fs), root) : TRUE /\ Len(q) > Len(root) + 1}
          PROVE  SubSeq(k, 1, Len(root) + 1) \in Filled(fs, root, TRUE)
      <4>1. k \in Under(Keys(fs), root) /\ Len(k) > Len(root) + 1
        OBVIOUS
      <4> QED BY <4>1, GroupIsFilled
    <3> QED BY <3>1 DEF Grouped
  <2>2. Filled(fs, root, TRUE) \subseteq Grouped(Keys(fs), root, TRUE)
    BY FilledIsGroup
  <2>3. Grouped(Keys(fs), root, TRUE) = Filled(fs, root, TRUE)
    BY <2>1, <2>2
  <2> QED BY <1>1, <2>3, Zenon
<1>2. CASE grouped = FALSE
  <2>1. Grouped(Keys(fs), root, FALSE) = {}
    BY DEF Grouped
  <2>2. Filled(fs, root, FALSE) = {}
    BY DEF Filled, Groups
  <2> QED BY <1>2, <2>1, <2>2, Zenon
<1> QED BY <1>1, <1>2

\* The first n elements.
Shortened(T, s, n, v) ==
    /\ v \in Seq(T) /\ Len(v) \in Nat /\ (IsInjective(s) => IsInjective(v)) /\ ToSet(v) \subseteq ToSet(s)
    /\ n <= Len(s) => Len(v) = n
    /\ n > Len(s) => Len(v) = Len(s)

\* The slice a limit takes is that.
LEMMA CutShortens ==
    ASSUME NEW T, NEW s \in Seq(T), NEW n \in Nat
    PROVE  Shortened(T, s, n, Cut(s, n))
<1>1. PICK l \in Nat : l = Len(s) /\ DOMAIN s = 1..l /\ \A i \in 1..l : s[i] \in T
  BY LenProperties
<1>2. PICK m \in 0..l : m = IF n > l THEN l ELSE n
  <2>1. (IF n > l THEN l ELSE n) \in 0..l
    OBVIOUS
  <2> QED BY <2>1
<1>3. Cut(s, n) = SubSeq(s, 1, m)
  BY <1>1, <1>2 DEF Cut
<1>4. PICK v : v = SubSeq(s, 1, m)
  OBVIOUS
<1>5. v \in Seq(T) /\ Len(v) = m /\ \A j \in 1..m : v[j] = s[j]
  BY <1>1, <1>4, Beginnings
<1>6. DOMAIN v = 1..m /\ 1..m \subseteq 1..l
  BY <1>5, LenProperties
<1>7. ToSet(v) \subseteq ToSet(s)
  BY <1>1, <1>5, <1>6 DEF ToSet
<1>8. IsInjective(s) => IsInjective(v)
  BY <1>1, <1>5, <1>6 DEF IsInjective
<1>9. (n <= l => m = n) /\ (n > l => m = l) /\ m \in Nat
  BY <1>2
<1> QED BY <1>1, <1>3, <1>4, <1>5, <1>7, <1>8, <1>9 DEF Shortened

\* What is left of all objects and groups.
Remains(T, max, all, groups, kept, left, v) ==
    /\ Fine(v) /\ v.objects \in Seq(T) /\ v.prefixes \in Seq(T)
    /\ IsInjective(v.objects) /\ IsInjective(v.prefixes)
    /\ ToSet(v.objects) \subseteq ToSet(all) /\ ToSet(v.prefixes) \subseteq ToSet(groups)
    /\ Count(v) = IF max # NoLimit /\ max < Len(all) + Len(groups) THEN max ELSE Len(all) + Len(groups)

\* The limit cuts the objects first, and the groups by what is left of it.
LEMMA CutBoth ==
    ASSUME NEW T, NEW all \in Seq(T), NEW groups \in Seq(T), IsInjective(all), IsInjective(groups),
           NEW max \in Nat, NEW over \in BOOLEAN, over = (max # NoLimit /\ Len(all) + Len(groups) > max),
           NEW kept, kept = (IF over THEN Cut(all, max) ELSE all),
           NEW left, left = max - Len(kept),
           NEW v, Fine(v), v.objects = kept,
           v.prefixes = (IF over THEN Cut(groups, IF left < 0 THEN 0 ELSE left) ELSE groups)
    PROVE  Remains(T, max, all, groups, kept, left, v)
<1>1. PICK i \in Nat, j \in Nat : i = Len(all) /\ j = Len(groups)
  BY LenProperties
<1>2. CASE ~over
  <2>1. v.objects = all /\ v.prefixes = groups
    BY <1>2
  <2>2. Count(v) = i + j
    BY <1>1, <2>1, Zenon DEF Count
  <2>3. ~(max # NoLimit /\ i + j > max)
    BY <1>1, <1>2
  <2>4. Count(v) = IF max # NoLimit /\ max < i + j THEN max ELSE i + j
    BY ONLY max \in Nat, i \in Nat, j \in Nat, <2>2, <2>3
  <2>5. Count(v) = IF max # NoLimit /\ max < Len(all) + Len(groups) THEN max ELSE Len(all) + Len(groups)
    BY <1>1, <2>4, Zenon
  <2> QED BY <2>1, <2>5 DEF Remains
<1>3. CASE over
  <2>1. max # NoLimit /\ i + j > max
    BY <1>1, <1>3
  <2>2. kept = Cut(all, max)
    BY <1>3
  <2>3. Shortened(T, all, max, kept)
    BY <2>2, CutShortens
  <2>4. PICK k \in Nat : k = Len(kept) /\ (max <= i => k = max) /\ (max > i => k = i)
    BY <1>1, <2>3, Zenon DEF Shortened
  <2>5. left = max - k /\ k <= max /\ left \in Nat
    BY <2>4
  <2>6. ~(left < 0)
    BY ONLY <2>5
  <2>7. v.prefixes = Cut(groups, left)
    BY <1>3, <2>6, Zenon
  <2>8. Shortened(T, groups, left, v.prefixes)
    BY <2>5, <2>7, CutShortens
  <2>9. PICK l \in Nat : l = Len(v.prefixes) /\ (left <= j => l = left) /\ (left > j => l = j)
    BY <1>1, <2>8, Zenon DEF Shortened
  <2>10. Count(v) = k + l
    BY <2>4, <2>9, Zenon DEF Count
  <2>11. Count(v) = max
    BY ONLY max \in Nat, i \in Nat, j \in Nat, k \in Nat, l \in Nat, <2>1, <2>4, <2>5, <2>9, <2>10
  <2>12. max < i + j
    BY <2>1
  <2>13. Count(v) = IF max # NoLimit /\ max < Len(all) + Len(groups) THEN max ELSE Len(all) + Len(groups)
    BY <1>1, <2>1, <2>11, <2>12, Zenon
  <2> QED BY <2>3, <2>8, <2>13, Zenon DEF Remains, Shortened
<1> QED BY <1>2, <1>3

\* S3.
LEMMA S3Listed ==
    ASSUME NEW N, NEW fs, NEW prefix, NEW grouped, NEW max, Asked(N, fs, prefix, grouped, max),
           Plainly(fs), KindAt(fs, prefix) = "dir", Stat(fs, prefix) = "dir"
    PROVE  IsListing(S3Objects(Keys(fs), prefix, grouped, max),
                     Listed(fs, prefix, grouped), Filled(fs, prefix, grouped), max)
<1>1. /\ Tree(N, fs) /\ Named(fs) /\ IsFiniteSet(DOMAIN fs) /\ prefix \in Seq(N) /\ Reachable(fs, prefix)
      /\ grouped \in BOOLEAN /\ max \in Nat
  BY Zenon DEF Asked
<1>2. Follow(fs, prefix).at = prefix
  BY <1>1, LeadsToItself DEF Folder
<1>3. PlainPlace(N, fs, prefix)
  BY <1>1, <1>2, Zenon DEF PlainPlace, Listable
<1>4. PICK O : O = Selected(Keys(fs), prefix, grouped) /\ O = Listed(fs, prefix, grouped)
  BY <1>1, <1>3, SelectedAreListed
<1>5. PICK G : G = Grouped(Keys(fs), prefix, grouped) /\ G = Filled(fs, prefix, grouped)
  BY <1>1, <1>3, GroupedAreFilled
<1>6. IsFiniteSet(O) /\ IsFiniteSet(G)
  <2>1. IsFiniteSet(Listed(fs, prefix, grouped)) /\ IsFiniteSet(Groups(fs, prefix, grouped))
    BY ListedFinite
  <2>2. Filled(fs, prefix, grouped) \subseteq Groups(fs, prefix, grouped)
    BY DEF Filled
  <2> QED BY <1>4, <1>5, <2>1, <2>2, FS_Subset
<1>7. PICK T : T = O \cup G
  OBVIOUS
<1>8. PICK all \in Seq(T) : all = SetToSeq(O) /\ IsInjective(all) /\ ToSet(all) = O /\ Len(all) = Cardinality(O)
  <2>1. SetToSeq(O) \in Seq(O) /\ IsInjective(SetToSeq(O)) /\ ToSet(SetToSeq(O)) = O
        /\ Len(SetToSeq(O)) = Cardinality(O)
    BY <1>6, SetAsSeq
  <2>2. O \subseteq T
    BY <1>7
  <2> QED BY <2>1, <2>2, SeqMonotonic
<1>9. PICK groups \in Seq(T) : groups = SetToSeq(G) /\ IsInjective(groups) /\ ToSet(groups) = G /\ Len(groups) = Cardinality(G)
  <2>1. SetToSeq(G) \in Seq(G) /\ IsInjective(SetToSeq(G)) /\ ToSet(SetToSeq(G)) = G
        /\ Len(SetToSeq(G)) = Cardinality(G)
    BY <1>6, SetAsSeq
  <2>2. G \subseteq T
    BY <1>7
  <2> QED BY <2>1, <2>2, SeqMonotonic
<1>10. PICK over \in BOOLEAN : over = (max # NoLimit /\ Len(all) + Len(groups) > max)
  OBVIOUS
<1>11. PICK kept : kept = IF over THEN Cut(all, max) ELSE all
  OBVIOUS
<1>12. PICK left : left = max - Len(kept)
  OBVIOUS
<1>13. PICK rest : rest = IF over THEN Cut(groups, IF left < 0 THEN 0 ELSE left) ELSE groups
  OBVIOUS
<1>14. PICK v : v = S3Objects(Keys(fs), prefix, grouped, max)
  OBVIOUS
<1>15. PICK b : b = Listing("", kept)
  OBVIOUS
<1>16. v = [b EXCEPT !.prefixes = rest]
  BY <1>4, <1>5, <1>8, <1>9, <1>10, <1>11, <1>12, <1>13, <1>14, <1>15, Zenon
     DEF S3Objects, Selected, Grouped, Under
<1>17. Fine(v) /\ v.objects = kept /\ v.prefixes = rest
  <2>1. PICK none : none = ""
    OBVIOUS
  <2>2. b = [error |-> none, objects |-> kept, prefixes |-> <<>>, pending |-> <<>>]
    BY <1>15, <2>1, Zenon DEF Listing
  <2>3. v.error = none /\ v.objects = kept /\ v.prefixes = rest
    BY ONLY <1>16, <2>2
  <2> QED BY <2>1, <2>3, Zenon DEF Fine
<1>18. Remains(T, max, all, groups, kept, left, v)
  BY ONLY <1>1, <1>8, <1>9, <1>10, <1>11, <1>12, <1>13, <1>17, CutBoth
<1>19. /\ Fine(v) /\ IsInjective(v.objects) /\ IsInjective(v.prefixes)
       /\ ToSet(v.objects) \subseteq O /\ ToSet(v.prefixes) \subseteq G
       /\ Count(v) = IF max # NoLimit /\ max < Cardinality(O) + Cardinality(G) THEN max ELSE Cardinality(O) + Cardinality(G)
  BY <1>8, <1>9, <1>18, Zenon DEF Remains
<1>20. IsListing(v, O, G, max)
  BY <1>19, Zenon DEF IsListing, Fine
<1> QED BY <1>4, <1>5, <1>14, <1>20, Zenon

-----------------------------------------------------------------------------
(* Listings agree *)

\* A question for a listing of a finite tree in which resolutions end.
IsListingQuestion(q) == Asked(STRING, q.fs, q.prefix, q.grouped, q.max)

\* All three parts of the agreement, for one question.
LEMMA AgreementHolds ==
    ASSUME NEW q, IsListingQuestion(q)
    PROVE  Agreement(q)
<1>1. PICK fs : fs = q.fs
  OBVIOUS
<1>2. PICK prefix : prefix = q.prefix
  OBVIOUS
<1>3. PICK grouped : grouped = q.grouped
  OBVIOUS
<1>4. PICK max : max = q.max
  OBVIOUS
<1>5. Asked(STRING, fs, prefix, grouped, max)
  BY <1>1, <1>2, <1>3, <1>4, Zenon DEF IsListingQuestion
<1>6. Objects(fs, prefix, grouped, max, LocalObjects(fs, prefix, grouped, max))
  BY <1>5, LocalListed
<1>7. IF Stat(fs, prefix) = "notdir" /\ ~BelowFile(fs, prefix)
      THEN SftpObjects(fs, prefix, grouped, max) = Empty
      ELSE Objects(fs, prefix, grouped, max, SftpObjects(fs, prefix, grouped, max))
  BY <1>5, SftpListed
<1>8. ASSUME Plainly(fs) /\ KindAt(fs, prefix) = "dir" /\ Stat(fs, prefix) = "dir"
      PROVE  IsListing(S3Objects(Keys(fs), prefix, grouped, max),
                       Listed(fs, prefix, grouped), Filled(fs, prefix, grouped), max)
  BY <1>5, <1>8, S3Listed
<1>9. ASSUME Plainly(fs) PROVE LocalDir(fs, prefix) = SftpDir(fs, prefix)
  BY <1>5, <1>9, DirectoriesAgree
<1>10. ASSUME Plainly(fs)
       PROVE  /\ LocalDir(fs, prefix).error = SftpDir(fs, prefix).error
              /\ ToSet(LocalDir(fs, prefix).objects) = ToSet(SftpDir(fs, prefix).objects)
  BY <1>9, <1>10, Zenon
<1> QED BY <1>1, <1>2, <1>3, <1>4, <1>6, <1>7, <1>8, <1>10, Zenon DEF Agreement, Keys, Filled

\* However large the tree is and however deep, whatever prefix, grouping and limit
\* are asked for, the local and the SFTP backend list what the contract says, S3
\* the same for the keys of the same files, and list_dir fails alike (Agreement).
THEOREM ListingsAgreeForEveryTree ==
    (question.about = "listing" => IsListingQuestion(question)) /\ [][UNCHANGED question]_question
    => []ListingsAgree
<1> DEFINE Put == question.about = "listing" => IsListingQuestion(question)
<1>1. Put /\ [UNCHANGED question]_question => Put'
  OBVIOUS
<1>2. Put => ListingsAgree
  BY AgreementHolds, Zenon DEF ListingsAgree, Answers
<1> QED BY <1>1, <1>2, PTL

===============================================================================
