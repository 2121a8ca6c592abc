----------------------------- MODULE DecisionProofs ---------------------------
(*****************************************************************************)
(* Proofs about the decisions of the storage layer. First what it computes   *)
(* by recursion: the pipeline that is inferred from a name, the folds that   *)
(* apply it, and the search for the caller's exception. A recursive          *)
(* function is what its equation says only if the equation has a solution,   *)
(* so the solutions are built first, and what they compute is shown by way   *)
(* of the least input that it would fail for. Then what needs no recursion:  *)
(* errors, hosts, secrets, and the connection that settings lead to.         *)
(*****************************************************************************)
EXTENDS StorageDecisions, WellFoundedInduction, SequenceTheorems, FiniteSetTheorems, TLAPS

-----------------------------------------------------------------------------
(* Recursion and induction over the naturals *)

\* Every nonempty set of naturals has a least element: what stands in for
\* induction here.
LEMMA LeastNatural ==
    ASSUME NEW T, T \subseteq Nat, T # {}
    PROVE  \E m \in T : \A k \in T : m <= k
<1> DEFINE R == {p \in Nat \X Nat : p[1] < p[2]}
<1>1. IsWellFoundedOn(R, Nat)
  BY NatLessThanWellFounded DEF OpToRel
<1>2. \E m \in T : \A y \in T : ~(<<y, m>> \in R)
  <2> HIDE DEF R
  <2>1. T \subseteq Nat /\ T # {}
    OBVIOUS
  <2> QED BY ONLY <2>1, <1>1, WFMin, Zenon
<1>3. PICK m \in T : \A y \in T : ~(<<y, m>> \in R)
  BY <1>2
<1>4. ASSUME NEW k \in T PROVE m <= k
  <2>1. m \in Nat /\ k \in Nat
    OBVIOUS
  <2>2. ~(<<k, m>> \in R)
    BY <1>3
  <2>3. ~(k < m)
    BY <2>1, <2>2
  <2> QED BY <2>1, <2>3
<1> QED BY <1>4

\* A nonempty set has an element of the least measure.
LEMMA LeastBy ==
    ASSUME NEW D, NEW mu \in [D -> Nat], NEW T \in SUBSET D, T # {}
    PROVE  \E x \in T : \A y \in T : mu[x] <= mu[y]
<1> DEFINE M == {mu[x] : x \in T}
<1>1. M \subseteq Nat /\ M # {}
  OBVIOUS
<1>2. PICK m \in M : \A k \in M : m <= k
  <2> HIDE DEF M
  <2> QED BY <1>1, LeastNatural
<1> QED BY <1>2

Descends(D, V, mu, stop, base, next, wrap) ==
    /\ mu \in [D -> Nat] /\ stop \in SUBSET D
    /\ base \in [stop -> V] /\ next \in [D \ stop -> D] /\ wrap \in [D \ stop -> [V -> V]]
    /\ \A x \in D \ stop : mu[next[x]] < mu[x]

Solves(f, D, V, stop, base, next, wrap) ==
    /\ f \in [D -> V]
    /\ \A x \in D : f[x] = IF x \in stop THEN base[x] ELSE wrap[x][f[next[x]]]

\* A recursion that descends to where it stops has a solution.
LEMMA LinearRecursion ==
    ASSUME NEW D, NEW V, NEW mu, NEW stop, NEW base, NEW next, NEW wrap,
           Descends(D, V, mu, stop, base, next, wrap)
    PROVE  \E f : Solves(f, D, V, stop, base, next, wrap)
<1> SUFFICES ASSUME mu \in [D -> Nat], stop \in SUBSET D,
                    base \in [stop -> V], next \in [D \ stop -> D],
                    wrap \in [D \ stop -> [V -> V]],
                    \A x \in D \ stop : mu[next[x]] < mu[x]
             PROVE  \E f \in [D -> V] :
                      \A x \in D : f[x] = IF x \in stop THEN base[x] ELSE wrap[x][f[next[x]]]
  BY DEF Descends, Solves
<1> DEFINE Closed(S) == /\ \A x \in stop : <<x, base[x]>> \in S
                        /\ \A x \in D \ stop : \A v \in V :
                              <<next[x], v>> \in S => <<x, wrap[x][v]>> \in S
           G == {p \in D \X V : \A S \in SUBSET (D \X V) : Closed(S) => p \in S}
           Bad == {x \in D : ~ \E v \in V : <<x, v>> \in G /\ \A w \in V : <<x, w>> \in G => w = v}
<1>0. \A x \in D \ stop : next[x] \in D /\ \A v \in V : wrap[x][v] \in V
  OBVIOUS
<1>1. Closed(G)
  <2>1. ASSUME NEW x \in stop PROVE <<x, base[x]>> \in G
    OBVIOUS
  <2>2. ASSUME NEW x \in D \ stop, NEW v \in V, <<next[x], v>> \in G
        PROVE  <<x, wrap[x][v]>> \in G
    <3>1. <<x, wrap[x][v]>> \in D \X V
      BY <1>0
    <3>2. ASSUME NEW S \in SUBSET (D \X V), Closed(S) PROVE <<x, wrap[x][v]>> \in S
      <4>1. <<next[x], v>> \in S
        BY <2>2, <3>2
      <4> QED BY <4>1, <3>2
    <3> QED BY <3>1, <3>2
  <2> QED BY <2>1, <2>2
\* what G has is what closure gives it
<1>2. ASSUME NEW x \in stop, NEW v \in V, <<x, v>> \in G PROVE v = base[x]
  <2> SUFFICES ASSUME v # base[x] PROVE FALSE
    OBVIOUS
  <2> DEFINE S == G \ {<<x, v>>}
  <2>1. S \in SUBSET (D \X V)
    OBVIOUS
  <2>2. ASSUME NEW y \in stop PROVE <<y, base[y]>> \in S
    <3>1. <<y, base[y]>> \in G
      BY <1>1
    <3>2. <<y, base[y]>> # <<x, v>>
      OBVIOUS
    <3> QED BY <3>1, <3>2
  <2>3. ASSUME NEW y \in D \ stop, NEW w \in V, <<next[y], w>> \in S
        PROVE  <<y, wrap[y][w]>> \in S
    <3>1. <<y, wrap[y][w]>> \in G
      BY <1>1, <2>3
    <3> QED BY <3>1
  <2>4. Closed(S)
    BY <2>2, <2>3
  <2>5. <<x, v>> \in S
    <3> HIDE DEF S
    <3> QED BY <1>2, <2>1, <2>4
  <2> QED BY <2>5
<1>3. ASSUME NEW x \in D \ stop, NEW u \in V, <<next[x], u>> \in G,
             \A w \in V : <<next[x], w>> \in G => w = u,
             NEW v \in V, <<x, v>> \in G
      PROVE  v = wrap[x][u]
  <2> SUFFICES ASSUME v # wrap[x][u] PROVE FALSE
    OBVIOUS
  <2> DEFINE S == G \ {<<x, v>>}
  <2>1. S \in SUBSET (D \X V)
    OBVIOUS
  <2>2. ASSUME NEW y \in stop PROVE <<y, base[y]>> \in S
    <3>1. <<y, base[y]>> \in G
      BY <1>1
    <3> QED BY <3>1
  <2>3. ASSUME NEW y \in D \ stop, NEW w \in V, <<next[y], w>> \in S
        PROVE  <<y, wrap[y][w]>> \in S
    <3>1. <<y, wrap[y][w]>> \in G
      BY <1>1, <2>3
    <3>2. ASSUME y = x PROVE w = u
      BY <1>3, <2>3, <3>2
    <3>3. <<y, wrap[y][w]>> # <<x, v>>
      BY <3>2
    <3> QED BY <3>1, <3>3
  <2>4. Closed(S)
    BY <2>2, <2>3
  <2>5. <<x, v>> \in S
    <3> HIDE DEF S
    <3> QED BY <1>3, <2>1, <2>4
  <2> QED BY <2>5
<1>4. Bad = {}
  <2> SUFFICES ASSUME Bad # {} PROVE FALSE
    OBVIOUS
  <2>1. PICK x \in Bad : \A y \in Bad : mu[x] <= mu[y]
    <3>1. Bad \in SUBSET D
      OBVIOUS
    <3> HIDE DEF Bad
    <3> QED BY <3>1, LeastBy
  <2>2. CASE x \in stop
    <3>1. <<x, base[x]>> \in G /\ base[x] \in V
      BY <1>1, <2>2
    <3>2. \A w \in V : <<x, w>> \in G => w = base[x]
      BY <1>2, <2>2
    <3> HIDE DEF G
    <3> QED BY <3>1, <3>2
  <2>3. CASE x \notin stop
    <3>1. x \in D \ stop /\ next[x] \in D
      BY <2>3, <1>0
    <3>2. mu[next[x]] < mu[x] /\ mu[x] \in Nat /\ mu[next[x]] \in Nat
      BY <3>1
    <3>3. next[x] \notin Bad
      <4> HIDE DEF Bad
      <4> QED BY <2>1, <3>2
    <3>4. PICK u \in V : <<next[x], u>> \in G /\ \A w \in V : <<next[x], w>> \in G => w = u
      <4> HIDE DEF G
      <4> QED BY <3>1, <3>3
    <3>5. <<x, wrap[x][u]>> \in G /\ wrap[x][u] \in V
      BY <1>0, <1>1, <3>1, <3>4
    <3>6. \A w \in V : <<x, w>> \in G => w = wrap[x][u]
      BY <1>3, <3>1, <3>4
    <3> HIDE DEF G
    <3> QED BY <3>5, <3>6
  <2> QED BY <2>2, <2>3
<1> DEFINE f == [x \in D |-> CHOOSE v \in V : <<x, v>> \in G]
<1>5. ASSUME NEW x \in D PROVE f[x] \in V /\ <<x, f[x]>> \in G
  <2>1. \E v \in V : <<x, v>> \in G
    <3> HIDE DEF G
    <3> QED BY <1>4
  <2> HIDE DEF G
  <2> QED BY <2>1
<1>6. ASSUME NEW x \in D
      PROVE  f[x] = IF x \in stop THEN base[x] ELSE wrap[x][f[next[x]]]
  <2>1. CASE x \in stop
    <3> HIDE DEF G, f
    <3> QED BY <1>2, <1>5, <2>1
  <2>2. CASE x \notin stop
    <3>1. x \in D \ stop /\ next[x] \in D
      BY <2>2, <1>0
    <3>2. f[next[x]] \in V /\ <<next[x], f[next[x]]>> \in G
      <4> HIDE DEF G, f
      <4> QED BY <3>1, <1>5
    <3>3. \A w \in V : <<next[x], w>> \in G => w = f[next[x]]
      <4> HIDE DEF G, f
      <4> QED BY <3>1, <3>2, <1>4
    <3> HIDE DEF G, f
    <3> QED BY <1>3, <1>5, <3>1, <3>2, <3>3, <2>2
  <2> QED BY <2>1, <2>2
<1>7. f \in [D -> V]
  <2> HIDE DEF G
  <2> QED BY <1>5
<1> QED
  <2> HIDE DEF f
  <2> QED BY <1>6, <1>7

TailDescends(D, V, mu, stop, base, next) ==
    /\ mu \in [D -> Nat] /\ stop \in SUBSET D
    /\ base \in [stop -> V] /\ next \in [D \ stop -> D]
    /\ \A x \in D \ stop : mu[next[x]] < mu[x]

TailSolves(f, D, V, stop, base, next) ==
    /\ f \in [D -> V]
    /\ \A x \in D : f[x] = IF x \in stop THEN base[x] ELSE f[next[x]]

\* And so does one that hands on its result as it is.
LEMMA TailRecursion ==
    ASSUME NEW D, NEW V, NEW mu, NEW stop, NEW base, NEW next,
           TailDescends(D, V, mu, stop, base, next)
    PROVE  \E f : TailSolves(f, D, V, stop, base, next)
<1> USE DEF TailDescends
<1> DEFINE id == [v \in V |-> v]
           wrap == [x \in D \ stop |-> id]
<1>1. Descends(D, V, mu, stop, base, next, wrap)
  BY DEF Descends
<1>3. PICK f : Solves(f, D, V, stop, base, next, wrap)
  <2> HIDE DEF wrap
  <2> QED BY <1>1, LinearRecursion, Zenon
<1>4. ASSUME NEW x \in D PROVE f[x] = IF x \in stop THEN base[x] ELSE f[next[x]]
  <2>1. CASE x \in stop
    BY <2>1, <1>3 DEF Solves
  <2>2. CASE x \notin stop
    <3>1. f[next[x]] \in V
      BY <2>2, <1>3 DEF Solves
    <3>2. wrap[x][f[next[x]]] = f[next[x]]
      BY <2>2, <3>1
    <3> QED BY <2>2, <1>3, <3>2 DEF Solves
  <2> QED BY <2>1, <2>2
<1> QED BY <1>4, <1>3 DEF Solves, TailSolves

\* What is in a sequence with one more element.
LEMMA RangeAppended ==
    ASSUME NEW S, NEW r \in Seq(S), NEW c \in S
    PROVE  Range(r \o <<c>>) = Range(r) \cup {c}
<1>1. <<c>> \in Seq(S)
  OBVIOUS
<1>2. Range(<<c>>) = {c}
  BY DEF Range
<1>3. Range(r \o <<c>>) = Range(r) \cup Range(<<c>>)
  BY <1>1, RangeConcatenation, ZenonT(30)
<1> QED BY <1>2, <1>3

\* What is in three sequences, one after the other.
LEMMA ThreeConcatenated ==
    ASSUME NEW S, NEW r \in Seq(S), NEW a \in Seq(S), NEW b \in Seq(S)
    PROVE  /\ r \o (a \o b) \in Seq(S)
           /\ Len(r \o (a \o b)) = Len(r) + (Len(a) + Len(b))
           /\ Range(r \o (a \o b)) = Range(r) \cup (Range(a) \cup Range(b))
<1>1. a \o b \in Seq(S) /\ Len(a \o b) = Len(a) + Len(b)
  BY ConcatProperties
<1>2. Range(a \o b) = Range(a) \cup Range(b)
  BY RangeConcatenation
<1>3. Range(r \o (a \o b)) = Range(r) \cup Range(a \o b)
  <2>1. \A t \in Seq(S) : Range(r \o t) = Range(r) \cup Range(t)
    BY RangeConcatenation
  <2> QED BY ONLY <1>1, <2>1
<1> QED BY <1>1, <1>2, <1>3, ConcatProperties

\* A sequence is what comes before its last element, and that element.
LEMMA AllButLast ==
    ASSUME NEW S, NEW p \in Seq(S), p # <<>>
    PROVE  LET r == SubSeq(p, 1, Len(p) - 1) IN
           /\ p[Len(p)] \in S /\ r \in Seq(S) /\ Len(r) = Len(p) - 1
           /\ p = r \o <<p[Len(p)]>>
           /\ Range(p) = Range(r) \cup {p[Len(p)]}
<1> DEFINE r == SubSeq(p, 1, Len(p) - 1)
           c == p[Len(p)]
<1>1. Len(p) \in Nat /\ Len(p) > 0 /\ \A i \in 1..Len(p) : p[i] \in S
  BY EmptySeq
<1>2. p = r \o <<c>>
  <2>1. SubSeq(p, 1, Len(p)) = r \o <<c>>
    BY <1>1, SubSeqRecursiveSecond
  <2> QED BY <1>1, <2>1, SubSeqFull
<1>3. r \in Seq(S) /\ Len(r) = Len(p) - 1
  <2> DEFINE m == Len(p) - 1
  <2>1. m \in Int /\ 1 \in Int /\ \A i \in 1..m : p[i] \in S
    BY <1>1
  <2>2. r \in Seq(S) /\ Len(r) = IF 1 <= m THEN m - 1 + 1 ELSE 0
    <3> HIDE DEF m
    <3> QED BY <2>1, SubSeqProperties DEF m
  <2>3. m \in Nat /\ (IF 1 <= m THEN m - 1 + 1 ELSE 0) = m
    <3>1. PICK k \in Nat : k = Len(p) /\ k > 0
      BY <1>1
    <3>2. k - 1 \in Nat /\ (IF 1 <= k - 1 THEN k - 1 - 1 + 1 ELSE 0) = k - 1
      BY <3>1
    <3> QED BY <3>1, <3>2
  <2> HIDE DEF r
  <2> QED BY <2>2, <2>3
<1>4. c \in S
  BY <1>1
<1>5. Range(p) = Range(r) \cup {c}
  <2> HIDE DEF r, c
  <2> QED BY ONLY <1>2, <1>3, <1>4, RangeAppended
<1> QED BY <1>2, <1>3, <1>4, <1>5

-----------------------------------------------------------------------------
(* Folds *)

\* What holds at 0 and goes on from each number to the next holds up to n.
LEMMA UpInduction ==
    ASSUME NEW n \in Nat, NEW G, 0 \in G, \A m \in 1..n : m - 1 \in G => m \in G
    PROVE  0..n \subseteq G
<1> SUFFICES ASSUME 0..n \ G # {} PROVE FALSE
  OBVIOUS
<1>1. PICK m \in 0..n \ G : \A k \in 0..n \ G : m <= k
  <2>1. 0..n \ G \subseteq Nat
    OBVIOUS
  <2> QED BY <2>1, LeastNatural
<1>2. m \in 1..n /\ m - 1 \in 0..n
  BY <1>1
<1>3. m - 1 \in G
  BY <1>1, <1>2
<1> QED BY <1>1, <1>2, <1>3

\* Max of a set of indices is its greatest element.
LEMMA Greatest ==
    ASSUME NEW n \in Nat, NEW s \in SUBSET (1..n), s # {}
    PROVE  Max(s) \in s /\ \A y \in s : Max(s) >= y
<1> DEFINE mu == [x \in 1..n |-> n - x]
<1>1. mu \in [1..n -> Nat]
  OBVIOUS
<1>2. PICK x \in s : \A y \in s : mu[x] <= mu[y]
  <2> HIDE DEF mu
  <2> QED BY <1>1, LeastBy
<1>3. ASSUME NEW y \in s PROVE x >= y
  <2>1. x \in 1..n /\ y \in 1..n
    OBVIOUS
  <2>2. mu[x] = n - x /\ mu[y] = n - y /\ mu[x] <= mu[y]
    BY <1>2, <2>1
  <2>3. x \in Int /\ y \in Int /\ n - x <= n - y
    BY <2>1, <2>2
  <2> QED BY ONLY n \in Nat, <2>3
<1> QED BY <1>3 DEF Max

\* Min of a set of indices is its least element.
LEMMA Least ==
    ASSUME NEW n \in Nat, NEW s \in SUBSET (1..n), s # {}
    PROVE  Min(s) \in s /\ \A y \in s : Min(s) <= y
<1>0. s \subseteq Nat
  OBVIOUS
<1>1. PICK x \in s : \A y \in s : x <= y
  BY <1>0, LeastNatural
<1> QED BY <1>1 DEF Min

\* A fold over the elements of a finite set, taken in the order of pick.
Folds(iter, S, V, base, pick, op) ==
    /\ iter \in [SUBSET S -> V]
    /\ \A s \in SUBSET S : iter[s] = IF s = {} THEN base ELSE op[pick[s]][iter[s \ {pick[s]}]]

\* The function that MapThenFoldSet chooses for a finite set exists.
LEMMA FoldExists ==
    ASSUME NEW S, IsFiniteSet(S), NEW V, NEW base \in V,
           NEW pick, \A s \in SUBSET S : s # {} => pick[s] \in s,
           NEW op \in [S -> [V -> V]]
    PROVE  \E iter : Folds(iter, S, V, base, pick, op)
<1> DEFINE D == SUBSET S
           stop == {{}}
           mu == [s \in D |-> Cardinality(s)]
           first == [s \in stop |-> base]
           next == [s \in D \ stop |-> s \ {pick[s]}]
           wrap == [s \in D \ stop |-> op[pick[s]]]
<1>1. \A s \in D : IsFiniteSet(s) /\ Cardinality(s) \in Nat
  BY FS_Subset, FS_CardinalityType
<1>2. mu \in [D -> Nat] /\ stop \in SUBSET D /\ first \in [stop -> V]
      /\ next \in [D \ stop -> D] /\ wrap \in [D \ stop -> [V -> V]]
  BY <1>1
<1>3. ASSUME NEW s \in D \ stop PROVE mu[next[s]] < mu[s]
  <2>1. pick[s] \in s /\ IsFiniteSet(s)
    BY <1>1
  <2>2. Cardinality(s \ {pick[s]}) = Cardinality(s) - 1
    BY <2>1, FS_RemoveElement
  <2>3. Cardinality(s) \in Nat /\ s \ {pick[s]} \in D
    BY <1>1
  <2> QED BY <2>2, <2>3
<1>4. Descends(D, V, mu, stop, first, next, wrap)
  <2> HIDE DEF mu, next, wrap, first
  <2> QED BY <1>2, <1>3 DEF Descends
<1>5. PICK f : Solves(f, D, V, stop, first, next, wrap)
  <2> HIDE DEF mu, next, wrap, first, stop, D
  <2> QED BY <1>4, LinearRecursion, Zenon
<1>6. ASSUME NEW s \in D PROVE f[s] = IF s = {} THEN base ELSE op[pick[s]][f[s \ {pick[s]}]]
  BY <1>5 DEF Solves
<1> QED BY <1>5, <1>6 DEF Solves, Folds

\* The indices of a sequence are what the folds below pick from.
LEMMA SequenceDomain ==
    ASSUME NEW T, NEW p \in Seq(T)
    PROVE  /\ Len(p) \in Nat /\ DOMAIN p = 1..Len(p) /\ IsFiniteSet(DOMAIN p)
           /\ \A s \in SUBSET DOMAIN p : s # {} => Max(s) \in s /\ \A y \in s : Max(s) >= y
           /\ \A s \in SUBSET DOMAIN p : s # {} => Min(s) \in s /\ \A y \in s : Min(s) <= y
<1>1. Len(p) \in Nat /\ DOMAIN p = 1..Len(p)
  OBVIOUS
<1>2. PICK n \in Nat : n = Len(p)
  BY <1>1
<1>3. IsFiniteSet(1..n)
  BY FS_Interval
<1> QED BY <1>1, <1>2, <1>3, Greatest, Least

\* The stretches of a sequence's places that a fold goes through.
LEMMA Stretches ==
    ASSUME NEW T, NEW p \in Seq(T), NEW m \in 1..Len(p)
    PROVE  /\ 1..m \in SUBSET DOMAIN p /\ 1..m # {}
           /\ Max(1..m) = m /\ 1..m \ {m} = 1..(m - 1)
           /\ m..Len(p) \in SUBSET DOMAIN p /\ m..Len(p) # {}
           /\ Min(m..Len(p)) = m /\ m..Len(p) \ {m} = (m + 1)..Len(p)
<1>1. PICK n \in Nat : n = Len(p) /\ DOMAIN p = 1..n
  BY SequenceDomain
<1>2. m \in 1..n /\ m \in Int
  BY <1>1
<1>3. /\ \A x \in 1..m : x \in 1..n
      /\ m \in 1..m /\ 1..m \ {m} = 1..(m - 1)
      /\ \A x \in m..n : x \in 1..n
      /\ m \in m..n /\ m..n \ {m} = (m + 1)..n
  BY <1>2
<1>4. /\ Max(1..m) \in 1..m /\ Max(1..m) >= m
      /\ Min(m..n) \in m..n /\ Min(m..n) <= m
  BY <1>1, <1>3, SequenceDomain
<1>5. \A x : x \in 1..m /\ x >= m => x = m
  BY <1>2
<1>6. \A x : x \in m..n /\ x <= m => x = m
  BY <1>2
<1>7. Max(1..m) = m /\ Min(m..n) = m
  BY <1>4, <1>5, <1>6
<1> QED BY <1>1, <1>3, <1>7

\* ApplyRead is a chain of steps, from the first layer to the last.
LEMMA ReadFold ==
    ASSUME NEW T, "raises" \in T, NEW p \in Seq(T), NEW bytes \in Seq(T)
    PROVE  \E f : /\ f[0] = bytes /\ f[Len(p)] = ApplyRead(p, bytes)
                 /\ \A m \in 1..Len(p) : f[m] = Unwrap(p[m], f[m - 1])
<1> DEFINE S == DOMAIN p
           V == Seq(T)
           pick == [s \in SUBSET S |-> Max(s)]
           op == [i \in S |-> [b \in V |-> Unwrap(p[i], b)]]
           Body(g, s) == IF s = {} THEN bytes ELSE Unwrap(p[Max(s)], g[s \ {Max(s)}])
           iter == CHOOSE g : g = [s \in SUBSET S |-> Body(g, s)]
<1>1. ApplyRead(p, bytes) = iter[S]
  BY Zenon DEF ApplyRead, FoldLeft, MapThenFoldSet
<1>2. op \in [S -> [V -> V]]
  <2>1. ASSUME NEW i \in S, NEW b \in V PROVE Unwrap(p[i], b) \in V
    <3>1. b # <<>> => Tail(b) \in V
      OBVIOUS
    <3>2. Raises \in V
      BY DEF Raises
    <3> HIDE DEF V
    <3> QED BY <3>1, <3>2 DEF Unwrap
  <2> QED BY <2>1
<1>3. /\ IsFiniteSet(S) /\ bytes \in V
      /\ \A s \in SUBSET S : s # {} => pick[s] \in s
  BY SequenceDomain, EmptySeq DEF Plain
<1>4. PICK g : Folds(g, S, V, bytes, pick, op)
  <2> HIDE DEF S, V, pick, op
  <2> QED BY <1>2, <1>3, FoldExists
<1>5. g = [s \in SUBSET S |-> Body(g, s)]
  <2>1. g \in [SUBSET S -> V]
    BY <1>4 DEF Folds
  <2>2. ASSUME NEW s \in SUBSET S PROVE g[s] = Body(g, s)
    <3>1. CASE s = {}
      BY <3>1, <1>4 DEF Folds
    <3>2. CASE s # {}
      <4>1. Max(s) \in S /\ g[s \ {Max(s)}] \in V
        <5>1. Max(s) \in s
          BY <1>3, <3>2
        <5> HIDE DEF V
        <5> QED BY <2>1, <5>1
      <4>2. g[s] = op[Max(s)][g[s \ {Max(s)}]]
        <5> HIDE DEF op, V
        <5> QED BY <1>4, <3>2 DEF Folds
      <4> HIDE DEF V, S
      <4> QED BY <4>1, <4>2, <3>2
    <3> QED BY <3>1, <3>2
  <2> HIDE DEF Body, S, V
  <2> QED BY <2>1, <2>2
<1>6. iter = [s \in SUBSET S |-> Body(iter, s)]
  <2> HIDE DEF Body, S
  <2> QED BY <1>5, Zenon
<1> HIDE DEF iter
<1>7. /\ iter[{}] = bytes
      /\ \A s \in SUBSET S : s # {} => iter[s] = Unwrap(p[Max(s)], iter[s \ {Max(s)}])
  BY <1>6
<1> DEFINE n == Len(p)
           f == [m \in 0..n |-> iter[1..m]]
<1>8. n \in Nat /\ S = 1..n
  BY SequenceDomain
<1>9. ASSUME NEW m \in 1..n PROVE f[m] = Unwrap(p[m], f[m - 1])
  <2>1. m \in 0..n /\ m - 1 \in 0..n
    BY <1>8
  <2>2. iter[1..m] = Unwrap(p[m], iter[1..(m - 1)])
    <3> DEFINE all == 1..m
    <3>1. all \in SUBSET S /\ all # {} /\ Max(all) = m /\ all \ {m} = 1..(m - 1)
      BY Stretches
    <3> HIDE DEF S, n, all
    <3>2. iter[all] = Unwrap(p[Max(all)], iter[all \ {Max(all)}])
      BY <1>7, <3>1
    <3>3. iter[all] = Unwrap(p[m], iter[1..(m - 1)])
      BY ONLY <3>1, <3>2, Zenon
    <3> QED BY <3>3 DEF all
  <2>3. f[m] = iter[1..m] /\ f[m - 1] = iter[1..(m - 1)]
    <3> HIDE DEF n
    <3> QED BY <2>1
  <2> HIDE DEF f
  <2> QED BY <2>2, <2>3
<1>10. f[0] = bytes /\ f[n] = iter[S]
  <2>1. 0 \in 0..n /\ n \in 0..n /\ 1..0 = {}
    BY <1>8
  <2> QED BY <1>7, <1>8, <2>1
<1> HIDE DEF f
<1> QED BY <1>1, <1>9, <1>10

\* ApplyWrite is a chain of steps, from the last layer to the first.
LEMMA WriteFold ==
    ASSUME NEW T, NEW p \in Seq(T), NEW bytes \in Seq(T)
    PROVE  \E f : /\ f[Len(p) + 1] = bytes /\ f[1] = ApplyWrite(p, bytes)
                 /\ \A m \in 1..Len(p) : f[m] = Wrap(p[m], f[m + 1])
<1> DEFINE S == DOMAIN p
           V == Seq(T)
           pick == [s \in SUBSET S |-> Min(s)]
           op == [i \in S |-> [b \in V |-> Wrap(p[i], b)]]
           Body(g, s) == IF s = {} THEN bytes ELSE Wrap(p[Min(s)], g[s \ {Min(s)}])
           iter == CHOOSE g : g = [s \in SUBSET S |-> Body(g, s)]
<1>1. ApplyWrite(p, bytes) = iter[S]
  BY Zenon DEF ApplyWrite, FoldRight, MapThenFoldSet
<1>2. op \in [S -> [V -> V]]
  BY DEF Wrap
<1>3. /\ IsFiniteSet(S) /\ bytes \in V
      /\ \A s \in SUBSET S : s # {} => pick[s] \in s
  BY SequenceDomain, EmptySeq DEF Plain
<1>4. PICK g : Folds(g, S, V, bytes, pick, op)
  <2> HIDE DEF S, V, pick, op
  <2> QED BY <1>2, <1>3, FoldExists
<1>5. g = [s \in SUBSET S |-> Body(g, s)]
  <2>1. g \in [SUBSET S -> V]
    BY <1>4 DEF Folds
  <2>2. ASSUME NEW s \in SUBSET S PROVE g[s] = Body(g, s)
    <3>1. CASE s = {}
      BY <3>1, <1>4 DEF Folds
    <3>2. CASE s # {}
      <4>1. Min(s) \in S /\ g[s \ {Min(s)}] \in V
        <5>1. Min(s) \in s
          BY <1>3, <3>2
        <5> HIDE DEF V
        <5> QED BY <2>1, <5>1
      <4>2. g[s] = op[Min(s)][g[s \ {Min(s)}]]
        <5> HIDE DEF op, V
        <5> QED BY <1>4, <3>2 DEF Folds
      <4> HIDE DEF V, S
      <4> QED BY <4>1, <4>2, <3>2
    <3> QED BY <3>1, <3>2
  <2> HIDE DEF Body, S, V
  <2> QED BY <2>1, <2>2
<1>6. iter = [s \in SUBSET S |-> Body(iter, s)]
  <2> HIDE DEF Body, S
  <2> QED BY <1>5, Zenon
<1> HIDE DEF iter
<1>7. /\ iter[{}] = bytes
      /\ \A s \in SUBSET S : s # {} => iter[s] = Wrap(p[Min(s)], iter[s \ {Min(s)}])
  BY <1>6
<1> DEFINE n == Len(p)
           f == [m \in 1..(n + 1) |-> iter[m..n]]
<1>8. n \in Nat /\ S = 1..n
  BY SequenceDomain
<1>9. ASSUME NEW m \in 1..n PROVE f[m] = Wrap(p[m], f[m + 1])
  <2>1. m \in 1..(n + 1) /\ m + 1 \in 1..(n + 1)
    BY <1>8
  <2>2. iter[m..n] = Wrap(p[m], iter[(m + 1)..n])
    <3> DEFINE all == m..n
    <3>1. all \in SUBSET S /\ all # {} /\ Min(all) = m /\ all \ {m} = (m + 1)..n
      BY Stretches
    <3> HIDE DEF S, n, all
    <3>2. iter[all] = Wrap(p[Min(all)], iter[all \ {Min(all)}])
      BY <1>7, <3>1
    <3>3. iter[all] = Wrap(p[m], iter[(m + 1)..n])
      BY ONLY <3>1, <3>2, Zenon
    <3> QED BY <3>3 DEF all
  <2>3. f[m] = iter[m..n] /\ f[m + 1] = iter[(m + 1)..n]
    <3> HIDE DEF n
    <3> QED BY <2>1
  <2> HIDE DEF f
  <2> QED BY <2>2, <2>3
<1>10. f[n + 1] = bytes /\ f[1] = iter[S]
  <2>1. n + 1 \in 1..(n + 1) /\ 1 \in 1..(n + 1) /\ (n + 1)..n = {}
    BY <1>8
  <2> QED BY <1>7, <1>8, <2>1
<1> HIDE DEF f
<1> QED BY <1>1, <1>9, <1>10

\* Made is a chain of steps, from the first suffix to the last.
LEMMA MadeFold ==
    ASSUME NEW U, NEW p \in Seq(U)
    PROVE  \E f : /\ f[0] = Plain /\ f[Len(p)] = Made(p)
                 /\ \A m \in 1..Len(p) : f[m] = Wrap(Tool(p[m]), f[m - 1])
<1> DEFINE S == DOMAIN p
           V == Seq({"gzip", "gpg"})
           pick == [s \in SUBSET S |-> Max(s)]
           op == [i \in S |-> [b \in V |-> Wrap(Tool(p[i]), b)]]
           Body(g, s) == IF s = {} THEN Plain ELSE Wrap(Tool(p[Max(s)]), g[s \ {Max(s)}])
           iter == CHOOSE g : g = [s \in SUBSET S |-> Body(g, s)]
<1>1. Made(p) = iter[S]
  BY Zenon DEF Made, FoldLeft, MapThenFoldSet
<1>2. op \in [S -> [V -> V]]
  BY DEF Wrap, Tool
<1>3. /\ IsFiniteSet(S) /\ Plain \in V
      /\ \A s \in SUBSET S : s # {} => pick[s] \in s
  BY SequenceDomain, EmptySeq DEF Plain
<1>4. PICK g : Folds(g, S, V, Plain, pick, op)
  <2> HIDE DEF S, V, pick, op
  <2> QED BY <1>2, <1>3, FoldExists
<1>5. g = [s \in SUBSET S |-> Body(g, s)]
  <2>1. g \in [SUBSET S -> V]
    BY <1>4 DEF Folds
  <2>2. ASSUME NEW s \in SUBSET S PROVE g[s] = Body(g, s)
    <3>1. CASE s = {}
      BY <3>1, <1>4 DEF Folds
    <3>2. CASE s # {}
      <4>1. Max(s) \in S /\ g[s \ {Max(s)}] \in V
        <5>1. Max(s) \in s
          BY <1>3, <3>2
        <5> HIDE DEF V
        <5> QED BY <2>1, <5>1
      <4>2. g[s] = op[Max(s)][g[s \ {Max(s)}]]
        <5> HIDE DEF op, V
        <5> QED BY <1>4, <3>2 DEF Folds
      <4> HIDE DEF V, S
      <4> QED BY <4>1, <4>2, <3>2
    <3> QED BY <3>1, <3>2
  <2> HIDE DEF Body, S, V
  <2> QED BY <2>1, <2>2
<1>6. iter = [s \in SUBSET S |-> Body(iter, s)]
  <2> HIDE DEF Body, S
  <2> QED BY <1>5, Zenon
<1> HIDE DEF iter
<1>7. /\ iter[{}] = Plain
      /\ \A s \in SUBSET S : s # {} => iter[s] = Wrap(Tool(p[Max(s)]), iter[s \ {Max(s)}])
  BY <1>6
<1> DEFINE n == Len(p)
           f == [m \in 0..n |-> iter[1..m]]
<1>8. n \in Nat /\ S = 1..n
  BY SequenceDomain
<1>9. ASSUME NEW m \in 1..n PROVE f[m] = Wrap(Tool(p[m]), f[m - 1])
  <2>1. m \in 0..n /\ m - 1 \in 0..n
    BY <1>8
  <2>2. iter[1..m] = Wrap(Tool(p[m]), iter[1..(m - 1)])
    <3> DEFINE all == 1..m
    <3>1. all \in SUBSET S /\ all # {} /\ Max(all) = m /\ all \ {m} = 1..(m - 1)
      BY Stretches
    <3> HIDE DEF S, n, all
    <3>2. iter[all] = Wrap(Tool(p[Max(all)]), iter[all \ {Max(all)}])
      BY <1>7, <3>1
    <3>3. iter[all] = Wrap(Tool(p[m]), iter[1..(m - 1)])
      BY ONLY <3>1, <3>2, Zenon
    <3> QED BY <3>3 DEF all
  <2>3. f[m] = iter[1..m] /\ f[m - 1] = iter[1..(m - 1)]
    <3> HIDE DEF n
    <3> QED BY <2>1
  <2> HIDE DEF f
  <2> QED BY <2>2, <2>3
<1>10. f[0] = Plain /\ f[n] = iter[S]
  <2>1. 0 \in 0..n /\ n \in 0..n /\ 1..0 = {}
    BY <1>8
  <2> QED BY <1>7, <1>8, <2>1
<1> HIDE DEF f
<1> QED BY <1>1, <1>9, <1>10

-----------------------------------------------------------------------------
(* Transforms *)

Kinds == {"gzip", "gpg"}

\* What a pipeline writes around the plain text is itself.
LEMMA WrittenLayers ==
    ASSUME NEW p \in Seq(Kinds)
    PROVE  ApplyWrite(p, Plain) = p
<1> DEFINE n == Len(p)
<1>1. n \in Nat /\ Plain \in Seq(Kinds)
  BY EmptySeq DEF Plain
<1>2. PICK f : /\ f[n + 1] = Plain /\ f[1] = ApplyWrite(p, Plain)
               /\ \A m \in 1..n : f[m] = Wrap(p[m], f[m + 1])
  BY <1>1, WriteFold
<1> DEFINE G == {k \in 0..n : f[n + 1 - k] = SubSeq(p, n + 1 - k, n)}
<1>3. 0 \in G
  <2>1. SubSeq(p, n + 1, n) = <<>>
    BY <1>1, SubSeqEmpty
  <2>2. n + 1 - 0 = n + 1 /\ 0 \in 0..n
    BY <1>1
  <2> HIDE DEF n
  <2> QED BY <1>2, <2>1, <2>2 DEF Plain
<1>4. ASSUME NEW k \in 1..n, k - 1 \in G PROVE k \in G
  <2> DEFINE m == n + 1 - k
  <2>1. m \in 1..n /\ n \in m..n /\ n + 1 - (k - 1) = m + 1
    BY <1>1
  <2>2. f[m + 1] = SubSeq(p, m + 1, n)
    BY <1>4, <2>1
  <2>3. SubSeq(p, m, n) = <<p[m]>> \o SubSeq(p, m + 1, n)
    BY <2>1, SubSeqRecursiveFirst
  <2>4. f[m] = <<p[m]>> \o f[m + 1]
    BY <1>2, <2>1 DEF Wrap
  <2>5. f[m] = SubSeq(p, m, n) /\ k \in 0..n
    BY <1>1, <2>2, <2>3, <2>4, SMTT(30)
  <2> QED BY <2>5
<1>5. 0..n \subseteq G
  <2> HIDE DEF G, n
  <2> QED BY <1>1, <1>3, <1>4, UpInduction
<1>6. f[1] = SubSeq(p, 1, n)
  <2>1. n \in 0..n /\ n + 1 - n = 1
    <3> HIDE DEF n
    <3> QED BY <1>1
  <2>2. n \in G
    BY <1>5, <2>1
  <2> QED BY <2>1, <2>2
<1> QED BY <1>2, <1>6, SubSeqFull

\* And a read through the same pipeline takes layer by layer off again.
LEMMA ReadLayers ==
    ASSUME NEW p \in Seq(Kinds)
    PROVE  ApplyRead(p, p) = Plain
<1> DEFINE n == Len(p)
           T == Kinds \cup {"raises"}
<1>1. n \in Nat /\ p \in Seq(T) /\ "raises" \in T
  BY SeqMonotonic
<1>2. PICK f : /\ f[0] = p /\ f[n] = ApplyRead(p, p)
               /\ \A m \in 1..n : f[m] = Unwrap(p[m], f[m - 1])
  <2> HIDE DEF T
  <2> QED BY <1>1, ReadFold
<1> DEFINE G == {k \in 0..n : f[k] = SubSeq(p, k + 1, n)}
<1>3. 0 \in G
  <2>1. SubSeq(p, 1, n) = p
    BY SubSeqFull
  <2> QED BY <1>1, <1>2, <2>1
<1>4. ASSUME NEW m \in 1..n, m - 1 \in G PROVE m \in G
  <2> DEFINE rest == SubSeq(p, m, n)
  <2>1. m \in 0..n /\ n \in m..n /\ m - 1 + 1 = m /\ p[m] \in Kinds
    BY <1>1
  <2>2. f[m - 1] = rest
    BY <1>4, <2>1
  <2>3. Head(rest) = p[m] /\ Tail(rest) = SubSeq(p, m + 1, n)
    BY <2>1, HeadTailOfSubSeq
  <2>4. rest # <<>>
    <3>1. rest = <<p[m]>> \o SubSeq(p, m + 1, n)
      BY <2>1, SubSeqRecursiveFirst
    <3>2. SubSeq(p, m + 1, n) \in Seq(Kinds) /\ <<p[m]>> \in Seq(Kinds)
      <4>1. \A i \in m + 1..n : p[i] \in Kinds
        BY <1>1
      <4>2. m + 1 \in Int /\ n \in Int
        BY <1>1
      <4> HIDE DEF n
      <4> QED BY <2>1, <4>1, <4>2, SubSeqProperties
    <3>3. Len(rest) = 1 + Len(SubSeq(p, m + 1, n)) /\ Len(SubSeq(p, m + 1, n)) \in Nat
      <4> HIDE DEF rest
      <4> QED BY <3>1, <3>2, ConcatProperties, LenProperties
    <3>4. ASSUME rest = <<>> PROVE FALSE
      <4>1. PICK k \in Nat : k = Len(SubSeq(p, m + 1, n))
        BY <3>3
      <4>2. 0 = 1 + k
        <5> HIDE DEF rest
        <5> QED BY <3>3, <3>4, <4>1
      <4> QED BY <4>2
    <3> QED BY <3>4
  <2>5. rest # Raises
    <3>1. Head(Raises) = "raises"
      BY DEF Raises
    <3> QED BY <2>1, <2>3, <3>1 DEF Kinds
  <2>6. Unwrap(p[m], rest) = SubSeq(p, m + 1, n)
    <3> HIDE DEF rest
    <3> QED BY <2>3, <2>4, <2>5 DEF Unwrap
  <2> QED BY <1>2, <2>1, <2>2, <2>6
<1>5. 0..n \subseteq G
  <2> HIDE DEF G, n
  <2> QED BY <1>1, <1>3, <1>4, UpInduction
<1>6. f[n] = <<>>
  <2>1. n \in G /\ SubSeq(p, n + 1, n) = <<>>
    BY <1>1, <1>5, SubSeqEmpty
  <2> QED BY <2>1
<1> QED BY <1>2, <1>6 DEF Plain

\* Where the suffixes begin that stand for a tool.
Known == {"gz", "GZ", "gzip", "gpg", "asc", "PGP"}

\* Where the suffixes of a name begin.
LEMMA FirstIs ==
    ASSUME NEW stem, NEW suffixes, NEW first, first = FirstAt(stem, suffixes)
    PROVE  /\ first = 2 => stem = "" /\ suffixes # <<>>
           /\ first = 1 => stem # "" \/ suffixes = <<>>
           /\ first \in {1, 2}
<1>1. CASE stem = "" /\ suffixes # <<>>
  <2>1. first = 2
    BY <1>1, Zenon DEF FirstAt
  <2>2. first # 1 /\ first \in {1, 2}
    BY ONLY <2>1
  <2> QED BY <1>1, <2>1, <2>2, Zenon
<1>2. CASE ~(stem = "" /\ suffixes # <<>>)
  <2>1. first = 1
    BY <1>2, Zenon DEF FirstAt
  <2>2. first # 2 /\ first \in {1, 2}
    BY ONLY <2>1
  <2> QED BY <1>2, <2>1, <2>2, Zenon
<1> QED BY <1>1, <1>2

\* A name begins with its first suffix only if it has no stem.
LEMMA SecondIs ==
    ASSUME NEW stem, NEW suffixes, FirstAt(stem, suffixes) = 2
    PROVE  stem = "" /\ suffixes # <<>>
<1>1. CASE stem = "" /\ suffixes # <<>>
  BY <1>1
<1>2. CASE ~(stem = "" /\ suffixes # <<>>)
  <2>1. FirstAt(stem, suffixes) = 1
    BY <1>2, Zenon DEF FirstAt
  <2>2. FirstAt(stem, suffixes) # 2
    BY ONLY <2>1
  <2> QED BY <2>2, Zenon
<1> QED BY <1>1, <1>2

\* The suffixes that stand for tools, as far as the proofs need them.
LEMMA ToolSuffixesBegin ==
    ASSUME NEW stem, NEW suffixes \in Seq(SuffixNames), NEW from, from = ToolSuffixes(stem, suffixes),
           NEW n, n = Len(suffixes), NEW first, first = FirstAt(stem, suffixes)
    PROVE  /\ from \in first..n + 1
           /\ \A j \in from..n : suffixes[j] \in Known
           /\ from > first => suffixes[from - 1] \notin Known
<1> DEFINE T == {i \in first..n + 1 : \A j \in i..n : suffixes[j] \in Known}
<1>1. n \in Nat /\ first \in 1..n + 1
  <2>1. n \in Nat /\ (suffixes # <<>> => n > 0)
    BY EmptySeq
  <2>2. 1 \in 1..n + 1 /\ (n > 0 => 2 \in 1..n + 1)
    BY <2>1
  <2>3. first = 2 => suffixes # <<>>
    BY SecondIs
  <2>4. first \in {1, 2}
    BY FirstIs, Zenon
  <2> QED BY <2>1, <2>2, <2>3, <2>4
<1>2. T \subseteq Nat /\ n + 1 \in T
  <2>1. n + 1 \in first..n + 1 /\ n + 1..n = {}
    BY <1>1
  <2> QED BY <1>1, <2>1
<1>3. PICK i \in T : \A k \in T : i <= k
  <2> HIDE DEF T
  <2> QED BY <1>2, LeastNatural
<1>4. i > first => suffixes[i - 1] \notin Known
  <2> SUFFICES ASSUME i > first, suffixes[i - 1] \in Known PROVE FALSE
    OBVIOUS
  <2>1. i - 1 \in first..n + 1 /\ i \in Int /\ \A j \in i - 1..n : j = i - 1 \/ j \in i..n
    BY <1>1, <1>3
  <2>2. \A j \in i - 1..n : suffixes[j] \in Known
    BY <1>3, <2>1
  <2>3. i - 1 \in T
    BY <2>1, <2>2
  <2>4. i <= i - 1
    BY <1>3, <2>3
  <2> QED BY ONLY <2>1, <2>4
<1> DEFINE Is(i2) == /\ \A j \in i2..n : suffixes[j] \in Known
                     /\ i2 > first => suffixes[i2 - 1] \notin Known
<1>5. from = CHOOSE i2 \in first..n + 1 : Is(i2)
  BY Zenon DEF ToolSuffixes, Known
<1>6. i \in first..n + 1 /\ Is(i)
  BY <1>3, <1>4
<1> HIDE DEF Is
<1>7. from \in first..n + 1 /\ Is(from)
  BY <1>5, <1>6
<1> QED BY <1>7 DEF Is

\* The recursion that infer_pipeline is, and its solution.
Peels(peel, stem, hasGpg) ==
    \A s \in Seq(SuffixNames) :
       /\ Infer(stem, s, hasGpg) = peel[s]
       /\ FinalKind(stem, s) = "none" => peel[s] = <<>>
       /\ FinalKind(stem, s) = "gpg" /\ ~hasGpg => peel[s] = Raises
       /\ FinalKind(stem, s) # "none" /\ ~(FinalKind(stem, s) = "gpg" /\ ~hasGpg) =>
             peel[s] = IF peel[Front(s)] = Raises THEN Raises
                       ELSE <<FinalKind(stem, s)>> \o peel[Front(s)]

\* The recursion of Infer has a solution: a suffix less each time.
LEMMA InferSolved ==
    ASSUME NEW stem, NEW hasGpg
    PROVE  \E peel : Peels(peel, stem, hasGpg)
<1> DEFINE D == Seq(SuffixNames)
           V == Seq(Kinds \cup {"raises"})
           Kind(s) == FinalKind(stem, s)
           On(kind, rest) == IF rest = Raises THEN Raises ELSE <<kind>> \o rest
           Body(g, s) == IF Kind(s) = "none" THEN <<>>
                         ELSE IF Kind(s) = "gpg" /\ ~hasGpg THEN Raises
                         ELSE On(Kind(s), g[Front(s)])
           Peel == CHOOSE g : g = [s \in D |-> Body(g, s)]
           stop == {s \in D : Kind(s) = "none" \/ (Kind(s) = "gpg" /\ ~hasGpg)}
           mu == [s \in D |-> Len(s)]
           base == [s \in stop |-> IF Kind(s) = "none" THEN <<>> ELSE Raises]
           next == [s \in D \ stop |-> Front(s)]
           wrap == [s \in D \ stop |-> [v \in V |-> On(Kind(s), v)]]
<1>1. \A s : Kind(s) \in Kinds \cup {"none"}
  BY DEF FinalKind, SuffixTransform, Kinds
<1>2. ASSUME NEW s \in D, Kind(s) # "none"
      PROVE  s # <<>> /\ Front(s) \in D /\ Len(Front(s)) = Len(s) - 1
  <2>1. s # <<>>
    BY <1>2 DEF FinalKind, HasSuffix
  <2> QED BY <2>1, AllButLast DEF Front
<1>3. /\ Raises \in V /\ <<>> \in V
      /\ \A v \in V, k \in Kinds : On(k, v) \in V
  <2> DEFINE L == Kinds \cup {"raises"}
  <2>1. "raises" \in L /\ \A k \in Kinds : k \in L
    OBVIOUS
  <2> HIDE DEF L
  <2>2. Raises \in Seq(L) /\ <<>> \in Seq(L)
    BY <2>1, EmptySeq DEF Raises
  <2>3. ASSUME NEW v \in Seq(L), NEW k \in Kinds PROVE On(k, v) \in Seq(L)
    <3>1. <<k>> \in Seq(L)
      BY <2>1
    <3>2. <<k>> \o v \in Seq(L)
      BY <3>1, ConcatProperties
    <3> QED BY <2>2, <3>2
  <2> QED BY <2>2, <2>3 DEF L
<1>4. Descends(D, V, mu, stop, base, next, wrap)
  <2>1. mu \in [D -> Nat]
    BY LenProperties
  <2>2. base \in [stop -> V]
    <3> HIDE DEF V, D, Kind
    <3> QED BY <1>3
  <2>3. next \in [D \ stop -> D] /\ \A s \in D \ stop : mu[next[s]] < mu[s]
    <3>1. ASSUME NEW s \in D \ stop PROVE Front(s) \in D /\ mu[Front(s)] < mu[s]
      <4>1. Front(s) \in D /\ Len(Front(s)) = Len(s) - 1 /\ Len(s) \in Nat
        BY <1>2, LenProperties
      <4> QED BY <4>1
    <3> QED BY <3>1
  <2>4. wrap \in [D \ stop -> [V -> V]]
    <3>1. ASSUME NEW s \in D \ stop, NEW v \in V PROVE On(Kind(s), v) \in V
      <4>1. Kind(s) \in Kinds
        BY <1>1
      <4> HIDE DEF V, On, Kind
      <4> QED BY <1>3, <4>1
    <3> HIDE DEF V, On, Kind
    <3> QED BY <3>1
  <2> HIDE DEF mu, base, next, wrap, V, D
  <2> QED BY <2>1, <2>2, <2>3, <2>4 DEF Descends
<1>5. PICK f : Solves(f, D, V, stop, base, next, wrap)
  <2> HIDE DEF mu, base, next, wrap, stop, D, V
  <2> QED BY <1>4, LinearRecursion, Zenon
<1>6. f = [s \in D |-> Body(f, s)]
  <2>1. f \in [D -> V] /\ \A s \in D : f[s] = IF s \in stop THEN base[s] ELSE wrap[s][f[next[s]]]
    <3> HIDE DEF mu, base, next, wrap, stop, D, V
    <3> QED BY <1>5 DEF Solves
  <2>2. ASSUME NEW s \in D PROVE f[s] = Body(f, s)
    <3>1. CASE s \in stop
      <4> HIDE DEF D, V, Kind
      <4> QED BY <2>1, <3>1
    <3>2. CASE s \notin stop
      <4>1. Front(s) \in D
        BY <1>2, <3>2
      <4>2. f[Front(s)] \in V /\ next[s] = Front(s)
        <5> HIDE DEF D, V, Kind
        <5> QED BY <2>1, <3>2, <4>1
      <4>3. f[s] = On(Kind(s), f[Front(s)])
        <5> HIDE DEF D, V, Kind, On, stop
        <5> QED BY <2>1, <3>2, <4>2
      <4> HIDE DEF D, V, Kind, On
      <4> QED BY <3>2, <4>3
    <3> QED BY <3>1, <3>2
  <2> HIDE DEF Body, D, V
  <2> QED BY <2>1, <2>2
<1>7. Peel = [s \in D |-> Body(Peel, s)]
  <2> HIDE DEF Body, D
  <2> QED BY <1>6, Zenon
<1>8. \A s : Infer(stem, s, hasGpg) = Peel[s]
  BY Zenon DEF Infer
<1> HIDE DEF Peel
<1>9. ASSUME NEW s \in D PROVE Peel[s] = Body(Peel, s)
  <2> HIDE DEF D, Body
  <2> QED BY <1>7
<1>10. ASSUME NEW s \in D
       PROVE  /\ Kind(s) = "none" => Peel[s] = <<>>
              /\ Kind(s) = "gpg" /\ ~hasGpg => Peel[s] = Raises
              /\ Kind(s) # "none" /\ ~(Kind(s) = "gpg" /\ ~hasGpg) => Peel[s] = On(Kind(s), Peel[Front(s)])
  <2>1. Peel[s] = Body(Peel, s)
    BY <1>9
  <2> HIDE DEF Kind, On
  <2> QED BY <2>1
<1> HIDE DEF D
<1>11. Peels(Peel, stem, hasGpg)
  BY <1>8, <1>10 DEF Peels, D
<1> QED BY <1>11

\* r is the first j elements of s.
Begins(S, s, j, r) ==
    /\ r \in Seq(S) /\ Len(r) = j
    /\ j > 0 => r[Len(r)] = s[j] /\ Front(r) = SubSeq(s, 1, j - 1)

\* The first j names of a sequence.
LEMMA PrefixOf ==
    ASSUME NEW S, NEW s \in Seq(S), NEW n, n = Len(s), NEW j \in 0..n
    PROVE  Begins(S, s, j, SubSeq(s, 1, j))
<1> DEFINE r == SubSeq(s, 1, j)
<1> SUFFICES /\ r \in Seq(S) /\ Len(r) = j
             /\ j > 0 => r[Len(r)] = s[j] /\ Front(r) = SubSeq(s, 1, j - 1)
  BY Zenon DEF Begins
<1> HIDE DEF r
<1>1. n = Len(s) /\ n \in Nat
  BY LenProperties
<1>2. j \in 0..n /\ j \in Int /\ (IF 1 <= j THEN j - 1 + 1 ELSE 0) = j /\ j - 1 + 1 = j
      /\ \A i \in 1..j : i \in 1..n /\ 1 + i - 1 = i
  BY <1>1
<1>3. \A i \in 1..j : s[i] \in S
  BY <1>1, <1>2, ElementOfSeq
<1>4. r \in Seq(S) /\ Len(r) = j /\ \A i \in 1..j : r[i] = s[i]
  <2>1. 1 \in Int
    OBVIOUS
  <2>2. /\ r \in Seq(S) /\ Len(r) = IF 1 <= j THEN j - 1 + 1 ELSE 0
        /\ \A i \in 1..j - 1 + 1 : r[i] = s[1 + i - 1]
    BY <1>2, <1>3, <2>1, SubSeqProperties DEF r
  <2> QED BY <1>2, <2>2
<1>5. ASSUME j > 0 PROVE r[Len(r)] = s[j] /\ Front(r) = SubSeq(s, 1, j - 1)
  <2>1. j \in 1..j /\ j - 1 \in 0..n /\ j - 1 \in Int /\ \A i \in 1..j - 1 : i \in 1..j
    BY <1>2, <1>5
  <2>2. Front(r) = SubSeq(r, 1, j - 1)
    BY <1>4 DEF Front
  <2>3. SubSeq(r, 1, j - 1) = SubSeq(s, 1, j - 1)
    <3>1. \A i \in 1..j - 1 : r[i] = s[i]
      BY <1>4, <2>1
    <3>2. \A i \in 1..j - 1 : r[i] \in S /\ s[i] \in S
      BY <1>3, <2>1, <3>1
    <3> DEFINE a == SubSeq(r, 1, j - 1)
               b == SubSeq(s, 1, j - 1)
               k == j - 1
    <3>3. k \in Int /\ 1 \in Int /\ (IF 1 <= k THEN k - 1 + 1 ELSE 0) = k
          /\ \A i \in 1..k : i \in 1..k - 1 + 1 /\ 1 + i - 1 = i
      BY <1>2, <2>1
    <3>4. a \in Seq(S) /\ Len(a) = k /\ \A i \in 1..k - 1 + 1 : a[i] = r[1 + i - 1]
      <4> HIDE DEF k
      <4> QED BY <3>2, <3>3, SubSeqProperties DEF k
    <3>5. b \in Seq(S) /\ Len(b) = k /\ \A i \in 1..k - 1 + 1 : b[i] = s[1 + i - 1]
      <4> HIDE DEF k
      <4> QED BY <3>2, <3>3, SubSeqProperties DEF k
    <3>6. \A i \in 1..Len(a) : a[i] = b[i]
      <4> HIDE DEF a, b
      <4> QED BY <3>1, <3>3, <3>4, <3>5
    <3> HIDE DEF a, b
    <3>7. a = b
      BY <3>4, <3>5, <3>6, SeqEqual
    <3> QED BY <3>7 DEF a, b
  <2> QED BY <1>4, <2>1, <2>2, <2>3
<1> QED BY <1>4, <1>5

\* The inference stops at a name that ends in no tool's suffix.
LEMMA NoKind ==
    ASSUME NEW stem, NEW s \in Seq(SuffixNames),
           s = <<>> \/ (stem = "" /\ Len(s) = 1) \/ (s # <<>> /\ s[Len(s)] \in SuffixNames \ Known)
    PROVE  FinalKind(stem, s) = "none"
<1>1. CASE s = <<>>
  <2>1. ~HasSuffix(stem, s)
    BY <1>1 DEF HasSuffix
  <2> QED BY <2>1 DEF FinalKind
<1>3. CASE stem = "" /\ Len(s) = 1
  <2>1. ~HasSuffix(stem, s)
    <3>1. stem = "" /\ Len(s) = 1
      BY <1>3, Zenon
    <3>2. ~(Len(s) > 1)
      <4>1. Len(s) = 1
        BY <3>1, Zenon
      <4> QED BY ONLY <4>1
    <3> QED BY <3>1, <3>2, Zenon DEF HasSuffix
  <2> QED BY <2>1 DEF FinalKind
<1>2. CASE s # <<>> /\ s[Len(s)] \in SuffixNames \ Known
  <2>1. \A x \in SuffixNames \ Known : SuffixTransform(Lower[x]) = "none"
    BY DEF SuffixNames, Known, SuffixTransform, Lower
  <2> QED BY <1>2, <2>1 DEF FinalKind, Last
<1> QED BY <1>1, <1>2, <1>3

\* A tool's suffix gives that tool.
LEMMA ToolKind ==
    ASSUME NEW stem, NEW s \in Seq(SuffixNames), s # <<>>, s[Len(s)] \in Known, stem # "" \/ Len(s) > 1
    PROVE  /\ FinalKind(stem, s) = Tool(s[Len(s)]) /\ Tool(s[Len(s)]) \in Kinds
           /\ Tool(s[Len(s)]) = "gpg" => s[Len(s)] \in {"gpg", "asc", "PGP"}
<1>1. HasSuffix(stem, s)
  BY DEF HasSuffix, Last, Known
<1>2. \A x \in Known : /\ SuffixTransform(Lower[x]) = Tool(x) /\ Tool(x) \in Kinds
                       /\ Tool(x) = "gpg" => x \in {"gpg", "asc", "PGP"}
  BY DEF SuffixNames, Known, SuffixTransform, Lower, Tool, Kinds
<1> QED BY <1>1, <1>2 DEF FinalKind, Last

\* The places of the tools' suffixes in the name, for the arithmetic below.
LEMMA Places ==
    ASSUME NEW n \in Nat, NEW first \in {1, 2}, NEW from \in Int, first <= from, from <= n + 1
    PROVE  /\ from \in Nat \ {0} /\ n + 1 - from \in Nat /\ from - 1 + (n + 1 - from) = n /\ from - 1 + 0 = from - 1 /\ from - 1 \in 0..n
           /\ \A m \in 0..(n + 1 - from) : from - 1 + m \in 0..n
           /\ \A m \in 1..(n + 1 - from) : /\ from - 1 + m \in from..n /\ from - 1 + m \in 1..n /\ from - 1 + m > 0
                         /\ (from - 1 + m) - 1 = from - 1 + (m - 1) /\ from - 1 + m >= first /\ from + m - 1 = from - 1 + m
                         /\ m \in 0..(n + 1 - from)
<1>1. from \in Nat \ {0} /\ n + 1 - from \in Nat /\ from - 1 + (n + 1 - from) = n /\ from - 1 + 0 = from - 1 /\ from - 1 \in 0..n
  OBVIOUS
<1>2. ASSUME NEW m \in 0..(n + 1 - from) PROVE from - 1 + m \in 0..n
  OBVIOUS
<1>3. ASSUME NEW m \in 1..(n + 1 - from) PROVE /\ from - 1 + m \in from..n /\ from - 1 + m \in 1..n /\ from - 1 + m > 0
                         /\ (from - 1 + m) - 1 = from - 1 + (m - 1) /\ from - 1 + m >= first /\ from + m - 1 = from - 1 + m
                         /\ m \in 0..(n + 1 - from)
  OBVIOUS
<1> QED BY <1>1, <1>2, <1>3

\* A pipeline is not the error that the inference may raise.
LEMMA RaisesIsNone ==
    ASSUME NEW v \in Seq(Kinds)
    PROVE  v # Raises
<1> SUFFICES ASSUME v = Raises PROVE FALSE
  OBVIOUS
<1>1. Raises[1] = "raises" /\ Len(Raises) = 1
  BY DEF Raises
<1>2. 1 \in 1..Len(v)
  BY <1>1
<1>3. v[1] \in Kinds
  BY <1>2, ElementOfSeq
<1> QED BY <1>1, <1>3 DEF Kinds

\* What a read infers of a name: the layers that the tools made, or the refusal
\* of an encrypted one without keys.
Reads(read, made, suffixes, hasGpg) ==
    /\ made \in Seq(Kinds)
    /\ \/ read = made
       \/ /\ read = Raises /\ ~hasGpg
          /\ \E i \in DOMAIN suffixes : suffixes[i] \in {"gpg", "asc", "PGP"}

\* What Infer gives for a name whose tools' suffixes begin at from.
LEMMA InferredFrom ==
    ASSUME NEW stem, NEW suffixes \in Seq(SuffixNames), NEW hasGpg,
           NEW n \in Nat, n = Len(suffixes), NEW first \in {1, 2}, NEW from \in Int, first <= from, from <= n + 1,
           first = FirstAt(stem, suffixes),
           \A j \in from..n : suffixes[j] \in Known,
           from > first => suffixes[from - 1] \notin Known,
           NEW t, t = SubSeq(suffixes, from, n),
           NEW read, read = Infer(stem, suffixes, hasGpg)
    PROVE  Reads(read, Made(t), suffixes, hasGpg)
<1> DEFINE k == n + 1 - from
           at(m) == from - 1 + m
           InNeed == ~hasGpg /\ \E i \in DOMAIN suffixes : suffixes[i] \in {"gpg", "asc", "PGP"}
           Upto(m) == SubSeq(suffixes, 1, at(m))
<1>1. /\ from \in Nat \ {0} /\ k \in Nat /\ at(k) = n /\ at(0) = from - 1 /\ from - 1 \in 0..n
      /\ \A m \in 0..k : at(m) \in 0..n
      /\ \A m \in 1..k : at(m) \in from..n /\ at(m) \in 1..n /\ at(m) > 0
                         /\ at(m) - 1 = at(m - 1) /\ at(m) >= first /\ from + m - 1 = at(m)
                         /\ m \in 0..k
  BY Places
<1>2. \A j \in 1..n : suffixes[j] \in SuffixNames /\ j \in DOMAIN suffixes
  BY ElementOfSeq
<1>3. /\ t \in Seq(SuffixNames) /\ Len(t) = k
      /\ \A m \in 1..k : t[m] = suffixes[at(m)]
  <2>1. from \in Int /\ n \in Int /\ (IF from <= n THEN n - from + 1 ELSE 0) = k /\ n - from + 1 = k
        /\ \A j \in from..n : j \in 1..n
    BY <1>1
  <2> HIDE DEF k, at
  <2>2. \A j \in from..n : suffixes[j] \in SuffixNames
    BY <1>2, <2>1
  <2>3. /\ t \in Seq(SuffixNames) /\ Len(t) = IF from <= n THEN n - from + 1 ELSE 0
        /\ \A m \in 1..n - from + 1 : t[m] = suffixes[from + m - 1]
    BY <2>1, <2>2, SubSeqProperties
  <2> QED BY <1>1, <2>1, <2>3
<1>4. \A m \in 0..k :
        /\ Upto(m) \in Seq(SuffixNames) /\ Len(Upto(m)) = at(m)
        /\ at(m) > 0 => Upto(m)[Len(Upto(m))] = suffixes[at(m)] /\ Front(Upto(m)) = SubSeq(suffixes, 1, at(m) - 1)
  <2> HIDE DEF k, at
  <2>1. \A j \in 0..n : Begins(SuffixNames, suffixes, j, SubSeq(suffixes, 1, j))
    BY PrefixOf, Zenon
  <2> QED BY <1>1, <2>1 DEF Begins
<1>5. PICK peel : Peels(peel, stem, hasGpg)
  BY InferSolved
<1>6. PICK w : /\ w[0] = Plain /\ w[k] = Made(t)
               /\ \A m \in 1..k : w[m] = Wrap(Tool(t[m]), w[m - 1])
  <2>1. \E f : /\ f[0] = Plain /\ f[Len(t)] = Made(t)
               /\ \A m \in 1..Len(t) : f[m] = Wrap(Tool(t[m]), f[m - 1])
    BY ONLY <1>3, MadeFold, ZenonT(30)
  <2> HIDE DEF k, at
  <2> QED BY <1>3, <2>1
<1> DEFINE Fits(m) == /\ w[m] \in Seq(Kinds)
                      /\ peel[Upto(m)] = w[m] \/ (peel[Upto(m)] = Raises /\ InNeed)
           G == {m \in 0..k : Fits(m)}
<1>7. Fits(0)
  <2> DEFINE s == Upto(0)
  <2>1. s \in Seq(SuffixNames) /\ Len(s) = from - 1
        /\ (from - 1 > 0 => s[Len(s)] = suffixes[from - 1])
    <3>1. 0 \in 0..k
      BY <1>1
    <3> HIDE DEF k, at
    <3> QED BY <1>1, <1>4, <3>1
  <2> HIDE DEF s
  <2>2. FinalKind(stem, s) = "none"
    <3>1. CASE from = 1
      <4>1. s = <<>>
        BY <2>1, <3>1, EmptySeq
      <4> QED BY <2>1, <4>1, NoKind, Zenon
    <3>2. CASE from = 2 /\ first = 2
      <4>1. stem = ""
        BY <3>2, FirstIs
      <4>2. Len(s) = 1
        BY <2>1, <3>2
      <4> QED BY <2>1, <4>1, <4>2, NoKind, Zenon
    <3>3. CASE from > first
      <4>1. from - 1 > 0 /\ from - 1 \in 1..n
        BY <3>3
      <4>2. s # <<>>
        BY <2>1, <4>1, EmptySeq
      <4>3. s[Len(s)] \in SuffixNames \ Known
        BY <1>2, <2>1, <3>3, <4>1
      <4> QED BY <2>1, <4>2, <4>3, NoKind
    <3> QED BY <3>1, <3>2, <3>3
  <2>3. peel[s] = <<>>
    BY <1>5, <2>1, <2>2 DEF Peels
  <2>4. w[0] = <<>> /\ <<>> \in Seq(Kinds)
    BY <1>6, EmptySeq DEF Plain
  <2> QED BY <2>3, <2>4 DEF s
<1>8. ASSUME NEW m \in 1..k, Fits(m - 1) PROVE Fits(m)
  <2> DEFINE s == Upto(m)
             x == suffixes[at(m)]
  <2>1. /\ s \in Seq(SuffixNames) /\ Len(s) = at(m) /\ at(m) > 0
        /\ s[Len(s)] = x /\ Front(s) = Upto(m - 1) /\ x \in Known
        /\ at(m) \in DOMAIN suffixes
    <3> HIDE DEF k, at
    <3> QED BY <1>1, <1>2, <1>4
  <2>2. s # <<>> /\ (stem # "" \/ Len(s) > 1)
    <3>1. at(m) >= first /\ at(m) \in Nat
      BY <1>1
    <3>2. s # <<>> /\ suffixes # <<>>
      <4> HIDE DEF s, at, k
      <4> QED BY <2>1, EmptySeq
    <3>3. CASE first = 1
      BY <3>2, <3>3, FirstIs, Zenon
    <3>4. CASE first = 2
      <4> HIDE DEF s, at, k
      <4>1. Len(s) > 1
        BY <2>1, <3>1, <3>4
      <4> QED BY <3>2, <4>1
    <3> QED BY <3>3, <3>4
  <2>3. /\ FinalKind(stem, s) = Tool(x) /\ Tool(x) \in Kinds
        /\ Tool(x) = "gpg" => x \in {"gpg", "asc", "PGP"}
    <3> HIDE DEF s, x
    <3> QED BY <2>1, <2>2, ToolKind
  <2>4. w[m] = <<Tool(x)>> \o w[m - 1] /\ w[m] \in Seq(Kinds)
    <3>1. w[m] = <<Tool(x)>> \o w[m - 1]
      <4> HIDE DEF k, at
      <4> QED BY <1>3, <1>6 DEF Wrap
    <3>2. <<Tool(x)>> \in Seq(Kinds) /\ w[m - 1] \in Seq(Kinds)
      <4> HIDE DEF x
      <4> QED BY <1>8, <2>3
    <3> HIDE DEF x
    <3> QED BY <3>1, <3>2, ConcatProperties
  <2>5. CASE Tool(x) = "gpg" /\ ~hasGpg
    <3>1. peel[s] = Raises
      <4> HIDE DEF s, x
      <4> QED BY <1>5, <2>1, <2>3, <2>5 DEF Peels
    <3>2. InNeed
      BY <2>1, <2>3, <2>5
    <3> QED BY <2>4, <3>1, <3>2
  <2>6. CASE ~(Tool(x) = "gpg" /\ ~hasGpg)
    <3>1. peel[s] = IF peel[Upto(m - 1)] = Raises THEN Raises ELSE <<Tool(x)>> \o peel[Upto(m - 1)]
      <4>1. Tool(x) # "none"
        BY <2>3 DEF Kinds
      <4> HIDE DEF s, x, Upto
      <4> QED BY <1>5, <2>1, <2>3, <2>6, <4>1 DEF Peels
    <3>2. w[m - 1] # Raises
      BY <1>8, RaisesIsNone
    <3> HIDE DEF s, x, Upto, InNeed
    <3> QED BY <1>8, <2>4, <3>1, <3>2 DEF s
  <2> QED BY <2>5, <2>6
<1>9. 0..k \subseteq G
  <2>1. 0 \in G /\ \A m \in 1..k : m - 1 \in G => m \in G
    <3>1. 0 \in 0..k /\ \A m \in 1..k : m \in 0..k
      BY <1>1
    <3> HIDE DEF Fits, k
    <3> QED BY <1>7, <1>8, <3>1
  <2> HIDE DEF G, k
  <2> QED BY <1>1, <2>1, UpInduction
<1>10. Fits(k) /\ Upto(k) = suffixes
  <2>1. k \in 0..k
    BY <1>1
  <2>2. Upto(k) = suffixes
    <3> HIDE DEF k, at
    <3> QED BY <1>1, SubSeqFull
  <2> HIDE DEF Fits, k, Upto
  <2> QED BY <1>9, <2>1, <2>2
<1>11. read = peel[suffixes]
  BY <1>5 DEF Peels
<1> HIDE DEF k, Upto, InNeed
<1> QED BY <1>6, <1>10, <1>11 DEF InNeed, Reads

\* The facts InferredFrom needs, for Zenon to find at once.
ToolsFrom(from, first, n, suffixes) ==
    /\ n \in Nat /\ first \in {1, 2} /\ from \in Int /\ first <= from /\ from <= n + 1
    /\ \A j \in from..n : suffixes[j] \in Known
    /\ from > first => suffixes[from - 1] \notin Known

\* The same, from the facts about from in one piece.
LEMMA InferredReads ==
    ASSUME NEW stem, NEW suffixes \in Seq(SuffixNames), NEW hasGpg, NEW from,
           ToolsFrom(from, FirstAt(stem, suffixes), Len(suffixes), suffixes)
    PROVE  Reads(Infer(stem, suffixes, hasGpg), Made(SubSeq(suffixes, from, Len(suffixes))), suffixes, hasGpg)
<1>1. PICK n : n = Len(suffixes)
  OBVIOUS
<1>2. PICK first : first = FirstAt(stem, suffixes)
  OBVIOUS
<1>3. PICK t : t = SubSeq(suffixes, from, n)
  OBVIOUS
<1>4. PICK read : read = Infer(stem, suffixes, hasGpg)
  OBVIOUS
<1>5. ToolsFrom(from, first, n, suffixes)
  BY <1>1, <1>2
<1>6. n \in Nat /\ first \in {1, 2} /\ from \in Int /\ first <= from /\ from <= n + 1
  BY <1>5 DEF ToolsFrom
<1>7. \A j \in from..n : suffixes[j] \in Known
  BY <1>5 DEF ToolsFrom
<1>8. from > first => suffixes[from - 1] \notin Known
  BY <1>5 DEF ToolsFrom
<1>9. Reads(read, Made(t), suffixes, hasGpg)
  BY <1>1, <1>2, <1>3, <1>4, <1>6, <1>7, <1>8, InferredFrom, Zenon
<1> QED BY <1>1, <1>3, <1>4, <1>9

\* What is inferred from a name reads what the tools made.
LEMMA ProducedIs ==
    ASSUME NEW stem, NEW suffixes \in Seq(SuffixNames), NEW hasGpg
    PROVE  Reads(Infer(stem, suffixes, hasGpg), Produced(stem, suffixes), suffixes, hasGpg)
<1>1. PICK n \in Nat : n = Len(suffixes)
  BY LenProperties
<1>2. PICK from : from = ToolSuffixes(stem, suffixes)
  OBVIOUS
<1>3. PICK first : first = FirstAt(stem, suffixes)
  OBVIOUS
<1>4. first \in {1, 2}
  BY <1>3, FirstIs
<1>5. /\ from \in first..n + 1 /\ \A j \in from..n : suffixes[j] \in Known
      /\ from > first => suffixes[from - 1] \notin Known
  BY <1>1, <1>2, <1>3, ToolSuffixesBegin
<1>6. ToolsFrom(from, first, n, suffixes)
  BY <1>1, <1>4, <1>5 DEF ToolsFrom
<1>7. Reads(Infer(stem, suffixes, hasGpg), Made(SubSeq(suffixes, from, n)), suffixes, hasGpg)
  BY <1>1, <1>3, <1>6, InferredReads, Zenon
<1>8. Produced(stem, suffixes) = Made(SubSeq(suffixes, from, n))
  BY <1>1, <1>2, Zenon DEF Produced
<1> QED BY <1>7, <1>8

\* Inference, of what the question holds.
InferenceOf(stem, suffixes, gpg, pipeline) ==
    LET read == Effective(stem, suffixes, gpg, TRUE, <<>>)
        own == Effective(stem, suffixes, gpg, FALSE, pipeline) IN
    /\ read # Raises => ApplyRead(read, Produced(stem, suffixes)) = Plain
    /\ read = Raises => ~gpg /\ \E i \in DOMAIN suffixes : suffixes[i] \in {"gpg", "asc", "PGP"}
    /\ ReadBack("stream", own, ApplyWrite(own, Plain)) = Plain
    /\ pipeline # <<>> => Effective(stem, suffixes, gpg, TRUE, pipeline) = Raises

\* The four parts of Inference, for any name and pipeline.
LEMMA Inferences ==
    ASSUME NEW stem, NEW suffixes \in Seq(SuffixNames), NEW gpg, NEW p \in Seq(Kinds)
    PROVE  InferenceOf(stem, suffixes, gpg, p)
<1>1. PICK made : made = Produced(stem, suffixes)
  OBVIOUS
<1>2. PICK read : read = Infer(stem, suffixes, gpg)
  OBVIOUS
<1>3. Reads(read, made, suffixes, gpg)
  BY <1>1, <1>2, ProducedIs, Zenon
<1>4. Effective(stem, suffixes, gpg, TRUE, <<>>) = read
  BY <1>2, Zenon DEF Effective
<1>5. Effective(stem, suffixes, gpg, FALSE, p) = p
      /\ (p # <<>> => Effective(stem, suffixes, gpg, TRUE, p) = Raises)
  BY Zenon DEF Effective
<1>6. read # Raises => ApplyRead(read, made) = Plain
  BY <1>3, ReadLayers, Zenon DEF Reads
<1>7. read = Raises => ~gpg /\ \E i \in DOMAIN suffixes : suffixes[i] \in {"gpg", "asc", "PGP"}
  <2>1. made # Raises
    <3>1. made \in Seq(Kinds)
      BY <1>3, Zenon DEF Reads
    <3> QED BY <3>1, RaisesIsNone, Zenon
  <2> QED BY <1>3, <2>1, Zenon DEF Reads
<1>8. ReadBack("stream", p, ApplyWrite(p, Plain)) = Plain
  <2>1. p # Raises
    BY RaisesIsNone
  <2>2. ApplyWrite(p, Plain) = p /\ ApplyRead(p, p) = Plain
    BY WrittenLayers, ReadLayers, Zenon
  <2>3. "stream" # "random"
    OBVIOUS
  <2> QED BY <2>1, <2>2, <2>3, Zenon DEF ReadBack
<1> QED BY <1>1, <1>4, <1>5, <1>6, <1>7, <1>8, Zenon DEF InferenceOf

\* Inference holds of every question about a name.
LEMMA InferenceHolds ==
    ASSUME NEW q, q.suffixes \in Seq(SuffixNames), q.pipeline \in Seq(Kinds)
    PROVE  Inference(q)
<1>1. InferenceOf(q.stem, q.suffixes, q.gpg, q.pipeline)
  BY Inferences, Zenon
<1> QED BY <1>1, Zenon DEF Inference, InferenceOf

\* A question stays, and a name's is about a name and layers.
THEOREM ReadsWhatWasWritten ==
    (question.about = "name" => question.suffixes \in Seq(SuffixNames) /\ question.pipeline \in Seq(Kinds))
        /\ [][UNCHANGED question]_question
    => []InferenceUndoesWriting
<1> DEFINE Asked == question.about = "name" => question.suffixes \in Seq(SuffixNames) /\ question.pipeline \in Seq(Kinds)
<1>1. Asked /\ [UNCHANGED question]_question => Asked'
  OBVIOUS
<1>2. Asked => InferenceUndoesWriting
  BY InferenceHolds, Zenon DEF InferenceUndoesWriting, Answers
<1> QED BY <1>1, <1>2, PTL

-----------------------------------------------------------------------------
(* The search for the caller's exception *)

States(U) == [pending : Seq(U), seen : SUBSET U]
Current(s) == s.pending[Len(s.pending)]
Rest(s) == SubSeq(s.pending, 1, Len(s.pending) - 1)
Pushed(cause, context, s) == Rest(s) \o (Chained(context[Current(s)]) \o Chained(cause[Current(s)]))
Onto(cause, context, s) ==
    IF Current(s) \in s.seen THEN [pending |-> Rest(s), seen |-> s.seen]
    ELSE [pending |-> Pushed(cause, context, s), seen |-> s.seen \cup {Current(s)}]
Over(own, s) == s.pending = <<>> \/ (Current(s) \notin s.seen /\ Current(s) \in own)
Answer(s) == IF s.pending = <<>> THEN None ELSE Current(s)
Left(U, s) == 3 * Cardinality(U \ s.seen) + Len(s.pending)

\* An exception seen counts for more than what it adds to the stack.
LEMMA SeenCounts ==
    ASSUME NEW a \in Nat, NEW b \in Nat, NEW l \in Nat, NEW m \in Nat, b = a - 1, m <= l + 1
    PROVE  3 * b + m \in Nat /\ 3 * a + l \in Nat /\ 3 * b + m < 3 * a + l
  OBVIOUS

\* What one link of an exception puts on the stack.
LEMMA ChainedSeq ==
    ASSUME NEW U, None \notin U, NEW e \in U \cup {None}
    PROVE  /\ Chained(e) \in Seq(U) /\ Len(Chained(e)) \in Nat /\ Len(Chained(e)) <= 1
           /\ Range(Chained(e)) = {e} \ {None}
<1>1. CASE e = None
  <2>1. Chained(e) = <<>>
    BY <1>1 DEF Chained
  <2> QED BY <1>1, <2>1 DEF Range
<1>2. CASE e # None
  <2>1. e \in U
    BY <1>2
  <2>2. Chained(e) = <<e>>
    BY <1>2 DEF Chained
  <2> QED BY <1>2, <2>1, <2>2 DEF Range
<1> QED BY <1>1, <1>2

\* What is taken from the stack and what comes on it.
LEMMA StepShape ==
    ASSUME NEW U, None \notin U,
           NEW cause \in [U -> U \cup {None}], NEW context \in [U -> U \cup {None}],
           NEW s \in States(U), s.pending # <<>>
    PROVE  /\ Current(s) \in U
           /\ Rest(s) \in Seq(U) /\ Len(Rest(s)) = Len(s.pending) - 1
           /\ Pushed(cause, context, s) \in Seq(U)
           /\ Len(Pushed(cause, context, s)) <= Len(s.pending) + 1
           /\ Range(s.pending) = Range(Rest(s)) \cup {Current(s)}
           /\ Range(Pushed(cause, context, s)) =
                 Range(Rest(s)) \cup ({cause[Current(s)], context[Current(s)]} \ {None})
<1> DEFINE p == s.pending
           c == Current(s)
           a == Chained(context[c])
           b == Chained(cause[c])
           r == Rest(s)
           w == Pushed(cause, context, s)
<1>1. p \in Seq(U) /\ Len(p) \in Nat /\ Len(p) > 0
  BY EmptySeq DEF States
<1>2. c \in U /\ c = p[Len(p)]
  BY <1>1 DEF Current
<1>3. r = SubSeq(p, 1, Len(p) - 1)
  BY DEF Rest
<1>4. w = r \o (a \o b)
  BY DEF Pushed
<1>5. cause[c] \in U \cup {None} /\ context[c] \in U \cup {None}
  BY <1>2
<1>6. /\ a \in Seq(U) /\ Len(a) \in Nat /\ Len(a) <= 1 /\ Range(a) = {context[c]} \ {None}
      /\ b \in Seq(U) /\ Len(b) \in Nat /\ Len(b) <= 1 /\ Range(b) = {cause[c]} \ {None}
  BY <1>5, ChainedSeq
<1> HIDE DEF a, b, c, p, r, w
<1>7. r \in Seq(U) /\ Len(r) = Len(p) - 1 /\ Range(p) = Range(r) \cup {c}
  <2>1. p # <<>>
    BY DEF p
  <2> QED BY ONLY <2>1, <1>1, <1>2, <1>3, AllButLast
<1>8. w \in Seq(U) /\ Len(w) = Len(r) + (Len(a) + Len(b))
      /\ Range(w) = Range(r) \cup (Range(a) \cup Range(b))
  <2>1. r \in Seq(U) /\ a \in Seq(U) /\ b \in Seq(U)
    BY <1>6, <1>7
  <2>2. /\ r \o (a \o b) \in Seq(U)
        /\ Len(r \o (a \o b)) = Len(r) + (Len(a) + Len(b))
        /\ Range(r \o (a \o b)) = Range(r) \cup (Range(a) \cup Range(b))
    BY ONLY <2>1, ThreeConcatenated
  <2> QED BY <1>4, <2>2
<1>9. Range(w) = Range(r) \cup ({cause[c], context[c]} \ {None})
  BY <1>6, <1>8
<1>10. Len(w) <= Len(p) + 1
  BY <1>1, <1>6, <1>7, <1>8
<1> QED BY <1>2, <1>7, <1>8, <1>9, <1>10 DEF c, p, r, w

\* One step of the search stays in the set, and comes nearer to the end.
LEMMA StepDescends ==
    ASSUME NEW U, None \notin U, IsFiniteSet(U),
           NEW cause \in [U -> U \cup {None}], NEW context \in [U -> U \cup {None}],
           NEW own, NEW s \in States(U), ~Over(own, s)
    PROVE  /\ Onto(cause, context, s) \in States(U)
           /\ Left(U, s) \in Nat /\ Left(U, Onto(cause, context, s)) \in Nat
           /\ Left(U, Onto(cause, context, s)) < Left(U, s)
<1> DEFINE c == Current(s)
           t == Onto(cause, context, s)
<1>1. s.pending # <<>> /\ s.pending \in Seq(U) /\ s.seen \in SUBSET U
  BY DEF Over, States
<1>2. /\ c \in U /\ Rest(s) \in Seq(U) /\ Len(Rest(s)) = Len(s.pending) - 1
      /\ Pushed(cause, context, s) \in Seq(U)
      /\ Len(Pushed(cause, context, s)) <= Len(s.pending) + 1
  BY <1>1, StepShape
<1>3. t \in States(U)
  BY <1>1, <1>2 DEF Onto, States
<1>4. /\ Len(s.pending) \in Nat /\ Len(t.pending) \in Nat
      /\ IsFiniteSet(U \ s.seen) /\ Cardinality(U \ s.seen) \in Nat
      /\ Cardinality(U \ t.seen) \in Nat
  <2>1. IsFiniteSet(U \ s.seen) /\ IsFiniteSet(U \ t.seen)
    BY FS_Subset
  <2> QED BY <1>1, <1>3, <2>1, FS_CardinalityType DEF States
<1>5. CASE c \in s.seen
  <2>1. t.pending = Rest(s) /\ t.seen = s.seen
    BY <1>5 DEF Onto
  <2>2. Len(t.pending) = Len(s.pending) - 1
    BY <1>2, <2>1
  <2> HIDE DEF t, c
  <2>3. Left(U, t) = 3 * Cardinality(U \ s.seen) + Len(t.pending)
    BY <2>1 DEF Left
  <2>4. Left(U, s) = 3 * Cardinality(U \ s.seen) + Len(s.pending)
    BY DEF Left
  <2>5. Left(U, t) \in Nat /\ Left(U, s) \in Nat /\ Left(U, t) < Left(U, s)
    BY <1>4, <2>2, <2>3, <2>4
  <2> QED BY <1>3, <2>5 DEF t
<1>6. CASE c \notin s.seen
  <2>1. t.pending = Pushed(cause, context, s) /\ t.seen = s.seen \cup {c}
    BY <1>6 DEF Onto
  <2>2. Len(t.pending) <= Len(s.pending) + 1
    BY <1>2, <2>1
  <2>3. Cardinality(U \ t.seen) = Cardinality(U \ s.seen) - 1
    <3>1. U \ t.seen = (U \ s.seen) \ {c} /\ c \in U \ s.seen
      BY <1>2, <1>6, <2>1
    <3> DEFINE W == U \ s.seen
    <3>2. IsFiniteSet(W) /\ c \in W
      BY <1>4, <3>1
    <3>3. Cardinality(W \ {c}) = Cardinality(W) - 1
      <4> HIDE DEF W, c
      <4> QED BY <3>2, FS_RemoveElement
    <3> QED BY <3>1, <3>3
  <2> HIDE DEF t, c
  <2>4. Left(U, t) = 3 * Cardinality(U \ t.seen) + Len(t.pending)
    BY DEF Left
  <2>5. Left(U, s) = 3 * Cardinality(U \ s.seen) + Len(s.pending)
    BY DEF Left
  <2>6. Left(U, t) \in Nat /\ Left(U, s) \in Nat /\ Left(U, t) < Left(U, s)
    <3>1. /\ Cardinality(U \ s.seen) \in Nat /\ Cardinality(U \ t.seen) \in Nat
          /\ Len(s.pending) \in Nat /\ Len(t.pending) \in Nat
      BY <1>4
    <3>2. /\ 3 * Cardinality(U \ t.seen) + Len(t.pending) \in Nat
          /\ 3 * Cardinality(U \ s.seen) + Len(s.pending) \in Nat
          /\ 3 * Cardinality(U \ t.seen) + Len(t.pending) < 3 * Cardinality(U \ s.seen) + Len(s.pending)
      BY ONLY <2>2, <2>3, <3>1, SeenCounts, Zenon
    <3> QED BY ONLY <2>4, <2>5, <3>2, Zenon
  <2> QED BY <1>3, <2>6 DEF t
<1> QED BY <1>5, <1>6

SearchFrom(f, U, cause, context, own) ==
    f = [s \in States(U) |-> IF Over(own, s) THEN Answer(s) ELSE f[Onto(cause, context, s)]]

\* The search has a solution: each step takes an exception that was seen from
\* the stack or sees one more.
LEMMA SearchExists ==
    ASSUME NEW U, None \notin U, IsFiniteSet(U),
           NEW cause \in [U -> U \cup {None}], NEW context \in [U -> U \cup {None}], NEW own
    PROVE  \E f : SearchFrom(f, U, cause, context, own)
<1> DEFINE D == States(U)
           V == U \cup {None}
           mu == [s \in D |-> Left(U, s)]
           stop == {s \in D : Over(own, s)}
           base == [s \in stop |-> Answer(s)]
           next == [s \in D \ stop |-> Onto(cause, context, s)]
<1>1. mu \in [D -> Nat]
  <2> SUFFICES ASSUME NEW s \in D PROVE Left(U, s) \in Nat
    OBVIOUS
  <2>1. IsFiniteSet(U \ s.seen)
    BY FS_Subset
  <2>2. Cardinality(U \ s.seen) \in Nat /\ Len(s.pending) \in Nat
    BY <2>1, FS_CardinalityType DEF States
  <2> QED BY <2>2 DEF Left
<1>2. base \in [stop -> V]
  <2> SUFFICES ASSUME NEW s \in stop PROVE Answer(s) \in V
    OBVIOUS
  <2>1. s.pending # <<>> => Current(s) \in U
    BY StepShape
  <2> QED BY <2>1 DEF Answer
<1>3. next \in [D \ stop -> D] /\ \A s \in D \ stop : mu[next[s]] < mu[s]
  <2>1. ASSUME NEW s \in D \ stop
        PROVE  Onto(cause, context, s) \in D /\ Left(U, Onto(cause, context, s)) < Left(U, s)
    BY StepDescends
  <2> QED BY <2>1
<1>4. TailDescends(D, V, mu, stop, base, next)
  <2> HIDE DEF D, V, mu, base, next
  <2>1. stop \in SUBSET D
    OBVIOUS
  <2> HIDE DEF stop
  <2> QED BY <1>1, <1>2, <1>3, <2>1 DEF TailDescends
<1>5. PICK f : TailSolves(f, D, V, stop, base, next)
  <2> HIDE DEF D, V, mu, base, next, stop
  <2> QED BY <1>4, TailRecursion, Zenon
<1>6. f \in [D -> V] /\ \A s \in D : f[s] = IF s \in stop THEN base[s] ELSE f[next[s]]
  <2> HIDE DEF D, V, mu, base, next, stop
  <2> QED BY <1>5 DEF TailSolves
<1>7. ASSUME NEW s \in D
      PROVE  f[s] = IF Over(own, s) THEN Answer(s) ELSE f[Onto(cause, context, s)]
  <2>1. CASE Over(own, s)
    <3>1. s \in stop /\ base[s] = Answer(s)
      BY <2>1
    <3> QED BY <1>6, <2>1, <3>1
  <2>2. CASE ~Over(own, s)
    <3>1. s \notin stop /\ next[s] = Onto(cause, context, s)
      BY <2>2
    <3> QED BY <1>6, <2>2, <3>1
  <2> QED BY <2>1, <2>2
<1>8. f = [s \in D |-> IF Over(own, s) THEN Answer(s) ELSE f[Onto(cause, context, s)]]
  <2> HIDE DEF D
  <2> QED BY <1>6, <1>7
<1> QED BY <1>8 DEF SearchFrom

\* A set of exceptions that has with each its cause and its context.
ClosedUnder(U, cause, context, S) ==
    S \in SUBSET U /\ \A x \in S : {cause[x], context[x]} \ {None} \subseteq S

\* What the search has still to find: the links of what was seen lead to what was
\* seen or is pending, and none of it was the caller's.
Sound(cause, context, own, s) ==
    /\ s.seen \cap own = {}
    /\ \A x \in s.seen : {cause[x], context[x]} \ {None} \subseteq s.seen \cup Range(s.pending)

Finds(f, U, cause, context, own, s) ==
    /\ f[s] # None => /\ f[s] \in own
                      /\ \A S : ClosedUnder(U, cause, context, S) /\ Range(s.pending) \subseteq S
                                   => f[s] \in S
    /\ f[s] = None /\ Sound(cause, context, own, s) =>
          \E S : /\ ClosedUnder(U, cause, context, S) /\ S \cap own = {}
                 /\ s.seen \cup Range(s.pending) \subseteq S

\* A solution of the search finds the caller's exception if one is reached from
\* the stack, and nothing else.
LEMMA SearchFinds ==
    ASSUME NEW U, None \notin U, IsFiniteSet(U),
           NEW cause \in [U -> U \cup {None}], NEW context \in [U -> U \cup {None}], NEW own,
           NEW f, SearchFrom(f, U, cause, context, own),
           NEW s \in States(U)
    PROVE  Finds(f, U, cause, context, own, s)
<1> DEFINE D == States(U)
           mu == [x \in D |-> Left(U, x)]
           Bad == {x \in D : ~Finds(f, U, cause, context, own, x)}
<1>1. \A x \in D : Left(U, x) \in Nat
  <2> TAKE x \in D
  <2>1. IsFiniteSet(U \ x.seen)
    BY FS_Subset
  <2>2. Cardinality(U \ x.seen) \in Nat /\ Len(x.pending) \in Nat
    BY <2>1, FS_CardinalityType DEF States
  <2> QED BY <2>2 DEF Left
<1> SUFFICES ASSUME Bad # {} PROVE FALSE
  OBVIOUS
<1>2. PICK b \in Bad : \A y \in Bad : mu[b] <= mu[y]
  <2>1. mu \in [D -> Nat] /\ Bad \in SUBSET D
    BY <1>1
  <2> HIDE DEF mu, Bad, D
  <2> QED BY <2>1, LeastBy
<1>3. b \in D /\ ~Finds(f, U, cause, context, own, b)
  OBVIOUS
<1>4. ASSUME NEW y \in D, Left(U, y) < Left(U, b) PROVE Finds(f, U, cause, context, own, y)
  <2>1. mu[y] < mu[b] /\ mu[y] \in Nat /\ mu[b] \in Nat
    BY <1>1, <1>3, <1>4
  <2>2. y \notin Bad
    <3> HIDE DEF Bad, mu, D
    <3> QED BY <1>2, <2>1
  <2> QED BY <2>2
<1> HIDE DEF Bad, mu
<1>5. b.pending \in Seq(U) /\ b.seen \in SUBSET U
  BY <1>3 DEF States
<1>6. f[b] = IF Over(own, b) THEN Answer(b) ELSE f[Onto(cause, context, b)]
  BY <1>3 DEF SearchFrom
<1>7. CASE b.pending = <<>>
  <2>1. f[b] = None
    BY <1>6, <1>7 DEF Over, Answer
  <2>2. Range(b.pending) = {}
    BY <1>7 DEF Range
  <2>3. ASSUME Sound(cause, context, own, b)
        PROVE  ClosedUnder(U, cause, context, b.seen) /\ b.seen \cap own = {}
    BY <1>5, <2>2, <2>3 DEF Sound, ClosedUnder
  <2> QED BY <1>3, <2>1, <2>2, <2>3 DEF Finds
<1>8. CASE b.pending # <<>>
  <2> DEFINE c == Current(b)
             t == Onto(cause, context, b)
             links == {cause[c], context[c]} \ {None}
  <2>1. /\ c \in U /\ Range(b.pending) = Range(Rest(b)) \cup {c}
        /\ Range(Pushed(cause, context, b)) = Range(Rest(b)) \cup links
    BY <1>3, <1>8, StepShape
  <2>2. CASE Over(own, b)
    <3>1. f[b] = c /\ c \in own /\ c # None
      BY <1>6, <1>8, <2>1, <2>2 DEF Over, Answer
    <3>2. c \in Range(b.pending)
      BY <2>1
    <3> QED BY <1>3, <3>1, <3>2 DEF Finds
  <2>3. CASE ~Over(own, b)
    <3>1. f[b] = f[t] /\ t \in D /\ Left(U, t) < Left(U, b)
      BY <1>3, <1>6, <2>3, StepDescends
    <3>2. Finds(f, U, cause, context, own, t)
      BY <1>4, <3>1
    <3>3. CASE c \in b.seen
      <4>1. t.seen = b.seen /\ Range(t.pending) = Range(Rest(b))
        BY <3>3 DEF Onto
      <4>2. Range(t.pending) \subseteq Range(b.pending)
            /\ t.seen \cup Range(t.pending) = b.seen \cup Range(b.pending)
        BY <2>1, <3>3, <4>1
      <4>3. Sound(cause, context, own, b) => Sound(cause, context, own, t)
        BY <4>1, <4>2 DEF Sound
      <4> HIDE DEF t, c
      <4> QED BY <1>3, <3>1, <3>2, <4>2, <4>3 DEF Finds
    <3>4. CASE c \notin b.seen
      <4>1. t.seen = b.seen \cup {c} /\ Range(t.pending) = Range(Rest(b)) \cup links
        BY <2>1, <3>4 DEF Onto
      <4>2. c \notin own
        BY <1>8, <2>3, <3>4 DEF Over
      <4>3. Sound(cause, context, own, b) => Sound(cause, context, own, t)
        <5> SUFFICES ASSUME Sound(cause, context, own, b) PROVE Sound(cause, context, own, t)
          OBVIOUS
        <5>1. t.seen \cap own = {}
          BY <4>1, <4>2 DEF Sound
        <5>2. b.seen \cup Range(b.pending) \subseteq t.seen \cup Range(t.pending)
          BY <2>1, <4>1
        <5>3. ASSUME NEW x \in t.seen
              PROVE  {cause[x], context[x]} \ {None} \subseteq t.seen \cup Range(t.pending)
          <6>1. CASE x = c
            BY <4>1, <6>1
          <6>2. CASE x \in b.seen
            <7>1. {cause[x], context[x]} \ {None} \subseteq b.seen \cup Range(b.pending)
              BY <6>2 DEF Sound
            <7> QED BY <5>2, <7>1
          <6> QED BY <4>1, <6>1, <6>2
        <5> HIDE DEF t
        <5> QED BY <5>1, <5>3 DEF Sound
      <4>4. ASSUME NEW S, ClosedUnder(U, cause, context, S), Range(b.pending) \subseteq S
            PROVE  Range(t.pending) \subseteq S
        BY <2>1, <4>1, <4>4 DEF ClosedUnder
      <4>5. b.seen \cup Range(b.pending) \subseteq t.seen \cup Range(t.pending)
        BY <2>1, <4>1
      <4>6. f[b] # None => /\ f[b] \in own
                           /\ \A S : ClosedUnder(U, cause, context, S)
                                        /\ Range(b.pending) \subseteq S => f[b] \in S
        <5> HIDE DEF t
        <5> QED BY <3>1, <3>2, <4>4 DEF Finds
      <4>7. ASSUME f[b] = None, Sound(cause, context, own, b)
            PROVE  \E S : /\ ClosedUnder(U, cause, context, S) /\ S \cap own = {}
                          /\ b.seen \cup Range(b.pending) \subseteq S
        <5> HIDE DEF t
        <5>1. PICK S : /\ ClosedUnder(U, cause, context, S) /\ S \cap own = {}
                       /\ t.seen \cup Range(t.pending) \subseteq S
          BY <3>1, <3>2, <4>3, <4>7 DEF Finds
        <5> QED BY <4>5, <5>1
      <4> QED BY <1>3, <4>6, <4>7 DEF Finds
    <3> QED BY <3>3, <3>4
  <2> QED BY <2>2, <2>3
<1> QED BY <1>7, <1>8

\* OriginalIn finds one of the caller's exceptions if and only if the library's
\* exception leads to one.
LEMMA OriginalFound ==
    ASSUME NEW U, None \notin U, IsFiniteSet(U),
           NEW cause \in [U -> U \cup {None}], NEW context \in [U -> U \cup {None}],
           NEW own \in SUBSET U, NEW top \in U
    PROVE  LET found == OriginalIn(cause, context, own, top) IN
           /\ found # None => found \in own /\ LeadsTo(cause, context, top, found)
           /\ found = None => \A e \in own : ~LeadsTo(cause, context, top, e)
<1> DEFINE Search[s \in [pending : Seq(DOMAIN cause), seen : SUBSET DOMAIN cause]] ==
            IF s.pending = <<>> THEN None
            ELSE LET current == s.pending[Len(s.pending)]
                     rest == SubSeq(s.pending, 1, Len(s.pending) - 1)
                     next == Chained(context[current]) \o Chained(cause[current]) IN
                 IF current \in s.seen THEN Search[[pending |-> rest, seen |-> s.seen]]
                 ELSE IF current \in own THEN current
                 ELSE Search[[pending |-> rest \o next, seen |-> s.seen \cup {current}]]
           Body(g, s) == 
            IF s.pending = <<>> THEN None
            ELSE LET current == s.pending[Len(s.pending)]
                     rest == SubSeq(s.pending, 1, Len(s.pending) - 1)
                     next == Chained(context[current]) \o Chained(cause[current]) IN
                 IF current \in s.seen THEN g[[pending |-> rest, seen |-> s.seen]]
                 ELSE IF current \in own THEN current
                 ELSE g[[pending |-> rest \o next, seen |-> s.seen \cup {current}]]
<1>1. DOMAIN cause = U
  OBVIOUS
<1>2. \A g : \A s : Body(g, s) = IF Over(own, s) THEN Answer(s) ELSE g[Onto(cause, context, s)]
  BY DEF Over, Answer, Onto, Current, Rest, Pushed
<1>3. \E g : g = [s \in [pending : Seq(DOMAIN cause), seen : SUBSET DOMAIN cause] |-> Body(g, s)]
  <2>1. PICK g : SearchFrom(g, U, cause, context, own)
    BY SearchExists
  <2>2. States(U) = [pending : Seq(DOMAIN cause), seen : SUBSET DOMAIN cause]
    BY <1>1 DEF States
  <2>3. g = [s \in States(U) |-> Body(g, s)]
    <3> HIDE DEF Body, Search
    <3> QED BY <1>2, <2>1 DEF SearchFrom
  <2> HIDE DEF Body, Search
  <2> QED BY <2>2, <2>3
<1>4. Search = [s \in [pending : Seq(DOMAIN cause), seen : SUBSET DOMAIN cause] |-> Body(Search, s)]
  BY <1>3, Zenon
<1>5. OriginalIn(cause, context, own, top) = Search[[pending |-> <<top>>, seen |-> {}]]
  BY Zenon DEF OriginalIn
<1> HIDE DEF Search
<1>6. SearchFrom(Search, U, cause, context, own)
  <2>1. States(U) = [pending : Seq(DOMAIN cause), seen : SUBSET DOMAIN cause]
    BY <1>1 DEF States
  <2> HIDE DEF Body
  <2> QED BY <1>2, <1>4, <2>1 DEF SearchFrom
<1> DEFINE first == [pending |-> <<top>>, seen |-> {}]
           found == Search[first]
<1>7. first \in States(U) /\ Range(first.pending) = {top} /\ first.seen = {}
  BY DEF States, Range
<1>8. Finds(Search, U, cause, context, own, first)
  BY <1>6, <1>7, SearchFinds
<1>9. Sound(cause, context, own, first)
  BY <1>7 DEF Sound
<1> HIDE DEF first
<1>10. /\ found # None => /\ found \in own
                          /\ \A S : ClosedUnder(U, cause, context, S) /\ top \in S => found \in S
       /\ found = None => \E S : ClosedUnder(U, cause, context, S) /\ S \cap own = {} /\ top \in S
  BY <1>7, <1>8, <1>9 DEF Finds
<1>11. \A e : LeadsTo(cause, context, top, e)
                 <=> \A S : ClosedUnder(U, cause, context, S) /\ top \in S => e \in S
  BY <1>1 DEF LeadsTo, ClosedUnder
<1>12. OriginalIn(cause, context, own, top) = found
  BY <1>5 DEF first
<1> HIDE DEF found
<1> QED BY <1>10, <1>11, <1>12

\* The exceptions of an upload: each has a cause and a context or none, and those
\* of the caller's own stream are among them.
IsUpload(q) ==
    LET U == DOMAIN q.cause IN
    /\ IsFiniteSet(U) /\ None \notin U
    /\ q.cause \in [U -> U \cup {None}] /\ q.context \in [U -> U \cup {None}]
    /\ q.own \in SUBSET U /\ q.top \in U

\* CallerError holds of every upload.
LEMMA UploadsHold ==
    ASSUME NEW q, IsUpload(q)
    PROVE  CallerError(q)
<1> DEFINE U == DOMAIN q.cause
           found == OriginalIn(q.cause, q.context, q.own, q.top)
           mine == {e \in q.own : LeadsTo(q.cause, q.context, q.top, e)}
<1>1. /\ IsFiniteSet(U) /\ None \notin U
      /\ q.cause \in [U -> U \cup {None}] /\ q.context \in [U -> U \cup {None}]
      /\ q.own \in SUBSET U /\ q.top \in U
  BY Zenon DEF IsUpload
<1> HIDE DEF U
<1>2. /\ found # None => found \in q.own /\ LeadsTo(q.cause, q.context, q.top, found)
      /\ found = None => \A e \in q.own : ~LeadsTo(q.cause, q.context, q.top, e)
  BY <1>1, OriginalFound
<1>3. Uploaded(q.cause, q.context, q.own, q.top) =
         IF found = None THEN <<"mapped", q.top>> ELSE <<"own", found>>
  BY DEF Uploaded
<1> HIDE DEF found
<1>4. mine = {} <=> found = None
  BY <1>2
<1>5. found # None => found \in mine
  BY <1>2
<1> HIDE DEF mine
<1>6. IF mine = {} THEN Uploaded(q.cause, q.context, q.own, q.top) = <<"mapped", q.top>>
      ELSE /\ Uploaded(q.cause, q.context, q.own, q.top)[1] = "own"
           /\ Uploaded(q.cause, q.context, q.own, q.top)[2] \in mine
  BY <1>3, <1>4, <1>5
<1> QED BY <1>6 DEF CallerError, mine

\* However many exceptions there are and however they are linked, in circles too,
\* an upload that failed because of the caller's own stream raises what that
\* stream raised, and no other failure is taken for it (stream_errors.py).
THEOREM CallersErrorSurvives ==
    (question.about = "upload" => IsUpload(question)) /\ [][UNCHANGED question]_question
    => []CallerErrorSurvives
<1> DEFINE Meant == question.about = "upload" => IsUpload(question)
<1>1. Meant /\ [UNCHANGED question]_question => Meant'
  OBVIOUS
<1>2. Meant => CallerErrorSurvives
  BY UploadsHold, Zenon DEF CallerErrorSurvives, Answers
<1> QED BY <1>1, <1>2, PTL

-----------------------------------------------------------------------------
(* Errors *)

\* A table answers with the first row whose classes match.
LEMMA FirstRow ==
    ASSUME NEW table, NEW n \in Nat, DOMAIN table = 1..n, NEW cls, NEW otherwise, NEW i \in 1..n,
           IsA(cls, table[i][1]), \A j \in 1..i - 1 : ~IsA(cls, table[j][1])
    PROVE  Lookup(table, cls, otherwise) = table[i][2]
<1> DEFINE hits == {j \in DOMAIN table : IsA(cls, table[j][1])}
<1>1. i \in hits /\ \A j \in hits : j \in 1..n /\ i <= j
  OBVIOUS
<1>2. Min(hits) = i
  <2>1. \A x \in hits : (\A y \in hits : x <= y) <=> x = i
    <3>1. \A x \in hits : x \in Int /\ i \in Int
      BY <1>1
    <3> HIDE DEF hits
    <3> QED BY <1>1, <3>1
  <2> HIDE DEF hits
  <2> QED BY <1>1, <2>1 DEF Min
<1>3. Lookup(table, cls, otherwise) = IF hits = {} THEN otherwise ELSE table[Min(hits)][2]
  BY Zenon DEF Lookup
<1> HIDE DEF hits
<1> QED BY <1>1, <1>2, <1>3

\* And with the default if none does.
LEMMA NoRow ==
    ASSUME NEW table, NEW n \in Nat, DOMAIN table = 1..n, NEW cls, NEW otherwise,
           \A j \in 1..n : ~IsA(cls, table[j][1])
    PROVE  Lookup(table, cls, otherwise) = otherwise
BY DEF Lookup

\* So a table of four rows is a chain of conditions.
LEMMA FourRows ==
    ASSUME NEW a1, NEW a2, NEW a3, NEW a4,
           NEW r1, NEW r2, NEW r3, NEW r4, NEW cls, NEW o
    PROVE  Lookup(<< <<a1, r1>>, <<a2, r2>>, <<a3, r3>>, <<a4, r4>> >>, cls, o) =
             IF IsA(cls, a1) THEN r1
             ELSE IF IsA(cls, a2) THEN r2
             ELSE IF IsA(cls, a3) THEN r3
             ELSE IF IsA(cls, a4) THEN r4 ELSE o
<1> DEFINE t == << <<a1, r1>>, <<a2, r2>>, <<a3, r3>>, <<a4, r4>> >>
<1>1. /\ DOMAIN t = 1..4
      /\ t[1][1] = a1 /\ t[2][1] = a2 /\ t[3][1] = a3 /\ t[4][1] = a4
      /\ t[1][2] = r1 /\ t[2][2] = r2 /\ t[3][2] = r3 /\ t[4][2] = r4
  OBVIOUS
<1> HIDE DEF t
<1>2. CASE \E i \in 1..4 : IsA(cls, t[i][1]) /\ \A j \in 1..i - 1 : ~IsA(cls, t[j][1])
  <2>1. PICK i \in 1..4 : IsA(cls, t[i][1]) /\ \A j \in 1..i - 1 : ~IsA(cls, t[j][1])
    BY <1>2
  <2>2. Lookup(t, cls, o) = t[i][2]
    BY <1>1, <2>1, FirstRow, ZenonT(30)
  <2> QED BY <1>1, <2>1, <2>2 DEF t
<1>3. CASE \A j \in 1..4 : ~IsA(cls, t[j][1])
  <2>1. Lookup(t, cls, o) = o
    BY <1>1, <1>3, NoRow
  <2> QED BY <1>1, <1>3, <2>1 DEF t
<1>4. \/ \A j \in 1..4 : ~IsA(cls, t[j][1])
      \/ \E i \in 1..4 : IsA(cls, t[i][1]) /\ \A j \in 1..i - 1 : ~IsA(cls, t[j][1])
  OBVIOUS
<1> QED BY <1>2, <1>3, <1>4

\* A table of five rows.
LEMMA FiveRows ==
    ASSUME NEW a1, NEW a2, NEW a3, NEW a4, NEW a5,
           NEW r1, NEW r2, NEW r3, NEW r4, NEW r5, NEW cls, NEW o
    PROVE  Lookup(<< <<a1, r1>>, <<a2, r2>>, <<a3, r3>>, <<a4, r4>>, <<a5, r5>> >>, cls, o) =
             IF IsA(cls, a1) THEN r1
             ELSE IF IsA(cls, a2) THEN r2
             ELSE IF IsA(cls, a3) THEN r3
             ELSE IF IsA(cls, a4) THEN r4
             ELSE IF IsA(cls, a5) THEN r5 ELSE o
<1> DEFINE t == << <<a1, r1>>, <<a2, r2>>, <<a3, r3>>, <<a4, r4>>, <<a5, r5>> >>
<1>1. /\ DOMAIN t = 1..5
      /\ t[1][1] = a1 /\ t[2][1] = a2 /\ t[3][1] = a3 /\ t[4][1] = a4 /\ t[5][1] = a5
      /\ t[1][2] = r1 /\ t[2][2] = r2 /\ t[3][2] = r3 /\ t[4][2] = r4 /\ t[5][2] = r5
  OBVIOUS
<1> HIDE DEF t
<1>2. CASE \E i \in 1..5 : IsA(cls, t[i][1]) /\ \A j \in 1..i - 1 : ~IsA(cls, t[j][1])
  <2>1. PICK i \in 1..5 : IsA(cls, t[i][1]) /\ \A j \in 1..i - 1 : ~IsA(cls, t[j][1])
    BY <1>2
  <2>2. Lookup(t, cls, o) = t[i][2]
    BY <1>1, <2>1, FirstRow, ZenonT(30)
  <2> QED BY <1>1, <2>1, <2>2 DEF t
<1>3. CASE \A j \in 1..5 : ~IsA(cls, t[j][1])
  <2>1. Lookup(t, cls, o) = o
    BY <1>1, <1>3, NoRow
  <2> QED BY <1>1, <1>3, <2>1 DEF t
<1>4. \/ \A j \in 1..5 : ~IsA(cls, t[j][1])
      \/ \E i \in 1..5 : IsA(cls, t[i][1]) /\ \A j \in 1..i - 1 : ~IsA(cls, t[j][1])
  OBVIOUS
<1> QED BY <1>2, <1>3, <1>4

\* A table of six rows.
LEMMA SixRows ==
    ASSUME NEW a1, NEW a2, NEW a3, NEW a4, NEW a5, NEW a6,
           NEW r1, NEW r2, NEW r3, NEW r4, NEW r5, NEW r6, NEW cls, NEW o
    PROVE  Lookup(<< <<a1, r1>>, <<a2, r2>>, <<a3, r3>>, <<a4, r4>>, <<a5, r5>>, <<a6, r6>> >>, cls, o) =
             IF IsA(cls, a1) THEN r1
             ELSE IF IsA(cls, a2) THEN r2
             ELSE IF IsA(cls, a3) THEN r3
             ELSE IF IsA(cls, a4) THEN r4
             ELSE IF IsA(cls, a5) THEN r5
             ELSE IF IsA(cls, a6) THEN r6 ELSE o
<1> DEFINE t == << <<a1, r1>>, <<a2, r2>>, <<a3, r3>>, <<a4, r4>>, <<a5, r5>>, <<a6, r6>> >>
<1>1. /\ DOMAIN t = 1..6
      /\ t[1][1] = a1 /\ t[2][1] = a2 /\ t[3][1] = a3 /\ t[4][1] = a4 /\ t[5][1] = a5 /\ t[6][1] = a6
      /\ t[1][2] = r1 /\ t[2][2] = r2 /\ t[3][2] = r3 /\ t[4][2] = r4 /\ t[5][2] = r5 /\ t[6][2] = r6
  OBVIOUS
<1> HIDE DEF t
<1>2. CASE \E i \in 1..6 : IsA(cls, t[i][1]) /\ \A j \in 1..i - 1 : ~IsA(cls, t[j][1])
  <2>1. PICK i \in 1..6 : IsA(cls, t[i][1]) /\ \A j \in 1..i - 1 : ~IsA(cls, t[j][1])
    BY <1>2
  <2>2. Lookup(t, cls, o) = t[i][2]
    BY <1>1, <2>1, FirstRow, ZenonT(30)
  <2> QED BY <1>1, <2>1, <2>2 DEF t
<1>3. CASE \A j \in 1..6 : ~IsA(cls, t[j][1])
  <2>1. Lookup(t, cls, o) = o
    BY <1>1, <1>3, NoRow
  <2> QED BY <1>1, <1>3, <2>1 DEF t
<1>4. \/ \A j \in 1..6 : ~IsA(cls, t[j][1])
      \/ \E i \in 1..6 : IsA(cls, t[i][1]) /\ \A j \in 1..i - 1 : ~IsA(cls, t[j][1])
  OBVIOUS
<1> QED BY <1>2, <1>3, <1>4

\* isinstance, base class by base class.
LEMMA IsAIs ==
    ASSUME NEW cls, NEW S
    PROVE  IsA(cls, S) <=>
              \/ cls \in S
              \/ cls \in StorageErrors /\ "StorageError" \in S
              \/ cls \in HttpClientErrors /\ "HttpClientError" \in S
              \/ cls \in HttpErrors /\ "HttpTransportError" \in S
              \/ cls \in OSErrors /\ "OSError" \in S
              \/ cls \in BotoErrors /\ "BotoCoreError" \in S
              \/ cls \in HttpxErrors /\ "HTTPError" \in S
              \/ cls = "AuthenticationException" /\ "SSHException" \in S
BY DEF IsA, Bases

\* What the libraries raise, for each kind of failure, for any codes, statuses
\* and chains.
LocalFailure(kind, exc) ==
    \/ kind = "absent" /\ exc.cls = "FileNotFoundError"
    \/ kind = "forbidden" /\ exc.cls = "PermissionError"
    \/ kind = "disconnected" /\ exc.cls \in {"ConnectionError", "TimeoutError"}
    \/ kind = "other" /\ exc.cls \in {"OSError", "NotADirectoryError"}
    \/ kind = "caller" /\ exc.cls \in {"StorageError", "UnsupportedOperation", "SameFileError"}

\* _mapped of the local backend gives the error of the failure's kind.
LEMMA LocalMapped ==
    ASSUME NEW kind, NEW exc, LocalFailure(kind, exc)
    PROVE  MapLocal(exc) = ErrorFor(kind)
<1>1. PICK cls : cls = exc.cls
  OBVIOUS
<1>2. MapLocal(exc) =
         IF IsA(cls, {"StorageError", "UnsupportedOperation", "SameFileError"}) THEN AsItIs
         ELSE IF IsA(cls, {"FileNotFoundError"}) THEN "PathNotFoundError"
         ELSE IF IsA(cls, {"PermissionError"}) THEN "PermissionDeniedError"
         ELSE IF IsA(cls, {"ConnectionError", "TimeoutError"}) THEN "StorageConnectionError"
         ELSE IF IsA(cls, {"OSError"}) THEN "StorageError" ELSE AsItIs
  <2>1. \A c : Lookup(LocalTable, c, AsItIs) =
         IF IsA(c, {"StorageError", "UnsupportedOperation", "SameFileError"}) THEN AsItIs
         ELSE IF IsA(c, {"FileNotFoundError"}) THEN "PathNotFoundError"
         ELSE IF IsA(c, {"PermissionError"}) THEN "PermissionDeniedError"
         ELSE IF IsA(c, {"ConnectionError", "TimeoutError"}) THEN "StorageConnectionError"
         ELSE IF IsA(c, {"OSError"}) THEN "StorageError" ELSE AsItIs
    BY FiveRows DEF LocalTable
  <2>2. MapLocal(exc) = Lookup(LocalTable, cls, AsItIs)
    BY <1>1, Zenon DEF MapLocal
  <2> QED BY <2>1, <2>2, Zenon
<1>3. CASE kind = "absent"
  BY <1>1, <1>2, <1>3, IsAIs DEF LocalFailure, ErrorFor, StorageErrors, HttpClientErrors, HttpErrors, OSErrors, BotoErrors, HttpxErrors
<1>4. CASE kind = "forbidden"
  BY <1>1, <1>2, <1>4, IsAIs DEF LocalFailure, ErrorFor, StorageErrors, HttpClientErrors, HttpErrors, OSErrors, BotoErrors, HttpxErrors
<1>5. CASE kind = "disconnected"
  BY <1>1, <1>2, <1>5, IsAIs DEF LocalFailure, ErrorFor, StorageErrors, HttpClientErrors, HttpErrors, OSErrors, BotoErrors, HttpxErrors
<1>6. CASE kind = "other"
  BY <1>1, <1>2, <1>6, IsAIs DEF LocalFailure, ErrorFor, StorageErrors, HttpClientErrors, HttpErrors, OSErrors, BotoErrors, HttpxErrors
<1>7. CASE kind = "caller"
  BY <1>1, <1>2, <1>7, IsAIs DEF LocalFailure, ErrorFor, StorageErrors, HttpClientErrors, HttpErrors, OSErrors, BotoErrors, HttpxErrors
<1> QED BY <1>3, <1>4, <1>5, <1>6, <1>7 DEF LocalFailure

SftpFailure(kind, exc) ==
    \/ kind = "absent" /\ (exc.code = "ENOENT" \/ (exc.cls = "FileNotFoundError" /\ exc.code \notin {"EACCES", "EPERM"}))
    \/ kind = "forbidden" /\ (exc.code \in {"EACCES", "EPERM"} \/ (exc.cls = "PermissionError" /\ exc.code # "ENOENT"))
    \/ exc.code \notin {"ENOENT", "EACCES", "EPERM"} /\
          \/ kind = "credentials" /\ exc.cls = "AuthenticationException"
          \/ kind = "disconnected" /\ exc.cls \in {"ConnectionError", "TimeoutError", "EOFError",
                                                  "SSHException", "NoValidConnectionsError"}
          \/ kind = "other" /\ exc.cls \in {"OSError", "SFTPError"}
          \/ kind = "caller" /\ exc.cls \in {"StorageError", "UnsupportedOperation"}

\* _mapped of the SFTP backend.
LEMMA SftpMapped ==
    ASSUME NEW kind, NEW exc, SftpFailure(kind, exc)
    PROVE  MapSftp(exc) = ErrorFor(kind)
<1>1. PICK cls : cls = exc.cls
  OBVIOUS
<1>2. PICK code : code = exc.code
  OBVIOUS
<1>3. MapSftp(exc) =
        IF code = "ENOENT" THEN "PathNotFoundError"
        ELSE IF code \in {"EACCES", "EPERM"} THEN "PermissionDeniedError"
        ELSE IF IsA(cls, {"StorageError", "UnsupportedOperation"}) THEN AsItIs
        ELSE IF IsA(cls, {"FileNotFoundError"}) THEN "PathNotFoundError"
        ELSE IF IsA(cls, {"PermissionError"}) THEN "PermissionDeniedError"
        ELSE IF IsA(cls, {"AuthenticationException"}) THEN "AuthenticationError"
        ELSE IF IsA(cls, {"ConnectionError", "TimeoutError", "EOFError", "SSHException",
                          "NoValidConnectionsError"}) THEN "StorageConnectionError"
        ELSE IF IsA(cls, {"OSError", "SFTPError"}) THEN "StorageError" ELSE AsItIs
  <2> DEFINE table == << <<{"StorageError", "UnsupportedOperation"}, AsItIs>>,
                   <<{"FileNotFoundError"}, "PathNotFoundError">>,
                   <<{"PermissionError"}, "PermissionDeniedError">>,
                   <<{"AuthenticationException"}, "AuthenticationError">>,
                   <<{"ConnectionError", "TimeoutError", "EOFError", "SSHException",
                      "NoValidConnectionsError"}, "StorageConnectionError">>,
                   <<{"OSError", "SFTPError"}, "StorageError">> >>
  <2>1. Lookup(table, cls, AsItIs) =
        IF IsA(cls, {"StorageError", "UnsupportedOperation"}) THEN AsItIs
        ELSE IF IsA(cls, {"FileNotFoundError"}) THEN "PathNotFoundError"
        ELSE IF IsA(cls, {"PermissionError"}) THEN "PermissionDeniedError"
        ELSE IF IsA(cls, {"AuthenticationException"}) THEN "AuthenticationError"
        ELSE IF IsA(cls, {"ConnectionError", "TimeoutError", "EOFError", "SSHException",
                          "NoValidConnectionsError"}) THEN "StorageConnectionError"
        ELSE IF IsA(cls, {"OSError", "SFTPError"}) THEN "StorageError" ELSE AsItIs
    BY SixRows, SMTT(30)
  <2>2. MapSftp(exc) = IF code = "ENOENT" THEN "PathNotFoundError"
                       ELSE IF code \in {"EACCES", "EPERM"} THEN "PermissionDeniedError"
                       ELSE Lookup(table, cls, AsItIs)
    BY <1>1, <1>2 DEF MapSftp
  <2> HIDE DEF table
  <2> QED BY <2>1, <2>2, Zenon
<1>4. CASE kind = "absent"
  BY <1>1, <1>2, <1>3, <1>4, IsAIs DEF SftpFailure, ErrorFor, StorageErrors, HttpClientErrors, HttpErrors, OSErrors, BotoErrors, HttpxErrors
<1>5. CASE kind = "forbidden"
  BY <1>1, <1>2, <1>3, <1>5, IsAIs DEF SftpFailure, ErrorFor, StorageErrors, HttpClientErrors, HttpErrors, OSErrors, BotoErrors, HttpxErrors
<1>6. CASE kind = "credentials"
  BY <1>1, <1>2, <1>3, <1>6, IsAIs DEF SftpFailure, ErrorFor, StorageErrors, HttpClientErrors, HttpErrors, OSErrors, BotoErrors, HttpxErrors
<1>7. CASE kind = "disconnected"
  BY <1>1, <1>2, <1>3, <1>7, IsAIs DEF SftpFailure, ErrorFor, StorageErrors, HttpClientErrors, HttpErrors, OSErrors, BotoErrors, HttpxErrors
<1>8. CASE kind = "other"
  BY <1>1, <1>2, <1>3, <1>8, IsAIs DEF SftpFailure, ErrorFor, StorageErrors, HttpClientErrors, HttpErrors, OSErrors, BotoErrors, HttpxErrors
<1>9. CASE kind = "caller"
  BY <1>1, <1>2, <1>3, <1>9, IsAIs DEF SftpFailure, ErrorFor, StorageErrors, HttpClientErrors, HttpErrors, OSErrors, BotoErrors, HttpxErrors
<1> QED BY <1>4, <1>5, <1>6, <1>7, <1>8, <1>9 DEF SftpFailure

S3Failure(kind, exc) ==
    \/ exc.cls = "ClientError" /\
          LET named == {"InvalidAccessKeyId", "SignatureDoesNotMatch", "ExpiredToken", "NoSuchKey", "NoSuchBucket",
                        "404", "AccessDenied", "RequestTimeout", "PreconditionFailed"} IN
          \/ kind = "absent" /\ (exc.code \in {"NoSuchKey", "NoSuchBucket", "404"} \/ (exc.code \notin named /\ exc.status = 404))
          \/ kind = "forbidden" /\ (exc.code = "AccessDenied" \/ (exc.code \notin named /\ exc.status = 403))
          \/ kind = "credentials" /\ (exc.code \in {"InvalidAccessKeyId", "SignatureDoesNotMatch", "ExpiredToken"}
                                      \/ (exc.code \notin named /\ exc.status = 401))
          \/ kind = "disconnected" /\ exc.code = "RequestTimeout"
          \/ kind = "changed" /\ (exc.code = "PreconditionFailed" \/ (exc.code \notin named /\ exc.status = 412))
          \/ kind = "other" /\ exc.code \notin named /\ exc.status \notin {401, 403, 404, 412}
    \/ kind = "credentials" /\ exc.cls = "NoCredentialsError"
    \/ kind = "disconnected" /\ exc.cls \in {"boto.ConnectionError", "HTTPClientError", "IncompleteReadError",
                                            "EOFError", "ConnectionError", "TimeoutError"}
    \/ kind = "other" /\ exc.cls \in {"BotoCoreError", "OSError"}
    \/ kind = "caller" /\ exc.cls \in {"StorageError", "UnsupportedOperation", "ParamValidationError"}

\* _mapped of the S3 backend.
LEMMA S3Mapped ==
    ASSUME NEW kind, NEW exc, exc.status \in Int, S3Failure(kind, exc)
    PROVE  MapS3(exc) = ErrorFor(kind)
<1>1. PICK cls : cls = exc.cls
  OBVIOUS
<1>2. CASE cls = "ClientError"
  <2>1. MapS3(exc) = MapClientError(exc)
    BY <1>1, <1>2, Zenon DEF MapS3
  <2>2. CASE kind = "absent"
    BY <1>1, <1>2, <2>1, <2>2 DEF S3Failure, ErrorFor, MapClientError
  <2>3. CASE kind = "forbidden"
    BY <1>1, <1>2, <2>1, <2>3 DEF S3Failure, ErrorFor, MapClientError
  <2>4. CASE kind = "credentials"
    BY <1>1, <1>2, <2>1, <2>4 DEF S3Failure, ErrorFor, MapClientError
  <2>5. CASE kind = "disconnected"
    BY <1>1, <1>2, <2>1, <2>5 DEF S3Failure, ErrorFor, MapClientError
  <2>6. CASE kind = "changed"
    BY <1>1, <1>2, <2>1, <2>6 DEF S3Failure, ErrorFor, MapClientError
  <2>7. CASE kind = "other"
    BY <1>1, <1>2, <2>1, <2>7 DEF S3Failure, ErrorFor, MapClientError
  <2> QED BY <1>1, <1>2, <2>2, <2>3, <2>4, <2>5, <2>6, <2>7 DEF S3Failure
<1>3. CASE cls # "ClientError"
  <2>1. MapS3(exc) =
           IF IsA(cls, {"StorageError", "UnsupportedOperation", "ParamValidationError"}) THEN AsItIs
           ELSE IF IsA(cls, {"NoCredentialsError"}) THEN "AuthenticationError"
           ELSE IF IsA(cls, {"ConnectionError", "TimeoutError", "EOFError", "boto.ConnectionError",
                             "HTTPClientError", "IncompleteReadError"}) THEN "StorageConnectionError"
           ELSE IF IsA(cls, {"OSError", "BotoCoreError"}) THEN "StorageError" ELSE AsItIs
    <3> DEFINE table == << <<{"StorageError", "UnsupportedOperation", "ParamValidationError"}, AsItIs>>,
                   <<{"NoCredentialsError"}, "AuthenticationError">>,
                   <<{"ConnectionError", "TimeoutError", "EOFError", "boto.ConnectionError",
                      "HTTPClientError", "IncompleteReadError"}, "StorageConnectionError">>,
                   <<{"OSError", "BotoCoreError"}, "StorageError">> >>
    <3>1. \A c : Lookup(table, c, AsItIs) =
           IF IsA(c, {"StorageError", "UnsupportedOperation", "ParamValidationError"}) THEN AsItIs
           ELSE IF IsA(c, {"NoCredentialsError"}) THEN "AuthenticationError"
           ELSE IF IsA(c, {"ConnectionError", "TimeoutError", "EOFError", "boto.ConnectionError",
                             "HTTPClientError", "IncompleteReadError"}) THEN "StorageConnectionError"
           ELSE IF IsA(c, {"OSError", "BotoCoreError"}) THEN "StorageError" ELSE AsItIs
      BY FourRows, SMTT(30)
    <3>2. MapS3(exc) = Lookup(table, cls, AsItIs)
      BY <1>1, <1>3, Zenon DEF MapS3
    <3> HIDE DEF table
    <3> QED BY <3>1, <3>2, Zenon
  <2>2. CASE kind = "credentials"
    BY <1>1, <1>3, <2>1, <2>2, IsAIs DEF S3Failure, ErrorFor, StorageErrors, HttpClientErrors, HttpErrors, OSErrors, BotoErrors, HttpxErrors
  <2>3. CASE kind = "disconnected"
    BY <1>1, <1>3, <2>1, <2>3, IsAIs DEF S3Failure, ErrorFor, StorageErrors, HttpClientErrors, HttpErrors, OSErrors, BotoErrors, HttpxErrors
  <2>4. CASE kind = "other"
    BY <1>1, <1>3, <2>1, <2>4, IsAIs DEF S3Failure, ErrorFor, StorageErrors, HttpClientErrors, HttpErrors, OSErrors, BotoErrors, HttpxErrors
  <2>5. CASE kind = "caller"
    BY <1>1, <1>3, <2>1, <2>5, IsAIs DEF S3Failure, ErrorFor, StorageErrors, HttpClientErrors, HttpErrors, OSErrors, BotoErrors, HttpxErrors
  <2> QED BY <1>1, <1>3, <2>2, <2>3, <2>4, <2>5 DEF S3Failure
<1> QED BY <1>2, <1>3

\* What of an HTTP error's chain tells that the connection is to blame.
Lost(exc) == \E c \in {exc.cls} \cup exc.chain : IsA(c, HttpLost)

HttpFailure(kind, exc) ==
    \/ exc.status \in 400..599 /\ exc.cls = StatusError(exc.status) /\
          \/ kind = "absent" /\ exc.status = 404
          \/ kind = "forbidden" /\ exc.status = 403
          \/ kind = "credentials" /\ exc.status = 401
          \/ kind = "changed" /\ exc.status = 412
          \/ kind = "other" /\ exc.status \notin {401, 403, 404, 412} /\ ~Lost(exc)
    \/ kind = "disconnected" /\ exc.cls \in {"HttpConnectionError", "HttpTimeoutError", "NetworkError",
                                            "TimeoutException", "ProxyError"}
    \/ kind = "disconnected" /\ exc.cls \in {"HttpTransportError", "HTTPError"} /\ Lost(exc)
    \/ kind = "other" /\ exc.cls \in {"HttpTransportError", "HTTPError", "OSError"} /\ ~Lost(exc)
    \/ kind = "caller" /\ exc.cls \in {"StorageError", "HttpRequestError", "InvalidURL",
                                      "UnsupportedProtocol", "LocalProtocolError"}

\* _mapped of the HTTP backend.
LEMMA HttpMapped ==
    ASSUME NEW kind, NEW exc, HttpFailure(kind, exc)
    PROVE  MapHttp(exc) = ErrorFor(kind)
<1>1. PICK cls : cls = exc.cls
  OBVIOUS
<1> DEFINE class ==
        IF IsA(cls, {"StorageError", "HttpRequestError", "InvalidURL", "UnsupportedProtocol",
                     "LocalProtocolError"}) THEN AsItIs
        ELSE IF IsA(cls, {"HttpNotFoundError"}) THEN "PathNotFoundError"
        ELSE IF IsA(cls, {"HttpAuthenticationError"}) THEN "AuthenticationError"
        ELSE IF IsA(cls, {"HttpForbiddenError"}) THEN "PermissionDeniedError"
        ELSE IF IsA(cls, {"HttpTransportError", "HTTPError", "OSError"}) THEN "StorageError" ELSE AsItIs
<1>2. MapHttp(exc) = IF class # "StorageError" THEN class
                     ELSE IF cls = "HttpClientError" /\ exc.status = 412 THEN "ObjectChangedError"
                     ELSE IF Lost(exc) THEN "StorageConnectionError" ELSE "StorageError"
  <2> DEFINE table ==
            << <<{"StorageError", "HttpRequestError", "InvalidURL", "UnsupportedProtocol",
                  "LocalProtocolError"}, AsItIs>>,
               <<{"HttpNotFoundError"}, "PathNotFoundError">>,
               <<{"HttpAuthenticationError"}, "AuthenticationError">>,
               <<{"HttpForbiddenError"}, "PermissionDeniedError">>,
               <<{"HttpTransportError", "HTTPError", "OSError"}, "StorageError">> >>
  <2>1. Lookup(table, cls, AsItIs) = class
    BY FiveRows, SMTT(30)
  <2>2. MapHttp(exc) = IF Lookup(table, cls, AsItIs) # "StorageError" THEN Lookup(table, cls, AsItIs)
                     ELSE IF cls = "HttpClientError" /\ exc.status = 412 THEN "ObjectChangedError"
                     ELSE IF Lost(exc) THEN "StorageConnectionError" ELSE "StorageError"
    BY <1>1, Zenon DEF MapHttp, Lost
  <2> HIDE DEF table, class
  <2> QED BY <2>1, <2>2
<1>3. CASE exc.status \in 400..599 /\ cls = StatusError(exc.status) /\ kind = "absent" /\ exc.status = 404
  <2>1. cls = "HttpNotFoundError"
    BY <1>3 DEF StatusError
  <2>2. class = "PathNotFoundError"
    BY <2>1, IsAIs DEF StorageErrors, HttpClientErrors, HttpErrors, OSErrors, BotoErrors, HttpxErrors
  <2> HIDE DEF class
  <2> QED BY <1>2, <1>3, <2>1, <2>2 DEF ErrorFor
<1>8. CASE exc.status \in 400..599 /\ cls = StatusError(exc.status) /\ kind = "forbidden" /\ exc.status = 403
  <2>1. cls = "HttpForbiddenError"
    BY <1>8 DEF StatusError
  <2>2. class = "PermissionDeniedError"
    BY <2>1, IsAIs DEF StorageErrors, HttpClientErrors, HttpErrors, OSErrors, BotoErrors, HttpxErrors
  <2> HIDE DEF class
  <2> QED BY <1>2, <1>8, <2>1, <2>2 DEF ErrorFor
<1>9. CASE exc.status \in 400..599 /\ cls = StatusError(exc.status) /\ kind = "credentials" /\ exc.status = 401
  <2>1. cls = "HttpAuthenticationError"
    BY <1>9 DEF StatusError
  <2>2. class = "AuthenticationError"
    BY <2>1, IsAIs DEF StorageErrors, HttpClientErrors, HttpErrors, OSErrors, BotoErrors, HttpxErrors
  <2> HIDE DEF class
  <2> QED BY <1>2, <1>9, <2>1, <2>2 DEF ErrorFor
<1>10. CASE exc.status \in 400..599 /\ cls = StatusError(exc.status) /\ kind = "changed" /\ exc.status = 412
  <2>1. cls = "HttpClientError"
    BY <1>10 DEF StatusError
  <2>2. class = "StorageError"
    BY <2>1, IsAIs DEF StorageErrors, HttpClientErrors, HttpErrors, OSErrors, BotoErrors, HttpxErrors
  <2> HIDE DEF class
  <2> QED BY <1>2, <1>10, <2>1, <2>2 DEF ErrorFor
<1>4. CASE exc.status \in 400..599 /\ cls = StatusError(exc.status) /\ kind = "other"
             /\ exc.status \notin {401, 403, 404, 412} /\ ~Lost(exc)
  <2>1. cls \in {"HttpClientError", "HttpConflictError", "HttpRateLimitError", "HttpServerError"}
    BY <1>4 DEF StatusError
  <2>2. class = "StorageError"
    BY <2>1, IsAIs DEF StorageErrors, HttpClientErrors, HttpErrors, OSErrors, BotoErrors, HttpxErrors
  <2>3. exc.status # 412
    BY <1>4
  <2> HIDE DEF class
  <2> QED BY <1>2, <1>4, <2>2, <2>3, SMTT(30) DEF ErrorFor
<1>5. CASE kind = "disconnected" /\ (cls \in {"HttpConnectionError", "HttpTimeoutError", "NetworkError",
                                            "TimeoutException", "ProxyError"}
                                   \/ (cls \in {"HttpTransportError", "HTTPError"} /\ Lost(exc)))
  <2>1. class = "StorageError"
    BY <1>5, IsAIs DEF StorageErrors, HttpClientErrors, HttpErrors, OSErrors, BotoErrors, HttpxErrors
  <2>2. cls # "HttpClientError"
    BY <1>5
  <2>3. Lost(exc)
    <3>1. cls \in HttpLost => IsA(cls, HttpLost)
      BY IsAIs
    <3>2. cls \in HttpLost \/ Lost(exc)
      BY <1>5 DEF HttpLost
    <3> QED BY <1>1, <3>1, <3>2 DEF Lost
  <2> HIDE DEF class
  <2> QED BY <1>2, <1>5, <2>1, <2>2, <2>3 DEF ErrorFor
<1>6. CASE kind = "other" /\ cls \in {"HttpTransportError", "HTTPError", "OSError"} /\ ~Lost(exc)
  <2>1. class = "StorageError"
    BY <1>6, IsAIs DEF StorageErrors, HttpClientErrors, HttpErrors, OSErrors, BotoErrors, HttpxErrors
  <2>2. cls # "HttpClientError"
    BY <1>6
  <2> HIDE DEF class
  <2> QED BY <1>2, <1>6, <2>1, <2>2 DEF ErrorFor
<1>7. CASE kind = "caller" /\ cls \in {"StorageError", "HttpRequestError", "InvalidURL",
                                      "UnsupportedProtocol", "LocalProtocolError"}
  <2>1. class = AsItIs
    BY <1>7, IsAIs
  <2> HIDE DEF class
  <2> QED BY <1>2, <1>7, <2>1 DEF ErrorFor, AsItIs
<1> HIDE DEF class
<1>11. \/ exc.status \in 400..599 /\ cls = StatusError(exc.status) /\
             \/ kind = "absent" /\ exc.status = 404
             \/ kind = "forbidden" /\ exc.status = 403
             \/ kind = "credentials" /\ exc.status = 401
             \/ kind = "changed" /\ exc.status = 412
             \/ kind = "other" /\ exc.status \notin {401, 403, 404, 412} /\ ~Lost(exc)
       \/ kind = "disconnected" /\ (cls \in {"HttpConnectionError", "HttpTimeoutError", "NetworkError",
                                            "TimeoutException", "ProxyError"}
                                   \/ (cls \in {"HttpTransportError", "HTTPError"} /\ Lost(exc)))
       \/ kind = "other" /\ cls \in {"HttpTransportError", "HTTPError", "OSError"} /\ ~Lost(exc)
       \/ kind = "caller" /\ cls \in {"StorageError", "HttpRequestError", "InvalidURL",
                                      "UnsupportedProtocol", "LocalProtocolError"}
  BY ONLY HttpFailure(kind, exc), <1>1 DEF HttpFailure
<1> QED BY ONLY <1>3, <1>4, <1>5, <1>6, <1>7, <1>8, <1>9, <1>10, <1>11

\* A question about a failure: what a library raises for that kind of it.
IsFailure(q) ==
    /\ q.exc.status \in Int
    /\ \/ q.backend = "local" /\ LocalFailure(q.kind, q.exc)
       \/ q.backend = "sftp" /\ SftpFailure(q.kind, q.exc)
       \/ q.backend = "s3" /\ S3Failure(q.kind, q.exc)
       \/ q.backend = "http" /\ HttpFailure(q.kind, q.exc)

\* SameError holds of every failure.
LEMMA FailuresHold ==
    ASSUME NEW q, IsFailure(q)
    PROVE  SameError(q)
<1>1. PICK exc : exc = q.exc
  OBVIOUS
<1>2. PICK kind : kind = q.kind
  OBVIOUS
<1>3. PICK backend : backend = q.backend
  OBVIOUS
<1>4. PICK mapped : mapped = Mapped(backend, exc)
  OBVIOUS
<1>5. mapped = ErrorFor(kind) /\ kind \in {"absent", "forbidden", "credentials", "disconnected", "changed", "other", "caller"}
  <2>1. CASE backend = "local" /\ LocalFailure(kind, exc)
    <3>1. mapped = MapLocal(exc)
      BY <1>4, <2>1 DEF Mapped
    <3> QED BY <2>1, <3>1, LocalMapped DEF LocalFailure
  <2>2. CASE backend = "sftp" /\ SftpFailure(kind, exc)
    <3>1. mapped = MapSftp(exc)
      BY <1>4, <2>2 DEF Mapped
    <3> QED BY <2>2, <3>1, SftpMapped DEF SftpFailure
  <2>3. CASE backend = "s3" /\ S3Failure(kind, exc)
    <3>1. mapped = MapS3(exc)
      BY <1>4, <2>3 DEF Mapped
    <3>2. exc.status \in Int
      BY <1>1, Zenon DEF IsFailure
    <3>3. mapped = ErrorFor(kind)
      BY <2>3, <3>1, <3>2, S3Mapped
    <3>4. kind \in {"absent", "forbidden", "credentials", "disconnected", "changed", "other", "caller"}
      BY <2>3 DEF S3Failure
    <3> QED BY <3>3, <3>4
  <2>4. CASE backend = "http" /\ HttpFailure(kind, exc)
    <3>1. mapped = MapHttp(exc)
      BY <1>4, <2>4 DEF Mapped
    <3> QED BY <2>4, <3>1, HttpMapped DEF HttpFailure
  <2> QED BY <1>1, <1>2, <1>3, <2>1, <2>2, <2>3, <2>4, Zenon DEF IsFailure
<1>6. mapped = "PathNotFoundError" <=> kind = "absent"
  BY <1>5 DEF ErrorFor, AsItIs
<1>7. backend = "local" /\ exc.cls = "FileNotFoundError" => kind = "absent"
  <2>1. backend = "local" => LocalFailure(kind, exc)
    BY <1>1, <1>2, <1>3 DEF IsFailure
  <2> QED BY <2>1 DEF LocalFailure
<1>8. PathExists(backend, {exc}) =
         IF backend = "local" /\ exc.cls \in {"FileNotFoundError", "NotADirectoryError"} THEN "false"
         ELSE IF mapped = "PathNotFoundError" THEN "false" ELSE "raises"
  <2>1. (CHOOSE e \in {exc} : TRUE) = exc /\ {exc} # {}
    OBVIOUS
  <2> QED BY <1>4, <2>1, Zenon DEF PathExists
<1>9. PathExists(backend, {exc}) =
         IF kind = "absent" \/ (backend = "local" /\ exc.cls = "NotADirectoryError") THEN "false" ELSE "raises"
  BY <1>6, <1>7, <1>8
<1> QED BY <1>1, <1>2, <1>3, <1>4, <1>5, <1>9, Zenon DEF SameError

\* The same failure is the same StorageError whatever the backend, for every
\* exception that the libraries raise for it, whatever its code, its status and what
\* it hides.
THEOREM FailuresAreAlike ==
    (question.about = "failure" => IsFailure(question)) /\ [][UNCHANGED question]_question
    => []SameFailureSameError
<1> DEFINE Meant == question.about = "failure" => IsFailure(question)
<1>1. Meant /\ [UNCHANGED question]_question => Meant'
  OBVIOUS
<1>2. Meant => SameFailureSameError
  BY FailuresHold, Zenon DEF SameFailureSameError, Answers
<1> QED BY <1>1, <1>2, PTL

-----------------------------------------------------------------------------
(* Hosts *)

\* Facades and locations as the program makes them, for any hosts, policies and
\* profiles: only an S3 profile may be for every bucket, and then it names no
\* host; HTTP's profile names none.
Policy == [active : BOOLEAN, allowed : UNION {[D -> SUBSET STRING] : D \in SUBSET STRING}]

Facade ==
    {f \in [provider : S3Family \cup {"sftp", "http", "local"}, anyBucket : BOOLEAN,
            profileHost : STRING, policy : Policy, profile : Int] :
        /\ f.anyBucket <=> f.provider \in S3Family /\ f.profileHost = NoHost
        /\ f.provider = "http" => f.profileHost = NoHost}

Location == [scheme : STRING, host : STRING, port : STRING, extra : BOOLEAN]

\* A location is accepted if and only if there is leave for the host that the
\* backend turns to.
LEMMA HostsHaveLeave ==
    ASSUME NEW f \in Facade, NEW loc \in Location,
           loc.scheme \notin {NoScheme, Malformed}, Contacted(f, loc) # NoHost
    PROVE  Checked(f, loc) <=> HasLeave(f, loc.scheme, Contacted(f, loc))
<1> DEFINE host == Contacted(f, loc)
<1>1. CASE f.provider \in S3Family
  <2>1. host = Bucket(loc) /\ f.provider # "http"
    BY <1>1 DEF Contacted, S3Family
  <2>2. Checked(f, loc) <=> ~f.policy.active \/ f.anyBucket
                               \/ AllowRemote(f.provider, host, f.policy, f.profileHost)
    BY <1>1, <2>1 DEF Checked, S3Family
  <2>3. f.anyBucket \/ f.profileHost # NoHost
    BY <1>1 DEF Facade
  <2> HIDE DEF host
  <2>4. AllowRemote(f.provider, host, f.policy, f.profileHost)
           <=> \/ host = f.profileHost
               \/ /\ f.provider \in DOMAIN f.policy.allowed
                  /\ f.policy.allowed[f.provider] = {} \/ host \in f.policy.allowed[f.provider]
    <3>1. host # NoHost
      BY DEF host
    <3> QED BY <3>1 DEF AllowRemote
  <2>5. HasLeave(f, loc.scheme, host)
           <=> \/ ~f.policy.active \/ f.anyBucket \/ host = f.profileHost
               \/ /\ f.provider \in DOMAIN f.policy.allowed
                  /\ f.policy.allowed[f.provider] = {} \/ host \in f.policy.allowed[f.provider]
    BY <2>1 DEF HasLeave
  <2> QED BY <2>2, <2>4, <2>5 DEF host
<1>2. CASE f.provider = "sftp"
  <2>1. f.provider \notin S3Family /\ ~f.anyBucket
    BY <1>2 DEF S3Family, Facade
  <2>2. CASE loc.scheme = "sftp"
    <3>1. host = loc.host /\ host = f.profileHost
      BY <1>2, <2>1, <2>2 DEF Contacted
    <3>2. Checked(f, loc) <=> ~f.policy.active \/ AllowRemote("sftp", loc.host, f.policy, f.profileHost)
      BY <1>2, <2>1, <2>2 DEF Checked
    <3> QED BY <1>2, <3>1, <3>2 DEF AllowRemote, HasLeave
  <2>3. CASE loc.scheme # "sftp"
    <3>1. host = f.profileHost
      BY <1>2, <2>1, <2>3 DEF Contacted
    <3>2. Checked(f, loc)
      BY <1>2, <2>1, <2>3 DEF Checked
    <3> QED BY <1>2, <3>1, <3>2 DEF HasLeave
  <2> QED BY <2>2, <2>3
<1>3. CASE f.provider = "http"
  <2>1. f.provider \notin S3Family /\ f.provider # "sftp" /\ ~f.anyBucket
    BY <1>3 DEF S3Family, Facade
  <2>2. host = loc.host
    BY <1>3, <2>1 DEF Contacted
  <2>3. Checked(f, loc) <=> ~f.policy.active \/ AllowRemote(loc.scheme, loc.host, f.policy, NoHost)
    BY <1>3, <2>1 DEF Checked
  <2> QED BY <1>3, <2>2, <2>3 DEF AllowRemote, HasLeave
<1>4. CASE f.provider = "local"
  BY <1>4 DEF Contacted, S3Family
<1> QED BY <1>1, <1>2, <1>3, <1>4 DEF Facade

\* A copy that the source's backend does has the destination's leave as well: the
\* two policies are equal and the profile is the same.
LEMMA CopiesHaveLeave ==
    ASSUME NEW src \in Facade, NEW dst \in Facade, NEW plain \in BOOLEAN, NEW loc \in Location,
           src.profile = dst.profile =>
               src.provider = dst.provider /\ src.profileHost = dst.profileHost,
           Contacted(dst, loc) # NoHost,
           CopyAllowed(src, dst, plain, loc)
    PROVE  HasLeave(dst, loc.scheme, Contacted(dst, loc))
<1>0. Checked(dst, loc) => HasLeave(dst, loc.scheme, Contacted(dst, loc))
  <2>1. CASE ~dst.policy.active
    BY <2>1 DEF HasLeave
  <2>2. CASE dst.policy.active
    <3>1. Checked(dst, loc) => loc.scheme \notin {NoScheme, Malformed}
      BY <2>2 DEF Checked
    <3> QED BY <3>1, HostsHaveLeave
  <2> QED BY <2>1, <2>2
<1>1. CASE NativeCopy(src, dst, plain)
  <2>1. src.policy = dst.policy /\ src.provider = dst.provider /\ src.profileHost = dst.profileHost
    BY <1>1 DEF NativeCopy
  <2>2. src.anyBucket = dst.anyBucket
    BY <2>1 DEF Facade
  <2>3. Checked(dst, loc)
    BY <1>1, <2>1, <2>2 DEF CopyAllowed, Checked
  <2> QED BY <2>3, <1>0
<1>2. CASE ~NativeCopy(src, dst, plain)
  BY <1>2, <1>0 DEF CopyAllowed
<1> QED BY <1>1, <1>2

-----------------------------------------------------------------------------
(* Secrets *)

\* A refusal quotes nothing that lies at a secret.
LEMMA RefusalHidesSecrets ==
    ASSUME NEW part, NEW errors, NEW params, NEW v \in RefuseInvalid(part, errors, params).quotes
    PROVE  \E p \in DOMAIN params : v = <<part, p>> /\ p \notin Shape(params)
<1>1. ~Sensitive(errors, Shape(params))
  BY DEF RefuseInvalid
<1>2. PICK e \in errors : \E p \in Quoted(e, params) : v = <<part, p>>
  BY <1>1 DEF RefuseInvalid
<1>2a. PICK p \in Quoted(e, params) : v = <<part, p>>
  BY <1>2
<1>3. p \in DOMAIN params
  BY <1>2a DEF Quoted
<1>4. ASSUME p \in Shape(params) PROVE Sensitive(errors, Shape(params))
  <2>1. CASE e.loc = <<>> \/ e.missing
    BY <1>4, <2>1 DEF Sensitive
  <2>2. CASE ~(e.loc = <<>> \/ e.missing)
    <3>1. IsPrefix(p, e.loc) \/ IsPrefix(e.loc, p)
      BY <1>2a, <2>2 DEF Quoted
    <3> QED BY <1>4, <2>2, <3>1 DEF Sensitive
  <2> QED BY <2>1, <2>2
<1> QED BY <1>1, <1>2a, <1>3, <1>4

\* What the second part of the resolution quotes.
LEMMA AuthQuotes ==
    ASSUME NEW block, NEW spec
    PROVE  \/ ResolveAuth(block, spec).quotes = {}
           \/ \E errors : ResolveAuth(block, spec) = RefuseInvalid("auth", errors, block.auth.params)
<1> DEFINE mode == EffectiveMode(spec, block.auth)
           errors == ErrorsOf(AuthRequired(mode), block.auth.params, block.auth.invalid)
<1> HIDE DEF mode, errors
<1>1. CASE mode \notin Modes
  <2>1. mode \notin spec.supported \/ mode \in spec.supported
    OBVIOUS
  <2>2. ResolveAuth(block, spec) \in {Refuse("ProfileResolutionError"), RefuseInvalid("auth", errors, block.auth.params), Refuse("AttributeError")}
    BY <1>1, <2>1 DEF ResolveAuth, mode, errors
  <2> QED BY <2>2 DEF Refuse
<1>2. CASE mode \in Modes
  BY <1>2 DEF ResolveAuth, Refuse, mode, errors
<1> QED BY <1>1, <1>2

\* No value quoted anywhere was looked up as a secret.
LEMMA SecretsHidden ==
    ASSUME NEW q, NEW v \in ResolveStorage(q.block).quotes
    PROVE  /\ ~ \E p \in Shape(q.block.params) : v = <<"storage", p>>
           /\ ~ \E p \in Shape(q.block.auth.params) : v = <<"auth", p>>
<1> DEFINE b == q.block
           spec == SpecOf[b.provider]
           errors == ErrorsOf(spec.required, b.params, b.invalid)
<1>1. \/ ResolveStorage(b).quotes = {}
      \/ ResolveStorage(b) = RefuseInvalid("storage", errors, b.params)
      \/ ResolveStorage(b) = ResolveAuth(b, spec)
  <2> HIDE DEF spec, errors
  <2> QED BY DEF ResolveStorage, Refuse, spec, errors
<1> HIDE DEF b, spec, errors
<1>2. \/ ResolveStorage(b).quotes = {}
      \/ ResolveStorage(b) = RefuseInvalid("storage", errors, b.params)
      \/ \E es : ResolveStorage(b) = RefuseInvalid("auth", es, b.auth.params)
  BY <1>1, AuthQuotes
<1>3. v \in ResolveStorage(b).quotes
  BY DEF b
<1>4. \/ \E p \in DOMAIN b.params : v = <<"storage", p>> /\ p \notin Shape(b.params)
      \/ \E p \in DOMAIN b.auth.params : v = <<"auth", p>> /\ p \notin Shape(b.auth.params)
  BY <1>2, <1>3, RefusalHidesSecrets
<1>5. /\ ~ \E p \in Shape(b.params) : v = <<"storage", p>>
      /\ ~ \E p \in Shape(b.auth.params) : v = <<"auth", p>>
  <2>1. "storage" # "auth"
    OBVIOUS
  <2> QED BY <1>4, <2>1
<1> QED BY <1>5 DEF b

\* Secret holds of every block.
LEMMA SecretsShort ==
    ASSUME NEW q PROVE Secret(q)
<1> DEFINE secrets == ({"storage"} \X Shape(q.block.params)) \cup ({"auth"} \X Shape(q.block.auth.params))
<1>1. \A v \in secrets : \/ \E p \in Shape(q.block.params) : v = <<"storage", p>>
                         \/ \E p \in Shape(q.block.auth.params) : v = <<"auth", p>>
  OBVIOUS
<1>2. ResolveStorage(q.block).quotes \cap secrets = {}
  <2> HIDE DEF secrets
  <2> QED BY <1>1, SecretsHidden
<1> QED BY <1>2 DEF Secret

-----------------------------------------------------------------------------
(* Settings and connections *)

Types == {"s3", "sftp", "http", "local", "azure_blob", "gcs", "ftp", "smb", "github"}

\* The providers' specifications: who may sign with IAM.
LEMMA Specs ==
    ASSUME NEW p \in DOMAIN SpecOf
    PROVE  /\ SpecOf[p].provider \in Types
           /\ "iam" \in SpecOf[p].supported => SpecOf[p].provider \in {"s3", "gcs"}
<1>1. p \in {"s3", "sftp", "http", "local", "azure_storage", "gcs", "ftp", "smb", "github"}
  BY DEF SpecOf
<1>2. CASE p = "s3" BY <1>2 DEF SpecOf, S3Spec, ProfileSpec, Types
<1>3. CASE p = "sftp" BY <1>3 DEF SpecOf, SftpSpec, ProfileSpec, Types
<1>4. CASE p = "http" BY <1>4 DEF SpecOf, HttpSpec, ProfileSpec, Types
<1>5. CASE p = "local" BY <1>5 DEF SpecOf, LocalSpec, ProfileSpec, Types
<1>6. CASE p = "azure_storage" BY <1>6 DEF SpecOf, AzureSpec, ProfileSpec, Types
<1>7. CASE p = "gcs" BY <1>7 DEF SpecOf, GcsSpec, ProfileSpec, Types
<1>8. CASE p = "ftp" BY <1>8 DEF SpecOf, FtpSpec, ProfileSpec, Types
<1>9. CASE p = "smb" BY <1>9 DEF SpecOf, SmbSpec, ProfileSpec, Types
<1>10. CASE p = "github" BY <1>10 DEF SpecOf, GithubSpec, ProfileSpec, Types
<1> QED BY <1>1, <1>2, <1>3, <1>4, <1>5, <1>6, <1>7, <1>8, <1>9, <1>10

\* What resolve_storage returns is a provider and a mode it supports.
LEMMA ResolvedMode ==
    ASSUME NEW block, NEW result, result = ResolveStorage(block), result.error = ""
    PROVE  /\ result.spec.provider \in Types
           /\ result.mode \in result.spec.supported
           /\ result.mode = "iam" => result.spec.provider \in {"s3", "gcs"}
<1> DEFINE spec == SpecOf[block.provider]
           mode == EffectiveMode(spec, block.auth)
           errors == ErrorsOf(AuthRequired(mode), block.auth.params, block.auth.invalid)
           done == [error |-> "", quotes |-> {}, spec |-> spec, mode |-> mode]
<1>1. block.provider \in DOMAIN SpecOf
  BY DEF ResolveStorage, Refuse
<1>2. result = ResolveAuth(block, spec)
  BY DEF ResolveStorage, Refuse, RefuseInvalid
<1>3. done.mode = mode /\ done.spec = spec
  OBVIOUS
<1>4. /\ \A e : Refuse(e).error = e
      /\ RefuseInvalid("auth", errors, block.auth.params).error = "ProfileResolutionError"
  BY DEF Refuse, RefuseInvalid
<1>5. mode \in spec.supported => mode \in Modes
  BY <1>1 DEF Modes
<1>6. mode \in spec.supported /\ result = done
  <2> HIDE DEF mode, spec, errors, done
  <2>1. CASE mode \notin Modes
    <3>1. result = Refuse("ProfileResolutionError")
      BY <1>2, <1>5, <2>1 DEF ResolveAuth, mode, spec
    <3> QED BY <1>4, <3>1
  <2>2. CASE mode \in Modes /\ mode \notin spec.supported
    <3>1. result = Refuse("UnsupportedAuthProfileError")
      BY <1>2, <2>2 DEF ResolveAuth, mode, spec
    <3> QED BY <1>4, <3>1
  <2>3. CASE mode \in spec.supported /\ errors # {}
    <3>1. result = IF block.auth.given = "null" THEN Refuse("AttributeError")
                   ELSE RefuseInvalid("auth", errors, block.auth.params)
      BY <1>2, <1>5, <2>3 DEF ResolveAuth, mode, spec, errors
    <3> QED BY <1>4, <3>1
  <2>4. CASE mode \in spec.supported /\ errors = {}
    BY <1>2, <1>5, <2>4 DEF ResolveAuth, mode, spec, errors, done
  <2> QED BY <2>1, <2>2, <2>3, <2>4
<1> HIDE DEF mode, done
<1>7. result.mode = mode /\ result.spec = spec
  BY <1>3, <1>6
<1> QED BY <1>1, <1>6, <1>7, Specs

\* httpx.Client raises for what a provider without a backend passes on, whatever
\* its profile holds.
LEMMA NoHttpClient ==
    ASSUME NEW spec, NEW profile, spec.provider \in Types, spec.provider \notin Backends
    PROVE  /\ ConnectionClass(spec.provider) = "HTTPConnection"
           /\ ~(Arguments(spec, profile) \subseteq HttpxArguments)
<1>1. spec.provider \in {"azure_blob", "gcs", "ftp", "smb", "github"}
  BY DEF Types, Backends
<1>2. ConnectionClass(spec.provider) = "HTTPConnection"
  BY <1>1 DEF ConnectionClass
<1>3. CASE spec.provider = "azure_blob"
  <2>1. "account_url" \in Arguments(spec, profile)
    BY <1>3 DEF Arguments, AzureArguments
  <2> QED BY <1>2, <2>1 DEF HttpxArguments
<1>4. CASE spec.provider = "gcs"
  <2>1. "project" \in Arguments(spec, profile)
    BY <1>4 DEF Arguments, GcsArguments
  <2> QED BY <1>2, <2>1 DEF HttpxArguments
<1>5. CASE spec.provider = "ftp"
  <2>1. "ftp_class_path" \in Arguments(spec, profile)
    BY <1>5 DEF Arguments, FtpArguments
  <2> QED BY <1>2, <2>1 DEF HttpxArguments
<1>6. CASE spec.provider = "smb"
  <2>1. "server" \in Arguments(spec, profile)
    BY <1>6 DEF Arguments, SmbArguments
  <2> QED BY <1>2, <2>1 DEF HttpxArguments
<1>7. CASE spec.provider = "github"
  <2>1. "org" \in Arguments(spec, profile)
    BY <1>7 DEF Arguments, GithubArguments
  <2> QED BY <1>2, <2>1 DEF HttpxArguments
<1> QED BY <1>1, <1>3, <1>4, <1>5, <1>6, <1>7

Profile == [flavor : {"aws", "express", "r2", "minio", "b2"}, files : BOOLEAN, given : SUBSET STRING]
Auth == [mode : STRING, keys : BOOLEAN, profile : BOOLEAN, role : BOOLEAN, token : BOOLEAN]

\* Only a custom endpoint is passed on, and one always is if the service is not AWS.
LEMMA EndpointPassed ==
    ASSUME NEW profile \in Profile, Endpoint(profile) # "ValueError"
    PROVE  "endpoint_url" \in S3Arguments(profile)
              <=> profile.flavor \notin {"aws", "express"} \/ "ENDPOINT_URL" \in profile.given
<1>1. Endpoint(profile) = "aws"
         <=> profile.flavor \in {"aws", "express"} /\ "ENDPOINT_URL" \notin profile.given
  BY DEF Endpoint, Profile
<1>2. /\ "endpoint_url" \notin Given(profile, [ACCELERATE_ENDPOINT |-> "use_accelerate_endpoint",
                                              DUALSTACK_ENDPOINT |-> "use_dualstack_endpoint"])
      /\ "endpoint_url" \notin Given(profile, [CONNECT_TIMEOUT |-> "connect_timeout",
                                              READ_TIMEOUT |-> "read_timeout"])
  BY DEF Given
<1>3. "endpoint_url" \in S3Arguments(profile) <=> Endpoint(profile) # "aws"
  BY <1>2 DEF S3Arguments
<1> QED BY <1>1, <1>3

\* The credentials of an S3 session are those configured.
LEMMA SignerAsConfigured ==
    ASSUME NEW auth, NEW ambient \in BOOLEAN,
           auth.keys \in BOOLEAN, auth.profile \in BOOLEAN, auth.role \in BOOLEAN,
           S3Signer(auth, ambient) \notin {"ValueError", "TransportConnectionError"}
    PROVE  LET signer == S3Signer(auth, ambient) IN
           /\ signer = "ambient" => ~auth.keys /\ ~auth.profile /\ ~auth.role
           /\ signer = "keys" => ~auth.profile /\ ~auth.role
           /\ signer = "profile" => ~auth.keys /\ ~auth.role
           /\ signer = "role" => auth.role /\ ~(auth.keys /\ auth.profile)
           /\ signer # "managed"
<1>1. ~(auth.profile /\ auth.keys)
  BY DEF S3Signer
<1>2. CASE auth.role
  <2>1. S3Signer(auth, ambient) = "role"
    BY <1>1, <1>2 DEF S3Signer
  <2> QED BY <1>1, <1>2, <2>1
<1>3. CASE ~auth.role
  BY <1>1, <1>3 DEF S3Signer
<1> QED BY <1>2, <1>3

\* What Connected gives, as far as it is told apart below.
LEMMA Raised ==
    ASSUME NEW e, NEW o \in BOOLEAN, NEW facade, facade = Raise(e, o)
    PROVE  facade.error = e /\ facade.opened = o
BY DEF Raise

\* A facade that is open.
LEMMA OpenWith ==
    ASSUME NEW signer, NEW facade, facade = [error |-> "", opened |-> TRUE, signer |-> signer]
    PROVE  facade.error = "" /\ facade.signer = signer
OBVIOUS

Delivers(facade, spec, auth, ambient, strategy) ==
    /\ facade.error # "UnsupportedAuthProfileError"
    /\ facade.opened /\ facade.error # "" => strategy = "managed" /\ spec.provider \in Backends
    /\ spec.provider \notin Backends => facade.error = "TransportConnectionError"
    /\ facade.error = "" /\ auth.mode = "iam" =>
          /\ facade.signer = S3Signer(auth, ambient)
          /\ facade.signer \notin {"ValueError", "TransportConnectionError"}
    /\ facade.error = "" /\ auth.mode \notin {"iam", "none"} =>
          (facade.signer = "managed" <=> strategy = "managed")
    /\ facade.error = "" /\ auth.mode = "none" => facade.signer # "managed"

\* What a connection is, once the settings were accepted.
LEMMA ConnectedGives ==
    ASSUME NEW spec, spec.provider \in Types, NEW profile, NEW auth,
           NEW ambient \in BOOLEAN, NEW strategy,
           auth.mode = "iam" => spec.provider \in {"s3", "gcs"},
           NEW facade, facade = Connected(spec, profile, auth, ambient, strategy)
    PROVE  Delivers(facade, spec, auth, ambient, strategy)
<1> USE DEF Delivers
<1> DEFINE signer == CASE auth.mode = "none" -> IF spec.provider = "s3" THEN "ambient" ELSE "none"
                       [] auth.mode = "iam" -> S3Signer(auth, ambient)
                       [] OTHER -> IF strategy = "managed" THEN "managed" ELSE "static"
           unsigned == spec.provider = "s3" /\ signer \in {"ValueError", "TransportConnectionError"}
           unmade == /\ ConnectionClass(spec.provider) = "HTTPConnection"
                     /\ ~(Arguments(spec, profile) \subseteq HttpxArguments)
           unserved == spec.provider \notin Backends \/ (strategy = "managed" /\ spec.provider # "http")
<1>2. /\ unsigned => ~unmade /\ spec.provider \in Backends
      /\ unmade => ~unsigned
      /\ spec.provider \notin Backends => unmade
  BY NoHttpClient DEF ConnectionClass, Backends
<1>3. /\ auth.mode = "none" => signer # "managed"
      /\ auth.mode \notin {"iam", "none"} => (signer = "managed" <=> strategy = "managed")
      /\ auth.mode = "iam" => signer = S3Signer(auth, ambient)
  OBVIOUS
<1>4. auth.mode = "iam" /\ spec.provider \in Backends => spec.provider = "s3"
  BY DEF Backends
<1>5. unsigned => signer \in {"ValueError", "TransportConnectionError"}
  OBVIOUS
<1>6. auth.mode = "iam" /\ spec.provider \in Backends /\ ~unsigned
        => signer \notin {"ValueError", "TransportConnectionError"}
  BY <1>4
<1>7. CASE unsigned
  <2>1. facade = Raise(signer, FALSE)
    <3> HIDE DEF signer
    <3> QED BY <1>2, <1>7 DEF Connected, signer
  <2>2. facade.error = signer /\ facade.opened = FALSE
    <3> HIDE DEF signer
    <3> QED BY <2>1, Raised
  <2> HIDE DEF signer, unsigned, unmade
  <2> QED BY <1>2, <1>5, <1>7, <2>2
<1>8. CASE unmade
  <2>1. facade = Raise("TransportConnectionError", FALSE)
    <3> HIDE DEF signer
    <3> QED BY <1>2, <1>8 DEF Connected, signer
  <2>2. facade.error = "TransportConnectionError" /\ facade.opened = FALSE
    BY <2>1, Raised
  <2> QED BY <2>2
<1>9. CASE ~unsigned /\ ~unmade
  <2>1. facade = IF unserved THEN Raise("BackendNotImplementedError", TRUE)
                 ELSE [error |-> "", opened |-> TRUE, signer |-> signer]
    <3> HIDE DEF signer
    <3> QED BY <1>9 DEF Connected, signer
  <2>2. spec.provider \in Backends
    BY <1>2, <1>9
  <2>3. CASE unserved
    <3>1. strategy = "managed"
      BY <2>2, <2>3
    <3>2. facade.error = "BackendNotImplementedError"
      BY <2>1, <2>3, Raised
    <3> QED BY <2>2, <3>1, <3>2
  <2>4. CASE ~unserved
    <3>1. facade.error = "" /\ facade.signer = signer
      <4> HIDE DEF signer
      <4>1. facade = [error |-> "", opened |-> TRUE, signer |-> signer]
        <5> HIDE DEF unserved
        <5> QED BY <2>1, <2>4
      <4> QED BY <4>1, OpenWith
    <3> HIDE DEF signer, unsigned, unmade
    <3> QED BY <1>3, <1>6, <1>9, <2>2, <3>1
  <2> QED BY <2>3, <2>4
<1> QED BY <1>7, <1>8, <1>9

\* Pair holds of every such question.
LEMMA PairHolds ==
    ASSUME NEW q, q.profile \in Profile, q.auth \in Auth,
           q.managed \in BOOLEAN, q.store \in BOOLEAN, q.ambient \in BOOLEAN
    PROVE  Pair(q)
<1> DEFINE result == ResolveStorage(q.block)
           auth == [q.auth EXCEPT !.mode = result.mode]
           strategy == AuthStrategy(auth, q.managed, q.store)
           facade == OpenFacade(result.spec, q.profile, auth, q.managed, q.store, q.ambient)
           late == Connected(result.spec, q.profile, auth, q.ambient, strategy)
<1> SUFFICES ASSUME result.error = ""
    PROVE  /\ facade.error # "UnsupportedAuthProfileError"
           /\ facade.opened /\ facade.error # "" => q.managed /\ result.spec.provider \in Backends
           /\ result.spec.provider \notin Backends => facade.error \in {"TransportConnectionError", "ValueError"}
           /\ facade.error = "" /\ auth.mode = "iam" =>
                 /\ facade.signer = "ambient" => ~auth.keys /\ ~auth.profile /\ ~auth.role
                 /\ facade.signer = "keys" => ~auth.profile /\ ~auth.role
                 /\ facade.signer = "profile" => ~auth.keys /\ ~auth.role
                 /\ facade.signer = "role" => auth.role /\ ~(auth.keys /\ auth.profile)
           /\ facade.error = "" /\ result.spec.provider = "s3" =>
                 ("endpoint_url" \in S3Arguments(q.profile) <=>
                     q.profile.flavor \notin {"aws", "express"} \/ "ENDPOINT_URL" \in q.profile.given)
           /\ facade.error = "" => (facade.signer = "managed" <=> q.managed)
  BY DEF Pair
<1>1. /\ result.spec.provider \in Types
      /\ result.mode \in result.spec.supported
      /\ result.mode = "iam" => result.spec.provider \in {"s3", "gcs"}
  BY ResolvedMode
<1>2. /\ auth.mode = result.mode
      /\ auth.keys = q.auth.keys /\ auth.profile = q.auth.profile /\ auth.role = q.auth.role
      /\ auth.keys \in BOOLEAN /\ auth.profile \in BOOLEAN /\ auth.role \in BOOLEAN
  <2> HIDE DEF result
  <2> QED BY DEF Auth
<1>3. auth.mode = "iam" /\ ~(S3Signer(auth, q.ambient) \in {"ValueError", "TransportConnectionError"}) =>
         /\ S3Signer(auth, q.ambient) = "ambient" => ~auth.keys /\ ~auth.profile /\ ~auth.role
         /\ S3Signer(auth, q.ambient) = "keys" => ~auth.profile /\ ~auth.role
         /\ S3Signer(auth, q.ambient) = "profile" => ~auth.keys /\ ~auth.role
         /\ S3Signer(auth, q.ambient) = "role" => auth.role /\ ~(auth.keys /\ auth.profile)
         /\ S3Signer(auth, q.ambient) # "managed"
  <2> HIDE DEF auth, result
  <2> QED BY <1>2, SignerAsConfigured
<1>4. strategy = "managed" => q.managed
  BY DEF AuthStrategy
<1>5. strategy \in {"static", "managed", "ValueError"}
      /\ (q.managed => strategy # "static") /\ (strategy = "managed" => auth.mode = "oauth2")
  BY DEF AuthStrategy
<1>6. facade # Raise("ValueError", FALSE) => facade = late /\ strategy # "ValueError"
  <2> DEFINE spec == result.spec
  <2>1. auth.mode \in spec.supported
    BY <1>1, <1>2
  <2> HIDE DEF auth, result
  <2>2. facade = IF Family(spec.provider) = "BOTO" /\ EmitBoto(q.profile, auth) = "ValueError"
                 THEN Raise("ValueError", FALSE)
                 ELSE IF strategy = "ValueError" \/ (auth.mode = "oauth2" /\ strategy = "static" /\ ~auth.token)
                 THEN Raise("ValueError", FALSE) ELSE late
    BY <2>1 DEF OpenFacade
  <2> HIDE DEF facade, late, strategy, spec
  <2> QED BY <2>2
<1>7. result.spec.provider = "s3" /\ Endpoint(q.profile) = "ValueError" => facade = Raise("ValueError", FALSE)
  <2> HIDE DEF auth, result, strategy
  <2> QED BY <1>1, <1>2 DEF OpenFacade, strategy, Family, EmitBoto
<1>8. CASE facade = Raise("ValueError", FALSE)
  <2>1. facade.error = "ValueError" /\ facade.opened = FALSE
    <3> HIDE DEF facade
    <3> QED BY <1>8, Raised
  <2> HIDE DEF facade, result, auth
  <2> QED BY <2>1
<1>9. CASE facade # Raise("ValueError", FALSE)
  <2>1. facade = late /\ strategy # "ValueError"
    BY <1>6, <1>9
  <2> HIDE DEF facade, result, auth, strategy
  <2>2. /\ facade.error # "UnsupportedAuthProfileError"
        /\ facade.opened /\ facade.error # "" => strategy = "managed" /\ result.spec.provider \in Backends
        /\ result.spec.provider \notin Backends => facade.error = "TransportConnectionError"
        /\ facade.error = "" /\ auth.mode = "iam" =>
              /\ facade.signer = S3Signer(auth, q.ambient)
              /\ facade.signer \notin {"ValueError", "TransportConnectionError"}
        /\ facade.error = "" /\ auth.mode \notin {"iam", "none"} =>
              (facade.signer = "managed" <=> strategy = "managed")
        /\ facade.error = "" /\ auth.mode = "none" => facade.signer # "managed"
    <3> DEFINE spec == result.spec
    <3>1. spec.provider \in Types /\ (auth.mode = "iam" => spec.provider \in {"s3", "gcs"})
      BY <1>1, <1>2
    <3>2. facade = Connected(spec, q.profile, auth, q.ambient, strategy)
      BY <2>1
    <3> HIDE DEF spec, late
    <3>3. Delivers(facade, spec, auth, q.ambient, strategy)
      BY <1>2, <3>1, <3>2, ConnectedGives
    <3> QED BY <3>3 DEF spec, Delivers
  <2>3. result.spec.provider = "s3" =>
                 ("endpoint_url" \in S3Arguments(q.profile) <=>
                     q.profile.flavor \notin {"aws", "express"} \/ "ENDPOINT_URL" \in q.profile.given)
    BY <1>7, <1>9, EndpointPassed
  <2>4. strategy = "managed" <=> q.managed
    BY <1>4, <1>5, <2>1
  <2> QED BY <1>3, <1>5, <2>2, <2>3, <2>4
<1> QED BY <1>8, <1>9

-----------------------------------------------------------------------------
(* The theorems of the last three sections *)

\* A question about one facade, and one about a copy: the same profile object is
\* of one provider and for one host.
IsHostQuestion(q) == q.facade \in Facade /\ q.loc \in Location

IsCopyQuestion(q) ==
    /\ q.src \in Facade /\ q.dst \in Facade /\ q.plain \in BOOLEAN /\ q.loc \in Location
    /\ q.src.profile = q.dst.profile =>
          q.src.provider = q.dst.provider /\ q.src.profileHost = q.dst.profileHost

\* RemoteHost and CopyHost hold of every such question.
LEMMA HostsHold ==
    ASSUME NEW q
    PROVE  /\ IsHostQuestion(q) => RemoteHost(q)
           /\ IsCopyQuestion(q) => CopyHost(q)
<1>1. ASSUME IsHostQuestion(q) PROVE RemoteHost(q)
  BY <1>1, HostsHaveLeave DEF IsHostQuestion, RemoteHost
<1>2. ASSUME IsCopyQuestion(q) PROVE CopyHost(q)
  BY <1>2, CopiesHaveLeave DEF IsCopyQuestion, CopyHost
<1> QED BY <1>1, <1>2

\* Under any policy, a request or a copy goes only to a host for which the policy
\* or the profile gives leave, and no other location is refused (facade._check,
\* copy_between).
THEOREM RemoteGoesWithLeave ==
    /\ question.about = "host" => IsHostQuestion(question)
    /\ question.about = "copy" => IsCopyQuestion(question)
    /\ [][UNCHANGED question]_question
    => []RemoteNeedsLeave
<1> DEFINE Meant == /\ question.about = "host" => IsHostQuestion(question)
                    /\ question.about = "copy" => IsCopyQuestion(question)
<1>1. Meant /\ [UNCHANGED question]_question => Meant'
  OBVIOUS
<1>2. Meant => RemoteNeedsLeave
  BY HostsHold, Zenon DEF RemoteNeedsLeave, Answers
<1> QED BY <1>1, <1>2, PTL

\* Whatever a block holds and wherever a secret lies in it, no error of
\* resolve_storage shows a value that was looked up as a secret (loader.py).
THEOREM SecretsStayHidden == []SecretsStayOut
<1>1. SecretsStayOut
  BY SecretsShort, Zenon DEF SecretsStayOut, Answers
<1> QED BY <1>1, PTL

\* A profile, its credentials and the arguments of from_profile.
IsPairQuestion(q) ==
    /\ q.profile \in Profile /\ q.auth \in Auth
    /\ q.managed \in BOOLEAN /\ q.store \in BOOLEAN /\ q.ambient \in BOOLEAN

\* Whatever the block, the profile and the credentials, the pair that
\* resolve_storage returns is one the connection accepts, and an open backend
\* signs with what was configured, at the configured service (loader.py,
\* factory.py, s3.py).
THEOREM ResolvedPairsConnect ==
    (question.about = "pair" => IsPairQuestion(question)) /\ [][UNCHANGED question]_question
    => []ResolvedPairConnects
<1> DEFINE Meant == question.about = "pair" => IsPairQuestion(question)
<1>1. Meant /\ [UNCHANGED question]_question => Meant'
  OBVIOUS
<1>2. Meant => ResolvedPairConnects
  BY PairHolds, Zenon DEF IsPairQuestion, ResolvedPairConnects, Answers
<1> QED BY <1>1, <1>2, PTL

===============================================================================
