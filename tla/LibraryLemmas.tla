---------------------------- MODULE LibraryLemmas ----------------------------
(***************************************************************************)
(* What the proofs need of the community modules: that Min and Max are the *)
(* least and the greatest element, for the sets of numbers the models take *)
(* them of, where the fold of a sequence leads, and what a sequence of           *)
(* sequences is when it is flattened.                                      *)
(***************************************************************************)
EXTENDS Integers, Sequences, FiniteSetsExt, SequencesExt, SequenceTheorems, WellFoundedInduction,
        TLAPS

\* Min is the least element of a set of naturals.
LEMMA MinIsLeast ==
  ASSUME NEW S \in SUBSET Nat, S # {}
  PROVE  Min(S) \in S /\ \A n \in S : Min(S) <= n
<1> DEFINE R == OpToRel(<, Nat)
<1>1. IsWellFoundedOn(R, Nat)
  BY NatLessThanWellFounded, Zenon
<1>2. \A m, n \in Nat : m < n => <<m, n>> \in R
  <2>1. R = {ss \in Nat \X Nat : ss[1] < ss[2]}
    BY Zenon DEF OpToRel
  <2>. HIDE DEF R
  <2>. QED  BY <2>1
<1>. HIDE DEF R
<1>3. PICK x \in S : \A y \in S : ~(<<y, x>> \in R)
  BY <1>1, WFMin
<1>4. \A y \in S : ~(y < x)
  BY <1>2, <1>3
<1>5. \A y \in S : x <= y
  BY <1>4
<1>. QED  BY <1>5, Zenon DEF Min

\* Min is the least element of a set of integers that is bounded below.
LEMMA MinOfBounded ==
  ASSUME NEW S \in SUBSET Int, S # {}, NEW b \in Int, \A x \in S : b <= x
  PROVE  Min(S) \in S /\ \A x \in S : Min(S) <= x
<1> DEFINE T == {x - b : x \in S}
<1>1. T \in SUBSET Nat /\ T # {}
  <2>1. \A x \in S : x - b \in Nat
    OBVIOUS
  <2>. QED  BY <2>1
<1>2. Min(T) \in T /\ \A n \in T : Min(T) <= n
  BY <1>1, MinIsLeast, Zenon
<1>3. PICK m \in S : Min(T) = m - b
  BY <1>2
<1>4. \A x \in S : m <= x
  <2>1. \A x \in S : m - b <= x - b
    BY <1>2, <1>3
  <2>. QED  BY <2>1
<1>. QED  BY <1>4, Zenon DEF Min

\* Induction, for a set instead of a formula: a set that contains every number up to k
\* whose predecessors it contains has all the numbers up to k.
LEMMA UpTo ==
  ASSUME NEW k \in Nat, NEW S, \A n \in 0..k : (\A m \in 0..(n - 1) : m \in S) => n \in S
  PROVE  \A n \in 0..k : n \in S
<1> DEFINE T == {n \in 0..k : n \notin S}
<1>1. T \in SUBSET Nat
  OBVIOUS
<1>2. ASSUME T # {} PROVE FALSE
  <2>1. Min(T) \in T /\ \A n \in T : Min(T) <= n
    BY <1>1, <1>2, MinIsLeast, Zenon
  <2>2. PICK x \in T : \A n \in T : x <= n
    BY <2>1, Zenon
  <2>3. \A m \in 0..(x - 1) : m \in S
    BY <2>2
  <2>. QED  BY <2>2, <2>3
<1>. QED  BY <1>2

-----------------------------------------------------------------------------
(* Folds.  FoldLeft takes the indices of a sequence as a set and picks the    *)
(* greatest first; what it returns is where the functions of a sequence lead, *)
(* one after the other.                                                       *)

\* The functions fs, one after the other, lead from v to w.
Through(fs, V, v, w) ==
  \E f \in [0..Len(fs) -> V] :
    /\ f[0] = v /\ f[Len(fs)] = w
    /\ \A k \in 1..Len(fs) : f[k] = fs[k][f[k - 1]]

\* Max is the greatest element.
LEMMA MaxIsGreatest ==
  ASSUME NEW n \in Nat, NEW S \in SUBSET (1..n), S # {}
  PROVE  Max(S) \in S /\ \A x \in S : Max(S) >= x
<1> DEFINE T == {n - x : x \in S}
<1>1. T \in SUBSET Nat /\ T # {}
  <2>1. \A x \in S : n - x \in Nat
    OBVIOUS
  <2> QED BY <2>1
<1>2. Min(T) \in T /\ \A y \in T : Min(T) <= y
  BY <1>1, MinIsLeast, Zenon
<1>3. PICK m \in S : Min(T) = n - m
  BY <1>2
<1>4. ASSUME NEW x \in S PROVE m >= x
  <2>1. n - m <= n - x
    BY <1>2, <1>3
  <2> QED BY <2>1
<1> QED BY <1>4, Zenon DEF Max

\* The greatest of the first k numbers, and the others.
LEMMA MaxOfRange ==
  ASSUME NEW n \in Nat, NEW k \in 1..n
  PROVE  /\ Max(1..k) = k /\ (1..k) \ {k} = 1..(k - 1)
         /\ 1..k # {} /\ 1..k \in SUBSET (1..n)
<1>1. (1..k) \ {k} = 1..(k - 1) /\ 1..k # {} /\ 1..k \in SUBSET (1..n) /\ k \in 1..k
  OBVIOUS
<1>2. Max(1..k) \in 1..k /\ \A x \in 1..k : Max(1..k) >= x
  BY <1>1, MaxIsGreatest
<1>3. Max(1..k) = k
  BY <1>1, <1>2
<1> QED BY <1>1, <1>3

\* The recursion of MapThenFoldSet.
Iterates(g, fs, v, n) ==
  g = [S \in SUBSET (1..n) |-> IF S = {} THEN v ELSE fs[Max(S)][g[S \ {Max(S)}]]]

\* It has a solution for one index more.
LEMMA IterationExtends ==
  ASSUME NEW fs, NEW v, NEW V, NEW n \in Nat, fs[n + 1] \in [V -> V],
         NEW g \in [SUBSET (1..n) -> V], Iterates(g, fs, v, n)
  PROVE  \E h \in [SUBSET (1..(n + 1)) -> V] : Iterates(h, fs, v, n + 1)
<1> DEFINE x == n + 1
           h == [S \in SUBSET (1..x) |-> IF x \in S THEN fs[x][g[S \ {x}]] ELSE g[S]]
<1>1. x \in Nat /\ \A S \in SUBSET (1..x) : S \ {x} \in SUBSET (1..n)
  OBVIOUS
<1>2. \A S \in SUBSET (1..x) : h[S] = IF x \in S THEN fs[x][g[S \ {x}]] ELSE g[S]
  OBVIOUS
<1>3. h \in [SUBSET (1..x) -> V] /\ h = [S \in SUBSET (1..x) |-> h[S]]
  <2>1. ASSUME NEW S \in SUBSET (1..x) PROVE (IF x \in S THEN fs[x][g[S \ {x}]] ELSE g[S]) \in V
    <3>1. S \ {x} \in SUBSET (1..n) /\ (x \notin S => S \ {x} = S)
      BY <1>1
    <3> QED BY <3>1
  <2> QED BY <2>1
<1>4. g = [S \in SUBSET (1..n) |-> IF S = {} THEN v ELSE fs[Max(S)][g[S \ {Max(S)}]]]
  BY DEF Iterates
<1> HIDE DEF h
<1>5. ASSUME NEW S \in SUBSET (1..x)
      PROVE  h[S] = IF S = {} THEN v ELSE fs[Max(S)][h[S \ {Max(S)}]]
  <2>1. S \ {x} \in SUBSET (1..n)
    BY <1>1
  <2>2. CASE x \in S
    <3>1. Max(S) \in S /\ \A y \in S : Max(S) >= y
      BY <1>1, <2>2, MaxIsGreatest
    <3>2. Max(S) = x
      <4>1. Max(S) \in 1..x /\ Max(S) >= x
        BY <2>2, <3>1
      <4> QED BY <4>1
    <3>3. h[S \ {x}] = g[S \ {x}]
      <4>1. S \ {x} \in SUBSET (1..x) /\ x \notin S \ {x}
        OBVIOUS
      <4> QED BY <1>2, <4>1
    <3> QED BY <1>2, <2>2, <3>2, <3>3
  <2>3. CASE x \notin S
    <3>1. S \in SUBSET (1..n)
      BY <2>1, <2>3
    <3>2. h[S] = IF S = {} THEN v ELSE fs[Max(S)][g[S \ {Max(S)}]]
      BY <1>2, <1>4, <2>3, <3>1
    <3>3. h[S \ {Max(S)}] = g[S \ {Max(S)}]
      BY <1>2, <2>3
    <3> QED BY <3>2, <3>3
  <2> QED BY <2>2, <2>3
<1>6. Iterates(h, fs, v, x)
  BY <1>3, <1>5, Zenon DEF Iterates
<1> QED BY <1>3, <1>6

\* For every sequence of functions there is one.
LEMMA IterationExists ==
  ASSUME NEW V, NEW v \in V, NEW fs \in Seq([V -> V])
  PROVE  \E g \in [SUBSET (1..Len(fs)) -> V] : Iterates(g, fs, v, Len(fs))
<1>0. Len(fs) \in Nat
  OBVIOUS
<1> DEFINE S == {n \in 0..Len(fs) : \E g \in [SUBSET (1..n) -> V] : Iterates(g, fs, v, n)}
<1>1. ASSUME NEW n \in 0..Len(fs), \A m \in 0..(n - 1) : m \in S PROVE n \in S
  <2>1. CASE n = 0
    <3> DEFINE g == [T \in SUBSET (1..0) |-> v]
    <3>1. \A T \in SUBSET (1..0) : T = {}
      OBVIOUS
    <3>2. g \in [SUBSET (1..0) -> V]
      OBVIOUS
    <3>3. g = [T \in SUBSET (1..0) |-> IF T = {} THEN v ELSE fs[Max(T)][g[T \ {Max(T)}]]]
      BY <3>1
    <3>4. Iterates(g, fs, v, 0)
      BY <3>3, Zenon DEF Iterates
    <3> QED BY <2>1, <3>2, <3>4
  <2>2. CASE n # 0
    <3>1. n - 1 \in 0..(n - 1) /\ n - 1 \in Nat /\ (n - 1) + 1 = n /\ n \in 1..Len(fs)
      BY <2>2
    <3>2. PICK g \in [SUBSET (1..(n - 1)) -> V] : Iterates(g, fs, v, n - 1)
      BY <1>1, <3>1
    <3>3. fs[(n - 1) + 1] \in [V -> V]
      BY <3>1
    <3>4. \E h \in [SUBSET (1..((n - 1) + 1)) -> V] : Iterates(h, fs, v, (n - 1) + 1)
      BY <3>1, <3>2, <3>3, IterationExtends
    <3> QED BY <3>1, <3>4
  <2> QED BY <2>1, <2>2
<1> HIDE DEF S
<1>2. \A n \in 0..Len(fs) : n \in S
  BY <1>0, <1>1, UpTo
<1>3. Len(fs) \in S
  BY <1>0, <1>2
<1> QED BY <1>3 DEF S

\* The values at 1..0, 1..1, 1..2 and so on are where the functions lead.
LEMMA IterationLeads ==
  ASSUME NEW V, NEW v \in V, NEW fs \in Seq([V -> V]), NEW g, g[{}] = v,
         \A k \in 1..Len(fs) : g[1..(k - 1)] \in V => g[1..k] = fs[k][g[1..(k - 1)]]
  PROVE  Through(fs, V, v, g[1..Len(fs)])
<1>0. Len(fs) \in Nat
  OBVIOUS
<1> DEFINE S == {k \in 0..Len(fs) : g[1..k] \in V}
<1>1. ASSUME NEW k \in 0..Len(fs), \A m \in 0..(k - 1) : m \in S PROVE k \in S
  <2>1. CASE k = 0
    <3>1. 1..k = {}
      BY <2>1
    <3> QED BY <3>1
  <2>2. CASE k # 0
    <3>1. k \in 1..Len(fs) /\ k - 1 \in 0..(k - 1)
      BY <2>2
    <3>2. g[1..(k - 1)] \in V /\ fs[k] \in [V -> V]
      BY <1>1, <3>1
    <3> QED BY <3>1, <3>2
  <2> QED BY <2>1, <2>2
<1> HIDE DEF S
<1>2. \A k \in 0..Len(fs) : k \in S
  BY <1>0, <1>1, UpTo
<1>3. \A k \in 0..Len(fs) : g[1..k] \in V
  BY <1>2 DEF S
<1> DEFINE f == [k \in 0..Len(fs) |-> g[1..k]]
<1>4. f \in [0..Len(fs) -> V] /\ f[Len(fs)] = g[1..Len(fs)]
  BY <1>3
<1>5. f[0] = v
  <2>1. 1..0 = {} /\ 0 \in 0..Len(fs)
    OBVIOUS
  <2> QED BY <2>1
<1>6. ASSUME NEW k \in 1..Len(fs) PROVE f[k] = fs[k][f[k - 1]]
  <2>1. k \in 0..Len(fs) /\ k - 1 \in 0..Len(fs)
    OBVIOUS
  <2> QED BY <1>3, <2>1
<1> HIDE DEF f
<1> QED BY <1>4, <1>5, <1>6 DEF Through

\* The functions lead to one place only.
LEMMA ThroughOnce ==
  ASSUME NEW V, NEW fs \in Seq([V -> V]), NEW v, NEW w, NEW x,
         Through(fs, V, v, w), Through(fs, V, v, x)
  PROVE  w = x
<1>0. Len(fs) \in Nat
  OBVIOUS
<1>1. PICK f \in [0..Len(fs) -> V] :
        /\ f[0] = v /\ f[Len(fs)] = w
        /\ \A k \in 1..Len(fs) : f[k] = fs[k][f[k - 1]]
  BY DEF Through
<1>2. PICK g \in [0..Len(fs) -> V] :
        /\ g[0] = v /\ g[Len(fs)] = x
        /\ \A k \in 1..Len(fs) : g[k] = fs[k][g[k - 1]]
  BY DEF Through
<1> DEFINE S == {k \in 0..Len(fs) : f[k] = g[k]}
<1>3. ASSUME NEW k \in 0..Len(fs), \A m \in 0..(k - 1) : m \in S PROVE k \in S
  <2>1. CASE k = 0
    BY <1>1, <1>2, <2>1
  <2>2. CASE k # 0
    <3>1. k \in 1..Len(fs) /\ k - 1 \in 0..(k - 1)
      BY <2>2
    <3> QED BY <1>1, <1>2, <1>3, <3>1
  <2> QED BY <2>1, <2>2
<1> HIDE DEF S
<1>4. \A k \in 0..Len(fs) : k \in S
  BY <1>0, <1>3, UpTo
<1> QED BY <1>1, <1>2, <1>4 DEF S

\* One function more.
LEMMA ThroughOneMore ==
  ASSUME NEW V, NEW fs \in Seq([V -> V]), NEW v, NEW w, Through(fs, V, v, w),
         NEW h \in [V -> V]
  PROVE  Through(Append(fs, h), V, v, h[w])
<1>1. PICK f \in [0..Len(fs) -> V] :
        /\ f[0] = v /\ f[Len(fs)] = w
        /\ \A k \in 1..Len(fs) : f[k] = fs[k][f[k - 1]]
  BY DEF Through
<1> DEFINE n == Len(fs) + 1
           more == Append(fs, h)
           g == [k \in 0..n |-> IF k = n THEN h[w] ELSE f[k]]
<1>2. /\ Len(more) = n /\ Len(fs) \in Nat /\ n \in Nat
      /\ more[n] = h /\ \A k \in 1..Len(fs) : more[k] = fs[k]
  OBVIOUS
<1>3. w \in V
  BY <1>1
<1>4. g \in [0..n -> V] /\ g[n] = h[w] /\ \A k \in 0..Len(fs) : g[k] = f[k]
  BY <1>2, <1>3
<1> HIDE DEF g, more
<1>5. g[0] = v
  BY <1>1, <1>2, <1>4
<1>6. ASSUME NEW k \in 1..n PROVE g[k] = more[k][g[k - 1]]
  <2>1. CASE k = n
    BY <1>1, <1>2, <1>4, <2>1
  <2>2. CASE k # n
    <3>1. k \in 1..Len(fs) /\ k \in 0..Len(fs) /\ k - 1 \in 0..Len(fs)
      BY <1>2, <2>2
    <3> QED BY <1>1, <1>2, <1>4, <3>1
  <2> QED BY <2>1, <2>2
<1>7. Through(more, V, v, h[w])
  BY <1>2, <1>4, <1>5, <1>6 DEF Through
<1> QED BY <1>7 DEF more

\* From the first function on.
LEMMA ThroughTheRest ==
  ASSUME NEW V, NEW fs \in Seq([V -> V]), fs # <<>>, NEW v, NEW w, Through(fs, V, v, w)
  PROVE  Through(Tail(fs), V, fs[1][v], w)
<1>1. PICK f \in [0..Len(fs) -> V] :
        /\ f[0] = v /\ f[Len(fs)] = w
        /\ \A k \in 1..Len(fs) : f[k] = fs[k][f[k - 1]]
  BY DEF Through
<1> DEFINE n == Len(fs) - 1
           rest == Tail(fs)
           g == [k \in 0..n |-> f[k + 1]]
<1>2. /\ Len(rest) = n /\ n \in Nat /\ Len(fs) = n + 1
      /\ \A k \in 1..n : rest[k] = fs[k + 1]
  OBVIOUS
<1>3. g \in [0..n -> V] /\ \A k \in 0..n : g[k] = f[k + 1]
  BY <1>2
<1> HIDE DEF g, rest
<1>4. g[0] = fs[1][v] /\ g[n] = w
  BY <1>1, <1>2, <1>3
<1>5. ASSUME NEW k \in 1..n PROVE g[k] = rest[k][g[k - 1]]
  <2>1. k \in 0..n /\ k - 1 \in 0..n /\ k + 1 \in 1..Len(fs) /\ (k - 1) + 1 = k /\ (k + 1) - 1 = k
    BY <1>2
  <2>2. f[k + 1] = fs[k + 1][f[k]]
    BY <1>1, <2>1
  <2> QED BY <1>2, <1>3, <2>1, <2>2
<1>6. Through(rest, V, fs[1][v], w)
  BY <1>2, <1>3, <1>4, <1>5 DEF Through
<1> QED BY <1>6 DEF rest

\* After a constant function it does not matter where one has come from.
LEMMA ThroughConstant ==
  ASSUME NEW V, NEW fs \in Seq([V -> V]), NEW v, NEW w, NEW u, NEW x,
         Through(fs, V, v, u), Through(fs, V, w, x),
         NEW l \in 1..Len(fs), \A y, z \in V : fs[l][y] = fs[l][z]
  PROVE  u = x
<1>0. Len(fs) \in Nat
  OBVIOUS
<1>1. PICK f \in [0..Len(fs) -> V] :
        /\ f[0] = v /\ f[Len(fs)] = u
        /\ \A k \in 1..Len(fs) : f[k] = fs[k][f[k - 1]]
  BY DEF Through
<1>2. PICK g \in [0..Len(fs) -> V] :
        /\ g[0] = w /\ g[Len(fs)] = x
        /\ \A k \in 1..Len(fs) : g[k] = fs[k][g[k - 1]]
  BY DEF Through
<1> DEFINE S == {k \in 0..Len(fs) : k >= l => f[k] = g[k]}
<1>3. ASSUME NEW k \in 0..Len(fs), \A m \in 0..(k - 1) : m \in S PROVE k \in S
  <2>1. CASE k < l
    BY <2>1
  <2>2. CASE k = l
    <3>1. k \in 1..Len(fs) /\ k - 1 \in 0..Len(fs)
      BY <2>2
    <3>2. f[k - 1] \in V /\ g[k - 1] \in V
      BY <3>1
    <3>3. f[k] = fs[k][f[k - 1]] /\ g[k] = fs[k][g[k - 1]]
      BY <1>1, <1>2, <3>1
    <3> QED BY <2>2, <3>2, <3>3
  <2>3. CASE k > l
    <3>1. k \in 1..Len(fs) /\ k - 1 \in 0..(k - 1) /\ k - 1 >= l
      BY <2>3
    <3>2. f[k - 1] = g[k - 1]
      BY <1>3, <3>1
    <3>3. f[k] = fs[k][f[k - 1]] /\ g[k] = fs[k][g[k - 1]]
      BY <1>1, <1>2, <3>1
    <3> QED BY <3>2, <3>3
  <2> QED BY <2>1, <2>2, <2>3
<1> HIDE DEF S
<1>4. \A k \in 0..Len(fs) : k \in S
  BY <1>0, <1>3, UpTo
<1> QED BY <1>1, <1>2, <1>4 DEF S

\* Functions that change nothing lead nowhere.
LEMMA ThroughIdentity ==
  ASSUME NEW V, NEW fs \in Seq([V -> V]), NEW v, NEW w, Through(fs, V, v, w),
         \A k \in 1..Len(fs) : \A y \in V : fs[k][y] = y
  PROVE  w = v
<1>0. Len(fs) \in Nat
  OBVIOUS
<1>1. PICK f \in [0..Len(fs) -> V] :
        /\ f[0] = v /\ f[Len(fs)] = w
        /\ \A k \in 1..Len(fs) : f[k] = fs[k][f[k - 1]]
  BY DEF Through
<1> DEFINE S == {k \in 0..Len(fs) : f[k] = v}
<1>2. ASSUME NEW k \in 0..Len(fs), \A m \in 0..(k - 1) : m \in S PROVE k \in S
  <2>1. CASE k = 0
    BY <1>1, <2>1
  <2>2. CASE k # 0
    <3>1. k \in 1..Len(fs) /\ k - 1 \in 0..(k - 1) /\ k - 1 \in 0..Len(fs)
      BY <2>2
    <3>2. f[k - 1] \in V /\ f[k - 1] = v
      BY <1>2, <3>1
    <3> QED BY <1>1, <3>1, <3>2
  <2> QED BY <2>1, <2>2
<1> HIDE DEF S
<1>3. \A k \in 0..Len(fs) : k \in S
  BY <1>0, <1>2, UpTo
<1> QED BY <1>1, <1>3 DEF S

\* One row of functions after another.
LEMMA ThroughJoined ==
  ASSUME NEW V, NEW fs \in Seq([V -> V]), NEW gs \in Seq([V -> V]), NEW v, NEW u, NEW w,
         Through(fs, V, v, u), Through(gs, V, u, w)
  PROVE  Through(fs \o gs, V, v, w)
<1>1. PICK f \in [0..Len(fs) -> V] :
        /\ f[0] = v /\ f[Len(fs)] = u
        /\ \A k \in 1..Len(fs) : f[k] = fs[k][f[k - 1]]
  BY DEF Through
<1>2. PICK g \in [0..Len(gs) -> V] :
        /\ g[0] = u /\ g[Len(gs)] = w
        /\ \A k \in 1..Len(gs) : g[k] = gs[k][g[k - 1]]
  BY DEF Through
<1> DEFINE m == Len(fs)
           n == Len(fs) + Len(gs)
           both == fs \o gs
           h == [k \in 0..n |-> IF k <= m THEN f[k] ELSE g[k - m]]
<1>3. m \in Nat /\ n \in Nat /\ Len(gs) \in Nat /\ n = m + Len(gs) /\ Len(fs) = m
  OBVIOUS
<1>4. /\ both \in Seq([V -> V]) /\ Len(both) = n
      /\ \A k \in 1..n : both[k] = IF k <= m THEN fs[k] ELSE gs[k - m]
  OBVIOUS
<1>5. /\ h \in [0..n -> V]
      /\ \A k \in 0..m : h[k] = f[k]
      /\ \A k \in 0..Len(gs) : h[m + k] = g[k]
  <2>1. ASSUME NEW k \in 0..n PROVE (IF k <= m THEN f[k] ELSE g[k - m]) \in V
    <3>1. k <= m => k \in 0..m
      BY <1>3
    <3>2. ~(k <= m) => k - m \in 0..Len(gs)
      BY <1>3
    <3> QED BY <3>1, <3>2
  <2>2. ASSUME NEW k \in 0..m PROVE h[k] = f[k]
    BY <1>3
  <2>3. ASSUME NEW k \in 0..Len(gs) PROVE h[m + k] = g[k]
    <3>1. m + k \in 0..n /\ (m + k) - m = k /\ (m + k <= m => k = 0)
      BY <1>3
    <3> HIDE DEF m, n
    <3>2. h[m + k] = IF m + k <= m THEN f[m + k] ELSE g[k]
      BY <3>1
    <3>3. k = 0 => f[m + k] = g[k]
      BY <1>1, <1>2, <1>3
    <3> QED BY <3>1, <3>2, <3>3
  <2> QED BY <2>1, <2>2, <2>3
<1> HIDE DEF h, both, m, n
<1>6. h[0] = v /\ h[n] = w
  <2>1. 0 \in 0..m /\ Len(gs) \in 0..Len(gs)
    BY <1>3
  <2> QED BY <1>1, <1>2, <1>3, <1>5, <2>1
<1>7. ASSUME NEW k \in 1..n PROVE h[k] = both[k][h[k - 1]]
  <2>1. CASE k <= m
    <3>1. k \in 0..m /\ k - 1 \in 0..m /\ k \in 1..Len(fs)
      BY <1>3, <2>1
    <3> QED BY <1>1, <1>4, <1>5, <2>1, <3>1
  <2>2. CASE ~(k <= m)
    <3> DEFINE j == k - m
    <3>1. j \in 1..Len(gs) /\ j \in 0..Len(gs) /\ j - 1 \in 0..Len(gs) /\ k = m + j
          /\ k - 1 = m + (j - 1)
      BY <1>3, <2>2
    <3>2. both[k] = gs[j]
      BY <1>4, <2>2
    <3> HIDE DEF j
    <3>3. h[k] = g[j] /\ h[k - 1] = g[j - 1]
      BY <1>5, <3>1
    <3> QED BY <1>2, <3>1, <3>2, <3>3
  <2> QED BY <2>1, <2>2
<1>8. Through(both, V, v, w)
  BY <1>4, <1>5, <1>6, <1>7 DEF Through
<1> QED BY <1>8 DEF both

-----------------------------------------------------------------------------
(* FlattenSeq is a recursive function, which is shown to exist before it is used. *)

\* The function that flattens the first n of seqs.
Flattens(g, seqs, n) ==
  g = [i \in 1..n |-> IF i = 1 THEN seqs[i] ELSE g[i - 1] \o seqs[i]]

\* There is one for every n.
LEMMA FlatteningExists ==
  ASSUME NEW seqs, NEW n \in Nat
  PROVE  \E g : Flattens(g, seqs, n)
<1> DEFINE S == {k \in 0..n : \E g : Flattens(g, seqs, k)}
<1>1. ASSUME NEW k \in 0..n, \A m \in 0..(k - 1) : m \in S PROVE k \in S
  <2>1. CASE k = 0
    <3> DEFINE g == [i \in 1..0 |-> 0]
    <3>1. \A i \in 1..0 : FALSE
      OBVIOUS
    <3>2. g = [i \in 1..0 |-> IF i = 1 THEN seqs[i] ELSE g[i - 1] \o seqs[i]]
      BY <3>1
    <3>3. Flattens(g, seqs, 0)
      BY <3>2, Zenon DEF Flattens
    <3> QED BY <2>1, <3>3
  <2>2. CASE k # 0
    <3>1. k - 1 \in 0..(k - 1) /\ k \in Nat /\ k >= 1
      BY <2>2
    <3>2. PICK f : Flattens(f, seqs, k - 1)
      BY <1>1, <3>1
    <3>3. f = [i \in 1..(k - 1) |-> IF i = 1 THEN seqs[i] ELSE f[i - 1] \o seqs[i]]
      BY <3>2 DEF Flattens
    <3> DEFINE g == [i \in 1..k |-> IF i = k THEN (IF k = 1 THEN seqs[k] ELSE f[k - 1] \o seqs[k])
                                    ELSE f[i]]
    <3>4. \A i \in 1..k : g[i] = IF i = k THEN (IF k = 1 THEN seqs[k] ELSE f[k - 1] \o seqs[k])
                                 ELSE f[i]
      OBVIOUS
    <3>5. g = [i \in 1..k |-> g[i]]
      OBVIOUS
    <3> HIDE DEF g
    <3>6. ASSUME NEW i \in 1..k PROVE g[i] = IF i = 1 THEN seqs[i] ELSE g[i - 1] \o seqs[i]
      <4>1. i # 1 => i - 1 \in 1..k /\ i - 1 # k
        BY <3>1
      <4>2. i # 1 => g[i - 1] = f[i - 1]
        BY <3>4, <4>1
      <4>3. CASE i = k
        BY <3>4, <4>2, <4>3
      <4>4. CASE i # k
        <5>1. i \in 1..(k - 1)
          BY <3>1, <4>4
        <5>2. f[i] = IF i = 1 THEN seqs[i] ELSE f[i - 1] \o seqs[i]
          BY <3>3, <5>1
        <5> QED BY <3>4, <4>2, <4>4, <5>2
      <4> QED BY <4>3, <4>4
    <3>7. g = [i \in 1..k |-> IF i = 1 THEN seqs[i] ELSE g[i - 1] \o seqs[i]]
      BY <3>5, <3>6, Zenon
    <3>8. Flattens(g, seqs, k)
      BY <3>7, Zenon DEF Flattens
    <3> QED BY <3>8
  <2> QED BY <2>1, <2>2
<1> HIDE DEF S
<1>2. \A k \in 0..n : k \in S
  BY <1>1, UpTo
<1>3. n \in S
  BY <1>2
<1> QED BY <1>3 DEF S

\* The first n are the same.
SameStart(seqs, more, n) == \A i \in 1..n : more[i] = seqs[i]

\* What it does to the first k does not depend on how many there are.
LEMMA FlatteningIsOne ==
  ASSUME NEW seqs, NEW more, NEW n \in Nat, NEW m \in Nat, n <= m,
         SameStart(seqs, more, n),
         NEW g, Flattens(g, seqs, n), NEW h, Flattens(h, more, m)
  PROVE  \A k \in 1..n : g[k] = h[k]
<1>1. \A i \in 1..n : g[i] = IF i = 1 THEN seqs[i] ELSE g[i - 1] \o seqs[i]
  BY DEF Flattens
<1>2. \A i \in 1..m : h[i] = IF i = 1 THEN more[i] ELSE h[i - 1] \o more[i]
  BY DEF Flattens
<1> DEFINE S == {k \in 0..n : k # 0 => g[k] = h[k]}
<1>3. ASSUME NEW k \in 0..n, \A j \in 0..(k - 1) : j \in S PROVE k \in S
  <2>1. CASE k = 0
    BY <2>1
  <2>2. CASE k # 0
    <3>1. k \in 1..n /\ k \in 1..m /\ k - 1 \in 0..(k - 1)
      BY <2>2
    <3>2. k # 1 => g[k - 1] = h[k - 1]
      <4>1. k - 1 \in S
        BY <1>3, <3>1
      <4>2. k - 1 # 0 => g[k - 1] = h[k - 1]
        BY <4>1
      <4> QED BY <3>1, <4>2
    <3>3. /\ g[k] = IF k = 1 THEN seqs[k] ELSE g[k - 1] \o seqs[k]
          /\ h[k] = IF k = 1 THEN more[k] ELSE h[k - 1] \o more[k]
          /\ more[k] = seqs[k]
      BY <1>1, <1>2, <3>1 DEF SameStart
    <3>4. g[k] = h[k]
      BY <3>2, <3>3, Zenon
    <3> QED BY <3>4
  <2> QED BY <2>1, <2>2
<1> HIDE DEF S
<1>4. \A k \in 0..n : k \in S
  BY <1>3, UpTo
<1>5. ASSUME NEW k \in 1..n PROVE g[k] = h[k]
  <2>1. k \in S /\ k # 0
    BY <1>4
  <2> QED BY <2>1 DEF S
<1> QED BY <1>5

\* What FlattenSeq is.
LEMMA FlattenIsFlattening ==
  ASSUME NEW seqs, Len(seqs) \in Nat, Len(seqs) # 0
  PROVE  \E g : Flattens(g, seqs, Len(seqs)) /\ FlattenSeq(seqs) = g[Len(seqs)]
<1> DEFINE P(f) == f = [i \in 1..Len(seqs) |-> IF i = 1 THEN seqs[i] ELSE f[i - 1] \o seqs[i]]
           g == CHOOSE f : P(f)
<1>1. PICK h : P(h)
  BY FlatteningExists, Zenon DEF Flattens
<1>2. FlattenSeq(seqs) = g[Len(seqs)]
  BY Zenon DEF FlattenSeq
<1>3. P(g)
  <2> HIDE DEF P
  <2> QED BY <1>1, Zenon
<1>4. Flattens(g, seqs, Len(seqs))
  BY <1>3, Zenon DEF Flattens
<1> HIDE DEF g
<1> QED BY <1>2, <1>4

\* One sequence more.
LEMMA FlattenMore ==
  ASSUME NEW T, NEW seqs \in Seq(Seq(T)), NEW x \in Seq(T)
  PROVE  FlattenSeq(Append(seqs, x)) = FlattenSeq(seqs) \o x
<1> DEFINE n == Len(seqs)
           more == Append(seqs, x)
<1>1. /\ n \in Nat /\ Len(more) = n + 1 /\ n + 1 \in Nat /\ n + 1 # 0
      /\ more[n + 1] = x /\ \A i \in 1..n : more[i] = seqs[i]
  OBVIOUS
<1> HIDE DEF more
<1>2. PICK h : Flattens(h, more, n + 1) /\ FlattenSeq(more) = h[n + 1]
  BY <1>1, FlattenIsFlattening, Zenon
<1>3. h[n + 1] = IF n + 1 = 1 THEN x ELSE h[n] \o x
  <2>1. \A i \in 1..(n + 1) : h[i] = IF i = 1 THEN more[i] ELSE h[i - 1] \o more[i]
    BY <1>2 DEF Flattens
  <2>2. n + 1 \in 1..(n + 1) /\ (n + 1) - 1 = n
    BY <1>1
  <2> QED BY <1>1, <2>1, <2>2
<1>4. CASE n = 0
  <2>1. seqs = <<>>
    BY <1>4
  <2>2. FlattenSeq(seqs) = <<>>
    BY <2>1, <1>4, Zenon DEF FlattenSeq
  <2>3. <<>> \o x = x
    OBVIOUS
  <2> QED BY <1>2, <1>3, <1>4, <2>2, <2>3 DEF more
<1>5. CASE n # 0
  <2>1. PICK g : Flattens(g, seqs, n) /\ FlattenSeq(seqs) = g[n]
    BY <1>1, <1>5, FlattenIsFlattening, Zenon
  <2>2. n <= n + 1 /\ n \in 1..n /\ n + 1 # 1
    BY <1>1, <1>5
  <2>3. \A k \in 1..n : g[k] = h[k]
    <3>1. /\ n \in Nat /\ n + 1 \in Nat /\ n <= n + 1 /\ SameStart(seqs, more, n)
          /\ Flattens(g, seqs, n) /\ Flattens(h, more, n + 1)
      BY <1>1, <1>2, <2>1, <2>2 DEF SameStart
    <3> HIDE DEF n
    <3> QED BY <3>1, FlatteningIsOne
  <2>4. h[n + 1] = h[n] \o x
    BY <1>3, <2>2
  <2> QED BY <1>2, <2>1, <2>2, <2>3, <2>4 DEF more
<1> QED BY <1>4, <1>5

\* x again and again.
Repeated(x, n) == FlattenSeq([k \in 1..n |-> x])

\* No times, and once more.
LEMMA RepeatedMore ==
  ASSUME NEW T, NEW x \in Seq(T), NEW n \in Nat
  PROVE  /\ Repeated(x, 0) = <<>>
         /\ Repeated(x, n + 1) = Repeated(x, n) \o x
<1>1. Repeated(x, 0) = <<>>
  <2> DEFINE none == [k \in 1..0 |-> x]
  <2>1. none = <<>> /\ Len(none) = 0
    OBVIOUS
  <2> HIDE DEF none
  <2>2. FlattenSeq(none) = <<>>
    BY <2>1, Zenon DEF FlattenSeq
  <2> QED BY <2>2 DEF Repeated, none
<1>2. Repeated(x, n + 1) = Repeated(x, n) \o x
  <2> DEFINE some == [k \in 1..n |-> x]
             more == [k \in 1..(n + 1) |-> x]
  <2>1. some \in Seq(Seq(T)) /\ Len(some) = n /\ \A k \in 1..n : some[k] = x
    OBVIOUS
  <2>2. more \in Seq(Seq(T)) /\ Len(more) = n + 1 /\ \A k \in 1..(n + 1) : more[k] = x
    OBVIOUS
  <2>3. FlattenSeq(some) = Repeated(x, n) /\ FlattenSeq(more) = Repeated(x, n + 1)
    BY DEF Repeated
  <2> HIDE DEF some, more
  <2>4. more = Append(some, x)
    <3> DEFINE s == Append(some, x)
    <3>1. s \in Seq(Seq(T)) /\ Len(s) = n + 1 /\ \A k \in 1..(n + 1) : s[k] = x
      BY <2>1
    <3> HIDE DEF s
    <3>2. more = s
      BY <2>2, <3>1, SeqEqual
    <3> QED BY <3>2 DEF s
  <2>5. FlattenSeq(Append(some, x)) = FlattenSeq(some) \o x
    BY <2>1, FlattenMore
  <2> QED BY <2>3, <2>4, <2>5
<1> QED BY <1>1, <1>2

\* Concatenation is associative.
LEMMA Regrouped ==
  ASSUME NEW T, NEW a \in Seq(T), NEW b \in Seq(T), NEW c \in Seq(T)
  PROVE  (a \o b) \o c = a \o (b \o c) /\ a \o b \in Seq(T)
<1>1. (a \o b) \o c = a \o (b \o c)
  BY ConcatAssociative
<1> QED BY <1>1

\* It is a sequence of the same elements, and one can as well begin with one more.
LEMMA RepeatedFirst ==
  ASSUME NEW T, NEW x \in Seq(T), NEW n \in Nat
  PROVE  /\ Repeated(x, n) \in Seq(T)
         /\ Repeated(x, n + 1) = x \o Repeated(x, n)
<1> DEFINE S == {k \in 0..n : Repeated(x, k) \in Seq(T) /\ Repeated(x, k + 1) = x \o Repeated(x, k)}
<1>0. \A k \in Nat : Repeated(x, k + 1) = Repeated(x, k) \o x
  BY RepeatedMore
<1>1. Repeated(x, 0) = <<>>
  BY RepeatedMore
<1>2. ASSUME NEW k \in 0..n, \A m \in 0..(k - 1) : m \in S PROVE k \in S
  <2>1. CASE k = 0
    <3>1. <<>> \in Seq(T) /\ <<>> \o x = x /\ x \o <<>> = x
      OBVIOUS
    <3>2. Repeated(x, 0 + 1) = <<>> \o x
      BY <1>0, <1>1
    <3>3. Repeated(x, k) = <<>> /\ Repeated(x, k + 1) = x
      BY <1>1, <2>1, <3>1, <3>2
    <3> QED BY <3>1, <3>3
  <2>2. CASE k # 0
    <3> DEFINE j == k - 1
    <3>1. j \in 0..(k - 1) /\ j \in Nat /\ j + 1 = k /\ k \in Nat
      BY <2>2
    <3> HIDE DEF j
    <3>2. Repeated(x, j) \in Seq(T) /\ Repeated(x, j + 1) = x \o Repeated(x, j)
      BY <1>2, <3>1
    <3>3. Repeated(x, j + 1) = Repeated(x, j) \o x /\ Repeated(x, k + 1) = Repeated(x, k) \o x
      BY <1>0, <3>1
    <3> DEFINE r == Repeated(x, j)
    <3>4. r \in Seq(T) /\ Repeated(x, k) = x \o r /\ Repeated(x, k) = r \o x
      BY <3>1, <3>2, <3>3
    <3> HIDE DEF r
    <3>5. x \o r \in Seq(T) /\ (x \o r) \o x = x \o (r \o x)
      <4>1. r \in Seq(T)
        BY <3>4
      <4> QED BY <4>1, Regrouped
    <3>6. Repeated(x, k + 1) = x \o Repeated(x, k)
      <4>1. Repeated(x, k + 1) = (x \o r) \o x
        BY <3>3, <3>4, Zenon
      <4>2. x \o Repeated(x, k) = x \o (r \o x)
        BY <3>4, Zenon
      <4> QED BY <3>5, <4>1, <4>2, Zenon
    <3> QED BY <3>4, <3>5, <3>6
  <2> QED BY <2>1, <2>2
<1> HIDE DEF S
<1>3. \A k \in 0..n : k \in S
  BY <1>2, UpTo
<1>4. n \in S
  BY <1>3
<1> QED BY <1>4 DEF S

\* One element, and the first before the rest.
LEMMA OneElement ==
  ASSUME NEW T, NEW u \in Seq(T), Len(u) = 1
  PROVE  u = <<u[1]>>
<1> DEFINE v == <<u[1]>>
<1>1. v \in Seq(T) /\ Len(v) = 1 /\ v[1] = u[1]
  OBVIOUS
<1> HIDE DEF v
<1>2. \A k \in 1..Len(u) : k = 1
  OBVIOUS
<1>3. \A k \in 1..Len(u) : u[k] = v[k]
  BY <1>1, <1>2
<1>4. u = v
  BY <1>1, <1>3, SeqEqual
<1> QED BY <1>4 DEF v

LEMMA FirstAndRest ==
  ASSUME NEW T, NEW u \in Seq(T), u # <<>>
  PROVE  u = <<u[1]>> \o Tail(u)
<1> DEFINE v == Tail(u)
           n == Len(u)
           x == <<u[1]>> \o v
<1>1. n \in Nat \ {0} /\ u[1] \in T
  OBVIOUS
<1>2. v \in Seq(T) /\ Len(v) = n - 1 /\ \A k \in 1..(n - 1) : v[k] = u[k + 1]
  OBVIOUS
<1> HIDE DEF v
<1>3. x \in Seq(T) /\ Len(x) = 1 + Len(v) /\ x[1] = u[1] /\ \A k \in 1..Len(v) : x[k + 1] = v[k]
  BY <1>1, <1>2
<1> HIDE DEF x
<1>4. ASSUME NEW k \in 1..n PROVE u[k] = x[k]
  <2>1. CASE k = 1
    BY <1>3, <2>1
  <2>2. CASE k # 1
    <3>1. k - 1 \in 1..(n - 1) /\ (k - 1) + 1 = k
      BY <1>1, <2>2
    <3> QED BY <1>2, <1>3, <3>1
  <2> QED BY <2>1, <2>2
<1>5. Len(x) = n
  BY <1>1, <1>2, <1>3
<1>6. u = x
  BY <1>3, <1>4, <1>5, SeqEqual
<1> QED BY <1>6 DEF x, v
=============================================================================
