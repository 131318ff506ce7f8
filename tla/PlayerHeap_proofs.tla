-------------------------- MODULE PlayerHeap_proofs --------------------------
(***************************************************************************)
(* That the nodes and pointers of model/player.c and game.c implement the  *)
(* player list of module PlayerList: from every heap that the program can  *)
(* leave, each operation does to the view what PlayerList says.            *)
(***************************************************************************)
EXTENDS PlayerHeap, LibraryLemmas, SequenceTheorems

-----------------------------------------------------------------------------
(* The chain of nodes from a pointer: that the recursion is well-defined, as a *)
(* node only points to older ones, and which sequence it returns.              *)

Links(next) == next \in Seq(Nat) /\ \A n \in 1..Len(next) : next[n] \in 0..(n - 1)

\* f does for the pointers up to k what chain in Chain does for all.
Follows(f, next, k) ==
  f = [m \in 0..k |-> IF m = NULL THEN <<>> ELSE <<m>> \o f[next[m]]]

\* The recursion, solved up to a node, can be solved for the next one.
LEMMA ChainExtends ==
  ASSUME NEW next, Links(next), NEW x \in 1..Len(next), NEW f, Follows(f, next, x - 1)
  PROVE  \E g : Follows(g, next, x)
<1> DEFINE g == [m \in 0..x |-> IF m < x THEN f[m] ELSE <<x>> \o f[next[x]]]
<1>1. next \in Seq(Nat) /\ Len(next) \in Nat /\ x \in Nat
  BY DEF Links
<1>2. \A m \in 0..(x - 1) : f[m] = IF m = NULL THEN <<>> ELSE <<m>> \o f[next[m]]
  BY DEF Follows
<1>3. \A m \in 0..x : g[m] = IF m < x THEN f[m] ELSE <<x>> \o f[next[x]]
  OBVIOUS
<1>4. DOMAIN g = 0..x /\ g = [m \in 0..x |-> g[m]]
  OBVIOUS
<1> HIDE DEF g
<1>5. ASSUME NEW m \in 0..x
      PROVE  g[m] = IF m = NULL THEN <<>> ELSE <<m>> \o g[next[m]]
  <2>1. CASE m = 0
    <3>1. m < x /\ m \in 0..(x - 1)
      BY <1>1, <2>1
    <3> QED BY <1>2, <1>3, <2>1, <3>1 DEF NULL
  <2>2. CASE m # 0
    <3>1. m \in 1..Len(next) /\ next[m] \in 0..(m - 1)
      BY <1>1, <2>2 DEF Links
    <3>2. g[next[m]] = f[next[m]]
      BY <1>1, <1>3, <3>1
    <3>3. CASE m < x
      <4>1. m \in 0..(x - 1)
        BY <1>1, <3>3
      <4> QED BY <1>2, <1>3, <2>2, <3>2, <3>3, <4>1 DEF NULL
    <3>4. CASE m = x
      <4>1. ~(m < x) /\ next[m] = next[x]
        BY <1>1, <3>4
      <4>2. g[m] = <<x>> \o f[next[m]]
        BY <1>3, <4>1
      <4> QED BY <2>2, <3>2, <3>4, <4>2 DEF NULL
    <3> QED BY <1>1, <3>3, <3>4
  <2> QED BY <2>1, <2>2
<1>6. Follows(g, next, x)
  BY <1>4, <1>5 DEF Follows
<1> QED BY <1>6

\* The recursion has a solution.
LEMMA ChainExists ==
  ASSUME NEW next, Links(next), NEW k \in 0..Len(next)
  PROVE  \E f : Follows(f, next, k)
<1> DEFINE S == {n \in 0..Len(next) : \E f : Follows(f, next, n)}
<1>1. Len(next) \in Nat
  BY DEF Links
<1>2. ASSUME NEW n \in 0..Len(next), \A m \in 0..(n - 1) : m \in S PROVE n \in S
  <2>1. CASE n = 0
    <3>1. Follows([m \in 0..0 |-> <<>>], next, 0)
      BY DEF Follows, NULL
    <3> QED BY <2>1, <3>1
  <2>2. CASE n # 0
    <3>1. n \in 1..Len(next) /\ n - 1 \in 0..(n - 1)
      BY <1>1, <2>2
    <3>2. PICK e : Follows(e, next, n - 1)
      BY <1>2, <3>1
    <3>3. \E f : Follows(f, next, n)
      BY <3>1, <3>2, ChainExtends
    <3> QED BY <3>3
  <2> QED BY <2>1, <2>2
<1> HIDE DEF S
<1>3. \A n \in 0..Len(next) : n \in S
  BY <1>1, <1>2, UpTo
<1> QED BY <1>3 DEF S

\* What Chain returns, unfolded once.
LEMMA ChainUnfolds ==
  ASSUME NEW h, Links(h.next), NEW n \in 0..Len(h.next)
  PROVE  Chain(h, n) = IF n = NULL THEN <<>> ELSE <<n>> \o Chain(h, h.next[n])
<1> DEFINE P(f) == f = [m \in Pointers(h) |-> IF m = NULL THEN <<>> ELSE <<m>> \o f[h.next[m]]]
           chain == CHOOSE f : P(f)
<1>1. Pointers(h) = 0..Len(h.next) /\ Len(h.next) \in 0..Len(h.next)
  BY DEF Pointers, Nodes, Links, NULL
<1>2. Follows(chain, h.next, Len(h.next))
  <2>1. \E f : Follows(f, h.next, Len(h.next))
    BY <1>1, ChainExists, Zenon
  <2>2. ASSUME NEW f PROVE P(f) <=> Follows(f, h.next, Len(h.next))
    BY <1>1 DEF Follows
  <2> HIDE DEF P
  <2> QED BY <2>1, <2>2, Zenon
<1>3. \A m : Chain(h, m) = chain[m]
  BY Zenon DEF Chain
<1> HIDE DEF chain
<1>4. chain[n] = IF n = NULL THEN <<>> ELSE <<n>> \o chain[h.next[n]]
  BY <1>2 DEF Follows
<1> QED BY <1>3, <1>4, Zenon

\* The sequence c is the way from n along next to NULL.
Path(next, n, c) ==
  /\ c \in Seq(1..Len(next))
  /\ c = <<>> <=> n = NULL
  /\ n # NULL => c[1] = n
  /\ \A k \in 1..Len(c) : next[c[k]] = IF k = Len(c) THEN NULL ELSE c[k + 1]

\* A node before a path.
LEMMA PathGrows ==
  ASSUME NEW next, Links(next), NEW n \in 1..Len(next), NEW c, Path(next, next[n], c)
  PROVE  Path(next, n, <<n>> \o c)
<1> DEFINE d == <<n>> \o c
           Q == 1..Len(next)
<1>1. c \in Seq(Q) /\ Len(c) \in Nat
  BY DEF Path
<1>2. /\ d \in Seq(Q) /\ Len(d) = Len(c) + 1 /\ d[1] = n
      /\ \A k \in 1..Len(c) : d[k + 1] = c[k]
  BY <1>1
<1> HIDE DEF d
<1>3. ASSUME NEW k \in 1..Len(d) PROVE next[d[k]] = IF k = Len(d) THEN NULL ELSE d[k + 1]
  <2>1. CASE k = 1
    <3>1. CASE c = <<>>
      BY <1>1, <1>2, <2>1, <3>1 DEF Path
    <3>2. CASE c # <<>>
      <4>1. Len(c) # 0 /\ c[1] = next[n]
        BY <1>1, <3>2 DEF Path
      <4> QED BY <1>1, <1>2, <2>1, <4>1
    <3> QED BY <3>1, <3>2
  <2>2. CASE k # 1
    <3>1. k - 1 \in 1..Len(c) /\ (k - 1) + 1 = k
      BY <1>1, <1>2, <2>2
    <3>2. next[c[k - 1]] = IF k - 1 = Len(c) THEN NULL ELSE c[(k - 1) + 1]
      BY <3>1 DEF Path
    <3>3. d[k] = c[k - 1]
      BY <1>2, <3>1
    <3>4. CASE k = Len(d)
      BY <1>1, <1>2, <3>2, <3>3, <3>4
    <3>5. CASE k # Len(d)
      <4>1. k \in 1..Len(c) /\ k - 1 # Len(c)
        BY <1>1, <1>2, <2>2, <3>5
      <4>2. d[k + 1] = c[k]
        BY <1>2, <4>1
      <4> QED BY <3>1, <3>2, <3>3, <3>5, <4>1, <4>2
    <3> QED BY <3>4, <3>5
  <2> QED BY <2>1, <2>2
<1>4. d # <<>> /\ n # NULL
  BY <1>1, <1>2 DEF NULL
<1>5. Path(next, n, d)
  BY <1>2, <1>3, <1>4 DEF Path
<1> QED BY <1>5 DEF d

\* Chain returns the way to NULL.
LEMMA ChainIsPath ==
  ASSUME NEW h, Links(h.next), NEW n \in 0..Len(h.next)
  PROVE  Path(h.next, n, Chain(h, n))
<1> DEFINE S == {m \in 0..Len(h.next) : Path(h.next, m, Chain(h, m))}
<1>1. Len(h.next) \in Nat
  BY DEF Links
<1>2. ASSUME NEW m \in 0..Len(h.next), \A l \in 0..(m - 1) : l \in S PROVE m \in S
  <2>1. CASE m = 0
    <3>1. Chain(h, m) = <<>>
      BY <2>1, ChainUnfolds DEF NULL
    <3>2. Path(h.next, m, <<>>)
      BY <2>1 DEF Path, NULL
    <3> QED BY <3>1, <3>2
  <2>2. CASE m # 0
    <3>1. m \in 1..Len(h.next) /\ h.next[m] \in 0..(m - 1)
      BY <1>1, <2>2 DEF Links
    <3>2. Path(h.next, h.next[m], Chain(h, h.next[m]))
      BY <1>2, <3>1
    <3>3. Path(h.next, m, <<m>> \o Chain(h, h.next[m]))
      BY <3>1, <3>2, PathGrows
    <3>4. Chain(h, m) = <<m>> \o Chain(h, h.next[m])
      BY <2>2, ChainUnfolds DEF NULL
    <3> QED BY <3>3, <3>4
  <2> QED BY <2>1, <2>2
<1> HIDE DEF S
<1>3. \A m \in 0..Len(h.next) : m \in S
  BY <1>1, <1>2, UpTo
<1> QED BY <1>3 DEF S

\* Of two paths from n, each is the beginning of the other.
LEMMA PathBegins ==
  ASSUME NEW next, Links(next), NEW n, NEW c, NEW d, Path(next, n, c), Path(next, n, d)
  PROVE  Len(c) <= Len(d) /\ \A k \in 1..Len(c) : d[k] = c[k]
<1> DEFINE S == {k \in 0..Len(c) : k = 0 \/ (k <= Len(d) /\ d[k] = c[k])}
<1>1. /\ c \in Seq(1..Len(next)) /\ d \in Seq(1..Len(next))
      /\ Len(c) \in Nat /\ Len(d) \in Nat /\ Len(next) \in Nat
  BY DEF Path, Links
<1>2. ASSUME NEW k \in 0..Len(c), \A l \in 0..(k - 1) : l \in S PROVE k \in S
  <2>1. CASE k = 0
    BY <2>1
  <2>2. CASE k = 1
    <3>1. c # <<>> /\ n # NULL /\ d # <<>> /\ c[1] = n /\ d[1] = n
      BY <1>1, <2>2 DEF Path
    <3>2. Len(d) # 0
      BY <1>1, <3>1
    <3> QED BY <1>1, <2>2, <3>1, <3>2
  <2>3. CASE k > 1
    <3> DEFINE l == k - 1
    <3>1. l \in 0..(k - 1) /\ l # 0 /\ l \in 1..Len(c) /\ l # Len(c) /\ l + 1 = k
      BY <1>1, <2>3
    <3>2. l <= Len(d) /\ d[l] = c[l]
      BY <1>2, <3>1
    <3> HIDE DEF l
    <3>3. next[c[l]] = c[k] /\ c[k] \in 1..Len(next)
      BY <1>1, <2>3, <3>1 DEF Path
    <3>4. l \in 1..Len(d) /\ next[d[l]] = IF l = Len(d) THEN NULL ELSE d[l + 1]
      BY <1>1, <3>1, <3>2 DEF Path
    <3>5. l # Len(d)
      BY <1>1, <3>2, <3>3, <3>4 DEF NULL
    <3>6. d[k] = c[k] /\ k <= Len(d)
      BY <1>1, <3>1, <3>2, <3>3, <3>4, <3>5
    <3> QED BY <3>6
  <2> QED BY <2>1, <2>2, <2>3
<1> HIDE DEF S
<1>3. \A k \in 0..Len(c) : k \in S
  BY <1>1, <1>2, UpTo
<1>4. \A k \in 1..Len(c) : k <= Len(d) /\ d[k] = c[k]
  BY <1>1, <1>3 DEF S
<1>5. Len(c) <= Len(d)
  BY <1>1, <1>4
<1> QED BY <1>4, <1>5

\* There is one way from n to NULL, and Chain returns it.
LEMMA PathIsChain ==
  ASSUME NEW h, Links(h.next), NEW n \in 0..Len(h.next), NEW c, Path(h.next, n, c)
  PROVE  Chain(h, n) = c
<1> DEFINE d == Chain(h, n)
<1>1. Path(h.next, n, d)
  BY ChainIsPath
<1> HIDE DEF d
<1>2. /\ Len(c) <= Len(d) /\ Len(d) <= Len(c)
      /\ \A k \in 1..Len(c) : d[k] = c[k]
  BY <1>1, PathBegins
<1>3. c \in Seq(1..Len(h.next)) /\ d \in Seq(1..Len(h.next)) /\ Len(c) = Len(d)
  BY <1>1, <1>2 DEF Path
<1>4. c = d
  BY <1>2, <1>3
<1> QED BY <1>4 DEF d

\* No node comes twice on a path, as their numbers fall.
LEMMA PathFalls ==
  ASSUME NEW next, Links(next), NEW n, NEW c, Path(next, n, c)
  PROVE  \A j, k \in 1..Len(c) : j < k => c[k] < c[j]
<1> DEFINE S == {k \in 0..Len(c) : k # 0 => \A j \in 1..Len(c) : j < k => c[k] < c[j]}
<1>1. c \in Seq(1..Len(next)) /\ Len(c) \in Nat /\ Len(next) \in Nat
  BY DEF Path, Links
<1>2. ASSUME NEW k \in 0..Len(c), \A l \in 0..(k - 1) : l \in S PROVE k \in S
  <2>1. CASE k <= 1
    BY <2>1
  <2>2. CASE k > 1
    <3> DEFINE l == k - 1
    <3>1. l \in 0..(k - 1) /\ l # 0 /\ l \in 1..Len(c) /\ l # Len(c) /\ l + 1 = k
      BY <1>1, <2>2
    <3>2. l \in S
      BY <1>2, <3>1
    <3> HIDE DEF l
    <3>3. next[c[l]] = c[k] /\ c[l] \in 1..Len(next) /\ c[k] \in 1..Len(next)
      <4>1. next[c[l]] = IF l = Len(c) THEN NULL ELSE c[l + 1]
        BY <3>1 DEF Path
      <4> QED BY <1>1, <2>2, <3>1, <4>1
    <3>4. c[k] < c[l]
      BY <1>1, <3>3 DEF Links
    <3>5. ASSUME NEW j \in 1..Len(c), j < k PROVE c[k] < c[j]
      <4>1. CASE j = l
        BY <3>4, <4>1
      <4>2. CASE j < l
        <5>1. c[l] < c[j] /\ c[j] \in Int
          BY <1>1, <3>1, <3>2, <4>2
        <5> QED BY <1>1, <3>3, <3>4, <5>1
      <4> QED BY <1>1, <3>1, <3>5, <4>1, <4>2
    <3> QED BY <3>5
  <2> QED BY <1>1, <2>1, <2>2
<1> HIDE DEF S
<1>3. \A k \in 0..Len(c) : k \in S
  BY <1>1, <1>2, UpTo
<1> QED BY <1>1, <1>3 DEF S

\* The rest of a path is a path.
LEMMA PathOn ==
  ASSUME NEW next, Links(next), NEW n, NEW c, Path(next, n, c), NEW k \in 1..(Len(c) + 1)
  PROVE  Path(next, IF k = Len(c) + 1 THEN NULL ELSE c[k], PL!From(c, k))
<1> DEFINE d == PL!From(c, k)
           l == Len(c) - k + 1
<1>1. c \in Seq(1..Len(next)) /\ Len(c) \in Nat /\ Len(next) \in Nat /\ k \in Nat
  BY DEF Path, Links
<1>2. /\ d \in Seq(1..Len(next)) /\ Len(d) = l /\ l \in Nat
      /\ \A m \in 1..l : d[m] = c[k + m - 1]
  BY <1>1 DEF PL!From
<1> HIDE DEF d
<1>3. ASSUME NEW m \in 1..Len(d) PROVE next[d[m]] = IF m = Len(d) THEN NULL ELSE d[m + 1]
  <2>1. k + m - 1 \in 1..Len(c) /\ (k + m - 1 = Len(c) <=> m = Len(d))
    <3>1. m \in Int /\ 1 <= m /\ m <= l /\ Len(d) = l
      BY <1>2
    <3> QED BY <1>1, <3>1
  <2>2. next[c[k + m - 1]] = IF k + m - 1 = Len(c) THEN NULL ELSE c[(k + m - 1) + 1]
    BY <2>1 DEF Path
  <2>3. m # Len(d) => m + 1 \in 1..l /\ k + (m + 1) - 1 = (k + m - 1) + 1
    <3>1. m \in Int /\ 1 <= m /\ m <= l /\ Len(d) = l
      BY <1>2
    <3> QED BY <1>1, <3>1
  <2> QED BY <1>2, <2>1, <2>2, <2>3
<1>4. d = <<>> <=> k = Len(c) + 1
  BY <1>1, <1>2
<1>5. k # Len(c) + 1 => d[1] = c[k] /\ c[k] \in 1..Len(next)
  BY <1>1, <1>2
<1> QED BY <1>2, <1>3, <1>4, <1>5 DEF Path, NULL, d

-----------------------------------------------------------------------------
(* The shape of a heap: the nodes of the list, the unlinked nodes before it that *)
(* the drawing pointer reaches, and how many nodes of the list it reaches.       *)

IsHeap(h) ==
  /\ DOMAIN h = {"next", "player", "player_list", "count", "drawing_player_list"}
  /\ Links(h.next)
  /\ h.player \in Seq(Names)
  /\ Len(h.player) = Len(h.next)
  /\ h.player_list \in 0..Len(h.next)
  /\ h.drawing_player_list \in 0..Len(h.next)

\* The first of the last v nodes of the list.
FirstOfLast(list, v) == IF v = 0 THEN NULL ELSE list[Len(list) - v + 1]

\* The heap has this list, and the drawing pointer reaches dead and then the last v nodes
\* of the list.
Shape(h, list, dead, v) ==
  /\ Path(h.next, h.player_list, list)
  /\ v \in 0..Len(list)
  /\ dead \in Seq(1..Len(h.next))
  /\ h.drawing_player_list = IF dead = <<>> THEN FirstOfLast(list, v) ELSE dead[1]
  /\ \A i \in 1..Len(dead) :
       h.next[dead[i]] = IF i = Len(dead) THEN FirstOfLast(list, v) ELSE dead[i + 1]
  /\ \A i \in 1..Len(dead), k \in 1..Len(list) : dead[i] # list[k]

Reached(list, dead, v) ==
  [i \in 1..(Len(dead) + v) |->
     IF i <= Len(dead) THEN dead[i] ELSE list[Len(list) - v + (i - Len(dead))]]

\* What the drawing pointer reaches: dead, then the end of the list.
LEMMA ShapeReaches ==
  ASSUME NEW h, IsHeap(h), NEW list, NEW dead, NEW v, Shape(h, list, dead, v)
  PROVE  Path(h.next, h.drawing_player_list, Reached(list, dead, v))
<1> DEFINE c == Reached(list, dead, v)
           n == Len(dead)
           e == Len(list) - v
           Q == 1..Len(h.next)
<1>1. /\ list \in Seq(Q) /\ dead \in Seq(Q) /\ v \in 0..Len(list)
      /\ Len(list) \in Nat /\ n \in Nat /\ v \in Nat /\ e \in Nat /\ e + v = Len(list)
  BY DEF Shape, Path
<1>2. /\ c \in Seq(Q) /\ Len(c) = n + v
      /\ \A i \in 1..n : c[i] = dead[i]
      /\ \A i \in 1..v : c[n + i] = list[e + i]
  BY <1>1 DEF Reached
<1>3. FirstOfLast(list, v) = IF v = 0 THEN NULL ELSE c[n + 1]
  BY <1>1, <1>2 DEF FirstOfLast
<1> HIDE DEF c, e
<1>4. ASSUME NEW i \in 1..Len(c) PROVE h.next[c[i]] = IF i = Len(c) THEN NULL ELSE c[i + 1]
  <2>1. CASE i <= n
    <3>1. i \in 1..n /\ c[i] = dead[i]
      BY <1>1, <1>2, <2>1
    <3>2. h.next[dead[i]] = IF i = n THEN FirstOfLast(list, v) ELSE dead[i + 1]
      BY <3>1 DEF Shape
    <3>3. i # n => i + 1 \in 1..n
      BY <1>1, <3>1
    <3>4. i = n /\ v = 0 <=> i = Len(c)
      BY <1>1, <1>2, <3>1
    <3> QED BY <1>2, <1>3, <3>1, <3>2, <3>3, <3>4
  <2>2. CASE i > n
    <3> DEFINE j == i - n
    <3>0. i \in Nat /\ i <= n + v
      BY <1>1, <1>2
    <3>1. /\ j \in 1..v /\ j \in Nat /\ j >= 1 /\ j <= v
          /\ i = n + j /\ e + j \in 1..Len(list)
      BY <1>1, <2>2, <3>0
    <3> HIDE DEF j
    <3>2. c[i] = list[e + j]
      BY <1>2, <3>1
    <3>3. h.next[list[e + j]] = IF e + j = Len(list) THEN NULL ELSE list[(e + j) + 1]
      BY <3>1 DEF Shape, Path
    <3>4. Len(c) = n + v /\ (e + j = Len(list) <=> i = Len(c))
      <4>1. Len(c) = n + v
        BY <1>2
      <4> HIDE DEF n
      <4> QED BY <1>1, <3>1, <4>1
    <3>5. CASE i = Len(c)
      BY <3>2, <3>3, <3>4, <3>5
    <3>6. CASE i # Len(c)
      <4>1. j + 1 \in 1..v /\ n + (j + 1) = i + 1 /\ e + (j + 1) = (e + j) + 1
        <5> HIDE DEF n
        <5> QED BY <1>1, <3>1, <3>4, <3>6
      <4>2. c[i + 1] = list[(e + j) + 1]
        BY <1>2, <4>1
      <4> QED BY <3>2, <3>3, <3>4, <3>6, <4>2
    <3> QED BY <3>5, <3>6
  <2> QED BY <1>1, <1>2, <2>1, <2>2
<1>5. h.drawing_player_list = IF dead = <<>> THEN FirstOfLast(list, v) ELSE dead[1]
  BY DEF Shape
<1>6. CASE dead = <<>>
  <2>1. n = 0
    BY <1>6
  <2>2. CASE v = 0
    <3>1. c = <<>>
      BY <1>2, <2>1, <2>2
    <3> QED BY <1>2, <1>3, <1>4, <1>5, <1>6, <2>2, <3>1 DEF Path, c
  <2>3. CASE v # 0
    <3>1. c # <<>> /\ 1 \in 1..Len(c)
      BY <1>1, <1>2, <2>1, <2>3
    <3>2. c[1] \in Q /\ n + 1 = 1
      BY <1>2, <2>1, <3>1
    <3>3. h.drawing_player_list = c[1] /\ c[1] # NULL
      BY <1>1, <1>3, <1>5, <1>6, <2>3, <3>2 DEF NULL
    <3> QED BY <1>2, <1>4, <3>1, <3>3 DEF Path, c
  <2> QED BY <2>2, <2>3
<1>7. CASE dead # <<>>
  <2>1. n # 0 /\ 1 \in 1..n
    BY <1>1, <1>7
  <2>2. c # <<>> /\ c[1] = dead[1] /\ dead[1] \in Q
    BY <1>1, <1>2, <2>1
  <2>3. dead[1] # NULL
    BY <2>2 DEF NULL
  <2> QED BY <1>2, <1>4, <1>5, <1>7, <2>2, <2>3 DEF Path, c
<1> QED BY <1>6, <1>7

\* The roster of a heap, from its shape.
ViewOf(h, list, dead, v) ==
  [list |-> PlayersOf(h, list), dead |-> PlayersOf(h, dead),
   live |-> PL!From(PlayersOf(h, list), Len(list) - v + 1)]

\* The players of a sequence of nodes.
LEMMA PlayersOfPath ==
  ASSUME NEW h, IsHeap(h), NEW c \in Seq(1..Len(h.next))
  PROVE  /\ PlayersOf(h, c) \in Seq(Names)
         /\ Len(PlayersOf(h, c)) = Len(c)
         /\ \A i \in 1..Len(c) : PlayersOf(h, c)[i] = h.player[c[i]]
<1>1. \A i \in 1..Len(c) : h.player[c[i]] \in Names
  BY DEF IsHeap
<1> QED BY <1>1 DEF PlayersOf

\* The view of a heap is that of its shape.
LEMMA ShapeIsView ==
  ASSUME NEW h, IsHeap(h), NEW list, NEW dead, NEW v, Shape(h, list, dead, v)
  PROVE  View(h) = ViewOf(h, list, dead, v)
<1> DEFINE c == Reached(list, dead, v)
           n == Len(dead)
           e == Len(list) - v
           Q == 1..Len(h.next)
           linked == {i \in DOMAIN c : c[i] \in ToSet(list)}
           unlinked == IF linked = {} THEN Len(c) ELSE Min(linked) - 1
<1>1. /\ list \in Seq(Q) /\ dead \in Seq(Q) /\ v \in 0..Len(list)
      /\ Len(list) \in Nat /\ n \in Nat /\ v \in Nat /\ e \in Nat
      /\ \A i \in 1..n, k \in 1..Len(list) : dead[i] # list[k]
  BY DEF Shape, Path
<1>2. /\ c \in Seq(Q) /\ Len(c) = n + v
      /\ \A i \in 1..n : c[i] = dead[i]
      /\ \A i \in 1..v : c[n + i] = list[e + i]
  BY <1>1 DEF Reached
<1>3. Chain(h, h.player_list) = list /\ Chain(h, h.drawing_player_list) = c
  <2>1. Path(h.next, h.player_list, list) /\ Path(h.next, h.drawing_player_list, c)
    BY ShapeReaches DEF Shape
  <2>2. /\ Links(h.next)
        /\ h.player_list \in 0..Len(h.next) /\ h.drawing_player_list \in 0..Len(h.next)
    BY DEF IsHeap
  <2> HIDE DEF c
  <2> QED BY <2>1, <2>2, PathIsChain
<1>4. View(h) = [list |-> PlayersOf(h, list),
                 dead |-> PlayersOf(h, SubSeq(c, 1, unlinked)),
                 live |-> PlayersOf(h, SubSeq(c, unlinked + 1, Len(c)))]
  BY <1>3 DEF View
<1> HIDE DEF c
<1>5. linked = (n + 1)..(n + v)
  <2>1. \A i : i \in linked <=> i \in 1..Len(c) /\ \E k \in 1..Len(list) : c[i] = list[k]
    <3>1. DOMAIN c = 1..Len(c) /\ DOMAIN list = 1..Len(list)
      BY <1>1, <1>2
    <3>2. \A x : x \in ToSet(list) <=> \E k \in 1..Len(list) : x = list[k]
      BY <3>1, Zenon DEF ToSet
    <3> QED BY <3>1, <3>2, Zenon
  <2>2. ASSUME NEW i \in 1..n PROVE i \notin linked
    BY <1>1, <1>2, <2>1
  <2>3. ASSUME NEW i \in (n + 1)..(n + v) PROVE i \in linked
    <3>1. i - n \in 1..v /\ n + (i - n) = i /\ e + (i - n) \in 1..Len(list)
      BY <1>1
    <3>2. c[i] = list[e + (i - n)]
      BY <1>2, <3>1
    <3>3. i \in 1..Len(c)
      BY <1>1, <1>2
    <3> QED BY <2>1, <3>1, <3>2, <3>3
  <2>4. \A i \in linked : i \in 1..Len(c)
    BY <2>1
  <2> HIDE DEF linked
  <2>5. \A i : i \in linked => i \in (n + 1)..(n + v)
    BY <1>1, <1>2, <2>2, <2>4
  <2> QED BY <2>3, <2>5
<1> HIDE DEF linked
<1>6. unlinked = n
  <2>1. CASE v = 0
    BY <1>1, <1>2, <1>5, <2>1
  <2>2. CASE v # 0
    <3>1. linked \in SUBSET Nat /\ n + 1 \in linked
      BY <1>1, <1>5, <2>2
    <3>2. Min(linked) \in linked /\ \A m \in linked : Min(linked) <= m
      BY <3>1, MinIsLeast, Zenon
    <3>3. Min(linked) = n + 1
      <4>1. PICK m \in (n + 1)..(n + v) : m = Min(linked) /\ m <= n + 1
        BY <1>5, <3>1, <3>2
      <4> QED BY <1>1, <4>1
    <3> QED BY <1>1, <3>1, <3>3
  <2> QED BY <2>1, <2>2
<1> HIDE DEF unlinked
<1>7. PlayersOf(h, SubSeq(c, 1, n)) = PlayersOf(h, dead)
  <2>1. SubSeq(c, 1, n) = dead
    BY <1>1, <1>2
  <2> QED BY <2>1
<1>8. PlayersOf(h, SubSeq(c, n + 1, n + v)) = PL!From(PlayersOf(h, list), e + 1)
  <2> DEFINE s == SubSeq(c, n + 1, n + v)
             q == PlayersOf(h, list)
  <2>1. s \in Seq(Q) /\ Len(s) = v /\ \A i \in 1..v : s[i] = list[e + i]
    <3> HIDE DEF n, Q
    <3>1. ASSUME NEW i \in (n + 1)..(n + v) PROVE i \in 1..Len(c) /\ c[i] \in Q
      <4>1. i \in 1..Len(c)
        BY <1>1, <1>2
      <4> QED BY <1>2, <4>1
    <3>2. /\ s \in Seq(Q)
          /\ Len(s) = IF n + 1 <= n + v THEN (n + v) - (n + 1) + 1 ELSE 0
          /\ \A i \in 1..((n + v) - (n + 1) + 1) : s[i] = c[(n + 1) + i - 1]
      <4>1. n + 1 \in Int /\ n + v \in Int
        BY <1>1
      <4> QED BY <3>1, <4>1, SubSeqProperties
    <3>3. /\ (n + v) - (n + 1) + 1 = v /\ (~(n + 1 <= n + v) => v = 0)
          /\ \A i \in 1..v : (n + 1) + i - 1 = n + i
      BY <1>1
    <3> HIDE DEF s
    <3> QED BY <1>2, <3>2, <3>3
  <2> HIDE DEF s
  <2>2. /\ PlayersOf(h, s) \in Seq(Names) /\ Len(PlayersOf(h, s)) = v
        /\ \A i \in 1..v : PlayersOf(h, s)[i] = h.player[list[e + i]]
    BY <2>1, PlayersOfPath
  <2>3. /\ q \in Seq(Names) /\ Len(q) = Len(list)
        /\ \A i \in 1..Len(list) : q[i] = h.player[list[i]]
    BY <1>1, PlayersOfPath
  <2> HIDE DEF q
  <2>4. PL!From(q, e + 1) = [i \in 1..v |-> q[e + i]]
    BY <1>1, <2>3 DEF PL!From
  <2>5. \A i \in 1..v : q[e + i] = PlayersOf(h, s)[i]
    BY <1>1, <2>2, <2>3
  <2>6. PlayersOf(h, s) = [i \in 1..v |-> PlayersOf(h, s)[i]]
    BY <2>2
  <2> QED BY <2>4, <2>5, <2>6 DEF s, q
<1> QED BY <1>1, <1>2, <1>4, <1>6, <1>7, <1>8 DEF ViewOf

\* Every heap has a shape.
LEMMA ShapeExists ==
  ASSUME NEW h, IsHeap(h)
  PROVE  \E list, dead, v : Shape(h, list, dead, v)
<1> DEFINE list == Chain(h, h.player_list)
           c == Chain(h, h.drawing_player_list)
           Q == 1..Len(h.next)
           linked == {i \in 1..Len(c) : \E k \in 1..Len(list) : c[i] = list[k]}
<1>1. /\ Path(h.next, h.player_list, list) /\ Path(h.next, h.drawing_player_list, c)
      /\ Links(h.next)
  BY ChainIsPath DEF IsHeap
<1> HIDE DEF list, c
<1>2. /\ list \in Seq(Q) /\ c \in Seq(Q) /\ Len(list) \in Nat /\ Len(c) \in Nat
      /\ c = <<>> <=> h.drawing_player_list = NULL
      /\ h.drawing_player_list # NULL => c[1] = h.drawing_player_list
      /\ \A k \in 1..Len(c) : h.next[c[k]] = IF k = Len(c) THEN NULL ELSE c[k + 1]
  BY <1>1 DEF Path
<1>3. CASE linked = {}
  <2>1. \A i \in 1..Len(c), k \in 1..Len(list) : c[i] # list[k]
    BY <1>3
  <2>2. FirstOfLast(list, 0) = NULL /\ 0 \in 0..Len(list)
    BY <1>2 DEF FirstOfLast
  <2>3. Shape(h, list, c, 0)
    BY <1>1, <1>2, <2>1, <2>2 DEF Shape
  <2> QED BY <2>3
<1>4. CASE linked # {}
  <2> DEFINE m == Min(linked)
  <2>1. m \in linked /\ \A i \in linked : m <= i
    <3>1. linked \in SUBSET Nat
      OBVIOUS
    <3> QED BY <1>4, <3>1, MinIsLeast, Zenon
  <2>2. m \in 1..Len(c) /\ \A i \in 1..Len(c), k \in 1..Len(list) : i < m => c[i] # list[k]
    <3>1. m \in 1..Len(c)
      BY <2>1
    <3>2. ASSUME NEW i \in 1..Len(c), NEW k \in 1..Len(list), i < m PROVE c[i] # list[k]
      <4>1. i \notin linked
        BY <2>1, <3>1, <3>2
      <4> QED BY <4>1
    <3> QED BY <3>1, <3>2
  <2>3. PICK e \in 1..Len(list) : c[m] = list[e]
    BY <2>1
  <2> HIDE DEF m, linked
  <2> DEFINE s == PL!From(c, m)
             t == PL!From(list, e)
             v == Len(list) - e + 1
             dead == [i \in 1..(m - 1) |-> c[i]]
  <2>4. Path(h.next, c[m], s) /\ Path(h.next, list[e], t)
    <3>1. /\ m \in 1..(Len(c) + 1) /\ m # Len(c) + 1
          /\ e \in 1..(Len(list) + 1) /\ e # Len(list) + 1
      BY <1>2, <2>2
    <3> QED BY <1>1, <3>1, PathOn
  <2>5. Len(s) = Len(t)
    <3>1. Len(s) <= Len(t) /\ Len(t) <= Len(s)
      BY <1>1, <2>3, <2>4, PathBegins
    <3>2. Len(s) \in Nat /\ Len(t) \in Nat
      BY <2>4 DEF Path
    <3> QED BY <3>1, <3>2
  <2>6. Len(c) - m + 1 = v /\ v \in 1..Len(list) /\ Len(list) - v + 1 = e
    <3>1. Len(s) = Len(c) - m + 1 /\ Len(t) = v
      BY <1>2, <2>2, <2>3 DEF PL!From
    <3>2. m \in Nat /\ e \in Nat /\ 1 <= e /\ e <= Len(list) /\ Len(list) \in Nat
      BY <1>2, <2>2
    <3>3. Len(c) - m + 1 = v
      BY <2>5, <3>1
    <3> QED BY <3>2, <3>3
  <2>7. dead \in Seq(Q) /\ Len(dead) = m - 1 /\ \A i \in 1..(m - 1) : dead[i] = c[i]
    BY <1>2, <2>2
  <2>8. FirstOfLast(list, v) = c[m]
    BY <1>2, <2>3, <2>6 DEF FirstOfLast
  <2> HIDE DEF dead, v, s, t
  <2>9. h.drawing_player_list = IF dead = <<>> THEN FirstOfLast(list, v) ELSE dead[1]
    <3>1. c # <<>> /\ h.drawing_player_list = c[1]
      BY <1>2, <2>2
    <3>2. CASE m = 1
      BY <2>7, <2>8, <3>1, <3>2
    <3>3. CASE m # 1
      <4>1. Len(dead) # 0 /\ 1 \in 1..(m - 1)
        BY <1>2, <2>2, <2>7, <3>3
      <4> QED BY <2>7, <3>1, <4>1
    <3> QED BY <3>2, <3>3
  <2>10. ASSUME NEW i \in 1..Len(dead)
         PROVE  h.next[dead[i]] = IF i = Len(dead) THEN FirstOfLast(list, v) ELSE dead[i + 1]
    <3>1. i \in 1..(m - 1) /\ i \in 1..Len(c) /\ i # Len(c)
      BY <1>2, <2>2, <2>7
    <3>2. h.next[dead[i]] = c[i + 1]
      BY <1>2, <2>7, <3>1
    <3>3. CASE i = Len(dead)
      <4>1. i + 1 = m
        BY <1>2, <2>2, <2>7, <3>3
      <4> QED BY <2>8, <3>2, <3>3, <4>1
    <3>4. CASE i # Len(dead)
      <4>1. i + 1 \in 1..(m - 1)
        BY <1>2, <2>2, <2>7, <3>4
      <4> QED BY <2>7, <3>2, <3>4, <4>1
    <3> QED BY <3>3, <3>4
  <2>11. ASSUME NEW i \in 1..Len(dead), NEW k \in 1..Len(list) PROVE dead[i] # list[k]
    <3>1. i \in 1..(m - 1) /\ i \in 1..Len(c) /\ i < m
      BY <1>2, <2>2, <2>7
    <3> QED BY <2>2, <2>7, <3>1
  <2>12. v \in 0..Len(list)
    BY <1>2, <2>6
  <2>13. Shape(h, list, dead, v)
    BY <1>1, <2>7, <2>9, <2>10, <2>11, <2>12 DEF Shape
  <2> QED BY <2>13
<1> QED BY <1>3, <1>4

-----------------------------------------------------------------------------
(* add_player *)

\* A path is not disturbed by what happens to other nodes, or by new ones.
LEMMA PathKept ==
  ASSUME NEW next, NEW n, NEW c, Path(next, n, c), NEW more,
         Len(next) \in Nat, Len(more) \in Nat, Len(next) <= Len(more),
         \A k \in 1..Len(c) : more[c[k]] = next[c[k]]
  PROVE  Path(more, n, c)
<1>1. c \in Seq(1..Len(more))
  <2>1. c \in Seq(1..Len(next))
    BY DEF Path
  <2>2. \A k \in 1..Len(c) : c[k] \in 1..Len(more)
    BY <2>1
  <2> QED BY <2>1, <2>2
<1> QED BY <1>1 DEF Path

\* A fresh node, whose next is the head, if there is one.
LEMMA AddedNode ==
  ASSUME NEW h, IsHeap(h), NEW list, Path(h.next, h.player_list, list),
         h.count = Len(list), NEW p \in Names
  PROVE  LET n == Len(h.next) + 1
             t == add_player(h, p)
         IN  /\ IsHeap(t)
             /\ t.next = Append(h.next, h.player_list)
             /\ t.player = Append(h.player, p)
             /\ t.player_list = n
             /\ t.count = h.count + 1
             /\ t.drawing_player_list = h.drawing_player_list
             /\ Path(t.next, n, <<n>> \o list)
<1> DEFINE n == Len(h.next) + 1
           t == add_player(h, p)
           more == Append(h.next, h.player_list)
<1>1. /\ Links(h.next) /\ h.next \in Seq(Nat) /\ h.player \in Seq(Names)
      /\ Len(h.player) = Len(h.next) /\ Len(h.next) \in Nat
      /\ h.player_list \in 0..Len(h.next) /\ h.drawing_player_list \in 0..Len(h.next)
  BY DEF IsHeap, Links
<1>2. (IF h.count = 0 THEN NULL ELSE h.player_list) = h.player_list
  <2>1. list \in Seq(1..Len(h.next)) /\ (list = <<>> <=> h.player_list = NULL)
    BY DEF Path
  <2>2. h.count = 0 <=> list = <<>>
    BY <2>1
  <2> QED BY <2>1, <2>2
<1>3. /\ t.next = more /\ t.player = Append(h.player, p) /\ t.player_list = n
      /\ t.count = h.count + 1 /\ t.drawing_player_list = h.drawing_player_list
      /\ DOMAIN t = DOMAIN h
  <2>1. t = [h EXCEPT !.next = Append(@, h.player_list), !.player = Append(@, p),
                      !.player_list = n, !.count = @ + 1]
    BY <1>2 DEF add_player
  <2> QED BY <2>1 DEF IsHeap
<1>4. /\ more \in Seq(Nat) /\ Len(more) = n /\ more[n] = h.player_list
      /\ \A k \in 1..Len(h.next) : more[k] = h.next[k]
  BY <1>1
<1> HIDE DEF t, more
<1>5. Links(more)
  <2>1. ASSUME NEW k \in 1..Len(more) PROVE more[k] \in 0..(k - 1)
    <3>1. CASE k = n
      BY <1>1, <1>4, <3>1
    <3>2. CASE k # n
      <4>1. k \in 1..Len(h.next)
        BY <1>1, <1>4, <3>2
      <4> QED BY <1>4, <4>1 DEF IsHeap, Links
    <3> QED BY <3>1, <3>2
  <2> QED BY <1>4, <2>1 DEF Links
<1>6. IsHeap(t)
  <2>1. Append(h.player, p) \in Seq(Names) /\ Len(Append(h.player, p)) = n
    BY <1>1
  <2>2. n \in 0..n /\ h.drawing_player_list \in 0..n
    BY <1>1
  <2> QED BY <1>3, <1>4, <1>5, <2>1, <2>2 DEF IsHeap
<1>7. Path(more, h.player_list, list)
  <2>1. \A k \in 1..Len(list) : list[k] \in 1..Len(h.next)
    BY DEF Path
  <2>2. \A k \in 1..Len(list) : more[list[k]] = h.next[list[k]]
    BY <1>4, <2>1
  <2>3. Len(more) \in Nat /\ Len(h.next) <= Len(more)
    BY <1>1, <1>4
  <2> QED BY <1>1, <2>2, <2>3, PathKept
<1>8. Path(more, n, <<n>> \o list)
  <2>1. n \in 1..Len(more)
    BY <1>1, <1>4
  <2> QED BY <1>4, <1>5, <1>7, <2>1, PathGrows
<1> QED BY <1>3, <1>6, <1>8 DEF t, more

\* add_player puts the player before the list and leaves the drawing pointer alone.
LEMMA AddAgrees ==
  ASSUME NEW h, IsHeap(h), NEW list, NEW dead, NEW v, Shape(h, list, dead, v),
         h.count = Len(list), NEW p \in Names
  PROVE  LET n == Len(h.next) + 1
             t == add_player(h, p)
         IN  /\ Shape(t, <<n>> \o list, dead, v)
             /\ PlayersOf(t, <<n>> \o list) = <<p>> \o PlayersOf(h, list)
             /\ View(t) = PL!add_player(View(h), p)
<1> DEFINE n == Len(h.next) + 1
           t == add_player(h, p)
           longer == <<n>> \o list
           Q == 1..Len(h.next)
<1>1. /\ IsHeap(t)
      /\ t.next = Append(h.next, h.player_list) /\ t.player = Append(h.player, p)
      /\ t.player_list = n /\ t.drawing_player_list = h.drawing_player_list
      /\ Path(t.next, n, longer)
  BY AddedNode DEF Shape
<1>2. /\ list \in Seq(Q) /\ dead \in Seq(Q) /\ v \in 0..Len(list)
      /\ Len(list) \in Nat /\ v \in Nat /\ Len(h.next) \in Nat
      /\ h.next \in Seq(Nat) /\ h.player \in Seq(Names) /\ Len(h.player) = Len(h.next)
  BY DEF Shape, Path, IsHeap, Links
<1>3. /\ Len(t.next) = n
      /\ \A k \in Q : t.next[k] = h.next[k] /\ t.player[k] = h.player[k]
      /\ t.player[n] = p
  BY <1>1, <1>2
<1> HIDE DEF t
<1>4. /\ longer \in Seq(1..n) /\ Len(longer) = Len(list) + 1 /\ longer[1] = n
      /\ \A k \in 1..Len(list) : longer[k + 1] = list[k]
      /\ dead \in Seq(1..n)
  <2>1. list \in Seq(1..n) /\ dead \in Seq(1..n)
    BY <1>2
  <2>2. n \in 1..n
    BY <1>2
  <2> HIDE DEF n
  <2> QED BY <2>1, <2>2
<1> HIDE DEF longer
<1>5. FirstOfLast(longer, v) = FirstOfLast(list, v)
  <2>1. CASE v = 0
    BY <2>1 DEF FirstOfLast
  <2>2. CASE v # 0
    <3>1. /\ Len(list) - v + 1 \in 1..Len(list)
          /\ Len(longer) - v + 1 = (Len(list) - v + 1) + 1
      BY <1>2, <1>4, <2>2
    <3> QED BY <1>4, <2>2, <3>1 DEF FirstOfLast
  <2> QED BY <2>1, <2>2
<1>6. Shape(t, longer, dead, v)
  <2>1. v \in 0..Len(longer)
    BY <1>2, <1>4
  <2>2. ASSUME NEW i \in 1..Len(dead) PROVE dead[i] \in Q /\ t.next[dead[i]] = h.next[dead[i]]
    <3>1. dead[i] \in Q
      <4> HIDE DEF Q
      <4> QED BY <1>2
    <3> QED BY <1>3, <3>1
  <2>3. ASSUME NEW i \in 1..Len(dead), NEW k \in 1..Len(longer) PROVE dead[i] # longer[k]
    <3>1. CASE k = 1
      <4>1. dead[i] # n
        BY <1>2, <2>2
      <4> QED BY <1>4, <3>1, <4>1
    <3>2. CASE k # 1
      <4>1. k - 1 \in 1..Len(list) /\ (k - 1) + 1 = k
        BY <1>2, <1>4, <3>2
      <4>2. longer[k] = list[k - 1]
        BY <1>4, <4>1
      <4> QED BY <4>1, <4>2 DEF Shape
    <3> QED BY <3>1, <3>2
  <2>4. \A i \in 1..Len(dead) :
          t.next[dead[i]] = IF i = Len(dead) THEN FirstOfLast(longer, v) ELSE dead[i + 1]
    BY <1>5, <2>2 DEF Shape
  <2>5. t.drawing_player_list = IF dead = <<>> THEN FirstOfLast(longer, v) ELSE dead[1]
    BY <1>1, <1>5 DEF Shape
  <2> QED BY <1>1, <1>3, <1>4, <2>1, <2>3, <2>4, <2>5 DEF Shape
<1>7. View(h) = ViewOf(h, list, dead, v) /\ View(t) = ViewOf(t, longer, dead, v)
  BY <1>1, <1>6, ShapeIsView
<1>8. PlayersOf(t, dead) = PlayersOf(h, dead)
  <2>1. ASSUME NEW i \in 1..Len(dead) PROVE t.player[dead[i]] = h.player[dead[i]]
    <3>1. dead[i] \in Q
      <4> HIDE DEF Q
      <4> QED BY <1>2
    <3> QED BY <1>3, <3>1
  <2>2. DOMAIN dead = 1..Len(dead)
    BY <1>2
  <2> QED BY <2>1, <2>2 DEF PlayersOf
<1> DEFINE q == PlayersOf(h, list)
           q2 == PlayersOf(t, longer)
<1>9. /\ q \in Seq(Names) /\ Len(q) = Len(list)
      /\ \A k \in 1..Len(list) : q[k] = h.player[list[k]]
  BY <1>2, PlayersOfPath
<1>10. /\ q2 \in Seq(Names) /\ Len(q2) = Len(list) + 1
       /\ \A k \in 1..(Len(list) + 1) : q2[k] = t.player[longer[k]]
  <2>1. longer \in Seq(1..Len(t.next))
    BY <1>3, <1>4
  <2>2. /\ PlayersOf(t, longer) \in Seq(Names)
        /\ Len(PlayersOf(t, longer)) = Len(longer)
        /\ \A k \in 1..Len(longer) : PlayersOf(t, longer)[k] = t.player[longer[k]]
    BY <1>1, <2>1, PlayersOfPath
  <2> QED BY <1>4, <2>2
<1> HIDE DEF q, q2
<1>11. q2[1] = p /\ \A k \in 1..Len(list) : q2[k + 1] = q[k]
  <2>1. 1 \in 1..(Len(list) + 1) /\ \A k \in 1..Len(list) : k + 1 \in 1..(Len(list) + 1)
    BY <1>2
  <2>2. q2[1] = p
    BY <1>3, <1>4, <1>10, <2>1
  <2>3. ASSUME NEW k \in 1..Len(list) PROVE q2[k + 1] = q[k]
    <3>1. q2[k + 1] = t.player[list[k]]
      BY <1>4, <1>10, <2>1
    <3>2. list[k] \in Q
      <4> HIDE DEF Q
      <4> QED BY <1>2
    <3> QED BY <1>3, <1>9, <3>1, <3>2
  <2> QED BY <2>2, <2>3
<1>12. q2 = <<p>> \o q
  <2> DEFINE q3 == <<p>> \o q
  <2>1. /\ q3 \in Seq(Names) /\ Len(q3) = Len(list) + 1 /\ q3[1] = p
        /\ \A k \in 1..Len(list) : q3[k + 1] = q[k]
    BY <1>9
  <2> HIDE DEF q3
  <2>2. ASSUME NEW k \in 1..(Len(list) + 1) PROVE q2[k] = q3[k]
    <3>1. CASE k = 1
      BY <1>11, <2>1, <3>1
    <3>2. CASE k # 1
      <4>1. k - 1 \in 1..Len(list) /\ (k - 1) + 1 = k
        BY <1>2, <3>2
      <4> QED BY <1>11, <2>1, <4>1
    <3> QED BY <3>1, <3>2
  <2>3. q2 = q3
    BY <1>10, <2>1, <2>2
  <2> QED BY <2>3 DEF q3
<1>13. PL!From(q2, Len(longer) - v + 1) = PL!From(q, Len(list) - v + 1)
  <2>1. PL!From(q2, Len(longer) - v + 1) = [i \in 1..v |-> q2[(Len(list) - v + i) + 1]]
    <3>1. /\ Len(q2) - (Len(longer) - v + 1) + 1 = v
          /\ \A i \in 1..v : (Len(longer) - v + 1) + i - 1 = (Len(list) - v + i) + 1
      BY <1>2, <1>4, <1>10
    <3> QED BY <3>1 DEF PL!From
  <2>2. PL!From(q, Len(list) - v + 1) = [i \in 1..v |-> q[Len(list) - v + i]]
    BY <1>2, <1>9 DEF PL!From
  <2>3. \A i \in 1..v : Len(list) - v + i \in 1..Len(list)
    BY <1>2
  <2> QED BY <1>11, <2>1, <2>2, <2>3
<1>14. View(t) = PL!add_player(View(h), p)
  <2>1. View(h) = [list |-> q, dead |-> PlayersOf(h, dead),
                   live |-> PL!From(q, Len(list) - v + 1)]
    BY <1>7 DEF ViewOf, q
  <2>2. View(t) = [list |-> <<p>> \o q, dead |-> PlayersOf(h, dead),
                   live |-> PL!From(q, Len(list) - v + 1)]
    <3>1. View(t) = [list |-> q2, dead |-> PlayersOf(t, dead),
                     live |-> PL!From(q2, Len(longer) - v + 1)]
      BY <1>7 DEF ViewOf, q2
    <3> QED BY <1>8, <1>12, <1>13, <3>1
  <2> QED BY <2>1, <2>2 DEF PL!add_player
<1> QED BY <1>6, <1>12, <1>14 DEF t, longer, q, q2

-----------------------------------------------------------------------------
(* remove_player *)

\* FirstIn is the least index of an element of S, or 0.
LEMMA FirstFound ==
  ASSUME NEW Q, NEW seq \in Seq(Q), NEW S
  PROVE  /\ PL!FirstIn(seq, S) \in 0..Len(seq)
         /\ PL!FirstIn(seq, S) # 0 => seq[PL!FirstIn(seq, S)] \in S
         /\ \A i \in 1..Len(seq) :
              seq[i] \in S => PL!FirstIn(seq, S) # 0 /\ PL!FirstIn(seq, S) <= i
<1> DEFINE hits == {i \in 1..Len(seq) : seq[i] \in S}
<1>1. hits \in SUBSET Nat
  OBVIOUS
<1>2. CASE hits = {}
  BY <1>2 DEF PL!FirstIn
<1>3. CASE hits # {}
  <2>1. PL!FirstIn(seq, S) = Min(hits)
    BY <1>3, Zenon DEF PL!FirstIn, PL!Min, Min
  <2>2. Min(hits) \in hits /\ \A n \in hits : Min(hits) <= n
    BY <1>1, <1>3, MinIsLeast, Zenon
  <2>3. PL!FirstIn(seq, S) \in hits /\ \A n \in hits : PL!FirstIn(seq, S) <= n
    BY <2>1, <2>2, Zenon
  <2> QED BY <2>3
<1> QED BY <1>2, <1>3

\* Where FirstIn finds a player who is not twice in the sequence.
LEMMA FirstIsThere ==
  ASSUME NEW Q, NEW seq \in Seq(Q), NEW p, IsInjective(seq),
         NEW k \in 1..Len(seq), seq[k] = p
  PROVE  PL!FirstIn(seq, {p}) = k
<1> DEFINE f == PL!FirstIn(seq, {p})
<1>1. f \in 0..Len(seq) /\ f # 0 /\ seq[f] = p
  <2>1. /\ f \in 0..Len(seq) /\ (f # 0 => seq[f] \in {p})
        /\ \A i \in 1..Len(seq) : seq[i] \in {p} => f # 0
    BY FirstFound
  <2> HIDE DEF f
  <2> QED BY <2>1
<1> HIDE DEF f
<1>2. f \in DOMAIN seq /\ k \in DOMAIN seq
  BY <1>1
<1>3. f = k
  BY <1>1, <1>2 DEF IsInjective
<1> QED BY <1>3 DEF f

Cut(seq, k) == [i \in 1..(Len(seq) - 1) |-> IF i < k THEN seq[i] ELSE seq[i + 1]]

\* The elements of a sequence without its k-th.
LEMMA CutIs ==
  ASSUME NEW Q, NEW seq \in Seq(Q), NEW k \in 1..Len(seq)
  PROVE  /\ Cut(seq, k) \in Seq(Q)
         /\ Len(Cut(seq, k)) = Len(seq) - 1
         /\ \A i \in 1..(Len(seq) - 1) : Cut(seq, k)[i] = IF i < k THEN seq[i] ELSE seq[i + 1]
<1>1. Len(seq) \in Nat /\ Len(seq) - 1 \in Nat
  OBVIOUS
<1>2. \A i \in 1..(Len(seq) - 1) : i \in 1..Len(seq) /\ i + 1 \in 1..Len(seq)
  BY <1>1
<1>3. \A i \in 1..(Len(seq) - 1) : seq[i] \in Q /\ seq[i + 1] \in Q
  BY <1>2
<1> QED BY <1>1, <1>3 DEF Cut

Removed(h, list, k) ==
  IF k = 1 THEN [h EXCEPT !.player_list = h.next[@], !.count = @ - 1]
  ELSE [h EXCEPT !.next[list[k - 1]] = h.next[list[k]], !.count = @ - 1]

\* The walk of remove_player finds the first node with that player.
LEMMA RemovedIs ==
  ASSUME NEW h, IsHeap(h), NEW list, Path(h.next, h.player_list, list), NEW p,
         NEW k, k = PL!FirstIn(PlayersOf(h, list), {p})
  PROVE  remove_player(h, p) = IF k = 0 THEN h ELSE Removed(h, list, k)
<1> DEFINE q == PlayersOf(h, list)
           found == {m \in 2..Len(list) : h.player[list[m]] = p}
<1>1. /\ list \in Seq(1..Len(h.next)) /\ Len(list) \in Nat
      /\ (list = <<>> <=> h.player_list = NULL)
      /\ (h.player_list # NULL => list[1] = h.player_list)
  BY DEF Path
<1>2. /\ q \in Seq(Names) /\ Len(q) = Len(list)
      /\ \A i \in 1..Len(list) : q[i] = h.player[list[i]]
  BY <1>1, PlayersOfPath
<1>3. /\ k \in 0..Len(list) /\ (k # 0 => q[k] = p)
      /\ \A i \in 1..Len(list) : q[i] = p => k # 0 /\ k <= i
  <2>1. /\ k \in 0..Len(q) /\ (k # 0 => q[k] \in {p})
        /\ \A i \in 1..Len(q) : q[i] \in {p} => k # 0 /\ k <= i
    BY <1>2, FirstFound
  <2> HIDE DEF q
  <2> QED BY <1>2, <2>1
<1>4. Chain(h, h.player_list) = list
  BY PathIsChain DEF IsHeap
<1> HIDE DEF q
<1>5. remove_player(h, p) =
        IF list = <<>> THEN h
        ELSE IF h.player[h.player_list] = p
        THEN [h EXCEPT !.player_list = h.next[@], !.count = @ - 1]
        ELSE IF found = {} THEN h
        ELSE [h EXCEPT !.next[list[Min(found) - 1]] = h.next[list[Min(found)]],
                       !.count = @ - 1]
  BY <1>4, Zenon DEF remove_player
<1>9. /\ k \in 0..Len(list) /\ (k # 0 => h.player[list[k]] = p)
      /\ \A i \in 1..Len(list) : h.player[list[i]] = p => k # 0 /\ k <= i
  <2>1. k \in 0..Len(list) /\ (k # 0 => k \in 1..Len(list))
    BY <1>1, <1>3
  <2> QED BY <1>2, <1>3, <2>1, Zenon
<1>10. list # <<>> => 1 \in 1..Len(list) /\ h.player_list = list[1]
  <2>1. list # <<>> => Len(list) # 0
    BY <1>1
  <2> QED BY <1>1, <2>1
<1>11. k # 0 => list # <<>>
  <2>1. k # 0 => Len(list) # 0
    BY <1>1, <1>9
  <2> QED BY <2>1
<1>6. CASE k = 0
  <2>1. found = {}
    <3>1. \A m \in 2..Len(list) : m \in 1..Len(list)
      BY <1>1
    <3> QED BY <1>6, <1>9, <3>1
  <2>2. list # <<>> => h.player[h.player_list] # p
    BY <1>6, <1>9, <1>10
  <2> QED BY <1>5, <1>6, <2>1, <2>2, Zenon
<1>7. CASE k = 1
  <2>1. list # <<>> /\ h.player[h.player_list] = p
    BY <1>7, <1>9, <1>10, <1>11
  <2> QED BY <1>5, <1>7, <2>1 DEF Removed
<1>8. CASE k > 1
  <2>1. list # <<>> /\ h.player[h.player_list] # p
    <3>1. k # 0 /\ ~(k <= 1)
      BY <1>8, <1>9
    <3> QED BY <1>9, <1>10, <1>11, <3>1
  <2>2. found \in SUBSET Nat /\ k \in found /\ \A m \in found : k <= m
    <3>1. k \in 2..Len(list) /\ k # 0 /\ \A m \in 2..Len(list) : m \in 1..Len(list) /\ m \in Nat
      BY <1>1, <1>8, <1>9
    <3> QED BY <1>9, <3>1
  <2>3. Min(found) \in found /\ \A m \in found : Min(found) <= m
    BY <2>2, MinIsLeast, Zenon
  <2>4. Min(found) = k
    <3> HIDE DEF found
    <3>1. Min(found) \in Nat /\ k \in Nat /\ Min(found) <= k /\ k <= Min(found)
      BY <2>2, <2>3
    <3> QED BY <3>1
  <2> HIDE DEF found
  <2> QED BY <1>5, <1>8, <2>1, <2>2, <2>4 DEF Removed
<1> QED BY <1>1, <1>9, <1>6, <1>7, <1>8

\* The list without its k-th node, and which pointers change.
LEMMA RemovedNode ==
  ASSUME NEW h, IsHeap(h), NEW list, Path(h.next, h.player_list, list),
         h.count \in Int, NEW k \in 1..Len(list)
  PROVE  LET t == Removed(h, list, k)
         IN  /\ IsHeap(t)
             /\ Len(t.next) = Len(h.next)
             /\ t.player = h.player
             /\ t.count = h.count - 1
             /\ t.drawing_player_list = h.drawing_player_list
             /\ \A m \in 1..Len(h.next) :
                  (k # 1 => m # list[k - 1]) => t.next[m] = h.next[m]
             /\ Path(t.next, t.player_list, Cut(list, k))
<1> DEFINE t == Removed(h, list, k)
           Q == 1..Len(h.next)
           cut == Cut(list, k)
           after == IF k = Len(list) THEN NULL ELSE list[k + 1]
<1>1. /\ Links(h.next) /\ h.next \in Seq(Nat) /\ Len(h.next) \in Nat
      /\ h.player \in Seq(Names) /\ Len(h.player) = Len(h.next)
      /\ h.player_list \in 0..Len(h.next) /\ h.drawing_player_list \in 0..Len(h.next)
      /\ DOMAIN h = {"next", "player", "player_list", "count", "drawing_player_list"}
  BY DEF IsHeap, Links
<1>2. /\ list \in Seq(Q) /\ Len(list) \in Nat /\ k \in Nat
      /\ list[1] = h.player_list
      /\ \A j \in 1..Len(list) : h.next[list[j]] = IF j = Len(list) THEN NULL ELSE list[j + 1]
  BY DEF Path
<1>3. \A i, j \in 1..Len(list) : i < j => list[j] < list[i]
  BY <1>1, PathFalls
<1> HIDE DEF Q
<1>9. \A j \in 1..Len(list) : list[j] \in Q
  BY <1>2
<1>10. \A x \in Q : x \in 1..Len(h.next) /\ x \in Nat /\ x # NULL
  BY <1>1 DEF Q, NULL
<1>11. Q = 1..Len(h.next)
  BY DEF Q
<1>4. h.next[list[k]] = after /\ list[k] \in Q /\ after \in 0..(list[k] - 1)
  BY <1>1, <1>2, <1>9, <1>10 DEF Links
<1>5. /\ DOMAIN t = DOMAIN h /\ t.player = h.player /\ t.count = h.count - 1
      /\ t.drawing_player_list = h.drawing_player_list
  BY <1>1 DEF Removed
<1>6. /\ cut \in Seq(Q) /\ Len(cut) = Len(list) - 1
      /\ \A i \in 1..(Len(list) - 1) : cut[i] = IF i < k THEN list[i] ELSE list[i + 1]
  BY <1>2, CutIs
<1> HIDE DEF cut, after
<1>7. CASE k = 1
  <2>1. t.next = h.next /\ t.player_list = after
    BY <1>1, <1>2, <1>4, <1>7 DEF Removed
  <2> HIDE DEF t
  <2>2. after \in 0..Len(h.next)
    BY <1>1, <1>4, <1>10
  <2>3. IsHeap(t)
    BY <1>1, <1>5, <2>1, <2>2 DEF IsHeap
  <2>4. ASSUME NEW i \in 1..Len(cut)
        PROVE  t.next[cut[i]] = IF i = Len(cut) THEN NULL ELSE cut[i + 1]
    <3>1. i + 1 \in 1..Len(list) /\ i \in 1..(Len(list) - 1) /\ ~(i < k)
      BY <1>2, <1>6, <1>7
    <3>2. cut[i] = list[i + 1]
      BY <1>6, <3>1
    <3>3. h.next[list[i + 1]] = IF i + 1 = Len(list) THEN NULL ELSE list[(i + 1) + 1]
      BY <1>2, <3>1
    <3>4. CASE i = Len(cut)
      BY <1>2, <1>6, <2>1, <3>2, <3>3, <3>4
    <3>5. CASE i # Len(cut)
      <4>1. i + 1 \in 1..(Len(list) - 1) /\ ~(i + 1 < k) /\ i + 1 # Len(list)
        BY <1>2, <1>6, <1>7, <3>5
      <4>2. cut[i + 1] = list[(i + 1) + 1]
        BY <1>6, <4>1
      <4> QED BY <2>1, <3>2, <3>3, <3>5, <4>1, <4>2
    <3> QED BY <3>4, <3>5
  <2>5. CASE Len(list) = 1
    <3>1. cut = <<>> /\ after = NULL
      BY <1>6, <1>7, <2>5 DEF after
    <3>2. Path(t.next, t.player_list, cut)
      <4>1. Len(t.next) = Len(h.next)
        BY <2>1
      <4>2. cut \in Seq(1..Len(t.next))
        BY <1>6, <1>11, <4>1
      <4> QED BY <2>1, <2>4, <3>1, <4>2 DEF Path
    <3> QED BY <1>5, <2>1, <2>3, <3>2 DEF t, cut
  <2>6. CASE Len(list) # 1
    <3>1. cut # <<>> /\ 1 \in 1..(Len(list) - 1) /\ ~(1 < k) /\ 2 \in 1..Len(list)
      BY <1>2, <1>6, <1>7, <2>6
    <3>2. after = list[2] /\ list[2] \in Q
      BY <1>7, <1>9, <2>6, <3>1 DEF after
    <3>3. cut[1] = list[2] /\ after # NULL
      BY <1>6, <1>10, <3>1, <3>2
    <3>4. Path(t.next, t.player_list, cut)
      <4>1. Len(t.next) = Len(h.next)
        BY <2>1
      <4>2. cut \in Seq(1..Len(t.next))
        BY <1>6, <1>11, <4>1
      <4> QED BY <2>1, <2>4, <3>1, <3>2, <3>3, <4>2 DEF Path
    <3> QED BY <1>5, <2>1, <2>3, <3>4 DEF t, cut
  <2> QED BY <2>5, <2>6
<1>8. CASE k # 1
  <2> DEFINE l == list[k - 1]
  <2>1. k - 1 \in 1..Len(list) /\ l \in Q /\ list[k] < l
    <3>1. k - 1 \in 1..Len(list) /\ k - 1 < k
      BY <1>2, <1>8
    <3> QED BY <1>3, <1>9, <3>1
  <2>2. t.next = [h.next EXCEPT ![l] = after] /\ t.player_list = h.player_list
    BY <1>1, <1>4, <1>8 DEF Removed
  <2> HIDE DEF t, l
  <2>3. /\ t.next \in Seq(Nat) /\ Len(t.next) = Len(h.next)
        /\ t.next[l] = after
        /\ \A m \in Q : m # l => t.next[m] = h.next[m]
    <3>1. after \in Nat /\ l \in 1..Len(h.next) /\ Q = 1..Len(h.next)
      BY <1>4, <1>10, <2>1 DEF Q
    <3> QED BY <1>1, <2>2, <3>1
  <2>4. IsHeap(t)
    <3>1. after \in 0..(l - 1)
      BY <1>4, <1>10, <2>1
    <3>2. ASSUME NEW m \in 1..Len(t.next) PROVE t.next[m] \in 0..(m - 1)
      <4>1. m \in Q /\ m \in 1..Len(h.next)
        BY <2>3 DEF Q
      <4> QED BY <1>1, <2>3, <3>1, <4>1 DEF Links
    <3>3. Links(t.next)
      BY <2>3, <3>2 DEF Links
    <3> QED BY <1>1, <1>5, <2>2, <2>3, <3>3 DEF IsHeap
  <2>5. ASSUME NEW i \in 1..Len(cut)
        PROVE  t.next[cut[i]] = IF i = Len(cut) THEN NULL ELSE cut[i + 1]
    <3>1. i \in 1..(Len(list) - 1) /\ i \in 1..Len(list) /\ i + 1 \in 1..Len(list) /\ i \in Nat
      BY <1>2, <1>6
    <3>2. CASE i < k - 1
      <4>1. cut[i] = list[i] /\ l < list[i] /\ list[i] \in Q
        <5>1. i < k
          BY <1>2, <3>1, <3>2
        <5> QED BY <1>3, <1>6, <1>9, <2>1, <3>1, <3>2, <5>1 DEF l
      <4>2. t.next[cut[i]] = h.next[list[i]]
        <5>1. cut[i] # l
          BY <1>10, <2>1, <4>1
        <5> QED BY <2>3, <4>1, <5>1
      <4>3. i # Len(list) /\ i # Len(cut) /\ i + 1 \in 1..(Len(list) - 1) /\ i + 1 < k
        BY <1>2, <1>6, <3>1, <3>2
      <4>4. cut[i + 1] = list[i + 1]
        BY <1>6, <4>3
      <4> QED BY <1>2, <3>1, <4>2, <4>3, <4>4
    <3>3. CASE i = k - 1
      <4>1. cut[i] = l
        BY <1>2, <1>6, <3>1, <3>3 DEF l
      <4>2. CASE k = Len(list)
        BY <1>6, <2>3, <3>3, <4>1, <4>2 DEF after
      <4>3. CASE k # Len(list)
        <5>1. i # Len(cut) /\ i + 1 \in 1..(Len(list) - 1) /\ ~(i + 1 < k) /\ i + 1 = k
          BY <1>2, <1>6, <3>1, <3>3, <4>3
        <5>2. cut[i + 1] = list[k + 1]
          BY <1>6, <5>1
        <5> QED BY <2>3, <4>1, <4>3, <5>1, <5>2 DEF after
      <4> QED BY <4>2, <4>3
    <3>4. CASE i > k - 1
      <4>1. cut[i] = list[i + 1] /\ list[i + 1] < l /\ list[i + 1] \in Q
        <5>1. ~(i < k) /\ k - 1 < i + 1
          BY <1>2, <3>1, <3>4
        <5>2. cut[i] = list[i + 1]
          BY <1>6, <3>1, <5>1
        <5>3. list[i + 1] < list[k - 1]
          BY <1>3, <2>1, <3>1, <5>1
        <5> QED BY <1>9, <3>1, <5>2, <5>3 DEF l
      <4>2. t.next[cut[i]] = h.next[list[i + 1]]
        <5>1. cut[i] # l
          BY <1>10, <2>1, <4>1
        <5> QED BY <2>3, <4>1, <5>1
      <4>3. h.next[list[i + 1]] = IF i + 1 = Len(list) THEN NULL ELSE list[(i + 1) + 1]
        BY <1>2, <3>1
      <4>4. i + 1 = Len(list) <=> i = Len(cut)
        BY <1>2, <1>6, <3>1
      <4>5. i # Len(cut) => cut[i + 1] = list[(i + 1) + 1]
        <5>1. i # Len(cut) => i + 1 \in 1..(Len(list) - 1) /\ ~(i + 1 < k)
          BY <1>2, <1>6, <3>1, <3>4
        <5> QED BY <1>6, <5>1
      <4> QED BY <4>2, <4>3, <4>4, <4>5
    <3> QED BY <1>2, <3>1, <3>2, <3>3, <3>4
  <2>6. /\ cut # <<>> /\ cut[1] = h.player_list /\ h.player_list # NULL
    <3>1. 1 \in 1..(Len(list) - 1) /\ 1 < k
      BY <1>2, <1>8
    <3>2. cut[1] = list[1]
      BY <1>6, <3>1
    <3>3. 1 \in 1..Len(list) /\ Len(cut) # 0
      BY <1>2, <1>6, <3>1
    <3>4. list[1] \in Q
      BY <1>9, <3>3
    <3> QED BY <1>2, <1>6, <1>10, <3>2, <3>3, <3>4
  <2>7. Path(t.next, t.player_list, cut)
    <3>1. Len(t.next) = Len(h.next)
      BY <2>3
    <3>2. cut \in Seq(1..Len(t.next))
      BY <1>6, <1>11, <3>1
    <3> QED BY <2>2, <2>3, <2>5, <2>6, <3>2 DEF Path
  <2>8. \A m \in 1..Len(h.next) : (k # 1 => m # list[k - 1]) => t.next[m] = h.next[m]
    BY <1>8, <2>3 DEF l, Q
  <2> QED BY <1>5, <2>3, <2>4, <2>7, <2>8 DEF t, cut
<1> QED BY <1>7, <1>8

\* The unlinked nodes and how many nodes of the list are reached, without the k-th node.
Unlinked(list, dead, v, k) ==
  IF k = Len(list) - v + 1 THEN Append(dead, list[k]) ELSE dead
StillReached(list, v, k) == IF k < Len(list) - v + 1 THEN v ELSE v - 1

\* The shape that a removal leaves: the node stays reached only if the drawing pointer,
\* or an unlinked node, points to it.
LEMMA RemovedShape ==
  ASSUME NEW h, IsHeap(h), NEW list, NEW dead, NEW v, Shape(h, list, dead, v),
         h.count \in Int, NEW k \in 1..Len(list)
  PROVE  Shape(Removed(h, list, k), Cut(list, k), Unlinked(list, dead, v, k),
               StillReached(list, v, k))
<1> DEFINE t == Removed(h, list, k)
           cut == Cut(list, k)
           Q == 1..Len(h.next)
           e == Len(list) - v + 1
           gone == Unlinked(list, dead, v, k)
           w == StillReached(list, v, k)
           n == Len(dead)
<1>1. /\ Path(h.next, h.player_list, list)
      /\ list \in Seq(Q) /\ dead \in Seq(Q) /\ v \in 0..Len(list)
      /\ Len(list) \in Nat /\ v \in Nat /\ n \in Nat /\ k \in Nat
      /\ Links(h.next)
      /\ \A j \in 1..Len(list) : h.next[list[j]] = IF j = Len(list) THEN NULL ELSE list[j + 1]
      /\ \A i \in 1..n, j \in 1..Len(list) : dead[i] # list[j]
      /\ h.drawing_player_list = IF dead = <<>> THEN FirstOfLast(list, v) ELSE dead[1]
      /\ \A i \in 1..n : h.next[dead[i]] = IF i = n THEN FirstOfLast(list, v) ELSE dead[i + 1]
  <2>1. /\ list \in Seq(Q) /\ dead \in Seq(Q) /\ v \in 0..Len(list) /\ Links(h.next)
        /\ \A j \in 1..Len(list) :
             h.next[list[j]] = IF j = Len(list) THEN NULL ELSE list[j + 1]
    BY Zenon DEF Shape, Path, IsHeap
  <2> HIDE DEF Q
  <2>2. Len(list) \in Nat /\ v \in Nat /\ n \in Nat /\ k \in Nat
    BY <2>1
  <2> QED BY <2>1, <2>2, Zenon DEF Shape
<1>2. /\ Len(t.next) = Len(h.next) /\ t.drawing_player_list = h.drawing_player_list
      /\ \A m \in Q : (k # 1 => m # list[k - 1]) => t.next[m] = h.next[m]
      /\ Path(t.next, t.player_list, cut)
  BY <1>1, RemovedNode
<1>3. /\ cut \in Seq(Q) /\ Len(cut) = Len(list) - 1
      /\ \A i \in 1..(Len(list) - 1) : cut[i] = IF i < k THEN list[i] ELSE list[i + 1]
  BY <1>1, CutIs
<1> HIDE DEF t, cut, Q
<1>4. Q = 1..Len(t.next)
  BY <1>2 DEF Q
<1>5. /\ \A j \in 1..Len(list) : list[j] \in Q
      /\ \A i \in 1..n : dead[i] \in Q
  BY <1>1
<1>6. \A x \in Q : x \in Nat
  BY DEF Q
<1>7. \A i, j \in 1..Len(list) : i # j => list[i] # list[j]
  <2>1. \A i, j \in 1..Len(list) : i < j => list[j] < list[i]
    BY <1>1, PathFalls
  <2>2. ASSUME NEW i \in 1..Len(list), NEW j \in 1..Len(list), i # j PROVE list[i] # list[j]
    <3>1. i < j \/ j < i
      BY <1>1, <2>2
    <3>2. list[i] \in Nat /\ list[j] \in Nat
      BY <1>5, <1>6
    <3> QED BY <2>1, <3>1, <3>2
  <2> QED BY <2>2
<1>8. \A i \in 1..n : t.next[dead[i]] = h.next[dead[i]]
  <2>1. k # 1 => k - 1 \in 1..Len(list)
    BY <1>1
  <2> QED BY <1>1, <1>2, <1>5, <2>1
<1>9. t.next[list[k]] = h.next[list[k]]
  <2>1. k # 1 => k - 1 \in 1..Len(list) /\ k - 1 # k
    BY <1>1
  <2> QED BY <1>2, <1>5, <1>7, <2>1
<1>10. e \in 1..(Len(list) + 1) /\ e \in Nat /\ (v = 0 <=> e = Len(list) + 1)
       /\ FirstOfLast(list, v) = IF v = 0 THEN NULL ELSE list[e]
  BY <1>1 DEF FirstOfLast
<1>11. w = IF k < e THEN v ELSE v - 1
  BY DEF StillReached
<1>12. gone = IF k = e THEN Append(dead, list[k]) ELSE dead
  BY DEF Unlinked
<1>13. w \in 0..Len(cut) /\ FirstOfLast(cut, w) = IF w = 0 THEN NULL ELSE cut[Len(cut) - w + 1]
  <2>1. v = Len(list) - e + 1
    BY <1>1
  <2> HIDE DEF w, e
  <2> QED BY <1>1, <1>3, <1>10, <1>11, <2>1 DEF FirstOfLast
<1>14. v = Len(list) - e + 1
  BY <1>1
<1> HIDE DEF w, e, gone, n
<1>15. ASSUME NEW i \in 1..n, NEW j \in 1..Len(cut) PROVE dead[i] # cut[j]
  <2>1. j \in 1..Len(list) /\ j + 1 \in 1..Len(list) /\ j \in 1..(Len(list) - 1)
    BY <1>1, <1>3
  <2> QED BY <1>1, <1>3, <2>1
<1>16. CASE k = e
  <2>1. w = v - 1 /\ v # 0 /\ FirstOfLast(list, v) = list[k]
    BY <1>1, <1>10, <1>11, <1>14, <1>16
  <2>2. FirstOfLast(cut, w) = h.next[list[k]]
    <3>1. CASE k = Len(list)
      <4>1. w = 0
        BY <1>1, <1>14, <1>16, <2>1, <3>1
      <4> QED BY <1>1, <1>13, <3>1, <4>1
    <3>2. CASE k # Len(list)
      <4>1. w # 0 /\ Len(cut) - w + 1 = k /\ k \in 1..(Len(list) - 1) /\ ~(k < k)
        BY <1>1, <1>3, <1>14, <1>16, <2>1, <3>2
      <4>2. cut[k] = list[k + 1]
        BY <1>3, <4>1
      <4> QED BY <1>1, <1>13, <3>2, <4>1, <4>2
    <3> QED BY <3>1, <3>2
  <2>3. /\ gone \in Seq(Q) /\ Len(gone) = n + 1 /\ gone[n + 1] = list[k]
        /\ \A i \in 1..n : gone[i] = dead[i]
    <3>1. list[k] \in Q
      BY <1>5
    <3> QED BY <1>1, <1>12, <1>16, <3>1 DEF n
  <2>4. t.drawing_player_list = gone[1] /\ gone # <<>>
    <3>1. gone # <<>>
      BY <1>1, <2>3
    <3>2. CASE dead = <<>>
      <4>1. n = 0
        BY <3>2 DEF n
      <4> QED BY <1>1, <1>2, <2>1, <2>3, <3>1, <3>2, <4>1
    <3>3. CASE dead # <<>>
      <4>1. 1 \in 1..n
        <5>1. Len(dead) # 0
          BY <1>1, <3>3
        <5> QED BY <1>1, <5>1 DEF n
      <4> QED BY <1>1, <1>2, <2>3, <3>1, <3>3, <4>1
    <3> QED BY <3>2, <3>3
  <2>5. ASSUME NEW i \in 1..Len(gone)
        PROVE  t.next[gone[i]] = IF i = Len(gone) THEN FirstOfLast(cut, w) ELSE gone[i + 1]
    <3>1. CASE i = n + 1
      BY <1>9, <2>2, <2>3, <3>1
    <3>2. CASE i # n + 1
      <4>1. i \in 1..n /\ i # Len(gone)
        BY <1>1, <2>3, <3>2
      <4>2. t.next[gone[i]] = IF i = n THEN list[k] ELSE dead[i + 1]
        BY <1>1, <1>8, <2>1, <2>3, <4>1
      <4>3. i # n => i + 1 \in 1..n
        BY <1>1, <4>1
      <4> QED BY <2>3, <4>1, <4>2, <4>3
    <3> QED BY <3>1, <3>2
  <2>6. ASSUME NEW i \in 1..Len(gone), NEW j \in 1..Len(cut) PROVE gone[i] # cut[j]
    <3>1. CASE i = n + 1
      <4>1. /\ j \in 1..(Len(list) - 1) /\ j \in 1..Len(list) /\ j + 1 \in 1..Len(list)
            /\ (j < k => j # k) /\ (~(j < k) => j + 1 # k)
        BY <1>1, <1>3
      <4> QED BY <1>3, <1>7, <2>3, <3>1, <4>1
    <3>2. CASE i # n + 1
      <4>1. i \in 1..n
        BY <1>1, <2>3, <3>2
      <4> QED BY <1>15, <2>3, <4>1
    <3> QED BY <3>1, <3>2
  <2>7. gone \in Seq(1..Len(t.next))
    BY <1>4, <2>3
  <2>8. Shape(t, cut, gone, w)
    BY <1>2, <1>13, <2>4, <2>5, <2>6, <2>7 DEF Shape
  <2> QED BY <2>8 DEF t, cut, gone, w
<1>17. CASE k # e
  <2>1. gone = dead
    BY <1>12, <1>17
  <2>2. FirstOfLast(cut, w) = FirstOfLast(list, v)
    <3>1. CASE k < e
      <4>1. w = v
        BY <1>11, <3>1
      <4>2. CASE v = 0
        BY <1>10, <1>13, <4>1, <4>2
      <4>3. CASE v # 0
        <5>1. /\ Len(cut) - w + 1 = e - 1 /\ e - 1 \in 1..(Len(list) - 1)
              /\ ~(e - 1 < k) /\ (e - 1) + 1 = e
          BY <1>1, <1>3, <1>10, <1>14, <3>1, <4>1, <4>3
        <5>2. cut[e - 1] = list[e]
          BY <1>3, <5>1
        <5> QED BY <1>10, <1>13, <4>1, <4>3, <5>1, <5>2
      <4> QED BY <4>2, <4>3
    <3>2. CASE k > e
      <4>1. w = v - 1 /\ v # 0 /\ w # 0
        BY <1>1, <1>10, <1>11, <1>14, <3>2
      <4>2. Len(cut) - w + 1 = e /\ e \in 1..(Len(list) - 1) /\ e < k
        BY <1>1, <1>3, <1>10, <1>14, <3>2, <4>1
      <4>3. cut[e] = list[e]
        BY <1>3, <4>2
      <4> QED BY <1>10, <1>13, <4>1, <4>2, <4>3
    <3> QED BY <1>1, <1>10, <1>17, <3>1, <3>2
  <2>3. dead \in Seq(1..Len(t.next))
    BY <1>1, <1>4
  <2>4. \A i \in 1..Len(dead), j \in 1..Len(cut) : dead[i] # cut[j]
    BY <1>15 DEF n
  <2>5. \A i \in 1..Len(dead) :
          t.next[dead[i]] = IF i = Len(dead) THEN FirstOfLast(cut, w) ELSE dead[i + 1]
    BY <1>1, <1>8, <2>2 DEF n
  <2>6. t.drawing_player_list = IF dead = <<>> THEN FirstOfLast(cut, w) ELSE dead[1]
    BY <1>1, <1>2, <2>2
  <2>7. Shape(t, cut, dead, w)
    BY <1>2, <1>13, <2>3, <2>4, <2>5, <2>6 DEF Shape
  <2> QED BY <2>1, <2>7 DEF t, cut, gone, w
<1> QED BY <1>16, <1>17

\* The last v elements.
LEMMA TailIs ==
  ASSUME NEW Q, NEW seq \in Seq(Q), NEW v \in 0..Len(seq)
  PROVE  /\ PL!From(seq, Len(seq) - v + 1) \in Seq(Q)
         /\ Len(PL!From(seq, Len(seq) - v + 1)) = v
         /\ \A i \in 1..v : PL!From(seq, Len(seq) - v + 1)[i] = seq[Len(seq) - v + i]
<1> DEFINE e == Len(seq) - v + 1
<1>1. /\ Len(seq) \in Nat /\ v \in Nat /\ Len(seq) - e + 1 = v
      /\ \A i \in 1..v : e + i - 1 = Len(seq) - v + i /\ Len(seq) - v + i \in 1..Len(seq)
  OBVIOUS
<1>2. PL!From(seq, e) = [i \in 1..v |-> seq[Len(seq) - v + i]]
  <2>1. PL!From(seq, e) = [i \in 1..v |-> seq[e + i - 1]]
    BY <1>1 DEF PL!From
  <2> HIDE DEF e
  <2> QED BY <1>1, <2>1
<1>3. \A i \in 1..v : seq[Len(seq) - v + i] \in Q
  BY <1>1
<1> HIDE DEF e
<1>4. PL!From(seq, e) \in Seq(Q) /\ Len(PL!From(seq, e)) = v
  BY <1>1, <1>2, <1>3
<1> QED BY <1>2, <1>4 DEF e

\* Removing a player from the list and from its end that the drawing pointer reaches.
LEMMA TailWithout ==
  ASSUME NEW Q, NEW q \in Seq(Q), IsInjective(q), NEW v \in 0..Len(q), NEW k \in 1..Len(q)
  PROVE  LET live == PL!From(q, Len(q) - v + 1)
             cut == Cut(q, k)
         IN  /\ PL!Without(q, q[k]) = cut
             /\ PL!FirstIn(live, {q[k]}) = 1 <=> k = Len(q) - v + 1
             /\ PL!Without(live, q[k]) = PL!From(cut, Len(cut) - StillReached(q, v, k) + 1)
<1> DEFINE p == q[k]
           e == Len(q) - v + 1
           live == PL!From(q, e)
           cut == Cut(q, k)
           w == StillReached(q, v, k)
           f == PL!FirstIn(live, {p})
           rest == PL!From(cut, Len(cut) - w + 1)
<1>1. Len(q) \in Nat /\ v \in Nat /\ k \in Nat /\ e \in Nat /\ e = Len(q) - v + 1
  OBVIOUS
<1>2. PL!Without(q, p) = cut
  <2>1. PL!FirstIn(q, {p}) = k
    BY FirstIsThere
  <2>2. k # 0
    BY <1>1
  <2> QED BY <2>1, <2>2 DEF PL!Without, Cut
<1>3. /\ live \in Seq(Q) /\ Len(live) = v
      /\ \A i \in 1..v : live[i] = q[Len(q) - v + i]
  BY TailIs
<1>4. /\ cut \in Seq(Q) /\ Len(cut) = Len(q) - 1
      /\ \A i \in 1..(Len(q) - 1) : cut[i] = IF i < k THEN q[i] ELSE q[i + 1]
  BY CutIs
<1>5. w = IF k < e THEN v ELSE v - 1
  BY DEF StillReached
<1>6. ASSUME NEW i \in 1..Len(q), NEW j \in 1..Len(q), q[i] = q[j] PROVE i = j
  BY <1>6 DEF IsInjective
<1>7. w \in 0..Len(cut) /\ w \in Nat
  <2> HIDE DEF w, e, cut
  <2> QED BY <1>1, <1>4, <1>5
<1>8. /\ Len(rest) = w /\ rest \in Seq(Q)
      /\ \A i \in 1..w : rest[i] = cut[Len(cut) - w + i]
  <2> HIDE DEF w, cut
  <2> QED BY <1>4, <1>7, TailIs
<1> HIDE DEF live, cut, w, e, rest
<1>9. CASE k < e
  <2>1. ASSUME NEW i \in 1..Len(live) PROVE live[i] \notin {p}
    <3>1. i \in 1..v /\ Len(q) - v + i \in 1..Len(q) /\ Len(q) - v + i # k
      BY <1>1, <1>3, <1>9
    <3> QED BY <1>3, <1>6, <3>1
  <2>2. f = 0
    <3>1. f \in 0..Len(live) /\ (f # 0 => live[f] \in {p})
      BY <1>3, FirstFound
    <3> HIDE DEF f
    <3>2. f # 0 => f \in 1..Len(live)
      BY <1>1, <1>3, <3>1
    <3> QED BY <2>1, <3>1, <3>2
  <2>3. PL!Without(live, p) = live
    BY <2>2 DEF PL!Without
  <2>4. ASSUME NEW i \in 1..v
        PROVE  live[i] = rest[i]
    <3>1. /\ w = v /\ i \in 1..w /\ Len(cut) - w + i \in 1..(Len(q) - 1)
          /\ ~(Len(cut) - w + i < k) /\ (Len(cut) - w + i) + 1 = Len(q) - v + i
      BY <1>1, <1>4, <1>5, <1>9
    <3>2. rest[i] = cut[Len(cut) - w + i]
      BY <1>8, <3>1
    <3>3. cut[Len(cut) - w + i] = q[Len(q) - v + i]
      BY <1>4, <3>1
    <3> QED BY <1>3, <3>2, <3>3
  <2>5. live = rest
    BY <1>3, <1>5, <1>8, <1>9, <2>4
  <2>6. ~(k = e) /\ f # 1
    BY <1>1, <1>9, <2>2
  <2> QED BY <1>2, <2>3, <2>5, <2>6 DEF live, cut, w, e, rest
<1>10. CASE k >= e
  <2> DEFINE m == k - e + 1
  <2>1. m \in 1..v /\ m \in Nat /\ Len(q) - v + m = k
    BY <1>1, <1>10
  <2>2. IsInjective(live)
    <3>1. ASSUME NEW i \in DOMAIN live, NEW j \in DOMAIN live, live[i] = live[j] PROVE i = j
      <4>1. i \in 1..v /\ j \in 1..v
        BY <1>3
      <4>2. Len(q) - v + i \in 1..Len(q) /\ Len(q) - v + j \in 1..Len(q)
        BY <1>1, <4>1
      <4>3. Len(q) - v + i = Len(q) - v + j
        BY <1>3, <1>6, <3>1, <4>1, <4>2
      <4> QED BY <1>1, <4>1, <4>3
    <3> QED BY <3>1 DEF IsInjective
  <2> HIDE DEF m
  <2>3. m \in 1..Len(live) /\ live[m] = p
    BY <1>3, <2>1
  <2>4. f = m
    BY <1>3, <2>2, <2>3, FirstIsThere
  <2>5. PL!Without(live, p)
          = [i \in 1..(v - 1) |-> IF i < m THEN live[i] ELSE live[i + 1]]
    <3>1. m # 0
      BY <2>1
    <3> QED BY <1>3, <2>4, <3>1 DEF PL!Without
  <2>6. w = v - 1 /\ Len(cut) - w + 1 = e
    <3>1. ~(k < e)
      BY <1>1, <1>10
    <3> QED BY <1>1, <1>4, <1>5, <3>1
  <2>7. ASSUME NEW i \in 1..w
        PROVE  (IF i < m THEN live[i] ELSE live[i + 1]) = rest[i]
    <3>1. /\ i \in 1..v /\ i + 1 \in 1..v /\ Len(cut) - w + i \in 1..(Len(q) - 1)
          /\ Len(cut) - w + i = Len(q) - v + i
          /\ (Len(cut) - w + i) + 1 = Len(q) - v + (i + 1)
      <4>1. i \in Nat /\ i >= 1 /\ i <= v - 1 /\ Len(cut) - w = Len(q) - v
        BY <1>1, <1>4, <1>7, <2>6
      <4> QED BY <1>1, <4>1
    <3>2. i < m <=> Len(cut) - w + i < k
      BY <1>1, <2>1, <3>1
    <3>3. live[i] = q[Len(q) - v + i] /\ live[i + 1] = q[Len(q) - v + (i + 1)]
      BY <1>3, <3>1
    <3>4. cut[Len(cut) - w + i] = IF i < m THEN live[i] ELSE live[i + 1]
      BY <1>4, <3>1, <3>2, <3>3
    <3> QED BY <1>8, <3>4
  <2>8. PL!Without(live, p) = rest
    <3>1. rest
            = [i \in 1..w |-> rest[i]]
      BY <1>8
    <3> QED BY <2>5, <2>6, <2>7, <3>1
  <2>9. f = 1 <=> k = e
    BY <1>1, <2>1, <2>4 DEF m
  <2> QED BY <1>2, <2>8, <2>9 DEF live, cut, w, e, rest
<1> QED BY <1>1, <1>9, <1>10

\* remove_player takes the player out of the list, which stays as it is without him.
LEMMA RemoveAgrees ==
  ASSUME NEW h, IsHeap(h), NEW list, NEW dead, NEW v, Shape(h, list, dead, v),
         h.count \in Int, IsInjective(PlayersOf(h, list)), NEW p
  PROVE  View(remove_player(h, p)) = PL!remove_player(View(h), p)
<1> DEFINE q == PlayersOf(h, list)
           k == PL!FirstIn(q, {p})
           e == Len(list) - v + 1
           live == PL!From(q, e)
           gone == PlayersOf(h, dead)
<1>1. /\ Path(h.next, h.player_list, list) /\ list \in Seq(1..Len(h.next))
      /\ dead \in Seq(1..Len(h.next)) /\ v \in 0..Len(list)
  BY DEF Shape, Path
<1>2. /\ q \in Seq(Names) /\ Len(q) = Len(list)
      /\ \A i \in 1..Len(list) : q[i] = h.player[list[i]]
  BY <1>1, PlayersOfPath
<1>3. gone \in Seq(Names)
  BY <1>1, PlayersOfPath
<1>4. View(h) = [list |-> q, dead |-> gone, live |-> live]
  BY ShapeIsView DEF ViewOf
<1>5. remove_player(h, p) = IF k = 0 THEN h ELSE Removed(h, list, k)
  BY <1>1, RemovedIs
<1>6. PL!remove_player(View(h), p) =
        [list |-> PL!Without(q, p),
         dead |-> IF PL!FirstIn(live, {p}) = 1 THEN Append(gone, p) ELSE gone,
         live |-> PL!Without(live, p)]
  BY <1>4 DEF PL!remove_player
<1>7. k \in 0..Len(q) /\ (k # 0 => q[k] \in {p})
      /\ \A i \in 1..Len(q) : q[i] \in {p} => k # 0
  BY <1>2, FirstFound
<1>8. CASE k = 0
  <2>1. /\ live \in Seq(Names) /\ Len(live) = v
        /\ \A i \in 1..v : live[i] = q[Len(q) - v + i]
    <3>1. v \in 0..Len(q) /\ e = Len(q) - v + 1
      BY <1>1, <1>2
    <3> HIDE DEF q, e
    <3> QED BY <1>2, <3>1, TailIs
  <2>2. \A i \in 1..v : Len(q) - v + i \in 1..Len(q)
    <3> HIDE DEF q
    <3> QED BY <1>1, <1>2
  <2>3. PL!FirstIn(live, {p}) = 0
    <3> DEFINE f == PL!FirstIn(live, {p})
    <3>1. f \in 0..v /\ (f # 0 => live[f] \in {p})
      BY <2>1, FirstFound
    <3> HIDE DEF f, live, q, k
    <3>2. f # 0 => f \in 1..v
      BY <3>1
    <3>3. f = 0
      BY <1>7, <1>8, <2>1, <2>2, <3>1, <3>2
    <3> QED BY <3>3 DEF f
  <2>4. PL!Without(q, p) = q /\ PL!Without(live, p) = live
    BY <1>8, <2>3 DEF PL!Without
  <2> HIDE DEF q, live, gone, k
  <2>5. 0 # 1
    OBVIOUS
  <2> QED BY <1>4, <1>5, <1>6, <1>8, <2>3, <2>4, <2>5
<1>9. CASE k # 0
  <2> DEFINE t == Removed(h, list, k)
             cut == Cut(list, k)
             more == Unlinked(list, dead, v, k)
             w == StillReached(list, v, k)
  <2>1. k \in 1..Len(list) /\ q[k] = p
    <3> HIDE DEF k, q
    <3> QED BY <1>1, <1>2, <1>7, <1>9
  <2> HIDE DEF k
  <2>2. IsHeap(t) /\ t.player = h.player /\ Len(t.next) = Len(h.next)
    BY <1>1, <2>1, RemovedNode
  <2>3. Shape(t, cut, more, w)
    BY <2>1, RemovedShape
  <2>4. View(t) = [list |-> PlayersOf(h, cut), dead |-> PlayersOf(h, more),
                   live |-> PL!From(PlayersOf(h, cut), Len(cut) - w + 1)]
    <3>1. View(t) = ViewOf(t, cut, more, w)
      BY <2>2, <2>3, ShapeIsView
    <3>2. \A nodes : PlayersOf(t, nodes) = PlayersOf(h, nodes)
      BY <2>2 DEF PlayersOf
    <3> QED BY <3>1, <3>2 DEF ViewOf
  <2>5. PlayersOf(h, cut) = Cut(q, k) /\ Len(cut) = Len(Cut(q, k))
    <3>1. /\ cut \in Seq(1..Len(h.next)) /\ Len(cut) = Len(list) - 1
          /\ \A i \in 1..(Len(list) - 1) : cut[i] = IF i < k THEN list[i] ELSE list[i + 1]
      BY <1>1, <2>1, CutIs
    <3> HIDE DEF q, cut
    <3>2. /\ Cut(q, k) \in Seq(Names) /\ Len(Cut(q, k)) = Len(list) - 1
          /\ \A i \in 1..(Len(list) - 1) : Cut(q, k)[i] = IF i < k THEN q[i] ELSE q[i + 1]
      <4>1. k \in 1..Len(q)
        BY <1>2, <2>1
      <4> QED BY <1>2, <4>1, CutIs
    <3>3. /\ PlayersOf(h, cut) \in Seq(Names) /\ Len(PlayersOf(h, cut)) = Len(cut)
          /\ \A i \in 1..Len(cut) : PlayersOf(h, cut)[i] = h.player[cut[i]]
      BY <3>1, PlayersOfPath
    <3>4. ASSUME NEW i \in 1..(Len(list) - 1) PROVE PlayersOf(h, cut)[i] = Cut(q, k)[i]
      <4>1. i \in 1..Len(list) /\ i + 1 \in 1..Len(list)
        BY <1>1
      <4>2. PlayersOf(h, cut)[i] = h.player[cut[i]]
        BY <3>1, <3>3
      <4> QED BY <1>2, <3>1, <3>2, <4>1, <4>2
    <3> DEFINE x == PlayersOf(h, cut)
               y == Cut(q, k)
    <3>5. /\ x \in Seq(Names) /\ y \in Seq(Names) /\ Len(x) = Len(list) - 1
          /\ Len(y) = Len(list) - 1 /\ \A i \in 1..(Len(list) - 1) : x[i] = y[i]
      BY <3>1, <3>2, <3>3, <3>4
    <3> HIDE DEF x, y
    <3>6. x = y
      BY <3>5
    <3> QED BY <3>1, <3>2, <3>6 DEF x, y
  <2>6. PlayersOf(h, more) = IF k = e THEN Append(gone, p) ELSE gone
    <3>1. CASE k = e
      <4> DEFINE x == PlayersOf(h, more)
      <4>1. more = Append(dead, list[k])
        BY <3>1 DEF Unlinked
      <4>2. list[k] \in 1..Len(h.next) /\ h.player[list[k]] = p
        BY <1>1, <1>2, <2>1
      <4>3. more \in Seq(1..Len(h.next)) /\ Len(more) = Len(dead) + 1
            /\ more[Len(dead) + 1] = list[k] /\ \A i \in 1..Len(dead) : more[i] = dead[i]
        <5> DEFINE Q == 1..Len(h.next)
        <5>1. list[k] \in Q /\ dead \in Seq(Q)
          BY <1>1, <4>2
        <5> HIDE DEF Q, more
        <5>2. more \in Seq(Q) /\ Len(more) = Len(dead) + 1
              /\ more[Len(dead) + 1] = list[k] /\ \A i \in 1..Len(dead) : more[i] = dead[i]
          BY <4>1, <5>1
        <5> QED BY <5>2 DEF Q
      <4> HIDE DEF more
      <4>4. /\ x \in Seq(Names) /\ Len(x) = Len(more)
            /\ \A i \in 1..Len(more) : x[i] = h.player[more[i]]
        BY <4>3, PlayersOfPath
      <4>5. /\ Len(gone) = Len(dead) /\ Len(dead) \in Nat
            /\ \A i \in 1..Len(dead) : gone[i] = h.player[dead[i]]
        BY <1>1, PlayersOfPath
      <4> HIDE DEF x, gone
      <4>6. ASSUME NEW i \in 1..(Len(dead) + 1)
            PROVE  x[i] = IF i = Len(dead) + 1 THEN p ELSE gone[i]
        <5>1. i # Len(dead) + 1 => i \in 1..Len(dead)
          BY <4>5
        <5> QED BY <4>2, <4>3, <4>4, <4>5, <5>1
      <4>7. x = Append(gone, p)
        <5>1. p \in Names
          BY <1>2, <2>1
        <5> QED BY <1>3, <4>3, <4>4, <4>5, <4>6, <5>1
      <4> QED BY <3>1, <4>7 DEF x
    <3>2. CASE k # e
      BY <3>2 DEF Unlinked
    <3> QED BY <3>1, <3>2
  <2>7. /\ PL!Without(q, p) = Cut(q, k)
        /\ PL!FirstIn(live, {p}) = 1 <=> k = e
        /\ PL!Without(live, p) = PL!From(Cut(q, k), Len(Cut(q, k)) - w + 1)
    <3>1. v \in 0..Len(q) /\ k \in 1..Len(q) /\ e = Len(q) - v + 1
          /\ w = StillReached(q, v, k)
      BY <1>1, <1>2, <2>1 DEF StillReached
    <3> HIDE DEF q, e, w
    <3>2. IsInjective(q)
      BY DEF q
    <3> QED BY <1>2, <2>1, <3>1, <3>2, TailWithout
  <2> HIDE DEF q, live, gone, t, cut, more, w, e
  <2>8. View(t) = PL!remove_player(View(h), p)
    BY <1>6, <2>4, <2>5, <2>6, <2>7
  <2> QED BY <1>5, <1>9, <2>8 DEF t
<1> QED BY <1>8, <1>9

-----------------------------------------------------------------------------
(* get_next_drawing_fd *)

\* The first loop stops at the first node with a player who is online.
LEMMA FirstLoopIs ==
  ASSUME NEW h, IsHeap(h), NEW pl \in 0..Len(h.next), NEW c, Path(h.next, pl, c), NEW online,
         NEW k, k = PL!FirstIn(PlayersOf(h, c), online)
  PROVE  FirstLoop(h, online, pl) =
           [node |-> IF k = 0 THEN NULL ELSE c[k], iterations |-> IF k = 0 THEN Len(c) ELSE k]
<1> DEFINE hits == {i \in DOMAIN c : h.player[c[i]] \in online}
<1>1. Chain(h, pl) = c /\ c \in Seq(1..Len(h.next))
  BY PathIsChain DEF IsHeap, Path
<1>2. FirstLoop(h, online, pl) =
        IF hits = {} THEN [node |-> NULL, iterations |-> Len(c)]
        ELSE [node |-> c[Min(hits)], iterations |-> Min(hits)]
  BY <1>1, Zenon DEF FirstLoop
<1>3. DOMAIN c = 1..Len(c) /\ DOMAIN PlayersOf(h, c) = DOMAIN c /\ Len(PlayersOf(h, c)) = Len(c)
  BY <1>1, PlayersOfPath DEF PlayersOf
<1>4. hits = {i \in 1..Len(PlayersOf(h, c)) : PlayersOf(h, c)[i] \in online}
  BY <1>3 DEF PlayersOf
<1>5. k = IF hits = {} THEN 0 ELSE Min(hits)
  <2> DEFINE found == {i \in 1..Len(PlayersOf(h, c)) : PlayersOf(h, c)[i] \in online}
  <2>1. k = IF found = {} THEN 0 ELSE PL!Min(found)
    BY Zenon DEF PL!FirstIn
  <2>2. PL!Min(found) = Min(found)
    BY Zenon DEF PL!Min, Min
  <2> HIDE DEF found, hits
  <2>3. hits = found
    BY <1>4 DEF found
  <2> QED BY <2>1, <2>2, <2>3
<1>6. CASE hits = {}
  BY <1>2, <1>5, <1>6
<1>7. CASE hits # {}
  <2>1. hits \in SUBSET Nat
    BY <1>3
  <2>2. Min(hits) \in hits
    BY <1>7, <2>1, MinIsLeast, Zenon
  <2>3. k # 0 /\ k = Min(hits)
    BY <1>3, <1>5, <1>7, <2>2
  <2> HIDE DEF hits
  <2> QED BY <1>2, <1>7, <2>3
<1> QED BY <1>6, <1>7

\* loop does what the second loop of get_next_drawing_fd does.
Loops(loop, h, online) ==
  loop = [pl \in Pointers(h) |->
            [i \in Nat |-> IF pl = NULL \/ i + 1 >= h.count THEN NULL
                           ELSE IF h.player[pl] \in online THEN pl
                           ELSE loop[h.next[pl]][i + 1]]]

\* Where the second loop ends, from node pl and after i iterations.
LoopEnd(h, online, pl, i) ==
  LET k == PL!FirstIn(PlayersOf(h, Chain(h, pl)), online)
  IN  IF k # 0 /\ i + k < h.count THEN Chain(h, pl)[k] ELSE NULL

\* Where FirstIn finds something in a sequence with one element more in front.
LEMMA FirstInRest ==
  ASSUME NEW Q, NEW p \in Q, NEW seq \in Seq(Q), NEW S
  PROVE  PL!FirstIn(<<p>> \o seq, S) =
           IF p \in S THEN 1
           ELSE IF PL!FirstIn(seq, S) = 0 THEN 0 ELSE PL!FirstIn(seq, S) + 1
<1> DEFINE s == <<p>> \o seq
           f == PL!FirstIn(s, S)
           g == PL!FirstIn(seq, S)
<1>1. /\ s \in Seq(Q) /\ Len(s) = Len(seq) + 1 /\ s[1] = p /\ Len(seq) \in Nat
      /\ \A i \in 1..Len(seq) : s[i + 1] = seq[i]
  OBVIOUS
<1> HIDE DEF s
<1>2. /\ f \in 0..Len(s) /\ (f # 0 => s[f] \in S)
      /\ \A i \in 1..Len(s) : s[i] \in S => f # 0 /\ f <= i
  BY <1>1, FirstFound
<1>3. /\ g \in 0..Len(seq) /\ (g # 0 => seq[g] \in S)
      /\ \A i \in 1..Len(seq) : seq[i] \in S => g # 0 /\ g <= i
  BY FirstFound
<1> HIDE DEF f, g
<1>4. CASE p \in S
  <2>1. f # 0 /\ f <= 1
    BY <1>1, <1>2, <1>4
  <2>2. f = 1
    BY <1>2, <2>1
  <2> QED BY <1>4, <2>2 DEF f, s
<1>5. CASE p \notin S
  <2>1. f # 0 => f - 1 \in 1..Len(seq) /\ seq[f - 1] \in S
    <3>1. f # 0 => f # 1 /\ f \in Nat /\ f <= Len(seq) + 1
      BY <1>1, <1>2, <1>5
    <3>2. f # 0 => f - 1 \in 1..Len(seq) /\ (f - 1) + 1 = f
      BY <1>1, <3>1
    <3> QED BY <1>1, <1>2, <3>2
  <2>2. f # 0 => g # 0 /\ g + 1 <= f
    BY <1>1, <1>2, <1>3, <2>1
  <2>3. g # 0 => g + 1 \in 1..Len(s) /\ s[g + 1] \in S
    <3>1. g # 0 => g \in 1..Len(seq) /\ g + 1 \in 1..Len(s)
      BY <1>1, <1>3
    <3> QED BY <1>1, <1>3, <3>1
  <2>4. g # 0 => f # 0 /\ f <= g + 1
    BY <1>2, <2>3
  <2>5. f = IF g = 0 THEN 0 ELSE g + 1
    BY <1>2, <1>3, <2>2, <2>4
  <2> QED BY <1>5, <2>5 DEF f, g, s
<1> QED BY <1>4, <1>5

\* LoopEnd solves the equation of the second loop.
LEMMA LoopEndUnfolds ==
  ASSUME NEW h, IsHeap(h), h.count \in Int, NEW online, NEW pl \in 0..Len(h.next), NEW i \in Nat
  PROVE  LoopEnd(h, online, pl, i) =
           IF pl = NULL \/ i + 1 >= h.count THEN NULL
           ELSE IF h.player[pl] \in online THEN pl
           ELSE LoopEnd(h, online, h.next[pl], i + 1)
<1> DEFINE c == Chain(h, pl)
           Q == 1..Len(h.next)
<1>1. Links(h.next) /\ Len(h.next) \in Nat
  BY DEF IsHeap, Links
<1>2. CASE pl = NULL
  <2>1. c = <<>>
    BY <1>1, <1>2, ChainUnfolds
  <2>2. PlayersOf(h, c) \in Seq(Names) /\ Len(PlayersOf(h, c)) = 0
    <3>1. c \in Seq(Q) /\ Len(c) = 0
      BY <2>1
    <3> QED BY <3>1, PlayersOfPath
  <2>3. PL!FirstIn(PlayersOf(h, c), online) = 0
    <3>1. PL!FirstIn(PlayersOf(h, c), online) \in 0..0
      BY <2>2, FirstFound
    <3> QED BY <3>1
  <2> QED BY <1>2, <2>3 DEF LoopEnd
<1>3. CASE pl # NULL
  <2> DEFINE d == Chain(h, h.next[pl])
             q == PlayersOf(h, c)
             r == PlayersOf(h, d)
             k == PL!FirstIn(q, online)
             j == PL!FirstIn(r, online)
  <2>1. pl \in Q /\ h.next[pl] \in 0..Len(h.next) /\ h.player[pl] \in Names
    BY <1>1, <1>3 DEF IsHeap, Links, NULL
  <2>2. c = <<pl>> \o d
    BY <1>1, <1>3, ChainUnfolds
  <2>3. d \in Seq(Q)
    BY <1>1, <2>1, ChainIsPath DEF Path
  <2> HIDE DEF d, Q
  <2>4. /\ c \in Seq(Q) /\ Len(c) = Len(d) + 1 /\ c[1] = pl /\ Len(d) \in Nat
        /\ \A m \in 1..Len(d) : c[m + 1] = d[m]
    BY <2>1, <2>2, <2>3
  <2> HIDE DEF c
  <2>5. /\ q \in Seq(Names) /\ Len(q) = Len(c)
        /\ \A m \in 1..Len(c) : q[m] = h.player[c[m]]
    BY <2>4, PlayersOfPath DEF Q
  <2>6. /\ r \in Seq(Names) /\ Len(r) = Len(d)
        /\ \A m \in 1..Len(d) : r[m] = h.player[d[m]]
    BY <2>3, PlayersOfPath DEF Q
  <2> HIDE DEF q, r
  <2>7. q = <<h.player[pl]>> \o r
    <3> DEFINE s == <<h.player[pl]>> \o r
    <3>1. /\ s \in Seq(Names) /\ Len(s) = Len(d) + 1 /\ s[1] = h.player[pl]
          /\ \A m \in 1..Len(d) : s[m + 1] = r[m]
      BY <2>1, <2>6
    <3> HIDE DEF s
    <3>2. ASSUME NEW m \in 1..(Len(d) + 1) PROVE q[m] = s[m]
      <4>1. CASE m = 1
        BY <2>4, <2>5, <3>1, <4>1
      <4>2. CASE m # 1
        <5>1. m - 1 \in 1..Len(d) /\ (m - 1) + 1 = m /\ m \in 1..Len(c)
          BY <2>4, <4>2
        <5>2. s[m] = h.player[d[m - 1]]
          BY <2>6, <3>1, <5>1
        <5>3. c[m] = d[m - 1]
          BY <2>4, <5>1
        <5> QED BY <2>5, <5>1, <5>2, <5>3
      <4> QED BY <4>1, <4>2
    <3>3. q = s
      BY <2>4, <2>5, <3>1, <3>2
    <3> QED BY <3>3 DEF s
  <2>8. k = IF h.player[pl] \in online THEN 1 ELSE IF j = 0 THEN 0 ELSE j + 1
    BY <2>1, <2>6, <2>7, FirstInRest
  <2>9. j \in 0..Len(d)
    BY <2>6, FirstFound
  <2>10. LoopEnd(h, online, pl, i) = IF k # 0 /\ i + k < h.count THEN c[k] ELSE NULL
    BY Zenon DEF LoopEnd, c, q, k
  <2>11. LoopEnd(h, online, h.next[pl], i + 1)
           = IF j # 0 /\ (i + 1) + j < h.count THEN d[j] ELSE NULL
    BY Zenon DEF LoopEnd, d, r, j
  <2> HIDE DEF k, j
  <2>12. CASE h.player[pl] \in online
    BY <1>3, <2>4, <2>8, <2>10, <2>12
  <2>13. CASE h.player[pl] \notin online
    <3>1. CASE j = 0
      BY <1>3, <2>8, <2>10, <2>11, <2>13, <3>1
    <3>2. CASE j # 0
      <4>1. j \in 1..Len(d) /\ k = j + 1 /\ k # 0
        BY <2>4, <2>8, <2>9, <2>13, <3>2
      <4>2. c[k] = d[j]
        BY <2>4, <4>1
      <4>3. /\ (i + k < h.count <=> (i + 1) + j < h.count)
            /\ (i + 1 >= h.count => ~(i + k < h.count))
        BY <4>1
      <4> QED BY <1>3, <2>10, <2>11, <2>13, <3>2, <4>1, <4>2, <4>3
    <3> QED BY <3>1, <3>2
  <2> QED BY <2>12, <2>13
<1> QED BY <1>2, <1>3

\* The second loop is well-defined, and ends there.
LEMMA SecondLoopIs ==
  ASSUME NEW h, IsHeap(h), h.count \in Int, NEW online, NEW i \in Nat
  PROVE  SecondLoop(h, online, i) = LoopEnd(h, online, h.player_list, i)
<1> DEFINE loop == CHOOSE f : Loops(f, h, online)
           g == [pl \in Pointers(h) |-> [m \in Nat |-> LoopEnd(h, online, pl, m)]]
           S == {n \in 0..Len(h.next) : \A m \in Nat : loop[n][m] = LoopEnd(h, online, n, m)}
<1>1. /\ Links(h.next) /\ Len(h.next) \in Nat /\ h.player_list \in 0..Len(h.next)
      /\ Pointers(h) = 0..Len(h.next)
  BY DEF IsHeap, Links, Pointers, Nodes, NULL
<1>2. \A n \in 0..Len(h.next) : n # NULL => h.next[n] \in 0..(n - 1)
  BY <1>1 DEF Links, NULL
<1>8. ASSUME NEW n \in 0..Len(h.next), NEW m \in Nat
      PROVE  LoopEnd(h, online, n, m) =
               IF n = NULL \/ m + 1 >= h.count THEN NULL
               ELSE IF h.player[n] \in online THEN n
               ELSE LoopEnd(h, online, h.next[n], m + 1)
  BY LoopEndUnfolds
<1>3. Loops(g, h, online)
  <2>1. ASSUME NEW pl \in Pointers(h), NEW m \in Nat
        PROVE  LoopEnd(h, online, pl, m) =
                 IF pl = NULL \/ m + 1 >= h.count THEN NULL
                 ELSE IF h.player[pl] \in online THEN pl
                 ELSE g[h.next[pl]][m + 1]
    <3>1. pl \in 0..Len(h.next)
      BY <1>1
    <3>2. pl # NULL => g[h.next[pl]][m + 1] = LoopEnd(h, online, h.next[pl], m + 1)
      <4>1. pl # NULL => h.next[pl] \in Pointers(h) /\ m + 1 \in Nat
        BY <1>1, <1>2, <3>1
      <4> QED BY <4>1
    <3> HIDE DEF g
    <3> QED BY <1>8, <3>1, <3>2, Zenon
  <2> DEFINE G(pl) ==
               [m \in Nat |-> IF pl = NULL \/ m + 1 >= h.count THEN NULL
                              ELSE IF h.player[pl] \in online THEN pl
                              ELSE g[h.next[pl]][m + 1]]
  <2>2. ASSUME NEW pl \in Pointers(h)
        PROVE  g[pl] = G(pl)
    <3>1. g[pl] = [m \in Nat |-> LoopEnd(h, online, pl, m)]
      OBVIOUS
    <3> HIDE DEF g
    <3> QED BY <2>1, <3>1, Zenon
  <2>3. g = [pl \in Pointers(h) |-> G(pl)]
    <3>1. g = [pl \in Pointers(h) |-> g[pl]]
      OBVIOUS
    <3> HIDE DEF g
    <3> QED BY <2>2, <3>1, Zenon
  <2> HIDE DEF g
  <2> QED BY <2>3, Zenon DEF Loops
<1>4. Loops(loop, h, online)
  BY <1>3, Zenon
<1>5. SecondLoop(h, online, i) = loop[h.player_list][i]
  BY Zenon DEF SecondLoop, Loops
<1> HIDE DEF loop
<1>6. ASSUME NEW n \in 0..Len(h.next), \A l \in 0..(n - 1) : l \in S PROVE n \in S
  <2>1. ASSUME NEW m \in Nat PROVE loop[n][m] = LoopEnd(h, online, n, m)
    <3>1. loop[n][m] =
            IF n = NULL \/ m + 1 >= h.count THEN NULL
            ELSE IF h.player[n] \in online THEN n
            ELSE loop[h.next[n]][m + 1]
      <4> DEFINE body(pl) ==
                   [x \in Nat |-> IF pl = NULL \/ x + 1 >= h.count THEN NULL
                                  ELSE IF h.player[pl] \in online THEN pl
                                  ELSE loop[h.next[pl]][x + 1]]
      <4>1. loop = [pl \in Pointers(h) |-> body(pl)]
        BY <1>4, Zenon DEF Loops
      <4> HIDE DEF body
      <4>2. loop[n] = body(n)
        BY <1>1, <4>1
      <4> QED BY <4>2 DEF body
    <3>2. n # NULL => loop[h.next[n]][m + 1] = LoopEnd(h, online, h.next[n], m + 1)
      BY <1>2, <1>6
    <3> QED BY <1>8, <3>1, <3>2
  <2> QED BY <2>1
<1> HIDE DEF S
<1>7. \A n \in 0..Len(h.next) : n \in S
  BY <1>1, <1>6, UpTo
<1> QED BY <1>1, <1>5, <1>7 DEF S

\* The rotation of the view is what the drawing pointer reaches.
LEMMA RotationIsReached ==
  ASSUME NEW h, IsHeap(h), NEW list, NEW dead, NEW v, Shape(h, list, dead, v)
  PROVE  LET c == Reached(list, dead, v)
         IN  /\ c \in Seq(1..Len(h.next)) /\ Len(c) = Len(dead) + v
             /\ PL!Rotation(View(h)) = PlayersOf(h, c)
<1> DEFINE c == Reached(list, dead, v)
           q == PlayersOf(h, list)
           gone == PlayersOf(h, dead)
           live == PL!From(q, Len(list) - v + 1)
           n == Len(dead)
           Q == 1..Len(h.next)
<1>1. /\ list \in Seq(Q) /\ dead \in Seq(Q) /\ v \in 0..Len(list)
      /\ Len(list) \in Nat /\ n \in Nat /\ v \in Nat
  BY DEF Shape, Path
<1>2. /\ c \in Seq(Q) /\ Len(c) = n + v
      /\ \A i \in 1..n : c[i] = dead[i]
      /\ \A i \in 1..v : c[n + i] = list[Len(list) - v + i]
  BY <1>1 DEF Reached
<1>3. /\ q \in Seq(Names) /\ Len(q) = Len(list)
      /\ \A i \in 1..Len(list) : q[i] = h.player[list[i]]
  BY <1>1, PlayersOfPath
<1>4. /\ gone \in Seq(Names) /\ Len(gone) = n
      /\ \A i \in 1..n : gone[i] = h.player[dead[i]]
  BY <1>1, PlayersOfPath
<1>5. /\ live \in Seq(Names) /\ Len(live) = v
      /\ \A i \in 1..v : live[i] = q[Len(list) - v + i]
  <2>1. v \in 0..Len(q) /\ Len(list) = Len(q)
    BY <1>1, <1>3
  <2> HIDE DEF q
  <2>2. /\ PL!From(q, Len(q) - v + 1) \in Seq(Names) /\ Len(PL!From(q, Len(q) - v + 1)) = v
        /\ \A i \in 1..v : PL!From(q, Len(q) - v + 1)[i] = q[Len(q) - v + i]
    BY <1>3, <2>1, TailIs
  <2> QED BY <2>1, <2>2
<1>6. /\ PlayersOf(h, c) \in Seq(Names) /\ Len(PlayersOf(h, c)) = n + v
      /\ \A i \in 1..Len(c) : PlayersOf(h, c)[i] = h.player[c[i]]
  <2> HIDE DEF c
  <2> QED BY <1>2, PlayersOfPath
<1>7. PL!Rotation(View(h)) = gone \o live
  <2>1. View(h) = ViewOf(h, list, dead, v)
    BY ShapeIsView
  <2> QED BY <2>1 DEF ViewOf, PL!Rotation
<1> DEFINE x == gone \o live
           y == PlayersOf(h, c)
<1>8. /\ x \in Seq(Names) /\ Len(x) = n + v
      /\ \A i \in 1..(n + v) : x[i] = IF i <= n THEN gone[i] ELSE live[i - n]
  <2> HIDE DEF gone, live, n
  <2>1. /\ x \in Seq(Names) /\ Len(x) = Len(gone) + Len(live)
        /\ \A i \in 1..(Len(gone) + Len(live)) :
             x[i] = IF i <= Len(gone) THEN gone[i] ELSE live[i - Len(gone)]
    BY <1>4, <1>5, ConcatProperties
  <2> HIDE DEF x
  <2> QED BY <1>4, <1>5, <2>1
<1> HIDE DEF c, q, gone, live, Q, x, y
<1>9. ASSUME NEW i \in 1..(n + v) PROVE x[i] = y[i]
  <2>1. y[i] = h.player[c[i]]
    BY <1>2, <1>6 DEF y
  <2>2. CASE i <= n
    <3>1. i \in 1..n
      BY <1>1, <2>2
    <3> QED BY <1>2, <1>4, <1>8, <2>1, <2>2, <3>1
  <2>3. CASE i > n
    <3> HIDE DEF n
    <3>1. /\ i - n \in 1..v /\ n + (i - n) = i /\ ~(i <= n)
          /\ Len(list) - v + (i - n) \in 1..Len(list)
      BY <1>1, <2>3
    <3>2. x[i] = q[Len(list) - v + (i - n)]
      BY <1>5, <1>8, <3>1
    <3>3. c[i] = list[Len(list) - v + (i - n)]
      BY <1>2, <3>1
    <3> QED BY <1>3, <2>1, <3>1, <3>2, <3>3
  <2> QED BY <1>1, <2>2, <2>3
<1>10. x = y
  <2>1. y \in Seq(Names) /\ Len(y) = n + v
    BY <1>6 DEF y
  <2> QED BY <1>8, <1>9, <2>1
<1> QED BY <1>2, <1>7, <1>10 DEF c, x, y, Q

\* The players of the rest of a sequence of nodes.
LEMMA PlayersOfRest ==
  ASSUME NEW h, IsHeap(h), NEW c \in Seq(1..Len(h.next)), NEW k \in 1..(Len(c) + 1)
  PROVE  PlayersOf(h, PL!From(c, k)) = PL!From(PlayersOf(h, c), k)
<1> DEFINE q == PlayersOf(h, c)
           d == PL!From(c, k)
           l == Len(c) - k + 1
<1>1. /\ q \in Seq(Names) /\ Len(q) = Len(c)
      /\ \A i \in 1..Len(c) : q[i] = h.player[c[i]]
  BY PlayersOfPath
<1>2. Len(c) \in Nat /\ k \in Nat /\ l \in Nat /\ \A i \in 1..l : k + i - 1 \in 1..Len(c)
  OBVIOUS
<1>3. d = [i \in 1..l |-> c[k + i - 1]]
  BY DEF PL!From
<1>4. DOMAIN d = 1..l /\ \A i \in 1..l : d[i] = c[k + i - 1]
  BY <1>3
<1> HIDE DEF q, d, l
<1>5. PlayersOf(h, d) = [i \in 1..l |-> h.player[d[i]]]
  BY <1>4 DEF PlayersOf
<1>6. PL!From(q, k) = [i \in 1..l |-> q[k + i - 1]]
  BY <1>1 DEF PL!From, l
<1>7. \A i \in 1..l : h.player[d[i]] = q[k + i - 1]
  BY <1>1, <1>2, <1>4
<1> QED BY <1>5, <1>6, <1>7 DEF q, d

\* Moving the drawing pointer into the list.
LEMMA PointedShape ==
  ASSUME NEW h, IsHeap(h), NEW list, Path(h.next, h.player_list, list), NEW j \in 1..Len(list)
  PROVE  LET t == [h EXCEPT !.drawing_player_list = list[j]]
         IN  /\ IsHeap(t) /\ list[j] # NULL
             /\ Shape(t, list, <<>>, Len(list) - j + 1)
             /\ View(t) = [list |-> PlayersOf(h, list), dead |-> <<>>,
                           live |-> PL!From(PlayersOf(h, list), j)]
<1> DEFINE t == [h EXCEPT !.drawing_player_list = list[j]]
           v == Len(list) - j + 1
           Q == 1..Len(h.next)
<1>1. /\ DOMAIN t = DOMAIN h /\ t.next = h.next /\ t.player = h.player
      /\ t.player_list = h.player_list /\ t.drawing_player_list = list[j]
  BY DEF IsHeap
<1> HIDE DEF t
<1>2. /\ list \in Seq(Q) /\ Len(list) \in Nat /\ j \in Nat /\ v \in 1..Len(list)
      /\ Len(list) - v + 1 = j
  BY DEF Path
<1> HIDE DEF Q
<1>3. list[j] \in Q
  BY <1>2
<1>4. list[j] \in 0..Len(h.next) /\ list[j] # NULL
  BY <1>3 DEF Q, NULL
<1>5. IsHeap(t)
  BY <1>1, <1>4 DEF IsHeap
<1> HIDE DEF v
<1>6. FirstOfLast(list, v) = list[j] /\ v \in 0..Len(list)
  BY <1>2 DEF FirstOfLast
<1>7. Shape(t, list, <<>>, v)
  <2>1. /\ <<>> \in Seq(1..Len(t.next)) /\ Len(<<>>) = 0 /\ 1..0 = {}
    OBVIOUS
  <2> QED BY <1>1, <1>6, <2>1 DEF Shape
<1>8. View(t) = [list |-> PlayersOf(t, list), dead |-> PlayersOf(t, <<>>),
                 live |-> PL!From(PlayersOf(t, list), j)]
  BY <1>2, <1>5, <1>7, ShapeIsView DEF ViewOf
<1>9. PlayersOf(t, list) = PlayersOf(h, list) /\ PlayersOf(t, <<>>) = <<>>
  BY <1>1 DEF PlayersOf
<1> QED BY <1>4, <1>5, <1>7, <1>8, <1>9 DEF t, v

\* Moving the drawing pointer along the unlinked nodes.
LEMMA AdvancedShape ==
  ASSUME NEW h, IsHeap(h), NEW list, NEW dead, NEW v, Shape(h, list, dead, v),
         NEW j \in 1..Len(dead)
  PROVE  LET t == [h EXCEPT !.drawing_player_list = dead[j]]
         IN  /\ IsHeap(t) /\ dead[j] # NULL
             /\ Shape(t, list, PL!From(dead, j), v)
             /\ View(t) = [list |-> View(h).list, dead |-> PL!From(View(h).dead, j),
                           live |-> View(h).live]
<1> DEFINE t == [h EXCEPT !.drawing_player_list = dead[j]]
           Q == 1..Len(h.next)
           more == PL!From(dead, j)
           l == Len(dead) - j + 1
<1>1. /\ DOMAIN t = DOMAIN h /\ t.next = h.next /\ t.player = h.player
      /\ t.player_list = h.player_list /\ t.drawing_player_list = dead[j]
  BY DEF IsHeap
<1> HIDE DEF t
<1>2. dead \in Seq(Q) /\ v \in 0..Len(list) /\ Path(h.next, h.player_list, list)
  BY DEF Shape
<1>3. /\ more \in Seq(Q) /\ Len(more) = l /\ l \in Nat /\ l # 0 /\ Len(dead) \in Nat /\ j \in Nat
      /\ \A i \in 1..l : more[i] = dead[j + i - 1]
  <2>1. /\ l \in Nat /\ l # 0 /\ Len(dead) \in Nat /\ j \in Nat
        /\ \A i \in 1..l : j + i - 1 \in 1..Len(dead)
    BY <1>2
  <2>2. more = [i \in 1..l |-> dead[j + i - 1]]
    BY DEF PL!From
  <2> HIDE DEF Q, l, more
  <2>3. ASSUME NEW i \in 1..l PROVE dead[j + i - 1] \in Q
    <3>1. j + i - 1 \in 1..Len(dead)
      BY <2>1
    <3> QED BY <1>2, <3>1
  <2> QED BY <2>1, <2>2, <2>3
<1>4. dead[j] \in 0..Len(h.next) /\ dead[j] # NULL
  <2>1. dead[j] \in Q
    <3> HIDE DEF Q
    <3> QED BY <1>2
  <2> QED BY <2>1 DEF NULL
<1>5. IsHeap(t)
  BY <1>1, <1>4 DEF IsHeap
<1> HIDE DEF more
<1>6. ASSUME NEW i \in 1..Len(more)
      PROVE  /\ t.next[more[i]] = IF i = Len(more) THEN FirstOfLast(list, v) ELSE more[i + 1]
             /\ \A k \in 1..Len(list) : more[i] # list[k]
  <2>1. /\ j + i - 1 \in 1..Len(dead) /\ (j + i - 1 = Len(dead) <=> i = Len(more))
        /\ i \in 1..l /\ (i # Len(more) => i + 1 \in 1..l)
        /\ (j + i - 1) + 1 = j + (i + 1) - 1
    <3>1. /\ i \in Nat /\ 1 <= i /\ i <= l /\ Len(more) = l
          /\ Len(dead) \in Nat /\ j \in Nat /\ 1 <= j
      BY <1>3
    <3> QED BY <3>1
  <2>2. more[i] = dead[j + i - 1]
    BY <1>3, <2>1
  <2>3. h.next[dead[j + i - 1]] =
          IF j + i - 1 = Len(dead) THEN FirstOfLast(list, v) ELSE dead[(j + i - 1) + 1]
    BY <2>1 DEF Shape
  <2>4. i # Len(more) => more[i + 1] = dead[(j + i - 1) + 1]
    BY <1>3, <2>1
  <2>5. \A k \in 1..Len(list) : more[i] # list[k]
    BY <2>1, <2>2 DEF Shape
  <2> QED BY <1>1, <2>1, <2>2, <2>3, <2>4, <2>5
<1>7. more # <<>> /\ more[1] = dead[j]
  <2>1. 1 \in 1..l /\ j + 1 - 1 = j
    BY <1>3
  <2> QED BY <1>3, <2>1
<1>8. Shape(t, list, more, v)
  BY <1>1, <1>2, <1>3, <1>6, <1>7 DEF Shape
<1>9. \A nodes : PlayersOf(t, nodes) = PlayersOf(h, nodes)
  BY <1>1 DEF PlayersOf
<1>10. View(t) = ViewOf(t, list, more, v) /\ View(h) = ViewOf(h, list, dead, v)
  BY <1>5, <1>8, ShapeIsView
<1>11. PlayersOf(h, more) = PL!From(PlayersOf(h, dead), j)
  <2>1. j \in 1..(Len(dead) + 1)
    BY <1>3
  <2> QED BY <1>2, <2>1, PlayersOfRest DEF more
<1> QED BY <1>4, <1>5, <1>8, <1>9, <1>10, <1>11 DEF ViewOf, t, more

\* The first loop goes over the nodes ahead of the drawing pointer.
LEMMA AheadIs ==
  ASSUME NEW h, IsHeap(h), NEW list, NEW dead, NEW v, Shape(h, list, dead, v), NEW online
  PROVE  LET c == Reached(list, dead, v)
             a == IF c = <<>> THEN list ELSE PL!From(c, 2)
             pl == IF h.drawing_player_list = NULL THEN h.player_list
                   ELSE h.next[h.drawing_player_list]
             k == PL!NextAhead(View(h), online)
         IN  /\ PL!Ahead(View(h)) = PlayersOf(h, a)
             /\ PL!Rotation(View(h)) = <<>> <=> c = <<>>
             /\ a \in Seq(1..Len(h.next)) /\ k \in 0..Len(a)
             /\ FirstLoop(h, online, pl) = [node |-> IF k = 0 THEN NULL ELSE a[k],
                                            iterations |-> IF k = 0 THEN Len(a) ELSE k]
<1> DEFINE c == Reached(list, dead, v)
           a == IF c = <<>> THEN list ELSE PL!From(c, 2)
           pl == IF h.drawing_player_list = NULL THEN h.player_list
                 ELSE h.next[h.drawing_player_list]
           k == PL!NextAhead(View(h), online)
           Q == 1..Len(h.next)
<1>1. /\ c \in Seq(Q) /\ Path(h.next, h.drawing_player_list, c)
      /\ PL!Rotation(View(h)) = PlayersOf(h, c)
  BY RotationIsReached, ShapeReaches
<1>2. Path(h.next, h.player_list, list) /\ list \in Seq(Q) /\ Links(h.next)
  BY DEF Shape, Path, IsHeap
<1> HIDE DEF c
<1>3. View(h).list = PlayersOf(h, list)
  BY ShapeIsView DEF ViewOf
<1>4. PL!Rotation(View(h)) = <<>> <=> c = <<>>
  <2>1. PlayersOf(h, c) \in Seq(Names) /\ Len(PlayersOf(h, c)) = Len(c)
    BY <1>1, PlayersOfPath
  <2> HIDE DEF Q
  <2>2. Len(c) = 0 <=> c = <<>>
    BY <1>1
  <2> DEFINE x == PlayersOf(h, c)
  <2>3. x \in Seq(Names) /\ Len(x) = Len(c)
    BY <2>1
  <2> HIDE DEF x
  <2>4. x = <<>> <=> Len(x) = 0
    BY <2>3
  <2> QED BY <1>1, <2>2, <2>3, <2>4 DEF x
<1>5. CASE c = <<>>
  <2>1. pl = h.player_list /\ a = list
    BY <1>1, <1>5 DEF Path
  <2>2. PL!Ahead(View(h)) = PlayersOf(h, a)
    BY <1>3, <1>4, <1>5, <2>1 DEF PL!Ahead
  <2>3. h.player_list \in 0..Len(h.next)
    BY DEF IsHeap
  <2> HIDE DEF pl, a
  <2>4. k = PL!FirstIn(PlayersOf(h, a), online)
    BY <2>2 DEF PL!NextAhead
  <2> HIDE DEF k
  <2>5. FirstLoop(h, online, pl) = [node |-> IF k = 0 THEN NULL ELSE a[k],
                                    iterations |-> IF k = 0 THEN Len(a) ELSE k]
    BY <1>2, <2>1, <2>3, <2>4, FirstLoopIs
  <2>6. k \in 0..Len(a) /\ a \in Seq(Q)
    <3>1. PlayersOf(h, a) \in Seq(Names) /\ Len(PlayersOf(h, a)) = Len(a)
      BY <1>2, <2>1, PlayersOfPath
    <3> QED BY <1>2, <2>1, <2>4, <3>1, FirstFound
  <2> QED BY <1>4, <2>2, <2>5, <2>6 DEF c, a, pl, k, Q
<1>6. CASE c # <<>>
  <2>1. /\ h.drawing_player_list # NULL /\ a = PL!From(c, 2) /\ Len(c) \in Nat /\ Len(c) >= 1
        /\ c[1] = h.drawing_player_list
        /\ h.next[c[1]] = IF 1 = Len(c) THEN NULL ELSE c[2]
    <3>1. Len(c) \in Nat /\ Len(c) # 0
      <4> HIDE DEF Q
      <4> QED BY <1>1, <1>6
    <3>2. h.drawing_player_list # NULL /\ c[1] = h.drawing_player_list
      BY <1>1, <1>6 DEF Path
    <3>3. Len(c) >= 1 /\ 1 \in 1..Len(c)
      BY <3>1
    <3>4. h.next[c[1]] = IF 1 = Len(c) THEN NULL ELSE c[1 + 1]
      BY <1>1, <3>3, Zenon DEF Path
    <3>5. a = PL!From(c, 2)
      BY <1>6
    <3> HIDE DEF a
    <3> QED BY <3>1, <3>2, <3>3, <3>4, <3>5
  <2>2. pl = IF 2 = Len(c) + 1 THEN NULL ELSE c[2]
    <3>1. 1 = Len(c) <=> 2 = Len(c) + 1
      <4> DEFINE l == Len(c)
      <4>1. l \in Nat
        BY <2>1
      <4> HIDE DEF l
      <4>2. 1 = l <=> 2 = l + 1
        BY <4>1
      <4> QED BY <4>2 DEF l
    <3> QED BY <2>1, <3>1
  <2>3. 2 \in 1..(Len(c) + 1)
    BY <2>1
  <2>4. PL!Ahead(View(h)) = PlayersOf(h, a)
    <3>1. PlayersOf(h, PL!From(c, 2)) = PL!From(PlayersOf(h, c), 2)
      BY <1>1, <2>3, PlayersOfRest
    <3> QED BY <1>1, <1>4, <1>6, <2>1, <3>1 DEF PL!Ahead
  <2> HIDE DEF pl, a
  <2>5. Path(h.next, pl, a)
    BY <1>1, <1>2, <2>1, <2>2, <2>3, PathOn
  <2>6. pl \in 0..Len(h.next) /\ a \in Seq(Q)
    <3>1. a \in Seq(Q)
      BY <2>5 DEF Path
    <3>2. h.drawing_player_list \in 1..Len(h.next)
      BY <2>1 DEF IsHeap, NULL
    <3>3. h.next[h.drawing_player_list] \in 0..Len(h.next)
      BY <1>2, <3>2 DEF Links
    <3> QED BY <2>1, <3>1, <3>3 DEF pl
  <2>7. k = PL!FirstIn(PlayersOf(h, a), online)
    BY <2>4 DEF PL!NextAhead
  <2> HIDE DEF k
  <2>8. FirstLoop(h, online, pl) = [node |-> IF k = 0 THEN NULL ELSE a[k],
                                    iterations |-> IF k = 0 THEN Len(a) ELSE k]
    BY <2>5, <2>6, <2>7, FirstLoopIs
  <2>9. k \in 0..Len(a)
    <3>1. PlayersOf(h, a) \in Seq(Names) /\ Len(PlayersOf(h, a)) = Len(a)
      BY <2>6, PlayersOfPath
    <3> QED BY <2>7, <3>1, FirstFound
  <2> QED BY <1>4, <2>4, <2>6, <2>8, <2>9 DEF c, a, pl, k, Q
<1> QED BY <1>5, <1>6

\* get_next_drawing_fd moves the drawing pointer as PlayerList says.
LEMMA DrawingAgrees ==
  ASSUME NEW h, IsHeap(h), NEW list, NEW dead, NEW v, Shape(h, list, dead, v),
         h.count = Len(list), NEW online
  PROVE  LET n == NextDrawing(h, online)
             t == [h EXCEPT !.drawing_player_list = n]
         IN  /\ n # NULL <=> PL!HasNextDrawer(View(h), online)
             /\ n # NULL => IsHeap(t) /\ View(t) = PL!get_next_drawing(View(h), online)
<1> DEFINE r == View(h)
           q == PlayersOf(h, list)
           c == Reached(list, dead, v)
           a == IF c = <<>> THEN list ELSE PL!From(c, 2)
           k == PL!NextAhead(r, online)
           j == PL!NextAround(r, online)
           n == NextDrawing(h, online)
           t == [h EXCEPT !.drawing_player_list = n]
           Q == 1..Len(h.next)
           e == Len(list) - v + 1
           m == Len(dead)
<1>1. /\ Path(h.next, h.player_list, list) /\ list \in Seq(Q) /\ dead \in Seq(Q)
      /\ v \in 0..Len(list)
  BY DEF Shape, Path
<1>22. ASSUME NEW i \in 1..Len(dead), n = dead[i]
       PROVE  /\ IsHeap(t) /\ n # NULL
              /\ View(t) = [list |-> r.list, dead |-> PL!From(r.dead, i), live |-> r.live]
  <2> HIDE DEF n
  <2>1. /\ IsHeap([h EXCEPT !.drawing_player_list = dead[i]]) /\ dead[i] # NULL
        /\ View([h EXCEPT !.drawing_player_list = dead[i]])
             = [list |-> View(h).list, dead |-> PL!From(View(h).dead, i),
                live |-> View(h).live]
    BY AdvancedShape
  <2> QED BY <1>22, <2>1
<1> HIDE DEF Q
<1>2. Len(list) \in Nat /\ v \in Nat /\ m \in Nat /\ e \in Nat
  BY <1>1
<1>3. c \in Seq(Q) /\ Len(c) = m + v
  BY RotationIsReached DEF Q
<1>4. r = [list |-> q, dead |-> PlayersOf(h, dead), live |-> PL!From(q, e)]
  BY ShapeIsView DEF ViewOf
<1>5. /\ q \in Seq(Names) /\ Len(q) = Len(list)
  BY <1>1, PlayersOfPath DEF Q
<1>6. /\ PlayersOf(h, dead) \in Seq(Names) /\ Len(PlayersOf(h, dead)) = m
  BY <1>1, PlayersOfPath DEF Q
<1>7. /\ PL!Ahead(r) = PlayersOf(h, a)
      /\ PL!Rotation(r) = <<>> <=> c = <<>>
      /\ a \in Seq(Q) /\ k \in 0..Len(a)
  BY AheadIs, Zenon DEF Q
<1>8. FirstLoop(h, online, IF h.drawing_player_list = NULL THEN h.player_list
                           ELSE h.next[h.drawing_player_list])
        = [node |-> IF k = 0 THEN NULL ELSE a[k], iterations |-> IF k = 0 THEN Len(a) ELSE k]
  BY AheadIs
<1>9. \A x \in Q : x # NULL
  BY DEF Q, NULL
<1> HIDE DEF r, q, c, a, k
<1>10. Len(PL!Ahead(r)) = Len(a) /\ Len(r.list) = Len(list) /\ Len(a) \in Nat /\ k \in Nat
  <2>1. Len(PlayersOf(h, a)) = Len(a)
    BY <1>7, PlayersOfPath DEF Q
  <2>2. Len(a) \in Nat
    BY <1>7
  <2> QED BY <1>4, <1>5, <1>7, <2>1, <2>2
<1>11. k # 0 => a[k] \in Q /\ a[k] # NULL
  <2>1. k # 0 => k \in 1..Len(a)
    BY <1>7, <1>10
  <2> QED BY <1>7, <1>9, <2>1
<1>12. SecondLoop(h, online, Len(a))
         = IF j # 0 /\ Len(a) + j < Len(list) THEN list[j] ELSE NULL
  <2>1. Chain(h, h.player_list) = list
    BY <1>1, PathIsChain DEF IsHeap
  <2>2. j = PL!FirstIn(PlayersOf(h, list), online)
    BY <1>4 DEF PL!NextAround, q
  <2>3. h.count \in Int
    BY <1>2
  <2>4. SecondLoop(h, online, Len(a)) = LoopEnd(h, online, h.player_list, Len(a))
    BY <1>10, <2>3, SecondLoopIs
  <2> QED BY <2>1, <2>2, <2>4, Zenon DEF LoopEnd
<1>13. j \in 0..Len(list)
  <2>1. j = PL!FirstIn(q, online)
    BY <1>4 DEF PL!NextAround
  <2> QED BY <1>5, <2>1, FirstFound
<1> HIDE DEF j
<1>14. n = IF k # 0 THEN a[k]
           ELSE IF j # 0 /\ Len(a) + j < Len(list) THEN list[j] ELSE NULL
  <2>1. CASE k # 0
    BY <1>8, <1>11, <2>1 DEF NextDrawing
  <2>2. CASE k = 0
    BY <1>8, <1>12, <2>2 DEF NextDrawing
  <2> QED BY <2>1, <2>2
<1> HIDE DEF n
<1>15. PL!HasNextDrawer(r, online) <=> k # 0 \/ (j # 0 /\ Len(a) + j < Len(list))
  BY <1>10 DEF PL!HasNextDrawer, PL!Wraps, k, j
<1>16. PL!get_next_drawing(r, online) =
         IF k = 0 THEN PL!PointAt(r, j)
         ELSE IF c = <<>> THEN PL!PointAt(r, k) ELSE PL!Advance(r, k)
  BY <1>7 DEF PL!get_next_drawing, k, j
<1>17. ASSUME NEW i \in 1..Len(list), n = list[i]
       PROVE  /\ IsHeap(t) /\ n # NULL
              /\ View(t) = [list |-> q, dead |-> <<>>, live |-> PL!From(q, i)]
  BY <1>1, <1>17, PointedShape DEF q
<1>18. \A i : PL!PointAt(r, i) = [list |-> q, dead |-> <<>>, live |-> PL!From(q, i)]
  BY <1>4 DEF PL!PointAt
<1>19. CASE k = 0
  <2>1. CASE j # 0 /\ Len(a) + j < Len(list)
    <3>1. j \in 1..Len(list) /\ n = list[j]
      BY <1>13, <1>14, <1>19, <2>1
    <3>2. IsHeap(t) /\ n # NULL /\ View(t) = PL!get_next_drawing(r, online)
      BY <1>16, <1>17, <1>18, <1>19, <3>1
    <3> QED BY <1>15, <2>1, <3>2 DEF n, r
  <2>2. CASE ~(j # 0 /\ Len(a) + j < Len(list))
    BY <1>14, <1>15, <1>19, <2>2 DEF n, r
  <2> QED BY <2>1, <2>2
<1>20. CASE k # 0 /\ c = <<>>
  <2>1. k \in 1..Len(list) /\ n = list[k]
    <3>1. a = list
      BY <1>20 DEF a
    <3> QED BY <1>7, <1>10, <1>14, <1>20, <3>1
  <2>2. IsHeap(t) /\ n # NULL /\ View(t) = PL!get_next_drawing(r, online)
    BY <1>16, <1>17, <1>18, <1>20, <2>1
  <2> QED BY <1>15, <1>20, <2>2 DEF n, r
<1>21. CASE k # 0 /\ c # <<>>
  <2>1. a = PL!From(c, 2) /\ Len(a) = Len(c) - 1 /\ k \in 1..Len(a) /\ a[k] = c[k + 1]
    <3>1. a = PL!From(c, 2)
      BY <1>21 DEF a
    <3>2. Len(c) \in Nat /\ Len(c) # 0
      BY <1>3, <1>21
    <3>3. a = [i \in 1..(Len(c) - 2 + 1) |-> c[2 + i - 1]]
      BY <3>1 DEF PL!From
    <3>4. Len(c) - 2 + 1 = Len(c) - 1 /\ Len(c) - 1 \in Nat /\ 2 + k - 1 = k + 1
      BY <1>10, <3>2
    <3>5. Len(a) = Len(c) - 1 /\ \A i \in 1..(Len(c) - 1) : a[i] = c[2 + i - 1]
      BY <1>7, <3>3, <3>4
    <3>6. k \in 1..Len(a)
      BY <1>7, <1>10, <1>21
    <3> QED BY <3>1, <3>4, <3>5, <3>6
  <2>2. n = c[k + 1] /\ k + 1 \in 1..(m + v)
    <3>1. k + 1 \in 1..(m + v)
      BY <1>2, <1>3, <2>1
    <3> QED BY <1>14, <1>21, <2>1, <3>1
  <2>3. CASE k < m
    <3>1. n = dead[k + 1] /\ k + 1 \in 1..m
      <4>1. k + 1 \in 1..m /\ k + 1 <= m
        BY <1>2, <1>10, <2>3
      <4>2. c = [i \in 1..(m + v) |-> IF i <= m THEN dead[i] ELSE list[Len(list) - v + (i - m)]]
        BY DEF c, Reached
      <4>3. c[k + 1] = dead[k + 1]
        <5> HIDE DEF m
        <5> QED BY <2>2, <4>1, <4>2
      <4> QED BY <2>2, <4>1, <4>3
    <3>2. /\ IsHeap(t) /\ n # NULL
          /\ View(t) = [list |-> r.list, dead |-> PL!From(r.dead, k + 1), live |-> r.live]
      BY <1>22, <3>1
    <3>3. k < Len(r.dead)
      BY <1>4, <1>6, <2>3
    <3>4. PL!Advance(r, k)
            = [list |-> r.list, dead |-> PL!From(r.dead, k + 1), live |-> r.live]
      BY <3>3 DEF PL!Advance
    <3> QED BY <1>15, <1>16, <1>21, <3>2, <3>4 DEF n, r
  <2>4. CASE ~(k < m)
    <3> DEFINE i == Len(list) - v + ((k + 1) - m)
    <3>1. i \in 1..Len(list) /\ n = list[i]
      <4>1. i \in 1..Len(list) /\ ~(k + 1 <= m)
        <5>1. k + 1 <= m + v /\ k \in Nat
          BY <1>10, <2>2
        <5> HIDE DEF m
        <5> QED BY <1>1, <1>2, <2>4, <5>1
      <4>2. c = [x \in 1..(m + v) |-> IF x <= m THEN dead[x] ELSE list[Len(list) - v + (x - m)]]
        BY DEF c, Reached
      <4>3. c[k + 1] = list[i]
        <5>1. c[k + 1] = IF k + 1 <= m THEN dead[k + 1] ELSE list[Len(list) - v + ((k + 1) - m)]
          <6> DEFINE x == k + 1
          <6>1. x \in 1..(m + v)
            BY <2>2
          <6> HIDE DEF x, m, i
          <6>2. c[x] = IF x <= m THEN dead[x] ELSE list[Len(list) - v + (x - m)]
            BY <4>2, <6>1
          <6> QED BY <6>2 DEF x
        <5> QED BY <4>1, <5>1
      <4> QED BY <2>2, <4>1, <4>3
    <3>2. /\ IsHeap(t) /\ n # NULL
          /\ View(t) = [list |-> q, dead |-> <<>>, live |-> PL!From(q, i)]
      BY <1>17, <3>1
    <3>3. PL!Advance(r, k)
            = [list |-> q, dead |-> <<>>, live |-> PL!From(PL!From(q, e), k - m + 1)]
      <4>1. ~(k < Len(r.dead)) /\ Len(r.dead) = m
        BY <1>4, <1>6, <2>4
      <4> QED BY <1>4, <4>1 DEF PL!Advance
    <3>4. PL!From(PL!From(q, e), k - m + 1) = PL!From(q, i)
      <4> DEFINE d == k - m
                 live == PL!From(q, e)
      <4>1. d \in Nat /\ i = e + d /\ i \in Nat
        BY <1>2, <1>10, <2>4, <3>1
      <4>2. /\ live \in Seq(Names) /\ Len(live) = v
            /\ \A x \in 1..v : live[x] = q[Len(list) - v + x]
        <5>1. v \in 0..Len(q) /\ e = Len(q) - v + 1
          BY <1>1, <1>5
        <5> HIDE DEF e
        <5>2. /\ live \in Seq(Names) /\ Len(live) = v
              /\ \A x \in 1..v : live[x] = q[Len(q) - v + x]
          BY <1>5, <5>1, TailIs
        <5> QED BY <1>5, <5>2
      <4> HIDE DEF d, live, i, m
      <4>3. PL!From(live, d + 1) = [x \in 1..(v - d) |-> live[(d + 1) + x - 1]]
        <5>1. Len(live) - (d + 1) + 1 = v - d
          BY <1>2, <4>1, <4>2
        <5> QED BY <5>1 DEF PL!From
      <4>4. PL!From(q, i) = [x \in 1..(v - d) |-> q[i + x - 1]]
        <5>1. Len(q) - i + 1 = v - d
          BY <1>2, <1>5, <4>1
        <5> QED BY <5>1 DEF PL!From
      <4>5. ASSUME NEW x \in 1..(v - d) PROVE live[(d + 1) + x - 1] = q[i + x - 1]
        <5>1. (d + 1) + x - 1 \in 1..v /\ Len(list) - v + ((d + 1) + x - 1) = i + x - 1
          BY <1>2, <4>1
        <5> QED BY <4>2, <5>1
      <4>6. PL!From(live, d + 1) = PL!From(q, i)
        BY <4>3, <4>4, <4>5
      <4> QED BY <4>6 DEF d, live
    <3> QED BY <1>15, <1>16, <1>21, <3>2, <3>3, <3>4 DEF n, r
  <2> QED BY <2>3, <2>4
<1> QED BY <1>19, <1>20, <1>21

-----------------------------------------------------------------------------
(* The inductive invariant: pointers to older nodes only, a count that is the *)
(* length of the list, and nobody twice in the list.                          *)

List(h) == Chain(h, h.player_list)

IsSoundHeap(h) ==
  /\ IsHeap(h)
  /\ Len(h.next) <= MaxNodes
  /\ h.count = Len(List(h))
  /\ IsInjective(PlayersOf(h, List(h)))

\* The list is the path from the head.
LEMMA ListIs ==
  ASSUME NEW h, IsHeap(h)
  PROVE  /\ Path(h.next, h.player_list, List(h))
         /\ List(h) \in Seq(1..Len(h.next))
         /\ \A c : Path(h.next, h.player_list, c) => c = List(h)
<1>1. Links(h.next) /\ h.player_list \in 0..Len(h.next)
  BY DEF IsHeap
<1>2. Path(h.next, h.player_list, List(h))
  BY <1>1, ChainIsPath DEF List
<1>3. ASSUME NEW c, Path(h.next, h.player_list, c) PROVE c = List(h)
  BY <1>1, <1>3, PathIsChain DEF List
<1> QED BY <1>2, <1>3 DEF Path

\* A path has no more nodes than were allocated, as their numbers fall.
LEMMA PathIsShort ==
  ASSUME NEW next, Links(next), NEW n, NEW c, Path(next, n, c)
  PROVE  Len(c) <= Len(next)
<1> DEFINE S == {k \in 0..Len(c) : k # 0 => c[k] + k <= Len(next) + 1}
           Q == 1..Len(next)
<1>1. /\ c \in Seq(Q) /\ Len(c) \in Nat /\ Len(next) \in Nat
      /\ \A j, k \in 1..Len(c) : j < k => c[k] < c[j]
  <2>1. c \in Seq(Q) /\ next \in Seq(Nat)
    BY DEF Path, Links
  <2>2. \A j, k \in 1..Len(c) : j < k => c[k] < c[j]
    BY PathFalls
  <2> HIDE DEF Q
  <2> QED BY <2>1, <2>2
<1> HIDE DEF Q
<1>2. ASSUME NEW k \in 1..Len(c) PROVE c[k] \in Nat /\ 1 <= c[k] /\ c[k] <= Len(next)
  <2>1. c[k] \in Q
    BY <1>1
  <2> QED BY <1>1, <2>1 DEF Q
<1>3. ASSUME NEW k \in 0..Len(c), \A l \in 0..(k - 1) : l \in S PROVE k \in S
  <2>1. CASE k = 0
    BY <2>1
  <2>2. CASE k = 1
    <3>1. k \in 1..Len(c)
      BY <1>1, <2>2
    <3>2. c[k] + k <= Len(next) + 1
      BY <1>1, <1>2, <2>2, <3>1
    <3> QED BY <3>2
  <2>3. CASE k > 1
    <3> DEFINE l == k - 1
    <3>1. l \in 0..(k - 1) /\ l # 0 /\ l \in 1..Len(c) /\ k \in 1..Len(c) /\ l < k /\ l + 1 = k
      BY <1>1, <2>3
    <3>2. c[l] + l <= Len(next) + 1
      BY <1>3, <3>1
    <3>3. c[k] < c[l] /\ c[k] \in Nat /\ c[l] \in Nat
      BY <1>1, <1>2, <3>1
    <3>4. c[k] + k <= Len(next) + 1
      <4>1. k \in Nat /\ l \in Nat /\ Len(next) \in Nat
        BY <1>1, <3>1
      <4> HIDE DEF l
      <4> QED BY <3>1, <3>2, <3>3, <4>1
    <3> QED BY <3>4
  <2> QED BY <2>1, <2>2, <2>3
<1> HIDE DEF S
<1>4. \A k \in 0..Len(c) : k \in S
  BY <1>1, <1>3, UpTo
<1>5. CASE c = <<>>
  BY <1>1, <1>5
<1>6. CASE c # <<>>
  <2>1. Len(c) # 0 /\ Len(c) \in 1..Len(c) /\ Len(c) \in 0..Len(c)
    BY <1>1, <1>6
  <2>2. c[Len(c)] + Len(c) <= Len(next) + 1
    BY <1>4, <2>1 DEF S
  <2>3. c[Len(c)] \in Nat /\ 1 <= c[Len(c)]
    BY <1>2, <2>1
  <2> QED BY <1>1, <2>2, <2>3
<1> QED BY <1>5, <1>6

\* A new game.
LEMMA EmptyIsSound == IsSoundHeap(empty)
<1>1. /\ empty.next = <<>> /\ empty.player = <<>> /\ empty.count = 0
      /\ empty.player_list = 0 /\ empty.drawing_player_list = 0
      /\ DOMAIN empty = {"next", "player", "player_list", "count", "drawing_player_list"}
  BY DEF empty, NULL
<1>2. Links(<<>>)
  BY DEF Links
<1>3. IsHeap(empty)
  BY <1>1, <1>2 DEF IsHeap
<1>4. Path(<<>>, 0, <<>>)
  BY DEF Path, NULL
<1>5. List(empty) = <<>>
  BY <1>1, <1>3, <1>4, ListIs
<1>6. PlayersOf(empty, <<>>) = <<>> /\ IsInjective(<<>>)
  BY DEF PlayersOf, IsInjective
<1>7. Len(<<>>) = 0 /\ 0 <= MaxNodes
  BY HeapAssumption
<1> QED BY <1>1, <1>3, <1>5, <1>6, <1>7 DEF IsSoundHeap

\* Afterwards the player is not in the list.
LEMMA RemovingIsSound ==
  ASSUME NEW h, IsSoundHeap(h), NEW p
  PROVE  LET t == remove_player(h, p)
         IN  /\ IsSoundHeap(t) /\ Len(t.next) = Len(h.next)
             /\ \A i \in 1..Len(List(t)) : PlayersOf(t, List(t))[i] # p
<1> DEFINE list == List(h)
           q == PlayersOf(h, list)
           k == PL!FirstIn(q, {p})
           t == remove_player(h, p)
<1>1. /\ IsHeap(h) /\ Path(h.next, h.player_list, list) /\ list \in Seq(1..Len(h.next))
      /\ h.count = Len(list) /\ IsInjective(q) /\ Len(h.next) <= MaxNodes
  BY ListIs DEF IsSoundHeap
<1> HIDE DEF list
<1>2. /\ q \in Seq(Names) /\ Len(q) = Len(list) /\ Len(list) \in Nat
      /\ \A i \in 1..Len(list) : q[i] = h.player[list[i]]
  BY <1>1, PlayersOfPath
<1>3. t = IF k = 0 THEN h ELSE Removed(h, list, k)
  BY <1>1, RemovedIs
<1> HIDE DEF q
<1>4. /\ k \in 0..Len(list) /\ (k # 0 => q[k] = p)
      /\ \A i \in 1..Len(list) : q[i] = p => k # 0
  <2>1. /\ k \in 0..Len(q) /\ (k # 0 => q[k] \in {p})
        /\ \A i \in 1..Len(q) : q[i] \in {p} => k # 0
    BY <1>2, FirstFound
  <2> HIDE DEF k
  <2> QED BY <1>2, <2>1
<1> HIDE DEF k, t
<1>5. CASE k = 0
  <2>1. t = h
    BY <1>3, <1>5
  <2>2. \A i \in 1..Len(list) : PlayersOf(h, list)[i] # p
    BY <1>4, <1>5 DEF q
  <2> QED BY <2>1, <2>2 DEF t, list
<1>6. CASE k # 0
  <2> DEFINE cut == Cut(list, k)
             s == PlayersOf(t, cut)
  <2>1. k \in 1..Len(list) /\ t = Removed(h, list, k)
    BY <1>2, <1>3, <1>4, <1>6
  <2>2. /\ IsHeap(t) /\ Len(t.next) = Len(h.next) /\ t.player = h.player
        /\ t.count = h.count - 1 /\ Path(t.next, t.player_list, cut)
    <3>1. h.count \in Int
      BY <1>1, <1>2
    <3> QED BY <1>1, <2>1, <3>1, RemovedNode
  <2>3. /\ cut \in Seq(1..Len(h.next)) /\ Len(cut) = Len(list) - 1
        /\ \A i \in 1..(Len(list) - 1) : cut[i] = IF i < k THEN list[i] ELSE list[i + 1]
    BY <1>1, <2>1, CutIs
  <2> HIDE DEF cut
  <2>4. List(t) = cut
    BY <2>2, ListIs
  <2>5. /\ s \in Seq(Names) /\ Len(s) = Len(list) - 1
        /\ \A i \in 1..(Len(list) - 1) : s[i] = h.player[cut[i]]
    <3>1. cut \in Seq(1..Len(t.next))
      BY <2>2, <2>3
    <3> QED BY <2>2, <2>3, <3>1, PlayersOfPath
  <2> HIDE DEF s
  <2> DEFINE at(i) == IF i < k THEN i ELSE i + 1
  <2>6. ASSUME NEW i \in 1..(Len(list) - 1)
        PROVE  at(i) \in 1..Len(list) /\ at(i) # k /\ s[i] = q[at(i)]
    <3>1. at(i) \in 1..Len(list) /\ at(i) # k
      BY <1>2, <2>1
    <3>2. cut[i] = list[at(i)]
      BY <2>3
    <3> QED BY <1>2, <2>5, <3>1, <3>2
  <2>7. ASSUME NEW i \in 1..Len(list), NEW j \in 1..Len(list), q[i] = q[j] PROVE i = j
    <3>1. i \in DOMAIN q /\ j \in DOMAIN q
      BY <1>2
    <3> QED BY <1>1, <2>7, <3>1 DEF IsInjective
  <2>8. IsInjective(s)
    <3>1. ASSUME NEW i \in DOMAIN s, NEW j \in DOMAIN s, s[i] = s[j] PROVE i = j
      <4>1. i \in 1..(Len(list) - 1) /\ j \in 1..(Len(list) - 1)
        BY <2>5
      <4>2. /\ at(i) \in 1..Len(list) /\ at(j) \in 1..Len(list) /\ q[at(i)] = q[at(j)]
        <5> HIDE DEF at
        <5> QED BY <2>6, <3>1, <4>1
      <4>3. at(i) = at(j)
        <5> HIDE DEF at
        <5> QED BY <2>7, <4>2
      <4> QED BY <1>2, <2>1, <4>1, <4>3
    <3> QED BY <3>1 DEF IsInjective
  <2>9. ASSUME NEW i \in 1..Len(cut) PROVE s[i] # p
    <3>1. i \in 1..(Len(list) - 1)
      BY <2>3
    <3>2. at(i) \in 1..Len(list) /\ at(i) # k /\ s[i] = q[at(i)]
      BY <2>6, <3>1
    <3> HIDE DEF at
    <3> QED BY <1>4, <1>6, <2>1, <2>7, <3>2
  <2>10. t.count = Len(List(t))
    BY <1>1, <2>2, <2>3, <2>4
  <2>11. IsSoundHeap(t)
    BY <1>1, <2>2, <2>4, <2>8, <2>10 DEF IsSoundHeap, s
  <2> QED BY <2>2, <2>4, <2>9, <2>11 DEF t, s
<1> QED BY <1>5, <1>6

\* A player who is not in the list may be added.
LEMMA AddingIsSound ==
  ASSUME NEW h, IsSoundHeap(h), Len(h.next) < MaxNodes, NEW p \in Names,
         \A i \in 1..Len(List(h)) : PlayersOf(h, List(h))[i] # p
  PROVE  IsSoundHeap(add_player(h, p))
<1> DEFINE list == List(h)
           q == PlayersOf(h, list)
           n == Len(h.next) + 1
           t == add_player(h, p)
           longer == <<n>> \o list
           s == PlayersOf(t, longer)
<1>1. /\ IsHeap(h) /\ Path(h.next, h.player_list, list) /\ list \in Seq(1..Len(h.next))
      /\ h.count = Len(list) /\ IsInjective(q) /\ Len(h.next) < MaxNodes
      /\ \A i \in 1..Len(list) : q[i] # p
  BY ListIs DEF IsSoundHeap
<1> HIDE DEF list
<1>2. q \in Seq(Names) /\ Len(q) = Len(list) /\ Len(list) \in Nat /\ Len(h.next) \in Nat
  BY <1>1, PlayersOfPath DEF IsHeap, Links
<1>3. /\ IsHeap(t) /\ t.next = Append(h.next, h.player_list) /\ t.player_list = n
      /\ t.count = h.count + 1 /\ Path(t.next, n, longer)
  BY <1>1, AddedNode
<1>4. s = <<p>> \o q
  <2>1. \E dead, v : Shape(h, list, dead, v)
    <3>1. PICK c, dead, v : Shape(h, c, dead, v)
      BY <1>1, ShapeExists
    <3>2. c = list
      BY <1>1, <3>1, ListIs DEF Shape, list
    <3> QED BY <3>1, <3>2
  <2>2. PICK dead, v : Shape(h, list, dead, v)
    BY <2>1
  <2> QED BY <1>1, <2>2, AddAgrees
<1> HIDE DEF q, t, s
<1>5. Len(t.next) = n
  BY <1>1, <1>2, <1>3 DEF IsHeap, Links
<1>6. List(t) = longer
  BY <1>3, ListIs
<1>7. Len(longer) = Len(list) + 1
  <2>1. list \in Seq(Nat) /\ n \in Nat
    <3>1. \A i \in 1..Len(list) : list[i] \in Nat
      BY <1>1
    <3> QED BY <1>1, <1>2, <3>1
  <2> HIDE DEF n
  <2> QED BY <2>1
<1>8. /\ s \in Seq(Names) /\ Len(s) = Len(list) + 1 /\ s[1] = p
      /\ \A i \in 1..Len(list) : s[i + 1] = q[i]
  BY <1>2, <1>4
<1>9. IsInjective(s)
  <2>1. ASSUME NEW i \in 1..(Len(list) + 1)
        PROVE  i # 1 => i - 1 \in 1..Len(list) /\ s[i] = q[i - 1] /\ s[i] # p
    <3>1. CASE i # 1
      <4>1. i - 1 \in 1..Len(list) /\ (i - 1) + 1 = i
        BY <1>2, <3>1
      <4>2. s[i] = q[i - 1]
        BY <1>8, <4>1
      <4> QED BY <1>1, <4>1, <4>2
    <3> QED BY <3>1
  <2>2. ASSUME NEW i \in DOMAIN s, NEW j \in DOMAIN s, s[i] = s[j] PROVE i = j
    <3>1. i \in 1..(Len(list) + 1) /\ j \in 1..(Len(list) + 1)
      BY <1>8
    <3>2. CASE i = 1 \/ j = 1
      BY <1>8, <2>1, <2>2, <3>1, <3>2
    <3>3. CASE i # 1 /\ j # 1
      <4>1. i - 1 \in DOMAIN q /\ j - 1 \in DOMAIN q /\ q[i - 1] = q[j - 1]
        BY <1>2, <2>1, <2>2, <3>1, <3>3
      <4>2. i - 1 = j - 1
        BY <1>1, <4>1 DEF IsInjective
      <4> QED BY <3>1, <4>2
    <3> QED BY <3>2, <3>3
  <2> QED BY <2>2 DEF IsInjective
<1>10. t.count = Len(longer) /\ Len(t.next) <= MaxNodes
  BY <1>1, <1>2, <1>3, <1>5, <1>7, HeapAssumption
<1>11. IsSoundHeap(t)
  BY <1>3, <1>6, <1>9, <1>10 DEF IsSoundHeap, s
<1> QED BY <1>11 DEF t

\* The drawing pointer does not matter to the invariant.
LEMMA DrawingIsSound ==
  ASSUME NEW h, IsSoundHeap(h), NEW n,
         IsHeap([h EXCEPT !.drawing_player_list = n])
  PROVE  IsSoundHeap([h EXCEPT !.drawing_player_list = n])
<1> DEFINE t == [h EXCEPT !.drawing_player_list = n]
<1>1. /\ t.next = h.next /\ t.player = h.player /\ t.player_list = h.player_list
      /\ t.count = h.count
  BY DEF IsSoundHeap, IsHeap
<1>2. IsHeap(t)
  OBVIOUS
<1> HIDE DEF t
<1>3. List(t) = List(h)
  <2>1. Path(t.next, t.player_list, List(h))
    BY <1>1, ListIs DEF IsSoundHeap
  <2> QED BY <1>2, <2>1, ListIs
<1>4. PlayersOf(t, List(h)) = PlayersOf(h, List(h))
  BY <1>1 DEF PlayersOf
<1>5. IsSoundHeap(t)
  BY <1>1, <1>2, <1>3, <1>4 DEF IsSoundHeap
<1> QED BY <1>5 DEF t

-----------------------------------------------------------------------------
Inv == IsSoundHeap(heap)

\* The invariant is inductive.
LEMMA InvariantHolds == Spec => []Inv
<1>1. Init => Inv
  BY EmptyIsSound DEF Init, Inv
<1>2. Inv /\ [Next]_heap => Inv'
  <2> SUFFICES ASSUME Inv, [Next]_heap
               PROVE  Inv'
    OBVIOUS
  <2>1. ASSUME NEW p \in Names, Enter(p) PROVE Inv'
    <3> DEFINE t == remove_player(heap, p)
    <3>1. /\ IsSoundHeap(t) /\ Len(t.next) = Len(heap.next)
          /\ \A i \in 1..Len(List(t)) : PlayersOf(t, List(t))[i] # p
      BY RemovingIsSound DEF Inv
    <3>2. Len(heap.next) < MaxNodes /\ heap' = add_player(t, p)
      BY <2>1 DEF Enter
    <3> HIDE DEF t
    <3>3. IsSoundHeap(add_player(t, p))
      BY <3>1, <3>2, AddingIsSound
    <3> QED BY <3>2, <3>3 DEF Inv
  <2>2. ASSUME NEW p \in Names, Depart(p) PROVE Inv'
    <3>1. heap' = remove_player(heap, p)
      BY <2>2 DEF Depart
    <3>2. IsSoundHeap(remove_player(heap, p))
      BY RemovingIsSound DEF Inv
    <3> QED BY <3>1, <3>2 DEF Inv
  <2>3. ASSUME NEW online \in SUBSET Names, StartRound(online) PROVE Inv'
    <3> DEFINE n == NextDrawing(heap, online)
    <3>1. n # NULL /\ heap' = [heap EXCEPT !.drawing_player_list = n]
      BY <2>3 DEF StartRound
    <3>2. IsHeap(heap) /\ heap.count = Len(List(heap))
      BY DEF Inv, IsSoundHeap
    <3>3. PICK list, dead, v : Shape(heap, list, dead, v)
      BY <3>2, ShapeExists
    <3>4. heap.count = Len(list)
      BY <3>2, <3>3, ListIs DEF Shape
    <3>5. IsHeap([heap EXCEPT !.drawing_player_list = n])
      BY <3>1, <3>2, <3>3, <3>4, DrawingAgrees
    <3> HIDE DEF n
    <3>6. IsSoundHeap([heap EXCEPT !.drawing_player_list = n])
      BY <3>5, DrawingIsSound DEF Inv
    <3> QED BY <3>1, <3>6 DEF Inv
  <2>4. CASE UNCHANGED heap
    BY <2>4 DEF Inv
  <2> QED BY <2>1, <2>2, <2>3, <2>4 DEF Next
<1> QED BY <1>1, <1>2, PTL DEF Spec

\* A node only ever points to an older one, and every pointer to a node that was
\* allocated: the walks of player.c and game.c end.
THEOREM PointersAreGood == Spec => []TypeOK
<1>1. Inv => TypeOK
  <2> SUFFICES ASSUME Inv PROVE TypeOK
    OBVIOUS
  <2> DEFINE l == Len(heap.next)
  <2>1. /\ IsHeap(heap) /\ l \in Nat /\ MaxNodes \in Nat /\ l <= MaxNodes
        /\ Links(heap.next) /\ heap.next \in Seq(Nat) /\ DOMAIN heap.next = 1..l
        /\ heap.count = Len(List(heap))
    BY HeapAssumption DEF Inv, IsSoundHeap, IsHeap, Links
  <2>2. ASSUME NEW n \in 1..l PROVE heap.next[n] \in 0..(n - 1) /\ heap.next[n] \in 0..MaxNodes
    <3>1. heap.next[n] \in 0..(n - 1)
      BY <2>1 DEF Links
    <3> QED BY <2>1, <3>1
  <2>3. heap.next \in Seq(0..MaxNodes)
    <3> DEFINE Q == 0..MaxNodes
    <3>1. \A n \in 1..Len(heap.next) : heap.next[n] \in Q
      BY <2>2
    <3> HIDE DEF Q
    <3>2. heap.next \in Seq(Q)
      BY <2>1, <3>1
    <3> QED BY <3>2 DEF Q
  <2>4. heap.count \in 0..MaxNodes
    <3>1. Path(heap.next, heap.player_list, List(heap))
      BY <2>1, ListIs
    <3>2. Len(List(heap)) <= l
      BY <2>1, <3>1, PathIsShort
    <3>3. Len(List(heap)) \in Nat
      BY <3>1 DEF Path
    <3> QED BY <2>1, <3>2, <3>3
  <2>5. {heap.player_list, heap.drawing_player_list} \subseteq Pointers(heap)
    BY <2>1 DEF IsHeap, Pointers, Nodes, NULL
  <2>6. heap.player \in Seq(Names) /\ Len(heap.next) = Len(heap.player)
    BY <2>1 DEF IsHeap
  <2>7. \A n \in Nodes(heap) : heap.next[n] \in 0..(n - 1)
    BY <2>1, <2>2 DEF Nodes
  <2> QED BY <2>3, <2>4, <2>5, <2>6, <2>7 DEF TypeOK
<1> QED BY <1>1, InvariantHolds, PTL

\* The count that add_player and remove_player keep is the length of the list, whatever
\* was removed from wherever.
THEOREM CountIsKept == Spec => []CountIsLength
<1>1. Inv => CountIsLength
  BY DEF Inv, IsSoundHeap, CountIsLength, List
<1> QED BY <1>1, InvariantHolds, PTL

\* The nodes, pointers and loops of player.c and game.c do to the player list what
\* PlayerList says, from every heap that reassignments and rounds leave.
THEOREM HeapImplementsThePlayerList == Spec => []OperationsAgree
<1>1. Inv => OperationsAgree
  <2> SUFFICES ASSUME Inv PROVE OperationsAgree
    OBVIOUS
  <2>1. IsHeap(heap) /\ heap.count = Len(List(heap)) /\ IsInjective(PlayersOf(heap, List(heap)))
    BY DEF Inv, IsSoundHeap
  <2>2. PICK list, dead, v : Shape(heap, list, dead, v)
    BY <2>1, ShapeExists
  <2>3. list = List(heap) /\ Len(list) \in Nat
    BY <2>1, <2>2, ListIs DEF Shape, Path
  <2>4. heap.count = Len(list) /\ heap.count \in Int /\ IsInjective(PlayersOf(heap, list))
    BY <2>1, <2>3
  <2>5. ASSUME NEW p \in Names
        PROVE  /\ View(remove_player(heap, p)) = PL!remove_player(View(heap), p)
               /\ View(add_player(heap, p)) = PL!add_player(View(heap), p)
    <3>1. View(remove_player(heap, p)) = PL!remove_player(View(heap), p)
      BY <2>1, <2>2, <2>4, RemoveAgrees
    <3>2. View(add_player(heap, p)) = PL!add_player(View(heap), p)
      BY <2>1, <2>2, <2>4, AddAgrees
    <3> QED BY <3>1, <3>2
  <2>6. ASSUME NEW online \in SUBSET Names
        PROVE  LET n == NextDrawing(heap, online)
               IN  /\ n # NULL <=> PL!HasNextDrawer(View(heap), online)
                   /\ n # NULL => View([heap EXCEPT !.drawing_player_list = n])
                                    = PL!get_next_drawing(View(heap), online)
    BY <2>1, <2>2, <2>4, DrawingAgrees
  <2> QED BY <2>5, <2>6 DEF OperationsAgree
<1> QED BY <1>1, InvariantHolds, PTL
=============================================================================
