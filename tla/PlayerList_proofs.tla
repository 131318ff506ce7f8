-------------------------- MODULE PlayerList_proofs --------------------------
(***************************************************************************)
(* Lemmas about the player list and the rotation of the drawing player,    *)
(* for every set of players and every roster, and the theorem that the     *)
(* search for the next drawing player succeeds.                            *)
(***************************************************************************)
EXTENDS PlayerList, LibraryLemmas, FiniteSetTheorems, SequenceTheorems, TLAPS

\* FirstIn is the least index of an element of S, or 0.
LEMMA FirstInIsFirst ==
  ASSUME NEW Q, NEW seq \in Seq(Q), NEW S
  PROVE  /\ FirstIn(seq, S) \in 0..Len(seq)
         /\ FirstIn(seq, S) # 0 => seq[FirstIn(seq, S)] \in S
         /\ \A i \in 1..Len(seq) :
              seq[i] \in S => FirstIn(seq, S) # 0 /\ FirstIn(seq, S) <= i
<1> DEFINE hits == {i \in 1..Len(seq) : seq[i] \in S}
<1>1. hits \in SUBSET Nat
  OBVIOUS
<1>2. CASE hits = {}
  BY <1>2 DEF FirstIn
<1>3. CASE hits # {}
  <2>1. FirstIn(seq, S) = Min(hits)
    BY <1>3, Zenon DEF FirstIn
  <2>2. Min(hits) \in hits /\ \A n \in hits : Min(hits) <= n
    BY <1>1, <1>3, MinIsLeast, Zenon
  <2>3. FirstIn(seq, S) \in hits /\ \A n \in hits : FirstIn(seq, S) <= n
    BY <2>1, <2>2, Zenon
  <2>. QED  BY <2>3
<1>. QED  BY <1>2, <1>3

\* From drops the first k - 1 elements.
LEMMA FromIsTail ==
  ASSUME NEW Q, NEW seq \in Seq(Q), NEW k \in 1..(Len(seq) + 1)
  PROVE  /\ From(seq, k) \in Seq(Q)
         /\ Len(From(seq, k)) = Len(seq) - k + 1
         /\ \A i \in 1..(Len(seq) - k + 1) : From(seq, k)[i] = seq[k + i - 1]
         /\ IsTail(From(seq, k), seq)
BY SMT DEF From, IsTail

\* Where From starts.
LEMMA FromStart ==
  ASSUME NEW Q, NEW seq \in Seq(Q), NEW k \in 1..Len(seq)
  PROVE  /\ From(seq, k) \in Seq(Q)
         /\ Len(From(seq, k)) = Len(seq) - k + 1
         /\ From(seq, k) # <<>>
         /\ From(seq, k)[1] = seq[k]
<1> DEFINE t == From(seq, k)
<1>1. k \in 1..(Len(seq) + 1) /\ 1 \in 1..(Len(seq) - k + 1) /\ k + 1 - 1 = k
  OBVIOUS
<1>2. /\ t \in Seq(Q)
      /\ Len(t) = Len(seq) - k + 1
      /\ \A i \in 1..(Len(seq) - k + 1) : t[i] = seq[k + i - 1]
  BY <1>1, FromIsTail
<1>. HIDE DEF t
<1>3. t[1] = seq[k]
  BY <1>1, <1>2
<1>4. t # <<>>
  BY <1>1, <1>2
<1>. QED  BY <1>2, <1>3, <1>4 DEF t

\* Without cuts one element out.
LEMMA WithoutCuts ==
  ASSUME NEW Q, NEW seq \in Seq(Q), NEW p, NEW k, k = FirstIn(seq, {p})
  PROVE  /\ Without(seq, p) \in Seq(Q)
         /\ k = 0 => Without(seq, p) = seq
         /\ k # 0 =>
              /\ Len(Without(seq, p)) = Len(seq) - 1
              /\ \A i \in 1..(Len(seq) - 1) :
                   Without(seq, p)[i] = IF i < k THEN seq[i] ELSE seq[i + 1]
<1>1. k \in 0..Len(seq)
  BY FirstInIsFirst
<1>2. CASE k = 0
  BY <1>2 DEF Without
<1>3. CASE k # 0
  <2>1. Without(seq, p)
          = [i \in 1..(Len(seq) - 1) |-> IF i < k THEN seq[i] ELSE seq[i + 1]]
    BY <1>3, Zenon DEF Without
  <2>2. Len(seq) - 1 \in Nat
    BY <1>1, <1>3
  <2>3. \A i \in 1..(Len(seq) - 1) : seq[i] \in Q /\ seq[i + 1] \in Q
    OBVIOUS
  <2>. QED  BY <1>1, <1>3, <2>1, <2>2, <2>3
<1>. QED  BY <1>2, <1>3

\* The operators yield rosters.
LEMMA RosterTypes ==
  ASSUME NEW P, NEW r, IsRoster(r, P), NEW p \in P
  PROVE  /\ IsRoster(new_players, P)
         /\ IsRoster(add_player(r, p), P)
         /\ IsRoster(remove_player(r, p), P)
<1>1. Without(r.list, p) \in Seq(P) /\ Without(r.live, p) \in Seq(P)
  BY WithoutCuts DEF IsRoster
<1>2. IsRoster(new_players, P)
  BY SMT DEF IsRoster, new_players
<1>3. IsRoster(add_player(r, p), P)
  BY SMT DEF IsRoster, add_player
<1>4. IsRoster(remove_player(r, p), P)
  BY <1>1, SMT DEF IsRoster, remove_player
<1>. QED  BY <1>2, <1>3, <1>4

\* The elements of a sequence.
LEMMA ToSetOfSeq ==
  ASSUME NEW P, NEW seq \in Seq(P)
  PROVE  \A x : x \in ToSet(seq) <=> \E i \in 1..Len(seq) : seq[i] = x
BY SMT DEF ToSet

\* A sequence with one more element in front.
LEMMA ConsShape ==
  ASSUME NEW P, NEW list \in Seq(P), NEW p \in P
  PROVE  /\ <<p>> \o list \in Seq(P)
         /\ Len(<<p>> \o list) = Len(list) + 1
         /\ \A i \in 1..(Len(list) + 1) :
              (<<p>> \o list)[i] = IF i = 1 THEN p ELSE list[i - 1]
BY SMT

\* A new element in front of a list that does not have it.
LEMMA ConsKeepsSound ==
  ASSUME NEW P, NEW list \in Seq(P), NEW live \in Seq(P), NEW p \in P,
         IsInjective(list), IsTail(live, list), p \notin ToSet(list)
  PROVE  /\ IsInjective(<<p>> \o list)
         /\ IsTail(live, <<p>> \o list)
         /\ ToSet(<<p>> \o list) = ToSet(list) \cup {p}
<1>0. PICK longer \in Seq(P) : longer = <<p>> \o list
  BY ConsShape
<1>1. Len(longer) = Len(list) + 1
  BY <1>0, ConsShape
<1>2. \A i \in 1..Len(longer) : longer[i] = IF i = 1 THEN p ELSE list[i - 1]
  BY <1>0, <1>1, ConsShape
<1>3. \A i \in 1..Len(list) : list[i] # p
  BY ToSetOfSeq
<1>4. \A i, j \in 1..Len(list) : list[i] = list[j] => i = j
  BY DEF IsInjective
<1>5. IsInjective(longer)
  <2>1. SUFFICES ASSUME NEW i \in 1..Len(longer), NEW j \in 1..Len(longer),
                        longer[i] = longer[j]
                 PROVE  i = j
    BY DEF IsInjective
  <2>2. CASE i = 1 \/ j = 1
    BY <1>1, <1>2, <1>3, <2>1, <2>2
  <2>3. CASE i # 1 /\ j # 1
    <3>1. /\ i - 1 \in 1..Len(list) /\ j - 1 \in 1..Len(list)
          /\ list[i - 1] = list[j - 1]
      BY <1>1, <1>2, <2>1, <2>3
    <3>2. i - 1 = j - 1
      BY <1>4, <3>1
    <3>. QED  BY <3>2
  <2>. QED  BY <2>2, <2>3
<1>6. IsTail(live, longer)
  <2>1. PICK m \in Nat, n \in Nat : m = Len(list) /\ n = Len(live)
    OBVIOUS
  <2>2. n <= m /\ Len(longer) = m + 1
    BY <1>1, <2>1 DEF IsTail
  <2>3. n <= Len(longer)
    BY <2>1, <2>2
  <2>4. ASSUME NEW i \in 1..n PROVE live[i] = longer[Len(longer) - n + i]
    <3>1. live[i] = list[m - n + i]
      BY <2>1 DEF IsTail
    <3> DEFINE k == m + 1 - n + i
    <3>2. k \in 1..(m + 1) /\ k = m + 1 - n + i
      BY <2>2
    <3> HIDE DEF k
    <3>3. k # 1 /\ k - 1 = m - n + i
      BY <2>2, <3>2
    <3>4. longer[k] = list[k - 1]
      BY <1>2, <2>2, <3>2, <3>3
    <3>5. Len(longer) - n + i = k
      BY <2>2, <3>2
    <3>. QED  BY <3>1, <3>3, <3>4, <3>5, Zenon
  <2>. QED  BY <2>1, <2>3, <2>4, Zenon DEF IsTail
<1>7. ASSUME NEW x PROVE x \in ToSet(longer) <=> x \in ToSet(list) \cup {p}
  <2>1. ASSUME x \in ToSet(longer) PROVE x \in ToSet(list) \cup {p}
    <3>1. PICK i \in 1..Len(longer) : longer[i] = x
      BY <2>1, ToSetOfSeq
    <3>2. i # 1 => i - 1 \in 1..Len(list) /\ list[i - 1] = x
      BY <1>1, <1>2, <3>1
    <3>3. i = 1 => x = p
      BY <1>2, <3>1
    <3>. QED  BY <3>2, <3>3, ToSetOfSeq
  <2>2. ASSUME x \in ToSet(list) \cup {p} PROVE x \in ToSet(longer)
    <3>1. CASE x = p
      <4>1. 1 \in 1..Len(longer) /\ longer[1] = p
        BY <1>1, <1>2
      <4>. QED  BY <3>1, <4>1, ToSetOfSeq
    <3>2. CASE x \in ToSet(list)
      <4>1. PICK i \in 1..Len(list) : list[i] = x
        BY <3>2, ToSetOfSeq
      <4>2. i + 1 \in 1..Len(longer) /\ longer[i + 1] = x
        BY <1>1, <1>2, <4>1
      <4>. QED  BY <4>2, ToSetOfSeq
    <3>. QED  BY <2>2, <3>1, <3>2
  <2>. QED  BY <2>1, <2>2
<1>. QED  BY <1>0, <1>5, <1>6, <1>7

\* A new player at the head keeps a roster sound.
LEMMA AddKeepsSound ==
  ASSUME NEW P, NEW r, IsRoster(r, P), IsSound(r), NEW p \in P, p \notin Members(r)
  PROVE  /\ IsSound(add_player(r, p))
         /\ Members(add_player(r, p)) = Members(r) \cup {p}
<1> DEFINE longer == <<p>> \o r.list
<1>1. r.list \in Seq(P) /\ r.live \in Seq(P)
  BY DEF IsRoster
<1>2. IsInjective(r.list) /\ IsTail(r.live, r.list) /\ p \notin ToSet(r.list)
  BY DEF IsSound, Members
<1>3. /\ IsInjective(longer)
      /\ IsTail(r.live, longer)
      /\ ToSet(longer) = ToSet(r.list) \cup {p}
  <2>1. PICK list \in Seq(P), live \in Seq(P) : list = r.list /\ live = r.live
    BY <1>1
  <2>2. IsInjective(list) /\ IsTail(live, list) /\ p \notin ToSet(list)
    BY <1>2, <2>1, Zenon
  <2>3. /\ IsInjective(<<p>> \o list)
        /\ IsTail(live, <<p>> \o list)
        /\ ToSet(<<p>> \o list) = ToSet(list) \cup {p}
    BY <2>2, ConsKeepsSound
  <2>. QED  BY <2>1, <2>3, Zenon
<1>4. add_player(r, p).list = longer /\ add_player(r, p).live = r.live
  BY DEF add_player
<1>. QED  BY <1>3, <1>4, Zenon DEF IsSound, Members

\* A list, and the tail of it that is in the drawing chain, without one player.
LEMMA WithoutKeepsSound ==
  ASSUME NEW P, NEW list \in Seq(P), NEW live \in Seq(P), NEW p \in P,
         IsInjective(list), IsTail(live, list)
  PROVE  /\ IsInjective(Without(list, p))
         /\ IsTail(Without(live, p), Without(list, p))
         /\ ToSet(Without(list, p)) = ToSet(list) \ {p}
<1> DEFINE k == FirstIn(list, {p})
           m == FirstIn(live, {p})
           list2 == Without(list, p)
           live2 == Without(live, p)
<1>1. /\ k \in 0..Len(list)
      /\ k # 0 => list[k] = p
      /\ \A i \in 1..Len(list) : list[i] = p => k # 0 /\ k <= i
  BY FirstInIsFirst
<1>2. /\ m \in 0..Len(live)
      /\ m # 0 => live[m] = p
      /\ \A i \in 1..Len(live) : live[i] = p => m # 0 /\ m <= i
  BY FirstInIsFirst
<1>3. /\ list2 \in Seq(P)
      /\ k = 0 => list2 = list
      /\ k # 0 =>
           /\ Len(list2) = Len(list) - 1
           /\ \A i \in 1..(Len(list) - 1) :
                list2[i] = IF i < k THEN list[i] ELSE list[i + 1]
  BY WithoutCuts
<1>4. /\ live2 \in Seq(P)
      /\ m = 0 => live2 = live
      /\ m # 0 =>
           /\ Len(live2) = Len(live) - 1
           /\ \A i \in 1..(Len(live) - 1) :
                live2[i] = IF i < m THEN live[i] ELSE live[i + 1]
  BY WithoutCuts
<1>5. \A i, j \in 1..Len(list) : list[i] = list[j] => i = j
  BY DEF IsInjective
<1>6. /\ Len(live) <= Len(list)
      /\ \A i \in 1..Len(live) : live[i] = list[Len(list) - Len(live) + i]
  BY DEF IsTail
<1>. HIDE DEF k, m, list2, live2
<1>7. IsInjective(list2)
  <2>1. CASE k = 0
    BY <1>3, <2>1
  <2>2. CASE k # 0
    <3>1. SUFFICES ASSUME NEW i \in 1..Len(list2), NEW j \in 1..Len(list2),
                          list2[i] = list2[j]
                   PROVE  i = j
      BY <1>3 DEF IsInjective
    <3>. QED  BY <1>1, <1>3, <1>5, <2>2, <3>1
  <2>. QED  BY <2>1, <2>2
<1>8. IsTail(live2, list2)
  <2>1. CASE k = 0
    <3>1. m = 0
      BY <1>1, <1>2, <1>6, <2>1
    <3>. QED  BY <1>3, <1>4, <2>1, <3>1
  <2>2. CASE k # 0 /\ m = 0
    <3>1. k <= Len(list) - Len(live)
      <4>1. SUFFICES ASSUME ~(k <= Len(list) - Len(live)) PROVE FALSE
        OBVIOUS
      <4>2. k - (Len(list) - Len(live)) \in 1..Len(live)
        BY <1>1, <1>6, <4>1
      <4>3. live[k - (Len(list) - Len(live))] = list[k]
        BY <1>1, <1>6, <4>2
      <4>. QED  BY <1>1, <1>2, <2>2, <4>2, <4>3
    <3>2. Len(list2) = Len(list) - 1 /\ Len(live2) = Len(live) /\ live2 = live
      BY <1>3, <1>4, <2>2
    <3>3. Len(live2) <= Len(list2)
      BY <1>1, <2>2, <3>1, <3>2
    <3>4. ASSUME NEW i \in 1..Len(live2)
          PROVE  live2[i] = list2[Len(list2) - Len(live2) + i]
      <4>1. /\ Len(list) - 1 - Len(live) + i \in 1..(Len(list) - 1)
            /\ ~(Len(list) - 1 - Len(live) + i < k)
        BY <1>1, <2>2, <3>1, <3>2
      <4>2. list2[Len(list) - 1 - Len(live) + i] = list[Len(list) - Len(live) + i]
        BY <1>3, <2>2, <4>1
      <4>. QED  BY <1>6, <3>2, <4>2
    <3>. QED  BY <3>3, <3>4 DEF IsTail
  <2>3. CASE k # 0 /\ m # 0
    <3>1. k = Len(list) - Len(live) + m
      <4>1. /\ m \in 1..Len(live) /\ k \in 1..Len(list)
            /\ Len(list) - Len(live) + m \in 1..Len(list)
        BY <1>1, <1>2, <1>6, <2>3
      <4>2. list[Len(list) - Len(live) + m] = list[k]
        BY <1>1, <1>2, <1>6, <2>3, <4>1
      <4>. QED  BY <1>5, <4>1, <4>2
    <3>2. Len(list2) = Len(list) - 1 /\ Len(live2) = Len(live) - 1
      BY <1>3, <1>4, <2>3
    <3>3. Len(live2) <= Len(list2)
      BY <1>6, <3>2
    <3>4. ASSUME NEW i \in 1..Len(live2)
          PROVE  live2[i] = list2[Len(list2) - Len(live2) + i]
      <4>1. Len(list) - Len(live) + i \in 1..(Len(list) - 1)
        BY <1>6, <3>2
      <4>2. live2[i] = IF i < m THEN live[i] ELSE live[i + 1]
        BY <1>4, <2>3, <3>2
      <4>3. list2[Len(list) - Len(live) + i]
              = IF i < m THEN list[Len(list) - Len(live) + i]
                ELSE list[Len(list) - Len(live) + i + 1]
        <5> DEFINE j == Len(list) - Len(live) + i
        <5>1. list2[j] = IF j < k THEN list[j] ELSE list[j + 1]
          BY <1>3, <2>3, <4>1
        <5>2. i < m <=> j < k
          BY <1>2, <3>1, <3>2
        <5>. QED  BY <5>1, <5>2
      <4>4. i \in 1..Len(live) /\ i + 1 \in 1..Len(live)
        BY <3>2
      <4>5. Len(list2) - Len(live2) + i = Len(list) - Len(live) + i
        BY <3>2
      <4>6. /\ live[i] = list[Len(list) - Len(live) + i]
            /\ live[i + 1] = list[Len(list) - Len(live) + i + 1]
        BY <1>6, <4>4
      <4>. QED  BY <4>2, <4>3, <4>5, <4>6
    <3>. QED  BY <3>3, <3>4 DEF IsTail
  <2>4. CASE k = 0 \/ m = 0 \/ (k # 0 /\ m # 0)
    BY <2>1, <2>2, <2>3
  <2>. QED  BY <2>4
<1>9. ASSUME NEW x PROVE x \in ToSet(list2) <=> x \in ToSet(list) \ {p}
  <2>1. CASE k = 0
    BY <1>1, <1>3, <2>1, ToSetOfSeq
  <2>2. CASE k # 0
    <3>1. ASSUME x \in ToSet(list2) PROVE x \in ToSet(list) \ {p}
      <4>1. PICK i \in 1..Len(list2) : list2[i] = x
        BY <1>3, <3>1, ToSetOfSeq
      <4>2. CASE i < k
        BY <1>1, <1>3, <1>5, <2>2, <4>1, <4>2, ToSetOfSeq
      <4>3. CASE ~(i < k)
        <5>1. i + 1 \in 1..Len(list) /\ list[i + 1] = x /\ i + 1 # k
          BY <1>1, <1>3, <2>2, <4>1, <4>3
        <5>2. x # p
          BY <1>1, <1>5, <2>2, <5>1
        <5>. QED  BY <5>1, <5>2, ToSetOfSeq
      <4>. QED  BY <4>2, <4>3
    <3>2. ASSUME x \in ToSet(list) \ {p} PROVE x \in ToSet(list2)
      <4>1. PICK i \in 1..Len(list) : list[i] = x /\ i # k
        BY <1>1, <2>2, <3>2, ToSetOfSeq
      <4>2. CASE i < k
        <5>1. i \in 1..Len(list2) /\ list2[i] = x
          BY <1>1, <1>3, <2>2, <4>1, <4>2
        <5>. QED  BY <1>3, <5>1, ToSetOfSeq
      <4>3. CASE ~(i < k)
        <5>1. i - 1 \in 1..Len(list2) /\ list2[i - 1] = x
          BY <1>1, <1>3, <2>2, <4>1, <4>3
        <5>. QED  BY <1>3, <5>1, ToSetOfSeq
      <4>. QED  BY <4>2, <4>3
    <3>. QED  BY <3>1, <3>2
  <2>. QED  BY <2>1, <2>2
<1>. QED  BY <1>7, <1>8, <1>9 DEF list2, live2

\* Unlinking a player keeps a roster sound.
LEMMA RemoveKeepsSound ==
  ASSUME NEW P, NEW r, IsRoster(r, P), IsSound(r), NEW p \in P
  PROVE  /\ IsSound(remove_player(r, p))
         /\ Members(remove_player(r, p)) = Members(r) \ {p}
<1>1. r.list \in Seq(P) /\ r.live \in Seq(P)
  BY DEF IsRoster
<1>2. IsInjective(r.list) /\ IsTail(r.live, r.list)
  BY DEF IsSound
<1>3. /\ IsInjective(Without(r.list, p))
      /\ IsTail(Without(r.live, p), Without(r.list, p))
      /\ ToSet(Without(r.list, p)) = ToSet(r.list) \ {p}
  <2>1. PICK list \in Seq(P), live \in Seq(P) : list = r.list /\ live = r.live
    BY <1>1
  <2>2. IsInjective(list) /\ IsTail(live, list)
    BY <1>2, <2>1, Zenon
  <2>. QED  BY <2>1, <2>2, WithoutKeepsSound
<1>4. /\ remove_player(r, p).list = Without(r.list, p)
      /\ remove_player(r, p).live = Without(r.live, p)
  BY DEF remove_player
<1>. QED  BY <1>3, <1>4, Zenon DEF IsSound, Members

\* The drawing chain is its unlinked nodes and then its linked ones.
LEMMA RotationShape ==
  ASSUME NEW P, NEW dead \in Seq(P), NEW live \in Seq(P)
  PROVE  /\ dead \o live \in Seq(P)
         /\ Len(dead \o live) = Len(dead) + Len(live)
         /\ \A i \in 1..(Len(dead) + Len(live)) :
              (dead \o live)[i] = IF i <= Len(dead) THEN dead[i] ELSE live[i - Len(dead)]
BY ConcatProperties

\* What is first in the chain when there is an unlinked node.
LEMMA DeadFirst ==
  ASSUME NEW P, NEW dead \in Seq(P), NEW live \in Seq(P), dead # <<>>
  PROVE  dead \o live # <<>> /\ (dead \o live)[1] = dead[1]
<1>1. Len(dead) + Len(live) # 0 /\ 1 \in 1..(Len(dead) + Len(live)) /\ 1 <= Len(dead)
  OBVIOUS
<1>. QED  BY <1>1, RotationShape

\* Unlinking a player does not move the drawing pointer: whoever draws still does.
LEMMA RemoveKeepsDrawer ==
  ASSUME NEW P, NEW r, IsRoster(r, P), NEW p \in P, Rotation(r) # <<>>
  PROVE  /\ Rotation(remove_player(r, p)) # <<>>
         /\ Drawer(remove_player(r, p)) = Drawer(r)
<1>1. PICK dead \in Seq(P), live \in Seq(P) : dead = r.dead /\ live = r.live
  BY DEF IsRoster
<1>2. PICK shorter \in Seq(P) : shorter = Without(live, p)
  BY WithoutCuts
<1>3. PICK m \in 0..Len(live) : m = FirstIn(live, {p}) /\ (m # 0 => live[m] = p)
  BY FirstInIsFirst
<1>4. /\ m = 0 => shorter = live
      /\ m # 0 =>
           /\ Len(shorter) = Len(live) - 1
           /\ \A i \in 1..(Len(live) - 1) :
                shorter[i] = IF i < m THEN live[i] ELSE live[i + 1]
  BY <1>2, <1>3, WithoutCuts
<1>5. dead \o live # <<>> /\ Drawer(r) = (dead \o live)[1]
  BY <1>1, Zenon DEF Rotation, Drawer
<1>6. CASE m = 1
  <2> DEFINE longer == Append(dead, p)
  <2>1. longer \in Seq(P) /\ longer # <<>> /\ longer[1] = (dead \o live)[1]
    BY <1>3, <1>6
  <2>. HIDE DEF longer
  <2>2. /\ remove_player(r, p).dead = longer
        /\ remove_player(r, p).live = shorter
    BY <1>1, <1>2, <1>3, <1>6 DEF remove_player, longer
  <2>3. Rotation(remove_player(r, p)) = longer \o shorter
    BY <2>2, Zenon DEF Rotation
  <2>4. longer \o shorter # <<>> /\ (longer \o shorter)[1] = (dead \o live)[1]
    BY <2>1, DeadFirst
  <2>. QED  BY <1>5, <2>3, <2>4, Zenon DEF Drawer
<1>7. CASE m # 1
  <2>1. /\ remove_player(r, p).dead = dead
        /\ remove_player(r, p).live = shorter
    BY <1>1, <1>2, <1>3, <1>7 DEF remove_player
  <2>2. Rotation(remove_player(r, p)) = dead \o shorter
    BY <2>1, Zenon DEF Rotation
  <2>3. dead \o shorter # <<>> /\ (dead \o shorter)[1] = (dead \o live)[1]
    <3>1. CASE dead = <<>>
      <4>1. live # <<>> /\ Len(live) # 0
        BY <1>5, <3>1
      <4>2. Len(shorter) # 0 /\ shorter[1] = live[1]
        <5>1. CASE m = 0
          BY <1>4, <4>1, <5>1
        <5>2. CASE m # 0
          <6>1. 1 < m /\ 1 \in 1..(Len(live) - 1)
            BY <1>3, <1>7, <5>2
          <6>. QED  BY <1>4, <5>2, <6>1
        <5>. QED  BY <5>1, <5>2
      <4>. QED  BY <3>1, <4>1, <4>2
    <3>2. CASE dead # <<>>
      BY <3>2
    <3>. QED  BY <3>1, <3>2
  <2>. QED  BY <1>5, <2>2, <2>3, Zenon DEF Drawer
<1>. QED  BY <1>6, <1>7

\* A tail of a tail.
LEMMA TailOfTail ==
  ASSUME NEW P, NEW list \in Seq(P), NEW live \in Seq(P), IsTail(live, list),
         NEW k \in 1..(Len(live) + 1)
  PROVE  IsTail(From(live, k), list)
<1>1. PICK t \in Seq(P) :
        /\ t = From(live, k)
        /\ Len(t) = Len(live) - k + 1
        /\ \A i \in 1..(Len(live) - k + 1) : t[i] = live[k + i - 1]
  BY FromIsTail
<1>2. /\ Len(live) <= Len(list)
      /\ \A i \in 1..Len(live) : live[i] = list[Len(list) - Len(live) + i]
  BY DEF IsTail
<1>3. Len(t) <= Len(list)
  BY <1>1, <1>2
<1>4. ASSUME NEW i \in 1..Len(t)
      PROVE  t[i] = list[Len(list) - Len(t) + i]
  <2>0. i \in 1..(Len(live) - k + 1)
    BY <1>1
  <2>1. k + i - 1 \in 1..Len(live) /\ t[i] = live[k + i - 1]
    BY <1>1, <2>0
  <2>2. live[k + i - 1] = list[Len(list) - Len(live) + (k + i - 1)]
    BY <1>2, <2>1
  <2>3. Len(list) - Len(live) + (k + i - 1) = Len(list) - Len(t) + i
    BY <1>1
  <2>. QED  BY <2>1, <2>2, <2>3
<1>5. IsTail(t, list)
  BY <1>3, <1>4 DEF IsTail
<1>. QED  BY <1>1, <1>5

\* Zero and one are the naturals up to one.
LEMMA AtMostOne == ASSUME NEW n \in Nat, n <= 1 PROVE n = 0 \/ n = 1
OBVIOUS

\* With at most one unlinked node, what follows the drawing node is a tail of the list.
LEMMA RestOfRotation ==
  ASSUME NEW P, NEW list \in Seq(P), NEW dead \in Seq(P), NEW live \in Seq(P),
         NEW rot \in Seq(P), rot = dead \o live, rot # <<>>,
         IsTail(live, list), Len(dead) <= 1
  PROVE  From(rot, 2) \in Seq(P) /\ IsTail(From(rot, 2), list)
<1>1. /\ Len(rot) = Len(dead) + Len(live)
      /\ \A i \in 1..(Len(dead) + Len(live)) :
           rot[i] = IF i <= Len(dead) THEN dead[i] ELSE live[i - Len(dead)]
  BY RotationShape
<1>2. /\ Len(live) <= Len(list)
      /\ \A i \in 1..Len(live) : live[i] = list[Len(list) - Len(live) + i]
  BY DEF IsTail
<1>3. 2 \in 1..(Len(rot) + 1) /\ Len(rot) # 0
  OBVIOUS
<1> DEFINE t == From(rot, 2)
<1>4. /\ t \in Seq(P)
      /\ Len(t) = Len(rot) - 2 + 1
      /\ \A i \in 1..(Len(rot) - 2 + 1) : t[i] = rot[2 + i - 1]
  BY <1>3, FromIsTail
<1>. HIDE DEF t
<1>5. /\ Len(t) = Len(rot) - 1
      /\ \A i \in 1..Len(t) : t[i] = rot[i + 1]
  BY <1>4
<1>6. Len(t) <= Len(list)
  BY <1>1, <1>2, <1>5
<1>7. ASSUME NEW i \in 1..Len(t)
      PROVE  t[i] = list[Len(list) - Len(t) + i]
  <2>1. t[i] = rot[i + 1] /\ i + 1 \in 1..(Len(dead) + Len(live))
    BY <1>1, <1>5
  <2>2. CASE Len(dead) = 0
    <3>1. i + 1 \in 1..Len(live) /\ rot[i + 1] = live[i + 1]
      BY <1>1, <2>1, <2>2
    <3>2. live[i + 1] = list[Len(list) - Len(live) + (i + 1)]
      BY <1>2, <3>1
    <3>3. Len(list) - Len(live) + (i + 1) = Len(list) - Len(t) + i
      BY <1>1, <1>5, <2>2
    <3>. QED  BY <2>1, <3>1, <3>2, <3>3
  <2>3. CASE Len(dead) = 1
    <3>1. i \in 1..Len(live) /\ rot[i + 1] = live[i]
      BY <1>1, <2>1, <2>3
    <3>2. live[i] = list[Len(list) - Len(live) + i]
      BY <1>2, <3>1
    <3>3. Len(live) = Len(t)
      BY <1>1, <1>5, <2>3
    <3>. QED  BY <2>1, <3>1, <3>2, <3>3
  <2>4. Len(dead) = 0 \/ Len(dead) = 1
    BY LenProperties, AtMostOne
  <2>. QED  BY <2>2, <2>3, <2>4
<1>8. IsTail(t, list)
  BY <1>6, <1>7 DEF IsTail
<1>. QED  BY <1>4, <1>8 DEF t

\* With at most one unlinked node, at the drawing pointer itself, the search for the
\* next drawing player starts out on a tail of the list.
LEMMA AheadIsTail ==
  ASSUME NEW P, NEW r, IsRoster(r, P), IsSound(r), Len(r.dead) <= 1
  PROVE  Ahead(r) \in Seq(P) /\ IsTail(Ahead(r), r.list)
<1>1. PICK list \in Seq(P), dead \in Seq(P), live \in Seq(P) :
        list = r.list /\ dead = r.dead /\ live = r.live
  BY DEF IsRoster
<1>2. IsTail(live, list) /\ Len(dead) <= 1
  BY <1>1, Zenon DEF IsSound
<1>3. PICK rot \in Seq(P) : rot = dead \o live
  BY RotationShape
<1>4. Ahead(r) = IF rot = <<>> THEN list ELSE From(rot, 2)
  BY <1>1, <1>3, Zenon DEF Ahead, Rotation
<1>5. CASE rot = <<>>
  <2>1. IsTail(list, list)
    BY DEF IsTail
  <2>. QED  BY <1>1, <1>4, <1>5, <2>1, Zenon
<1>6. CASE rot # <<>>
  <2>1. From(rot, 2) \in Seq(P) /\ IsTail(From(rot, 2), list)
    BY <1>2, <1>3, <1>6, RestOfRotation
  <2>. QED  BY <1>1, <1>4, <1>6, <2>1, Zenon
<1>. QED  BY <1>5, <1>6

\* The search succeeds: get_next_drawing_fd finds an online player whenever two are in
\* the list and no more than one unlinked node is on its way.
THEOREM NextDrawerExists ==
  ASSUME NEW P, NEW r, IsRoster(r, P), IsSound(r), Len(r.dead) <= 1,
         NEW online, NEW p \in Members(r) \cap online, NEW q \in Members(r) \cap online,
         p # q
  PROVE  HasNextDrawer(r, online)
<1>1. PICK list \in Seq(P), ahead \in Seq(P) : list = r.list /\ ahead = Ahead(r)
  BY AheadIsTail DEF IsRoster
<1>2. IsTail(ahead, list)
  BY <1>1, AheadIsTail
<1>3. /\ Len(ahead) <= Len(list)
      /\ \A i \in 1..Len(ahead) : ahead[i] = list[Len(list) - Len(ahead) + i]
  BY <1>2 DEF IsTail
<1>4. PICK i \in 1..Len(list), j \in 1..Len(list) :
        list[i] = p /\ list[j] = q /\ i # j
  BY <1>1, ToSetOfSeq DEF Members
<1>5. PICK around \in 0..Len(list) :
        /\ around = FirstIn(list, online)
        /\ \A n \in 1..Len(list) : list[n] \in online => around # 0 /\ around <= n
  BY FirstInIsFirst
<1>6. SUFFICES ASSUME FirstIn(ahead, online) = 0
               PROVE  around # 0 /\ Len(ahead) + around < Len(list)
  BY <1>1, <1>5 DEF HasNextDrawer, Wraps, NextAhead, NextAround
<1>7. \A n \in 1..Len(ahead) : ahead[n] \notin online
  BY <1>6, FirstInIsFirst
<1>8. ASSUME NEW n \in 1..Len(list), list[n] \in online
      PROVE  n <= Len(list) - Len(ahead)
  <2>1. SUFFICES ASSUME ~(n <= Len(list) - Len(ahead)) PROVE FALSE
    OBVIOUS
  <2>2. n - (Len(list) - Len(ahead)) \in 1..Len(ahead)
    BY <1>3, <2>1
  <2>3. ahead[n - (Len(list) - Len(ahead))] = list[n]
    BY <1>3, <2>2
  <2>. QED  BY <1>7, <1>8, <2>2, <2>3
<1>9. /\ i <= Len(list) - Len(ahead) /\ j <= Len(list) - Len(ahead)
      /\ around # 0 /\ around <= i /\ around <= j
  BY <1>4, <1>5, <1>8
<1>. QED  BY <1>3, <1>4, <1>9

\* The search moves the drawing pointer to an online player: the chain is not empty
\* then, and still ends with a tail of the list, which stays as it is.
LEMMA NextKeepsSound ==
  ASSUME NEW P, NEW r, IsRoster(r, P), IsSound(r),
         NEW online, HasNextDrawer(r, online)
  PROVE  /\ IsRoster(get_next_drawing(r, online), P)
         /\ IsSound(get_next_drawing(r, online))
         /\ get_next_drawing(r, online).list = r.list
         /\ Rotation(get_next_drawing(r, online)) # <<>>
         /\ Drawer(get_next_drawing(r, online)) \in online
<1>1. PICK list \in Seq(P), dead \in Seq(P), live \in Seq(P) :
        list = r.list /\ dead = r.dead /\ live = r.live
  BY DEF IsRoster
<1>2. IsInjective(list) /\ IsTail(live, list)
  BY <1>1, Zenon DEF IsSound
<1>3. PICK rot \in Seq(P) :
        rot = dead \o live
  BY RotationShape
<1>4. /\ Len(rot) = Len(dead) + Len(live)
      /\ \A i \in 1..(Len(dead) + Len(live)) :
           rot[i] = IF i <= Len(dead) THEN dead[i] ELSE live[i - Len(dead)]
  BY <1>3, RotationShape
<1>5. Rotation(r) = rot
  BY <1>1, <1>3, Zenon DEF Rotation
\* The pointer set to a node of the list.
<1>6. ASSUME NEW k \in 1..Len(list), list[k] \in online
      PROVE  /\ IsRoster(PointAt(r, k), P)
             /\ IsSound(PointAt(r, k))
             /\ PointAt(r, k).list = r.list
             /\ Rotation(PointAt(r, k)) # <<>>
             /\ Drawer(PointAt(r, k)) \in online
  <2> DEFINE t == From(list, k)
  <2>1. t \in Seq(P) /\ t # <<>> /\ t[1] = list[k]
    BY FromStart
  <2>2. IsTail(t, list)
    <3>1. k \in 1..(Len(list) + 1)
      OBVIOUS
    <3>. QED  BY <3>1, FromIsTail
  <2>3. PointAt(r, k) = [list |-> list, dead |-> <<>>, live |-> t]
    BY <1>1, Zenon DEF PointAt
  <2>. HIDE DEF t
  <2>4. <<>> \o t = t
    BY <2>1
  <2>5. /\ IsRoster(PointAt(r, k), P)
        /\ PointAt(r, k).list = list /\ PointAt(r, k).live = t /\ PointAt(r, k).dead = <<>>
    BY <2>1, <2>3 DEF IsRoster
  <2>6. Rotation(PointAt(r, k)) = t
    BY <2>4, <2>5, Zenon DEF Rotation
  <2>. QED  BY <1>1, <1>2, <1>6, <2>1, <2>2, <2>5, <2>6, Zenon DEF IsSound, Drawer
\* The pointer moved down its chain.
<1>7. ASSUME NEW k \in 1..(Len(rot) - 1), rot[k + 1] \in online
      PROVE  /\ IsRoster(Advance(r, k), P)
             /\ IsSound(Advance(r, k))
             /\ Advance(r, k).list = r.list
             /\ Rotation(Advance(r, k)) # <<>>
             /\ Drawer(Advance(r, k)) \in online
  <2>1. CASE k < Len(dead)
    <3> DEFINE d == From(dead, k + 1)
    <3>1. d \in Seq(P) /\ d # <<>> /\ d[1] = dead[k + 1]
      <4>1. k + 1 \in 1..Len(dead)
        BY <2>1
      <4>. QED  BY <4>1, FromStart
    <3>2. Advance(r, k) = [list |-> list, dead |-> d, live |-> live]
      BY <1>1, <2>1, Zenon DEF Advance
    <3>. HIDE DEF d
    <3>3. /\ IsRoster(Advance(r, k), P)
          /\ Advance(r, k).list = list /\ Advance(r, k).live = live /\ Advance(r, k).dead = d
      BY <3>1, <3>2 DEF IsRoster
    <3>4. d \o live # <<>> /\ (d \o live)[1] = d[1]
      BY <3>1, DeadFirst
    <3>5. dead[k + 1] = rot[k + 1]
      BY <1>4, <2>1
    <3>. QED
      BY <1>1, <1>2, <1>7, <3>1, <3>3, <3>4, <3>5, Zenon DEF IsSound, Drawer, Rotation
  <2>2. CASE ~(k < Len(dead))
    <3> DEFINE j == k - Len(dead) + 1
    <3>1. j \in 1..Len(live) /\ j \in 1..(Len(live) + 1)
          /\ live[j] = rot[k + 1]
      BY <1>4, <2>2
    <3>. HIDE DEF j
    <3> DEFINE t == From(live, j)
    <3>2. t \in Seq(P) /\ t # <<>> /\ t[1] = live[j]
      BY <3>1, FromStart
    <3>3. IsTail(t, list)
      BY <1>2, <3>1, TailOfTail
    <3>5. Advance(r, k) = [list |-> list, dead |-> <<>>, live |-> t]
      BY <1>1, <2>2, Zenon DEF Advance, j
    <3>. HIDE DEF t
    <3>6. <<>> \o t = t
      BY <3>2
    <3>7. /\ IsRoster(Advance(r, k), P)
          /\ Advance(r, k).list = list /\ Advance(r, k).live = t /\ Advance(r, k).dead = <<>>
      BY <3>2, <3>5 DEF IsRoster
    <3>8. Rotation(Advance(r, k)) = t
      BY <3>6, <3>7, Zenon DEF Rotation
    <3>. QED
      BY <1>1, <1>2, <1>7, <3>1, <3>2, <3>3, <3>7, <3>8, Zenon DEF IsSound, Drawer
  <2>. QED  BY <2>1, <2>2
<1>8. CASE NextAhead(r, online) = 0
  <2>1. NextAround(r, online) # 0 /\ NextAround(r, online) = FirstIn(list, online)
    BY <1>1, <1>8, Zenon DEF HasNextDrawer, Wraps, NextAround
  <2>2. PICK k \in 1..Len(list) : k = NextAround(r, online) /\ list[k] \in online
    BY <2>1, FirstInIsFirst
  <2>3. get_next_drawing(r, online) = PointAt(r, k)
    BY <1>8, <2>2, Zenon DEF get_next_drawing
  <2>4. /\ IsRoster(PointAt(r, k), P)
        /\ IsSound(PointAt(r, k))
        /\ PointAt(r, k).list = r.list
        /\ Rotation(PointAt(r, k)) # <<>>
        /\ Drawer(PointAt(r, k)) \in online
    BY <1>6, <2>2
  <2>. QED  BY <2>3, <2>4, Zenon
<1>9. CASE NextAhead(r, online) # 0 /\ rot = <<>>
  <2>1. NextAhead(r, online) = FirstIn(list, online)
    BY <1>1, <1>5, <1>9, Zenon DEF NextAhead, Ahead
  <2>2. PICK k \in 1..Len(list) : k = NextAhead(r, online) /\ list[k] \in online
    BY <1>9, <2>1, FirstInIsFirst
  <2>3. get_next_drawing(r, online) = PointAt(r, k)
    BY <1>5, <1>9, <2>2, Zenon DEF get_next_drawing
  <2>4. /\ IsRoster(PointAt(r, k), P)
        /\ IsSound(PointAt(r, k))
        /\ PointAt(r, k).list = r.list
        /\ Rotation(PointAt(r, k)) # <<>>
        /\ Drawer(PointAt(r, k)) \in online
    BY <1>6, <2>2
  <2>. QED  BY <2>3, <2>4, Zenon
<1>10. CASE NextAhead(r, online) # 0 /\ rot # <<>>
  <2> DEFINE t == From(rot, 2)
  <2>1. /\ t \in Seq(P)
        /\ Len(t) = Len(rot) - 2 + 1
        /\ \A i \in 1..(Len(rot) - 2 + 1) : t[i] = rot[2 + i - 1]
    <3>1. 2 \in 1..(Len(rot) + 1)
      BY <1>10
    <3>. QED  BY <3>1, FromIsTail
  <2>2. NextAhead(r, online) = FirstIn(t, online)
    BY <1>5, <1>10, Zenon DEF NextAhead, Ahead
  <2>. HIDE DEF t
  <2>3. PICK k \in 1..Len(t) : k = NextAhead(r, online) /\ t[k] \in online
    BY <1>10, <2>1, <2>2, FirstInIsFirst
  <2>4. k \in 1..(Len(rot) - 1) /\ t[k] = rot[k + 1]
    BY <2>1
  <2>5. get_next_drawing(r, online) = Advance(r, k)
    BY <1>5, <1>10, <2>3, Zenon DEF get_next_drawing
  <2>. QED  BY <1>7, <2>3, <2>4, <2>5, Zenon
<1>. QED  BY <1>8, <1>9, <1>10

\* Nobody draws twice in a row: the search moves on from a drawing pointer that is in
\* the list, also when it starts over at the head.
LEMMA NextDrawerDiffers ==
  ASSUME NEW P, NEW r, IsRoster(r, P), IsSound(r), r.dead = <<>>, Rotation(r) # <<>>,
         NEW online, HasNextDrawer(r, online)
  PROVE  Drawer(get_next_drawing(r, online)) # Drawer(r)
<1>1. PICK list \in Seq(P), live \in Seq(P) : list = r.list /\ live = r.live
  BY DEF IsRoster
<1>2. <<>> \o live = live
  OBVIOUS
<1>3. Rotation(r) = live /\ live # <<>>
  BY <1>1, <1>2, Zenon DEF Rotation
<1>4. /\ IsInjective(list)
      /\ Len(live) <= Len(list)
      /\ \A i \in 1..Len(live) : live[i] = list[Len(list) - Len(live) + i]
  <2>1. IsInjective(list) /\ IsTail(live, list)
    BY <1>1, Zenon DEF IsSound
  <2>. QED  BY <2>1 DEF IsTail
<1>5. ASSUME NEW i \in 1..Len(list), NEW j \in 1..Len(list), i # j
      PROVE  list[i] # list[j]
  BY <1>4, <1>5 DEF IsInjective
<1> DEFINE d == Len(list) - Len(live) + 1
<1>6. d \in 1..Len(list) /\ Drawer(r) = list[d]
  <2>1. 1 \in 1..Len(live)
    BY <1>3
  <2>2. Drawer(r) = live[1]
    BY <1>3, Zenon DEF Drawer
  <2>. QED  BY <1>4, <2>1, <2>2
<1>7. PICK ahead \in Seq(P) :
        /\ ahead = Ahead(r) /\ Len(ahead) = Len(live) - 1
        /\ \A i \in 1..(Len(live) - 1) : ahead[i] = live[i + 1]
  <2> DEFINE t == From(live, 2)
  <2>1. /\ t \in Seq(P) /\ Len(t) = Len(live) - 2 + 1
        /\ \A i \in 1..(Len(live) - 2 + 1) : t[i] = live[2 + i - 1]
    <3>1. 2 \in 1..(Len(live) + 1)
      BY <1>3
    <3>. QED  BY <3>1, FromIsTail
  <2>2. t = Ahead(r)
    BY <1>3, Zenon DEF Ahead
  <2>. HIDE DEF t
  <2>. QED  BY <2>1, <2>2
\* Where the pointer goes, when that is not where it is.
<1>8. ASSUME NEW t \in Seq(P), NEW i \in 1..Len(list), i # d, t # <<>>, t[1] = list[i],
             get_next_drawing(r, online) = [list |-> list, dead |-> <<>>, live |-> t]
      PROVE  Drawer(get_next_drawing(r, online)) # Drawer(r)
  <2>1. /\ get_next_drawing(r, online).dead = <<>>
        /\ get_next_drawing(r, online).live = t /\ <<>> \o t = t
    BY <1>8
  <2>2. Drawer(get_next_drawing(r, online)) = list[i]
    BY <1>8, <2>1, Zenon DEF Drawer, Rotation
  <2>. QED  BY <1>5, <1>6, <1>8, <2>2
<1>9. CASE NextAhead(r, online) # 0
  <2>1. PICK k \in 1..Len(ahead) : k = NextAhead(r, online)
    BY <1>7, <1>9, FirstInIsFirst DEF NextAhead
  <2>2. k + 1 \in 1..Len(live) /\ d + k \in 1..Len(list) /\ d + k # d
    BY <1>4, <1>7, <2>1
  <2> DEFINE t == From(live, k + 1)
  <2>3. t \in Seq(P) /\ t # <<>> /\ t[1] = list[d + k]
    <3>1. t \in Seq(P) /\ t # <<>> /\ t[1] = live[k + 1]
      BY <2>2, FromStart
    <3>2. live[k + 1] = list[Len(list) - Len(live) + (k + 1)]
      BY <1>4, <2>2
    <3>. HIDE DEF t
    <3>. QED  BY <3>1, <3>2
  <2>4. get_next_drawing(r, online) = Advance(r, k)
    BY <1>3, <1>9, <2>1, Zenon DEF get_next_drawing
  <2>5. Len(<<>>) = 0 /\ ~(k < 0) /\ k - 0 + 1 = k + 1
    BY <2>1
  <2>6. Advance(r, k) = [list |-> list, dead |-> <<>>, live |-> t]
    BY <1>1, <2>5, Zenon DEF Advance
  <2>. HIDE DEF t, d
  <2>. QED  BY <1>8, <2>2, <2>3, <2>4, <2>6
<1>10. CASE NextAhead(r, online) = 0
  <2>1. /\ NextAround(r, online) = FirstIn(list, online) /\ NextAround(r, online) # 0
        /\ Len(ahead) + NextAround(r, online) < Len(list)
    BY <1>1, <1>7, <1>10, Zenon DEF HasNextDrawer, Wraps, NextAround
  <2>2. PICK m \in 1..Len(list) : m = NextAround(r, online)
    BY <2>1, FirstInIsFirst
  <2>3. m # d
    BY <1>7, <2>1, <2>2
  <2> DEFINE t == From(list, m)
  <2>4. t \in Seq(P) /\ t # <<>> /\ t[1] = list[m]
    BY FromStart
  <2>5. get_next_drawing(r, online) = [list |-> list, dead |-> <<>>, live |-> t]
    BY <1>1, <1>10, <2>2, Zenon DEF get_next_drawing, PointAt
  <2>. HIDE DEF t, d
  <2>. QED  BY <1>8, <2>3, <2>4, <2>5
<1>. QED  BY <1>9, <1>10

\* Whoever draws is at a node of the list or at an unlinked one.
LEMMA DrawerHasNode ==
  ASSUME NEW P, NEW r, IsRoster(r, P), IsSound(r), Rotation(r) # <<>>,
         ToSet(r.dead) \subseteq Members(r)
  PROVE  Drawer(r) \in Members(r)
<1>1. PICK list \in Seq(P), dead \in Seq(P), live \in Seq(P) :
        list = r.list /\ dead = r.dead /\ live = r.live
  BY DEF IsRoster
<1>2. Rotation(r) = dead \o live
  BY <1>1, Zenon DEF Rotation
<1>3. CASE dead # <<>>
  <2>1. Drawer(r) = dead[1]
    <3>1. (dead \o live)[1] = dead[1]
      BY <1>3, DeadFirst
    <3>. QED  BY <1>2, <3>1, Zenon DEF Drawer
  <2>2. dead[1] \in ToSet(dead)
    BY <1>3 DEF ToSet
  <2>. QED  BY <1>1, <2>1, <2>2
<1>4. CASE dead = <<>>
  <2>1. dead \o live = live
    BY <1>4
  <2>2. live # <<>> /\ Drawer(r) = live[1]
    BY <1>2, <2>1, Zenon DEF Drawer
  <2>3. IsTail(live, list) /\ Members(r) = ToSet(list)
    BY <1>1, Zenon DEF IsSound, Members
  <2>4. live[1] \in ToSet(list)
    BY <2>2, <2>3 DEF IsTail, ToSet
  <2>. QED  BY <2>2, <2>3, <2>4
<1>. QED  BY <1>3, <1>4

\* Only the node of the player that leaves can become an unlinked one.
LEMMA RemoveAddsDead ==
  ASSUME NEW P, NEW r, IsRoster(r, P), NEW p \in P
  PROVE  ToSet(remove_player(r, p).dead) \subseteq ToSet(r.dead) \cup {p}
<1>1. PICK dead \in Seq(P) : dead = r.dead
  BY DEF IsRoster
<1>2. remove_player(r, p).dead \in {dead, Append(dead, p)}
  BY <1>1 DEF remove_player
<1>3. ToSet(Append(dead, p)) \subseteq ToSet(dead) \cup {p}
  BY AppendProperties DEF ToSet
<1>. QED  BY <1>1, <1>2, <1>3

\* The search leaves unlinked nodes behind and adds none.
LEMMA NextLeavesDead ==
  ASSUME NEW P, NEW r, IsRoster(r, P), NEW online
  PROVE  ToSet(get_next_drawing(r, online).dead) \subseteq ToSet(r.dead)
<1>1. PICK dead \in Seq(P) : dead = r.dead
  BY DEF IsRoster
<1> DEFINE k == NextAhead(r, online)
           next == get_next_drawing(r, online)
<1>2. \/ next.dead = <<>>
      \/ next.dead = From(dead, k + 1) /\ k < Len(dead)
  BY <1>1 DEF get_next_drawing, PointAt, Advance
<1>3. CASE next.dead = <<>>
  BY <1>3 DEF ToSet
<1>4. CASE next.dead = From(dead, k + 1) /\ k < Len(dead)
  <2>1. k \in Nat
    <3>1. PICK rot \in Seq(P) : rot = Rotation(r)
      BY RotationShape, Zenon DEF IsRoster, Rotation
    <3>2. rot # <<>> => From(rot, 2) \in Seq(P)
      <4>1. rot # <<>> => 2 \in 1..(Len(rot) + 1)
        OBVIOUS
      <4>. QED  BY <4>1, FromIsTail
    <3>3. Ahead(r) \in Seq(P)
      BY <3>1, <3>2, Zenon DEF Ahead, IsRoster
    <3>. QED  BY <3>3, FirstInIsFirst DEF NextAhead
  <2>. HIDE DEF k
  <2>2. PICK rest \in Seq(P) :
          /\ rest = From(dead, k + 1) /\ Len(rest) = Len(dead) - (k + 1) + 1
          /\ \A i \in 1..(Len(dead) - (k + 1) + 1) : rest[i] = dead[(k + 1) + i - 1]
    BY <1>4, <2>1, FromIsTail
  <2>3. \A i \in 1..Len(rest) : rest[i] \in ToSet(dead)
    BY <1>4, <2>1, <2>2, ToSetOfSeq
  <2>4. ToSet(rest) \subseteq ToSet(dead)
    BY <2>3, ToSetOfSeq
  <2>. QED  BY <1>1, <1>4, <2>2, <2>4
<1>. QED  BY <1>2, <1>3, <1>4

=============================================================================
