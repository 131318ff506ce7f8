-------------------------- MODULE RosterTurns_proofs --------------------------
(* Who has drawn while p was waiting comes after p in the order in which      *)
(* get_next_drawing_fd looks at the list.  Joining and leaving change the     *)
(* places in the list and not this order, and the search itself skips         *)
(* nobody who is online: so nobody draws twice while another waits.           *)
EXTENDS RosterTurns, PlayerList_proofs

\* Where in the list the search of get_next_drawing_fd starts when the drawing node is
\* in the list: behind it.
Start(r) == Len(r.list) - Len(r.live) + 2

\* Of two places in a list the search from s on and around comes to i before j.
Earlier(s, i, j) ==
  \/ i < j /\ (s <= i \/ j < s)
  \/ s <= i /\ j < s

\* The search comes to p before q.
Precedes(r, p, q) ==
  \E i, j \in 1..Len(r.list) : r.list[i] = p /\ r.list[j] = q /\ Earlier(Start(r), i, j)

-----------------------------------------------------------------------------
(* The order *)

\* The drawing player is the last the search comes to.
LEMMA DrawerIsLast ==
  ASSUME NEW P, NEW r, IsRoster(r, P), IsSound(r), r.dead = <<>>, r.live # <<>>,
         NEW p \in Members(r), p # Drawer(r)
  PROVE  Precedes(r, p, Drawer(r))
<1>1. PICK list \in Seq(P), live \in Seq(P) : list = r.list /\ live = r.live
  BY DEF IsRoster
<1>2. <<>> \o live = live /\ 1 \in 1..Len(live)
  BY <1>1
<1>3. Drawer(r) = live[1]
  BY <1>1, <1>2, Zenon DEF Drawer, Rotation
<1>4. Len(live) <= Len(list) /\ \A k \in 1..Len(live) : live[k] = list[Len(list) - Len(live) + k]
  BY <1>1 DEF IsSound, IsTail
<1> DEFINE d == Len(list) - Len(live) + 1
<1>5. d \in 1..Len(list) /\ list[d] = Drawer(r)
  BY <1>2, <1>3, <1>4
<1>6. PICK i \in 1..Len(list) : list[i] = p
  BY <1>1, ToSetOfSeq DEF Members
<1>7. i # d /\ Start(r) = d + 1
  <2>1. i # d
    BY <1>5, <1>6
  <2>2. Len(list) \in Nat /\ Len(live) \in Nat /\ Start(r) = Len(list) - Len(live) + 2
    BY <1>1 DEF Start
  <2> QED BY <2>1, <2>2
<1> HIDE DEF d
<1>8. Earlier(Start(r), i, d)
  BY <1>5, <1>7 DEF Earlier
<1> QED BY <1>1, <1>5, <1>6, <1>8 DEF Precedes

\* A new node at the head moves every place and the start of the search alike.
LEMMA AddKeepsOrder ==
  ASSUME NEW P, NEW r, IsRoster(r, P), NEW x \in P,
         NEW p, NEW q, Precedes(r, p, q)
  PROVE  Precedes(add_player(r, x), p, q)
<1> DEFINE longer == <<x>> \o r.list
           r2 == add_player(r, x)
<1>1. r.list \in Seq(P) /\ r.live \in Seq(P)
  BY DEF IsRoster
<1>2. /\ Len(longer) = Len(r.list) + 1
      /\ \A k \in 1..(Len(r.list) + 1) : longer[k] = IF k = 1 THEN x ELSE r.list[k - 1]
  BY <1>1, ConsShape
<1>3. r2.list = longer /\ r2.live = r.live
  BY DEF add_player
<1> HIDE DEF longer, r2
<1>4. Start(r2) = Start(r) + 1 /\ Start(r) \in Int
  BY <1>1, <1>2, <1>3 DEF Start
<1>5. PICK i, j \in 1..Len(r.list) :
        r.list[i] = p /\ r.list[j] = q /\ Earlier(Start(r), i, j)
  BY DEF Precedes
<1>6. /\ i + 1 \in 1..Len(r2.list) /\ j + 1 \in 1..Len(r2.list)
      /\ r2.list[i + 1] = p /\ r2.list[j + 1] = q
  <2>1. Len(r.list) \in Nat /\ Len(longer) = Len(r.list) + 1
    BY <1>1, <1>2
  <2>2. i + 1 \in 1..Len(longer) /\ j + 1 \in 1..Len(longer)
    BY <2>1
  <2>3. longer[i + 1] = r.list[i] /\ longer[j + 1] = r.list[j]
    BY <1>2, <2>1
  <2> QED BY <1>3, <1>5, <2>2, <2>3
<1>7. Earlier(Start(r2), i + 1, j + 1)
  BY <1>1, <1>4, <1>5 DEF Earlier
<1> QED BY <1>6, <1>7 DEF Precedes, r2

\* Taking out a node that is not the drawing node changes the order of no two others.
LEMMA RemoveKeepsOrder ==
  ASSUME NEW P, NEW r, IsRoster(r, P), IsSound(r), r.live # <<>>, NEW x \in P,
         r.dead = <<>>, remove_player(r, x).dead = <<>>,
         NEW p, NEW q, x # p, x # q, Precedes(r, p, q)
  PROVE  Precedes(remove_player(r, x), p, q) /\ remove_player(r, x).live # <<>>
<1>1. PICK list \in Seq(P), live \in Seq(P) : list = r.list /\ live = r.live
  BY DEF IsRoster
<1>2. /\ \A i, j \in 1..Len(list) : list[i] = list[j] => i = j
      /\ Len(live) <= Len(list)
      /\ \A k \in 1..Len(live) : live[k] = list[Len(list) - Len(live) + k]
  <2>1. IsInjective(list) /\ IsTail(live, list)
    BY <1>1, Zenon DEF IsSound
  <2> QED BY <2>1 DEF IsTail, IsInjective
<1> DEFINE k == FirstIn(list, {x})
           m == FirstIn(live, {x})
           list2 == Without(list, x)
           live2 == Without(live, x)
           r2 == remove_player(r, x)
<1>3. /\ k \in 0..Len(list)
      /\ k # 0 => list[k] = x
      /\ \A i \in 1..Len(list) : list[i] = x => k # 0 /\ k <= i
  BY FirstInIsFirst
<1>4. /\ m \in 0..Len(live)
      /\ m # 0 => live[m] = x
      /\ \A i \in 1..Len(live) : live[i] = x => m # 0 /\ m <= i
  BY FirstInIsFirst
<1>5. /\ list2 \in Seq(P)
      /\ k = 0 => list2 = list
      /\ k # 0 =>
           /\ Len(list2) = Len(list) - 1
           /\ \A i \in 1..(Len(list) - 1) :
                list2[i] = IF i < k THEN list[i] ELSE list[i + 1]
  BY WithoutCuts
<1>6. /\ live2 \in Seq(P)
      /\ m = 0 => live2 = live
      /\ m # 0 => Len(live2) = Len(live) - 1
  BY WithoutCuts
<1>7. /\ r2.list = list2 /\ r2.live = live2
      /\ r2.dead = IF m = 1 THEN Append(<<>>, x) ELSE <<>>
  BY <1>1 DEF remove_player
<1>8. m # 1
  <2>1. Append(<<>>, x) # <<>>
    OBVIOUS
  <2>2. r2.dead = <<>>
    OBVIOUS
  <2> HIDE DEF m, r2
  <2> QED BY <1>7, <2>1, <2>2
<1> HIDE DEF k, m, list2, live2, r2
<1> DEFINE n == Len(list)
           l == Len(live)
           s == n - l + 2
<1>9. n \in Nat /\ l \in Nat /\ l <= n /\ l # 0 /\ s \in Int
  BY <1>1, <1>2
<1>10. Start(r) = s
  BY <1>1 DEF Start
\* A node behind the drawing node is cut out of both, one before it of the list only.
<1>11. m # 0 => k = n - l + m /\ s <= k
  <2>1. SUFFICES ASSUME m # 0 PROVE k = n - l + m /\ s <= k
    OBVIOUS
  <2>2. m \in 1..l /\ n - l + m \in 1..n /\ list[n - l + m] = x
    BY <1>2, <1>4, <1>9, <2>1
  <2>3. k \in 1..n /\ list[k] = x
    BY <1>3, <2>2
  <2>4. k = n - l + m
    BY <1>2, <2>2, <2>3
  <2> QED BY <1>8, <1>9, <2>2, <2>4
<1>12. k # 0 /\ m = 0 => k < s - 1
  <2>1. SUFFICES ASSUME k # 0, m = 0, ~(k < s - 1) PROVE FALSE
    BY <1>3, <1>9
  <2>2. k - (n - l) \in 1..l
    BY <1>3, <1>9, <2>1
  <2>3. live[k - (n - l)] = list[k]
    BY <1>2, <1>3, <1>9, <2>2
  <2> QED BY <1>3, <1>4, <2>1, <2>2, <2>3
<1>13. k = 0 => m = 0
  BY <1>3, <1>4, <1>9, <1>11
<1>14. Start(r2) = IF k # 0 /\ m = 0 THEN s - 1 ELSE s
  BY <1>5, <1>6, <1>7, <1>9, <1>13 DEF Start
<1>15. PICK i, j \in 1..n : list[i] = p /\ list[j] = q /\ Earlier(s, i, j)
  BY <1>1, <1>10 DEF Precedes
<1>16. i # k /\ j # k
  BY <1>3, <1>15
<1> DEFINE At(a) == IF k = 0 \/ a < k THEN a ELSE a - 1
<1>17. ASSUME NEW a \in 1..n, a # k
       PROVE  At(a) \in 1..Len(list2) /\ list2[At(a)] = list[a]
  <2>1. CASE k = 0
    BY <1>5, <2>1
  <2>2. CASE k # 0 /\ a < k
    BY <1>3, <1>5, <2>2
  <2>3. CASE k # 0 /\ ~(a < k)
    <3>1. a - 1 \in 1..(n - 1) /\ ~(a - 1 < k) /\ (a - 1) + 1 = a
      BY <1>3, <1>9, <1>17, <2>3
    <3> QED BY <1>5, <2>3, <3>1
  <2> QED BY <2>1, <2>2, <2>3
<1>18. Earlier(Start(r2), At(i), At(j))
  BY <1>3, <1>4, <1>9, <1>11, <1>12, <1>14, <1>15, <1>16 DEF Earlier
<1>19. Precedes(r2, p, q)
  BY <1>7, <1>15, <1>16, <1>17, <1>18 DEF Precedes
<1>20. live2 # <<>>
  <2>1. SUFFICES ASSUME live2 = <<>> PROVE FALSE
    OBVIOUS
  <2>2. Len(live2) = 0
    BY <2>1
  <2> QED BY <1>4, <1>6, <1>8, <1>9, <2>2
<1> QED BY <1>7, <1>19, <1>20 DEF r2
\* The search skips nobody who is online: whom it comes to before q it does not leave
\* behind for q, and what is before q stays before q unless it is the next to draw.
LEMMA NextKeepsOrder ==
  ASSUME NEW P, NEW r, IsRoster(r, P), IsSound(r), r.dead = <<>>, r.live # <<>>,
         NEW on, HasNextDrawer(r, on),
         NEW p \in on, p # Drawer(get_next_drawing(r, on)), NEW q, Precedes(r, p, q)
  PROVE  /\ q # Drawer(get_next_drawing(r, on))
         /\ q \in on => Precedes(get_next_drawing(r, on), p, q)
<1> DEFINE r2 == get_next_drawing(r, on)
<1>1. PICK list \in Seq(P), live \in Seq(P) : list = r.list /\ live = r.live
  BY DEF IsRoster
<1>2. /\ \A i, j \in 1..Len(list) : list[i] = list[j] => i = j
      /\ Len(live) <= Len(list)
      /\ \A k \in 1..Len(live) : live[k] = list[Len(list) - Len(live) + k]
  <2>1. IsInjective(list) /\ IsTail(live, list)
    BY <1>1, Zenon DEF IsSound
  <2> QED BY <2>1 DEF IsTail, IsInjective
<1>3. Rotation(r) = live /\ live # <<>>
  <2>1. <<>> \o live = live
    OBVIOUS
  <2> QED BY <1>1, <2>1, Zenon DEF Rotation
<1>0. PICK n \in Nat, l \in Nat, s \in Int : n = Len(list) /\ l = Len(live) /\ s = Start(r)
  <2>1. Len(list) \in Nat /\ Len(live) \in Nat /\ Start(r) \in Int
    BY <1>1 DEF Start
  <2> QED BY <2>1
<1>4. l <= n /\ l # 0 /\ s = n - l + 2
  BY <1>0, <1>1, <1>2, <1>3 DEF Start
<1>5. PICK ahead \in Seq(P) :
        /\ ahead = Ahead(r) /\ Len(ahead) = l - 1
        /\ \A i \in 1..(l - 1) : ahead[i] = list[s - 1 + i]
  <2> DEFINE t == From(live, 2)
  <2>1. /\ t \in Seq(P) /\ Len(t) = l - 2 + 1
        /\ \A i \in 1..(l - 2 + 1) : t[i] = live[2 + i - 1]
    <3>1. 2 \in 1..(l + 1)
      BY <1>4
    <3> QED BY <1>0, <3>1, FromIsTail
  <2>2. t = Ahead(r)
    BY <1>3, Zenon DEF Ahead
  <2> HIDE DEF t
  <2>3. ASSUME NEW i \in 1..(l - 1) PROVE t[i] = list[s - 1 + i]
    <3>1. i + 1 \in 1..l /\ n - l + (i + 1) = s - 1 + i /\ 2 + i - 1 = i + 1 /\ l - 2 + 1 = l - 1
      BY <1>4
    <3>2. t[i] = live[i + 1]
      BY <2>1, <3>1
    <3>3. live[i + 1] = list[n - l + (i + 1)]
      BY <1>0, <1>2, <3>1
    <3> QED BY <3>1, <3>2, <3>3
  <2>4. l - 2 + 1 = l - 1
    BY <1>4
  <2> QED BY <2>1, <2>2, <2>3, <2>4
\* The place of the next to draw, and those the search has passed.
<1>6. PICK e \in 1..n :
        /\ r2.list = list /\ r2.dead = <<>> /\ Len(r2.live) = n - e + 1
        /\ Drawer(r2) = list[e]
        /\ \/ s <= e /\ \A i \in s..(e - 1) : list[i] \notin on
           \/ e < s /\ \A i \in (1..(e - 1)) \cup (s..n) : list[i] \notin on
  <2>1. ASSUME NEW e \in 1..n, NEW t \in Seq(P), Len(t) = n - e + 1, t # <<>>, t[1] = list[e],
               r2 = [list |-> list, dead |-> <<>>, live |-> t]
        PROVE  /\ r2.list = list /\ r2.dead = <<>> /\ Len(r2.live) = n - e + 1
               /\ Drawer(r2) = list[e]
    <3>1. r2.list = list /\ r2.dead = <<>> /\ r2.live = t /\ <<>> \o t = t
      BY <2>1
    <3>2. Drawer(r2) = t[1]
      BY <3>1, Zenon DEF Drawer, Rotation
    <3> QED BY <2>1, <3>1, <3>2
  <2>2. /\ FirstIn(ahead, on) \in 0..Len(ahead)
        /\ \A i \in 1..Len(ahead) : ahead[i] \in on => FirstIn(ahead, on) # 0 /\ FirstIn(ahead, on) <= i
    BY FirstInIsFirst
  <2>3. /\ FirstIn(list, on) \in 0..n
        /\ \A i \in 1..n : list[i] \in on => FirstIn(list, on) # 0 /\ FirstIn(list, on) <= i
    BY <1>0, FirstInIsFirst
  <2>4. CASE NextAhead(r, on) # 0
    <3>0. NextAhead(r, on) = FirstIn(ahead, on)
      BY <1>5, Zenon DEF NextAhead
    <3>1. PICK k \in 1..(l - 1) : k = NextAhead(r, on) /\ k = FirstIn(ahead, on)
      BY <1>5, <2>2, <2>4, <3>0
    <3>2. PICK e \in 1..n :
            /\ e = s - 1 + k /\ k + 1 \in 1..l /\ n - l + (k + 1) = e /\ s <= e
            /\ l - (k + 1) + 1 = n - e + 1
      <4>1. s - 1 + k \in 1..n
        BY <1>4
      <4>2. k + 1 \in 1..l /\ n - l + (k + 1) = s - 1 + k /\ s <= s - 1 + k
            /\ l - (k + 1) + 1 = n - (s - 1 + k) + 1
        BY <1>4
      <4> QED BY <4>1, <4>2
    <3> DEFINE t == From(live, k + 1)
    <3>3. t \in Seq(P) /\ t # <<>> /\ t[1] = live[k + 1] /\ Len(t) = l - (k + 1) + 1
      BY <1>0, <3>2, FromStart
    <3>4. t[1] = list[e] /\ Len(t) = n - e + 1
      BY <1>0, <1>2, <3>2, <3>3
    <3>5. r2 = Advance(r, k)
      BY <1>3, <2>4, <3>1, Zenon DEF get_next_drawing
    <3>6. Len(<<>>) = 0 /\ ~(k < 0) /\ k - 0 + 1 = k + 1
      BY <3>1
    <3>7. r2 = [list |-> list, dead |-> <<>>, live |-> t]
      BY <1>1, <3>5, <3>6, Zenon DEF Advance
    <3>8. ASSUME NEW i \in s..(e - 1) PROVE list[i] \notin on
      <4>1. i - s + 1 \in 1..(l - 1) /\ s - 1 + (i - s + 1) = i /\ i - s + 1 < k
        <5>1. i \in Int /\ s <= i /\ i < s - 1 + k
          BY <3>2
        <5> QED BY <5>1
      <4>2. ahead[i - s + 1] = list[i]
        BY <1>5, <4>1
      <4>3. i - s + 1 \in 1..Len(ahead) /\ ~(k <= i - s + 1)
        BY <1>4, <1>5, <4>1
      <4> QED BY <2>2, <3>1, <4>2, <4>3
    <3> HIDE DEF t, r2
    <3>9. /\ r2.list = list /\ r2.dead = <<>> /\ Len(r2.live) = n - e + 1
          /\ Drawer(r2) = list[e]
      BY <2>1, <3>2, <3>3, <3>4, <3>7
    <3> QED BY <3>2, <3>8, <3>9
  <2>5. CASE NextAhead(r, on) = 0
    <3>1. /\ NextAround(r, on) = FirstIn(list, on) /\ NextAround(r, on) # 0
          /\ Len(ahead) + NextAround(r, on) < n
      BY <1>0, <1>1, <1>5, <2>5, Zenon DEF HasNextDrawer, Wraps, NextAround
    <3>2. PICK e \in 1..n : e = NextAround(r, on)
      BY <2>3, <3>1
    <3> DEFINE t == From(list, e)
    <3>3. t \in Seq(P) /\ t # <<>> /\ t[1] = list[e] /\ Len(t) = n - e + 1
      BY <1>0, FromStart
    <3>4. r2 = [list |-> list, dead |-> <<>>, live |-> t]
      BY <1>1, <2>5, <3>2, Zenon DEF get_next_drawing, PointAt
    <3>5. e < s
      BY <1>4, <1>5, <3>1, <3>2
    <3>6. ASSUME NEW i \in s..n PROVE list[i] \notin on
      <4>1. i - s + 1 \in 1..(l - 1) /\ s - 1 + (i - s + 1) = i
        <5>1. i \in Int /\ s <= i /\ i <= n
          OBVIOUS
        <5> QED BY <1>4, <5>1
      <4>2. ahead[i - s + 1] = list[i]
        BY <1>5, <4>1
      <4>3. FirstIn(ahead, on) = 0
        BY <1>5, <2>5, Zenon DEF NextAhead
      <4> QED BY <1>5, <2>2, <4>1, <4>2, <4>3
    <3>7. ASSUME NEW i \in 1..(e - 1) PROVE list[i] \notin on
      <4>1. i \in 1..n /\ ~(e <= i)
        BY <1>4, <3>2
      <4> QED BY <2>3, <3>1, <3>2, <4>1
    <3> HIDE DEF t, r2
    <3>8. /\ r2.list = list /\ r2.dead = <<>> /\ Len(r2.live) = n - e + 1
          /\ Drawer(r2) = list[e]
      BY <2>1, <3>3, <3>4
    <3> QED BY <3>5, <3>6, <3>7, <3>8
  <2> QED BY <2>4, <2>5
<1> HIDE DEF r2
<1>7. Start(r2) = e + 1
  BY <1>0, <1>6 DEF Start
<1>8. PICK i, j \in 1..n : list[i] = p /\ list[j] = q /\ Earlier(s, i, j)
  BY <1>0, <1>1 DEF Precedes
<1>9. i # e
  BY <1>6, <1>8 DEF r2
<1>10. j # e
  BY <1>4, <1>6, <1>8, <1>9 DEF Earlier
<1>11. q # Drawer(r2)
  BY <1>0, <1>2, <1>6, <1>8, <1>10
<1>12. ASSUME q \in on PROVE Precedes(r2, p, q)
  <2>1. Earlier(e + 1, i, j)
    BY <1>4, <1>6, <1>8, <1>9, <1>10, <1>12 DEF Earlier
  <2> QED BY <1>0, <1>6, <1>7, <1>8, <2>1 DEF Precedes
<1> QED BY <1>11, <1>12 DEF r2

\* A player that returns while a round runs and is put where it was moves the drawing
\* pointer of nobody else.
LEMMA ReturnKeepsRotation ==
  ASSUME NEW P, NEW r, IsRoster(r, P), IsSound(r), r.dead = <<>>, r.live # <<>>,
         NEW x \in P, add_player(remove_player(r, x), x).list = r.list,
         Drawer(r) # x
  PROVE  Rotation(add_player(remove_player(r, x), x)) = Rotation(r)
<1>1. PICK list \in Seq(P), live \in Seq(P) : list = r.list /\ live = r.live
  BY DEF IsRoster
<1>2. /\ \A i, j \in 1..Len(list) : list[i] = list[j] => i = j
      /\ Len(live) <= Len(list)
      /\ \A k \in 1..Len(live) : live[k] = list[Len(list) - Len(live) + k]
  <2>1. IsInjective(list) /\ IsTail(live, list)
    BY <1>1, Zenon DEF IsSound
  <2> QED BY <2>1 DEF IsTail, IsInjective
<1>3. Drawer(r) = live[1]
  <2>1. <<>> \o live = live
    OBVIOUS
  <2> QED BY <1>1, <2>1, Zenon DEF Drawer, Rotation
<1> DEFINE m == FirstIn(live, {x})
           live2 == Without(live, x)
           list2 == Without(list, x)
           r2 == add_player(remove_player(r, x), x)
<1>4. /\ m \in 0..Len(live)
      /\ m # 0 => live[m] = x
  BY FirstInIsFirst
<1>5. list2 \in Seq(P) /\ m = 0 => live2 = live
  BY WithoutCuts
<1>6. /\ r2.list = <<x>> \o list2 /\ r2.live = live2
      /\ m = 0 => r2.dead = <<>>
  BY <1>1 DEF add_player, remove_player
<1>7. m = 0
  <2>1. SUFFICES ASSUME m # 0 PROVE FALSE
    OBVIOUS
  <2>2. list2 \in Seq(P)
    BY WithoutCuts
  <2>3. (<<x>> \o list2)[1] = x
    <3> HIDE DEF list2
    <3> QED BY <2>2
  <2>4. list[1] = x
    BY <1>1, <1>6, <2>3
  <2> HIDE DEF m, list2, live2, r2
  <2>5. m \in 1..Len(live) /\ Len(list) - Len(live) + m \in 1..Len(list) /\ 1 \in 1..Len(list)
    BY <1>2, <1>4, <2>1
  <2>6. list[Len(list) - Len(live) + m] = x
    BY <1>2, <1>4, <2>1, <2>5
  <2>7. Len(list) - Len(live) + m = 1
    BY <1>2, <2>4, <2>5, <2>6
  <2>8. m = 1
    BY <1>2, <2>5, <2>7
  <2> QED BY <1>3, <1>4, <2>8
<1>8. r2.dead = r.dead /\ r2.live = r.live
  <2>1. live2 = live
    <3>1. m = FirstIn(live, {x}) /\ m = 0
      BY <1>7
    <3> QED BY <3>1, WithoutCuts
  <2> QED BY <1>1, <1>6, <1>7, <2>1
<1> QED BY <1>8, Zenon DEF Rotation
-----------------------------------------------------------------------------
(* Who has drawn while whom was waiting *)

\* Whoever has drawn while p was waiting, and both have stayed, is behind p.
IInv ==
  /\ IsRoster(roster, Names)
  /\ IsSound(roster)
  /\ \A p \in Names : \A q \in waiting[p] :
       /\ playing /\ roster.dead = <<>> /\ roster.live # <<>>
       /\ Stays(p) /\ Stays(q) /\ p # q
       /\ Precedes(roster, p, q)

\* The list as an action leaves it.
LEMMA StepKeepsSound ==
  ASSUME IsRoster(roster, Names), IsSound(roster), [TurnsNext]_<<vars, waiting>>
  PROVE  IsRoster(roster', Names) /\ IsSound(roster')
<1>1. ASSUME NEW r, IsRoster(r, Names), IsSound(r), NEW on, ValidateRound(r, on)
      PROVE  IsRoster(roster', Names) /\ IsSound(roster')
  <2>1. roster' = r \/ (HasNextDrawer(r, on) /\ roster' = get_next_drawing(r, on))
    BY <1>1, Zenon DEF ValidateRound, StartRound
  <2> QED BY <1>1, <2>1, NextKeepsSound, Zenon
<1>2. ASSUME NEW x \in Names
      PROVE  LET r == add_player(remove_player(roster, x), x)
             IN  IsRoster(r, Names) /\ IsSound(r)
  <2>1. IsRoster(remove_player(roster, x), Names)
    BY RosterTypes, Zenon
  <2>2. IsSound(remove_player(roster, x)) /\ x \notin Members(remove_player(roster, x))
    BY RemoveKeepsSound
  <2> QED BY <2>1, <2>2, RosterTypes, AddKeepsSound, Zenon
<1>3. CASE EndRound
  BY <1>1, <1>3, Zenon DEF EndRound
<1>4. ASSUME NEW x \in Names, Enter(x) PROVE IsRoster(roster', Names) /\ IsSound(roster')
  <2>1. PICK r \in {add_player(remove_player(roster, x), x)} \cup {roster} :
          IF playing THEN roster' = r ELSE \E on \in Counted(r, online \cup {x}) : ValidateRound(r, on)
    BY <1>4 DEF Enter
  <2>2. IsRoster(r, Names) /\ IsSound(r)
    BY <1>2
  <2> QED BY <1>1, <2>1, <2>2, Zenon
<1>5. ASSUME NEW x \in Names, Depart(x) PROVE IsRoster(roster', Names) /\ IsSound(roster')
  <2>1. roster' = remove_player(roster, x)
    BY <1>5 DEF Depart
  <2> QED BY <2>1, RosterTypes, RemoveKeepsSound, Zenon
<1>6. CASE Leave \/ UNCHANGED <<vars, waiting>>
  BY <1>6 DEF Leave, vars
<1> QED BY <1>3, <1>4, <1>5, <1>6 DEF TurnsNext

\* A round that starts in a step is started by end_round: a login into a running round
\* leaves the drawing pointer where it is.
LEMMA RoundsStartInEndRound ==
  ASSUME IsRoster(roster, Names), IsSound(roster), [TurnsNext]_<<vars, waiting>>, NewRound
  PROVE  \/ \E on \in Counted(roster, online) :
              /\ HasNextDrawer(roster, on)
              /\ roster' = get_next_drawing(roster, on)
              /\ OnlyLost(roster, on)
         \/ \E x \in Names :
              /\ x \notin online
              /\ roster' = add_player(remove_player(roster, x), x)
<1>1. /\ playing /\ playing' /\ ~stopped'
      /\ roster'.list = roster.list
      /\ Rotation(roster') # Rotation(roster)
  BY DEF NewRound
<1>2. roster' # roster
  BY <1>1
<1>3. CASE EndRound
  <2>1. PICK on \in Counted(roster, online) : ValidateRound(roster, on)
    BY <1>3 DEF EndRound
  <2>2. HasNextDrawer(roster, on) /\ roster' = get_next_drawing(roster, on) /\ OnlyLost(roster, on)
    BY <1>2, <2>1, Zenon DEF ValidateRound, StartRound
  <2> QED BY <2>2
<1>4. ASSUME NEW x \in Names, Enter(x)
      PROVE  x \notin online /\ roster' = add_player(remove_player(roster, x), x)
  BY <1>1, <1>2, <1>4 DEF Enter
<1>5. ASSUME NEW x \in Names, Depart(x) PROVE FALSE
  <2>1. x \in Members(roster) /\ roster' = remove_player(roster, x)
    BY <1>5 DEF Depart
  <2>2. x \notin Members(roster')
    BY <2>1, RemoveKeepsSound
  <2> QED BY <1>1, <2>1, <2>2 DEF Members
<1>6. ~Leave /\ ~(UNCHANGED <<vars, waiting>>)
  BY <1>2 DEF Leave, vars
<1> QED BY <1>3, <1>4, <1>5, <1>6 DEF TurnsNext

\* Of the two ways only the search is left when somebody is to draw who is online.
LEMMA NextIsSearched ==
  ASSUME IInv, [TurnsNext]_<<vars, waiting>>, NewRound, roster.dead = <<>>, roster.live # <<>>
  PROVE  \/ \E on \in Counted(roster, online) :
              /\ HasNextDrawer(roster, on)
              /\ roster' = get_next_drawing(roster, on)
              /\ OnlyLost(roster, on)
         \/ /\ Drawer(roster') \notin online
<1>1. IsRoster(roster, Names) /\ IsSound(roster)
  BY DEF IInv
<1>2. ASSUME NEW x \in Names, x \notin online,
             roster' = add_player(remove_player(roster, x), x)
      PROVE  Drawer(roster') \notin online
  <2>1. roster'.list = roster.list /\ Rotation(roster') # Rotation(roster)
    BY DEF NewRound
  <2>2. Drawer(roster) = x
    BY <1>1, <1>2, <2>1, ReturnKeepsRotation, Zenon
  <2>3. Rotation(roster) # <<>>
    <3>1. <<>> \o roster.live = roster.live
      BY <1>1 DEF IsRoster
    <3> QED BY <3>1, Zenon DEF Rotation
  <2>4. Drawer(remove_player(roster, x)) = Drawer(roster)
    BY <1>1, <2>3, RemoveKeepsDrawer, Zenon
  <2>5. Rotation(roster') = Rotation(remove_player(roster, x))
    BY <1>2 DEF Rotation, add_player
  <2> QED BY <1>2, <2>2, <2>4, <2>5, Zenon DEF Drawer
<1> QED BY <1>1, <1>2, RoundsStartInEndRound, Zenon

\* Whom a round of roster starts with among those that stay: they were online when the
\* search looked for them.
LEMMA WhoStaysIsCounted ==
  ASSUME NEW on, OnlyLost(roster, on), roster'.list = roster.list, NEW p, Stays(p)'
  PROVE  p \in on
BY DEF OnlyLost, Stays, Members

LEMMA StepTakesTurns ==
  ASSUME IInv, [TurnsNext]_<<vars, waiting>>, NewRound, roster.dead = <<>>,
         NEW p \in Names, Stays(p), Stays(p)'
  PROVE  Drawer(roster') \notin waiting[p]
<1> SUFFICES ASSUME Drawer(roster') \in waiting[p] PROVE FALSE
  OBVIOUS
<1> DEFINE q == Drawer(roster')
<1>1. /\ IsRoster(roster, Names) /\ IsSound(roster) /\ roster.live # <<>>
      /\ Stays(q) /\ p # q /\ Precedes(roster, p, q)
  BY DEF IInv
<1>2. q \in online
  BY <1>1 DEF Stays
<1>3. PICK on \in Counted(roster, online) :
        /\ HasNextDrawer(roster, on)
        /\ roster' = get_next_drawing(roster, on)
        /\ OnlyLost(roster, on)
  BY <1>1, <1>2, NextIsSearched
<1>4. p \in on
  BY <1>3, WhoStaysIsCounted DEF NewRound
<1> QED BY <1>1, <1>3, <1>4, NextKeepsOrder, Zenon

-----------------------------------------------------------------------------
(* The invariant *)

\* What a pair that waits for one another owes to the step before.
LEMMA WaitingBefore ==
  ASSUME TurnsNext, NEW p \in Names, NEW q \in waiting'[p]
  PROVE  /\ Stays(p)' /\ Stays(q)' /\ playing' /\ roster'.dead = <<>>
         /\ ~(NewRound /\ p = Drawer(roster'))
         /\ q \in waiting[p] \/ (NewRound /\ q = Drawer(roster'))
<1>1. Remember
  BY DEF TurnsNext
<1>2. waiting'[p] =
        IF \/ ~Stays(p)' \/ ~playing' \/ roster'.dead # <<>>
           \/ NewRound /\ p = Drawer(roster')
        THEN {}
        ELSE {x \in waiting[p] \cup {d \in Names : NewRound /\ d = Drawer(roster')} : Stays(x)'}
  BY <1>1 DEF Remember
<1> QED BY <1>2

LEMMA StepKeepsOrder ==
  ASSUME IInv, TurnsNext, NEW p \in Names, NEW q \in waiting[p],
         Stays(p)', Stays(q)', playing', roster'.dead = <<>>,
         ~(NewRound /\ p = Drawer(roster'))
  PROVE  roster'.live # <<>> /\ Precedes(roster', p, q)
<1>1. /\ IsRoster(roster, Names) /\ IsSound(roster)
      /\ playing /\ roster.dead = <<>> /\ roster.live # <<>>
      /\ Stays(p) /\ Stays(q) /\ p # q /\ Precedes(roster, p, q)
  BY DEF IInv
<1>2. CASE roster' = roster
  BY <1>1, <1>2
<1>3. Rotation(roster) # <<>>
  <2>1. <<>> \o roster.live = roster.live
    BY <1>1 DEF IsRoster
  <2> QED BY <1>1, <2>1, Zenon DEF Rotation
<1>4. ASSUME NEW x \in Names, x \notin online, remove_player(roster, x).dead = <<>>
      PROVE  /\ Precedes(remove_player(roster, x), p, q)
             /\ remove_player(roster, x).live # <<>>
  <2>1. x # p /\ x # q
    BY <1>1, <1>4 DEF Stays
  <2> QED BY <1>1, <1>4, <2>1, RemoveKeepsOrder
<1>5. CASE EndRound /\ roster' # roster
  <2>1. PICK on \in Counted(roster, online) : ValidateRound(roster, on)
    BY <1>5 DEF EndRound
  <2>2. HasNextDrawer(roster, on) /\ roster' = get_next_drawing(roster, on) /\ OnlyLost(roster, on)
    BY <1>5, <2>1, Zenon DEF ValidateRound, StartRound
  <2>3. roster'.list = roster.list /\ IsRoster(roster', Names) /\ Rotation(roster') # <<>>
    BY <1>1, <2>2, NextKeepsSound, Zenon
  <2>4. Drawer(roster') # Drawer(roster)
    BY <1>1, <1>3, <2>2, NextDrawerDiffers, Zenon
  <2>5. Rotation(roster') # Rotation(roster)
    BY <2>4 DEF Drawer
  <2>6. ~stopped'
    BY DEF Stays
  <2>7. p # Drawer(roster')
    BY <1>1, <2>3, <2>5, <2>6 DEF NewRound
  <2>8. p \in on /\ q \in on
    BY <2>2, <2>3, WhoStaysIsCounted
  <2>9. Precedes(roster', p, q)
    BY <1>1, <2>2, <2>7, <2>8, NextKeepsOrder, Zenon
  <2>10. roster'.live # <<>>
    <3>1. roster'.live = <<>> => roster'.dead \o roster'.live = <<>>
      OBVIOUS
    <3> QED BY <2>3, <3>1, Zenon DEF Rotation
  <2> QED BY <2>9, <2>10
<1>6. ASSUME NEW x \in Names, Enter(x), roster' # roster
      PROVE  roster'.live # <<>> /\ Precedes(roster', p, q)
  <2> DEFINE r == remove_player(roster, x)
  <2>1. x \notin online /\ roster' = add_player(r, x)
    BY <1>1, <1>6 DEF Enter
  <2>2. roster'.dead = r.dead /\ roster'.live = r.live
    BY <2>1 DEF add_player
  <2>3. IsRoster(r, Names)
    BY <1>1, RosterTypes, Zenon
  <2>4. Precedes(r, p, q) /\ r.live # <<>>
    BY <1>4, <2>1, <2>2
  <2> HIDE DEF r
  <2>5. Precedes(add_player(r, x), p, q)
    BY <2>3, <2>4, AddKeepsOrder
  <2> QED BY <2>1, <2>2, <2>4, <2>5
<1>7. ASSUME NEW x \in Names, Depart(x)
      PROVE  roster'.live # <<>> /\ Precedes(roster', p, q)
  <2>1. x \notin online /\ roster' = remove_player(roster, x)
    BY <1>7 DEF Depart
  <2> QED BY <1>4, <2>1
<1>8. Leave => roster' = roster
  BY DEF Leave
<1> QED BY <1>2, <1>5, <1>6, <1>7, <1>8 DEF TurnsNext

LEMMA NextKeepsOrdered ==
  ASSUME IInv, [TurnsNext]_<<vars, waiting>>
  PROVE  IInv'
<1>1. IsRoster(roster, Names) /\ IsSound(roster)
  BY DEF IInv
<1>2. IsRoster(roster', Names) /\ IsSound(roster')
  BY <1>1, StepKeepsSound
<1>3. CASE UNCHANGED <<vars, waiting>>
  BY <1>3 DEF IInv, vars, Stays, Precedes, Start
<1>4. ASSUME TurnsNext, NEW p \in Names, NEW q \in waiting'[p]
      PROVE  /\ playing' /\ roster'.dead = <<>> /\ roster'.live # <<>>
             /\ Stays(p)' /\ Stays(q)' /\ p # q
             /\ Precedes(roster', p, q)
  <2>1. /\ Stays(p)' /\ Stays(q)' /\ playing' /\ roster'.dead = <<>>
        /\ ~(NewRound /\ p = Drawer(roster'))
        /\ q \in waiting[p] \/ (NewRound /\ q = Drawer(roster'))
    BY <1>4, WaitingBefore
  <2>2. CASE q \in waiting[p]
    <3>1. p # q
      BY <2>2 DEF IInv
    <3>2. roster'.live # <<>> /\ Precedes(roster', p, q)
      BY <1>4, <2>1, <2>2, StepKeepsOrder
    <3> QED BY <2>1, <3>1, <3>2
  <2>3. CASE NewRound /\ q = Drawer(roster')
    <3>1. p # q
      BY <2>1, <2>3
    <3>2. roster'.live # <<>>
      <4>1. Rotation(roster') # <<>>
        <5>1. ASSUME NEW on, HasNextDrawer(roster, on), roster' = get_next_drawing(roster, on)
              PROVE  Rotation(roster') # <<>>
          BY <1>1, <5>1, NextKeepsSound, Zenon
        <5>2. ASSUME NEW x \in Names, roster' = add_player(remove_player(roster, x), x)
              PROVE  Rotation(roster') # <<>>
          <6>1. Rotation(roster') = Rotation(remove_player(roster, x))
            BY <5>2 DEF Rotation, add_player
          <6>2. CASE Rotation(roster) # <<>>
            BY <1>1, <6>1, <6>2, RemoveKeepsDrawer, Zenon
          <6>3. CASE Rotation(roster) = <<>>
            BY <2>3, <6>3 DEF NewRound
          <6> QED BY <6>2, <6>3
        <5> QED BY <1>1, <2>3, <5>1, <5>2, RoundsStartInEndRound, Zenon
      <4>2. roster'.live = <<>> => roster'.dead \o roster'.live = <<>>
        BY <2>1
      <4> QED BY <4>1, <4>2, Zenon DEF Rotation
    <3>3. p \in Members(roster')
      BY <2>1 DEF Stays, Members
    <3>4. Precedes(roster', p, q)
      BY <1>2, <2>1, <2>3, <3>1, <3>2, <3>3, DrawerIsLast
    <3> QED BY <2>1, <3>1, <3>2, <3>4
  <2> QED BY <2>1, <2>2, <2>3
<1>5. CASE TurnsNext
  BY <1>2, <1>4, <1>5 DEF IInv, Stays, Precedes, Start
<1> QED BY <1>3, <1>5

\* Turns: of two players who stay online neither draws twice while the other waits, in
\* a game of any number of players of which any number come, go and return in between.
THEOREM RotationTakesTurns == TurnsSpec => TakesTurns
<1>1. TurnsInit => IInv
  <2> SUFFICES ASSUME TurnsInit PROVE IInv
    OBVIOUS
  <2>1. roster = new_players /\ \A p \in Names : waiting[p] = {}
    BY DEF TurnsInit, Init
  <2>2. IsRoster(roster, Names)
    BY <2>1 DEF IsRoster, new_players
  <2>3. IsSound(roster)
    BY <2>1 DEF IsSound, new_players, IsInjective, IsTail
  <2> QED BY <2>1, <2>2, <2>3 DEF IInv
<1>2. IInv /\ [TurnsNext]_<<vars, waiting>> => IInv'
  BY NextKeepsOrdered
<1>3. IInv /\ [TurnsNext]_<<vars, waiting>>
        => [NewRound /\ roster.dead = <<>> =>
              \A p \in Names :
                Stays(p) /\ Stays(p)' => Drawer(roster') \notin waiting[p]]_<<vars, waiting>>
  BY StepTakesTurns
<1> QED BY <1>1, <1>2, <1>3, PTL DEF TurnsSpec, TakesTurns
=============================================================================
