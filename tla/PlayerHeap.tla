----------------------------- MODULE PlayerHeap -----------------------------
(***************************************************************************)
(* The nodes and pointers behind the player list of one game               *)
(* (model/player.c, game.c): a heap of PlayerList nodes that is only ever  *)
(* added to, the fields player_list and count of struct Players, and       *)
(* drawing_player_list of struct Game.  View is the roster of module       *)
(* PlayerList that such a heap stands for; every operation on the heap     *)
(* does to the view what the operation of that name in PlayerList says.    *)
(***************************************************************************)
EXTENDS Integers, FiniteSets, SequencesExt

CONSTANTS
  Names,     \* the players
  MaxNodes   \* bound: the nodes allocated

ASSUME HeapAssumption == MaxNodes \in Nat

VARIABLE heap

PL == INSTANCE PlayerList

NULL == 0
Nodes(h) == DOMAIN h.next
Pointers(h) == Nodes(h) \cup {NULL}

\* The nodes reachable from n.  A node only ever points to an older one.
Chain(h, n) ==
  LET chain[m \in Pointers(h)] == IF m = NULL THEN <<>> ELSE <<m>> \o chain[h.next[m]]
  IN  chain[n]

PlayersOf(h, nodes) == [i \in DOMAIN nodes |-> h.player[nodes[i]]]

\* The roster: dead is what the drawing pointer reaches before it reaches the list.
View(h) ==
  LET list == Chain(h, h.player_list)
      reached == Chain(h, h.drawing_player_list)
      linked == {i \in DOMAIN reached : reached[i] \in ToSet(list)}
      unlinked == IF linked = {} THEN Len(reached) ELSE Min(linked) - 1
  IN  [list |-> PlayersOf(h, list),
       dead |-> PlayersOf(h, SubSeq(reached, 1, unlinked)),
       live |-> PlayersOf(h, SubSeq(reached, unlinked + 1, Len(reached)))]

empty == [next |-> <<>>, player |-> <<>>, player_list |-> NULL, count |-> 0,
          drawing_player_list |-> NULL]

\* add_player: a fresh node, before the head.
add_player(h, p) ==
  [h EXCEPT !.next = Append(@, IF h.count = 0 THEN NULL ELSE h.player_list),
            !.player = Append(@, p),
            !.player_list = Len(h.next) + 1,
            !.count = @ + 1]

\* Mutant: the head is removed without being counted.
remove_player_uncounted(h, p) ==
  IF h.player_list # NULL /\ h.player[h.player_list] = p
  THEN [h EXCEPT !.player_list = h.next[@]]
  ELSE h

\* Mutant: a removal counts although nobody was found.
remove_player_always_counted(h, p) ==
  IF h.player_list # NULL /\ h.player[h.player_list] = p
  THEN [h EXCEPT !.player_list = h.next[@], !.count = @ - 1]
  ELSE [h EXCEPT !.count = @ - 1]

\* remove_player: the head is stepped over, or the first other node with that name is
\* bypassed by its predecessor; its own next stays as it is.
remove_player(h, p) ==
  LET list == Chain(h, h.player_list)
      found == {k \in 2..Len(list) : h.player[list[k]] = p}
      r_node == list[Min(found)]
      l_node == list[Min(found) - 1]
  IN  IF list = <<>> THEN h
      ELSE IF h.player[h.player_list] = p
      THEN [h EXCEPT !.player_list = h.next[@], !.count = @ - 1]
      ELSE IF found = {} THEN h
      ELSE [h EXCEPT !.next[l_node] = h.next[r_node], !.count = @ - 1]

\* The first loop of get_next_drawing_fd, from node pl: the node it stops at, NULL
\* after the last one, and its iterations.
FirstLoop(h, online, pl) ==
  LET visited == Chain(h, pl)
      hits == {i \in DOMAIN visited : h.player[visited[i]] \in online}
  IN  IF hits = {} THEN [node |-> NULL, iterations |-> Len(visited)]
      ELSE [node |-> visited[Min(hits)], iterations |-> Min(hits)]

\* Mutant: the number of players is not looked at.
SecondLoop_unbounded(h, online, iterations) == FirstLoop(h, online, h.player_list).node

\* The second loop, after that many iterations of the first.
SecondLoop(h, online, iterations) ==
  LET loop[pl \in Pointers(h)] ==
        [i \in Nat |-> IF pl = NULL \/ i + 1 >= h.count THEN NULL
                       ELSE IF h.player[pl] \in online THEN pl
                       ELSE loop[h.next[pl]][i + 1]]
  IN  loop[h.player_list][iterations]

\* The node get_next_drawing_fd moves drawing_player_list to; NULL when it returns -1.
NextDrawing(h, online) ==
  LET first == FirstLoop(h, online,
                 IF h.drawing_player_list = NULL THEN h.player_list
                 ELSE h.next[h.drawing_player_list])
  IN  IF first.node # NULL THEN first.node ELSE SecondLoop(h, online, first.iterations)

-----------------------------------------------------------------------------
Init == heap = empty

\* reassign_player puts p into this game, after taking it out of it if it was there.
Enter(p) ==
  /\ Len(heap.next) < MaxNodes
  /\ heap' = add_player(remove_player(heap, p), p)

\* reassign_player takes p out of this game.
Depart(p) ==
  /\ p \in PL!Members(View(heap))
  /\ heap' = remove_player(heap, p)

\* start_round finds the next drawing player, whoever is online.  Without one the
\* process exits, and the heap with it.
StartRound(online) ==
  /\ NextDrawing(heap, online) # NULL
  /\ heap' = [heap EXCEPT !.drawing_player_list = NextDrawing(heap, online)]

Next ==
  \/ \E p \in Names : Enter(p) \/ Depart(p)
  \/ \E online \in SUBSET Names : StartRound(online)

Spec == Init /\ [][Next]_heap

-----------------------------------------------------------------------------
\* The pointers point to nodes, and only to older ones.
TypeOK ==
  /\ heap.next \in Seq(0..MaxNodes)
  /\ heap.player \in Seq(Names)
  /\ Len(heap.next) = Len(heap.player)
  /\ \A n \in Nodes(heap) : heap.next[n] \in 0..(n - 1)
  /\ {heap.player_list, heap.drawing_player_list} \subseteq Pointers(heap)
  /\ heap.count \in 0..MaxNodes

\* count is the length of the list: get_next_drawing_fd gives up at count, and the
\* player list message sends count and then the players.
CountIsLength == heap.count = Len(Chain(heap, heap.player_list))

\* The two loops with their shared iteration counter, the predecessor walk and the
\* unlinked nodes amount to what PlayerList says of rosters, from every heap that a
\* sequence of reassignments and rounds can leave.
OperationsAgree ==
  /\ \A p \in Names :
       /\ View(remove_player(heap, p)) = PL!remove_player(View(heap), p)
       /\ p \notin PL!Members(View(heap)) =>
            View(add_player(heap, p)) = PL!add_player(View(heap), p)
  /\ \A online \in SUBSET Names :
       LET n == NextDrawing(heap, online)
       IN  /\ n # NULL <=> PL!HasNextDrawer(View(heap), online)
           /\ n # NULL => View([heap EXCEPT !.drawing_player_list = n])
                            = PL!get_next_drawing(View(heap), online)
=============================================================================
