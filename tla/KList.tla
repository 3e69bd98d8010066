-------------------------------- MODULE KList --------------------------------
(***************************************************************************)
(* The doubly linked list of list.h                                       *)
(* (src/workflow-windows/src/kernel_win/list.h, struct list_head): every  *)
(* node has next and prev pointers; a head is a node whose ring holds the *)
(* entries.  M == [next, prev] is the memory of all nodes; each inline   *)
(* function is an operator on M making the pointer writes of the C code *)
(* in their order.                                                         *)
(*                                                                         *)
(* The callers follow the contract the header's comments state: an entry *)
(* is added only when it is in no list, deleted or moved only when it is *)
(* in one, and a head spliced with list_splice is not used again before   *)
(* INIT_LIST_HEAD.  'inited' is that knowledge of the caller: the heads   *)
(* that are usable.  Entries start with pointers that are not yet set     *)
(* (NULL).                                                                *)
(***************************************************************************)
EXTENDS Integers, Sequences, SequencesExt, FiniteSets

CONSTANTS Heads, Entries, NULL

ASSUME NULL \notin Heads \cup Entries

VARIABLES next, prev, inited

vars == <<next, prev, inited>>

Nodes == Heads \cup Entries

(* The entries on the ring of head h, in next order; <<NULL>> marks a    *)
(* ring that does not close within the number of entries.                 *)
RECURSIVE Chain(_, _, _, _)
Chain(nx, x, h, fuel) ==
  IF x = h THEN <<>>
  ELSE IF fuel = 0 \/ x \notin Entries THEN <<NULL>>
  ELSE <<x>> \o Chain(nx, nx[x], h, fuel - 1)

Walk(h) == Chain(next, next[h], h, Cardinality(Entries))

Members(h) == ToSet(Walk(h))
InList == UNION {Members(h) : h \in inited}
Anchor == inited \cup InList

(***************************************************************************)
(* The inline functions.                                                   *)
(***************************************************************************)
INIT_LIST_HEAD(M, l) == [M EXCEPT !.next[l] = l, !.prev[l] = l]

__list_add(M, node, p, n) ==
  LET M1 == [M  EXCEPT !.prev[n] = node]
      M2 == [M1 EXCEPT !.next[node] = n]
      M3 == [M2 EXCEPT !.prev[node] = p]
  IN  [M3 EXCEPT !.next[p] = node]

list_add(M, node, head) == __list_add(M, node, head, M.next[head])

list_add_tail(M, node, head) == __list_add(M, node, M.prev[head], head)

(* Mutant operator: a plausible fault of __list_del. *)
__list_del_halfway(M, p, n) == [M EXCEPT !.next[p] = n]

__list_del(M, p, n) ==
  LET M1 == [M EXCEPT !.prev[n] = p] IN [M1 EXCEPT !.next[p] = n]

list_del(M, entry) == __list_del(M, M.prev[entry], M.next[entry])

list_move(M, l, head) == list_add(list_del(M, l), l, head)

list_move_tail(M, l, head) == list_add_tail(list_del(M, l), l, head)

list_empty(M, head) == M.next[head] = head

__list_splice(M, l, head) ==
  LET first == M.next[l]  last == M.prev[l]  at == M.next[head]
      M1 == [M  EXCEPT !.prev[first] = head]
      M2 == [M1 EXCEPT !.next[head] = first]
      M3 == [M2 EXCEPT !.next[last] = at]
  IN  [M3 EXCEPT !.prev[at] = last]

list_splice(M, l, head) == IF list_empty(M, l) THEN M ELSE __list_splice(M, l, head)

(* Mutant operator: a plausible fault of list_splice_init. *)
list_splice_init_noinit(M, l, head) == list_splice(M, l, head)

list_splice_init(M, l, head) ==
  IF list_empty(M, l) THEN M ELSE INIT_LIST_HEAD(__list_splice(M, l, head), l)

(***************************************************************************)
(* Actions: one call each, with the contract as the guard.                *)
(***************************************************************************)
Mem == [next |-> next, prev |-> prev]

Store(M) == next' = M.next /\ prev' = M.prev

ListAdd(node, head) ==
  /\ node \in Entries \ InList /\ head \in Anchor
  /\ Store(list_add(Mem, node, head)) /\ UNCHANGED inited

ListAddTail(node, head) ==
  /\ node \in Entries \ InList /\ head \in Anchor
  /\ Store(list_add_tail(Mem, node, head)) /\ UNCHANGED inited

ListDel(entry) ==
  /\ entry \in InList
  /\ Store(list_del(Mem, entry)) /\ UNCHANGED inited

ListMove(l, head) ==
  /\ l \in InList /\ head \in Anchor \ {l}
  /\ Store(list_move(Mem, l, head)) /\ UNCHANGED inited

ListMoveTail(l, head) ==
  /\ l \in InList /\ head \in Anchor \ {l}
  /\ Store(list_move_tail(Mem, l, head)) /\ UNCHANGED inited

(* list_splice gives up l when it had entries; list_splice_init keeps it. *)
ListSplice(l, head, init) ==
  /\ l \in inited /\ head \in Anchor \ ({l} \cup Members(l))
  /\ IF init THEN Store(list_splice_init(Mem, l, head))
             ELSE Store(list_splice(Mem, l, head))
  /\ inited' = IF init \/ list_empty(Mem, l) THEN inited ELSE inited \ {l}

InitListHead(l) ==
  /\ l \in Heads \ inited
  /\ Store(INIT_LIST_HEAD(Mem, l))
  /\ inited' = inited \cup {l}

(* LIST_HEAD(name) for every head; entries not yet linked. *)
Init ==
  /\ next = [x \in Nodes |-> IF x \in Heads THEN x ELSE NULL]
  /\ prev = [x \in Nodes |-> IF x \in Heads THEN x ELSE NULL]
  /\ inited = Heads

Next ==
  \/ \E n \in Entries, h \in Nodes : ListAdd(n, h) \/ ListAddTail(n, h)
  \/ \E e \in Entries : ListDel(e)
  \/ \E e \in Entries, h \in Nodes : ListMove(e, h) \/ ListMoveTail(e, h)
  \/ \E l \in Heads, h \in Nodes, init \in BOOLEAN : ListSplice(l, h, init)
  \/ \E l \in Heads : InitListHead(l)

Spec == Init /\ [][Next]_vars

(***************************************************************************)
(* Properties.                                                             *)
(***************************************************************************)

(* Every usable head is on a ring that closes through entries only, on   *)
(* which prev undoes next, and no entry is on two rings: after any        *)
(* sequence of adds, deletes, moves and splices the pointer writes of     *)
(* __list_add, __list_del and __list_splice leave no half-linked node.    *)
WellFormed ==
  /\ next \in [Nodes -> Nodes \cup {NULL}] /\ prev \in [Nodes -> Nodes \cup {NULL}]
  /\ \A h \in inited :
       /\ NULL \notin ToSet(Walk(h)) /\ IsInjective(Walk(h))
       /\ LET ring == <<h>> \o Walk(h) IN
            \A i \in DOMAIN ring : prev[next[ring[i]]] = ring[i]
  /\ \A h1, h2 \in inited : h1 # h2 => Members(h1) \cap Members(h2) = {}

(* Each call does to the sequence of entries what its comment promises:  *)
(* KList implements AbstractList, the lists being read off the rings.    *)
AL == INSTANCE AbstractList
        WITH lists <- [h \in Heads |-> IF h \in inited THEN Walk(h) ELSE <<>>],
             live <- inited

Refinement == AL!Spec
====
