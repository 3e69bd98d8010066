-------------------------------- MODULE KSList --------------------------------
(***************************************************************************)
(* The singly linked list of list.h                                       *)
(* (src/workflow-windows/src/kernel_win/list.h, struct slist_head): a     *)
(* head is its node 'first' plus a pointer 'last' to the final node (to   *)
(* 'first' when empty); a list ends at NULL.  Each head in Heads stands   *)
(* for its node 'first', so snext[h] is list->first.next.                 *)
(*                                                                         *)
(* The callers follow the contract of the functions: an added node is in  *)
(* no list, prev/at belong to the list passed as 'list'/'head', and a    *)
(* list given up by slist_splice is re-initialised before reuse.          *)
(*                                                                         *)
(* The module also models the slist_for_each_safe loop with a body that  *)
(* may remove the current node with slist_del_after(prev, list), the use *)
(* that the macro's update 'prev = prev->next == pos ? pos : prev' is    *)
(* written for.                                                           *)
(***************************************************************************)
EXTENDS Integers, Sequences, SequencesExt, FiniteSets

CONSTANTS Heads, Entries, NULL

ASSUME NULL \notin Heads \cup Entries

VARIABLES snext, last, inited, iter

vars == <<snext, last, inited, iter>>

Nodes == Heads \cup Entries

(* The entries from x on, up to NULL; <<NULL>> marks a chain that does   *)
(* not end within the number of entries.                                  *)
RECURSIVE Chain(_, _, _)
Chain(nx, x, fuel) ==
  IF x = NULL THEN <<>>
  ELSE IF fuel = 0 \/ x \notin Entries THEN <<NULL>>
  ELSE <<x>> \o Chain(nx, nx[x], fuel - 1)

Walk(h) == Chain(snext, snext[h], Cardinality(Entries))

Members(h) == ToSet(Walk(h))
InList == UNION {Members(h) : h \in inited}
ListOf(x) == CHOOSE h \in inited : x = h \/ x \in Members(h)

(***************************************************************************)
(* The inline functions, on M == [next, last].                            *)
(***************************************************************************)
INIT_SLIST_HEAD(M, l) == [M EXCEPT !.next[l] = NULL, !.last[l] = l]

(* Mutant operator: a plausible fault of slist_add_head. *)
slist_add_head_swapped(M, node, l) ==
  LET M1 == [M  EXCEPT !.next[l] = node]
      M2 == [M1 EXCEPT !.next[node] = M1.next[l]]
  IN  IF M2.next[node] = NULL THEN [M2 EXCEPT !.last[l] = node] ELSE M2

slist_add_head(M, node, l) ==
  LET M1 == [M  EXCEPT !.next[node] = M.next[l]]
      M2 == [M1 EXCEPT !.next[l] = node]
  IN  IF M2.next[node] = NULL THEN [M2 EXCEPT !.last[l] = node] ELSE M2

slist_add_tail(M, node, l) ==
  LET M1 == [M  EXCEPT !.next[node] = NULL]
      M2 == [M1 EXCEPT !.next[M1.last[l]] = node]
  IN  [M2 EXCEPT !.last[l] = node]

slist_add_after(M, node, p, l) ==
  LET M1 == [M  EXCEPT !.next[node] = M.next[p]]
      M2 == [M1 EXCEPT !.next[p] = node]
  IN  IF M2.next[node] = NULL THEN [M2 EXCEPT !.last[l] = node] ELSE M2

slist_del_head(M, l) ==
  LET M1 == [M EXCEPT !.next[l] = M.next[M.next[l]]]
  IN  IF M1.next[l] = NULL THEN [M1 EXCEPT !.last[l] = l] ELSE M1

(* Mutant operator: a plausible fault of slist_del_after. *)
slist_del_after_nolast(M, p, l) == [M EXCEPT !.next[p] = M.next[M.next[p]]]

slist_del_after(M, p, l) ==
  LET M1 == [M EXCEPT !.next[p] = M.next[M.next[p]]]
  IN  IF M1.next[p] = NULL THEN [M1 EXCEPT !.last[l] = p] ELSE M1

slist_empty(M, l) == M.next[l] = NULL

(* Mutant operator: a plausible fault of __slist_splice. *)
__slist_splice_swapped(M, l, at, head) ==
  LET M1 == [M  EXCEPT !.next[at] = M.next[l]]
      M2 == [M1 EXCEPT !.next[M1.last[l]] = M1.next[at]]
  IN  IF M2.next[M2.last[l]] = NULL THEN [M2 EXCEPT !.last[head] = M2.last[l]] ELSE M2

__slist_splice(M, l, at, head) ==
  LET M1 == [M  EXCEPT !.next[M.last[l]] = M.next[at]]
      M2 == [M1 EXCEPT !.next[at] = M1.next[l]]
  IN  IF M2.next[M2.last[l]] = NULL THEN [M2 EXCEPT !.last[head] = M2.last[l]] ELSE M2

slist_splice(M, l, at, head) ==
  IF slist_empty(M, l) THEN M ELSE __slist_splice(M, l, at, head)

slist_splice_init(M, l, at, head) ==
  IF slist_empty(M, l) THEN M ELSE INIT_SLIST_HEAD(__slist_splice(M, l, at, head), l)

(***************************************************************************)
(* Actions.  No list call is made outside the loop body while a           *)
(* slist_for_each_safe loop runs (the code is single-threaded).           *)
(***************************************************************************)
Mem == [next |-> snext, last |-> last]

Store(M) == snext' = M.next /\ last' = M.last

Idle == iter.pc = "idle"

NoIter == [pc |-> "idle", head |-> NULL, prev |-> NULL, pos |-> NULL,
           orig |-> <<>>, seen |-> <<>>, deleted |-> {}]

Call(M) == Idle /\ Store(M) /\ UNCHANGED <<inited, iter>>

SlistAddHead(node, l) ==
  node \in Entries \ InList /\ l \in inited /\ Call(slist_add_head(Mem, node, l))

SlistAddTail(node, l) ==
  node \in Entries \ InList /\ l \in inited /\ Call(slist_add_tail(Mem, node, l))

SlistAddAfter(node, p) ==
  node \in Entries \ InList /\ p \in inited \cup InList
  /\ Call(slist_add_after(Mem, node, p, ListOf(p)))

SlistDelHead(l) ==
  l \in inited /\ ~slist_empty(Mem, l) /\ Call(slist_del_head(Mem, l))

SlistDelAfter(p) ==
  p \in inited \cup InList /\ snext[p] # NULL /\ Call(slist_del_after(Mem, p, ListOf(p)))

(* slist_splice gives up l when it had entries; slist_splice_init keeps it. *)
SlistSplice(l, at, init) ==
  /\ Idle /\ l \in inited /\ at \in (inited \cup InList) \ ({l} \cup Members(l))
  /\ IF init THEN Store(slist_splice_init(Mem, l, at, ListOf(at)))
             ELSE Store(slist_splice(Mem, l, at, ListOf(at)))
  /\ inited' = IF init \/ slist_empty(Mem, l) THEN inited ELSE inited \ {l}
  /\ UNCHANGED iter

InitSlistHead(l) ==
  /\ Idle /\ l \in Heads \ inited
  /\ Store(INIT_SLIST_HEAD(Mem, l))
  /\ inited' = inited \cup {l}
  /\ UNCHANGED iter

(* slist_for_each_safe(pos, prev, head): the initialisation clause.       *)
(* orig, seen and deleted are ghosts: the list when the loop starts, the *)
(* nodes the body was run for, and the ones it removed.                  *)
IterStart(h) ==
  /\ Idle /\ h \in inited
  /\ iter' = [pc |-> "loop", head |-> h, prev |-> h, pos |-> snext[h],
              orig |-> Walk(h), seen |-> <<>>, deleted |-> {}]
  /\ UNCHANGED <<snext, last, inited>>

(* The loop condition 'pos' fails: the loop ends. *)
IterEnd ==
  /\ iter.pc = "loop" /\ iter.pos = NULL
  /\ iter' = NoIter
  /\ UNCHANGED <<snext, last, inited>>

(* Mutant operator: a plausible fault of the increment clause. *)
Advance_unsafe(nx, it) == [it EXCEPT !.prev = it.pos, !.pos = nx[it.pos]]

(* The increment clause: 'prev = prev->next == pos ? pos : prev,          *)
(* pos = prev->next'.                                                      *)
Advance(nx, it) ==
  LET p == IF nx[it.prev] = it.pos THEN it.pos ELSE it.prev
  IN  [it EXCEPT !.prev = p, !.pos = nx[p]]

(* One run of the body for pos, followed by the increment clause; the    *)
(* body either keeps pos or removes it with slist_del_after(prev, head).  *)
(* The ghost seen stops growing one past the number of entries: a run    *)
(* that long already differs from orig.                                   *)
IterBody(del) ==
  /\ iter.pc = "loop" /\ iter.pos # NULL
  /\ LET M == IF del THEN slist_del_after(Mem, iter.prev, iter.head) ELSE Mem
         it == [iter EXCEPT !.seen = IF Len(@) > Cardinality(Entries) THEN @
                                       ELSE Append(@, iter.pos),
                            !.deleted = IF del THEN @ \cup {iter.pos} ELSE @]
     IN  Store(M) /\ iter' = Advance(M.next, it)
  /\ UNCHANGED inited

(* Both heads as SLIST_HEAD(name) defines them; entries not yet linked. *)
Init ==
  /\ snext = [x \in Nodes |-> NULL]
  /\ last = [h \in Heads |-> h]
  /\ inited = Heads
  /\ iter = NoIter

Next ==
  \/ \E n \in Entries, l \in Heads : SlistAddHead(n, l) \/ SlistAddTail(n, l)
  \/ \E n \in Entries, p \in Nodes : SlistAddAfter(n, p)
  \/ \E l \in Heads : SlistDelHead(l)
  \/ \E p \in Nodes : SlistDelAfter(p)
  \/ \E l \in Heads, at \in Nodes, init \in BOOLEAN : SlistSplice(l, at, init)
  \/ \E l \in Heads : InitSlistHead(l)
  \/ \E h \in Heads : IterStart(h)
  \/ \E del \in BOOLEAN : IterBody(del)
  \/ IterEnd

Fairness == WF_vars(\E del \in BOOLEAN : IterBody(del)) /\ WF_vars(IterEnd)

Spec == Init /\ [][Next]_vars /\ Fairness

(***************************************************************************)
(* Properties.                                                             *)
(***************************************************************************)

(* Every usable list ends at NULL without a repeated node, no entry is in *)
(* two lists, and 'last' points to the final node (to 'first' when the   *)
(* list is empty): slist_add_tail writes through 'last', so a step that  *)
(* removes or appends the final node without updating it, as              *)
(* slist_del_after, slist_add_after and __slist_splice must, corrupts a  *)
(* later add.                                                              *)
WellFormed ==
  /\ snext \in [Nodes -> Nodes \cup {NULL}] /\ last \in [Heads -> Nodes]
  /\ \A h \in inited :
       /\ NULL \notin ToSet(Walk(h)) /\ IsInjective(Walk(h))
       /\ last[h] = IF Walk(h) = <<>> THEN h ELSE Last(Walk(h))
  /\ \A h1, h2 \in inited : h1 # h2 => Members(h1) \cap Members(h2) = {}

(* slist_for_each_safe with slist_del_after(prev, head) in its body: when *)
(* the loop condition fails, the body has run for every node of the list *)
(* exactly once and in order, and the list holds exactly the nodes it     *)
(* kept.                                                                   *)
IterDone == iter.pc = "loop" /\ iter.pos = NULL

SafeIteration ==
  IterDone =>
    /\ iter.seen = iter.orig
    /\ Walk(iter.head) = SelectSeq(iter.orig, LAMBDA x : x \notin iter.deleted)

(* A slist_for_each_safe loop that has started ends, whatever its body    *)
(* removes.                                                                *)
LoopTerminates == iter.pc = "loop" ~> iter.pc = "idle"

(* Each call does to the sequence of entries what its comment promises:  *)
(* KSList implements AbstractList.                                         *)
AL == INSTANCE AbstractList
        WITH lists <- [h \in Heads |-> IF h \in inited THEN Walk(h) ELSE <<>>],
             live <- inited

Refinement == AL!Spec
====
