---------------------------- MODULE AbstractList ----------------------------
(***************************************************************************)
(* What the intrusive lists of list.h promise, without pointers: each     *)
(* usable list head holds a sequence of distinct entries, and an entry is *)
(* in at most one list.  An entry or a head is an anchor: insertion goes  *)
(* right after (list_add, slist_add_after) or right before                *)
(* (list_add_tail) an anchor.  Splicing moves all entries of one list     *)
(* next to an anchor of another; unless the source is reinitialised it is *)
(* no longer a usable head.  This module is the abstract specification    *)
(* that KList and KSList are shown to implement.                          *)
(***************************************************************************)
EXTENDS Integers, Sequences, SequencesExt

CONSTANTS Heads, Entries

VARIABLES lists, live

vars == <<lists, live>>

Linked(ls, lv) == UNION {ToSet(ls[h]) : h \in lv}
Anchors(ls, lv) == lv \cup Linked(ls, lv)

(* The head of the list an anchor belongs to, and its 0-based position.  *)
Owner(ls, lv, x) == CHOOSE h \in lv : x = h \/ x \in ToSet(ls[h])
Idx(ls, h, x) == IF x = h THEN 0 ELSE CHOOSE i \in DOMAIN ls[h] : ls[h][i] = x

(* Insert the sequence seg right after / right before anchor x.  Before a *)
(* head means at the end of its list.                                     *)
InsAfter(ls, lv, x, seg) ==
  LET h == Owner(ls, lv, x)  i == Idx(ls, h, x) IN
  [ls EXCEPT ![h] = SubSeq(@, 1, i) \o seg \o SubSeq(@, i + 1, Len(@))]

InsBefore(ls, lv, x, seg) ==
  LET h == Owner(ls, lv, x)
      i == IF x = h THEN Len(ls[h]) ELSE Idx(ls, h, x) - 1
  IN  [ls EXCEPT ![h] = SubSeq(@, 1, i) \o seg \o SubSeq(@, i + 1, Len(@))]

Without(ls, lv, e) ==
  LET h == Owner(ls, lv, e) IN [ls EXCEPT ![h] = RemoveAt(@, Idx(ls, h, e))]

Free == Entries \ Linked(lists, live)

Add(n, x) ==
  /\ n \in Free /\ x \in Anchors(lists, live)
  /\ lists' = InsAfter(lists, live, x, <<n>>)
  /\ UNCHANGED live

AddTail(n, x) ==
  /\ n \in Free /\ x \in Anchors(lists, live)
  /\ lists' = InsBefore(lists, live, x, <<n>>)
  /\ UNCHANGED live

Del(e) ==
  /\ e \in Linked(lists, live)
  /\ lists' = Without(lists, live, e)
  /\ UNCHANGED live

Move(e, x) ==
  /\ e \in Linked(lists, live) /\ x \in Anchors(lists, live) \ {e}
  /\ lists' = InsAfter(Without(lists, live, e), live, x, <<e>>)
  /\ UNCHANGED live

MoveTail(e, x) ==
  /\ e \in Linked(lists, live) /\ x \in Anchors(lists, live) \ {e}
  /\ lists' = InsBefore(Without(lists, live, e), live, x, <<e>>)
  /\ UNCHANGED live

(* Splice the entries of l after anchor x; init: l stays a usable, empty  *)
(* head, else it is given up (when it had entries).                       *)
Splice(l, x, init) ==
  /\ l \in live /\ x \in Anchors(lists, live) \ ({l} \cup ToSet(lists[l]))
  /\ lists[l] # <<>>
  /\ lists' = [InsAfter(lists, live, x, lists[l]) EXCEPT ![l] = <<>>]
  /\ live' = IF init THEN live ELSE live \ {l}

InitHead(l) ==
  /\ l \notin live
  /\ lists' = [lists EXCEPT ![l] = <<>>]
  /\ live' = live \cup {l}

Init == lists = [h \in Heads |-> <<>>] /\ live = Heads

Next ==
  \/ \E n \in Entries, x \in Heads \cup Entries : Add(n, x) \/ AddTail(n, x)
  \/ \E e \in Entries : Del(e)
  \/ \E e \in Entries, x \in Heads \cup Entries : Move(e, x) \/ MoveTail(e, x)
  \/ \E l \in Heads, x \in Heads \cup Entries, init \in BOOLEAN : Splice(l, x, init)
  \/ \E l \in Heads : InitHead(l)

Spec == Init /\ [][Next]_vars
====
