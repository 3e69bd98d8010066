------------------------------- MODULE MC_Lists -------------------------------
(* The two list implementations of list.h checked in one run: a behaviour *)
(* exercises either the doubly linked rings (KList) or the singly linked  *)
(* lists (KSList), chosen by the constant ghost 'part'; the other one     *)
(* stays in its initial state.  Two heads and three entries: a loop can   *)
(* remove the first, a middle and the last node of a three-node list, and *)
(* one list can be spliced into the middle or the end of another.         *)
EXTENDS TLC

CONSTANTS h1, h2, e1, e2, e3, NULL

MCHeads == {h1, h2}
MCEntries == {e1, e2, e3}

VARIABLES part, next, prev, kinited, snext, last, sinited, iter

K == INSTANCE KList WITH Heads <- MCHeads, Entries <- MCEntries, inited <- kinited
S == INSTANCE KSList WITH Heads <- MCHeads, Entries <- MCEntries, inited <- sinited

kvars == <<next, prev, kinited>>
svars == <<snext, last, sinited, iter>>
allvars == <<part, kvars, svars>>

ListsInit ==
  /\ part \in {"k", "s"}
  /\ K!Init
  /\ S!Init

KStep == part = "k" /\ K!Next /\ UNCHANGED <<part, svars>>
SStep == part = "s" /\ S!Next /\ UNCHANGED <<part, kvars>>

(* KSList's fairness, on the loop steps of the composed system. *)
SIterBody == part = "s" /\ (\E del \in BOOLEAN : S!IterBody(del)) /\ UNCHANGED <<part, kvars>>
SIterEnd == part = "s" /\ S!IterEnd /\ UNCHANGED <<part, kvars>>

ListsSpec ==
  ListsInit /\ [][KStep \/ SStep]_allvars /\ WF_allvars(SIterBody) /\ WF_allvars(SIterEnd)

(* The properties of KList and KSList (see those modules for what they   *)
(* say of list.h).  Each holds of the idle part's initial state, which    *)
(* never changes, so each is checked on every behaviour.                  *)
(* The rings stay closed and consistent under __list_add/__list_del/splice. *)
KListWellFormed == K!WellFormed
(* The ring calls do to the entry sequences what AbstractList specifies.   *)
KListRefinement == K!Refinement
(* The slists stay NULL-terminated with 'last' at their end.               *)
KSListWellFormed == S!WellFormed
(* slist_for_each_safe visits every node once and keeps what it did not   *)
(* delete.                                                                 *)
SafeIteration == S!SafeIteration
(* The slist calls do to the entry sequences what AbstractList specifies. *)
KSListRefinement == S!Refinement
(* A started slist_for_each_safe loop ends.                                *)
LoopTerminates == S!LoopTerminates
====
