----------------------------- MODULE MC_LParser -----------------------------
(***************************************************************************)
(* Model-checking instances of LParser.  The names are model values; the  *)
(* limits MAXVARS and MAXUPVAL are lowered from 200 and 255 so that the   *)
(* LimitExceeded paths are reached within the bounds.                     *)
(***************************************************************************)
EXTENDS LParser, TLC

CONSTANTS x, y, L

(* Goto/label run: one variable name is enough to shadow and to jump     *)
(* over a declaration; one label name, plus 'break'.                     *)
GotoNames == {x}
GotoLabels == {L}

(* Upvalue run: two names, so that a wrong declaration can be picked.    *)
GotoRefs == {NoName}

(* After an if-goto, else and elseif close the block as end does. *)
GotoIfFollows == FollowsIn("ifthen") \cap {"stmt", "end"}

UpvalNames == {x, y}

Symmetry == Permutations(UpvalNames)
====
