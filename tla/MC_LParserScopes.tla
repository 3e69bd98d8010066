--------------------------- MODULE MC_LParserScopes ---------------------------
(***************************************************************************)
(* Name resolution and goto resolution, checked in one run of three parts: *)
(* part "goto" with Goto, one variable name and one label name, a main    *)
(* chunk and one nested function, for goto/label backpatching;           *)
(* part "upval" with the cfg's MAXVARS and MAXUPVAL, room for upvalue      *)
(* chains and shadowing; part "limits" with Tight, one upvalue slot (taken *)
(* by _ENV in main) and two local slots, so that the checklimit calls of   *)
(* new_localvar and newupvalue are reached within a few statements.        *)
(***************************************************************************)
EXTENDS MC_LParser

VARIABLE part

Tight == INSTANCE LParser WITH MAXVARS <- 2, MAXUPVAL <- 1

Goto == INSTANCE LParser
          WITH Names <- GotoNames, LabelNames <- GotoLabels,
               MAXVARS <- 5, MaxDepth <- 2, MaxFuncs <- 2

(* The expressions a statement may reference: none in part "goto", where *)
(* only the blocks and the declarations matter.                           *)
PartRefs == IF part = "goto" THEN GotoRefs ELSE Names \cup {NoName}

ScopesInit ==
  \/ part \in {"upval", "limits"} /\ Init
  \/ part = "goto" /\ Goto!Init

ScopesNext ==
  /\ \/ part = "upval" /\ Next
     \/ part = "limits" /\ Tight!Next
     \/ part = "goto" /\ Goto!Next
  /\ UNCHANGED part

ScopesSpec == ScopesInit /\ [][ScopesNext]_<<part, vars>>

(* The type invariant under each part's limits: no function ever holds   *)
(* more locals than MAXVARS or more upvalues than MAXUPVAL.                *)
ScopesTypeOK ==
  CASE part = "upval" -> TypeOK
    [] part = "limits" -> Tight!TypeOK
    [] part = "goto" -> Goto!TypeOK

(* The goto properties of LParser on part "goto" (see LParser for what    *)
(* each says of findlabel, solvegotos, leaveblock and luaK_patchclose).   *)
(* Every goto closegoto patches goes to its target without entering a    *)
(* local's scope, and every goto error reported is one the language      *)
(* prescribes.                                                            *)
GotoSound == part = "goto" => Goto!GotoResolutionSound
(* A chunk parsed without error has every goto and break patched to      *)
(* exactly one label (the lua_assert of luaY_parser).                     *)
GotoComplete == part = "goto" => Goto!GotoResolutionComplete
(* A goto that leaves the scope of a captured local closes its register  *)
(* where it lands (luaK_patchclose), and no kept local's.                 *)
GotoCloses == part = "goto" => Goto!CapturedLocalsClosed
====
