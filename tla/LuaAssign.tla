-------------------------------- MODULE LuaAssign --------------------------------
(***************************************************************************)
(* Multiple assignment in the Lua parser (src/lua-5/5.3.6/src/lparser.c,  *)
(* assignment and check_conflict).  The targets are parsed left to right; *)
(* for each target after the first that is a local or an upvalue,         *)
(* check_conflict redirects every earlier indexed target whose table or   *)
(* index is that variable to a copy made in register 'extra' before any   *)
(* value is computed.  The stores are then emitted last target first: the *)
(* innermost call of assignment stores the last value, and each return   *)
(* stores the value below it (the default assignment).                     *)
(*                                                                         *)
(* A target is an expdesc: VLOCAL (a register), VUPVAL (an upvalue index) *)
(* or VINDEXED (table vt/t: a register or an upvalue; key idx: a register *)
(* or KCONST, a constant's RK index, which no register equals).  A       *)
(* global name is VINDEXED on upvalue 0, _ENV.                            *)
(* The values are as many as the targets (adjust_assign is not taken).    *)
(* luaK_storevar and the OP_MOVE/OP_GETUPVAL copy (lcode.c, not in the    *)
(* repository) are modelled by what the emitted code does at run time.    *)
(***************************************************************************)
EXTENDS Integers, Sequences, Functions, TLC

CONSTANTS
  NACTVAR,     \* active locals: registers 0 .. NACTVAR-1; fs->freereg after them
  NUPS,        \* upvalues 0 .. NUPS-1 of the function
  MaxTargets   \* bound: targets of one assignment

VARIABLES
  targets,  \* the assignment's targets, in source order
  result    \* the emitted code's effect; Pending before the parse

vars == <<targets, result>>

Regs == 0 .. NACTVAR - 1
Ups == 0 .. NUPS - 1
KCONST == -1

Target ==
       [k : {"VLOCAL"}, info : Regs, vt : {"none"}, t : {0}, idx : {KCONST}]
  \cup [k : {"VUPVAL"}, info : Ups, vt : {"none"}, t : {0}, idx : {KCONST}]
  \cup [k : {"VINDEXED"}, info : {0}, vt : {"VLOCAL"}, t : Regs, idx : Regs \cup {KCONST}]
  \cup [k : {"VINDEXED"}, info : {0}, vt : {"VUPVAL"}, t : Ups, idx : Regs \cup {KCONST}]

(* Mutant operator: a plausible fault of check_conflict, without the     *)
(* test of the index register.                                            *)
check_conflict_noidx(lh, v, extra) ==
  LET hitT(x) == x.k = "VINDEXED" /\ x.vt = v.k /\ x.t = v.info
      fix(x) == IF hitT(x) THEN [x EXCEPT !.vt = "VLOCAL", !.t = extra] ELSE x
  IN  [lh |-> [i \in DOMAIN lh |-> fix(lh[i])],
       conflict |-> \E i \in DOMAIN lh : hitT(lh[i])]

(* check_conflict (lines 1269-1292): the earlier targets lh, rewritten,  *)
(* and whether v must be copied to register extra.                        *)
check_conflict(lh, v, extra) ==
  LET hitT(x) == x.k = "VINDEXED" /\ x.vt = v.k /\ x.t = v.info
      hitI(x) == x.k = "VINDEXED" /\ v.k = "VLOCAL" /\ x.idx = v.info
      fixT(x) == IF hitT(x) THEN [x EXCEPT !.vt = "VLOCAL", !.t = extra] ELSE x
      fix(x)  == IF hitI(x) THEN [fixT(x) EXCEPT !.idx = extra] ELSE fixT(x)
  IN  [lh |-> [i \in DOMAIN lh |-> fix(lh[i])],
       conflict |-> \E i \in DOMAIN lh : hitT(lh[i]) \/ hitI(lh[i])]

(* The targets after parsing, from target j on, with the variables copied *)
(* so far (copies[c] is in register NACTVAR + c - 1).                     *)
RECURSIVE ParseTargets(_, _, _)
ParseTargets(s, j, copies) ==
  IF j > Len(s) THEN [lhs |-> s, copies |-> copies]
  ELSE IF s[j].k = "VINDEXED" THEN ParseTargets(s, j + 1, copies)
  ELSE LET cc == check_conflict(SubSeq(s, 1, j - 1), s[j], NACTVAR + Len(copies)) IN
       ParseTargets(cc.lh \o SubSeq(s, j, Len(s)), j + 1,
                    IF cc.conflict THEN Append(copies, s[j]) ELSE copies)

(* Memory: <<"reg", r>>, <<"up", u>> and <<"tab", table, key>> to values; *)
(* before the statement register r holds <<"L", r>>, upvalue u <<"U", u>>. *)
Pre == [d \in {<<"reg", r>> : r \in Regs} \cup {<<"up", u>> : u \in Ups} |->
          IF d[1] = "reg" THEN <<"L", d[2]>> ELSE <<"U", d[2]>>]

VarDest(v) == IF v.k = "VLOCAL" THEN <<"reg", v.info>> ELSE <<"up", v.info>>

(* Where a store to target x goes, reading its table and key in mem.  *)
Dest(x, mem) ==
  IF x.k # "VINDEXED" THEN VarDest(x)
  ELSE <<"tab", mem[<<IF x.vt = "VLOCAL" THEN "reg" ELSE "up", x.t>>],
               IF x.idx = KCONST THEN <<"K", 0>> ELSE mem[<<"reg", x.idx>>]>>

(* luaK_storevar of the j-th value to the j-th target, for j from n down *)
(* to 1 (lines 1316-1324); the value of expression j is <<"E", j>>.       *)
RECURSIVE Store(_, _, _)
Store(lhs, j, mem) ==
  IF j = 0 THEN mem
  ELSE Store(lhs, j - 1, (Dest(lhs[j], mem) :> <<"E", j>>) @@ mem)

(* assignment (lines 1295-1325) with restassign's check_conflict calls:  *)
(* the copies run first, then the stores.                                 *)
assignment(s) ==
  LET p == ParseTargets(s, 2, <<>>)
      copied == [d \in {<<"reg", NACTVAR + c - 1>> : c \in 1 .. Len(p.copies)} |->
                   Pre[VarDest(p.copies[d[2] - NACTVAR + 1])]]
  IN  [mem |-> Store(p.lhs, Len(s), copied @@ Pre), copies |-> Len(p.copies)]

Pending == [mem |-> <<>>, copies |-> -1]

Parse ==
  /\ result = Pending
  /\ result' = assignment(targets)
  /\ UNCHANGED targets

Done == result # Pending /\ UNCHANGED vars

Init ==
  /\ targets \in UNION {[1 .. n -> Target] : n \in 1 .. MaxTargets}
  /\ result = Pending

Next == Parse \/ Done

Spec == Init /\ [][Next]_vars

(***************************************************************************)
(* Reference: the manual (section 3.3.3): all expressions, the tables and *)
(* keys of the targets included, are evaluated before any assignment.     *)
(* When two targets denote the same place the order is undefined, so the  *)
(* reference is stated only for targets with distinct places.             *)
(***************************************************************************)
RefDest(j) == Dest(targets[j], Pre)

DistinctPlaces == \A i, j \in DOMAIN targets : i # j => RefDest(i) # RefDest(j)

RefMem == [d \in DOMAIN Pre \cup {RefDest(j) : j \in DOMAIN targets} |->
             IF \E j \in DOMAIN targets : RefDest(j) = d
             THEN <<"E", CHOOSE j \in DOMAIN targets : RefDest(j) = d>>
             ELSE Pre[d]]

(* check_conflict's copies make the code emitted for a multiple          *)
(* assignment, which stores last target first, behave as if every table  *)
(* and key were evaluated before any variable is assigned: 'a[i], i = x, y' *)
(* stores into the old a[i], and the copies are only scratch registers    *)
(* above the active locals.                                                *)
AssignMatchesManual ==
  result # Pending /\ DistinctPlaces =>
    LET copyRegs == {<<"reg", NACTVAR + c - 1>> : c \in 1 .. result.copies} IN
    /\ DOMAIN result.mem = DOMAIN RefMem \cup copyRegs
    /\ Restrict(result.mem, DOMAIN RefMem) = RefMem
====
