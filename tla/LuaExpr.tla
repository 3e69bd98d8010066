-------------------------------- MODULE LuaExpr --------------------------------
(***************************************************************************)
(* Operator precedence in the Lua parser (src/lua-5/5.3.6/src/lparser.c,  *)
(* subexpr and its priority table): precedence climbing with a (left,     *)
(* right) priority pair per binary operator, unary operators at           *)
(* UNARY_PRIORITY, and enterlevel/leavelevel counting C recursion against *)
(* LUAI_MAXCCALLS.                                                          *)
(*                                                                         *)
(* A token is an operator or "x", which stands for a simple expression    *)
(* (a literal, a name, a call: simpleexp reads it as one operand).  An    *)
(* expression tree is "x", <<uop, t>> or <<op, l, r>>.  Code generation  *)
(* (luaK_prefix, luaK_infix, luaK_posfix, in lcode.c) is reduced to       *)
(* building the tree.                                                      *)
(***************************************************************************)
EXTENDS Integers, Sequences

CONSTANTS
  Tokens,          \* the tokens an input may contain
  MaxLen,          \* bound: tokens in an input
  LUAI_MAXCCALLS,  \* the C-level limit (200 in the code)
  BaseCalls        \* L->nCcalls when expr is entered (enclosing statements)

VARIABLES
  toks,    \* the input token sequence
  result   \* what expr returned; err "pending" before it runs

vars == <<toks, result>>

(* getunopr and getbinopr (lines 1122-1158): which tokens are operators. *)
UnOps == {"not", "-", "~", "#"}

(* priority[] (lines 1161-1177). *)
priority ==
  [op \in {"+", "-", "*", "%", "^", "/", "//", "&", "|", "~", "<<", ">>", "..",
           "==", "<", "<=", "~=", ">", ">=", "and", "or"} |->
     CASE op \in {"+", "-"}            -> [left |-> 10, right |-> 10]
       [] op \in {"*", "%", "/", "//"} -> [left |-> 11, right |-> 11]
       [] op = "^"                     -> [left |-> 14, right |-> 13]
       [] op = "&"                     -> [left |-> 6, right |-> 6]
       [] op = "|"                     -> [left |-> 4, right |-> 4]
       [] op = "~"                     -> [left |-> 5, right |-> 5]
       [] op \in {"<<", ">>"}          -> [left |-> 7, right |-> 7]
       [] op = ".."                    -> [left |-> 9, right |-> 8]
       [] op = "and"                   -> [left |-> 2, right |-> 2]
       [] op = "or"                    -> [left |-> 1, right |-> 1]
       [] OTHER                        -> [left |-> 3, right |-> 3]]

BinOps == DOMAIN priority

UNARY_PRIORITY == 12

getbinopr(s, i) == IF i <= Len(s) /\ s[i] \in BinOps THEN s[i] ELSE "none"

(* lv: the C level after the call; only a faulty subexpr changes it. *)
Fail(e) == [err |-> e, tree |-> "none", pos |-> 0, lv |-> 0]
Ok(t, p) == [err |-> "none", tree |-> t, pos |-> p, lv |-> 0]

(***************************************************************************)
(* subexpr (lines 1195-1224) on s from token i, with its limit, at C     *)
(* level lv; it returns the tree and the first token it did not take (its *)
(* untreated operator is getbinopr there).  enterlevel (385-389) fails    *)
(* when the incremented level exceeds LUAI_MAXCCALLS.  simpleexp          *)
(* (1064-1119) takes one "x"; any other token is a syntax error raised by *)
(* primaryexp.                                                              *)
(***************************************************************************)
RECURSIVE subexpr(_, _, _, _), Expand(_, _, _, _, _)

(* Mutant operator: a plausible fault of subexpr, without leavelevel:   *)
(* the level a call reached is where its caller goes on.                  *)
RECURSIVE subexpr_noleave(_, _, _, _), Expand_noleave(_, _, _, _, _)
Expand_noleave(s, v, i, limit, lv) ==
  LET op == getbinopr(s, i) IN
  IF op # "none" /\ priority[op].left > limit
  THEN LET r == subexpr_noleave(s, i + 1, priority[op].right, lv) IN
       IF r.err # "none" THEN r ELSE Expand_noleave(s, <<op, v, r.tree>>, r.pos, limit, r.lv)
  ELSE [Ok(v, i) EXCEPT !.lv = lv]
subexpr_noleave(s, i, limit, lv) ==
  IF lv + 1 > LUAI_MAXCCALLS THEN Fail("C levels")
  ELSE
  LET u == IF i <= Len(s) /\ s[i] \in UnOps
           THEN LET r == subexpr_noleave(s, i + 1, UNARY_PRIORITY, lv + 1) IN
                IF r.err # "none" THEN r ELSE [Ok(<<s[i], r.tree>>, r.pos) EXCEPT !.lv = r.lv]
           ELSE IF i <= Len(s) /\ s[i] = "x" THEN [Ok("x", i + 1) EXCEPT !.lv = lv + 1]
           ELSE Fail("syntax")
  IN IF u.err # "none" THEN u ELSE Expand_noleave(s, u.tree, u.pos, limit, u.lv)

(* Mutant operator: a plausible fault of Expand, reading the right       *)
(* operand at the left priority. *)
RECURSIVE Expand_leftprio(_, _, _, _, _)
Expand_leftprio(s, v, i, limit, lv) ==
  LET op == getbinopr(s, i) IN
  IF op # "none" /\ priority[op].left > limit
  THEN LET r == subexpr(s, i + 1, priority[op].left, lv) IN
       IF r.err # "none" THEN r ELSE Expand_leftprio(s, <<op, v, r.tree>>, r.pos, limit, lv)
  ELSE Ok(v, i)

(* The while loop: expand while the operator's left priority exceeds the *)
(* limit, reading the right operand at its right priority.               *)
Expand(s, v, i, limit, lv) ==
  LET op == getbinopr(s, i) IN
  IF op # "none" /\ priority[op].left > limit
  THEN LET r == subexpr(s, i + 1, priority[op].right, lv) IN
       IF r.err # "none" THEN r ELSE Expand(s, <<op, v, r.tree>>, r.pos, limit, lv)
  ELSE Ok(v, i)

subexpr(s, i, limit, lv) ==
  IF lv + 1 > LUAI_MAXCCALLS THEN Fail("C levels")
  ELSE
  LET u == IF i <= Len(s) /\ s[i] \in UnOps
           THEN LET r == subexpr(s, i + 1, UNARY_PRIORITY, lv + 1) IN
                IF r.err # "none" THEN r ELSE Ok(<<s[i], r.tree>>, r.pos)
           ELSE IF i <= Len(s) /\ s[i] = "x" THEN Ok("x", i + 1)
           ELSE Fail("syntax")
  IN IF u.err # "none" THEN u ELSE Expand(s, u.tree, u.pos, limit, lv + 1)

(* expr (lines 1227-1230) on the whole input; tokens left over are for  *)
(* the caller, which rejects them.                                         *)
expr(s) ==
  LET r == subexpr(s, 1, 0, BaseCalls) IN
  IF r.err = "none" /\ r.pos <= Len(s) THEN Fail("syntax") ELSE r

Pending == [err |-> "pending", tree |-> "none", pos |-> 0, lv |-> 0]

Parse ==
  /\ result = Pending
  /\ result' = expr(toks)
  /\ UNCHANGED toks

Done == result # Pending /\ UNCHANGED vars

Init ==
  /\ toks \in UNION {[1 .. n -> Tokens] : n \in 1 .. MaxLen}
  /\ result = Pending

Next == Parse \/ Done

Spec == Init /\ [][Next]_vars

(***************************************************************************)
(* Reference: the precedence table of the Lua 5.3 manual (section 3.4.8), *)
(* from lowest to highest, as a stratified grammar: levels 1-10 are the  *)
(* binary operators, level 11 the unary operators, level 12 '^'.  '..'   *)
(* and '^' are right associative (spec.md: "2 ^ 1 ^ 2 groups as          *)
(* 2 ^ (1 ^ 2)"), the others left associative.  A token is a binary      *)
(* operator exactly when it follows an operand, which always ends in "x". *)
(***************************************************************************)
Level == <<{"or"}, {"and"}, {"<", ">", "<=", ">=", "~=", "=="}, {"|"}, {"~"},
           {"&"}, {"<<", ">>"}, {".."}, {"+", "-"}, {"*", "/", "//", "%"}>>

RightAssoc == {8}

(* Well formed: operand { binop operand }, an operand being unops and x. *)
RECURSIVE WellFormed(_, _, _)
WellFormed(s, i, wantOperand) ==
  IF i > Len(s) THEN ~wantOperand
  ELSE IF wantOperand
       THEN (s[i] \in UnOps /\ WellFormed(s, i + 1, TRUE)) \/ (s[i] = "x" /\ WellFormed(s, i + 1, FALSE))
       ELSE s[i] \in BinOps /\ WellFormed(s, i + 1, TRUE)

Valid(s) == WellFormed(s, 1, TRUE)

BinAt(s, ops) == {i \in 2 .. Len(s) : s[i - 1] = "x" /\ s[i] \in ops}

RECURSIVE Strat(_, _)
Strat(k, s) ==
  LET Split(i, lk, rk) == <<s[i], Strat(lk, SubSeq(s, 1, i - 1)), Strat(rk, SubSeq(s, i + 1, Len(s)))>>
      Lowest(P) == CHOOSE i \in P : \A j \in P : i <= j
      Highest(P) == CHOOSE i \in P : \A j \in P : i >= j
  IN
  CASE k <= Len(Level) ->
         LET P == BinAt(s, Level[k]) IN
         IF P = {} THEN Strat(k + 1, s)
         ELSE IF k \in RightAssoc THEN Split(Lowest(P), k + 1, k)
         ELSE Split(Highest(P), k, k + 1)
    [] k = 11 -> IF s[1] \in UnOps THEN <<s[1], Strat(11, Tail(s))>> ELSE Strat(12, s)
    [] OTHER  -> IF BinAt(s, {"^"}) = {} THEN "x" ELSE Split(2, 13, 11)

Ref(s) == Strat(1, s)

(* C levels a tree takes to parse: the operand and left operand in the    *)
(* frame itself, a unary operand and a right operand one frame deeper.   *)
RECURSIVE Depth(_)
Depth(t) ==
  CASE t = "x"     -> 1
    [] Len(t) = 2  -> 1 + Depth(t[2])
    [] OTHER       -> LET l == Depth(t[2])  r == 1 + Depth(t[3]) IN IF l >= r THEN l ELSE r

(***************************************************************************)
(* Properties.                                                             *)
(***************************************************************************)

(* Precedence climbing with the (left, right) pairs of priority[] and    *)
(* UNARY_PRIORITY builds exactly the grouping of the manual's precedence *)
(* table, associativity included, and accepts exactly the well-formed    *)
(* operator sequences (up to the C-level limit).                          *)
ExprMatchesGrammar ==
  result # Pending =>
    /\ result.err = "none" => Valid(toks) /\ result.tree = Ref(toks)
    /\ Valid(toks) => result.err # "syntax"

(* enterlevel in every subexpr and leavelevel on every return keep        *)
(* L->nCcalls equal to the nesting of active calls: a well-formed        *)
(* expression fails with "C levels" exactly when the frames its grouping  *)
(* needs, on top of the enclosing ones, exceed LUAI_MAXCCALLS.            *)
CLevelsExact ==
  result # Pending /\ Valid(toks) =>
    ((result.err = "C levels") <=> BaseCalls + Depth(Ref(toks)) > LUAI_MAXCCALLS)
====
