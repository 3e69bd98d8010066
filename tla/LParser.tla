------------------------------- MODULE LParser -------------------------------
(***************************************************************************)
(* Scope analysis of the Lua 5.3 parser (src/lua-5/5.3.6/src/lparser.c):  *)
(* the stack of FuncStates, the chain of BlockCnts of each, the active     *)
(* local variables (dyd->actvar), upvalue creation by singlevaraux, and    *)
(* the pending-goto / active-label lists (dyd->gt, dyd->label) with their  *)
(* forward and backward resolution.                                        *)
(*                                                                         *)
(* The token stream is the environment: every step is one grammar rule    *)
(* the parser can run next, with its inputs (names, the token that         *)
(* follows a label) chosen from small sets.  Expressions are abstracted to *)
(* the one variable reference they make (singlevar); code emission, jump   *)
(* lists and registers are left out.  The state the parser keeps in       *)
(* LexState/Dyndata is one record P == [fs, dyd, err, hist]; every grammar *)
(* function is an operator from P to P, so an action composes the calls   *)
(* of its C handler in the order the handler makes them.                   *)
(*                                                                         *)
(* hist is a ghost (history) component: unique ids of locals, blocks,     *)
(* gotos and labels, and the facts the properties compare the parser's    *)
(* decisions against.  It is never read by the parser's operators.         *)
(***************************************************************************)
EXTENDS Integers, Sequences, SequencesExt

CONSTANTS
  Names,       \* user variable names (interned TString*; compared by identity)
  LabelNames,  \* user label names
  ENV,         \* the name "_ENV" (ls->envn)
  BREAK,       \* the reserved name "break" used by break statements
  NoName,      \* "no variable referenced" / "no goto" in an input choice
  MAXVARS,     \* MAXVARS: limit on locals per function
  MAXUPVAL,    \* MAXUPVAL: limit on upvalues per function
  MaxStmts,    \* bound: statements in the whole chunk
  MaxDepth,    \* bound: nesting of compound statements and function bodies
  MaxFuncs     \* bound: depth of the FuncState stack (main included)

ASSUME /\ ENV \notin Names /\ BREAK \notin LabelNames /\ NoName \notin Names
       /\ {MAXVARS, MAXUPVAL, MaxStmts, MaxDepth, MaxFuncs} \subseteq Nat \ {0}

(* Names of the hidden control variables of 'for' (new_localvarliteral). *)
ForControl == <<"(for index)", "(for limit)", "(for step)">>

NoErr == [kind |-> "none"]

GLOBAL == 0   \* the ids of locals start at 1

OK(P) == P.err.kind = "none"

VARIABLES
  fs,         \* the FuncState stack: ls->fs is Last(fs), fs[k-1] is fs[k].prev
  dyd,        \* Dyndata: [actvar, gt, label]
  err,        \* NoErr, or the error the parse stopped with (luaX_syntaxerror)
  hist,       \* ghost history, see above
  ctl,        \* the compound statements the recursive descent is inside
  lookahead,  \* constraint the last token read puts on what comes next
  stmts       \* statements parsed so far (bounded by MaxStmts)

vars == <<fs, dyd, err, hist, ctl, lookahead, stmts>>

(***************************************************************************)
(* Parser state as a record, and committing a new one.  When a call       *)
(* raised an error the parse unwinds (longjmp), so only err and the       *)
(* history are kept.                                                       *)
(***************************************************************************)
Cur == [fs |-> fs, dyd |-> dyd, err |-> err, hist |-> hist]

Commit(P) ==
  /\ err' = P.err
  /\ hist' = P.hist
  /\ IF OK(P) THEN fs' = P.fs /\ dyd' = P.dyd
                      ELSE UNCHANGED <<fs, dyd>>

Fail(P, e) == IF OK(P) THEN [P EXCEPT !.err = e] ELSE P

Top(P) == Len(P.fs)                         \* index of ls->fs
Frame(P) == P.fs[Top(P)]
CurBlock(P) == Last(Frame(P).bl)            \* fs->bl

(* getlocvar(fs, i) for the function at stack index k; i is 0-based. *)
getlocvar(P, k, i) == P.dyd.actvar[P.fs[k].firstlocal + i + 1]

ActiveIds(P, k) == {getlocvar(P, k, i).id : i \in 0 .. P.fs[k].nactvar - 1}

(***************************************************************************)
(* Local variables.                                                        *)
(***************************************************************************)
(* Mutant operators: each is a plausible fault of the definition after it, *)
(* used to show that a property of a run is sensitive to that code.      *)
new_localvar_offbyone(P, n) ==
  IF ~OK(P) THEN P
  ELSE IF Len(P.dyd.actvar) - Frame(P).firstlocal > MAXVARS
  THEN Fail(P, [kind |-> "LimitExceeded", what |-> "local variables"])
  ELSE [P EXCEPT !.dyd.actvar = Append(@, [name |-> n, id |-> P.hist.nid]),
                 !.hist.nid = @ + 1]

new_localvar(P, n) ==
  IF ~OK(P) THEN P
  ELSE IF Len(P.dyd.actvar) + 1 - Frame(P).firstlocal > MAXVARS
  THEN Fail(P, [kind |-> "LimitExceeded", what |-> "local variables"])
  ELSE [P EXCEPT !.dyd.actvar = Append(@, [name |-> n, id |-> P.hist.nid]),
                 !.hist.nid = @ + 1]

adjustlocalvars(P, nvars) == [P EXCEPT !.fs[Top(P)].nactvar = @ + nvars]

removevars(P, tolevel) ==
  [P EXCEPT !.dyd.actvar = SubSeq(@, 1, Len(@) - (Frame(P).nactvar - tolevel)),
            !.fs[Top(P)].nactvar = tolevel]

(***************************************************************************)
(* Name resolution: searchvar, searchupvalue, newupvalue, markupval,       *)
(* singlevaraux, singlevar.  Indices are 0-based as in the C code.        *)
(***************************************************************************)
searchvar_firstdecl(P, k, n) ==
  LET hits == {i \in 0 .. P.fs[k].nactvar - 1 : getlocvar(P, k, i).name = n}
  IN  IF hits = {} THEN -1 ELSE Min(hits)

searchvar(P, k, n) ==
  LET hits == {i \in 0 .. P.fs[k].nactvar - 1 : getlocvar(P, k, i).name = n}
  IN  IF hits = {} THEN -1 ELSE Max(hits)

searchupvalue_skiplast(P, k, n) ==
  LET hits == {i \in 0 .. Len(P.fs[k].ups) - 2 : P.fs[k].ups[i + 1].name = n}
  IN  IF hits = {} THEN -1 ELSE Min(hits)

searchupvalue(P, k, n) ==
  LET hits == {i \in 0 .. Len(P.fs[k].ups) - 1 : P.fs[k].ups[i + 1].name = n}
  IN  IF hits = {} THEN -1 ELSE Min(hits)

(* The walk of markupval: from fs->bl outwards while bl->nactvar > level. *)
RECURSIVE MarkFrom(_, _, _)
MarkFrom(bl, j, level) ==
  IF bl[j].nactvar > level THEN MarkFrom(bl, j - 1, level)
                           ELSE [bl EXCEPT ![j].upval = TRUE]

markupval_current(P, k, level) ==
  [P EXCEPT !.fs[k].bl[Len(P.fs[k].bl)].upval = TRUE]

markupval(P, k, level) == [P EXCEPT !.fs[k].bl = MarkFrom(@, Len(@), level)]

newupvalue_offbyone(P, k, n, v) ==
  IF Len(P.fs[k].ups) > MAXUPVAL
  THEN Fail(P, [kind |-> "LimitExceeded", what |-> "upvalues"])
  ELSE [P EXCEPT !.fs[k].ups =
          Append(@, [name |-> n, instack |-> v.kind = "VLOCAL", idx |-> v.info])]

newupvalue(P, k, n, v) ==
  IF Len(P.fs[k].ups) + 1 > MAXUPVAL
  THEN Fail(P, [kind |-> "LimitExceeded", what |-> "upvalues"])
  ELSE [P EXCEPT !.fs[k].ups =
          Append(@, [name |-> n, instack |-> v.kind = "VLOCAL", idx |-> v.info])]

(* Returns [P, kind, info]: the expdesc kind and u.info singlevaraux sets. *)
RECURSIVE singlevaraux(_, _, _, _)
singlevaraux(P, k, n, base) ==
  IF k = 0 THEN [P |-> P, kind |-> "VVOID", info |-> 0]
  ELSE LET v == searchvar(P, k, n) IN
    IF v >= 0
    THEN [P |-> IF base THEN P ELSE markupval(P, k, v),
          kind |-> "VLOCAL", info |-> v]
    ELSE LET idx == searchupvalue(P, k, n) IN
      IF idx >= 0 THEN [P |-> P, kind |-> "VUPVAL", info |-> idx]
      ELSE LET r == singlevaraux(P, k - 1, n, FALSE) IN
        IF r.kind = "VVOID" THEN r
        ELSE [P |-> newupvalue(r.P, k, n, r), kind |-> "VUPVAL",
              info |-> Len(r.P.fs[k].ups)]

(* The lexical environment seen from function k, outermost first: the      *)
(* active locals of fs[1], then of fs[2], ..., then of fs[k].              *)
Env(P, k) == FlattenSeq([j \in 1 .. k |->
               [i \in 1 .. P.fs[j].nactvar |-> getlocvar(P, j, i - 1)]])

(* Reference semantics of a name used in function k: the id of the last   *)
(* (innermost) visible declaration, or GLOBAL (ids start at 1).           *)
Visible(P, k, n) ==
  LET E == Env(P, k)
      hits == {i \in DOMAIN E : E[i].name = n}
  IN  IF hits = {} THEN GLOBAL ELSE E[Max(hits)].id

(* Ghost: a local of an enclosing function referenced from function k is  *)
(* captured.                                                              *)
Capture(P, k, n) ==
  LET v == Visible(P, k, n) IN
  IF v # GLOBAL /\ v \notin ActiveIds(P, k)
  THEN [P EXCEPT !.hist.captured = @ \cup {v}] ELSE P

singlevar(P, n) ==
  LET r == singlevaraux(P, Top(P), n, TRUE)
      P1 == IF r.kind = "VVOID" THEN singlevaraux(r.P, Top(P), ENV, TRUE).P
                                ELSE r.P
  IN  IF ~OK(P) \/ ~OK(P1) THEN P1 ELSE Capture(P1, Top(P), n)

(* An optional reference made by an expression of a statement. *)
ref(P, n) == IF n = NoName THEN P ELSE singlevar(P, n)

(***************************************************************************)
(* Blocks, gotos and labels.                                               *)
(***************************************************************************)
enterblock(P, isloop) ==
  [P EXCEPT !.fs[Top(P)].bl =
              Append(@, [nactvar |-> Frame(P).nactvar,
                         firstlabel |-> Len(P.dyd.label),
                         firstgoto |-> Len(P.dyd.gt),
                         upval |-> FALSE, isloop |-> isloop,
                         id |-> P.hist.nid]),
            !.hist.nid = @ + 1]

(* Ghost ids of the blocks enclosing the current point of this function. *)
BlockPath(P) == [j \in DOMAIN Frame(P).bl |-> Frame(P).bl[j].id]

(* Ghost: the ids of the active locals of fs, by register (level + 1). *)
Regs(P) == [i \in 1 .. Frame(P).nactvar |-> getlocvar(P, Top(P), i - 1).id]

(* luaK_patchclose (lcode.c): the jump's A becomes level + 1, so that it *)
(* closes the upvalues of registers level and above; -1 is A = 0, none.  *)
luaK_patchclose(P, g, level) == [P EXCEPT !.dyd.gt[g].close = level]

(* closegoto (luaK_patchlist, then the removal); the ghost jumps records  *)
(* the registers at the goto, the locals still in registers at the        *)
(* label's pc, and the close.                                             *)
closegoto(P, g, lb) ==
  LET gt == P.dyd.gt[g] IN
  IF gt.nactvar < lb.nactvar
  THEN Fail(P, [kind |-> "ScopeViolation", gid |-> gt.gid, lid |-> lb.lid])
  ELSE [P EXCEPT !.dyd.gt = RemoveAt(@, g),
                 !.hist.resolved = @ \cup {<<gt.gid, lb.lid>>},
                 !.hist.jumps = @ \cup {[regs |-> P.hist.gotos[gt.gid].regs,
                                         keep |-> P.hist.labels[lb.lid].alive,
                                         close |-> gt.close]}]

(* Mutant operator: a plausible fault of findlabel, with no close. *)
findlabel_noclose(P, g) ==
  LET bl == CurBlock(P)
      hits == {i \in bl.firstlabel + 1 .. Len(P.dyd.label) :
                 P.dyd.label[i].name = P.dyd.gt[g].name}
  IN  IF hits = {} THEN [P |-> P, found |-> FALSE]
      ELSE [P |-> closegoto(P, g, P.dyd.label[Min(hits)]), found |-> TRUE]

(* Returns [P, found]: try to close goto g with a label of fs->bl; a     *)
(* goto that leaves locals closes their upvalues first.                   *)
findlabel(P, g) ==
  LET bl == CurBlock(P)
      hits == {i \in bl.firstlabel + 1 .. Len(P.dyd.label) :
                 P.dyd.label[i].name = P.dyd.gt[g].name}
      lb == P.dyd.label[Min(hits)]
      P1 == IF P.dyd.gt[g].nactvar > lb.nactvar
                 /\ (bl.upval \/ Len(P.dyd.label) > bl.firstlabel)
            THEN luaK_patchclose(P, g, lb.nactvar) ELSE P
  IN  IF hits = {} THEN [P |-> P, found |-> FALSE]
      ELSE [P |-> closegoto(P1, g, lb), found |-> TRUE]

(* newlabelentry on dyd->gt (gotostat's jump has A = 0), with the ghost  *)
(* record of the goto.                                                    *)
newgotoentry(P, n) ==
  [P EXCEPT !.dyd.gt = Append(@, [name |-> n, nactvar |-> Frame(P).nactvar,
                                  gid |-> Len(P.hist.gotos) + 1, close |-> -1]),
            !.hist.gotos = Append(@, [name |-> n, path |-> BlockPath(P),
                                      scope |-> ActiveIds(P, Top(P)),
                                      regs |-> Regs(P)])]

(* newlabelentry on dyd->label; 'scope' is the ghost set of locals whose  *)
(* scope contains the label, given by the caller.                        *)
newlabelentry(P, n, scope) ==
  [P EXCEPT !.dyd.label = Append(@, [name |-> n, nactvar |-> Frame(P).nactvar,
                                     lid |-> Len(P.hist.labels) + 1]),
            !.hist.labels = Append(@, [name |-> n, block |-> CurBlock(P).id,
                                       scope |-> scope,
                                       alive |-> ActiveIds(P, Top(P))])]

RECURSIVE FindGotosFrom(_, _, _)
FindGotosFrom(P, i, lb) ==
  IF ~OK(P) \/ i > Len(P.dyd.gt) THEN P
  ELSE IF P.dyd.gt[i].name = lb.name THEN FindGotosFrom(closegoto(P, i, lb), i, lb)
  ELSE FindGotosFrom(P, i + 1, lb)

findgotos(P, lb) == FindGotosFrom(P, CurBlock(P).firstgoto + 1, lb)

RECURSIVE MoveGotosFrom(_, _, _)
MoveGotosFrom(P, i, bl) ==
  IF ~OK(P) \/ i > Len(P.dyd.gt) THEN P
  ELSE LET P0 == IF bl.upval THEN luaK_patchclose(P, i, bl.nactvar) ELSE P
           P1 == IF P.dyd.gt[i].nactvar > bl.nactvar
                 THEN [P0 EXCEPT !.dyd.gt[i].nactvar = bl.nactvar] ELSE P
           r == findlabel(P1, i)
       IN  MoveGotosFrom(r.P, IF r.found THEN i ELSE i + 1, bl)

movegotosout(P, bl) == MoveGotosFrom(P, bl.firstgoto + 1, bl)

(* breaklabel: the label 'break' at the exit of a loop block; after the  *)
(* loop only the locals declared outside the loop block are in scope.    *)
breaklabel(P) ==
  LET scope == {getlocvar(P, Top(P), i).id : i \in 0 .. CurBlock(P).nactvar - 1}
      P1 == newlabelentry(P, BREAK, scope)
  IN  findgotos(P1, Last(P1.dyd.label))

undefgoto(P, gt) ==
  Fail(P, [kind |-> IF gt.name = BREAK THEN "BreakOutsideLoop" ELSE "UndefinedLabel",
           gid |-> gt.gid])

leaveblock_noundef(P) ==
  LET bl == CurBlock(P)
      P1 == IF bl.isloop THEN breaklabel(P) ELSE P
      P2 == [P1 EXCEPT !.fs[Top(P)].bl = Front(@)]
      P3 == removevars(P2, bl.nactvar)
      P4 == [P3 EXCEPT !.dyd.label = SubSeq(@, 1, bl.firstlabel)]
  IN  IF ~OK(P1) THEN P1
      ELSE IF P4.fs[Top(P)].bl # <<>> THEN movegotosout(P4, bl)
      ELSE P4

leaveblock(P) ==
  LET bl == CurBlock(P)
      P1 == IF bl.isloop THEN breaklabel(P) ELSE P
      P2 == [P1 EXCEPT !.fs[Top(P)].bl = Front(@)]
      P3 == removevars(P2, bl.nactvar)
      P4 == [P3 EXCEPT !.dyd.label = SubSeq(@, 1, bl.firstlabel)]
  IN  IF ~OK(P1) THEN P1
      ELSE IF P4.fs[Top(P)].bl # <<>> THEN movegotosout(P4, bl)
      ELSE IF bl.firstgoto < Len(P4.dyd.gt)
           THEN undefgoto(P4, P4.dyd.gt[bl.firstgoto + 1])
      ELSE P4

(***************************************************************************)
(* Function bodies.                                                        *)
(***************************************************************************)
open_func(P) ==
  enterblock([P EXCEPT !.fs = Append(@, [firstlocal |-> Len(P.dyd.actvar),
                                         nactvar |-> 0, ups |-> <<>>,
                                         bl |-> <<>>])], FALSE)

close_func(P) ==
  LET P1 == leaveblock(P) IN
  IF ~OK(P1) THEN P1 ELSE [P1 EXCEPT !.fs = Front(@)]

(* parlist with the parameter names params (a sequence of 0 or 1). *)
parlist(P, params) ==
  LET P1 == IF params = <<>> THEN P ELSE new_localvar(P, params[1])
  IN  adjustlocalvars(P1, Len(params))

(* body up to its statement list: addprototype, open_func, parlist. *)
body(P, params) == parlist(open_func(P), params)

(***************************************************************************)
(* Statements.  ctl mirrors the recursive descent's call stack of         *)
(* compound statements: "do", "while", "repeat", "for", "func", and for   *)
(* ifstat "ifthen" (a then-block is open), "ifgap" (test_then_block       *)
(* closed its goto-only block) or "ifelse".                               *)
(***************************************************************************)
TopCtl == IF ctl = <<>> THEN "main" ELSE Last(ctl)

(* The tokens that end the statement list of the innermost construct. *)
Closers(kind) ==
  CASE kind \in {"do", "while", "for", "func", "ifelse"} -> {"end"}
    [] kind = "repeat"                                  -> {"until"}
    [] kind \in {"ifthen", "ifgap"}                     -> {"else", "elseif", "end"}
    [] kind = "main"                                    -> {"eos"}

(* block_follow(ls, withuntil) *)
block_follow(tok, withuntil) ==
  tok \in {"else", "elseif", "end", "eos"} \/ (withuntil /\ tok = "until")

(* What may follow a label or a goto: a statement, or a token closing the *)
(* construct (an 'elseif' and a statement need one more statement).      *)
FollowsIn(kind) ==
  {t \in Closers(kind) \cup {"stmt"} :
     t \in {"stmt", "elseif"} => stmts + 1 < MaxStmts}

Running == OK(Cur) /\ fs # <<>>

CanStmt  == Running /\ stmts < MaxStmts /\ TopCtl # "ifgap"
              /\ lookahead \in {"none", "stmt", "anystmt"}
CanLabel == Running /\ stmts < MaxStmts /\ TopCtl # "ifgap"
              /\ lookahead \in {"none", "anystmt"}
CanClose(tok) == Running /\ lookahead \in {"none", "close", tok}
CanNest  == Len(ctl) < MaxDepth

Stmt(P, la) ==
  /\ Commit(P) /\ lookahead' = la /\ stmts' = stmts + 1

gotostat(P, n) ==
  LET P1 == newgotoentry(P, n) IN findlabel(P1, Len(P1.dyd.gt)).P

checkrepeated(P, n) ==
  IF \E i \in CurBlock(P).firstlabel + 1 .. Len(P.dyd.label) :
       P.dyd.label[i].name = n
  THEN Fail(P, [kind |-> "DuplicateLabel", name |-> n, block |-> CurBlock(P).id])
  ELSE P

(* Ghost: the locals in scope at a label.  A label followed only by void  *)
(* statements up to the end of its block is outside the scope of the     *)
(* block's own locals, except before 'until', whose condition sees them. *)
LabelScope(P, follow) ==
  IF follow # "stmt" /\ TopCtl # "repeat"
  THEN {getlocvar(P, Top(P), i).id : i \in 0 .. CurBlock(P).nactvar - 1}
  ELSE ActiveIds(P, Top(P))

labelstat_withuntil(P, n, follow) ==
  LET P1 == checkrepeated(P, n)
      P2 == newlabelentry(P1, n, LabelScope(P, follow))
      l  == Len(P2.dyd.label)
      P3 == IF block_follow(follow, TRUE)
            THEN [P2 EXCEPT !.dyd.label[l].nactvar = CurBlock(P2).nactvar]
            ELSE P2
  IN  IF ~OK(P1) THEN P1 ELSE findgotos(P3, P3.dyd.label[l])

labelstat(P, n, follow) ==
  LET P1 == checkrepeated(P, n)
      P2 == newlabelentry(P1, n, LabelScope(P, follow))
      l  == Len(P2.dyd.label)
      P3 == IF block_follow(follow, FALSE)
            THEN [P2 EXCEPT !.dyd.label[l].nactvar = CurBlock(P2).nactvar]
            ELSE P2
  IN  IF ~OK(P1) THEN P1 ELSE findgotos(P3, P3.dyd.label[l])

(* test_then_block up to its statement list; g # NoName is the goto/break *)
(* that starts the block, follow the token after it.                     *)
test_then_block(P, e, g, follow) ==
  LET P1 == enterblock(ref(P, e), FALSE) IN
  IF g = NoName THEN P1
  ELSE LET P2 == gotostat(P1, g) IN
       IF block_follow(follow, FALSE) THEN leaveblock(P2) ELSE P2

ThenKind(g, follow)  == IF g # NoName /\ follow # "stmt" THEN "ifgap" ELSE "ifthen"
ThenLook(g, follow) ==
  CASE g = NoName -> "none" [] follow = "stmt" -> "anystmt" [] OTHER -> follow

GotoTargets == LabelNames \cup {BREAK}

(* ---- simple statements ---- *)
LocalStat(n, e) ==
  /\ CanStmt
  /\ Stmt(adjustlocalvars(ref(new_localvar(Cur, n), e), 1), "none")
  /\ UNCHANGED ctl

ExprStat(n) ==
  /\ CanStmt
  /\ Stmt(singlevar(Cur, n), "none")
  /\ UNCHANGED ctl

GotoStat(n) ==
  /\ CanStmt
  /\ Stmt(gotostat(Cur, n), "none")
  /\ UNCHANGED ctl

LabelStat(n, follow) ==
  /\ CanLabel
  /\ Stmt(labelstat(Cur, n, follow), IF follow = "stmt" THEN "stmt" ELSE follow)
  /\ UNCHANGED ctl

RetStat(e) ==
  /\ CanStmt
  /\ Stmt(ref(Cur, e), "close")
  /\ UNCHANGED ctl

(* ---- compound statements: the part before the body ---- *)
DoStat ==
  /\ CanStmt /\ CanNest
  /\ Stmt(enterblock(Cur, FALSE), "none")
  /\ ctl' = Append(ctl, "do")

WhileStat(e) ==
  /\ CanStmt /\ CanNest
  /\ Stmt(enterblock(enterblock(ref(Cur, e), TRUE), FALSE), "none")
  /\ ctl' = Append(ctl, "while")

RepeatStat ==
  /\ CanStmt /\ CanNest
  /\ Stmt(enterblock(enterblock(Cur, TRUE), FALSE), "none")
  /\ ctl' = Append(ctl, "repeat")

(* forstat with fornum or forlist, up to forbody's block: the three      *)
(* control variables and the declared one, the expressions (which cannot *)
(* see them yet), then the control variables' scope and the body scope.  *)
ForStat(n, e) ==
  /\ CanStmt /\ CanNest
  /\ LET P1 == new_localvar(new_localvar(new_localvar(
                 enterblock(Cur, TRUE), ForControl[1]), ForControl[2]), ForControl[3])
         P2 == ref(new_localvar(P1, n), e)
         P3 == adjustlocalvars(enterblock(adjustlocalvars(P2, 3), FALSE), 1)
     IN  Stmt(enterblock(P3, FALSE), "none")
  /\ ctl' = Append(ctl, "for")

IfStat(e, g, follow) ==
  /\ CanStmt /\ CanNest
  /\ Stmt(test_then_block(Cur, e, g, follow), ThenLook(g, follow))
  /\ ctl' = Append(ctl, ThenKind(g, follow))

(* localfunc / funcstat up to the body's statement list. *)
LocalFunc(n, params) ==
  /\ CanStmt /\ CanNest /\ Len(fs) < MaxFuncs
  /\ Stmt(body(adjustlocalvars(new_localvar(Cur, n), 1), params), "none")
  /\ ctl' = Append(ctl, "func")

FuncStat(n, params) ==
  /\ CanStmt /\ CanNest /\ Len(fs) < MaxFuncs
  /\ Stmt(body(singlevar(Cur, n), params), "none")
  /\ ctl' = Append(ctl, "func")

(* ---- the tokens that end a body ---- *)
Close(P, la) == /\ Commit(P) /\ lookahead' = la /\ UNCHANGED stmts

EndDo ==
  /\ TopCtl = "do" /\ CanClose("end")
  /\ Close(leaveblock(Cur), "none") /\ ctl' = Front(ctl)

EndWhile ==
  /\ TopCtl = "while" /\ CanClose("end")
  /\ Close(leaveblock(leaveblock(Cur)), "none") /\ ctl' = Front(ctl)

(* repeatstat's condexit, the jump back to repeat_init when the condition *)
(* is false: it closes the scope block's locals when that block has      *)
(* upvalues.  The ghost jumps records it as a goto's jump is recorded.     *)
condexit(P) ==
  LET bl2 == CurBlock(P) IN
  [P EXCEPT !.hist.jumps = @ \cup
     {[regs |-> Regs(P),
       keep |-> {getlocvar(P, Top(P), i).id : i \in 0 .. bl2.nactvar - 1},
       close |-> IF bl2.upval THEN bl2.nactvar ELSE -1]}]

(* 'until' cond: the condition is read inside the scope block. *)
UntilStat(e) ==
  /\ TopCtl = "repeat" /\ CanClose("until")
  /\ Close(leaveblock(leaveblock(condexit(ref(Cur, e)))), "none") /\ ctl' = Front(ctl)

EndFor ==
  /\ TopCtl = "for" /\ CanClose("end")
  /\ Close(leaveblock(leaveblock(leaveblock(Cur))), "none") /\ ctl' = Front(ctl)

(* The then-part's block is still open unless test_then_block closed it. *)
LeaveThen(P) == IF TopCtl = "ifthen" THEN leaveblock(P) ELSE P

ElseIf(e, g, follow) ==
  /\ TopCtl \in {"ifthen", "ifgap"} /\ CanClose("elseif") /\ stmts < MaxStmts
  /\ Commit(test_then_block(LeaveThen(Cur), e, g, follow))
  /\ lookahead' = ThenLook(g, follow) /\ stmts' = stmts + 1
  /\ ctl' = [ctl EXCEPT ![Len(ctl)] = ThenKind(g, follow)]

Else ==
  /\ TopCtl \in {"ifthen", "ifgap"} /\ CanClose("else")
  /\ Close(enterblock(LeaveThen(Cur), FALSE), "none")
  /\ ctl' = [ctl EXCEPT ![Len(ctl)] = "ifelse"]

EndIf ==
  /\ TopCtl \in {"ifthen", "ifgap", "ifelse"} /\ CanClose("end")
  /\ Close(IF TopCtl = "ifgap" THEN Cur ELSE leaveblock(Cur), "none")
  /\ ctl' = Front(ctl)

(* body's 'end': codeclosure and close_func. *)
EndFunc ==
  /\ TopCtl = "func" /\ CanClose("end")
  /\ Close(close_func(Cur), "none") /\ ctl' = Front(ctl)

(* mainfunc: check(ls, TK_EOS); close_func(ls). *)
EndMain ==
  /\ TopCtl = "main" /\ CanClose("eos")
  /\ Close(close_func(Cur), "none") /\ UNCHANGED ctl

(* The parse is over: finished, or stopped by an error. *)
Terminated == ~Running /\ UNCHANGED vars

(***************************************************************************)
(* mainfunc up to its statement list: open_func, the vararg flag, and the *)
(* _ENV upvalue, a local of no function (init_exp(&v, VLOCAL, 0)).        *)
(***************************************************************************)
Init ==
  /\ fs = <<[firstlocal |-> 0, nactvar |-> 0,
             ups |-> <<[name |-> ENV, instack |-> TRUE, idx |-> 0]>>,
             bl |-> <<[nactvar |-> 0, firstlabel |-> 0, firstgoto |-> 0,
                       upval |-> FALSE, isloop |-> FALSE, id |-> 1]>>]>>
  /\ dyd = [actvar |-> <<>>, gt |-> <<>>, label |-> <<>>]
  /\ err = NoErr
  /\ hist = [nid |-> 2, gotos |-> <<>>, labels |-> <<>>,
             resolved |-> {}, captured |-> {}, jumps |-> {}]
  /\ ctl = <<>>
  /\ lookahead = "none"
  /\ stmts = 0

Refs == Names \cup {NoName}
IfGotoFollows == FollowsIn("ifthen")
Params == {<<>>} \cup {<<p>> : p \in Names}

Next ==
  \/ \E n \in Names, e \in Refs : LocalStat(n, e) \/ ForStat(n, e)
  \/ \E n \in Names : ExprStat(n)
  \/ \E n \in GotoTargets : GotoStat(n)
  \/ \E n \in LabelNames, f \in FollowsIn(TopCtl) : LabelStat(n, f)
  \/ \E e \in Refs : RetStat(e) \/ WhileStat(e) \/ UntilStat(e)
  \/ DoStat \/ RepeatStat
  \/ \E e \in Refs : IfStat(e, NoName, "stmt") \/ ElseIf(e, NoName, "stmt")
  \/ \E e \in Refs, g \in GotoTargets, f \in IfGotoFollows :
       IfStat(e, g, f) \/ ElseIf(e, g, f)
  \/ \E n \in Names, p \in Params : LocalFunc(n, p) \/ FuncStat(n, p)
  \/ EndDo \/ EndWhile \/ EndFor \/ Else \/ EndIf \/ EndFunc \/ EndMain
  \/ Terminated

Spec == Init /\ [][Next]_vars

(***************************************************************************)
(* Type invariant.                                                         *)
(***************************************************************************)
AllNames == Names \cup {ENV} \cup {ForControl[i] : i \in 1 .. 3}
Block == [nactvar : Nat, firstlabel : Nat, firstgoto : Nat,
          upval : BOOLEAN, isloop : BOOLEAN, id : Nat]
Upval == [name : AllNames, instack : BOOLEAN, idx : Nat]
(* The parser's state has the shape of the C structures; a function never *)
(* holds more than MAXVARS active locals or MAXUPVAL upvalues, the limits *)
(* new_localvar and newupvalue enforce with checklimit.                   *)
TypeOK ==
  /\ \A k \in DOMAIN fs :
       /\ fs[k].firstlocal \in Nat /\ fs[k].nactvar \in 0 .. MAXVARS
       /\ fs[k].ups \in Seq(Upval) /\ Len(fs[k].ups) <= MAXUPVAL
       /\ fs[k].bl \in Seq(Block)
  /\ \A i \in DOMAIN dyd.actvar : dyd.actvar[i] \in [name : AllNames, id : Nat]
  /\ \A i \in DOMAIN dyd.gt :
       dyd.gt[i] \in [name : GotoTargets, nactvar : Nat, gid : Nat, close : -1 .. MAXVARS]
  /\ \A i \in DOMAIN dyd.label :
       dyd.label[i] \in [name : GotoTargets, nactvar : Nat, lid : Nat]
  /\ lookahead \in {"none", "stmt", "anystmt", "close",
                    "end", "until", "else", "elseif", "eos"}
  /\ stmts \in 0 .. MaxStmts /\ Len(ctl) <= MaxDepth

(***************************************************************************)
(* Goto resolution against the language's definition.  Target(g) is the  *)
(* label a goto must reach: the label of its name declared in the         *)
(* innermost block enclosing the goto, within its function, before or    *)
(* after it ('break' reaches the exit of the innermost loop).  The ghost  *)
(* scopes are the sets of locals in scope at the goto and at the label.   *)
(***************************************************************************)
PathPos(path, b) == CHOOSE i \in DOMAIN path : path[i] = b

Target(g) ==
  LET G  == hist.gotos[g]
      ls == {l \in DOMAIN hist.labels :
               hist.labels[l].name = G.name /\ hist.labels[l].block \in Range(G.path)}
  IN  IF ls = {} THEN 0
      ELSE CHOOSE l \in ls : \A m \in ls :
             PathPos(G.path, hist.labels[m].block) <= PathPos(G.path, hist.labels[l].block)

EntersScope(g, l) == ~(hist.labels[l].scope \subseteq hist.gotos[g].scope)

(* Every goto the parser patches (closegoto) goes to its Target without  *)
(* entering the scope of a local, and every goto error the parser        *)
(* reports (closegoto's "jumps into the scope", undefgoto, checkrepeated) *)
(* is one the language prescribes.  Resolution is spread over findlabel, *)
(* findgotos, movegotosout and breaklabel as blocks close, so a wrong     *)
(* bound on any of their label/goto windows breaks it.                   *)
GotoResolutionSound ==
  /\ \A p \in hist.resolved : p[2] = Target(p[1]) /\ ~EntersScope(p[1], p[2])
  /\ err.kind = "ScopeViolation" =>
       err.lid = Target(err.gid) /\ EntersScope(err.gid, err.lid)
  /\ err.kind \in {"UndefinedLabel", "BreakOutsideLoop"} =>
       /\ Target(err.gid) = 0
       /\ (err.kind = "BreakOutsideLoop") = (hist.gotos[err.gid].name = BREAK)
  /\ err.kind = "DuplicateLabel" =>
       \E l \in DOMAIN hist.labels :
         hist.labels[l].name = err.name /\ hist.labels[l].block = err.block

(* When the chunk has been parsed without error, every goto and break was *)
(* patched to exactly one label (luaY_parser asserts dyd->gt.n == 0).     *)
GotoResolutionComplete ==
  (fs = <<>> /\ OK(Cur)) =>
    \A g \in DOMAIN hist.gotos : \E l \in DOMAIN hist.labels :
      {p \in hist.resolved : p[1] = g} = {<<g, l>>}

(* Every jump that leaves locals behind (a goto or break patched by      *)
(* closegoto, and the backward jump of repeat-until) closes the upvalues *)
(* of every one of them that a nested function captured, and of no local *)
(* still in its register where it lands: its close level (luaK_patchclose *)
(* in findlabel, movegotosout and repeatstat) is at most the register of *)
(* each captured local left behind, and above every one kept.  A label    *)
(* at the end of a block is out of the scope of the block's locals but   *)
(* lands before leaveblock's own close, so those are kept.  The close may *)
(* be set as the goto moves out of several blocks, the capture may come  *)
(* after the goto in the text, and the goto may be resolved backward or  *)
(* forward.                                                                *)
CapturedLocalsClosed ==
  \A J \in hist.jumps : \A i \in DOMAIN J.regs :
    /\ J.regs[i] \in hist.captured /\ J.regs[i] \notin J.keep => J.close \in 0 .. i - 1
    /\ J.close \in 0 .. i - 1 => J.regs[i] \notin J.keep

(***************************************************************************)
(* Upvalues.  Denote(k, u) follows the chain of upvalue descriptors of    *)
(* function k (instack: a register of fs[k-1]; else an upvalue of fs[k-1])*)
(* down to the local it stands for; -1 if the chain dangles.             *)
(***************************************************************************)
RECURSIVE Denote(_, _)
Denote(k, u) ==
  LET e == fs[k].ups[u] IN
  IF k = 1 THEN GLOBAL
  ELSE IF e.instack
       THEN IF e.idx < fs[k - 1].nactvar THEN getlocvar(Cur, k - 1, e.idx).id ELSE -1
       ELSE IF e.idx + 1 \in DOMAIN fs[k - 1].ups THEN Denote(k - 1, e.idx + 1) ELSE -1

(* Every upvalue of a nested function stands for the innermost declaration *)
(* of its name visible where the function is defined (the global         *)
(* environment for _ENV), through an unbroken chain over every            *)
(* intermediate function (singlevaraux).                                  *)
UpvaluesDenoteVisible ==
  \A k \in 2 .. Len(fs) : \A u \in DOMAIN fs[k].ups :
    Denote(k, u) = Visible(Cur, k - 1, fs[k].ups[u].name)

(* A function has at most one upvalue descriptor per name, however often  *)
(* the name is used (searchupvalue before newupvalue).                    *)
UpvalueUnique ==
  \A k \in DOMAIN fs : \A u, v \in DOMAIN fs[k].ups :
    u # v => fs[k].ups[u].name # fs[k].ups[v].name

(* Locals of function k owned by its block j: declared after the block was *)
(* entered and before the next inner block was.                          *)
Owned(k, j) ==
  fs[k].bl[j].nactvar ..
    (IF j < Len(fs[k].bl) THEN fs[k].bl[j + 1].nactvar ELSE fs[k].nactvar) - 1

(* A block owning a local that a nested function captured is flagged     *)
(* upval, so that leaving it emits the close of upvalues (markupval).     *)
CapturedBlocksMarked ==
  \A k \in DOMAIN fs : \A j \in DOMAIN fs[k].bl :
    (\E i \in Owned(k, j) : getlocvar(Cur, k, i).id \in hist.captured)
      => fs[k].bl[j].upval
====
