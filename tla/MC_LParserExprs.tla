---------------------------- MODULE MC_LParserExprs ----------------------------
(***************************************************************************)
(* The expression-level parts of lparser.c checked in one run: an input  *)
(* is an operator sequence for expr (LuaExpr), the fields of a table     *)
(* constructor (LuaConstructor) or the targets of a multiple assignment  *)
(* (LuaAssign); part says which, and the other models stay in an idle    *)
(* state.  The state space is the sum of the three, not their product.   *)
(***************************************************************************)
EXTENDS Naturals, Sequences

CONSTANTS Tokens, MaxLen, LUAI_MAXCCALLS, BaseCalls,
          FieldKinds, MaxFields, LFIELDS_PER_FLUSH,
          NACTVAR, NUPS, MaxTargets

VARIABLES part, toks, result, fields, k, cc, regs, array, clobbered, newtable, done,
          targets, effect

E == INSTANCE LuaExpr
C == INSTANCE LuaConstructor
A == INSTANCE LuaAssign WITH result <- effect

evars == <<toks, result>>
cvars == <<fields, k, cc, regs, array, clobbered, newtable, done>>
avars == <<targets, effect>>

(* Six tokens of six priority classes: an operand, '-' and '~' both     *)
(* unary and binary, the left associative '+' and '*' of adjacent levels, *)
(* the right associative '^' and '..', a comparison, and 'or'.            *)
MCTokens == {"x", "-", "~", "+", "*", "^", "..", "==", "or"}

(* Every field form: record fields by name and by '[k]', list items that *)
(* are an expression, a name, or a call.                                   *)
MCFieldKinds == {"name=", "[k]=", "exp", "name", "call"}

(* The idle model's state: an empty constructor, an unparsed "x". *)
ConsIdle ==
  /\ fields = <<>> /\ k = 1
  /\ cc = [v |-> C!VOID, na |-> 0, nh |-> 0, tostore |-> 0]
  /\ regs = <<>> /\ array = <<>> /\ clobbered = FALSE
  /\ newtable = [b |-> 0, c |-> 0] /\ done = FALSE

ExprIdle == toks = <<"x">> /\ result = E!Pending

AssignIdle == targets = <<>> /\ effect = A!Pending

Init ==
  \/ part = "expr" /\ E!Init /\ ConsIdle /\ AssignIdle
  \/ part = "cons" /\ C!Init /\ ExprIdle /\ AssignIdle
  \/ part = "assign" /\ A!Init /\ ExprIdle /\ ConsIdle

Next ==
  \/ part = "expr" /\ E!Next /\ UNCHANGED <<part, cvars, avars>>
  \/ part = "cons" /\ C!Next /\ UNCHANGED <<part, evars, avars>>
  \/ part = "assign" /\ A!Next /\ UNCHANGED <<part, evars, cvars>>

Spec == Init /\ [][Next]_<<part, evars, cvars, avars>>

ExprMatchesGrammar == part = "expr" => E!ExprMatchesGrammar
CLevelsExact == part = "expr" => E!CLevelsExact
ArrayAsListed == part = "cons" => C!ArrayAsListed
PendingBounded == part = "cons" => C!PendingBounded
AssignMatchesManual == part = "assign" => A!AssignMatchesManual
====
