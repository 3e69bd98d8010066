-------------------------------- MODULE LuaMain --------------------------------
(***************************************************************************)
(* Option handling of the standalone interpreter                          *)
(* (src/lua-5/5.3.6/src/backup/lua.c): collectargs scans argv once before *)
(* any Lua code runs; pmain then runs LUA_INIT, runargs scans argv again  *)
(* to run the -e and -l chunks, handle_script runs the script, and the    *)
(* tail of pmain picks the REPL or stdin.                                 *)
(*                                                                         *)
(* An argument is abstracted to the three characters collectargs looks   *)
(* at: c0 ("-" or another character), c1 and c2 (a character or EOS, the  *)
(* terminating NUL).  Loading and running a chunk is abstracted to its    *)
(* outcome, ok or an error.                                               *)
(***************************************************************************)
EXTENDS Integers, Sequences, SequencesExt

CONSTANTS
  ArgShapes,   \* the argument shapes an argv entry may have
  MaxArgs,     \* bound: argc - 1
  EOS          \* the NUL character

VARIABLES
  argv,      \* argv[1 .. argc-1]
  tty,       \* lua_stdin_is_tty()
  luainit,   \* LUA_INIT_5_3 or LUA_INIT: "none" or "set" (a file or a string)
  pc,        \* where pmain is
  args,      \* collectargs's result: a set of flags, {"error"} for has_error
  script,    \* collectargs's *first
  i,         \* runargs's loop index
  ran,       \* ghost: the chunks run, in order, with their outcome
  asserted,  \* ghost: runargs's lua_asserts held so far
  result,    \* the boolean pmain leaves on the stack
  code       \* main's return value: "none" before main returns

vars == <<argv, tty, luainit, pc, args, script, i, ran, asserted, result, code>>

Argc == Len(argv) + 1

IsOpt(a, c) == a.c0 = "-" /\ a.c1 = c

(***************************************************************************)
(* collectargs (lines 490-532): the mask of flags and *first.             *)
(***************************************************************************)
Bad(j) == [args |-> {"error"}, first |-> j]
Stop(f, j) == [args |-> f, first |-> j]

(* Mutant operator: a plausible fault of collectargs. *)
RECURSIVE collectargs_nofall(_, _, _)
collectargs_nofall(av, j, f) ==
  IF j > Len(av) THEN Stop(f, j)
  ELSE LET a == av[j] IN
  CASE a.c0 # "-" -> Stop(f, j)
    [] a.c1 = "-" -> IF a.c2 # EOS THEN Bad(j) ELSE Stop(f, j + 1)
    [] a.c1 = EOS -> Stop(f, j)
    [] a.c1 = "i" -> collectargs_nofall(av, j + 1, f \cup {"i"})
    [] a.c1 \in {"E", "v"} ->
         IF a.c2 # EOS THEN Bad(j) ELSE collectargs_nofall(av, j + 1, f \cup {a.c1})
    [] a.c1 \in {"e", "l"} ->
         LET g == IF a.c1 = "e" THEN f \cup {"e"} ELSE f IN
         IF a.c2 # EOS THEN collectargs_nofall(av, j + 1, g)
         ELSE IF j + 1 > Len(av) \/ av[j + 1].c0 = "-" THEN Bad(j)
         ELSE collectargs_nofall(av, j + 2, g)
    [] OTHER -> Bad(j)

(* One iteration per j; -i falls through to -v, -e to -l. *)
RECURSIVE collectargs(_, _, _)
collectargs(av, j, f) ==
  IF j > Len(av) THEN Stop(f, j)
  ELSE LET a == av[j] IN
  CASE a.c0 # "-" -> Stop(f, j)
    [] a.c1 = "-" -> IF a.c2 # EOS THEN Bad(j) ELSE Stop(f, j + 1)
    [] a.c1 = EOS -> Stop(f, j)
    [] a.c1 \in {"E", "i", "v"} ->
         LET g == CASE a.c1 = "E" -> {"E"} [] a.c1 = "i" -> {"i", "v"} [] OTHER -> {"v"}
         IN  IF a.c2 # EOS THEN Bad(j) ELSE collectargs(av, j + 1, f \cup g)
    [] a.c1 \in {"e", "l"} ->
         LET g == IF a.c1 = "e" THEN f \cup {"e"} ELSE f IN
         IF a.c2 # EOS THEN collectargs(av, j + 1, g)
         ELSE IF j + 1 > Len(av) \/ av[j + 1].c0 = "-" THEN Bad(j)
         ELSE collectargs(av, j + 2, g)
    [] OTHER -> Bad(j)

(***************************************************************************)
(* pmain (lines 579-618), one step per phase.                              *)
(***************************************************************************)
Chunk(k, at, ok) == [k |-> k, at |-> at, ok |-> ok]

Exit(res) == pc' = "return" /\ result' = res

(* collectargs, then print_usage or the -v/-E flags, openlibs and         *)
(* createargtable, which do not change what runs.                         *)
CollectArgs ==
  /\ pc = "collect"
  /\ LET r == collectargs(argv, 1, {}) IN
     /\ args' = r.args /\ script' = r.first
     /\ IF r.args = {"error"} THEN Exit(FALSE) ELSE pc' = "luainit" /\ UNCHANGED result
  /\ UNCHANGED <<argv, tty, luainit, i, ran, asserted>>

(* handle_luainit (lines 560-572), skipped under -E. *)
LuaInit(ok) ==
  /\ pc = "luainit"
  /\ i' = 1
  /\ IF "E" \in args \/ luainit = "none"
     THEN ok /\ pc' = "runargs" /\ UNCHANGED <<ran, result>>
     ELSE /\ ran' = Append(ran, Chunk("init", 0, ok))
          /\ IF ok THEN pc' = "runargs" /\ UNCHANGED result ELSE Exit(FALSE)
  /\ UNCHANGED <<argv, tty, luainit, args, script, asserted>>

(* Mutant operator: a plausible fault of RunArg. *)
RunArg_noskip(ok) ==
  /\ pc = "runargs" /\ i < script
  /\ LET a == argv[i] IN
     /\ asserted' = (asserted /\ a.c0 = "-" /\ (a.c2 = EOS => i + 1 <= Len(argv)))
     /\ IF a.c1 \in {"e", "l"}
        THEN /\ ran' = Append(ran, Chunk(a.c1, IF a.c2 = EOS THEN i + 1 ELSE i, ok))
             /\ i' = i + 1
             /\ IF ok THEN UNCHANGED <<pc, result>> ELSE Exit(FALSE)
        ELSE ok /\ i' = i + 1 /\ UNCHANGED <<ran, pc, result>>
  /\ UNCHANGED <<argv, tty, luainit, args, script>>

(* One iteration of runargs (lines 539-556): an -e or -l option runs its  *)
(* chunk, taking the argument from the next argv entry when it is not     *)
(* concatenated; the first error makes pmain return.                       *)
RunArg(ok) ==
  /\ pc = "runargs" /\ i < script
  /\ LET a == argv[i]
         at == IF a.c2 = EOS THEN i + 1 ELSE i
     IN
     /\ asserted' = (asserted /\ a.c0 = "-" /\ (a.c1 \in {"e", "l"} => at <= Len(argv)))
     /\ IF a.c1 \in {"e", "l"}
        THEN /\ ran' = Append(ran, Chunk(a.c1, at, ok))
             /\ i' = at + 1
             /\ IF ok THEN UNCHANGED <<pc, result>> ELSE Exit(FALSE)
        ELSE ok /\ i' = i + 1 /\ UNCHANGED <<ran, pc, result>>
  /\ UNCHANGED <<argv, tty, luainit, args, script>>

RunArgsDone ==
  /\ pc = "runargs" /\ i >= script
  /\ pc' = "script"
  /\ UNCHANGED <<argv, tty, luainit, args, script, i, ran, asserted, result>>

(* handle_script (lines 462-473): "-" means stdin unless it follows "--". *)
IsStdin(j) == argv[j].c0 = "-" /\ argv[j].c1 = EOS /\ ~(j > 1 /\ IsOpt(argv[j - 1], "-"))

HandleScript(ok) ==
  /\ pc = "script"
  /\ IF script < Argc
     THEN /\ ran' = Append(ran, Chunk(IF IsStdin(script) THEN "stdin" ELSE "file", script, ok))
          /\ IF ok THEN pc' = "tail" /\ UNCHANGED result ELSE Exit(FALSE)
     ELSE ok /\ pc' = "tail" /\ UNCHANGED <<ran, result>>
  /\ UNCHANGED <<argv, tty, luainit, args, script, i, asserted>>

(* The REPL after -i, or with no script, -e or -v: the REPL on a tty,     *)
(* else dofile(L, NULL) on stdin, whose status is not looked at.  Then    *)
(* lua_pushboolean(L, 1).                                                 *)
PmainTail(ok) ==
  /\ pc = "tail"
  /\ IF "i" \notin args /\ script = Argc /\ args \cap {"e", "v"} = {} /\ ~tty
     THEN ran' = Append(ran, Chunk("stdin", 0, ok))
     ELSE ok /\ UNCHANGED ran
  /\ Exit(TRUE)
  /\ UNCHANGED <<argv, tty, luainit, args, script, i, asserted>>

(* main (lines 621-638): luaL_newstate may fail; otherwise pmain runs    *)
(* under lua_pcall and main returns EXIT_SUCCESS when it left true.       *)
NewState(ok) ==
  /\ pc = "main"
  /\ IF ok THEN pc' = "collect" /\ UNCHANGED code ELSE pc' = "exit" /\ code' = "failure"
  /\ UNCHANGED <<argv, tty, luainit, args, script, i, ran, asserted, result>>

MainReturn ==
  /\ pc = "return"
  /\ pc' = "exit"
  /\ code' = IF result THEN "success" ELSE "failure"
  /\ UNCHANGED <<argv, tty, luainit, args, script, i, ran, asserted, result>>

(* The process has exited; nothing runs after. *)
Done == pc = "exit" /\ UNCHANGED vars

Init ==
  /\ argv \in UNION {[1 .. n -> ArgShapes] : n \in 0 .. MaxArgs}
  /\ tty \in BOOLEAN
  /\ luainit \in {"none", "set"}
  /\ pc = "main" /\ args = {} /\ script = 0 /\ i = 0
  /\ ran = <<>> /\ asserted = TRUE /\ result = FALSE /\ code = "none"

(* The steps of pmain leave main's return value alone. *)
Next ==
  \/ \E ok \in BOOLEAN : NewState(ok)
  \/ /\ \/ CollectArgs
        \/ \E ok \in BOOLEAN : LuaInit(ok) \/ RunArg(ok) \/ HandleScript(ok) \/ PmainTail(ok)
        \/ RunArgsDone
     /\ UNCHANGED code
  \/ MainReturn
  \/ Done

Spec == Init /\ [][Next]_vars

(***************************************************************************)
(* Reference: argv read by the usage text print_usage prints, with the    *)
(* rule of collectargs's comment that the argument of -e or -l may not be *)
(* another option.  Options come first; "--" ends them and the script is *)
(* the next argument; "-", or an argument that is no option, is the       *)
(* script.  -e stat and -l name take stat or name concatenated or as the *)
(* next argument.  -i implies -v (the comment of case 'i').  The result  *)
(* lists the chunks in argv order; bad is the offending option.           *)
(***************************************************************************)
Flag == [E |-> {"E"}, i |-> {"i", "v"}, v |-> {"v"}, e |-> {"e"}, l |-> {}]

RECURSIVE Usage(_, _, _)
Usage(av, j, u) ==
  LET a        == av[j]
      Script(k) == [u EXCEPT !.script = k, !.dashdash = (k > j)]
      Operand  == j < Len(av) /\ av[j + 1].c0 # "-"
  IN
  CASE j > Len(av)                               -> Script(j)
    [] a.c0 # "-" \/ a.c1 = EOS                  -> Script(j)
    [] a.c1 = "-" /\ a.c2 = EOS                  -> Script(j + 1)
    [] a.c1 \in {"E", "i", "v"} /\ a.c2 = EOS    ->
         Usage(av, j + 1, [u EXCEPT !.flags = @ \cup Flag[a.c1]])
    [] a.c1 \in {"e", "l"} /\ (a.c2 # EOS \/ Operand) ->
         LET at == IF a.c2 # EOS THEN j ELSE j + 1 IN
         Usage(av, at + 1, [u EXCEPT !.flags = @ \cup Flag[a.c1],
                                     !.chunks = Append(@, [k |-> a.c1, at |-> at])])
    [] OTHER -> [u EXCEPT !.ok = FALSE, !.bad = j]

Ref == Usage(argv, 1, [ok |-> TRUE, bad |-> 0, flags |-> {}, chunks |-> <<>>,
                       script |-> 0, dashdash |-> FALSE])

(* The chunks pmain is to run before the REPL or stdin: LUA_INIT unless   *)
(* -E, the -e/-l chunks, the script (stdin for "-" not after "--").        *)
Planned ==
  LET R == Ref IN
  (IF "E" \in R.flags \/ luainit = "none" THEN <<>> ELSE <<[k |-> "init", at |-> 0]>>)
  \o R.chunks
  \o (IF ~R.ok \/ R.script > Len(argv) THEN <<>>
      ELSE <<[k |-> IF argv[R.script].c1 = EOS /\ argv[R.script].c0 = "-" /\ ~R.dashdash
                    THEN "stdin" ELSE "file", at |-> R.script]>>)

Ran == [n \in DOMAIN ran |-> [k |-> ran[n].k, at |-> ran[n].at]]

(* collectargs has run: it sets *first to 1 or more. *)
Collected == script # 0

(***************************************************************************)
(* Properties.                                                             *)
(***************************************************************************)
(* collectargs, a single pass with fallthroughs between cases, reads argv *)
(* as the usage text does: it rejects exactly the command lines the usage *)
(* rejects, *first is then the option print_usage names, and otherwise   *)
(* the flags and the script index (after "--", or argc) are the usage's.  *)
ArgsMatchUsage ==
  Collected =>
    LET R == Ref IN
    /\ (args = {"error"}) = ~R.ok
    /\ ~R.ok => script = R.bad
    /\ R.ok => args = R.flags /\ script = R.script

(* runargs re-scans argv[1 .. script-1] without collectargs's checks, and *)
(* handle_script tells stdin from a file named "-" by argv[-1].  The     *)
(* chunks run (leaving aside the stdin of the no-argument case) are a    *)
(* prefix of the plan, all of it when pmain returns true, they stop at   *)
(* the first failure, and the                                             *)
(* lua_asserts of runargs hold.                                           *)
ChunksFollowPlan ==
  LET P == Planned
      n == Len(SelectSeq(ran, LAMBDA c : c.at # 0 \/ c.k = "init"))
  IN
  /\ asserted
  /\ IsPrefix(SubSeq(Ran, 1, n), P)
  /\ \A m \in 1 .. n - 1 : ran[m].ok
  /\ result => SubSeq(Ran, 1, n) = P

(* main returns EXIT_SUCCESS only if no chunk pmain ran outside the REPL  *)
(* raised an error: the comment of lua_pushboolean(L, 1) says "signal no *)
(* errors".                                                                *)
SuccessMeansNoError ==
  code = "success" => \A m \in DOMAIN ran : ran[m].ok
====
