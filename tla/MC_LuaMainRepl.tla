---------------------------- MODULE MC_LuaMainRepl ----------------------------
(***************************************************************************)
(* The command line of lua.c (LuaMain, argv as in MC_LuaMain) and Ctrl-C  *)
(* in its REPL (LuaSignal), checked in one run.  A ghost part picks one; *)
(* the other stays in its initial state, so the state space is the sum.  *)
(***************************************************************************)
EXTENDS MC_LuaMain

CONSTANTS MaxLines, MaxSigs

VARIABLES part, at, line, status, handler, hook, sigs, src, intr

S == INSTANCE LuaSignal

svars == <<at, line, status, handler, hook, sigs, src, intr>>

(* LuaMain before main runs, with no arguments. *)
MainIdle ==
  /\ argv = <<>> /\ tty = FALSE /\ luainit = "none"
  /\ pc = "main" /\ args = {} /\ script = 0 /\ i = 0
  /\ ran = <<>> /\ asserted = TRUE /\ result = FALSE /\ code = "none"

(* doREPL not yet entered, with no hook set. *)
ReplIdle ==
  /\ at = "read" /\ line = 0 /\ status = TRUE /\ handler = "dfl"
  /\ hook = FALSE /\ sigs = 0 /\ src = S!None /\ intr = <<>>

MainReplInit ==
  \/ part = "args" /\ Init /\ ReplIdle
  \/ part = "repl" /\ MainIdle /\ S!Init

MainReplNext ==
  \/ part = "args" /\ Next /\ UNCHANGED <<part, svars>>
  \/ part = "repl" /\ S!Next /\ UNCHANGED <<part, vars>>

MainReplSpec == MainReplInit /\ [][MainReplNext]_<<part, vars, svars>>

(* Every "interrupted!" answers a SIGINT of the line it interrupts, or   *)
(* one that came in docall's window after lua_pcall (see LuaSignal).      *)
InterruptsHaveCause == S!InterruptsHaveCause
====
