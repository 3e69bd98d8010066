-------------------------------- MODULE LuaSignal --------------------------------
(***************************************************************************)
(* Ctrl-C in the interactive interpreter (src/lua-5/5.3.6/src/backup/      *)
(* lua.c): doREPL reads a line, runs it with docall and prints the results *)
(* with l_print.  docall installs laction as the SIGINT handler around     *)
(* lua_pcall and puts SIG_DFL back after it; laction puts SIG_DFL back     *)
(* itself and installs lstop as a count/call/return hook on globalL; lstop *)
(* removes the hook and raises "interrupted!" in the running Lua code.     *)
(*                                                                         *)
(* A SIGINT may arrive at any step.  at is where the main thread is:      *)
(*   "read"  loadline (terminal input; no Lua code runs, no hook fires),   *)
(*   "set"   docall before signal(SIGINT, laction),                        *)
(*   "vm"    lua_pcall before the chunk's last hook point,                 *)
(*   "tail"  after the chunk's last hook point, up to signal(SIG_DFL),     *)
(*   "print" l_print, whose lua_pcall calls 'print' (a call hook point),   *)
(*   "end"   doREPL has returned; "killed": SIG_DFL ended the process.     *)
(* The chunk, its values and the text read are abstracted to outcomes.    *)
(***************************************************************************)
EXTENDS Naturals, Sequences

CONSTANTS
  MaxLines,  \* bound: lines doREPL reads
  MaxSigs    \* bound: SIGINTs sent to the process

VARIABLES
  at,       \* where the main thread is (see above)
  line,     \* the number of the line being handled
  status,   \* the status of docall: TRUE for LUA_OK
  handler,  \* the SIGINT disposition: "dfl" or "laction"
  hook,     \* lstop is installed as the hook of globalL
  sigs,     \* SIGINTs sent so far
  src,      \* ghost: the SIGINT whose laction installed the current hook
  intr      \* ghost: the "interrupted!" errors raised, in order

vars == <<at, line, status, handler, hook, sigs, src, intr>>

(* A catch: the line and the place where laction ran. *)
None == [line |-> 0, where |-> "none"]

(***************************************************************************)
(* The signal side.                                                        *)
(***************************************************************************)
(* laction (lines 137-140): SIG_DFL again, then the hook. *)
laction ==
  /\ handler' = "dfl"
  /\ hook' = TRUE
  /\ src' = [line |-> line, where |-> IF at = "tail" THEN "window" ELSE at]

(* A SIGINT: laction if it is installed, else the default action. *)
Signal ==
  /\ at \notin {"end", "killed"}
  /\ sigs < MaxSigs
  /\ sigs' = sigs + 1
  /\ IF handler = "laction"
     THEN laction /\ UNCHANGED <<at, line, status, intr>>
     ELSE at' = "killed" /\ UNCHANGED <<line, status, handler, hook, src, intr>>

(* Mutant operator: a plausible fault of lstop, which leaves the hook set. *)
lstop_keep == hook' = hook

(* lstop (lines 121-125): the hook is removed before the error is raised. *)
lstop == hook' = FALSE

(* The hook fires at a hook point of the chunk, or at the call of 'print' *)
(* in l_print (whose lua_pcall reports "error calling 'print'").           *)
Interrupt ==
  /\ at \in {"vm", "print"}
  /\ hook
  /\ lstop
  /\ intr' = Append(intr, [line |-> line, by |-> src])
  /\ src' = None
  /\ IF at = "vm" THEN at' = "tail" /\ status' = FALSE ELSE at' = "read" /\ UNCHANGED status
  /\ UNCHANGED <<line, handler, sigs>>

(***************************************************************************)
(* The main thread: doREPL (lines 430-442).                                *)
(***************************************************************************)
(* loadline: no input ends the loop; a line that does not compile is      *)
(* reported; a compiled line goes to docall.                              *)
LoadLine(s) ==
  /\ at = "read"
  /\ s # "eof" => line < MaxLines
  /\ at' = CASE s = "eof" -> "end" [] s = "ok" -> "set" [] OTHER -> "read"
  /\ line' = IF s = "eof" THEN line ELSE line + 1
  /\ UNCHANGED <<status, handler, hook, sigs, src, intr>>

(* docall up to lua_pcall: globalL = L; signal(SIGINT, laction). *)
SetHandler ==
  /\ at = "set"
  /\ handler' = "laction"
  /\ at' = "vm"
  /\ UNCHANGED <<line, status, hook, sigs, src, intr>>

(* The chunk passes its last hook point with no hook set, returning or   *)
(* raising an error of its own.                                           *)
Finish(ok) ==
  /\ at = "vm"
  /\ ~hook
  /\ at' = "tail" /\ status' = ok
  /\ UNCHANGED <<line, handler, hook, sigs, src, intr>>

(* docall after lua_pcall: signal(SIGINT, SIG_DFL); then l_print or      *)
(* report.                                                                *)
Reset ==
  /\ at = "tail"
  /\ handler' = "dfl"
  /\ at' = IF status THEN "print" ELSE "read"
  /\ UNCHANGED <<line, status, hook, sigs, src, intr>>

(* l_print with no results calls nothing; with results it calls 'print', *)
(* which the hook, when set, interrupts (Interrupt).                      *)
l_print(results) ==
  /\ at = "print"
  /\ results => ~hook
  /\ at' = "read"
  /\ UNCHANGED <<line, status, handler, hook, sigs, src, intr>>

Done == at \in {"end", "killed"} /\ UNCHANGED vars

(* doREPL is entered with SIG_DFL installed.  A SIGINT that came in the  *)
(* window of an earlier docall of pmain (LUA_INIT, -e, -l or the script, *)
(* before -i) may have left the hook set: that is line 0's window.       *)
Init ==
  /\ at = "read" /\ line = 0 /\ status = TRUE /\ handler = "dfl"
  /\ hook \in BOOLEAN
  /\ sigs = IF hook THEN 1 ELSE 0
  /\ src = IF hook THEN [line |-> 0, where |-> "window"] ELSE None
  /\ intr = <<>>

Next ==
  \/ Signal \/ Interrupt
  \/ \E s \in {"ok", "err", "eof"} : LoadLine(s)
  \/ SetHandler \/ \E ok \in BOOLEAN : Finish(ok)
  \/ Reset \/ \E r \in BOOLEAN : l_print(r)
  \/ Done

Spec == Init /\ [][Next]_vars

(***************************************************************************)
(* Properties.                                                             *)
(***************************************************************************)
(* Every "interrupted!" error that lstop raises answers a SIGINT, and one *)
(* it has not answered before: either one that came while that line's    *)
(* chunk ran, or one that came in the window between the chunk's last    *)
(* hook point and signal(SIGINT, SIG_DFL) of docall (lines 225-226) of an *)
(* earlier line, or of the same line when its l_print is interrupted.     *)
(* That window is the only way a Ctrl-C reaches a later line.             *)
InterruptsHaveCause ==
  \A m \in DOMAIN intr :
    LET e == intr[m] IN
    \/ e.by.where = "window"
    \/ e.by.where = "vm" /\ e.by.line = e.line
====
