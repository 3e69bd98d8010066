------------------------------ MODULE MC_LuaMain ------------------------------
(***************************************************************************)
(* Command lines of up to four arguments, each of a shape that reaches   *)
(* a distinct branch of collectargs: "-", "--", "--x", "-E", "-Ex", "-i",  *)
(* "-ix", "-v", "-e", "-estat", "-l", "-z", and a script name.            *)
(***************************************************************************)
EXTENDS LuaMain

MCEOS == "NUL"

Arg(c0, c1, c2) == [c0 |-> c0, c1 |-> c1, c2 |-> c2]

MCArgShapes ==
  {Arg("-", MCEOS, MCEOS), Arg("-", "-", MCEOS), Arg("-", "-", "x"),
   Arg("-", "E", MCEOS), Arg("-", "E", "x"), Arg("-", "i", MCEOS), Arg("-", "i", "x"),
   Arg("-", "v", MCEOS), Arg("-", "e", MCEOS), Arg("-", "e", "x"),
   Arg("-", "l", MCEOS), Arg("-", "z", MCEOS), Arg("s", "x", "x")}
====
