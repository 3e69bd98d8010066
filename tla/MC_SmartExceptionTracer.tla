------------------------ MODULE MC_SmartExceptionTracer ------------------------
(* Three threads, two addresses and four throws: two exceptions are live *)
(* at once, later ones reuse the address of one already destroyed, and   *)
(* an exception shared by several threads is read by one thread while    *)
(* another drops its reference.                                            *)
EXTENDS SmartExceptionTracer, TLC

CONSTANTS t1, t2, t3, a1, a2

MCThreads == {t1, t2, t3}
MCAddrs == {a1, a2}
====
