----------------------------- MODULE MCSqlConn -----------------------------
(* Two threads with a connection each, three calls each.  Argument lengths *)
(* 10 and 999: the first fits every buffer, the second fails the length    *)
(* check of every function.                                                *)
EXTENDS SqlConn

CONSTANTS t1, t2

MCThreads == {t1, t2}
MCArgLens == {10, 999}
====
