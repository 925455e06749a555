----------------------------- MODULE MCNamedSem -----------------------------
(***************************************************************************)
(* Two processes on one path, one after the other or overlapping: a       *)
(* poster and a taker, both passing val 0.                                 *)
(***************************************************************************)
EXTENDS NamedSem

CONSTANTS poster, taker

MCInstances == {poster, taker}
MCPosters == {poster}
====
