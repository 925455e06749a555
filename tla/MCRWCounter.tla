----------------------------- MODULE MCRWCounter -----------------------------
(***************************************************************************)
(* Two readers and two writers, two rounds each: enough for two readers to *)
(* overlap, for a writer to wait on readers and on the other writer, and   *)
(* for one writer's unlock to interleave with the other's wlock.           *)
(***************************************************************************)
EXTENDS RWCounter

CONSTANTS r1, r2, w1, w2

MCReaders == {r1, r2}
MCWriters == {w1, w2}
====
