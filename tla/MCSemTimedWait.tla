--------------------------- MODULE MCSemTimedWait ---------------------------
(* Model of SemTimedWait: two waiters, one poster posting once, an empty  *)
(* semaphore.  Timeouts of 999 and 1000 ms read at instants 0, 1 and 1001 *)
(* with a sub-millisecond part of 0 or 0.5 ms give deadlines inside a     *)
(* second, on a second boundary, past one, and, for 999 ms read at 1 ms,  *)
(* the tv_nsec = 10^9 edge.  Calls happen at 0, 1 and 1001 ms; the last   *)
(* instant lies past every deadline they can set.                         *)
EXTENDS SemTimedWait

CONSTANTS w1, w2, p1

MCWaiters == {w1, w2}
MCPosters == {p1}
MCPostsEach == 1
MCInitCount == 0
MCMsSet == {999, 1000}
MCSubMsNsec == {0, 500000}
MCInstants == {0, 1, 1000, 1001, 2001, 2002}
MCCallInstants == {0, 1, 1001}
=============================================================================
