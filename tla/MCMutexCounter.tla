--------------------------- MODULE MCMutexCounter ---------------------------
(* Model of MutexCounter: three threads, two rounds each.  t1 may die,    *)
(* t2 may use trylock, t3 only locks, so every return code of Mutex::lock *)
(* and Mutex::trylock occurs, EOWNERDEAD on both.                          *)
EXTENDS MutexCounter

CONSTANTS t1, t2, t3

MCThreads == {t1, t2, t3}
MCMortal == {t1}
MCTryLockers == {t2}
MCRounds == 2
=============================================================================
