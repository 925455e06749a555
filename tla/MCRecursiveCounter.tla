------------------------- MODULE MCRecursiveCounter -------------------------
(* Model of RecursiveCounter: three threads, two nested scopes per round. *)
(* t1 may die, t2 may take a round with trylock.  MCMaxCount = 2 is       *)
(* reached when t2 nests a round inside a mutex its trylock left owned,   *)
(* so the EAGAIN return of a relock happens too.                           *)
EXTENDS RecursiveCounter

CONSTANTS t1, t2, t3

MCThreads == {t1, t2, t3}
MCMortal == {t1}
MCTryLockers == {t2}
MCNest == 2
MCRounds == 2
MCMaxCount == 2
=============================================================================
