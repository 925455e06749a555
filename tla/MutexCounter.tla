---------------------------- MODULE MutexCounter ----------------------------
(***************************************************************************)
(* The counter workload of the spec (section 8) run against eular::Mutex: *)
(* each thread does Rounds rounds; a round takes the mutex through         *)
(* AutoLock<Mutex> (src/utils/include/utils/mutex.h), copies the shared   *)
(* counter, writes the copy plus one, and leaves the scope, which unlocks. *)
(* A thread in TryLockers may instead take the round with Mutex::trylock   *)
(* and, as the spec documents trylock, treat any nonzero code as "busy"    *)
(* and skip the round.  A thread in Mortal may exit abnormally at any      *)
(* point (ThreadBase::forceExit, pthread_exit in a callback).  A thread    *)
(* that leaves its work function, normally or by the exception Mutex::lock *)
(* throws on EDEADLK, exits; exiting while holding the mutex leaves it     *)
(* FUTEX_OWNER_DIED, which is what the robust attribute is for.            *)
(***************************************************************************)
EXTENDS Naturals, Functions

CONSTANTS Threads, NoThread, OwnerDied,
          Mortal,      \* threads that may exit abnormally
          TryLockers,  \* threads that may take a round with trylock()
          Rounds       \* rounds each thread runs

ASSUME Mortal \subseteq Threads /\ TryLockers \subseteq Threads /\ Rounds \in Nat

VARIABLES owner,    \* the mutex (module Mutex)
          pc,       \* where each thread is
          tmp,      \* each thread's copy of the counter
          counter,  \* the shared counter
          incs,     \* increments each thread has written (history)
          iter      \* rounds each thread has finished

vars == <<owner, pc, tmp, counter, incs, iter>>

M == INSTANCE Mutex

Init ==
    /\ M!MutexInit
    /\ pc = [t \in Threads |-> "lock"]
    /\ tmp = [t \in Threads |-> 0]
    /\ counter = 0
    /\ incs = [t \in Threads |-> 0]
    /\ iter = [t \in Threads |-> 0]

Goto(t, l) == pc' = [pc EXCEPT ![t] = l]

(* AutoLock<Mutex>::AutoLock: Mutex::lock; EDEADLK is thrown out of the    *)
(* work function, the thread exits.                                        *)
AutoLockEnter(t) ==
    /\ pc[t] = "lock"
    /\ iter[t] < Rounds
    /\ \E r \in {"OK", "EDEADLK"} :
          /\ M!Lock(t, r)
          /\ Goto(t, IF r = "OK" THEN "read" ELSE "exit")
    /\ UNCHANGED <<tmp, counter, incs, iter>>

\* TryEnter with its round bound off by one.
TryEnterPastRounds(t) ==
    /\ pc[t] = "lock"
    /\ t \in TryLockers
    /\ iter[t] <= Rounds
    /\ \E r \in {"OK", "EBUSY", "EDEADLK", "EOWNERDEAD"} :
          /\ M!TryLock(t, r)
          /\ IF r = "OK"
                THEN Goto(t, "read") /\ UNCHANGED iter
                ELSE UNCHANGED pc /\ iter' = [iter EXCEPT ![t] = @ + 1]
    /\ UNCHANGED <<tmp, counter, incs>>

(* if (m.trylock() == 0) { ...; m.unlock(); } : a nonzero code skips the   *)
(* round.                                                                  *)
TryEnter(t) ==
    /\ pc[t] = "lock"
    /\ t \in TryLockers
    /\ iter[t] < Rounds
    /\ \E r \in {"OK", "EBUSY", "EDEADLK", "EOWNERDEAD"} :
          /\ M!TryLock(t, r)
          /\ IF r = "OK"
                THEN Goto(t, "read") /\ UNCHANGED iter
                ELSE UNCHANGED pc /\ iter' = [iter EXCEPT ![t] = @ + 1]
    /\ UNCHANGED <<tmp, counter, incs>>

ReadCounter(t) ==
    /\ pc[t] = "read"
    /\ tmp' = [tmp EXCEPT ![t] = counter]
    /\ Goto(t, "write")
    /\ UNCHANGED <<owner, counter, incs, iter>>

WriteCounter(t) ==
    /\ pc[t] = "write"
    /\ counter' = tmp[t] + 1
    /\ incs' = [incs EXCEPT ![t] = @ + 1]
    /\ Goto(t, "unlock")
    /\ UNCHANGED <<owner, tmp, iter>>

\* ~AutoLock: Mutex::unlock at the end of the scope.
AutoLockLeave(t) ==
    /\ pc[t] = "unlock"
    /\ M!Unlock(t)
    /\ iter' = [iter EXCEPT ![t] = @ + 1]
    /\ Goto(t, "lock")
    /\ UNCHANGED <<tmp, counter, incs>>

\* The work function returns after its last round.
Return(t) ==
    /\ pc[t] = "lock"
    /\ iter[t] = Rounds
    /\ Goto(t, "exit")
    /\ UNCHANGED <<owner, tmp, counter, incs, iter>>

\* The thread exits; the kernel marks a mutex it still holds.
Exit(t) ==
    /\ pc[t] = "exit"
    /\ M!ThreadExit(t)
    /\ Goto(t, "done")
    /\ UNCHANGED <<tmp, counter, incs, iter>>

\* Abnormal exit anywhere in the loop.
Die(t) ==
    /\ t \in Mortal
    /\ pc[t] \in {"lock", "read", "write", "unlock"}
    /\ M!ThreadExit(t)
    /\ Goto(t, "dead")
    /\ UNCHANGED <<tmp, counter, incs, iter>>

Finished == \A t \in Threads : pc[t] \in {"done", "dead"}

\* Every thread has gone: the program ends here.
Terminated == Finished /\ UNCHANGED vars

Run(t) ==
    \/ AutoLockEnter(t) \/ TryEnter(t) \/ ReadCounter(t) \/ WriteCounter(t)
    \/ AutoLockLeave(t) \/ Return(t) \/ Exit(t)

Next ==
    \/ \E t \in Threads : Run(t) \/ Die(t)
    \/ Terminated

(* The OS scheduler runs every runnable thread; an abnormal exit is never  *)
(* forced, so Die has no fairness.                                         *)
Spec == Init /\ [][Next]_vars /\ \A t \in Threads : WF_vars(Run(t))

-----------------------------------------------------------------------------

TypeOK ==
    /\ M!MutexTypeOK
    /\ pc \in [Threads -> {"lock", "read", "write", "unlock", "exit", "done", "dead"}]
    /\ tmp \in [Threads -> Nat]
    /\ counter \in Nat
    /\ incs \in [Threads -> 0..Rounds]
    /\ iter \in [Threads -> 0..Rounds]

(* No lost update: the counter equals the increments the threads wrote,   *)
(* across threads that died holding the mutex and the recovery of the     *)
(* mutex by the next Mutex::lock (EOWNERDEAD, pthread_mutex_consistent).  *)
NoLostUpdate == counter = SumFunction(incs)

(* Every thread ends: a holder that dies does not wedge the mutex, and a  *)
(* mutex left owned by a trylock caller is freed when that caller exits.  *)
Termination == <>Finished

(* A thread owns the mutex only inside its critical section, so what the  *)
(* code returned to it matches what it holds.  Mutex::trylock breaks it:  *)
(* on a mutex whose holder died it returns EOWNERDEAD, nonzero, with the  *)
(* caller owning the mutex; the caller reads "busy" and never unlocks.    *)
OwnershipKnown ==
    \A t \in Threads : owner = t => pc[t] \in {"read", "write", "unlock"}

\* The threads inside their AutoLock scope.
CriticalSection == {t \in Threads : pc[t] \in {"read", "write", "unlock"}}

Abstract == INSTANCE ExclusiveLock WITH holders <- CriticalSection

(* AutoLock<Mutex> implements an exclusive lock: the threads inside the    *)
(* scope change only by one thread entering an empty section, its holder  *)
(* leaving, or its holder dying, and a holder always leaves.  This covers *)
(* Mutex::lock's EOWNERDEAD branch: the thread that recovers a dead        *)
(* holder's mutex must own it before it enters.                            *)
LockRefinement == Abstract!Spec
=============================================================================
