--------------------------- MODULE RecursiveMutex ---------------------------
(***************************************************************************)
(* eular::RecursiveMutex (src/utils/src/mutex.cpp): a pthread mutex with   *)
(* PTHREAD_MUTEX_ROBUST and PTHREAD_MUTEX_RECURSIVE_NP.  glibc keeps the   *)
(* owner in the futex word (a thread, 0, or FUTEX_OWNER_DIED) and the      *)
(* nesting depth in __count, an unsigned int: MaxCount stands for          *)
(* UINT_MAX, past which pthread_mutex_lock returns EAGAIN.                 *)
(***************************************************************************)
EXTENDS Naturals

CONSTANTS Threads, NoThread, OwnerDied,
          MaxCount   \* the largest value of __count (UINT_MAX)

ASSUME {NoThread, OwnerDied} \cap Threads = {} /\ MaxCount \in Nat \ {0}

VARIABLES rowner,  \* the futex word
          rcount   \* __count: the owner's nesting depth

RecursiveMutexInit == rowner = NoThread /\ rcount = 0

\* Relock without the wrap check on __count.
RelockUnbounded(t, r) ==
    /\ rowner = t
    /\ r = "OK"
    /\ rcount' = rcount + 1
    /\ UNCHANGED rowner

(* The owner locks again: __count + 1, or EAGAIN when it would wrap.       *)
Relock(t, r) ==
    /\ rowner = t
    /\ \/ rcount < MaxCount /\ r = "OK" /\ rcount' = rcount + 1
       \/ rcount = MaxCount /\ r = "EAGAIN" /\ UNCHANGED rcount
    /\ UNCHANGED rowner

\* A fresh acquisition sets __count to 1, after a dead holder too.
Acquire(t) == rowner' = t /\ rcount' = 1

\* RLock on a mutex created without PTHREAD_MUTEX_ROBUST.
RLockNotRobust(t, r) ==
    \/ Relock(t, r)
    \/ /\ rowner = NoThread
       /\ r = "OK"
       /\ Acquire(t)

(* RecursiveMutex::lock: blocks while another thread owns the mutex;       *)
(* EOWNERDEAD is repaired with pthread_mutex_consistent and returned as 0; *)
(* EAGAIN is returned to the caller.                                       *)
RLock(t, r) ==
    \/ Relock(t, r)
    \/ /\ rowner \in {NoThread, OwnerDied}
       /\ r = "OK"
       /\ Acquire(t)

(* RecursiveMutex::trylock returns pthread_mutex_trylock's code: EBUSY     *)
(* when another thread owns it, EOWNERDEAD (owned, not made consistent)    *)
(* when the last holder died.                                              *)
RTryLock(t, r) ==
    \/ Relock(t, r)
    \/ /\ rowner \notin {t, NoThread, OwnerDied}
       /\ r = "EBUSY"
       /\ UNCHANGED <<rowner, rcount>>
    \/ /\ rowner = NoThread
       /\ r = "OK"
       /\ Acquire(t)
    \/ /\ rowner = OwnerDied
       /\ r = "EOWNERDEAD"
       /\ Acquire(t)

\* RUnlock of a non-recursive type: any unlock by the owner releases.
RUnlockReleases(t) ==
    \/ /\ rowner = t
       /\ rcount' = 0
       /\ rowner' = NoThread
    \/ rowner # t /\ UNCHANGED <<rowner, rcount>>

(* RecursiveMutex::unlock: the owner decrements __count and releases the   *)
(* mutex when it reaches 0; any other caller gets EPERM, ignored.          *)
RUnlock(t) ==
    \/ /\ rowner = t
       /\ rcount' = rcount - 1
       /\ rowner' = IF rcount = 1 THEN NoThread ELSE t
    \/ rowner # t /\ UNCHANGED <<rowner, rcount>>

\* The robust attribute: a thread that exits owning the mutex leaves it
\* FUTEX_OWNER_DIED; the depth it held is dropped with it.
RThreadExit(t) ==
    IF rowner = t THEN rowner' = OwnerDied /\ rcount' = 0
                  ELSE UNCHANGED <<rowner, rcount>>

RecursiveMutexTypeOK ==
    /\ rowner \in Threads \cup {NoThread, OwnerDied}
    /\ rcount \in 0..MaxCount
=============================================================================
