------------------------------- MODULE Mutex -------------------------------
(***************************************************************************)
(* eular::Mutex (src/utils/src/mutex.cpp).  The constructor creates a      *)
(* pthread mutex with PTHREAD_MUTEX_ROBUST and PTHREAD_MUTEX_ERRORCHECK_NP. *)
(* Its whole state is the futex word of glibc: the kernel id of the owner, *)
(* zero, or the FUTEX_OWNER_DIED bit that the kernel leaves when a thread  *)
(* exits holding the mutex.  The three values are the three values of      *)
(* `owner` below.                                                          *)
(*                                                                         *)
(* Each operation is one atomic step whose return code is the parameter r; *)
(* a blocking call is a step that is not enabled until it can return.     *)
(***************************************************************************)
CONSTANTS Threads,    \* the threads that use the mutex
          NoThread,   \* futex word 0: the mutex is free
          OwnerDied   \* FUTEX_OWNER_DIED: free, its last holder exited holding it

ASSUME {NoThread, OwnerDied} \cap Threads = {} /\ NoThread # OwnerDied

VARIABLE owner

\* Mutex::Mutex: a new mutex is free.
MutexInit == owner = NoThread

(* Variants of Lock with the bugs a wrapper of this kind can have; each   *)
(* one breaks a property of MutexCounter.                                  *)
\* Without PTHREAD_MUTEX_ROBUST: a mutex whose holder died stays locked.
LockNotRobust(t, r) ==
    \/ /\ owner = t
       /\ r = "EDEADLK"
       /\ UNCHANGED owner
    \/ /\ owner = NoThread
       /\ r = "OK"
       /\ owner' = t

\* EOWNERDEAD taken as "not locked yet" and reported as success unowned.
LockRecoverUnowned(t, r) ==
    \/ /\ owner = t
       /\ r = "EDEADLK"
       /\ UNCHANGED owner
    \/ /\ owner = NoThread
       /\ r = "OK"
       /\ owner' = t
    \/ /\ owner = OwnerDied
       /\ r = "OK"
       /\ UNCHANGED owner

(* Mutex::lock.  pthread_mutex_lock returns EDEADLK to the owner (the      *)
(* wrapper throws), blocks while another thread owns the mutex, and        *)
(* returns EOWNERDEAD when the last holder died; the wrapper then calls    *)
(* pthread_mutex_consistent and returns 0.  So r is "OK" or "EDEADLK".     *)
Lock(t, r) ==
    \/ /\ owner = t
       /\ r = "EDEADLK"
       /\ UNCHANGED owner
    \/ /\ owner = NoThread
       /\ r = "OK"
       /\ owner' = t
    \/ /\ owner = OwnerDied
       /\ r = "OK"
       /\ owner' = t

(* Mutex::trylock returns pthread_mutex_trylock's code as it is.  On a     *)
(* mutex whose holder died that code is EOWNERDEAD and the caller now owns *)
(* the mutex: the wrapper never calls pthread_mutex_consistent here.       *)
TryLock(t, r) ==
    \/ /\ owner = t
       /\ r = "EDEADLK"
       /\ UNCHANGED owner
    \/ /\ owner \notin {t, NoThread, OwnerDied}
       /\ r = "EBUSY"
       /\ UNCHANGED owner
    \/ /\ owner = NoThread
       /\ r = "OK"
       /\ owner' = t
    \/ /\ owner = OwnerDied
       /\ r = "EOWNERDEAD"
       /\ owner' = t

(* Mutex::unlock: pthread_mutex_unlock releases a mutex the caller owns;   *)
(* for any other caller it returns EPERM, which the wrapper ignores.       *)
Unlock(t) ==
    owner' = IF owner = t THEN NoThread ELSE owner

(* The robust attribute: when a thread exits, for any reason, holding the  *)
(* mutex, the kernel marks the futex word FUTEX_OWNER_DIED.                *)
ThreadExit(t) ==
    owner' = IF owner = t THEN OwnerDied ELSE owner

MutexTypeOK == owner \in Threads \cup {NoThread, OwnerDied}
=============================================================================
