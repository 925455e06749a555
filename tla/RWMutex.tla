------------------------------ MODULE RWMutex ------------------------------
(***************************************************************************)
(* eular::RWMutex (src/utils/src/mutex.cpp) over a default glibc           *)
(* pthread_rwlock_t, which prefers readers: rdlock succeeds whenever no    *)
(* writer holds the lock, even with writers waiting.  glibc keeps a count  *)
(* of readers and the id of the writer, not the set of readers, so an      *)
(* unlock by a thread that is not the writer releases one read hold,       *)
(* whoever took it.  In a DEBUG build RWMutex also keeps the atomic flags  *)
(* mReadLocked and mWritLocked, stored after the pthread call returns.     *)
(***************************************************************************)
EXTENDS Naturals

CONSTANTS Threads, NoThread

ASSUME NoThread \notin Threads

VARIABLES nreaders,    \* read holds (__readers)
          writer,      \* the write holder (__cur_writer), or NoThread
          readLocked,  \* mReadLocked (DEBUG)
          writLocked   \* mWritLocked (DEBUG)

rwvars == <<nreaders, writer, readLocked, writLocked>>

\* RWMutex::RWMutex: pthread_rwlock_init with default attributes.
RWMutexInit ==
    /\ nreaders = 0
    /\ writer = NoThread
    /\ readLocked = FALSE
    /\ writLocked = FALSE

\* rdlock taking a read hold while a writer holds the lock.
RdLockIgnoresWriter(t) ==
    /\ nreaders' = nreaders + 1
    /\ UNCHANGED <<writer, readLocked, writLocked>>

(* RWMutex::rlock, pthread_rwlock_rdlock: blocks while a writer holds the  *)
(* lock, then takes a read hold; mReadLocked is stored by the next step.   *)
RdLock(t) ==
    /\ writer = NoThread
    /\ nreaders' = nreaders + 1
    /\ UNCHANGED <<writer, readLocked, writLocked>>

\* wrlock that waits for the readers but not for another writer.
WrLockIgnoresWriter(t) ==
    /\ nreaders = 0
    /\ writer' = t
    /\ UNCHANGED <<nreaders, readLocked, writLocked>>

(* RWMutex::wlock, pthread_rwlock_wrlock: blocks until there is neither a  *)
(* writer nor a reader.                                                    *)
WrLock(t) ==
    /\ writer = NoThread
    /\ nreaders = 0
    /\ writer' = t
    /\ UNCHANGED <<nreaders, readLocked, writLocked>>

\* The DEBUG store after a successful rlock or wlock.
SetReadLocked  == readLocked' = TRUE /\ UNCHANGED <<nreaders, writer, writLocked>>
SetWritLocked  == writLocked' = TRUE /\ UNCHANGED <<nreaders, writer, readLocked>>

\* Unlock that does not clear the writer when the writer unlocks.
UnlockKeepsWriter(t) ==
    /\ writer = t \/ nreaders > 0
    /\ nreaders' = IF writer = t THEN nreaders ELSE nreaders - 1
    /\ UNCHANGED <<writer, readLocked, writLocked>>

\* Unlock that drops a read hold even when the caller is the writer.
UnlockAlwaysDecrements(t) ==
    /\ writer = t \/ nreaders > 0
    /\ writer' = IF writer = t THEN NoThread ELSE writer
    /\ nreaders' = nreaders - 1
    /\ UNCHANGED <<readLocked, writLocked>>

(* RWMutex::unlock, pthread_rwlock_unlock succeeding: the writer releases  *)
(* its hold; any other caller drops one read hold.                         *)
Unlock(t) ==
    /\ writer = t \/ nreaders > 0
    /\ writer' = IF writer = t THEN NoThread ELSE writer
    /\ nreaders' = IF writer = t THEN nreaders ELSE nreaders - 1
    /\ UNCHANGED <<readLocked, writLocked>>

\* pthread_rwlock_unlock failing (nothing held): RWMutex::unlock throws.
UnlockFails(t) ==
    /\ writer # t /\ nreaders = 0
    /\ UNCHANGED rwvars

(* The DEBUG part of RWMutex::unlock after pthread_rwlock_unlock returned: *)
(* `if (mReadLocked) mReadLocked.store(false)`, the same for mWritLocked.  *)
ClearFlags ==
    /\ readLocked' = FALSE
    /\ writLocked' = FALSE
    /\ UNCHANGED <<nreaders, writer>>

RWMutexTypeOK ==
    /\ nreaders \in Nat
    /\ writer \in Threads \cup {NoThread}
    /\ readLocked \in BOOLEAN
    /\ writLocked \in BOOLEAN
====
