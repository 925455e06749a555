# TLA+ models of the Alias synchronisation core

This directory holds TLA+ models of the synchronisation layer of the repository:

- `src/utils/src/mutex.cpp` and `src/utils/include/utils/mutex.h`;
- the RSA chunking and key lifecycle code in `src/crypto/rsa.cpp`;
- the MySQL connection wrapper in `src/sqlutils/sql_conn.cpp`;
- the workload of `src/test/test_rwmutex.cc`.

Each model is checked with TLC. Every module starts with a comment that names the code it translates, and `PROJECT.json` maps each definition to its source lines.

## 1. The system (inventory)

| Part | Source | State | Operations | Interacts with |
|---|---|---|---|---|
| `Mutex` | mutex.cpp 21-78 | glibc futex word: owner, 0 or FUTEX_OWNER_DIED (robust, error-checking) | ctor, `lock` (EDEADLK throws, EOWNERDEAD repaired → 0), `unlock` (EPERM ignored), `trylock` (raw code), dtor (EBUSY/unlock loop) | `AutoLock`, `Condition`, threads that may die |
| `RecursiveMutex` | mutex.cpp 80-130 | owner + `__count` (≤ UINT_MAX) | ctor, `lock` (EAGAIN at the limit, EOWNERDEAD repaired), `unlock`, `trylock`, dtor | `AutoLock` |
| `RWMutex` | mutex.cpp 137-184 | glibc reader count + writer id (reader-preferring); DEBUG flags `mReadLocked`, `mWritLocked` | `rlock` (EAGAIN taken as success), `wlock`, `unlock` (throws on error, then clears the flags) | `RDAutoLock`, `WRAutoLock` |
| `Sem` anonymous | mutex.cpp 202-272 | a count | ctor (`uint8_t`), `post`, `wait`, `trywait`, `timedwait` (absolute deadline from CLOCK_REALTIME, EINTR retry) | `ThreadBase`/`Thread` handshakes |
| `Sem` named | mutex.cpp 186-224 | a kernel semaphore named by a path; its count | ctor (`sem_open` O_CREAT, val ignored if the name exists), dtor (`sem_close`, `sem_unlink(mFilePath)`) | other processes on the same path |
| guards | mutex.h 37-137 | none | ctor locks, dtor unlocks (`AutoLock` ignores lock's return) | every lock |
| `once_flag` / `call_once` | mutex.h 176-211 | `pthread_once_t`; thread-local callable pointers declared in `eular::detail` | `call_once` | `pthread_once` and an `__once_proxy` not defined in the repository |
| `Condition` | condition.h | `pthread_cond_t` | wait, timedWait, signal, broadcast | `Mutex` (header only in the repository) |
| `ThreadBase` / `Thread` | thread.h | tid, status, exit flag, join policy, start semaphores | start, stop, forceExit, detach, join | `Sem` (header only) |
| `Rsa` | rsa.cpp | key handles, key files | chunked `public/privateEncode/Decode`, space helpers, `GenerateKey`, ctor (`reinit`), dtor (`destroy`) | OpenSSL, the file system |
| `MySqlConn` / `MySqlRes` | sql_conn.cpp | handle, `mSqlInit`, function-static query buffers; a result set and `mRow` | connect, select/insert/update/delete, `getAffectedRows`, `getSqlRes`, close; `next`, the getters | libmysqlclient |

The hard behaviours are:

- threads interleaving on every lock;
- a thread dying while it holds a robust mutex;
- trylock's raw return codes;
- reader/writer interleavings and the DEBUG flags that are stored outside the lock;
- the deadline arithmetic of `timedwait`, and CLOCK_REALTIME being set while a waiter sleeps;
- the named semaphore's lifetime across processes;
- the off-by-one-prone chunk loops of `Rsa`, and `GenerateKey` failing between the two key files;
- the function-static query buffers that every `MySqlConn` shares, calls on a closed connection, and `MySqlRes` getters with no current row.

## 2. Modules

| Module | Models | Composed by |
|---|---|---|
| `Mutex` | the futex word of `Mutex`; `Lock(t, r)`, `TryLock(t, r)`, `Unlock(t)`, `ThreadExit(t)` (the robust attribute), parameterised by the return code r | `MutexCounter` (`M == INSTANCE Mutex`) |
| `MutexCounter` | the spec's counter workload (§8) through `AutoLock<Mutex>`; threads in `Mortal` may die, threads in `TryLockers` use trylock | `MCMutexCounter` |
| `RecursiveMutex` | owner and `__count`, `RLock`, `RTryLock`, `RUnlock`, `RThreadExit`; `MaxCount` stands for UINT_MAX | `RecursiveCounter` |
| `RecursiveCounter` | the counter workload with `Nest` nested `AutoLock<RecursiveMutex>` scopes per round | `MCRecursiveCounter` |
| `SemTimedWait` | anonymous `Sem`: ctor, `post`, `wait`, `trywait`, and `timedwait` with the deadline computed as the code computes it, and a clock | `MCSemTimedWait` |
| `NamedSem` | named `Sem` over its life in several processes: `sem_open`, post/trywait, `~Sem` | `MCNamedSem` |
| `RWMutex` | glibc rwlock (reader count, writer) and the DEBUG flags | `RWCounter` (`L == INSTANCE RWMutex`) |
| `RWCounter` | test_rwmutex: readers print a two-cell buffer, writers rewrite it, inside RD/WRAutoLock | `MCRWCounter` |
| `ExclusiveLock` | the abstract promise of an exclusive lock (spec.md §3, §4.1, §7): the set of holders, `Acquire`, `Release`, `Abandon` | `MutexCounter`, `RecursiveCounter` (`Abstract == INSTANCE ExclusiveLock WITH holders <- CriticalSection`) |
| `SqlConn` | `MySqlConn`: both constructors, `ConnectSql`, the four statement functions split into formatting into their static buffer and `mysql_query`, `getAffectedRows`, `getSqlRes`, `CloseConn`, the destructor; `MySqlRes`'s `next` and getters over the rows left and `mRow`; a null handle, result or row ends the process | `MCSqlConn` |
| `RsaKeys` | `Rsa::GenerateKey` writing the two key files one after the other, the constructor's `reinit` loading them, `destroy`; keys are numbered by the `GenerateKey` call that made their pair | run directly (`MaxGen` in the cfg) |
| `RsaChunking` | the chunk loops of the four encode/decode functions as RECURSIVE operators over lengths, reached through the BufferPtr/ByteBuffer forms, OpenSSL's length and padding checks as the environment | `MCRsaChunking` |

How the modules correspond to the code:

- **Component state.** A component module's VARIABLES are the primitive's state. For the mutexes this is the glibc futex word and `__count`, and for the rwlock glibc's reader count and writer.
- **Calls.** Each wrapper call is one action, and the pthread return code is its parameter `r`.
- **Blocking.** A blocking call is an action that is not enabled until it can return.
- **Client threads.** Client modules give every thread a `pc`. Each action is one atomic step of the code: a lock call, a read or write of shared data, a DEBUG flag store, an unlock.
- **End of a run.** `Terminated` is the stutter step taken once every thread has finished.

## 3. Runs

| Run | Checks | Shows |
|---|---|---|
| `mutex_counter` (pass, 14k states) | TypeOK, NoLostUpdate, Termination, LockRefinement | The robust mutex is recovered after a holder dies, so no update is lost. No thread blocks for ever. The threads inside their `AutoLock` scope refine `ExclusiveLock`. |
| `mutex_trylock_ownerdead` (violation) | OwnershipKnown | trylock hands back EOWNERDEAD with the mutex owned. A caller that reads nonzero as "busy" keeps it unknowingly. |
| `recursive_counter` (pass, 25k states) | TypeOK, NoLostUpdate, Termination, LockRefinement | An inner unlock keeps the mutex. A new owner starts at depth 1 after a death. EAGAIN at the depth limit is reached. The threads inside at least one scope refine `ExclusiveLock`. |
| `sem_timedwait` (pass, 125k states) | TypeOK, TimedWaitReturns | Every `timedwait` returns, also when another waiter took the only token or CLOCK_REALTIME was set back. A `wait` that lost the token stays asleep, as in the program. |
| `sem_timedwait_edge` (violation, `MaxClockSets = 0`) | NoEarlyTimeout | tv_nsec == 10^9 is not carried: `timedwait(999)` called 1 ms into a second builds that deadline, sem_timedwait fails at once with EINVAL, and timedwait returns false with no time passed. |
| `sem_timedwait_clock` (violation, `MaxClockSets = 1`) | NoEarlyTimeout | The deadline is absolute on CLOCK_REALTIME: a waiter calls `timedwait(999)` at 0 ms, the clock is set to 1001 ms, and the wait times out with no time passed. |
| `rsa_chunking` (pass) | TypeOK, PublicRoundTrip | privateDecode undoes publicEncode, for every length ≤ 40 and every padding. |
| `rsa_private_roundtrip` (violation) | PrivateRoundTrip | privateEncode's last call uses metaSize, not the remaining length. |
| `rw_counter` (pass, 366k states) | TypeOK, NoTornRead, NoLostUpdate, Termination | Readers never see a torn buffer and writers never lose a round. The reader-preferring lock starves no writer within the bound. |
| `named_sem_unlink` (violation) | FreshOpenStartsAtVal | `~Sem` unlinks the empty `mFilePath`, so the next `Sem(path, val)` inherits the previous count. |
| `sql_static_buffer` (violation) | QuerySentIsFormatted | Two threads call `InsertSql` on their own connections. The second formats into the shared static buffer before the first's `mysql_query`, so the first connection sends the second's statement. |
| `rsa_key_pair` (violation) | KeyPairMatches | `GenerateKey` replaces the public key file and then fails to open the private one. The next `Rsa` loads the new public key and the old private key, and `reinit` returns true. |

### Refinement

`ExclusiveLock` states what the spec promises of an exclusive mutex, with no implementation detail:

- at most one holder;
- a thread acquires only when nobody holds the lock;
- the holder leaves by releasing or by dying;
- a holder eventually leaves (weak fairness on `Release \/ Abandon`).

`MutexCounter` and `RecursiveCounter` instantiate it with `holders` mapped to the set of threads inside the guard's scope and check `Abstract!Spec` as the property `LockRefinement`. The mapping is on the client's critical section, not on the futex word. A wrapper that reports EOWNERDEAD as success without taking ownership leaves `owner` unchanged, yet lets two threads in, so the mapping catches it (the mutant `LockRecoverUnowned`). For the recursive mutex, an inner unlock that releases (`RUnlockReleases`) is caught the same way.

Every property of a passing run has a mutant in `PROJECT.json`: a variant of one mapped definition, written as a plausible bug (a dropped guard, an off-by-one, a missing reset), under which TLC finds the property violated.

## 4. Bounds

- **Counter workloads.** Three threads run two rounds each: one thread may die and one uses trylock. Every return code of `lock` and `trylock` occurs, including EOWNERDEAD on both paths. The recursive model uses two nested scopes and `MaxCount = 2`, so the depth limit is reached.
- **timedwait.** Timeouts are 999 and 1000 ms. The sub-millisecond part of the clock is 0 or 0.5 ms. Calls are made at 0, 1 and 1001 ms, which covers the exact 10^9 sum, the carry and no carry. The clock's last instant lies beyond every deadline that can be set. In the pass run and `sem_timedwait_clock` the realtime clock can be set once (`MaxClockSets = 1`) to a call instant, forward or back; `sem_timedwait_edge` never sets it, so its trace is the carry case alone. `mono` counts the time that really passed. One set is enough to move a deadline in either direction, and the bound keeps `mono` finite.
- **RSA.** A 16-byte modulus gives chunk sizes of 5, 16 and 14 bytes. Lengths 1..40 include exact multiples of each chunk size and of the block size.
- **rwlock.** Two readers and two writers run two rounds each, so readers overlap and writers wait on readers and on each other.
- **Semaphore waits.** One post for two waiters that each pick `timedwait`, `trywait` or `wait`. So a waiter can find the token gone, a `wait` can sleep for ever, and a `timedwait` has to time out.
- **MySqlConn.** Two threads make three calls each. Argument lengths are 10 and 999. Every function accepts the first. `SelectSql`, `InsertSql` and `UpdateSql` refuse the second; `DeleteSql` accepts it, since its 24-byte format plus 999 is 1023, below the 1024-byte buffer. This is enough for two connected threads to be inside the same statement function at once, and for a call after `CloseConn`. A SELECT returns 0 or 1 rows (`MaxRows = 1`), so `next()` both finds a row and runs off the end.
- **RSA keys.** Two `GenerateKey` calls: the second can fail after the first succeeded, which is the smallest case with two pairs on disk.

## 5. Fairness

- Threads have weak fairness on their own steps, because the OS scheduler runs every runnable thread.
- Dying (`Die`) has no fairness: the code never forces it.
- The clock's `Tick` is weakly fair. Setting the clock (`SetClock`) is an outside event with no fairness.
- In `SqlConn`, each thread's steps are weakly fair. The server's answers (connect or query failing) are nondeterministic choices with no fairness.
- Termination and TimedWaitReturns therefore say that no thread can be left blocked, not that the scheduler is kind.

## 6. Not modelled

- **Destruction.** `~Mutex` and `~RecursiveMutex` loop on EBUSY. glibc's destroy never returns EBUSY for a robust mutex, so the loop body never runs and the destructor is one `pthread_mutex_destroy`. No client in the repository destroys a mutex while it is in use. The anonymous `~Sem` (`sem_destroy`, `delete`) likewise only ends the object.
- **`uint8_t` narrowing** of `Sem`'s initial value happens at the call site. No caller in the repository passes a value above 255.
- **rwlock upgrade.** A reader that calls `wlock` deadlocks on glibc's rwlock, but no caller in the repository does it.
- **rwlock reader overflow.** `rlock`'s EAGAIN path needs 2^30 concurrent readers. It is listed as a hazard.
- **rwlock DEBUG flags.** `RWCounter` keeps the flag stores as separate steps after the pthread calls. An unlock clears both flags while another reader still holds the lock, but the flags are atomics that nothing in the repository reads, so no property can observe them.
- **Null pointers in `MySqlConn`/`MySqlRes`.** `SqlConn` reaches the crash of `InsertSql`/`UpdateSql`/`DeleteSql`/`getSqlRes` after `CloseConn`, and of a getter before `next()` or after its last row (state `crashed`). No run checks them: each is a single-threaded sequence a unit test reaches, and the runs go to the buffer race and the key files. They are listed as hazards.
- **Rsa key text and use of unloaded keys.** `reinit` copies the key files into `mPubKeyStr`/`mPriKeyStr` through a 256-byte buffer that a full chunk leaves unterminated; nothing in the tree reads these strings, so they are not modelled. An `Rsa` whose `reinit` failed keeps null keys that the encode functions pass to OpenSSL; `RsaKeys` reaches such objects but no run checks their use. Both are listed as hazards.
- **`call_once`.** `call_once` passes the unqualified `&__once_proxy` to `pthread_once` (mutex.h:205) and clears the unqualified `__once_callable`/`__once_call` (209-210). Their only declarations are in `eular::detail` (191-195): `__once_proxy` is `extern "C"` there, and neither it nor the two thread-local pointers is defined anywhere in the repository. The only `__once_proxy` a build could link is libstdc++'s, which calls `std::__once_call`, not the pointer set at line 203. What the runner of `pthread_once` executes is therefore not determined by this code, and a model would have to assume it.
- **The RSA wrappers' buffers.** The BufferPtr and ByteBuffer forms call `resize(getEncodeSpaceByDataLen(...) + 1)` and write through `data()`. `ByteBuffer::resize` (buffer.h:49) only clamps to the capacity the buffer already has. That capacity is set by ByteBuffer's constructors and `reserve`, which are not in the repository. So whether the blocks fit cannot be decided from this code, and the space helpers that size the request are not modelled. It is listed as a hazard.
- **`Condition` and `ThreadBase`/`Thread`.** Only their headers are in the repository: `condition.h` and `thread.h` declare the classes, but no implementation of `wait`, `start`, `join` or `detach` exists anywhere in the tree. A model would describe the spec, not this code.
- **Column values, utility headers** (`ByteBuffer`, `BitMap`, code conversion). Column text and its conversion by `Atoi`/`Atof`/`Str2Time` is formatting; the headers are single-threaded containers that the spec puts out of scope. The empty-bodied private `Rsa` wrappers have nothing to model.
