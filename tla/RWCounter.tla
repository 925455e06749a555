----------------------------- MODULE RWCounter -----------------------------
(***************************************************************************)
(* The workload of src/test/test_rwmutex.cc on eular::RWMutex: reader      *)
(* threads print the shared buffer inside RDAutoLock, writer threads       *)
(* rewrite it inside WRAutoLock.  The buffer is two cells written one      *)
(* after the other (snprintf writes byte by byte) and read one after the   *)
(* other (printf); the writers also bump the number they write, here kept  *)
(* in the buffer itself so that two writers share it.  Each thread does    *)
(* Rounds rounds; the guard's constructor runs rlock/wlock, its destructor *)
(* unlock, and the DEBUG flag stores follow each pthread call.             *)
(***************************************************************************)
EXTENDS Naturals, Functions

CONSTANTS Readers, Writers, NoThread, Rounds

ASSUME Readers \cap Writers = {} /\ Rounds \in Nat

Threads == Readers \cup Writers

VARIABLES nreaders, writer, readLocked, writLocked,  \* the RWMutex
          buf,    \* the two cells of the buffer
          tmp,    \* the number a writer read
          seen,   \* the two cells a reader read
          pc, iter,
          incs    \* rounds each writer has written (history)

vars == <<nreaders, writer, readLocked, writLocked, buf, tmp, seen, pc, iter, incs>>
lockVars == <<nreaders, writer, readLocked, writLocked>>
dataVars == <<buf, tmp, seen, incs>>

L == INSTANCE RWMutex

Init ==
    /\ L!RWMutexInit
    /\ buf = <<0, 0>>
    /\ tmp = [w \in Writers |-> 0]
    /\ seen = [r \in Readers |-> <<0, 0>>]
    /\ pc = [t \in Threads |-> "lock"]
    /\ iter = [t \in Threads |-> 0]
    /\ incs = [w \in Writers |-> 0]

Goto(t, l) == pc' = [pc EXCEPT ![t] = l]

\* RDAutoLock / WRAutoLock constructor: the pthread call of rlock / wlock.
Lock(t) ==
    /\ pc[t] = "lock"
    /\ iter[t] < Rounds
    /\ IF t \in Readers THEN L!RdLock(t) ELSE L!WrLock(t)
    /\ Goto(t, "flag")
    /\ UNCHANGED <<dataVars, iter>>

\* The DEBUG store ending rlock / wlock.
Flag(t) ==
    /\ pc[t] = "flag"
    /\ IF t \in Readers THEN L!SetReadLocked ELSE L!SetWritLocked
    /\ Goto(t, IF t \in Readers THEN "read1" ELSE "read")
    /\ UNCHANGED <<dataVars, iter>>

\* printf of the buffer, one cell at a time.
ReadCell(r) ==
    /\ \/ pc[r] = "read1" /\ seen' = [seen EXCEPT ![r][1] = buf[1]] /\ Goto(r, "read2")
       \/ pc[r] = "read2" /\ seen' = [seen EXCEPT ![r][2] = buf[2]] /\ Goto(r, "unlock")
    /\ UNCHANGED <<lockVars, buf, tmp, iter, incs>>

\* ++num, then snprintf of the new number, one cell at a time.
WriteStep(w) ==
    /\ \/ pc[w] = "read"   /\ tmp' = [tmp EXCEPT ![w] = buf[1]] /\ Goto(w, "write1")
                          /\ UNCHANGED <<buf, incs>>
       \/ pc[w] = "write1" /\ buf' = [buf EXCEPT ![1] = tmp[w] + 1] /\ Goto(w, "write2")
                          /\ incs' = [incs EXCEPT ![w] = @ + 1] /\ UNCHANGED tmp
       \/ pc[w] = "write2" /\ buf' = [buf EXCEPT ![2] = tmp[w] + 1] /\ Goto(w, "unlock")
                          /\ UNCHANGED <<tmp, incs>>
    /\ UNCHANGED <<lockVars, seen, iter>>

\* The guard's destructor: pthread_rwlock_unlock; a failure throws.
Unlock(t) ==
    /\ pc[t] = "unlock"
    /\ \/ L!Unlock(t) /\ Goto(t, "clear")
       \/ L!UnlockFails(t) /\ Goto(t, "threw")
    /\ UNCHANGED <<dataVars, iter>>

\* The DEBUG stores ending unlock; the round is over.
Clear(t) ==
    /\ pc[t] = "clear"
    /\ L!ClearFlags
    /\ Goto(t, "lock")
    /\ iter' = [iter EXCEPT ![t] = @ + 1]
    /\ UNCHANGED dataVars

Return(t) ==
    /\ pc[t] = "lock"
    /\ iter[t] = Rounds
    /\ Goto(t, "done")
    /\ UNCHANGED <<lockVars, dataVars, iter>>

Finished == \A t \in Threads : pc[t] \in {"done", "threw"}

Terminated == Finished /\ UNCHANGED vars

Run(t) ==
    \/ Lock(t) \/ Flag(t) \/ Unlock(t) \/ Clear(t) \/ Return(t)
    \/ t \in Readers /\ ReadCell(t)
    \/ t \in Writers /\ WriteStep(t)

Next == (\E t \in Threads : Run(t)) \/ Terminated

Spec == Init /\ [][Next]_vars /\ \A t \in Threads : WF_vars(Run(t))

-----------------------------------------------------------------------------

TypeOK ==
    /\ L!RWMutexTypeOK
    /\ buf \in [1..2 -> Nat]
    /\ tmp \in [Writers -> Nat]
    /\ seen \in [Readers -> [1..2 -> Nat]]
    /\ pc \in [Threads -> {"lock", "flag", "read1", "read2", "read", "write1",
                           "write2", "unlock", "clear", "done", "threw"}]
    /\ iter \in [Threads -> 0..Rounds]
    /\ incs \in [Writers -> 0..Rounds]

(* A reader never prints a torn buffer: the two cells it read inside       *)
(* RDAutoLock were written by the same writer round, whatever the other   *)
(* readers and writers did meanwhile.                                      *)
NoTornRead ==
    \A r \in Readers : pc[r] = "unlock" => seen[r][1] = seen[r][2]

(* No writer round is lost: with writers reading and rewriting the number  *)
(* under WRAutoLock, the buffer holds the number of rounds written.        *)
NoLostUpdate == buf[1] = SumFunction(incs)

(* Every reader and writer finishes its rounds: a reader-preferring lock  *)
(* with a bounded number of rounds starves no writer for ever, and no      *)
(* guard's unlock throws.                                                  *)
Termination == <>(\A t \in Threads : pc[t] = "done")
====
