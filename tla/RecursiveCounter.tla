-------------------------- MODULE RecursiveCounter --------------------------
(***************************************************************************)
(* The counter workload run against eular::RecursiveMutex with nested      *)
(* scopes, as code that calls a locking helper from inside a locked        *)
(* region does: a round enters Nest scopes of AutoLock<RecursiveMutex>,    *)
(* copies the counter in the innermost one, leaves it, writes the copy     *)
(* plus one in the scope around it, and leaves the rest.  The write is     *)
(* safe only if leaving the inner scope kept the mutex held.  AutoLock     *)
(* ignores the code RecursiveMutex::lock returns.  The outermost scope of  *)
(* a round may instead be taken with trylock by a thread in TryLockers,    *)
(* which skips the round on a nonzero code; a thread in Mortal may exit    *)
(* abnormally anywhere.                                                    *)
(***************************************************************************)
EXTENDS Naturals, Functions

CONSTANTS Threads, NoThread, OwnerDied, MaxCount,
          Mortal, TryLockers,
          Nest,     \* scopes per round
          Rounds    \* rounds per thread

ASSUME /\ Mortal \subseteq Threads /\ TryLockers \subseteq Threads
       /\ Nest \in Nat /\ Nest >= 2 /\ Rounds \in Nat

VARIABLES rowner, rcount,  \* the mutex (module RecursiveMutex)
          pc,              \* where each thread is
          depth,           \* AutoLock scopes each thread is inside
          tmp, counter,
          incs,            \* increments each thread has written (history)
          iter             \* rounds each thread has finished

vars == <<rowner, rcount, pc, depth, tmp, counter, incs, iter>>

R == INSTANCE RecursiveMutex

Init ==
    /\ R!RecursiveMutexInit
    /\ pc = [t \in Threads |-> "enter"]
    /\ depth = [t \in Threads |-> 0]
    /\ tmp = [t \in Threads |-> 0]
    /\ counter = 0
    /\ incs = [t \in Threads |-> 0]
    /\ iter = [t \in Threads |-> 0]

Goto(t, l) == pc' = [pc EXCEPT ![t] = l]

\* After entering one more scope, the round reads once all Nest are entered.
Deeper(t) ==
    /\ depth' = [depth EXCEPT ![t] = @ + 1]
    /\ Goto(t, IF depth[t] + 1 = Nest THEN "read" ELSE "enter")

(* AutoLock<RecursiveMutex>::AutoLock: lock() and enter the scope whatever *)
(* it returned.                                                            *)
EnterScope(t) ==
    /\ pc[t] = "enter"
    /\ iter[t] < Rounds
    /\ \E r \in {"OK", "EAGAIN"} : R!RLock(t, r)
    /\ Deeper(t)
    /\ UNCHANGED <<tmp, counter, incs, iter>>

\* The outermost scope by trylock; a nonzero code skips the round.
TryEnterRound(t) ==
    /\ pc[t] = "enter"
    /\ depth[t] = 0
    /\ t \in TryLockers
    /\ iter[t] < Rounds
    /\ \E r \in {"OK", "EAGAIN", "EBUSY", "EOWNERDEAD"} :
          /\ R!RTryLock(t, r)
          /\ IF r = "OK"
                THEN Deeper(t) /\ UNCHANGED iter
                ELSE UNCHANGED <<pc, depth>> /\ iter' = [iter EXCEPT ![t] = @ + 1]
    /\ UNCHANGED <<tmp, counter, incs>>

ReadCounter(t) ==
    /\ pc[t] = "read"
    /\ tmp' = [tmp EXCEPT ![t] = counter]
    /\ Goto(t, "inner")
    /\ UNCHANGED <<rowner, rcount, depth, counter, incs, iter>>

\* ~AutoLock of one scope: RecursiveMutex::unlock.
Shallower(t) ==
    /\ R!RUnlock(t)
    /\ depth' = [depth EXCEPT ![t] = @ - 1]

LeaveInner(t) ==
    /\ pc[t] = "inner"
    /\ Shallower(t)
    /\ Goto(t, "write")
    /\ UNCHANGED <<tmp, counter, incs, iter>>

WriteCounter(t) ==
    /\ pc[t] = "write"
    /\ counter' = tmp[t] + 1
    /\ incs' = [incs EXCEPT ![t] = @ + 1]
    /\ Goto(t, "leave")
    /\ UNCHANGED <<rowner, rcount, depth, tmp, iter>>

\* Leave the remaining scopes; leaving the last ends the round.
LeaveScope(t) ==
    /\ pc[t] = "leave"
    /\ Shallower(t)
    /\ IF depth[t] = 1
          THEN Goto(t, "enter") /\ iter' = [iter EXCEPT ![t] = @ + 1]
          ELSE UNCHANGED <<pc, iter>>
    /\ UNCHANGED <<tmp, counter, incs>>

Return(t) ==
    /\ pc[t] = "enter"
    /\ iter[t] = Rounds
    /\ Goto(t, "exit")
    /\ UNCHANGED <<rowner, rcount, depth, tmp, counter, incs, iter>>

Exit(t) ==
    /\ pc[t] = "exit"
    /\ R!RThreadExit(t)
    /\ Goto(t, "done")
    /\ UNCHANGED <<depth, tmp, counter, incs, iter>>

Die(t) ==
    /\ t \in Mortal
    /\ pc[t] \in {"enter", "read", "inner", "write", "leave"}
    /\ R!RThreadExit(t)
    /\ Goto(t, "dead")
    /\ UNCHANGED <<depth, tmp, counter, incs, iter>>

Finished == \A t \in Threads : pc[t] \in {"done", "dead"}

Terminated == Finished /\ UNCHANGED vars

Run(t) ==
    \/ EnterScope(t) \/ TryEnterRound(t) \/ ReadCounter(t) \/ LeaveInner(t)
    \/ WriteCounter(t) \/ LeaveScope(t) \/ Return(t) \/ Exit(t)

Next ==
    \/ \E t \in Threads : Run(t) \/ Die(t)
    \/ Terminated

Spec == Init /\ [][Next]_vars /\ \A t \in Threads : WF_vars(Run(t))

-----------------------------------------------------------------------------

TypeOK ==
    /\ R!RecursiveMutexTypeOK
    /\ pc \in [Threads -> {"enter", "read", "inner", "write", "leave",
                           "exit", "done", "dead"}]
    /\ depth \in [Threads -> 0..Nest]
    /\ tmp \in [Threads -> Nat]
    /\ counter \in Nat
    /\ incs \in [Threads -> 0..Rounds]
    /\ iter \in [Threads -> 0..Rounds]

(* No lost update: a copy taken at depth Nest and written back at depth    *)
(* Nest - 1 is never overwritten in between, so the counter equals the    *)
(* increments written.  It needs RecursiveMutex::unlock of an inner scope *)
(* to keep the mutex while outer scopes remain, for every count glibc can *)
(* reach.                                                                 *)
NoLostUpdate == counter = SumFunction(incs)

(* Every thread ends: nesting, dead holders and trylock callers never      *)
(* leave a thread blocked in RecursiveMutex::lock for ever.                *)
Termination == <>Finished
\* The threads inside at least one AutoLock scope.
CriticalSection == {t \in Threads : depth[t] > 0 /\ pc[t] # "dead"}

Abstract == INSTANCE ExclusiveLock WITH holders <- CriticalSection

(* Nested AutoLock<RecursiveMutex> scopes implement one exclusive lock per *)
(* thread: another thread enters only once the holder has left its        *)
(* outermost scope or died, and a holder always leaves.  An inner scope's  *)
(* unlock, or a lock that returned EAGAIN at the count limit followed by   *)
(* its guard's unlock, must not let anyone in.                             *)
LockRefinement == Abstract!Spec
=============================================================================
