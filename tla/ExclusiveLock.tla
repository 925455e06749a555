--------------------------- MODULE ExclusiveLock ---------------------------
(***************************************************************************)
(* What an exclusive lock promises the code that uses it (spec.md 3, 4.1, *)
(* 7): at any instant at most one thread holds it; a thread acquires it   *)
(* only when nobody holds it; a holder gives it up by releasing it or by  *)
(* terminating abnormally, after which the next acquisition is an         *)
(* ordinary one.  A holder that keeps running eventually gives it up.     *)
(* `holders` is a set so that an implementation that lets two threads in  *)
(* shows up as a step this specification does not allow.                  *)
(***************************************************************************)
CONSTANT Threads

VARIABLE holders

Init == holders = {}

Acquire(t) ==
    /\ holders = {}
    /\ holders' = {t}

Release(t) ==
    /\ holders = {t}
    /\ holders' = {}

\* The holder terminates abnormally; the lock is marked recoverable.
Abandon(t) ==
    /\ holders = {t}
    /\ holders' = {}

Next == \E t \in Threads : Acquire(t) \/ Release(t) \/ Abandon(t)

Spec == Init /\ [][Next]_holders /\ \A t \in Threads : WF_holders(Release(t) \/ Abandon(t))
====
