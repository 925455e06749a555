---------------------------- MODULE SemTimedWait ----------------------------
(***************************************************************************)
(* eular::Sem (src/utils/src/mutex.cpp), anonymous form, used by threads   *)
(* that post tokens and threads that take one with Sem::timedwait(ms),     *)
(* Sem::trywait or Sem::wait, whichever each call picks.                   *)
(* timedwait reads CLOCK_REALTIME, adds ms to the timespec and carries     *)
(* nanoseconds into seconds, then calls sem_timedwait with that absolute   *)
(* deadline, again after every EINTR.  glibc's sem_timedwait first checks  *)
(* the deadline (tv_nsec must be below 10^9, else EINVAL), then takes a    *)
(* token if there is one, else sleeps until a post or the deadline.        *)
(*                                                                         *)
(* Time: `now` is the clock in milliseconds and moves through the instants *)
(* in Instants; a call also reads a sub-millisecond part from SubMsNsec.   *)
(* Deadlines are (sec, nsec) records computed as the code computes them.   *)
(* CLOCK_REALTIME can be set (settimeofday, NTP stepping it) while a      *)
(* waiter sleeps, forwards or back; `mono` is the time that really passed. *)
(***************************************************************************)
EXTENDS Naturals

CONSTANTS Waiters,    \* threads calling timedwait, trywait or wait once each
          Posters,    \* threads calling post
          PostsEach,  \* posts per poster
          InitCount,  \* Sem(valBase): the initial count
          MsSet,      \* the timeouts callers pass, in ms
          SubMsNsec,  \* nanoseconds past the millisecond when the clock is read
          Instants,   \* the clock values, in ms
          CallInstants, \* the clock values at which waiters call, in Instants
          MaxClockSets  \* times the realtime clock is set

ASSUME /\ PostsEach \in Nat /\ InitCount \in Nat
       /\ MsSet \subseteq Nat /\ SubMsNsec \subseteq 0..999999
       /\ Instants \subseteq Nat /\ 0 \in CallInstants /\ CallInstants \subseteq Instants
       /\ MaxClockSets \in Nat

Billion == 1000 * 1000 * 1000

VARIABLES count,    \* the semaphore's value
          now,      \* CLOCK_REALTIME, ms
          mono,     \* time elapsed since the start, ms
          sets,     \* times the realtime clock has been set
          asked,    \* each timedwait's call: mono then, and its ms
          pc,       \* where each waiter is
          expire,   \* each waiter's deadline
          ret,      \* what timedwait returned
          posts     \* posts each poster has made

clock == <<now, mono, sets>>
vars == <<count, clock, pc, expire, asked, ret, posts>>

NoDeadline == [sec |-> 0, nsec |-> 0]
NoCall == [at |-> 0, ms |-> 0]

(* Sem::timedwait, lines computing `expire`: clock_gettime, then add ms    *)
(* and carry when tv_nsec > 10^9.                                          *)
Expire(nowMs, ns, ms) ==
    LET sec0  == nowMs \div 1000 + ms \div 1000
        nsec0 == (nowMs % 1000) * 1000000 + ns + (ms % 1000) * 1000000
    IN  IF nsec0 > Billion
           THEN [sec |-> sec0 + 1, nsec |-> nsec0 - Billion]
           ELSE [sec |-> sec0, nsec |-> nsec0]

\* The clock has reached deadline e (compared as (sec, nsec) pairs).
Reached(e) ==
    LET s == now \div 1000
        n == (now % 1000) * 1000000
    IN  s > e.sec \/ (s = e.sec /\ n >= e.nsec)

Init ==
    /\ count = InitCount
    /\ now = 0 /\ mono = 0 /\ sets = 0
    /\ asked = [w \in Waiters |-> NoCall]
    /\ pc = [w \in Waiters |-> "call"]
    /\ expire = [w \in Waiters |-> NoDeadline]
    /\ ret = [w \in Waiters |-> FALSE]
    /\ posts = [p \in Posters |-> 0]

\* Post with the bound on posts off by one.
PostPastBound(p) ==
    /\ posts[p] <= PostsEach
    /\ count' = count + 1
    /\ posts' = [posts EXCEPT ![p] = @ + 1]
    /\ UNCHANGED <<clock, pc, expire, asked, ret>>

\* Sem::post: sem_post, retried on EINTR.
Post(p) ==
    /\ posts[p] < PostsEach
    /\ count' = count + 1
    /\ posts' = [posts EXCEPT ![p] = @ + 1]
    /\ UNCHANGED <<clock, pc, expire, asked, ret>>

\* Sem::timedwait up to the sem_timedwait call.
Call(w) ==
    /\ pc[w] = "call"
    /\ \E ms \in MsSet, ns \in SubMsNsec :
          /\ expire' = [expire EXCEPT ![w] = Expire(now, ns, ms)]
          /\ asked' = [asked EXCEPT ![w] = [at |-> mono, ms |-> ms]]
    /\ pc' = [pc EXCEPT ![w] = "wait"]
    /\ UNCHANGED <<count, clock, ret, posts>>

Return(w, b) ==
    /\ pc' = [pc EXCEPT ![w] = "returned"]
    /\ ret' = [ret EXCEPT ![w] = b]

(* Sem::trywait: sem_trywait, retried on EINTR, takes a token or fails     *)
(* with EAGAIN at once.                                                    *)
TryWait(w) ==
    /\ pc[w] = "call"
    /\ IF count > 0 THEN count' = count - 1 /\ Return(w, TRUE)
                    ELSE UNCHANGED count /\ Return(w, FALSE)
    /\ UNCHANGED <<clock, expire, asked, posts>>

(* Sem::wait: the call, then sem_wait, retried on EINTR, sleeps until it   *)
(* can take a token.                                                       *)
Wait(w) ==
    /\ \/ pc[w] = "call" /\ pc' = [pc EXCEPT ![w] = "sleep"] /\ UNCHANGED <<count, ret>>
       \/ pc[w] = "sleep" /\ count > 0 /\ count' = count - 1 /\ Return(w, TRUE)
    /\ UNCHANGED <<clock, expire, asked, posts>>

\* A wait that ignores its deadline (sem_wait in place of sem_timedwait).
TimedWaitNoTimeout(w) ==
    /\ pc[w] = "wait"
    /\ \/ /\ expire[w].nsec >= Billion
          /\ Return(w, FALSE)
          /\ UNCHANGED count
       \/ /\ expire[w].nsec < Billion
          /\ count > 0
          /\ count' = count - 1
          /\ Return(w, TRUE)
    /\ UNCHANGED <<clock, expire, asked, posts>>

(* sem_timedwait and the EINTR loop around it; a retry reuses `expire`, so *)
(* it returns as the first call would have.                                *)
TimedWait(w) ==
    /\ pc[w] = "wait"
    /\ \/ /\ expire[w].nsec >= Billion                  \* EINVAL
          /\ Return(w, FALSE)
          /\ UNCHANGED count
       \/ /\ expire[w].nsec < Billion
          /\ count > 0
          /\ count' = count - 1
          /\ Return(w, TRUE)
       \/ /\ expire[w].nsec < Billion                   \* ETIMEDOUT
          /\ count = 0
          /\ Reached(expire[w])
          /\ Return(w, FALSE)
          /\ UNCHANGED count
    /\ UNCHANGED <<clock, expire, asked, posts>>

\* Time passes; waiters make their calls at instants of CallInstants.
Tick ==
    /\ \E t \in Instants :
          /\ t > now
          /\ (\E w \in Waiters : pc[w] = "call") => t \in CallInstants
          /\ now' = t
          /\ mono' = mono + (t - now)
    /\ UNCHANGED <<count, sets, pc, expire, asked, ret, posts>>

(* The realtime clock is set to another instant; the time that passed is   *)
(* unchanged.  sem_timedwait compares its deadline with the new value.     *)
SetClock ==
    /\ sets < MaxClockSets
    /\ \E t \in CallInstants \ {now} : now' = t
    /\ sets' = sets + 1
    /\ UNCHANGED <<count, mono, pc, expire, asked, ret, posts>>

(* Every poster is done and every waiter has returned, or sleeps in        *)
(* Sem::wait with no token left: that thread stays blocked for ever.       *)
Finished ==
    /\ \A p \in Posters : posts[p] = PostsEach
    /\ \A w \in Waiters : pc[w] = "returned" \/ (pc[w] = "sleep" /\ count = 0)

Terminated == Finished /\ UNCHANGED vars

Next ==
    \/ \E p \in Posters : Post(p)
    \/ \E w \in Waiters : Call(w) \/ TimedWait(w) \/ TryWait(w) \/ Wait(w)
    \/ Tick \/ SetClock
    \/ Terminated

(* Threads run and the clock moves: every waiter and poster step and Tick *)
(* are weakly fair; nothing forces the clock to be set.                    *)
Spec ==
    /\ Init /\ [][Next]_vars
    /\ \A w \in Waiters : WF_vars(Call(w) \/ TimedWait(w) \/ TryWait(w) \/ Wait(w))
    /\ \A p \in Posters : WF_vars(Post(p))
    /\ WF_vars(Tick)

-----------------------------------------------------------------------------

TypeOK ==
    /\ count \in Nat
    /\ now \in Instants /\ mono \in Nat /\ sets \in 0..MaxClockSets
    /\ asked \in [Waiters -> [at : Nat, ms : MsSet \cup {0}]]
    /\ pc \in [Waiters -> {"call", "wait", "sleep", "returned"}]
    /\ expire \in [Waiters -> [sec : Nat, nsec : Nat]]
    /\ ret \in [Waiters -> BOOLEAN]
    /\ posts \in [Posters -> 0..PostsEach]

(* Every Sem::timedwait returns, whether a post arrives or another waiter  *)
(* (a trywait, a wait, a timedwait) takes the only token: once the clock  *)
(* passes the deadline the code computed, sem_timedwait gives up.          *)
TimedWaitReturns == \A w \in Waiters : pc[w] = "wait" ~> pc[w] = "returned"

(* timedwait returns false only once its timeout has passed, as the spec *)
(* says: "reports timeout if the deadline elapses".  Two things in the     *)
(* code break it.  The carry test `tv_nsec > 10^9` leaves tv_nsec = 10^9   *)
(* when the clock's nanoseconds plus (ms % 1000) * 10^6 make exactly       *)
(* 10^9, and sem_timedwait then fails with EINVAL at once.  And the        *)
(* deadline is on CLOCK_REALTIME, so a clock set forward while the waiter  *)
(* sleeps ends the wait before ms have passed.                             *)
NoEarlyTimeout ==
    \A w \in Waiters : pc[w] = "returned" /\ ~ret[w] => mono - asked[w].at >= asked[w].ms
=============================================================================
