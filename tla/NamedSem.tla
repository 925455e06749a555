------------------------------ MODULE NamedSem ------------------------------
(***************************************************************************)
(* The named form of eular::Sem (src/utils/src/mutex.cpp) over its life:   *)
(* Sem(path, val) calls sem_open(path, O_CREAT | O_RDWR, 0664, val), which *)
(* creates the semaphore with value val, or opens the existing one and     *)
(* ignores val; ~Sem calls sem_close, then sem_unlink(mFilePath).  A       *)
(* kernel semaphore lives while its name exists or a handle is open.       *)
(*                                                                         *)
(* Each instance in Instances is one Sem object on the same path, in its   *)
(* own process: it is constructed, posts (Posters) or trywaits (the        *)
(* others) once, and is destroyed.                                         *)
(***************************************************************************)
EXTENDS Naturals, FiniteSets

CONSTANTS Instances,  \* Sem objects constructed on one path
          Posters,    \* the instances that post; the others trywait
          Val         \* the val every instance passes

ASSUME Posters \subseteq Instances /\ Val \in Nat

VARIABLES named,    \* the path names a semaphore
          kcount,   \* that semaphore's value
          handles,  \* handles open on it
          pc,       \* where each instance is
          atOpen    \* per instance: alone at construction, and the value it found

vars == <<named, kcount, handles, pc, atOpen>>

Init ==
    /\ named = FALSE
    /\ kcount = 0
    /\ handles = 0
    /\ pc = [i \in Instances |-> "new"]
    /\ atOpen = [i \in Instances |-> [alone |-> FALSE, value |-> 0]]

Goto(i, l) == pc' = [pc EXCEPT ![i] = l]

(* Sem::Sem(semPath, val): sem_open with O_CREAT creates the semaphore at  *)
(* val if the name does not exist, else opens it as it is.  mFilePath is   *)
(* never assigned: it stays the empty string.                              *)
Construct(i) ==
    /\ pc[i] = "new"
    /\ named' = TRUE
    /\ kcount' = IF named THEN kcount ELSE Val
    /\ handles' = handles + 1
    /\ atOpen' = [atOpen EXCEPT ![i] = [alone |-> handles = 0, value |-> kcount']]
    /\ Goto(i, "open")

\* Sem::post and Sem::trywait, each once.
Use(i) ==
    /\ pc[i] = "open"
    /\ IF i \in Posters
          THEN kcount' = kcount + 1
          ELSE kcount' = IF kcount > 0 THEN kcount - 1 ELSE kcount
    /\ Goto(i, "used")
    /\ UNCHANGED <<named, handles, atOpen>>

(* Sem::~Sem, named branch: sem_close, then sem_unlink(mFilePath.c_str()), *)
(* which names "" and fails with ENOENT: the path keeps its semaphore.      *)
Destroy(i) ==
    /\ pc[i] = "used"
    /\ handles' = handles - 1
    /\ Goto(i, "destroyed")
    /\ UNCHANGED <<named, kcount, atOpen>>

Finished == \A i \in Instances : pc[i] = "destroyed"

Terminated == Finished /\ UNCHANGED vars

Next == (\E i \in Instances : Construct(i) \/ Use(i) \/ Destroy(i)) \/ Terminated

Spec == Init /\ [][Next]_vars /\ \A i \in Instances : WF_vars(Construct(i) \/ Use(i) \/ Destroy(i))

-----------------------------------------------------------------------------

TypeOK ==
    /\ named \in BOOLEAN
    /\ kcount \in Nat
    /\ handles \in 0..Cardinality(Instances)
    /\ pc \in [Instances -> {"new", "open", "used", "destroyed"}]
    /\ atOpen \in [Instances -> [alone : BOOLEAN, value : Nat]]

(* A Sem constructed while no other instance on its path is alive starts   *)
(* at the val it was given: the spec has ~Sem remove the name ("removed by *)
(* whichever instance destroys it"), so a later sem_open creates afresh.   *)
(* With mFilePath never set, ~Sem unlinks "" and the next Sem(path, val)   *)
(* inherits the count the previous processes left.                        *)
FreshOpenStartsAtVal ==
    \A i \in Instances : pc[i] # "new" /\ atOpen[i].alone => atOpen[i].value = Val
====
